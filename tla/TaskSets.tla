------------------------------ MODULE TaskSets ------------------------------
(***************************************************************************)
(* The three ways in which boomer picks a task by its weight, given the    *)
(* same tasks: SmoothRoundRobinTaskSet, whose GetTask runs under its lock  *)
(* between calls of AddTask; the binary search of WeighingTaskSet over the *)
(* running sums of the weights; and getTask of the runner, a scan of the   *)
(* tasks that setTasks stored.                                             *)
(*                                                                         *)
(* The last two pick at random.  A roll is the random number; the          *)
(* properties quantify over all of them.                                   *)
(***************************************************************************)
EXTENDS Integers, Sequences, FiniteSets, Functions

CONSTANTS
  Weights,   \* weights of the tasks
  MaxTasks,  \* bound: tasks added
  MaxPicks   \* bound: calls of SmoothRoundRobinTaskSet.GetTask

ASSUME TaskSetAssumption ==
  Weights \subseteq Nat /\ MaxTasks \in Nat /\ MaxPicks \in Nat

VARIABLES
  tasks,    \* runner.tasks: the weight of each task
  added,    \* WeighingTaskSet: tasks AddTask kept, as positions in tasks
  index,    \* WeighingTaskSet: running sums of their weights
  offset,   \* WeighingTaskSet: their last sum
  rrTasks,  \* SmoothRoundRobinTaskSet: the tasks AddTask kept
  base,     \* history: base[i]: currentWeight of rrTasks[i] when the last one was added
  picks,    \* history: picks[i]: times GetTask returned rrTasks[i] since then
  calls     \* history: calls of GetTask

weighingVars == <<added, index, offset>>
roundRobinVars == <<rrTasks, base, picks>>
vars == <<tasks, weighingVars, roundRobinVars, calls>>

Init ==
  /\ tasks = << >>
  /\ added = << >> /\ index = << >> /\ offset = 0
  /\ rrTasks = << >> /\ base = << >> /\ picks = << >> /\ calls = 0

-----------------------------------------------------------------------------
(* AddTask of the task sets: a task without weight is ignored. *)

WeighingAddTask(weight) ==
  IF weight <= 0 THEN UNCHANGED weighingVars
  ELSE /\ added' = Append(added, Len(tasks) + 1)
       /\ offset' = offset + weight
       /\ index' = Append(index, offset')

RoundRobinAddTask(weight) ==
  IF weight <= 0 THEN UNCHANGED roundRobinVars
  ELSE /\ rrTasks' = Append(rrTasks, [weight |-> weight, currentWeight |-> 0,
                                      effectiveWeight |-> weight])
       /\ base' = [i \in DOMAIN rrTasks' |-> rrTasks'[i].currentWeight]
       /\ picks' = [i \in DOMAIN rrTasks' |-> 0]

AddTask(weight) ==
  /\ Len(tasks) < MaxTasks
  /\ WeighingAddTask(weight) /\ RoundRobinAddTask(weight)
  /\ tasks' = Append(tasks, weight)
  /\ UNCHANGED calls

-----------------------------------------------------------------------------
(* SmoothRoundRobinTaskSet.GetTask *)

TotalWeight == SumFunction([i \in DOMAIN rrTasks |-> rrTasks[i].effectiveWeight])

\* The weight a task is compared by: the loop raises it first.
Raised(t) == t.currentWeight + t.effectiveWeight

\* Mutant: the loop compares effectiveWeight instead of currentWeight.
Picked_ByWeight(i) ==
  \A j \in DOMAIN rrTasks :
    /\ rrTasks[j].effectiveWeight <= rrTasks[i].effectiveWeight
    /\ rrTasks[j].effectiveWeight = rrTasks[i].effectiveWeight => i <= j

\* The loop replaces its pick only by a task of larger weight, so it ends with
\* the first of the largest.
Picked(i) ==
  \A j \in DOMAIN rrTasks :
    /\ Raised(rrTasks[j]) <= Raised(rrTasks[i])
    /\ Raised(rrTasks[j]) = Raised(rrTasks[i]) => i <= j

Advance(t) ==
  [t EXCEPT !.currentWeight = Raised(t),
            !.effectiveWeight = IF t.effectiveWeight < t.weight THEN @ + 1 ELSE @]

\* Everyone advances, the pick pays the given weight.
Pick(i, paid) ==
  /\ rrTasks' = [j \in DOMAIN rrTasks |->
                  IF j # i THEN Advance(rrTasks[j])
                  ELSE [Advance(rrTasks[j]) EXCEPT !.currentWeight = @ - paid]]
  /\ picks' = [picks EXCEPT ![i] = @ + 1]

GetTask ==
  /\ Len(rrTasks) > 1 /\ calls < MaxPicks
  /\ \E i \in DOMAIN rrTasks : Picked(i) /\ Pick(i, TotalWeight)
  /\ calls' = calls + 1
  /\ UNCHANGED <<tasks, weighingVars, base>>

\* One task: it is returned and no weight changes.
GetOnlyTask ==
  /\ Len(rrTasks) = 1 /\ calls < MaxPicks
  /\ picks' = [picks EXCEPT ![1] = @ + 1]
  /\ calls' = calls + 1
  /\ UNCHANGED <<tasks, weighingVars, rrTasks, base>>

Next == (\E weight \in Weights : AddTask(weight)) \/ GetTask \/ GetOnlyTask

Spec == Init /\ [][Next]_vars

-----------------------------------------------------------------------------
(* WeighingTaskSet.GetTask.  Positions count from 1; None is nil. *)

None == 0

\* Mutant: takes the upper end of a task's range for its own.
BinarySearch_Closed(roll) ==
  LET search[range \in (1..(Len(index) + 1)) \X (0..Len(index))] ==
        LET left == range[1]
            right == range[2]
            mid == (left + right) \div 2 IN
        IF left > right THEN None
        ELSE IF left = mid THEN (IF roll <= index[mid] THEN added[mid] ELSE added[mid + 1])
        ELSE IF index[mid - 1] <= roll /\ roll <= index[mid] THEN added[mid]
        ELSE IF roll < index[mid - 1] THEN search[<<left, mid - 1>>]
        ELSE search[<<mid + 1, right>>]
  IN  search[<<1, Len(index)>>]

\* The loop: its variables left and right are the argument.
BinarySearch(roll) ==
  LET search[range \in (1..(Len(index) + 1)) \X (0..Len(index))] ==
        LET left == range[1]
            right == range[2]
            mid == (left + right) \div 2 IN
        IF left > right THEN None
        ELSE IF left = mid THEN (IF roll < index[mid] THEN added[mid] ELSE added[mid + 1])
        ELSE IF index[mid - 1] <= roll /\ roll < index[mid] THEN added[mid]
        ELSE IF roll < index[mid - 1] THEN search[<<left, mid - 1>>]
        ELSE search[<<mid + 1, right>>]
  IN  search[<<1, Len(index)>>]

WeighingGetTask(roll) == IF roll < 0 \/ roll >= offset THEN None ELSE BinarySearch(roll)

-----------------------------------------------------------------------------
(* runner.setTasks and runner.getTask *)

TotalTaskWeight == SumFunction(tasks)

RunningSum(i) == SumFunction([j \in 1..i |-> tasks[j]])

\* What rs.Intn may return.
Rolls == 0..((IF TotalTaskWeight <= 0 THEN Len(tasks) ELSE TotalTaskWeight) - 1)

\* Mutant: stops at the first task whose running sum reaches the roll.
RunnerGetTask_Reached(roll) ==
  IF Len(tasks) = 1 THEN 1
  ELSE IF TotalTaskWeight <= 0 THEN roll + 1
  ELSE CHOOSE i \in DOMAIN tasks :
         RunningSum(i) >= roll /\ \A j \in 1..(i - 1) : RunningSum(j) < roll

\* The scan ends at the first task whose running sum exceeds the roll.
RunnerGetTask(roll) ==
  IF Len(tasks) = 1 THEN 1
  ELSE IF TotalTaskWeight <= 0 THEN roll + 1
  ELSE CHOOSE i \in DOMAIN tasks :
         RunningSum(i) > roll /\ \A j \in 1..(i - 1) : RunningSum(j) <= roll

-----------------------------------------------------------------------------
(* Properties *)

\* Round robin is smooth: at every moment, not only at the end of a cycle, no
\* task is as much as one turn ahead of its share of the calls.
NeverAhead ==
  Len(rrTasks) > 1 => \A i \in DOMAIN rrTasks : rrTasks[i].currentWeight > -TotalWeight

\* A cycle of round robin is fair: starting with no debts, as many calls as the
\* total weight return each task as often as its weight says.
CycleIsFair ==
  (Len(rrTasks) > 1 /\ \A i \in DOMAIN base : base[i] = 0) =>
    \A n \in {1, 2} : SumFunction(picks) = n * TotalWeight =>
      \A i \in DOMAIN rrTasks : picks[i] = n * rrTasks[i].weight

\* Of all rolls of WeighingTaskSet.Run, exactly as many as a task's weight pick
\* it, and no roll picks none.
WeighingIsFair ==
  \A i \in DOMAIN tasks :
    Cardinality({roll \in 0..(offset - 1) : WeighingGetTask(roll) = i}) = tasks[i]

\* The same holds of the runner's getTask with more than one task; without any
\* weight every task is picked by one roll.
RunnerIsFair ==
  Len(tasks) > 1 => \A i \in DOMAIN tasks :
    Cardinality({roll \in Rolls : RunnerGetTask(roll) = i}) =
      IF TotalTaskWeight <= 0 THEN 1 ELSE tasks[i]
=============================================================================
