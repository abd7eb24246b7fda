--------------------------- MODULE MCRequestStats ---------------------------
(* Requests to record: two entries, two errors, a time of zero, and times on *)
(* either side of a change of unit.                                          *)
EXTENDS RequestStats

Request(name, method, time, err) ==
  [name |-> name, method |-> method, time |-> time, err |-> err]

Mixed == {Request(<<"a">>, <<"get">>, 7, NoError),
          Request(<<"a">>, <<"get">>, 1050, <<"e">>),
          Request(<<"b">>, <<"get">>, 0, <<"f">>)}
=============================================================================
