---------------------------- MODULE MCReportPath ----------------------------
(* Instances of ReportPath for TLC: two letters, one of them shifted.      *)
EXTENDS ReportPath, TLC

A == [mod |-> 0, key |-> 4]
ShiftB == [mod |-> 2, key |-> 5]

(* Two clients: one key each way is enough to interfere.                   *)
PressRelease ==
    { [kind |-> "press",   strokes |-> <<A>>],
      [kind |-> "type",    strokes |-> <<ShiftB, Zero>>],
      [kind |-> "release", strokes |-> <<Zero>>] }

(* The bounds, of commands and of the strokes of one: two for one client   *)
(* and one for the other, or two for each.                                 *)
TwoOne ==
    LET first == CHOOSE c \in Clients : TRUE
    IN  [c \in Clients |-> IF c = first THEN 2 ELSE 1]
EachTwo == [c \in Clients |-> 2]

Symmetry == Permutations(Clients)
=============================================================================
