--------------------------- MODULE MCBlueZProfile ---------------------------
(* Instances of BlueZProfile for TLC: the descriptor numbers.  0 is not one*)
(* of them: it is a descriptor of the process all along.                   *)
EXTENDS BlueZProfile

TwoFds == {4, 5}
=============================================================================
