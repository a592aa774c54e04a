------------------------- MODULE MCGattApplication -------------------------
(* Instances of GattApplication for TLC.                                   *)
EXTENDS GattApplication
=============================================================================
