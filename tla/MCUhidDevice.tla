---------------------------- MODULE MCUhidDevice ----------------------------
(* Instances of UhidDevice for TLC.                                        *)
EXTENDS UhidDevice
=============================================================================
