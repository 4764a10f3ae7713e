---------------------------- MODULE MCExtCharger ----------------------------
(* ExtCharger on two or three temperatures, for TLC.                       *)
EXTENDS ExtCharger
=============================================================================
