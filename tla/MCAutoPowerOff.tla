--------------------------- MODULE MCAutoPowerOff ---------------------------
(* AutoPowerOff with few phones, for TLC.                                  *)
EXTENDS AutoPowerOff
=============================================================================
