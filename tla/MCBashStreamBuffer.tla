------------------------- MODULE MCBashStreamBuffer -------------------------
(* Instances of BashStreamBuffer for TLC.                                  *)
EXTENDS BashStreamBuffer, TLC
=============================================================================
