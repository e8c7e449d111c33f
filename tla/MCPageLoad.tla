----------------------------- MODULE MCPageLoad -----------------------------
(* Instances of PageLoad for TLC.                                          *)
EXTENDS PageLoad, TLC
=============================================================================
