---------------------------- MODULE MCNewSession ----------------------------
(* Instances of NewSession for TLC.                                        *)
EXTENDS NewSession, TLC
=============================================================================
