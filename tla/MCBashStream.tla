---------------------------- MODULE MCBashStream ----------------------------
(* Instances of BashStream for TLC.                                        *)
EXTENDS BashStream, TLC
=============================================================================
