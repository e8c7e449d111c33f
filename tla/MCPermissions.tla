--------------------------- MODULE MCPermissions ---------------------------
(* Instances of Permissions for TLC.                                       *)
EXTENDS Permissions
=============================================================================
