---------------------------- MODULE MCRoleSelect ----------------------------
(* Instances of RoleSelect for TLC.                                        *)
EXTENDS RoleSelect

=============================================================================
