----------------------------- MODULE MCRoleHier -----------------------------
(* Permissions for the runs of RoleHier.                                   *)
EXTENDS RoleHier, TLC

CONSTANT s1

\* A statement that may be granted to every role.
OnePerm == [stmts |-> {s1}, srcs |-> {}]
=============================================================================
