---------------------------- MODULE MCBoxServer ----------------------------
(***************************************************************************)
(* Configurations of BoxServer for TLC.  The roles form the smallest tree  *)
(* with every case: "all" may give up its rights for "read", "read" is a   *)
(* dead end, and "admin" cannot be reached from the default role.          *)
(***************************************************************************)
EXTENDS BoxServer

CONSTANTS all, read, admin, a, b, sel, ins

MCRoleSrcs == (all :> {a}) @@ (read :> {}) @@ (admin :> {a, b})
MCRoleStmts == (all :> {ins}) @@ (read :> {sel}) @@ (admin :> {sel, ins})
MCRoleNext == (all :> {read}) @@ (read :> {}) @@ (admin :> {all})
NoRoles == <<>>
=============================================================================
