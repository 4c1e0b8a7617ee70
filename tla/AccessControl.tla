--------------------------- MODULE AccessControl ---------------------------
(***************************************************************************)
(* Roles and the two authorisation middlewares of middleware/auth.go.  A   *)
(* request whose token Authenticate rejects (no token, bad signature, a    *)
(* role without a rank) never reaches a handler, so every caller of the    *)
(* other modules is a member of Role.                                      *)
(***************************************************************************)
EXTENDS Naturals

Role == {"viewer", "operator", "reviewer", "admin"}

roleRank == [viewer |-> 1, operator |-> 2, reviewer |-> 3, admin |-> 4]

\* The code also refuses when the minimum has no rank; all that it is given have one.
RequireMinimumRole(role, minimum) == roleRank[role] >= roleRank[minimum]

RequireRoles(role, allowed) == role \in allowed
=============================================================================
