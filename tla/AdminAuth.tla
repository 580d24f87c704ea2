----------------------------- MODULE AdminAuth -------------------------------
(***************************************************************************)
(* Whom an administrative handler takes a caller for, and the tenant its   *)
(* request is then about (internal/handlers/admin.go).                     *)
(***************************************************************************)
CONSTANT Tenants   \* "" is never one of them

None == ""   \* the empty string; as an administrator's tenant, the superadmin

Admins == Tenants \cup {None}

\* A tenant's administrator names no other tenant.
MayScope(admin, asked) == admin = None \/ asked \in {None, admin}
Scope(admin, asked) == IF admin = None THEN asked ELSE admin

\* The administrators a bearer token may be taken for: the superadmin before
\* any tenant; of tenants that share a token, the first in map order.
resolveAdminAuth(tok, superToken, tenantTokens) ==
  IF tok = None THEN {}
  ELSE IF tok = superToken THEN {None}
  ELSE {t \in DOMAIN tenantTokens : tenantTokens[t] = tok}

\* The older check of handlers that know only the superadmin.
checkAdminToken(tok, superToken) == superToken # None /\ tok # None /\ tok = superToken
=============================================================================
