--------------------------- MODULE MCScopedClient ---------------------------
(***************************************************************************)
(* Settings, first scopes and operations for TLC: a read that is cached,   *)
(* the feed's, one that is not, and a write of each class.                 *)
(***************************************************************************)
EXTENDS ScopedClient

OAuth(audit) ==
    [authMethod |-> "", token |-> FALSE, clientID |-> TRUE, secret |-> TRUE,
     auditLogEvents |-> audit]

(* Complete OAuth credentials, half of them beside an access token, both   *)
(* kinds with the access token asked for, and a method nobody knows.       *)
MCSetting ==
    {OAuth(FALSE), OAuth(TRUE),
     [OAuth(FALSE) EXCEPT !.token = TRUE, !.secret = FALSE],
     [OAuth(TRUE) EXCEPT !.token = TRUE, !.authMethod = "access_token"],
     [OAuth(TRUE) EXCEPT !.authMethod = "unknown"]}

MCApp == {Scopes, {"users:read", "vendors:read"}}

MCOperation ==
    {"FindUserByEmail", "ListAuditLogEvents", "CreateUser", "UpdateVendorOwner"}
=============================================================================
