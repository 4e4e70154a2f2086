--------------------------- MODULE MCSessionParts ---------------------------
(* One run over several groups of operations: a behaviour belongs to one    *)
(* part, whose operations and bounds it keeps to, so that the state spaces  *)
(* of the parts add up instead of multiplying.                              *)
EXTENDS MCSessions

VARIABLE part

OpsOf == [members   |-> {"create", "refresh", "reuse", "switch", "removeMember"},
          disabling |-> {"create", "refresh", "reuse", "disable"},
          revoking  |-> {"create", "refresh", "reuse", "changePassword", "revokeOther", "revokeSession",
                         "adminRevokeSession", "revokeAll", "resetPassword", "setPassword",
                         "adminRevokeAll", "revokeAdmin"}]

\* One session and two organizations, or two sessions and one organization;
\* a revocation races the requests that issue tokens, not another revocation.
Scope(p) ==
    /\ \A r \in Requests : req'[r].op \in OpsOf[p] \cup {"none"}
    /\ p # "members" => \E r \in Requests : req'[r].op \in {"none", "create", "refresh", "reuse"}
    /\ IF p = "members" THEN Cardinality({s \in SessionIds : sessions'[s].st # "free"}) <= 1
       ELSE members' = members /\ \A r \in Requests : req'[r].org \in {None, CHOOSE o \in Orgs : TRUE}
    /\ p # "disabling" => disabled' = disabled /\ accessTTL' = accessTTL

PartsInit == Init /\ part \in DOMAIN OpsOf
PartsNext == Next /\ Scope(part) /\ part' = part
PartsSpec == PartsInit /\ [][PartsNext]_<<vars, part>>
=============================================================================
