----------------------------- MODULE MCSessions -----------------------------
(* Small instances of Sessions.  Every cfg names the operations it is about *)
(* in Ops; the identifiers are model values, allocated in a fixed order.    *)
EXTENDS Sessions, TLC

\* RefreshTokenRotation < 0: rotate on every use.
EveryUse == -1

\* The run of one session family looks at the other operations only in the
\* first second, one at a time and before the first refresh; in the last second,
\* when everything has expired, cleanup races one request.
FirstToken ==
    /\ now = 1 /\ revokedJti = {} /\ lostCutoff = {}
    /\ Cardinality({t \in TokenIds : tokens[t].st # "free"}) <= 1
    /\ Cardinality({r \in Requests : req[r].op # "none"}) <= 1
    /\ accessTTL = MaxAccessTTL \/ \A t \in TokenIds : tokens[t].st = "free"
Family ==
    /\ disabled = {} /\ members = Users \X Orgs /\ accessTTL = MaxAccessTTL
    /\ \A m \in Users \X Orgs : memberCutoff[m] = NoCutoff
    /\ \A u \in Users : userCutoff[u] = NoCutoff
    /\ \A r \in Requests : \/ req[r].op \in {"none", "create", "refresh", "reuse", "logout"}
                           \/ req[r].op = "verifyEmail" /\ now <= 2
    /\ now = MaxTime => \E r \in Requests : req[r].op = "none"
FamilyScope == Family \/ FirstToken

\* Requests differ only by name.
Symmetry == Permutations(Requests)
=============================================================================
