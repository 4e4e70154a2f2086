---------------------------- MODULE ServerProofs ----------------------------
(***************************************************************************)
(* Proofs about one server process: Lifecycle, for every number of workers *)
(* and requests and every capacity of the failures channel, and            *)
(* RuntimeSettings, for every number of servers, every environment and     *)
(* every set of settings, values and defaults.                             *)
(***************************************************************************)
EXTENDS RuntimeSettings, Lifecycle, TLAPS

-----------------------------------------------------------------------------
(* Lifecycle: the inductive invariant.                                     *)

ResultType == [server : {"uncalled", "called", "done", "late"},
               workers : {"uncalled", "called", "done", "late"}]

\* What is open at a stage of the start is closed by the error path of that
\* stage; nothing is shut down before the process serves, and an outcome is its end.
Phases ==
    /\ Starting => open \subseteq ClosedOnError(pc)
    /\ result \in ResultType
    /\ Starting => result.server = "uncalled" /\ result.workers = "uncalled"
    /\ outcome # "none" => pc = "ended"

\* What a shutdown call that returned nil has waited for does not come back: no
\* request begins after the call, and no worker is started again.
Drained ==
    /\ result.server = "done" => requests = 0
    /\ result.workers = "done" => \A w \in BackgroundWorkers : background[w] = "ended"

LifecycleIInv == LifecycleTypeOK /\ Phases /\ Drained /\ ResourcesClosed

-----------------------------------------------------------------------------

\* The initial state satisfies the invariant.
LEMMA LifecycleInitIInv == LifecycleInit => LifecycleIInv
  BY LifecycleAssumption
     DEF LifecycleInit, LifecycleIInv, LifecycleTypeOK, Phases, Drained, ResourcesClosed, ResultType,
         Starting, After, ClosedOnError

\* Every step preserves it.
LEMMA LifecycleNextIInv == LifecycleIInv /\ [LifecycleNext]_lifecycleVars => LifecycleIInv'
  <1> SUFFICES ASSUME LifecycleIInv, [LifecycleNext]_lifecycleVars
               PROVE  LifecycleIInv'
    OBVIOUS
  <1> USE LifecycleAssumption DEF LifecycleIInv, LifecycleTypeOK, Phases, Drained, ResourcesClosed, ResultType
  <1>a. /\ DOMAIN After \cap {"serving", "draining", "ended"} = {}
        /\ \A p \in DOMAIN After : After[p] \in DOMAIN After \cup {"serving"}
    BY DEF After
  <1>b. \A p \in DOMAIN After :
           After[p] # "serving" => ClosedOnError(p) \cup ({p} \cap Resources) \subseteq ClosedOnError(After[p])
    BY DEF After, ClosedOnError, ErrorPaths, Resources
  <1>1. CASE StartupStep
    <2>1. /\ Starting /\ result' = result /\ outcome' = outcome /\ outcome = "none" /\ requests' = requests
          /\ failures' = failures /\ pc' = After[pc]
      BY <1>1, <1>a DEF StartupStep, Starting
    <2>2. Starting' \/ pc' = "serving"
      BY <2>1, <1>a DEF Starting
    <2>3. open' \subseteq Resources
      BY <1>1 DEF StartupStep
    <2>4. /\ background' \in [BackgroundWorkers -> {"none", "running", "ended"}]
          /\ monitored' \subseteq BackgroundWorkers
      BY <1>1 DEF StartupStep
    <2>5. pc' # "draining"
      BY <2>1, <1>a DEF Starting
    <2>6. Starting' => open' \subseteq ClosedOnError(pc')
      BY <1>1, <1>a, <1>b, <2>1 DEF StartupStep, Starting
    <2>7. QED
      BY <2>1, <2>2, <2>3, <2>4, <2>5, <2>6 DEF Starting
  <1>2. CASE StartupFails
    BY <1>2, <1>a DEF StartupFails, Starting
  <1>3. CASE Signal
    BY <1>3, <1>a DEF Signal, Starting, Exists
  <1>4. CASE RequestBegins
    BY <1>4, <1>a DEF RequestBegins, Starting
  <1>5. CASE RequestEnds
    BY <1>5, <1>a DEF RequestEnds, Starting, Exists
  <1>6. CASE ServeReturns \/ DeadlinePasses
    BY <1>6, <1>a DEF ServeReturns, DeadlinePasses, Starting
  <1>7. ASSUME NEW w \in BackgroundWorkers, WorkerEnds(w) PROVE LifecycleIInv'
    BY <1>7, <1>a DEF WorkerEnds, Starting, Exists
  <1>8. ASSUME NEW w \in BackgroundWorkers, Monitor(w) PROVE LifecycleIInv'
    BY <1>8, <1>a DEF Monitor, Speaks, Starting, Exists
  <1>9. CASE BeginDraining
    BY <1>9, <1>a DEF BeginDraining, SetReady, Starting
  <1>10. CASE ServerShutdown \/ WorkersShutdown
    BY <1>10, <1>a DEF ServerShutdown, WorkersShutdown, Starting
  <1>11. CASE ServerStopped
    BY <1>11, <1>a DEF ServerStopped, Starting, Exists
  <1>12. CASE WorkersStopped
    BY <1>12, <1>a DEF WorkersStopped, Starting, Exists
  <1>13. CASE FinishDraining
    BY <1>13, <1>a DEF FinishDraining, Returned, TimedOut, Starting
  <1>14. CASE GiveUp
    BY <1>14, <1>a DEF GiveUp, Starting
  <1>15. CASE UNCHANGED lifecycleVars
    BY <1>15 DEF lifecycleVars, Starting
  <1>16. QED
    BY <1>1, <1>2, <1>3, <1>4, <1>5, <1>6, <1>7, <1>8, <1>9, <1>10, <1>11, <1>12, <1>13, <1>14, <1>15
       DEF LifecycleNext, Supervisor

\* LifecycleIInv holds in every reachable state.
THEOREM LifecycleInvariant == LifecycleSpec => []LifecycleIInv
  BY LifecycleInitIInv, LifecycleNextIInv, PTL DEF LifecycleSpec

-----------------------------------------------------------------------------

\* Whatever fails and whenever the deadline passes: a start that fails and a
\* shutdown in time leave nothing open, and nothing is closed while a request or
\* a worker may still use it (superviseLifecycle, Run, NewApp).
THEOREM ResourcesAreClosed == LifecycleSpec => []ResourcesClosed
  <1>1. LifecycleIInv => ResourcesClosed
    BY DEF LifecycleIInv
  <1>2. QED
    BY <1>1, LifecycleInvariant, PTL

-----------------------------------------------------------------------------
(* RuntimeSettings: the inductive invariant.                               *)

\* A Set proposes one revision more than it has read.
ProposedOverride == [value : Values \cup {0}, revision : 0..(MaxRevision + 1)]
MutationType ==
    [op : {"set", "clear"}, key : Settings \ StartupOnly, expected : 0..MaxRevision, before : 0..MaxRevision,
     proposed : [Settings -> ProposedOverride]]

Tables ==
    /\ environment \subseteq Settings /\ stored \in State
    /\ snapshot \in [Servers -> State] /\ misses \in 0..MaxMisses
    /\ mutation \in [Servers -> MutationType \cup {NoMutation}]

\* No server is ahead of the database, neither with its snapshot nor with what a
\* mutation has read, and one revision has one set of overrides.
Revisions ==
    \A s \in Servers :
        /\ snapshot[s].revision <= stored.revision
        /\ snapshot[s].revision = stored.revision => snapshot[s] = stored
        /\ ~Unlocked(s) => mutation[s].before <= stored.revision

\* What m would write over the overrides that it has read.
Proposal(m) ==
    \/ /\ m.op = "set" /\ m.key \notin environment
       /\ \E value \in Values :
              m.proposed = [stored.override EXCEPT ![m.key] = [value |-> value, revision |-> stored.revision + 1]]
       /\ SetKeepsMasks(m.key, m.proposed)
    \/ /\ m.op = "clear"
       /\ m.proposed = [stored.override EXCEPT ![m.key] = NoOverride]
       /\ ClearKeepsMasks(m.key, stored.override, m.proposed)

\* As long as nobody has written since, what a mutation has validated is what it
\* would write, and the validation is still right: no server is deployed meanwhile.
Validated == \A s \in Servers : ~Unlocked(s) /\ mutation[s].before = stored.revision => Proposal(mutation[s])

SettingsIInv == Tables /\ Revisions /\ Validated /\ Builds(environment, stored.override)

-----------------------------------------------------------------------------
(* Policies.                                                               *)

\* Whether a policy is valid depends only on the settings of that policy.
LEMMA PoliciesAreLocal ==
    ASSUME NEW v, NEW w
    PROVE  /\ (\A j \in SessionPolicy \cap Settings : v[j] = w[j])
              => (validateSessionPolicies(v) <=> validateSessionPolicies(w))
           /\ (\A j \in WebhookPolicy \cap Settings : v[j] = w[j])
              => (validateWebhookRuntimePolicy(v) <=> validateWebhookRuntimePolicy(w))
           /\ (\A j \in ChallengePolicy \cap Settings : v[j] = w[j])
              => (validateChallengePolicy(v) <=> validateChallengePolicy(w))
  <1>1. ASSUME \A j \in SessionPolicy \cap Settings : v[j] = w[j]
        PROVE  validateSessionPolicies(v) <=> validateSessionPolicies(w)
    <2>1. CASE SessionPolicy \subseteq Settings
      <3>1. v["access"] = w["access"] /\ v["refresh"] = w["refresh"]
            /\ v["session"] = w["session"] /\ v["rotation"] = w["rotation"]
        BY <1>1, <2>1 DEF SessionPolicy
      <3>2. QED
        BY <3>1 DEF validateSessionPolicies
    <2>2. QED
      BY <2>1 DEF validateSessionPolicies
  <1>2. ASSUME \A j \in WebhookPolicy \cap Settings : v[j] = w[j]
        PROVE  validateWebhookRuntimePolicy(v) <=> validateWebhookRuntimePolicy(w)
    <2>1. CASE WebhookPolicy \subseteq Settings
      <3>1. v["timeout"] = w["timeout"] /\ v["stale"] = w["stale"]
        BY <1>2, <2>1 DEF WebhookPolicy
      <3>2. QED
        BY <3>1 DEF validateWebhookRuntimePolicy
    <2>2. QED
      BY <2>1 DEF validateWebhookRuntimePolicy
  <1>3. ASSUME \A j \in ChallengePolicy \cap Settings : v[j] = w[j]
        PROVE  validateChallengePolicy(v) <=> validateChallengePolicy(w)
    <2>1. CASE ChallengePolicy \subseteq Settings
      <3>1. v["code"] = w["code"] /\ v["challenge"] = w["challenge"]
        BY <1>3, <2>1 DEF ChallengePolicy
      <3>2. QED
        BY <3>1 DEF validateChallengePolicy
    <2>2. QED
      BY <2>1 DEF validateChallengePolicy
  <1>4. QED
    BY <1>1, <1>2, <1>3

\* No setting belongs to two policies, so the settings related to k are those of
\* its policy.
LEMMA PoliciesAreDisjoint ==
    ASSUME NEW k \in Settings
    PROVE  \A p \in Policy : k \in p => Related(k) = p \cap Settings
  <1>1. \A p, q \in Policy : p = q \/ p \cap q = {}
    BY DEF Policy, SessionPolicy, WebhookPolicy, ChallengePolicy
  <1>2. SUFFICES ASSUME NEW p \in Policy, k \in p
                 PROVE  Related(k) = p \cap Settings
    OBVIOUS
  <1>3. {q \in Policy : k \in q} = {p}
    BY <1>1, <1>2
  <1>4. QED
    BY <1>3 DEF Related

\* In the policy of k, the mask that an environment leaves has the values of the
\* environment; an override of k changes nothing outside.
LEMMA MaskedValues ==
    ASSUME NEW k \in Settings, NEW before \in [Settings -> ProposedOverride],
           NEW over \in [Settings -> ProposedOverride],
           NEW env \in SUBSET Settings,
           \A i \in Settings \ {k} : over[i] = before[i]
    PROVE  \A p \in Policy, j \in Settings : j \in p =>
              /\ k \in p => Effective(env \cap Related(k), over)[j] = Effective(env, over)[j]
              /\ k \notin p => Effective(env, over)[j] = Effective(env, before)[j]
  <1> TAKE p \in Policy, j \in Settings
  <1> HAVE j \in p
  <1>1. ASSUME k \in p PROVE Effective(env \cap Related(k), over)[j] = Effective(env, over)[j]
    <2>1. j \in Related(k)
      BY <1>1, PoliciesAreDisjoint
    <2>2. QED
      BY <2>1 DEF Effective
  <1>2. ASSUME k \notin p PROVE Effective(env, over)[j] = Effective(env, before)[j]
    BY <1>2 DEF Effective, Fallback
  <1>3. QED
    BY <1>1, <1>2

\* The mask that an environment leaves decides whether the policies are valid in the
\* environment: those of other settings have not changed.
LEMMA MaskDecides ==
    ASSUME NEW k \in Settings, NEW before \in [Settings -> ProposedOverride],
           NEW over \in [Settings -> ProposedOverride],
           NEW env \in SUBSET Settings,
           \A j \in Settings \ {k} : over[j] = before[j],
           ProjectedPolicies(Effective(env, before)), RemovalSafe(k, over, env \cap Related(k))
    PROVE  ProjectedPolicies(Effective(env, over))
  <1>0. \A p \in Policy, j \in Settings : j \in p =>
              /\ k \in p => Effective(env \cap Related(k), over)[j] = Effective(env, over)[j]
              /\ k \notin p => Effective(env, over)[j] = Effective(env, before)[j]
    BY MaskedValues
  <1> DEFINE E == Effective(env, over)
             B == Effective(env, before)
             U == Effective(env \cap Related(k), over)
  <1>1. \A p \in Policy : IF k \in p THEN \A j \in p \cap Settings : E[j] = U[j]
                          ELSE \A j \in p \cap Settings : E[j] = B[j]
    BY <1>0
  <1>2. ProjectedPolicies(B) /\ Validator(k, U)
    BY DEF RemovalSafe
  <1>3. SessionPolicy \in Policy /\ WebhookPolicy \in Policy /\ ChallengePolicy \in Policy
    BY DEF Policy
  <1> HIDE DEF E, B, U
  <1>4. validateSessionPolicies(E)
    BY <1>1, <1>2, <1>3, PoliciesAreLocal DEF ProjectedPolicies, Validator
  <1>5. validateWebhookRuntimePolicy(E)
    BY <1>1, <1>2, <1>3, PoliciesAreLocal DEF ProjectedPolicies, Validator
  <1>6. validateChallengePolicy(E)
    BY <1>1, <1>2, <1>3, PoliciesAreLocal DEF ProjectedPolicies, Validator
  <1>7. QED
    BY <1>4, <1>5, <1>6 DEF ProjectedPolicies, E

\* The other way round.
LEMMA MaskFollows ==
    ASSUME NEW k \in Settings, NEW over \in [Settings -> ProposedOverride], NEW env \in SUBSET Settings,
           ProjectedPolicies(Effective(env, over))
    PROVE  RemovalSafe(k, over, env \cap Related(k))
  <1> DEFINE E == Effective(env, over)
             U == Effective(env \cap Related(k), over)
  <1>1. \A p \in Policy : k \in p => \A j \in p \cap Settings : U[j] = E[j]
    BY MaskedValues
  <1>2. SessionPolicy \in Policy /\ WebhookPolicy \in Policy /\ ChallengePolicy \in Policy
    BY DEF Policy
  <1>3. ProjectedPolicies(E)
    OBVIOUS
  <1>4. SUFFICES Validator(k, U)
    BY DEF RemovalSafe
  <1> HIDE DEF E, U
  <1>5. k \in SessionPolicy => validateSessionPolicies(U)
    BY <1>1, <1>2, <1>3, PoliciesAreLocal DEF ProjectedPolicies
  <1>6. k \in WebhookPolicy => validateWebhookRuntimePolicy(U)
    BY <1>1, <1>2, <1>3, PoliciesAreLocal DEF ProjectedPolicies
  <1>7. k \in ChallengePolicy => validateChallengePolicy(U)
    BY <1>1, <1>2, <1>3, PoliciesAreLocal DEF ProjectedPolicies
  <1>8. QED
    BY <1>5, <1>6, <1>7 DEF Validator

\* A proposal that still holds leaves the policies valid in every environment that
\* can be left by removing variables and in which they were valid.
LEMMA ProposalsKeepPolicies ==
    ASSUME environment \subseteq Settings, stored \in State,
           NEW m \in MutationType, Proposal(m), NEW env \in SUBSET environment,
           ProjectedPolicies(Effective(env, stored.override))
    PROVE  ProjectedPolicies(Effective(env, m.proposed))
  <1>1. /\ m.key \in Settings /\ \A j \in Settings \ {m.key} : m.proposed[j] = stored.override[j]
        /\ m.proposed \in [Settings -> ProposedOverride] /\ stored.override \in [Settings -> ProposedOverride]
        /\ env \in SUBSET Settings
    <2>1. m.key \in Settings /\ \A j \in Settings \ {m.key} : m.proposed[j] = stored.override[j]
      BY DEF Proposal, MutationType, State
    <2>2. Override \subseteq ProposedOverride
      <3>1. 0..MaxRevision \subseteq 0..(MaxRevision + 1)
        BY SettingsAssumption
      <3>2. QED
        BY <3>1 DEF Override, ProposedOverride
    <2>3. stored.override \in [Settings -> ProposedOverride]
      BY <2>2 DEF State
    <2>4. QED
      BY <2>1, <2>3 DEF MutationType
  <1>2. env \cap Related(m.key) \in Masks(m.key)
    BY DEF Masks
  <1>3. RemovalSafe(m.key, stored.override, env \cap Related(m.key))
    BY <1>1, MaskFollows
  <1>4. RemovalSafe(m.key, m.proposed, env \cap Related(m.key))
    BY <1>2, <1>3 DEF Proposal, SetKeepsMasks, ClearKeepsMasks
  <1>5. QED
    BY <1>1, <1>4, MaskDecides

\* While the startup variables stay, it also leaves a verified email required only
\* where it can be verified: it does not touch the switch of the challenge flows,
\* and it requires the email only if that is possible now.
LEMMA ProposalsKeepVerification ==
    ASSUME environment \subseteq Settings, stored \in State,
           NEW m \in MutationType, Proposal(m), NEW env \in SUBSET environment,
           environment \cap StartupOnly \subseteq env,
           VerificationPossible(Effective(env, stored.override))
    PROVE  VerificationPossible(Effective(env, m.proposed))
  <1> DEFINE E == Effective(env, m.proposed)
             B == Effective(env, stored.override)
             N == Effective(environment, m.proposed)
  <1>1. m.key \in Settings \ StartupOnly /\ \A j \in Settings \ {m.key} : m.proposed[j] = stored.override[j]
    BY DEF Proposal, MutationType, State
  <1>2. SUFFICES ASSUME Switches \subseteq Settings, E["required"] = On
                 PROVE  Deliverable /\ E["enabled"] = On
    BY DEF VerificationPossible
  <1>3. "required" \in Settings /\ "enabled" \in Settings /\ "enabled" \in StartupOnly /\ m.key # "enabled"
    BY <1>1, <1>2 DEF Switches, StartupOnly
  <1>4. E["enabled"] = B["enabled"] /\ E["enabled"] = N["enabled"]
    BY <1>1, <1>3 DEF Effective, Fallback
  <1>5. VerificationPossible(N)
    BY DEF Proposal, SetKeepsMasks, ClearKeepsMasks, Builds, ValidPolicies
  <1>6. CASE B["required"] = On
    BY <1>2, <1>4, <1>6 DEF VerificationPossible
  <1>7. CASE B["required"] # On
    <2>1. m.key = "required"
      BY <1>1, <1>2, <1>3, <1>7 DEF Effective, Fallback
    <2>2. "required" \notin env
      BY <1>2, <1>3, <1>7 DEF Effective
    <2>3. CASE m.op = "set"
      <3>1. "required" \notin environment
        BY <2>1, <2>3 DEF Proposal
      <3>2. N["required"] = On
        BY <1>2, <1>3, <2>2, <3>1 DEF Effective
      <3>3. QED
        BY <1>2, <1>4, <1>5, <3>2 DEF VerificationPossible
    <2>4. CASE m.op = "clear"
      <3>1. m.proposed["required"] = NoOverride
        BY <1>3, <2>1, <2>4 DEF Proposal, State
      <3>2. E["required"] = Off
        BY <1>3, <2>2, <3>1, SettingsAssumption DEF Effective, Fallback
      <3>3. QED
        BY <1>2, <3>2 DEF On, Off
    <2>5. QED
      BY <2>3, <2>4 DEF MutationType
  <1>8. QED
    BY <1>6, <1>7

\* It starts in the present environment.
LEMMA ProposalsBuild ==
    ASSUME NEW m, Proposal(m)
    PROVE  Builds(environment, m.proposed)
  BY DEF Proposal, SetKeepsMasks, ClearKeepsMasks

-----------------------------------------------------------------------------
(* RuntimeSettings: steps.                                                 *)

\* An accepted write stores what was proposed, under the next revision.
LEMMA WriteStoresProposal ==
    ASSUME SettingsIInv, NEW s \in Servers, ~Unlocked(s), Write(mutation[s])
    PROVE  /\ mutation[s] \in MutationType /\ Proposal(mutation[s])
           /\ stored' = [revision |-> stored.revision + 1, override |-> mutation[s].proposed]
           /\ stored' \in State
           /\ stored'.revision = stored.revision + 1
           /\ Builds(environment, stored'.override)
  <1> DEFINE m == mutation[s]
  <1>1. m \in MutationType
    BY DEF SettingsIInv, Tables, Unlocked
  <1>2. m.before = stored.revision /\ stored.revision < MaxRevision
    BY DEF Write, UpsertRuntimeSettingOverride, DeleteRuntimeSettingOverride, Matches
  <1>3. Proposal(m)
    BY <1>2 DEF SettingsIInv, Validated
  <1>4. stored \in State /\ m.key \in Settings /\ stored.revision \in 0..MaxRevision /\ MaxRevision \in Nat
        /\ stored.override \in [Settings -> Override]
    BY <1>1, SettingsAssumption DEF SettingsIInv, Tables, State, MutationType
  <1>5. stored' = [revision |-> stored.revision + 1, override |-> m.proposed] /\ m.proposed \in [Settings -> Override]
    <2>1. CASE UpsertRuntimeSettingOverride(m)
      <3>1. PICK value \in Values :
                m.proposed = [stored.override EXCEPT ![m.key] = [value |-> value, revision |-> stored.revision + 1]]
        BY <1>3, <2>1 DEF Proposal, UpsertRuntimeSettingOverride
      <3>2. m.proposed[m.key] = [value |-> value, revision |-> stored.revision + 1]
        BY <3>1, <1>4
      <3>3. [m.proposed[m.key] EXCEPT !.revision = Next1] = [value |-> value, revision |-> stored.revision + 1]
        BY <3>2 DEF Next1
      <3>4. stored' = [revision |-> stored.revision + 1, override |-> m.proposed]
        BY <2>1, <3>1, <3>3 DEF UpsertRuntimeSettingOverride, Next1
      <3>5. [value |-> value, revision |-> stored.revision + 1] \in Override
        BY <1>2, <1>4 DEF Override
      <3>6. QED
        BY <1>4, <3>1, <3>4, <3>5
    <2>2. CASE DeleteRuntimeSettingOverride(m)
      <3>1. m.proposed = [stored.override EXCEPT ![m.key] = NoOverride]
        BY <1>3, <2>2 DEF Proposal, DeleteRuntimeSettingOverride
      <3>2. NoOverride \in Override
        BY <1>4 DEF NoOverride, Override
      <3>3. QED
        BY <1>4, <2>2, <3>1, <3>2 DEF DeleteRuntimeSettingOverride, Next1
    <2>3. QED
      BY <2>1, <2>2 DEF Write
  <1>6. stored' \in State /\ stored'.revision = stored.revision + 1
    BY <1>2, <1>4, <1>5 DEF State
  <1>7. Builds(environment, m.proposed)
    BY <1>3, ProposalsBuild
  <1>8. QED
    BY <1>1, <1>3, <1>5, <1>6, <1>7

\* A proposal stays right while neither the database nor the environment changes.
LEMMA ProposalsHold ==
    ASSUME NEW m, UNCHANGED <<stored, environment>>
    PROVE  Proposal(m) <=> Proposal(m)'
  BY DEF Proposal, SetKeepsMasks, ClearKeepsMasks, Masks, RemovalSafe, Builds, Effective, Fallback

\* A reload reads the database or keeps the snapshot.
LEMMA ReloadFacts ==
    ASSUME Tables, Revisions, NEW s \in Servers, Reload(s)
    PROVE  /\ snapshot' \in [Servers -> State]
           /\ \A t \in Servers :
                 /\ snapshot'[t].revision <= stored.revision
                 /\ snapshot'[t].revision = stored.revision => snapshot'[t] = stored
  <1>1. stored.revision <= stored.revision
    BY SettingsAssumption DEF Tables, State
  <1>2. QED
    BY <1>1 DEF Tables, Revisions, Reload

\* A step that changes neither the database nor the environment, and whose
\* mutations were there before or have just been validated.
LEMMA ReadingStep ==
    ASSUME SettingsIInv, UNCHANGED <<stored, environment>>, misses' \in 0..MaxMisses,
           NEW s \in Servers, Reload(s) \/ UNCHANGED snapshot,
           NEW m \in MutationType \cup {NoMutation}, mutation' = [mutation EXCEPT ![s] = m],
           m # NoMutation => m.before = stored.revision /\ Proposal(m)
    PROVE  SettingsIInv'
  <1>1. Tables'
    BY ReloadFacts DEF SettingsIInv, Tables
  <1>2. \A t \in Servers : mutation'[t] = IF t = s THEN m ELSE mutation[t]
    BY DEF SettingsIInv, Tables
  <1>3. Revisions'
    <2>1. stored.revision <= stored.revision
      BY SettingsAssumption DEF SettingsIInv, Tables, State
    <2>2. QED
      BY <1>2, <2>1, ReloadFacts DEF SettingsIInv, Revisions, Unlocked
  <1>4. Validated'
    <2> SUFFICES ASSUME NEW t \in Servers, mutation'[t] # NoMutation, mutation'[t].before = stored.revision
                 PROVE  Proposal(mutation[t])'
      BY DEF Validated, Unlocked
    <2>1. Proposal(mutation'[t])
      BY <1>2 DEF SettingsIInv, Validated, Unlocked
    <2>2. QED
      BY <2>1, ProposalsHold
  <1>5. Builds(environment, stored.override)'
    BY DEF SettingsIInv, Builds, Effective, Fallback
  <1>6. QED
    BY <1>1, <1>3, <1>4, <1>5 DEF SettingsIInv

\* The same where the server ends its mutation or has none.
LEMMA ReleasingStep ==
    ASSUME SettingsIInv, UNCHANGED <<stored, environment>>, misses' \in 0..MaxMisses,
           NEW s \in Servers, Reload(s) \/ UNCHANGED snapshot, Release(s)
    PROVE  SettingsIInv'
  <1>1. \A m \in MutationType \cup {NoMutation} :
            /\ mutation' = [mutation EXCEPT ![s] = m]
            /\ m # NoMutation => m.before = stored.revision /\ Proposal(m)
            => SettingsIInv'
    BY ReadingStep
  <1>2. NoMutation \in MutationType \cup {NoMutation}
    OBVIOUS
  <1>3. mutation' = [mutation EXCEPT ![s] = NoMutation]
    BY DEF Release
  <1>4. QED
    BY <1>1, <1>2, <1>3

\* A step that writes: no other mutation matches any more.
LEMMA WritingStep ==
    ASSUME SettingsIInv, NEW s \in Servers, ~Unlocked(s), Write(mutation[s]), Release(s),
           UNCHANGED environment, misses' \in 0..MaxMisses,
           UNCHANGED snapshot \/ snapshot' = [snapshot EXCEPT ![s] = stored']
    PROVE  SettingsIInv'
  <1>1. /\ stored' \in State /\ stored'.revision = stored.revision + 1
        /\ Builds(environment, stored'.override)
    BY WriteStoresProposal
  <1>2. stored.revision \in Nat /\ stored'.revision \in Nat
    BY <1>1, SettingsAssumption DEF SettingsIInv, Tables, State
  <1>3. Tables'
    BY <1>1 DEF SettingsIInv, Tables, Release
  <1>4. \A t \in Servers : /\ snapshot[t].revision \in Nat /\ snapshot[t].revision <= stored.revision
                           /\ snapshot'[t] \in {snapshot[t], stored'}
    BY SettingsAssumption DEF SettingsIInv, Tables, Revisions, State
  <1>5. \A t \in Servers : mutation'[t] # NoMutation =>
            mutation'[t].before \in Nat /\ mutation'[t].before < stored'.revision
    <2>1. \A t \in Servers : mutation'[t] # NoMutation => mutation'[t] = mutation[t]
      BY DEF SettingsIInv, Tables, Release
    <2>2. \A t \in Servers : mutation[t] # NoMutation =>
              mutation[t].before \in Nat /\ mutation[t].before <= stored.revision
      BY SettingsAssumption DEF SettingsIInv, Tables, Revisions, Unlocked, MutationType
    <2>3. QED
      BY <1>1, <1>2, <2>1, <2>2
  <1>6. Revisions'
    BY <1>1, <1>2, <1>4, <1>5 DEF Revisions, Unlocked
  <1>7. Validated'
    BY <1>2, <1>5 DEF Validated, Unlocked
  <1>8. Builds(environment, stored.override)'
    BY <1>1 DEF Builds, Effective, Fallback
  <1>9. QED
    BY <1>3, <1>6, <1>7, <1>8 DEF SettingsIInv

\* The initial state satisfies the invariant.
LEMMA SettingsInitIInv == SettingsInit => SettingsIInv
  <1> SUFFICES ASSUME SettingsInit PROVE SettingsIInv
    OBVIOUS
  <1> USE SettingsAssumption
  <1>1. stored \in State /\ stored.revision = 0
    BY DEF SettingsInit, State, Override, NoOverride
  <1>2. Tables
    BY <1>1 DEF SettingsInit, Tables
  <1>3. QED
    BY <1>1, <1>2 DEF SettingsInit, SettingsIInv, Revisions, Validated, Unlocked

\* Set and Clear validate what they propose.
LEMMA ChangeIInv ==
    ASSUME SettingsIInv, NEW s \in Servers, Change(s)
    PROVE  SettingsIInv'
  <1> USE SettingsAssumption
  <1>a. /\ stored.revision \in 0..MaxRevision /\ stored.override \in [Settings -> Override]
        /\ misses \in 0..MaxMisses
    BY DEF SettingsIInv, Tables, State
  <1>b. Override \subseteq ProposedOverride /\ NoOverride \in ProposedOverride
    BY DEF Override, ProposedOverride, NoOverride
  <1>1. ASSUME NEW k \in Settings, NEW expected \in 0..MaxRevision, NEW value \in Values, Set(s, k, value, expected)
        PROVE  SettingsIInv'
    <2> DEFINE over == [stored.override EXCEPT ![k] = [value |-> value, revision |-> stored.revision + 1]]
               m == [op |-> "set", key |-> k, expected |-> expected, before |-> stored.revision, proposed |-> over]
    <2>1. [value |-> value, revision |-> stored.revision + 1] \in ProposedOverride
      BY <1>a DEF ProposedOverride
    <2>2. over \in [Settings -> ProposedOverride]
      BY <1>a, <1>b, <2>1
    <2>4. SetKeepsMasks(k, over) /\ k \notin environment /\ k \notin StartupOnly
      BY <1>1 DEF Set, Editable
    <2>3. m \in MutationType
      BY <1>a, <2>2, <2>4 DEF MutationType
    <2>5. Proposal(m)
      <3>1. m.op = "set" /\ m.key = k /\ m.proposed = over
        OBVIOUS
      <3>2. \E v \in Values : over = [stored.override EXCEPT ![k] = [value |-> v, revision |-> stored.revision + 1]]
        OBVIOUS
      <3> HIDE DEF m, over
      <3>3. QED
        BY <3>1, <3>2, <2>4 DEF Proposal
    <2>6. Reload(s) /\ mutation' = [mutation EXCEPT ![s] = m] /\ UNCHANGED <<environment, stored, misses>>
      BY <1>1 DEF Set
    <2>7. m.before = stored.revision
      OBVIOUS
    <2> HIDE DEF m, over
    <2>8. QED
      BY <1>a, <2>3, <2>5, <2>6, <2>7, ReadingStep
  <1>2. ASSUME NEW k \in Settings, NEW expected \in 0..MaxRevision, Clear(s, k, expected)
        PROVE  SettingsIInv'
    <2> DEFINE over == [stored.override EXCEPT ![k] = NoOverride]
               m == [op |-> "clear", key |-> k, expected |-> expected, before |-> stored.revision, proposed |-> over]
    <2>1. over \in [Settings -> ProposedOverride]
      BY <1>a, <1>b
    <2>3. ClearKeepsMasks(k, stored.override, over) /\ k \notin StartupOnly
      BY <1>2 DEF Clear
    <2>2. m \in MutationType
      BY <1>a, <2>1, <2>3 DEF MutationType
    <2>4. Proposal(m)
      <3>1. m.op = "clear" /\ m.key = k /\ m.proposed = over
        OBVIOUS
      <3>2. over = [stored.override EXCEPT ![k] = NoOverride]
        OBVIOUS
      <3> HIDE DEF m, over
      <3>3. QED
        BY <3>1, <3>2, <2>3 DEF Proposal
    <2>5. Reload(s) /\ mutation' = [mutation EXCEPT ![s] = m] /\ UNCHANGED <<environment, stored, misses>>
      BY <1>2 DEF Clear
    <2>6. m.before = stored.revision
      OBVIOUS
    <2> HIDE DEF m, over
    <2>7. QED
      BY <1>a, <2>2, <2>4, <2>5, <2>6, ReadingStep
  <1>3. QED
    BY <1>1, <1>2 DEF Change

\* So do the steps that end a mutation: published, refused, failed or lost.
LEMMA FinishIInv ==
    ASSUME SettingsIInv, NEW s \in Servers, Finish(s)
    PROVE  SettingsIInv'
  <1> USE SettingsAssumption
  <1>a. misses \in 0..MaxMisses
    BY DEF SettingsIInv, Tables
  <1>1. CASE Publish(s)
    <2> DEFINE m == mutation[s]
    <2>1. ~Unlocked(s) /\ Write(m) /\ Release(s) /\ UNCHANGED <<environment, misses>>
          /\ snapshot' = [snapshot EXCEPT ![s] =
                [revision |-> stored.revision + 1, override |-> [m.proposed EXCEPT ![m.key] = stored'.override[m.key]]]]
      BY <1>1 DEF Publish, Next1
    <2>2. m \in MutationType /\ stored' = [revision |-> stored.revision + 1, override |-> m.proposed]
      BY <2>1, WriteStoresProposal
    <2>3. stored'.override = m.proposed /\ m.proposed \in [Settings -> ProposedOverride]
      BY <2>2 DEF MutationType
    <2>4. [m.proposed EXCEPT ![m.key] = stored'.override[m.key]] = m.proposed
      BY <2>3
    <2>5. snapshot' = [snapshot EXCEPT ![s] = stored']
      BY <2>1, <2>2, <2>4
    <2>6. QED
      BY <1>a, <2>1, <2>5, WritingStep
  <1>2. CASE Conflict(s)
    BY <1>2, <1>a, ReleasingStep DEF Conflict
  <1>3. CASE SaveFails(s)
    <2>1. misses' \in 0..MaxMisses
      BY <1>3, <1>a DEF SaveFails, Miss
    <2>2. CASE stored' = stored
      BY <1>3, <2>1, <2>2, ReleasingStep DEF SaveFails
    <2>3. CASE Write(mutation[s])
      BY <1>3, <2>1, <2>3, WritingStep DEF SaveFails
    <2>4. QED
      BY <1>3, <2>2, <2>3 DEF SaveFails
  <1>4. QED
    BY <1>1, <1>2, <1>3 DEF Finish

\* Every step preserves the invariant.
LEMMA SettingsNextIInv == SettingsIInv /\ [SettingsNext]_settingsVars => SettingsIInv'
  <1> SUFFICES ASSUME SettingsIInv, [SettingsNext]_settingsVars
               PROVE  SettingsIInv'
    OBVIOUS
  <1> USE SettingsAssumption
  <1>1. ASSUME NEW s \in Servers, Change(s) PROVE SettingsIInv'
    BY <1>1, ChangeIInv
  <1>2. ASSUME NEW s \in Servers, Declined(s) \/ Reconcile(s) PROVE SettingsIInv'
    <2>1. /\ Unlocked(s) /\ Reload(s) /\ UNCHANGED <<environment, stored, mutation, misses>>
          /\ misses \in 0..MaxMisses /\ mutation \in [Servers -> MutationType \cup {NoMutation}]
      BY <1>2 DEF Declined, Reconcile, SettingsIInv, Tables
    <2>2. Release(s)
      BY <2>1 DEF Unlocked, Release
    <2>3. QED
      BY <2>1, <2>2, ReleasingStep
  <1>3. ASSUME NEW s \in Servers, Finish(s) PROVE SettingsIInv'
    BY <1>3, FinishIInv
  <1>4. ASSUME NEW env \in SUBSET Settings, Deploy(env) PROVE SettingsIInv'
    <2>1. /\ \A s \in Servers : mutation'[s] = NoMutation
          /\ environment' = env /\ stored' = stored /\ misses' \in 0..MaxMisses
          /\ snapshot' = [s \in Servers |-> stored]
      BY <1>4 DEF Deploy, Unlocked, Miss, SettingsIInv, Tables
    <2>2. Tables'
      BY <1>4, <2>1 DEF Deploy, SettingsIInv, Tables
    <2>3. stored.revision <= stored.revision
      BY DEF SettingsIInv, Tables, State
    <2>4. Revisions' /\ Validated'
      BY <2>1, <2>3 DEF Revisions, Validated, Unlocked
    <2>5. Builds(environment, stored.override)'
      BY <1>4, <2>1 DEF Deploy, Builds, Effective, Fallback
    <2>6. QED
      BY <2>2, <2>4, <2>5 DEF SettingsIInv
  <1>5. CASE UNCHANGED settingsVars
    <2>1. UNCHANGED <<environment, stored, snapshot, mutation, misses>>
      BY <1>5 DEF settingsVars
    <2>2. Tables' /\ Revisions'
      BY <2>1 DEF SettingsIInv, Tables, Revisions, Unlocked
    <2>3. Validated'
      BY <2>1, ProposalsHold DEF SettingsIInv, Validated, Unlocked
    <2>4. Builds(environment, stored.override)'
      BY <2>1 DEF SettingsIInv, Builds, Effective, Fallback
    <2>5. QED
      BY <2>2, <2>3, <2>4 DEF SettingsIInv
  <1>6. QED
    BY <1>1, <1>2, <1>3, <1>4, <1>5 DEF SettingsNext

\* SettingsIInv holds in every reachable state.
THEOREM SettingsInvariance == SettingsSpec => []SettingsIInv
  BY SettingsInitIInv, SettingsNextIInv, PTL DEF SettingsSpec

\* buildSnapshot never fails on what is stored, and a snapshot with the revision of
\* the database has its overrides, so comparing revisions is enough (Reconcile).
THEOREM SettingsAreCoherent == SettingsSpec => []SettingsTypeOK
  <1>1. SettingsIInv => SettingsTypeOK
    <2> SUFFICES ASSUME SettingsIInv PROVE SettingsTypeOK
      OBVIOUS
    <2>1. \A s \in Servers : ~Unlocked(s) => mutation[s].key \in Settings
      BY DEF SettingsIInv, Tables, Unlocked, MutationType
    <2>2. QED
      BY <2>1 DEF SettingsIInv, Tables, Revisions, SettingsTypeOK
  <1>2. QED
    BY <1>1, SettingsInvariance, PTL

\* A write leaves every environment that can be left by removing variables as
\* startable as it was, if the startup variables stay, and its policies as valid
\* without them too, although another server may write between the validation and
\* the statement (validateEnvironmentRemovalProjections, Clear).
THEOREM RemovalsStayPossible == SettingsSpec => RemovalsKept
  <1> DEFINE Kept(env) ==
          /\ ProjectedPolicies(Effective(env, stored.override)) => ProjectedPolicies(Effective(env, stored'.override))
          /\ environment \cap StartupOnly \subseteq env /\ Builds(env, stored.override)
             => Builds(env, stored'.override)
  <1>1. ASSUME SettingsIInv, SettingsNext PROVE \A env \in SUBSET environment : Kept(env)
    <2>1. CASE stored' = stored
      BY <2>1
    <2>2. ASSUME NEW s \in Servers, ~Unlocked(s), Write(mutation[s]), NEW env \in SUBSET environment
          PROVE  Kept(env)
      <3>1. /\ mutation[s] \in MutationType /\ Proposal(mutation[s])
            /\ stored' = [revision |-> stored.revision + 1, override |-> mutation[s].proposed]
        BY <1>1, <2>2, WriteStoresProposal
      <3>2. stored'.override = mutation[s].proposed
        BY <3>1
      <3>3. environment \subseteq Settings /\ stored \in State
        BY <1>1 DEF SettingsIInv, Tables
      <3>4. ProjectedPolicies(Effective(env, stored.override)) => ProjectedPolicies(Effective(env, stored'.override))
        BY <3>1, <3>2, <3>3, ProposalsKeepPolicies
      <3>5. ASSUME environment \cap StartupOnly \subseteq env, Builds(env, stored.override)
            PROVE  Builds(env, stored'.override)
        <4>1. ProjectedPolicies(Effective(env, stored.override)) /\ VerificationPossible(Effective(env, stored.override))
          BY <3>5 DEF Builds, ValidPolicies
        <4>2. VerificationPossible(Effective(env, stored'.override))
          BY <3>1, <3>2, <3>3, <3>5, <4>1, ProposalsKeepVerification
        <4>3. QED
          BY <3>4, <4>1, <4>2 DEF Builds, ValidPolicies
      <3>6. QED
        BY <3>4, <3>5
    <2>3. stored' = stored \/ \E s \in Servers : ~Unlocked(s) /\ Write(mutation[s])
      BY <1>1 DEF SettingsNext, Change, Set, Clear, Declined, Finish, Publish, Conflict, SaveFails, Reconcile, Deploy
    <2>4. QED
      BY <2>1, <2>2, <2>3
  <1>2. SettingsIInv /\ [SettingsNext]_settingsVars => [\A env \in SUBSET environment : Kept(env)]_settingsVars
    BY <1>1
  <1>3. QED
    BY <1>2, SettingsInvariance, PTL DEF SettingsSpec, RemovalsKept
=============================================================================
