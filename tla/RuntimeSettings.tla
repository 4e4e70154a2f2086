--------------------------- MODULE RuntimeSettings ---------------------------
(***************************************************************************)
(* Operator settings.  PostgreSQL holds the overrides and one revision for *)
(* all of them; every server publishes an immutable snapshot, writes       *)
(* through optimistic revisions and polls for what others have written.    *)
(* A value is an override, unless the environment names the setting, or    *)
(* the default.  Settings that depend on each other form a policy that has *)
(* to be valid as a whole, and to stay so if variables are removed.  A     *)
(* switch that is read at startup only has no override.                    *)
(*                                                                         *)
(* All servers share the environment: a deployment restarts all of them.   *)
(* Texts, types and the bounds of single values are the set Values.        *)
(***************************************************************************)
EXTENDS Integers, FiniteSets

CONSTANTS
    Servers,
    Settings,      \* the modelled keys, of those in Policy and Switches below
    Values,        \* values of every setting, positive; Off and On those of a switch
    Default,       \* [Settings -> Values]
    EnvValue,      \* [Settings -> Values], where the variable is present
    Deliverable,   \* email delivery is configured
    MaxRevision,   \* bound: accepted writes
    MaxMisses      \* bound: failed calls and deployments

\* Whether a verified email is required, and challenge flows, which are read at startup.
Switches == {"required", "enabled"}
StartupOnly == {"enabled"}
Off == 1
On == 2

ASSUME SettingsAssumption ==
    /\ Values \subseteq Nat \ {0} /\ MaxRevision \in Nat /\ MaxMisses \in Nat
    /\ Default \in [Settings -> Values] /\ EnvValue \in [Settings -> Values]
    /\ Deliverable \in BOOLEAN /\ ("required" \in Settings => Default["required"] = Off)

VARIABLES
    environment,   \* the settings that environment variables name
    stored,        \* runtime_settings_state and runtime_setting_overrides
    snapshot,      \* per server: revision and overrides of its snapshot
    mutation,      \* per server: the Set or Clear that holds its mutex
    misses

settingsVars == <<environment, stored, snapshot, mutation, misses>>

NoOverride == [value |-> 0, revision |-> 0]
NoMutation == [op |-> "none"]
Override == [value : Values \cup {0}, revision : 0..MaxRevision]
State == [revision : 0..MaxRevision, override : [Settings -> Override]]

Miss == misses < MaxMisses /\ misses' = misses + 1

-----------------------------------------------------------------------------
(* Policies.  Values are functions on Settings.                            *)

\* The policies with the settings they relate, as environmentRemovalProjectionValidator
\* lists them.
SessionPolicy == {"access", "refresh", "session", "rotation"}
WebhookPolicy == {"timeout", "stale"}
ChallengePolicy == {"code", "challenge"}
Policy == {SessionPolicy, WebhookPolicy, ChallengePolicy}

validateSessionPolicies(v) ==
    SessionPolicy \subseteq Settings =>
        v["refresh"] <= v["session"] /\ v["access"] < v["refresh"] /\ v["rotation"] < v["refresh"]

validateWebhookRuntimePolicy(v) == WebhookPolicy \subseteq Settings => v["timeout"] < v["stale"]

validateChallengePolicy(v) == ChallengePolicy \subseteq Settings => v["code"] <= v["challenge"]

\* A requirement that buildSnapshot has besides the policies.
VerificationPossible(v) ==
    Switches \subseteq Settings /\ v["required"] = On => Deliverable /\ v["enabled"] = On

ProjectedPolicies(v) ==
    validateSessionPolicies(v) /\ validateWebhookRuntimePolicy(v) /\ validateChallengePolicy(v)

ValidPolicies(v) == ProjectedPolicies(v) /\ VerificationPossible(v)

\* The value a setting falls back to without its variable.
Fallback(over, k) == IF over[k] # NoOverride THEN over[k].value ELSE Default[k]
Effective(env, over) == [k \in Settings |-> IF k \in env THEN EnvValue[k] ELSE Fallback(over, k)]

\* buildSnapshot succeeds.
Builds(env, over) == ValidPolicies(Effective(env, over))

\* The settings of the policy of k.
Related(k) == (UNION {p \in Policy : k \in p}) \cap Settings

\* The validator of that policy; a key of none has no validator.
Validator(k, v) ==
    /\ k \in SessionPolicy => validateSessionPolicies(v)
    /\ k \in WebhookPolicy => validateWebhookRuntimePolicy(v)
    /\ k \in ChallengePolicy => validateChallengePolicy(v)

\* Which variables of a policy are present, and whether it is valid with them.
Masks(k) == SUBSET (Related(k) \cap environment)
RemovalSafe(k, over, mask) == Validator(k, Effective(mask, over))

\* Mutant: only the present environment is considered.
OnlyEffective(k, over) == Builds(environment, over)
\* validateEnvironmentRemovalProjections, for Set.
SetKeepsMasks(k, over) == Builds(environment, over) /\ \A mask \in Masks(k) : RemovalSafe(k, over, mask)

\* For Clear: no mask becomes invalid.
ClearKeepsMasks(k, before, over) ==
    /\ Builds(environment, over)
    /\ \A mask \in Masks(k) : RemovalSafe(k, before, mask) => RemovalSafe(k, over, mask)

-----------------------------------------------------------------------------
(* The server.                                                             *)

Unlocked(s) == mutation[s] = NoMutation
Release(s) == mutation' = [mutation EXCEPT ![s] = NoMutation]

\* LoadRuntimeSettings reads revision and overrides in one statement.
Reload(s) == snapshot' = [snapshot EXCEPT ![s] = IF Builds(environment, stored.override) THEN stored ELSE @]

\* parseText of the value, and operatorDefinition of the key.
Editable(k, value) == k \notin StartupOnly /\ (k \in Switches => value \in {Off, On})

\* Set: reload, preview, validate; the write is the next step.
Set(s, k, value, expected) ==
    LET over == [stored.override EXCEPT ![k] = [value |-> value, revision |-> stored.revision + 1]]
    IN  /\ Unlocked(s) /\ Editable(k, value) /\ k \notin environment
        /\ Builds(environment, stored.override) /\ Reload(s)
        /\ SetKeepsMasks(k, over)
        /\ mutation' = [mutation EXCEPT ![s] = [op |-> "set", key |-> k, expected |-> expected,
                                               before |-> stored.revision, proposed |-> over]]
        /\ UNCHANGED <<environment, stored, misses>>

Clear(s, k, expected) ==
    LET over == [stored.override EXCEPT ![k] = NoOverride]
    IN  /\ Unlocked(s) /\ k \notin StartupOnly
        /\ Builds(environment, stored.override) /\ Reload(s)
        /\ expected > 0 /\ stored.override[k].revision = expected
        /\ ClearKeepsMasks(k, stored.override, over)
        /\ mutation' = [mutation EXCEPT ![s] = [op |-> "clear", key |-> k, expected |-> expected,
                                               before |-> stored.revision, proposed |-> over]]
        /\ UNCHANGED <<environment, stored, misses>>

\* A Set or Clear that a check turns down has reloaded the snapshot.
Declined(s) ==
    /\ Unlocked(s) /\ snapshot[s] # stored /\ Reload(s)
    /\ UNCHANGED <<environment, stored, mutation, misses>>

\* Mutant: only the revision of the key is compared.
KeyOnly(m) == stored.override[m.key].revision = m.expected
\* WHERE revision = expected state revision, and the one of the key.
Matches(m) == stored.revision = m.before /\ stored.override[m.key].revision = m.expected

Next1 == stored.revision + 1

UpsertRuntimeSettingOverride(m) ==
    /\ m.op = "set" /\ Matches(m)
    /\ stored' = [revision |-> Next1,
                  override |-> [stored.override EXCEPT ![m.key] = [m.proposed[m.key] EXCEPT !.revision = Next1]]]

DeleteRuntimeSettingOverride(m) ==
    /\ m.op = "clear" /\ Matches(m)
    /\ stored' = [revision |-> Next1, override |-> [stored.override EXCEPT ![m.key] = NoOverride]]

Write(m) == stored.revision < MaxRevision /\ (UpsertRuntimeSettingOverride(m) \/ DeleteRuntimeSettingOverride(m))

\* The end of Set and Clear: the proposed snapshot is published under the new revision.
Publish(s) ==
    LET m == mutation[s]
    IN  /\ ~Unlocked(s) /\ Write(m) /\ Release(s)
        /\ snapshot' = [snapshot EXCEPT ![s] =
              [revision |-> Next1, override |-> [m.proposed EXCEPT ![m.key] = stored'.override[m.key]]]]
        /\ UNCHANGED <<environment, misses>>

\* No row: ErrRevisionConflict, then refreshAfterConflict.
Conflict(s) ==
    /\ ~Unlocked(s) /\ ~Matches(mutation[s]) /\ Release(s) /\ Reload(s)
    /\ UNCHANGED <<environment, stored, misses>>

\* The statement fails, or commits and its answer is lost.
SaveFails(s) ==
    /\ ~Unlocked(s) /\ Miss /\ Release(s)
    /\ stored' = stored \/ Write(mutation[s])
    /\ UNCHANGED <<environment, snapshot>>

\* Mutant: only a revision that is one ahead is taken.
OneAhead(s) == stored.revision = snapshot[s].revision + 1
\* reloadLocked without force.
NeedsReload(s) == stored.revision # snapshot[s].revision

\* The ticker of StartReconciler; a failed query is tried again.
Reconcile(s) ==
    /\ Unlocked(s) /\ NeedsReload(s) /\ Reload(s)
    /\ UNCHANGED <<environment, stored, mutation, misses>>

\* NewService of all servers in a changed environment; one in which the
\* policies are invalid does not start.
Deploy(env) ==
    /\ env # environment /\ \A s \in Servers : Unlocked(s)
    /\ Builds(env, stored.override) /\ Miss
    /\ environment' = env
    /\ snapshot' = [s \in Servers |-> stored]
    /\ UNCHANGED <<stored, mutation>>

SettingsInit ==
    /\ environment \in SUBSET Settings
    /\ stored = [revision |-> 0, override |-> [k \in Settings |-> NoOverride]]
    /\ Builds(environment, stored.override)
    /\ snapshot = [s \in Servers |-> stored]
    /\ mutation = [s \in Servers |-> NoMutation]
    /\ misses = 0

Change(s) == \E k \in Settings, expected \in 0..MaxRevision :
    (\E value \in Values : Set(s, k, value, expected)) \/ Clear(s, k, expected)

\* A server goes on with the mutation that holds its mutex.
Finish(s) == Publish(s) \/ Conflict(s) \/ SaveFails(s)

SettingsNext ==
    \/ \E s \in Servers : Change(s) \/ Declined(s) \/ Finish(s) \/ Reconcile(s)
    \/ \E env \in SUBSET Settings : Deploy(env)

\* The statement returns, and the ticker of every server fires again.
SettingsFairness == \A s \in Servers : WF_settingsVars(Finish(s)) /\ WF_settingsVars(Reconcile(s))

SettingsSpec == SettingsInit /\ [][SettingsNext]_settingsVars
FairSettingsSpec == SettingsSpec /\ SettingsFairness

-----------------------------------------------------------------------------
(* Properties.                                                             *)

\* Types, and the effective policies are valid: NewService and Reconcile never
\* meet a state in which buildSnapshot fails.  A snapshot with the revision of
\* the database has its overrides: Reconcile, which compares the revisions
\* only, never leaves a server with other settings.
SettingsTypeOK ==
    /\ environment \subseteq Settings /\ stored \in State
    /\ snapshot \in [Servers -> State] /\ misses \in 0..MaxMisses
    /\ \A s \in Servers : ~Unlocked(s) => mutation[s].key \in Settings /\ mutation[s].before <= stored.revision
    /\ Builds(environment, stored.override)
    /\ \A s \in Servers : snapshot[s].revision = stored.revision => snapshot[s] = stored

\* A write leaves every environment that can be left by removing variables as
\* startable as it was, writes on two servers at the same time included, where
\* the variables that are read at startup only stay; without these too the
\* policies stay valid (validateEnvironmentRemovalProjections, Clear).
RemovalsKept ==
    [][\A env \in SUBSET environment :
          /\ ProjectedPolicies(Effective(env, stored.override)) => ProjectedPolicies(Effective(env, stored'.override))
          /\ environment \cap StartupOnly \subseteq env /\ Builds(env, stored.override)
             => Builds(env, stored'.override)]_settingsVars

\* The same of every variable: an override that would make the effective settings
\* invalid, once variables are removed, is rejected.
RemovalsStartable ==
    [][\A env \in SUBSET environment : Builds(env, stored.override) => Builds(env, stored'.override)]_settingsVars

\* Once the writes end, every server serves what is stored, whatever two
\* servers wrote at the same time and whichever answers were lost.
ServersConverge == <>[](\A s \in Servers : snapshot[s] = stored)

=============================================================================
