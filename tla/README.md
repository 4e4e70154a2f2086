# Authara: formal models, model checking and proofs

Authara is an authentication server: Go services on PostgreSQL (isolation READ
COMMITTED), with Redis for immediate access-token revocation and rate limits,
background workers for email and webhooks, a cleanup leader, and settings that
operators change while servers run. This directory models its stateful core in
TLA+, model-checks it on small instances and proves its safety properties for all
instances. `PROJECT.json` lists components, runs, mutants, hazards, theorems and,
for every definition that models code, the lines it stands for.

## The system

| Part | State | Operations | Hard because |
|---|---|---|---|
| Sessions and refresh tokens (`internal/session`) | `sessions`, `refresh_tokens` | create, refresh with rotation and replay detection, switch of organization, logout, revocation of one, all or all other sessions, cleanup | every operation is a transaction that races with all the others; checks are made before row locks and repeated after |
| Access tokens (`internal/session/token`, `internal/cache`) | JWTs in clients' hands, cutoffs in Redis | issue, mark, check | cutoffs are written before the commit, have a lifetime and are compared with times captured earlier |
| Challenges (`internal/challenge`) | `challenges`, `verification_codes`, pending actions | create, resend, verify, complete, cancel | attempts and resends are limited under concurrency; codes are stored by workers that may be late; a newer request withdraws an older one |
| Accounts, passkeys, links (`internal/auth`, `internal/passkey`) | `auth_providers`, `passkeys`, WebAuthn challenges, pending links | login, set, change, reset, link, replace, unlink, register, re-authenticate | read, verify for a while, then write; two devices with one passkey; the last way to sign in |
| Administration, organizations, invitations (`internal/admin`, `internal/organization`) | `users`, roles, `organizations`, memberships, invitations | disable, enable, delete, grant, revoke, create, transfer, remove, invite, accept | guards on the last administrator, the owner and the single organization; lock orders |
| Email queue (`internal/challenge/worker.go`, `internal/store/email.go`) | `email_jobs` | enqueue, claim, send, record, take back, clean up | at-least-once delivery; leases are clock readings of replicas |
| Webhook queue (`internal/webhook`) | `webhook_events`, a wake channel, a LISTEN connection | publish, notify, claim, deliver, record, take back | the same, and lost notifications |
| Maintenance (`internal/maintenance`) | one lease row with a generation | acquire, renew, release, run a batch | a paused leader |
| Rate limiter (`internal/ratelimiter`) | fixed-window counters, in memory or in Redis | allow, sweep, evict | bounded maps; several counters per attempt |
| Runtime settings (`internal/config`) | overrides and a revision, a snapshot per server | set, clear, reconcile | two servers write; policies span several settings and the environment hides overrides |
| Process lifecycle (`internal/lifecycle`, `internal/bootstrap`) | the process, its workers and its resources | start, serve, drain, close | a failure at any stage, a deadline during shutdown |

Services share PostgreSQL and call each other inside one transaction: a password
reset consumes a challenge, updates the user, revokes sessions, enqueues an email
and publishes a webhook event, all or nothing. What leaves the transaction is the
cutoff in Redis (written before the commit, so that a failure is a revocation too
many, never one too few) and the work of the queues, which other processes pick up.
Servers learn of each other only through the database: row locks, conditional
updates, leases, revisions and notifications.

What makes each part correct, in short: a revoked session, a disabled user and a
removed member are shut out at once, whatever was in flight; a refresh token is
used once and its reuse is noticed; a code proves the address it was sent to and
cannot be guessed; nobody loses the last way to sign in and no replaced password
comes back; an instance keeps an administrator and an organization its owner; a
queued job has one owner at a time, is tried a bounded number of times and never
stranded; one replica cleans up at a time; a limit holds under concurrency; servers
converge on the stored settings; nothing is closed while it is used.

## Modules

| Module | Models |
|---|---|
| `Sessions` | sessions, refresh tokens, access tokens, cutoffs, and the transactions of the other services as far as they revoke or issue |
| `Challenges` | email challenges of the four purposes, their codes and the workers that deliver them, and what they complete |
| `Credentials` | passwords, identities at providers, passkeys, WebAuthn ceremonies, pending links, recent authentication |
| `Directory` | users, administrators, organizations, members and invitations, with a table of row locks |
| `LeaseQueue` | abstract: what a work queue promises |
| `EmailQueue` | email jobs, workers and reaper; implements `LeaseQueue` |
| `WebhookQueue` | webhook events, notifications, workers and reaper; implements `LeaseQueue` |
| `Maintenance` | the lease of the cleanup leader and its batches |
| `RateLimiter` | the limiter in memory and the one in Redis |
| `RuntimeSettings` | overrides, policies, environment and the snapshots of servers |
| `Lifecycle` | one process from start to exit |
| `MCSessions`, `MCSessionParts`, `MCAccounts`, `MCDirectory`, `MCBackground`, `MCWebhookQueue`, `MCPlatform` | instances for TLC |
| `SessionsProofs`, `AccountsProofs` (about `Challenges` and `Credentials`), `DirectoryProofs`, `EmailQueueProofs`, `WebhookQueueProofs`, `MaintenanceProofs`, `RateLimiterProofs`, `ServerProofs` (about `RuntimeSettings` and `Lifecycle`) | theorems and proofs |

**Sessions.** The state is what is committed, what Redis holds, the access tokens
handed out, and the requests in flight. A request is a transaction cut where another
one can come between: `Begin` captures the request's time and does the unlocked
reads (pc `begun`); the `...Check` and `...Mark` actions take the row locks, repeat
the reads and make the checks (pc `locked`; revocations also write their cutoffs
there, before the commit, as the code does); the `...Commit` actions write the
tables and issue tokens. `Abort` is any failure, after which cutoffs already written
stay. Locks are not variables: a lock is held by the requests in `locked` whose
operation takes it, and a commit or rollback drops it. The switch of organization
keeps the statement snapshot of its `DELETE`: tokens inserted after it survive. The
twelve transactions that revoke differ in what they lock, which sessions they mark
and with which time (`MarkedSessions`, `MarkerAt`), what they revoke, and whether
they delete refresh tokens; they share `RevokeMark` and `RevokeCommit`.
`RevokeMarkFails` is a Redis failure: only the reuse revocation goes on
(`lostCutoff` remembers it). Time is in seconds, the resolution of JWT times. A
transaction takes all its row locks in one step, or waits for all of them, and the
KEY SHARE locks of foreign keys are left out, so deadlocks among the transactions of
this module are not modelled: PostgreSQL ends one of them, which is an `Abort`. The
commit of a refresh does not repeat the `consumed_at IS NULL` of the code's update:
what it read under the lock of the token has to be enough.

**Challenges.** A challenge is verified under its row lock in several steps; the
other transactions decide on what they hold locked until they commit and are one
step. A code is not known to the request that creates the challenge: the worker that
delivers the email stores it, without a lock on the challenge, and a delivery may be
retried. History variables count wrong codes and remember which addresses entered a
code and which resets were withdrawn. While a verification transaction refers to a
challenge, the challenge cannot be deleted, because `ON DELETE SET NULL` and the CHECK
of migration 036 contradict each other: a cleanup batch or an account deletion that
includes it fails, and what is modelled is that nothing changes. The interval between
two resends has no property.

**Credentials.** A request is a transaction of several steps (`request`); what it
read before its lock is in `seen`, and any request may fail. Passwords are numbers,
each new one higher, so that one that comes back is told from a new one. A sign
counter is what an authenticator answers; a copied authenticator answers with a
counter that did not rise. A pending link is that of an existing user; the identity
that a signup through a provider creates with the user is not modelled.

**Directory.** A transaction takes the row locks of its code in their order (`todo`,
`held`), decides (`Check`) and writes and commits in one action per operation. The
lock table has both modes; a transaction may be refused or rolled back at any point.
The rows of an organization are locked in the order of its identifiers, as the code
does. `NoDeadlock` says that no circle of transactions on organizations, members and
invitations wait for each other: besides the locks still to take it counts the rows
that a statement rewrites at the end (the invitations of a deleted organization). Not
covered are the locks that foreign keys take for `GrantAdmin`, which are one step, and
the deletion of a user, whose cascades lock rows in the order of a scan.

**EmailQueue and WebhookQueue.** A worker is cut at every database or network call
and may be delayed for any time in between; a crash, a shutdown past its deadline or
a failed call sends it back to its start with the job left as it is. The lease is
the clock reading made before the claim; the transitions are the conditional updates
of the code. Each replica's reading may be `Skew` behind the reference clock.
`WebhookQueue` adds the notifications (folded per transaction, lost with the
connection), the buffered wake channel, the wakeup every claim passes on, and the
runtime settings. `LeaseQueue` has no time: a job has a status, an owner and workers
at work on it, some of which the queue has given up. Both queues implement it with
the worker that holds the current lease as owner.

**Maintenance.** Time is relative: what is left of the lease, and the age of a
transaction, whose `now()` is its beginning. Leadership, renewal (a goroutine of its
own) and batches are separate actions; replies may be lost, replicas crash, stall
and restart under another owner id (`Ghost` is a process that has ended).

**RateLimiter.** Counters with the time that is left of their window; a call reads
its clock before the mutex, so it may lag behind. The memory limiter is one step
under its mutex, with sweep and eviction; the Redis one increments its counters one
after the other and any of them may fail. Eviction is that of the code: it goes through
the maps in order and drops an entry of each before it looks at the total, so every map
after the one that made room loses an entry too (`Surplus`, `Cleared`). A dropped entry
forgets its attempts; `WindowHolds` says that this happens only when the maps are over
their bound, and that a bucket lets at most its limit through since then.

**RuntimeSettings.** A write is two steps, validation against what was read and the
conditional statement; its answer may be lost. Values are chosen from a small set. A
snapshot has to satisfy the three policies, which are projected on smaller
environments before a write, and a requirement that is not projected: verified emails
need deliverable email and challenges, a switch read at startup only. All servers share
one environment, which changes with a deployment of all of them; the rolling
deployments of `docs/operations/runtime-settings.md:165-171`, with two environments at
a time, are not modelled.

**Lifecycle.** The stages of the start are one action each in their order, any of which
may fail and then runs the error path of its own stage (`ErrorPaths`: the list of what
that `return` closes); shutdown of server and workers run beside each other, with one
deadline.

## Runs

A run over a module with many operations is divided into *parts*: a behaviour
belongs to one part, given by a variable of the MC module that never changes, and
keeps to the operations and bounds of that part. The state spaces of the parts add
up where those of all operations together would multiply. A part joins the
operations that meet on the same rows.

| Run | Question | Bounds | Distinct states |
|---|---|---|---|
| `sessions_refresh` | one usable token, no token beyond its session, none issued after a revocation, tombstones kept, revocations final | one user, organization and session, three refresh and access tokens, two requests, the clock past every expiry; `verifyEmail` in the first two seconds, other operations, a switch among them, alone in the first | 419,553 |
| `sessions_revokers` | what was revoked, disabled or removed is rejected; a token is rotated once | parts `members`, `disabling`, `revoking`; two organizations or two sessions, three tokens, two requests, two seconds | 716,658 |
| `accounts` | limits on codes, what a code proves, withdrawn resets; replays of passkeys, restricted passkeys, the last method, replaced passwords, links | parts `signup`, `reset`, `change`, `verify`, `verifyAndReset`, `methods`, `upgrade`, `links`, `relink`, `passkeys`, `reauth`; one account with two addresses, two users, two requests, one wrong code, one resend | 231,827 |
| `directory` | last administrator, one owner, one organization, invitations used once, no circle of waits | parts `admins`, `owners`, `invites`, `signups`, `single`, `closing`, `start`; three users, two organizations, two invitations, two transactions | 207,217 |
| `background_work` | bounded sending, refinement, settling; coherent and convergent settings, possible removals; closed resources, an end | email: one job, two workers, skew 1, two attempts, a fault in the first two ticks; settings: two servers, the session policy or the switches of email verification, two writes, one fault; lifecycle: three workers, two requests | 158,705 |
| `webhook_queue` | no lost wakeup, refinement, settling | parts `settle` (one event, skew 1, a fault or a restart, changing settings) and `wake` (two events, one clock, no fault); two workers, two attempts | 287,986 |
| `platform` | one cleaner, fenced batches, kept leases, deleted rows; windows that hold and reopen | two replicas, two jobs, two mishaps, a lease of one tick; two calls, two addresses, one mailbox, two entries, both backends | 149,847 |
| `verify_email_cutoff`, `change_password_expired`, `switch_tombstones`, `resend_authoritative`, `settings_removal` | the findings below | the smallest that show them | stop at the counterexample |

Each property has a mutant in `PROJECT.json`: a definition changed the way a
plausible bug would, under which the property fails.

**Why the bounds are enough.** Two requests in flight are enough for every race of
the properties: each relates one transaction that issues, uses or counts with one
that revokes, withdraws or removes, or two of one kind. Two sessions and three
tokens allow a login, a rotation and a replay or a second session. The clock of
`sessions_refresh` goes past the expiry of the session; that of `sessions_revokers`
does not, so `RevokedRejected` is there about sessions that have not expired (the
others are finding 2). `RevocationFinal` needs the clock to pass the lifetime of a
marker, and `verifyEmail` long enough for its captured time to be old. One job with two workers is enough for the queues' safety
because jobs do not interact except through order; `wake` has two events in one or
two transactions. The attempt limit is 2, so that retries, the last attempt and one
too many all occur. In the queues the last tick stands for all later times, when
every clock has reached it. Three users are the actor, the one acted upon and the
one that remains. Identifiers are used up and clocks stop, so the models may stop
and deadlock is not an error (`CHECK_DEADLOCK FALSE`); waiting for ever is what the
liveness properties exclude. For safety, the theorems below make the bounds
irrelevant where they apply.

**Fairness.** The queues assume weak
fairness of the workers (which have a poll timer), the reaper and the clock: on some
replica they run. `RuntimeSettings` assumes it of the statement under way and of
each server's reconciling ticker, `Lifecycle` of the supervisor, the monitors, the
return of `Serve` after its shutdown and the deadline, `RateLimiter` of calls under
way. `Maintenance` assumes it of the clock and of the tickers of coordination and
renewal, and strong fairness of the batch that is last on a leader's agenda: the
other jobs keep their due times, so a job that runs again and again is at some time
due after them, and its rows are deleted. The limiter's clock has strong fairness
because a call may hold it back for at most its lag. Nothing is assumed of faults,
notifications, SMTP, webhooks' receivers or new requests, and faults are bounded, as
they must be for anything to be guaranteed.

## Findings

1. `verify_email_cutoff`: `BeginRequiredEmailVerification` marks the session with the
   time its caller read before waiting for the user lock. A refresh that commits
   meanwhile leaves an access token newer than the cutoff. Every other revocation
   takes the time after the lock. CONTRACT.md:311-313 promises immediate revocation.
2. `change_password_expired`: `ChangePassword` (and `RevokeOtherUserSessions`) mark
   only the other sessions that have not expired, but an access token issued just
   before its session expired lives on. CONTRACT.md:349-353.
3. `switch_tombstones`: a switch of organization deletes the consumed refresh tokens
   of a session that goes on, so their replay is no longer noticed; the comment at
   `store/sessions.go:313-315` says they are kept. Related, and the reason for a
   hypothesis of `OneTokenRemains` (`Undisturbed`): when a refresh commits while a
   switch of its session waits in its `DELETE`, the token which that refresh inserts is
   not in the statement's snapshot, so both new tokens stay usable.
4. `resend_authoritative`: a retried delivery of a challenge's first email stores its
   code after that of a resend, whose code is then refused;
   docs/configuration/email.md:368-370 says the resend's code is authoritative.
5. `settings_removal`: `buildSnapshot` refuses `authentication.email_verification_required`
   without `challenge.enabled` (`runtime_service.go:588-593`), but
   `environmentRemovalProjectionValidator` has no case for it. While the environment
   enables challenges an operator may store the requirement; without the variable the
   server does not start. docs/operations/runtime-settings.md:87-89 says that such
   overrides are rejected.

## Proofs

The proof modules hold 470 lemmas and theorems; those a reader should know are listed
in `PROJECT.json`. They hold for every number of users, sessions, tokens, requests,
jobs, workers, replicas or servers, and for every lifetime, delay, limit and bound.
Assumed of the constants are only the named assumptions of the modules, which TLC
checks on every run: what the configuration checks of the code accept
(`PolicyAssumption`, `QueueAssumption`, `WebhookAssumption` with at least one worker,
`LimiterAssumption`, `MaintenanceAssumption`, `SettingsAssumption`,
`ChallengesAssumption`), that a null value is not a row, and that what is counted with `Cardinality` is finite (workers,
people, organizations, providers, passkeys).

Every proof has the same shape. An inductive invariant joins the types, the foreign
keys, the exclusion of row locks and *what a transaction has read or decided under its
locks is still true until it commits*. For each kind of step there are lemmas on what
it leaves alone, then one lemma per action on the invariant, then the theorem by
induction over the behaviour. A property follows from the invariant, or, for an action
property, from the invariant and one step.

| Module | Inductive invariant | Shown |
|---|---|---|
| `SessionsProofs` | `IInv` = `TypeOK`, `Rows`, `Shapes`, `UserLocks`, `ChecksHold`, `DisabledRevoked`; `RInv` = `Lineage`, `TokenLocks`, `SwitchLocks`, `TokenWithinSession`; `OneUsable`; `AInv` = `AccessTimes`, `OrgLocks`, `UsersDead`, `MembersDead`, `SessionsDead`, `RevokersCut`, `CutoffsOutlive` | `TypeOK`, `NoIssueAfterRevocation`, `RotatedOnce`, `TokenWithinSession`, `DisabledShutOut`, `RemovedRejected`, `RevocationFinal`; with hypotheses `OneLiveToken`, `TombstonesKept`, `RevokedRejected` |
| `AccountsProofs` | `CInv` = `Tables`, `MailRefers`, `ChallengeLocks`, `Counted`, `Pending`, `VerifiedIsProven`; `KInv` = `Records`, `OneHolder`, `CeremonyUses`, `CountersRise`, `SigninKeys`, `LinkRows`, `RequestRows`, `UserLocks`, `CountsHold`, `RestrictedShutOut` | `GuessesBounded`, `VerifiedIsProven`, `ResetsCurrent`, `ReplayNoticed`, `RestrictedShutOut`, `MethodKept`, `PasswordNotRevived`, `IdentityByLink` |
| `DirectoryProofs` | `TxnsTyped`, `Tables`, `Locking`, `Decisions` | `OneOwner`, `OneOrganization`, `AdminKept`, `InvitationsKept` |
| `EmailQueueProofs` | `TypeOK`, `Leases`, `DistinctLeases`, `Counted`, `AttemptsLeft` | `SendsBounded`, `ImplementsLeaseQueue` |
| `WebhookQueueProofs` | types, `Leases`, `DistinctLeases`, `AttemptsLeft` | `ImplementsLeaseQueue`, `WakesKept`, `NewEventsAnnounced` while no polling clock is behind |
| `MaintenanceProofs` | types, `LockedIsOwner`, `CommittedPast` | `OneCleaner`, `BatchesFenced`, `LeaseKept` |
| `RateLimiterProofs` | `Typed`, `CountedInMemory`, `CountedInRedis`, `Room` | `WindowHolds` |
| `ServerProofs` | `SettingsIInv` = `Tables`, `Revisions`, `Validated`, a valid policy; `LifecycleIInv` = types, `Phases`, `Drained`, `ResourcesClosed` | `SettingsTypeOK`, `RemovalsKept`, `ResourcesClosed` |

Why the strengthenings are needed:

- *Sessions.* `Shapes` says that the rows a request remembers exist and belong to the
  user it locks: without it a lock on one user would say nothing about the session
  being written. `UserLocks` and `OrgLocks` exclude a transaction that revokes and one
  that issues from holding the same row; `ChecksHold` is what those locks are for.
  Rejection of access tokens is proved through `Dead`: a token has expired, or is
  cut off by a marker that is not older than it and lives longer. A dead token stays
  dead (cutoffs only grow, `CutoffsGrow`), and the tokens of a user, member or session
  are already dead while a transaction that has marked them holds its lock, so none is
  alive when the table changes, and none can be issued after, because the locks exclude
  it. `Lineage` and `TokenLocks` are why a token is rotated once: what a refresh has
  read under the token's lock, that it is not consumed, still holds when it commits.
  `OneUsable` needs, besides the tokens themselves, that the snapshot of a switch holds
  every token of its session; a switch locks its session row, so two never overlap.
  A revocation is final because what it cuts is dead under its locks already
  (`RevokersCut`, for each of the operations with its own exceptions), and because a
  marker lives at least as long as any token it covers (`CutoffsOutlive`): otherwise
  its expiry, or a second revocation that replaces it, would revive a token.
- *Challenges.* `ChallengeLocks` keeps the attempts a verification has read below the
  limit, so `Counted` bounds the wrong codes; `Pending` says that what is pending is of
  a live challenge for the address its code goes to, so entering the code proves
  that address and a reset that was withdrawn has nobody pending.
- *Credentials.* `CountsHold`: a removal has counted two methods under the user's lock,
  and no other transaction can remove one meanwhile; it uses that a set with more than
  one element keeps one when one goes. `CountersRise` orders the accepted counters and
  bounds them by the stored one.
- *Directory.* `Locking` has the exclusion of the two lock modes and says that a
  transaction holds the locks of its kind or still has to take them; `Decisions` that
  what was decided is still true. A step of another transaction respects the locks
  held, and a decision depends only on rows locked by the one who made it.
- *Queues.* A worker that was given up has an older lease than the one the job has, or
  can have when it is claimed again (`Leases`), so conditional updates tell the two
  apart. `Counted` charges every message that was or may still be sent to an attempt.
  The refinement maps the worker with the current lease to the owner of `LeaseQueue`,
  and each action is shown to be an abstract step or a stutter.
- *Maintenance.* Nothing acquires, renews or releases the lease while a batch has the
  row locked, so the owner and generation read under the lock still hold at the commit.
- *Rate limiter.* What was let through in a window is what the counter says (memory) or
  at most that (Redis); two entries per call since the last sweep bound the maps.
  A dropped entry starts again from zero, so its counter says what was let through since.
- *Settings.* A mutation that was validated is, as long as nobody has written since,
  exactly what its statement would store, and its validation still holds, since the
  revision is compared in the statement and servers are not redeployed during it. That
  an accepted write keeps every smaller environment startable needs that the policies
  are disjoint: the validation looks at the masks of one policy only, and the other
  policies' values have not changed. The requirement on email verification is no policy:
  it survives the removal of variables as long as those read at startup only stay, since
  their value is then the one the write was built with (`RemovalsKept`); without them it
  does not (finding 5).
- *Lifecycle.* What is open is what the error path of the current stage closes, so each
  path is compared with what was opened before it; and what a shutdown call that
  returned has waited for does not come back.

Hypotheses. Those of `SessionsProofs` leave out what would make the property false;
a run or a finding shows each. `OneTokenRemains` is about behaviours without the
interleaving of finding 3 (`Undisturbed`), `TombstonesRemain` about those in which no
switch of organization commits; both have a corollary for systems without the switch.
`LiveRevokedAreRejected` and `RevokedAreRejected` have no `verifyEmail` (finding 1);
`RevokedAreRejected` also has no `ChangePassword` and `RevokeOtherUserSessions`,
which do not mark expired sessions (finding 2), while `LiveRevokedAreRejected`
allows them and speaks of sessions that have not expired. `RevocationIsFinal` has no
hypothesis and covers all operations at once: the exception of each is part of the
property (`Cuts`), so each is held to all it promises while the others run beside it.
`NewEventsAreAnnounced` assumes that no worker polls with a clock that is behind
(`OneClock`, about the behaviour and not the bound on the skew): an event created by a
clock ahead of the workers' waits for the poll timer. `WakesAreKept` derives the
invariant of the run from it. All other theorems have no hypotheses besides the named
assumptions.

Only model-checked:

- liveness (`JobsSettle`, `EventsSettle`, `ServersConverge`,
  `ProcessEnds`, `RowsDeleted`, `BucketsReopen`): it needs `ENABLED` and fairness, which
  are out of the prover's reach;
- `NoDeadlock`;
- `RevokedRejected` as an invariant together with `ChangePassword` and
  `RevokeOtherUserSessions`, within the bounds of `sessions_revokers`; for sessions that
  had not expired when they were revoked, `LiveRevokedAreRejected` proves it.

## Not modelled

HTTP decoding, pages and generated code, the frontend and the integrations; cryptography
(JWT, WebAuthn, password hashes); rendering of email and its templates; identity
providers' protocols; the access policy's allowlist; security events and the audit log
(rows that are only appended, inside transactions that are modelled); metrics and logs.
They keep no protocol state or only pass calls to the services. Of accounts, user names
and the profile a provider returns are left out; of the operator commands, the operator
role, which has no guard. Failures of PostgreSQL itself (failover, lost commits) are
outside the model: a committed transaction stays committed.

## What is left to do

1. `Sessions` and `Credentials` have separate tables of sessions, and `Sessions` and
   `Directory` separate memberships: an abstract specification of the directory that
   `Sessions` uses (users, members) could be shown to be implemented by `Directory`.
2. Email templates (versions, publication, fallback) and the allowlist, which have
   revisions like the runtime settings.
