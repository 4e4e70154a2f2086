--------------------------- MODULE AccountsProofs ---------------------------
(***************************************************************************)
(* Proofs about Challenges and Credentials, for every number of users,     *)
(* addresses, challenges, emails, passkeys, links and concurrent requests. *)
(***************************************************************************)
EXTENDS Challenges, Credentials, FiniteSetTheorems, TLAPS

-----------------------------------------------------------------------------
(* The inductive invariant of Challenges.                                  *)

ChallengeType ==
    [purpose : Purposes \cup {"none", "deleted"}, email : Emails \cup {Nobody}, expires : Int,
     consumed : BOOLEAN, attempts : 0 .. MaxAttempts, resends : Nat, maxResends : Nat,
     lastSent : -1 .. LastTick, opaque : BOOLEAN]
ChangeType == [challenge : ChallengeIds \cup {Nobody}, login : Logins \cup {Nobody},
               old : Emails \cup {Nobody}, new : Emails \cup {Nobody}]
VerificationType == [open : BOOLEAN, challenge : ChallengeIds \cup {Nobody},
                     target : Emails \cup {Nobody}, expires : Int]
MailType == [challenge : ChallengeIds \cup {Nobody},
             status : {"absent", "pending", "claimed", "rendered", "sent", "failed", "deleted"},
             claimed : 0 .. LastTick, attempts : Nat, mailed : BOOLEAN, nth : Nat]
VerifierType == [pc : {"idle", "locked", "verified"}, challenge : ChallengeIds \cup {Nobody},
                 at : 0 .. LastTick, seen : Accounts \cup {Nobody}]

\* The types of the tables; ChallengesTypeOK has the parts of interest.
Tables ==
    /\ tick \in 0 .. LastTick
    /\ account \in [Accounts -> [email : Emails \cup {Nobody}, verified : BOOLEAN, password : BOOLEAN]]
    /\ login \in [Logins -> Accounts \cup {Nobody}]
    /\ challenge \in [ChallengeIds -> ChallengeType]
    /\ \A c \in ChallengeIds : challenge[c].resends <= challenge[c].maxResends
    /\ code \in [ChallengeIds -> [value : Mails \cup {Nobody}, expires : Int]]
    /\ reset \in [Accounts -> ChallengeIds \cup {Nobody}]
    /\ change \in [Accounts -> ChangeType]
    /\ verification \in [Accounts -> VerificationType]
    /\ mail \in [Mails -> MailType]
    /\ verifier \in [Verifiers -> VerifierType]
    /\ wrong \in [ChallengeIds -> Nat]
    /\ withdrawn \subseteq ChallengeIds /\ proven \subseteq Emails

\* An email that is not absent or deleted belongs to a challenge.
MailRefers == \A j \in Mails : mail[j].status \notin {"absent", "deleted"} => mail[j].challenge \in ChallengeIds

\* FOR UPDATE of a challenge: one verification at a time, and what it has
\* checked under the lock, that another guess is allowed, still holds.
ChallengeLocks ==
    \A p \in Verifiers : verifier[p].pc # "idle" =>
        LET c == verifier[p].challenge
        IN  /\ c \in ChallengeIds /\ Live(c)
            /\ ~challenge[c].consumed /\ challenge[c].attempts < MaxAttempts
            /\ verifier[p].pc = "verified" => verifier[p].seen \in Accounts
            /\ \A q \in Verifiers \ {p} : verifier[q].pc # "idle" => verifier[q].challenge # c

\* Every wrong code that was compared has been counted.
Counted ==
    \A c \in ChallengeIds :
        /\ challenge[c].purpose = "none" => wrong[c] = 0 /\ c \notin withdrawn
        /\ Live(c) => wrong[c] <= challenge[c].attempts /\ challenge[c].email \in Emails
        /\ wrong[c] <= MaxAttempts

\* A pending reset, change or verification is of a challenge that exists, for the
\* address that its code goes to; a reset is pending for one user and not withdrawn.
Pending ==
    /\ \A u \in Accounts : reset[u] # Nobody =>
          /\ Live(reset[u]) /\ reset[u] \notin withdrawn
          /\ \A v \in Accounts \ {u} : reset[v] # reset[u]
    /\ \A u \in Accounts : change[u].challenge # Nobody =>
          Live(change[u].challenge) /\ change[u].new = challenge[change[u].challenge].email
    /\ \A u \in Accounts : verification[u].challenge # Nobody =>
          /\ Live(verification[u].challenge)
          /\ verification[u].target = challenge[verification[u].challenge].email

CInv == Tables /\ MailRefers /\ ChallengeLocks /\ Counted /\ Pending /\ VerifiedIsProven

\* The unused rows.
LEMMA RowTypes ==
    /\ NoChallenge \in ChallengeType /\ NoChange \in ChangeType
    /\ NoVerification \in VerificationType /\ NoMail \in MailType /\ NoRequest \in VerifierType
    /\ NoAccount \in [email : Emails \cup {Nobody}, verified : BOOLEAN, password : BOOLEAN]
    /\ NoCode \in [value : Mails \cup {Nobody}, expires : Int]
  BY ChallengesAssumption
  DEF NoChallenge, NoChange, NoVerification, NoMail, NoRequest, NoAccount, NoCode, ChallengeType,
      ChangeType, VerificationType, MailType, VerifierType

\* The initial state.
LEMMA ChallengesInitCInv == ChallengesInit => CInv
  <1> SUFFICES ASSUME ChallengesInit PROVE CInv
    OBVIOUS
  <1>1. Tables
    BY ChallengesAssumption, RowTypes DEF ChallengesInit, Tables, NoChallenge
  <1>2. MailRefers /\ ChallengeLocks /\ Counted /\ Pending /\ VerifiedIsProven
    BY ChallengesAssumption
    DEF ChallengesInit, MailRefers, ChallengeLocks, Counted, Pending, VerifiedIsProven, NoChallenge,
        NoChange, NoVerification, NoMail, NoRequest, NoAccount, Live
  <1>3. QED
    BY <1>1, <1>2 DEF CInv

-----------------------------------------------------------------------------
(* How the tables change.                                                  *)

\* A challenge as far as it matters to what refers to it.
Same(c) ==
    /\ challenge'[c].purpose = challenge[c].purpose /\ challenge'[c].email = challenge[c].email
    /\ challenge'[c].consumed = challenge[c].consumed
    /\ challenge'[c].attempts = challenge[c].attempts

\* A request keeps the challenge it has locked, ends, or locks one.
VerifierStep ==
    \A p \in Verifiers :
        \/ verifier'[p].pc = "idle"
        \/ /\ verifier[p].pc # "idle" /\ verifier'[p].challenge = verifier[p].challenge
           /\ verifier'[p].pc = "verified" => verifier'[p].seen \in Accounts
           /\ Same(verifier[p].challenge)
        \/ LET c == verifier'[p].challenge
           IN  /\ verifier'[p].pc = "locked" /\ c \in ChallengeIds /\ Live(c) /\ ~Held(c)
               /\ ~challenge[c].consumed /\ challenge[c].attempts < MaxAttempts /\ Same(c)
               /\ \A q \in Verifiers \ {p} : verifier'[q] = verifier[q]

\* A challenge is kept, inserted, deleted, consumed, or a wrong code for it counted.
ChallengeStep(c) ==
    \/ wrong'[c] = wrong[c] /\ Same(c)
    \/ /\ wrong'[c] = wrong[c] /\ challenge[c].purpose = "none"
       /\ challenge'[c].purpose \notin {"none", "deleted"} /\ challenge'[c].email \in Emails
       /\ challenge'[c].attempts = 0
    \/ wrong'[c] = wrong[c] /\ challenge'[c].purpose = "deleted"
    \/ /\ wrong'[c] = wrong[c] /\ challenge'[c].purpose = challenge[c].purpose
       /\ challenge'[c].email = challenge[c].email /\ challenge'[c].attempts = challenge[c].attempts
       /\ Live(c)
    \/ /\ wrong'[c] = wrong[c] + 1 /\ challenge'[c].purpose = challenge[c].purpose
       /\ challenge'[c].email = challenge[c].email /\ Live(c)
       /\ challenge'[c].attempts = challenge[c].attempts + 1
       /\ challenge[c].attempts < MaxAttempts

\* The challenges that are still there afterwards.
Stays(c) == Live(c) => challenge'[c].purpose # "deleted"
Inserted(c, e) == challenge[c].purpose = "none" /\ challenge'[c].purpose \notin {"none", "deleted"}
                  /\ challenge'[c].email = e

\* Pending actions are kept with their challenge, cleared, or replaced by one of a
\* new challenge; a reset that ends without having been used is withdrawn.
PendingStep ==
    /\ \A u \in Accounts :
          \/ reset'[u] = Nobody
          \/ reset'[u] = reset[u] /\ Stays(reset[u]) /\ reset[u] \notin withdrawn' \ withdrawn
          \/ /\ reset'[u] \in ChallengeIds /\ challenge[reset'[u]].purpose = "none"
             /\ challenge'[reset'[u]].purpose \notin {"none", "deleted"}
             /\ \A v \in Accounts \ {u} : reset'[v] = reset[v]
             /\ reset'[u] \notin withdrawn'
    /\ \A u \in Accounts :
          \/ change'[u].challenge = Nobody
          \/ change'[u] = change[u] /\ Stays(change[u].challenge)
          \/ change'[u].challenge \in ChallengeIds /\ Inserted(change'[u].challenge, change'[u].new)
    /\ \A u \in Accounts :
          \/ verification'[u].challenge = Nobody
          \/ /\ verification'[u].challenge = verification[u].challenge
             /\ verification'[u].target = verification[u].target /\ Stays(verification[u].challenge)
          \/ /\ verification'[u].challenge \in ChallengeIds
             /\ Inserted(verification'[u].challenge, verification'[u].target)
    /\ \A c \in withdrawn' \ withdrawn : \E u \in Accounts : c = reset[u]

\* A verified address is new only if it is proven in the same step.
AccountStep ==
    /\ proven \subseteq proven'
    /\ \A u \in Accounts :
          \/ account'[u].email = account[u].email /\ (account'[u].verified => account[u].verified)
          \/ account'[u].verified => account'[u].email \in proven'

MailStep ==
    \A j \in Mails : \/ mail'[j].status \in {"absent", "deleted"}
                     \/ mail'[j].challenge \in ChallengeIds

ChallengeFacts ==
    /\ Tables' /\ MailStep /\ VerifierStep /\ PendingStep /\ AccountStep
    /\ \A c \in ChallengeIds : ChallengeStep(c)

\* The invariant is preserved by every step of these kinds.
LEMMA FactsPreserveCInv ==
    ASSUME CInv, ChallengeFacts
    PROVE  CInv'
  <1>1. MailRefers'
    BY DEF ChallengeFacts, MailStep, MailRefers
  <1>2. ChallengeLocks'
    <2>1. ASSUME NEW p \in Verifiers, verifier'[p].pc # "idle"
          PROVE  LET c == verifier'[p].challenge
                 IN  /\ c \in ChallengeIds /\ challenge'[c].purpose \notin {"none", "deleted"}
                     /\ ~challenge'[c].consumed /\ challenge'[c].attempts < MaxAttempts
                     /\ verifier'[p].pc = "verified" => verifier'[p].seen \in Accounts
      BY <2>1 DEF CInv, ChallengeLocks, ChallengeFacts, VerifierStep, Same, Live
    <2>2. ASSUME NEW p \in Verifiers, NEW q \in Verifiers \ {p}, verifier'[p].pc # "idle",
                 verifier'[q].pc # "idle"
          PROVE  verifier'[q].challenge # verifier'[p].challenge
      BY <2>2 DEF CInv, ChallengeLocks, ChallengeFacts, VerifierStep, Held
    <2>3. QED
      BY <2>1, <2>2 DEF ChallengeLocks, Live
  <1>3. Counted'
    <2>1. ASSUME NEW c \in ChallengeIds
          PROVE  /\ challenge'[c].purpose = "none" => wrong'[c] = 0
                 /\ challenge'[c].purpose \notin {"none", "deleted"} =>
                        wrong'[c] <= challenge'[c].attempts /\ challenge'[c].email \in Emails
                 /\ wrong'[c] <= MaxAttempts
      <3>1. /\ challenge[c] \in ChallengeType /\ challenge'[c] \in ChallengeType
            /\ wrong[c] \in Nat /\ wrong'[c] \in Nat /\ ChallengeStep(c)
        BY DEF CInv, ChallengeFacts, Tables
      <3>2. QED
        BY <3>1, ChallengesAssumption DEF CInv, Counted, ChallengeStep, ChallengeType, Same, Live
    <2>2. ASSUME NEW c \in ChallengeIds, challenge'[c].purpose = "none"
          PROVE  c \notin withdrawn'
      <3>1. challenge[c].purpose = "none"
        BY <2>2 DEF ChallengeFacts, ChallengeStep, Same, Live
      <3>2. QED
        BY <3>1, ChallengesAssumption DEF CInv, Counted, Pending, Tables, ChallengeFacts, PendingStep, Live
    <2>3. QED
      BY <2>1, <2>2 DEF Counted, Live
  <1>4. \A c \in ChallengeIds : Live(c) /\ Stays(c) =>
            /\ challenge'[c].purpose \notin {"none", "deleted"}
            /\ challenge'[c].email = challenge[c].email
    BY DEF ChallengeFacts, ChallengeStep, Same, Live, Stays
  <1>5. Pending'
    <2>1. ASSUME NEW u \in Accounts, reset'[u] # Nobody
          PROVE  /\ challenge'[reset'[u]].purpose \notin {"none", "deleted"} /\ reset'[u] \notin withdrawn'
                 /\ \A v \in Accounts \ {u} : reset'[v] # reset'[u]
      <3>1. ASSUME NEW v \in Accounts, reset'[v] # Nobody
            PROVE  \/ reset'[v] = reset[v] /\ Stays(reset[v]) /\ reset[v] \notin withdrawn' \ withdrawn
                   \/ /\ reset'[v] \in ChallengeIds /\ challenge[reset'[v]].purpose = "none"
                      /\ challenge'[reset'[v]].purpose \notin {"none", "deleted"}
                      /\ \A w \in Accounts \ {v} : reset'[w] = reset[w]
                      /\ reset'[v] \notin withdrawn'
        BY <3>1 DEF ChallengeFacts, PendingStep
      <3>2. \A v \in Accounts : reset[v] # Nobody =>
                /\ reset[v] \in ChallengeIds /\ Live(reset[v]) /\ reset[v] \notin withdrawn
                /\ \A w \in Accounts \ {v} : reset[w] # reset[v]
        BY DEF CInv, Pending, Tables
      <3>3. challenge'[reset'[u]].purpose \notin {"none", "deleted"} /\ reset'[u] \notin withdrawn'
        BY <1>4, <2>1, <3>1, <3>2
      <3>4. ASSUME NEW v \in Accounts \ {u}, reset'[v] = reset'[u] PROVE FALSE
        BY <2>1, <3>1, <3>2, <3>4 DEF Live
      <3>5. QED
        BY <3>3, <3>4
    <2>2. ASSUME NEW u \in Accounts, change'[u].challenge # Nobody
          PROVE  /\ challenge'[change'[u].challenge].purpose \notin {"none", "deleted"}
                 /\ change'[u].new = challenge'[change'[u].challenge].email
      <3>1. CASE change'[u] = change[u] /\ Stays(change[u].challenge)
        <4>1. change[u] \in ChangeType
          BY DEF CInv, Tables
        <4>2. change[u].challenge \in ChallengeIds
          BY <2>2, <3>1, <4>1 DEF ChangeType
        <4>3. QED
          BY <1>4, <2>2, <3>1, <4>2 DEF CInv, Pending
      <3>2. QED
        BY <2>2, <3>1 DEF ChallengeFacts, PendingStep, Inserted
    <2>3. ASSUME NEW u \in Accounts, verification'[u].challenge # Nobody
          PROVE  /\ challenge'[verification'[u].challenge].purpose \notin {"none", "deleted"}
                 /\ verification'[u].target = challenge'[verification'[u].challenge].email
      BY SMTT(40), <1>4, <2>3 DEF CInv, Pending, Tables, VerificationType, ChallengeFacts, PendingStep, Inserted
    <2>4. QED
      BY <2>1, <2>2, <2>3 DEF Pending, Live
  <1>6. VerifiedIsProven'
    BY DEF CInv, VerifiedIsProven, ChallengeFacts, AccountStep
  <1>7. QED
    BY <1>1, <1>2, <1>3, <1>5, <1>6 DEF CInv, ChallengeFacts

-----------------------------------------------------------------------------
(* Every step is of these kinds.                                           *)

\* What a step leaves alone.
LEMMA UntouchedFacts ==
    /\ UNCHANGED <<challenge, wrong>> => \A c : Same(c) /\ Stays(c) /\ ChallengeStep(c)
    /\ UNCHANGED <<account, proven>> => AccountStep
    /\ UNCHANGED mail /\ MailRefers => MailStep
  BY DEF Same, Stays, Live, ChallengeStep, AccountStep, MailStep, MailRefers

\* A step that leaves the verifications under way and the challenges they hold.
LEMMA VerifierUntouched ==
    ASSUME CInv, UNCHANGED verifier, \A c \in ChallengeIds : Held(c) => Same(c)
    PROVE  VerifierStep
  <1> SUFFICES ASSUME NEW p \in Verifiers, verifier[p].pc # "idle"
               PROVE  /\ verifier[p].pc = "verified" => verifier[p].seen \in Accounts
                      /\ Same(verifier[p].challenge)
    BY DEF VerifierStep
  <1>1. verifier[p].challenge \in ChallengeIds /\ Held(verifier[p].challenge)
    BY DEF CInv, ChallengeLocks, Held
  <1>2. QED
    BY <1>1 DEF CInv, ChallengeLocks

\* A challenge that a verification has locked is still there and not consumed.
LEMMA HeldIsLive == ASSUME CInv, NEW c \in ChallengeIds, Held(c) PROVE Live(c) /\ ~challenge[c].consumed
  BY DEF CInv, ChallengeLocks, Held

\* A step that leaves everything that is pending alone.
LEMMA PendingUntouched ==
    ASSUME UNCHANGED <<pendingVars, withdrawn>>,
           \A u \in Accounts : /\ reset[u] = Nobody \/ Stays(reset[u])
                               /\ change[u].challenge = Nobody \/ Stays(change[u].challenge)
                               /\ verification[u].challenge = Nobody \/ Stays(verification[u].challenge)
    PROVE  PendingStep
  BY DEF PendingStep, pendingVars

\* The times that a request may read from its clock are times.
LEMMA RequestTimesAreTimes ==
    ASSUME CInv, NEW at \in RequestTimes
    PROVE  at \in 0 .. LastTick /\ at + TTL \in Int
  BY ChallengesAssumption DEF RequestTimes, CInv, Tables

\* The row that createChallenge inserts.
LEMMA CreatedRow ==
    ASSUME CInv, NEW purpose \in Purposes, NEW e \in Emails, NEW at \in RequestTimes
    PROVE  LET row == CreateChallengeRow(purpose, e, at)
           IN  /\ row \in ChallengeType /\ row.purpose = purpose /\ row.email = e /\ row.attempts = 0
               /\ row.resends = 0 /\ row.resends <= row.maxResends
               /\ purpose \notin {"none", "deleted"}
  <1>1. purpose \notin {"none", "deleted"} /\ MaxResends \in Nat /\ at + TTL \in Int
    BY RequestTimesAreTimes, ChallengesAssumption
  <1>2. NoChallenge \in ChallengeType /\ NoChallenge.attempts = 0 /\ NoChallenge.resends = 0
    BY RowTypes DEF NoChallenge
  <1> DEFINE t == at + TTL
             row == [NoChallenge EXCEPT !.purpose = purpose, !.email = e, !.expires = t,
                                        !.maxResends = MaxResends]
  <1>3. CreateChallengeRow(purpose, e, at) = row
    BY DEF CreateChallengeRow
  <1> HIDE DEF t
  <1>4. t \in Int
    BY <1>1 DEF t
  <1>5. /\ row \in ChallengeType /\ row.purpose = purpose /\ row.email = e /\ row.attempts = 0
        /\ row.resends = 0 /\ row.maxResends = MaxResends
    BY <1>1, <1>2, <1>4 DEF ChallengeType
  <1>6. QED
    BY <1>1, <1>3, <1>5

\* The creation of a challenge, up to its pending action.
LEMMA CreateFacts ==
    ASSUME CInv, NEW c \in ChallengeIds, NEW j \in Mails, NEW purpose, NEW e \in Emails,
           NEW at \in RequestTimes, CreateChallenge(c, j, purpose, e, at)
    PROVE  /\ challenge' \in [ChallengeIds -> ChallengeType]
           /\ \A x \in ChallengeIds : challenge'[x].resends <= challenge'[x].maxResends
           /\ mail' \in [Mails -> MailType] /\ MailStep /\ VerifierStep /\ AccountStep
           /\ \A x \in ChallengeIds : ChallengeStep(x)
           /\ \A x \in ChallengeIds : Stays(x)
           /\ Inserted(c, e) /\ c \notin withdrawn
  <1>1. /\ challenge[c] = NoChallenge /\ challenge[c].purpose = "none" /\ c \notin withdrawn
        /\ challenge' = [challenge EXCEPT ![c] = CreateChallengeRow(purpose, e, at)]
        /\ EnqueueChallengeEmail(j, c, 0) /\ purpose \in Purposes
    BY DEF CreateChallenge, CInv, Counted, NoChallenge
  <1>2. LET row == CreateChallengeRow(purpose, e, at)
        IN  /\ row \in ChallengeType /\ row.purpose = purpose /\ row.email = e /\ row.attempts = 0
            /\ row.resends <= row.maxResends /\ purpose \notin {"none", "deleted"}
    BY <1>1, CreatedRow
  <1>3. /\ challenge' \in [ChallengeIds -> ChallengeType]
        /\ challenge'[c] = CreateChallengeRow(purpose, e, at)
        /\ \A x \in ChallengeIds \ {c} : challenge'[x] = challenge[x]
    BY <1>1, <1>2 DEF CInv, Tables
  <1>4. [NoMail EXCEPT !.challenge = c, !.status = "pending", !.nth = 0] \in MailType
    BY RowTypes, ChallengesAssumption DEF NoMail, MailType
  <1>5. mail' \in [Mails -> MailType] /\ MailStep
    BY <1>1, <1>4 DEF EnqueueChallengeEmail, CInv, Tables, MailStep, MailRefers, NoMail
  <1>6. \A x \in ChallengeIds : /\ ChallengeStep(x) /\ Stays(x) /\ (Live(x) => Same(x))
                                /\ challenge'[x].resends <= challenge'[x].maxResends
    BY <1>1, <1>2, <1>3 DEF ChallengeStep, Stays, Live, Same, CInv, Tables, CreateChallenge
  <1>7. VerifierStep
    BY <1>6, VerifierUntouched, HeldIsLive DEF CreateChallenge
  <1>8. QED
    BY <1>1, <1>2, <1>3, <1>5, <1>6, <1>7, UntouchedFacts DEF Inserted, CreateChallenge

\* An opaque challenge is created in an unused row, with no code.
LEMMA OpaqueFacts ==
    ASSUME CInv, NEW c \in ChallengeIds, NEW purpose, NEW e \in Emails,
           NEW at \in RequestTimes, CreateOpaqueChallenge(c, purpose, e, at)
    PROVE  ChallengeFacts
  <1> DEFINE new == CreateChallengeRow(purpose, e, at)
             row == [new EXCEPT !.maxResends = 0, !.opaque = TRUE]
  <1>1. /\ challenge[c] = NoChallenge /\ challenge[c].purpose = "none"
        /\ challenge' = [challenge EXCEPT ![c] = row] /\ purpose \in Purposes
    BY DEF CreateOpaqueChallenge, NoChallenge
  <1>2. /\ row \in ChallengeType /\ row.purpose = purpose /\ row.email = e /\ row.attempts = 0
        /\ row.resends <= row.maxResends /\ purpose \notin {"none", "deleted"}
    <2>1. /\ new \in ChallengeType /\ new.purpose = purpose /\ new.email = e /\ new.attempts = 0
          /\ new.resends = 0 /\ purpose \notin {"none", "deleted"}
      <3>1. purpose \in Purposes
        BY <1>1
      <3>2. QED
        BY <3>1, CreatedRow DEF new
    <2> HIDE DEF new
    <2>2. row \in ChallengeType
      BY <2>1 DEF ChallengeType
    <2>3. row.purpose = new.purpose /\ row.email = new.email /\ row.attempts = new.attempts
      BY <2>1 DEF ChallengeType
    <2>4. row.resends = 0 /\ row.maxResends = 0
      BY <2>1 DEF ChallengeType
    <2>5. QED
      BY <2>1, <2>2, <2>3, <2>4
  <1> HIDE DEF row
  <1>3. /\ challenge' \in [ChallengeIds -> ChallengeType] /\ challenge'[c] = row
        /\ \A x \in ChallengeIds \ {c} : challenge'[x] = challenge[x]
    BY <1>1, <1>2 DEF CInv, Tables
  <1>4. \A x \in ChallengeIds : /\ ChallengeStep(x) /\ Stays(x) /\ (Live(x) => Same(x))
                                /\ challenge'[x].resends <= challenge'[x].maxResends
    BY <1>1, <1>2, <1>3 DEF ChallengeStep, Stays, Live, Same, CInv, Tables, CreateOpaqueChallenge
  <1>5. VerifierStep
    BY <1>4, VerifierUntouched, HeldIsLive DEF CreateOpaqueChallenge
  <1>6. PendingStep
    BY <1>4, PendingUntouched DEF CreateOpaqueChallenge, CInv, Pending, Tables, ChangeType,
       VerificationType
  <1>7. Tables'
    BY <1>3, <1>4 DEF CInv, Tables, CreateOpaqueChallenge, pendingVars
  <1>8. QED
    BY <1>4, <1>5, <1>6, <1>7, UntouchedFacts DEF ChallengeFacts, CreateOpaqueChallenge, CInv

\* The four pending actions.
LEMMA CreateActionFacts ==
    ASSUME CInv, NEW c \in ChallengeIds, NEW j \in Mails, NEW e \in Emails,
           NEW at \in RequestTimes,
           \/ CreateSignupChallenge(c, j, e, at)
           \/ \E u \in Accounts :
                 \/ CreatePasswordResetChallenge(c, j, u, e, at)
                 \/ CreateRequiredEmailVerificationChallenge(c, j, u, e, at)
                 \/ \E s \in Logins : CreateEmailChangeChallenge(c, j, u, s, e, at)
    PROVE  ChallengeFacts
  <1>1. PICK purpose : CreateChallenge(c, j, purpose, e, at)
    BY DEF CreateSignupChallenge, CreatePasswordResetChallenge, CreateEmailChangeChallenge,
           CreateRequiredEmailVerificationChallenge
  <1>2. /\ challenge' \in [ChallengeIds -> ChallengeType]
        /\ \A x \in ChallengeIds : challenge'[x].resends <= challenge'[x].maxResends
        /\ mail' \in [Mails -> MailType] /\ MailStep /\ VerifierStep /\ AccountStep
        /\ \A x \in ChallengeIds : ChallengeStep(x)
        /\ \A x \in ChallengeIds : Stays(x)
        /\ Inserted(c, e) /\ c \notin withdrawn
    BY <1>1, CreateFacts
  <1>3. UNCHANGED <<tick, account, login, code, verifier, wrong, proven>>
    BY <1>1 DEF CreateChallenge
  <1>4. ASSUME /\ reset' \in [Accounts -> ChallengeIds \cup {Nobody}]
               /\ change' \in [Accounts -> ChangeType]
               /\ verification' \in [Accounts -> VerificationType] /\ withdrawn' \subseteq ChallengeIds
        PROVE  Tables'
    BY <1>2, <1>3, <1>4 DEF CInv, Tables
  <1>5. /\ \A v \in Accounts : reset[v] = Nobody \/ Stays(reset[v])
        /\ \A v \in Accounts : change[v].challenge = Nobody \/ Stays(change[v].challenge)
        /\ \A v \in Accounts : verification[v].challenge = Nobody \/ Stays(verification[v].challenge)
    BY <1>2 DEF CInv, Tables, ChangeType, VerificationType
  <1>6. CASE CreateSignupChallenge(c, j, e, at)
    <2>1. Tables' /\ PendingStep
      BY <1>4, <1>5, <1>6, PendingUntouched DEF CreateSignupChallenge, CInv, Tables, pendingVars
    <2>2. QED
      BY <1>2, <2>1 DEF ChallengeFacts
  <1>7. ASSUME NEW u \in Accounts, CreatePasswordResetChallenge(c, j, u, e, at) PROVE ChallengeFacts
    <2>1. /\ reset' = [reset EXCEPT ![u] = c] /\ withdrawn' = withdrawn \cup ({reset[u]} \ {Nobody})
          /\ UNCHANGED <<change, verification>>
      BY <1>7 DEF CreatePasswordResetChallenge
    <2>2. Tables'
      BY <1>4, <2>1 DEF CInv, Tables
    <2>3. /\ \A v \in Accounts : reset[v] # Nobody => Live(reset[v]) /\ reset[v] \in ChallengeIds
          /\ \A v \in Accounts \ {u} : reset[v] = Nobody \/ reset[v] # reset[u]
      BY DEF CInv, Pending, Tables
    <2>4. c # reset[u] /\ c \notin withdrawn' /\ c # Nobody
      BY <1>2, <2>1, <2>3, ChallengesAssumption DEF Inserted, Live
    <2>5. reset'[u] = c /\ \A v \in Accounts \ {u} : reset'[v] = reset[v]
      BY <2>1 DEF CInv, Tables
    <2>6. ASSUME NEW v \in Accounts
          PROVE  \/ reset'[v] = Nobody
                 \/ reset'[v] = reset[v] /\ Stays(reset[v]) /\ reset[v] \notin withdrawn' \ withdrawn
                 \/ /\ reset'[v] \in ChallengeIds /\ challenge[reset'[v]].purpose = "none"
                    /\ challenge'[reset'[v]].purpose \notin {"none", "deleted"}
                    /\ \A w \in Accounts \ {v} : reset'[w] = reset[w]
                    /\ reset'[v] \notin withdrawn'
      BY <1>2, <1>5, <2>1, <2>3, <2>4, <2>5 DEF Inserted
    <2>7. PendingStep
      BY <1>5, <2>1, <2>6 DEF PendingStep
    <2>8. QED
      BY <1>2, <2>2, <2>7 DEF ChallengeFacts
  <1>8. ASSUME NEW u \in Accounts, CreateRequiredEmailVerificationChallenge(c, j, u, e, at)
        PROVE  ChallengeFacts
    <2>1. /\ verification' = [verification EXCEPT ![u].challenge = c, ![u].target = e]
          /\ UNCHANGED <<reset, change, withdrawn>>
      BY <1>8 DEF CreateRequiredEmailVerificationChallenge
    <2>2. /\ verification' \in [Accounts -> VerificationType]
          /\ verification'[u].challenge = c /\ verification'[u].target = e
          /\ \A v \in Accounts \ {u} : verification'[v] = verification[v]
      BY ZenonT(90), <2>1 DEF CInv, Tables, VerificationType
    <2>3. Tables'
      BY <1>4, <2>1, <2>2 DEF CInv, Tables
    <2>4. PendingStep
      BY <1>2, <1>5, <2>1, <2>2 DEF PendingStep
    <2>5. QED
      BY <1>2, <2>3, <2>4 DEF ChallengeFacts
  <1>9. ASSUME NEW u \in Accounts, NEW s \in Logins, CreateEmailChangeChallenge(c, j, u, s, e, at)
        PROVE  ChallengeFacts
    <2>1. /\ change' = [change EXCEPT ![u] = [challenge |-> c, login |-> s,
                                              old |-> account[u].email, new |-> e]]
          /\ UNCHANGED <<reset, verification, withdrawn>>
      BY <1>9 DEF CreateEmailChangeChallenge
    <2>2. [challenge |-> c, login |-> s, old |-> account[u].email, new |-> e] \in ChangeType
      BY DEF CInv, Tables, ChangeType
    <2>3. /\ change' \in [Accounts -> ChangeType]
          /\ change'[u].challenge = c /\ change'[u].new = e
          /\ \A v \in Accounts \ {u} : change'[v] = change[v]
      BY <2>1, <2>2 DEF CInv, Tables
    <2>4. Tables'
      BY <1>4, <2>1, <2>3 DEF CInv, Tables
    <2>5. PendingStep
      BY <1>2, <1>5, <2>1, <2>3 DEF PendingStep
    <2>6. QED
      BY <1>2, <2>4, <2>5 DEF ChallengeFacts
  <1>10. QED
    BY <1>6, <1>7, <1>8, <1>9
\* A step that changes no challenge, except for what nothing else refers to, and
\* neither verifications nor pending actions.
LEMMA QuietFacts ==
    ASSUME CInv, UNCHANGED <<verifier, pendingVars, wrong, withdrawn>>,
           \A c \in ChallengeIds : Same(c)
    PROVE  VerifierStep /\ PendingStep /\ \A c \in ChallengeIds : ChallengeStep(c)
  <1>1. \A c \in ChallengeIds : Stays(c)
    BY DEF Same, Stays, Live
  <1>2. PendingStep
    BY <1>1, PendingUntouched DEF CInv, Tables, ChangeType, VerificationType
  <1>3. VerifierStep
    BY VerifierUntouched
  <1>4. QED
    BY <1>2, <1>3 DEF ChallengeStep

\* The resend of a code.
LEMMA ResendFacts ==
    ASSUME CInv, NEW c \in ChallengeIds, NEW j \in Mails, NEW at \in RequestTimes,
           ResendChallenge(c, j, at)
    PROVE  ChallengeFacts
  <1>1. /\ challenge' = [challenge EXCEPT ![c].resends = @ + 1, ![c].lastSent = at]
        /\ challenge[c].resends < challenge[c].maxResends /\ EnqueueChallengeEmail(j, c, challenge[c].resends + 1)
        /\ UNCHANGED <<tick, account, login, code, pendingVars, verifier, wrong, withdrawn, proven>>
    BY DEF ResendChallenge, ValidForResend
  <1>2. /\ challenge[c] \in ChallengeType /\ at \in -1 .. LastTick
        /\ challenge[c].resends + 1 \in Nat /\ challenge[c].resends + 1 <= challenge[c].maxResends
    BY <1>1, RequestTimesAreTimes DEF CInv, Tables, ChallengeType
  <1>3. /\ challenge' \in [ChallengeIds -> ChallengeType]
        /\ \A x \in ChallengeIds : Same(x) /\ challenge'[x].resends <= challenge'[x].maxResends
    <2> DEFINE n == challenge[c].resends + 1
               row == [challenge[c] EXCEPT !.resends = n, !.lastSent = at]
    <2>1. challenge' = [challenge EXCEPT ![c] = row]
      BY <1>1 DEF CInv, Tables
    <2> HIDE DEF n
    <2>2. /\ row \in ChallengeType /\ row.resends = n /\ row.maxResends = challenge[c].maxResends
          /\ row.purpose = challenge[c].purpose /\ row.email = challenge[c].email
          /\ row.consumed = challenge[c].consumed /\ row.attempts = challenge[c].attempts
      BY <1>2 DEF ChallengeType, n
    <2>3. n <= challenge[c].maxResends
      BY <1>2 DEF n
    <2> HIDE DEF row
    <2>4. QED
      BY <2>1, <2>2, <2>3 DEF CInv, Tables, Same
  <1>4. mail' \in [Mails -> MailType] /\ MailStep
    <2> DEFINE n == challenge[c].resends + 1
    <2>1. mail' = [mail EXCEPT ![j] = [NoMail EXCEPT !.challenge = c, !.status = "pending", !.nth = n]]
      BY <1>1 DEF EnqueueChallengeEmail
    <2>2. n \in Nat
      BY <1>2
    <2> HIDE DEF n
    <2>3. [NoMail EXCEPT !.challenge = c, !.status = "pending", !.nth = n] \in MailType
      BY <2>2, RowTypes DEF NoMail, MailType
    <2>4. QED
      BY <2>1, <2>3 DEF CInv, Tables, MailStep, MailRefers, NoMail
  <1>5. Tables'
    BY <1>1, <1>3, <1>4 DEF CInv, Tables, pendingVars
  <1>6. QED
    BY <1>1, <1>3, <1>4, <1>5, QuietFacts, UntouchedFacts DEF ChallengeFacts

\* The delivery of a code: what it changes are the email, the code and the time of
\* the challenge's last delivery.
LEMMA DeliverFacts ==
    ASSUME CInv, DeliverNext
    PROVE  ChallengeFacts
  <1>1. PICK j \in Mails :
            \/ \E at \in RequestTimes : ClaimMail(j, at)
            \/ GenerateCodeForDelivery(j) \/ MailRetried(j)
            \/ \E stamped \in BOOLEAN : MailSent(j, stamped)
    BY DEF DeliverNext
  <1>2. UNCHANGED <<tick, account, login, pendingVars, verifier, wrong, withdrawn, proven>>
    BY <1>1 DEF ClaimMail, GenerateCodeForDelivery, MailRetried, MailSent
  <1>3. mail[j].challenge \in ChallengeIds /\ mail[j] \in MailType
    BY <1>1 DEF ClaimMail, GenerateCodeForDelivery, MailRetried, MailSent, MailIs, CInv, MailRefers, Tables
  <1>4. PICK row : mail' = [mail EXCEPT ![j] = row] /\ row \in MailType /\ row.challenge = mail[j].challenge
    <2>1. ASSUME NEW at \in RequestTimes, ClaimMail(j, at)
          PROVE  \E row \in MailType : mail' = [mail EXCEPT ![j] = row] /\ row.challenge = mail[j].challenge
      <3> DEFINE status == IF challenge[mail[j].challenge].expires > at THEN "claimed" ELSE "failed"
                 n == mail[j].attempts + 1
                 row == [mail[j] EXCEPT !.claimed = at, !.attempts = n, !.status = status]
      <3>1. mail' = [mail EXCEPT ![j] = row]
        BY <1>3, <2>1 DEF ClaimMail, SetMail, MailType
      <3>2. n \in Nat /\ status \in {"claimed", "failed"} /\ at \in 0 .. LastTick
        BY <1>3, <2>1, RequestTimesAreTimes DEF MailType
      <3> HIDE DEF n, status
      <3>3. row \in MailType /\ row.challenge = mail[j].challenge
        BY <1>3, <3>2 DEF MailType
      <3>4. QED
        BY <3>1, <3>3
    <2>2. CASE GenerateCodeForDelivery(j)
      <3>1. mail' = [mail EXCEPT ![j] = [mail[j] EXCEPT !.status = "rendered", !.mailed = TRUE]]
        BY <2>2 DEF GenerateCodeForDelivery, SetMail
      <3>2. /\ [mail[j] EXCEPT !.status = "rendered", !.mailed = TRUE] \in MailType
            /\ [mail[j] EXCEPT !.status = "rendered", !.mailed = TRUE].challenge = mail[j].challenge
        BY <1>3 DEF MailType
      <3>3. QED
        BY <3>1, <3>2
    <2>3. CASE MailRetried(j)
      <3>1. mail' = [mail EXCEPT ![j] = [mail[j] EXCEPT !.status = "pending"]]
        BY <2>3 DEF MailRetried, SetMail
      <3>2. /\ [mail[j] EXCEPT !.status = "pending"] \in MailType
            /\ [mail[j] EXCEPT !.status = "pending"].challenge = mail[j].challenge
        BY <1>3 DEF MailType
      <3>3. QED
        BY <3>1, <3>2
    <2>4. CASE \E stamped \in BOOLEAN : MailSent(j, stamped)
      <3>1. mail' = [mail EXCEPT ![j] = [mail[j] EXCEPT !.status = "sent"]]
        BY <2>4 DEF MailSent, SetMail
      <3>2. /\ [mail[j] EXCEPT !.status = "sent"] \in MailType
            /\ [mail[j] EXCEPT !.status = "sent"].challenge = mail[j].challenge
        BY <1>3 DEF MailType
      <3>3. QED
        BY <3>1, <3>2
    <2>5. QED
      BY <1>1, <2>1, <2>2, <2>3, <2>4
  <1>5. mail' \in [Mails -> MailType] /\ MailStep
    BY <1>3, <1>4 DEF CInv, Tables, MailStep, MailRefers
  <1>6. /\ challenge' \in [ChallengeIds -> ChallengeType]
        /\ \A x \in ChallengeIds : Same(x) /\ challenge'[x].resends <= challenge'[x].maxResends
    <2>1. CASE UNCHANGED challenge
      BY <2>1 DEF CInv, Tables, Same
    <2>2. CASE challenge' = [challenge EXCEPT ![mail[j].challenge].lastSent = mail[j].claimed]
      <3>1. PICK c \in ChallengeIds : c = mail[j].challenge
        BY <1>3
      <3>2. PICK t \in -1 .. LastTick : t = mail[j].claimed
        BY <1>3, ChallengesAssumption DEF MailType
      <3>3. challenge' = [challenge EXCEPT ![c] = [challenge[c] EXCEPT !.lastSent = t]]
        BY <2>2, <3>1, <3>2
      <3>4. challenge[c] \in ChallengeType
        BY DEF CInv, Tables
      <3>5. LET kept == [challenge[c] EXCEPT !.lastSent = t]
            IN  /\ kept \in ChallengeType /\ kept.resends = challenge[c].resends
                /\ kept.maxResends = challenge[c].maxResends
                /\ kept.purpose = challenge[c].purpose /\ kept.email = challenge[c].email
                /\ kept.consumed = challenge[c].consumed /\ kept.attempts = challenge[c].attempts
        BY <3>4 DEF ChallengeType
      <3>6. QED
        BY <3>3, <3>5 DEF CInv, Tables, Same
    <2>3. QED
      BY <1>1, <2>1, <2>2 DEF ClaimMail, GenerateCodeForDelivery, MailRetried, MailSent
  <1>7. code' \in [ChallengeIds -> [value : Mails \cup {Nobody}, expires : Int]]
    <2>1. CASE UNCHANGED code
      BY <2>1 DEF CInv, Tables
    <2>2. CASE GenerateCodeForDelivery(j)
      <3> DEFINE end == IF mail[j].claimed + VerificationCodeTTL > challenge[mail[j].challenge].expires
                        THEN challenge[mail[j].challenge].expires ELSE mail[j].claimed + VerificationCodeTTL
      <3>1. code' = [code EXCEPT ![mail[j].challenge] = [value |-> j, expires |-> end]]
        BY <2>2 DEF GenerateCodeForDelivery
      <3>2. challenge[mail[j].challenge] \in ChallengeType
        BY <1>3 DEF CInv, Tables
      <3>3. end \in Int
        BY <1>3, <3>2, ChallengesAssumption DEF MailType, ChallengeType
      <3> HIDE DEF end
      <3>4. QED
        BY <3>1, <3>3 DEF CInv, Tables
    <2>3. QED
      BY <1>1, <2>1, <2>2 DEF ClaimMail, MailRetried, MailSent, mailVars
  <1>8. Tables'
    BY <1>2, <1>5, <1>6, <1>7 DEF CInv, Tables, pendingVars
  <1>9. QED
    BY <1>2, <1>5, <1>6, <1>8, QuietFacts, UntouchedFacts DEF ChallengeFacts
\* A request that locks a challenge, or knows its user, or ends.
LEMMA StepFacts ==
    ASSUME CInv, NEW p \in Verifiers, NEW row \in VerifierType, Step(p, row)
    PROVE  /\ verifier' \in [Verifiers -> VerifierType] /\ verifier'[p] = row
           /\ \A q \in Verifiers \ {p} : verifier'[q] = verifier[q]
  BY DEF Step, CInv, Tables

\* A request ends; the others keep theirs, which are not for its challenge.
LEMMA EndFacts ==
    ASSUME CInv, NEW p \in Verifiers, verifier[p].pc # "idle", Step(p, NoRequest),
           \A c \in ChallengeIds : c # verifier[p].challenge => Same(c)
    PROVE  verifier' \in [Verifiers -> VerifierType] /\ VerifierStep
  <1>1. /\ verifier' \in [Verifiers -> VerifierType] /\ verifier'[p].pc = "idle"
        /\ \A q \in Verifiers \ {p} : verifier'[q] = verifier[q]
    BY RowTypes, StepFacts DEF NoRequest
  <1>2. ASSUME NEW q \in Verifiers \ {p}, verifier[q].pc # "idle"
        PROVE  Same(verifier[q].challenge) /\ (verifier[q].pc = "verified" => verifier[q].seen \in Accounts)
    BY <1>2 DEF CInv, ChallengeLocks
  <1>3. QED
    BY <1>1, <1>2 DEF VerifierStep

\* A verification locks its challenge, checks the code of a reset, or rolls back.
LEMMA LockFacts ==
    ASSUME CInv, NEW p \in Verifiers,
           \/ \E c \in ChallengeIds, at \in RequestTimes : LockChallenge(p, c, at)
           \/ Rollback(p)
           \/ \E guess \in Codes, u \in Accounts : CheckPasswordResetCode(p, guess, u)
    PROVE  ChallengeFacts
  <1>1. UNCHANGED <<tick, account, login, challenge, mailVars, pendingVars, wrong, withdrawn, proven>>
    BY DEF LockChallenge, Rollback, CheckPasswordResetCode
  <1>2. \A c : Same(c) /\ Stays(c) /\ ChallengeStep(c)
    BY <1>1, UntouchedFacts
  <1>3. verifier' \in [Verifiers -> VerifierType] /\ VerifierStep
    <2>1. CASE Rollback(p)
      BY <1>2, <2>1, EndFacts DEF Rollback
    <2>2. ASSUME NEW c \in ChallengeIds, NEW at \in RequestTimes, LockChallenge(p, c, at)
          PROVE  verifier' \in [Verifiers -> VerifierType] /\ VerifierStep
      <3> DEFINE row == [pc |-> "locked", challenge |-> c, at |-> at, seen |-> Nobody]
      <3>1. row \in VerifierType /\ Step(p, row)
        BY <2>2, RequestTimesAreTimes DEF LockChallenge, VerifierType
      <3>2. /\ verifier' \in [Verifiers -> VerifierType] /\ verifier'[p] = row
            /\ \A q \in Verifiers \ {p} : verifier'[q] = verifier[q]
        BY <3>1, StepFacts
      <3>3. ASSUME NEW q \in Verifiers \ {p}
            PROVE  \/ verifier'[q].pc = "idle"
                   \/ /\ verifier[q].pc # "idle" /\ verifier'[q].challenge = verifier[q].challenge
                      /\ verifier'[q].pc = "verified" => verifier'[q].seen \in Accounts
                      /\ Same(verifier[q].challenge)
        BY <1>2, <3>2 DEF CInv, ChallengeLocks
      <3>4. LET d == verifier'[p].challenge
            IN  /\ verifier'[p].pc = "locked" /\ d \in ChallengeIds /\ Live(d) /\ ~Held(d)
                /\ ~challenge[d].consumed /\ challenge[d].attempts < MaxAttempts /\ Same(d)
        BY <1>2, <2>2, <3>2 DEF LockChallenge, ValidForVerify
      <3>5. QED
        BY <3>2, <3>3, <3>4 DEF VerifierStep
    <2>3. ASSUME NEW guess \in Codes, NEW u \in Accounts, CheckPasswordResetCode(p, guess, u)
          PROVE  verifier' \in [Verifiers -> VerifierType] /\ VerifierStep
      <3> DEFINE row == [verifier[p] EXCEPT !.pc = "verified", !.seen = u]
      <3>1. verifier[p] \in VerifierType /\ verifier[p].pc = "locked" /\ Step(p, row)
        BY <2>3 DEF CheckPasswordResetCode, Right, CInv, Tables
      <3>2. row \in VerifierType /\ row.seen = u /\ row.challenge = verifier[p].challenge
        BY <3>1 DEF VerifierType
      <3> HIDE DEF row
      <3>3. /\ verifier' \in [Verifiers -> VerifierType] /\ verifier'[p] = row
            /\ \A q \in Verifiers \ {p} : verifier'[q] = verifier[q]
        BY <3>1, <3>2, StepFacts
      <3>4. QED
        BY <1>2, <3>1, <3>2, <3>3 DEF VerifierStep, CInv, ChallengeLocks
    <2>4. QED
      BY <2>1, <2>2, <2>3
  <1>4. PendingStep
    BY <1>1, <1>2, PendingUntouched
  <1>5. Tables'
    BY <1>1, <1>3 DEF CInv, Tables, mailVars, pendingVars
  <1>6. QED
    BY <1>1, <1>2, <1>3, <1>4, <1>5, UntouchedFacts DEF ChallengeFacts, CInv, mailVars

\* A wrong code is counted in the step that compares it.
LEMMA WrongCodeFacts ==
    ASSUME CInv, NEW p \in Verifiers, NEW guess \in Codes, WrongCode(p, guess)
    PROVE  ChallengeFacts
  <1>1. PICK c \in ChallengeIds : c = verifier[p].challenge
    BY DEF WrongCode, CInv, ChallengeLocks
  <1>2. /\ challenge' = [challenge EXCEPT ![c].attempts = @ + 1] /\ wrong' = [wrong EXCEPT ![c] = @ + 1]
        /\ verifier[p].pc = "locked" /\ Step(p, NoRequest)
        /\ UNCHANGED <<tick, account, login, mailVars, pendingVars, withdrawn, proven>>
    BY <1>1 DEF WrongCode
  <1>3. /\ challenge[c] \in ChallengeType /\ challenge[c].attempts < MaxAttempts /\ Live(c)
        /\ wrong[c] \in Nat
    BY <1>1, <1>2 DEF CInv, ChallengeLocks, Tables
  <1> DEFINE n == challenge[c].attempts + 1
             row == [challenge[c] EXCEPT !.attempts = n]
  <1>4. challenge' = [challenge EXCEPT ![c] = row] /\ n \in 0 .. MaxAttempts
    BY <1>2, <1>3, ChallengesAssumption DEF CInv, Tables, ChallengeType
  <1> HIDE DEF n
  <1>5. /\ row \in ChallengeType /\ row.attempts = n /\ row.purpose = challenge[c].purpose
        /\ row.email = challenge[c].email /\ row.resends = challenge[c].resends
        /\ row.maxResends = challenge[c].maxResends
    BY <1>3, <1>4 DEF ChallengeType
  <1> HIDE DEF row
  <1>6. /\ challenge' \in [ChallengeIds -> ChallengeType] /\ challenge'[c] = row
        /\ \A x \in ChallengeIds \ {c} : challenge'[x] = challenge[x]
        /\ wrong' \in [ChallengeIds -> Nat] /\ wrong'[c] = wrong[c] + 1
        /\ \A x \in ChallengeIds \ {c} : wrong'[x] = wrong[x]
    <2>1. challenge \in [ChallengeIds -> ChallengeType] /\ wrong \in [ChallengeIds -> Nat]
      BY DEF CInv, Tables
    <2>2. wrong' = [wrong EXCEPT ![c] = wrong[c] + 1] /\ wrong[c] + 1 \in Nat
      BY <1>2, <1>3
    <2>3. /\ wrong' \in [ChallengeIds -> Nat] /\ wrong'[c] = wrong[c] + 1
          /\ \A x \in ChallengeIds \ {c} : wrong'[x] = wrong[x]
      BY <2>1, <2>2
    <2>4. QED
      BY <1>4, <1>5, <2>1, <2>3
  <1>7. ChallengeStep(c) /\ \A x \in ChallengeIds \ {c} : ChallengeStep(x) /\ Same(x)
    BY <1>3, <1>5, <1>6 DEF ChallengeStep, Same, n
  <1>8. \A x \in ChallengeIds : Stays(x) /\ challenge'[x].resends <= challenge'[x].maxResends
    BY <1>5, <1>6 DEF Stays, Live, CInv, Tables
  <1>9. verifier' \in [Verifiers -> VerifierType] /\ VerifierStep
    BY <1>1, <1>2, <1>7, EndFacts
  <1>10. PendingStep
    BY <1>2, <1>8, PendingUntouched DEF CInv, Tables, ChangeType, VerificationType
  <1>11. Tables'
    BY <1>2, <1>6, <1>8, <1>9 DEF CInv, Tables, mailVars, pendingVars
  <1>12. QED
    BY <1>2, <1>7, <1>9, <1>10, <1>11, UntouchedFacts DEF ChallengeFacts, CInv, mailVars
\* The challenge of a request is consumed with the request.
LEMMA ConsumeFacts ==
    ASSUME CInv, NEW p \in Verifiers, verifier[p].pc # "idle", Consume(p)
    PROVE  LET c == verifier[p].challenge
           IN  /\ c \in ChallengeIds /\ Live(c)
               /\ challenge' \in [ChallengeIds -> ChallengeType]
               /\ \A x \in ChallengeIds : challenge'[x].resends <= challenge'[x].maxResends
               /\ \A x \in ChallengeIds : ChallengeStep(x) /\ Stays(x)
               /\ verifier' \in [Verifiers -> VerifierType] /\ VerifierStep
               /\ proven' = proven \cup {challenge[c].email} /\ proven' \subseteq Emails
               /\ UNCHANGED <<tick, login, mailVars, wrong>>
  <1>1. PICK c \in ChallengeIds : c = verifier[p].challenge
    BY DEF CInv, ChallengeLocks
  <1> DEFINE row == [challenge[c] EXCEPT !.consumed = TRUE]
  <1>2. /\ challenge' = [challenge EXCEPT ![c] = row] /\ Step(p, NoRequest)
        /\ proven' = proven \cup {challenge[c].email} /\ UNCHANGED <<tick, login, mailVars, wrong>>
    BY <1>1 DEF Consume
  <1>3. challenge[c] \in ChallengeType /\ Live(c) /\ challenge[c].email \in Emails
    BY <1>1 DEF CInv, ChallengeLocks, Tables, Counted
  <1>4. /\ row \in ChallengeType /\ row.attempts = challenge[c].attempts
        /\ row.purpose = challenge[c].purpose /\ row.email = challenge[c].email
        /\ row.resends = challenge[c].resends /\ row.maxResends = challenge[c].maxResends
    BY <1>3 DEF ChallengeType
  <1> HIDE DEF row
  <1>5. /\ challenge' \in [ChallengeIds -> ChallengeType] /\ challenge'[c] = row
        /\ \A x \in ChallengeIds \ {c} : challenge'[x] = challenge[x]
    BY <1>2, <1>4 DEF CInv, Tables
  <1>6. \A x \in ChallengeIds : /\ ChallengeStep(x) /\ Stays(x) /\ (x # c => Same(x))
                                /\ challenge'[x].resends <= challenge'[x].maxResends
    BY <1>2, <1>3, <1>4, <1>5 DEF ChallengeStep, Stays, Live, Same, CInv, Tables
  <1>7. verifier' \in [Verifiers -> VerifierType] /\ VerifierStep
    BY <1>1, <1>2, <1>6, EndFacts
  <1>8. proven' \subseteq Emails
    BY <1>2, <1>3 DEF CInv, Tables
  <1>9. QED
    BY <1>1, <1>2, <1>3, <1>5, <1>6, <1>7, <1>8

\* A reset that is withdrawn, or used, and nothing else that is pending.
LEMMA ResetEnds ==
    ASSUME CInv, NEW u \in Accounts, reset' = [reset EXCEPT ![u] = Nobody],
           \/ UNCHANGED withdrawn
           \/ withdrawn' = withdrawn \cup ({reset[u]} \ {Nobody}),
           UNCHANGED verification, UNCHANGED change \/ change' = [change EXCEPT ![u] = NoChange],
           \A c \in ChallengeIds : Stays(c)
    PROVE  /\ PendingStep /\ reset' \in [Accounts -> ChallengeIds \cup {Nobody}]
           /\ change' \in [Accounts -> ChangeType] /\ withdrawn' \subseteq ChallengeIds
  <1>1. \A v \in Accounts \ {u} : reset[v] = Nobody \/ reset[v] # reset[u]
    BY DEF CInv, Pending
  <1>2. \A v \in Accounts : /\ reset[v] \in ChallengeIds \cup {Nobody}
                            /\ change[v].challenge \in ChallengeIds \cup {Nobody}
                            /\ verification[v].challenge \in ChallengeIds \cup {Nobody}
    BY DEF CInv, Tables, ChangeType, VerificationType
  <1>3. reset'[u] = Nobody /\ \A v \in Accounts \ {u} : reset'[v] = reset[v]
    BY DEF CInv, Tables
  <1>4. \A v \in Accounts : change'[v] = change[v] \/ change'[v].challenge = Nobody
    BY DEF CInv, Tables, NoChange
  <1>5. \A c \in withdrawn' \ withdrawn : c = reset[u] /\ c # Nobody
    OBVIOUS
  <1>6. ASSUME NEW v \in Accounts
        PROVE  \/ reset'[v] = Nobody
               \/ reset'[v] = reset[v] /\ Stays(reset[v]) /\ reset[v] \notin withdrawn' \ withdrawn
    BY <1>1, <1>2, <1>3, <1>5
  <1>7. ASSUME NEW v \in Accounts
        PROVE  change'[v].challenge = Nobody \/ (change'[v] = change[v] /\ Stays(change[v].challenge))
    BY <1>2, <1>4
  <1>8. ASSUME NEW v \in Accounts
        PROVE  \/ verification'[v].challenge = Nobody
               \/ /\ verification'[v].challenge = verification[v].challenge
                  /\ verification'[v].target = verification[v].target /\ Stays(verification[v].challenge)
    BY <1>2
  <1>9. PendingStep
    BY <1>5, <1>6, <1>7, <1>8 DEF PendingStep
  <1>10. QED
    BY <1>9, RowTypes DEF CInv, Tables

\* A right code.
LEMMA SignupFacts ==
    ASSUME CInv, NEW p \in Verifiers, NEW guess \in Codes, NEW u \in Accounts,
           VerifySignupChallenge(p, guess, u)
    PROVE  ChallengeFacts
  <1>1. /\ verifier[p].pc # "idle" /\ Consume(p) /\ UNCHANGED <<pendingVars, withdrawn>>
        /\ account' = [account EXCEPT ![u] = [email |-> challenge[verifier[p].challenge].email,
                                              verified |-> TRUE, password |-> TRUE]]
    BY DEF VerifySignupChallenge, Right
  <1>2. PICK c \in ChallengeIds : c = verifier[p].challenge
    BY <1>1, ConsumeFacts
  <1>3. /\ challenge' \in [ChallengeIds -> ChallengeType]
        /\ \A x \in ChallengeIds : challenge'[x].resends <= challenge'[x].maxResends
        /\ \A x \in ChallengeIds : ChallengeStep(x) /\ Stays(x)
        /\ verifier' \in [Verifiers -> VerifierType] /\ VerifierStep
        /\ proven' = proven \cup {challenge[c].email} /\ proven' \subseteq Emails
        /\ UNCHANGED <<tick, login, mailVars, wrong>>
    BY <1>1, <1>2, ConsumeFacts
  <1>4. /\ account' \in [Accounts -> [email : Emails \cup {Nobody}, verified : BOOLEAN, password : BOOLEAN]]
        /\ account'[u].email \in proven' /\ \A v \in Accounts \ {u} : account'[v] = account[v]
    BY <1>1, <1>2, <1>3 DEF CInv, Tables
  <1>5. PendingStep
    BY <1>1, <1>3, PendingUntouched DEF CInv, Tables, ChangeType, VerificationType
  <1>6. AccountStep
    BY <1>3, <1>4 DEF AccountStep
  <1>7. Tables'
    BY <1>1, <1>3, <1>4 DEF CInv, Tables, mailVars, pendingVars
  <1>8. QED
    BY <1>3, <1>5, <1>6, <1>7, UntouchedFacts DEF ChallengeFacts, CInv, mailVars

\* The end of a change of address.
LEMMA EmailChangeFacts ==
    ASSUME CInv, NEW p \in Verifiers, NEW guess \in Codes, NEW u \in Accounts, NEW s \in Logins,
           CompleteEmailChangeChallenge(p, guess, u, s)
    PROVE  ChallengeFacts
  <1>1. /\ verifier[p].pc # "idle" /\ Consume(p)
        /\ change[u].challenge = verifier[p].challenge
        /\ account' = [account EXCEPT ![u].email = change[u].new, ![u].verified = TRUE]
        /\ change' = [change EXCEPT ![u] = NoChange] /\ reset' = [reset EXCEPT ![u] = Nobody]
        /\ withdrawn' = withdrawn \cup ({reset[u]} \ {Nobody}) /\ UNCHANGED verification
    BY DEF CompleteEmailChangeChallenge, Right, BeforeEmailChange
  <1>2. PICK c \in ChallengeIds : c = verifier[p].challenge
    BY <1>1, ConsumeFacts
  <1>3. /\ challenge' \in [ChallengeIds -> ChallengeType]
        /\ \A x \in ChallengeIds : challenge'[x].resends <= challenge'[x].maxResends
        /\ \A x \in ChallengeIds : ChallengeStep(x) /\ Stays(x)
        /\ verifier' \in [Verifiers -> VerifierType] /\ VerifierStep
        /\ proven' = proven \cup {challenge[c].email} /\ proven' \subseteq Emails
        /\ UNCHANGED <<tick, login, mailVars, wrong>>
    BY <1>1, <1>2, ConsumeFacts
  <1>4. change[u].new = challenge[c].email
    BY <1>1, <1>2, ChallengesAssumption DEF CInv, Pending
  <1>5. /\ account' \in [Accounts -> [email : Emails \cup {Nobody}, verified : BOOLEAN, password : BOOLEAN]]
        /\ account'[u].email = challenge[c].email /\ \A v \in Accounts \ {u} : account'[v] = account[v]
    <2>1. change[u].new \in Emails \cup {Nobody}
      BY DEF CInv, Tables, ChangeType
    <2>2. QED
      BY ZenonT(90), <1>1, <1>4, <2>1 DEF CInv, Tables
  <1>6. /\ PendingStep /\ reset' \in [Accounts -> ChallengeIds \cup {Nobody}]
        /\ change' \in [Accounts -> ChangeType] /\ withdrawn' \subseteq ChallengeIds
    BY <1>1, <1>3, ResetEnds
  <1>7. AccountStep
    BY <1>3, <1>5 DEF AccountStep
  <1>8. Tables'
    BY <1>1, <1>3, <1>5, <1>6 DEF CInv, Tables, mailVars
  <1>9. QED
    BY <1>3, <1>6, <1>7, <1>8, UntouchedFacts DEF ChallengeFacts, CInv, mailVars

\* The end of the verification of an address.
LEMMA VerificationFacts ==
    ASSUME CInv, NEW p \in Verifiers, NEW guess \in Codes, NEW u \in Accounts,
           CompleteRequiredEmailVerification(p, guess, u)
    PROVE  ChallengeFacts
  <1>1. /\ verifier[p].pc # "idle" /\ Consume(p) /\ UNCHANGED <<reset, change, withdrawn>>
        /\ verification[u].challenge = verifier[p].challenge
        /\ account' = [account EXCEPT ![u].email = verification[u].target, ![u].verified = TRUE]
        /\ verification' = [verification EXCEPT ![u].open = FALSE]
    BY DEF CompleteRequiredEmailVerification, Right, BeforeVerification, TransactionOf
  <1>2. PICK c \in ChallengeIds : c = verifier[p].challenge
    BY <1>1, ConsumeFacts
  <1>3. /\ challenge' \in [ChallengeIds -> ChallengeType]
        /\ \A x \in ChallengeIds : challenge'[x].resends <= challenge'[x].maxResends
        /\ \A x \in ChallengeIds : ChallengeStep(x) /\ Stays(x)
        /\ verifier' \in [Verifiers -> VerifierType] /\ VerifierStep
        /\ proven' = proven \cup {challenge[c].email} /\ proven' \subseteq Emails
        /\ UNCHANGED <<tick, login, mailVars, wrong>>
    BY <1>1, <1>2, ConsumeFacts
  <1>4. verification[u].target = challenge[c].email /\ verification[u] \in VerificationType
    BY <1>1, <1>2, ChallengesAssumption DEF CInv, Pending, Tables
  <1>5. /\ account' \in [Accounts -> [email : Emails \cup {Nobody}, verified : BOOLEAN, password : BOOLEAN]]
        /\ account'[u].email = challenge[c].email /\ \A v \in Accounts \ {u} : account'[v] = account[v]
    <2>1. verification[u].target \in Emails \cup {Nobody}
      BY <1>4 DEF VerificationType
    <2>2. QED
      BY ZenonT(90), <1>1, <1>4, <2>1 DEF CInv, Tables
  <1>6. /\ verification' \in [Accounts -> VerificationType]
        /\ \A v \in Accounts : /\ verification'[v].challenge = verification[v].challenge
                               /\ verification'[v].target = verification[v].target
    BY ZenonT(90), <1>1 DEF CInv, Tables, VerificationType
  <1>7. PendingStep
    BY <1>1, <1>3, <1>6 DEF PendingStep, CInv, Tables, ChangeType, VerificationType
  <1>8. AccountStep
    BY <1>3, <1>5 DEF AccountStep
  <1>9. Tables'
    BY <1>1, <1>3, <1>5, <1>6 DEF CInv, Tables, mailVars
  <1>10. QED
    BY <1>3, <1>7, <1>8, <1>9, UntouchedFacts DEF ChallengeFacts, CInv, mailVars

\* The end of a password reset.
LEMMA ResetFacts ==
    ASSUME CInv, NEW p \in Verifiers, CompletePasswordResetChallenge(p)
    PROVE  ChallengeFacts
  <1>1. /\ verifier[p].pc = "verified" /\ Consume(p) /\ UNCHANGED <<account, change, verification, withdrawn>>
        /\ reset' = [reset EXCEPT ![verifier[p].seen] = Nobody]
    BY DEF CompletePasswordResetChallenge
  <1>2. PICK u \in Accounts : u = verifier[p].seen
    BY <1>1 DEF CInv, ChallengeLocks
  <1>3. /\ challenge' \in [ChallengeIds -> ChallengeType]
        /\ \A x \in ChallengeIds : challenge'[x].resends <= challenge'[x].maxResends
        /\ \A x \in ChallengeIds : ChallengeStep(x) /\ Stays(x)
        /\ verifier' \in [Verifiers -> VerifierType] /\ VerifierStep
        /\ proven \subseteq proven' /\ proven' \subseteq Emails
        /\ UNCHANGED <<tick, login, mailVars, wrong>>
    BY <1>1, ConsumeFacts
  <1>4. /\ PendingStep /\ reset' \in [Accounts -> ChallengeIds \cup {Nobody}]
        /\ change' \in [Accounts -> ChangeType] /\ withdrawn' \subseteq ChallengeIds
    BY <1>1, <1>2, <1>3, ResetEnds
  <1>5. AccountStep
    BY <1>1, <1>3 DEF AccountStep
  <1>6. Tables'
    BY <1>1, <1>3, <1>4 DEF CInv, Tables, mailVars
  <1>7. QED
    BY <1>3, <1>4, <1>5, <1>6, UntouchedFacts DEF ChallengeFacts, CInv, mailVars
\* The steps of an account that touch no challenge.
LEMMA AccountFacts ==
    ASSUME CInv, NEW u \in Accounts,
           \/ DeleteExpiredVerification(u)
           \/ \E word_ \in BOOLEAN : ReplacePassword(u, word_)
           \/ \E s \in Logins, at \in RequestTimes : BeginRequiredEmailVerification(u, s, at)
           \/ \E s \in Logins : SignIn(u, s)
    PROVE  ChallengeFacts
  <1>1. UNCHANGED <<tick, challenge, mailVars, verifier, wrong, proven>>
    BY DEF DeleteExpiredVerification, ReplacePassword, BeginRequiredEmailVerification, SignIn
  <1>2. \A c : Same(c) /\ Stays(c) /\ ChallengeStep(c)
    BY <1>1, UntouchedFacts
  <1>3. VerifierStep
    BY <1>1, <1>2, VerifierUntouched
  <1>4. CASE DeleteExpiredVerification(u)
    <2>1. verification' = [verification EXCEPT ![u] = NoVerification]
          /\ UNCHANGED <<account, login, reset, change, withdrawn>>
      BY <1>4 DEF DeleteExpiredVerification
    <2>2. /\ verification' \in [Accounts -> VerificationType]
          /\ \A v \in Accounts : verification'[v] = verification[v] \/ verification'[v].challenge = Nobody
      BY <2>1, RowTypes DEF CInv, Tables, NoVerification
    <2>3. PendingStep
      BY <1>2, <2>1, <2>2 DEF PendingStep
    <2>4. Tables' /\ AccountStep
      BY <1>1, <2>1, <2>2, UntouchedFacts DEF CInv, Tables, mailVars
    <2>5. QED
      BY <1>1, <1>2, <1>3, <2>3, <2>4, UntouchedFacts DEF ChallengeFacts, CInv, mailVars
  <1>5. ASSUME NEW new \in BOOLEAN, ReplacePassword(u, new) PROVE ChallengeFacts
    <2>1. /\ account' = [account EXCEPT ![u].password = new] /\ reset' = [reset EXCEPT ![u] = Nobody]
          /\ withdrawn' = withdrawn \cup ({reset[u]} \ {Nobody}) /\ UNCHANGED <<login, change, verification>>
      BY <1>5 DEF ReplacePassword
    <2>2. /\ account' \in [Accounts -> [email : Emails \cup {Nobody}, verified : BOOLEAN, password : BOOLEAN]]
          /\ \A v \in Accounts : account'[v].email = account[v].email /\ account'[v].verified = account[v].verified
      BY <2>1 DEF CInv, Tables
    <2>3. /\ PendingStep /\ reset' \in [Accounts -> ChallengeIds \cup {Nobody}]
          /\ change' \in [Accounts -> ChangeType] /\ withdrawn' \subseteq ChallengeIds
      BY <1>2, <2>1, ResetEnds
    <2>4. Tables' /\ AccountStep
      BY <1>1, <2>1, <2>2, <2>3 DEF CInv, Tables, mailVars, AccountStep
    <2>5. QED
      BY <1>1, <1>2, <1>3, <2>3, <2>4, UntouchedFacts DEF ChallengeFacts, CInv, mailVars
  <1>6. ASSUME NEW s \in Logins, NEW at \in RequestTimes, BeginRequiredEmailVerification(u, s, at)
        PROVE  ChallengeFacts
    <2>1. /\ verification' = [verification EXCEPT ![u].open = TRUE, ![u].expires = at + TTL]
          /\ login' = [login EXCEPT ![s] = Nobody] /\ UNCHANGED <<account, reset, change, withdrawn>>
      BY <1>6 DEF BeginRequiredEmailVerification
    <2>2. PICK t \in Int : t = at + TTL
      BY RequestTimesAreTimes
    <2>3. /\ verification' \in [Accounts -> VerificationType]
          /\ \A v \in Accounts : /\ verification'[v].challenge = verification[v].challenge
                                 /\ verification'[v].target = verification[v].target
      <3>1. verification' = [verification EXCEPT ![u] = [verification[u] EXCEPT !.open = TRUE, !.expires = t]]
        BY <2>1, <2>2 DEF CInv, Tables
      <3>2. LET row == [verification[u] EXCEPT !.open = TRUE, !.expires = t]
            IN  /\ row \in VerificationType /\ row.challenge = verification[u].challenge
                /\ row.target = verification[u].target
        BY DEF CInv, Tables, VerificationType
      <3>3. QED
        BY <3>1, <3>2 DEF CInv, Tables
    <2>4. PendingStep
      BY <1>2, <2>1, <2>3 DEF PendingStep
    <2>5. Tables' /\ AccountStep
      BY <1>1, <2>1, <2>3, UntouchedFacts DEF CInv, Tables, mailVars
    <2>6. QED
      BY <1>1, <1>2, <1>3, <2>4, <2>5, UntouchedFacts DEF ChallengeFacts, CInv, mailVars
  <1>7. ASSUME NEW s \in Logins, SignIn(u, s) PROVE ChallengeFacts
    <2>1. login' = [login EXCEPT ![s] = u] /\ UNCHANGED <<account, pendingVars, withdrawn>>
      BY <1>7 DEF SignIn
    <2>2. Tables' /\ AccountStep /\ PendingStep
      BY <1>1, <1>2, <2>1, UntouchedFacts, PendingUntouched DEF CInv, Tables, mailVars, pendingVars
    <2>3. QED
      BY <1>1, <1>2, <1>3, <2>2, UntouchedFacts DEF ChallengeFacts, CInv, mailVars
  <1>8. QED
    BY <1>4, <1>5, <1>6, <1>7

\* The clock, and the end of a session.
LEMMA TickFacts ==
    ASSUME CInv, ChallengesTick \/ \E s \in Logins : EndSession(s)
    PROVE  ChallengeFacts
  <1>1. UNCHANGED <<account, challenge, mailVars, pendingVars, verifier, wrong, withdrawn, proven>>
    BY DEF ChallengesTick, EndSession
  <1>2. \A c : Same(c) /\ Stays(c) /\ ChallengeStep(c)
    BY <1>1, UntouchedFacts
  <1>3. VerifierStep /\ PendingStep
    BY <1>1, <1>2, VerifierUntouched, PendingUntouched
  <1>4. tick' \in 0 .. LastTick /\ login' \in [Logins -> Accounts \cup {Nobody}]
    <2>1. CASE ChallengesTick
      BY <2>1, ChallengesAssumption DEF ChallengesTick, CInv, Tables
    <2>2. CASE \E s \in Logins : EndSession(s)
      BY <2>2 DEF EndSession, CInv, Tables
    <2>3. QED
      BY <2>1, <2>2
  <1>5. Tables' /\ AccountStep
    BY <1>1, <1>4, UntouchedFacts DEF CInv, Tables, mailVars, pendingVars
  <1>6. QED
    BY <1>1, <1>2, <1>3, <1>5, UntouchedFacts DEF ChallengeFacts, CInv, mailVars

\* Challenges are deleted with their codes and emails, none of them locked.
LEMMA CascadeFacts ==
    ASSUME CInv, NEW C \in SUBSET ChallengeIds, CascadeFrom(C), \A c \in C : ~Held(c),
           UNCHANGED <<verifier, wrong>>
    PROVE  /\ challenge' \in [ChallengeIds -> ChallengeType]
           /\ \A c \in ChallengeIds : challenge'[c].resends <= challenge'[c].maxResends
           /\ code' \in [ChallengeIds -> [value : Mails \cup {Nobody}, expires : Int]]
           /\ mail' \in [Mails -> MailType] /\ MailStep /\ VerifierStep
           /\ \A c \in ChallengeIds : ChallengeStep(c)
           /\ \A c \in ChallengeIds : c \notin C => Stays(c)
  <1> DEFINE gone == [NoChallenge EXCEPT !.purpose = "deleted"]
             lost == [NoMail EXCEPT !.status = "deleted"]
  <1>1. /\ gone \in ChallengeType /\ gone.purpose = "deleted" /\ gone.resends <= gone.maxResends
        /\ lost \in MailType /\ lost.status = "deleted"
    <2>1. gone \in ChallengeType /\ gone.purpose = "deleted"
      BY RowTypes DEF ChallengeType
    <2>2. gone.resends <= gone.maxResends
      BY DEF NoChallenge
    <2>3. lost \in MailType /\ lost.status = "deleted"
      BY RowTypes DEF MailType
    <2>4. QED
      BY <2>1, <2>2, <2>3
  <1>2. /\ challenge' = [c \in ChallengeIds |-> IF c \in C THEN gone ELSE challenge[c]]
        /\ code' = [c \in ChallengeIds |-> IF c \in C THEN NoCode ELSE code[c]]
        /\ mail' = [j \in Mails |-> IF mail[j].challenge \in C THEN lost ELSE mail[j]]
    BY DEF CascadeFrom
  <1> HIDE DEF gone, lost
  <1>3. /\ challenge' \in [ChallengeIds -> ChallengeType] /\ \A c \in C : challenge'[c] = gone
        /\ \A c \in ChallengeIds \ C : challenge'[c] = challenge[c]
    BY <1>1, <1>2 DEF CInv, Tables
  <1>4. \A c \in ChallengeIds : /\ ChallengeStep(c) /\ (c \notin C => Stays(c) /\ Same(c))
                                /\ challenge'[c].resends <= challenge'[c].maxResends
    BY <1>1, <1>3 DEF ChallengeStep, Stays, Live, Same, CInv, Tables
  <1>5. VerifierStep
    BY <1>4, VerifierUntouched
  <1>6. code' \in [ChallengeIds -> [value : Mails \cup {Nobody}, expires : Int]]
    BY <1>2, RowTypes DEF CInv, Tables
  <1>7. mail' \in [Mails -> MailType] /\ MailStep
    BY <1>1, <1>2 DEF CInv, Tables, MailStep, MailRefers
  <1>8. QED
    BY <1>3, <1>4, <1>5, <1>6, <1>7

\* The cleanup deletes expired challenges that nobody has locked.
LEMMA DeleteExpiredFacts ==
    ASSUME CInv, NEW c \in ChallengeIds, DeleteExpiredChallenge(c)
    PROVE  ChallengeFacts
  <1>1. /\ Live(c) /\ ~Held(c) /\ CascadeFrom({c})
        /\ reset' = [u \in Accounts |-> IF reset[u] = c THEN Nobody ELSE reset[u]]
        /\ change' = [u \in Accounts |-> IF change[u].challenge = c THEN NoChange ELSE change[u]]
        /\ \A u \in Accounts : verification[u].challenge # c
        /\ UNCHANGED <<tick, account, login, verification, verifier, wrong, withdrawn, proven>>
    BY DEF DeleteExpiredChallenge, CascadeFrom
  <1>2. /\ challenge' \in [ChallengeIds -> ChallengeType]
        /\ \A x \in ChallengeIds : challenge'[x].resends <= challenge'[x].maxResends
        /\ code' \in [ChallengeIds -> [value : Mails \cup {Nobody}, expires : Int]]
        /\ mail' \in [Mails -> MailType] /\ MailStep /\ VerifierStep
        /\ \A x \in ChallengeIds : ChallengeStep(x)
        /\ \A x \in ChallengeIds : x # c => Stays(x)
    <2>1. {c} \in SUBSET ChallengeIds /\ \A x \in {c} : ~Held(x)
      BY <1>1
    <2>2. UNCHANGED <<verifier, wrong>> /\ CascadeFrom({c})
      BY <1>1
    <2>3. QED
      BY <2>1, <2>2, CascadeFacts
  <1>3. reset' \in [Accounts -> ChallengeIds \cup {Nobody}] /\ change' \in [Accounts -> ChangeType]
    BY <1>1, RowTypes DEF CInv, Tables
  <1>4. /\ verification' \in [Accounts -> VerificationType]
        /\ \A u \in Accounts : verification'[u] = verification[u] /\ verification[u].challenge # c
    BY <1>1 DEF CInv, Tables
  <1>5. \A u \in Accounts : /\ reset[u] \in ChallengeIds \cup {Nobody}
                            /\ change[u].challenge \in ChallengeIds \cup {Nobody}
                            /\ verification[u].challenge \in ChallengeIds \cup {Nobody}
    BY DEF CInv, Tables, ChangeType, VerificationType
  <1>6. PendingStep
    BY <1>1, <1>2, <1>4, <1>5 DEF PendingStep, NoChange
  <1>7. Tables' /\ AccountStep
    BY <1>1, <1>2, <1>3, <1>4, UntouchedFacts DEF CInv, Tables
  <1>8. QED
    BY <1>2, <1>6, <1>7 DEF ChallengeFacts

\* An account is deleted with what refers to it.
LEMMA DeleteAccountFacts ==
    ASSUME CInv, NEW u \in Accounts, DeleteAccount(u)
    PROVE  ChallengeFacts
  <1> DEFINE C == {c \in ChallengeIds : challenge[c].email = account[u].email}
  <1>1. /\ Exists(u) /\ \A c \in C : ~Held(c)
        /\ CascadeFrom(C) /\ account' = [account EXCEPT ![u] = NoAccount]
        /\ login' = [s \in Logins |-> IF login[s] = u THEN Nobody ELSE login[s]]
        /\ reset' = [v \in Accounts |-> IF v = u \/ reset[v] \in C THEN Nobody ELSE reset[v]]
        /\ change' = [v \in Accounts |->
                IF v = u \/ change[v].challenge \in C \/ account[u].email \in {change[v].old, change[v].new}
                THEN NoChange ELSE change[v]]
        /\ verification' = [verification EXCEPT ![u] = NoVerification]
        /\ \A v \in Accounts : verification[v].challenge \notin C
        /\ UNCHANGED <<tick, verifier, wrong, withdrawn, proven>>
    BY DEF DeleteAccount, CascadeFrom
  <1>2. /\ challenge' \in [ChallengeIds -> ChallengeType]
        /\ \A x \in ChallengeIds : challenge'[x].resends <= challenge'[x].maxResends
        /\ code' \in [ChallengeIds -> [value : Mails \cup {Nobody}, expires : Int]]
        /\ mail' \in [Mails -> MailType] /\ MailStep /\ VerifierStep
        /\ \A x \in ChallengeIds : ChallengeStep(x)
        /\ \A x \in ChallengeIds : x \notin C => Stays(x)
    <2>1. C \in SUBSET ChallengeIds /\ UNCHANGED <<verifier, wrong>>
      BY <1>1
    <2> HIDE DEF C
    <2>2. QED
      BY <1>1, <2>1, CascadeFacts
  <1> HIDE DEF C
  <1>3. /\ reset' \in [Accounts -> ChallengeIds \cup {Nobody}] /\ change' \in [Accounts -> ChangeType]
        /\ login' \in [Logins -> Accounts \cup {Nobody}]
    BY <1>1, RowTypes DEF CInv, Tables
  <1>4. /\ verification' \in [Accounts -> VerificationType]
        /\ \A v \in Accounts : \/ verification'[v].challenge = Nobody
                               \/ verification'[v] = verification[v] /\ verification[v].challenge \notin C
    BY <1>1, RowTypes DEF CInv, Tables, VerificationType, NoVerification
  <1>5. \A v \in Accounts : /\ reset[v] \in ChallengeIds \cup {Nobody}
                            /\ change[v].challenge \in ChallengeIds \cup {Nobody}
                            /\ verification[v].challenge \in ChallengeIds \cup {Nobody}
    BY DEF CInv, Tables, ChangeType, VerificationType
  <1>6. /\ \A v \in Accounts : reset'[v] = Nobody \/ (reset'[v] = reset[v] /\ reset[v] \notin C)
        /\ \A v \in Accounts : \/ change'[v].challenge = Nobody
                               \/ change'[v] = change[v] /\ change[v].challenge \notin C
    BY <1>1 DEF NoChange
  <1>7. PendingStep
    BY ZenonT(90), <1>1, <1>2, <1>4, <1>5, <1>6 DEF PendingStep
  <1>8. /\ account' \in [Accounts -> [email : Emails \cup {Nobody}, verified : BOOLEAN, password : BOOLEAN]]
        /\ \A v \in Accounts : account'[v] = account[v] \/ ~account'[v].verified
    BY <1>1, RowTypes DEF CInv, Tables, NoAccount
  <1>9. Tables' /\ AccountStep
    BY <1>1, <1>2, <1>3, <1>4, <1>8 DEF CInv, Tables, AccountStep
  <1>10. QED
    BY <1>2, <1>7, <1>9 DEF ChallengeFacts

\* Every step is one of these.
LEMMA ChallengesStepFacts ==
    ASSUME CInv, [ChallengesNext]_challengesVars
    PROVE  ChallengeFacts
  <1>1. CASE UNCHANGED challengesVars
    <2>1. UNCHANGED <<tick, account, login, challenge, mailVars, pendingVars, verifier, wrong,
                      withdrawn, proven>>
      BY <1>1 DEF challengesVars, mailVars, pendingVars
    <2>2. \A c : Same(c) /\ Stays(c) /\ ChallengeStep(c)
      BY <2>1, UntouchedFacts
    <2>3. VerifierStep /\ PendingStep /\ AccountStep
      BY <2>1, <2>2, VerifierUntouched, PendingUntouched, UntouchedFacts
    <2>4. Tables'
      BY <2>1 DEF CInv, Tables, mailVars, pendingVars
    <2>5. QED
      BY <2>1, <2>2, <2>3, <2>4, UntouchedFacts DEF ChallengeFacts, CInv, mailVars
  <1>2. CASE CreateNext
    BY <1>2, OpaqueFacts, CreateActionFacts DEF CreateNext
  <1>3. CASE VerifyNext
    BY <1>3, LockFacts, WrongCodeFacts, SignupFacts, EmailChangeFacts, VerificationFacts, ResetFacts
    DEF VerifyNext
  <1>4. CASE AccountNext
    BY <1>4, AccountFacts, DeleteAccountFacts DEF AccountNext
  <1>5. QED
    BY <1>1, <1>2, <1>3, <1>4, DeliverFacts, TickFacts, DeleteExpiredFacts, ResendFacts
    DEF ChallengesNext

\* The invariant holds in every state of every behaviour of the challenges.
THEOREM ChallengesInvariance == ChallengesSpec => []CInv
  <1>1. CInv /\ [ChallengesNext]_challengesVars => CInv'
    BY ChallengesStepFacts, FactsPreserveCInv
  <1>2. QED
    BY <1>1, ChallengesInitCInv, PTL DEF ChallengesSpec

-----------------------------------------------------------------------------
(* The theorems about challenges.                                          *)

\* No more wrong codes are compared with the code of a challenge than its limit
\* allows, however many requests try at once (verifyChallenge).
THEOREM GuessesAreBounded == ChallengesSpec => []GuessesBounded
  <1>1. ASSUME CInv PROVE GuessesBounded
    <2>1. \A c \in ChallengeIds : /\ challenge[c] \in ChallengeType
                                  /\ challenge[c].resends <= challenge[c].maxResends
      BY <1>1 DEF CInv, Tables
    <2>2. \A c \in ChallengeIds :
             /\ challenge[c].lastSent \in -1 .. LastTick /\ challenge[c].attempts \in 0 .. MaxAttempts
             /\ challenge[c].resends \in 0 .. challenge[c].maxResends
      BY <2>1 DEF ChallengeType
    <2>3. ChallengesTypeOK
      BY <1>1, <2>2 DEF CInv, Tables, ChallengesTypeOK
    <2>4. QED
      BY <1>1, <2>3 DEF CInv, Counted, GuessesBounded
  <1>2. QED
    BY <1>1, ChallengesInvariance, PTL

\* A verified address had its code entered, of a challenge that was mailed to it
\* (executeEmailChange, CompleteRequiredEmailVerification, VerifySignupChallenge).
THEOREM VerifiedAreProven == ChallengesSpec => []VerifiedIsProven
  <1>1. CInv => VerifiedIsProven
    BY DEF CInv
  <1>2. QED
    BY <1>1, ChallengesInvariance, PTL

\* A challenge is consumed only by a request that holds it, and that of a reset
\* only under the user's lock.
LEMMA Consumption ==
    ASSUME CInv, [ChallengesNext]_challengesVars, NEW c \in ChallengeIds,
           ~challenge[c].consumed, challenge'[c].consumed
    PROVE  \E p \in Verifiers :
              /\ verifier[p].challenge = c
              /\ verifier[p].pc = "locked" \/ CompletePasswordResetChallenge(p)
  <1>1. ASSUME UNCHANGED challenge PROVE FALSE
    BY <1>1
  <1>2. ASSUME NEW x \in ChallengeIds, NEW row, ~row.consumed, challenge' = [challenge EXCEPT ![x] = row]
        PROVE  FALSE
    BY <1>2 DEF CInv, Tables
  <1>3. challenge[c] \in ChallengeType
    BY DEF CInv, Tables
  <1>4. ASSUME CreateNext PROVE FALSE
    <2>1. ASSUME NEW x \in ChallengeIds, NEW j, NEW purpose, NEW e \in Emails, NEW at \in RequestTimes,
                 CreateChallenge(x, j, purpose, e, at) \/ CreateOpaqueChallenge(x, purpose, e, at)
          PROVE  FALSE
      <3>1. purpose \in Purposes
        BY <2>1 DEF CreateChallenge, CreateOpaqueChallenge
      <3>2. PICK new : new = CreateChallengeRow(purpose, e, at)
        OBVIOUS
      <3>3. new \in ChallengeType
        BY <3>1, <3>2, CreatedRow
      <3>4. ~new.consumed
        BY <3>2 DEF CreateChallengeRow, NoChallenge
      <3>5. ~[new EXCEPT !.maxResends = 0, !.opaque = TRUE].consumed
        BY <3>3, <3>4 DEF ChallengeType
      <3>6. PICK row : challenge' = [challenge EXCEPT ![x] = row] /\ ~row.consumed
        BY <2>1, <3>2, <3>4, <3>5 DEF CreateChallenge, CreateOpaqueChallenge
      <3>7. QED
        BY <1>2, <3>6
    <2>2. PICK x \in ChallengeIds, e \in Emails, at \in RequestTimes :
              \/ \E purpose \in Purposes : CreateOpaqueChallenge(x, purpose, e, at)
              \/ \E j \in Mails :
                  \/ CreateSignupChallenge(x, j, e, at)
                  \/ \E u \in Accounts :
                      \/ CreatePasswordResetChallenge(x, j, u, e, at)
                      \/ CreateRequiredEmailVerificationChallenge(x, j, u, e, at)
                      \/ \E s \in Logins : CreateEmailChangeChallenge(x, j, u, s, e, at)
      BY <1>4 DEF CreateNext
    <2>3. \E j, purpose : CreateChallenge(x, j, purpose, e, at) \/ CreateOpaqueChallenge(x, purpose, e, at)
      BY <2>2 DEF CreateSignupChallenge, CreatePasswordResetChallenge,
          CreateRequiredEmailVerificationChallenge, CreateEmailChangeChallenge
    <2>4. QED
      BY <2>1, <2>3
  <1>5. ASSUME NEW x \in ChallengeIds, NEW j \in Mails, NEW at \in RequestTimes, ResendChallenge(x, j, at)
        PROVE  FALSE
    BY <1>3, <1>5 DEF ResendChallenge, CInv, Tables, ChallengeType
  <1>6. ASSUME DeliverNext PROVE FALSE
    <2>1. PICK j \in Mails : UNCHANGED challenge
                 \/ challenge' = [challenge EXCEPT ![mail[j].challenge].lastSent = mail[j].claimed]
      BY <1>6 DEF DeliverNext, ClaimMail, GenerateCodeForDelivery, MailRetried, MailSent
    <2>2. PICK x, t : UNCHANGED challenge \/ challenge' = [challenge EXCEPT ![x] = [challenge[x] EXCEPT !.lastSent = t]]
      BY <2>1
    <2>3. [challenge[c] EXCEPT !.lastSent = t].consumed = challenge[c].consumed
      BY <1>3 DEF ChallengeType
    <2>4. QED
      BY <1>1, <2>2, <2>3 DEF CInv, Tables
  <1>7. ASSUME NEW C, CascadeFrom(C) PROVE FALSE
    BY <1>7 DEF CascadeFrom, NoChallenge
  <1>8. CASE VerifyNext
    <2>1. PICK p \in Verifiers :
              \/ \E x \in ChallengeIds, at \in RequestTimes : LockChallenge(p, x, at)
              \/ CompletePasswordResetChallenge(p) \/ Rollback(p)
              \/ \E guess \in Codes :
                  \/ WrongCode(p, guess)
                  \/ \E u \in Accounts :
                      \/ VerifySignupChallenge(p, guess, u) \/ CheckPasswordResetCode(p, guess, u)
                      \/ CompleteRequiredEmailVerification(p, guess, u)
                      \/ \E s \in Logins : CompleteEmailChangeChallenge(p, guess, u, s)
      BY <1>8 DEF VerifyNext
    <2>2. ASSUME Consume(p) PROVE verifier[p].challenge = c
      BY <1>3, <2>2 DEF Consume, CInv, Tables
    <2>3. ASSUME NEW guess \in Codes, WrongCode(p, guess) PROVE FALSE
      BY <1>3, <2>3 DEF WrongCode, CInv, Tables, ChallengeType
    <2>4. QED
      BY <1>1, <2>1, <2>2, <2>3
      DEF LockChallenge, Rollback, CheckPasswordResetCode, CompletePasswordResetChallenge, Right,
          VerifySignupChallenge, CompleteRequiredEmailVerification, CompleteEmailChangeChallenge
  <1>9. ASSUME AccountNext PROVE FALSE
    BY <1>1, <1>7, <1>9 DEF AccountNext, DeleteAccount, DeleteExpiredVerification, ReplacePassword,
       BeginRequiredEmailVerification, SignIn
  <1>10. ASSUME ChallengesTick \/ \E s \in Logins : EndSession(s) PROVE FALSE
    BY <1>1, <1>10 DEF ChallengesTick, EndSession
  <1>11. ASSUME NEW x \in ChallengeIds, DeleteExpiredChallenge(x) PROVE FALSE
    BY <1>7, <1>11 DEF DeleteExpiredChallenge
  <1>12. ASSUME UNCHANGED challengesVars PROVE FALSE
    BY <1>1, <1>12 DEF challengesVars
  <1>13. QED
    BY <1>4, <1>5, <1>6, <1>8, <1>9, <1>10, <1>11, <1>12 DEF ChallengesNext

\* The condition of ResetsCurrent.
CurrentReset ==
    \A p \in Verifiers :
        LET c == verifier[p].challenge
        IN  (verifier[p].pc = "verified" /\ challenge'[c].consumed) =>
                c \notin withdrawn /\ challenge[c].email = account[verifier[p].seen].email

\* A reset that was superseded or cancelled after its code had been accepted changes
\* no password (CompletePasswordResetChallenge reads the action under the user's lock).
THEOREM ResetsAreCurrent == ChallengesSpec => ResetsCurrent
  <1>1. ASSUME CInv, [ChallengesNext]_challengesVars, NEW p \in Verifiers,
               verifier[p].pc = "verified", challenge'[verifier[p].challenge].consumed
        PROVE  CompletePasswordResetChallenge(p)
    <2>1. verifier[p].challenge \in ChallengeIds /\ ~challenge[verifier[p].challenge].consumed
      BY <1>1 DEF CInv, ChallengeLocks
    <2>2. PICK q \in Verifiers : /\ verifier[q].challenge = verifier[p].challenge
                                 /\ verifier[q].pc = "locked" \/ CompletePasswordResetChallenge(q)
      BY <1>1, <2>1, Consumption
    <2>3. verifier[q].pc # "idle"
      BY <2>2 DEF CompletePasswordResetChallenge
    <2>4. q = p
      BY <1>1, <2>2, <2>3 DEF CInv, ChallengeLocks
    <2>5. QED
      BY <1>1, <2>2, <2>4
  <1>2. ASSUME CInv, [ChallengesNext]_challengesVars PROVE CurrentReset
    <2>1. ASSUME NEW p \in Verifiers, CompletePasswordResetChallenge(p)
          PROVE  /\ verifier[p].challenge \notin withdrawn
                 /\ challenge[verifier[p].challenge].email = account[verifier[p].seen].email
      <3>1. verifier[p].seen \in Accounts /\ verifier[p].challenge \in ChallengeIds
        BY <1>2, <2>1 DEF CompletePasswordResetChallenge, CInv, ChallengeLocks
      <3>2. QED
        BY <1>2, <2>1, <3>1, ChallengesAssumption
        DEF CompletePasswordResetChallenge, ReadAgain, PasswordResetEligibility, CInv, Pending
    <2>2. QED
      BY <1>1, <1>2, <2>1 DEF CurrentReset
  <1>3. CInv /\ [ChallengesNext]_challengesVars => [CurrentReset]_challengesVars
    BY <1>2
  <1>4. ChallengesSpec => [][CurrentReset]_challengesVars
    BY <1>3, ChallengesInvariance, PTL DEF ChallengesSpec
  <1>5. QED
    BY <1>4 DEF ResetsCurrent, CurrentReset

-----------------------------------------------------------------------------
(* The inductive invariant of Credentials.                                 *)

PasswordType == [word : 0 .. MaxWord, old : BOOLEAN]
PasskeyType == [owner : Holders \cup {Nothing}, count : 0 .. MaxCount, warned : BOOLEAN,
                restricted : {"no", "kept", "revoked", "deleted"}]
CeremonyType == [purpose : {"none", "registration", "authentication", "reauthentication"},
                 holder : Holders \cup {Nothing}, signin : Signins \cup {Nothing},
                 used : BOOLEAN, expired : BOOLEAN, uses : Nat]
LinkType == [purpose : {"none", "link", "recovery"}, holder : Holders \cup {Nothing},
             signin : Signins \cup {Nothing}, provider : Providers \cup {Nothing},
             subject : Subjects \cup {Nothing}, moved : BOOLEAN, used : BOOLEAN, expired : BOOLEAN]
ReauthType == [id : 0 .. MaxReauth, state : {"none", "open", "expired", "used"}]
SigninType == [holder : Holders \cup {Nothing}, key : Keys \cup {Nothing}, live : BOOLEAN, recent : BOOLEAN]
Steps == {"idle", "start", "locked", "counted", "upgrade", "failed", "read", "proved", "found"}
RequestType ==
    [op : {"idle", "unlink", "deletePasskey", "setPassword", "login", "link", "replace", "reauth", "passkey"},
     step : Steps, holder : Holders \cup {Nothing}, signin : Signins \cup {Nothing},
     ceremony : Ceremonies \cup {Nothing}, key : Keys \cup {Nothing}, count : 0 .. MaxCount,
     seen : PasskeyType, link : Links \cup {Nothing}, provider : Providers \cup {"password", Nothing},
     subject : Subjects \cup {Nothing}, word : PasswordType, tries : {0, 1}, reauth : 0 .. MaxReauth]

\* The types of the tables and of the requests.
Records ==
    /\ password \in [Holders -> PasswordType]
    /\ identity \in [Holders -> [Providers -> Subjects \cup {Nothing}]]
    /\ passkey \in [Keys -> PasskeyType]
    /\ ceremony \in [Ceremonies -> CeremonyType]
    /\ link \in [Links -> LinkType]
    /\ signin \in [Signins -> SigninType]
    /\ reauth \in [Signins -> ReauthType]
    /\ cloneResponse \in Responses
    /\ request \in [Clients -> RequestType]
    /\ lastWord \in 0 .. MaxWord
    /\ accepted \in [Keys -> Seq(1 .. MaxCount)]

\* An account at a provider belongs to one user.
OneHolder ==
    \A p \in Providers : \A h1, h2 \in Holders :
        identity[h1][p] # Nothing /\ identity[h1][p] = identity[h2][p] => h1 = h2

\* A ceremony that is not used has proved nothing.
CeremonyUses == \A x \in Ceremonies : ceremony[x].uses = (IF ceremony[x].used THEN 1 ELSE 0)

\* The counters that passed rise, and none is above the stored one.
CountersRise ==
    \A k \in Keys :
        /\ \A i, j \in 1 .. Len(accepted[k]) : i < j => accepted[k][i] < accepted[k][j]
        /\ passkey[k].restricted # "deleted" => \A i \in 1 .. Len(accepted[k]) : accepted[k][i] <= passkey[k].count

\* A session opened by a passkey is one of the passkey's user.
SigninKeys ==
    \A s \in Signins :
        /\ signin[s].live => signin[s].holder \in Holders
        /\ signin[s].key # Nothing =>
              /\ signin[s].holder \in Holders
              /\ passkey[signin[s].key].restricted = "deleted" \/ passkey[signin[s].key].owner = signin[s].holder

\* A pending link names its user, its provider and, after a login, the account.
LinkOK(row) ==
    row.purpose # "none" =>
        /\ row.holder \in Holders /\ row.provider \in Providers
        /\ row.purpose = "recovery" => row.subject \in Subjects

LinkRows == \A l \in Links : LinkOK(link[l])

\* What a request carries through its steps.
RowOK(r) ==
    /\ r.step \in {"locked", "counted", "found", "read", "upgrade", "failed", "start"} => r.holder \in Holders
    /\ r.op = "unlink" => r.provider \in Providers \cup {"password"}
    /\ r.op = "deletePasskey" => r.key \in Keys
    /\ r.op = "passkey" => r.key \in Keys /\ r.holder \in Holders
    /\ r.op \in {"passkey", "reauth"} /\ r.step \in {"found", "locked"} =>
          r.key \in Keys /\ r.ceremony \in Ceremonies
    /\ r.op = "reauth" => r.signin \in Signins
    /\ r.step = "counted" => r.op \in {"unlink", "deletePasskey"}
    /\ r.step = "read" =>
          /\ r.op \in {"link", "replace"} /\ r.subject \in Subjects /\ r.link \in Links
          /\ link[r.link].purpose # "none" /\ link[r.link].holder = r.holder
          /\ link[r.link].provider = r.provider

RequestRows == \A c \in Clients : RowOK(request[c])

\* FOR UPDATE of a user: one request at a time.
UserLocks ==
    \A c, d \in Clients :
        c # d /\ request[c].step \notin Unlocked /\ request[d].step \notin Unlocked
            => request[c].holder # request[d].holder

\* The ways a user signs in, one by one.
Method(h, kind, x) ==
    \/ kind = "password" /\ x = Nothing /\ password[h].word > 0
    \/ kind = "provider" /\ x \in Providers /\ identity[h][x] # Nothing
    \/ kind = "passkey" /\ x \in Keys /\ passkey[x].owner = h /\ passkey[x].restricted = "no"

Kinds == {"password", "provider", "passkey"}
HasMethod(h) == \E kind \in Kinds : \E x : Method(h, kind, x)
HasSeveral(h) ==
    \E k1, k2 \in Kinds : \E x1, x2 : Method(h, k1, x1) /\ Method(h, k2, x2) /\ (k1 # k2 \/ x1 # x2)

\* What a removal has counted under the user's lock still holds.
CountOK(r) ==
    /\ r.op = "unlink" => HasSeveral(r.holder)
    /\ r.op = "deletePasskey" =>
          passkey[r.key].owner = r.holder /\ (passkey[r.key].restricted = "no" => HasSeveral(r.holder))

CountsHold == \A c \in Clients : request[c].step = "counted" => CountOK(request[c])

KInv ==
    /\ Records /\ OneHolder /\ CeremonyUses /\ CountersRise /\ SigninKeys /\ LinkRows
    /\ RequestRows /\ UserLocks /\ CountsHold /\ RestrictedShutOut

\* The unused rows.
LEMMA UnusedRows ==
    /\ NoPassword \in PasswordType /\ NoPasskey \in PasskeyType /\ NoCeremony \in CeremonyType
    /\ NoLink \in LinkType /\ NoReauth \in ReauthType /\ NoSignin \in SigninType
  BY CredentialsAssumption
  DEF NoPassword, NoPasskey, NoCeremony, NoLink, NoReauth, NoSignin, PasswordType, PasskeyType,
      CeremonyType, LinkType, ReauthType, SigninType

\* The row of a client without a request.
LEMMA IdleRow == Idle \in RequestType /\ Idle.step = "idle" /\ Idle.op = "idle"
  <1>1. Idle \in RequestType
    BY UnusedRows, CredentialsAssumption DEF Idle, RequestType, Steps
  <1>2. QED
    BY <1>1 DEF Idle

\* The number of methods is positive when there is one, and above one when there are two.
LEMMA CountOfMethods ==
    ASSUME NEW h, h \in Holders, password \in [Holders -> PasswordType]
    PROVE  /\ CountAuthMethods(h) \in Nat
           /\ CountAuthMethods(h) > 0 <=> HasMethod(h)
           /\ CountAuthMethods(h) > 1 => HasSeveral(h)
  <1> DEFINE P == {p \in Providers : identity[h][p] # Nothing}
             K == ActivePasskeys(h)
             n == IF password[h].word > 0 THEN 1 ELSE 0
  <1>1. IsFiniteSet(P) /\ IsFiniteSet(K)
    BY CredentialsAssumption, FS_Subset DEF ActivePasskeys
  <1>2. Cardinality(P) \in Nat /\ Cardinality(K) \in Nat
    BY <1>1, FS_CardinalityType
  <1>3. (Cardinality(P) = 0 <=> P = {}) /\ (Cardinality(K) = 0 <=> K = {})
    BY <1>1, FS_EmptySet
  <1>4. \A x : (P = {x} => Cardinality(P) = 1) /\ (K = {x} => Cardinality(K) = 1)
    BY FS_Singleton
  <1>5. CountAuthMethods(h) = n + Cardinality(P) + Cardinality(K) /\ n \in {0, 1}
    BY DEF CountAuthMethods
  <1>6. /\ n = 1 <=> Method(h, "password", Nothing)
        /\ \A x : x \in P <=> Method(h, "provider", x)
        /\ \A x : x \in K <=> Method(h, "passkey", x)
        /\ \A x : Method(h, "password", x) => x = Nothing
    BY DEF Method, ActivePasskeys
  <1> HIDE DEF P, K, n
  <1>7. CountAuthMethods(h) > 0 <=> HasMethod(h)
    <2>1. HasMethod(h) <=> n = 1 \/ P # {} \/ K # {}
      BY <1>6 DEF HasMethod, Kinds
    <2>2. CountAuthMethods(h) > 0 <=> n = 1 \/ Cardinality(P) # 0 \/ Cardinality(K) # 0
      BY <1>2, <1>5
    <2>3. QED
      BY <2>1, <2>2, <1>3
  <1>8. ASSUME CountAuthMethods(h) > 1 PROVE HasSeveral(h)
    <2>1. CASE n = 1
      <3>1. Cardinality(P) # 0 \/ Cardinality(K) # 0
        BY <1>2, <1>5, <1>8, <2>1
      <3>2. \E x : x \in P \/ x \in K
        BY <1>3, <3>1
      <3>3. QED
        BY <1>6, <2>1, <3>2 DEF HasSeveral, Kinds
    <2>2. CASE n = 0 /\ P # {} /\ K # {}
      BY <1>6, <2>2 DEF HasSeveral, Kinds
    <2>3. CASE n = 0 /\ K = {}
      <3>1. Cardinality(P) # 0 /\ Cardinality(P) # 1
        BY <1>2, <1>3, <1>5, <1>8, <2>3
      <3>2. PICK x : x \in P
        BY <1>3, <3>1
      <3>3. P # {x}
        BY <1>4, <3>1
      <3>4. \E y \in P : x # y
        BY <3>2, <3>3
      <3>5. QED
        BY <1>6, <3>2, <3>4 DEF HasSeveral, Kinds
    <2>4. CASE n = 0 /\ P = {}
      <3>1. Cardinality(K) # 0 /\ Cardinality(K) # 1
        BY <1>2, <1>3, <1>5, <1>8, <2>4
      <3>2. PICK x : x \in K
        BY <1>3, <3>1
      <3>3. K # {x}
        BY <1>4, <3>1
      <3>4. \E y \in K : x # y
        BY <3>2, <3>3
      <3>5. QED
        BY <1>6, <3>2, <3>4 DEF HasSeveral, Kinds
    <2>5. QED
      BY <1>5, <2>1, <2>2, <2>3, <2>4
  <1>9. QED
    BY <1>2, <1>5, <1>7, <1>8

-----------------------------------------------------------------------------
(* How the credentials change.                                             *)

\* A passkey is kept, registered, deleted, or used: the counter rises when it
\* passes, and a revocation ends the sessions of its user.
KeyStep(k) ==
    \/ passkey'[k] = passkey[k] /\ accepted'[k] = accepted[k]
    \/ /\ passkey[k] = NoPasskey /\ passkey'[k].owner \in Holders /\ passkey'[k].restricted = "no"
       /\ accepted'[k] = accepted[k]
    \/ passkey'[k].restricted = "deleted" /\ accepted'[k] = accepted[k]
    \/ /\ passkey[k].owner \in Holders /\ passkey'[k].owner = passkey[k].owner
       /\ passkey[k].restricted = "no" /\ passkey'[k].restricted # "deleted"
       /\ passkey'[k].count >= passkey[k].count
       /\ \/ accepted'[k] = accepted[k]
          \/ \E n \in 1 .. MaxCount : /\ n > passkey[k].count /\ n <= passkey'[k].count
                                      /\ accepted'[k] = Append(accepted[k], n)
       /\ passkey'[k].restricted = "revoked" =>
             \A s \in Signins : signin[s].holder = passkey[k].owner => ~signin'[s].live

\* A session is kept, ended, or opened, by a passkey that is there.
SigninStep(s) ==
    \/ /\ signin'[s].holder = signin[s].holder /\ signin'[s].key = signin[s].key
       /\ signin'[s].live => signin[s].live
    \/ /\ signin'[s].holder \in Holders
       /\ \/ signin'[s].key = Nothing
          \/ /\ signin'[s].key \in Keys /\ passkey' = passkey
             /\ passkey[signin'[s].key].owner = signin'[s].holder
             /\ passkey[signin'[s].key].restricted = "no"

\* An identity is removed, or given by a link that this step uses up.
IdentityStep(h, p) ==
    \/ identity'[h][p] \in {identity[h][p], Nothing}
    \/ /\ identity'[h][p] \in Subjects /\ IdentityFree(p, identity'[h][p])
       /\ \A g \in Holders \ {h} : identity'[g][p] = identity[g][p]
       /\ \E l \in Links : /\ link[l].holder = h /\ link[l].provider = p
                           /\ ~link[l].used /\ link'[l].used

LinkStep(l) ==
    IF link[l].purpose = "none"
    THEN LinkOK(link'[l])
    ELSE /\ link'[l].purpose = link[l].purpose /\ link'[l].holder = link[l].holder
         /\ link'[l].provider = link[l].provider /\ link'[l].subject = link[l].subject

CeremonyStep(x) == ceremony'[x].uses = (IF ceremony'[x].used THEN 1 ELSE 0)

PasswordStep(h) == password'[h].word \in {0, password[h].word} \/ password'[h].word > lastWord

\* A request is kept or moves on; a lock on a user is kept, or taken when it is free.
RequestStep(c) ==
    /\ request'[c] = request[c] \/ RowOK(request'[c])
    /\ \/ request'[c].step \in Unlocked
       \/ request[c].step \notin Unlocked /\ request'[c].holder = request[c].holder
       \/ /\ HolderFree(c, request'[c].holder)
          /\ \A d \in Clients \ {c} : request'[d] = request[d]
    /\ \/ request'[c].step # "counted"
       \/ request'[c] = request[c]
       \/ CountOK(request'[c]) /\ UNCHANGED <<password, identity, passkey>>

\* The methods of a user stay, and no passkey of that user becomes one.
MethodsStay(h) ==
    /\ \A kind \in Kinds : \A x : Method(h, kind, x) => Method(h, kind, x)'
    /\ \A k \in Keys : passkey[k].owner = h =>
          /\ passkey'[k].owner = h
          /\ passkey'[k].restricted = "no" => passkey[k].restricted = "no"

\* Only a request that holds the user, and ends, takes a method away; the last one
\* goes only by a restriction of the passkey.
LossStep(h) ==
    /\ \/ MethodsStay(h)
       \/ \E c \in Clients : /\ request[c].holder = h /\ request[c].step \notin Unlocked
                             /\ request'[c].step \in Unlocked
    /\ HasMethod(h) => \/ HasMethod(h)'
                       \/ \E k \in Keys : /\ passkey[k].owner = h /\ passkey[k].restricted = "no"
                                          /\ passkey'[k].restricted \in {"kept", "revoked"}

CredentialFacts ==
    /\ Records'
    /\ \A k \in Keys : KeyStep(k)
    /\ \A s \in Signins : SigninStep(s)
    /\ \A h \in Holders : PasswordStep(h) /\ LossStep(h) /\ \A p \in Providers : IdentityStep(h, p)
    /\ \A l \in Links : LinkStep(l)
    /\ \A x \in Ceremonies : CeremonyStep(x)
    /\ \A c \in Clients : RequestStep(c)


\* The invariant is preserved by every step of these kinds.
LEMMA FactsPreserveKInv ==
    ASSUME KInv, CredentialFacts
    PROVE  KInv'
  <1>1. OneHolder'
    <2>1. ASSUME NEW p \in Providers, NEW h1 \in Holders, NEW h2 \in Holders,
                 identity'[h1][p] # Nothing, identity'[h1][p] = identity'[h2][p], h1 # h2
          PROVE  FALSE
      <3>1. IdentityStep(h1, p) /\ IdentityStep(h2, p)
        BY DEF CredentialFacts
      <3>2. CASE identity'[h1][p] = identity[h1][p] /\ identity'[h2][p] = identity[h2][p]
        BY <2>1, <3>2 DEF KInv, OneHolder
      <3>3. QED
        BY <2>1, <3>1, <3>2 DEF IdentityStep, IdentityFree, LinkedTo
    <2>2. QED
      BY <2>1 DEF OneHolder
  <1>2. CeremonyUses' /\ LinkRows'
    BY DEF KInv, CredentialFacts, CeremonyStep, CeremonyUses, LinkStep, LinkRows, LinkOK
  <1>3. ASSUME NEW k \in Keys
        PROVE  /\ \A i, j \in 1 .. Len(accepted'[k]) : i < j => accepted'[k][i] < accepted'[k][j]
               /\ passkey'[k].restricted # "deleted" =>
                     \A i \in 1 .. Len(accepted'[k]) : accepted'[k][i] <= passkey'[k].count
    <2>0. PICK a : a = accepted[k]
      OBVIOUS
    <2>1. /\ a \in Seq(1 .. MaxCount) /\ passkey[k] \in PasskeyType /\ passkey'[k] \in PasskeyType
          /\ KeyStep(k)
      BY <2>0 DEF KInv, Records, CredentialFacts
    <2>2. /\ \A i, j \in 1 .. Len(a) : i < j => a[i] < a[j]
          /\ passkey[k].restricted # "deleted" => \A i \in 1 .. Len(a) : a[i] <= passkey[k].count
      BY <2>0 DEF KInv, CountersRise
    <2>3. \A i \in 1 .. Len(a) : a[i] \in 1 .. MaxCount
      <3>1. \A S : a \in Seq(S) => \A i \in 1 .. Len(a) : a[i] \in S
        OBVIOUS
      <3>2. QED
        BY <2>1, <3>1
    <2>4. passkey[k].count \in Nat /\ passkey'[k].count \in Nat
      BY <2>1 DEF PasskeyType
    <2>5. CASE accepted'[k] = a
      <3>1. CASE passkey[k] = NoPasskey
        <4>1. passkey[k].count = 0 /\ passkey[k].restricted # "deleted"
          BY <3>1 DEF NoPasskey
        <4>2. \A i \in 1 .. Len(a) : FALSE
          BY <2>2, <2>3, <4>1, CredentialsAssumption
        <4>3. QED
          BY <2>2, <2>5, <4>2
      <3>2. CASE \/ passkey'[k].restricted = "deleted"
                 \/ passkey'[k].count = passkey[k].count /\ passkey'[k].restricted = passkey[k].restricted
        BY <2>2, <2>5, <3>2
      <3>3. CASE passkey[k].restricted = "no" /\ passkey'[k].count >= passkey[k].count
        BY <2>2, <2>3, <2>4, <2>5, <3>3, CredentialsAssumption
      <3>4. QED
        BY <2>1, <3>1, <3>2, <3>3 DEF KeyStep
    <2>6. ASSUME NEW n \in 1 .. MaxCount, accepted'[k] = Append(a, n), n > passkey[k].count,
                 n <= passkey'[k].count, passkey[k].restricted = "no"
          PROVE  /\ \A i, j \in 1 .. Len(accepted'[k]) : i < j => accepted'[k][i] < accepted'[k][j]
                 /\ \A i \in 1 .. Len(accepted'[k]) : accepted'[k][i] <= passkey'[k].count
      <3>1. /\ Len(accepted'[k]) = Len(a) + 1 /\ accepted'[k][Len(a) + 1] = n
            /\ \A i \in 1 .. Len(a) : accepted'[k][i] = a[i]
            /\ Len(a) \in Nat
        BY <2>1, <2>6
      <3>2. \A i \in 1 .. Len(a) : a[i] < n /\ a[i] \in Int
        BY <2>2, <2>3, <2>4, <2>6, CredentialsAssumption
      <3>3. QED
        BY <2>2, <2>4, <2>6, <3>1, <3>2, CredentialsAssumption
    <2>7. QED
      BY <2>0, <2>1, <2>5, <2>6 DEF KeyStep
  <1>4. CountersRise'
    BY <1>3 DEF CountersRise
  <1>5. SigninKeys' /\ RestrictedShutOut'
    <2>1. ASSUME NEW s \in Signins
          PROVE  /\ signin'[s].live => signin'[s].holder \in Holders
                 /\ signin'[s].key # Nothing =>
                       /\ signin'[s].holder \in Holders
                       /\ \/ passkey'[signin'[s].key].restricted = "deleted"
                          \/ passkey'[signin'[s].key].owner = signin'[s].holder
                       /\ signin'[s].live => passkey'[signin'[s].key].restricted # "revoked"
      <3>1. SigninStep(s) /\ signin[s] \in SigninType
        BY DEF CredentialFacts, KInv, Records
      <3>2. CASE /\ signin'[s].holder = signin[s].holder /\ signin'[s].key = signin[s].key
                 /\ signin'[s].live => signin[s].live
        <4>1. CASE signin[s].key = Nothing
          BY <3>2, <4>1 DEF KInv, SigninKeys
        <4>2. CASE signin[s].key \in Keys /\ signin[s].key # Nothing
          <5>1. PICK k \in Keys : k = signin[s].key
            BY <4>2
          <5>2. KeyStep(k)
            BY DEF CredentialFacts
          <5>3. /\ signin[s].holder \in Holders
                /\ passkey[k].restricted = "deleted" \/ passkey[k].owner = signin[s].holder
                /\ signin[s].live => passkey[k].restricted # "revoked"
            BY <4>2, <5>1 DEF KInv, SigninKeys, RestrictedShutOut
          <5>4. passkey[k] # NoPasskey
            BY <5>3, CredentialsAssumption DEF NoPasskey
          <5>5. QED
            BY <3>2, <5>1, <5>2, <5>3, <5>4 DEF KeyStep
        <4>3. QED
          BY <3>1, <4>1, <4>2 DEF SigninType
      <3>3. QED
        BY <3>1, <3>2 DEF SigninStep
    <2>2. QED
      BY <2>1 DEF SigninKeys, RestrictedShutOut
  <1>6. RequestRows'
    <2>1. ASSUME NEW c \in Clients PROVE RowOK(request[c])'
      <3>1. RowOK(request'[c])
        BY DEF CredentialFacts, RequestStep, KInv, RequestRows
      <3>2. QED
        BY <3>1 DEF CredentialFacts, LinkStep, RowOK
    <2>2. QED
      BY <2>1 DEF RequestRows
  <1>7. UserLocks'
    BY DEF CredentialFacts, RequestStep, KInv, UserLocks, HolderFree
  <1>8. CountsHold'
    <2>1. ASSUME NEW c \in Clients, request'[c].step = "counted" PROVE CountOK(request[c])'
      <3>1. request'[c] \in RequestType /\ RowOK(request'[c])
        BY DEF CredentialFacts, Records, RequestStep, KInv, RequestRows
      <3>2. CASE CountOK(request'[c]) /\ UNCHANGED <<password, identity, passkey>>
        BY <3>2 DEF CountOK, HasSeveral, Method
      <3>3. CASE request'[c] = request[c]
        <4>1. PICK h \in Holders : h = request[c].holder
          BY <2>1, <3>1, <3>3 DEF RowOK
        <4>2. CountOK(request[c])
          BY <2>1, <3>3 DEF KInv, CountsHold
        <4>3. MethodsStay(h)
          BY <2>1, <3>3, <4>1 DEF CredentialFacts, LossStep, KInv, UserLocks, Unlocked
        <4>4. HasSeveral(h) => HasSeveral(h)'
          BY <4>3 DEF MethodsStay, HasSeveral
        <4>5. QED
          BY <3>1, <3>3, <4>1, <4>2, <4>3, <4>4 DEF CountOK, MethodsStay, RowOK
      <3>4. QED
        BY <2>1, <3>2, <3>3 DEF CredentialFacts, RequestStep
    <2>2. QED
      BY <2>1 DEF CountsHold
  <1>9. QED
    BY <1>1, <1>2, <1>4, <1>5, <1>6, <1>7, <1>8 DEF KInv, CredentialFacts

-----------------------------------------------------------------------------
(* The facts of a step, one variable after the other.                      *)

PasswordFacts == password' \in [Holders -> PasswordType] /\ \A h \in Holders : PasswordStep(h)
IdentityFacts ==
    /\ identity' \in [Holders -> [Providers -> Subjects \cup {Nothing}]]
    /\ \A h \in Holders, p \in Providers : IdentityStep(h, p)
KeyFacts ==
    /\ passkey' \in [Keys -> PasskeyType] /\ accepted' \in [Keys -> Seq(1 .. MaxCount)]
    /\ \A k \in Keys : KeyStep(k)
CeremonyFacts == ceremony' \in [Ceremonies -> CeremonyType] /\ \A x \in Ceremonies : CeremonyStep(x)
LinkFacts == link' \in [Links -> LinkType] /\ \A l \in Links : LinkStep(l)
SigninFacts == signin' \in [Signins -> SigninType] /\ \A s \in Signins : SigninStep(s)
RequestFacts == request' \in [Clients -> RequestType] /\ \A c \in Clients : RequestStep(c)
LossFacts == \A h \in Holders : LossStep(h)
PlainFacts ==
    reauth' \in [Signins -> ReauthType] /\ cloneResponse' \in Responses /\ lastWord' \in 0 .. MaxWord

\* The facts of all variables are those of the step.
LEMMA FactsTogether ==
    ASSUME PasswordFacts, IdentityFacts, KeyFacts, CeremonyFacts, LinkFacts, SigninFacts,
           RequestFacts, LossFacts, PlainFacts
    PROVE  CredentialFacts
  BY DEF PasswordFacts, IdentityFacts, KeyFacts, CeremonyFacts, LinkFacts, SigninFacts,
         RequestFacts, LossFacts, PlainFacts, CredentialFacts, Records

\* What a step does not touch.
LEMMA KeptTables ==
    ASSUME KInv
    PROVE  /\ UNCHANGED password => PasswordFacts
           /\ UNCHANGED identity => IdentityFacts
           /\ UNCHANGED <<passkey, accepted>> => KeyFacts
           /\ UNCHANGED ceremony => CeremonyFacts
           /\ UNCHANGED link => LinkFacts
           /\ UNCHANGED signin => SigninFacts
           /\ UNCHANGED request => RequestFacts
           /\ UNCHANGED <<password, identity, passkey>> => LossFacts
           /\ UNCHANGED <<reauth, cloneResponse, lastWord>> => PlainFacts
  <1>1. UNCHANGED password => PasswordFacts
    BY DEF KInv, Records, PasswordFacts, PasswordStep
  <1>2. UNCHANGED identity => IdentityFacts
    BY DEF KInv, Records, IdentityFacts, IdentityStep
  <1>3. UNCHANGED <<passkey, accepted>> => KeyFacts
    BY DEF KInv, Records, KeyFacts, KeyStep
  <1>4. UNCHANGED ceremony => CeremonyFacts
    BY DEF KInv, Records, CeremonyUses, CeremonyFacts, CeremonyStep
  <1>5. UNCHANGED link => LinkFacts
    BY DEF KInv, Records, LinkRows, LinkFacts, LinkStep
  <1>6. UNCHANGED signin => SigninFacts
    BY DEF KInv, Records, SigninFacts, SigninStep
  <1>7. UNCHANGED request => RequestFacts
    BY DEF KInv, Records, RequestFacts, RequestStep
  <1>8. UNCHANGED <<password, identity, passkey>> => LossFacts
    BY DEF LossFacts, LossStep, MethodsStay, Method, HasMethod
  <1>9. UNCHANGED <<reauth, cloneResponse, lastWord>> => PlainFacts
    BY DEF KInv, Records, PlainFacts
  <1>10. QED
    BY <1>1, <1>2, <1>3, <1>4, <1>5, <1>6, <1>7, <1>8, <1>9

\* A request moves to another row: with no lock on its user, with the lock it has,
\* or with one that is free.
LEMMA RequestMoves ==
    ASSUME KInv, NEW c \in Clients, NEW r \in RequestType, RowOK(r),
           request' = [request EXCEPT ![c] = r],
           \/ r.step \in Unlocked
           \/ request[c].step \notin Unlocked /\ r.holder = request[c].holder
           \/ HolderFree(c, r.holder),
           r.step = "counted" => CountOK(r) /\ UNCHANGED <<password, identity, passkey>>
    PROVE  RequestFacts
  <1>1. request \in [Clients -> RequestType]
    BY DEF KInv, Records
  <1>2. request' \in [Clients -> RequestType] /\ request'[c] = r
        /\ \A d \in Clients \ {c} : request'[d] = request[d]
    BY <1>1
  <1>3. RequestStep(c)
    BY <1>2 DEF RequestStep
  <1>4. \A d \in Clients \ {c} : RequestStep(d)
    BY <1>2 DEF RequestStep
  <1>5. QED
    BY <1>2, <1>3, <1>4 DEF RequestFacts

\* A request ends, and holds nothing.
LEMMA DoneMoves ==
    ASSUME KInv, NEW c \in Clients, Done(c)
    PROVE  RequestFacts
  <1>1. RowOK(Idle) /\ Idle.step \in Unlocked /\ Idle.step # "counted"
    BY IdleRow DEF RowOK, Unlocked
  <1>2. QED
    BY <1>1, IdleRow, RequestMoves DEF Done

\* A request enters with no lock.
LEMMA EnterMoves ==
    ASSUME KInv, NEW c \in Clients, NEW r \in RequestType, Enter(c, r), RowOK(r),
           r.step \in {"start", "upgrade", "read", "proved", "found"}
    PROVE  RequestFacts
  BY RequestMoves DEF Enter, Unlocked

\* A request goes on to its next step.
LEMMA AdvanceMoves ==
    ASSUME KInv, NEW c \in Clients, NEW step \in Steps, Advance(c, step),
           RowOK([request[c] EXCEPT !.step = step]),
           \/ step \in Unlocked
           \/ request[c].step \notin Unlocked
           \/ HolderFree(c, request[c].holder),
           step = "counted" => CountOK(request[c]) /\ UNCHANGED <<password, identity, passkey>>
    PROVE  RequestFacts
  <1>1. request \in [Clients -> RequestType]
    BY DEF KInv, Records
  <1>2. PICK old \in RequestType : old = request[c]
    BY <1>1
  <1>3. PICK r : r = [old EXCEPT !.step = step]
    OBVIOUS
  <1>4. r \in RequestType
    BY <1>2, <1>3 DEF RequestType
  <1>5. /\ r.step = step /\ r.holder = old.holder /\ r.op = old.op /\ r.key = old.key
    BY <1>2, <1>3 DEF RequestType
  <1>6. request' = [request EXCEPT ![c] = r]
    BY <1>1, <1>2, <1>3 DEF Advance
  <1>7. CountOK(request[c]) => CountOK(r)
    BY <1>2, <1>5 DEF CountOK
  <1>8. RowOK(r)
    BY <1>2, <1>3
  <1>9. QED
    BY <1>2, <1>4, <1>5, <1>6, <1>7, <1>8, RequestMoves

-----------------------------------------------------------------------------
(* Steps that change their request only.                                   *)

\* A step that writes no table.
LEMMA RequestOnly ==
    ASSUME KInv, RequestFacts,
           UNCHANGED <<password, identity, passkey, ceremony, link, signin, reauth, cloneResponse,
                       lastWord, accepted>>
    PROVE  CredentialFacts
  BY KeptTables, FactsTogether

\* A request fails and is rolled back.
LEMMA AbandonFacts ==
    ASSUME KInv, NEW c \in Clients, Abandon(c)
    PROVE  CredentialFacts
  BY DoneMoves, RequestOnly DEF Abandon

\* A request to remove a method or to set a password begins.
LEMMA BeginMutationFacts ==
    ASSUME KInv, NEW c \in Clients, NEW op \in {"unlink", "deletePasskey", "setPassword"},
           NEW h \in Holders, NEW p \in Providers \cup {"password", Nothing}, NEW k \in Keys \cup {Nothing},
           op = "unlink" => p \in Providers \cup {"password"}, op = "deletePasskey" => k \in Keys,
           BeginMutation(c, op, h, p, k)
    PROVE  CredentialFacts
  <1>1. PICK r : r = [Idle EXCEPT !.op = op, !.step = "start", !.holder = h, !.provider = p, !.key = k]
    OBVIOUS
  <1>2. r \in RequestType
    BY ZenonT(90), <1>1, IdleRow DEF RequestType, Steps
  <1>3. r.op = op /\ r.step = "start" /\ r.holder = h /\ r.provider = p /\ r.key = k
    BY <1>1, IdleRow DEF RequestType
  <1>4. RowOK(r)
    BY <1>3 DEF RowOK
  <1>5. QED
    BY <1>1, <1>2, <1>3, <1>4, EnterMoves, RequestOnly DEF BeginMutation

\* It locks its user.
LEMMA LockForMutationFacts ==
    ASSUME KInv, NEW c \in Clients, LockForMutation(c)
    PROVE  CredentialFacts
  <1>1. PICK r \in RequestType : r = request[c]
    BY DEF KInv, Records
  <1>2. RowOK(r)
    BY <1>1 DEF KInv, RequestRows
  <1>3. RowOK([r EXCEPT !.step = "locked"])
    BY <1>1, <1>2 DEF RowOK, LockForMutation, RequestType
  <1>4. "locked" \in Steps
    BY DEF Steps
  <1>5. QED
    BY <1>1, <1>3, <1>4, AdvanceMoves, RequestOnly DEF LockForMutation, LockUserForUpdate

\* The count of the methods is read under the lock.
LEMMA CheckRemovalFacts ==
    ASSUME KInv, NEW c \in Clients, CheckRemoval(c)
    PROVE  CredentialFacts
  <1>1. PICK r \in RequestType : r = request[c]
    BY DEF KInv, Records
  <1>2. RowOK(r)
    BY <1>1 DEF KInv, RequestRows
  <1>3. RowOK([r EXCEPT !.step = "counted"])
    BY <1>1, <1>2 DEF RowOK, CheckRemoval, RequestType
  <1>4. "counted" \in Steps /\ r.step \notin Unlocked
    BY <1>1 DEF Steps, Unlocked, CheckRemoval
  <1>5. CountOK(r)
    <2>1. r.holder \in Holders
      BY <1>1, <1>2 DEF RowOK, CheckRemoval
    <2>2. CountAuthMethods(r.holder) > 1 => HasSeveral(r.holder)
      BY <2>1, CountOfMethods DEF KInv, Records
    <2>3. QED
      BY <1>1, <2>2 DEF CheckRemoval, MayUnlink, MayDeletePasskey, CountOK
  <1>6. QED
    BY <1>1, <1>3, <1>4, <1>5, AdvanceMoves, RequestOnly DEF CheckRemoval

\* A login reads a password whose hash is old.
LEMMA LoginWithPasswordFacts ==
    ASSUME KInv, NEW c \in Clients, NEW h \in Holders, LoginWithPassword(c, h)
    PROVE  CredentialFacts
  <1>1. PICK w \in PasswordType : w = password[h]
    BY DEF KInv, Records
  <1>2. PICK r : r = [Idle EXCEPT !.op = "login", !.step = "upgrade", !.holder = h, !.word = w]
    OBVIOUS
  <1>3. r \in RequestType
    BY <1>2, IdleRow DEF RequestType, Steps
  <1>4. r.op = "login" /\ r.step = "upgrade" /\ r.holder = h
    BY <1>2, IdleRow DEF RequestType
  <1>5. RowOK(r)
    BY <1>4 DEF RowOK
  <1>6. QED
    BY <1>1, <1>2, <1>3, <1>4, <1>5, EnterMoves, RequestOnly DEF LoginWithPassword

\* It reads the password again after the swap has failed.
LEMMA VerifyAgainFacts ==
    ASSUME KInv, NEW c \in Clients, VerifyAgain(c)
    PROVE  CredentialFacts
  <1>1. PICK old \in RequestType : old = request[c]
    BY DEF KInv, Records
  <1>2. RowOK(old) /\ old.op = "login" /\ old.step = "failed"
    BY <1>1 DEF KInv, RequestRows, VerifyAgain, At
  <1>3. old.holder \in Holders
    BY <1>2 DEF RowOK
  <1>4. PICK w \in PasswordType : w = password[old.holder]
    BY <1>3 DEF KInv, Records
  <1>5. PICK r : r = [old EXCEPT !.step = "upgrade", !.word = w, !.tries = 1]
    OBVIOUS
  <1>6. r \in RequestType
    <2>1. old \in RequestType /\ w \in PasswordType
      BY <1>1, <1>4
    <2>2. QED
      BY <1>5, <2>1 DEF RequestType, Steps
  <1>7. r.op = "login" /\ r.step = "upgrade" /\ r.holder = old.holder
    BY <1>1, <1>2, <1>5 DEF RequestType
  <1>8. RowOK(r)
    BY <1>3, <1>7 DEF RowOK
  <1>9. request' = [request EXCEPT ![c] = r] \/ Done(c)
    <2>1. request \in [Clients -> RequestType]
      BY DEF KInv, Records
    <2>2. QED
      BY <1>1, <1>4, <1>5, <2>1 DEF VerifyAgain
  <1>10. RequestFacts
    BY <1>6, <1>7, <1>8, <1>9, RequestMoves, DoneMoves DEF Unlocked
  <1>11. QED
    BY <1>10, RequestOnly DEF VerifyAgain

\* The row of a request that has read a pending link.
LEMMA ReadRow ==
    ASSUME KInv, NEW c \in Clients, NEW l \in Links, link[l].purpose # "none",
           NEW op \in {"link", "replace"}, NEW subject \in Subjects,
           Enter(c, [Idle EXCEPT !.op = op, !.step = "read", !.holder = link[l].holder, !.link = l,
                                 !.provider = link[l].provider, !.subject = subject])
    PROVE  RequestFacts
  <1>1. PICK row \in LinkType : row = link[l]
    BY DEF KInv, Records
  <1>2. row.holder \in Holders /\ row.provider \in Providers
    BY <1>1 DEF KInv, LinkRows, LinkOK
  <1>3. PICK h \in Holders, p \in Providers : h = row.holder /\ p = row.provider
    BY <1>2
  <1>4. PICK r : r = [Idle EXCEPT !.op = op, !.step = "read", !.holder = h, !.link = l,
                                  !.provider = p, !.subject = subject]
    OBVIOUS
  <1>5. r \in RequestType
    BY <1>4, IdleRow DEF RequestType, Steps
  <1>6. /\ r.op = op /\ r.step = "read" /\ r.holder = h /\ r.link = l
        /\ r.provider = p /\ r.subject = subject
    BY <1>4, IdleRow DEF RequestType
  <1>7. RowOK(r)
    BY <1>1, <1>3, <1>6 DEF RowOK
  <1>8. Enter(c, r)
    BY <1>1, <1>3, <1>4
  <1>9. QED
    BY <1>5, <1>6, <1>7, <1>8, EnterMoves

\* The three ways to read a pending link.
LEMMA ReadFacts ==
    ASSUME KInv, NEW c \in Clients, NEW l \in Links,
           \/ \E s \in Signins, x \in Subjects : ReadLink(c, l, s, x)
           \/ ReadRecoveryByPassword(c, l)
           \/ \E p \in Providers, x \in Subjects : ReadRecoveryByProof(c, l, p, x)
    PROVE  CredentialFacts
  <1>1. link[l].purpose = "recovery" => link[l].subject \in Subjects
    BY DEF KInv, LinkRows, LinkOK
  <1>2. CASE \E s \in Signins, x \in Subjects : ReadLink(c, l, s, x)
    <2>1. PICK s \in Signins, x \in Subjects : ReadLink(c, l, s, x)
      BY <1>2
    <2>2. link[l].purpose # "none"
      BY <2>1 DEF ReadLink
    <2>3. RequestFacts
      BY <2>1, <2>2, ReadRow DEF ReadLink
    <2>4. QED
      BY <2>1, <2>3, RequestOnly DEF ReadLink
  <1>3. CASE ReadRecoveryByPassword(c, l)
    <2>1. link[l].purpose # "none" /\ link[l].subject \in Subjects
      BY <1>1, <1>3 DEF ReadRecoveryByPassword
    <2>2. RequestFacts
      BY <1>3, <2>1, ReadRow DEF ReadRecoveryByPassword
    <2>3. QED
      BY <1>3, <2>2, RequestOnly DEF ReadRecoveryByPassword
  <1>4. CASE \E p \in Providers, x \in Subjects : ReadRecoveryByProof(c, l, p, x)
    <2>1. PICK p \in Providers, x \in Subjects : ReadRecoveryByProof(c, l, p, x)
      BY <1>4
    <2>2. link[l].purpose # "none" /\ link[l].subject \in Subjects
      BY <1>1, <2>1 DEF ReadRecoveryByProof
    <2>3. PICK op \in {"link", "replace"} : op = IF p = link[l].provider THEN "replace" ELSE "link"
      OBVIOUS
    <2>4. Enter(c, [Idle EXCEPT !.op = op, !.step = "read", !.holder = link[l].holder, !.link = l,
                                !.provider = link[l].provider, !.subject = link[l].subject])
      BY <2>1, <2>3 DEF ReadRecoveryByProof
    <2>5. RequestFacts
      BY <2>2, <2>4, ReadRow
    <2>6. QED
      BY <2>1, <2>5, RequestOnly DEF ReadRecoveryByProof
  <1>5. QED
    BY <1>2, <1>3, <1>4

\* A proof with the password or an identity.
LEMMA ProveIdentityFacts ==
    ASSUME KInv, NEW c \in Clients, NEW s \in Signins, ProveIdentity(c, s)
    PROVE  CredentialFacts
  <1>1. signin[s].holder \in Holders \cup {Nothing} /\ reauth[s].id \in 0 .. MaxReauth
    BY DEF KInv, Records, SigninType, ReauthType
  <1>2. PICK h \in Holders \cup {Nothing}, n \in 0 .. MaxReauth : h = signin[s].holder /\ n = reauth[s].id
    BY <1>1
  <1>3. PICK r : r = [Idle EXCEPT !.op = "reauth", !.step = "proved", !.holder = h, !.signin = s, !.reauth = n]
    OBVIOUS
  <1>4. r \in RequestType
    <2>1. PICK q : q = [Idle EXCEPT !.op = "reauth", !.step = "proved"]
      OBVIOUS
    <2>2. q \in RequestType
      BY <2>1, IdleRow DEF RequestType, Steps
    <2>3. r = [q EXCEPT !.holder = h, !.signin = s, !.reauth = n]
      BY <1>3, <2>1
    <2>4. QED
      BY <2>2, <2>3 DEF RequestType
  <1>5. r.op = "reauth" /\ r.step = "proved" /\ r.signin = s
    BY <1>3, IdleRow DEF RequestType
  <1>6. RowOK(r)
    BY <1>5 DEF RowOK
  <1>7. Enter(c, r)
    BY <1>2, <1>3 DEF ProveIdentity
  <1>8. QED
    BY <1>4, <1>5, <1>6, <1>7, EnterMoves, RequestOnly DEF ProveIdentity

\* A login finds the passkey of the assertion.
LEMMA FindPasskeyFacts ==
    ASSUME KInv, NEW c \in Clients, NEW x \in Ceremonies, NEW k \in Keys, NEW n \in 0 .. MaxCount,
           FindPasskey(c, x, k, n)
    PROVE  CredentialFacts
  <1>1. passkey[k] \in PasskeyType /\ passkey[k].owner \in Holders
    BY DEF KInv, Records, PasskeyType, FindPasskey
  <1>2. PICK h \in Holders, q \in PasskeyType : h = passkey[k].owner /\ q = passkey[k]
    BY <1>1
  <1>3. PICK r : r = [Idle EXCEPT !.op = "passkey", !.step = "found", !.ceremony = x, !.key = k,
                                  !.holder = h, !.count = n, !.seen = q]
    OBVIOUS
  <1>4. r \in RequestType
    <2>1. PICK p : p = [Idle EXCEPT !.op = "passkey", !.step = "found"]
      OBVIOUS
    <2>2. p \in RequestType
      BY <2>1, IdleRow DEF RequestType, Steps
    <2>3. PICK v : v = [p EXCEPT !.ceremony = x, !.key = k, !.holder = h]
      OBVIOUS
    <2>4. v \in RequestType
      BY <2>2, <2>3 DEF RequestType
    <2>5. r = [v EXCEPT !.count = n, !.seen = q]
      BY <1>3, <2>1, <2>3
    <2>6. QED
      BY <2>4, <2>5 DEF RequestType
  <1>5. r.op = "passkey" /\ r.step = "found" /\ r.ceremony = x /\ r.key = k /\ r.holder = h
    BY <1>3, IdleRow DEF RequestType
  <1>6. RowOK(r)
    BY <1>5 DEF RowOK
  <1>7. Enter(c, r)
    BY <1>2, <1>3 DEF FindPasskey
  <1>8. QED
    BY <1>4, <1>5, <1>6, <1>7, EnterMoves, RequestOnly DEF FindPasskey

\* So does a proof with a passkey of the user.
LEMMA FindOwnPasskeyFacts ==
    ASSUME KInv, NEW c \in Clients, NEW x \in Ceremonies, NEW s \in Signins, NEW k \in Keys,
           NEW n \in 0 .. MaxCount, FindOwnPasskey(c, x, s, k, n)
    PROVE  CredentialFacts
  <1>1. /\ passkey[k] \in PasskeyType /\ reauth[s].id \in 0 .. MaxReauth
        /\ signin[s].holder \in Holders
    BY DEF KInv, Records, SigninKeys, ReauthType, FindOwnPasskey
  <1>2. PICK h \in Holders, q \in PasskeyType, i \in 0 .. MaxReauth :
            h = signin[s].holder /\ q = passkey[k] /\ i = reauth[s].id
    BY <1>1
  <1>3. PICK r : r = [Idle EXCEPT !.op = "reauth", !.step = "found", !.ceremony = x, !.key = k, !.signin = s,
                                  !.holder = h, !.count = n, !.seen = q, !.reauth = i]
    OBVIOUS
  <1>4. r \in RequestType
    BY ZenonT(90), <1>3, IdleRow DEF RequestType, Steps
  <1>5. /\ r.op = "reauth" /\ r.step = "found" /\ r.ceremony = x /\ r.key = k /\ r.holder = h
        /\ r.signin = s
    BY <1>3, IdleRow DEF RequestType
  <1>6. RowOK(r)
    BY <1>5 DEF RowOK
  <1>7. Enter(c, r)
    BY <1>2, <1>3 DEF FindOwnPasskey
  <1>8. QED
    BY <1>4, <1>5, <1>6, <1>7, EnterMoves, RequestOnly DEF FindOwnPasskey

\* The passkey's user is locked.
LEMMA LockPasskeyHolderFacts ==
    ASSUME KInv, NEW c \in Clients, LockPasskeyHolder(c)
    PROVE  CredentialFacts
  <1>1. PICK r \in RequestType : r = request[c]
    BY DEF KInv, Records
  <1>2. RowOK(r)
    BY <1>1 DEF KInv, RequestRows
  <1>3. RowOK([r EXCEPT !.step = "locked"])
    BY <1>1, <1>2 DEF RowOK, LockPasskeyHolder, RequestType
  <1>4. "locked" \in Steps
    BY DEF Steps
  <1>5. QED
    BY <1>1, <1>3, <1>4, AdvanceMoves, RequestOnly DEF LockPasskeyHolder

-----------------------------------------------------------------------------
(* Passwords and identities.                                               *)

\* A method is added, or none is touched.
LEMMA NoLoss ==
    ASSUME KInv,
           \A kind \in Kinds : \A x : \A h \in Holders : Method(h, kind, x) => Method(h, kind, x)',
           UNCHANGED passkey
    PROVE  LossFacts
  BY DEF LossFacts, LossStep, MethodsStay, HasMethod

\* A new password has a number that no password had before.
LEMMA SetPasswordFacts ==
    ASSUME KInv, NEW c \in Clients, AddPassword(c) \/ UpdatePasswordHash(c)
    PROVE  CredentialFacts
  <1>1. PICK h \in Holders : h = request[c].holder
    BY DEF KInv, RequestRows, RowOK, AddPassword, UpdatePasswordHash, At
  <1>2. PICK n : n = lastWord + 1
    OBVIOUS
  <1>3. n \in 0 .. MaxWord /\ n > lastWord /\ n > 0 /\ lastWord' = n
    BY <1>2, CredentialsAssumption DEF KInv, Records, AddPassword, UpdatePasswordHash
  <1>4. password' = [password EXCEPT ![h] = [word |-> n, old |-> FALSE]]
    BY <1>1, <1>2 DEF AddPassword, UpdatePasswordHash
  <1>5. password \in [Holders -> PasswordType]
    BY DEF KInv, Records
  <1>6. /\ password' \in [Holders -> PasswordType] /\ password'[h].word = n
        /\ \A g \in Holders \ {h} : password'[g] = password[g]
    BY <1>3, <1>4, <1>5 DEF PasswordType
  <1>7. PasswordFacts
    BY <1>3, <1>6 DEF PasswordFacts, PasswordStep
  <1>8. UNCHANGED <<identity, passkey, ceremony, link, signin, reauth, cloneResponse, accepted>> /\ Done(c)
    BY DEF AddPassword, UpdatePasswordHash
  <1>9. LossFacts
    <2>1. \A kind \in Kinds : \A x : \A g \in Holders : Method(g, kind, x) => Method(g, kind, x)'
      BY <1>3, <1>6, <1>8 DEF Method
    <2>2. QED
      BY <2>1, <1>8, NoLoss
  <1>10. PlainFacts
    BY <1>3, <1>8 DEF PlainFacts, KInv, Records
  <1>11. QED
    BY <1>7, <1>8, <1>9, <1>10, KeptTables, DoneMoves, FactsTogether

\* The upgrade of a hash writes only over the password that was verified.
LEMMA UpgradePasswordHashFacts ==
    ASSUME KInv, NEW c \in Clients, UpgradePasswordHash(c)
    PROVE  CredentialFacts
  <1>1. PICK r \in RequestType : r = request[c]
    BY DEF KInv, Records
  <1>2. RowOK(r) /\ r.op = "login" /\ r.step = "upgrade"
    BY <1>1 DEF KInv, RequestRows, UpgradePasswordHash, At
  <1>3. PICK h \in Holders : h = r.holder
    BY <1>2 DEF RowOK
  <1>4. password \in [Holders -> PasswordType]
    BY DEF KInv, Records
  <1>5. UNCHANGED <<identity, passkey, ceremony, link, signin, reauth, cloneResponse, lastWord, accepted>>
    BY DEF UpgradePasswordHash
  <1>6. CASE CompareAndSwapPasswordHash(h, r.word)
    <2>1. PICK w \in PasswordType : w = password[h]
      BY <1>4
    <2>2. password' = [password EXCEPT ![h] = [word |-> w.word, old |-> FALSE]] /\ Done(c)
      BY <1>1, <1>3, <1>6, <2>1 DEF UpgradePasswordHash, CompareAndSwapPasswordHash
    <2>3. /\ password' \in [Holders -> PasswordType] /\ password'[h].word = password[h].word
          /\ \A g \in Holders \ {h} : password'[g] = password[g]
      BY <1>4, <2>1, <2>2 DEF PasswordType
    <2>4. \A kind \in Kinds : \A x : \A g \in Holders : Method(g, kind, x) => Method(g, kind, x)'
      BY <1>5, <2>3 DEF Method
    <2>5. PasswordFacts /\ LossFacts
      BY <1>5, <2>3, <2>4, NoLoss DEF PasswordFacts, PasswordStep
    <2>6. QED
      BY <1>5, <2>2, <2>5, KeptTables, DoneMoves, FactsTogether
  <1>7. CASE ~CompareAndSwapPasswordHash(h, r.word)
    <2>1. Advance(c, "failed") /\ UNCHANGED password
      BY <1>1, <1>3, <1>7 DEF UpgradePasswordHash
    <2>2. RowOK([r EXCEPT !.step = "failed"])
      BY <1>1, <1>2 DEF RowOK, RequestType
    <2>3. RequestFacts
      BY <1>1, <2>1, <2>2, AdvanceMoves DEF Steps, Unlocked
    <2>4. QED
      BY <1>5, <2>1, <2>3, RequestOnly
  <1>8. QED
    BY <1>6, <1>7

\* A user who had several methods keeps one of them.
LEMMA OneIsLeft ==
    ASSUME NEW h \in Holders, HasSeveral(h), NEW kind0, NEW x0,
           \A kind \in Kinds : \A x :
                Method(h, kind, x) => Method(h, kind, x)' \/ (kind = kind0 /\ x = x0)
    PROVE  HasMethod(h)'
  BY DEF HasSeveral, HasMethod

\* A method that is unlinked leaves another one, since two were counted under the lock.
LEMMA UnlinkAuthProviderFacts ==
    ASSUME KInv, NEW c \in Clients, UnlinkAuthProvider(c)
    PROVE  CredentialFacts
  <1>1. PICK r \in RequestType : r = request[c]
    BY DEF KInv, Records
  <1>2. RowOK(r) /\ r.op = "unlink" /\ r.step = "counted"
    BY <1>1 DEF KInv, RequestRows, UnlinkAuthProvider, At
  <1>3. r.holder \in Holders /\ r.provider \in Providers \cup {"password"}
    BY <1>2 DEF RowOK
  <1>4. PICK h \in Holders, p \in Providers \cup {"password"} : h = r.holder /\ p = r.provider
    BY <1>3
  <1>5. HasSeveral(h)
    BY <1>1, <1>2, <1>4 DEF KInv, CountsHold, CountOK
  <1>6. /\ password \in [Holders -> PasswordType]
        /\ identity \in [Holders -> [Providers -> Subjects \cup {Nothing}]]
    BY DEF KInv, Records
  <1>7. /\ UNCHANGED <<passkey, ceremony, link, signin, reauth, cloneResponse, lastWord, accepted>>
        /\ Done(c)
    BY DEF UnlinkAuthProvider
  <1>8. /\ request[c].holder = h /\ request[c].step \notin Unlocked /\ request'[c].step \in Unlocked
    BY <1>1, <1>2, <1>4, <1>7, IdleRow DEF Done, KInv, Records, Unlocked
  <1>9. PICK kind0, x0 : IF p = "password" THEN kind0 = "password" /\ x0 = Nothing
                                           ELSE kind0 = "provider" /\ x0 = p
    OBVIOUS
  <1>10. /\ PasswordFacts /\ IdentityFacts
         /\ \A g \in Holders : \A kind \in Kinds : \A x :
                Method(g, kind, x) => Method(g, kind, x)' \/ (g = h /\ kind = kind0 /\ x = x0)
    <2>1. CASE p = "password"
      <3>1. password' = [password EXCEPT ![h] = NoPassword] /\ UNCHANGED identity
        BY <1>1, <1>4, <2>1 DEF UnlinkAuthProvider
      <3>2. /\ password' \in [Holders -> PasswordType] /\ password'[h].word = 0
            /\ \A g \in Holders \ {h} : password'[g] = password[g]
        BY <1>6, <3>1, UnusedRows DEF NoPassword
      <3>3. PasswordFacts
        BY <3>2 DEF PasswordFacts, PasswordStep
      <3>4. \A g \in Holders : \A kind \in Kinds : \A x :
                Method(g, kind, x) => Method(g, kind, x)' \/ (g = h /\ kind = kind0 /\ x = x0)
        BY <1>7, <1>9, <2>1, <3>1, <3>2 DEF Method
      <3>5. QED
        BY <3>1, <3>3, <3>4, KeptTables
    <2>2. CASE p # "password"
      <3>1. p \in Providers
        BY <2>2
      <3>2. identity' = [identity EXCEPT ![h][p] = Nothing] /\ UNCHANGED password
        BY <1>1, <1>4, <2>2 DEF UnlinkAuthProvider
      <3>3. /\ identity' \in [Holders -> [Providers -> Subjects \cup {Nothing}]]
            /\ identity'[h][p] = Nothing
            /\ \A g \in Holders, q \in Providers : g # h \/ q # p => identity'[g][q] = identity[g][q]
        BY <1>6, <3>1, <3>2
      <3>4. IdentityFacts
        BY <3>1, <3>3 DEF IdentityFacts, IdentityStep
      <3>5. \A g \in Holders : \A kind \in Kinds : \A x :
                Method(g, kind, x) => Method(g, kind, x)' \/ (g = h /\ kind = kind0 /\ x = x0)
        BY <1>7, <1>9, <2>2, <3>2, <3>3 DEF Method
      <3>6. QED
        BY <3>2, <3>4, <3>5, KeptTables
    <2>3. QED
      BY <2>1, <2>2
  <1>11. LossFacts
    <2>1. HasMethod(h)'
      BY <1>5, <1>10, OneIsLeft
    <2>2. LossStep(h)
      BY <1>8, <2>1 DEF LossStep
    <2>3. ASSUME NEW g \in Holders \ {h} PROVE LossStep(g)
      BY <1>7, <1>10 DEF LossStep, MethodsStay, HasMethod
    <2>4. QED
      BY <2>2, <2>3 DEF LossFacts
  <1>12. QED
    BY <1>7, <1>10, <1>11, KeptTables, DoneMoves, FactsTogether

\* So does a passkey that is deleted, unless it was restricted before.
LEMMA DeletePasskeyFacts ==
    ASSUME KInv, NEW c \in Clients, DeletePasskey(c)
    PROVE  CredentialFacts
  <1>1. PICK r \in RequestType : r = request[c]
    BY DEF KInv, Records
  <1>2. RowOK(r) /\ r.op = "deletePasskey" /\ r.step = "counted"
    BY <1>1 DEF KInv, RequestRows, DeletePasskey, At
  <1>3. r.holder \in Holders /\ r.key \in Keys
    BY <1>2 DEF RowOK
  <1>4. PICK h \in Holders, k \in Keys : h = r.holder /\ k = r.key
    BY <1>3
  <1>5. passkey[k].owner = h /\ (passkey[k].restricted = "no" => HasSeveral(h))
    BY <1>1, <1>2, <1>4 DEF KInv, CountsHold, CountOK
  <1>6. passkey \in [Keys -> PasskeyType]
    BY DEF KInv, Records
  <1>7. /\ UNCHANGED <<password, identity, ceremony, link, signin, reauth, cloneResponse, lastWord, accepted>>
        /\ Done(c)
    BY DEF DeletePasskey
  <1>8. request[c].holder = h /\ request[c].step \notin Unlocked /\ request'[c].step \in Unlocked
    BY <1>1, <1>2, <1>4, <1>7, IdleRow DEF Done, KInv, Records, Unlocked
  <1>9. PICK row : row = [NoPasskey EXCEPT !.restricted = "deleted"]
    OBVIOUS
  <1>10. row \in PasskeyType /\ row.restricted = "deleted" /\ row.owner = Nothing
    BY <1>9, UnusedRows, CredentialsAssumption DEF NoPasskey, PasskeyType
  <1>11. passkey' = [passkey EXCEPT ![k] = row]
    BY <1>1, <1>4, <1>9 DEF DeletePasskey
  <1>12. /\ passkey' \in [Keys -> PasskeyType] /\ passkey'[k] = row
         /\ \A j \in Keys \ {k} : passkey'[j] = passkey[j]
    BY <1>6, <1>10, <1>11
  <1>13. KeyFacts
    BY <1>7, <1>10, <1>12 DEF KeyFacts, KeyStep, KInv, Records
  <1>14. \A g \in Holders : \A kind \in Kinds : \A x :
            Method(g, kind, x) => Method(g, kind, x)' \/ (g = h /\ kind = "passkey" /\ x = k)
    BY <1>5, <1>7, <1>12 DEF Method
  <1>15. LossFacts
    <2>1. HasMethod(h) => HasMethod(h)'
      <3>1. CASE HasSeveral(h)
        BY <1>14, <3>1, OneIsLeft
      <3>2. CASE passkey[k].restricted # "no"
        BY <1>14, <3>2 DEF HasMethod, Method
      <3>3. QED
        BY <1>5, <3>1, <3>2
    <2>2. LossStep(h)
      BY <1>8, <2>1 DEF LossStep
    <2>3. ASSUME NEW g \in Holders \ {h} PROVE LossStep(g)
      <3>1. \A kind \in Kinds : \A x : Method(g, kind, x) => Method(g, kind, x)'
        BY <1>14
      <3>2. \A j \in Keys : passkey[j].owner = g => passkey'[j] = passkey[j]
        BY <1>5, <1>12
      <3>3. QED
        BY <3>1, <3>2 DEF LossStep, MethodsStay, HasMethod
    <2>4. QED
      BY <2>2, <2>3 DEF LossFacts
  <1>16. QED
    BY <1>7, <1>13, <1>15, KeptTables, DoneMoves, FactsTogether

-----------------------------------------------------------------------------
(* Pending links.                                                          *)

\* A pending link is created in an unused row.
LEMMA CreateLinkFacts ==
    ASSUME KInv, NEW l \in Links, NEW row \in LinkType, LinkOK(row), CreateLink(l, row)
    PROVE  CredentialFacts
  <1>1. link \in [Links -> LinkType]
    BY DEF KInv, Records
  <1>2. link' \in [Links -> LinkType] /\ link'[l] = row /\ \A m \in Links \ {l} : link'[m] = link[m]
    BY <1>1 DEF CreateLink
  <1>3. link[l].purpose = "none"
    BY DEF CreateLink, NoLink
  <1>4. LinkFacts
    BY <1>2, <1>3 DEF LinkFacts, LinkStep, KInv, LinkRows
  <1>5. QED
    BY <1>4, KeptTables, FactsTogether DEF CreateLink

\* By a session, or after a login with an unknown identity.
LEMMA StartLinkFacts ==
    ASSUME KInv, NEW l \in Links,
           \/ \E s \in Signins, p \in Providers : StartProviderLink(l, s, p)
           \/ \E h \in Holders, p \in Providers, x \in Subjects : StartAccountRecoveryProviderLink(l, h, p, x)
    PROVE  CredentialFacts
  <1>1. CASE \E s \in Signins, p \in Providers : StartProviderLink(l, s, p)
    <2>1. PICK s \in Signins, p \in Providers : StartProviderLink(l, s, p)
      BY <1>1
    <2>2. PICK h \in Holders : h = signin[s].holder
      BY <2>1 DEF StartProviderLink, KInv, SigninKeys
    <2>3. PICK row : row = [NoLink EXCEPT !.purpose = "link", !.holder = h, !.signin = s, !.provider = p]
      OBVIOUS
    <2>4. row \in LinkType
      BY <2>3, UnusedRows DEF LinkType
    <2>5. row.purpose = "link" /\ row.holder = h /\ row.provider = p
      BY <2>3, UnusedRows DEF LinkType
    <2>6. LinkOK(row)
      BY <2>5 DEF LinkOK
    <2>7. CreateLink(l, row)
      BY <2>1, <2>2, <2>3 DEF StartProviderLink
    <2>8. QED
      BY <2>4, <2>6, <2>7, CreateLinkFacts
  <1>2. CASE \E h \in Holders, p \in Providers, x \in Subjects : StartAccountRecoveryProviderLink(l, h, p, x)
    <2>1. PICK h \in Holders, p \in Providers, x \in Subjects : StartAccountRecoveryProviderLink(l, h, p, x)
      BY <1>2
    <2>2. PICK row : row = [NoLink EXCEPT !.purpose = "recovery", !.holder = h, !.provider = p, !.subject = x]
      OBVIOUS
    <2>3. row \in LinkType
      BY <2>2, UnusedRows DEF LinkType
    <2>4. row.purpose = "recovery" /\ row.holder = h /\ row.provider = p /\ row.subject = x
      BY <2>2, UnusedRows DEF LinkType
    <2>5. LinkOK(row)
      BY <2>4 DEF LinkOK
    <2>6. CreateLink(l, row)
      BY <2>1, <2>2 DEF StartAccountRecoveryProviderLink
    <2>7. QED
      BY <2>3, <2>5, <2>6, CreateLinkFacts
  <1>3. QED
    BY <1>1, <1>2

\* A flag of a row that exists is set.
LEMMA LinkFlags ==
    ASSUME KInv, NEW l \in Links
    PROVE  LET moved == [link[l] EXCEPT !.moved = TRUE]
               expired == [link[l] EXCEPT !.expired = TRUE]
               used == [link[l] EXCEPT !.used = TRUE]
           IN  \A row \in {link[l], moved, expired, used} :
                  /\ row \in LinkType /\ row.purpose = link[l].purpose /\ row.holder = link[l].holder
                  /\ row.provider = link[l].provider /\ row.subject = link[l].subject
  <1>1. PICK old \in LinkType : old = link[l]
    BY DEF KInv, Records
  <1>2. \A row \in {old, [old EXCEPT !.moved = TRUE], [old EXCEPT !.expired = TRUE], [old EXCEPT !.used = TRUE]} :
            /\ row \in LinkType /\ row.purpose = old.purpose /\ row.holder = old.holder
            /\ row.provider = old.provider /\ row.subject = old.subject
    BY DEF LinkType
  <1>3. QED
    BY <1>1, <1>2

\* Only flags of the pending links are set.
LEMMA FlaggedLinks ==
    ASSUME KInv, DOMAIN link' = Links, link' = [l \in Links |-> link'[l]],
           \A l \in Links : link'[l] \in {link[l], [link[l] EXCEPT !.moved = TRUE],
                                          [link[l] EXCEPT !.expired = TRUE], [link[l] EXCEPT !.used = TRUE]}
    PROVE  LinkFacts
  <1>1. ASSUME NEW l \in Links
        PROVE  /\ link'[l] \in LinkType /\ link'[l].purpose = link[l].purpose /\ link'[l].holder = link[l].holder
               /\ link'[l].provider = link[l].provider /\ link'[l].subject = link[l].subject
    BY ZenonT(90), LinkFlags
  <1>2. link' \in [Links -> LinkType]
    BY <1>1
  <1>3. \A l \in Links : LinkStep(l)
    BY <1>1 DEF LinkStep, LinkOK
  <1>4. QED
    BY <1>2, <1>3 DEF LinkFacts

\* A link expires, or its address is no longer that of the user.
LEMMA LinkFlagFacts ==
    ASSUME KInv, (\E l \in Links : ExpireLink(l)) \/ (\E h \in Holders : ChangeAddress(h))
    PROVE  CredentialFacts
  <1>1. link \in [Links -> LinkType]
    BY DEF KInv, Records
  <1>2. CASE \E l \in Links : ExpireLink(l)
    <2>1. PICK l \in Links : ExpireLink(l)
      BY <1>2
    <2>2. LinkFacts
      BY <1>1, <2>1, FlaggedLinks DEF ExpireLink
    <2>3. QED
      BY <2>1, <2>2, KeptTables, FactsTogether DEF ExpireLink
  <1>3. CASE \E h \in Holders : ChangeAddress(h)
    <2>1. PICK h \in Holders : ChangeAddress(h)
      BY <1>3
    <2>2. LinkFacts
      BY <1>1, <2>1, FlaggedLinks DEF ChangeAddress
    <2>3. QED
      BY <2>1, <2>2, KeptTables, FactsTogether DEF ChangeAddress
  <1>4. QED
    BY <1>2, <1>3

\* The identity that a pending link gives, and the link it uses up.
LEMMA CompleteLinkFacts ==
    ASSUME KInv, NEW c \in Clients, CompleteLink(c)
    PROVE  CredentialFacts
  <1>1. PICK r \in RequestType : r = request[c]
    BY DEF KInv, Records
  <1>2. RowOK(r) /\ r.step = "read"
    BY <1>1 DEF KInv, RequestRows, CompleteLink
  <1>3. /\ r.holder \in Holders /\ r.subject \in Subjects /\ r.link \in Links
        /\ link[r.link].purpose # "none" /\ link[r.link].holder = r.holder
        /\ link[r.link].provider = r.provider
    BY <1>2 DEF RowOK
  <1>4. PICK h \in Holders, l \in Links, x \in Subjects : h = r.holder /\ l = r.link /\ x = r.subject
    BY <1>3
  <1>5. PICK p \in Providers : p = r.provider
    BY <1>3 DEF KInv, LinkRows, LinkOK
  <1>6. link[l].holder = h /\ link[l].provider = p
    BY <1>3, <1>4, <1>5
  <1>7. /\ ~link[l].used /\ link' = [link EXCEPT ![l].used = TRUE]
        /\ Done(c) /\ UNCHANGED <<password, passkey, ceremony, signin, reauth, cloneResponse, lastWord, accepted>>
    BY <1>1, <1>4 DEF CompleteLink, ConsumePendingProviderLink, Usable
  <1>8. /\ link \in [Links -> LinkType] /\ identity \in [Holders -> [Providers -> Subjects \cup {Nothing}]]
    BY DEF KInv, Records
  <1>9. LinkFacts /\ link'[l].used
    <2>1. LinkFacts
      BY <1>7, <1>8, FlaggedLinks
    <2>2. PICK row \in LinkType : row = link[l]
      BY <1>8
    <2>3. link'[l] = [row EXCEPT !.used = TRUE]
      BY <1>7, <1>8, <2>2
    <2>4. link'[l].used
      BY <2>3 DEF LinkType
    <2>5. QED
      BY <2>1, <2>4
  <1>10. UNCHANGED identity \/ (IdentityFree(p, x) /\ identity' = [identity EXCEPT ![h][p] = x])
    BY <1>1, <1>4, <1>5 DEF CompleteLink, LinkExternalIdentity
  <1>11. IdentityFacts /\ LossFacts
    <2>1. CASE UNCHANGED identity
      BY <1>7, <2>1, KeptTables
    <2>2. CASE IdentityFree(p, x) /\ identity' = [identity EXCEPT ![h][p] = x]
      <3>1. /\ identity' \in [Holders -> [Providers -> Subjects \cup {Nothing}]]
            /\ identity'[h][p] = x
            /\ \A g \in Holders, q \in Providers : g # h \/ q # p => identity'[g][q] = identity[g][q]
        BY <1>8, <2>2
      <3>2. IdentityStep(h, p)
        BY <1>6, <1>7, <1>9, <2>2, <3>1 DEF IdentityStep
      <3>3. \A g \in Holders, q \in Providers : g # h \/ q # p => IdentityStep(g, q)
        BY <3>1 DEF IdentityStep
      <3>4. IdentityFacts
        BY <3>1, <3>2, <3>3 DEF IdentityFacts
      <3>5. x # Nothing
        BY CredentialsAssumption
      <3>6. \A kind \in Kinds : \A y : \A g \in Holders : Method(g, kind, y) => Method(g, kind, y)'
        BY <1>7, <3>1, <3>5 DEF Method
      <3>7. QED
        BY <1>7, <3>4, <3>6, NoLoss
    <2>3. QED
      BY <1>10, <2>1, <2>2
  <1>12. QED
    BY <1>7, <1>9, <1>11, KeptTables, DoneMoves, FactsTogether

-----------------------------------------------------------------------------
(* Sessions and recent authentication.                                     *)

\* The challenge of a session takes another state, or is replaced by a new one.
LEMMA ReauthChange ==
    ASSUME KInv, NEW s \in Signins
    PROVE  /\ \A state \in {"expired", "used"} : [reauth EXCEPT ![s].state = state] \in [Signins -> ReauthType]
           /\ reauth[s].id < MaxReauth =>
                 [reauth EXCEPT ![s] = [id |-> @.id + 1, state |-> "open"]] \in [Signins -> ReauthType]
  <1>1. reauth \in [Signins -> ReauthType]
    BY DEF KInv, Records
  <1>2. PICK row \in ReauthType : row = reauth[s]
    BY <1>1
  <1>3. ASSUME NEW state \in {"expired", "used"}
        PROVE  [reauth EXCEPT ![s].state = state] \in [Signins -> ReauthType]
    BY <1>1 DEF ReauthType
  <1>4. ASSUME row.id < MaxReauth
        PROVE  [reauth EXCEPT ![s] = [id |-> @.id + 1, state |-> "open"]] \in [Signins -> ReauthType]
    <2>1. PICK n : n = row.id + 1
      OBVIOUS
    <2>2. n \in 0 .. MaxReauth
      BY <1>2, <1>4, <2>1, CredentialsAssumption DEF ReauthType
    <2>3. [id |-> n, state |-> "open"] \in ReauthType
      BY <2>2 DEF ReauthType
    <2>4. [reauth EXCEPT ![s] = [id |-> n, state |-> "open"]] \in [Signins -> ReauthType]
      BY <1>1, <2>3
    <2>5. [reauth EXCEPT ![s] = [id |-> @.id + 1, state |-> "open"]] = [reauth EXCEPT ![s] = [id |-> n, state |-> "open"]]
      BY <1>1, <1>2, <2>1
    <2>6. QED
      BY <2>4, <2>5
  <1>5. QED
    BY <1>2, <1>3, <1>4

\* A session becomes recent, or no longer is.
LEMMA RecentFacts ==
    ASSUME KInv, NEW s \in Signins, NEW b \in BOOLEAN, signin' = [signin EXCEPT ![s].recent = b]
    PROVE  SigninFacts
  <1>1. signin \in [Signins -> SigninType]
    BY DEF KInv, Records
  <1>2. PICK old \in SigninType : old = signin[s]
    BY <1>1
  <1>3. PICK row : row = [old EXCEPT !.recent = b]
    OBVIOUS
  <1>4. row \in SigninType /\ row.holder = old.holder /\ row.key = old.key /\ row.live = old.live
    BY <1>3 DEF SigninType
  <1>5. signin' \in [Signins -> SigninType] /\ signin'[s] = row /\ \A t \in Signins \ {s} : signin'[t] = signin[t]
    BY <1>1, <1>2, <1>3, <1>4
  <1>6. QED
    BY <1>2, <1>4, <1>5 DEF SigninFacts, SigninStep

\* A session asks for recent authentication, the challenge expires, or the proof grows old.
LEMMA AuthenticationChallengeFacts ==
    ASSUME KInv, NEW s \in Signins,
           StartAuthenticationChallenge(s) \/ ExpireReauth(s) \/ AgeAuthentication(s)
    PROVE  CredentialFacts
  <1>1. CASE StartAuthenticationChallenge(s) \/ ExpireReauth(s)
    <2>1. reauth' \in [Signins -> ReauthType]
      BY <1>1, ReauthChange DEF StartAuthenticationChallenge, ExpireReauth
    <2>2. PlainFacts
      BY <1>1, <2>1 DEF PlainFacts, KInv, Records, StartAuthenticationChallenge, ExpireReauth
    <2>3. QED
      BY <1>1, <2>2, KeptTables, FactsTogether DEF StartAuthenticationChallenge, ExpireReauth
  <1>2. CASE AgeAuthentication(s)
    <2>1. SigninFacts
      BY <1>2, RecentFacts DEF AgeAuthentication
    <2>2. QED
      BY <1>2, <2>1, KeptTables, FactsTogether DEF AgeAuthentication
  <1>3. QED
    BY <1>1, <1>2

\* Recent authentication completes.
LEMMA CompleteAuthenticationFacts ==
    ASSUME KInv, NEW c \in Clients, CompleteAuthenticationChallenge(c)
    PROVE  CredentialFacts
  <1>1. PICK s \in Signins : s = request[c].signin
    BY DEF KInv, RequestRows, RowOK, CompleteAuthenticationChallenge, At
  <1>2. signin' = [signin EXCEPT ![s].recent = TRUE] /\ reauth' = [reauth EXCEPT ![s].state = "used"]
    BY <1>1 DEF CompleteAuthenticationChallenge
  <1>3. SigninFacts
    BY <1>2, RecentFacts
  <1>4. reauth' \in [Signins -> ReauthType]
    BY <1>2, ReauthChange
  <1>5. /\ UNCHANGED <<password, identity, passkey, ceremony, link, cloneResponse, lastWord, accepted>>
        /\ Done(c)
    BY DEF CompleteAuthenticationChallenge
  <1>6. PlainFacts
    BY <1>4, <1>5 DEF PlainFacts, KInv, Records
  <1>7. QED
    BY <1>3, <1>5, <1>6, KeptTables, DoneMoves, FactsTogether

\* A session is opened for a user, by a passkey of that user or by none.
LEMMA OpenedSession ==
    ASSUME KInv, NEW s \in Signins, NEW h \in Holders, NEW k \in Keys \cup {Nothing},
           signin' = [signin EXCEPT ![s] = [holder |-> h, key |-> k, live |-> TRUE, recent |-> TRUE]],
           \/ k = Nothing
           \/ k \in Keys /\ UNCHANGED passkey /\ passkey[k].owner = h /\ passkey[k].restricted = "no"
    PROVE  SigninFacts
  <1>1. signin \in [Signins -> SigninType]
    BY DEF KInv, Records
  <1>2. PICK row : row = [holder |-> h, key |-> k, live |-> TRUE, recent |-> TRUE]
    OBVIOUS
  <1>3. row \in SigninType /\ row.holder = h /\ row.key = k
    BY <1>2 DEF SigninType
  <1>4. signin' \in [Signins -> SigninType] /\ signin'[s] = row /\ \A t \in Signins \ {s} : signin'[t] = signin[t]
    BY <1>1, <1>2, <1>3
  <1>5. QED
    BY <1>3, <1>4 DEF SigninFacts, SigninStep

\* A session of another kind of login.
LEMMA OtherSigninFacts ==
    ASSUME KInv, NEW s \in Signins, NEW h \in Holders, OtherSignin(s, h)
    PROVE  CredentialFacts
  <1>1. SigninFacts
    BY OpenedSession DEF OtherSignin
  <1>2. QED
    BY <1>1, KeptTables, FactsTogether DEF OtherSignin

\* A session of a passkey that is still there and not restricted.
LEMMA CreatePasskeySessionFacts ==
    ASSUME KInv, NEW c \in Clients, NEW s \in Signins, CreatePasskeySession(c, s)
    PROVE  CredentialFacts
  <1>1. PICK h \in Holders, k \in Keys : h = request[c].holder /\ k = request[c].key
    BY DEF KInv, RequestRows, RowOK, CreatePasskeySession, At
  <1>2. SigninFacts
    BY <1>1, OpenedSession DEF CreatePasskeySession, PasskeyAvailable
  <1>3. QED
    BY <1>2, KeptTables, DoneMoves, FactsTogether DEF CreatePasskeySession

\* The setting changes.
LEMMA SetCloneResponseFacts ==
    ASSUME KInv, NEW r \in Responses, SetCloneResponse(r)
    PROVE  CredentialFacts
  <1>1. PlainFacts
    BY DEF PlainFacts, KInv, Records, SetCloneResponse
  <1>2. QED
    BY <1>1, KeptTables, FactsTogether DEF SetCloneResponse

-----------------------------------------------------------------------------
(* Ceremonies.                                                             *)

\* A ceremony is created in an unused row.
LEMMA CreateCeremonyFacts ==
    ASSUME KInv, NEW x \in Ceremonies, NEW row \in CeremonyType, ~row.used, row.uses = 0, CreateCeremony(x, row)
    PROVE  CredentialFacts
  <1>1. ceremony \in [Ceremonies -> CeremonyType]
    BY DEF KInv, Records
  <1>2. /\ ceremony' \in [Ceremonies -> CeremonyType] /\ ceremony'[x] = row
        /\ \A y \in Ceremonies \ {x} : ceremony'[y] = ceremony[y]
    BY <1>1 DEF CreateCeremony
  <1>3. CeremonyFacts
    BY <1>2 DEF CeremonyFacts, CeremonyStep, KInv, CeremonyUses
  <1>4. QED
    BY <1>3, KeptTables, FactsTogether DEF CreateCeremony

\* The three kinds of ceremonies.
LEMMA BeginCeremonyFacts ==
    ASSUME KInv, NEW x \in Ceremonies,
           \/ \E h \in Holders : BeginRegistration(x, h)
           \/ BeginLogin(x)
           \/ \E s \in Signins : BeginReauthentication(x, s)
    PROVE  CredentialFacts
  <1>1. ASSUME NEW purpose \in {"registration", "authentication", "reauthentication"},
               NEW h \in Holders \cup {Nothing}, NEW s \in Signins \cup {Nothing}
        PROVE  LET row == [NoCeremony EXCEPT !.purpose = purpose, !.holder = h, !.signin = s]
               IN  row \in CeremonyType /\ ~row.used /\ row.uses = 0
    BY UnusedRows DEF NoCeremony, CeremonyType
  <1>2. NoCeremony.holder = Nothing /\ NoCeremony.signin = Nothing
    BY DEF NoCeremony
  <1>3. CASE \E h \in Holders : BeginRegistration(x, h)
    <2>1. PICK h \in Holders : BeginRegistration(x, h)
      BY <1>3
    <2>2. [NoCeremony EXCEPT !.purpose = "registration", !.holder = h]
            = [NoCeremony EXCEPT !.purpose = "registration", !.holder = h, !.signin = Nothing]
      BY <1>2 DEF NoCeremony
    <2>3. QED
      BY <1>1, <2>1, <2>2, CreateCeremonyFacts DEF BeginRegistration
  <1>4. CASE BeginLogin(x)
    <2>1. [NoCeremony EXCEPT !.purpose = "authentication"]
            = [NoCeremony EXCEPT !.purpose = "authentication", !.holder = Nothing, !.signin = Nothing]
      BY <1>2 DEF NoCeremony
    <2>2. QED
      BY <1>1, <1>4, <2>1, CreateCeremonyFacts DEF BeginLogin
  <1>5. CASE \E s \in Signins : BeginReauthentication(x, s)
    <2>1. PICK s \in Signins : BeginReauthentication(x, s)
      BY <1>5
    <2>2. PICK h \in Holders : h = signin[s].holder
      BY <2>1 DEF BeginReauthentication, KInv, SigninKeys
    <2>3. CreateCeremony(x, [NoCeremony EXCEPT !.purpose = "reauthentication", !.holder = h, !.signin = s])
      BY <2>1, <2>2 DEF BeginReauthentication
    <2>4. QED
      BY <1>1, <2>3, CreateCeremonyFacts
  <1>6. QED
    BY <1>3, <1>4, <1>5

\* A ceremony expires.
LEMMA ExpireCeremonyFacts ==
    ASSUME KInv, NEW x \in Ceremonies, ExpireCeremony(x)
    PROVE  CredentialFacts
  <1>1. ceremony \in [Ceremonies -> CeremonyType]
    BY DEF KInv, Records
  <1>2. PICK old \in CeremonyType : old = ceremony[x]
    BY <1>1
  <1>3. PICK row : row = [old EXCEPT !.expired = TRUE]
    OBVIOUS
  <1>4. row \in CeremonyType /\ row.used = old.used /\ row.uses = old.uses
    BY <1>3 DEF CeremonyType
  <1>5. /\ ceremony' \in [Ceremonies -> CeremonyType] /\ ceremony'[x] = row
        /\ \A y \in Ceremonies \ {x} : ceremony'[y] = ceremony[y]
    BY <1>1, <1>2, <1>3, <1>4 DEF ExpireCeremony
  <1>6. CeremonyFacts
    BY <1>2, <1>4, <1>5 DEF CeremonyFacts, CeremonyStep, KInv, CeremonyUses
  <1>7. QED
    BY <1>6, KeptTables, FactsTogether DEF ExpireCeremony

\* A ceremony is used for the first time.
LEMMA ConsumedCeremony ==
    ASSUME KInv, NEW x \in Ceremonies, ConsumeWebAuthnChallenge(x)
    PROVE  CeremonyFacts
  <1>1. ceremony \in [Ceremonies -> CeremonyType]
    BY DEF KInv, Records
  <1>2. PICK old \in CeremonyType : old = ceremony[x]
    BY <1>1
  <1>3. ~old.used /\ old.uses = 0
    BY <1>2 DEF KInv, CeremonyUses, ConsumeWebAuthnChallenge
  <1>4. PICK n \in Nat : n = old.uses + 1
    BY <1>3
  <1>5. PICK row : row = [old EXCEPT !.used = TRUE, !.uses = n]
    OBVIOUS
  <1>6. row \in CeremonyType /\ row.used = TRUE /\ row.uses = n
    BY <1>5 DEF CeremonyType
  <1>7. n = 1
    BY <1>3, <1>4
  <1>8. /\ ceremony' \in [Ceremonies -> CeremonyType] /\ ceremony'[x] = row
        /\ \A y \in Ceremonies \ {x} : ceremony'[y] = ceremony[y]
    <2>1. ceremony' = [ceremony EXCEPT ![x] = [old EXCEPT !.used = TRUE, !.uses = old.uses + 1]]
      BY <1>1, <1>2 DEF ConsumeWebAuthnChallenge, CeremonyType
    <2>2. ceremony' = [ceremony EXCEPT ![x] = row]
      BY <1>4, <1>5, <2>1
    <2>3. QED
      BY <1>1, <1>6, <2>2
  <1>9. QED
    BY <1>6, <1>7, <1>8 DEF CeremonyFacts, CeremonyStep, KInv, CeremonyUses

\* A passkey is registered in an unused row, and no method goes.
LEMMA FinishRegistrationFacts ==
    ASSUME KInv, NEW c \in Clients, NEW x \in Ceremonies, NEW h \in Holders, NEW k \in Keys,
           NEW n \in 0 .. MaxCount, FinishRegistration(c, x, h, k, n)
    PROVE  CredentialFacts
  <1>1. passkey \in [Keys -> PasskeyType] /\ accepted \in [Keys -> Seq(1 .. MaxCount)]
    BY DEF KInv, Records
  <1>2. PICK row : row = [NoPasskey EXCEPT !.owner = h, !.count = n]
    OBVIOUS
  <1>3. row \in PasskeyType /\ row.owner = h /\ row.restricted = "no"
    BY <1>2, UnusedRows DEF NoPasskey, PasskeyType
  <1>4. passkey[k] = NoPasskey /\ passkey' = [passkey EXCEPT ![k] = row]
    BY <1>2 DEF FinishRegistration
  <1>5. /\ passkey' \in [Keys -> PasskeyType] /\ passkey'[k] = row
        /\ \A j \in Keys \ {k} : passkey'[j] = passkey[j]
    BY <1>1, <1>3, <1>4
  <1>6. UNCHANGED <<password, identity, link, signin, reauth, cloneResponse, request, lastWord, accepted>>
    BY DEF FinishRegistration
  <1>7. KeyFacts
    BY <1>1, <1>3, <1>4, <1>5, <1>6 DEF KeyFacts, KeyStep
  <1>8. passkey[k].owner = Nothing /\ Nothing \notin Holders
    BY <1>4, CredentialsAssumption DEF NoPasskey
  <1>9. LossFacts
    <2>1. \A g \in Holders : \A kind \in Kinds : \A y : Method(g, kind, y) => Method(g, kind, y)'
      BY <1>5, <1>6, <1>8 DEF Method
    <2>2. \A g \in Holders : \A j \in Keys : passkey[j].owner = g => passkey'[j] = passkey[j]
      BY <1>5, <1>8
    <2>3. QED
      BY <2>1, <2>2 DEF LossFacts, LossStep, MethodsStay, HasMethod
  <1>10. CeremonyFacts
    BY ConsumedCeremony DEF FinishRegistration
  <1>11. QED
    BY <1>6, <1>7, <1>9, <1>10, KeptTables, FactsTogether

\* What an assertion does to its passkey: the counter rises when it passes, and a
\* warning may restrict the passkey.
LEMMA AssertedPasskey ==
    ASSUME KInv, NEW c \in Clients, NEW k \in Keys, NEW n \in 0 .. MaxCount,
           k = request[c].key, n = request[c].count, AfterAuthentication(c), passkey[k].restricted = "no"
    PROVE  LET restricts == Restricts(passkey[k], n)
               warns == CloneWarning(passkey[k], n)
           IN  /\ passkey' \in [Keys -> PasskeyType] /\ accepted' \in [Keys -> Seq(1 .. MaxCount)]
               /\ \A j \in Keys \ {k} : passkey'[j] = passkey[j] /\ accepted'[j] = accepted[j]
               /\ passkey'[k].owner = passkey[k].owner /\ passkey'[k].count >= passkey[k].count
               /\ ~restricts => passkey'[k].restricted = "no"
               /\ restricts => passkey'[k].restricted \in {"kept", "revoked"}
               /\ passkey'[k].restricted = "revoked" => restricts /\ cloneResponse = "restrict_and_revoke"
               /\ IF warns \/ n = 0 THEN accepted' = accepted
                  ELSE /\ accepted'[k] = Append(accepted[k], n) /\ n > passkey[k].count
                       /\ n <= passkey'[k].count
  <1>1. /\ passkey \in [Keys -> PasskeyType] /\ accepted \in [Keys -> Seq(1 .. MaxCount)]
        /\ cloneResponse \in {"alert", "restrict", "restrict_and_revoke"}
    BY CredentialsAssumption DEF KInv, Records
  <1>2. PICK old \in PasskeyType : old = passkey[k]
    BY <1>1
  <1>3. PICK warns \in BOOLEAN : warns = CloneWarning(old, n)
    BY <1>2 DEF CloneWarning, PasskeyType
  <1>4. PICK restricts \in BOOLEAN : restricts = Restricts(old, n)
    BY <1>3 DEF Restricts
  <1>5. PICK m : m = Greater(old.count, n)
    OBVIOUS
  <1>6. m \in 0 .. MaxCount /\ m >= old.count /\ old.count \in Nat /\ n \in Nat
    BY <1>2, <1>5, CredentialsAssumption DEF Greater, PasskeyType
  <1>7. ~warns /\ n # 0 => n > old.count /\ n <= m
    <2>1. ~warns => ~(n <= old.count /\ (n # 0 \/ old.count # 0))
      BY <1>3 DEF CloneWarning
    <2>2. QED
      BY <1>5, <1>6, <2>1 DEF Greater
  <1>8. PICK v : v = IF ~restricts THEN old.restricted
                     ELSE IF cloneResponse = "restrict" THEN "kept" ELSE "revoked"
    OBVIOUS
  <1>9. PICK b \in BOOLEAN : b = (old.warned \/ warns)
    OBVIOUS
  <1>10. PICK row : row = [old EXCEPT !.count = m, !.warned = b, !.restricted = v]
    OBVIOUS
  <1>11. old.restricted = "no" /\ v \in {"no", "kept", "revoked", "deleted"}
    BY <1>2, <1>8
  <1>12. row \in PasskeyType /\ row.owner = old.owner /\ row.count = m /\ row.restricted = v
    <2>1. old \in PasskeyType
      BY <1>2
    <2>2. QED
      BY <1>6, <1>10, <1>11, <2>1 DEF PasskeyType
  <1>13. passkey' = [passkey EXCEPT ![k] = row]
    <2>1. passkey' = [passkey EXCEPT ![k].count = m, ![k].warned = b, ![k].restricted = v]
      BY <1>1, <1>2, <1>3, <1>4, <1>5, <1>8, <1>9 DEF AfterAuthentication, LookupAgain, PasskeyType
    <2>2. QED
      BY <1>1, <1>2, <1>10, <2>1 DEF PasskeyType
  <1>14. passkey' \in [Keys -> PasskeyType] /\ passkey'[k] = row /\ \A j \in Keys \ {k} : passkey'[j] = passkey[j]
    BY <1>1, <1>12, <1>13
  <1>15. accepted' = IF warns \/ n = 0 THEN accepted ELSE [accepted EXCEPT ![k] = Append(accepted[k], n)]
    BY <1>1, <1>2, <1>3 DEF AfterAuthentication, LookupAgain
  <1>16. /\ accepted' \in [Keys -> Seq(1 .. MaxCount)]
         /\ \A j \in Keys \ {k} : accepted'[j] = accepted[j]
         /\ IF warns \/ n = 0 THEN accepted' = accepted ELSE accepted'[k] = Append(accepted[k], n)
    <2>1. n # 0 => n \in 1 .. MaxCount
      BY <1>6
    <2>2. n # 0 => Append(accepted[k], n) \in Seq(1 .. MaxCount)
      <3>1. \A S, a, e : a \in Seq(S) /\ e \in S => Append(a, e) \in Seq(S)
        OBVIOUS
      <3>2. QED
        BY <1>1, <2>1, <3>1
    <2>3. QED
      BY <1>1, <1>15, <2>2
  <1>17. /\ ~restricts => v = "no"
         /\ restricts => v \in {"kept", "revoked"}
         /\ v = "revoked" => restricts /\ cloneResponse = "restrict_and_revoke"
    BY <1>1, <1>4, <1>8, <1>11 DEF Restricts
  <1>18. QED
    BY <1>2, <1>3, <1>4, <1>6, <1>7, <1>12, <1>14, <1>16, <1>17

\* The transaction that verifies an assertion under the locks of ceremony and user.
LEMMA AuthenticateFacts ==
    ASSUME KInv, NEW c \in Clients, Authenticate(c)
    PROVE  CredentialFacts
  <1>1. PICK r \in RequestType : r = request[c]
    BY DEF KInv, Records
  <1>2. RowOK(r) /\ r.op \in {"passkey", "reauth"} /\ r.step = "locked"
    BY <1>1 DEF KInv, RequestRows, Authenticate
  <1>3. r.holder \in Holders /\ r.key \in Keys /\ r.ceremony \in Ceremonies /\ r.count \in 0 .. MaxCount
    BY <1>1, <1>2 DEF RowOK, RequestType
  <1>4. PICK h \in Holders, k \in Keys, x \in Ceremonies, n \in 0 .. MaxCount :
            h = r.holder /\ k = r.key /\ x = r.ceremony /\ n = r.count
    BY <1>3
  <1>5. /\ passkey[k].owner = h /\ passkey[k].restricted = "no" /\ AfterAuthentication(c)
        /\ ConsumeWebAuthnChallenge(x)
        /\ IF Restricts(passkey[k], n) THEN Done(c) ELSE Advance(c, "proved")
        /\ UNCHANGED <<password, identity, link, reauth, cloneResponse, lastWord>>
    BY <1>1, <1>4 DEF Authenticate, LookupAgain
  <1>6. PICK restricts \in BOOLEAN : restricts = Restricts(passkey[k], n)
    BY DEF Restricts
  <1>7. /\ passkey' \in [Keys -> PasskeyType] /\ accepted' \in [Keys -> Seq(1 .. MaxCount)]
        /\ \A j \in Keys \ {k} : passkey'[j] = passkey[j] /\ accepted'[j] = accepted[j]
        /\ passkey'[k].owner = h /\ passkey'[k].count >= passkey[k].count
        /\ ~restricts => passkey'[k].restricted = "no"
        /\ restricts => passkey'[k].restricted \in {"kept", "revoked"}
        /\ passkey'[k].restricted = "revoked" => restricts /\ cloneResponse = "restrict_and_revoke"
        /\ \/ accepted'[k] = accepted[k]
           \/ accepted'[k] = Append(accepted[k], n) /\ n > passkey[k].count /\ n <= passkey'[k].count
    BY <1>1, <1>4, <1>5, <1>6, AssertedPasskey
  <1>8. signin' = [s \in Signins |->
            IF restricts /\ cloneResponse = "restrict_and_revoke" /\ signin[s].holder = h
            THEN [signin[s] EXCEPT !.live = FALSE] ELSE signin[s]]
    BY <1>1, <1>4, <1>5, <1>6 DEF AfterAuthentication, LookupAgain
  <1>9. ASSUME NEW s \in Signins
        PROVE  /\ signin'[s] \in SigninType /\ SigninStep(s)
               /\ passkey'[k].restricted = "revoked" /\ signin[s].holder = h => ~signin'[s].live
    <2>1. PICK old \in SigninType : old = signin[s]
      BY DEF KInv, Records
    <2>2. PICK row : row = [old EXCEPT !.live = FALSE]
      OBVIOUS
    <2>3. row \in SigninType /\ row.holder = old.holder /\ row.key = old.key /\ ~row.live
      BY <2>1, <2>2 DEF SigninType
    <2>4. signin'[s] = IF restricts /\ cloneResponse = "restrict_and_revoke" /\ old.holder = h
                       THEN row ELSE old
      BY <1>8, <2>1, <2>2
    <2>5. QED
      BY <1>7, <2>1, <2>3, <2>4 DEF SigninStep
  <1>10. SigninFacts
    <2>1. signin' \in [Signins -> SigninType]
      BY <1>8, <1>9
    <2>2. QED
      BY <1>9, <2>1 DEF SigninFacts
  <1>11. KeyFacts
    <2>1. KeyStep(k)
      <3>1. passkey[k].count \in Nat
        BY CredentialsAssumption DEF KInv, Records, PasskeyType
      <3>2. n > passkey[k].count => n \in 1 .. MaxCount
        BY <3>1
      <3>3. passkey'[k].restricted # "deleted"
        BY <1>7
      <3>4. QED
        BY <1>5, <1>7, <1>9, <3>2, <3>3 DEF KeyStep
    <2>2. \A j \in Keys \ {k} : KeyStep(j)
      BY <1>7 DEF KeyStep
    <2>3. QED
      BY <1>7, <2>1, <2>2 DEF KeyFacts
  <1>12. RequestFacts
    <2>1. CASE restricts
      BY <1>5, <1>6, <2>1, DoneMoves
    <2>2. CASE ~restricts
      <3>1. RowOK([r EXCEPT !.step = "proved"])
        BY <1>1, <1>2 DEF RowOK, RequestType
      <3>2. "proved" \in Steps /\ "proved" \in Unlocked
        BY DEF Steps, Unlocked
      <3>3. QED
        BY <1>1, <1>5, <1>6, <2>2, <3>1, <3>2, AdvanceMoves
    <2>3. QED
      BY <2>1, <2>2
  <1>13. LossFacts
    <2>1. ASSUME NEW g \in Holders, g # h \/ ~restricts PROVE LossStep(g)
      <3>1. \A kind \in Kinds : \A y : Method(g, kind, y) => Method(g, kind, y)'
        BY <1>5, <1>7, <2>1 DEF Method
      <3>2. \A j \in Keys : passkey[j].owner = g =>
                passkey'[j].owner = g /\ (passkey'[j].restricted = "no" => passkey[j].restricted = "no")
        BY <1>5, <1>7
      <3>3. QED
        BY <3>1, <3>2 DEF LossStep, MethodsStay, HasMethod
    <2>2. CASE restricts
      <3>1. request'[c].step \in Unlocked /\ request[c].step \notin Unlocked /\ request[c].holder = h
        BY <1>1, <1>2, <1>4, <1>5, <1>6, <2>2, IdleRow DEF Done, KInv, Records, Unlocked
      <3>2. LossStep(h)
        BY <1>5, <1>7, <2>2, <3>1 DEF LossStep
      <3>3. QED
        BY <2>1, <3>2 DEF LossFacts
    <2>3. CASE ~restricts
      BY <2>1, <2>3 DEF LossFacts
    <2>4. QED
      BY <2>2, <2>3
  <1>14. CeremonyFacts
    BY <1>5, ConsumedCeremony
  <1>15. QED
    BY <1>5, <1>10, <1>11, <1>12, <1>13, <1>14, KeptTables, FactsTogether

-----------------------------------------------------------------------------
(* The invariant of Credentials and what follows from it.                  *)

\* The initial state.
LEMMA CredentialsInitKInv ==
    ASSUME CredentialsInit
    PROVE  KInv
  <1>1. Records
    <2>1. [word |-> 1, old |-> TRUE] \in PasswordType
      BY CredentialsAssumption DEF PasswordType
    <2>2. password \in [Holders -> PasswordType]
      BY <2>1, UnusedRows DEF CredentialsInit
    <2>3. accepted \in [Keys -> Seq(1 .. MaxCount)]
      BY DEF CredentialsInit
    <2>4. lastWord \in 0 .. MaxWord
      BY CredentialsAssumption DEF CredentialsInit
    <2>5. QED
      BY <2>2, <2>3, <2>4, UnusedRows, IdleRow DEF CredentialsInit, Records
  <1>2. OneHolder /\ CeremonyUses /\ SigninKeys /\ LinkRows /\ RestrictedShutOut
    BY DEF CredentialsInit, OneHolder, CeremonyUses, SigninKeys, LinkRows, LinkOK, RestrictedShutOut,
           NoCeremony, NoSignin, NoLink
  <1>3. CountersRise
    BY DEF CredentialsInit, CountersRise
  <1>4. RequestRows /\ UserLocks /\ CountsHold
    BY IdleRow DEF CredentialsInit, RequestRows, RowOK, UserLocks, CountsHold, Unlocked
  <1>5. QED
    BY <1>1, <1>2, <1>3, <1>4 DEF KInv

\* The methods added and removed.
LEMMA MethodsFacts ==
    ASSUME KInv, NEW c \in Clients, MethodsNext(c)
    PROVE  CredentialFacts
  <1>1. CASE \E h \in Holders : BeginMutation(c, "setPassword", h, Nothing, Nothing)
    BY <1>1, BeginMutationFacts
  <1>2. CASE \E h \in Holders : LoginWithPassword(c, h)
    BY <1>2, LoginWithPasswordFacts
  <1>3. CASE \E h \in Holders, p \in Providers \cup {"password"} : BeginMutation(c, "unlink", h, p, Nothing)
    BY <1>3, BeginMutationFacts
  <1>4. CASE \E h \in Holders, k \in Keys : BeginMutation(c, "deletePasskey", h, Nothing, k)
    BY <1>4, BeginMutationFacts
  <1>5. QED
    BY <1>1, <1>2, <1>3, <1>4, LockForMutationFacts, CheckRemovalFacts, UnlinkAuthProviderFacts,
       DeletePasskeyFacts, SetPasswordFacts, UpgradePasswordHashFacts, VerifyAgainFacts, AbandonFacts
    DEF MethodsNext

\* The links.
LEMMA LinksFacts ==
    ASSUME KInv, NEW c \in Clients, LinksNext(c)
    PROVE  CredentialFacts
  BY StartLinkFacts, LinkFlagFacts, ReadFacts, CompleteLinkFacts DEF LinksNext

\* The passkeys.
LEMMA PasskeysFacts ==
    ASSUME KInv, NEW c \in Clients, PasskeysNext(c)
    PROVE  CredentialFacts
  BY BeginCeremonyFacts, ExpireCeremonyFacts, FinishRegistrationFacts, FindPasskeyFacts, FindOwnPasskeyFacts,
     LockPasskeyHolderFacts, AuthenticateFacts, CreatePasskeySessionFacts, SetCloneResponseFacts
  DEF PasskeysNext

\* The sessions.
LEMMA SigninsFacts ==
    ASSUME KInv, NEW c \in Clients, SigninsNext(c)
    PROVE  CredentialFacts
  BY AuthenticationChallengeFacts, ProveIdentityFacts, OtherSigninFacts, CompleteAuthenticationFacts
  DEF SigninsNext

\* Every step is one of these.
LEMMA CredentialsStepFacts ==
    ASSUME KInv, [CredentialsNext]_credentialsVars
    PROVE  CredentialFacts
  <1>1. CASE CredentialsNext
    BY <1>1, MethodsFacts, LinksFacts, PasskeysFacts, SigninsFacts DEF CredentialsNext
  <1>2. CASE UNCHANGED credentialsVars
    BY <1>2, KeptTables, FactsTogether DEF credentialsVars
  <1>3. QED
    BY <1>1, <1>2

\* The invariant holds in every state of every behaviour of the credentials.
THEOREM CredentialsInvariance ==
    CredentialsSpec => []KInv
  <1>1. CredentialsInit => KInv
    BY CredentialsInitKInv
  <1>2. KInv /\ [CredentialsNext]_credentialsVars => KInv'
    BY CredentialsStepFacts, FactsPreserveKInv
  <1>3. QED
    BY <1>1, <1>2, PTL DEF CredentialsSpec

\* A ceremony proves a passkey once, and the counters that pass without a warning
\* rise (MarkWebAuthnChallengeConsumed, UpdatePasskeyAfterAuthentication); an
\* account at a provider belongs to one user (linkExternalIdentityToUser).
THEOREM ReplaysAreNoticed ==
    CredentialsSpec => []ReplayNoticed
  <1>1. ASSUME KInv PROVE ReplayNoticed
    <2>1. \A p \in Providers, x \in Subjects : Cardinality(LinkedTo(p, x)) <= 1
      <3>1. ASSUME NEW p \in Providers, NEW x \in Subjects PROVE Cardinality(LinkedTo(p, x)) <= 1
        <4>1. CASE LinkedTo(p, x) = {}
          BY <4>1, FS_EmptySet
        <4>2. CASE LinkedTo(p, x) # {}
          <5>1. PICK h : h \in LinkedTo(p, x)
            BY <4>2
          <5>2. \A g \in LinkedTo(p, x) : g = h
            BY <1>1, <5>1, CredentialsAssumption DEF LinkedTo, KInv, OneHolder
          <5>3. LinkedTo(p, x) = {h}
            BY <5>1, <5>2
          <5>4. QED
            BY <5>3, FS_Singleton
        <4>3. QED
          BY <4>1, <4>2
      <3>2. QED
        BY <3>1
    <2>2. \A s \in Signins : signin[s].holder \in Holders \cup {Nothing} /\ reauth[s].id \in 0 .. MaxReauth
      BY <1>1 DEF KInv, Records, SigninType, ReauthType
    <2>3. CredentialsTypeOK
      BY <1>1, <2>1, <2>2 DEF KInv, Records, PasswordType, PasskeyType, CredentialsTypeOK
    <2>4. CeremonyOnce
      BY <1>1 DEF KInv, CeremonyUses, CeremonyOnce
    <2>5. \A k \in Keys : DOMAIN accepted[k] = 1 .. Len(accepted[k])
      BY <1>1 DEF KInv, Records
    <2>6. QED
      BY <1>1, <2>3, <2>4, <2>5 DEF ReplayNoticed, KInv, CountersRise
  <1>2. QED
    BY <1>1, CredentialsInvariance, PTL

\* No session that a passkey opened is live after the passkey is restricted with
\* the sessions revoked (RestrictPasskey, RevokeAllUserSessions).
THEOREM RestrictedAreShutOut ==
    CredentialsSpec => []RestrictedShutOut
  <1>1. KInv => RestrictedShutOut
    BY DEF KInv
  <1>2. QED
    BY <1>1, CredentialsInvariance, PTL

\* A password that was replaced or removed is never valid again
\* (CompareAndSwapPasswordHash).
THEOREM PasswordsAreNotRevived ==
    CredentialsSpec => PasswordNotRevived
  <1>1. KInv /\ [CredentialsNext]_credentialsVars =>
            [\A h \in Holders : password'[h].word \notin {0, password[h].word} =>
                password'[h].word > lastWord]_credentialsVars
    BY CredentialsStepFacts DEF CredentialFacts, PasswordStep
  <1>2. QED
    BY <1>1, CredentialsInvariance, PTL DEF CredentialsSpec, PasswordNotRevived

\* An existing user gets an identity by a pending link that this step uses up
\* (ConsumePendingProviderLink).
THEOREM IdentitiesComeByLinks ==
    CredentialsSpec => IdentityByLink
  <1>1. KInv /\ [CredentialsNext]_credentialsVars =>
            [\A h \in Holders, p \in Providers :
                identity'[h][p] \notin {identity[h][p], Nothing} =>
                    \E l \in Links : /\ link[l].holder = h /\ link[l].provider = p
                                     /\ ~link[l].used /\ link'[l].used]_credentialsVars
    BY CredentialsStepFacts DEF CredentialFacts, IdentityStep
  <1>2. QED
    BY <1>1, CredentialsInvariance, PTL DEF CredentialsSpec, IdentityByLink

\* The count after a step.
LEMMA CountedLater ==
    ASSUME NEW CONSTANT h \in Holders
    PROVE  (password \in [Holders -> PasswordType] /\ HasMethod(h) => CountAuthMethods(h) > 0)'
  <1>1. password \in [Holders -> PasswordType] /\ HasMethod(h) => CountAuthMethods(h) > 0
    BY CountOfMethods
  <1>2. QED
    BY <1>1, PTL

\* MethodKept, of one step.
LastMethodKept ==
    \A h \in Holders : CountAuthMethods(h) > 0 /\ CountAuthMethods(h)' = 0 =>
        \E k \in Keys : passkey[k].owner = h /\ passkey[k].restricted = "no"
                        /\ passkey'[k].restricted \in {"kept", "revoked"}

\* The last way to sign in goes by no removal (CountAuthMethods under
\* LockUserForAuthMethodMutation).
THEOREM MethodsAreKept ==
    CredentialsSpec => MethodKept
  <1>1. ASSUME KInv, [CredentialsNext]_credentialsVars, NEW h \in Holders,
               CountAuthMethods(h) > 0, CountAuthMethods(h)' = 0
        PROVE  \E k \in Keys : passkey[k].owner = h /\ passkey[k].restricted = "no"
                               /\ passkey'[k].restricted \in {"kept", "revoked"}
    <2>1. CredentialFacts
      BY <1>1, CredentialsStepFacts
    <2>2. HasMethod(h)
      BY <1>1, CountOfMethods DEF KInv, Records
    <2>3. ~HasMethod(h)'
      BY <1>1, <2>1, CountedLater DEF CredentialFacts, Records
    <2>4. QED
      BY <2>1, <2>2, <2>3 DEF CredentialFacts, LossStep
  <1>2. KInv /\ [CredentialsNext]_credentialsVars => [LastMethodKept]_credentialsVars
    BY <1>1 DEF LastMethodKept
  <1>3. CredentialsSpec => [][LastMethodKept]_credentialsVars
    BY <1>2, CredentialsInvariance, PTL DEF CredentialsSpec
  <1>4. QED
    BY <1>3 DEF MethodKept, LastMethodKept

=============================================================================
