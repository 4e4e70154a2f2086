----------------------------- MODULE Challenges -----------------------------
(***************************************************************************)
(* Email challenges: the codes that confirm a signup, a password reset, a  *)
(* change of address and the required verification of an address.          *)
(*                                                                         *)
(* A challenge row is verified under its FOR UPDATE lock, in a transaction *)
(* of several steps; a password reset waits for the user's lock after the  *)
(* code has been compared.  The other transactions read what they decide   *)
(* on under the locks they hold until they commit, and are one step each.  *)
(* The code of a challenge is not known to the request that creates it:    *)
(* the worker that delivers the email stores it, outside of any lock on    *)
(* the challenge.                                                          *)
(***************************************************************************)
EXTENDS Integers, FiniteSets

CONSTANTS
    Accounts, Emails,      \* users and canonical addresses
    Logins,                \* sessions
    ChallengeIds,          \* bound: challenges ever created
    Mails,                 \* bound: email jobs with a code ever created
    Verifiers,             \* bound: concurrent verification requests
    LastTick,              \* bound: last value of the clock
    MaxWait,               \* how old the time of a request may be when it runs
    TTL, VerificationCodeTTL, MinimumResendInterval,
    MaxAttempts, MaxResends,
    Deliveries,            \* bound: attempts to deliver one email
    Purposes,              \* the purposes used in an instance
    Nobody

ASSUME ChallengesAssumption ==
    /\ LastTick \in Nat /\ MaxWait \in Nat /\ TTL \in Nat \ {0}
    /\ VerificationCodeTTL \in Nat \ {0} /\ MinimumResendInterval \in Nat
    /\ MaxAttempts \in Nat \ {0} /\ MaxResends \in Nat /\ Deliveries \in Nat
    /\ Purposes \subseteq {"signup", "password_reset", "email_change", "email_verification"}
    /\ Nobody \notin Accounts \cup Emails \cup Logins \cup ChallengeIds \cup Mails

VARIABLES
    tick,          \* the clock
    account,       \* table users: address, verified, has a password
    login,         \* table sessions: the user of an active session
    challenge,     \* table challenges, with pending_signup_actions as ~opaque
    code,          \* table verification_codes, by challenge
    reset,         \* table pending_password_resets: its challenge, by user
    change,        \* table pending_email_changes, by user
    verification,  \* table email_verification_transactions, by user
    mail,          \* the email_jobs that carry a code
    verifier,      \* verification requests
    wrong,         \* history: wrong codes compared, by challenge
    withdrawn,     \* history: resets superseded or cancelled
    proven         \* history: addresses whose code was entered

mailVars == <<code, mail>>
pendingVars == <<reset, change, verification>>
challengesVars == <<tick, account, login, challenge, code, reset, change, verification,
                    mail, verifier, wrong, withdrawn, proven>>

NoAccount == [email |-> Nobody, verified |-> FALSE, password |-> FALSE]
NoChallenge == [purpose |-> "none", email |-> Nobody, expires |-> 0, consumed |-> FALSE,
                attempts |-> 0, resends |-> 0, maxResends |-> 0, lastSent |-> -1,
                opaque |-> FALSE]
NoCode == [value |-> Nobody, expires |-> 0]
NoChange == [challenge |-> Nobody, login |-> Nobody, old |-> Nobody, new |-> Nobody]
NoVerification == [open |-> FALSE, challenge |-> Nobody, target |-> Nobody, expires |-> 0]
NoMail == [challenge |-> Nobody, status |-> "absent", claimed |-> 0, attempts |-> 0,
           mailed |-> FALSE, nth |-> 0]
NoRequest == [pc |-> "idle", challenge |-> Nobody, at |-> 0, seen |-> Nobody]

\* The time a request has read, before it waited for a connection or a lock.
RequestTimes == {t \in 0 .. tick : tick - MaxWait <= t}

Exists(u) == account[u].email # Nobody
Live(c) == challenge[c].purpose \notin {"none", "deleted"}
\* Mutant: GetChallengeByID, without FOR UPDATE.
HeldByNobody(c) == FALSE
\* FOR UPDATE on a challenge, held by a verification until its end.
Held(c) == \E p \in Verifiers : verifier[p].pc # "idle" /\ verifier[p].challenge = c

Taken(e) == \E u \in Accounts : account[u].email = e

-----------------------------------------------------------------------------
(* Creation.                                                               *)

\* The row createChallenge inserts, with the limits of the current policy.
CreateChallengeRow(purpose, e, at) ==
    [NoChallenge EXCEPT !.purpose = purpose, !.email = e, !.expires = at + TTL,
                        !.maxResends = MaxResends]

\* enqueueChallengeEmail: a job for the address of the challenge, its nth resend.
EnqueueChallengeEmail(j, c, n) ==
    /\ mail[j].status = "absent"
    /\ mail' = [mail EXCEPT ![j] = [NoMail EXCEPT !.challenge = c, !.status = "pending",
                                                 !.nth = n]]

\* createChallenge up to its pending action.
CreateChallenge(c, j, purpose, e, at) ==
    /\ purpose \in Purposes /\ challenge[c] = NoChallenge
    /\ challenge' = [challenge EXCEPT ![c] = CreateChallengeRow(purpose, e, at)]
    /\ EnqueueChallengeEmail(j, c, 0)
    /\ UNCHANGED <<tick, account, login, code, verifier, wrong, proven>>

\* For an address that gets no code: a challenge that can only fail.
CreateOpaqueChallenge(c, purpose, e, at) ==
    /\ purpose \in Purposes /\ challenge[c] = NoChallenge
    /\ challenge' = [challenge EXCEPT ![c] =
                        [CreateChallengeRow(purpose, e, at) EXCEPT !.maxResends = 0, !.opaque = TRUE]]
    /\ UNCHANGED <<tick, account, login, code, pendingVars, mail, verifier, wrong, withdrawn, proven>>

\* Whether the address is free is decided when the code is entered.
CreateSignupChallenge(c, j, e, at) ==
    /\ CreateChallenge(c, j, "signup", e, at)
    /\ UNCHANGED <<pendingVars, withdrawn>>

\* requirePasswordResetEligibility; whether a verified address is required is a
\* runtime setting, so an unverified one may pass at some time.
PasswordResetEligibility(u, e) == Exists(u) /\ account[u].email = e /\ account[u].password

\* CreatePendingPasswordReset: one row for a user, the newest replaces it.
CreatePasswordResetChallenge(c, j, u, e, at) ==
    /\ CreateChallenge(c, j, "password_reset", e, at)
    /\ PasswordResetEligibility(u, e)
    /\ reset' = [reset EXCEPT ![u] = c]
    /\ withdrawn' = withdrawn \cup ({reset[u]} \ {Nobody})
    /\ UNCHANGED <<change, verification>>

\* requireActiveEmailChangeSession.
ActiveEmailChangeSession(u, s) == Exists(u) /\ login[s] = u

CreateEmailChangeChallenge(c, j, u, s, e, at) ==
    /\ CreateChallenge(c, j, "email_change", e, at)
    /\ ActiveEmailChangeSession(u, s)
    /\ change' = [change EXCEPT ![u] = [challenge |-> c, login |-> s,
                                        old |-> account[u].email, new |-> e]]
    /\ UNCHANGED <<reset, verification, withdrawn>>

\* BeginRequiredEmailVerification: the user's transaction is opened again, with
\* the challenge and the target it already had, and the session is revoked.
BeginRequiredEmailVerification(u, s, at) ==
    /\ "email_verification" \in Purposes
    /\ Exists(u) /\ ~account[u].verified /\ login[s] = u
    /\ verification' = [verification EXCEPT ![u].open = TRUE, ![u].expires = at + TTL]
    /\ login' = [login EXCEPT ![s] = Nobody]
    /\ UNCHANGED <<tick, account, challenge, mailVars, reset, change, verifier, wrong, withdrawn, proven>>

VerificationActive(u, at) == verification[u].open /\ verification[u].expires > at

CreateRequiredEmailVerificationChallenge(c, j, u, e, at) ==
    /\ CreateChallenge(c, j, "email_verification", e, at)
    /\ VerificationActive(u, at) /\ Exists(u) /\ ~account[u].verified
    /\ e # account[u].email => ~Taken(e)
    /\ verification' = [verification EXCEPT ![u].challenge = c, ![u].target = e]
    /\ UNCHANGED <<reset, change, withdrawn>>

-----------------------------------------------------------------------------
(* ResendChallenge.                                                        *)

\* pendingActionUserID, read again after the user's lock: the action that the
\* challenge is for must not have been withdrawn.
PendingAction(c) ==
    CASE challenge[c].purpose = "password_reset" -> \E u \in Accounts : reset[u] = c
      [] challenge[c].purpose = "email_change" -> \E u \in Accounts : change[u].challenge = c
      [] challenge[c].purpose = "email_verification" -> \E u \in Accounts : verification[u].challenge = c
      [] OTHER -> TRUE

ValidForResend(c, at) ==
    /\ ~challenge[c].consumed /\ at <= challenge[c].expires
    /\ challenge[c].resends < challenge[c].maxResends
    /\ challenge[c].lastSent >= 0 => at >= challenge[c].lastSent + MinimumResendInterval

ResendChallenge(c, j, at) ==
    /\ Live(c) /\ ~Held(c) /\ ValidForResend(c, at) /\ PendingAction(c)
    /\ challenge' = [challenge EXCEPT ![c].resends = @ + 1, ![c].lastSent = at]
    /\ EnqueueChallengeEmail(j, c, challenge[c].resends + 1)
    /\ UNCHANGED <<tick, account, login, code, pendingVars, verifier, wrong, withdrawn, proven>>

-----------------------------------------------------------------------------
(* The worker, as far as a code is concerned; EmailQueue has the rest.     *)

MailIs(j, status) == mail[j].status = status
SetMail(j, row) == mail' = [mail EXCEPT ![j] = row]

\* ClaimNextEmailJob; a job past its deadline is given up.
ClaimMail(j, at) ==
    /\ MailIs(j, "pending") /\ mail[j].attempts < Deliveries
    /\ SetMail(j, [mail[j] EXCEPT !.claimed = at, !.attempts = @ + 1,
                      !.status = IF challenge[mail[j].challenge].expires > at THEN "claimed" ELSE "failed"])
    /\ UNCHANGED <<tick, account, login, challenge, code, pendingVars, verifier, wrong, withdrawn, proven>>

\* verificationCodeForJob: the code of a job is a function of the job, and
\* replaces the stored one.  The first INSERT refers to the locked row.
GenerateCodeForDelivery(j) ==
    LET c == mail[j].challenge
    IN  /\ MailIs(j, "claimed")
        /\ Live(c) /\ ~challenge[c].consumed /\ mail[j].claimed <= challenge[c].expires
        /\ code[c] = NoCode => ~Held(c)
        /\ code' = [code EXCEPT ![c] =
                [value |-> j,
                 expires |-> IF mail[j].claimed + VerificationCodeTTL > challenge[c].expires
                             THEN challenge[c].expires ELSE mail[j].claimed + VerificationCodeTTL]]
        /\ SetMail(j, [mail[j] EXCEPT !.status = "rendered", !.mailed = TRUE])
        /\ UNCHANGED <<tick, account, login, challenge, pendingVars, verifier, wrong, withdrawn, proven>>

\* MarkEmailJobSent, then SetChallengeLastSentAt with the time of the claim,
\* whose failure is ignored.
MailSent(j, stamped) ==
    LET c == mail[j].challenge
    IN  /\ MailIs(j, "rendered") /\ (stamped => Live(c) /\ ~Held(c))
        /\ SetMail(j, [mail[j] EXCEPT !.status = "sent"])
        /\ challenge' = IF stamped THEN [challenge EXCEPT ![c].lastSent = mail[j].claimed] ELSE challenge
        /\ UNCHANGED <<tick, account, login, code, pendingVars, verifier, wrong, withdrawn, proven>>

\* A delivery that fails, or whose worker is gone, is tried again; the server
\* may have taken the message all the same.
MailRetried(j) ==
    /\ mail[j].status \in {"claimed", "rendered"}
    /\ SetMail(j, [mail[j] EXCEPT !.status = "pending"])
    /\ UNCHANGED <<tick, account, login, challenge, code, pendingVars, verifier, wrong, withdrawn, proven>>

-----------------------------------------------------------------------------
(* verifyChallenge.                                                        *)

Step(p, state) == verifier' = [verifier EXCEPT ![p] = state]

\* validateChallengeForVerify.
ValidForVerify(c, at) ==
    /\ ~challenge[c].consumed /\ at <= challenge[c].expires
    /\ challenge[c].attempts < MaxAttempts

\* GetChallengeByIDForUpdate and the checks.
LockChallenge(p, c, at) ==
    /\ verifier[p].pc = "idle" /\ Live(c) /\ ~Held(c)
    /\ ValidForVerify(c, at)
    /\ Step(p, [pc |-> "locked", challenge |-> c, at |-> at, seen |-> Nobody])
    /\ UNCHANGED <<tick, account, login, challenge, mailVars, pendingVars, wrong, withdrawn, proven>>

\* What a request may carry: a code that was emailed, or a wrong one.
Codes == {j \in Mails : mail[j].mailed} \cup {Nobody}

\* VerifyCode.
CodeUsable(p) ==
    LET row == code[verifier[p].challenge]
    IN  row # NoCode /\ row.expires >= verifier[p].at
CodeMatches(p, guess) == CodeUsable(p) /\ code[verifier[p].challenge].value = guess

\* The beforeVerify of an email change: the session that asked for it is still
\* active, and neither the pending change nor the address has been replaced.
BeforeEmailChange(p, u, s) ==
    /\ ActiveEmailChangeSession(u, s)
    /\ change[u].challenge = verifier[p].challenge /\ change[u].login = s
    /\ account[u].email = change[u].old

\* Mutant: the transaction of the user, whatever challenge it waits for.
OpenTransaction(u, c) == TRUE
\* GetEmailVerificationTransactionByChallengeIDForUpdate.
TransactionOf(u, c) == verification[u].challenge = c

\* The beforeVerify of a required verification; the transaction and the user are
\* locked before they are read.
BeforeVerification(p, u) ==
    /\ TransactionOf(u, verifier[p].challenge) /\ VerificationActive(u, verifier[p].at)
    /\ verification[u].target # Nobody /\ Exists(u) /\ ~account[u].verified

\* IncrementChallengeAttemptCount and commit.
WrongCode(p, guess) ==
    LET c == verifier[p].challenge
    IN  /\ verifier[p].pc = "locked" /\ CodeUsable(p) /\ ~CodeMatches(p, guess)
        /\ challenge[c].purpose = "email_change" =>
               \E u \in Accounts, s \in Logins : BeforeEmailChange(p, u, s)
        /\ challenge[c].purpose = "email_verification" => \E u \in Accounts : BeforeVerification(p, u)
        /\ challenge' = [challenge EXCEPT ![c].attempts = @ + 1]
        /\ wrong' = [wrong EXCEPT ![c] = @ + 1]
        /\ Step(p, NoRequest)
        /\ UNCHANGED <<tick, account, login, mailVars, pendingVars, withdrawn, proven>>

\* ConsumeChallenge and commit.
Consume(p) ==
    /\ challenge' = [challenge EXCEPT ![verifier[p].challenge].consumed = TRUE]
    /\ proven' = proven \cup {challenge[verifier[p].challenge].email}
    /\ Step(p, NoRequest)
    /\ UNCHANGED <<tick, login, mailVars, wrong>>

\* A right code for a challenge with this purpose.
Right(p, guess, purpose) ==
    /\ verifier[p].pc = "locked" /\ challenge[verifier[p].challenge].purpose = purpose
    /\ CodeMatches(p, guess)

\* VerifySignupChallenge: the account is created in the same transaction.
VerifySignupChallenge(p, guess, u) ==
    LET e == challenge[verifier[p].challenge].email
    IN  /\ Right(p, guess, "signup") /\ ~challenge[verifier[p].challenge].opaque
        /\ ~Exists(u) /\ ~Taken(e)
        /\ account' = [account EXCEPT ![u] = [email |-> e, verified |-> TRUE, password |-> TRUE]]
        /\ Consume(p)
        /\ UNCHANGED <<pendingVars, withdrawn>>

\* executeEmailChange.
CompleteEmailChangeChallenge(p, guess, u, s) ==
    /\ Right(p, guess, "email_change")
    /\ BeforeEmailChange(p, u, s) /\ ~Taken(change[u].new)
    /\ account' = [account EXCEPT ![u].email = change[u].new, ![u].verified = TRUE]
    /\ change' = [change EXCEPT ![u] = NoChange]
    /\ reset' = [reset EXCEPT ![u] = Nobody]
    /\ withdrawn' = withdrawn \cup ({reset[u]} \ {Nobody})
    /\ Consume(p)
    /\ UNCHANGED verification

CompleteRequiredEmailVerification(p, guess, u) ==
    LET e == verification[u].target
    IN  /\ Right(p, guess, "email_verification") /\ BeforeVerification(p, u)
        /\ e # account[u].email => ~Taken(e)
        /\ account' = [account EXCEPT ![u].email = e, ![u].verified = TRUE]
        /\ verification' = [verification EXCEPT ![u].open = FALSE]
        /\ Consume(p)
        /\ UNCHANGED <<reset, change, withdrawn>>

\* The code of a reset is right; the action is read, and the user's lock awaited.
CheckPasswordResetCode(p, guess, u) ==
    /\ Right(p, guess, "password_reset") /\ reset[u] = verifier[p].challenge
    /\ Step(p, [verifier[p] EXCEPT !.pc = "verified", !.seen = u])
    /\ UNCHANGED <<tick, account, login, challenge, mailVars, pendingVars, wrong, withdrawn, proven>>

\* Mutant: the action read before the lock is used.
ReadBeforeLock(p) == TRUE
\* GetPendingPasswordResetByChallengeID, again, under the user's lock.
ReadAgain(p) == reset[verifier[p].seen] = verifier[p].challenge

\* The end of CompletePasswordResetChallenge.  Sessions has its revocations.
CompletePasswordResetChallenge(p) ==
    LET u == verifier[p].seen
        c == verifier[p].challenge
    IN  /\ verifier[p].pc = "verified"
        /\ ReadAgain(p) /\ PasswordResetEligibility(u, challenge[c].email)
        /\ reset' = [reset EXCEPT ![u] = Nobody]
        /\ Consume(p)
        /\ UNCHANGED <<account, change, verification, withdrawn>>

\* A refusal or an error at any point, and a request that is abandoned.
Rollback(p) ==
    /\ verifier[p].pc # "idle"
    /\ Step(p, NoRequest)
    /\ UNCHANGED <<tick, account, login, challenge, mailVars, pendingVars, wrong, withdrawn, proven>>

-----------------------------------------------------------------------------
(* What happens around them.                                               *)

SignIn(u, s) ==
    /\ Exists(u) /\ login[s] = Nobody
    /\ login' = [login EXCEPT ![s] = u]
    /\ UNCHANGED <<tick, account, challenge, mailVars, pendingVars, verifier, wrong, withdrawn, proven>>

\* A logout, a revocation or the end of the session's time.
EndSession(s) ==
    /\ login[s] # Nobody
    /\ login' = [login EXCEPT ![s] = Nobody]
    /\ UNCHANGED <<tick, account, challenge, mailVars, pendingVars, verifier, wrong, withdrawn, proven>>

\* ChangePassword, SetPassword, AddPassword and the removal of a password
\* cancel the user's reset, under the user's lock.
ReplacePassword(u, password) ==
    /\ Exists(u)
    /\ account' = [account EXCEPT ![u].password = password]
    /\ reset' = [reset EXCEPT ![u] = Nobody]
    /\ withdrawn' = withdrawn \cup ({reset[u]} \ {Nobody})
    /\ UNCHANGED <<tick, login, challenge, mailVars, change, verification, verifier, wrong, proven>>

\* The rows that go with challenges: ON DELETE CASCADE.  A transaction of a
\* required verification, though, has ON DELETE SET NULL for its challenge and a
\* CHECK that challenge and target are given together: while one refers to a
\* challenge the DELETE fails, and its batch or the account's deletion with it.
CascadeFrom(C) ==
    /\ \A u \in Accounts : verification[u].challenge \notin C
    /\ challenge' = [c \in ChallengeIds |->
            IF c \in C THEN [NoChallenge EXCEPT !.purpose = "deleted"] ELSE challenge[c]]
    /\ code' = [c \in ChallengeIds |-> IF c \in C THEN NoCode ELSE code[c]]
    /\ mail' = [j \in Mails |-> IF mail[j].challenge \in C
                                THEN [NoMail EXCEPT !.status = "deleted"] ELSE mail[j]]

\* DeleteExpiredChallenges passes over a locked row.
DeleteExpiredChallenge(c) ==
    /\ Live(c) /\ ~Held(c) /\ challenge[c].expires < tick
    /\ CascadeFrom({c})
    /\ reset' = [u \in Accounts |-> IF reset[u] = c THEN Nobody ELSE reset[u]]
    /\ change' = [u \in Accounts |-> IF change[u].challenge = c THEN NoChange ELSE change[u]]
    /\ UNCHANGED <<tick, account, login, verification, verifier, wrong, withdrawn, proven>>

DeleteExpiredVerification(u) ==
    /\ verification[u] # NoVerification /\ verification[u].expires < tick
    /\ verification' = [verification EXCEPT ![u] = NoVerification]
    /\ UNCHANGED <<tick, account, login, challenge, mailVars, reset, change, verifier, wrong, withdrawn, proven>>

\* DeleteUserEmailReferences and the cascades from the user's row.
DeleteAccount(u) ==
    LET C == {c \in ChallengeIds : challenge[c].email = account[u].email}
    IN  /\ Exists(u) /\ \A c \in C : ~Held(c)
        /\ CascadeFrom(C)
        /\ account' = [account EXCEPT ![u] = NoAccount]
        /\ login' = [s \in Logins |-> IF login[s] = u THEN Nobody ELSE login[s]]
        /\ reset' = [v \in Accounts |-> IF v = u \/ reset[v] \in C THEN Nobody ELSE reset[v]]
        /\ change' = [v \in Accounts |->
                IF v = u \/ change[v].challenge \in C \/ account[u].email \in {change[v].old, change[v].new}
                THEN NoChange ELSE change[v]]
        /\ verification' = [verification EXCEPT ![u] = NoVerification]
        /\ UNCHANGED <<tick, verifier, wrong, withdrawn, proven>>

ChallengesTick ==
    /\ tick < LastTick /\ tick' = tick + 1
    /\ UNCHANGED <<account, login, challenge, mailVars, pendingVars, verifier, wrong, withdrawn, proven>>

-----------------------------------------------------------------------------
\* One user, whose address is not verified.
ChallengesInit ==
    /\ tick = 0
    /\ \E u \in Accounts, e \in Emails :
        account = [v \in Accounts |->
            IF v = u THEN [email |-> e, verified |-> FALSE, password |-> TRUE] ELSE NoAccount]
    /\ login = [s \in Logins |-> Nobody]
    /\ challenge = [c \in ChallengeIds |-> NoChallenge]
    /\ code = [c \in ChallengeIds |-> NoCode]
    /\ reset = [u \in Accounts |-> Nobody]
    /\ change = [u \in Accounts |-> NoChange]
    /\ verification = [u \in Accounts |-> NoVerification]
    /\ mail = [j \in Mails |-> NoMail]
    /\ verifier = [p \in Verifiers |-> NoRequest]
    /\ wrong = [c \in ChallengeIds |-> 0]
    /\ withdrawn = {} /\ proven = {}

CreateNext ==
    \E c \in ChallengeIds, e \in Emails, at \in RequestTimes :
        \/ \E purpose \in Purposes : CreateOpaqueChallenge(c, purpose, e, at)
        \/ \E j \in Mails :
            \/ CreateSignupChallenge(c, j, e, at)
            \/ \E u \in Accounts :
                \/ CreatePasswordResetChallenge(c, j, u, e, at)
                \/ CreateRequiredEmailVerificationChallenge(c, j, u, e, at)
                \/ \E s \in Logins : CreateEmailChangeChallenge(c, j, u, s, e, at)

DeliverNext ==
    \E j \in Mails :
        \/ \E at \in RequestTimes : ClaimMail(j, at)
        \/ GenerateCodeForDelivery(j) \/ MailRetried(j)
        \/ \E stamped \in BOOLEAN : MailSent(j, stamped)

VerifyNext ==
    \E p \in Verifiers :
        \/ \E c \in ChallengeIds, at \in RequestTimes : LockChallenge(p, c, at)
        \/ CompletePasswordResetChallenge(p) \/ Rollback(p)
        \/ \E guess \in Codes :
            \/ WrongCode(p, guess)
            \/ \E u \in Accounts :
                \/ VerifySignupChallenge(p, guess, u) \/ CheckPasswordResetCode(p, guess, u)
                \/ CompleteRequiredEmailVerification(p, guess, u)
                \/ \E s \in Logins : CompleteEmailChangeChallenge(p, guess, u, s)

AccountNext ==
    \E u \in Accounts :
        \/ DeleteAccount(u) \/ DeleteExpiredVerification(u)
        \/ \E password \in BOOLEAN : ReplacePassword(u, password)
        \/ \E s \in Logins, at \in RequestTimes : BeginRequiredEmailVerification(u, s, at)
        \/ \E s \in Logins : SignIn(u, s)

ChallengesNext ==
    \/ CreateNext \/ DeliverNext \/ VerifyNext \/ AccountNext \/ ChallengesTick
    \/ \E c \in ChallengeIds :
        \/ DeleteExpiredChallenge(c)
        \/ \E j \in Mails, at \in RequestTimes : ResendChallenge(c, j, at)
    \/ \E s \in Logins : EndSession(s)

ChallengesSpec == ChallengesInit /\ [][ChallengesNext]_challengesVars

-----------------------------------------------------------------------------
(* Properties.                                                             *)

ChallengesTypeOK ==
    /\ tick \in 0 .. LastTick
    /\ account \in [Accounts -> [email : Emails \cup {Nobody}, verified : BOOLEAN, password : BOOLEAN]]
    /\ login \in [Logins -> Accounts \cup {Nobody}]
    /\ \A c \in ChallengeIds :
        /\ challenge[c].lastSent \in -1 .. LastTick
        /\ challenge[c].attempts \in 0 .. MaxAttempts
        /\ challenge[c].resends \in 0 .. challenge[c].maxResends
    /\ \A c \in ChallengeIds : code[c].value \in Mails \cup {Nobody}
    /\ reset \in [Accounts -> ChallengeIds \cup {Nobody}]
    /\ withdrawn \subseteq ChallengeIds /\ proven \subseteq Emails

\* However many requests try codes at once, no more wrong ones are compared with
\* the code of a challenge than its attempt limit allows (verifyChallenge).
GuessesBounded == ChallengesTypeOK /\ \A c \in ChallengeIds : wrong[c] <= MaxAttempts

\* A verified address had its code entered: of the challenge that was mailed to
\* that very address, whatever was requested, changed or begun again since
\* (executeEmailChange, CompleteRequiredEmailVerification, VerifySignupChallenge).
VerifiedIsProven == \A u \in Accounts : account[u].verified => account[u].email \in proven

\* A reset that a newer one superseded, or that a change of the password or the
\* address cancelled, no longer changes a password, even when its code was
\* accepted before (CompletePasswordResetChallenge reads the action again); and
\* that code went to the address that the user has now (requirePasswordResetEligibility).
ResetsCurrent ==
    [][\A p \in Verifiers :
          LET c == verifier[p].challenge
          IN  (verifier[p].pc = "verified" /\ challenge'[c].consumed) =>
                  c \notin withdrawn /\ challenge[c].email = account[verifier[p].seen].email]_challengesVars

\* docs/configuration/email.md: "An explicit resend creates a new job,
\* Message-ID, and code, making that new code authoritative": the code of a
\* resend is not replaced by the code of an earlier email.
ResendAuthoritative ==
    [][\A c \in ChallengeIds :
          (code[c].value \in Mails /\ code'[c].value \in Mails)
              => mail[code'[c].value].nth >= mail[code[c].value].nth]_challengesVars
=============================================================================
