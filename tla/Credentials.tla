----------------------------- MODULE Credentials -----------------------------
(***************************************************************************)
(* The ways a user signs in: a password, identities at providers, and      *)
(* passkeys; how they are added, linked, replaced and removed, and the     *)
(* WebAuthn ceremonies that prove a passkey.                               *)
(*                                                                         *)
(* A request is a transaction with several steps.  Its row locks on users  *)
(* and ceremonies are the fields holder and ceremony of a request that is  *)
(* past the step that takes them; what it read before is in seen.  Any     *)
(* request may fail and roll back at any point.                            *)
(***************************************************************************)
EXTENDS Integers, FiniteSets, Sequences

CONSTANTS
    Holders,       \* users
    Providers,     \* identity providers
    Subjects,      \* accounts at a provider
    Keys,          \* bound: passkeys ever registered
    Ceremonies,    \* bound: WebAuthn challenges ever created
    Links,         \* bound: pending provider links ever created
    Signins,       \* bound: sessions ever created
    Clients,       \* bound: concurrent requests
    Responses,     \* responses to a sign counter that did not rise
    MaxCount,      \* bound: the highest sign counter
    MaxWord,       \* bound: passwords ever set, numbered from 1
    MaxReauth,     \* bound: authentication challenges of one session, numbered from 1
    Nothing

ASSUME CredentialsAssumption ==
    /\ MaxCount \in Nat /\ MaxWord \in Nat \ {0} /\ MaxReauth \in Nat
    /\ Responses \subseteq {"alert", "restrict", "restrict_and_revoke"}
    /\ IsFiniteSet(Providers) /\ IsFiniteSet(Keys)
    /\ Nothing \notin Holders \cup Subjects \cup Keys \cup Ceremonies \cup Links \cup Signins

VARIABLES
    password,      \* auth_providers, the password: its number, and whether its hash is an old one
    identity,      \* auth_providers, the others: the subject at each provider
    passkey,       \* table passkeys
    ceremony,      \* table webauthn_challenges
    link,          \* table pending_provider_links
    signin,        \* table sessions, and how each was authenticated
    reauth,        \* table authentication_challenges, one row for each session
    cloneResponse, \* AUTHARA_PASSKEY_CLONE_RESPONSE
    request,       \* requests under way
    lastWord,      \* the number of the latest password
    accepted       \* history: sign counters accepted without a warning

credentialsVars == <<password, identity, passkey, ceremony, link, signin, reauth, cloneResponse,
                     request, lastWord, accepted>>

NoPassword == [word |-> 0, old |-> FALSE]
NoPasskey == [owner |-> Nothing, count |-> 0, warned |-> FALSE, restricted |-> "no"]
NoCeremony == [purpose |-> "none", holder |-> Nothing, signin |-> Nothing, used |-> FALSE,
               expired |-> FALSE, uses |-> 0]
NoLink == [purpose |-> "none", holder |-> Nothing, signin |-> Nothing, provider |-> Nothing,
           subject |-> Nothing, moved |-> FALSE, used |-> FALSE, expired |-> FALSE]
NoReauth == [id |-> 0, state |-> "none"]
NoSignin == [holder |-> Nothing, key |-> Nothing, live |-> FALSE, recent |-> FALSE]
Idle == [op |-> "idle", step |-> "idle", holder |-> Nothing, signin |-> Nothing, ceremony |-> Nothing,
         key |-> Nothing, count |-> 0, seen |-> NoPasskey, link |-> Nothing, provider |-> Nothing,
         subject |-> Nothing, word |-> NoPassword, tries |-> 0, reauth |-> 0]

\* CountAuthMethods: what the user can sign in with.
ActivePasskeys(h) == {k \in Keys : passkey[k].owner = h /\ passkey[k].restricted = "no"}
CountAuthMethods(h) ==
    (IF password[h].word > 0 THEN 1 ELSE 0)
        + Cardinality({p \in Providers : identity[h][p] # Nothing})
        + Cardinality(ActivePasskeys(h))

LinkedTo(p, subject) == {h \in Holders : identity[h][p] = subject}
IdentityFree(p, subject) == LinkedTo(p, subject) = {}

-----------------------------------------------------------------------------
(* Requests and their locks.                                               *)

Enter(c, r) == request[c] = Idle /\ request' = [request EXCEPT ![c] = r]
Advance(c, step) == request' = [request EXCEPT ![c].step = step]
Done(c) == request' = [request EXCEPT ![c] = Idle]
At(c, op, step) == request[c].op = op /\ request[c].step = step

\* The steps at which a request holds its user FOR UPDATE, and its ceremony.
Unlocked == {"idle", "start", "found", "proved", "verified", "upgrade", "failed", "read"}
HolderFree(c, h) ==
    \A q \in Clients \ {c} : request[q].holder = h => request[q].step \in Unlocked
CeremonyFree(c, x) ==
    \A q \in Clients \ {c} : request[q].ceremony = x => request[q].step \notin {"found", "locked"}

\* Mutant: LockUserForAuthMethodMutation takes no lock.
NoLock(c, h) == TRUE
\* LockUserForUpdate.
LockUserForUpdate(c, h) == HolderFree(c, h)

Abandon(c) ==
    /\ request[c] # Idle /\ Done(c)
    /\ UNCHANGED <<password, identity, passkey, ceremony, link, signin, reauth, cloneResponse,
                   lastWord, accepted>>

-----------------------------------------------------------------------------
(* Methods added and removed by their user.                                *)

BeginMutation(c, op, h, p, k) ==
    /\ Enter(c, [Idle EXCEPT !.op = op, !.step = "start", !.holder = h, !.provider = p, !.key = k])
    /\ UNCHANGED <<password, identity, passkey, ceremony, link, signin, reauth, cloneResponse,
                   lastWord, accepted>>

LockForMutation(c) ==
    /\ request[c].step = "start" /\ request[c].op \in {"unlink", "deletePasskey", "setPassword"}
    /\ LockUserForUpdate(c, request[c].holder)
    /\ Advance(c, "locked")
    /\ UNCHANGED <<password, identity, passkey, ceremony, link, signin, reauth, cloneResponse,
                   lastWord, accepted>>

\* The count of the methods, read before the removal.
MayUnlink(h) == CountAuthMethods(h) > 1
MayDeletePasskey(h, k) ==
    passkey[k].owner = h /\ (passkey[k].restricted = "no" => CountAuthMethods(h) > 1)

CheckRemoval(c) ==
    /\ request[c].step = "locked"
    /\ \/ request[c].op = "unlink" /\ MayUnlink(request[c].holder)
       \/ request[c].op = "deletePasskey" /\ MayDeletePasskey(request[c].holder, request[c].key)
    /\ Advance(c, "counted")
    /\ UNCHANGED <<password, identity, passkey, ceremony, link, signin, reauth, cloneResponse,
                   lastWord, accepted>>

\* The password, or the identity at a provider; Challenges has the resets that
\* go with the password.
UnlinkAuthProvider(c) ==
    LET h == request[c].holder  p == request[c].provider
    IN  /\ At(c, "unlink", "counted")
        /\ IF p = "password"
           THEN /\ password[h].word > 0
                /\ password' = [password EXCEPT ![h] = NoPassword]
                /\ UNCHANGED identity
           ELSE /\ identity[h][p] # Nothing
                /\ identity' = [identity EXCEPT ![h][p] = Nothing]
                /\ UNCHANGED password
        /\ Done(c)
        /\ UNCHANGED <<passkey, ceremony, link, signin, reauth, cloneResponse, lastWord, accepted>>

DeletePasskey(c) ==
    LET k == request[c].key
    IN  /\ At(c, "deletePasskey", "counted") /\ passkey[k].owner = request[c].holder
        /\ passkey' = [passkey EXCEPT ![k] = [NoPasskey EXCEPT !.restricted = "deleted"]]
        /\ Done(c)
        /\ UNCHANGED <<password, identity, ceremony, link, signin, reauth, cloneResponse, lastWord, accepted>>

\* AddPassword and SetPassword; Sessions has the revocations of the second.
AddPassword(c) ==
    LET h == request[c].holder
    IN  /\ At(c, "setPassword", "locked") /\ password[h].word = 0 /\ lastWord < MaxWord
        /\ password' = [password EXCEPT ![h] = [word |-> lastWord + 1, old |-> FALSE]]
        /\ lastWord' = lastWord + 1
        /\ Done(c)
        /\ UNCHANGED <<identity, passkey, ceremony, link, signin, reauth, cloneResponse, accepted>>

\* ChangePassword, and the end of a password reset.
UpdatePasswordHash(c) ==
    LET h == request[c].holder
    IN  /\ At(c, "setPassword", "locked") /\ password[h].word > 0 /\ lastWord < MaxWord
        /\ password' = [password EXCEPT ![h] = [word |-> lastWord + 1, old |-> FALSE]]
        /\ lastWord' = lastWord + 1
        /\ Done(c)
        /\ UNCHANGED <<identity, passkey, ceremony, link, signin, reauth, cloneResponse, accepted>>

-----------------------------------------------------------------------------
(* Password logins replace a hash made with old parameters.                *)

\* The right password: Login goes on to a session, here or after the upgrade.
LoginWithPassword(c, h) ==
    /\ password[h].word > 0 /\ password[h].old
    /\ Enter(c, [Idle EXCEPT !.op = "login", !.step = "upgrade", !.holder = h, !.word = password[h]])
    /\ UNCHANGED <<password, identity, passkey, ceremony, link, signin, reauth, cloneResponse,
                   lastWord, accepted>>

\* Mutant: the hash is replaced whatever it has become.
SwapAnyway(h, stored) == password[h].word > 0
\* CompareAndSwapPasswordHash.
CompareAndSwapPasswordHash(h, stored) == password[h] = stored

UpgradePasswordHash(c) ==
    LET h == request[c].holder
    IN  /\ At(c, "login", "upgrade")
        /\ IF CompareAndSwapPasswordHash(h, request[c].word)
           THEN /\ password' = [password EXCEPT ![h] = [word |-> request[c].word.word, old |-> FALSE]]
                /\ Done(c)
           ELSE Advance(c, "failed") /\ UNCHANGED password
        /\ UNCHANGED <<identity, passkey, ceremony, link, signin, reauth, cloneResponse, lastWord, accepted>>

\* The stored hash is read again and must still be that of the password given;
\* two attempts.
VerifyAgain(c) ==
    LET h == request[c].holder
        again == password[h].word = request[c].word.word /\ password[h].old /\ request[c].tries = 0
    IN  /\ At(c, "login", "failed")
        /\ IF again
           THEN request' = [request EXCEPT ![c].step = "upgrade", ![c].word = password[h], ![c].tries = 1]
           ELSE Done(c)
        /\ UNCHANGED <<password, identity, passkey, ceremony, link, signin, reauth, cloneResponse,
                       lastWord, accepted>>

-----------------------------------------------------------------------------
(* Identities are linked by a pending link.                                *)

CreateLink(l, new) ==
    /\ link[l] = NoLink
    /\ link' = [link EXCEPT ![l] = new]
    /\ UNCHANGED <<password, identity, passkey, ceremony, signin, reauth, cloneResponse, request,
                   lastWord, accepted>>

\* By a signed-in user, bound to the session.
StartProviderLink(l, s, p) ==
    /\ signin[s].live
    /\ CreateLink(l, [NoLink EXCEPT !.purpose = "link", !.holder = signin[s].holder, !.signin = s,
                                    !.provider = p])

\* After a login with an identity that is unknown but has the address of a user.
StartAccountRecoveryProviderLink(l, h, p, subject) ==
    /\ IdentityFree(p, subject)
    /\ CreateLink(l, [NoLink EXCEPT !.purpose = "recovery", !.holder = h, !.provider = p,
                                    !.subject = subject])

\* The user's address changes, and is no longer that of the link.
ChangeAddress(h) ==
    /\ \E l \in Links : link[l].purpose = "recovery" /\ link[l].holder = h /\ ~link[l].moved
    /\ link' = [l \in Links |-> IF link[l].purpose = "recovery" /\ link[l].holder = h
                                THEN [link[l] EXCEPT !.moved = TRUE] ELSE link[l]]
    /\ UNCHANGED <<password, identity, passkey, ceremony, signin, reauth, cloneResponse, request,
                   lastWord, accepted>>

ExpireLink(l) ==
    /\ link[l] # NoLink /\ ~link[l].expired
    /\ link' = [link EXCEPT ![l].expired = TRUE]
    /\ UNCHANGED <<password, identity, passkey, ceremony, signin, reauth, cloneResponse, request,
                   lastWord, accepted>>

Usable(l) == ~link[l].used /\ ~link[l].expired

\* The reads of completeProviderLink, which lock nothing.
ReadLink(c, l, s, subject) ==
    /\ Usable(l) /\ link[l].purpose = "link" /\ link[l].signin = s /\ link[l].holder = signin[s].holder
    /\ Enter(c, [Idle EXCEPT !.op = "link", !.step = "read", !.holder = link[l].holder, !.link = l,
                             !.provider = link[l].provider, !.subject = subject])
    /\ UNCHANGED <<password, identity, passkey, ceremony, link, signin, reauth, cloneResponse,
                   lastWord, accepted>>

\* Those of CompleteAccountRecoveryProviderLinkWithPassword.
ReadRecoveryByPassword(c, l) ==
    /\ Usable(l) /\ link[l].purpose = "recovery" /\ ~link[l].moved
    /\ password[link[l].holder].word > 0
    /\ IdentityFree(link[l].provider, link[l].subject)
    /\ Enter(c, [Idle EXCEPT !.op = "link", !.step = "read", !.holder = link[l].holder, !.link = l,
                             !.provider = link[l].provider, !.subject = link[l].subject])
    /\ UNCHANGED <<password, identity, passkey, ceremony, link, signin, reauth, cloneResponse,
                   lastWord, accepted>>

\* Those of CompleteAccountRecoveryProviderLinkWithProviderProof: an identity of
\* the user at the same provider is replaced.
ReadRecoveryByProof(c, l, p, subject) ==
    /\ Usable(l) /\ link[l].purpose = "recovery" /\ ~link[l].moved
    /\ LinkedTo(p, subject) = {link[l].holder}
    /\ IdentityFree(link[l].provider, link[l].subject)
    /\ Enter(c, [Idle EXCEPT !.op = IF p = link[l].provider THEN "replace" ELSE "link",
                             !.step = "read", !.holder = link[l].holder, !.link = l,
                             !.provider = link[l].provider, !.subject = link[l].subject])
    /\ UNCHANGED <<password, identity, passkey, ceremony, link, signin, reauth, cloneResponse,
                   lastWord, accepted>>

\* Mutant: a link that has been consumed is consumed again.
ConsumeAgain(l) == ~link[l].expired /\ link' = [link EXCEPT ![l].used = TRUE]
\* ConsumePendingProviderLink changes a link that is not consumed only.
ConsumePendingProviderLink(l) == Usable(l) /\ link' = [link EXCEPT ![l].used = TRUE]

\* linkExternalIdentityToUser.
LinkExternalIdentity(h, p, subject) ==
    \/ identity[h][p] = subject /\ UNCHANGED identity
    \/ /\ IdentityFree(p, subject) /\ identity[h][p] = Nothing
       /\ \A c \in Clients : request[c].holder = h => request[c].step \in Unlocked
       /\ identity' = [identity EXCEPT ![h][p] = subject]

CompleteLink(c) ==
    LET h == request[c].holder  p == request[c].provider
    IN  /\ request[c].step = "read"
        /\ ConsumePendingProviderLink(request[c].link)
        /\ \/ request[c].op = "link" /\ LinkExternalIdentity(h, p, request[c].subject)
           \/ /\ request[c].op = "replace"
              /\ identity[h][p] # Nothing /\ IdentityFree(p, request[c].subject)
              /\ identity' = [identity EXCEPT ![h][p] = request[c].subject]
        /\ Done(c)
        /\ UNCHANGED <<password, passkey, ceremony, signin, reauth, cloneResponse, lastWord, accepted>>

-----------------------------------------------------------------------------
(* Recent authentication.                                                  *)

\* One row for each session: the open challenge, or a new one in its place.
StartAuthenticationChallenge(s) ==
    /\ signin[s].live /\ reauth[s].state # "open" /\ reauth[s].id < MaxReauth
    /\ reauth' = [reauth EXCEPT ![s] = [id |-> @.id + 1, state |-> "open"]]
    /\ UNCHANGED <<password, identity, passkey, ceremony, link, signin, cloneResponse, request,
                   lastWord, accepted>>

ExpireReauth(s) ==
    /\ reauth[s].state = "open"
    /\ reauth' = [reauth EXCEPT ![s].state = "expired"]
    /\ UNCHANGED <<password, identity, passkey, ceremony, link, signin, cloneResponse, request,
                   lastWord, accepted>>

\* The window of RequireRecentAuthentication passes.
AgeAuthentication(s) ==
    /\ signin[s].recent
    /\ signin' = [signin EXCEPT ![s].recent = FALSE]
    /\ UNCHANGED <<password, identity, passkey, ceremony, link, reauth, cloneResponse, request,
                   lastWord, accepted>>

ValidateAuthenticationChallenge(s) == reauth[s].state = "open"

\* With the password or an identity of the user.
ProveIdentity(c, s) ==
    /\ ValidateAuthenticationChallenge(s)
    /\ \/ password[signin[s].holder].word > 0
       \/ \E p \in Providers : identity[signin[s].holder][p] # Nothing
    /\ Enter(c, [Idle EXCEPT !.op = "reauth", !.step = "proved", !.holder = signin[s].holder,
                             !.signin = s, !.reauth = reauth[s].id])
    /\ UNCHANGED <<password, identity, passkey, ceremony, link, signin, reauth, cloneResponse,
                   lastWord, accepted>>

\* The challenge is checked again, under locks on the session and on itself.
StillOpen(c) ==
    /\ signin[request[c].signin].live
    /\ reauth[request[c].signin] = [id |-> request[c].reauth, state |-> "open"]

CompleteAuthenticationChallenge(c) ==
    LET s == request[c].signin
    IN  /\ At(c, "reauth", "proved") /\ StillOpen(c)
        /\ signin' = [signin EXCEPT ![s].recent = TRUE]
        /\ reauth' = [reauth EXCEPT ![s].state = "used"]
        /\ Done(c)
        /\ UNCHANGED <<password, identity, passkey, ceremony, link, cloneResponse, lastWord, accepted>>

-----------------------------------------------------------------------------
(* Passkeys.                                                               *)

CreateCeremony(x, new) ==
    /\ ceremony[x] = NoCeremony
    /\ ceremony' = [ceremony EXCEPT ![x] = new]
    /\ UNCHANGED <<password, identity, passkey, link, signin, reauth, cloneResponse, request,
                   lastWord, accepted>>

BeginRegistration(x, h) ==
    CreateCeremony(x, [NoCeremony EXCEPT !.purpose = "registration", !.holder = h])

BeginLogin(x) == CreateCeremony(x, [NoCeremony EXCEPT !.purpose = "authentication"])

BeginReauthentication(x, s) ==
    /\ signin[s].live /\ ActivePasskeys(signin[s].holder) # {}
    /\ CreateCeremony(x, [NoCeremony EXCEPT !.purpose = "reauthentication",
                                            !.holder = signin[s].holder, !.signin = s])

ExpireCeremony(x) ==
    /\ ceremony[x].purpose # "none" /\ ~ceremony[x].expired
    /\ ceremony' = [ceremony EXCEPT ![x].expired = TRUE]
    /\ UNCHANGED <<password, identity, passkey, link, signin, reauth, cloneResponse, request,
                   lastWord, accepted>>

\* loadChallengeSession: FOR UPDATE, neither used nor expired.
LoadChallenge(c, x, purpose) ==
    /\ CeremonyFree(c, x)
    /\ ceremony[x].purpose = purpose /\ ~ceremony[x].used /\ ~ceremony[x].expired

\* ConsumeWebAuthnChallenge.
ConsumeWebAuthnChallenge(x) ==
    /\ ~ceremony[x].used
    /\ ceremony' = [ceremony EXCEPT ![x].used = TRUE, ![x].uses = @ + 1]

\* A new credential, whose ID no other passkey has.
FinishRegistration(c, x, h, k, count) ==
    /\ request[c] = Idle /\ LoadChallenge(c, x, "registration") /\ ceremony[x].holder = h
    /\ passkey[k] = NoPasskey /\ HolderFree(c, h)
    /\ passkey' = [passkey EXCEPT ![k] = [NoPasskey EXCEPT !.owner = h, !.count = count]]
    /\ ConsumeWebAuthnChallenge(x)
    /\ UNCHANGED <<password, identity, link, signin, reauth, cloneResponse, request, lastWord, accepted>>

\* FinishLogin finds the passkey of the assertion.
FindPasskey(c, x, k, count) ==
    /\ LoadChallenge(c, x, "authentication") /\ passkey[k].owner # Nothing
    /\ Enter(c, [Idle EXCEPT !.op = "passkey", !.step = "found", !.ceremony = x, !.key = k,
                             !.holder = passkey[k].owner, !.count = count, !.seen = passkey[k]])
    /\ UNCHANGED <<password, identity, passkey, ceremony, link, signin, reauth, cloneResponse,
                   lastWord, accepted>>

\* FinishReauthentication: a ceremony of the user and of the live session.
FindOwnPasskey(c, x, s, k, count) ==
    /\ ValidateAuthenticationChallenge(s)
    /\ signin[s].live /\ LoadChallenge(c, x, "reauthentication")
    /\ ceremony[x].holder = signin[s].holder /\ ceremony[x].signin = s
    /\ passkey[k].owner = signin[s].holder
    /\ Enter(c, [Idle EXCEPT !.op = "reauth", !.step = "found", !.ceremony = x, !.key = k, !.signin = s,
                             !.holder = signin[s].holder, !.count = count, !.seen = passkey[k],
                             !.reauth = reauth[s].id])
    /\ UNCHANGED <<password, identity, passkey, ceremony, link, signin, reauth, cloneResponse,
                   lastWord, accepted>>

LockPasskeyHolder(c) ==
    /\ request[c].op \in {"passkey", "reauth"} /\ request[c].step = "found"
    /\ HolderFree(c, request[c].holder)
    /\ Advance(c, "locked")
    /\ UNCHANGED <<password, identity, passkey, ceremony, link, signin, reauth, cloneResponse,
                   lastWord, accepted>>

\* Mutant: the passkey as it was before the lock.
SeenBeforeLock(c) == request[c].seen
\* lookupUserByCredential reads the passkey again.
LookupAgain(c) == passkey[request[c].key]

\* The sign counter of an assertion must rise, or be zero always; once given, a
\* warning stays (the WebAuthn library).
CloneWarning(stored, count) ==
    stored.warned \/ (count <= stored.count /\ (count # 0 \/ stored.count # 0))

\* applyAuthenticationResult.
Restricts(stored, count) == CloneWarning(stored, count) /\ cloneResponse # "alert"

Greater(a, b) == IF a > b THEN a ELSE b

AfterAuthentication(c) ==
    LET k == request[c].key  n == request[c].count  stored == LookupAgain(c)
        warns == CloneWarning(stored, n)
    IN  /\ passkey' = [passkey EXCEPT
                ![k].count = Greater(@, n),
                ![k].warned = @ \/ warns,
                ![k].restricted = IF ~Restricts(stored, n) THEN @
                                  ELSE IF cloneResponse = "restrict" THEN "kept" ELSE "revoked"]
        /\ accepted' = IF warns \/ n = 0 THEN accepted ELSE [accepted EXCEPT ![k] = Append(@, n)]
        /\ signin' = [s \in Signins |->
                IF Restricts(stored, n) /\ cloneResponse = "restrict_and_revoke"
                       /\ signin[s].holder = request[c].holder
                THEN [signin[s] EXCEPT !.live = FALSE] ELSE signin[s]]

\* The transaction commits; what is allowed goes on in another one.
Authenticate(c) ==
    /\ request[c].op \in {"passkey", "reauth"} /\ request[c].step = "locked"
    /\ LookupAgain(c).owner = request[c].holder /\ LookupAgain(c).restricted = "no"
    /\ passkey[request[c].key].owner = request[c].holder
    /\ AfterAuthentication(c)
    /\ ConsumeWebAuthnChallenge(request[c].ceremony)
    /\ IF Restricts(LookupAgain(c), request[c].count) THEN Done(c) ELSE Advance(c, "proved")
    /\ UNCHANGED <<password, identity, link, reauth, cloneResponse, lastWord>>

\* Mutant: any passkey of the user will do.
OwnPasskey(c) == passkey[request[c].key].owner = request[c].holder
\* createSession: the passkey is still there and not restricted.
PasskeyAvailable(c) ==
    passkey[request[c].key].owner = request[c].holder /\ passkey[request[c].key].restricted = "no"

CreatePasskeySession(c, s) ==
    /\ At(c, "passkey", "proved") /\ signin[s] = NoSignin
    /\ HolderFree(c, request[c].holder) /\ PasskeyAvailable(c)
    /\ signin' = [signin EXCEPT ![s] = [holder |-> request[c].holder, key |-> request[c].key,
                                        live |-> TRUE, recent |-> TRUE]]
    /\ Done(c)
    /\ UNCHANGED <<password, identity, passkey, ceremony, link, reauth, cloneResponse, lastWord, accepted>>

-----------------------------------------------------------------------------

\* The setting changes while requests are under way.
SetCloneResponse(r) ==
    /\ r # cloneResponse /\ cloneResponse' = r
    /\ UNCHANGED <<password, identity, passkey, ceremony, link, signin, reauth, request, lastWord, accepted>>

\* Users with a password of an old hash, or none.
CredentialsInit ==
    /\ password \in [Holders -> {NoPassword, [word |-> 1, old |-> TRUE]}]
    /\ identity = [h \in Holders |-> [p \in Providers |-> Nothing]]
    /\ passkey = [k \in Keys |-> NoPasskey]
    /\ ceremony = [x \in Ceremonies |-> NoCeremony]
    /\ link = [l \in Links |-> NoLink]
    /\ signin = [s \in Signins |-> NoSignin]
    /\ reauth = [s \in Signins |-> NoReauth]
    /\ cloneResponse \in Responses
    /\ request = [c \in Clients |-> Idle]
    /\ lastWord = 1
    /\ accepted = [k \in Keys |-> <<>>]

\* A session of another kind of login.
OtherSignin(s, h) ==
    /\ signin[s] = NoSignin
    /\ password[h].word > 0 \/ \E p \in Providers : identity[h][p] # Nothing
    /\ signin' = [signin EXCEPT ![s] = [holder |-> h, key |-> Nothing, live |-> TRUE, recent |-> TRUE]]
    /\ UNCHANGED <<password, identity, passkey, ceremony, link, reauth, cloneResponse, request,
                   lastWord, accepted>>

MethodsNext(c) ==
    \/ \E h \in Holders : \/ BeginMutation(c, "setPassword", h, Nothing, Nothing)
                          \/ LoginWithPassword(c, h)
    \/ \E h \in Holders, p \in Providers \cup {"password"} : BeginMutation(c, "unlink", h, p, Nothing)
    \/ \E h \in Holders, k \in Keys : BeginMutation(c, "deletePasskey", h, Nothing, k)
    \/ LockForMutation(c) \/ CheckRemoval(c) \/ UnlinkAuthProvider(c) \/ DeletePasskey(c)
    \/ AddPassword(c) \/ UpdatePasswordHash(c) \/ UpgradePasswordHash(c) \/ VerifyAgain(c)
    \/ Abandon(c)

LinksNext(c) ==
    \/ \E l \in Links, s \in Signins, p \in Providers : StartProviderLink(l, s, p)
    \/ \E l \in Links, h \in Holders, p \in Providers, x \in Subjects :
        StartAccountRecoveryProviderLink(l, h, p, x)
    \/ \E l \in Links : ExpireLink(l) \/ ReadRecoveryByPassword(c, l)
    \/ \E h \in Holders : ChangeAddress(h)
    \/ \E l \in Links, s \in Signins, x \in Subjects : ReadLink(c, l, s, x)
    \/ \E l \in Links, p \in Providers, x \in Subjects : ReadRecoveryByProof(c, l, p, x)
    \/ CompleteLink(c)

PasskeysNext(c) ==
    \/ \E x \in Ceremonies, h \in Holders : BeginRegistration(x, h)
    \/ \E x \in Ceremonies : BeginLogin(x) \/ ExpireCeremony(x)
    \/ \E x \in Ceremonies, s \in Signins : BeginReauthentication(x, s)
    \/ \E x \in Ceremonies : request[c] = Idle /\ ceremony[x] # NoCeremony /\ ~ceremony[x].used /\
        \E k \in Keys, n \in 0..MaxCount :
            \/ \E h \in Holders : FinishRegistration(c, x, h, k, n)
            \/ FindPasskey(c, x, k, n)
            \/ \E s \in Signins : FindOwnPasskey(c, x, s, k, n)
    \/ LockPasskeyHolder(c) \/ Authenticate(c)
    \/ \E s \in Signins : CreatePasskeySession(c, s)
    \/ \E r \in Responses : SetCloneResponse(r)

SigninsNext(c) ==
    \/ \E s \in Signins : \/ StartAuthenticationChallenge(s) \/ ExpireReauth(s) \/ AgeAuthentication(s)
                          \/ ProveIdentity(c, s)
    \/ \E s \in Signins, h \in Holders : OtherSignin(s, h)
    \/ CompleteAuthenticationChallenge(c)

CredentialsNext ==
    \E c \in Clients : MethodsNext(c) \/ LinksNext(c) \/ PasskeysNext(c) \/ SigninsNext(c)

CredentialsSpec == CredentialsInit /\ [][CredentialsNext]_credentialsVars

-----------------------------------------------------------------------------
(* Properties.                                                             *)

\* Every variable holds what its table may hold, and no account at a provider
\* belongs to two users.
CredentialsTypeOK ==
    /\ password \in [Holders -> [word : 0..MaxWord, old : BOOLEAN]]
    /\ identity \in [Holders -> [Providers -> Subjects \cup {Nothing}]]
    /\ passkey \in [Keys -> [owner : Holders \cup {Nothing}, count : 0..MaxCount, warned : BOOLEAN,
                            restricted : {"no", "kept", "revoked", "deleted"}]]
    /\ lastWord \in 0..MaxWord /\ cloneResponse \in Responses
    /\ \A s \in Signins : signin[s].holder \in Holders \cup {Nothing} /\ reauth[s].id \in 0..MaxReauth
    /\ \A p \in Providers, x \in Subjects : Cardinality(LinkedTo(p, x)) <= 1

\* A user who has a way to sign in loses the last one by no removal, although
\* several methods are removed at once; only a restriction of the passkey takes
\* it away (ErrCannotRemoveLastAuthMethod).
MethodKept ==
    [][\A h \in Holders : CountAuthMethods(h) > 0 /\ CountAuthMethods(h)' = 0 =>
            \E k \in Keys : passkey[k].owner = h /\ passkey[k].restricted = "no"
                            /\ passkey'[k].restricted \in {"kept", "revoked"}]_credentialsVars

\* A password that was replaced or removed is never valid again: the upgrade of
\* its hash by a login that verified it before does not bring it back.
PasswordNotRevived ==
    [][\A h \in Holders : password'[h].word \notin {0, password[h].word} =>
            password'[h].word > lastWord]_credentialsVars

\* An existing user gets an identity only by a pending link for that user that
\* was still unused, and this step uses it up: two callbacks of one link give one
\* identity.  The identity with which a new user signs up is not among them: users
\* here exist from the start.
IdentityByLink ==
    [][\A h \in Holders, p \in Providers :
        identity'[h][p] \notin {identity[h][p], Nothing} =>
            \E l \in Links : /\ link[l].holder = h /\ link[l].provider = p
                             /\ ~link[l].used /\ link'[l].used]_credentialsVars

\* A ceremony proves a passkey once, and the counters of a passkey that pass
\* without a warning rise, although two devices use it at the same time: of two
\* logins with one counter, the second is noticed.
CeremonyOnce == \A x \in Ceremonies : ceremony[x].uses <= 1
ReplayNoticed ==
    /\ CredentialsTypeOK /\ CeremonyOnce
    /\ \A k \in Keys : \A i, j \in DOMAIN accepted[k] : i < j => accepted[k][i] < accepted[k][j]

\* When a passkey is restricted and the sessions are revoked, no session that
\* the passkey opened is live, even one whose login was accepted just before.
RestrictedShutOut ==
    \A s \in Signins : signin[s].live /\ signin[s].key # Nothing =>
        passkey[signin[s].key].restricted # "revoked"
=============================================================================
