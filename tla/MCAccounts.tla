----------------------------- MODULE MCAccounts -----------------------------
(* Challenges and credentials in one run.  A behaviour belongs to one part, *)
(* whose operations and bounds it keeps to, so that the state spaces of the *)
(* parts add up instead of multiplying.                                     *)
EXTENDS Challenges, Credentials, TLC

VARIABLE part

Symmetry == Permutations(Emails) \cup Permutations(Verifiers)

\* Rows are created in the order of their ids: their names do not matter.
InOrder(table, unused) == \A x \in DOMAIN table : x > 1 /\ table[x] # unused => table[x - 1] # unused
ChallengesInOrder == InOrder(challenge', NoChallenge) /\ InOrder(mail', NoMail)
CredentialsInOrder ==
    /\ InOrder(ceremony', NoCeremony) /\ InOrder(signin', NoSignin)
    /\ InOrder(passkey', NoPasskey) /\ InOrder(link', NoLink)
\* At most n elements of a table are used.
Uses(table, unused, n) == Cardinality({x \in DOMAIN table : table[x] # unused}) <= n

-----------------------------------------------------------------------------
(* Challenges, by purpose.                                                 *)

Purposed(P, ids, verifiers) ==
    /\ \A c \in ChallengeIds : challenge'[c].purpose \in P \cup {"none", "deleted"}
    /\ Uses(challenge', NoChallenge, ids) /\ Uses(verifier', NoRequest, verifiers)
\* Two purposes at once: no resends, retries or stamps, no wrong codes, no challenge of
\* an unknown address.
Crossing == /\ tick' <= 1 /\ wrong' = wrong
            /\ \A j \in Mails : mail'[j].status # "sent" /\ (mail'[j].attempts > 0 => mail'[j].status # "pending")
            /\ \A c \in ChallengeIds : ~challenge'[c].opaque /\ challenge'[c].resends = 0

ChallengeScope ==
    \/ part = "signup" /\ Purposed({"signup"}, 1, 2) /\ tick' <= 1
    \/ part = "reset" /\ Purposed({"password_reset"}, 2, 1) /\ tick' <= 1 /\ UNCHANGED <<login, wrong>>
    \/ part = "change" /\ Purposed({"password_reset", "email_change"}, 2, 1) /\ Crossing
    \/ part = "verify" /\ Purposed({"email_verification"}, 1, 1)
    \/ part = "verifyAndReset" /\ Purposed({"email_verification", "password_reset"}, 2, 1) /\ Crossing

-----------------------------------------------------------------------------
(* Credentials, by group of operations.                                    *)

Ops(S) == \A c \in Clients : request'[c].op \in S \cup {"idle"}
\* One user only.
Solo == Cardinality({request'[c].holder : c \in Clients} \cup {ceremony'[x].holder : x \in Ceremonies}
                    \cup {passkey'[k].owner : k \in Keys} \cup {Nothing}) <= 2
RecentSignin == Uses(signin', NoSignin, 1) /\ \A s \in Signins : signin'[s] = NoSignin \/ signin'[s].recent

CredentialScope ==
    \/ /\ part = "methods" /\ Ops({"unlink", "deletePasskey", "setPassword"}) /\ Solo
       /\ Uses(ceremony', NoCeremony, 2) /\ \A k \in Keys : passkey'[k].count = 0
       /\ \A x \in Ceremonies : ceremony'[x].purpose # "authentication" /\ ~ceremony'[x].expired
       /\ UNCHANGED <<link, reauth, cloneResponse, signin>>
    \/ /\ part = "upgrade" /\ Ops({"login", "setPassword", "unlink"})
       /\ UNCHANGED <<link, signin, ceremony>>
    \/ /\ part = "links" /\ Ops({"link", "replace"}) /\ RecentSignin
       /\ \A l \in Links : link'[l].provider # "apple"
       /\ UNCHANGED <<reauth, ceremony, cloneResponse>>
    \/ /\ part = "relink" /\ Ops({"link", "unlink"}) /\ Solo /\ RecentSignin
       /\ Uses(link', NoLink, 1) /\ UNCHANGED <<reauth, ceremony, cloneResponse>>
    \/ /\ part = "passkeys" /\ Ops({"passkey"}) /\ Solo /\ RecentSignin
       /\ Uses(passkey', NoPasskey, 1) /\ \A x \in Ceremonies : ~ceremony'[x].expired
       /\ \A s \in Signins : signin'[s] # NoSignin => signin'[s].key # Nothing
       /\ UNCHANGED <<password, identity, link, reauth, cloneResponse>>
    \/ /\ part = "reauth" /\ Ops({"reauth"}) /\ Solo /\ Uses(signin', NoSignin, 1)
       /\ Uses(ceremony', NoCeremony, 2) /\ UNCHANGED <<password, identity, link, cloneResponse>>

-----------------------------------------------------------------------------

ChallengeParts == {"signup", "reset", "change", "verify", "verifyAndReset"}
CredentialParts == {"methods", "upgrade", "links", "relink", "passkeys", "reauth"}

\* The steps of CredentialsNext, where they belong to the part.
CredentialStep ==
    \E c \in Clients :
        \/ part \in {"methods", "upgrade", "relink"} /\ MethodsNext(c)
        \/ part \in {"links", "passkeys", "reauth"} /\ Abandon(c)
        \/ part \in {"links", "relink"} /\ LinksNext(c)
        \/ part \in {"methods", "passkeys", "reauth"} /\ PasskeysNext(c)
        \/ part \notin {"methods", "upgrade"} /\ SigninsNext(c)

\* What a part does not use has one initial value.
AccountsInit ==
    /\ part \in ChallengeParts \cup CredentialParts
    /\ ChallengesInit /\ CredentialsInit
    /\ part \notin {"methods", "upgrade", "links"} =>
        password = [h \in Holders |-> [word |-> 1, old |-> TRUE]]
    /\ part # "passkeys" => cloneResponse = "alert"

AccountsNext ==
    /\ part' = part
    /\ \/ part \in ChallengeParts /\ ChallengesNext /\ ChallengeScope /\ ChallengesInOrder
          /\ UNCHANGED credentialsVars
       \/ part \in CredentialParts /\ CredentialStep /\ CredentialScope /\ CredentialsInOrder
          /\ UNCHANGED challengesVars

AccountsSpec == AccountsInit /\ [][AccountsNext]_<<part, challengesVars, credentialsVars>>
=============================================================================
