--------------------------- MODULE DirectoryProofs ---------------------------
(***************************************************************************)
(* Proofs about Directory, for every finite set of users and of            *)
(* organizations, any number of invitations and of concurrent              *)
(* transactions, and every mode.                                           *)
(*                                                                         *)
(* The argument: what a transaction has decided stays true until it        *)
(* commits (Decisions), because it holds the locks of its kind (Holding),  *)
(* locks exclude each other (LocksExclude), and every write respects the   *)
(* locks of the other transactions (Respects).                             *)
(***************************************************************************)
EXTENDS Directory, FiniteSetTheorems, SequenceTheorems, TLAPS

-----------------------------------------------------------------------------
(* The inductive invariant: types.                                         *)

Fields == {"op", "actor", "user", "org", "invite", "new", "role", "past", "todo", "held",
           "listed", "checked"}
InvitationFields == {"status", "org", "for", "role", "by", "expired"}

Rows == {<<"role", "admin">>} \cup ({"user"} \X People) \cup ({"org"} \X Orgs) \cup ({"invite"} \X Invites)
Locks == [row : Rows, mode : {"update", "share"}]

\* What a request of each kind is about.
Requested(r) ==
    /\ r.op \in {"disable", "revokeAdmin", "deleteUser"} => r.user \in People
    /\ r.op \in {"removeMember", "updateMember", "transfer", "invite", "accept", "signup"} =>
           r.user \in People /\ r.org \in Orgs
    /\ r.op \in {"transfer", "invite", "revokeInvite"} => r.actor \in People
    /\ r.op = "transfer" => r.actor # r.user
    /\ r.op \in {"updateMember", "invite"} => r.role \in {"admin", "member"}
    /\ r.op \in {"deleteOrganization", "resend", "revokeInvite"} => r.org \in Orgs
    /\ r.op \in {"resend", "revokeInvite", "accept", "signup"} => r.invite \in Invites
    /\ r.op = "invite" => r.invite \in Invites \cup {NoOne}
    /\ r.op = "idle" => r = NoTxn

TxnTyped(r) ==
    /\ DOMAIN r = Fields
    /\ r.todo \in Seq(Locks) /\ r.held \subseteq Locks
    /\ r.listed \in BOOLEAN /\ r.checked \in BOOLEAN
    /\ r.checked => r.todo = <<>> /\ (r.op = "deleteUser" => r.listed)
    /\ r.listed => r.op = "deleteUser"
    /\ Requested(r)

TxnsTyped == DOMAIN txn = Txns /\ \A t \in Txns : TxnTyped(txn[t])

\* An invitation that is there is for a user, to an organization, not as its owner.
InvitationTyped(r) ==
    /\ DOMAIN r = InvitationFields
    /\ r.status \in {"absent", "pending", "accepted", "revoked", "deleted"}
    /\ IF r.status \in {"absent", "deleted"} THEN r.org = NoOne /\ r.for = NoOne
       ELSE r.org \in Orgs /\ r.for \in People /\ r.role \in {"admin", "member"}
            /\ r.by \in People \cup {NoOne}

InvitationsTyped == DOMAIN invitation = Invites /\ \A i \in Invites : InvitationTyped(invitation[i])

\* One owner, written without counting, and at most one organization in the single mode.
Owned ==
    \A o \in Orgs : Founded(o) =>
        \E w \in People : OwnersOf(o) = {w} /\ (Personal(o) => organization[o].by = w)
Single ==
    orgMode = "single" =>
        \A u \in People : \A o, p \in Orgs : member[o][u] # "none" /\ member[p][u] # "none" => o = p

Tables == DirectoryTypeOK /\ InvitationsTyped /\ Owned /\ Single

-----------------------------------------------------------------------------
(* The inductive invariant: locks.                                         *)

\* The locks of a request of each kind, the ones passed over when a row is gone
\* and the organizations of a user that is deleted left out.
Needs(r) ==
    CASE r.op \in {"disable", "revokeAdmin", "deleteUser"} ->
            {ForUpdate("role", "admin"), ForUpdate("user", r.user)}
      [] r.op \in {"removeMember", "updateMember", "deleteOrganization"} -> {ForUpdate("org", r.org)}
      [] r.op = "transfer" ->
            {KeyShare("user", r.actor), KeyShare("user", r.user), ForUpdate("org", r.org)}
      [] r.op = "invite" -> {KeyShare("user", r.actor), KeyShare("org", r.org)}
      [] r.op \in {"resend", "revokeInvite", "signup"} ->
            {KeyShare("org", r.org), ForUpdate("invite", r.invite)}
      [] r.op = "accept" ->
            {ForUpdate("user", r.user), KeyShare("org", r.org), ForUpdate("invite", r.invite)}
      [] OTHER -> {}

Pending(r) == {r.todo[n] : n \in DOMAIN r.todo}

\* A transaction holds the locks it needs or has yet to take them.
Holding(r) ==
    /\ Needs(r) \subseteq r.held \cup Pending(r)
    /\ r.listed => Needs(r) \subseteq r.held

LocksExclude ==
    \A t, q \in Txns : t # q =>
        \A k \in txn[t].held, l \in txn[q].held : k.row = l.row => k.mode = "share" /\ l.mode = "share"
RowsExist == \A t \in Txns : \A l \in txn[t].held : RowExists(l.row)

Locking == LocksExclude /\ RowsExist /\ \A t \in Txns : Holding(txn[t])

-----------------------------------------------------------------------------
(* The inductive invariant: what has been decided.                         *)

\* Another active administrator remains without this user.
OtherAdmin(u) == u \in ActiveAdmins => \E v \in ActiveAdmins : v # u

\* The organization of the invitation is the one that the request has looked up.
OfOrganization(r) ==
    /\ invitation[r.invite].status # "absent"
    /\ invitation[r.invite].status = "deleted" \/ invitation[r.invite].org = r.org

Decision(r) ==
    /\ r.op \in {"disable", "revokeAdmin"} /\ r.checked => OtherAdmin(r.user)
    /\ r.op \in {"removeMember", "updateMember"} /\ r.checked => member[r.org][r.user] # "owner"
    /\ r.op = "transfer" /\ r.checked => ~Personal(r.org)
    /\ r.op = "deleteUser" /\ r.listed =>
        /\ OtherAdmin(r.user)
        /\ \A o \in OrganizationsOf(r.user) : ForUpdate("org", o) \in r.held \cup Pending(r)
    /\ r.op = "deleteUser" /\ r.checked =>
        \A o \in Orgs : ForUpdate("org", o) \in r.held /\ member[o][r.user] = "owner" =>
            \/ OwnPersonal(o, r.user)
            \/ organization[o].kind = "team" /\ Cardinality(MembersOf(o)) = 1
    /\ r.op \in {"accept", "signup"} => OfOrganization(r)
    /\ r.op \in {"accept", "signup"} /\ r.checked =>
        invitation[r.invite].status = "deleted" \/ invitation[r.invite].for = r.user
    /\ r.op = "accept" /\ r.checked /\ orgMode = "single" =>
        (NotMember(r.org, r.user) => OrganizationsOf(r.user) = {})
    /\ r.op = "signup" => status[r.user] = "absent"

Decisions ==
    /\ \A t \in Txns : Decision(txn[t])
    /\ \A t, q \in Txns : t # q /\ txn[t].op = "signup" /\ txn[q].op = "signup" => txn[t].user # txn[q].user

IInv == TxnsTyped /\ Tables /\ Locking /\ Decisions

-----------------------------------------------------------------------------
(* Sequences of locks.                                                     *)

Taken(s) == {s[n] : n \in DOMAIN s}

\* The first lock and the others.
LEMMA TakeHead ==
    ASSUME NEW s \in Seq(Locks), s # <<>>
    PROVE  Head(s) \in Locks /\ Tail(s) \in Seq(Locks) /\ Taken(s) = {Head(s)} \cup Taken(Tail(s))
  <1>1. Len(s) \in Nat \ {0} /\ DOMAIN s = 1 .. Len(s)
    OBVIOUS
  <1>2. Head(s) = s[1] /\ Tail(s) \in Seq(Locks) /\ Len(Tail(s)) = Len(s) - 1
        /\ \A n \in 1 .. Len(s) - 1 : Tail(s)[n] = s[n + 1]
    BY <1>1
  <1>3. DOMAIN Tail(s) = 1 .. Len(s) - 1
    BY <1>1, <1>2
  <1>4. Taken(s) \subseteq {Head(s)} \cup Taken(Tail(s))
    <2>1. SUFFICES ASSUME NEW n \in 1 .. Len(s), n # 1 PROVE s[n] \in Taken(Tail(s))
      BY <1>1, <1>2 DEF Taken
    <2>2. n - 1 \in 1 .. Len(s) - 1 /\ s[n] = Tail(s)[n - 1]
      BY <1>1, <1>2, <2>1
    <2>3. QED
      BY <1>3, <2>2 DEF Taken
  <1>5. {Head(s)} \cup Taken(Tail(s)) \subseteq Taken(s)
    <2>1. Head(s) \in Taken(s)
      BY <1>1, <1>2 DEF Taken
    <2>2. ASSUME NEW n \in 1 .. Len(s) - 1 PROVE Tail(s)[n] \in Taken(s)
      <3>1. n + 1 \in 1 .. Len(s) /\ Tail(s)[n] = s[n + 1]
        BY <1>1, <1>2
      <3>2. QED
        BY <1>1, <3>1 DEF Taken
    <2>3. QED
      BY <1>3, <2>1, <2>2 DEF Taken
  <1>6. Head(s) \in Locks
    BY <1>1, <1>2
  <1>7. QED
    BY <1>2, <1>4, <1>5, <1>6

\* A sequence of two locks is told by its locks.
LEMMA PairOfLocks ==
    ASSUME NEW s \in Seq(Locks), NEW a \in Locks, NEW b \in Locks, Len(s) = 2, s[1] = a, s[2] = b
    PROVE  s = <<a, b>>
  <1> DEFINE t == <<a, b>>
  <1>1. t \in Seq(Locks) /\ Len(t) = 2 /\ t[1] = a /\ t[2] = b
    OBVIOUS
  <1> HIDE DEF t
  <1>2. \A n \in 1 .. Len(s) : s[n] = t[n]
    <2>1. \A n \in 1 .. 2 : n = 1 \/ n = 2
      OBVIOUS
    <2>2. QED
      BY <1>1, <2>1
  <1>3. s = t
    BY <1>1, <1>2, SeqEqual
  <1>4. QED
    BY <1>3 DEF t

\* The same for three.
LEMMA TripleOfLocks ==
    ASSUME NEW s \in Seq(Locks), NEW a \in Locks, NEW b \in Locks, NEW c \in Locks,
           Len(s) = 3, s[1] = a, s[2] = b, s[3] = c
    PROVE  s = <<a, b, c>>
  <1> DEFINE t == <<a, b, c>>
  <1>1. t \in Seq(Locks) /\ Len(t) = 3 /\ t[1] = a /\ t[2] = b /\ t[3] = c
    OBVIOUS
  <1> HIDE DEF t
  <1>2. \A n \in 1 .. Len(s) : s[n] = t[n]
    <2>1. \A n \in 1 .. 3 : n = 1 \/ n = 2 \/ n = 3
      OBVIOUS
    <2>2. QED
      BY <1>1, <2>1
  <1>3. s = t
    BY <1>1, <1>2, SeqEqual
  <1>4. QED
    BY <1>3 DEF t

\* What is taken of sequences of three locks.
LEMMA ThreeLocks ==
    ASSUME NEW a \in Locks, NEW b \in Locks, NEW c \in Locks
    PROVE  /\ <<a, b>> \o <<c>> = <<a, b, c>> /\ <<a>> \o <<b, c>> = <<a, b, c>>
           /\ <<a, b, c>> \in Seq(Locks) /\ Taken(<<a, b, c>>) = {a, b, c}
  <1>1. Taken(<<a, b, c>>) = {a, b, c}
    <2>1. DOMAIN <<a, b, c>> = {1, 2, 3} /\ <<a, b, c>>[1] = a /\ <<a, b, c>>[2] = b /\ <<a, b, c>>[3] = c
      OBVIOUS
    <2>2. QED
      BY <2>1 DEF Taken
  <1> DEFINE abc == <<a, b, c>>
  <1>2. /\ abc \in Seq(Locks) /\ abc[1] = a /\ abc[2] = b /\ abc[3] = c /\ Len(abc) = 3
        /\ <<a, b>> \in Seq(Locks) /\ <<c>> \in Seq(Locks)
        /\ <<b, c>> \in Seq(Locks) /\ <<a>> \in Seq(Locks)
    OBVIOUS
  <1>3. <<a, b>> \o <<c>> = abc
    <2>1. /\ <<a, b>> \o <<c>> \in Seq(Locks) /\ Len(<<a, b>> \o <<c>>) = 3
          /\ (<<a, b>> \o <<c>>)[1] = a /\ (<<a, b>> \o <<c>>)[2] = b /\ (<<a, b>> \o <<c>>)[3] = c
      BY <1>2
    <2>2. QED
      BY ZenonT(60), <2>1, TripleOfLocks
  <1>4. <<a>> \o <<b, c>> = abc
    <2>1. /\ <<a>> \o <<b, c>> \in Seq(Locks) /\ Len(<<a>> \o <<b, c>>) = 3
          /\ (<<a>> \o <<b, c>>)[1] = a /\ (<<a>> \o <<b, c>>)[2] = b /\ (<<a>> \o <<b, c>>)[3] = c
      BY <1>2
    <2>2. QED
      BY ZenonT(60), <2>1, TripleOfLocks
  <1>5. QED
    BY <1>1, <1>2, <1>3, <1>4

\* What is taken of short sequences.
LEMMA TakenOf ==
    /\ Taken(<<>>) = {} /\ <<>> \in Seq(Locks)
    /\ \A a \in Locks : <<a>> \in Seq(Locks) /\ Taken(<<a>>) = {a}
    /\ \A a, b \in Locks : <<a>> \o <<b>> = <<a, b>> /\ <<a, b>> \in Seq(Locks) /\ Taken(<<a, b>>) = {a, b}
    /\ \A a, b, c \in Locks : /\ <<a, b>> \o <<c>> = <<a, b, c>> /\ <<a>> \o <<b, c>> = <<a, b, c>>
                              /\ <<a, b, c>> \in Seq(Locks) /\ Taken(<<a, b, c>>) = {a, b, c}
    /\ \A a, b \in Locks : <<>> \o <<a, b>> = <<a, b>>
  <1>1. Taken(<<>>) = {} /\ <<>> \in Seq(Locks)
    BY DEF Taken
  <1>2. ASSUME NEW a \in Locks PROVE <<a>> \in Seq(Locks) /\ Taken(<<a>>) = {a}
    BY DEF Taken
  <1>3. ASSUME NEW a \in Locks, NEW b \in Locks
        PROVE  /\ <<a>> \o <<b>> = <<a, b>> /\ <<a, b>> \in Seq(Locks) /\ Taken(<<a, b>>) = {a, b}
               /\ <<>> \o <<a, b>> = <<a, b>>
    <2>1. Taken(<<a, b>>) = {a, b}
      <3>1. DOMAIN <<a, b>> = {1, 2} /\ <<a, b>>[1] = a /\ <<a, b>>[2] = b
        OBVIOUS
      <3>2. QED
        BY <3>1 DEF Taken
    <2>2. <<a, b>> \in Seq(Locks) /\ <<a, b>>[1] = a /\ <<a, b>>[2] = b /\ Len(<<a, b>>) = 2
          /\ <<a>> \in Seq(Locks) /\ <<b>> \in Seq(Locks) /\ <<>> \in Seq(Locks)
      OBVIOUS
    <2>3. <<a>> \o <<b>> = <<a, b>>
      <3>1. <<a>> \o <<b>> \in Seq(Locks) /\ Len(<<a>> \o <<b>>) = 2
            /\ (<<a>> \o <<b>>)[1] = a /\ (<<a>> \o <<b>>)[2] = b
        BY <2>2
      <3>2. QED
        BY <3>1, PairOfLocks
    <2>4. <<>> \o <<a, b>> = <<a, b>>
      BY <2>2, ConcatEmptySeq
    <2>5. QED
      BY <2>1, <2>2, <2>3, <2>4
  <1>4. ASSUME NEW a \in Locks, NEW b \in Locks, NEW c \in Locks
        PROVE  /\ <<a, b>> \o <<c>> = <<a, b, c>> /\ <<a>> \o <<b, c>> = <<a, b, c>>
               /\ <<a, b, c>> \in Seq(Locks) /\ Taken(<<a, b, c>>) = {a, b, c}
    BY ThreeLocks
  <1>5. QED
    BY <1>1, <1>2, <1>3, <1>4

\* Joined sequences of locks.
OneAndTwo(a, b, c) == <<a>> \o <<b, c>>
TwoAndOne(a, b, c) == <<a, b>> \o <<c>>

\* What is taken of them.
LEMMA JoinedLocks ==
    ASSUME NEW a \in Locks, NEW b \in Locks, NEW c \in Locks, NEW s,
           s = OneAndTwo(a, b, c) \/ s = TwoAndOne(a, b, c)
    PROVE  s \in Seq(Locks) /\ Taken(s) = {a, b, c}
  <1> DEFINE abc == <<a, b, c>>
  <1>1. /\ <<a>> \o <<b, c>> = abc /\ <<a, b>> \o <<c>> = abc
        /\ abc \in Seq(Locks) /\ Taken(abc) = {a, b, c}
    BY ThreeLocks
  <1>2. s = abc
    BY <1>1 DEF OneAndTwo, TwoAndOne
  <1> HIDE DEF abc
  <1>3. QED
    BY <1>1, <1>2

\* The locks of requests are locks.
LEMMA LockType ==
    /\ ForUpdate("role", "admin") \in Locks
    /\ \A u \in People : ForUpdate("user", u) \in Locks /\ KeyShare("user", u) \in Locks
    /\ \A o \in Orgs : ForUpdate("org", o) \in Locks /\ KeyShare("org", o) \in Locks
    /\ \A i \in Invites : ForUpdate("invite", i) \in Locks
  BY DEF ForUpdate, KeyShare, Locks, Rows

-----------------------------------------------------------------------------
(* Steps that only change a transaction.                                   *)

Untouched == UNCHANGED <<orgMode, status, admins, organization, member, invitation>>

\* No transaction.
LEMMA IdleTxn ==
    /\ TxnTyped(NoTxn) /\ Holding(NoTxn) /\ NoTxn.held = {} /\ NoTxn.op = "idle"
    /\ Decision(NoTxn)
  <1>1. DOMAIN NoTxn = Fields
    BY DEF NoTxn, Fields
  <1>2. /\ NoTxn.op = "idle" /\ NoTxn.held = {} /\ NoTxn.todo = <<>>
        /\ NoTxn.listed = FALSE /\ NoTxn.checked = FALSE
    BY DEF NoTxn
  <1>3. TxnTyped(NoTxn)
    BY <1>1, <1>2, TakenOf DEF TxnTyped, Requested
  <1>4. Holding(NoTxn)
    BY <1>2 DEF Holding, Needs
  <1>5. Decision(NoTxn)
    BY <1>2 DEF Decision
  <1>6. QED
    BY <1>2, <1>3, <1>4, <1>5

\* What was decided is a matter of the tables.
LEMMA DecisionUntouched ==
    ASSUME NEW r, Untouched
    PROVE  /\ Decision(r)' <=> Decision(r)
           /\ \A row : RowExists(row)' <=> RowExists(row)
           /\ Tables' <=> Tables
  <1>1. Decision(r)' <=> Decision(r)
    BY DEF Untouched, Decision, OtherAdmin, ActiveAdmins, Personal, OrganizationsOf, OwnPersonal,
           MembersOf, OfOrganization, NotMember
  <1>2. \A row : RowExists(row)' <=> RowExists(row)
    BY DEF Untouched, RowExists, Present, Founded
  <1>3. Tables' <=> Tables
    BY DEF Untouched, Tables, DirectoryTypeOK, InvitationsTyped, Owned, Single, Present, Founded,
           MembersOf, OwnersOf, Personal, Active
  <1>4. QED
    BY <1>1, <1>2, <1>3

\* A transaction that goes on as r says, with the locks that others leave it.
LEMMA TxnKeepsIInv ==
    ASSUME IInv, NEW t \in Txns, NEW r, Untouched, txn' = [txn EXCEPT ![t] = r],
           TxnTyped(r), Holding(r), Decision(r),
           \A l \in r.held : l \in txn[t].held \/ (RowExists(l.row) /\ Compatible(t, l)),
           r.op = "signup" => \A q \in Txns \ {t} : txn[q].op = "signup" => txn[q].user # r.user
    PROVE  IInv'
  <1>1. txn'[t] = r /\ DOMAIN txn' = Txns /\ \A q \in Txns \ {t} : txn'[q] = txn[q]
    BY DEF IInv, TxnsTyped
  <1>2. TxnsTyped'
    <2>1. \A q \in Txns : TxnTyped(txn'[q])
      BY <1>1 DEF IInv, TxnsTyped
    <2>2. QED
      BY <1>1, <2>1 DEF TxnsTyped
  <1>3. Tables'
    BY DecisionUntouched DEF IInv
  <1>4. LocksExclude'
    <2>1. SUFFICES ASSUME NEW q \in Txns, NEW p \in Txns, q # p,
                          NEW k \in txn'[q].held, NEW l \in txn'[p].held, k.row = l.row
                   PROVE  k.mode = "share" /\ l.mode = "share"
      BY DEF LocksExclude
    <2>2. \A u, v \in Txns : u # v =>
             \A m \in txn[u].held, n \in txn[v].held : m.row = n.row => m.mode = "share" /\ n.mode = "share"
      BY DEF IInv, Locking, LocksExclude
    <2>3. CASE q = t
      <3>1. l \in txn[p].held /\ k \in r.held
        BY <1>1, <2>1, <2>3
      <3>2. CASE k \in txn[t].held
        BY <2>1, <2>2, <2>3, <3>1, <3>2
      <3>3. CASE Compatible(t, k)
        BY <2>1, <2>3, <3>1, <3>3 DEF Compatible
      <3>4. QED
        BY <3>1, <3>2, <3>3
    <2>4. CASE p = t
      <3>1. k \in txn[q].held /\ l \in r.held
        BY <1>1, <2>1, <2>4
      <3>2. CASE l \in txn[t].held
        BY <2>1, <2>2, <2>4, <3>1, <3>2
      <3>3. CASE Compatible(t, l)
        BY <2>1, <2>4, <3>1, <3>3 DEF Compatible
      <3>4. QED
        BY <3>1, <3>2, <3>3
    <2>5. CASE q # t /\ p # t
      BY <1>1, <2>1, <2>2, <2>5
    <2>6. QED
      BY <2>3, <2>4, <2>5
  <1>5. RowsExist'
    <2>1. SUFFICES ASSUME NEW q \in Txns, NEW l \in txn'[q].held PROVE RowExists(l.row)'
      BY DEF RowsExist
    <2>2. RowExists(l.row)
      BY <1>1, <2>1 DEF IInv, Locking, RowsExist
    <2>3. QED
      BY <2>2, DecisionUntouched
  <1>6. Locking'
    <2>1. \A q \in Txns : Holding(txn'[q])
      BY <1>1 DEF IInv, Locking
    <2>2. QED
      BY <1>4, <1>5, <2>1 DEF Locking
  <1>7. Decisions'
    <2>1. ASSUME NEW q \in Txns PROVE Decision(txn[q])' 
      <3>1. CASE q = t
        <4>1. Decision(r)'
          BY DecisionUntouched
        <4>2. QED
          BY <1>1, <3>1, <4>1
      <3>2. CASE q # t
        <4>1. PICK s : s = txn[q]
          OBVIOUS
        <4>2. Decision(s)
          BY <4>1 DEF IInv, Decisions
        <4>3. Decision(s)' /\ txn'[q] = s
          BY <1>1, <3>2, <4>1, <4>2, DecisionUntouched
        <4>4. QED
          BY <4>3
      <3>3. QED
        BY <3>1, <3>2
    <2>2. \A q, p \in Txns : q # p /\ txn'[q].op = "signup" /\ txn'[p].op = "signup"
                                => txn'[q].user # txn'[p].user
      BY <1>1 DEF IInv, Decisions
    <2>3. QED
      BY <2>1, <2>2 DEF Decisions
  <1>8. QED
    BY <1>2, <1>3, <1>6, <1>7 DEF IInv

\* A transaction is rolled back.
LEMMA RollBackIInv ==
    ASSUME IInv, NEW t \in Txns, RollBack(t)
    PROVE  IInv'
  <1>1. Untouched /\ txn' = [txn EXCEPT ![t] = NoTxn]
    BY DEF RollBack, Untouched
  <1>2. QED
    BY <1>1, IdleTxn, TxnKeepsIInv

\* What a transaction needs depends on its request only.
SameRequest(r, s) ==
    /\ r.op = s.op /\ r.actor = s.actor /\ r.user = s.user /\ r.org = s.org /\ r.role = s.role
    /\ r.invite = s.invite

\* A request that goes on is still the same request.
LEMMA RequestedSame ==
    ASSUME NEW r, NEW s, SameRequest(r, s), Requested(s), r.op # "idle"
    PROVE  Requested(r) /\ Needs(r) = Needs(s)
  BY DEF SameRequest, Requested, Needs

\* A request begins.
LEMMA BeginKeepsIInv ==
    ASSUME IInv, NEW t \in Txns, NEW request, NEW locks \in Seq(Locks), Begin(t, request, locks),
           DOMAIN request = Fields, request.held = {}, request.listed = FALSE, request.checked = FALSE,
           request.op # "idle", Requested(request), Needs(request) \subseteq Taken(locks),
           request.op \in {"accept", "signup"} => OfOrganization(request),
           request.op = "signup" => status[request.user] = "absent",
           request.op = "signup" => \A q \in Txns \ {t} : txn[q].op = "signup" => txn[q].user # request.user
    PROVE  IInv'
  <1>1. PICK past : txn' = [txn EXCEPT ![t] = [request EXCEPT !.todo = locks, !.past = past]]
    BY DEF Begin
  <1> DEFINE r == [request EXCEPT !.todo = locks, !.past = past]
  <1>2. /\ DOMAIN r = Fields /\ SameRequest(r, request)
        /\ r.todo = locks /\ r.held = {} /\ r.listed = FALSE /\ r.checked = FALSE
    BY DEF Fields, SameRequest
  <1>3. Untouched
    BY DEF Begin, Untouched
  <1>4. txn' = [txn EXCEPT ![t] = r]
    BY <1>1
  <1> HIDE DEF r
  <1>5. r.op # "idle" /\ Requested(r) /\ Needs(r) = Needs(request)
    BY <1>2, RequestedSame DEF SameRequest
  <1>6. TxnTyped(r)
    BY <1>2, <1>5 DEF TxnTyped
  <1>7. Holding(r)
    BY <1>2, <1>5 DEF Holding, Pending, Taken
  <1>8. Decision(r)
    <2>1. r.op \in {"accept", "signup"} => OfOrganization(r)
      BY <1>2 DEF OfOrganization, SameRequest
    <2>2. r.op = "signup" => status[r.user] = "absent"
      BY <1>2 DEF SameRequest
    <2>3. QED
      BY <1>2, <2>1, <2>2 DEF Decision
  <1>9. r.op = "signup" => \A q \in Txns \ {t} : txn[q].op = "signup" => txn[q].user # r.user
    BY <1>2 DEF SameRequest
  <1>10. QED
    BY <1>2, <1>3, <1>4, <1>6, <1>7, <1>8, <1>9, TxnKeepsIInv

\* The fields that the next lemmas are about, of a transaction in progress.
LEMMA TxnFacts ==
    ASSUME IInv, NEW t \in Txns
    PROVE  /\ TxnTyped(txn[t]) /\ Holding(txn[t]) /\ Decision(txn[t])
           /\ \A l \in txn[t].held : RowExists(l.row) /\ l \in Locks
           /\ txn[t].op = "signup" =>
                 \A q \in Txns \ {t} : txn[q].op = "signup" => txn[q].user # txn[t].user
  BY DEF IInv, TxnsTyped, TxnTyped, Locking, RowsExist, Decisions

\* A decision is kept by a transaction that takes a lock or passes over a row.
LEMMA DecisionTodo ==
    ASSUME NEW r, NEW s, SameRequest(r, s), Decision(s), r.listed = s.listed, r.checked = FALSE,
           s.checked = FALSE,
           \A o \in OrganizationsOf(s.user) :
              ForUpdate("org", o) \in s.held \cup Pending(s) => ForUpdate("org", o) \in r.held \cup Pending(r)
    PROVE  Decision(r)
  BY DEF Decision, SameRequest, OfOrganization

\* The next lock is taken.
LEMMA LockIInv ==
    ASSUME IInv, NEW t \in Txns, Lock(t)
    PROVE  IInv'
  <1> DEFINE s == txn[t]
             r == [s EXCEPT !.todo = Tail(s.todo), !.held = s.held \cup {Head(s.todo)}]
  <1>1. s.todo # <<>> /\ RowExists(Head(s.todo).row) /\ Compatible(t, Head(s.todo)) /\ Untouched
    BY DEF Lock, Untouched
  <1>2. txn' = [txn EXCEPT ![t] = r]
    BY DEF Lock
  <1>3. TxnTyped(s) /\ Holding(s) /\ Decision(s)
        /\ (s.op = "signup" => \A q \in Txns \ {t} : txn[q].op = "signup" => txn[q].user # s.user)
    BY TxnFacts
  <1>4. DOMAIN s = Fields /\ s.todo \in Seq(Locks) /\ s.held \subseteq Locks
    BY <1>3 DEF TxnTyped
  <1>5. /\ DOMAIN r = Fields /\ SameRequest(r, s) /\ r.todo = Tail(s.todo)
        /\ r.held = s.held \cup {Head(s.todo)} /\ r.listed = s.listed /\ r.checked = s.checked
    BY <1>4 DEF Fields, SameRequest
  <1>6. Head(s.todo) \in Locks /\ Tail(s.todo) \in Seq(Locks)
        /\ Taken(s.todo) = {Head(s.todo)} \cup Taken(Tail(s.todo))
    BY <1>1, <1>4, TakeHead
  <1> HIDE DEF s, r
  <1>7. s.checked = FALSE
    BY <1>1, <1>3 DEF TxnTyped
  <1>8. s.op # "idle"
    <2>1. s.op = "idle" => s = NoTxn
      BY <1>3 DEF TxnTyped, Requested
    <2>2. QED
      BY <1>1, <2>1 DEF NoTxn
  <1>9. Requested(r) /\ Needs(r) = Needs(s)
    <2>1. Requested(s) /\ r.op # "idle"
      BY <1>3, <1>5, <1>8 DEF TxnTyped, SameRequest
    <2>2. QED
      BY <1>5, <2>1, RequestedSame
  <1>10. TxnTyped(r)
    <2>1. r.listed \in BOOLEAN /\ (r.listed => r.op = "deleteUser")
      BY <1>3, <1>5 DEF TxnTyped, SameRequest
    <2>2. QED
      BY <1>4, <1>5, <1>6, <1>7, <1>9, <2>1 DEF TxnTyped
  <1>11. r.held \cup Pending(r) = s.held \cup Pending(s)
    BY <1>5, <1>6 DEF Pending, Taken
  <1>12. Holding(r)
    BY <1>3, <1>5, <1>9, <1>11 DEF Holding
  <1>13. Decision(r)
    BY <1>3, <1>5, <1>7, <1>11, DecisionTodo
  <1>14. \A l \in r.held : l \in txn[t].held \/ (RowExists(l.row) /\ Compatible(t, l))
    BY <1>1, <1>5 DEF s
  <1>15. r.op = "signup" => \A q \in Txns \ {t} : txn[q].op = "signup" => txn[q].user # r.user
    BY <1>3, <1>5 DEF SameRequest
  <1>16. QED
    BY <1>1, <1>2, <1>10, <1>12, <1>13, <1>14, <1>15, TxnKeepsIInv

\* A row that is gone is passed over: not one of those needed, and no organization
\* that still has members.
LEMMA PassOverIInv ==
    ASSUME IInv, NEW t \in Txns, PassOver(t)
    PROVE  IInv'
  <1> DEFINE s == txn[t]
             r == [s EXCEPT !.todo = Tail(s.todo)]
  <1>1. /\ s.todo # <<>> /\ ~RowExists(Head(s.todo).row) /\ Untouched
        /\ \/ s.op = "resend" /\ Head(s.todo).row[1] = "user"
           \/ s.op = "deleteUser" /\ Head(s.todo).row[1] = "org"
    BY DEF PassOver, Untouched
  <1>2. txn' = [txn EXCEPT ![t] = r]
    BY DEF PassOver
  <1>3. TxnTyped(s) /\ Holding(s) /\ Decision(s) /\ \A l \in s.held : RowExists(l.row) /\ l \in Locks
    BY TxnFacts
  <1>4. DOMAIN s = Fields /\ s.todo \in Seq(Locks) /\ s.held \subseteq Locks
    BY <1>3 DEF TxnTyped
  <1>5. /\ DOMAIN r = Fields /\ SameRequest(r, s) /\ r.todo = Tail(s.todo)
        /\ r.held = s.held /\ r.listed = s.listed /\ r.checked = s.checked
    BY <1>4 DEF Fields, SameRequest
  <1>6. Head(s.todo) \in Locks /\ Tail(s.todo) \in Seq(Locks)
        /\ Taken(s.todo) = {Head(s.todo)} \cup Taken(Tail(s.todo))
    BY <1>1, <1>4, TakeHead
  <1> HIDE DEF s, r
  <1>7. s.checked = FALSE
    BY <1>1, <1>3 DEF TxnTyped
  <1>8. Requested(r) /\ Needs(r) = Needs(s)
    <2>1. Requested(s) /\ r.op # "idle"
      BY <1>1, <1>3, <1>5 DEF TxnTyped, SameRequest
    <2>2. QED
      BY <1>5, <2>1, RequestedSame
  <1>9. TxnTyped(r)
    <2>1. r.listed \in BOOLEAN /\ (r.listed => r.op = "deleteUser")
      BY <1>3, <1>5 DEF TxnTyped, SameRequest
    <2>2. QED
      BY <1>4, <1>5, <1>6, <1>7, <1>8, <2>1 DEF TxnTyped
  <1>10. Head(s.todo) \notin Needs(s)
    <2>1. CASE s.op = "resend"
      <3>1. Needs(s) = {KeyShare("org", s.org), ForUpdate("invite", s.invite)}
        BY <2>1 DEF Needs
      <3>2. \A l \in Needs(s) : l.row[1] # "user"
        BY <3>1 DEF KeyShare, ForUpdate
      <3>3. QED
        BY <1>1, <2>1, <3>2
    <2>2. CASE s.op = "deleteUser"
      <3>1. Needs(s) = {ForUpdate("role", "admin"), ForUpdate("user", s.user)}
        BY <2>2 DEF Needs
      <3>2. \A l \in Needs(s) : l.row[1] # "org"
        BY <3>1 DEF ForUpdate
      <3>3. QED
        BY <1>1, <2>2, <3>2
    <2>3. QED
      BY <1>1, <2>1, <2>2
  <1>11. Holding(r)
    <2>1. Pending(s) \subseteq {Head(s.todo)} \cup Pending(r)
      BY <1>5, <1>6 DEF Pending, Taken
    <2>2. QED
      BY <1>3, <1>5, <1>8, <1>10, <2>1 DEF Holding
  <1>12. ASSUME NEW o \in OrganizationsOf(s.user), s.op = "deleteUser",
                ForUpdate("org", o) \in s.held \cup Pending(s)
         PROVE  ForUpdate("org", o) \in r.held \cup Pending(r)
    <2>1. s.user \in People
      BY <1>3, <1>12 DEF TxnTyped, Requested
    <2>2. o \in Orgs /\ s.user \in MembersOf(o)
      BY <1>12, <2>1 DEF OrganizationsOf, MembersOf
    <2>3. Founded(o)
      BY <2>2 DEF IInv, Tables, DirectoryTypeOK
    <2>4. RowExists(ForUpdate("org", o).row)
      BY <2>3 DEF RowExists, ForUpdate
    <2>5. ForUpdate("org", o) # Head(s.todo)
      BY <1>1, <2>4
    <2>6. QED
      BY <1>5, <1>6, <1>12, <2>5 DEF Pending, Taken
  <1>13. Decision(r)
    <2>1. CASE s.op = "deleteUser"
      BY <1>3, <1>5, <1>7, <1>12, <2>1, DecisionTodo
    <2>2. CASE s.op = "resend"
      BY <1>5, <2>2 DEF Decision, SameRequest
    <2>3. QED
      BY <1>1, <2>1, <2>2
  <1>14. \A l \in r.held : l \in txn[t].held
    BY <1>5 DEF s
  <1>15. r.op # "signup"
    BY <1>1, <1>5 DEF SameRequest
  <1>16. QED
    BY <1>1, <1>2, <1>9, <1>11, <1>13, <1>14, <1>15, TxnKeepsIInv

-----------------------------------------------------------------------------
(* Requests begin.                                                         *)

\* Requests about administrators and the deletion of a user.
LEMMA AdminRequestsIInv ==
    ASSUME IInv, NEW t \in Txns, NEW actor, NEW u \in People,
           BeginDisableUser(t, actor, u) \/ BeginRevokeAdmin(t, actor, u) \/ BeginDeleteUser(t, u)
    PROVE  IInv'
  <1> DEFINE locks == LockPlatformRole \o <<ForUpdate("user", u)>>
  <1>1. locks \in Seq(Locks) /\ Taken(locks) = {ForUpdate("role", "admin"), ForUpdate("user", u)}
    BY LockType, TakenOf DEF LockPlatformRole
  <1>2. ASSUME NEW request, Begin(t, request, locks), DOMAIN request = Fields, request.held = {},
               request.listed = FALSE, request.checked = FALSE, request.user = u,
               request.op \in {"disable", "revokeAdmin", "deleteUser"}
        PROVE  IInv'
    <2>1. Requested(request) /\ Needs(request) = Taken(locks)
      BY <1>1, <1>2 DEF Requested, Needs
    <2>2. QED
      BY <1>1, <1>2, <2>1, BeginKeepsIInv
  <1> HIDE DEF locks
  <1>3. CASE BeginDisableUser(t, actor, u)
    <2> DEFINE request == [NoTxn EXCEPT !.op = "disable", !.actor = actor, !.user = u]
    <2>1. DOMAIN request = Fields /\ request.held = {} /\ request.listed = FALSE /\ request.checked = FALSE
          /\ request.user = u /\ request.op = "disable"
      BY DEF NoTxn, Fields
    <2>2. Begin(t, request, locks)
      BY <1>3 DEF BeginDisableUser, locks
    <2> HIDE DEF request
    <2>3. QED
      BY <1>2, <2>1, <2>2
  <1>4. CASE BeginRevokeAdmin(t, actor, u)
    <2> DEFINE request == [NoTxn EXCEPT !.op = "revokeAdmin", !.actor = actor, !.user = u]
    <2>1. DOMAIN request = Fields /\ request.held = {} /\ request.listed = FALSE /\ request.checked = FALSE
          /\ request.user = u /\ request.op = "revokeAdmin"
      BY DEF NoTxn, Fields
    <2>2. Begin(t, request, locks)
      BY <1>4 DEF BeginRevokeAdmin, locks
    <2> HIDE DEF request
    <2>3. QED
      BY <1>2, <2>1, <2>2
  <1>5. CASE BeginDeleteUser(t, u)
    <2> DEFINE request == [NoTxn EXCEPT !.op = "deleteUser", !.user = u]
    <2>1. DOMAIN request = Fields /\ request.held = {} /\ request.listed = FALSE /\ request.checked = FALSE
          /\ request.user = u /\ request.op = "deleteUser"
      BY DEF NoTxn, Fields
    <2>2. Begin(t, request, locks)
      BY <1>5 DEF BeginDeleteUser, locks
    <2> HIDE DEF request
    <2>3. QED
      BY <1>2, <2>1, <2>2
  <1>6. QED
    BY <1>3, <1>4, <1>5

\* Requests about members and organizations.
LEMMA MemberRequestsIInv ==
    ASSUME IInv, NEW t \in Txns, NEW actor \in People, NEW u \in People, NEW o \in Orgs, NEW role,
           \/ BeginRemoveMember(t, actor, u, o) \/ BeginUpdateMember(t, actor, u, o, role)
           \/ BeginDeleteOrganization(t, actor, o)
    PROVE  IInv'
  <1> DEFINE locks == LockOrganization(o)
  <1>1. locks \in Seq(Locks) /\ Taken(locks) = {ForUpdate("org", o)}
    BY LockType, TakenOf DEF LockOrganization
  <1>2. ASSUME NEW request, Begin(t, request, locks), DOMAIN request = Fields, request.held = {},
               request.listed = FALSE, request.checked = FALSE, request.org = o,
               request.op \in {"removeMember", "updateMember", "deleteOrganization"},
               request.op # "deleteOrganization" => request.user = u,
               request.op = "updateMember" => request.role \in {"admin", "member"}
        PROVE  IInv'
    <2>1. Requested(request) /\ Needs(request) = Taken(locks)
      BY <1>1, <1>2 DEF Requested, Needs
    <2>2. QED
      BY <1>1, <1>2, <2>1, BeginKeepsIInv
  <1> HIDE DEF locks
  <1>3. CASE BeginRemoveMember(t, actor, u, o)
    <2> DEFINE request == [NoTxn EXCEPT !.op = "removeMember", !.actor = actor, !.user = u, !.org = o]
    <2>1. DOMAIN request = Fields /\ request.held = {} /\ request.listed = FALSE /\ request.checked = FALSE
          /\ request.user = u /\ request.org = o /\ request.op = "removeMember"
      BY DEF NoTxn, Fields
    <2>2. Begin(t, request, locks)
      BY <1>3 DEF BeginRemoveMember, locks
    <2> HIDE DEF request
    <2>3. QED
      BY <1>2, <2>1, <2>2
  <1>4. CASE BeginUpdateMember(t, actor, u, o, role)
    <2> DEFINE request == [NoTxn EXCEPT !.op = "updateMember", !.actor = actor, !.user = u, !.org = o,
                                        !.role = role]
    <2>1. DOMAIN request = Fields /\ request.held = {} /\ request.listed = FALSE /\ request.checked = FALSE
          /\ request.user = u /\ request.org = o /\ request.op = "updateMember" /\ request.role = role
      BY DEF NoTxn, Fields
    <2>2. Begin(t, request, locks) /\ role \in {"admin", "member"}
      BY <1>4 DEF BeginUpdateMember, locks
    <2> HIDE DEF request
    <2>3. QED
      BY <1>2, <2>1, <2>2
  <1>5. CASE BeginDeleteOrganization(t, actor, o)
    <2> DEFINE request == [NoTxn EXCEPT !.op = "deleteOrganization", !.actor = actor, !.org = o]
    <2>1. DOMAIN request = Fields /\ request.held = {} /\ request.listed = FALSE /\ request.checked = FALSE
          /\ request.org = o /\ request.op = "deleteOrganization"
      BY DEF NoTxn, Fields
    <2>2. Begin(t, request, locks)
      BY <1>5 DEF BeginDeleteOrganization, locks
    <2> HIDE DEF request
    <2>3. QED
      BY <1>2, <2>1, <2>2
  <1>6. QED
    BY <1>3, <1>4, <1>5

\* A transfer of the ownership.
LEMMA BeginTransferIInv ==
    ASSUME IInv, NEW t \in Txns, NEW actor \in People, NEW u \in People, NEW o \in Orgs,
           BeginTransfer(t, actor, u, o)
    PROVE  IInv'
  <1> DEFINE locks == <<KeyShare("user", actor), KeyShare("user", u)>> \o LockOrganization(o)
             request == [NoTxn EXCEPT !.op = "transfer", !.actor = actor, !.user = u, !.org = o]
  <1>1. locks \in Seq(Locks)
        /\ Taken(locks) = {KeyShare("user", actor), KeyShare("user", u), ForUpdate("org", o)}
    <2>1. KeyShare("user", actor) \in Locks /\ KeyShare("user", u) \in Locks /\ ForUpdate("org", o) \in Locks
      BY LockType
    <2>2. locks = TwoAndOne(KeyShare("user", actor), KeyShare("user", u), ForUpdate("org", o))
      BY DEF LockOrganization, TwoAndOne
    <2> HIDE DEF locks
    <2>3. QED
      BY <2>1, <2>2, JoinedLocks
  <1>2. DOMAIN request = Fields /\ request.held = {} /\ request.listed = FALSE /\ request.checked = FALSE
        /\ request.actor = actor /\ request.user = u /\ request.org = o /\ request.op = "transfer"
    BY DEF NoTxn, Fields
  <1>3. Begin(t, request, locks) /\ actor # u
    BY DEF BeginTransfer
  <1> HIDE DEF request, locks
  <1>4. Requested(request) /\ Needs(request) = Taken(locks)
    BY <1>1, <1>2, <1>3 DEF Requested, Needs
  <1>5. QED
    BY <1>1, <1>2, <1>3, <1>4, BeginKeepsIInv

\* An invitation is asked for.
LEMMA BeginCreateInvitationIInv ==
    ASSUME IInv, NEW t \in Txns, NEW actor \in People, NEW u \in People, NEW o \in Orgs, NEW role,
           BeginCreateInvitation(t, actor, o, u, role)
    PROVE  IInv'
  <1> DEFINE locks == <<KeyShare("user", actor), KeyShare("org", o)>>
             request == [NoTxn EXCEPT !.op = "invite", !.actor = actor, !.org = o, !.user = u,
                                      !.role = role]
  <1>1. locks \in Seq(Locks) /\ Taken(locks) = {KeyShare("user", actor), KeyShare("org", o)}
    BY LockType, TakenOf
  <1>2. DOMAIN request = Fields /\ request.held = {} /\ request.listed = FALSE /\ request.checked = FALSE
        /\ request.actor = actor /\ request.user = u /\ request.org = o /\ request.op = "invite"
        /\ request.role = role /\ request.invite = NoOne
    BY DEF NoTxn, Fields
  <1>3. Begin(t, request, locks) /\ role \in {"admin", "member"}
    BY DEF BeginCreateInvitation
  <1> HIDE DEF request, locks
  <1>4. Requested(request) /\ Needs(request) = Taken(locks)
    BY <1>1, <1>2, <1>3 DEF Requested, Needs
  <1>5. QED
    BY <1>1, <1>2, <1>3, <1>4, BeginKeepsIInv

\* An invitation that is there names its organization and its users.
LEMMA InvitationFacts ==
    ASSUME IInv, NEW i \in Invites, RowExists(<<"invite", i>>)
    PROVE  /\ invitation[i].org \in Orgs /\ invitation[i].for \in People
           /\ invitation[i].by \in People \cup {NoOne} /\ invitation[i].role \in {"admin", "member"}
           /\ invitation[i].status \notin {"absent", "deleted"}
  <1>1. invitation[i].status \notin {"absent", "deleted"}
    BY DEF RowExists
  <1>2. QED
    BY <1>1 DEF IInv, Tables, InvitationsTyped, InvitationTyped

\* An invitation is to be sent again.
LEMMA BeginResendIInv ==
    ASSUME IInv, NEW t \in Txns, NEW o \in Orgs, NEW i \in Invites, BeginResend(t, o, i)
    PROVE  IInv'
  <1> DEFINE locks == (IF invitation[i].by = NoOne THEN <<>> ELSE <<KeyShare("user", invitation[i].by)>>)
                         \o <<KeyShare("org", o), ForUpdate("invite", i)>>
             request == [NoTxn EXCEPT !.op = "resend", !.org = o, !.invite = i]
  <1>1. RowExists(<<"invite", i>>) /\ Begin(t, request, locks)
    BY DEF BeginResend
  <1>2. invitation[i].by \in People \cup {NoOne}
    BY <1>1, InvitationFacts
  <1>3. locks \in Seq(Locks) /\ {KeyShare("org", o), ForUpdate("invite", i)} \subseteq Taken(locks)
    <2> DEFINE a == KeyShare("user", invitation[i].by)
               b == KeyShare("org", o)
               c == ForUpdate("invite", i)
    <2>1. b \in Locks /\ c \in Locks /\ (invitation[i].by # NoOne => a \in Locks)
      BY <1>2, LockType
    <2>2. locks = IF invitation[i].by = NoOne THEN <<>> \o <<b, c>> ELSE <<a>> \o <<b, c>>
      OBVIOUS
    <2> HIDE DEF locks, a, b, c
    <2>3. locks \in Seq(Locks) /\ {b, c} \subseteq Taken(locks)
      <3>1. CASE invitation[i].by = NoOne
        <4>1. locks = <<>> \o <<b, c>>
          BY <2>2, <3>1
        <4>2. locks = <<b, c>>
          BY <2>1, <4>1, TakenOf
        <4>3. QED
          BY <2>1, <4>2, TakenOf
      <3>2. CASE invitation[i].by # NoOne
        <4>1. locks = OneAndTwo(a, b, c)
          BY <2>2, <3>2 DEF OneAndTwo
        <4>2. QED
          BY <2>1, <3>2, <4>1, JoinedLocks
      <3>3. QED
        BY <3>1, <3>2
    <2>4. QED
      BY <2>3 DEF b, c
  <1>4. DOMAIN request = Fields /\ request.held = {} /\ request.listed = FALSE /\ request.checked = FALSE
        /\ request.org = o /\ request.op = "resend" /\ request.invite = i
    BY DEF NoTxn, Fields
  <1> HIDE DEF request, locks
  <1>5. Requested(request) /\ Needs(request) \subseteq Taken(locks)
    BY <1>3, <1>4 DEF Requested, Needs
  <1>6. QED
    BY <1>1, <1>3, <1>4, <1>5, BeginKeepsIInv

\* An invitation is to be revoked.
LEMMA BeginRevokeInvitationIInv ==
    ASSUME IInv, NEW t \in Txns, NEW actor \in People, NEW o \in Orgs, NEW i \in Invites,
           BeginRevokeInvitation(t, actor, o, i)
    PROVE  IInv'
  <1> DEFINE locks == <<KeyShare("user", actor), KeyShare("org", o), ForUpdate("invite", i)>>
             request == [NoTxn EXCEPT !.op = "revokeInvite", !.actor = actor, !.org = o, !.invite = i]
  <1>1. locks \in Seq(Locks)
        /\ Taken(locks) = {KeyShare("user", actor), KeyShare("org", o), ForUpdate("invite", i)}
    BY ZenonT(60), LockType, TakenOf
  <1>2. DOMAIN request = Fields /\ request.held = {} /\ request.listed = FALSE /\ request.checked = FALSE
        /\ request.actor = actor /\ request.org = o /\ request.op = "revokeInvite" /\ request.invite = i
    BY DEF NoTxn, Fields
  <1>3. Begin(t, request, locks)
    BY DEF BeginRevokeInvitation
  <1> HIDE DEF request, locks
  <1>4. Requested(request) /\ Needs(request) \subseteq Taken(locks)
    BY <1>1, <1>2 DEF Requested, Needs
  <1>5. QED
    BY <1>1, <1>2, <1>3, <1>4, BeginKeepsIInv

\* A user accepts an invitation.
LEMMA BeginAcceptIInv ==
    ASSUME IInv, NEW t \in Txns, NEW u \in People, NEW i \in Invites, BeginAccept(t, u, i)
    PROVE  IInv'
  <1> DEFINE o == invitation[i].org
             locks == LockUser(u) \o <<KeyShare("org", o), ForUpdate("invite", i)>>
             request == [NoTxn EXCEPT !.op = "accept", !.user = u, !.invite = i, !.org = o]
  <1>1. RowExists(<<"invite", i>>) /\ Begin(t, request, locks)
    BY DEF BeginAccept, AcceptLocks
  <1>2. o \in Orgs /\ invitation[i].status \notin {"absent", "deleted"}
    BY <1>1, InvitationFacts
  <1>3. locks \in Seq(Locks)
        /\ Taken(locks) = {ForUpdate("user", u), KeyShare("org", o), ForUpdate("invite", i)}
    <2>1. ForUpdate("user", u) \in Locks /\ KeyShare("org", o) \in Locks /\ ForUpdate("invite", i) \in Locks
      BY <1>2, LockType
    <2>2. locks = OneAndTwo(ForUpdate("user", u), KeyShare("org", o), ForUpdate("invite", i))
      BY DEF LockUser, OneAndTwo
    <2> HIDE DEF locks
    <2>3. QED
      BY <2>1, <2>2, JoinedLocks
  <1>4. DOMAIN request = Fields /\ request.held = {} /\ request.listed = FALSE /\ request.checked = FALSE
        /\ request.user = u /\ request.org = o /\ request.op = "accept" /\ request.invite = i
    BY DEF NoTxn, Fields
  <1> HIDE DEF request, locks
  <1>5. Requested(request) /\ Needs(request) \subseteq Taken(locks)
    BY <1>2, <1>3, <1>4 DEF Requested, Needs
  <1>6. OfOrganization(request)
    BY <1>2, <1>4 DEF OfOrganization
  <1>7. QED
    BY <1>1, <1>3, <1>4, <1>5, <1>6, BeginKeepsIInv

\* A user who does not exist yet signs up by an invitation.
LEMMA BeginSignupIInv ==
    ASSUME IInv, NEW t \in Txns, NEW u \in People, NEW i \in Invites, BeginSignup(t, u, i)
    PROVE  IInv'
  <1> DEFINE o == invitation[i].org
             locks == <<KeyShare("org", o), ForUpdate("invite", i)>>
             request == [NoTxn EXCEPT !.op = "signup", !.user = u, !.invite = i, !.org = o]
  <1>1. RowExists(<<"invite", i>>) /\ Begin(t, request, locks) /\ status[u] = "absent"
        /\ \A q \in Txns : txn[q].op = "signup" => txn[q].user # u
    BY DEF BeginSignup
  <1>2. o \in Orgs /\ invitation[i].status \notin {"absent", "deleted"}
    BY <1>1, InvitationFacts
  <1>3. locks \in Seq(Locks) /\ Taken(locks) = {KeyShare("org", o), ForUpdate("invite", i)}
    BY <1>2, LockType, TakenOf
  <1>4. DOMAIN request = Fields /\ request.held = {} /\ request.listed = FALSE /\ request.checked = FALSE
        /\ request.user = u /\ request.org = o /\ request.op = "signup" /\ request.invite = i
    BY DEF NoTxn, Fields
  <1> HIDE DEF request, locks
  <1>5. Requested(request) /\ Needs(request) \subseteq Taken(locks)
    BY <1>2, <1>3, <1>4 DEF Requested, Needs
  <1>6. OfOrganization(request)
    BY <1>2, <1>4 DEF OfOrganization
  <1>7. status[request.user] = "absent"
        /\ \A q \in Txns \ {t} : txn[q].op = "signup" => txn[q].user # request.user
    BY <1>1, <1>4
  <1>8. QED
    BY <1>1, <1>3, <1>4, <1>5, <1>6, <1>7, BeginKeepsIInv

-----------------------------------------------------------------------------
(* Decisions are made.                                                     *)

\* A user who is not the last administrator leaves another one.
LEMMA NotLast ==
    ASSUME NEW u, NotLastAdmin(u)
    PROVE  OtherAdmin(u)
  <1>1. SUFFICES ASSUME u \in ActiveAdmins, \A v \in ActiveAdmins : v = u
                 PROVE  FALSE
    BY DEF OtherAdmin
  <1>2. ActiveAdmins = {u}
    BY <1>1
  <1>3. Cardinality(ActiveAdmins) = 1
    BY <1>2, FS_Singleton
  <1>4. QED
    BY <1>1, <1>3 DEF NotLastAdmin

\* A transaction that has all its locks holds what it needs, and the rows are there.
LEMMA HoldsWhatItNeeds ==
    ASSUME IInv, NEW t \in Txns, txn[t].todo = <<>>
    PROVE  /\ Needs(txn[t]) \subseteq txn[t].held /\ Pending(txn[t]) = {}
           /\ \A l \in Needs(txn[t]) : RowExists(l.row)
  <1>1. Holding(txn[t]) /\ \A l \in txn[t].held : RowExists(l.row)
    BY TxnFacts
  <1>2. Pending(txn[t]) = {}
    BY DEF Pending
  <1>3. QED
    BY <1>1, <1>2 DEF Holding

\* An organization that is there has its owner.
LEMMA OwnerFacts ==
    ASSUME IInv, NEW o \in Orgs, Founded(o)
    PROVE  /\ \E w \in People : OwnersOf(o) = {w} /\ (Personal(o) => organization[o].by = w)
           /\ Cardinality(OwnersOf(o)) = 1
           /\ organization[o].kind \in {"personal", "team"}
  <1>1. PICK w \in People : OwnersOf(o) = {w} /\ (Personal(o) => organization[o].by = w)
    BY DEF IInv, Tables, Owned
  <1>2. Cardinality(OwnersOf(o)) = 1
    BY <1>1, FS_Singleton
  <1>3. QED
    BY <1>1, <1>2 DEF Founded

\* What DeleteUserAllowed leaves to a user who goes: no organization that would
\* be left with members and without their owner.
LEMMA DeleteUserDecides ==
    ASSUME IInv, NEW t \in Txns, txn[t].op = "deleteUser", DeleteUserAllowed(t),
           NEW o \in Orgs, ForUpdate("org", o) \in txn[t].held, member[o][txn[t].user] = "owner"
    PROVE  \/ OwnPersonal(o, txn[t].user)
           \/ organization[o].kind = "team" /\ Cardinality(MembersOf(o)) = 1
  <1> DEFINE u == txn[t].user
  <1>1. u \in People
    BY TxnFacts DEF TxnTyped, Requested
  <1>2. u \in MembersOf(o) /\ u \in OwnersOf(o) /\ o \in OrganizationsOf(u)
    BY <1>1 DEF MembersOf, OwnersOf, OrganizationsOf
  <1>3. Founded(o)
    BY <1>2 DEF IInv, Tables, DirectoryTypeOK
  <1>4. o \in LockedOrganizations(t)
    BY <1>2 DEF LockedOrganizations
  <1>5. SUFFICES ASSUME ~OwnPersonal(o, u)
                 PROVE  organization[o].kind = "team" /\ Cardinality(MembersOf(o)) = 1
    OBVIOUS
  <1>6. Cardinality(MembersOf(o)) > 1 => (member[o][u] = "owner" => Cardinality(OwnersOf(o)) > 1)
    BY <1>4, <1>5 DEF DeleteUserAllowed
  <1>7. ~(Cardinality(MembersOf(o)) > 1)
    BY <1>3, <1>6, OwnerFacts
  <1>8. Cardinality(MembersOf(o)) \in Nat /\ Cardinality(MembersOf(o)) # 0
    <2>1. IsFiniteSet(MembersOf(o))
      BY DirectoryAssumption, FS_Subset DEF MembersOf
    <2>2. QED
      BY <1>2, <2>1, FS_CardinalityType, FS_EmptySet
  <1>9. ~Personal(o)
    BY <1>2, <1>3, <1>5, OwnerFacts DEF OwnPersonal
  <1>10. organization[o].kind = "team"
    BY <1>3, <1>9, OwnerFacts DEF Personal
  <1>11. QED
    BY <1>7, <1>8, <1>10

\* What Allowed finds is what the decision says.
LEMMA AllowedDecides ==
    ASSUME IInv, NEW t \in Txns, txn[t].todo = <<>>, Allowed(t),
           NEW r, SameRequest(r, txn[t]), r.held = txn[t].held, r.todo = <<>>, r.listed = txn[t].listed
    PROVE  Decision(r)
  <1> DEFINE s == txn[t]
  <1>1. TxnTyped(s) /\ Decision(s) /\ Needs(s) \subseteq s.held /\ Pending(s) = {}
        /\ \A l \in Needs(s) : RowExists(l.row)
    BY TxnFacts, HoldsWhatItNeeds
  <1>2. r.op = s.op /\ r.user = s.user /\ r.org = s.org /\ r.invite = s.invite
    BY DEF SameRequest
  <1>3. Pending(r) = {}
    BY DEF Pending
  <1>4. r.op = s.op /\ s.op \in {"disable", "revokeAdmin", "deleteUser", "removeMember", "updateMember",
           "transfer", "deleteOrganization", "resend", "revokeInvite", "accept", "signup"}
    BY <1>2 DEF Allowed
  <1>5. CASE s.op \in {"disable", "revokeAdmin"}
    <2>1. NotLastAdmin(s.user)
      BY <1>5 DEF Allowed, DisableUserAllowed, RevokeAdminAllowed
    <2>2. OtherAdmin(r.user)
      BY <1>2, <2>1, NotLast
    <2>3. r.listed => FALSE
      BY <1>1, <1>5 DEF TxnTyped
    <2>4. QED
      BY <1>2, <1>5, <2>2, <2>3 DEF Decision
  <1>6. CASE s.op = "removeMember"
    <2>1. ForUpdate("org", s.org) \in Needs(s)
      BY <1>6 DEF Needs
    <2>2. s.org \in Orgs
      BY <1>1, <1>6 DEF TxnTyped, Requested
    <2>3. Founded(s.org)
      BY <1>1, <2>1, <2>2 DEF RowExists, ForUpdate
    <2>4. member[s.org][s.user] # "owner"
      BY <1>6, <2>2, <2>3, OwnerFacts DEF Allowed, RemoveMemberAllowed
    <2>5. QED
      BY <1>2, <1>6, <2>4 DEF Decision
  <1>7. CASE s.op = "updateMember"
    <2>1. member[s.org][s.user] # "owner"
      BY <1>7 DEF Allowed, UpdateMemberAllowed
    <2>2. QED
      BY <1>2, <1>7, <2>1 DEF Decision
  <1>8. CASE s.op = "transfer"
    <2>1. ~Personal(s.org)
      BY <1>8 DEF Allowed, TransferAllowed
    <2>2. QED
      BY <1>2, <1>8, <2>1 DEF Decision
  <1>9. CASE s.op = "deleteUser"
    <2>1. DeleteUserAllowed(t) /\ s.listed
      BY <1>9 DEF Allowed, DeleteUserAllowed
    <2>2. /\ OtherAdmin(r.user)
          /\ \A o \in OrganizationsOf(r.user) : ForUpdate("org", o) \in r.held \cup Pending(r)
      BY <1>1, <1>2, <1>3, <1>9, <2>1 DEF Decision
    <2>3. \A o \in Orgs : ForUpdate("org", o) \in r.held /\ member[o][r.user] = "owner" =>
            \/ OwnPersonal(o, r.user)
            \/ organization[o].kind = "team" /\ Cardinality(MembersOf(o)) = 1
      BY <1>2, <1>9, <2>1, DeleteUserDecides
    <2>4. QED
      BY <1>2, <1>9, <2>2, <2>3 DEF Decision
  <1>10. CASE s.op = "accept"
    <2>1. AcceptAllowed(t)
      BY <1>10 DEF Allowed
    <2>2. OfOrganization(r)
      BY <1>1, <1>2, <1>10 DEF Decision, OfOrganization
    <2>3. QED
      BY <1>2, <1>10, <2>1, <2>2 DEF Decision, AcceptAllowed
  <1>11. CASE s.op = "signup"
    <2>1. SignupAllowed(t)
      BY <1>11 DEF Allowed
    <2>2. OfOrganization(r)
      BY <1>1, <1>2, <1>11 DEF Decision, OfOrganization
    <2>3. QED
      BY <1>2, <1>11, <2>1, <2>2 DEF Decision, SignupAllowed
  <1>12. CASE s.op \in {"deleteOrganization", "resend", "revokeInvite"}
    BY <1>2, <1>12 DEF Decision
  <1>13. QED
    BY <1>4, <1>5, <1>6, <1>7, <1>8, <1>9, <1>10, <1>11, <1>12

\* A transaction reads and decides.
LEMMA CheckIInv ==
    ASSUME IInv, NEW t \in Txns, Check(t)
    PROVE  IInv'
  <1> DEFINE s == txn[t]
  <1>1. s.todo = <<>> /\ s.checked = FALSE /\ Untouched
    <2>1. s.checked \in BOOLEAN
      BY TxnFacts DEF TxnTyped
    <2>2. QED
      BY <2>1 DEF Check, Untouched
  <1>2. TxnTyped(s) /\ Holding(s) /\ Decision(s)
        /\ (s.op = "signup" => \A q \in Txns \ {t} : txn[q].op = "signup" => txn[q].user # s.user)
    BY TxnFacts
  <1>3. DOMAIN s = Fields
    BY <1>2 DEF TxnTyped
  <1>4. CASE Allowed(t) /\ txn' = [txn EXCEPT ![t].checked = TRUE]
    <2> DEFINE r == [s EXCEPT !.checked = TRUE]
    <2>1. /\ DOMAIN r = Fields /\ SameRequest(r, s) /\ r.held = s.held /\ r.todo = <<>>
          /\ r.listed = s.listed /\ r.checked = TRUE
      BY <1>1, <1>3 DEF Fields, SameRequest
    <2>2. txn' = [txn EXCEPT ![t] = r]
      BY <1>4
    <2> HIDE DEF r
    <2>3. s.op # "idle" /\ (s.op = "deleteUser" => s.listed)
      BY <1>4 DEF Allowed, DeleteUserAllowed
    <2>4. Requested(r) /\ Needs(r) = Needs(s)
      BY <1>2, <2>1, <2>3, RequestedSame DEF TxnTyped, SameRequest
    <2>5. TxnTyped(r)
      BY <1>1, <1>2, <2>1, <2>3, <2>4 DEF TxnTyped, SameRequest
    <2>6. Holding(r)
      BY <1>1, <1>2, <2>1, <2>4 DEF Holding, Pending
    <2>7. Decision(r)
      BY <1>1, <1>4, <2>1, AllowedDecides
    <2>8. r.op = "signup" => \A q \in Txns \ {t} : txn[q].op = "signup" => txn[q].user # r.user
      BY <1>2, <2>1 DEF SameRequest
    <2>9. \A l \in r.held : l \in txn[t].held
      BY <2>1
    <2>10. QED
      BY <1>1, <2>2, <2>5, <2>6, <2>7, <2>8, <2>9, TxnKeepsIInv
  <1>5. CASE s.op = "invite" /\ txn' = [txn EXCEPT ![t].checked = TRUE, ![t].invite = Replaces(t)]
    <2> DEFINE r == [s EXCEPT !.checked = TRUE, !.invite = Replaces(t)]
    <2>1. /\ DOMAIN r = Fields /\ r.held = s.held /\ r.todo = <<>> /\ r.listed = s.listed
          /\ r.checked = TRUE /\ r.op = "invite" /\ r.user = s.user /\ r.org = s.org
          /\ r.actor = s.actor /\ r.role = s.role /\ r.invite = Replaces(t)
      BY <1>1, <1>3, <1>5 DEF Fields
    <2>2. txn' = [txn EXCEPT ![t] = r]
      BY <1>5
    <2>3. Replaces(t) \in Invites \cup {NoOne}
      <3>1. CASE ActiveFor(s.org, s.user) = {}
        BY <3>1 DEF Replaces
      <3>2. CASE ActiveFor(s.org, s.user) # {}
        <4>1. Replaces(t) \in ActiveFor(s.org, s.user)
          BY <3>2 DEF Replaces
        <4>2. QED
          BY <4>1 DEF ActiveFor
      <3>3. QED
        BY <3>1, <3>2
    <2> HIDE DEF r
    <2>4. Requested(r)
      BY <1>2, <1>5, <2>1, <2>3 DEF TxnTyped, Requested
    <2>5. Needs(r) = Needs(s)
      BY <1>5, <2>1 DEF Needs
    <2>6. TxnTyped(r)
      BY <1>1, <1>2, <1>5, <2>1, <2>4 DEF TxnTyped
    <2>7. Holding(r)
      BY <1>1, <1>2, <2>1, <2>5 DEF Holding, Pending
    <2>8. Decision(r)
      BY <2>1 DEF Decision
    <2>9. \A l \in r.held : l \in txn[t].held
      BY <2>1
    <2>10. QED
      BY <1>1, <2>1, <2>2, <2>6, <2>7, <2>8, <2>9, TxnKeepsIInv
  <1>6. QED
    BY <1>4, <1>5 DEF Check

\* A finite set of numbers in order is all of the set.
LEMMA SortedIsAll ==
    ASSUME NEW os \in SUBSET Orgs, NEW s \in Sorted(os)
    PROVE  /\ DOMAIN s = 1 .. Cardinality(os) /\ Cardinality(os) \in Nat
           /\ \A n \in DOMAIN s : s[n] \in os
           /\ \A o \in os : \E n \in DOMAIN s : s[n] = o
  <1>1. IsFiniteSet(os) /\ Cardinality(os) \in Nat /\ os \subseteq Nat
    BY DirectoryAssumption, FS_Subset, FS_CardinalityType
  <1> DEFINE N == 1 .. Cardinality(os)
  <1>2. s \in [N -> os] /\ \A m, n \in N : m < n => s[m] < s[n]
    BY DEF Sorted
  <1>3. IsFiniteSet(N) /\ Cardinality(N) = Cardinality(os)
    BY <1>1, FS_Interval
  <1>4. s \in Injection(N, os)
    <2>1. ASSUME NEW m \in N, NEW n \in N, s[m] = s[n] PROVE m = n
      <3>1. m \in Int /\ n \in Int /\ s[m] \in Nat /\ s[n] \in Nat
        <4>1. s[m] \in os /\ s[n] \in os
          BY <1>2
        <4>2. m \in Int /\ n \in Int
          BY <1>1
        <4>3. QED
          BY <1>1, <4>1, <4>2
      <3>2. m < n \/ n < m \/ m = n
        BY <3>1
      <3>3. QED
        BY <1>2, <2>1, <3>1, <3>2
    <2>2. QED
      BY <1>2, <2>1 DEF Injection, IsInjective
  <1>5. s \in Surjection(N, os)
    BY <1>1, <1>3, <1>4, FS_Injection
  <1>6. QED
    BY <1>1, <1>2, <1>5 DEF Surjection

\* The organizations of a user who is to be deleted are listed.
LEMMA ListMembershipsIInv ==
    ASSUME IInv, NEW t \in Txns, ListMemberships(t)
    PROVE  IInv'
  <1> DEFINE s == txn[t]
             os == OrganizationsOf(s.user)
  <1>1. s.op = "deleteUser" /\ s.todo = <<>> /\ ~s.listed /\ NotLastAdmin(s.user) /\ Untouched
    BY DEF ListMemberships, Untouched
  <1>2. PICK order \in Sorted(os) :
           txn' = [txn EXCEPT ![t].listed = TRUE,
                              ![t].todo = [n \in DOMAIN order |-> ForUpdate("org", order[n])]]
    BY DEF ListMemberships
  <1> DEFINE locks == [n \in DOMAIN order |-> ForUpdate("org", order[n])]
             r == [s EXCEPT !.listed = TRUE, !.todo = locks]
  <1>3. TxnTyped(s) /\ Holding(s) /\ Decision(s) /\ DOMAIN s = Fields
    BY TxnFacts DEF TxnTyped
  <1>4. /\ DOMAIN r = Fields /\ SameRequest(r, s) /\ r.held = s.held /\ r.todo = locks
        /\ r.listed = TRUE /\ r.checked = s.checked
    BY <1>3 DEF Fields, SameRequest
  <1>5. txn' = [txn EXCEPT ![t] = r]
    BY <1>2
  <1>6. os \subseteq Orgs
    BY DEF OrganizationsOf
  <1>7. /\ DOMAIN order = 1 .. Cardinality(os) /\ Cardinality(os) \in Nat
        /\ \A n \in DOMAIN order : order[n] \in os
        /\ \A o \in os : \E n \in DOMAIN order : order[n] = o
    BY <1>6, SortedIsAll
  <1>8. locks \in Seq(Locks)
    <2>1. \A n \in 1 .. Cardinality(os) : ForUpdate("org", order[n]) \in Locks
      BY <1>6, <1>7, LockType
    <2>2. locks \in [1 .. Cardinality(os) -> Locks]
      BY <1>7, <2>1
    <2>3. QED
      BY <1>7, <2>2
  <1>9. DOMAIN locks = DOMAIN order /\ \A n \in DOMAIN order : locks[n] = ForUpdate("org", order[n])
    OBVIOUS
  <1> HIDE DEF locks, r, os
  <1>10. s.checked = FALSE
    BY <1>1, <1>3 DEF TxnTyped
  <1>11. Requested(r) /\ Needs(r) = Needs(s)
    BY <1>1, <1>3, <1>4, RequestedSame DEF TxnTyped, SameRequest
  <1>12. TxnTyped(r)
    BY <1>1, <1>3, <1>4, <1>8, <1>10, <1>11 DEF TxnTyped, SameRequest
  <1>13. Holding(r)
    <2>1. Needs(s) \subseteq s.held
      BY <1>1, HoldsWhatItNeeds
    <2>2. QED
      BY <1>4, <1>11, <2>1 DEF Holding
  <1>14. Decision(r)
    <2>1. OtherAdmin(r.user)
      BY <1>1, <1>4, NotLast DEF SameRequest
    <2>2. \A o \in OrganizationsOf(r.user) : ForUpdate("org", o) \in r.held \cup Pending(r)
      <3>1. SUFFICES ASSUME NEW o \in os PROVE ForUpdate("org", o) \in Pending(r)
        BY <1>4 DEF SameRequest, os
      <3>2. PICK n \in DOMAIN order : order[n] = o
        BY <1>7
      <3>3. QED
        BY <1>4, <1>9, <3>2 DEF Pending
    <2>3. r.op = "deleteUser" /\ r.checked = FALSE
      BY <1>1, <1>4, <1>10 DEF SameRequest
    <2>4. QED
      BY <2>1, <2>2, <2>3 DEF Decision
  <1>15. \A l \in r.held : l \in txn[t].held
    BY <1>4
  <1>16. r.op # "signup"
    BY <1>1, <1>4 DEF SameRequest
  <1>17. QED
    BY <1>1, <1>5, <1>12, <1>13, <1>14, <1>15, <1>16, TxnKeepsIInv

-----------------------------------------------------------------------------
(* Writes that respect the locks of other transactions.                    *)

\* None of these transactions has a lock on the row, or none has FOR UPDATE.
Alone(Q, row) == \A q \in Q : \A l \in txn[q].held : l.row # row
Shared(Q, row) == \A q \in Q : \A l \in txn[q].held : l.row = row => l.mode = "share"

\* What a write may change under the locks of the transactions of Q.
Respects(Q) ==
    /\ orgMode' = orgMode
    /\ \A u \in People : Present(u) /\ ~Present(u)' => Alone(Q, <<"user", u>>)
    /\ \A u \in People : status[u] = "absent" /\ status'[u] # "absent" =>
           \A q \in Q : txn[q].op = "signup" => txn[q].user # u
    /\ ActiveAdmins \subseteq ActiveAdmins' \/ Alone(Q, <<"role", "admin">>)
    /\ \A u \in People : u \in ActiveAdmins' /\ u \notin ActiveAdmins => Shared(Q, <<"user", u>>)
    /\ \A o \in Orgs : member'[o] # member[o] \/ organization'[o] # organization[o] => Shared(Q, <<"org", o>>)
    /\ \A o \in Orgs : Founded(o) /\ ~Founded(o)' => Alone(Q, <<"org", o>>)
    /\ \A o \in Orgs, u \in People : member[o][u] # "none" /\ member'[o][u] = "none" => Alone(Q, <<"org", o>>)
    /\ \A o \in Orgs, u \in People : member[o][u] = "none" /\ member'[o][u] # "none" => Shared(Q, <<"user", u>>)
    /\ \A i \in Invites : RowExists(<<"invite", i>>) /\ ~RowExists(<<"invite", i>>)' => Alone(Q, <<"invite", i>>)
    /\ \A i \in Invites : invitation[i].status # "absent" =>
           /\ invitation'[i].status # "absent"
           /\ \/ invitation'[i].status = "deleted"
              \/ /\ invitation[i].status # "deleted"
                 /\ invitation'[i].org = invitation[i].org /\ invitation'[i].for = invitation[i].for

\* A row that another transaction has locked stays.
LEMMA RowsStay ==
    ASSUME IInv, NEW Q \in SUBSET Txns, Respects(Q), NEW q \in Q, NEW l \in txn[q].held
    PROVE  RowExists(l.row)'
  <1>1. l \in Locks /\ RowExists(l.row)
    BY TxnFacts
  <1>2. ~Alone(Q, l.row)
    BY DEF Alone
  <1>3. l.row \in Rows
    BY <1>1 DEF Locks
  <1>4. CASE l.row = <<"role", "admin">>
    BY <1>4 DEF RowExists
  <1>5. CASE \E u \in People : l.row = <<"user", u>>
    <2>1. PICK u \in People : l.row = <<"user", u>>
      BY <1>5
    <2>2. Present(u)
      BY <1>1, <2>1 DEF RowExists
    <2>3. Present(u)'
      BY <1>2, <2>1, <2>2 DEF Respects
    <2>4. QED
      BY <2>1, <2>3 DEF RowExists
  <1>6. CASE \E o \in Orgs : l.row = <<"org", o>>
    <2>1. PICK o \in Orgs : l.row = <<"org", o>>
      BY <1>6
    <2>2. Founded(o)
      BY <1>1, <2>1 DEF RowExists
    <2>3. Founded(o)'
      BY <1>2, <2>1, <2>2 DEF Respects
    <2>4. QED
      BY <2>1, <2>3 DEF RowExists
  <1>7. CASE \E i \in Invites : l.row = <<"invite", i>>
    BY <1>1, <1>2, <1>7 DEF Respects
  <1>8. QED
    BY <1>3, <1>4, <1>5, <1>6, <1>7 DEF Rows

\* A lock of another transaction that a write would have to wait for.
LEMMA LockedRow ==
    ASSUME NEW Q, NEW q \in Q, NEW table, NEW id
    PROVE  /\ ForUpdate(table, id) \in txn[q].held => ~Shared(Q, <<table, id>>) /\ ~Alone(Q, <<table, id>>)
           /\ KeyShare(table, id) \in txn[q].held => ~Alone(Q, <<table, id>>)
  <1>1. ForUpdate(table, id).row = <<table, id>> /\ ForUpdate(table, id).mode = "update"
        /\ KeyShare(table, id).row = <<table, id>>
    BY DEF ForUpdate, KeyShare
  <1>2. QED
    BY <1>1 DEF Shared, Alone

\* What another transaction has decided stays.
LEMMA DecisionStays ==
    ASSUME IInv, NEW Q \in SUBSET Txns, Respects(Q), NEW q \in Q, NEW s, s = txn[q]
    PROVE  Decision(s)'
  <1>1. TxnTyped(s) /\ Holding(s) /\ Decision(s)
    BY TxnFacts
  <1>2. s.checked \/ s.listed => Needs(s) \subseteq s.held
    <2>1. s.checked => s.todo = <<>>
      BY <1>1 DEF TxnTyped
    <2>2. QED
      BY <1>1, <2>1, HoldsWhatItNeeds DEF Holding
  <1>3. orgMode' = orgMode
    BY DEF Respects
  <1>4. ASSUME ForUpdate("role", "admin") \in s.held, ForUpdate("user", s.user) \in s.held,
               s.user \in People, OtherAdmin(s.user)
        PROVE  OtherAdmin(s.user)'
    <2>1. ActiveAdmins \subseteq ActiveAdmins'
      BY <1>4, LockedRow DEF Respects
    <2>2. s.user \in ActiveAdmins' => s.user \in ActiveAdmins
      BY <1>4, LockedRow DEF Respects
    <2>3. QED
      BY <1>4, <2>1, <2>2 DEF OtherAdmin
  <1>5. ASSUME NEW o \in Orgs, ForUpdate("org", o) \in s.held
        PROVE  member'[o] = member[o] /\ organization'[o] = organization[o]
    BY <1>5, LockedRow DEF Respects
  <1>6. s.op \in {"disable", "revokeAdmin"} /\ s.checked => OtherAdmin(s.user)'
    <2>1. SUFFICES ASSUME s.op \in {"disable", "revokeAdmin"}, s.checked PROVE OtherAdmin(s.user)'
      OBVIOUS
    <2>2. Needs(s) = {ForUpdate("role", "admin"), ForUpdate("user", s.user)} /\ s.user \in People
      BY <1>1, <2>1 DEF Needs, TxnTyped, Requested
    <2>3. QED
      BY <1>1, <1>2, <1>4, <2>1, <2>2 DEF Decision
  <1>7. s.op \in {"removeMember", "updateMember"} /\ s.checked => member'[s.org][s.user] # "owner"
    <2>1. SUFFICES ASSUME s.op \in {"removeMember", "updateMember"}, s.checked
                   PROVE  member'[s.org][s.user] # "owner"
      OBVIOUS
    <2>2. Needs(s) = {ForUpdate("org", s.org)} /\ s.org \in Orgs
      BY <1>1, <2>1 DEF Needs, TxnTyped, Requested
    <2>3. QED
      BY <1>1, <1>2, <1>5, <2>1, <2>2 DEF Decision
  <1>8. s.op = "transfer" /\ s.checked => ~Personal(s.org)'
    <2>1. SUFFICES ASSUME s.op = "transfer", s.checked PROVE ~Personal(s.org)'
      OBVIOUS
    <2>2. ForUpdate("org", s.org) \in Needs(s) /\ s.org \in Orgs
      BY <1>1, <2>1 DEF Needs, TxnTyped, Requested
    <2>3. QED
      BY <1>1, <1>2, <1>5, <2>1, <2>2 DEF Decision, Personal
  <1>9. s.op = "deleteUser" /\ s.listed =>
          /\ OtherAdmin(s.user)'
          /\ \A o \in OrganizationsOf(s.user)' : ForUpdate("org", o) \in s.held \cup Pending(s)
    <2>1. SUFFICES ASSUME s.op = "deleteUser", s.listed
                   PROVE  /\ OtherAdmin(s.user)'
                          /\ \A o \in OrganizationsOf(s.user)' : ForUpdate("org", o) \in s.held \cup Pending(s)
      OBVIOUS
    <2>2. Needs(s) = {ForUpdate("role", "admin"), ForUpdate("user", s.user)} /\ s.user \in People
      BY <1>1, <2>1 DEF Needs, TxnTyped, Requested
    <2>3. OtherAdmin(s.user)'
      BY <1>1, <1>2, <1>4, <2>1, <2>2 DEF Decision
    <2>4. ~Shared(Q, <<"user", s.user>>)
      BY <1>2, <2>1, <2>2, LockedRow
    <2>5. OrganizationsOf(s.user)' \subseteq OrganizationsOf(s.user)
      BY <2>2, <2>4 DEF OrganizationsOf, Respects
    <2>6. QED
      BY <1>1, <2>1, <2>3, <2>5 DEF Decision
  <1>10. s.op = "deleteUser" /\ s.checked =>
           \A o \in Orgs : ForUpdate("org", o) \in s.held /\ member'[o][s.user] = "owner" =>
              \/ OwnPersonal(o, s.user)'
              \/ organization'[o].kind = "team" /\ Cardinality(MembersOf(o)') = 1
    <2>1. SUFFICES ASSUME s.op = "deleteUser", s.checked, NEW o \in Orgs, ForUpdate("org", o) \in s.held,
                          member'[o][s.user] = "owner"
                   PROVE  \/ OwnPersonal(o, s.user)'
                          \/ organization'[o].kind = "team" /\ Cardinality(MembersOf(o)') = 1
      OBVIOUS
    <2>2. member'[o] = member[o] /\ organization'[o] = organization[o]
      BY <1>5, <2>1
    <2>3. \/ OwnPersonal(o, s.user)
          \/ organization[o].kind = "team" /\ Cardinality(MembersOf(o)) = 1
      BY <1>1, <2>1, <2>2 DEF Decision
    <2>4. MembersOf(o)' = MembersOf(o)
      BY <2>2 DEF MembersOf
    <2>5. OwnPersonal(o, s.user)' <=> OwnPersonal(o, s.user)
      BY <2>2 DEF OwnPersonal, Personal
    <2>6. QED
      BY <2>2, <2>3, <2>4, <2>5
  <1>11. s.op \in {"accept", "signup"} => OfOrganization(s)'
    <2>1. SUFFICES ASSUME s.op \in {"accept", "signup"} PROVE OfOrganization(s)'
      OBVIOUS
    <2>2. s.invite \in Invites
      BY <1>1, <2>1 DEF TxnTyped, Requested
    <2>3. QED
      BY <1>1, <2>1, <2>2 DEF Decision, OfOrganization, Respects
  <1>12. s.op \in {"accept", "signup"} /\ s.checked =>
           invitation'[s.invite].status = "deleted" \/ invitation'[s.invite].for = s.user
    <2>1. SUFFICES ASSUME s.op \in {"accept", "signup"}, s.checked
                   PROVE  invitation'[s.invite].status = "deleted" \/ invitation'[s.invite].for = s.user
      OBVIOUS
    <2>2. s.invite \in Invites
      BY <1>1, <2>1 DEF TxnTyped, Requested
    <2>3. invitation[s.invite].status # "absent"
          /\ (invitation[s.invite].status = "deleted" \/ invitation[s.invite].for = s.user)
      BY <1>1, <2>1 DEF Decision, OfOrganization
    <2>4. QED
      BY <2>2, <2>3 DEF Respects
  <1>13. s.op = "accept" /\ s.checked /\ orgMode = "single" =>
           (NotMember(s.org, s.user)' => OrganizationsOf(s.user)' = {})
    <2>1. SUFFICES ASSUME s.op = "accept", s.checked, orgMode = "single", member'[s.org][s.user] = "none"
                   PROVE  OrganizationsOf(s.user)' = {}
      BY DEF NotMember
    <2>2. Needs(s) = {ForUpdate("user", s.user), KeyShare("org", s.org), ForUpdate("invite", s.invite)}
          /\ s.user \in People /\ s.org \in Orgs
      BY <1>1, <2>1 DEF Needs, TxnTyped, Requested
    <2>3. ~Shared(Q, <<"user", s.user>>) /\ ~Alone(Q, <<"org", s.org>>)
      BY <1>2, <2>1, <2>2, LockedRow
    <2>4. member[s.org][s.user] = "none"
      BY <2>1, <2>2, <2>3 DEF Respects
    <2>5. OrganizationsOf(s.user) = {}
      BY <1>1, <2>1, <2>4 DEF Decision, NotMember
    <2>6. OrganizationsOf(s.user)' \subseteq OrganizationsOf(s.user)
      BY <2>2, <2>3 DEF OrganizationsOf, Respects
    <2>7. QED
      BY <2>5, <2>6
  <1>14. s.op = "signup" => status'[s.user] = "absent"
    <2>1. SUFFICES ASSUME s.op = "signup" PROVE status'[s.user] = "absent"
      OBVIOUS
    <2>2. s.user \in People /\ status[s.user] = "absent"
      BY <1>1, <2>1 DEF TxnTyped, Requested, Decision
    <2>3. QED
      BY <2>1, <2>2 DEF Respects
  <1>15. QED
    BY <1>3, <1>6, <1>7, <1>8, <1>9, <1>10, <1>11, <1>12, <1>13, <1>14 DEF Decision

\* A write that respects the locks of the others and ends its own transaction.
LEMMA WriteKeepsIInv ==
    ASSUME IInv, NEW Q \in SUBSET Txns, Respects(Q), Tables', DOMAIN txn' = Txns,
           \A q \in Q : txn'[q] = txn[q], \A t \in Txns \ Q : txn'[t] = NoTxn
    PROVE  IInv'
  <1>1. TxnsTyped'
    BY IdleTxn DEF IInv, TxnsTyped
  <1>2. LocksExclude'
    BY IdleTxn DEF IInv, Locking, LocksExclude
  <1>3. RowsExist'
    <2>1. SUFFICES ASSUME NEW q \in Txns, NEW l \in txn'[q].held PROVE RowExists(l.row)'
      BY DEF RowsExist
    <2>2. q \in Q
      BY <2>1, IdleTxn
    <2>3. l \in txn[q].held
      BY <2>1, <2>2
    <2>4. QED
      BY <2>2, <2>3, RowsStay
  <1>4. \A q \in Txns : Holding(txn'[q])
    BY IdleTxn DEF IInv, Locking
  <1>5. ASSUME NEW q \in Txns PROVE Decision(txn[q])'
    <2>1. CASE q \in Q
      <3>1. PICK s : s = txn[q]
        OBVIOUS
      <3>2. Decision(s)'
        BY <2>1, <3>1, DecisionStays
      <3>3. txn'[q] = s
        BY <2>1, <3>1
      <3>4. QED
        BY <3>2, <3>3
    <2>2. CASE q \notin Q
      <3>1. Decision(NoTxn)'
        BY DEF Decision, NoTxn
      <3>2. QED
        BY <2>2, <3>1
    <2>3. QED
      BY <2>1, <2>2
  <1>6. \A t, q \in Txns : t # q /\ txn'[t].op = "signup" /\ txn'[q].op = "signup" => txn'[t].user # txn'[q].user
    BY IdleTxn DEF IInv, Decisions
  <1>7. QED
    BY <1>1, <1>2, <1>3, <1>4, <1>5, <1>6 DEF IInv, Locking, Decisions

\* The locks of one transaction tell which locks the others cannot have.
LEMMA LocksOfOne ==
    ASSUME IInv, NEW t \in Txns, NEW table, NEW id
    PROVE  /\ ForUpdate(table, id) \in txn[t].held =>
                 Alone(Txns \ {t}, <<table, id>>) /\ Shared(Txns \ {t}, <<table, id>>)
           /\ KeyShare(table, id) \in txn[t].held => Shared(Txns \ {t}, <<table, id>>)
           /\ Compatible(t, ForUpdate(table, id)) =>
                 Alone(Txns \ {t}, <<table, id>>) /\ Shared(Txns \ {t}, <<table, id>>)
           /\ Compatible(t, KeyShare(table, id)) => Shared(Txns \ {t}, <<table, id>>)
  <1>1. ForUpdate(table, id).row = <<table, id>> /\ ForUpdate(table, id).mode = "update"
        /\ KeyShare(table, id).row = <<table, id>> /\ KeyShare(table, id).mode = "share"
    BY DEF ForUpdate, KeyShare
  <1>2. \A q \in Txns \ {t} : \A k \in txn[t].held, l \in txn[q].held :
           k.row = l.row => k.mode = "share" /\ l.mode = "share"
    BY DEF IInv, Locking, LocksExclude
  <1>3. QED
    BY <1>1, <1>2 DEF Alone, Shared, Compatible

\* A transaction that has decided holds what its request needs.
LEMMA DecidedFacts ==
    ASSUME IInv, NEW t \in Txns, NEW op, Decided(t, op)
    PROVE  /\ txn[t].op = op /\ txn[t].checked /\ Requested(txn[t]) /\ Decision(txn[t])
           /\ Needs(txn[t]) \subseteq txn[t].held /\ Pending(txn[t]) = {}
           /\ \A l \in txn[t].held : RowExists(l.row)
           /\ op = "deleteUser" => txn[t].listed
  <1>1. txn[t].op = op /\ txn[t].checked
    BY DEF Decided
  <1>2. TxnTyped(txn[t]) /\ Decision(txn[t]) /\ \A l \in txn[t].held : RowExists(l.row)
    BY TxnFacts
  <1>3. txn[t].todo = <<>>
    BY <1>1, <1>2 DEF TxnTyped
  <1>4. Needs(txn[t]) \subseteq txn[t].held /\ Pending(txn[t]) = {}
    BY <1>3, HoldsWhatItNeeds
  <1>5. QED
    BY <1>1, <1>2, <1>4 DEF TxnTyped

\* The rows behind locks.
LEMMA RowFacts ==
    /\ \A u : RowExists(ForUpdate("user", u).row) => Present(u) /\ u \in People
    /\ \A u : RowExists(KeyShare("user", u).row) => Present(u) /\ u \in People
    /\ \A u : RowExists(<<"user", u>>) => Present(u) /\ u \in People
    /\ \A o : RowExists(ForUpdate("org", o).row) => Founded(o) /\ o \in Orgs
    /\ \A o : RowExists(KeyShare("org", o).row) => Founded(o) /\ o \in Orgs
    /\ \A i : RowExists(ForUpdate("invite", i).row) =>
          i \in Invites /\ invitation[i].status \notin {"absent", "deleted"} /\ RowExists(<<"invite", i>>)
  BY DEF RowExists, ForUpdate, KeyShare, Present, Founded

\* The transactions after a commit, and after a step without a transaction of its own.
LEMMA TxnsAfter ==
    ASSUME IInv, NEW t \in Txns, Committed(t) \/ (txn[t] = NoTxn /\ UNCHANGED txn)
    PROVE  /\ DOMAIN txn' = Txns /\ \A q \in Txns \ {t} : txn'[q] = txn[q]
           /\ \A q \in Txns \ (Txns \ {t}) : txn'[q] = NoTxn
  <1>1. DOMAIN txn = Txns
    BY DEF IInv, TxnsTyped
  <1>2. QED
    BY <1>1 DEF Committed

-----------------------------------------------------------------------------
(* Users and administrators.                                               *)

\* A write that changes what users may do, but not which users there are.
LEMMA UsersKeepIInv ==
    ASSUME IInv, NEW t \in Txns, Committed(t) \/ (txn[t] = NoTxn /\ UNCHANGED txn),
           UNCHANGED <<orgMode, organization, member, invitation>>,
           status' \in [People -> {"absent", "active", "disabled", "deleted"}],
           \A u \in People : /\ status[u] = status'[u] \/ {status[u], status'[u]} \subseteq {"active", "disabled"}
                             /\ u \in ActiveAdmins' /\ u \notin ActiveAdmins =>
                                   Shared(Txns \ {t}, <<"user", u>>),
           admins' \subseteq {u \in People : Present(u)},
           ActiveAdmins \subseteq ActiveAdmins' \/ Alone(Txns \ {t}, <<"role", "admin">>)
    PROVE  IInv'
  <1>1. \A u : Present(u)' <=> Present(u)
    BY DEF Present
  <1>2. Tables'
    <2>1. DirectoryTypeOK'
      BY <1>1 DEF IInv, Tables, DirectoryTypeOK, MembersOf, Founded, Active
    <2>2. InvitationsTyped' /\ Single'
      BY DEF IInv, Tables, InvitationsTyped, Single
    <2>3. Owned'
      BY DEF IInv, Tables, Owned, Founded, OwnersOf, Personal
    <2>4. QED
      BY <2>1, <2>2, <2>3 DEF Tables
  <1>3. Respects(Txns \ {t})
    <2>1. \A u \in People : ~(status[u] = "absent" /\ status'[u] # "absent")
      OBVIOUS
    <2>2. \A o \in Orgs : Founded(o)' <=> Founded(o)
      BY DEF Founded
    <2>3. \A i \in Invites : RowExists(<<"invite", i>>)' <=> RowExists(<<"invite", i>>)
      BY DEF RowExists
    <2>4. QED
      BY <1>1, <2>1, <2>2, <2>3 DEF Respects
  <1>4. QED
    BY <1>2, <1>3, TxnsAfter, WriteKeepsIInv

\* A user is disabled.
LEMMA DisableUserIInv ==
    ASSUME IInv, NEW t \in Txns, DisableUser(t)
    PROVE  IInv'
  <1> DEFINE u == txn[t].user
  <1>1. Decided(t, "disable") /\ Committed(t) /\ status' = [status EXCEPT ![u] = "disabled"]
        /\ UNCHANGED <<orgMode, admins, organization, member, invitation>>
    BY DEF DisableUser
  <1>2. u \in People /\ ForUpdate("user", u) \in txn[t].held /\ ForUpdate("role", "admin") \in txn[t].held
    BY <1>1, DecidedFacts DEF Requested, Needs
  <1>3. Present(u)
    BY <1>1, <1>2, DecidedFacts, RowFacts
  <1>4. Alone(Txns \ {t}, <<"role", "admin">>)
    BY <1>2, LocksOfOne
  <1>5. status \in [People -> {"absent", "active", "disabled", "deleted"}] /\ admins \subseteq {v \in People : Present(v)}
    BY DEF IInv, Tables, DirectoryTypeOK
  <1> HIDE DEF u
  <1>6. status' \in [People -> {"absent", "active", "disabled", "deleted"}]
        /\ \A v \in People : status[v] = status'[v] \/ {status[v], status'[v]} \subseteq {"active", "disabled"}
    BY <1>1, <1>2, <1>3, <1>5 DEF Present
  <1>7. ActiveAdmins' \subseteq ActiveAdmins
    BY <1>1, <1>2, <1>5 DEF ActiveAdmins
  <1>8. QED
    BY <1>1, <1>4, <1>5, <1>6, <1>7, UsersKeepIInv

\* A user is enabled again.
LEMMA EnableUserIInv ==
    ASSUME IInv, NEW t \in Txns, NEW u \in People, EnableUser(t, u)
    PROVE  IInv'
  <1>1. Present(u) /\ txn[t] = NoTxn /\ MayWrite(t, "user", {u}) /\ status' = [status EXCEPT ![u] = "active"]
        /\ UNCHANGED <<orgMode, admins, organization, member, invitation, txn>>
    BY DEF EnableUser
  <1>2. Shared(Txns \ {t}, <<"user", u>>)
    BY <1>1, LocksOfOne DEF MayWrite
  <1>3. status \in [People -> {"absent", "active", "disabled", "deleted"}] /\ admins \subseteq {v \in People : Present(v)}
    BY DEF IInv, Tables, DirectoryTypeOK
  <1>4. status' \in [People -> {"absent", "active", "disabled", "deleted"}]
        /\ \A v \in People : status[v] = status'[v] \/ {status[v], status'[v]} \subseteq {"active", "disabled"}
    BY <1>1, <1>3 DEF Present
  <1>5. ActiveAdmins \subseteq ActiveAdmins' /\ \A v \in ActiveAdmins' : v \in ActiveAdmins \/ v = u
    BY <1>1, <1>3 DEF ActiveAdmins
  <1>6. QED
    BY <1>1, <1>2, <1>3, <1>4, <1>5, UsersKeepIInv

\* A user becomes an administrator.
LEMMA GrantAdminIInv ==
    ASSUME IInv, NEW t \in Txns, NEW u \in People, GrantAdmin(t, u)
    PROVE  IInv'
  <1>1. txn[t] = NoTxn /\ MayRefer(t, "user", u) /\ admins' = admins \cup {u}
        /\ UNCHANGED <<orgMode, status, organization, member, invitation, txn>>
    BY DEF GrantAdmin
  <1>2. Shared(Txns \ {t}, <<"user", u>>) /\ Present(u)
    BY <1>1, LocksOfOne, RowFacts DEF MayRefer
  <1>3. status \in [People -> {"absent", "active", "disabled", "deleted"}] /\ admins \subseteq {v \in People : Present(v)}
    BY DEF IInv, Tables, DirectoryTypeOK
  <1>4. admins' \subseteq {v \in People : Present(v)}
    BY <1>1, <1>2, <1>3
  <1>5. ActiveAdmins \subseteq ActiveAdmins' /\ \A v \in ActiveAdmins' : v \in ActiveAdmins \/ v = u
    BY <1>1 DEF ActiveAdmins
  <1>6. QED
    BY <1>1, <1>2, <1>3, <1>4, <1>5, UsersKeepIInv

\* An administrator is one no longer.
LEMMA RevokeAdminIInv ==
    ASSUME IInv, NEW t \in Txns, RevokeAdmin(t)
    PROVE  IInv'
  <1>1. Decided(t, "revokeAdmin") /\ Committed(t) /\ admins' = admins \ {txn[t].user}
        /\ UNCHANGED <<orgMode, status, organization, member, invitation>>
    BY DEF RevokeAdmin
  <1>2. ForUpdate("role", "admin") \in txn[t].held
    BY <1>1, DecidedFacts DEF Needs
  <1>3. Alone(Txns \ {t}, <<"role", "admin">>)
    BY <1>2, LocksOfOne
  <1>4. status \in [People -> {"absent", "active", "disabled", "deleted"}] /\ admins \subseteq {v \in People : Present(v)}
    BY DEF IInv, Tables, DirectoryTypeOK
  <1>5. ActiveAdmins' \subseteq ActiveAdmins /\ admins' \subseteq {v \in People : Present(v)}
    BY <1>1, <1>4 DEF ActiveAdmins
  <1>6. QED
    BY <1>1, <1>3, <1>4, <1>5, UsersKeepIInv

-----------------------------------------------------------------------------
(* Members.                                                                *)

\* A write that changes members of one organization, keeps its owner the only
\* one, and lets nobody join or leave against a lock.
LEMMA MembersKeepIInv ==
    ASSUME IInv, NEW t \in Txns, Committed(t),
           UNCHANGED <<orgMode, status, admins, organization, invitation>>,
           NEW o \in Orgs, Founded(o), NEW row \in [People -> Roles \cup {"none"}],
           member' = [member EXCEPT ![o] = row],
           ForUpdate("org", o) \in txn[t].held,
           \A u \in People : row[u] # "none" => member[o][u] # "none",
           \E w \in People : {u \in People : row[u] = "owner"} = {w}
                             /\ (Personal(o) => organization[o].by = w)
    PROVE  IInv'
  <1>1. member \in [Orgs -> [People -> Roles \cup {"none"}]]
    BY DEF IInv, Tables, DirectoryTypeOK
  <1>2. member' \in [Orgs -> [People -> Roles \cup {"none"}]] /\ member'[o] = row
        /\ \A p \in Orgs \ {o} : member'[p] = member[p]
    BY <1>1
  <1>3. \A p \in Orgs, u \in People : member'[p][u] # "none" => member[p][u] # "none"
    BY <1>2
  <1>4. Tables'
    <2>1. DirectoryTypeOK'
      <3>1. \A p \in Orgs : \A u \in MembersOf(p)' : Present(u)' /\ Founded(p)'
        BY <1>3 DEF IInv, Tables, DirectoryTypeOK, MembersOf, Present, Founded
      <3>2. QED
        BY <1>2, <3>1 DEF IInv, Tables, DirectoryTypeOK, Present, Founded, Active
    <2>2. InvitationsTyped'
      BY DEF IInv, Tables, InvitationsTyped
    <2>3. Single'
      BY <1>3 DEF IInv, Tables, Single
    <2>4. Owned'
      <3>1. SUFFICES ASSUME NEW p \in Orgs, Founded(p)
                     PROVE  \E w \in People : OwnersOf(p)' = {w} /\ (Personal(p) => organization[p].by = w)
        BY DEF Owned, Founded, Personal
      <3>2. CASE p = o
        BY <1>2, <3>2 DEF OwnersOf
      <3>3. CASE p # o
        <4>1. OwnersOf(p)' = OwnersOf(p)
          BY <1>2, <3>3 DEF OwnersOf
        <4>2. QED
          BY <3>1, <4>1, OwnerFacts
      <3>4. QED
        BY <3>2, <3>3
    <2>5. QED
      BY <2>1, <2>2, <2>3, <2>4 DEF Tables
  <1>5. Respects(Txns \ {t})
    <2>1. Alone(Txns \ {t}, <<"org", o>>) /\ Shared(Txns \ {t}, <<"org", o>>)
      BY LocksOfOne
    <2>2. \A p \in Orgs : member'[p] # member[p] \/ organization'[p] # organization[p] => p = o
      BY <1>2
    <2>3. \A p \in Orgs, u \in People : member[p][u] # "none" /\ member'[p][u] = "none" => p = o
      BY <1>2
    <2>4. (\A u : Present(u)' <=> Present(u)) /\ (\A p : Founded(p)' <=> Founded(p)) /\ ActiveAdmins' = ActiveAdmins
      BY DEF Present, Founded, ActiveAdmins
    <2>5. \A i \in Invites : RowExists(<<"invite", i>>)' <=> RowExists(<<"invite", i>>)
      BY DEF RowExists
    <2>6. QED
      BY <1>3, <2>1, <2>2, <2>3, <2>4, <2>5 DEF Respects
  <1>6. QED
    BY <1>4, <1>5, TxnsAfter, WriteKeepsIInv

\* A member leaves or is removed.
LEMMA RemoveMemberIInv ==
    ASSUME IInv, NEW t \in Txns, RemoveOrganizationMember(t)
    PROVE  IInv'
  <1> DEFINE o == txn[t].org
             u == txn[t].user
             row == [member[o] EXCEPT ![u] = "none"]
  <1>1. Decided(t, "removeMember") /\ Committed(t) /\ member' = [member EXCEPT ![o][u] = "none"]
        /\ UNCHANGED <<orgMode, status, admins, organization, invitation>>
    BY DEF RemoveOrganizationMember
  <1>2. u \in People /\ o \in Orgs /\ ForUpdate("org", o) \in txn[t].held /\ member[o][u] # "owner"
    BY <1>1, DecidedFacts DEF Requested, Needs, Decision
  <1>3. Founded(o)
    BY <1>1, <1>2, DecidedFacts, RowFacts
  <1>4. member \in [Orgs -> [People -> Roles \cup {"none"}]]
    BY DEF IInv, Tables, DirectoryTypeOK
  <1>5. row \in [People -> Roles \cup {"none"}] /\ member' = [member EXCEPT ![o] = row]
    BY <1>1, <1>2, <1>4
  <1>6. \A v \in People : row[v] # "none" => member[o][v] # "none"
    BY <1>2, <1>4
  <1>7. {v \in People : row[v] = "owner"} = OwnersOf(o)
    BY <1>2, <1>4 DEF OwnersOf
  <1> HIDE DEF row, o, u
  <1>8. \E w \in People : {v \in People : row[v] = "owner"} = {w} /\ (Personal(o) => organization[o].by = w)
    BY <1>2, <1>3, <1>7, OwnerFacts
  <1>9. QED
    BY <1>1, <1>2, <1>3, <1>5, <1>6, <1>8, MembersKeepIInv

\* A member gets another role.
LEMMA UpdateMemberIInv ==
    ASSUME IInv, NEW t \in Txns, UpdateOrganizationMember(t)
    PROVE  IInv'
  <1> DEFINE o == txn[t].org
             u == txn[t].user
             role == txn[t].role
             row == [member[o] EXCEPT ![u] = role]
  <1>1. Decided(t, "updateMember") /\ Committed(t) /\ member[o][u] # "none"
        /\ member' = [member EXCEPT ![o][u] = role]
        /\ UNCHANGED <<orgMode, status, admins, organization, invitation>>
    BY DEF UpdateOrganizationMember
  <1>2. u \in People /\ o \in Orgs /\ ForUpdate("org", o) \in txn[t].held /\ member[o][u] # "owner"
        /\ role \in {"admin", "member"}
    BY <1>1, DecidedFacts DEF Requested, Needs, Decision
  <1>3. Founded(o)
    BY <1>1, <1>2, DecidedFacts, RowFacts
  <1>4. member \in [Orgs -> [People -> Roles \cup {"none"}]]
    BY DEF IInv, Tables, DirectoryTypeOK
  <1>5. row \in [People -> Roles \cup {"none"}] /\ member' = [member EXCEPT ![o] = row]
    BY <1>1, <1>2, <1>4 DEF Roles
  <1>6. \A v \in People : row[v] # "none" => member[o][v] # "none"
    BY <1>1, <1>2, <1>4
  <1>7. {v \in People : row[v] = "owner"} = OwnersOf(o)
    BY <1>2, <1>4 DEF OwnersOf
  <1> HIDE DEF row, o, u, role
  <1>8. \E w \in People : {v \in People : row[v] = "owner"} = {w} /\ (Personal(o) => organization[o].by = w)
    BY <1>2, <1>3, <1>7, OwnerFacts
  <1>9. QED
    BY <1>1, <1>2, <1>3, <1>5, <1>6, <1>8, MembersKeepIInv

\* The ownership is handed over.
LEMMA TransferIInv ==
    ASSUME IInv, NEW t \in Txns, TransferOrganizationOwnership(t)
    PROVE  IInv'
  <1> DEFINE o == txn[t].org
             a == txn[t].actor
             u == txn[t].user
             row == [member[o] EXCEPT ![a] = "admin", ![u] = "owner"]
  <1>1. Decided(t, "transfer") /\ Committed(t) /\ a \in MembersOf(o) /\ u \in MembersOf(o)
        /\ OwnersOf(o) \subseteq {a, u}
        /\ member' = [member EXCEPT ![o][a] = "admin", ![o][u] = "owner"]
        /\ UNCHANGED <<orgMode, status, admins, organization, invitation>>
    BY DEF TransferOrganizationOwnership
  <1>2. a \in People /\ u \in People /\ o \in Orgs /\ ForUpdate("org", o) \in txn[t].held /\ a # u
        /\ ~Personal(o)
    <2>1. /\ txn[t].op = "transfer" /\ txn[t].checked /\ Requested(txn[t]) /\ Decision(txn[t])
          /\ Needs(txn[t]) \subseteq txn[t].held
      BY <1>1, DecidedFacts
    <2>2. a \in People /\ u \in People /\ o \in Orgs /\ a # u
      BY <2>1 DEF Requested
    <2>3. ForUpdate("org", o) \in txn[t].held
      BY <2>1 DEF Needs
    <2>4. ~Personal(o)
      BY <2>1 DEF Decision
    <2>5. QED
      BY <2>2, <2>3, <2>4
  <1>3. Founded(o)
    BY <1>1, <1>2, DecidedFacts, RowFacts
  <1>4. member \in [Orgs -> [People -> Roles \cup {"none"}]]
    BY DEF IInv, Tables, DirectoryTypeOK
  <1>5. row \in [People -> Roles \cup {"none"}] /\ member' = [member EXCEPT ![o] = row]
    BY <1>1, <1>2, <1>4 DEF Roles
  <1>6. \A v \in People : row[v] # "none" => member[o][v] # "none"
    BY <1>1, <1>2, <1>4 DEF MembersOf
  <1>7. {v \in People : row[v] = "owner"} = {u}
    BY <1>1, <1>2, <1>4 DEF OwnersOf
  <1> HIDE DEF row, o, u, a
  <1>8. QED
    BY ZenonT(60), <1>1, <1>2, <1>3, <1>5, <1>6, <1>7, MembersKeepIInv
-----------------------------------------------------------------------------
(* Invitations.                                                            *)

\* What an invitation is of and for, and that it exists, does not change.
SameInvitation(i) ==
    invitation[i].status # "absent" =>
        /\ invitation'[i].status # "absent"
        /\ invitation'[i].status = "deleted" <=> invitation[i].status = "deleted"
        /\ invitation'[i].org = invitation[i].org /\ invitation'[i].for = invitation[i].for

\* A write that changes what invitations have become, or adds one.
LEMMA InvitationsKeepIInv ==
    ASSUME IInv, NEW Q \in SUBSET Txns, DOMAIN txn' = Txns,
           \A q \in Q : txn'[q] = txn[q], \A t \in Txns \ Q : txn'[t] = NoTxn,
           UNCHANGED <<orgMode, status, admins, organization, member>>,
           InvitationsTyped', \A i \in Invites : SameInvitation(i),
           \A i \in Invites : Active(i)' => Founded(invitation'[i].org)
    PROVE  IInv'
  <1>1. (\A u : Present(u)' <=> Present(u)) /\ (\A p : Founded(p)' <=> Founded(p)) /\ ActiveAdmins' = ActiveAdmins
    BY DEF Present, Founded, ActiveAdmins
  <1>2. Tables'
    <2>1. DirectoryTypeOK'
      <3>1. \A o \in Orgs : MembersOf(o)' = MembersOf(o)
        BY DEF MembersOf
      <3>2. \A i \in Invites : Active(i)' => Founded(invitation[i].org)'
        BY <1>1
      <3>3. QED
        BY <1>1, <3>1, <3>2 DEF IInv, Tables, DirectoryTypeOK
    <2>2. Single'
      BY DEF IInv, Tables, Single
    <2>3. Owned'
      BY DEF IInv, Tables, Owned, Founded, OwnersOf, Personal
    <2>4. QED
      BY <2>1, <2>2, <2>3 DEF Tables
  <1>3. Respects(Q)
    <2>1. \A i \in Invites : RowExists(<<"invite", i>>) => RowExists(<<"invite", i>>)'
      BY DEF RowExists, SameInvitation
    <2>2. \A u \in People : ~(status[u] = "absent" /\ status'[u] # "absent")
      OBVIOUS
    <2>3. \A o \in Orgs : member'[o] = member[o] /\ organization'[o] = organization[o]
      OBVIOUS
    <2>4. QED
      BY <1>1, <2>1, <2>2, <2>3 DEF Respects, SameInvitation
  <1>4. QED
    BY <1>2, <1>3, WriteKeepsIInv

\* An invitation of a transaction's request that is there.
LEMMA InvitationRow ==
    ASSUME IInv, NEW i \in Invites
    PROVE  /\ InvitationTyped(invitation[i]) /\ DOMAIN invitation = Invites
           /\ Active(i) => Founded(invitation[i].org)
           /\ i # NoOne
  BY DirectoryAssumption DEF IInv, Tables, InvitationsTyped, DirectoryTypeOK

\* What an invitation becomes.
LEMMA NewStatus ==
    ASSUME NEW r, InvitationTyped(r), r.status = "pending", NEW s \in {"accepted", "revoked"}
    PROVE  /\ InvitationTyped([r EXCEPT !.status = s])
           /\ [r EXCEPT !.status = s].org = r.org /\ [r EXCEPT !.status = s].for = r.for
           /\ [r EXCEPT !.status = s].status = s
  BY DEF InvitationTyped, InvitationFields

\* A new invitation, and the one that it replaces.
LEMMA CreateRowIInv ==
    ASSUME IInv, NEW t \in Txns, Committed(t),
           UNCHANGED <<orgMode, status, admins, organization, member>>,
           NEW i \in Invites, NEW old \in Invites \cup {NoOne}, NEW row,
           CreateInvitationRow(i, old, row), InvitationTyped(row), row.status = "pending", Founded(row.org)
    PROVE  IInv'
  <1> DEFINE was == [invitation[old] EXCEPT !.status = "revoked"]
  <1>1. /\ invitation[i].status = "absent" /\ (old # NoOne => Active(old))
        /\ invitation' = [k \in Invites |-> CASE k = i -> row [] k = old -> was [] OTHER -> invitation[k]]
    BY DEF CreateInvitationRow, MarkRevoked
  <1>2. \A k \in Invites : k = old => Active(k) /\ k # i
    BY <1>1, InvitationRow DEF Active
  <1>3. \A k \in Invites : k = old =>
           InvitationTyped(was) /\ was.org = invitation[k].org /\ was.for = invitation[k].for /\ was.status = "revoked"
    <2> SUFFICES ASSUME NEW k \in Invites, k = old
                 PROVE  InvitationTyped(was) /\ was.org = invitation[k].org
                        /\ was.for = invitation[k].for /\ was.status = "revoked"
      OBVIOUS
    <2>1. InvitationTyped(invitation[k])
      BY InvitationRow
    <2>2. invitation[k].status = "pending"
      BY <1>2 DEF Active
    <2>3. was = [invitation[k] EXCEPT !.status = "revoked"]
      OBVIOUS
    <2> HIDE DEF was
    <2>4. QED
      BY <2>1, <2>2, <2>3, NewStatus
  <1> HIDE DEF was
  <1>4. ASSUME NEW k \in Invites
        PROVE  \/ k = i /\ invitation'[k] = row
               \/ k = old /\ k # i /\ invitation'[k] = was
               \/ k # i /\ k # old /\ invitation'[k] = invitation[k]
    <2>1. invitation'[k] = CASE k = i -> row [] k = old -> was [] OTHER -> invitation[k]
      BY <1>1
    <2>2. CASE k = i
      BY <1>2, <2>1, <2>2
    <2>3. CASE k # i /\ k = old
      BY <2>1, <2>3
    <2>4. CASE k # i /\ k # old
      BY <2>1, <2>4
    <2>5. QED
      BY <2>2, <2>3, <2>4
  <1>5. InvitationsTyped'
    <2>1. \A k \in Invites : InvitationTyped(invitation'[k])
      BY <1>3, <1>4, InvitationRow
    <2>2. DOMAIN invitation' = Invites
      BY <1>1
    <2>3. QED
      BY <2>1, <2>2 DEF InvitationsTyped
  <1>6. \A k \in Invites : SameInvitation(k)
    <2>1. SUFFICES ASSUME NEW k \in Invites PROVE SameInvitation(k)
      OBVIOUS
    <2>2. CASE k = i
      BY <1>1, <2>2 DEF SameInvitation
    <2>3. CASE k = old /\ k # i
      BY <1>2, <1>3, <1>4, <2>3 DEF SameInvitation, Active
    <2>4. CASE k # old /\ k # i
      BY <1>4, <2>4 DEF SameInvitation
    <2>5. QED
      BY <2>2, <2>3, <2>4
  <1>7. \A k \in Invites : Active(k)' => Founded(invitation'[k].org)
    <2>1. SUFFICES ASSUME NEW k \in Invites, invitation'[k].status = "pending" PROVE Founded(invitation'[k].org)
      BY DEF Active
    <2>2. CASE k = old /\ k # i
      BY <1>3, <1>4, <2>1, <2>2
    <2>3. CASE k # old /\ k # i
      BY <1>4, <2>1, <2>3, InvitationRow DEF Active
    <2>4. QED
      BY <1>4, <2>2, <2>3
  <1>8. QED
    BY <1>5, <1>6, <1>7, TxnsAfter, InvitationsKeepIInv

\* A user is invited.
LEMMA CreateInvitationIInv ==
    ASSUME IInv, NEW t \in Txns, NEW i \in Invites, CreateInvitation(t, i)
    PROVE  IInv'
  <1> DEFINE s == txn[t]
             row == [status |-> "pending", org |-> s.org, for |-> s.user,
                     role |-> s.role, by |-> s.actor, expired |-> FALSE]
  <1>1. /\ Decided(t, "invite") /\ Committed(t) /\ CreateInvitationRow(i, s.invite, row)
        /\ UNCHANGED <<orgMode, status, admins, organization, member>>
    BY DEF CreateInvitation
  <1>2. /\ s.org \in Orgs /\ s.user \in People /\ s.actor \in People /\ s.role \in {"admin", "member"}
        /\ s.invite \in Invites \cup {NoOne} /\ KeyShare("org", s.org) \in s.held
    BY <1>1, DecidedFacts DEF Requested, Needs
  <1>3. Founded(s.org)
    BY <1>1, <1>2, DecidedFacts, RowFacts
  <1>4. InvitationTyped(row) /\ row.status = "pending" /\ row.org = s.org
    BY <1>2 DEF InvitationTyped, InvitationFields
  <1> HIDE DEF row
  <1>5. QED
    BY <1>1, <1>2, <1>3, <1>4, CreateRowIInv

\* An invitation is sent again.
LEMMA ResendInvitationIInv ==
    ASSUME IInv, NEW t \in Txns, NEW i \in Invites, ResendInvitation(t, i)
    PROVE  IInv'
  <1> DEFINE old == txn[t].invite
             row == [invitation[old] EXCEPT !.expired = FALSE]
  <1>1. /\ Decided(t, "resend") /\ Committed(t) /\ CreateInvitationRow(i, old, row)
        /\ UNCHANGED <<orgMode, status, admins, organization, member>>
    BY DEF ResendInvitation
  <1>2. old \in Invites
    BY <1>1, DecidedFacts DEF Requested
  <1> HIDE DEF old
  <1>3. InvitationTyped(invitation[old]) /\ Active(old) /\ Founded(invitation[old].org)
    <2>1. Active(old)
      BY <1>1, <1>2, InvitationRow DEF CreateInvitationRow, MarkRevoked
    <2>2. QED
      BY <1>2, <2>1, InvitationRow
  <1>4. InvitationTyped(row) /\ row.status = "pending" /\ row.org = invitation[old].org
    BY <1>3 DEF InvitationTyped, InvitationFields, Active
  <1> HIDE DEF row
  <1>5. QED
    BY <1>1, <1>2, <1>3, <1>4, CreateRowIInv

\* An invitation is revoked.
LEMMA RevokeInvitationIInv ==
    ASSUME IInv, NEW t \in Txns, RevokeInvitation(t)
    PROVE  IInv'
  <1> DEFINE i == txn[t].invite
             row == [invitation[i] EXCEPT !.status = "revoked"]
  <1>1. /\ Decided(t, "revokeInvite") /\ Committed(t) /\ Active(i)
        /\ invitation' = [invitation EXCEPT ![i] = row]
        /\ UNCHANGED <<orgMode, status, admins, organization, member>>
    BY DEF RevokeInvitation, MarkRevoked
  <1>2. i \in Invites
    BY <1>1, DecidedFacts DEF Requested
  <1> HIDE DEF i
  <1>3. /\ InvitationTyped(row) /\ row.status = "revoked"
        /\ row.org = invitation[i].org /\ row.for = invitation[i].for
    BY <1>1, <1>2, InvitationRow, NewStatus DEF Active
  <1> HIDE DEF row
  <1>4. invitation'[i] = row /\ DOMAIN invitation' = Invites
        /\ \A k \in Invites \ {i} : invitation'[k] = invitation[k]
    BY <1>1, <1>2, InvitationRow
  <1>5. InvitationsTyped'
    BY <1>3, <1>4, InvitationRow DEF InvitationsTyped
  <1>6. \A k \in Invites : SameInvitation(k)
    BY <1>1, <1>3, <1>4 DEF SameInvitation, Active
  <1>7. \A k \in Invites : Active(k)' => Founded(invitation'[k].org)
    BY <1>3, <1>4, InvitationRow DEF Active
  <1>8. QED
    BY <1>1, <1>5, <1>6, <1>7, TxnsAfter, InvitationsKeepIInv

\* The time of an invitation passes.
LEMMA ExpireIInv ==
    ASSUME IInv, NEW i \in Invites, Expire(i)
    PROVE  IInv'
  <1> DEFINE row == [invitation[i] EXCEPT !.expired = TRUE]
  <1>1. /\ Active(i) /\ invitation' = [invitation EXCEPT ![i] = row]
        /\ UNCHANGED <<orgMode, status, admins, organization, member, txn>>
    BY DEF Expire
  <1>2. /\ InvitationTyped(row) /\ row.status = "pending"
        /\ row.org = invitation[i].org /\ row.for = invitation[i].for
    <2>1. InvitationTyped(invitation[i])
      BY InvitationRow
    <2>2. QED
      BY <1>1, <2>1 DEF InvitationTyped, InvitationFields, Active
  <1> HIDE DEF row
  <1>3. invitation'[i] = row /\ DOMAIN invitation' = Invites
        /\ \A k \in Invites \ {i} : invitation'[k] = invitation[k]
    BY <1>1, InvitationRow
  <1>4. InvitationsTyped'
    BY <1>2, <1>3, InvitationRow DEF InvitationsTyped
  <1>5. \A k \in Invites : SameInvitation(k)
    BY <1>1, <1>2, <1>3 DEF SameInvitation, Active
  <1>6. \A k \in Invites : Active(k)' => Founded(invitation'[k].org)
    BY <1>1, <1>2, <1>3, InvitationRow DEF Active
  <1>7. DOMAIN txn' = Txns /\ \A q \in Txns : txn'[q] = txn[q]
    BY <1>1 DEF IInv, TxnsTyped
  <1>8. QED
    BY <1>1, <1>4, <1>5, <1>6, <1>7, InvitationsKeepIInv
-----------------------------------------------------------------------------
(* Users who join.                                                         *)

\* Nobody has locked a row that is not there.
LEMMA AbsentRow ==
    ASSUME IInv, NEW Q \in SUBSET Txns, NEW row, ~RowExists(row)
    PROVE  Alone(Q, row) /\ Shared(Q, row)
  BY DEF IInv, Locking, RowsExist, Alone, Shared

\* A write by which one user, new or known, joins organizations: the ones of new are
\* founded by it for the user, who becomes their owner.
Joins(u, new) ==
    /\ UNCHANGED <<orgMode, admins>>
    /\ status' \in [People -> {"absent", "active", "disabled", "deleted"}]
    /\ \A v \in People : status'[v] = status[v] \/ (v = u /\ status[v] = "absent")
    /\ Present(u)'
    /\ organization' \in [Orgs -> [kind : {"none", "personal", "team", "deleted"}, by : People \cup {NoOne}]]
    /\ \A p \in Orgs \ new : organization'[p] = organization[p]
    /\ \A p \in new : /\ organization[p] = NoOrganization /\ organization'[p].kind \in {"personal", "team"}
                      /\ organization'[p].by = u /\ member'[p][u] = "owner"
    /\ member' \in [Orgs -> [People -> Roles \cup {"none"}]]
    /\ \A p \in Orgs, v \in People : member'[p][v] # member[p][v] =>
           v = u /\ Founded(p)' /\ member[p][v] = "none" /\ (p \in new \/ member'[p][v] # "owner")
    /\ orgMode = "single" =>
           \A p, q \in Orgs : member'[p][u] # "none" /\ member'[q][u] # "none" => p = q

LEMMA JoinsKeepsIInv ==
    ASSUME IInv, NEW Q \in SUBSET Txns, DOMAIN txn' = Txns,
           \A q \in Q : txn'[q] = txn[q], \A t \in Txns \ Q : txn'[t] = NoTxn,
           NEW u \in People, NEW new \in SUBSET Orgs, Joins(u, new),
           InvitationsTyped', \A i \in Invites : SameInvitation(i),
           \A i \in Invites : Active(i)' => Founded(invitation'[i].org),
           Shared(Q, <<"user", u>>),
           \A p \in Orgs \ new : member'[p] # member[p] => Shared(Q, <<"org", p>>),
           status[u] = "absent" => \A q \in Q : txn[q].op = "signup" => txn[q].user # u
    PROVE  IInv'
  <1>1. /\ status \in [People -> {"absent", "active", "disabled", "deleted"}]
        /\ admins \subseteq {v \in People : Present(v)} /\ orgMode \in Modes
        /\ member \in [Orgs -> [People -> Roles \cup {"none"}]]
        /\ \A o \in Orgs : \A v \in People : member[o][v] # "none" => Present(v) /\ Founded(o)
    BY DEF IInv, Tables, DirectoryTypeOK, MembersOf
  <1>2. \A v \in People : Present(v) => Present(v)' /\ status'[v] = status[v]
    BY DEF Joins, Present
  <1>3. ActiveAdmins' = ActiveAdmins
    BY <1>1, <1>2 DEF Joins, ActiveAdmins
  <1>4. \A p \in new : ~Founded(p) /\ Founded(p)'
    BY DEF Joins, Founded, NoOrganization
  <1>5. \A p \in Orgs \ new : Founded(p)' <=> Founded(p)
    BY DEF Joins, Founded
  <1>6. \A p \in Orgs, v \in People : member[p][v] # "none" => member'[p][v] = member[p][v] /\ p \notin new
    BY <1>1, <1>4 DEF Joins
  <1>7. Tables'
    <2>1. DirectoryTypeOK'
      <3>1. admins' \subseteq {v \in People : Present(v)'}
        BY <1>1, <1>2 DEF Joins
      <3>2. ASSUME NEW o \in Orgs, NEW v \in People, member'[o][v] # "none" PROVE Present(v)' /\ Founded(o)'
        <4>1. CASE member'[o][v] = member[o][v]
          BY <1>1, <1>2, <1>4, <1>5, <3>2, <4>1
        <4>2. CASE member'[o][v] # member[o][v]
          BY <4>2 DEF Joins
        <4>3. QED
          BY <4>1, <4>2
      <3>3. \A i \in Invites : Active(i)' => Founded(invitation[i].org)'
        <4>1. SUFFICES ASSUME NEW i \in Invites, Active(i)' PROVE Founded(invitation[i].org)'
          OBVIOUS
        <4>2. Founded(invitation'[i].org) /\ invitation'[i].org \in Orgs
          BY <4>1 DEF Founded
        <4>3. PICK p \in Orgs : p = invitation'[i].org
          BY <4>2
        <4>4. organization'[p].kind \in {"personal", "team"}
          BY <1>4, <1>5, <4>2, <4>3 DEF Founded
        <4>5. QED
          BY <4>3, <4>4 DEF Founded
      <3>4. \A o \in Orgs : \A v \in MembersOf(o)' : Present(v)' /\ Founded(o)'
        BY <3>2 DEF MembersOf
      <3>5. QED
        BY <1>1, <3>1, <3>3, <3>4 DEF Joins, DirectoryTypeOK
    <2>2. Single'
      <3>1. SUFFICES ASSUME orgMode = "single", NEW v \in People, NEW o \in Orgs, NEW p \in Orgs,
                            member'[o][v] # "none", member'[p][v] # "none"
                     PROVE  o = p
        BY DEF Single, Joins
      <3>2. CASE v = u
        BY <3>1, <3>2 DEF Joins
      <3>3. CASE v # u
        BY <3>1, <3>3 DEF Joins, IInv, Tables, Single
      <3>4. QED
        BY <3>2, <3>3
    <2>3. Owned'
      <3>1. SUFFICES ASSUME NEW p \in Orgs, Founded(p)'
                     PROVE  \E w \in People : OwnersOf(p)' = {w} /\ (Personal(p)' => organization'[p].by = w)
        BY DEF Owned
      <3>2. CASE p \in new
        <4>1. OwnersOf(p)' = {u}
          <5>1. ASSUME NEW v \in People, v # u PROVE member'[p][v] # "owner"
            BY <1>1, <1>4, <3>2, <5>1 DEF Joins
          <5>2. QED
            BY <3>2, <5>1 DEF OwnersOf, Joins
        <4>2. QED
          BY <3>2, <4>1 DEF Joins
      <3>3. CASE p \notin new
        <4>1. OwnersOf(p)' = OwnersOf(p)
          <5>1. ASSUME NEW v \in People PROVE member'[p][v] = "owner" <=> member[p][v] = "owner"
            BY <1>6, <3>3 DEF Joins
          <5>2. QED
            BY <5>1 DEF OwnersOf
        <4>2. organization'[p] = organization[p] /\ Founded(p)
          BY <1>5, <3>1, <3>3 DEF Joins
        <4>3. QED
          BY <4>1, <4>2, OwnerFacts DEF Personal
      <3>4. QED
        BY <3>2, <3>3
    <2>4. QED
      BY <2>1, <2>2, <2>3 DEF Tables
  <1>8. Respects(Q)
    <2>1. \A v \in People : status[v] = "absent" /\ status'[v] # "absent" =>
             \A q \in Q : txn[q].op = "signup" => txn[q].user # v
      BY DEF Joins
    <2>2. \A o \in Orgs : member'[o] # member[o] \/ organization'[o] # organization[o] => Shared(Q, <<"org", o>>)
      <3>1. \A o \in new : Shared(Q, <<"org", o>>)
        <4>1. \A o \in new : ~RowExists(<<"org", o>>)
          BY <1>4 DEF RowExists
        <4>2. QED
          BY <4>1, AbsentRow
      <3>2. QED
        BY <3>1 DEF Joins
    <2>3. \A o \in Orgs : Founded(o) => Founded(o)'
      BY <1>4, <1>5
    <2>4. \A o \in Orgs, v \in People : ~(member[o][v] # "none" /\ member'[o][v] = "none")
      BY <1>6
    <2>5. \A o \in Orgs, v \in People : member[o][v] = "none" /\ member'[o][v] # "none" => v = u
      BY DEF Joins
    <2>6. \A i \in Invites : RowExists(<<"invite", i>>) => RowExists(<<"invite", i>>)'
      BY DEF RowExists, SameInvitation
    <2>7. orgMode' = orgMode
      BY DEF Joins
    <2>8. QED
      BY <1>2, <1>3, <2>1, <2>2, <2>3, <2>4, <2>5, <2>6, <2>7 DEF Respects, SameInvitation
  <1>9. QED
    BY <1>7, <1>8, WriteKeepsIInv

\* An invitation becomes accepted.
LEMMA AcceptedKept ==
    ASSUME IInv, NEW i \in Invites, MarkAccepted(i)
    PROVE  /\ InvitationsTyped' /\ \A k \in Invites : SameInvitation(k)
           /\ \A k \in Invites : Active(k)' => Founded(invitation'[k].org)
           /\ InvitationTyped(invitation[i]) /\ Active(i) /\ Founded(invitation[i].org)
  <1> DEFINE row == [invitation[i] EXCEPT !.status = "accepted"]
  <1>1. Active(i) /\ invitation' = [invitation EXCEPT ![i] = row]
    BY DEF MarkAccepted
  <1>2. /\ InvitationTyped(row) /\ row.status = "accepted"
        /\ row.org = invitation[i].org /\ row.for = invitation[i].for
    BY <1>1, InvitationRow, NewStatus DEF Active
  <1> HIDE DEF row
  <1>3. invitation'[i] = row /\ DOMAIN invitation' = Invites
        /\ \A k \in Invites \ {i} : invitation'[k] = invitation[k]
    BY <1>1, InvitationRow
  <1>4. InvitationsTyped'
    BY <1>2, <1>3, InvitationRow DEF InvitationsTyped
  <1>5. \A k \in Invites : SameInvitation(k)
    BY <1>1, <1>2, <1>3 DEF SameInvitation, Active
  <1>6. \A k \in Invites : Active(k)' => Founded(invitation'[k].org)
    BY <1>2, <1>3, InvitationRow DEF Active
  <1>7. QED
    BY <1>1, <1>4, <1>5, <1>6, InvitationRow
\* Types of the tables, and what absent users and organizations have.
LEMMA TableFacts ==
    ASSUME IInv
    PROVE  /\ status \in [People -> {"absent", "active", "disabled", "deleted"}]
           /\ organization \in [Orgs -> [kind : {"none", "personal", "team", "deleted"}, by : People \cup {NoOne}]]
           /\ member \in [Orgs -> [People -> Roles \cup {"none"}]]
           /\ \A o \in Orgs : \A v \in People : member[o][v] # "none" => Present(v) /\ Founded(o)
           /\ DOMAIN txn = Txns
  BY DEF IInv, Tables, DirectoryTypeOK, MembersOf, TxnsTyped

\* Invitations that a write leaves alone.
LEMMA InvitationsUnchanged ==
    ASSUME IInv, invitation' = invitation
    PROVE  /\ InvitationsTyped' /\ \A i \in Invites : SameInvitation(i)
           /\ \A i \in Invites : Active(i)' => Founded(invitation'[i].org)
  BY InvitationRow DEF SameInvitation, IInv, Tables, InvitationsTyped, Active

\* The owner of a new organization.
LEMMA FoundedFor ==
    ASSUME IInv, NEW u \in People, NEW o \in Orgs, organization[o] = NoOrganization,
           NEW kind \in {"personal", "team"}, Found(o, kind, u), Present(u)',
           UNCHANGED <<orgMode, admins>>,
           status' \in [People -> {"absent", "active", "disabled", "deleted"}],
           \A v \in People : status'[v] = status[v] \/ (v = u /\ status[v] = "absent"),
           member' \in [Orgs -> [People -> Roles \cup {"none"}]], member'[o][u] = "owner",
           \A p \in Orgs, v \in People : member'[p][v] # member[p][v] =>
              v = u /\ member[p][v] = "none" /\ (p = o \/ (Founded(p) /\ member'[p][v] # "owner")),
           orgMode = "single" => \A p, q \in Orgs : member'[p][u] # "none" /\ member'[q][u] # "none" => p = q
    PROVE  Joins(u, {o})
  <1>1. organization \in [Orgs -> [kind : {"none", "personal", "team", "deleted"}, by : People \cup {NoOne}]]
    BY TableFacts
  <1>2. organization' = [organization EXCEPT ![o] = [kind |-> kind, by |-> u]]
    BY DEF Found
  <1>3. /\ organization'[o].kind = kind /\ organization'[o].by = u
        /\ \A p \in Orgs \ {o} : organization'[p] = organization[p]
    BY <1>1, <1>2
  <1>4. organization' \in [Orgs -> [kind : {"none", "personal", "team", "deleted"}, by : People \cup {NoOne}]]
    BY <1>1, <1>2
  <1>5. Founded(o)' /\ \A p \in Orgs : Founded(p) => Founded(p)'
    BY <1>3 DEF Founded, NoOrganization
  <1>6. QED
    BY <1>3, <1>4, <1>5 DEF Joins

\* An organization is founded.
LEMMA CreateOrganizationIInv ==
    ASSUME IInv, NEW t \in Txns, NEW u \in People, NEW o \in Orgs, CreateOrganization(t, u, o)
    PROVE  IInv'
  <1>1. /\ txn[t] = NoTxn /\ orgMode = "multi" /\ MayRefer(t, "user", u) /\ organization[o] = NoOrganization
        /\ Found(o, "team", u) /\ member' = [member EXCEPT ![o][u] = "owner"]
        /\ UNCHANGED <<orgMode, status, admins, invitation, txn>>
    BY DEF CreateOrganization
  <1>2. Shared(Txns \ {t}, <<"user", u>>) /\ Present(u) /\ Present(u)'
    BY <1>1, LocksOfOne, RowFacts DEF MayRefer, Present
  <1>3. ~Founded(o)
    BY <1>1 DEF Founded, NoOrganization
  <1>4. member[o][u] = "none"
    BY <1>3, TableFacts
  <1>5. /\ member' \in [Orgs -> [People -> Roles \cup {"none"}]] /\ member'[o][u] = "owner"
        /\ \A p \in Orgs, v \in People : member'[p][v] # member[p][v] => p = o /\ v = u
        /\ \A p \in Orgs \ {o} : member'[p] = member[p]
    BY <1>1, TableFacts DEF Roles
  <1>6. Joins(u, {o})
    BY <1>1, <1>2, <1>4, <1>5, FoundedFor, TableFacts
  <1>7. status[u] # "absent"
    BY <1>2 DEF Present
  <1>8. QED
    BY <1>1, <1>2, <1>5, <1>6, <1>7, TxnsAfter, InvitationsUnchanged, JoinsKeepsIInv

\* A user is new.
LEMMA NewUser ==
    ASSUME IInv, NEW u \in People, status[u] = "absent", NEW Q \in SUBSET Txns,
           status' = [status EXCEPT ![u] = "active"]
    PROVE  /\ Shared(Q, <<"user", u>>) /\ Present(u)'
           /\ \A o \in Orgs : member[o][u] = "none"
           /\ status' \in [People -> {"absent", "active", "disabled", "deleted"}]
           /\ \A v \in People : status'[v] = status[v] \/ (v = u /\ status[v] = "absent")
  <1>1. ~Present(u)
    BY DEF Present
  <1>2. ~RowExists(<<"user", u>>)
    BY <1>1 DEF RowExists
  <1>3. Shared(Q, <<"user", u>>)
    BY <1>2, AbsentRow
  <1>4. /\ status' \in [People -> {"absent", "active", "disabled", "deleted"}] /\ status'[u] = "active"
        /\ \A v \in People : v # u => status'[v] = status[v]
    BY TableFacts
  <1>5. Present(u)'
    BY <1>4 DEF Present
  <1>6. QED
    BY <1>1, <1>3, <1>4, <1>5, TableFacts

\* A user signs up.
LEMMA SignupIInv ==
    ASSUME IInv, NEW u \in People, NEW o \in Orgs, Signup(u, o)
    PROVE  IInv'
  <1>1. /\ status[u] = "absent" /\ organization[o] = NoOrganization
        /\ \A t \in Txns : txn[t].op = "signup" => txn[t].user # u
        /\ status' = [status EXCEPT ![u] = "active"]
        /\ Found(o, InitialKind(FALSE), u) /\ member' = [member EXCEPT ![o][u] = "owner"]
        /\ UNCHANGED <<orgMode, admins, invitation, txn>>
    BY DEF Signup
  <1>2. /\ Shared(Txns, <<"user", u>>) /\ Present(u)'
        /\ \A p \in Orgs : member[p][u] = "none"
        /\ status' \in [People -> {"absent", "active", "disabled", "deleted"}]
        /\ \A v \in People : status'[v] = status[v] \/ (v = u /\ status[v] = "absent")
    BY <1>1, NewUser
  <1>3. /\ member' \in [Orgs -> [People -> Roles \cup {"none"}]] /\ member'[o][u] = "owner"
        /\ \A p \in Orgs, v \in People : member'[p][v] # member[p][v] => p = o /\ v = u
        /\ \A p \in Orgs \ {o} : member'[p] = member[p]
    BY <1>1, TableFacts DEF Roles
  <1>4. PICK kind \in {"personal", "team"} : Found(o, kind, u)
    BY <1>1 DEF InitialKind
  <1>5. \A p, q \in Orgs : member'[p][u] # "none" /\ member'[q][u] # "none" => p = q
    BY <1>2, <1>3
  <1>6. Joins(u, {o})
    <2>1. \A p \in Orgs, v \in People : member'[p][v] # member[p][v] => v = u /\ member[p][v] = "none" /\ p = o
      BY <1>2, <1>3
    <2>2. \A p \in Orgs, v \in People : member'[p][v] # member[p][v] =>
             v = u /\ member[p][v] = "none" /\ (p = o \/ (Founded(p) /\ member'[p][v] # "owner"))
      BY <2>1
    <2>3. orgMode = "single" => \A p, q \in Orgs : member'[p][u] # "none" /\ member'[q][u] # "none" => p = q
      BY <1>5
    <2>4. UNCHANGED <<orgMode, admins>> /\ organization[o] = NoOrganization /\ member'[o][u] = "owner"
      BY <1>1, <1>3
    <2>5. /\ Present(u)' /\ status' \in [People -> {"absent", "active", "disabled", "deleted"}]
          /\ \A v \in People : status'[v] = status[v] \/ (v = u /\ status[v] = "absent")
          /\ member' \in [Orgs -> [People -> Roles \cup {"none"}]]
      BY <1>2, <1>3
    <2>6. QED
      BY <1>4, <2>2, <2>3, <2>4, <2>5, FoundedFor
  <1>7. DOMAIN txn' = Txns /\ \A q \in Txns : txn'[q] = txn[q]
    BY <1>1, TableFacts
  <1>8. QED
    BY <1>1, <1>2, <1>3, <1>6, <1>7, InvitationsUnchanged, JoinsKeepsIInv
\* A user is admitted to an organization.
LEMMA AdmitJoins ==
    ASSUME IInv, NEW u \in People, NEW o \in Orgs, NEW role \in {"admin", "member"},
           Admit(o, u, role), Founded(o), Present(u)', UNCHANGED <<orgMode, admins, organization>>,
           status' \in [People -> {"absent", "active", "disabled", "deleted"}],
           \A v \in People : status'[v] = status[v] \/ (v = u /\ status[v] = "absent"),
           orgMode = "single" /\ member[o][u] = "none" => \A p \in Orgs : member[p][u] = "none"
    PROVE  Joins(u, {}) /\ \A p \in Orgs \ {o} : member'[p] = member[p]
  <1> DEFINE new == IF member[o][u] = "none" THEN role ELSE member[o][u]
  <1>1. member' = [member EXCEPT ![o][u] = new]
    BY DEF Admit
  <1>2. new \in Roles \cup {"none"} /\ (member[o][u] = "none" => new # "owner") /\ (member[o][u] # "none" => new = member[o][u])
    BY TableFacts DEF Roles
  <1> HIDE DEF new
  <1>3. /\ member' \in [Orgs -> [People -> Roles \cup {"none"}]] /\ member'[o][u] = new
        /\ \A p \in Orgs, v \in People : p # o \/ v # u => member'[p][v] = member[p][v]
        /\ \A p \in Orgs \ {o} : member'[p] = member[p]
    BY <1>1, <1>2, TableFacts
  <1>4. \A p \in Orgs, v \in People : member'[p][v] # member[p][v] =>
           v = u /\ Founded(p)' /\ member[p][v] = "none" /\ member'[p][v] # "owner"
    <2>1. SUFFICES ASSUME NEW p \in Orgs, NEW v \in People, member'[p][v] # member[p][v]
                   PROVE  v = u /\ p = o /\ member[p][v] = "none" /\ member'[p][v] # "owner"
      BY DEF Founded
    <2>2. p = o /\ v = u
      BY <1>3, <2>1
    <2>3. QED
      BY <1>2, <1>3, <2>1, <2>2
  <1>5. orgMode = "single" => \A p, q \in Orgs : member'[p][u] # "none" /\ member'[q][u] # "none" => p = q
    <2>1. SUFFICES ASSUME orgMode = "single", NEW p \in Orgs, NEW q \in Orgs,
                          member'[p][u] # "none", member'[q][u] # "none"
                   PROVE  p = q
      OBVIOUS
    <2>2. CASE member[o][u] = "none"
      BY <1>3, <2>1, <2>2
    <2>3. CASE member[o][u] # "none"
      <3>1. member[p][u] # "none" /\ member[q][u] # "none"
        BY <1>2, <1>3, <2>1, <2>3
      <3>2. QED
        BY <2>1, <3>1 DEF IInv, Tables, Single
    <2>4. QED
      BY <2>2, <2>3
  <1>6. organization' \in [Orgs -> [kind : {"none", "personal", "team", "deleted"}, by : People \cup {NoOne}]]
    BY TableFacts
  <1>7. Joins(u, {})
    BY <1>3, <1>4, <1>5, <1>6 DEF Joins
  <1>8. QED
    BY <1>3, <1>7

\* An invitation is accepted.
LEMMA AcceptInvitationIInv ==
    ASSUME IInv, NEW t \in Txns, AcceptInvitation(t)
    PROVE  IInv'
  <1> DEFINE s == txn[t]
  <1>0. PICK i, o, u, role : i = s.invite /\ o = s.org /\ u = s.user /\ role = invitation[i].role
    OBVIOUS
  <1>1. /\ Decided(t, "accept") /\ Admit(o, u, role) /\ MarkAccepted(i) /\ Committed(t)
        /\ UNCHANGED <<orgMode, status, admins, organization>>
    BY <1>0 DEF AcceptInvitation
  <1>2. u \in People /\ o \in Orgs /\ i \in Invites /\ ForUpdate("user", u) \in s.held /\ KeyShare("org", o) \in s.held
    BY <1>0, <1>1, DecidedFacts DEF Requested, Needs
  <1>3. Founded(o) /\ Present(u)
    BY <1>1, <1>2, DecidedFacts, RowFacts
  <1>4. Shared(Txns \ {t}, <<"user", u>>) /\ Shared(Txns \ {t}, <<"org", o>>)
    BY <1>2, LocksOfOne
  <1>5. orgMode = "single" /\ member[o][u] = "none" => \A p \in Orgs : member[p][u] = "none"
    <2>1. s.op = "accept" /\ s.checked /\ Decision(s)
      BY <1>1, DecidedFacts
    <2>2. QED
      BY <1>0, <2>1 DEF Decision, NotMember, OrganizationsOf
  <1>6. /\ InvitationsTyped' /\ \A k \in Invites : SameInvitation(k)
        /\ \A k \in Invites : Active(k)' => Founded(invitation'[k].org)
        /\ InvitationTyped(invitation[i]) /\ Active(i)
    BY <1>1, <1>2, AcceptedKept
  <1>7. role \in {"admin", "member"}
    BY <1>0, <1>6 DEF InvitationTyped, Active
  <1>8. Present(u)' /\ status[u] # "absent"
    BY <1>1, <1>3 DEF Present
  <1>9. Joins(u, {}) /\ \A p \in Orgs \ {o} : member'[p] = member[p]
    <2>1. status' \in [People -> {"absent", "active", "disabled", "deleted"}] /\ \A v \in People : status'[v] = status[v]
      BY <1>1, TableFacts
    <2>2. UNCHANGED <<orgMode, admins, organization>>
      BY <1>1
    <2>3. QED
      BY <1>1, <1>2, <1>3, <1>5, <1>7, <1>8, <2>1, <2>2, AdmitJoins
  <1>10. \A p \in Orgs \ {} : member'[p] # member[p] => Shared(Txns \ {t}, <<"org", p>>)
    BY <1>4, <1>9
  <1>11. QED
    BY <1>1, <1>2, <1>4, <1>6, <1>8, <1>9, <1>10, TxnsAfter, JoinsKeepsIInv

\* A user signs up with an invitation.
LEMMA SignupInvitedIInv ==
    ASSUME IInv, NEW t \in Txns, NEW o \in Orgs, SignupInvited(t, o)
    PROVE  IInv'
  <1> DEFINE s == txn[t]
             Q == Txns \ {t}
  <1>0. PICK i, g, u, role : i = s.invite /\ g = s.org /\ u = s.user /\ role = invitation[i].role
    OBVIOUS
  <1>1. /\ Decided(t, "signup") /\ organization[o] = NoOrganization
        /\ status' = [status EXCEPT ![u] = "active"]
        /\ MarkAccepted(i) /\ Committed(t) /\ UNCHANGED <<orgMode, admins>>
        /\ \/ Admit(g, u, role) /\ UNCHANGED organization
           \/ /\ InitialKind(TRUE) # "none" /\ Found(o, InitialKind(TRUE), u)
              /\ member' = [member EXCEPT ![o][u] = "owner", ![g][u] = role]
    BY <1>0 DEF SignupInvited
  <1>2. u \in People /\ g \in Orgs /\ i \in Invites /\ KeyShare("org", g) \in s.held
    BY <1>0, <1>1, DecidedFacts DEF Requested, Needs
  <1>3. Founded(g)
    BY <1>1, <1>2, DecidedFacts, RowFacts
  <1>4. Shared(Q, <<"org", g>>)
    BY <1>2, LocksOfOne
  <1>5. status[u] = "absent" /\ \A q \in Q : txn[q].op = "signup" => txn[q].user # u
    <2>1. s.op = "signup" /\ Decision(s)
      BY <1>1, DecidedFacts
    <2>2. QED
      BY <1>0, <2>1, TxnFacts DEF Decision
  <1>6. /\ InvitationsTyped' /\ \A k \in Invites : SameInvitation(k)
        /\ \A k \in Invites : Active(k)' => Founded(invitation'[k].org)
        /\ InvitationTyped(invitation[i]) /\ Active(i)
    BY <1>1, <1>2, AcceptedKept
  <1>7. role \in {"admin", "member"}
    BY <1>0, <1>6 DEF InvitationTyped, Active
  <1>8. /\ Shared(Q, <<"user", u>>) /\ Present(u)'
        /\ \A p \in Orgs : member[p][u] = "none"
        /\ status' \in [People -> {"absent", "active", "disabled", "deleted"}]
        /\ \A v \in People : status'[v] = status[v] \/ (v = u /\ status[v] = "absent")
    BY <1>1, <1>2, <1>5, NewUser
  <1>9. DOMAIN txn' = Txns /\ (\A q \in Q : txn'[q] = txn[q]) /\ \A q \in Txns \ Q : txn'[q] = NoTxn
    BY <1>1, TxnsAfter
  <1> HIDE DEF Q
  <1>10. CASE Admit(g, u, role) /\ UNCHANGED organization
    <2>1. Joins(u, {}) /\ \A p \in Orgs \ {g} : member'[p] = member[p]
      <3>1. UNCHANGED <<orgMode, admins, organization>>
        BY <1>1, <1>10
      <3>2. QED
        BY <1>2, <1>3, <1>7, <1>8, <1>10, <3>1, AdmitJoins
    <2>2. \A p \in Orgs \ {} : member'[p] # member[p] => Shared(Q, <<"org", p>>)
      BY <1>4, <2>1
    <2>3. Q \in SUBSET Txns
      BY DEF Q
    <2>4. QED
      BY <1>2, <1>5, <1>6, <1>8, <1>9, <2>1, <2>2, <2>3, JoinsKeepsIInv
  <1>11. CASE /\ InitialKind(TRUE) # "none" /\ Found(o, InitialKind(TRUE), u)
              /\ member' = [member EXCEPT ![o][u] = "owner", ![g][u] = role]
    <2>1. PICK kind \in {"personal", "team"} : Found(o, kind, u)
      BY <1>11 DEF InitialKind
    <2>2. orgMode # "single"
      BY <1>11 DEF InitialKind
    <2>3. o # g
      BY <1>1, <1>3 DEF Founded, NoOrganization
    <2>4. /\ member' \in [Orgs -> [People -> Roles \cup {"none"}]]
          /\ member'[o][u] = "owner" /\ member'[g][u] = role
          /\ \A p \in Orgs, v \in People : member'[p][v] # member[p][v] => v = u /\ (p = o \/ p = g)
          /\ \A p \in Orgs : p # o /\ p # g => member'[p] = member[p]
      BY <1>2, <1>7, <1>11, <2>3, TableFacts DEF Roles
    <2>5. \A p \in Orgs, v \in People : member'[p][v] # member[p][v] =>
             v = u /\ member[p][v] = "none" /\ (p = o \/ (Founded(p) /\ member'[p][v] # "owner"))
      BY <1>3, <1>7, <1>8, <2>4
    <2>6. UNCHANGED <<orgMode, admins>> /\ organization[o] = NoOrganization
      BY <1>1
    <2>7. orgMode = "single" => \A p, q \in Orgs : member'[p][u] # "none" /\ member'[q][u] # "none" => p = q
      BY <2>2
    <2>8. Joins(u, {o})
      BY <1>2, <1>8, <2>1, <2>4, <2>5, <2>6, <2>7, FoundedFor
    <2>9. \A p \in Orgs \ {o} : member'[p] # member[p] => Shared(Q, <<"org", p>>)
      BY <1>4, <2>4
    <2>10. Q \in SUBSET Txns /\ {o} \in SUBSET Orgs
      BY DEF Q
    <2>11. QED
      BY <1>2, <1>5, <1>6, <1>8, <1>9, <2>8, <2>9, <2>10, JoinsKeepsIInv
  <1>12. QED
    BY <1>1, <1>10, <1>11
-----------------------------------------------------------------------------
(* Users and organizations that go.                                        *)

\* A write by which organizations, users and invitations go: their rows are
\* locked, the invitations of the organizations go with them, and the users own
\* none of the organizations that stay.
Goes(t, os, who, gone) ==
    /\ Committed(t) /\ orgMode' = orgMode /\ WithoutOrganizations(os)
    /\ \A o \in os : Founded(o) /\ ForUpdate("org", o) \in txn[t].held
    /\ \A v \in who : Present(v) /\ ForUpdate("user", v) \in txn[t].held /\ ForUpdate("role", "admin") \in txn[t].held
    /\ status' = [v \in People |-> IF v \in who THEN "deleted" ELSE status[v]]
    /\ admins' = admins \ who
    /\ member' = [o \in Orgs |-> [v \in People |-> IF o \in os \/ v \in who THEN "none" ELSE member[o][v]]]
    /\ \A o \in Orgs, v \in who : member[o][v] # "none" =>
           ForUpdate("org", o) \in txn[t].held /\ (o \in os \/ member[o][v] # "owner")
    /\ \A i \in Invites : invitation[i].org \in os => i \in gone
    /\ \A i \in gone : /\ invitation[i].status \notin {"absent", "deleted"} /\ Compatible(t, ForUpdate("invite", i))
                       /\ invitation'[i] = [NoInvitation EXCEPT !.status = "deleted"]
    /\ \A i \in Invites \ gone : InvitationTyped(invitation'[i]) /\ SameInvitation(i)
                                 /\ invitation'[i].status = invitation[i].status
    /\ DOMAIN invitation' = Invites

LEMMA GoesKeepsIInv ==
    ASSUME IInv, NEW t \in Txns, NEW os \in SUBSET Orgs, NEW who \in SUBSET People, NEW gone \in SUBSET Invites,
           Goes(t, os, who, gone)
    PROVE  IInv'
  <1> DEFINE Q == Txns \ {t}
  <1>1. /\ status \in [People -> {"absent", "active", "disabled", "deleted"}]
        /\ admins \subseteq {v \in People : Present(v)} /\ orgMode \in Modes
        /\ organization \in [Orgs -> [kind : {"none", "personal", "team", "deleted"}, by : People \cup {NoOne}]]
        /\ member \in [Orgs -> [People -> Roles \cup {"none"}]]
        /\ \A o \in Orgs : \A v \in People : member[o][v] # "none" => Present(v) /\ Founded(o)
    BY DEF IInv, Tables, DirectoryTypeOK, MembersOf
  <1>2. /\ \A v \in who : status'[v] = "deleted" /\ ~Present(v)'
        /\ \A v \in People \ who : status'[v] = status[v] /\ (Present(v)' <=> Present(v))
    BY DEF Goes, Present
  <1>3. /\ \A o \in os : ~Founded(o)' /\ organization'[o] = [NoOrganization EXCEPT !.kind = "deleted"]
        /\ \A o \in Orgs \ os : organization'[o] = organization[o] /\ (Founded(o)' <=> Founded(o))
    <2>1. organization' = [o \in Orgs |-> IF o \in os THEN [NoOrganization EXCEPT !.kind = "deleted"] ELSE organization[o]]
      BY DEF Goes, WithoutOrganizations
    <2>2. [NoOrganization EXCEPT !.kind = "deleted"].kind = "deleted"
      BY DEF NoOrganization
    <2>3. QED
      BY <2>1, <2>2 DEF Founded
  <1>4. \A o \in Orgs, v \in People : member'[o][v] = IF o \in os \/ v \in who THEN "none" ELSE member[o][v]
    BY DEF Goes
  <1>5. \A i \in gone : invitation'[i].status = "deleted" /\ InvitationTyped(invitation'[i])
    <2>1. LET r == [NoInvitation EXCEPT !.status = "deleted"] IN r.status = "deleted" /\ InvitationTyped(r)
      BY DEF NoInvitation, InvitationTyped, InvitationFields
    <2>2. QED
      BY <2>1 DEF Goes
  <1>6. ActiveAdmins' \subseteq ActiveAdmins /\ (who = {} => ActiveAdmins' = ActiveAdmins)
    BY <1>1, <1>2 DEF Goes, ActiveAdmins
  <1>7. Tables'
    <2>1. DirectoryTypeOK'
      <3>1. status' \in [People -> {"absent", "active", "disabled", "deleted"}] /\ orgMode' \in Modes
        BY <1>1 DEF Goes
      <3>2. admins' \subseteq {v \in People : Present(v)'}
        BY <1>1, <1>2 DEF Goes
      <3>3. organization' \in [Orgs -> [kind : {"none", "personal", "team", "deleted"}, by : People \cup {NoOne}]]
        <4>1. [NoOrganization EXCEPT !.kind = "deleted"] \in
                 [kind : {"none", "personal", "team", "deleted"}, by : People \cup {NoOne}]
          BY DEF NoOrganization
        <4>2. DOMAIN organization' = Orgs
              /\ organization' = [o \in Orgs |-> IF o \in os THEN [NoOrganization EXCEPT !.kind = "deleted"] ELSE organization[o]]
          BY DEF Goes, WithoutOrganizations
        <4>3. QED
          BY <1>1, <4>1, <4>2
      <3>4. member' \in [Orgs -> [People -> Roles \cup {"none"}]]
        BY <1>1 DEF Goes
      <3>5. \A o \in Orgs : \A v \in MembersOf(o)' : Present(v)' /\ Founded(o)'
        <4>1. ASSUME NEW o \in Orgs, NEW v \in People, member'[o][v] # "none" PROVE Present(v)' /\ Founded(o)'
          BY <1>1, <1>2, <1>3, <1>4, <4>1
        <4>2. QED
          BY <4>1 DEF MembersOf
      <3>6. \A i \in Invites : Active(i)' => Founded(invitation[i].org)'
        <4>1. SUFFICES ASSUME NEW i \in Invites, invitation'[i].status = "pending", NEW o, o = invitation'[i].org
                       PROVE  Founded(o)'
          BY DEF Active, Founded
        <4>2. i \notin gone
          BY <1>5, <4>1
        <4>3. Active(i) /\ invitation[i].org = o
          BY <4>1, <4>2 DEF Goes, SameInvitation, Active
        <4>4. Founded(o) /\ o \in Orgs /\ o \notin os
          BY <4>2, <4>3, InvitationRow DEF Goes, Founded
        <4>5. QED
          BY <1>3, <4>4
      <3>7. QED
        BY <3>1, <3>2, <3>3, <3>4, <3>5, <3>6 DEF DirectoryTypeOK
    <2>2. InvitationsTyped'
      BY <1>5 DEF Goes, InvitationsTyped
    <2>3. Single'
      BY <1>4 DEF Goes, IInv, Tables, Single
    <2>4. Owned'
      <3>1. SUFFICES ASSUME NEW p \in Orgs, Founded(p)'
                     PROVE  \E w \in People : OwnersOf(p)' = {w} /\ (Personal(p)' => organization'[p].by = w)
        BY DEF Owned
      <3>2. p \notin os /\ Founded(p) /\ organization'[p] = organization[p]
        BY <1>3, <3>1
      <3>3. OwnersOf(p)' = OwnersOf(p)
        <4>1. ASSUME NEW v \in People PROVE member'[p][v] = "owner" <=> member[p][v] = "owner"
          BY <1>4, <3>2 DEF Goes
        <4>2. QED
          BY <4>1 DEF OwnersOf
      <3>4. QED
        BY <3>2, <3>3, OwnerFacts DEF Personal
    <2>5. QED
      BY <2>1, <2>2, <2>3, <2>4 DEF Tables
  <1>8. Respects(Q)
    <2>1. orgMode' = orgMode
      BY DEF Goes
    <2>2. \A v \in who : Alone(Q, <<"user", v>>) /\ Alone(Q, <<"role", "admin">>)
      BY LocksOfOne DEF Goes
    <2>3. \A o \in Orgs : ForUpdate("org", o) \in txn[t].held => Alone(Q, <<"org", o>>) /\ Shared(Q, <<"org", o>>)
      BY LocksOfOne
    <2>4. \A v \in People : ~(status[v] = "absent" /\ status'[v] # "absent")
      BY <1>2 DEF Goes, Present
    <2>5. ActiveAdmins \subseteq ActiveAdmins' \/ Alone(Q, <<"role", "admin">>)
      BY <1>6, <2>2
    <2>6. ASSUME NEW o \in Orgs, member'[o] # member[o] \/ organization'[o] # organization[o]
          PROVE  ForUpdate("org", o) \in txn[t].held
      <3>1. CASE o \in os
        BY <3>1 DEF Goes
      <3>2. CASE o \notin os
        <4>1. member'[o] # member[o]
          BY <1>3, <2>6, <3>2
        <4>2. member'[o] \in [People -> Roles \cup {"none"}] /\ member[o] \in [People -> Roles \cup {"none"}]
          BY <1>1 DEF Goes
        <4>3. PICK v \in People : member'[o][v] # member[o][v]
          BY <4>1, <4>2
        <4>4. v \in who /\ member[o][v] # "none"
          BY <1>4, <3>2, <4>3
        <4>5. QED
          BY <4>4 DEF Goes
      <3>3. QED
        BY <3>1, <3>2
    <2>7. \A o \in Orgs : Founded(o) /\ ~Founded(o)' => Alone(Q, <<"org", o>>)
      BY <1>3, <2>3 DEF Goes
    <2>8. \A o \in Orgs, v \in People : member[o][v] # "none" /\ member'[o][v] = "none" => Alone(Q, <<"org", o>>)
      BY <2>3, <2>6
    <2>9. \A o \in Orgs, v \in People : ~(member[o][v] = "none" /\ member'[o][v] # "none")
      BY <1>4
    <2>10. \A i \in Invites : RowExists(<<"invite", i>>) /\ ~RowExists(<<"invite", i>>)' => Alone(Q, <<"invite", i>>)
      <3>1. SUFFICES ASSUME NEW i \in Invites, RowExists(<<"invite", i>>), ~RowExists(<<"invite", i>>)'
                     PROVE  Alone(Q, <<"invite", i>>)
        OBVIOUS
      <3>2. i \in gone
        BY <3>1 DEF RowExists, Goes
      <3>3. QED
        BY <3>2, LocksOfOne DEF Goes
    <2>11. \A i \in Invites : invitation[i].status # "absent" =>
             /\ invitation'[i].status # "absent"
             /\ \/ invitation'[i].status = "deleted"
                \/ /\ invitation[i].status # "deleted"
                   /\ invitation'[i].org = invitation[i].org /\ invitation'[i].for = invitation[i].for
      BY <1>5 DEF Goes, SameInvitation
    <2>12. QED
      BY <1>2, <1>6, <2>1, <2>2, <2>3, <2>4, <2>5, <2>6, <2>7, <2>8, <2>9, <2>10, <2>11 DEF Respects
  <1>9. Committed(t)
    BY DEF Goes
  <1>10. QED
    BY <1>7, <1>8, <1>9, TxnsAfter, WriteKeepsIInv
\* An invitation of an organization or for a user is there.
LEMMA InvitationThere ==
    ASSUME IInv, NEW i \in Invites, invitation[i].org \in Orgs \/ invitation[i].for \in People
    PROVE  invitation[i].status \notin {"absent", "deleted"}
  BY InvitationRow, DirectoryAssumption DEF InvitationTyped

\* An organization is deleted.
LEMMA DeleteOrganizationIInv ==
    ASSUME IInv, NEW t \in Txns, DeleteOrganization(t)
    PROVE  IInv'
  <1>0. PICK g : g = txn[t].org
    OBVIOUS
  <1> DEFINE gone == {i \in Invites : invitation[i].org = g}
  <1>1. /\ Decided(t, "deleteOrganization") /\ WithoutOrganizations({g}) /\ Committed(t)
        /\ member' = [member EXCEPT ![g] = NoMembers]
        /\ MayWrite(t, "invite", gone) /\ DeleteInvitations(gone)
        /\ UNCHANGED <<orgMode, status, admins>>
    BY <1>0 DEF DeleteOrganization, InvitationsOf
  <1>2. g \in Orgs /\ ForUpdate("org", g) \in txn[t].held
    BY <1>0, <1>1, DecidedFacts DEF Requested, Needs
  <1>3. Founded(g)
    BY <1>1, <1>2, DecidedFacts, RowFacts
  <1>4. status' = [v \in People |-> IF v \in {} THEN "deleted" ELSE status[v]]
    BY <1>1, TableFacts
  <1>5. member' = [o \in Orgs |-> [v \in People |-> IF o \in {g} \/ v \in {} THEN "none" ELSE member[o][v]]]
    <2>1. member' \in [Orgs -> [People -> Roles \cup {"none"}]] /\ \A o \in Orgs, v \in People :
             member'[o][v] = IF o = g THEN "none" ELSE member[o][v]
      BY <1>1, <1>2, TableFacts DEF NoMembers
    <2>2. ASSUME NEW o \in Orgs
          PROVE  member'[o] = [v \in People |-> IF o \in {g} \/ v \in {} THEN "none" ELSE member[o][v]]
      <3>1. member'[o] \in [People -> Roles \cup {"none"}]
        BY <2>1
      <3>2. \A v \in People : member'[o][v] = IF o \in {g} \/ v \in {} THEN "none" ELSE member[o][v]
        BY <2>1
      <3>3. QED
        BY <3>1, <3>2
    <2>3. QED
      BY <2>1, <2>2
  <1>6. invitation' = [i \in Invites |-> IF i \in gone THEN [NoInvitation EXCEPT !.status = "deleted"] ELSE invitation[i]]
    BY <1>1 DEF DeleteInvitations
  <1>7. \A i \in gone : /\ invitation[i].status \notin {"absent", "deleted"} /\ Compatible(t, ForUpdate("invite", i))
                        /\ invitation'[i] = [NoInvitation EXCEPT !.status = "deleted"]
    BY <1>1, <1>2, <1>6, InvitationThere DEF MayWrite
  <1>8. \A i \in Invites \ gone : InvitationTyped(invitation'[i]) /\ SameInvitation(i)
                                  /\ invitation'[i].status = invitation[i].status
    BY <1>6, InvitationRow DEF SameInvitation
  <1>9. /\ DOMAIN invitation' = Invites /\ \A i \in Invites : invitation[i].org \in {g} => i \in gone
    BY <1>6
  <1>10. gone \in SUBSET Invites
    OBVIOUS
  <1> HIDE DEF gone
  <1>11. admins' = admins \ {} /\ orgMode' = orgMode
    BY <1>1
  <1>12. Goes(t, {g}, {}, gone)
    BY <1>1, <1>2, <1>3, <1>4, <1>5, <1>7, <1>8, <1>9, <1>11 DEF Goes
  <1>13. QED
    BY <1>2, <1>10, <1>12, GoesKeepsIInv

\* A user is deleted.
LEMMA DeleteUserIInv ==
    ASSUME IInv, NEW t \in Txns, DeleteUser(t)
    PROVE  IInv'
  <1>0. PICK u, os : u = txn[t].user /\ os = Leaving(t)
    OBVIOUS
  <1> DEFINE gone == InvitationsOf(os) \cup {i \in Invites : invitation[i].for = u}
             mine == {i \in Invites : invitation[i].by = u}
  <1>1. /\ Decided(t, "deleteUser") /\ Committed(t) /\ orgMode' = orgMode
        /\ status' = [status EXCEPT ![u] = "deleted"] /\ admins' = admins \ {u}
        /\ WithoutOrganizations(os) /\ MayWrite(t, "invite", gone \cup mine)
        /\ member' = [o \in Orgs |-> IF o \in os THEN NoMembers ELSE [member[o] EXCEPT ![u] = "none"]]
        /\ invitation' = [i \in Invites |->
                CASE i \in gone -> [NoInvitation EXCEPT !.status = "deleted"]
                  [] i \notin gone /\ invitation[i].by = u -> [invitation[i] EXCEPT !.by = NoOne]
                  [] OTHER -> invitation[i]]
    BY <1>0 DEF DeleteUser
  <1>2. /\ u \in People /\ ForUpdate("user", u) \in txn[t].held /\ ForUpdate("role", "admin") \in txn[t].held
        /\ txn[t].op = "deleteUser" /\ txn[t].checked /\ txn[t].listed /\ Decision(txn[t]) /\ Pending(txn[t]) = {}
    BY SMTT(30), <1>0, <1>1, DecidedFacts DEF Requested, Needs
  <1>3. Present(u)
    BY <1>1, <1>2, DecidedFacts, RowFacts
  <1>4. os \subseteq Orgs /\ \A o \in os : Founded(o) /\ ForUpdate("org", o) \in txn[t].held
    BY <1>0, <1>2, TableFacts DEF Leaving, LockedOrganizations, OrganizationsOf
  <1>5. ASSUME NEW o \in Orgs, member[o][u] # "none"
        PROVE  ForUpdate("org", o) \in txn[t].held /\ (o \in os \/ member[o][u] # "owner")
    <2>1. o \in OrganizationsOf(u)
      BY <1>5 DEF OrganizationsOf
    <2>2. ForUpdate("org", o) \in txn[t].held
      BY <1>0, <1>2, <2>1 DEF Decision
    <2>3. member[o][u] = "owner" =>
             OwnPersonal(o, u) \/ (organization[o].kind = "team" /\ Cardinality(MembersOf(o)) = 1)
      BY <1>0, <1>2, <2>2 DEF Decision
    <2>4. QED
      BY <1>0, <2>1, <2>2, <2>3 DEF Leaving, LockedOrganizations
  <1>6. status' = [v \in People |-> IF v \in {u} THEN "deleted" ELSE status[v]]
    BY <1>1, TableFacts
  <1>7. member' = [o \in Orgs |-> [v \in People |-> IF o \in os \/ v \in {u} THEN "none" ELSE member[o][v]]]
    <2>1. ASSUME NEW o \in Orgs
          PROVE  (IF o \in os THEN NoMembers ELSE [member[o] EXCEPT ![u] = "none"])
                    = [v \in People |-> IF o \in os \/ v \in {u} THEN "none" ELSE member[o][v]]
      <3>1. CASE o \in os
        BY <3>1 DEF NoMembers
      <3>2. CASE o \notin os
        <4>1. member[o] \in [People -> Roles \cup {"none"}]
          BY TableFacts
        <4>2. [member[o] EXCEPT ![u] = "none"]
                 = [v \in People |-> IF o \in os \/ v \in {u} THEN "none" ELSE member[o][v]]
          BY <1>2, <3>2, <4>1
        <4>3. QED
          BY <3>2, <4>2
      <3>3. QED
        BY <3>1, <3>2
    <2>2. QED
      BY <1>1, <2>1
  <1>8. ASSUME NEW i \in gone
        PROVE  /\ invitation[i].status \notin {"absent", "deleted"} /\ Compatible(t, ForUpdate("invite", i))
               /\ invitation'[i] = [NoInvitation EXCEPT !.status = "deleted"]
    <2>1. i \in Invites /\ (invitation[i].org \in Orgs \/ invitation[i].for \in People)
      BY <1>2, <1>4 DEF InvitationsOf
    <2>2. invitation[i].status \notin {"absent", "deleted"}
      BY <2>1, InvitationThere
    <2>3. Compatible(t, ForUpdate("invite", i))
      BY <1>1, <1>8 DEF MayWrite
    <2>4. QED
      BY <1>1, <2>1, <2>2, <2>3
  <1>9. ASSUME NEW i \in Invites \ gone
        PROVE  InvitationTyped(invitation'[i]) /\ SameInvitation(i) /\ invitation'[i].status = invitation[i].status
    <2> DEFINE r == [invitation[i] EXCEPT !.by = NoOne]
    <2>1. invitation'[i] = r \/ invitation'[i] = invitation[i]
      BY <1>1, <1>9
    <2>2. /\ InvitationTyped(r) /\ r.status = invitation[i].status /\ r.org = invitation[i].org
          /\ r.for = invitation[i].for
      <3>1. InvitationTyped(invitation[i])
        BY <1>9, InvitationRow
      <3>2. QED
        BY <3>1 DEF InvitationTyped, InvitationFields
    <2> HIDE DEF r
    <2>3. QED
      BY <1>9, <2>1, <2>2, InvitationRow DEF SameInvitation
  <1>10. DOMAIN invitation' = Invites /\ (\A i \in Invites : invitation[i].org \in os => i \in gone) /\ gone \in SUBSET Invites
    BY <1>1 DEF InvitationsOf
  <1> HIDE DEF gone, mine
  <1>11. \A v \in {u} : Present(v) /\ ForUpdate("user", v) \in txn[t].held /\ ForUpdate("role", "admin") \in txn[t].held
    BY <1>2, <1>3
  <1>12. \A o \in Orgs, v \in {u} : member[o][v] # "none" =>
            ForUpdate("org", o) \in txn[t].held /\ (o \in os \/ member[o][v] # "owner")
    BY <1>5
  <1>13. Goes(t, os, {u}, gone)
    BY <1>1, <1>4, <1>6, <1>7, <1>8, <1>9, <1>10, <1>11, <1>12 DEF Goes
  <1>14. QED
    BY <1>2, <1>4, <1>10, <1>13, GoesKeepsIInv
-----------------------------------------------------------------------------
(* The invariant.                                                          *)

\* An empty database.
LEMMA InitIInv ==
    ASSUME DirectoryInit
    PROVE  IInv
  <1>1. /\ orgMode \in Modes /\ status = [u \in People |-> "absent"] /\ admins = {}
        /\ organization = [o \in Orgs |-> NoOrganization] /\ member = [o \in Orgs |-> NoMembers]
        /\ invitation = [i \in Invites |-> NoInvitation] /\ txn = [t \in Txns |-> NoTxn]
    BY DEF DirectoryInit
  <1>2. TxnsTyped
    BY <1>1, IdleTxn DEF TxnsTyped
  <1>3. \A o \in Orgs : ~Founded(o) /\ (\A u \in People : member[o][u] = "none")
    BY <1>1 DEF Founded, NoOrganization, NoMembers
  <1>4. InvitationTyped(NoInvitation) /\ NoInvitation.status = "absent"
    BY DEF NoInvitation, InvitationTyped, InvitationFields
  <1>5. DirectoryTypeOK
    <2>1. NoOrganization \in [kind : {"none", "personal", "team", "deleted"}, by : People \cup {NoOne}]
      BY DEF NoOrganization
    <2>2. NoMembers \in [People -> Roles \cup {"none"}]
      BY DEF NoMembers
    <2>3. \A i \in Invites : ~Active(i)
      BY <1>1, <1>4 DEF Active
    <2>4. \A o \in Orgs : MembersOf(o) = {}
      BY <1>3 DEF MembersOf
    <2>5. QED
      BY <1>1, <2>1, <2>2, <2>3, <2>4 DEF DirectoryTypeOK
  <1>6. InvitationsTyped /\ Owned /\ Single
    BY <1>1, <1>3, <1>4 DEF InvitationsTyped, Owned, Single
  <1>7. Locking
    BY <1>1, IdleTxn DEF Locking, LocksExclude, RowsExist
  <1>8. Decisions
    BY <1>1, IdleTxn DEF Decisions
  <1>9. QED
    BY <1>2, <1>5, <1>6, <1>7, <1>8 DEF IInv, Tables

\* Every step keeps it.
LEMMA StepIInv ==
    ASSUME IInv, [DirectoryNext]_directoryVars
    PROVE  IInv'
  <1>1. ASSUME NEW t \in Txns, AdminNext(t) PROVE IInv'
    <2>1. ASSUME NEW u \in People, NEW actor \in People \cup {NoOne},
                 BeginDisableUser(t, actor, u) \/ BeginRevokeAdmin(t, actor, u)
          PROVE  IInv'
      BY <2>1, AdminRequestsIInv
    <2>2. ASSUME NEW u \in People, EnableUser(t, u) \/ GrantAdmin(t, u) \/ BeginDeleteUser(t, u) PROVE IInv'
      BY <2>2, EnableUserIInv, GrantAdminIInv, AdminRequestsIInv
    <2>3. CASE DisableUser(t) \/ RevokeAdmin(t) \/ ListMemberships(t) \/ DeleteUser(t)
      BY <2>3, DisableUserIInv, RevokeAdminIInv, ListMembershipsIInv, DeleteUserIInv
    <2>4. QED
      BY <1>1, <2>1, <2>2, <2>3 DEF AdminNext
  <1>2. ASSUME NEW t \in Txns, OrganizationNext(t) PROVE IInv'
    <2>1. ASSUME NEW o \in Orgs, NEW actor \in People, NEW u \in People,
                 \/ BeginRemoveMember(t, actor, u, o) \/ BeginTransfer(t, actor, u, o)
                 \/ \E role \in Roles : BeginUpdateMember(t, actor, u, o, role)
          PROVE  IInv'
      BY <2>1, MemberRequestsIInv, BeginTransferIInv
    <2>2. ASSUME NEW o \in Orgs, NEW u \in People, CreateOrganization(t, u, o) \/ BeginDeleteOrganization(t, u, o)
          PROVE  IInv'
      BY <2>2, CreateOrganizationIInv, MemberRequestsIInv
    <2>3. CASE RemoveOrganizationMember(t) \/ UpdateOrganizationMember(t)
      BY <2>3, RemoveMemberIInv, UpdateMemberIInv
    <2>4. CASE TransferOrganizationOwnership(t) \/ DeleteOrganization(t)
      BY <2>4, TransferIInv, DeleteOrganizationIInv
    <2>5. QED
      BY <1>2, <2>1, <2>2, <2>3, <2>4 DEF OrganizationNext
  <1>3. ASSUME NEW t \in Txns, InvitationNext(t) PROVE IInv'
    <2>1. ASSUME NEW o \in Orgs, NEW actor \in People, NEW u \in People, NEW role \in Roles,
                 BeginCreateInvitation(t, actor, o, u, role)
          PROVE  IInv'
      BY <2>1, BeginCreateInvitationIInv
    <2>2. ASSUME NEW i \in Invites, NEW o \in Orgs, BeginResend(t, o, i) PROVE IInv'
      BY <2>2, BeginResendIInv
    <2>3. ASSUME NEW i \in Invites, NEW o \in Orgs, NEW actor \in People, BeginRevokeInvitation(t, actor, o, i)
          PROVE  IInv'
      BY <2>3, BeginRevokeInvitationIInv
    <2>4. ASSUME NEW i \in Invites, NEW u \in People, BeginAccept(t, u, i) \/ BeginSignup(t, u, i) PROVE IInv'
      BY <2>4, BeginAcceptIInv, BeginSignupIInv
    <2>5. ASSUME NEW i \in Invites, CreateInvitation(t, i) \/ ResendInvitation(t, i) PROVE IInv'
      BY <2>5, CreateInvitationIInv, ResendInvitationIInv
    <2>6. CASE RevokeInvitation(t) \/ AcceptInvitation(t) \/ \E o \in Orgs : SignupInvited(t, o)
      BY <2>6, RevokeInvitationIInv, AcceptInvitationIInv, SignupInvitedIInv
    <2>7. QED
      BY <1>3, <2>1, <2>2, <2>3, <2>4, <2>5, <2>6 DEF InvitationNext
  <1>4. ASSUME NEW t \in Txns, Lock(t) \/ PassOver(t) \/ Check(t) \/ RollBack(t) PROVE IInv'
    BY <1>4, LockIInv, PassOverIInv, CheckIInv, RollBackIInv
  <1>5. ASSUME NEW u \in People, NEW o \in Orgs, Signup(u, o) PROVE IInv'
    BY <1>5, SignupIInv
  <1>6. ASSUME NEW i \in Invites, Expire(i) PROVE IInv'
    BY <1>6, ExpireIInv
  <1>7. CASE UNCHANGED directoryVars
    <2>1. Untouched /\ txn' = txn
      BY <1>7 DEF directoryVars, Untouched
    <2>2. TxnsTyped' /\ LocksExclude' /\ (\A t \in Txns : Holding(txn'[t]))
      BY <2>1 DEF IInv, TxnsTyped, Locking, LocksExclude
    <2>3. RowsExist'
      BY <2>1, DecisionUntouched DEF IInv, Locking, RowsExist
    <2>4. Tables'
      BY <2>1, DecisionUntouched DEF IInv
    <2>5. Decisions'
      <3>1. ASSUME NEW t \in Txns PROVE Decision(txn[t])'
        <4>1. PICK s : s = txn[t]
          OBVIOUS
        <4>2. Decision(s)'
          BY <2>1, <4>1, DecisionUntouched DEF IInv, Decisions
        <4>3. QED
          BY <2>1, <4>1, <4>2
      <3>2. QED
        BY <2>1, <3>1 DEF IInv, Decisions
    <2>6. QED
      BY <2>2, <2>3, <2>4, <2>5 DEF IInv, Locking
  <1>8. QED
    BY <1>1, <1>2, <1>3, <1>4, <1>5, <1>6, <1>7 DEF DirectoryNext

\* The tables hold what they may, transactions hold the locks that their requests
\* need, and what a transaction has decided stays true until it commits.
THEOREM DirectoryInvariant == DirectorySpec => []IInv
  <1>1. DirectoryInit => IInv
    BY InitIInv
  <1>2. IInv /\ [DirectoryNext]_directoryVars => IInv'
    BY StepIInv
  <1>3. QED
    BY <1>1, <1>2, PTL DEF DirectorySpec

\* An organization has exactly one owner as long as it exists, whatever members
\* leave, are removed, promoted, deleted or handed the ownership at the same time
\* (ErrLastOrganizationOwner), and a personal one is owned by its user.
THEOREM OwnersRemain == DirectorySpec => []OneOwner
  <1>1. ASSUME IInv PROVE OneOwner
    <2>1. DirectoryTypeOK
      BY <1>1 DEF IInv, Tables
    <2>2. ASSUME NEW o \in Orgs, Founded(o)
          PROVE  Cardinality(OwnersOf(o)) = 1 /\ (Personal(o) => OwnersOf(o) = {organization[o].by})
      BY <1>1, <2>2, OwnerFacts
    <2>3. QED
      BY <2>1, <2>2 DEF OneOwner
  <1>2. QED
    BY <1>1, DirectoryInvariant, PTL

\* In the single mode a user has at most one organization, even when invitations of
\* two organizations are accepted at once (ErrOrganizationSingleMembershipConflict).
THEOREM OneOrganizationEach == DirectorySpec => []OneOrganization
  <1>1. ASSUME IInv PROVE OneOrganization
    <2>1. SUFFICES ASSUME orgMode = "single", NEW u \in People PROVE Cardinality(OrganizationsOf(u)) <= 1
      BY DEF OneOrganization
    <2>2. \A o, p \in OrganizationsOf(u) : o = p
      BY <1>1, <2>1 DEF IInv, Tables, Single, OrganizationsOf
    <2>3. CASE OrganizationsOf(u) = {}
      BY <2>3, FS_EmptySet
    <2>4. CASE OrganizationsOf(u) # {}
      <3>1. PICK o : OrganizationsOf(u) = {o}
        BY <2>2, <2>4
      <3>2. Cardinality({o}) = 1
        BY FS_Singleton
      <3>3. QED
        BY <3>1, <3>2
    <2>5. QED
      BY <2>3, <2>4
  <1>2. QED
    BY <1>1, DirectoryInvariant, PTL
-----------------------------------------------------------------------------
(* What a step may never do.                                               *)

\* The commits of the transaction t, and the steps without a transaction.
UserCommits(t) ==
    \/ DisableUser(t) \/ RevokeAdmin(t) \/ DeleteUser(t)
    \/ \E u \in People : EnableUser(t, u) \/ GrantAdmin(t, u)
OrganizationCommits(t) ==
    \/ \E u \in People, o \in Orgs : CreateOrganization(t, u, o)
    \/ RemoveOrganizationMember(t) \/ UpdateOrganizationMember(t)
    \/ TransferOrganizationOwnership(t) \/ DeleteOrganization(t)
InvitationCommits(t) ==
    \/ \E i \in Invites : CreateInvitation(t, i) \/ ResendInvitation(t, i)
    \/ RevokeInvitation(t) \/ AcceptInvitation(t) \/ \E o \in Orgs : SignupInvited(t, o)
Alones == (\E u \in People, o \in Orgs : Signup(u, o)) \/ (\E i \in Invites : Expire(i))

\* Every other step leaves the tables alone.
LEMMA StepCases ==
    ASSUME [DirectoryNext]_directoryVars
    PROVE  \/ Untouched \/ Alones
           \/ \E t \in Txns : UserCommits(t) \/ OrganizationCommits(t) \/ InvitationCommits(t)
  <1>1. ASSUME NEW t \in Txns, AdminNext(t) PROVE Untouched \/ UserCommits(t)
    <2>1. ASSUME NEW u \in People, NEW actor,
                 BeginDisableUser(t, actor, u) \/ BeginRevokeAdmin(t, actor, u) \/ BeginDeleteUser(t, u)
          PROVE  Untouched
      BY <2>1 DEF BeginDisableUser, BeginRevokeAdmin, BeginDeleteUser, Begin, Untouched
    <2>2. ListMemberships(t) => Untouched
      BY DEF ListMemberships, Untouched
    <2>3. QED
      BY <1>1, <2>1, <2>2 DEF AdminNext, UserCommits
  <1>2. ASSUME NEW t \in Txns, OrganizationNext(t) PROVE Untouched \/ OrganizationCommits(t)
    <2>1. ASSUME NEW actor, NEW u, NEW o, NEW role,
                 \/ BeginRemoveMember(t, actor, u, o) \/ BeginTransfer(t, actor, u, o)
                 \/ BeginUpdateMember(t, actor, u, o, role) \/ BeginDeleteOrganization(t, u, o)
          PROVE  Untouched
      BY <2>1 DEF BeginRemoveMember, BeginTransfer, BeginUpdateMember, BeginDeleteOrganization, Begin, Untouched
    <2>2. QED
      BY <1>2, <2>1 DEF OrganizationNext, OrganizationCommits
  <1>3. ASSUME NEW t \in Txns, InvitationNext(t) PROVE Untouched \/ InvitationCommits(t)
    <2>1. ASSUME NEW actor, NEW u, NEW o, NEW role, NEW i,
                 \/ BeginCreateInvitation(t, actor, o, u, role) \/ BeginResend(t, o, i)
                 \/ BeginRevokeInvitation(t, actor, o, i) \/ BeginAccept(t, u, i) \/ BeginSignup(t, u, i)
          PROVE  Untouched
      BY <2>1 DEF BeginCreateInvitation, BeginResend, BeginRevokeInvitation, BeginAccept, BeginSignup, Begin, Untouched
    <2>2. QED
      BY <1>3, <2>1 DEF InvitationNext, InvitationCommits
  <1>4. ASSUME NEW t \in Txns, Lock(t) \/ PassOver(t) \/ Check(t) \/ RollBack(t) PROVE Untouched
    BY <1>4 DEF Lock, PassOver, Check, RollBack, Untouched
  <1>5. UNCHANGED directoryVars => Untouched
    BY DEF directoryVars, Untouched
  <1>6. QED
    BY <1>1, <1>2, <1>3, <1>4, <1>5 DEF DirectoryNext, Alones

\* A step that takes at most one administrator away, when another one is left.
LEMMA OneAdminLess ==
    ASSUME NEW u, OtherAdmin(u), ActiveAdmins \ {u} \subseteq ActiveAdmins', ActiveAdmins # {}
    PROVE  ActiveAdmins' # {}
  <1>1. PICK v : v \in ActiveAdmins /\ v # u
    BY DEF OtherAdmin
  <1>2. QED
    BY <1>1

LEMMA AdminsStep ==
    ASSUME IInv, [DirectoryNext]_directoryVars, ActiveAdmins # {}
    PROVE  ActiveAdmins' # {}
  <1>1. /\ status \in [People -> {"absent", "active", "disabled", "deleted"}]
        /\ admins \subseteq {v \in People : Present(v)}
    BY DEF IInv, Tables, DirectoryTypeOK
  <1>2. ASSUME \A v \in admins : v \in admins' /\ (status[v] = "active" => status'[v] = "active")
        PROVE  ActiveAdmins' # {}
    BY <1>2 DEF ActiveAdmins
  <1>3. ASSUME NEW t \in Txns, UserCommits(t) PROVE ActiveAdmins' # {}
    <2>1. PICK u : u = txn[t].user
      OBVIOUS
    <2>2. CASE DisableUser(t)
      <3>1. Decided(t, "disable") /\ status' = [status EXCEPT ![u] = "disabled"] /\ admins' = admins
        BY <2>1, <2>2 DEF DisableUser
      <3>2. OtherAdmin(u) /\ u \in People
        BY <2>1, <3>1, DecidedFacts DEF Decision, Requested
      <3>3. ActiveAdmins \ {u} \subseteq ActiveAdmins'
        BY <1>1, <3>1 DEF ActiveAdmins
      <3>4. QED
        BY <3>2, <3>3, OneAdminLess
    <2>3. CASE RevokeAdmin(t)
      <3>1. Decided(t, "revokeAdmin") /\ admins' = admins \ {u} /\ status' = status
        BY <2>1, <2>3 DEF RevokeAdmin
      <3>2. OtherAdmin(u) /\ u \in People
        BY <2>1, <3>1, DecidedFacts DEF Decision, Requested
      <3>3. ActiveAdmins \ {u} \subseteq ActiveAdmins'
        BY <3>1 DEF ActiveAdmins
      <3>4. QED
        BY <3>2, <3>3, OneAdminLess
    <2>4. CASE DeleteUser(t)
      <3>1. Decided(t, "deleteUser") /\ status' = [status EXCEPT ![u] = "deleted"] /\ admins' = admins \ {u}
        BY <2>1, <2>4 DEF DeleteUser
      <3>2. OtherAdmin(u) /\ u \in People
        BY <2>1, <3>1, DecidedFacts DEF Decision, Requested
      <3>3. ActiveAdmins \ {u} \subseteq ActiveAdmins'
        BY <1>1, <3>1 DEF ActiveAdmins
      <3>4. QED
        BY <3>2, <3>3, OneAdminLess
    <2>5. ASSUME NEW v \in People, EnableUser(t, v) PROVE ActiveAdmins' # {}
      <3>1. status' = [status EXCEPT ![v] = "active"] /\ admins' = admins
        BY <2>5 DEF EnableUser
      <3>2. QED
        BY <1>1, <1>2, <3>1
    <2>6. ASSUME NEW v \in People, GrantAdmin(t, v) PROVE ActiveAdmins' # {}
      BY <1>2, <2>6 DEF GrantAdmin
    <2>7. QED
      BY <1>3, <2>2, <2>3, <2>4, <2>5, <2>6 DEF UserCommits
  <1>4. ASSUME NEW t \in Txns, OrganizationCommits(t) PROVE ActiveAdmins' # {}
    <2>1. UNCHANGED <<status, admins>>
      BY <1>4 DEF OrganizationCommits, CreateOrganization, RemoveOrganizationMember, UpdateOrganizationMember,
                  TransferOrganizationOwnership, DeleteOrganization
    <2>2. QED
      BY <1>2, <2>1
  <1>5. ASSUME NEW t \in Txns, InvitationCommits(t) PROVE ActiveAdmins' # {}
    <2>1. admins' = admins
      BY <1>5 DEF InvitationCommits, CreateInvitation, ResendInvitation, RevokeInvitation, AcceptInvitation, SignupInvited
    <2>2. status' = status \/ \E u \in People : status' = [status EXCEPT ![u] = "active"]
      <3>1. ASSUME NEW o \in Orgs, SignupInvited(t, o) PROVE \E u \in People : status' = [status EXCEPT ![u] = "active"]
        <4>1. Decided(t, "signup") /\ status' = [status EXCEPT ![txn[t].user] = "active"]
          BY <3>1 DEF SignupInvited
        <4>2. txn[t].user \in People
          BY <4>1, DecidedFacts DEF Requested
        <4>3. QED
          BY <4>1, <4>2
      <3>2. QED
        BY <1>5, <3>1 DEF InvitationCommits, CreateInvitation, ResendInvitation, RevokeInvitation, AcceptInvitation
    <2>3. QED
      BY <1>1, <1>2, <2>1, <2>2
  <1>6. CASE Alones
    <2>1. admins' = admins /\ (status' = status \/ \E u \in People : status' = [status EXCEPT ![u] = "active"])
      BY <1>6 DEF Alones, Signup, Expire
    <2>2. QED
      BY <1>1, <1>2, <2>1
  <1>7. CASE Untouched
    BY <1>2, <1>7 DEF Untouched
  <1>8. QED
    BY <1>3, <1>4, <1>5, <1>6, <1>7, StepCases

\* An instance that has an active administrator keeps one, whoever disables,
\* demotes or deletes whom at the same time (ErrLastAdmin).
THEOREM AnAdminRemains == DirectorySpec => AdminKept
  <1>1. IInv /\ [DirectoryNext]_directoryVars => [ActiveAdmins # {} => ActiveAdmins' # {}]_directoryVars
    BY AdminsStep
  <1>2. QED
    BY <1>1, DirectoryInvariant, PTL DEF DirectorySpec, AdminKept
\* The invitation that a transaction accepts is of its organization, for its user.
LEMMA InvitationAccepted ==
    ASSUME IInv, NEW t \in Txns, Decided(t, "accept") \/ Decided(t, "signup"), MarkAccepted(txn[t].invite)
    PROVE  LET i == txn[t].invite
           IN  /\ i \in Invites /\ Active(i) /\ invitation[i].org = txn[t].org /\ invitation[i].for = txn[t].user
               /\ invitation'[i].status = "accepted"
               /\ \A k \in Invites \ {i} : invitation'[k] = invitation[k]
  <1> DEFINE i == txn[t].invite
             row == [invitation[i] EXCEPT !.status = "accepted"]
  <1>1. /\ txn[t].op \in {"accept", "signup"} /\ txn[t].checked /\ Decision(txn[t]) /\ i \in Invites
    BY DecidedFacts DEF Requested
  <1>2. Active(i) /\ invitation' = [invitation EXCEPT ![i] = row]
    BY DEF MarkAccepted
  <1>3. invitation[i].org = txn[t].org /\ invitation[i].for = txn[t].user
    BY <1>1, <1>2 DEF Decision, OfOrganization, Active
  <1>4. row.status = "accepted"
    BY <1>1, <1>2, InvitationRow, NewStatus DEF Active
  <1> HIDE DEF row
  <1>5. invitation'[i] = row /\ \A k \in Invites \ {i} : invitation'[k] = invitation[k]
    BY <1>1, <1>2, InvitationRow
  <1>6. QED
    BY <1>1, <1>2, <1>3, <1>4, <1>5

LEMMA JoinedStep ==
    ASSUME IInv, [DirectoryNext]_directoryVars, NEW o \in Orgs, NEW u \in People,
           Founded(o), member[o][u] = "none", member'[o][u] # "none"
    PROVE  \E i \in Invites : /\ Active(i) /\ invitation[i].org = o /\ invitation[i].for = u
                              /\ invitation'[i].status = "accepted"
  <1>1. member \in [Orgs -> [People -> Roles \cup {"none"}]] /\ organization[o] # NoOrganization
    BY TableFacts DEF Founded, NoOrganization
  <1>2. ASSUME NEW t \in Txns, UserCommits(t) PROVE FALSE
    <2>1. member' = member \/ DeleteUser(t)
      BY <1>2 DEF UserCommits, DisableUser, RevokeAdmin, EnableUser, GrantAdmin
    <2>2. CASE DeleteUser(t)
      <3>1. PICK os, w : member' = [p \in Orgs |-> IF p \in os THEN NoMembers ELSE [member[p] EXCEPT ![w] = "none"]]
        BY <2>2 DEF DeleteUser
      <3>2. QED
        BY <1>1, <3>1 DEF NoMembers
    <2>3. QED
      BY <2>1, <2>2
  <1>3. ASSUME NEW t \in Txns, OrganizationCommits(t) PROVE FALSE
    <2>1. PICK g, a, w, role : g = txn[t].org /\ a = txn[t].actor /\ w = txn[t].user /\ role = txn[t].role
      OBVIOUS
    <2>2. ASSUME NEW v \in People, NEW p \in Orgs, CreateOrganization(t, v, p) PROVE FALSE
      <3>1. organization[p] = NoOrganization /\ member' = [member EXCEPT ![p][v] = "owner"]
        BY <2>2 DEF CreateOrganization
      <3>2. QED
        BY <1>1, <3>1
    <2>3. CASE RemoveOrganizationMember(t)
      <3>1. member' = [member EXCEPT ![g][w] = "none"]
        BY <2>1, <2>3 DEF RemoveOrganizationMember
      <3>2. QED
        BY <1>1, <3>1
    <2>4. CASE UpdateOrganizationMember(t)
      <3>1. member[g][w] # "none" /\ member' = [member EXCEPT ![g][w] = role]
        BY <2>1, <2>4 DEF UpdateOrganizationMember
      <3>2. QED
        BY <1>1, <3>1
    <2>5. CASE TransferOrganizationOwnership(t)
      <3>1. /\ a \in MembersOf(g) /\ w \in MembersOf(g)
            /\ member' = [member EXCEPT ![g][a] = "admin", ![g][w] = "owner"]
        BY <2>1, <2>5 DEF TransferOrganizationOwnership
      <3>2. member[g][a] # "none" /\ member[g][w] # "none"
        BY <3>1 DEF MembersOf
      <3>3. QED
        BY <1>1, <3>1, <3>2
    <2>6. CASE DeleteOrganization(t)
      <3>1. member' = [member EXCEPT ![g] = NoMembers]
        BY <2>1, <2>6 DEF DeleteOrganization
      <3>2. QED
        BY <1>1, <3>1 DEF NoMembers
    <2>7. QED
      BY <1>3, <2>2, <2>3, <2>4, <2>5, <2>6 DEF OrganizationCommits
  <1>4. ASSUME NEW t \in Txns, InvitationCommits(t)
        PROVE  \E i \in Invites : /\ Active(i) /\ invitation[i].org = o /\ invitation[i].for = u
                                  /\ invitation'[i].status = "accepted"
    <2>1. PICK g, w, i, role : g = txn[t].org /\ w = txn[t].user /\ i = txn[t].invite /\ role = invitation[i].role
      OBVIOUS
    <2>2. ASSUME Admit(g, w, role) PROVE o = g /\ u = w
      <3>1. PICK new : member' = [member EXCEPT ![g][w] = new]
        BY <2>2 DEF Admit
      <3>2. QED
        BY <1>1, <3>1
    <2>3. CASE AcceptInvitation(t)
      <3>1. Decided(t, "accept") /\ Admit(g, w, role) /\ MarkAccepted(i)
        BY <2>1, <2>3 DEF AcceptInvitation
      <3>2. QED
        BY <2>1, <2>2, <3>1, InvitationAccepted
    <2>4. ASSUME NEW p \in Orgs, SignupInvited(t, p) PROVE o = g /\ u = w /\ Decided(t, "signup") /\ MarkAccepted(i)
      <3>1. /\ Decided(t, "signup") /\ organization[p] = NoOrganization /\ MarkAccepted(i)
            /\ Admit(g, w, role) \/ member' = [member EXCEPT ![p][w] = "owner", ![g][w] = role]
        BY <2>1, <2>4 DEF SignupInvited
      <3>2. CASE member' = [member EXCEPT ![p][w] = "owner", ![g][w] = role]
        BY <1>1, <3>1, <3>2
      <3>3. QED
        BY <2>2, <3>1, <3>2
    <2>5. \/ member' = member \/ AcceptInvitation(t) \/ \E p \in Orgs : SignupInvited(t, p)
      BY <1>4 DEF InvitationCommits, CreateInvitation, ResendInvitation, RevokeInvitation
    <2>6. QED
      BY <2>1, <2>3, <2>4, <2>5, InvitationAccepted
  <1>5. CASE Alones
    <2>1. ASSUME NEW v \in People, NEW p \in Orgs, Signup(v, p) PROVE FALSE
      <3>1. organization[p] = NoOrganization /\ member' = [member EXCEPT ![p][v] = "owner"]
        BY <2>1 DEF Signup
      <3>2. QED
        BY <1>1, <3>1
    <2>2. QED
      BY <1>5, <2>1 DEF Alones, Expire
  <1>6. CASE Untouched
    BY <1>6 DEF Untouched
  <1>7. QED
    BY <1>2, <1>3, <1>4, <1>5, <1>6, StepCases

LEMMA SettledStep ==
    ASSUME IInv, [DirectoryNext]_directoryVars, NEW k \in Invites, invitation[k].status \in {"accepted", "revoked"}
    PROVE  invitation'[k].status \in {invitation[k].status, "deleted"}
  <1>1. ~Active(k) /\ invitation[k].status # "absent" /\ DOMAIN invitation = Invites
    BY InvitationRow DEF Active
  <1>2. ASSUME NEW i, NEW old, NEW row, CreateInvitationRow(i, old, row), old \in Invites \cup {NoOne}
        PROVE  invitation'[k] = invitation[k]
    <2>1. PICK was : /\ invitation[i].status = "absent" /\ (old # NoOne => Active(old))
                     /\ invitation' = [p \in Invites |-> CASE p = i -> row [] p = old -> was [] OTHER -> invitation[p]]
      <3>1. invitation' = [p \in Invites |-> CASE p = i -> row
                                               [] p = old -> [invitation[old] EXCEPT !.status = "revoked"]
                                               [] OTHER -> invitation[p]]
        BY <1>2 DEF CreateInvitationRow
      <3>2. QED
        BY <1>2, <3>1 DEF CreateInvitationRow, MarkRevoked
    <2>2. k # i /\ k # old
      BY <1>1, <2>1, InvitationRow
    <2>3. QED
      BY <2>1, <2>2
  <1>3. ASSUME NEW t \in Txns, UserCommits(t) PROVE invitation'[k].status \in {invitation[k].status, "deleted"}
    <2>1. CASE DeleteUser(t)
      <3>1. PICK gone, u : invitation' = [i \in Invites |->
                CASE i \in gone -> [NoInvitation EXCEPT !.status = "deleted"]
                  [] i \notin gone /\ invitation[i].by = u -> [invitation[i] EXCEPT !.by = NoOne]
                  [] OTHER -> invitation[i]]
        BY <2>1 DEF DeleteUser
      <3>2. invitation'[k] \in {[NoInvitation EXCEPT !.status = "deleted"], [invitation[k] EXCEPT !.by = NoOne],
                                invitation[k]}
        BY <3>1
      <3>3. [NoInvitation EXCEPT !.status = "deleted"].status = "deleted"
        BY DEF NoInvitation
      <3>4. [invitation[k] EXCEPT !.by = NoOne].status = invitation[k].status
        BY InvitationRow DEF InvitationTyped, InvitationFields
      <3>5. QED
        BY <3>2, <3>3, <3>4
    <2>2. QED
      BY <1>3, <2>1 DEF UserCommits, DisableUser, RevokeAdmin, EnableUser, GrantAdmin
  <1>4. ASSUME NEW t \in Txns, OrganizationCommits(t) PROVE invitation'[k].status \in {invitation[k].status, "deleted"}
    <2>1. CASE DeleteOrganization(t)
      <3>1. PICK gone : DeleteInvitations(gone)
        BY <2>1 DEF DeleteOrganization
      <3>2. invitation'[k] \in {[NoInvitation EXCEPT !.status = "deleted"], invitation[k]}
        BY <3>1 DEF DeleteInvitations
      <3>3. [NoInvitation EXCEPT !.status = "deleted"].status = "deleted"
        BY DEF NoInvitation
      <3>4. QED
        BY <3>2, <3>3
    <2>2. QED
      BY <1>4, <2>1 DEF OrganizationCommits, CreateOrganization, RemoveOrganizationMember,
                        UpdateOrganizationMember, TransferOrganizationOwnership
  <1>5. ASSUME NEW t \in Txns, InvitationCommits(t) PROVE invitation'[k] = invitation[k]
    <2>1. ASSUME NEW i \in Invites, CreateInvitation(t, i) PROVE invitation'[k] = invitation[k]
      <3>1. PICK row : Decided(t, "invite") /\ CreateInvitationRow(i, txn[t].invite, row)
        BY <2>1 DEF CreateInvitation
      <3>2. txn[t].invite \in Invites \cup {NoOne}
        BY <3>1, DecidedFacts DEF Requested
      <3>3. QED
        BY <1>2, <3>1, <3>2
    <2>2. ASSUME NEW i \in Invites, ResendInvitation(t, i) PROVE invitation'[k] = invitation[k]
      <3>1. PICK row : Decided(t, "resend") /\ CreateInvitationRow(i, txn[t].invite, row)
        BY <2>2 DEF ResendInvitation
      <3>2. txn[t].invite \in Invites \cup {NoOne}
        BY <3>1, DecidedFacts DEF Requested
      <3>3. QED
        BY <1>2, <3>1, <3>2
    <2>3. CASE RevokeInvitation(t)
      <3>1. PICK row : Active(txn[t].invite) /\ invitation' = [invitation EXCEPT ![txn[t].invite] = row]
        BY <2>3 DEF RevokeInvitation, MarkRevoked
      <3>2. QED
        BY <1>1, <3>1
    <2>4. CASE AcceptInvitation(t) \/ \E o \in Orgs : SignupInvited(t, o)
      <3>1. (Decided(t, "accept") \/ Decided(t, "signup")) /\ MarkAccepted(txn[t].invite)
        BY <2>4 DEF AcceptInvitation, SignupInvited
      <3>2. QED
        BY <1>1, <3>1, InvitationAccepted
    <2>5. QED
      BY <1>5, <2>1, <2>2, <2>3, <2>4 DEF InvitationCommits
  <1>6. CASE Alones
    <2>1. ASSUME NEW i \in Invites, Expire(i) PROVE invitation'[k] = invitation[k]
      <3>1. PICK row : Active(i) /\ invitation' = [invitation EXCEPT ![i] = row]
        BY <2>1 DEF Expire
      <3>2. QED
        BY <1>1, <3>1
    <2>2. QED
      BY <1>6, <2>1 DEF Alones, Signup
  <1>7. CASE Untouched
    BY <1>7 DEF Untouched
  <1>8. QED
    BY <1>3, <1>4, <1>5, <1>6, <1>7, StepCases

\* One joins an existing organization only by an invitation that this very step
\* accepts, and an invitation that was accepted or revoked stays so, although
\* acceptance, revocation, resending and a new invitation race for it.
THEOREM InvitationsSettle == DirectorySpec => InvitationsKept
  <1>1. IInv /\ [DirectoryNext]_directoryVars => [JoinedByInvitation /\ SettledOnce]_directoryVars
    BY JoinedStep, SettledStep DEF JoinedByInvitation, SettledOnce
  <1>2. QED
    BY <1>1, DirectoryInvariant, PTL DEF DirectorySpec, InvitationsKept

=============================================================================
