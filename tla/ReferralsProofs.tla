--------------------------- MODULE ReferralsProofs ----------------------------
(***************************************************************************)
(* Proofs about Referrals for any users, payments, orders, links, requests *)
(* and number of transactions.                                             *)
(*                                                                         *)
(* The idempotency key of a commission is looked up without a constraint   *)
(* that would refuse a second one with the same key.  What makes it exact  *)
(* is that a transaction which is about to post a commission holds a row   *)
(* that every other one with that key needs: the buyer's for a deposit,    *)
(* the order's own for an order.  The same row lock of the buyer keeps     *)
(* /start links from attributing the buyer between the look at the         *)
(* referrer and the commit of the first deposit.                           *)
(***************************************************************************)
EXTENDS Referrals, WellFoundedInduction, FiniteSetTheorems, SequenceTheorems, TLAPS

Commissions == {Commission(j, to) : j \in Jobs, to \in Users}
TxType == [at : {"idle", "row", "buyer", "referrer", "end"}, todo : Seq(Jobs), job : Jobs \cup {0},
           to : Users \cup {None}, now : SUBSET Jobs, posts : SUBSET Commissions]

Types ==
    /\ referred_by \in [Users -> Users \cup {None}]
    /\ ready \in SUBSET Jobs /\ IsFiniteSet(ready)
    /\ done \in SUBSET Jobs /\ book \in SUBSET Commissions
    /\ lock \in [Rows -> Seq(Txs)] /\ tx \in [Txs -> TxType]
    /\ first \in [Users -> [job : Nat, referred : BOOLEAN]]

Holds(t, r) == lock[r] # <<>> /\ lock[r][1] = t

\* The row that whoever posts the commission of job j has to hold.
Guard(j) == IF Kind[j] = "deposit" THEN Buyer[j] ELSE j

OfUser(j, u) == Kind[j] = "deposit" /\ Buyer[j] = u
Keyed(es, u) == \E e \in es : e.kind = "deposit" /\ e.buyer = u

\* A deposit of u that transaction t is about to commit has its commission, unless it
\* is not the first one or u has no referrer.
Settled(t, k, u) ==
    /\ Holds(t, u)
    /\ first[u] = NoDeposit => referred_by[u] = None \/ Keyed(book \cup k.posts, u)

\* What holds of transaction t, whose record is k.
Sound(t, k) ==
    /\ k.at \in {"row", "buyer", "referrer"} => k.todo # <<>>
    /\ k.at \in {"buyer", "referrer"} => k.job = Head(k.todo)
    /\ k.at = "referrer" => k.to \in Users /\ Holds(t, Guard(k.job))
    /\ \A e \in k.posts : Holds(t, Guard(e.job))
    /\ \A e \in k.posts, f \in book : e.key # f.key
    /\ \A e, f \in k.posts : e.key = f.key => e = f
    /\ \A j \in k.now \ done, u \in Users : OfUser(j, u) => Settled(t, k, u)

\* The inductive invariant.
Inv ==
    /\ Types
    /\ \A t \in Txs : Sound(t, tx[t])
    /\ \A e, f \in book : e.key = f.key => e = f
    /\ \A u \in Users : first[u] = NoDeposit => \A j \in done : ~OfUser(j, u)
    /\ CommissionDue

------------------------------------------------------------------------------
\* Sequences and numbers.

LEMMA SmallestIn ==
    ASSUME NEW S, S \subseteq Nat, S # {}
    PROVE  Min(S) \in S
<1>0. PICK R : R = OpToRel(<, Nat)
  OBVIOUS
<1>1. PICK m \in S : \A y \in S : ~(<<y, m>> \in R)
  BY <1>0, NatLessThanWellFounded, WFMin
<1>2. ASSUME NEW y \in S
      PROVE  m <= y
  <2>1. m \in Nat /\ y \in Nat
    OBVIOUS
  <2>2. y < m => <<y, m>> \in R
    BY <1>0, <2>1 DEF OpToRel
  <2> QED BY <1>1, <2>1, <2>2
<1> QED BY <1>2 DEF Min

\* Leaving a queue lets whoever is at its head stay there.
LEMMA LeavesQueue ==
    ASSUME NEW S, NEW q \in Seq(S), NEW t
    PROVE  /\ RemoveFirst(q, t) \in Seq(S)
           /\ q # <<>> /\ q[1] # t => RemoveFirst(q, t) # <<>> /\ RemoveFirst(q, t)[1] = q[1]
<1>1. CASE \A i \in 1..Len(q) : q[i] # t
  BY <1>1 DEF RemoveFirst
<1>2. CASE \E i \in 1..Len(q) : q[i] = t
  <2> DEFINE I == {i \in 1..Len(q) : q[i] = t}
  <2>1. I \subseteq Nat /\ I # {}
    BY <1>2
  <2>2. PICK m : m = Min(I)
    OBVIOUS
  <2>3. m \in I
    <3> HIDE DEF I
    <3> QED BY <2>1, <2>2, SmallestIn
  <2>4. RemoveFirst(q, t) = SubSeq(q, 1, m - 1) \o SubSeq(q, m + 1, Len(q))
    BY <1>2, <2>1, <2>2 DEF RemoveFirst, RemoveAt, SelectInSeq
  <2>5. Len(q) \in Nat /\ m \in 1..Len(q) /\ q[m] = t
    BY <2>3
  <2> HIDE DEF I
  <2>6. SubSeq(q, 1, m - 1) \in Seq(S) /\ SubSeq(q, m + 1, Len(q)) \in Seq(S)
    BY <2>5
  <2>7. ASSUME q[1] # t
        PROVE  RemoveFirst(q, t) # <<>> /\ RemoveFirst(q, t)[1] = q[1]
    <3>1. m >= 2
      BY <2>5, <2>7
    <3>2. Len(SubSeq(q, 1, m - 1)) = m - 1 /\ SubSeq(q, 1, m - 1)[1] = q[1]
      BY <2>5, <3>1
    <3>3. PICK a, b : a = SubSeq(q, 1, m - 1) /\ b = SubSeq(q, m + 1, Len(q))
      OBVIOUS
    <3>4. a \in Seq(S) /\ b \in Seq(S) /\ Len(a) >= 1 /\ a[1] = q[1]
      BY <2>5, <2>6, <3>1, <3>2, <3>3
    <3>5. a \o b # <<>> /\ (a \o b)[1] = a[1]
      BY <3>4
    <3>6. RemoveFirst(q, t) = a \o b
      BY <2>4, <3>3, Zenon
    <3> QED BY <3>4, <3>5, <3>6, Zenon
  <2>8. PICK a, b : a = SubSeq(q, 1, m - 1) /\ b = SubSeq(q, m + 1, Len(q))
    OBVIOUS
  <2>9. a \o b \in Seq(S)
    <3>1. a \in Seq(S) /\ b \in Seq(S)
      BY <2>6, <2>8, Zenon
    <3> QED BY <3>1
  <2>10. RemoveFirst(q, t) \in Seq(S)
    BY <2>4, <2>8, <2>9, Zenon
  <2> QED BY <2>7, <2>10, Zenon
<1> QED BY <1>1, <1>2

------------------------------------------------------------------------------
LEMMA CommissionFields ==
    ASSUME NEW e \in Commissions
    PROVE  /\ e.job \in Jobs /\ e.buyer = Buyer[e.job] /\ e.kind = Kind[e.job]
           /\ e.key = KeyOf(e.job) /\ Guard(e.job) \in Rows
<1>1. PICK j \in Jobs, to \in Users : e = Commission(j, to)
  BY DEF Commissions
<1>2. e.job = j /\ e.buyer = Buyer[j] /\ e.kind = Kind[j] /\ e.key = KeyOf(j)
  BY <1>1 DEF Commission
<1> QED BY <1>2, ReferralsAssumption DEF ReferralsAssumption, Guard, Rows

LEMMA SameKeySameGuard ==
    ASSUME NEW e \in Commissions, NEW f \in Commissions, e.key = f.key
    PROVE  Guard(e.job) = Guard(f.job)
<1>1. e.key = KeyOf(e.job) /\ f.key = KeyOf(f.job)
  BY CommissionFields
<1>2. \A x, y : /\ <<"refdep", x>> # <<"reford", y>>
                /\ <<"refdep", x>> = <<"refdep", y>> => x = y
                /\ <<"reford", x>> = <<"reford", y>> => x = y
  OBVIOUS
<1> QED BY <1>1, <1>2 DEF KeyOf, Guard

LEMMA IdleTyped == Idle \in TxType
<1>1. <<>> \in Seq(Jobs)
  OBVIOUS
<1> QED BY <1>1 DEF Idle, TxType

LEMMA InitInv == Init => Inv
<1> SUFFICES ASSUME Init
             PROVE  Inv
  OBVIOUS
<1>1. Types
  <2>1. <<>> \in Seq(Txs)
    OBVIOUS
  <2>2. IsFiniteSet({})
    BY FS_EmptySet
  <2> QED BY <2>1, <2>2, IdleTyped, ReferralsAssumption DEF ReferralsAssumption, Init, Types, NoDeposit
<1>2. \A t \in Txs : Sound(t, tx[t])
  BY DEF Sound, Init, Idle
<1> QED BY <1>1, <1>2 DEF Inv, Init, CommissionDue, NoDeposit

------------------------------------------------------------------------------
\* Nobody loses a row that was held.
HoldsKept == \A s \in Txs, r \in Rows : Holds(s, r) => Holds(s, r)'

\* What transaction s relies on while another one goes on or commits: what s has posted
\* is still new, and the referrers of users whose rows s holds are the same.
LEMMA KeepsSound ==
    ASSUME Inv, NEW s \in Txs, NEW k, k = tx[s],
           \A r \in Rows : Holds(s, r) => Holds(s, r)',
           done \subseteq done', book \subseteq book',
           \A e \in k.posts, f \in book' \ book : e.key # f.key,
           \A u \in Users : Holds(s, u) => referred_by'[u] = referred_by[u],
           \A u \in Users : first'[u] = NoDeposit => first[u] = NoDeposit
    PROVE  Sound(s, k)'
<1>1. Sound(s, k) /\ k \in TxType
  BY DEF Inv, Types
<1>2. \A u \in Users : u \in Rows
  BY DEF Rows
<1>3. \A e \in k.posts : Guard(e.job) \in Rows
  BY <1>1, CommissionFields DEF TxType
<1>4. k.at = "referrer" => Guard(k.job) \in Rows
  <2>1. ASSUME k.at = "referrer"
        PROVE  k.job \in Jobs
    <3>1. k.todo \in Seq(Jobs) /\ k.todo # <<>> /\ k.job = Head(k.todo)
      BY <1>1, <2>1 DEF Sound, TxType
    <3> QED BY <3>1, HeadTailProperties
  <2> QED BY <2>1, ReferralsAssumption DEF ReferralsAssumption, Guard, Rows
<1>5. ASSUME NEW j \in k.now \ done', NEW u \in Users, OfUser(j, u)
      PROVE  Settled(s, k, u)'
  <2>1. Settled(s, k, u)
    BY <1>1, <1>5 DEF Sound
  <2> QED BY <1>2, <2>1 DEF Settled, Keyed
<1>6. \A e \in k.posts, f \in book' : e.key # f.key
  BY <1>1 DEF Sound
<1> QED BY <1>1, <1>3, <1>4, <1>5, <1>6 DEF Sound

LEMMA StaysSound ==
    ASSUME Inv, NEW s \in Txs, NEW k, k = tx[s], HoldsKept,
           UNCHANGED <<book, done, first>>,
           \A u \in Users : Holds(s, u) => referred_by'[u] = referred_by[u]
    PROVE  Sound(s, k)'
BY KeepsSound DEF HoldsKept

\* One transaction goes on, and has nothing committed.
LEMMA OneGoesOn ==
    ASSUME Inv, UNCHANGED <<referred_by, done, book, ready, first>>, HoldsKept, lock' \in [Rows -> Seq(Txs)],
           NEW t \in Txs, NEW k \in TxType, tx' = [tx EXCEPT ![t] = k], Sound(t, k)'
    PROVE  Inv'
<1>1. UNCHANGED <<referred_by, done, book, ready, first>> /\ tx \in [Txs -> TxType]
  BY DEF Inv, Types
<1>2. Types'
  BY <1>1 DEF Inv, Types, TxType
<1>3. ASSUME NEW s \in Txs
      PROVE  Sound(s, tx[s])'
  <2>1. PICK l : l = tx'[s]
    OBVIOUS
  <2>2. (l = k /\ s = t) \/ l = tx[s]
    BY <1>1, <2>1
  <2>3. Sound(s, l)'
    BY <1>1, <2>2, StaysSound
  <2> QED BY <2>1, <2>3
<1> QED BY <1>1, <1>2, <1>3 DEF Inv, CommissionDue

\* A lock that is free or already held is held now, and nobody loses one.
LEMMA TakesRow ==
    ASSUME Inv, NEW t \in Txs, NEW r \in Rows, Takes(t, r)
    PROVE  lock' \in [Rows -> Seq(Txs)] /\ HoldsKept /\ Holds(t, r)'
<1>1. lock \in [Rows -> Seq(Txs)]
  BY DEF Inv, Types
<1>2. <<t>> \in Seq(Txs) /\ <<t>> # <<>> /\ <<t>>[1] = t
  OBVIOUS
<1>3. CASE lock[r] = <<>> /\ lock' = [lock EXCEPT ![r] = <<t>>]
  BY <1>1, <1>2, <1>3 DEF HoldsKept, Holds
<1>4. CASE lock[r] # <<>> /\ Head(lock[r]) = t /\ UNCHANGED lock
  BY <1>1, <1>4 DEF HoldsKept, Holds
<1> QED BY <1>3, <1>4 DEF Takes

\* The commissions es that transaction t posts for job j are new, their rows are held;
\* a first deposit of a user with a referrer has one.
PostsNew(t, es) ==
    /\ \A e \in es : /\ Holds(t, Guard(e.job))'
                     /\ \A f \in book \cup tx[t].posts : f.key # e.key
    /\ \A e, f \in es : e = f
SettlesDeposit(t, j, es) ==
    j \notin done => \A u \in Users : OfUser(j, u) =>
        /\ Holds(t, u)'
        /\ \/ referred_by[u] = None
           \/ Keyed(book \cup tx[t].posts \cup es, u)
           \/ \E i \in done \cup tx[t].now : OfUser(i, u)

LEMMA PostsNothing == \A t : PostsNew(t, {})
BY DEF PostsNew

\* The record of a transaction after a step, and what is sound about it.
LEMMA Advanced ==
    ASSUME Inv, Same, NEW t \in Txs, NEW r \in Rows, Takes(t, r),
           tx[t].at \in {"row", "buyer", "referrer"},
           NEW j \in Jobs, j = Head(tx[t].todo),
           NEW es \in SUBSET Commissions, Advance(t, j, es),
           PostsNew(t, es), SettlesDeposit(t, j, es)
    PROVE  Inv'
<1>1. PICK k : k = tx[t]
  OBVIOUS
<1>2. k \in TxType /\ Sound(t, k) /\ tx \in [Txs -> TxType]
  BY <1>1 DEF Inv, Types
<1>3. k.todo \in Seq(Jobs) /\ k.todo # <<>> /\ k.now \in SUBSET Jobs /\ k.posts \in SUBSET Commissions
  BY <1>1, <1>2 DEF TxType, Sound
<1>4. Tail(k.todo) \in Seq(Jobs) /\ (Len(k.todo) # 1 => Tail(k.todo) # <<>>)
  <2>1. Tail(k.todo) \in Seq(Jobs) /\ Len(Tail(k.todo)) = Len(k.todo) - 1
    BY <1>3, HeadTailProperties
  <2>2. Len(k.todo) \in Nat \ {0}
    BY <1>3, EmptySeq
  <2>3. Tail(k.todo) = <<>> => Len(Tail(k.todo)) = 0
    BY EmptySeq
  <2>4. ASSUME Tail(k.todo) = <<>>
        PROVE  Len(k.todo) = 1
    BY <2>1, <2>2, <2>3, <2>4
  <2> QED BY <2>1, <2>4
<1>5. PICK at : at = IF Len(k.todo) = 1 THEN "end" ELSE "row"
  OBVIOUS
<1>6. PICK l : l = [k EXCEPT !.at = at, !.todo = Tail(k.todo), !.job = 0, !.to = None,
                             !.now = k.now \cup {j}, !.posts = k.posts \cup es]
  OBVIOUS
<1>7. tx' = [tx EXCEPT ![t] = l]
  BY <1>1, <1>2, <1>5, <1>6 DEF Advance
<1>8. /\ l \in TxType /\ l.at = at /\ l.todo = Tail(k.todo)
      /\ l.now = k.now \cup {j} /\ l.posts = k.posts \cup es
  BY <1>2, <1>3, <1>4, <1>5, <1>6 DEF TxType
<1>9. lock' \in [Rows -> Seq(Txs)] /\ HoldsKept /\ Holds(t, r)'
  BY TakesRow
<1>10. UNCHANGED <<referred_by, done, book, ready, first>>
  BY DEF Same
<1>11. \A e \in l.posts : Holds(t, Guard(e.job))'
  <2>1. \A e \in k.posts : Guard(e.job) \in Rows /\ Holds(t, Guard(e.job))
    BY <1>2, <1>3, CommissionFields DEF Sound
  <2> QED BY <1>8, <1>9, <2>1 DEF HoldsKept, PostsNew
<1>12. /\ \A e \in l.posts, f \in book' : e.key # f.key
       /\ \A e, f \in l.posts : e.key = f.key => e = f
  BY <1>1, <1>2, <1>8, <1>10 DEF Sound, PostsNew
<1>13. ASSUME NEW i \in l.now \ done', NEW u \in Users, OfUser(i, u)
       PROVE  Settled(t, l, u)'
  <2>1. u \in Rows
    BY DEF Rows
  <2>2. \A m \in k.now \ done : OfUser(m, u) =>
          /\ Holds(t, u)'
          /\ (first[u] = NoDeposit => referred_by[u] = None \/ Keyed(book \cup k.posts, u))
    BY <1>2, <1>9, <2>1 DEF Sound, Settled, HoldsKept
  <2>3. first[u] = NoDeposit => \A m \in done : ~OfUser(m, u)
    BY DEF Inv
  <2>4. /\ Holds(t, u)'
        /\ (first[u] = NoDeposit => referred_by[u] = None \/ Keyed(book \cup k.posts \cup es, u))
    <3>1. CASE i \in k.now
      BY <1>10, <1>13, <2>2, <3>1 DEF Keyed
    <3>2. CASE i = j
      BY <1>1, <1>10, <1>13, <2>2, <2>3, <3>2 DEF Keyed, SettlesDeposit
    <3> QED BY <1>8, <1>13, <3>1, <3>2
  <2> QED BY <1>8, <1>10, <2>4 DEF Settled, Keyed
<1>14. Sound(t, l)'
  BY <1>3, <1>4, <1>5, <1>8, <1>11, <1>12, <1>13 DEF Sound
<1> QED BY <1>7, <1>8, <1>9, <1>10, <1>14, OneGoesOn

LEMMA Needed ==
    ASSUME Inv, Same, NEW t \in Txs, NEW r \in Rows, Takes(t, r),
           tx[t].at \in {"row", "buyer", "referrer"},
           NEW j \in Jobs, j = Head(tx[t].todo),
           NEW at \in {"buyer", "referrer"}, NEW to \in Users \cup {None}, Needs(t, j, at, to),
           at = "referrer" => to \in Users /\ Guard(j) = r
    PROVE  Inv'
<1>1. PICK k : k = tx[t]
  OBVIOUS
<1>2. k \in TxType /\ Sound(t, k) /\ tx \in [Txs -> TxType]
  BY <1>1 DEF Inv, Types
<1>3. k.todo \in Seq(Jobs) /\ k.todo # <<>> /\ k.now \in SUBSET Jobs /\ k.posts \in SUBSET Commissions
  BY <1>1, <1>2 DEF TxType, Sound
<1>4. PICK l : l = [k EXCEPT !.at = at, !.job = j, !.to = to]
  OBVIOUS
<1>5. tx' = [tx EXCEPT ![t] = l]
  BY <1>1, <1>2, <1>4 DEF Needs
<1>6. /\ l \in TxType /\ l.at = at /\ l.todo = k.todo /\ l.job = j /\ l.to = to
      /\ l.now = k.now /\ l.posts = k.posts
  BY <1>2, <1>4 DEF TxType
<1>7. lock' \in [Rows -> Seq(Txs)] /\ HoldsKept /\ Holds(t, r)'
  BY TakesRow
<1>8. UNCHANGED <<referred_by, done, book, ready, first>>
  BY DEF Same
<1>9. Sound(t, k)'
  BY <1>1, <1>7, <1>8, StaysSound
<1>10. Sound(t, l)'
  BY <1>1, <1>3, <1>6, <1>7, <1>9 DEF Sound, Settled
<1> QED BY <1>5, <1>6, <1>7, <1>8, <1>10, OneGoesOn

LEMMA SameKeySameBuyer ==
    ASSUME NEW e \in Commissions, NEW j \in Jobs, Kind[j] = "deposit", e.key = KeyOf(j)
    PROVE  e.kind = "deposit" /\ e.buyer = Buyer[j]
<1>1. e.key = KeyOf(e.job) /\ e.kind = Kind[e.job] /\ e.buyer = Buyer[e.job]
  BY CommissionFields
<1>2. \A x, y : /\ <<"refdep", x>> # <<"reford", y>>
                /\ <<"refdep", x>> = <<"refdep", y>> => x = y
  OBVIOUS
<1> QED BY <1>1, <1>2 DEF KeyOf

\* What the transaction is working on.
LEMMA WorksOn ==
    ASSUME Inv, NEW t \in Txs
    PROVE  /\ tx[t].at \in {"row", "buyer", "referrer"} => Head(tx[t].todo) \in Jobs
           /\ tx[t].at \in {"buyer", "referrer"} => tx[t].job = Head(tx[t].todo)
           /\ tx[t].at = "referrer" => tx[t].to \in Users /\ Holds(t, Guard(tx[t].job))
<1>1. tx[t].todo \in Seq(Jobs) /\ Sound(t, tx[t])
  BY DEF Inv, Types, TxType
<1> QED BY <1>1, HeadTailProperties DEF Sound

LEMMA JobStep ==
    ASSUME Inv, NEW t \in Txs, LockJob(t)
    PROVE  Inv'
<1>1. PICK j : j = Head(tx[t].todo)
  OBVIOUS
<1>2. /\ tx[t].at = "row" /\ Takes(t, j) /\ Same /\ j \in Jobs /\ j \in Rows
      /\ Buyer[j] \in Users /\ referred_by[Buyer[j]] \in Users \cup {None}
  BY <1>1, WorksOn, ReferralsAssumption DEF ReferralsAssumption, LockJob, Rows, Inv, Types
<1>3. CASE j \in done /\ Advance(t, j, {})
  <2>1. SettlesDeposit(t, j, {})
    BY <1>3 DEF SettlesDeposit
  <2> QED BY <1>1, <1>2, <1>3, <2>1, PostsNothing, Advanced
<1>4. CASE OrderEarns(t, j) /\ Needs(t, j, "referrer", referred_by[Buyer[j]])
  <2>1. referred_by[Buyer[j]] \in Users /\ Guard(j) = j
    BY <1>2, <1>4 DEF OrderEarns, Guard
  <2> QED BY <1>1, <1>2, <1>4, <2>1, Needed
<1>5. CASE Kind[j] = "completed" /\ Advance(t, j, {})
  <2>1. SettlesDeposit(t, j, {})
    BY <1>5 DEF OfUser, SettlesDeposit
  <2> QED BY <1>1, <1>2, <1>5, <2>1, PostsNothing, Advanced
<1>6. CASE Needs(t, j, "buyer", None)
  BY <1>1, <1>2, <1>6, Needed
<1> QED BY <1>1, <1>3, <1>4, <1>5, <1>6 DEF LockJob

LEMMA BuyerStep ==
    ASSUME Inv, NEW t \in Txs, LockBuyer(t)
    PROVE  Inv'
<1>1. PICK j : j = tx[t].job
  OBVIOUS
<1>2. /\ tx[t].at = "buyer" /\ j = Head(tx[t].todo) /\ Same /\ j \in Jobs
      /\ Takes(t, Buyer[j]) /\ Buyer[j] \in Users /\ Buyer[j] \in Rows
      /\ referred_by[Buyer[j]] \in Users \cup {None}
  BY <1>1, WorksOn, ReferralsAssumption DEF ReferralsAssumption, LockBuyer, Rows, Inv, Types
<1>3. CASE DepositEarns(t, j) /\ Needs(t, j, "referrer", referred_by[Buyer[j]])
  <2>1. referred_by[Buyer[j]] \in Users /\ Guard(j) = Buyer[j]
    BY <1>2, <1>3 DEF DepositEarns, Guard
  <2> QED BY <1>2, <1>3, <2>1, Needed
<1>4. CASE ~DepositEarns(t, j) /\ Advance(t, j, {})
  <2>1. ASSUME NEW u \in Users, OfUser(j, u)
        PROVE  /\ Holds(t, u)'
               /\ \/ referred_by[u] = None
                  \/ \E i \in done \cup tx[t].now : OfUser(i, u)
    <3>1. u = Buyer[j] /\ Kind[j] = "deposit"
      BY <2>1 DEF OfUser
    <3>2. Holds(t, u)'
      BY <1>2, <3>1, TakesRow
    <3>3. ASSUME referred_by[u] # None
          PROVE  \E i \in done \cup tx[t].now : OfUser(i, u)
      <4>1. ~(PaidCount(t, u) <= 1)
        BY <1>4, <3>1, <3>3 DEF DepositEarns
      <4>2. {i \in done \cup tx[t].now : Kind[i] = "deposit" /\ Buyer[i] = u} # {}
        BY <4>1, FS_EmptySet DEF PaidCount
      <4> QED BY <4>2 DEF OfUser
    <3> QED BY <3>2, <3>3
  <2>2. SettlesDeposit(t, j, {})
    BY <2>1 DEF SettlesDeposit
  <2> QED BY <1>2, <1>4, <2>2, PostsNothing, Advanced
<1> QED BY <1>1, <1>3, <1>4 DEF LockBuyer

LEMMA ReferrerStep ==
    ASSUME Inv, NEW t \in Txs, LockReferrer(t)
    PROVE  Inv'
<1>1. PICK j, to : j = tx[t].job /\ to = tx[t].to
  OBVIOUS
<1>2. /\ tx[t].at = "referrer" /\ j = Head(tx[t].todo) /\ Same /\ j \in Jobs
      /\ to \in Users /\ to \in Rows /\ Takes(t, to) /\ Holds(t, Guard(j))
  BY <1>1, WorksOn DEF LockReferrer, Rows
<1>3. Holds(t, Guard(j))'
  <2>1. Guard(j) \in Rows
    BY <1>2, ReferralsAssumption DEF ReferralsAssumption, Guard, Rows
  <2> QED BY <1>2, <2>1, TakesRow DEF HoldsKept
<1>4. \A u \in Users : OfUser(j, u) => Holds(t, u)'
  BY <1>3 DEF OfUser, Guard
<1>5. book \cup tx[t].posts \in SUBSET Commissions
  BY DEF Inv, Types, TxType
<1>6. CASE (\E e \in book \cup tx[t].posts : e.key = KeyOf(j)) /\ Advance(t, j, {})
  <2>1. ASSUME NEW u \in Users, OfUser(j, u)
        PROVE  Keyed(book \cup tx[t].posts \cup {}, u)
    <3>1. PICK e \in book \cup tx[t].posts : e.key = KeyOf(j)
      BY <1>6
    <3>2. e.kind = "deposit" /\ e.buyer = u
      BY <1>2, <1>5, <2>1, <3>1, SameKeySameBuyer DEF OfUser
    <3> QED BY <3>1, <3>2 DEF Keyed
  <2>2. SettlesDeposit(t, j, {})
    BY <1>4, <2>1 DEF SettlesDeposit
  <2> QED BY <1>2, <1>6, <2>2, PostsNothing, Advanced
<1>7. CASE /\ \A e \in book \cup tx[t].posts : e.key # KeyOf(j)
           /\ Advance(t, j, {Commission(j, to)})
  <2>1. PICK c : c = Commission(j, to)
    OBVIOUS
  <2>2. c \in Commissions /\ c.job = j /\ c.key = KeyOf(j) /\ c.kind = Kind[j] /\ c.buyer = Buyer[j]
    BY <1>2, <2>1 DEF Commission, Commissions
  <2>3. \A u \in Users : OfUser(j, u) => Keyed(book \cup tx[t].posts \cup {c}, u)
    BY <2>2 DEF OfUser, Keyed
  <2>4. {c} \in SUBSET Commissions /\ Advance(t, j, {c})
    BY <1>7, <2>1, <2>2
  <2>5. PostsNew(t, {c}) /\ SettlesDeposit(t, j, {c})
    BY <1>3, <1>4, <1>7, <2>2, <2>3 DEF PostsNew, SettlesDeposit
  <2> QED BY <1>2, <2>4, <2>5, Advanced
<1> QED BY <1>1, <1>6, <1>7 DEF LockReferrer

------------------------------------------------------------------------------
\* What a transaction leaves behind when it ends, committed or not.
LEMMA EndsIdle ==
    ASSUME Inv, NEW t \in Txs, lock' = Unlocked(t), tx' = [tx EXCEPT ![t] = Idle]
    PROVE  /\ lock' \in [Rows -> Seq(Txs)] /\ tx' \in [Txs -> TxType]
           /\ \A s \in Txs \ {t} : \A r \in Rows : Holds(s, r) => Holds(s, r)'
           /\ \A s \in Txs \ {t} : tx'[s] = tx[s]
           /\ Sound(t, tx[t])'
<1>1. lock \in [Rows -> Seq(Txs)] /\ tx \in [Txs -> TxType]
  BY DEF Inv, Types
<1>2. lock' = [r \in Rows |-> RemoveFirst(lock[r], t)]
  BY DEF Unlocked
<1>3. lock' \in [Rows -> Seq(Txs)]
  BY <1>1, <1>2, LeavesQueue
<1>4. ASSUME NEW s \in Txs \ {t}, NEW r \in Rows, Holds(s, r)
      PROVE  Holds(s, r)'
  <2>1. lock'[r] = RemoveFirst(lock[r], t) /\ lock[r] \in Seq(Txs)
    BY <1>1, <1>2
  <2>2. lock[r] # <<>> /\ lock[r][1] = s
    BY <1>4 DEF Holds
  <2> QED BY <2>1, <2>2, LeavesQueue DEF Holds
<1>5. tx' \in [Txs -> TxType] /\ tx'[t] = Idle /\ \A s \in Txs \ {t} : tx'[s] = tx[s]
  BY <1>1, IdleTyped
<1>6. Sound(t, tx[t])'
  BY <1>5 DEF Sound, Idle
<1> QED BY <1>3, <1>4, <1>5, <1>6

LEMMA BackStep ==
    ASSUME Inv, NEW t \in Txs, RolledBack(t)
    PROVE  Inv'
<1>1. /\ lock' = Unlocked(t) /\ tx' = [tx EXCEPT ![t] = Idle]
      /\ UNCHANGED <<referred_by, done, book, ready, first>>
  BY DEF RolledBack
<1>2. ASSUME NEW s \in Txs
      PROVE  Sound(s, tx[s])'
  <2>1. CASE s = t
    BY <1>1, <2>1, EndsIdle
  <2>2. CASE s # t
    <3>1. PICK k : k = tx[s]
      OBVIOUS
    <3>2. /\ tx'[s] = k /\ Sound(s, k) /\ k \in TxType
          /\ \A r \in Rows : Holds(s, r) => Holds(s, r)'
      BY <1>1, <2>2, <3>1, EndsIdle DEF Inv, Types
    <3>3. Sound(s, k)'
      BY <1>1, <3>1, <3>2, KeepsSound
    <3> QED BY <3>2, <3>3
  <2> QED BY <2>1, <2>2
<1>3. Types'
  BY <1>1, EndsIdle DEF Inv, Types, TxType
<1> QED BY <1>1, <1>2, <1>3 DEF Inv, CommissionDue

LEMMA CommitStep ==
    ASSUME Inv, NEW t \in Txs, Commit(t)
    PROVE  Inv'
<1>1. PICK k : k = tx[t]
  OBVIOUS
<1>2. /\ k \in TxType /\ Sound(t, k)
      /\ done' = done \cup k.now /\ book' = book \cup k.posts
      /\ first' = [u \in Users |-> FirstDeposit(t, u)]
      /\ lock' = Unlocked(t) /\ tx' = [tx EXCEPT ![t] = Idle]
      /\ UNCHANGED <<referred_by, ready>>
  BY <1>1 DEF Commit, Inv, Types
<1>3. k.now \in SUBSET Jobs /\ k.posts \in SUBSET Commissions /\ book \in SUBSET Commissions
  BY <1>2 DEF TxType, Inv, Types
\* What becomes of a user's first deposit.
<1>4. ASSUME NEW u \in Users
      PROVE  /\ first'[u] \in [job : Nat, referred : BOOLEAN]
             /\ first'[u] = NoDeposit =>
                  first[u] = NoDeposit /\ \A j \in k.now \ done : ~OfUser(j, u)
             /\ first'[u] # first[u] =>
                  /\ first[u] = NoDeposit /\ \E j \in k.now \ done : OfUser(j, u)
                  /\ first'[u].referred => referred_by[u] # None
  <2> DEFINE js == {j \in k.now \ done : Kind[j] = "deposit" /\ Buyer[j] = u}
  <2>1. first'[u] = IF first[u] # NoDeposit \/ js = {} THEN first[u]
                    ELSE [job |-> Min(js), referred |-> referred_by[u] # None]
    BY <1>1, <1>2 DEF FirstDeposit
  <2>2. first[u] \in [job : Nat, referred : BOOLEAN]
    BY DEF Inv, Types
  <2>3. js \subseteq Nat /\ \A j \in js : j \in k.now \ done /\ OfUser(j, u) /\ j # 0
    BY <1>3, ReferralsAssumption DEF ReferralsAssumption, OfUser
  <2>4. \A j \in k.now \ done : OfUser(j, u) => j \in js
    BY DEF OfUser
  <2> HIDE DEF js
  <2>5. CASE first[u] # NoDeposit \/ js = {}
    BY <2>1, <2>2, <2>4, <2>5
  <2>6. CASE first[u] = NoDeposit /\ js # {}
    <3>1. Min(js) \in js
      BY <2>3, <2>6, SmallestIn
    <3>2. PICK m, b : m = Min(js) /\ b = (referred_by[u] # None)
      OBVIOUS
    <3>3. m \in Nat /\ m # 0 /\ b \in BOOLEAN /\ first'[u] = [job |-> m, referred |-> b]
      BY <2>1, <2>3, <2>6, <3>1, <3>2
    <3>4. first'[u] \in [job : Nat, referred : BOOLEAN] /\ first'[u] # NoDeposit
          /\ first'[u].referred = b
      BY <3>3 DEF NoDeposit
    <3> QED BY <2>3, <2>6, <3>1, <3>2, <3>4
  <2> QED BY <2>5, <2>6
\* Another transaction's new commission has another key: it holds another row.
<1>5. ASSUME NEW s \in Txs, s # t
      PROVE  \A e \in tx[s].posts, f \in k.posts : e.key # f.key
  <2>1. tx[s].posts \in SUBSET Commissions /\ Sound(s, tx[s])
    BY DEF Inv, Types, TxType
  <2>2. ASSUME NEW e \in tx[s].posts, NEW f \in k.posts, e.key = f.key
        PROVE  FALSE
    <3>1. Guard(e.job) = Guard(f.job)
      BY <1>3, <2>1, <2>2, SameKeySameGuard
    <3>2. Holds(s, Guard(e.job)) /\ Holds(t, Guard(f.job))
      BY <1>2, <2>1 DEF Sound
    <3> QED BY <1>5, <3>1, <3>2 DEF Holds
  <2> QED BY <2>2
<1>6. ASSUME NEW s \in Txs
      PROVE  Sound(s, tx[s])'
  <2>1. CASE s = t
    BY <1>2, <2>1, EndsIdle
  <2>2. CASE s # t
    <3>1. PICK l : l = tx[s]
      OBVIOUS
    <3>2. /\ tx'[s] = l /\ \A r \in Rows : Holds(s, r) => Holds(s, r)'
          /\ \A e \in l.posts, f \in k.posts : e.key # f.key
      BY <1>2, <1>5, <2>2, <3>1, EndsIdle
    <3>3. Sound(s, l)'
      BY <1>2, <1>4, <3>1, <3>2, KeepsSound
    <3> QED BY <3>2, <3>3
  <2> QED BY <2>1, <2>2
<1>7. \A e, f \in book' : e.key = f.key => e = f
  BY <1>2 DEF Inv, Sound
<1>8. ASSUME NEW u \in Users, first'[u] = NoDeposit, NEW j \in done'
      PROVE  ~OfUser(j, u)
  BY <1>2, <1>4, <1>8 DEF Inv
<1>9. ASSUME NEW u \in Users, first'[u].referred
      PROVE  \E e \in book' : e.kind = "deposit" /\ e.buyer = u
  <2>1. CASE first'[u] = first[u]
    BY <1>2, <1>9, <2>1 DEF Inv, CommissionDue
  <2>2. CASE first'[u] # first[u]
    <3>1. PICK j \in k.now \ done : OfUser(j, u)
      BY <1>4, <2>2
    <3>2. Settled(t, k, u) /\ first[u] = NoDeposit /\ referred_by[u] # None
      BY <1>2, <1>4, <1>9, <2>2, <3>1 DEF Sound
    <3> QED BY <1>2, <3>2 DEF Settled, Keyed
  <2> QED BY <2>1, <2>2
<1>10. Types'
  <2>1. done' \in SUBSET Jobs /\ book' \in SUBSET Commissions
    BY <1>2, <1>3 DEF Inv, Types
  <2>2. first' \in [Users -> [job : Nat, referred : BOOLEAN]]
    <3>1. \A u \in Users : FirstDeposit(t, u) = first'[u]
      BY <1>2
    <3> QED BY <1>2, <1>4, <3>1
  <2>3. /\ referred_by' \in [Users -> Users \cup {None}]
        /\ ready' \in SUBSET Jobs /\ IsFiniteSet(ready')
    BY <1>2 DEF Inv, Types
  <2> QED BY <1>2, <2>1, <2>2, <2>3, EndsIdle DEF Types, TxType
<1> QED BY <1>6, <1>7, <1>8, <1>9, <1>10 DEF Inv, CommissionDue

------------------------------------------------------------------------------
LEMMA BeginStep ==
    ASSUME Inv, NEW t \in Txs, Begin(t)
    PROVE  Inv'
<1>1. PICK batch \in Batches(t) \ {<<>>} :
        tx' = [tx EXCEPT ![t] = [Idle EXCEPT !.at = "row", !.todo = batch]]
  BY DEF Begin
<1>2. UNCHANGED <<referred_by, done, book, ready, lock, first>>
  BY DEF Begin
<1>3. /\ IsFiniteSet(Unpaid) /\ Unpaid \subseteq Jobs
      /\ IsFiniteSet(Open) /\ Open \subseteq Jobs
  <2>1. IsFiniteSet(ready) /\ ready \subseteq Jobs
    BY DEF Inv, Types
  <2>2. Unpaid \subseteq ready /\ Open \subseteq ready
    BY DEF Unpaid, Open
  <2> QED BY <2>1, <2>2, FS_Subset
<1>4. ASSUME NEW S, S \subseteq Jobs, IsFiniteSet(S), NEW q \in SetToSeqs(S)
      PROVE  q \in Seq(Jobs)
  <2>1. Cardinality(S) \in Nat
    BY <1>4, FS_CardinalityType
  <2>2. q \in [1..Cardinality(S) -> S]
    BY <1>4 DEF SetToSeqs
  <2> QED BY <1>4, <2>1, <2>2
<1>5. batch \in Seq(Jobs)
  <2>1. t \in Webhooks \/ t \in Taps \/ t = Reconcile \/ t = Sync
    BY DEF Txs
  <2>2. \/ \E j \in Unpaid \cup Open : batch = <<j>>
        \/ batch \in SetToSeqs(Unpaid) \/ batch \in SetToSeqs(Open)
    BY <1>1, <2>1 DEF Batches
  <2>3. \A j \in Jobs : <<j>> \in Seq(Jobs)
    OBVIOUS
  <2> QED BY <1>3, <1>4, <2>2, <2>3
<1>6. PICK l : l = [Idle EXCEPT !.at = "row", !.todo = batch]
  OBVIOUS
<1>7. /\ l \in TxType /\ l.at = "row" /\ l.todo = batch /\ l.now = {} /\ l.posts = {}
  <2>1. Idle \in TxType /\ Idle.now = {} /\ Idle.posts = {}
    BY IdleTyped DEF Idle
  <2> QED BY <1>5, <1>6, <2>1 DEF TxType
<1>8. Sound(t, l)'
  BY <1>1, <1>7 DEF Sound
<1>9. HoldsKept /\ lock' \in [Rows -> Seq(Txs)]
  BY <1>2 DEF HoldsKept, Holds, Inv, Types
<1> QED BY <1>1, <1>2, <1>6, <1>7, <1>8, <1>9, OneGoesOn

\* Nothing happens to any transaction's record.
LEMMA OthersGoOn ==
    ASSUME Inv, UNCHANGED <<done, book, tx, first>>, HoldsKept,
           lock' \in [Rows -> Seq(Txs)], ready' \in SUBSET Jobs, IsFiniteSet(ready'),
           referred_by' \in [Users -> Users \cup {None}],
           \A s \in Txs, u \in Users : Holds(s, u) => referred_by'[u] = referred_by[u]
    PROVE  Inv'
<1>1. Types'
  BY DEF Inv, Types, TxType
<1>2. ASSUME NEW s \in Txs
      PROVE  Sound(s, tx[s])'
  <2>1. PICK k : k = tx[s]
    OBVIOUS
  <2>2. Sound(s, k)'
    BY <2>1, StaysSound
  <2> QED BY <2>1, <2>2
<1> QED BY <1>1, <1>2 DEF Inv, CommissionDue

LEMMA WaitStep ==
    ASSUME Inv, NEW t \in Txs, Wait(t)
    PROVE  Inv'
<1>1. PICK r : lock[r] # <<>> /\ r \in Wanted(t) /\ lock' = [lock EXCEPT ![r] = Append(lock[r], t)]
  BY DEF Wait
<1>2. lock \in [Rows -> Seq(Txs)]
  BY DEF Inv, Types
<1>3. r \in Rows => /\ Append(lock[r], t) \in Seq(Txs) /\ Append(lock[r], t) # <<>>
                     /\ Append(lock[r], t)[1] = lock[r][1]
  BY <1>1, <1>2
<1>4. lock' \in [Rows -> Seq(Txs)] /\ HoldsKept
  BY <1>1, <1>2, <1>3 DEF HoldsKept, Holds
<1>5. UNCHANGED <<referred_by, done, book, ready, tx, first>>
  BY DEF Wait
<1>6. referred_by \in [Users -> Users \cup {None}] /\ ready \in SUBSET Jobs /\ IsFiniteSet(ready)
  BY DEF Inv, Types
<1> QED BY <1>4, <1>5, <1>6, OthersGoOn

LEMMA VisitStep ==
    ASSUME Inv, NEW v \in Visits, LoadVisitor(v) \/ StartHit(v)
    PROVE  Inv'
<1>1. v[1] \in Users /\ v[2] \in Users
  BY ReferralsAssumption DEF ReferralsAssumption
<1>2. UNCHANGED <<done, book, ready, lock, tx, first>>
  BY DEF LoadVisitor, StartHit
<1>3. HoldsKept /\ lock' \in [Rows -> Seq(Txs)] /\ ready' \in SUBSET Jobs /\ IsFiniteSet(ready')
      /\ referred_by \in [Users -> Users \cup {None}]
  BY <1>2 DEF HoldsKept, Holds, Inv, Types
<1>4. CASE UNCHANGED referred_by
  BY <1>2, <1>3, <1>4, OthersGoOn
<1>5. CASE lock[v[1]] = <<>> /\ referred_by' = [referred_by EXCEPT ![v[1]] = v[2]]
  <2>1. \A s \in Txs, u \in Users : Holds(s, u) => referred_by'[u] = referred_by[u]
    BY <1>3, <1>5 DEF Holds
  <2>2. referred_by' \in [Users -> Users \cup {None}]
    BY <1>1, <1>3, <1>5
  <2> QED BY <1>2, <1>3, <2>1, <2>2, OthersGoOn
<1> QED BY <1>4, <1>5 DEF LoadVisitor, StartHit

LEMMA ReportStep ==
    ASSUME Inv, NEW j \in Jobs, Report(j)
    PROVE  Inv'
<1>1. UNCHANGED <<referred_by, done, book, lock, tx, first>> /\ ready' = ready \cup {j}
  BY DEF Report
<1>2. /\ HoldsKept /\ lock' \in [Rows -> Seq(Txs)] /\ ready' \in SUBSET Jobs
      /\ referred_by' \in [Users -> Users \cup {None}]
  BY <1>1 DEF HoldsKept, Holds, Inv, Types
<1>3. IsFiniteSet(ready')
  BY <1>1, FS_AddElement DEF Inv, Types
<1> QED BY <1>1, <1>2, <1>3, OthersGoOn

LEMMA StepKeepsInv == Inv /\ [Next]_vars => Inv'
<1> SUFFICES ASSUME Inv, [Next]_vars
             PROVE  Inv'
  OBVIOUS
<1>1. ASSUME NEW t \in Txs, Begin(t) \/ Work(t) \/ Victim(t) \/ Abort(t)
      PROVE  Inv'
  BY <1>1, BeginStep, WaitStep, JobStep, BuyerStep, ReferrerStep, CommitStep, BackStep
     DEF Work, Victim, Abort
<1>2. CASE UNCHANGED vars
  BY <1>2, OthersGoOn DEF vars, HoldsKept, Holds, Inv, Types
<1> QED BY <1>1, <1>2, VisitStep, ReportStep DEF Next

\* The invariant holds in every reachable state (referrals.py, payments/service.py,
\* workers.py).
THEOREM Invariance == Spec => []Inv
BY InitInv, StepKeepsInv, PTL DEF Spec

\* A buyer's deposits earn one commission and an order earns one, however many
\* transactions settle them and whoever is attributed meanwhile (referrals.py:206, 246).
THEOREM CommissionOnce == Spec => []OneCommission
<1>1. ASSUME Inv, NEW e \in book, NEW f \in book,
             IF e.kind = "deposit" THEN f.kind = "deposit" /\ f.buyer = e.buyer ELSE f.job = e.job
      PROVE  e = f
  <2>1. e \in Commissions /\ f \in Commissions
    BY <1>1 DEF Inv, Types
  <2>2. e.key = f.key
    BY <1>1, <2>1, CommissionFields DEF KeyOf
  <2> QED BY <1>1, <2>2 DEF Inv
<1>2. Inv => OneCommission
  BY <1>1 DEF OneCommission
<1> QED BY <1>2, Invariance, PTL

\* Whoever had a referrer when the first deposit was credited has earned the commission
\* (referrals.py:227-265).
THEOREM CommissionNotLost == Spec => []CommissionDue
<1>1. Inv => CommissionDue
  BY DEF Inv
<1> QED BY <1>1, Invariance, PTL
==============================================================================
