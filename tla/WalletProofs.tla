----------------------------- MODULE WalletProofs ----------------------------
(***************************************************************************)
(* Proofs about Wallet for any number of sessions, keys and amounts.       *)
(*                                                                         *)
(* The argument: only the holder of the row lock has uncommitted postings, *)
(* and what it sees (the committed ledger followed by its own postings) is *)
(* always a legal statement whose closing balances are the balances of its *)
(* User object.  An operation appends one legal posting to what its        *)
(* session sees; a commit makes what its session sees the ledger.          *)
(***************************************************************************)
EXTENDS Wallet, SequenceTheorems, TLAPS

\* The rows session t can see: the committed ones, then its own.
Seen(t) == ledger \o sess[t].added

\* The shape of the state, without the signs of the committed amounts.
Shape ==
    /\ row \in Rows
    /\ ledger \in Seq(Entries)
    /\ lock \in Sessions \cup {None}
    /\ sess \in [Sessions -> [open : BOOLEAN, user : Rows, added : Seq(Entries)]]

\* Only the lock holder, which is open, has uncommitted postings.
OnlyHolderWrites ==
    \A t \in Sessions :
        /\ lock # t => sess[t].added = <<>>
        /\ lock = t => sess[t].open

\* What the lock holder sees is legal and closes with its User object.
HolderSeesLegal ==
    \A t \in Sessions :
        lock = t => /\ History!Legal(Seen(t))
                    /\ sess[t].user = History!Closing(Seen(t))

\* The inductive invariant.
Inv ==
    /\ Shape
    /\ OnlyHolderWrites
    /\ HolderSeesLegal
    /\ History!Legal(ledger)
    /\ row = History!Closing(ledger)

------------------------------------------------------------------------------
\* Appending a posting that legally follows a legal statement, under a key the
\* statement does not hold, gives a legal statement that closes with the posting.
LEMMA AppendLegal ==
    ASSUME NEW h \in Seq(Entries), History!Legal(h),
           NEW e \in Entries, History!Follows(History!Closing(h), e),
           \A i \in 1..Len(h) : h[i].key # e.key
    PROVE  /\ History!Legal(Append(h, e))
           /\ History!Closing(Append(h, e))
                = [balance |-> e.balance, reserved |-> e.reserved]
<1> DEFINE h2 == Append(h, e)
<1>1. /\ Len(h) \in Nat
      /\ Len(h2) = Len(h) + 1
      /\ h2[Len(h) + 1] = e
      /\ \A i \in 1..Len(h) : h2[i] = h[i]
  OBVIOUS
<1> HIDE DEF h2
<1>2. \A i \in 1..(Len(h) + 1) : History!Before(h2, i) = History!Before(h, i)
  BY <1>1 DEF History!Before
<1>3. History!Closing(h2) = [balance |-> e.balance, reserved |-> e.reserved]
  BY <1>1 DEF History!Closing, History!Before
<1>4. \A i \in 1..Len(h2) : History!Follows(History!Before(h2, i), h2[i])
  <2> SUFFICES ASSUME NEW i \in 1..Len(h2)
               PROVE  History!Follows(History!Before(h2, i), h2[i])
    OBVIOUS
  <2>1. CASE i \in 1..Len(h)
    BY <2>1, <1>1, <1>2 DEF History!Legal
  <2>2. CASE i = Len(h) + 1
    BY <2>2, <1>1, <1>2 DEF History!Closing
  <2> QED BY <2>1, <2>2, <1>1
<1>5. \A i, j \in 1..Len(h2) : h2[i].key = h2[j].key => i = j
  BY <1>1 DEF History!Legal
<1> QED BY <1>3, <1>4, <1>5 DEF History!Legal, h2

\* The types of what a session sees, and what it sees after one more posting.
LEMMA SeenAppend ==
    ASSUME NEW s1 \in Seq(Entries), NEW s2 \in Seq(Entries), NEW e \in Entries
    PROVE  /\ s1 \o s2 \in Seq(Entries)
           /\ s1 \o Append(s2, e) = Append(s1 \o s2, e)
<1>1. /\ s1 \o s2 \in Seq(Entries)
      /\ Len(s1 \o s2) = Len(s1) + Len(s2)
      /\ \A i \in 1 .. Len(s1) + Len(s2) :
           (s1 \o s2)[i] = IF i <= Len(s1) THEN s1[i] ELSE s2[i - Len(s1)]
  BY ConcatProperties
<1>2. /\ Append(s2, e) \in Seq(Entries)
      /\ Len(Append(s2, e)) = Len(s2) + 1
      /\ Append(s2, e)[Len(s2) + 1] = e
      /\ \A i \in 1..Len(s2) : Append(s2, e)[i] = s2[i]
  OBVIOUS
<1>3. /\ s1 \o Append(s2, e) \in Seq(Entries)
      /\ Len(s1 \o Append(s2, e)) = Len(s1) + Len(s2) + 1
      /\ \A i \in 1 .. Len(s1) + Len(s2) + 1 :
           (s1 \o Append(s2, e))[i]
             = IF i <= Len(s1) THEN s1[i] ELSE Append(s2, e)[i - Len(s1)]
  BY ConcatProperties, <1>2
<1>4. /\ Append(s1 \o s2, e) \in Seq(Entries)
      /\ Len(Append(s1 \o s2, e)) = Len(s1) + Len(s2) + 1
      /\ Append(s1 \o s2, e)[Len(s1) + Len(s2) + 1] = e
      /\ \A i \in 1..(Len(s1) + Len(s2)) : Append(s1 \o s2, e)[i] = (s1 \o s2)[i]
  BY <1>1
<1>5. Len(s1) \in Nat /\ Len(s2) \in Nat
  OBVIOUS
<1>6. \A i \in 1..(Len(s1) + Len(s2) + 1) :
        (s1 \o Append(s2, e))[i] = Append(s1 \o s2, e)[i]
  <2> SUFFICES ASSUME NEW i \in 1..(Len(s1) + Len(s2) + 1)
               PROVE  (s1 \o Append(s2, e))[i] = Append(s1 \o s2, e)[i]
    OBVIOUS
  <2>1. CASE i <= Len(s1)
    BY <2>1, <1>1, <1>3, <1>4, <1>5
  <2>2. CASE i > Len(s1) /\ i <= Len(s1) + Len(s2)
    <3>1. i - Len(s1) \in 1..Len(s2)
      BY <2>2, <1>5
    <3> QED BY <2>2, <3>1, <1>1, <1>2, <1>3, <1>4, <1>5
  <2>3. CASE i = Len(s1) + Len(s2) + 1
    <3>1. i - Len(s1) = Len(s2) + 1
      BY <2>3, <1>5
    <3> QED BY <2>3, <3>1, <1>2, <1>3, <1>4, <1>5
  <2> QED BY <2>1, <2>2, <2>3, <1>5
<1> QED BY <1>1, <1>3, <1>4, <1>6, SeqEqual
------------------------------------------------------------------------------
\* A session that may take the lock sees a legal statement that closes with the
\* balances lock_user() gives it, and no posting under a key it does not find.
LEMMA LockedView ==
    ASSUME Inv, NEW t \in Sessions, CanLock(t)
    PROVE  /\ Seen(t) \in Seq(Entries)
           /\ History!Legal(Seen(t))
           /\ LockedUser(t) = History!Closing(Seen(t))
           /\ LockedUser(t) \in Rows
           /\ \A k : ~Existing(t, k) => \A i \in 1..Len(Seen(t)) : Seen(t)[i].key # k
<1> USE DEF Inv, Shape
<1>1. ledger \in Seq(Entries) /\ sess[t].added \in Seq(Entries)
  OBVIOUS
<1>2. /\ Seen(t) \in Seq(Entries)
      /\ Len(Seen(t)) = Len(ledger) + Len(sess[t].added)
      /\ \A i \in 1 .. Len(ledger) + Len(sess[t].added) :
           Seen(t)[i] = IF i <= Len(ledger) THEN ledger[i]
                        ELSE sess[t].added[i - Len(ledger)]
  BY <1>1, ConcatProperties DEF Seen
<1>3. History!Legal(Seen(t)) /\ LockedUser(t) = History!Closing(Seen(t))
  <2>1. CASE lock = t
    BY <2>1 DEF HolderSeesLegal, LockedUser
  <2>2. CASE lock # t
    <3>1. sess[t].added = <<>>
      BY <2>2 DEF OnlyHolderWrites
    <3>2. Seen(t) = ledger
      BY <3>1, <1>1, ConcatEmptySeq DEF Seen
    <3> QED BY <2>2, <3>2 DEF LockedUser
  <2> QED BY <2>1, <2>2
<1>4. LockedUser(t) \in Rows
  BY DEF LockedUser
<1>5. ASSUME NEW k, ~Existing(t, k), NEW i \in 1..Len(Seen(t))
      PROVE  Seen(t)[i].key # k
  <2>1. Len(ledger) \in Nat /\ Len(sess[t].added) \in Nat
    BY <1>1
  <2>2. CASE i <= Len(ledger)
    <3>1. i \in 1..Len(ledger) /\ Seen(t)[i] = ledger[i]
      BY <2>1, <2>2, <1>2
    <3>2. ledger[i].key # k
      BY <3>1, <1>5 DEF Existing
    <3> QED BY <3>1, <3>2
  <2>3. CASE i > Len(ledger)
    <3> DEFINE j == i - Len(ledger)
    <3>1. j \in 1..Len(sess[t].added) /\ Seen(t)[i] = sess[t].added[j]
      BY <2>1, <2>3, <1>2
    <3> HIDE DEF j
    <3>2. sess[t].added[j].key # k
      BY <3>1, <1>5 DEF Existing
    <3> QED BY <3>1, <3>2
  <2> QED BY <2>1, <2>2, <2>3, <1>2
<1> QED BY <1>2, <1>3, <1>4, <1>5

\* Posting one legal entry under a new key keeps the invariant.
LEMMA PostKeepsInv ==
    ASSUME Inv, NEW t \in Sessions, NEW e \in Entries, CanLock(t),
           ~Existing(t, e.key), History!Follows(LockedUser(t), e),
           AppendEntry(t, e)
    PROVE  Inv'
<1> DEFINE u == [balance |-> e.balance, reserved |-> e.reserved]
<1> DEFINE added == Append(sess[t].added, e)
<1>1. /\ row' = row /\ ledger' = ledger /\ lock' = t
      /\ sess' = [sess EXCEPT ![t] = [open |-> TRUE, user |-> u, added |-> added]]
  BY DEF AppendEntry
<1>2. /\ sess \in [Sessions -> [open : BOOLEAN, user : Rows, added : Seq(Entries)]]
      /\ ledger \in Seq(Entries)
  BY DEF Inv, Shape
<1>3. u \in Rows
  BY DEF Entries, Rows
<1>4. sess[t].added \in Seq(Entries) /\ added \in Seq(Entries)
  BY <1>2
<1> HIDE DEF u, added
<1>5. /\ sess'[t] = [open |-> TRUE, user |-> u, added |-> added]
      /\ \A s \in Sessions \ {t} : sess'[s] = sess[s]
  BY <1>1, <1>2
<1>6. Shape'
  BY <1>1, <1>2, <1>3, <1>4 DEF Shape, Inv
<1>7. OnlyHolderWrites'
  <2> SUFFICES ASSUME NEW s \in Sessions
               PROVE  /\ lock' # s => sess'[s].added = <<>>
                      /\ lock' = s => sess'[s].open
    BY DEF OnlyHolderWrites
  <2>1. CASE s = t
    BY <2>1, <1>1, <1>5
  <2>2. CASE s # t
    <3>1. lock # s
      BY <2>2, NoneAssumption DEF CanLock
    <3> QED BY <3>1, <2>2, <1>1, <1>5 DEF OnlyHolderWrites, Inv
  <2> QED BY <2>1, <2>2
<1>8. Seen(t)' = Append(Seen(t), e)
  BY <1>1, <1>2, <1>4, <1>5, SeenAppend DEF Seen, added
<1>9. History!Legal(Seen(t)') /\ u = History!Closing(Seen(t)')
  BY <1>8, LockedView, AppendLegal DEF u
<1>10. HolderSeesLegal'
  BY <1>1, <1>5, <1>9 DEF HolderSeesLegal, Seen
<1> QED BY <1>1, <1>6, <1>7, <1>10 DEF Inv

\* Each money operation of wallet.py posts an entry that legally follows the
\* balances it read under the lock.
LEMMA OperationKeepsInv ==
    ASSUME Inv, NEW t \in Sessions, NEW k \in Keys, NEW n \in Amounts,
           Operation(t, k, n)
    PROVE  Inv'
<1> DEFINE u == LockedUser(t)
<1>1. CanLock(t) /\ ~Existing(t, k)
  BY DEF Operation, Credit, Debit, Reserve, Release, Capture
<1>2. u \in Rows /\ u = History!Closing(Seen(t)) /\ n \in Nat /\ n > 0
  BY <1>1, LockedView, AmountsAssumption
<1> HIDE DEF u
<1>3. /\ u.balance \in Nat /\ u.reserved \in Nat
      /\ u.reserved <= u.balance
  <2>1. History!Legal(Seen(t)) /\ Seen(t) \in Seq(Entries)
    BY <1>1, LockedView
  <2>2. CASE Len(Seen(t)) = 0
    BY <1>2, <2>2 DEF History!Closing, History!Before, History!Opening, Rows
  <2>3. CASE Len(Seen(t)) # 0
    <3> DEFINE m == Len(Seen(t))
    <3>1. m \in 1..Len(Seen(t)) /\ m + 1 # 1 /\ (m + 1) - 1 = m
      BY <2>1, <2>3
    <3>2. History!Solvent(Seen(t)[m])
      BY <2>1, <3>1 DEF History!Legal, History!Follows
    <3>3. u = [balance |-> Seen(t)[m].balance, reserved |-> Seen(t)[m].reserved]
      BY <1>2, <3>1 DEF History!Closing, History!Before
    <3> QED BY <1>2, <3>2, <3>3 DEF History!Solvent, Rows
  <2> QED BY <2>2, <2>3
<1>4. ASSUME NEW e, e.key = k, e \in Entries, History!Follows(u, e), AppendEntry(t, e)
      PROVE  Inv'
  BY <1>1, <1>4, PostKeepsInv DEF u
<1> USE <1>2, <1>3 DEF History!Follows, History!Solvent, Entries, Entry
<1>5. CASE Credit(t, k, n)
  <2> DEFINE e == CreditEntry(u, k, n)
  <2>1. AppendEntry(t, e)
    BY <1>5 DEF Credit, u
  <2>2. e.key = k /\ e \in Entries /\ History!Follows(u, e)
    BY DEF CreditEntry
  <2> QED BY <1>4, <2>1, <2>2
<1>6. CASE Debit(t, k, n)
  <2> DEFINE e == DebitEntry(u, k, n)
  <2>1. AppendEntry(t, e) /\ u.balance - u.reserved >= n
    BY <1>6 DEF Debit, Available, u
  <2>2. e.key = k /\ e \in Entries /\ History!Follows(u, e)
    BY <2>1 DEF DebitEntry
  <2> QED BY <1>4, <2>1, <2>2
<1>7. CASE Reserve(t, k, n)
  <2> DEFINE e == ReserveEntry(u, k, n)
  <2>1. AppendEntry(t, e) /\ u.balance - u.reserved >= n
    BY <1>7 DEF Reserve, Available, u
  <2>2. e.key = k /\ e \in Entries /\ History!Follows(u, e)
    BY <2>1 DEF ReserveEntry
  <2> QED BY <1>4, <2>1, <2>2
<1>8. CASE Release(t, k, n)
  <2> DEFINE e == ReleaseEntry(u, k, n)
  <2>1. AppendEntry(t, e)
    BY <1>8 DEF Release, u
  <2>2. e.key = k /\ e \in Entries /\ History!Follows(u, e)
    BY DEF ReleaseEntry, Clipped
  <2> QED BY <1>4, <2>1, <2>2
<1>9. CASE Capture(t, k, n)
  <2> DEFINE e == CaptureEntry(u, k, n)
  <2>1. AppendEntry(t, e) /\ u.reserved >= n
    BY <1>9 DEF Capture, u
  <2>2. e.key = k /\ e \in Entries /\ History!Follows(u, e)
    BY <2>1 DEF CaptureEntry
  <2> QED BY <1>4, <2>1, <2>2
<1> QED BY <1>5, <1>6, <1>7, <1>8, <1>9 DEF Operation

\* COMMIT publishes what the lock holder sees; a session without the lock has
\* nothing to publish.
LEMMA CommitPublishes ==
    ASSUME Inv, NEW t \in Sessions, Commit(t)
    PROVE  /\ ledger' = Seen(t) /\ ledger' \in Seq(Entries)
           /\ History!Legal(ledger')
           /\ row' = History!Closing(ledger') /\ row' \in Rows
           /\ sess[t].added = <<>> => ledger' = ledger
<1> USE DEF Inv, Shape
<1>1. ledger \in Seq(Entries) /\ sess[t].added \in Seq(Entries)
  OBVIOUS
<1>2. ledger' = Seen(t) /\ row' = CommittedRow(t)
  BY DEF Commit, Seen
<1>3. Seen(t) \in Seq(Entries)
  BY <1>1, ConcatProperties DEF Seen
<1>4. CASE sess[t].added = <<>>
  <2>1. Seen(t) = ledger
    BY <1>1, <1>4, ConcatEmptySeq DEF Seen
  <2> QED BY <2>1, <1>2, <1>3, <1>4 DEF CommittedRow
<1>5. CASE sess[t].added # <<>>
  <2>1. lock = t
    BY <1>5 DEF OnlyHolderWrites
  <2> QED BY <2>1, <1>2, <1>3, <1>5 DEF CommittedRow, HolderSeesLegal
<1> QED BY <1>2, <1>3, <1>4, <1>5

\* Every step of a session (wallet.py:127-392, commit, rollback) keeps the invariant.
LEMMA StepKeepsInv == Inv /\ [Next]_vars => Inv'
<1> SUFFICES ASSUME Inv, [Next]_vars
             PROVE  Inv'
  OBVIOUS
<1>1. ASSUME NEW t \in Sessions, Open(t)
      PROVE  Inv'
  <2> DEFINE opened == [open |-> TRUE, user |-> row, added |-> <<>>]
  <2>1. /\ ~sess[t].open /\ lock # t
        /\ row' = row /\ ledger' = ledger /\ lock' = lock
        /\ sess' = [sess EXCEPT ![t] = opened]
    BY <1>1 DEF Open, Inv, OnlyHolderWrites
  <2>2. /\ sess'[t] = opened
        /\ \A s \in Sessions \ {t} : sess'[s] = sess[s]
        /\ Shape'
    BY <2>1 DEF Inv, Shape
  <2>3. OnlyHolderWrites' /\ HolderSeesLegal'
    BY <2>1, <2>2 DEF Inv, OnlyHolderWrites, HolderSeesLegal, Seen
  <2> QED BY <2>1, <2>2, <2>3 DEF Inv
<1>2. ASSUME NEW t \in Sessions, LockUser(t)
      PROVE  Inv'
  <2> DEFINE locked == [open |-> TRUE, user |-> LockedUser(t), added |-> sess[t].added]
  <2>1. /\ CanLock(t)
        /\ row' = row /\ ledger' = ledger /\ lock' = t
        /\ sess' = [sess EXCEPT ![t] = locked]
    BY <1>2 DEF LockUser
  <2>2. LockedUser(t) \in Rows /\ LockedUser(t) = History!Closing(Seen(t))
        /\ History!Legal(Seen(t))
    BY <2>1, LockedView
  <2>3. /\ sess'[t] = locked
        /\ \A s \in Sessions \ {t} : sess'[s] = sess[s] /\ lock # s
        /\ Shape'
    BY <2>1, <2>2, NoneAssumption DEF Inv, Shape, CanLock
  <2>4. Seen(t)' = Seen(t)
    BY <2>1, <2>3 DEF Seen
  <2>5. OnlyHolderWrites'
    BY <2>1, <2>3 DEF Inv, OnlyHolderWrites
  <2>6. HolderSeesLegal'
    BY <2>1, <2>2, <2>3, <2>4 DEF HolderSeesLegal
  <2> QED BY <2>1, <2>3, <2>5, <2>6 DEF Inv
<1>3. ASSUME NEW t \in Sessions, NEW k \in Keys, NEW n \in Amounts, Operation(t, k, n)
      PROVE  Inv'
  BY <1>3, OperationKeepsInv
<1>4. ASSUME NEW t \in Sessions, Commit(t)
      PROVE  Inv'
  <2>1. /\ lock' = Unlocked(t)
        /\ sess' = [sess EXCEPT ![t] = Closed]
    BY <1>4 DEF Commit
  <2>2. /\ ledger' \in Seq(Entries) /\ History!Legal(ledger')
        /\ row' = History!Closing(ledger') /\ row' \in Rows
        /\ sess[t].added = <<>> => ledger' = ledger
    BY <1>4, CommitPublishes
  <2>3. Closed \in [open : BOOLEAN, user : Rows, added : Seq(Entries)]
    BY DEF Closed, NoMoney, Rows
  <2>4. /\ sess'[t] = Closed
        /\ \A s \in Sessions \ {t} : sess'[s] = sess[s]
        /\ lock' # t /\ (lock' = lock \/ lock' = None)
        /\ Shape'
    BY <2>1, <2>2, <2>3, NoneAssumption DEF Inv, Shape, Unlocked
  <2>5. OnlyHolderWrites'
    <3> SUFFICES ASSUME NEW s \in Sessions
                 PROVE  /\ lock' # s => sess'[s].added = <<>>
                        /\ lock' = s => sess'[s].open
      BY DEF OnlyHolderWrites
    <3>1. CASE s = t
      BY <3>1, <2>4 DEF Closed
    <3>2. CASE s # t
      <4>1. sess'[s] = sess[s]
        BY <3>2, <2>4
      <4>2. lock' = s <=> lock = s
        BY <3>2, <2>1, NoneAssumption DEF Unlocked
      <4> QED BY <4>1, <4>2 DEF Inv, OnlyHolderWrites
    <3> QED BY <3>1, <3>2
  <2>6. HolderSeesLegal'
    <3> SUFFICES ASSUME NEW s \in Sessions, lock' = s
                 PROVE  /\ History!Legal(Seen(s)')
                        /\ sess'[s].user = History!Closing(Seen(s)')
      BY DEF HolderSeesLegal
    <3>1. s # t /\ lock = s /\ sess'[s] = sess[s]
      BY <2>4, NoneAssumption
    <3>2. ledger' = ledger
      BY <3>1, <2>2 DEF Inv, OnlyHolderWrites
    <3>3. Seen(s)' = Seen(s)
      BY <3>1, <3>2 DEF Seen
    <3> QED BY <3>1, <3>3 DEF Inv, HolderSeesLegal
  <2> QED BY <2>2, <2>4, <2>5, <2>6 DEF Inv
<1>5. ASSUME NEW t \in Sessions, Rollback(t)
      PROVE  Inv'
  <2>1. /\ lock' = Unlocked(t) /\ row' = row /\ ledger' = ledger
        /\ sess' = [sess EXCEPT ![t] = Closed]
    BY <1>5 DEF Rollback
  <2>2. Closed \in [open : BOOLEAN, user : Rows, added : Seq(Entries)]
    BY DEF Closed, NoMoney, Rows
  <2>3. /\ sess'[t] = Closed
        /\ \A s \in Sessions \ {t} : sess'[s] = sess[s]
        /\ Shape'
    BY <2>1, <2>2, NoneAssumption DEF Inv, Shape, Unlocked
  <2>4. \A s \in Sessions : lock' = s <=> lock = s /\ s # t
    BY <2>1, NoneAssumption DEF Unlocked
  <2>5. OnlyHolderWrites'
    BY <2>3, <2>4 DEF Inv, OnlyHolderWrites, Closed
  <2>6. HolderSeesLegal'
    BY <2>1, <2>3, <2>4 DEF Inv, HolderSeesLegal, Seen
  <2> QED BY <2>1, <2>3, <2>5, <2>6 DEF Inv
<1>6. CASE UNCHANGED vars
  BY <1>6 DEF vars, Inv, Shape, OnlyHolderWrites, HolderSeesLegal, Seen,
              History!Legal, History!Closing
<1> QED BY <1>1, <1>2, <1>3, <1>4, <1>5, <1>6 DEF Next

\* A new users row has no money and no postings (models.User column defaults).
LEMMA InitInv == Init => Inv
<1> SUFFICES ASSUME Init
             PROVE  Inv
  OBVIOUS
<1>1. Shape
  <2>1. NoMoney \in Rows /\ Closed \in [open : BOOLEAN, user : Rows, added : Seq(Entries)]
    BY DEF NoMoney, Rows, Closed
  <2> QED BY <2>1 DEF Init, Shape
<1>2. OnlyHolderWrites /\ HolderSeesLegal
  BY NoneAssumption DEF Init, OnlyHolderWrites, HolderSeesLegal, Closed
<1>3. History!Legal(ledger) /\ row = History!Closing(ledger)
  BY DEF Init, History!Legal, History!Closing, History!Before, History!Opening, NoMoney
<1> QED BY <1>1, <1>2, <1>3 DEF Inv

\* The invariant holds of every behaviour of the sessions (wallet.py:127-392).
THEOREM Invariance == Spec => []Inv
BY InitInv, StepKeepsInv, PTL DEF Spec

\* The types hold, the signs of the committed amounts included (wallet.py:199-392).
THEOREM TypeCorrect == Spec => []TypeOK
<1>1. Inv => TypeOK
  BY DEF Inv, Shape, TypeOK, Signed, History!Legal, History!Follows
<1> QED BY <1>1, Invariance, PTL

\* wallet.py:127-196: with any number of concurrent sessions every committed
\* posting starts from the balances the previous one left, keeps
\* 0 <= reserved <= balance, and no idempotency key is posted twice.
THEOREM LedgerStaysLegal == Spec => []LedgerLegal
<1>1. Inv => LedgerLegal
  BY DEF Inv, LedgerLegal
<1> QED BY <1>1, Invariance, PTL

\* wallet.py:180-183: the cached balances are always those of the last posting.
THEOREM RowAlwaysMatches == Spec => []RowMatchesLedger
<1>1. Inv => RowMatchesLedger
  BY DEF Inv, RowMatchesLedger
<1> QED BY <1>1, Invariance, PTL

\* Locking, stale reads, commits and rollbacks implement the append-only statement
\* (wallet.py:127-196, db.py:68-77).
THEOREM Implements == Spec => ImplementsStatement
<1>1. Init => History!Init
  BY DEF Init, History!Init
<1>2. Inv /\ [Next]_vars => [History!Post]_ledger
  <2> SUFFICES ASSUME Inv, [Next]_vars
               PROVE  History!Post \/ ledger' = ledger
    OBVIOUS
  <2>1. ASSUME NEW t \in Sessions, Commit(t)
        PROVE  History!Post
    <3>1. History!Legal(ledger') /\ ledger' = Seen(t)
      BY <2>1, CommitPublishes
    <3>2. ledger \in Seq(Entries) /\ sess[t].added \in Seq(Entries)
      BY DEF Inv, Shape
    <3>3. /\ Len(ledger') = Len(ledger) + Len(sess[t].added)
          /\ \A i \in 1 .. Len(ledger) + Len(sess[t].added) :
               ledger'[i] = IF i <= Len(ledger) THEN ledger[i]
                            ELSE sess[t].added[i - Len(ledger)]
      BY <3>1, <3>2, ConcatProperties DEF Seen
    <3>4. History!Extends(ledger, ledger')
      BY <3>2, <3>3 DEF History!Extends
    <3> QED BY <3>1, <3>4 DEF History!Post
  <2>2. ASSUME NEW t \in Sessions,
               \/ Open(t) \/ LockUser(t) \/ Rollback(t)
               \/ \E k \in Keys, n \in Amounts : Operation(t, k, n)
        PROVE  ledger' = ledger
    BY <2>2 DEF Open, LockUser, Rollback, Operation, Credit, Debit, Reserve,
                Release, Capture, AppendEntry
  <2>3. CASE UNCHANGED vars
    BY <2>3 DEF vars
  <2> QED BY <2>1, <2>2, <2>3 DEF Next
<1> QED BY <1>1, <1>2, Invariance, PTL DEF Spec, ImplementsStatement, History!Spec
==============================================================================
