------------------------------ MODULE Referrals -------------------------------
(***************************************************************************)
(* app/referrals.py at work: /start links attribute a user to a referrer;  *)
(* deposits settled by webhooks or by the reconcile worker, and orders     *)
(* completed under the order-sync worker or a customer's "refresh", post   *)
(* commissions to the referrer's wallet.                                   *)
(*                                                                         *)
(* Each of these is one database transaction that locks the rows it        *)
(* touches, one after the other, until it ends: the payment or order, the  *)
(* buyer, the referrer.  A worker's batch is a single transaction.  Users  *)
(* may have referred each other, so transactions can wait in a circle; the *)
(* database then aborts one, which loses all its work.                     *)
(***************************************************************************)
EXTENDS Naturals, FiniteSets, SequencesExt

CONSTANTS Users, None,
          Jobs,        \* what must be recorded once, in id order
          Kind,        \* "deposit", "completed" or "refund" (an order that was canceled)
          Buyer,       \* whose deposit or order
          Referred,    \* users attributed before the run, and to whom
          Visits,      \* bound: <<visitor, referrer>> of the /start links tapped
          Webhooks, Taps,  \* requests: one gateway event, one "refresh" tap
          Reconcile, Sync, \* the workers
          OrderCap,    \* REFERRAL_ORDER_CAP
          MaxChances   \* bound: requests begun and connections lost; a gateway that gets
                       \* no 200 gives up after some tries

ASSUME ReferralsAssumption ==
    /\ Jobs \subseteq Nat \ {0} /\ None \notin Users
    /\ Kind \in [Jobs -> {"deposit", "completed", "refund"}]
    /\ Buyer \in [Jobs -> Users]
    /\ Referred \in [Users -> Users \cup {None}]
    /\ \A v \in Visits : v \in Users \X Users
    /\ OrderCap \in Nat /\ MaxChances \in Nat

Txs == Webhooks \cup Taps \cup {Reconcile, Sync}

VARIABLES referred_by, \* committed
          done,        \* jobs whose payment is paid, or whose order is in its final status
          book,        \* committed commissions
          ready,       \* jobs the gateway or the panel reports
          visit,       \* per link: not tapped, the visitor's row is loaded, over
          lock,        \* row -> the transaction that holds it, then those waiting for it
          tx,          \* transactions
          first,       \* per user: the first deposit committed, and whether they had a
                       \* referrer by then (history)
          chances      \* requests begun and connections lost so far (bounds the run)

vars == <<referred_by, done, book, ready, visit, lock, tx, first, chances>>

Rows == Jobs \cup Users

\* todo: the batch; job: the one being worked on; at: the lock it needs next; to: the
\* referrer its commission goes to.  now, posts: jobs and commissions to be committed.
Idle == [at |-> "idle", todo |-> <<>>, job |-> 0, to |-> None, now |-> {}, posts |-> {}]
NoDeposit == [job |-> 0, referred |-> FALSE]

Init ==
    /\ referred_by = Referred
    /\ done = {} /\ book = {} /\ ready = {}
    /\ visit = [v \in Visits |-> "none"]
    /\ lock = [r \in Rows |-> <<>>]
    /\ tx = [t \in Txs |-> Idle]
    /\ first = [u \in Users |-> NoDeposit]
    /\ chances = 0

------------------------------------------------------------------------------
\* record_start_hit: any user without a referrer gets one, not only new ones, on
\* the row as it was loaded; the UPDATE waits for the row.

LoadVisitor(v) ==
    /\ visit[v] = "none"
    /\ visit' = [visit EXCEPT ![v] =
                   IF v[1] # v[2] /\ referred_by[v[1]] = None THEN "loaded" ELSE "over"]
    /\ UNCHANGED <<referred_by, done, book, ready, lock, tx, first, chances>>

StartHit(v) ==
    /\ visit[v] = "loaded" /\ lock[v[1]] = <<>>
    /\ referred_by' = [referred_by EXCEPT ![v[1]] = v[2]]
    /\ visit' = [visit EXCEPT ![v] = "over"]
    /\ UNCHANGED <<done, book, ready, lock, tx, first, chances>>

------------------------------------------------------------------------------
\* Transactions

\* The gateway has the money, or the panel has finished the order.  The run
\* takes them in id order.
Report(j) ==
    /\ j \notin ready /\ \A k \in Jobs : k < j => k \in ready
    /\ ready' = ready \cup {j}
    /\ UNCHANGED <<referred_by, done, book, visit, lock, tx, first, chances>>

Deposits == {j \in Jobs : Kind[j] = "deposit"}
Orders == Jobs \ Deposits
Unpaid == (ready \cap Deposits) \ done
Open == (ready \cap Orders) \ done

\* What a transaction is about, read without a lock when it begins: one gateway
\* event or order, or the whole batch of a worker, in id order or in that of
\* updated_at.
InIdOrder(q) == IsSorted(q, <)
Batches(t) ==
    CASE t \in Webhooks -> {<<j>> : j \in Unpaid}
      [] t \in Taps -> {<<j>> : j \in Open}
      [] t = Reconcile -> {q \in SetToSeqs(Unpaid) : InIdOrder(q)}
      [] t = Sync -> SetToSeqs(Open)

Begin(t) ==
    /\ tx[t].at = "idle"
    /\ \E batch \in Batches(t) \ {<<>>} :
         tx' = [tx EXCEPT ![t] = [Idle EXCEPT !.at = "row", !.todo = batch]]
    /\ IF t \in Webhooks \cup Taps THEN chances < MaxChances /\ chances' = chances + 1
       ELSE UNCHANGED chances
    /\ UNCHANGED <<referred_by, done, book, ready, visit, lock, first>>

\* The row the transaction needs next.
Wanted(t) ==
    CASE tx[t].at = "row" -> {Head(tx[t].todo)}
      [] tx[t].at = "buyer" -> {Buyer[tx[t].job]}
      [] tx[t].at = "referrer" -> {tx[t].to}
      [] OTHER -> {}
Takes(t, r) ==
    \/ lock[r] = <<>> /\ lock' = [lock EXCEPT ![r] = <<t>>]
    \/ lock[r] # <<>> /\ Head(lock[r]) = t /\ UNCHANGED lock

Wait(t) ==
    /\ \E r \in Wanted(t) :
         /\ lock[r] # <<>> /\ ~Contains(lock[r], t)
         /\ lock' = [lock EXCEPT ![r] = Append(@, t)]
    /\ UNCHANGED <<referred_by, done, book, ready, visit, tx, first, chances>>

\* A job is finished: on to the next one, or to COMMIT.
Advance(t, j, posts) ==
    tx' = [tx EXCEPT ![t] = [tx[t] EXCEPT !.at = IF Len(tx[t].todo) = 1 THEN "end" ELSE "row",
                                          !.todo = Tail(@), !.job = 0, !.to = None,
                                          !.now = @ \cup {j}, !.posts = @ \cup posts]]
Needs(t, j, r, to) ==
    tx' = [tx EXCEPT ![t] = [@ EXCEPT !.at = r, !.job = j, !.to = to]]
Same == UNCHANGED <<referred_by, done, book, ready, visit, first, chances>>

\* credit_order_commission: the order counts among the buyer's first OrderCap
\* completed ones, as far as this transaction sees.
Completed(t, b) == {k \in done \cup tx[t].now : Kind[k] = "completed" /\ Buyer[k] = b}
OrderEarns(t, j) ==
    /\ Kind[j] = "completed" /\ referred_by[Buyer[j]] # None
    /\ Cardinality({k \in Completed(t, Buyer[j]) : k < j}) < OrderCap

\* The payment's locking SELECT or the order's UPDATE.  A webhook sees a payment
\* that was settled meanwhile; a batch or a tap has the status it loaded.
LockJob(t) ==
    /\ tx[t].at = "row"
    /\ LET j == Head(tx[t].todo) IN
         /\ Takes(t, j)
         /\ IF t \in Webhooks /\ j \in done THEN Advance(t, j, {})
            ELSE IF OrderEarns(t, j) THEN Needs(t, j, "referrer", referred_by[Buyer[j]])
            ELSE IF Kind[j] = "completed" THEN Advance(t, j, {})
            ELSE Needs(t, j, "buyer", None)
    /\ Same

\* credit_deposit_commission: the payment's own "paid" is not flushed yet, so the
\* count is that of the buyer's other paid ones.
Made(t, b) == Cardinality({k \in ready : Kind[k] = "deposit" /\ Buyer[k] = b})
PaidCount(t, b) ==
    Cardinality({k \in done \cup tx[t].now : Kind[k] = "deposit" /\ Buyer[k] = b})
DepositEarns(t, j) ==
    /\ Kind[j] = "deposit" /\ referred_by[Buyer[j]] # None
    /\ PaidCount(t, Buyer[j]) <= 1

\* wallet.credit to the buyer; the row is read again under its lock.
LockBuyer(t) ==
    LET j == tx[t].job IN
    /\ tx[t].at = "buyer" /\ Takes(t, Buyer[j])
    /\ IF DepositEarns(t, j) THEN Needs(t, j, "referrer", referred_by[Buyer[j]])
       ELSE Advance(t, j, {})
    /\ Same

\* The idempotency key of a commission: a buyer's first deposit, or one order.
KeyPerPayment(j) == <<Kind[j], j>>
KeyOf(j) == IF Kind[j] = "deposit" THEN <<"refdep", Buyer[j]>> ELSE <<"reford", j>>
Commission(j, to) == [key |-> KeyOf(j), buyer |-> Buyer[j], kind |-> Kind[j], job |-> j, to |-> to]

\* wallet.credit to the referrer, unless the key exists.
LockReferrer(t) ==
    LET j == tx[t].job IN
    /\ tx[t].at = "referrer" /\ Takes(t, tx[t].to)
    /\ IF \E e \in book \cup tx[t].posts : e.key = KeyOf(j) THEN Advance(t, j, {})
       ELSE Advance(t, j, {Commission(j, tx[t].to)})
    /\ Same

KeepsLocks(t) == lock
Unlocked(t) == [r \in Rows |-> RemoveFirst(lock[r], t)]

FirstDeposit(t, u) ==
    LET js == {j \in tx[t].now \ done : Kind[j] = "deposit" /\ Buyer[j] = u} IN
    IF first[u] # NoDeposit \/ js = {} THEN first[u]
    ELSE [job |-> Min(js), referred |-> referred_by[u] # None]

Commit(t) ==
    /\ tx[t].at = "end"
    /\ done' = done \cup tx[t].now
    /\ book' = book \cup tx[t].posts
    /\ first' = [u \in Users |-> FirstDeposit(t, u)]
    /\ lock' = Unlocked(t)
    /\ tx' = [tx EXCEPT ![t] = Idle]
    /\ UNCHANGED <<referred_by, ready, visit, chances>>

RolledBack(t) ==
    /\ lock' = Unlocked(t)
    /\ tx' = [tx EXCEPT ![t] = Idle]
    /\ UNCHANGED <<referred_by, done, book, ready, visit, first>>

\* Transactions that wait for each other in a circle.  The database aborts one of
\* them: the session rolls back; a worker tries again in its next round, and a
\* webhook answers 500, so the gateway sends it again.
Waiting(t, r) == Contains(lock[r], t) /\ Head(lock[r]) # t
Blockers(t) == {Head(lock[r]) : r \in {r \in Wanted(t) : Waiting(t, r)}}
Circle(S) == UNION {Blockers(t) : t \in S} = S
Deadlocked(t) == \E S \in SUBSET Txs : t \in S /\ Circle(S)

Victim(t) == Deadlocked(t) /\ RolledBack(t) /\ UNCHANGED chances

\* The process dies or its connection is lost.
Abort(t) ==
    /\ tx[t].at # "idle" /\ chances < MaxChances
    /\ RolledBack(t)
    /\ chances' = chances + 1

Work(t) == Wait(t) \/ LockJob(t) \/ LockBuyer(t) \/ LockReferrer(t) \/ Commit(t)

Next ==
    \/ \E v \in Visits : LoadVisitor(v) \/ StartHit(v)
    \/ \E j \in Jobs : Report(j)
    \/ \E t \in Txs : Begin(t) \/ Work(t) \/ Victim(t) \/ Abort(t)

Spec == Init /\ [][Next]_vars

\* Fairness.  The workers come round again and again; a transaction
\* that can go on does; a deadlock is detected.  Webhooks and taps may never come.
Fairness ==
    /\ \A t \in {Reconcile, Sync} : WF_vars(Begin(t))
    /\ \A t \in Txs : WF_vars(Work(t)) /\ WF_vars(Victim(t))

FairSpec == Spec /\ Fairness

------------------------------------------------------------------------------
\* Properties

\* However a payment is settled, with which referrer attributed meanwhile, and by
\* how many transactions, a buyer's deposits earn one commission at most and an
\* order earns one at most (referrals.py:206, 246).
OneCommission ==
    \A e, f \in book :
        (IF e.kind = "deposit" THEN f.kind = "deposit" /\ f.buyer = e.buyer ELSE f.job = e.job)
            => e = f

\* A user who had a referrer when the first deposit was credited has earned that
\* commission with it: it is never lost to a race, a rollback or the count of
\* paid payments (referrals.py:227-265).
CommissionDue ==
    \A u \in Users :
        first[u].referred =>
            \E e \in book : e.kind = "deposit" /\ e.buyer = u

\* Whatever is reported is recorded in the end, though batches lose all their work
\* to a deadlock (workers.py:102-124, referrals.py:208, 248).
EventuallyRecorded == \A j \in Jobs : j \in ready ~> j \in done

\* "5% of a referred user's first deposit" (referrals.py:230, promoter.py:48): a
\* later deposit earns nothing.
FirstDepositOnly ==
    \A e \in book : e.kind = "deposit" => e.job = first[e.buyer].job
==============================================================================
