-------------------------------- MODULE Market --------------------------------
(***************************************************************************)
(* The money of the second generation: app/wallet/ledger.py and the        *)
(* transactions that call it.  A payment webhook, an admin's adjustment    *)
(* and an order each run in a database session of their own, which ends in *)
(* a commit or a rollback; what a session has flushed is seen by nobody    *)
(* else before.  The ledger looks a key up BEFORE it locks the wallet, and *)
(* two deliveries of one payment may both find it unverified.              *)
(***************************************************************************)
EXTENDS Integers, FiniteSets, FiniteSetsExt

CONSTANTS Users,
          Payments,  \* payment ids
          Sessions,  \* database sessions open at the same time
          Amounts,   \* of payments, orders and adjustments
          MaxOpened  \* bound: sessions opened

VARIABLES balance, \* wallets.balance, committed
          entry,   \* wallet_transactions, committed
          payment, \* the payments table, committed (a deposit commits at once)
          lock,    \* the session that holds each wallet's row
          session,
          opened

vars == <<balance, entry, payment, lock, session, opened>>

None == "none"
Absent == [u |-> None, amount |-> 0, provider |-> None, status |-> "absent", verified |-> FALSE]

\* op: what the session does; p: the payment of a webhook; sum: signed; key: of its
\* ledger entry; at: where it is; wrote: the entries it has flushed.
Closed == [op |-> "none", p |-> None, u |-> None, sum |-> 0, key |-> <<>>, at |-> "closed",
           read |-> 0, wrote |-> {}]

Init ==
    /\ balance = [u \in Users |-> 0]
    /\ entry = {}
    /\ payment = [p \in Payments |-> Absent]
    /\ lock = [u \in Users |-> None]
    /\ session = [s \in Sessions |-> Closed]
    /\ opened = 0

\* The Mini App's create_deposit.
CreateDeposit(u, p, amount) ==
    /\ payment[p] = Absent
    /\ \E provider \in {"razorpay", "stripe"} :
         payment' = [payment EXCEPT ![p] = [u |-> u, amount |-> amount, provider |-> provider,
                                            status |-> "pending", verified |-> FALSE]]
    /\ UNCHANGED <<balance, entry, lock, session, opened>>

------------------------------------------------------------------------------
\* Sessions begin.

Opens(s, new) ==
    /\ session[s] = Closed /\ opened < MaxOpened
    /\ opened' = opened + 1
    /\ session' = [session EXCEPT ![s] = new]
    /\ UNCHANGED <<balance, entry, payment, lock>>

DepositKeyOfEvent(s, p) == <<"deposit", p, opened>>

DepositKey(s, p) == <<"deposit", p>>

\* A captured event, delivered once, again, or while another delivery is being handled.
\* The payment is loaded without a lock.  One that is verified, or a wrong amount, is
\* an error: the session closes with nothing done, as if it had never been opened.  So
\* it does for an event that is no capture; Stripe's failures name no payment.
Webhook(s, p, provider) ==
    /\ payment[p].provider = provider /\ ~payment[p].verified
    /\ Opens(s, [Closed EXCEPT !.op = "webhook", !.p = p, !.u = payment[p].u,
                               !.sum = payment[p].amount, !.key = DepositKey(s, p),
                               !.at = "look"])

Razorpay(s, p) == Webhook(s, p, "razorpay")
Stripe(s, p) == Webhook(s, p, "stripe")

\* Each adjustment of the admin bot has a random key.
Adjust(s, u, sum) ==
    Opens(s, [Closed EXCEPT !.op = "adjust", !.u = u, !.sum = sum,
                            !.key = <<"uuid", opened>>, !.at = "look"])

\* Every order of one request has that request's key.
Order(s, u, price) ==
    Opens(s, [Closed EXCEPT !.op = "order", !.u = u, !.sum = -price,
                            !.key = <<"order_debit", u>>, !.at = "look"])

------------------------------------------------------------------------------
\* The ledger: _execute_transaction.

Keys(entries) == {e.key : e \in entries}

\* A key that is known is a replay: the balance is left alone and the caller goes on.
\* Of an order that would be the debit of an order that exists, and none does.
Look(s) ==
    /\ session[s].at = "look"
    /\ session' = [session EXCEPT ![s].at =
                     IF session[s].key \in Keys(entry) THEN "verify" ELSE "lock"]
    /\ UNCHANGED <<balance, entry, payment, lock, opened>>

\* SELECT ... FOR UPDATE: waits for the lock, then reads what is committed now.
LockWallet(s) ==
    /\ session[s].at = "lock" /\ lock[session[s].u] = None
    /\ lock' = [lock EXCEPT ![session[s].u] = s]
    /\ session' = [session EXCEPT ![s].at = "write", ![s].read = balance[session[s].u]]
    /\ UNCHANGED <<balance, entry, payment, opened>>

\* The balance covers a debit and the key is still free (its column is unique).
Accepted(s) ==
    /\ session[s].read + session[s].sum >= 0
    /\ session[s].key \notin Keys(entry)

Write(s) ==
    /\ session[s].at = "write" /\ Accepted(s)
    /\ session' = [session EXCEPT
         ![s].at = IF session[s].op = "order" THEN "submit" ELSE "verify",
         ![s].wrote = {[key |-> session[s].key, u |-> session[s].u, sum |-> session[s].sum]}]
    /\ UNCHANGED <<balance, entry, payment, lock, opened>>

\* registry.create_order takes an OrderRequest and is called with keywords, so every
\* submission fails: the price is credited back in the same session and OrderError is
\* raised past the route's commit.  What is left to such a session is its rollback: the
\* debit, the order and the credit are undone together, and no order is ever stored.
Submit(s) ==
    /\ session[s].at = "submit"
    /\ session' = [session EXCEPT ![s].at = "raise",
         ![s].wrote = @ \cup {[key |-> <<"order_refund", session[s].key[2]>>,
                               u |-> session[s].u, sum |-> -session[s].sum]}]
    /\ UNCHANGED <<balance, entry, payment, lock, opened>>

------------------------------------------------------------------------------
\* Sessions end.

Released(s) == [u \in Users |-> IF lock[u] = s THEN None ELSE lock[u]]

\* A rollback: InsufficientBalanceError, the IntegrityError of a key that another
\* session has committed meanwhile, a lost connection, or a process that dies.
Rollback(s) ==
    /\ session[s] # Closed
    /\ session' = [session EXCEPT ![s] = Closed]
    /\ lock' = Released(s)
    /\ UNCHANGED <<balance, entry, payment, opened>>

\* A webhook marks its payment and flushes; then the caller commits.
Commit(s) ==
    /\ session[s].at = "verify"
    /\ payment' = IF session[s].op # "webhook" THEN payment
                  ELSE [payment EXCEPT ![session[s].p].status = "verified",
                                       ![session[s].p].verified = TRUE]
    /\ entry' = entry \cup session[s].wrote
    /\ balance' = IF session[s].wrote = {} THEN balance
                  ELSE [balance EXCEPT ![session[s].u] = session[s].read + session[s].sum]
    /\ session' = [session EXCEPT ![s] = Closed]
    /\ lock' = Released(s)
    /\ UNCHANGED opened

Next ==
    \/ \E u \in Users, p \in Payments, amount \in Amounts : CreateDeposit(u, p, amount)
    \/ \E s \in Sessions :
         \/ \E p \in Payments : Razorpay(s, p) \/ Stripe(s, p)
         \/ \E u \in Users, amount \in Amounts :
              Adjust(s, u, amount) \/ Adjust(s, u, -amount) \/ Order(s, u, amount)
         \/ Look(s) \/ LockWallet(s) \/ Write(s) \/ Submit(s) \/ Commit(s) \/ Rollback(s)

Spec == Init /\ [][Next]_vars

------------------------------------------------------------------------------
\* Properties

Of(p) == {e \in entry : e.key[1] = "deposit" /\ e.key[2] = p}

\* Whatever sessions overlap, replay or die: a payment is credited exactly when it is
\* verified and never twice, with its amount and to its user, and a balance is the
\* signed sum of its entries and not negative (ledger.py:59-150, adapters.py:136-228,
\* stripe_adapter.py:311-406).
DepositOnce ==
    /\ \A p \in Payments :
         /\ payment[p].verified <=> Of(p) # {}
         /\ Cardinality(Of(p)) <= 1
         /\ \A e \in Of(p) : e.u = payment[p].u /\ e.sum = payment[p].amount
    /\ \A u \in Users : /\ balance[u] = MapThenSumSet(LAMBDA e : e.sum, {e \in entry : e.u = u})
                        /\ balance[u] >= 0
==============================================================================
