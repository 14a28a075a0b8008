------------------------------ MODULE Payments -------------------------------
(***************************************************************************)
(* app/payments/service.py with api/webhooks.py, payments/razorpay.py and  *)
(* the reconcile worker: deposits through a payment gateway that keeps its *)
(* own link per invoice, tells us by webhooks (lost, repeated, reordered)  *)
(* and answers status lookups; or through an operator (method "manual").   *)
(*                                                                         *)
(* Every handler is a database transaction.  A lookup at the gateway comes *)
(* after an unlocked read of the Payment row, and settle_payment's locking *)
(* SELECT does not refresh a row the session has loaded already: what it   *)
(* decides on is the status seen before the lookup.  The ledger's deposit  *)
(* key is checked under the user's row lock.                               *)
(***************************************************************************)
EXTENDS Naturals, FiniteSets

CONSTANTS MaxInvoices,  \* bound: payments ids handed out by the sequence
          Sessions, Keys, None,
          Method,       \* payment method of each invoice: "razorpay" or "manual"
          Limit,        \* reconcile_pending's limit
          Faults        \* which of {"short", "late", "refund", "aging", "crash"} happen

Invoices == 1..MaxInvoices

ASSUME PaymentsAssumption ==
    /\ MaxInvoices \in Nat
    /\ None \notin Keys
    /\ Method \in [Invoices -> {"razorpay", "manual"}]
    /\ Limit \in Nat

VARIABLES payment,  \* payments rows: status and idempotency key
          nextId,   \* the next payments.id
          deposits, \* ledger entries with the invoice's "deposit" key
          events,   \* payment_events: <<invoice, kind>> of the processed webhooks
          link,     \* the gateway's view of each invoice's payment link
          sent,     \* webhooks the gateway has emitted and may deliver again
          aged,     \* invoices created more than max_age_hours ago
          sess      \* what each session is doing

vars == <<payment, nextId, deposits, events, link, sent, aged, sess>>

Kinds == {"paid", "expired", "attention"}
Idle == [at |-> "idle", p |-> 0, key |-> None, seen |-> "none", answer |-> "none"]

Init ==
    /\ payment = [p \in Invoices |-> [status |-> "none", key |-> None]]
    /\ nextId = 1
    /\ deposits = [p \in Invoices |-> 0]
    /\ events = {}
    /\ link = [p \in Invoices |-> "none"]
    /\ sent = {}
    /\ aged = {}
    /\ sess = [s \in Sessions |-> Idle]

Enter(s, r) == sess' = [sess EXCEPT ![s] = r]
Finish(s) == Enter(s, Idle)
Online(p) == Method[p] = "razorpay"

------------------------------------------------------------------------------
\* create_deposit

\* The key is new: no committed row has it and no open transaction inserted it
\* (a second INSERT would wait for the first and end in an IntegrityError; a
\* key of a committed row gets that row back and changes nothing).
KeyFree(k) ==
    /\ \A p \in Invoices : payment[p].key # k
    /\ \A s \in Sessions : sess[s].key # k

CreateInsert(s, k) ==
    /\ sess[s].at = "idle" /\ nextId \in Invoices /\ KeyFree(k)
    /\ nextId' = nextId + 1
    /\ Enter(s, [Idle EXCEPT !.at = IF Online(nextId) THEN "inserted" ELSE "shown",
                             !.p = nextId, !.key = k])
    /\ UNCHANGED <<payment, deposits, events, link, sent, aged>>

\* The gateway opens a link; the bot shows it before its middleware commits.
CreateCheckout(s) ==
    /\ sess[s].at = "inserted"
    /\ link' = [link EXCEPT ![sess[s].p] = "open"]
    /\ Enter(s, [sess[s] EXCEPT !.at = "shown"])
    /\ UNCHANGED <<payment, nextId, deposits, events, sent, aged>>

\* GatewayError: the row is deleted again.
CreateFails(s) ==
    /\ sess[s].at = "inserted"
    /\ Finish(s)
    /\ UNCHANGED <<payment, nextId, deposits, events, link, sent, aged>>

CreateCommit(s) ==
    /\ sess[s].at = "shown"
    /\ payment' = [payment EXCEPT ![sess[s].p] = [status |-> "pending", key |-> sess[s].key]]
    /\ Finish(s)
    /\ UNCHANGED <<nextId, deposits, events, link, sent, aged>>

------------------------------------------------------------------------------
\* The gateway, and a customer who pays off-platform for a manual invoice.

LinkMoves(p, from, to, kinds) ==
    /\ link[p] = from
    /\ link' = [link EXCEPT ![p] = to]
    /\ sent' = sent \cup ({p} \X kinds)
    /\ UNCHANGED <<payment, nextId, deposits, events, aged, sess>>

Gateway(p) ==
    /\ Online(p)
    /\ \/ LinkMoves(p, "open", "paid", {"paid"})
       \/ LinkMoves(p, "open", "expired", {"expired"})
       \/ "short" \in Faults /\ LinkMoves(p, "open", "short", {"paid"})
       \/ "late" \in Faults /\ LinkMoves(p, "expired", "paid", {"paid"})
       \/ "refund" \in Faults /\ LinkMoves(p, "paid", "refunded", {"attention"})

PaidByHand(p) ==
    /\ ~Online(p) /\ payment[p].status = "pending"
    /\ LinkMoves(p, "none", "paid", {})

\* More than max_age_hours have gone by since create_deposit.
AgeOut(p) ==
    /\ "aging" \in Faults /\ payment[p].status # "none" /\ p \notin aged
    /\ aged' = aged \cup {p}
    /\ UNCHANGED <<payment, nextId, deposits, events, link, sent, sess>>

------------------------------------------------------------------------------
\* settle_payment, from its locking SELECT to COMMIT, for a session whose copy
\* of the row says status seen and whose source says what was paid.

Accepted(amount) == amount \in {"paid", "short"}
Exact(amount) == amount = "paid"
SettledUnchecked(seen, amount) == "paid"
SettledStatus(seen, amount) ==
    IF seen = "paid" THEN "paid" ELSE IF Exact(amount) THEN "paid" ELSE "review"

\* wallet.credit under the deposit key: once.
Deposited(p) == 1

\* An UPDATE is sent only when the status differs from the one loaded.
Settle(p, seen, amount) ==
    /\ payment' = IF SettledStatus(seen, amount) = seen THEN payment
                  ELSE [payment EXCEPT ![p].status = SettledStatus(seen, amount)]
    /\ deposits' = IF seen # "paid" /\ Exact(amount)
                   THEN [deposits EXCEPT ![p] = Deposited(p)] ELSE deposits

------------------------------------------------------------------------------
\* handle_webhook_event.  The event row is unique and committed with its effect,
\* so a repeated delivery does nothing; a failed transaction leaves no event row.

Received(p, kind) ==
    /\ <<p, kind>> \in sent \ events
    /\ events' = events \cup {<<p, kind>>}
    /\ UNCHANGED <<nextId, link, sent, aged, sess>>

WebhookPaid(p) ==
    /\ Received(p, "paid")
    /\ payment[p].status # "none"
    /\ Settle(p, payment[p].status, IF link[p] = "short" THEN "short" ELSE "paid")

WebhookExpired(p) ==
    /\ Received(p, "expired")
    /\ payment[p].status = "pending"
    /\ payment' = [payment EXCEPT ![p].status = "expired"]
    /\ UNCHANGED deposits

\* unknown_payment, an expiry too late to matter, refunds and disputes (audited).
WebhookIgnored(p, kind) ==
    /\ Received(p, kind)
    /\ \/ kind = "attention"
       \/ kind = "paid" /\ payment[p].status = "none"
       \/ kind = "expired" /\ payment[p].status # "pending"
    /\ UNCHANGED <<payment, deposits>>

------------------------------------------------------------------------------
\* check_payment ("I have paid") and reconcile_pending: read, ask, decide.

PendingOnly(p) == payment[p].status = "pending" /\ Online(p) /\ p \notin aged
Reconcilable(p) == payment[p].status \in {"pending", "expired"} /\ Online(p) /\ p \notin aged

\* The worker's batch: the oldest Limit such invoices.
InBatch(p) ==
    /\ Reconcilable(p)
    /\ Cardinality({q \in Invoices : q < p /\ Reconcilable(q)}) < Limit

Checkable(p) == Online(p) /\ payment[p].status \notin {"none", "paid"}

Load(s, p) ==
    /\ sess[s].at = "idle" /\ (InBatch(p) \/ Checkable(p))
    /\ Enter(s, [Idle EXCEPT !.at = "loaded", !.p = p, !.seen = payment[p].status])
    /\ UNCHANGED <<payment, nextId, deposits, events, link, sent, aged>>

\* fetch_status: a refunded link still reports "paid"; "pending" changes nothing.
Reported(p) ==
    CASE link[p] \in {"paid", "refunded"} -> "paid"
      [] link[p] = "short" -> "short"
      [] link[p] = "expired" -> "expired"
      [] OTHER -> "none"

Lookup(s) ==
    /\ sess[s].at = "loaded" /\ Online(sess[s].p)
    /\ IF Reported(sess[s].p) = "none" THEN Finish(s)
       ELSE Enter(s, [sess[s] EXCEPT !.at = "answered", !.answer = Reported(sess[s].p)])
    /\ UNCHANGED <<payment, nextId, deposits, events, link, sent, aged>>

\* GatewayError, or the process dies: nothing was written.
LookupFails(s) ==
    /\ sess[s].at = "loaded" /\ Online(sess[s].p)
    /\ Finish(s)
    /\ UNCHANGED <<payment, nextId, deposits, events, link, sent, aged>>

LookupSettles(s) ==
    /\ sess[s].at = "answered" /\ sess[s].answer \in {"paid", "short"}
    /\ Settle(sess[s].p, sess[s].seen, sess[s].answer)
    /\ Finish(s)
    /\ UNCHANGED <<nextId, events, link, sent, aged>>

LookupExpires(s) ==
    /\ sess[s].at = "answered" /\ sess[s].answer = "expired"
    /\ payment' = IF sess[s].seen = "pending"
                  THEN [payment EXCEPT ![sess[s].p].status = "expired"] ELSE payment
    /\ Finish(s)
    /\ UNCHANGED <<nextId, deposits, events, link, sent, aged>>

------------------------------------------------------------------------------
\* manual_confirm, by an operator who saw the money; the CLI and /confirmpay
\* load the row first and refuse invoices of another method.
ConfirmLoad(s, p) ==
    /\ sess[s].at = "idle" /\ ~Online(p)
    /\ payment[p].status # "none" /\ link[p] = "paid"
    /\ Enter(s, [Idle EXCEPT !.at = "loaded", !.p = p, !.seen = payment[p].status])
    /\ UNCHANGED <<payment, nextId, deposits, events, link, sent, aged>>

Confirm(s) ==
    /\ sess[s].at = "loaded" /\ ~Online(sess[s].p)
    /\ Settle(sess[s].p, sess[s].seen, "paid")
    /\ Finish(s)
    /\ UNCHANGED <<nextId, events, link, sent, aged>>

\* A killed process or a lost connection before COMMIT: the rows roll back, the
\* gateway's link stays.
Crash(s) ==
    /\ "crash" \in Faults /\ sess[s].at # "idle"
    /\ Finish(s)
    /\ UNCHANGED <<payment, nextId, deposits, events, link, sent, aged>>

Create(s) == \/ \E k \in Keys : CreateInsert(s, k)
             \/ CreateCheckout(s) \/ CreateFails(s) \/ CreateCommit(s)

Webhook(p) == \/ WebhookPaid(p) \/ WebhookExpired(p)
              \/ \E kind \in Kinds : WebhookIgnored(p, kind)

Answered(s) == LookupSettles(s) \/ LookupExpires(s)

Next ==
    \/ \E p \in Invoices : Gateway(p) \/ PaidByHand(p) \/ AgeOut(p) \/ Webhook(p)
    \/ \E s \in Sessions :
         \/ Create(s)
         \/ \E p \in Invoices : Load(s, p) \/ ConfirmLoad(s, p)
         \/ Lookup(s) \/ LookupFails(s) \/ Answered(s) \/ Confirm(s)
         \/ Crash(s)

Spec == Init /\ [][Next]_vars

\* Fairness.  The reconcile worker asks about each invoice of its batch again and
\* again and the gateway keeps answering; an operator confirms what was paid by
\* hand; a transaction ends.  Webhooks and customers' checks get none: they may
\* never come.
Fairness ==
    /\ \A p \in Invoices :
         /\ SF_vars(\E s \in Sessions : InBatch(p) /\ Load(s, p))
         /\ SF_vars(\E s \in Sessions : payment[p].status = "pending" /\ ConfirmLoad(s, p))
         /\ \A s \in Sessions : SF_vars(sess[s].p = p /\ Lookup(s))
    /\ \A s \in Sessions :
         WF_vars(CreateFails(s) \/ CreateCommit(s) \/ Answered(s) \/ Confirm(s))

FairSpec == Spec /\ Fairness

------------------------------------------------------------------------------
\* Properties

\* What the gateway (or the operator) holds for the invoice.
Holding(p) ==
    CASE link[p] \in {"paid", "refunded"} -> "exact"
      [] link[p] = "short" -> "other"
      [] OTHER -> "nothing"

Promise == INSTANCE Deposits WITH
             received <- [p \in Invoices |-> Holding(p)],
             credited <- deposits

\* Webhooks, repeated or late, customers' checks, the worker and operators
\* together credit an invoice at most once, and only when its exact amount was
\* received (service.py:163-227).
ImplementsDeposits == Promise!Spec

\* An invoice shown as paid has been credited; one held for review has not
\* (service.py:187-219).
StatusHonest ==
    \A p \in Invoices :
        /\ payment[p].status = "paid" => deposits[p] = 1
        /\ payment[p].status = "review" => deposits[p] = 0

\* The exact amount, once received for an invoice we know, is credited and the
\* invoice ends up shown as paid, even if every webhook is lost and a stale
\* answer overwrote the status meanwhile (service.py:286-333).
ReceivedIsCredited ==
    \A p \in Invoices :
        Holding(p) = "exact" /\ payment[p].status # "none" ~>
            [](deposits[p] = 1 /\ payment[p].status = "paid")
==============================================================================
