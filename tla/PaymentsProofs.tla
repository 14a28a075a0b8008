---------------------------- MODULE PaymentsProofs ----------------------------
(***************************************************************************)
(* Proofs about Payments for any number of invoices, sessions and keys,    *)
(* any payment methods, any batch limit and any faults: statuses are       *)
(* honest, and deposits are credited as Deposits promises.                 *)
(*                                                                         *)
(* The argument: whatever a transaction is told stays true.  A link that   *)
(* holds the exact amount holds it for ever, one that holds another amount *)
(* never holds the exact one, and every answer, webhook and look of an     *)
(* operator was drawn from the link; so a decision on a stale copy of the  *)
(* row still credits only what was received, and the deposit key does the  *)
(* rest.  A link is opened once, which the sequence of invoice ids ensures.*)
(***************************************************************************)
EXTENDS Payments, TLAPS

Statuses == {"none", "pending", "paid", "expired", "review"}
Answers == {"none", "paid", "short", "expired"}

Shape ==
    /\ payment \in [Invoices -> [status : Statuses, key : Keys \cup {None}]]
    /\ nextId \in Nat
    /\ deposits \in [Invoices -> {0, 1}]
    /\ link \in [Invoices -> {"none", "open", "paid", "expired", "short", "refunded"}]
    /\ sess \in [Sessions -> [at : {"idle", "inserted", "shown", "loaded", "answered"},
                              p : Nat, key : Keys \cup {None}, seen : Statuses,
                              answer : Answers]]
    /\ \A s \in Sessions : sess[s].at # "idle" => sess[s].p \in Invoices

HasExact(p) == link[p] \in {"paid", "refunded"}

\* What was credited, sent or answered is what the link holds.
EvidenceStands ==
    /\ \A p \in Invoices : deposits[p] = 1 => HasExact(p)
    /\ \A p \in Invoices : <<p, "paid">> \in sent => HasExact(p) \/ link[p] = "short"
    /\ \A s \in Sessions :
         /\ sess[s].at = "answered" /\ sess[s].answer = "paid" => HasExact(sess[s].p)
         /\ sess[s].at = "answered" /\ sess[s].answer = "short" => link[sess[s].p] = "short"
         /\ sess[s].at = "loaded" /\ ~Online(sess[s].p) => HasExact(sess[s].p)

\* The link of an invoice that is being created is opened by nobody else.
LinksOpenOnce ==
    /\ \A s \in Sessions :
         sess[s].at = "inserted" =>
            link[sess[s].p] = "none" /\ Online(sess[s].p)
    /\ \A s, t \in Sessions :
         sess[s].at = "inserted" /\ sess[t].at = "inserted" /\ sess[s].p = sess[t].p => s = t
    /\ \A p \in Invoices : nextId <= p => link[p] = "none" /\ payment[p].status = "none"
    /\ \A s \in Sessions : sess[s].at # "idle" => sess[s].p < nextId

\* The inductive invariant.
Inv == Shape /\ EvidenceStands /\ LinksOpenOnce /\ StatusHonest

------------------------------------------------------------------------------
LEMMA InitInv == Init => Inv
BY PaymentsAssumption
   DEF PaymentsAssumption, Init, Inv, Shape, EvidenceStands, LinksOpenOnce, StatusHonest,
       Statuses, Answers, Idle, Invoices, HasExact

\* A session that only comes or goes disturbs nothing, if what it knows is true.
LEMMA SessionStep ==
    ASSUME Inv, NEW s \in Sessions,
           NEW r \in [at : {"idle", "inserted", "shown", "loaded", "answered"},
                      p : Nat, key : Keys \cup {None}, seen : Statuses, answer : Answers],
           Enter(s, r), UNCHANGED <<payment, nextId, deposits, link, sent>>,
           r.at # "idle" => r.p \in Invoices /\ r.p < nextId,
           r.at # "inserted",
           r.at = "answered" /\ r.answer = "paid" => HasExact(r.p),
           r.at = "answered" /\ r.answer = "short" => link[r.p] = "short",
           r.at = "loaded" /\ ~Online(r.p) => HasExact(r.p)
    PROVE  Inv'
<1>1. sess' = [sess EXCEPT ![s] = r]
  BY DEF Enter
<1>2. Shape'
  BY <1>1 DEF Inv, Shape
<1>3. EvidenceStands'
  BY <1>1 DEF Inv, Shape, EvidenceStands, HasExact, Online
<1>4. LinksOpenOnce'
  BY <1>1 DEF Inv, Shape, LinksOpenOnce, Online
<1>5. StatusHonest'
  BY DEF Inv, StatusHonest
<1> QED BY <1>2, <1>3, <1>4, <1>5 DEF Inv

LEMMA IdleIsShaped ==
    Idle \in [at : {"idle", "inserted", "shown", "loaded", "answered"},
              p : Nat, key : Keys \cup {None}, seen : Statuses, answer : Answers]
BY DEF Idle, Statuses, Answers

\* Ending a transaction that wrote nothing, by refusal or by a crash.
LEMMA FinishStep ==
    ASSUME Inv, NEW s \in Sessions, Finish(s),
           UNCHANGED <<payment, nextId, deposits, link, sent>>
    PROVE  Inv'
<1>1. Enter(s, Idle)
  BY DEF Finish
<1>2. Idle.at = "idle"
  BY DEF Idle
<1> QED BY <1>1, <1>2, IdleIsShaped, SessionStep

\* create_deposit, service.py: the sequence hands out an id nobody has seen.
LEMMA InsertStep ==
    ASSUME Inv, NEW s \in Sessions, NEW k \in Keys, CreateInsert(s, k)
    PROVE  Inv'
<1> DEFINE r == [Idle EXCEPT !.at = IF Online(nextId) THEN "inserted" ELSE "shown",
                             !.p = nextId, !.key = k]
<1>1. /\ sess' = [sess EXCEPT ![s] = r]
      /\ nextId' = nextId + 1 /\ nextId \in Invoices
      /\ UNCHANGED <<payment, deposits, link, sent>>
  BY DEF CreateInsert, Enter
<1>2. /\ r.p = nextId /\ r.at \in {"inserted", "shown"}
      /\ r.at = "inserted" => Online(nextId)
      /\ r \in [at : {"idle", "inserted", "shown", "loaded", "answered"},
                p : Nat, key : Keys \cup {None}, seen : Statuses, answer : Answers]
  BY DEF Idle, Inv, Shape, Statuses, Answers
<1> HIDE DEF r
<1>3. Shape'
  BY <1>1, <1>2 DEF Inv, Shape
<1>4. EvidenceStands'
  BY <1>1, <1>2 DEF Inv, Shape, EvidenceStands, HasExact, Online
<1>5. LinksOpenOnce'
  <2>1. link[nextId] = "none" /\ nextId \in Nat /\ nextId' = nextId + 1
    BY <1>1 DEF Inv, Shape, LinksOpenOnce
  <2>2. ASSUME NEW t \in Sessions
        PROVE  sess'[t].at # "idle" => sess'[t].p \in Nat /\ sess'[t].p < nextId'
    BY <1>1, <1>2, <2>1 DEF Inv, Shape, LinksOpenOnce
  <2>3. ASSUME NEW t \in Sessions, sess'[t].at = "inserted"
        PROVE  link[sess'[t].p] = "none" /\ Online(sess'[t].p)
    BY <1>1, <1>2, <2>1, <2>3 DEF Inv, Shape, LinksOpenOnce
  <2>4. ASSUME NEW t \in Sessions, NEW u \in Sessions, sess'[t].at = "inserted",
               sess'[u].at = "inserted", sess'[t].p = sess'[u].p
        PROVE  t = u
    BY <1>1, <1>2, <2>1, <2>4 DEF Inv, Shape, LinksOpenOnce
  <2>5. \A p \in Invoices : nextId' <= p => link[p] = "none" /\ payment[p].status = "none"
    BY <2>1 DEF Inv, LinksOpenOnce, Invoices
  <2> QED BY <1>1, <2>2, <2>3, <2>4, <2>5 DEF LinksOpenOnce, Online
<1>6. StatusHonest'
  BY <1>1 DEF Inv, StatusHonest
<1> QED BY <1>3, <1>4, <1>5, <1>6 DEF Inv

\* The link is opened while the row is still uncommitted.
LEMMA CheckoutStep ==
    ASSUME Inv, NEW s \in Sessions, CreateCheckout(s)
    PROVE  Inv'
<1>1. /\ sess[s].at = "inserted"
      /\ link' = [link EXCEPT ![sess[s].p] = "open"]
      /\ sess' = [sess EXCEPT ![s] = [sess[s] EXCEPT !.at = "shown"]]
      /\ UNCHANGED <<payment, nextId, deposits, sent>>
  BY DEF CreateCheckout, Enter
<1>2. sess[s].p \in Invoices /\ link[sess[s].p] = "none" /\ Online(sess[s].p)
      /\ sess[s].p < nextId
  BY <1>1 DEF Inv, Shape, LinksOpenOnce
<1>3. Shape'
  BY <1>1, <1>2 DEF Inv, Shape
<1>4. EvidenceStands'
  BY <1>1, <1>2 DEF Inv, Shape, EvidenceStands, HasExact, Online
<1>5. LinksOpenOnce'
  BY <1>1, <1>2 DEF Inv, Shape, LinksOpenOnce, Online, Invoices
<1>6. StatusHonest'
  BY <1>1 DEF Inv, StatusHonest
<1> QED BY <1>3, <1>4, <1>5, <1>6 DEF Inv

LEMMA CommitStep ==
    ASSUME Inv, NEW s \in Sessions, CreateCommit(s)
    PROVE  Inv'
<1>1. /\ sess[s].at = "shown"
      /\ payment' = [payment EXCEPT ![sess[s].p] = [status |-> "pending", key |-> sess[s].key]]
      /\ sess' = [sess EXCEPT ![s] = Idle]
      /\ UNCHANGED <<nextId, deposits, link, sent>>
  BY DEF CreateCommit, Finish, Enter
<1>2. sess[s].p \in Invoices /\ sess[s].p < nextId
  BY <1>1 DEF Inv, Shape, LinksOpenOnce
<1>3. Idle.at = "idle"
  BY DEF Idle
<1>4. Shape'
  BY <1>1, <1>2, <1>3, IdleIsShaped DEF Inv, Shape, Statuses
<1>5. EvidenceStands'
  BY <1>1, <1>3 DEF Inv, Shape, EvidenceStands, HasExact, Online
<1>6. LinksOpenOnce'
  BY <1>1, <1>2, <1>3 DEF Inv, Shape, LinksOpenOnce, Online, Invoices
<1>7. StatusHonest'
  BY <1>1, <1>2 DEF Inv, Shape, StatusHonest
<1> QED BY <1>4, <1>5, <1>6, <1>7 DEF Inv

------------------------------------------------------------------------------
\* The gateway's or the payer's move never takes back what somebody was told.
LEMMA LinkStep ==
    ASSUME Inv, NEW p \in Invoices, Gateway(p) \/ PaidByHand(p)
    PROVE  Inv'
<1>1. PICK from \in {"none", "open", "paid", "expired"},
           to \in {"paid", "expired", "short", "refunded"},
           kinds \in SUBSET Kinds :
        /\ LinkMoves(p, from, to, kinds)
        /\ from = "paid" => to = "refunded"
        /\ from = "none" => payment[p].status = "pending" /\ ~Online(p)
        /\ "paid" \in kinds => to \in {"paid", "short"}
  BY DEF Gateway, PaidByHand, Kinds
<1>2. /\ link[p] = from /\ link' = [link EXCEPT ![p] = to]
      /\ sent' = sent \cup ({p} \X kinds)
      /\ UNCHANGED <<payment, nextId, deposits, sess>>
  BY <1>1 DEF LinkMoves
<1>3. Shape'
  BY <1>1, <1>2 DEF Inv, Shape
<1>4. HasExact(p) => to = "refunded"
  BY <1>1, <1>2 DEF HasExact
<1>5. EvidenceStands'
  <2>1. \A q \in Invoices : HasExact(q) => HasExact(q)'
    BY <1>2, <1>4 DEF HasExact, Inv, Shape
  <2>2. \A q \in Invoices : link[q] = "short" => link'[q] = "short"
    BY <1>1, <1>2 DEF Inv, Shape
  <2>3. ASSUME NEW q \in Invoices, <<q, "paid">> \in sent'
        PROVE  HasExact(q)' \/ link'[q] = "short"
    <3>1. CASE <<q, "paid">> \in sent
      BY <3>1, <2>1, <2>2 DEF Inv, EvidenceStands
    <3>2. CASE q = p /\ "paid" \in kinds
      BY <3>2, <1>1, <1>2 DEF HasExact, Inv, Shape
    <3> QED BY <2>3, <3>1, <3>2, <1>2
  <2> QED BY <1>2, <2>1, <2>2, <2>3 DEF Inv, Shape, EvidenceStands, Online
<1>6. LinksOpenOnce'
  <2>1. nextId > p
    BY <1>1, <1>2 DEF Inv, Shape, LinksOpenOnce, Invoices
  <2>2. \A s \in Sessions : sess[s].at = "inserted" => sess[s].p # p
    BY <1>1, <1>2 DEF Inv, Shape, LinksOpenOnce
  <2> QED BY <1>2, <2>1, <2>2 DEF Inv, Shape, LinksOpenOnce, Online, Invoices
<1>7. StatusHonest'
  BY <1>2 DEF Inv, StatusHonest
<1> QED BY <1>3, <1>5, <1>6, <1>7 DEF Inv

\* settle_payment credits what the link holds, however old the copy of the row is.
LEMMA SettleStep ==
    ASSUME Inv, NEW p \in Invoices, NEW seen \in Statuses, NEW amount \in {"paid", "short"},
           Settle(p, seen, amount),
           p < nextId,
           amount = "paid" => HasExact(p),
           amount = "short" => link[p] = "short",
           UNCHANGED <<nextId, link, sent>>,
           \/ UNCHANGED sess
           \/ \E s \in Sessions : Finish(s)
    PROVE  Inv'
<1>1. payment' = payment \/ \E st \in Statuses : payment' = [payment EXCEPT ![p].status = st]
  BY DEF Settle, SettledStatus, Statuses
<1>10. /\ payment' \in [Invoices -> [status : Statuses, key : Keys \cup {None}]]
      /\ \A q \in Invoices : q # p => payment'[q] = payment[q]
  BY <1>1 DEF Inv, Shape
<1>2. deposits' = IF seen # "paid" /\ amount = "paid" THEN [deposits EXCEPT ![p] = 1]
                  ELSE deposits
  BY DEF Settle, Exact, Deposited
<1>3. \A s \in Sessions : sess'[s] = sess[s] \/ sess'[s] = Idle
  BY DEF Finish, Enter, Inv, Shape
<1>4. sess' \in [Sessions -> [at : {"idle", "inserted", "shown", "loaded", "answered"},
                              p : Nat, key : Keys \cup {None}, seen : Statuses,
                              answer : Answers]]
  BY IdleIsShaped DEF Finish, Enter, Inv, Shape
<1>5. Idle.at = "idle"
  BY DEF Idle
<1>6. Shape'
  BY <1>10, <1>2, <1>3, <1>4, <1>5 DEF Inv, Shape
<1>7. EvidenceStands'
  BY <1>2, <1>3, <1>5 DEF Inv, Shape, EvidenceStands, HasExact, Online
<1>8. LinksOpenOnce'
  <2>1. \A q \in Invoices : nextId <= q => q # p
    BY DEF Inv, Shape, Invoices
  <2>2. \A q \in Invoices : nextId' <= q => link'[q] = "none" /\ payment'[q].status = "none"
    <3>1. \A q \in Invoices : nextId <= q => link[q] = "none" /\ payment[q].status = "none"
      BY DEF Inv, LinksOpenOnce
    <3> QED BY <2>1, <3>1, <1>10
  <2>3. \A s \in Sessions : sess'[s].at # "idle" => sess'[s] = sess[s]
    BY ONLY <1>3, <1>5
  <2>4. \A s \in Sessions :
          /\ sess[s].at = "inserted" => link[sess[s].p] = "none" /\ Online(sess[s].p)
          /\ sess[s].at # "idle" => sess[s].p < nextId
          /\ \A t \in Sessions :
               sess[s].at = "inserted" /\ sess[t].at = "inserted" /\ sess[s].p = sess[t].p => s = t
    BY DEF Inv, LinksOpenOnce
  <2>5. \A s \in Sessions :
          /\ sess'[s].at = "inserted" => link'[sess'[s].p] = "none" /\ Online(sess'[s].p)
          /\ sess'[s].at # "idle" => sess'[s].p < nextId'
    BY <2>3, <2>4
  <2>6. \A s, t \in Sessions :
          sess'[s].at = "inserted" /\ sess'[t].at = "inserted" /\ sess'[s].p = sess'[t].p => s = t
    BY ONLY <2>3, <2>4
  <2> QED BY <2>2, <2>5, <2>6 DEF LinksOpenOnce, Online
<1>9. StatusHonest'
  <2>1. ASSUME NEW q \in Invoices, q # p
        PROVE  payment'[q] = payment[q] /\ deposits'[q] = deposits[q]
    BY <1>10, <1>2, <2>1 DEF Inv, Shape
  <2>2. deposits[p] = 1 => HasExact(p)
    BY DEF Inv, EvidenceStands
  <2>3. /\ payment'[p].status = "paid" => deposits'[p] = 1
        /\ payment'[p].status = "review" => deposits'[p] = 0
    <3>1. CASE amount = "short"
      <4>1. deposits[p] = 0 /\ deposits' = deposits
        BY <3>1, <1>2, <2>2 DEF HasExact, Inv, Shape
      <4>2. payment' = payment \/ payment' = [payment EXCEPT ![p].status = "review"]
        BY <3>1 DEF Settle, SettledStatus, Exact
      <4> QED BY <4>1, <4>2 DEF Inv, Shape, StatusHonest
    <3>2. CASE amount = "paid" /\ seen = "paid"
      <4>1. payment' = payment /\ deposits' = deposits
        BY <3>2, <1>2 DEF Settle, SettledStatus
      <4> QED BY <4>1 DEF Inv, StatusHonest
    <3>3. CASE amount = "paid" /\ seen # "paid"
      <4>1. payment' = [payment EXCEPT ![p].status = "paid"] /\ deposits'[p] = 1
        BY <3>3, <1>2 DEF Settle, SettledStatus, Exact, Inv, Shape
      <4> QED BY <4>1 DEF Inv, Shape
    <3> QED BY <3>1, <3>2, <3>3
  <2> QED BY <2>1, <2>3 DEF Inv, StatusHonest
<1> QED BY <1>6, <1>7, <1>8, <1>9 DEF Inv

\* Expiring overwrites at most a status, never a credit.
LEMMA ExpireStep ==
    ASSUME Inv, NEW p \in Invoices, p < nextId,
           \/ UNCHANGED payment
           \/ payment' = [payment EXCEPT ![p].status = "expired"],
           UNCHANGED <<nextId, deposits, link, sent>>,
           \/ UNCHANGED sess
           \/ \E s \in Sessions : Finish(s)
    PROVE  Inv'
<1>1. \A s \in Sessions : sess'[s] = sess[s] \/ sess'[s] = Idle
  BY DEF Finish, Enter, Inv, Shape
<1>2. sess' \in [Sessions -> [at : {"idle", "inserted", "shown", "loaded", "answered"},
                              p : Nat, key : Keys \cup {None}, seen : Statuses,
                              answer : Answers]]
  BY IdleIsShaped DEF Finish, Enter, Inv, Shape
<1>3. Idle.at = "idle"
  BY DEF Idle
<1>4. Shape'
  <2>1. payment' \in [Invoices -> [status : Statuses, key : Keys \cup {None}]]
    BY DEF Inv, Shape, Statuses
  <2>2. \A s \in Sessions : sess'[s].at # "idle" => sess'[s].p \in Invoices
    BY <1>1, <1>3 DEF Inv, Shape
  <2> QED BY <1>2, <2>1, <2>2 DEF Inv, Shape
<1>5. EvidenceStands'
  BY <1>1, <1>3 DEF Inv, Shape, EvidenceStands, HasExact, Online
<1>6. LinksOpenOnce'
  <2>1. \A q \in Invoices : nextId <= q => q # p
    BY DEF Inv, Shape, Invoices
  <2>2. \A q \in Invoices : q # p => payment'[q] = payment[q]
    BY DEF Inv, Shape
  <2>3. \A q \in Invoices : nextId' <= q => link'[q] = "none" /\ payment'[q].status = "none"
    BY <2>1, <2>2 DEF Inv, LinksOpenOnce
  <2>4. \A t \in Sessions :
          /\ sess'[t].at # "idle" => sess'[t] = sess[t] /\ sess[t].p < nextId
          /\ sess'[t].at = "inserted" => link[sess[t].p] = "none" /\ Online(sess[t].p)
    BY <1>1, <1>3 DEF Inv, LinksOpenOnce
  <2>5. \A t, u \in Sessions :
          sess'[t].at = "inserted" /\ sess'[u].at = "inserted" /\ sess'[t].p = sess'[u].p
            => t = u
    BY <2>4 DEF Inv, LinksOpenOnce
  <2> QED BY <2>3, <2>4, <2>5 DEF LinksOpenOnce, Online
<1>7. StatusHonest'
  BY DEF Inv, Shape, StatusHonest
<1> QED BY <1>4, <1>5, <1>6, <1>7 DEF Inv

------------------------------------------------------------------------------
\* handle_webhook_event: a delivery is evidence of what the link holds.
LEMMA WebhookStep ==
    ASSUME Inv, NEW p \in Invoices, Webhook(p)
    PROVE  Inv'
<1>1. payment[p].status \in Statuses /\ (payment[p].status # "none" => p < nextId)
  BY DEF Inv, Shape, LinksOpenOnce, Invoices
<1>2. CASE WebhookPaid(p)
  <2> DEFINE amount == IF link[p] = "short" THEN "short" ELSE "paid"
  <2>1. /\ <<p, "paid">> \in sent /\ p < nextId
        /\ Settle(p, payment[p].status, amount)
        /\ UNCHANGED <<nextId, link, sent>> /\ UNCHANGED sess
    BY <1>1, <1>2 DEF WebhookPaid, Received
  <2>2. /\ amount \in {"paid", "short"}
        /\ amount = "paid" => HasExact(p)
        /\ amount = "short" => link[p] = "short"
    BY <2>1 DEF Inv, EvidenceStands
  <2> HIDE DEF amount
  <2> QED BY <1>1, <2>1, <2>2, SettleStep
<1>3. CASE WebhookExpired(p)
  <2>1. /\ p < nextId
        /\ payment' = [payment EXCEPT ![p].status = "expired"]
        /\ UNCHANGED <<nextId, deposits, link, sent>> /\ UNCHANGED sess
    BY <1>1, <1>3 DEF WebhookExpired, Received
  <2> QED BY <2>1, ExpireStep
<1>4. ASSUME NEW kind \in Kinds, WebhookIgnored(p, kind)
      PROVE  Inv'
  <2>1. UNCHANGED <<payment, nextId, deposits, link, sent, sess>>
    BY <1>4 DEF WebhookIgnored, Received
  <2> QED BY <2>1 DEF Inv, Shape, EvidenceStands, LinksOpenOnce, StatusHonest, HasExact, Online
<1> QED BY <1>2, <1>3, <1>4 DEF Webhook

\* check_payment, reconcile_pending and manual_confirm: read, ask, decide.
LEMMA LookupStep ==
    ASSUME Inv, NEW s \in Sessions,
           \/ \E p \in Invoices : Load(s, p) \/ ConfirmLoad(s, p)
           \/ Lookup(s) \/ Answered(s) \/ Confirm(s)
    PROVE  Inv'
<1> DEFINE Records == [at : {"idle", "inserted", "shown", "loaded", "answered"},
                       p : Nat, key : Keys \cup {None}, seen : Statuses, answer : Answers]
<1>0. sess[s] \in Records /\ (sess[s].at # "idle" => sess[s].p \in Invoices
                                                      /\ sess[s].p < nextId)
  BY DEF Inv, Shape, LinksOpenOnce
<1>1. ASSUME NEW p \in Invoices, Load(s, p) \/ ConfirmLoad(s, p)
      PROVE  Inv'
  <2> DEFINE r == [Idle EXCEPT !.at = "loaded", !.p = p, !.seen = payment[p].status]
  <2>1. /\ Enter(s, r)
        /\ UNCHANGED <<payment, nextId, deposits, link, sent>>
        /\ payment[p].status # "none"
        /\ ~Online(p) => link[p] = "paid"
    BY <1>1 DEF Load, ConfirmLoad, InBatch, Reconcilable, Checkable
  <2>2. p < nextId /\ p \in Nat
    BY <2>1 DEF Inv, Shape, LinksOpenOnce, Invoices
  <2>3. r \in Records /\ r.at = "loaded" /\ r.p = p
    BY <2>2, IdleIsShaped DEF Idle, Inv, Shape
  <2>4. ~Online(p) => HasExact(p)
    BY <2>1 DEF HasExact
  <2> HIDE DEF r
  <2> QED BY <2>1, <2>2, <2>3, <2>4, SessionStep
<1>2. CASE Lookup(s)
  <2>1. UNCHANGED <<payment, nextId, deposits, link, sent>>
    BY <1>2 DEF Lookup
  <2>2. CASE Reported(sess[s].p) = "none"
    <3>1. Finish(s)
      BY <1>2, <2>2 DEF Lookup
    <3> QED BY <2>1, <3>1, FinishStep
  <2>3. CASE Reported(sess[s].p) # "none"
    <3> DEFINE r == [sess[s] EXCEPT !.at = "answered", !.answer = Reported(sess[s].p)]
    <3>1. Enter(s, r) /\ sess[s].at = "loaded"
      BY <1>2, <2>3 DEF Lookup
    <3>2. /\ Reported(sess[s].p) \in Answers
          /\ Reported(sess[s].p) = "paid" => HasExact(sess[s].p)
          /\ Reported(sess[s].p) = "short" => link[sess[s].p] = "short"
      BY DEF Reported, Answers, HasExact
    <3>3. /\ r \in Records /\ r.at = "answered" /\ r.p = sess[s].p
          /\ r.answer = Reported(sess[s].p)
      BY <1>0, <3>2
    <3> HIDE DEF r
    <3> QED BY <1>0, <2>1, <3>1, <3>2, <3>3, SessionStep
  <2> QED BY <2>2, <2>3
<1>3. CASE LookupSettles(s) \/ Confirm(s)
  <2>1. PICK amount \in {"paid", "short"} :
          /\ Settle(sess[s].p, sess[s].seen, amount) /\ Finish(s)
          /\ UNCHANGED <<nextId, link, sent>>
          /\ \/ sess[s].at = "answered" /\ sess[s].answer = amount
             \/ sess[s].at = "loaded" /\ ~Online(sess[s].p) /\ amount = "paid"
    BY <1>3 DEF LookupSettles, Confirm
  <2>2. /\ amount = "paid" => HasExact(sess[s].p)
        /\ amount = "short" => link[sess[s].p] = "short"
    BY <2>1 DEF Inv, EvidenceStands
  <2>3. sess[s].seen \in Statuses /\ sess[s].p \in Invoices /\ sess[s].p < nextId
    BY <1>0, <2>1
  <2> QED BY <2>1, <2>2, <2>3, SettleStep
<1>4. CASE LookupExpires(s)
  <2>1. /\ \/ UNCHANGED payment
           \/ payment' = [payment EXCEPT ![sess[s].p].status = "expired"]
        /\ UNCHANGED <<nextId, deposits, link, sent>> /\ Finish(s)
        /\ sess[s].p \in Invoices /\ sess[s].p < nextId
    BY <1>0, <1>4 DEF LookupExpires
  <2> QED BY <2>1, ExpireStep
<1> QED BY <1>1, <1>2, <1>3, <1>4 DEF Answered

LEMMA StepKeepsInv == Inv /\ [Next]_vars => Inv'
<1> SUFFICES ASSUME Inv, [Next]_vars
             PROVE  Inv'
  OBVIOUS
<1>1. ASSUME NEW p \in Invoices, Gateway(p) \/ PaidByHand(p)
      PROVE  Inv'
  BY <1>1, LinkStep
<1>2. ASSUME NEW p \in Invoices, AgeOut(p)
      PROVE  Inv'
  <2>1. UNCHANGED <<payment, nextId, deposits, link, sent, sess>>
    BY <1>2 DEF AgeOut
  <2> QED BY <2>1 DEF Inv, Shape, EvidenceStands, LinksOpenOnce, StatusHonest, HasExact, Online
<1>3. ASSUME NEW p \in Invoices, Webhook(p)
      PROVE  Inv'
  BY <1>3, WebhookStep
<1>4. ASSUME NEW s \in Sessions, Create(s)
      PROVE  Inv'
  <2>1. CASE CreateFails(s)
    <3>1. Finish(s) /\ UNCHANGED <<payment, nextId, deposits, link, sent>>
      BY <2>1 DEF CreateFails
    <3> QED BY <3>1, FinishStep
  <2> QED BY <1>4, <2>1, InsertStep, CheckoutStep, CommitStep DEF Create
<1>5. ASSUME NEW s \in Sessions,
             \/ \E p \in Invoices : Load(s, p) \/ ConfirmLoad(s, p)
             \/ Lookup(s) \/ Answered(s) \/ Confirm(s)
      PROVE  Inv'
  BY <1>5, LookupStep
<1>6. ASSUME NEW s \in Sessions, LookupFails(s) \/ Crash(s)
      PROVE  Inv'
  <2>1. Finish(s) /\ UNCHANGED <<payment, nextId, deposits, link, sent>>
    BY <1>6 DEF LookupFails, Crash
  <2> QED BY <2>1, FinishStep
<1>7. CASE UNCHANGED vars
  BY <1>7 DEF vars, Inv, Shape, EvidenceStands, LinksOpenOnce, StatusHonest, HasExact, Online
<1> QED BY <1>1, <1>2, <1>3, <1>4, <1>5, <1>6, <1>7 DEF Next

THEOREM Invariance == Spec => []Inv
BY InitInv, StepKeepsInv, PTL DEF Spec

\* service.py:187-219: whatever the order of webhooks, checks, lookups and
\* confirmations, an invoice shown as paid has been credited and one held for
\* review has not.
THEOREM StatusesHonest == Spec => []StatusHonest
<1>1. Inv => StatusHonest
  BY DEF Inv
<1> QED BY <1>1, Invariance, PTL

\* Only settle_payment credits, only what was received and only once.
LEMMA SettleCredits ==
    ASSUME Inv, NEW p \in Invoices, NEW seen, NEW amount \in {"paid", "short"},
           Settle(p, seen, amount), amount = "paid" => HasExact(p), UNCHANGED link
    PROVE  [Promise!Next]_<<[q \in Invoices |-> Holding(q)], deposits>>
<1>1. [q \in Invoices |-> Holding(q)]' = [q \in Invoices |-> Holding(q)]
  BY DEF Holding
<1>2. CASE amount = "paid" /\ seen # "paid" /\ deposits[p] = 0
  <2>1. deposits' = [deposits EXCEPT ![p] = 1] /\ Holding(p) = "exact"
    BY <1>2 DEF Settle, Exact, Deposited, Holding, HasExact
  <2> QED BY <1>1, <1>2, <2>1 DEF Promise!Next, Promise!Credit
<1>3. CASE ~(amount = "paid" /\ seen # "paid" /\ deposits[p] = 0)
  <2>1. deposits' = deposits
    BY <1>3 DEF Settle, Exact, Deposited, Inv, Shape
  <2> QED BY <1>1, <2>1
<1> QED BY <1>2, <1>3

\* service.py:163-227, 286-333: sessions, the gateway and repeated deliveries
\* together implement the promise of Deposits.
THEOREM Implements == Spec => ImplementsDeposits
<1>1. Init => Promise!Init
  BY DEF Init, Promise!Init, Holding
<1>2. Inv /\ [Next]_vars => [Promise!Next]_<<[p \in Invoices |-> Holding(p)], deposits>>
  <2> DEFINE held == [p \in Invoices |-> Holding(p)]
  <2> SUFFICES ASSUME Inv, [Next]_vars
               PROVE  [Promise!Next]_<<held, deposits>>
    OBVIOUS
  <2>1. ASSUME NEW p \in Invoices, Gateway(p) \/ PaidByHand(p)
        PROVE  [Promise!Next]_<<held, deposits>>
    <3>1. PICK from \in {"none", "open", "paid", "expired"},
               to \in {"paid", "expired", "short", "refunded"} :
            /\ link[p] = from /\ link' = [link EXCEPT ![p] = to]
            /\ from = "paid" <=> to = "refunded"
            /\ deposits' = deposits
      BY <2>1 DEF Gateway, PaidByHand, LinkMoves
    <3>2. /\ held' = [held EXCEPT ![p] = Holding(p)']
          /\ Holding(p)' = CASE to \in {"paid", "refunded"} -> "exact"
                             [] to = "short" -> "other"
                             [] OTHER -> "nothing"
      BY <3>1 DEF Holding, Inv, Shape
    <3>3. CASE from = "paid" \/ to = "expired"
      BY <3>1, <3>2, <3>3 DEF Holding
    <3>4. CASE from # "paid" /\ to # "expired"
      <4>1. held[p] = "nothing" /\ Holding(p)' \in {"exact", "other"}
        BY <3>1, <3>2, <3>4 DEF Holding
      <4> HIDE DEF held
      <4> QED BY <3>1, <3>2, <4>1 DEF Promise!Next, Promise!Receive, held
    <3> QED BY <3>3, <3>4
  <2>2. ASSUME NEW p \in Invoices, WebhookPaid(p)
        PROVE  [Promise!Next]_<<held, deposits>>
    <3> DEFINE amount == IF link[p] = "short" THEN "short" ELSE "paid"
    <3>1. /\ Settle(p, payment[p].status, amount) /\ link' = link
          /\ amount \in {"paid", "short"} /\ (amount = "paid" => HasExact(p))
      BY <2>2 DEF WebhookPaid, Received, Inv, EvidenceStands
    <3> HIDE DEF amount
    <3> QED BY <3>1, SettleCredits
  <2>3. ASSUME NEW s \in Sessions, LookupSettles(s) \/ Confirm(s)
        PROVE  [Promise!Next]_<<held, deposits>>
    <3>1. PICK amount \in {"paid", "short"} :
            /\ Settle(sess[s].p, sess[s].seen, amount) /\ link' = link
            /\ \/ sess[s].at = "answered" /\ sess[s].answer = amount
               \/ sess[s].at = "loaded" /\ ~Online(sess[s].p) /\ amount = "paid"
      BY <2>3 DEF LookupSettles, Confirm
    <3>2. sess[s].p \in Invoices /\ (amount = "paid" => HasExact(sess[s].p))
      BY <3>1 DEF Inv, Shape, EvidenceStands
    <3> QED BY <3>1, <3>2, SettleCredits
  <2>4. ASSUME NEW s \in Sessions, CreateCheckout(s)
        PROVE  held' = held /\ deposits' = deposits
    <3>1. /\ link[sess[s].p] = "none" /\ link' = [link EXCEPT ![sess[s].p] = "open"]
          /\ deposits' = deposits
      BY <2>4 DEF CreateCheckout, Inv, LinksOpenOnce
    <3> QED BY <3>1 DEF Holding, Inv, Shape
  <2>5. ASSUME UNCHANGED <<link, deposits>>
        PROVE  held' = held /\ deposits' = deposits
    BY <2>5 DEF Holding
  <2>6. ASSUME NEW p \in Invoices,
               AgeOut(p) \/ WebhookExpired(p) \/ \E kind \in Kinds : WebhookIgnored(p, kind)
        PROVE  UNCHANGED <<link, deposits>>
    BY <2>6 DEF AgeOut, WebhookExpired, WebhookIgnored, Received
  <2>7. ASSUME NEW s \in Sessions,
               \/ \E k \in Keys : CreateInsert(s, k)
               \/ CreateFails(s) \/ CreateCommit(s)
               \/ \E p \in Invoices : Load(s, p) \/ ConfirmLoad(s, p)
               \/ Lookup(s) \/ LookupFails(s) \/ LookupExpires(s) \/ Crash(s)
        PROVE  UNCHANGED <<link, deposits>>
    BY <2>7 DEF CreateInsert, CreateFails, CreateCommit, Load, ConfirmLoad, Lookup,
                LookupFails, LookupExpires, Crash
  <2>8. CASE UNCHANGED vars
    BY <2>5, <2>8 DEF vars
  <2> HIDE DEF held
  <2> QED BY <2>1, <2>2, <2>3, <2>4, <2>5, <2>6, <2>7, <2>8
          DEF Next, Webhook, Create, Answered
<1> QED BY <1>1, <1>2, Invariance, PTL DEF Spec, ImplementsDeposits, Promise!Spec
==============================================================================
