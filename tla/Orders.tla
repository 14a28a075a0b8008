------------------------------- MODULE Orders --------------------------------
(***************************************************************************)
(* app/orders.py: placing, syncing, cancelling, refilling and resolving    *)
(* orders, by concurrent sessions (bot updates, API requests, the status   *)
(* worker, the operator's CLI), against an SMM panel that keeps its own    *)
(* state and whose answers can be lost.                                    *)
(*                                                                         *)
(* A handler is one database transaction that commits when it returns.     *)
(* Its unlocked reads and its calls to the panel are steps of their own,   *)
(* the Order object it loaded goes stale meanwhile; from its last such     *)
(* step to COMMIT it only takes row locks, so that part is one step.       *)
(* place_order() holds the customer's row lock across the panel call.      *)
(***************************************************************************)
EXTENDS Integers, FiniteSets, Functions

CONSTANTS Users, Sessions, Keys,  \* customers, sessions, client idempotency keys
          None,
          MaxOrders,       \* bound: orders ids handed out by the sequence
          Charge,          \* charge_paise of each order id
          Opening,         \* a customer's deposited balance
          Operations,      \* which of {"place","sync","cancel","refill","resolve"} run
          Faults,          \* which of {"reject","timeout","garbled","crash"} happen
          Reports,         \* the statuses this panel uses
          Undelivered,     \* refund values of what a partial order leaves undelivered
          Coupons,         \* {TRUE}, {FALSE} or both: do orders carry the coupon
          MaxUses, PerUserLimit,   \* of the coupon
          CommissionCap    \* REFERRAL_ORDER_CAP

Orders == 1..MaxOrders

\* Where a panel's order can go from each of its states.
Ended == {"partial", "completed", "canceled", "failed", "refunded"}
Later == [st \in {"pending", "processing", "in_progress"} \cup Ended |->
            CASE st = "pending" -> {"processing", "in_progress"} \cup Ended
              [] st = "processing" -> {"in_progress"} \cup Ended
              [] st = "in_progress" -> Ended
              [] st = "partial" -> {"canceled"}
              [] OTHER -> {}]
PanelStatuses == DOMAIN Later

ASSUME OrdersAssumption ==
    /\ None \notin Users \cup Sessions \cup Keys \cup PanelStatuses
    /\ MaxOrders \in Nat
    /\ Charge \in [Orders -> Nat \ {0}]
    /\ Opening \in Nat
    /\ Reports \subseteq PanelStatuses
    /\ Undelivered \subseteq Nat
    /\ Coupons \subseteq BOOLEAN
    /\ MaxUses \in Nat /\ PerUserLimit \in Nat \ {0}

VARIABLES account,     \* users row: balance and reserved
          order,       \* orders row and the ledger keys that refer to it
          nextId,      \* the next orders.id
          coupon,      \* used_count and the coupon_redemptions
          commission,  \* orders whose "reford" ledger entry was credited
          panel,       \* the panel's own view of each order; None: it has none
          locked,      \* users row locks held across a panel call
          sess         \* what each session is doing

vars == <<account, order, nextId, coupon, commission, panel, locked, sess>>

\* models.py: TERMINAL_STATUSES, CANCELABLE_STATUSES, REFILLABLE_STATUSES
TERMINAL_STATUSES == {"completed", "canceled", "failed", "refunded"}
CANCELABLE_STATUSES == {"pending", "processing", "in_progress"}
RefillableTerminal == {"completed", "partial", "canceled"}
REFILLABLE_STATUSES == {"completed", "partial"}
Statuses == PanelStatuses \cup {"none", "review", "refilling"}

\* The ledger_entries of an order, by what distinguishes their idempotency keys.
Posts == {"reserve", "capture", "release", "release-cancel",
          "partial", "refund-canceled", "refund-failed", "refund-cancel"}

NoOrder == [status |-> "none", owner |-> None, key |-> None, asked |-> None,
            placed |-> FALSE, posts |-> {}, refunded |-> 0]
Idle == [at |-> "idle", user |-> None, o |-> 0, key |-> None, coupon |-> FALSE,
         used |-> 0, seen |-> "none", report |-> "none", owed |-> 0]

TypeOK ==
    /\ account \in [Users -> [balance : Nat, reserved : Nat]]
    /\ order \in [Orders -> [status : Statuses, owner : Users \cup {None},
                             key : Keys \cup {None}, asked : Keys \cup {None},
                             placed : BOOLEAN, posts : SUBSET Posts, refunded : Nat]]
    /\ nextId \in 1..(MaxOrders + 1)
    /\ coupon \in [used : Nat, by : SUBSET Orders]
    /\ commission \in SUBSET Orders
    /\ panel \in [Orders -> PanelStatuses \cup {None}]
    /\ locked \in [Users -> Sessions \cup {None}]
    /\ sess \in [Sessions ->
         [at : {"idle", "quoted", "calling", "answered", "syncing", "reported",
                "canceling", "confirmed", "counted", "refilling", "resolving"},
          user : Users \cup {None}, o : 0..MaxOrders, key : Keys \cup {None},
          coupon : BOOLEAN, used : Nat, seen : Statuses,
          report : PanelStatuses \cup {"none", "ok", "timeout", "refused", "release", "attach"},
          owed : Nat]]

Init ==
    /\ account = [u \in Users |-> [balance |-> Opening, reserved |-> 0]]
    /\ order = [o \in Orders |-> NoOrder]
    /\ nextId = 1
    /\ coupon = [used |-> 0, by |-> {}]
    /\ commission = {}
    /\ panel = [o \in Orders |-> None]
    /\ locked = [u \in Users |-> None]
    /\ sess = [s \in Sessions |-> Idle]

------------------------------------------------------------------------------
\* The money operations of wallet.py, as one order's row and account see them.

Minimum(a, b) == IF a < b THEN a ELSE b
Available(u) == account[u].balance - account[u].reserved
Unlocked(u) == locked[u] = None

\* refunded_so_far, and what is still owed
OwedInFull(o) == Charge[o]
OwedUnlessRefunded(o) == IF order[o].refunded = 0 THEN Charge[o] ELSE 0
Owed(o) == IF Charge[o] > order[o].refunded THEN Charge[o] - order[o].refunded ELSE 0

\* wallet.credit of n under the key named by post; an existing key changes nothing.
Credits(o, post, n) == n > 0 /\ post \notin order[o].posts

AccountCredited(o, post, n) ==
    IF Credits(o, post, n)
    THEN [account EXCEPT ![order[o].owner].balance = @ + n]
    ELSE account

\* The orders row with a new status and the credit posted.
Credited(o, post, n, status) ==
    IF Credits(o, post, n)
    THEN [order[o] EXCEPT !.status = status, !.posts = @ \cup {post}, !.refunded = @ + n]
    ELSE [order[o] EXCEPT !.status = status]

\* wallet.release: clipped to what is reserved; an existing key changes nothing.
AccountReleasedAgain(o, post) ==
    [account EXCEPT ![order[o].owner].reserved = @ - Minimum(@, Charge[o])]
AccountReleased(o, post) ==
    LET u == order[o].owner
    IN  IF post \in order[o].posts THEN account
        ELSE [account EXCEPT ![u].reserved = @ - Minimum(@, Charge[o])]

\* wallet.capture of held funds; an existing key changes nothing.
AccountCapturedAgain(o) ==
    [account EXCEPT ![order[o].owner] = [balance |-> @.balance - Charge[o],
                                         reserved |-> @.reserved - Charge[o]]]
AccountCaptured(o) ==
    IF "capture" \in order[o].posts THEN account
    ELSE [account EXCEPT ![order[o].owner] = [balance |-> @.balance - Charge[o],
                                              reserved |-> @.reserved - Charge[o]]]

Finish(s) == sess' = [sess EXCEPT ![s] = Idle]
Enter(s, r) == sess' = [sess EXCEPT ![s] = r]
Session(at, u, o, seen) ==
    [Idle EXCEPT !.at = at, !.user = u, !.o = o, !.seen = seen]
------------------------------------------------------------------------------
\* The panel's side: an accepted order moves on by itself.
PanelAdvance(o) ==
    /\ panel[o] # None
    /\ \E st \in Later[panel[o]] \cap Reports : panel' = [panel EXCEPT ![o] = st]
    /\ UNCHANGED <<account, order, nextId, coupon, commission, locked, sess>>

------------------------------------------------------------------------------
\* place_order

\* apply_coupon, before any lock: the total and the per-customer limit.
CouponUsableAgain(u) == coupon.used < MaxUses
CouponUsable(u) ==
    /\ coupon.used < MaxUses
    /\ Cardinality({o \in coupon.by : order[o].owner = u}) < PerUserLimit

\* Validation and quote_order, without a lock.
PlaceQuote(s, u, k, c) ==
    /\ "place" \in Operations
    /\ sess[s].at = "idle"
    /\ c => CouponUsable(u)
    /\ Enter(s, [Session("quoted", u, 0, "none") EXCEPT !.key = k, !.coupon = c])
    /\ UNCHANGED <<account, order, nextId, coupon, commission, panel, locked>>

\* _load_idempotent_order: the row (or IdempotencyRecord) with the customer's key.
ExistingOrders(u, k) == {o \in Orders : order[o].owner = u /\ order[o].key = k}
SettledOrders(u, k) == {o \in ExistingOrders(u, k) : order[o].status \notin {"failed", "review"}}
LiveOrders(u, k) == {o \in ExistingOrders(u, k) : order[o].status # "failed"}

\* lock_user, then the same key again: the caller gets the order it already has.
PlaceReplay(s) ==
    /\ sess[s].at = "quoted" /\ Unlocked(sess[s].user)
    /\ LiveOrders(sess[s].user, sess[s].key) # {}
    /\ Finish(s)
    /\ UNCHANGED <<account, order, nextId, coupon, commission, panel, locked>>

\* InsufficientFunds under the lock (or no order id left within the bound).
PlaceRefuse(s) ==
    LET u == sess[s].user
    IN  /\ sess[s].at = "quoted" /\ Unlocked(u)
        /\ LiveOrders(u, sess[s].key) = {}
        /\ nextId \in Orders => Available(u) < Charge[nextId]
        /\ Finish(s)
        /\ UNCHANGED <<account, order, nextId, coupon, commission, panel, locked>>

\* Under the lock, up to the panel call: the order row and the reserve are
\* flushed, not committed; a key whose order failed is replaced by a fresh one.
\* The coupon row is read here and written back when the handler commits.
PlaceReserve(s) ==
    LET u == sess[s].user
    IN  /\ sess[s].at = "quoted" /\ Unlocked(u)
        /\ LiveOrders(u, sess[s].key) = {}
        /\ nextId \in Orders /\ Available(u) >= Charge[nextId]
        /\ locked' = [locked EXCEPT ![u] = s]
        /\ nextId' = nextId + 1
        /\ Enter(s, [sess[s] EXCEPT !.at = "calling", !.o = nextId, !.used = coupon.used])
        /\ UNCHANGED <<account, order, coupon, commission, panel>>

RepliesUnretryable == {"ok", "refused"}
RepliesToAccepted == {"ok"} \cup (IF "timeout" \in Faults THEN {"timeout"} ELSE {})
                           \cup (IF "garbled" \in Faults THEN {"refused"} ELSE {})
RepliesToDeclined == (IF "timeout" \in Faults THEN {"timeout"} ELSE {})
                        \cup (IF "reject" \in Faults THEN {"refused"} ELSE {})

\* The panel accepts or not, and the adapter makes of its answer: an order id
\* ("ok"), a retryable ProviderError ("timeout": network error, 5xx) or any
\* other error ("refused": 4xx, an error body, and a body without an id).
PanelAccepts(s, reply) ==
    /\ sess[s].at = "calling"
    /\ reply \in RepliesToAccepted
    /\ \E st \in {"pending", "processing"} \cap Reports :
         panel' = [panel EXCEPT ![sess[s].o] = st]
    /\ Enter(s, [sess[s] EXCEPT !.at = "answered", !.report = reply])
    /\ UNCHANGED <<account, order, nextId, coupon, commission, locked>>

PanelDeclines(s, reply) ==
    /\ sess[s].at = "calling"
    /\ reply \in RepliesToDeclined
    /\ Enter(s, [sess[s] EXCEPT !.at = "answered", !.report = reply])
    /\ UNCHANGED <<account, order, nextId, coupon, commission, panel, locked>>

\* The committed row of the order session s placed.
PlacedRow(s, status, posts, placed) ==
    [status |-> status, owner |-> sess[s].user,
     key |-> IF ExistingOrders(sess[s].user, sess[s].key) = {} THEN sess[s].key ELSE None,
     asked |-> sess[s].key, placed |-> placed, posts |-> posts, refunded |-> 0]

PlaceCommit(s, row) ==
    /\ order' = [order EXCEPT ![sess[s].o] = row]
    /\ locked' = [locked EXCEPT ![sess[s].user] = None]
    /\ Finish(s)
    /\ UNCHANGED <<nextId, commission, panel>>

CouponConsumed(s) ==
    IF sess[s].coupon
    THEN [used |-> sess[s].used + 1, by |-> coupon.by \cup {sess[s].o}]
    ELSE coupon

\* The panel took it: reserve and capture.
PlaceAccepted(s) ==
    /\ sess[s].at = "answered" /\ sess[s].report = "ok"
    /\ account' = [account EXCEPT ![sess[s].user].balance = @ - Charge[sess[s].o]]
    /\ coupon' = CouponConsumed(s)
    /\ PlaceCommit(s, PlacedRow(s, "processing", {"reserve", "capture"}, TRUE))

\* Nobody knows: hold the funds, REVIEW_STATUS.
PlaceReview(s) ==
    /\ sess[s].at = "answered" /\ sess[s].report = "timeout"
    /\ account' = [account EXCEPT ![sess[s].user].reserved = @ + Charge[sess[s].o]]
    /\ coupon' = CouponConsumed(s)
    /\ PlaceCommit(s, PlacedRow(s, "review", {"reserve"}, FALSE))

\* _fail_and_release in the same transaction: reserve and release cancel out, the
\* redemption is deleted and the used_count read before is written back.
PlaceFailed(s) ==
    /\ sess[s].at = "answered" /\ sess[s].report = "refused"
    /\ coupon' = IF sess[s].coupon THEN [coupon EXCEPT !.used = sess[s].used] ELSE coupon
    /\ PlaceCommit(s, PlacedRow(s, "failed", {"reserve", "release"}, FALSE))
    /\ UNCHANGED account

------------------------------------------------------------------------------
\* sync_order_status, by the worker's list_open_orders or a customer's refresh.

SyncableProcessing(o) == order[o].placed /\ order[o].status \in {"processing", "refilling"}
Syncable(o) == order[o].placed /\ order[o].status \notin TERMINAL_STATUSES

SyncLoad(s, o) ==
    /\ "sync" \in Operations
    /\ sess[s].at = "idle" /\ Syncable(o)
    /\ Enter(s, Session("syncing", order[o].owner, o, order[o].status))
    /\ UNCHANGED <<account, order, nextId, coupon, commission, panel, locked>>

\* The panel reports its status; nothing to do when it equals the loaded one.
SyncReport(s) ==
    /\ sess[s].at = "syncing"
    /\ IF panel[sess[s].o] = sess[s].seen THEN Finish(s)
       ELSE Enter(s, [sess[s] EXCEPT !.at = "reported", !.report = panel[sess[s].o]])
    /\ UNCHANGED <<account, order, nextId, coupon, commission, panel, locked>>

\* ProviderError: keep the order as it is.
SyncUnavailable(s) ==
    /\ sess[s].at = "syncing"
    /\ Finish(s)
    /\ UNCHANGED <<account, order, nextId, coupon, commission, panel, locked>>

\* From the status write (which takes the order's row lock) to COMMIT.
SyncAppliesAlike(s, st) ==
    sess[s].at = "reported"
    /\ (sess[s].report = st \/ {sess[s].report, st} = {"partial", "completed"})
SyncApplies(s, st) == sess[s].at = "reported" /\ sess[s].report = st

\* "processing", "in_progress", "pending" and "refunded": the status alone.
SyncStatus(s) ==
    LET o == sess[s].o
    IN  /\ SyncApplies(s, sess[s].report)
        /\ sess[s].report \in {"pending", "processing", "in_progress", "refunded"}
        /\ order' = [order EXCEPT ![o].status = sess[s].report]
        /\ Finish(s)
        /\ UNCHANGED <<account, nextId, coupon, commission, panel, locked>>

\* _maybe_partial_refund of the undelivered part r, once, up to what is owed.
SyncPartial(s, r) ==
    LET o == sess[s].o
        refund == Minimum(Minimum(r, Charge[o]), Owed(o))
    IN  /\ SyncApplies(s, "partial")
        /\ Credits(o, "partial", refund) => Unlocked(order[o].owner)
        /\ account' = AccountCredited(o, "partial", refund)
        /\ order' = [order EXCEPT ![o] = Credited(o, "partial", refund, "partial")]
        /\ Finish(s)
        /\ UNCHANGED <<nextId, coupon, commission, panel, locked>>

\* _refund_if_needed: everything still owed, then the status "refunded".
SyncRefund(s, st) ==
    LET o == sess[s].o
        post == IF st = "canceled" THEN "refund-canceled" ELSE "refund-failed"
        status == IF Credits(o, post, Owed(o)) THEN "refunded" ELSE st
    IN  /\ st \in {"canceled", "failed"} /\ SyncApplies(s, st)
        /\ Credits(o, post, Owed(o)) => Unlocked(order[o].owner)
        /\ account' = AccountCredited(o, post, Owed(o))
        /\ order' = [order EXCEPT ![o] = Credited(o, post, Owed(o), status)]
        /\ Finish(s)
        /\ UNCHANGED <<nextId, coupon, commission, panel, locked>>

\* credit_order_commission: completed_ids[:REFERRAL_ORDER_CAP] of the buyer.
Commissionable(o) ==
    Cardinality({p \in Orders : /\ order[p].owner = order[o].owner
                                /\ order[p].status = "completed"
                                /\ p < o}) < CommissionCap

SyncCompleted(s) ==
    LET o == sess[s].o
    IN  /\ SyncApplies(s, "completed")
        /\ order' = [order EXCEPT ![o].status = "completed"]
        /\ commission' = IF Commissionable(o) THEN commission \cup {o} ELSE commission
        /\ Finish(s)
        /\ UNCHANGED <<account, nextId, coupon, panel, locked>>

------------------------------------------------------------------------------
\* request_cancel

CancelLoad(s, o) ==
    /\ "cancel" \in Operations
    /\ sess[s].at = "idle" /\ order[o].status \in CANCELABLE_STATUSES
    /\ Enter(s, Session("canceling", order[o].owner, o, order[o].status))
    /\ UNCHANGED <<account, order, nextId, coupon, commission, panel, locked>>

\* The adapter returns only when the panel confirmed this very id.
CancelConfirmed(s) ==
    LET o == sess[s].o
    IN  /\ sess[s].at = "canceling" /\ panel[o] \notin Ended
        /\ panel' = [panel EXCEPT ![o] = "canceled"]
        /\ Enter(s, [sess[s] EXCEPT !.at = "confirmed"])
        /\ UNCHANGED <<account, order, nextId, coupon, commission, locked>>

\* ProviderError: not confirmed, or confirmed and the answer lost.
RefusalIgnored(s) == Enter(s, [sess[s] EXCEPT !.at = "confirmed"])
RefusalEnds(s) == Finish(s)
CancelRefused(s) ==
    LET o == sess[s].o
    IN  /\ sess[s].at = "canceling"
        /\ \/ UNCHANGED panel
           \/ /\ "timeout" \in Faults /\ panel[o] \notin Ended
              /\ panel' = [panel EXCEPT ![o] = "canceled"]
        /\ RefusalEnds(s)
        /\ UNCHANGED <<account, order, nextId, coupon, commission, locked>>

\* refunded_so_far, read without any lock.
CancelCount(s) ==
    /\ sess[s].at = "confirmed" /\ sess[s].seen # "pending"
    /\ Enter(s, [sess[s] EXCEPT !.at = "counted", !.owed = Owed(sess[s].o)])
    /\ UNCHANGED <<account, order, nextId, coupon, commission, panel, locked>>

\* Credit what was owed when counted, then "canceled".
CancelCredit(s) ==
    LET o == sess[s].o
        owed == sess[s].owed
    IN  /\ sess[s].at = "counted"
        /\ Credits(o, "refund-cancel", owed) => Unlocked(order[o].owner)
        /\ account' = AccountCredited(o, "refund-cancel", owed)
        /\ order' = [order EXCEPT ![o] = Credited(o, "refund-cancel", owed, "canceled")]
        /\ Finish(s)
        /\ UNCHANGED <<nextId, coupon, commission, panel, locked>>

\* The branch for an order thought to be still reserved.
CancelRelease(s) ==
    LET o == sess[s].o
    IN  /\ sess[s].at = "confirmed" /\ sess[s].seen = "pending"
        /\ Unlocked(order[o].owner)
        /\ account' = AccountReleased(o, "release-cancel")
        /\ order' = [order EXCEPT ![o].status = "canceled",
                                  ![o].posts = @ \cup {"release-cancel"}]
        /\ Finish(s)
        /\ UNCHANGED <<nextId, coupon, commission, panel, locked>>

------------------------------------------------------------------------------
\* request_refill

RefillLoad(s, o) ==
    /\ "refill" \in Operations
    /\ sess[s].at = "idle"
    /\ order[o].status \in REFILLABLE_STATUSES /\ order[o].placed
    /\ Enter(s, Session("refilling", order[o].owner, o, order[o].status))
    /\ UNCHANGED <<account, order, nextId, coupon, commission, panel, locked>>

\* The panel accepted the refill; a refusal leaves everything as it was.
RefillCommit(s) ==
    /\ sess[s].at = "refilling"
    /\ \/ order' = [order EXCEPT ![sess[s].o].status = "refilling"]
       \/ UNCHANGED order
    /\ Finish(s)
    /\ UNCHANGED <<account, nextId, coupon, commission, panel, locked>>

------------------------------------------------------------------------------
\* resolve_review_order: the operator looks the order up on the panel first.

ResolveLoad(s, o) ==
    /\ "resolve" \in Operations
    /\ sess[s].at = "idle" /\ order[o].status = "review"
    /\ Enter(s, [Session("resolving", order[o].owner, o, "review") EXCEPT
                   !.report = IF panel[o] = None THEN "release" ELSE "attach"])
    /\ UNCHANGED <<account, order, nextId, coupon, commission, panel, locked>>

\* _release_coupon_use of a committed order.
CouponKept(o) == coupon
CouponReturned(o) ==
    IF o \in coupon.by
    THEN [used |-> IF coupon.used > 0 THEN coupon.used - 1 ELSE 0, by |-> coupon.by \ {o}]
    ELSE coupon

\* --release: _fail_and_release, with the coupon use given back.
ResolveRelease(s) ==
    LET o == sess[s].o
    IN  /\ sess[s].at = "resolving" /\ sess[s].report = "release"
        /\ Unlocked(order[o].owner)
        /\ account' = AccountReleased(o, "release")
        /\ order' = [order EXCEPT ![o].status = "failed", ![o].posts = @ \cup {"release"}]
        /\ coupon' = CouponReturned(o)
        /\ Finish(s)
        /\ UNCHANGED <<nextId, commission, panel, locked>>

\* --attach: capture the held funds (once) and go on as processing.
\* Without enough reserved the capture raises WalletError and nothing happens.
ResolveAttach(s) ==
    LET o == sess[s].o
        u == order[o].owner
        funded == "capture" \in order[o].posts \/ account[u].reserved >= Charge[o]
    IN  /\ sess[s].at = "resolving" /\ sess[s].report = "attach"
        /\ Unlocked(u)
        /\ account' = IF funded THEN AccountCaptured(o) ELSE account
        /\ order' = IF ~funded THEN order
                    ELSE [order EXCEPT ![o].status = "processing", ![o].placed = TRUE,
                                       ![o].posts = @ \cup {"capture"}]
        /\ Finish(s)
        /\ UNCHANGED <<nextId, coupon, commission, panel, locked>>

------------------------------------------------------------------------------
\* A killed process, a lost connection or an unexpected exception: the
\* transaction rolls back; what the panel did stays done.
Crash(s) ==
    /\ "crash" \in Faults /\ sess[s].at # "idle"
    /\ locked' = [u \in Users |-> IF locked[u] = s THEN None ELSE locked[u]]
    /\ Finish(s)
    /\ UNCHANGED <<account, order, nextId, coupon, commission, panel>>

Place(s) ==
    \/ \E u \in Users, k \in Keys, c \in Coupons : PlaceQuote(s, u, k, c)
    \/ PlaceReplay(s) \/ PlaceRefuse(s) \/ PlaceReserve(s)
    \/ \E reply \in {"ok", "timeout", "refused"} :
         PanelAccepts(s, reply) \/ PanelDeclines(s, reply)
    \/ PlaceAccepted(s) \/ PlaceReview(s) \/ PlaceFailed(s)

SyncApply(s) ==
    \/ SyncStatus(s) \/ SyncCompleted(s)
    \/ \E r \in Undelivered : SyncPartial(s, r)
    \/ \E st \in {"canceled", "failed"} : SyncRefund(s, st)

Sync(s) ==
    \/ \E o \in Orders : SyncLoad(s, o)
    \/ SyncReport(s) \/ SyncUnavailable(s) \/ SyncApply(s)

Cancel(s) ==
    \/ \E o \in Orders : CancelLoad(s, o)
    \/ CancelConfirmed(s) \/ CancelRefused(s)
    \/ CancelCount(s) \/ CancelCredit(s) \/ CancelRelease(s)

Refill(s) == \/ \E o \in Orders : RefillLoad(s, o)
             \/ RefillCommit(s)

Resolve(s) == \/ \E o \in Orders : ResolveLoad(s, o)
              \/ ResolveRelease(s) \/ ResolveAttach(s)

Next ==
    \/ \E o \in Orders : PanelAdvance(o)
    \/ \E s \in Sessions :
         Place(s) \/ Sync(s) \/ Cancel(s) \/ Refill(s) \/ Resolve(s) \/ Crash(s)

Spec == Init /\ [][Next]_vars

\* Fairness.  The worker loads every open order every 20 seconds, the panel
\* keeps answering and keeps working, and handlers run to their end.
Fairness ==
    /\ \A o \in Orders : /\ WF_vars(PanelAdvance(o))
                         /\ SF_vars(\E s \in Sessions : SyncLoad(s, o))
    /\ \A s \in Sessions :
         /\ \A o \in Orders : SF_vars(sess[s].o = o /\ SyncReport(s))
         /\ WF_vars(SyncApply(s))
         /\ WF_vars(CancelConfirmed(s) \/ CancelRefused(s) \/ CancelCount(s)
                      \/ CancelCredit(s) \/ CancelRelease(s))
         /\ WF_vars(RefillCommit(s) \/ ResolveRelease(s) \/ ResolveAttach(s))
         /\ WF_vars(PlaceReplay(s) \/ PlaceRefuse(s) \/ PlaceReserve(s))
         /\ WF_vars(\E reply \in {"ok", "timeout", "refused"} :
                      PanelAccepts(s, reply) \/ PanelDeclines(s, reply))
         /\ WF_vars(PlaceAccepted(s) \/ PlaceReview(s) \/ PlaceFailed(s))

FairSpec == Spec /\ Fairness

------------------------------------------------------------------------------
\* Properties

Captured(o) == "capture" \in order[o].posts
Held(o) == order[o].posts = {"reserve"}

\* What the ledger says became of the charge of order o.
Stage(o) ==
    LET returned == order[o].posts \cap {"release", "release-cancel"} # {}
    IN  CASE "reserve" \notin order[o].posts -> "none"
          [] Captured(o) /\ returned         -> "both"
          [] Captured(o) /\ ~returned        -> "taken"
          [] ~Captured(o) /\ returned        -> "returned"
          [] OTHER                           -> "held"

Money == INSTANCE Escrow WITH
            owner  <- [o \in Orders |-> order[o].owner],
            stage  <- [o \in Orders |-> Stage(o)],
            repaid <- [o \in Orders |-> order[o].refunded]

\* The order engine implements the escrow: every charge is held, then taken or
\* returned, once, and the balances move by exactly that (orders.py:221-614).
ImplementsEscrow == Money!Spec

\* Refunds are capped to what was charged (orders.py:206, 489, 521, 601).
RefundCap ==
    \A o \in Orders : order[o].refunded <= IF Captured(o) THEN Charge[o] ELSE 0

\* What is reserved is, to the paisa, the charges of the orders under review: no
\* release takes what another order holds (orders.py:327, 356-374, 655; wallet.py:310).
HoldsBacked ==
    \A u \in Users :
        LET underReview == {o \in Orders : order[o].owner = u /\ order[o].status = "review"}
        IN  /\ \A o \in underReview : Held(o)
            /\ account[u].reserved = SumFunctionOnSet(Charge, underReview)

\* The handler that is placing o has not committed yet.
BeingPlaced(o) == \E s \in Sessions : sess[s].at \in {"calling", "answered"} /\ sess[s].o = o

\* An order the panel accepted is charged, or its charge is held for review
\* (orders.py:356-374).
NoFreeDelivery ==
    \A o \in Orders :
        panel[o] # None /\ ~BeingPlaced(o) =>
            Captured(o) \/ (Held(o) /\ order[o].status = "review")

\* An order that ends without delivery costs nothing (orders.py:459-461, 583-614).
UndeliveredPaidBack ==
    \A o \in Orders :
        order[o].status \in {"canceled", "failed", "refunded"} /\ Captured(o) =>
            order[o].refunded = Charge[o]

\* What the panel delivered in full is not refunded (perfectpanel.py:189-208).
DeliveredNotRefunded ==
    \A o \in Orders : panel[o] = "completed" => order[o].refunded = 0

\* One request key buys one order (orders.py:256-276).
KeyPlacedOnce ==
    \A o, p \in Orders :
        /\ order[o].asked = order[p].asked /\ order[o].owner = order[p].owner
        /\ order[o].status \notin {"none", "failed"}
        /\ order[p].status \notin {"none", "failed"}
        => o = p

\* The coupon's own limits (pricing.py:211-222).
CouponWithinLimits ==
    /\ Cardinality(coupon.by) <= MaxUses
    /\ \A u \in Users : Cardinality({o \in coupon.by : order[o].owner = u}) <= PerUserLimit

\* used_count counts the redemptions, all by orders that were accepted or may
\* have been (orders.py:170-186, 338-349).
CouponCountExact ==
    /\ coupon.used = Cardinality(coupon.by)
    /\ \A o \in coupon.by : order[o].status # "failed"

\* A referrer earns on at most the first CommissionCap orders of a buyer
\* (referrals.py:183-200).
CommissionCapped ==
    \A u \in Users : Cardinality({o \in commission : order[o].owner = u}) <= CommissionCap

\* A commission is earned by delivery only: the order was completed by the panel
\* (orders.py:462-468, referrals.py:183-224).
CommissionOnDelivery == \A o \in commission : panel[o] = "completed"

\* A finished order stays finished, except that a completed one may be refilled
\* (orders.py:435, 553, 576).
FinishedStays ==
    [][\A o \in Orders :
         order[o].status \in TERMINAL_STATUSES =>
            \/ order'[o].status \in TERMINAL_STATUSES
            \/ order[o].status = "completed" /\ order'[o].status = "refilling"]_vars

\* Every order the panel works on ends up settled in our books and stays so,
\* whatever stale statuses were written on the way (workers.py:33-53).
EventuallySettled ==
    \A o \in Orders :
        order[o].placed ~> [](order[o].status \in TERMINAL_STATUSES \cup {"partial"})
==============================================================================
