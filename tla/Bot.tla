-------------------------------- MODULE Bot ---------------------------------
(***************************************************************************)
(* app/bot: the middlewares of bot/main.py and the conversations of        *)
(* bot/handlers (start, services, promoter, reseller, admin).              *)
(*                                                                         *)
(* Updates are handled as concurrent tasks, those of one user included.    *)
(* A task reads the conversation's state when its update arrives (which    *)
(* picks the handler), then the sender's users row (AccessMiddleware), and *)
(* only then runs the handler, which sees that same row: session.get       *)
(* answers from the identity map.  Conversations live in MemoryStorage and *)
(* change at once; database changes are committed by DbSessionMiddleware   *)
(* after the handler, or are lost.                                         *)
(***************************************************************************)
EXTENDS Integers, Sequences, FiniteSets

CONSTANTS Users,
          Owner,       \* settings.owner_telegram_id
          Admins,      \* made admins by set-role before the run
          Regulars,    \* customers who took the welcome bonus before the run
          Applied,     \* applications made before the run
          Tasks,       \* updates in progress at the same time
          Uses,        \* bound: the handlers each user's updates are for; "role": set-role
          Price,       \* the charge of the order the form is about
          MinPayout,   \* MIN_PAYOUT_PAISE
          MaxUpdates,  \* bound: updates received
          MaxApps,     \* bound: role_applications.id handed out
          Nobody

ASSUME BotAssumption ==
    /\ Admins \subseteq Users /\ Regulars \subseteq Users \ Admins /\ Nobody \notin Users
    /\ Uses \in [Users -> SUBSET STRING]
    /\ Applied \in Seq([u : Admins \cup Regulars, kind : {"reseller", "promoter"},
                        status : {"pending", "approved", "rejected"}])
    /\ Price \in Nat \ {0} /\ MinPayout \in Nat \ {0}

VARIABLES row,      \* committed users rows
          cash,     \* available_paise of each user
          posted,   \* money posted by kind: welcome, adjust, payout, order
          welcomed, \* how often the welcome bonus was posted
          partner,  \* active Reseller and Promoter rows: user -> kinds
          apps,     \* role_applications in id order
          stopped,  \* the kill_new_orders setting
          chat,     \* per user: FSM state and data
          task,     \* updates being handled
          updates   \* updates received so far (bounds the run)

vars == <<row, cash, posted, welcomed, partner, apps, stopped, chat, task, updates>>
money == <<cash, posted, welcomed>>
desk == <<partner, apps, stopped>>

Kinds == {"reseller", "promoter"}
Staff == {"owner", "admin"}
Postings == {"welcome", "adjust", "payout", "order"}

\* form: the data hold a service_id; kind: a partner kind, or the mode of the
\* adjustment (credit or lookup).
NoChat == [state |-> "none", form |-> FALSE, kind |-> "none", target |-> Nobody, amount |-> 0]

\* x: what the update carries; row, cash, chat: as the task's session and its
\* handler have loaded them; staff: was the sender staff at any time since the
\* update arrived (history, read by the properties only).
NoRow == [known |-> FALSE, role |-> "user", terms |-> FALSE, bonus |-> FALSE]
Free == [at |-> "free", u |-> Nobody, h |-> "none", x |-> 0,
         row |-> NoRow, cash |-> 0, chat |-> NoChat, staff |-> FALSE]

NewRow(u) == [NoRow EXCEPT !.known = TRUE, !.role = IF u = Owner THEN "owner" ELSE "user"]

\* The admins use the bot from a time when the bonus setting was zero; those who
\* are neither admins nor regulars have not met it yet.
Before(u) ==
    CASE u \in Admins -> [NoRow EXCEPT !.known = TRUE, !.role = "admin", !.terms = TRUE]
      [] u \in Regulars -> [NoRow EXCEPT !.known = TRUE, !.terms = TRUE, !.bonus = TRUE]
      [] OTHER -> NoRow
Welcomed(u) == IF u \in Regulars THEN 1 ELSE 0

Init ==
    /\ row = [u \in Users |-> Before(u)]
    /\ cash = [u \in Users |-> Welcomed(u)]
    /\ posted = [u \in Users |-> [p \in Postings |-> IF p = "welcome" THEN Welcomed(u) ELSE 0]]
    /\ welcomed = [u \in Users |-> Welcomed(u)]
    /\ partner = [u \in Users |-> IF u \in Admins THEN Kinds ELSE {}]
    /\ apps = Applied
    /\ stopped = FALSE
    /\ chat = [u \in Users |-> NoChat]
    /\ task = [t \in Tasks |-> Free]
    /\ updates = 0

------------------------------------------------------------------------------
\* Dispatch and the middlewares.

\* Text goes to the handler of the conversation's state, whatever it says.
TextHandlers == {"link", "qty", "comments", "mentions", "coupon",
                 "pitch", "payout", "user", "amount", "reason"}
FormStates == {"link", "qty", "comments", "mentions", "coupon"}
Commands == {"start", "menu", "admin", "cancel"}

\* A button other than those of /start needs the menu, so a known sender.
Sendable(u, h) ==
    CASE h \in TextHandlers -> chat[u].state = h
      [] h \in Commands -> TRUE
      [] OTHER -> row[u].known

IsStaff(r, u) == r.role \in Staff \/ u = Owner

\* What the update carries; a pitch and a /cancel, the conversation they are for.
Arguments(u, h) ==
    CASE h = "amount" -> {-1, 1}
      [] h = "payout" -> {MinPayout - 1, MinPayout}
      [] h \in {"approve", "reject"} -> 1..Len(apps)
      [] h \in {"apply", "pay"} -> Kinds
      [] h = "user" -> Users
      [] h = "pitch" -> {chat[u].kind}
      [] h = "cancel" -> {chat[u].state}
      [] OTHER -> {0}

Receive(t, u, h) ==
    /\ task[t].at = "free" /\ updates < MaxUpdates
    /\ h \in Uses[u] /\ Sendable(u, h)
    /\ updates' = updates + 1
    /\ \E x \in Arguments(u, h) :
         task' = [task EXCEPT ![t] = [Free EXCEPT !.at = "received", !.u = u, !.h = h, !.x = x,
                                                  !.staff = IsStaff(row[u], u)]]
    /\ UNCHANGED <<row, money, desk, chat>>

\* AccessMiddleware: an account without accepted terms gets the terms instead;
\* a sender without a row passes.
TermsFree == {"start", "accept"}
GateOpen(r, h) == TRUE
Gate(r, h) == ~r.known \/ r.terms \/ h \in TermsFree

Admit(t) ==
    LET u == task[t].u IN
    /\ task[t].at = "received"
    /\ task' = [task EXCEPT ![t] =
                  IF Gate(row[u], task[t].h)
                  THEN [@ EXCEPT !.at = "admitted", !.row = row[u], !.cash = cash[u],
                                 !.chat = chat[u]]
                  ELSE Free]
    /\ UNCHANGED <<row, money, desk, chat, updates>>

\* The process restarts: conversations and updates in progress are gone.
Restart ==
    /\ \E t \in Tasks : task[t].at # "free"
    /\ chat' = [u \in Users |-> NoChat]
    /\ task' = [t \in Tasks |-> Free]
    /\ UNCHANGED <<row, money, desk, updates>>

------------------------------------------------------------------------------
\* Parts of handlers.

Handles(t, u, h) == task[t].at = "admitted" /\ task[t].u = u /\ task[t].h = h
Ends(t) == task' = [task EXCEPT ![t] = Free] /\ UNCHANGED updates

Says(u, c) == chat' = [chat EXCEPT ![u] = c]
Goes(u, state) == Says(u, [chat[u] EXCEPT !.state = state])
Clears(u) == Says(u, NoChat)

\* get_or_create_user: a missing row is created, the unique key makes that once;
\* the owner's role is restored; staff get their partner rows back.
Ensured(u) ==
    IF ~row[u].known THEN NewRow(u)
    ELSE IF u = Owner THEN [row[u] EXCEPT !.role = "owner"] ELSE row[u]
OwnerPartners(t, u) ==
    IF task[t].row.role \in Staff \/ u = Owner THEN [partner EXCEPT ![u] = Kinds] ELSE partner
EnsuresRows(t, u) ==
    /\ row' = [row EXCEPT ![u] = Ensured(u)]
    /\ partner' = OwnerPartners(t, u)
Ensures(t, u) == EnsuresRows(t, u) /\ UNCHANGED <<apps, stopped>>
EnsuresPlain(t, u) == Ensures(t, u) /\ UNCHANGED money

\* wallet.credit / wallet.debit: the row is locked and read again.
Posts(u, p, n) ==
    /\ cash' = [cash EXCEPT ![u] = @ + n]
    /\ posted' = [posted EXCEPT ![u][p] = @ + n]
CoveredWhenLoaded(t, u, n) == task[t].cash >= n
Covered(t, u, n) == cash[u] >= n

\* The row of the sender, as the task's session knows it.
StaffSeen(t) == IsStaff(task[t].row, task[t].u)

\* is_promoter_user / is_reseller_user; partner rows are read afresh.
IsPartner(t, u, kind) ==
    StaffSeen(t) \/ task[t].row.role = kind \/ kind \in partner[u]

------------------------------------------------------------------------------
\* start.py

Start(t, u) ==
    /\ Handles(t, u, "start") /\ Ends(t)
    /\ Clears(u) /\ EnsuresPlain(t, u)

\* accept_terms.  The bonus setting may be zero; the flag is the loaded row's,
\* the idempotency key is looked up under the row lock.
GrantedFlag(t, u) == task[t].row.bonus
Granted(t, u) == welcomed[u] > 0
AcceptTerms(t, u, bonus) ==
    /\ Handles(t, u, "accept") /\ Ends(t)
    /\ row' = [row EXCEPT ![u] = [Ensured(u) EXCEPT !.terms = TRUE,
                                    !.bonus = @ \/ (bonus > 0 /\ ~task[t].row.bonus)]]
    /\ IF bonus > 0 /\ ~task[t].row.bonus /\ ~Granted(t, u)
       THEN /\ Posts(u, "welcome", bonus)
            /\ welcomed' = [welcomed EXCEPT ![u] = @ + 1]
       ELSE UNCHANGED money
    /\ partner' = OwnerPartners(t, u)
    /\ UNCHANGED <<apps, stopped, chat>>

\* go_home, cmd_menu; the state is cleared first.
Menu(t, u) ==
    /\ \E h \in {"menu", "home"} : Handles(t, u, h)
    /\ Ends(t) /\ Clears(u) /\ EnsuresPlain(t, u)

\* /cancel: the order form's own handlers only clear; the general one does
\* nothing when the conversation is over by now.
CancelForm(t, u) ==
    /\ Handles(t, u, "cancel") /\ Ends(t)
    /\ Clears(u)
    /\ IF task[t].x \in FormStates \/ chat[u].state = "none"
       THEN UNCHANGED <<row, money, desk>> ELSE EnsuresPlain(t, u)

------------------------------------------------------------------------------
\* services.py: the order form.

ServiceOrder(t, u) ==
    /\ Handles(t, u, "order") /\ Ends(t)
    /\ \/ Says(u, [NoChat EXCEPT !.state = "link", !.form = TRUE])
       \/ UNCHANGED chat                            \* service unavailable
    /\ UNCHANGED <<row, money, desk>>

\* An answer moves the form on, is asked for again, or finds the service gone;
\* when another update has cleared the data, it ends in a KeyError.
FormStep(t, u, h, nexts) ==
    /\ Handles(t, u, h) /\ Ends(t)
    /\ \/ /\ task[t].chat.form \/ h = "mentions"
          /\ \E state \in nexts : Goes(u, state)
       \/ h \in {"link", "qty"} /\ task[t].chat.form /\ Clears(u)
       \/ (h \in {"link", "qty", "coupon"} \/ ~task[t].chat.form) /\ UNCHANGED chat
    /\ UNCHANGED money

FormLink(t, u) == FormStep(t, u, "link", {"qty"}) /\ UNCHANGED <<row, desk>>
FormQty(t, u) ==
    FormStep(t, u, "qty", {"comments", "mentions", "coupon"}) /\ UNCHANGED <<row, desk>>
FormComments(t, u) ==
    FormStep(t, u, "comments", {"mentions", "coupon"}) /\ UNCHANGED <<row, desk>>
FormMentions(t, u) == FormStep(t, u, "mentions", {"coupon"}) /\ UNCHANGED <<row, desk>>
FormCoupon(t, u) == FormStep(t, u, "coupon", {"confirm"}) /\ Ensures(t, u)

\* cb_confirm_order reads the state; place_order charges under the row lock, or
\* replays, or refuses (kill switch, funds, the quote); the form ends either way.
ConfirmOrder(t, u) ==
    /\ Handles(t, u, "confirm") /\ Ends(t)
    /\ IF task[t].chat.state # "confirm" \/ ~task[t].chat.form
       THEN UNCHANGED <<row, money, desk, chat>>
       ELSE /\ Ensures(t, u) /\ Clears(u)
            /\ \/ /\ ~stopped /\ Covered(t, u, Price)
                  /\ Posts(u, "order", -Price) /\ UNCHANGED welcomed
               \/ UNCHANGED money

------------------------------------------------------------------------------
\* promoter.py, reseller.py

PendingApps(u, kind) ==
    {i \in 1..Len(apps) : apps[i] = [u |-> u, kind |-> kind, status |-> "pending"]}

PartnerApply(t, u) ==
    LET kind == task[t].x IN
    /\ Handles(t, u, "apply") /\ Ends(t) /\ EnsuresPlain(t, u)
    /\ IF IsPartner(t, u, kind) \/ PendingApps(u, kind) # {} THEN UNCHANGED chat
       ELSE Says(u, [chat[u] EXCEPT !.state = "pitch", !.kind = kind])

\* A pitch that is too short is asked for again.
GotPitch(t, u) ==
    LET kind == task[t].x IN
    /\ Handles(t, u, "pitch") /\ Ends(t)
    /\ \/ UNCHANGED <<row, partner, apps, chat>>
       \/ /\ EnsuresRows(t, u) /\ Clears(u)
          /\ IF PendingApps(u, kind) # {} THEN UNCHANGED apps
             ELSE /\ Len(apps) < MaxApps
                  /\ apps' = Append(apps, [u |-> u, kind |-> kind, status |-> "pending"])
    /\ UNCHANGED <<money, stopped>>

PartnerPay(t, u) ==
    LET kind == task[t].x IN
    /\ Handles(t, u, "pay") /\ Ends(t) /\ EnsuresPlain(t, u)
    /\ IF IsPartner(t, u, kind)
       THEN Says(u, [chat[u] EXCEPT !.state = "payout", !.kind = kind])
       ELSE UNCHANGED chat

\* request_payout: looked at as loaded, then debited under the lock.  A refused
\* amount leaves the conversation where it is.
GotPayout(t, u) ==
    LET n == task[t].x IN
    /\ Handles(t, u, "payout") /\ Ends(t) /\ Ensures(t, u)
    /\ IF n >= MinPayout /\ task[t].cash >= n /\ Covered(t, u, n)
       THEN Posts(u, "payout", -n) /\ UNCHANGED welcomed /\ Clears(u)
       ELSE UNCHANGED <<money, chat>>

------------------------------------------------------------------------------
\* admin.py

\* cmd_admin and the panel's home button clear the state before they check.
AdminHome(t, u) ==
    /\ Handles(t, u, "admin") /\ Ends(t)
    /\ Clears(u) /\ EnsuresPlain(t, u)

\* cb_credit_start, cb_lookup_start
AdjustStart(t, u) ==
    /\ Handles(t, u, "credit") /\ Ends(t) /\ EnsuresPlain(t, u)
    /\ IF ~StaffSeen(t) THEN UNCHANGED chat
       ELSE \E kind \in {"credit", "lookup"} :
              Says(u, [chat[u] EXCEPT !.state = "user", !.kind = kind])

Refused(t) == ~StaffSeen(t)

GotUser(t, u) ==
    LET target == task[t].x IN
    /\ Handles(t, u, "user") /\ Ends(t) /\ EnsuresPlain(t, u)
    /\ IF Refused(t) THEN Clears(u)
       ELSE IF ~row[target].known THEN UNCHANGED chat
       ELSE IF chat[u].kind = "lookup" THEN Clears(u)
       ELSE Says(u, [chat[u] EXCEPT !.state = "amount", !.target = target])

GotAmount(t, u) ==
    /\ Handles(t, u, "amount") /\ Ends(t) /\ EnsuresPlain(t, u)
    /\ IF Refused(t) THEN Clears(u)
       ELSE Says(u, [chat[u] EXCEPT !.state = "reason", !.amount = task[t].x])

\* Data another update has cleared end in a KeyError, a debit that is not
\* covered in a WalletError.
NotRefused(t) == FALSE
RefusedNow(t) == Refused(t)
GotReason(t, u) ==
    LET target == task[t].chat.target
        n == task[t].chat.amount IN
    /\ Handles(t, u, "reason") /\ Ends(t)
    /\ IF RefusedNow(t) THEN Clears(u) /\ EnsuresPlain(t, u)
       ELSE IF target = Nobody \/ n = 0 THEN UNCHANGED <<row, money, desk, chat>>
       ELSE /\ Clears(u) /\ Ensures(t, u)
            /\ IF n > 0 \/ Covered(t, target, -n)
               THEN Posts(target, "adjust", n) /\ UNCHANGED welcomed
               ELSE UNCHANGED money

ToggleKill(t, u) ==
    /\ Handles(t, u, "toggle") /\ Ends(t) /\ EnsuresRows(t, u)
    /\ stopped' = IF StaffSeen(t) THEN ~stopped ELSE stopped
    /\ UNCHANGED <<money, apps, chat>>

\* cb_app_decide: any application, decided already or not.
Promoted(i) == [row EXCEPT ![apps[i].u].role = IF @ = "user" THEN apps[i].kind ELSE @]
Decide(t, verdict) ==
    LET i == task[t].x IN
    /\ apps' = [apps EXCEPT ![i].status = verdict]
    /\ IF verdict = "rejected" THEN UNCHANGED <<row, partner>>
       ELSE /\ partner' = [OwnerPartners(t, task[t].u) EXCEPT ![apps[i].u] = @ \cup {apps[i].kind}]
            /\ row' = Promoted(i)

AppDecide(t, u) ==
    /\ \/ Handles(t, u, "approve") /\ StaffSeen(t) /\ Decide(t, "approved")
       \/ Handles(t, u, "reject") /\ StaffSeen(t) /\ Decide(t, "rejected")
       \/ /\ task[t].h \in {"approve", "reject"} /\ Handles(t, u, task[t].h) /\ ~StaffSeen(t)
          /\ EnsuresRows(t, u) /\ UNCHANGED apps
    /\ Ends(t)
    /\ UNCHANGED <<money, stopped, chat>>

\* An exception before the commit: the conversation has moved, the rows have not.
CommitLost(t) ==
    LET u == task[t].u IN
    /\ task[t].at = "admitted" /\ Ends(t)
    /\ \/ UNCHANGED chat
       \/ Clears(u)
    /\ UNCHANGED <<row, money, desk>>

\* cli.py set-role, by an operator with a shell.
SetRole(u, r) ==
    /\ "role" \in Uses[u] /\ row[u].known /\ row[u].role # r /\ updates < MaxUpdates
    /\ row' = [row EXCEPT ![u].role = r]
    /\ updates' = updates + 1
    /\ task' = [t \in Tasks |->
                  IF task[t].u = u /\ task[t].at # "free" /\ r \in Staff
                  THEN [task[t] EXCEPT !.staff = TRUE] ELSE task[t]]
    /\ UNCHANGED <<money, desk, chat>>

Form(t, u) ==
    \/ ServiceOrder(t, u) \/ FormLink(t, u) \/ FormQty(t, u) \/ FormComments(t, u)
    \/ FormMentions(t, u) \/ FormCoupon(t, u) \/ ConfirmOrder(t, u)
Partner(t, u) ==
    PartnerApply(t, u) \/ GotPitch(t, u) \/ PartnerPay(t, u) \/ GotPayout(t, u)
Adjust(t, u) ==
    AdjustStart(t, u) \/ GotUser(t, u) \/ GotAmount(t, u) \/ GotReason(t, u)
Desk(t, u) == AdminHome(t, u) \/ ToggleKill(t, u) \/ AppDecide(t, u)

Next ==
    \/ \E t \in Tasks :
         \/ \E u \in Users :
              \/ \E h \in Uses[u] : Receive(t, u, h)
              \/ Start(t, u) \/ Menu(t, u) \/ CancelForm(t, u)
              \/ \E bonus \in {0, 1} : AcceptTerms(t, u, bonus)
              \/ Form(t, u) \/ Partner(t, u) \/ Adjust(t, u) \/ Desk(t, u)
         \/ Admit(t) \/ CommitLost(t)
    \/ \E u \in Users, r \in {"user", "admin"} : SetRole(u, r)
    \/ Restart

Spec == Init /\ [][Next]_vars

------------------------------------------------------------------------------
\* Properties

\* No posting is lost or invented and nobody's balance becomes negative, though
\* payouts and orders look at a balance loaded before they wait for the row lock
\* (referrals.py:544, wallet.py:127).
CashAccounted ==
    \A u \in Users :
        /\ cash[u] >= 0
        /\ cash[u] = posted[u].welcome + posted[u].adjust + posted[u].payout + posted[u].order

\* Double taps on "I agree", and taps after the bonus was switched on, grant the
\* welcome bonus once (start.py:134-150).
WelcomeOnce == \A u \in Users : welcomed[u] <= 1

\* Whoever has not accepted the terms gets no conversation to its end: no order,
\* no payout, no application (bot/main.py:73-137).
TermsFirst ==
    \A u \in Users :
        posted[u].order # 0 \/ posted[u].payout # 0 \/ (\E i \in 1..Len(apps) : apps[i].u = u)
            => row[u].terms

\* Adjustments, decisions and switches are the work of updates whose sender was
\* staff at some time while they were handled: no conversation, and no old
\* button, outlives its sender's role (admin.py:86-625).
StaffEffect ==
    \/ stopped' # stopped
    \/ \E u \in Users : posted'[u].adjust # posted[u].adjust
    \/ \E i \in 1..Len(apps) : apps'[i] # apps[i]
StaffOnly ==
    [][StaffEffect => \E t \in Tasks : /\ task[t].at = "admitted" /\ task'[t].at = "free"
                                       /\ task[t].staff]_vars
==============================================================================
