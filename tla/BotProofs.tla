------------------------------ MODULE BotProofs ------------------------------
(***************************************************************************)
(* Proofs about Bot for any number of users, of updates handled at the     *)
(* same time and of updates received.                                      *)
(*                                                                         *)
(* An update is let in by what its sender's row said when its task loaded  *)
(* it, and acts later.  What makes that safe is monotone: an account stays *)
(* known and its terms stay accepted, and no update but the operator's     *)
(* set-role makes anybody staff.  A conversation is opened by an admitted  *)
(* update only, so that the text it waits for is from an account with      *)
(* accepted terms.                                                         *)
(***************************************************************************)
EXTENDS Bot, TLAPS

States == FormStates \cup {"none", "confirm", "pitch", "payout", "user", "amount", "reason"}
Roles == Kinds \cup Staff \cup {"user"}
RowType == [known : BOOLEAN, role : Roles, terms : BOOLEAN, bonus : BOOLEAN]
ChatType == [state : States, form : BOOLEAN, kind : Kinds \cup {"none", "credit", "lookup"},
             target : Users \cup {Nobody}, amount : Int]
AppType == [u : Users, kind : Kinds, status : {"pending", "approved", "rejected"}]
Handlers == (UNION {Uses[u] : u \in Users}) \cup {"none"}
Arguables == Int \cup Users \cup Kinds \cup States
TaskType == [at : {"free", "received", "admitted"}, u : Users \cup {Nobody},
             h : Handlers, x : Arguables, row : RowType, cash : Int,
             chat : ChatType, staff : BOOLEAN]

Types ==
    /\ row \in [Users -> RowType]
    /\ cash \in [Users -> Nat] /\ posted \in [Users -> [Postings -> Int]]
    /\ welcomed \in [Users -> Nat]
    /\ apps \in Seq(AppType)
    /\ chat \in [Users -> ChatType] /\ task \in [Tasks -> TaskType]

\* What holds of a user, and of an update of user u that is being handled.
UserSound(u) ==
    /\ row[u].terms => row[u].known
    /\ chat[u].state # "none" => row[u].terms
    /\ chat[u].state = "pitch" => chat[u].kind \in Kinds
    /\ cash[u] = posted[u].welcome + posted[u].adjust + posted[u].payout + posted[u].order
    /\ welcomed[u] <= 1
    /\ posted[u].order # 0 \/ posted[u].payout # 0 => row[u].terms

NeedsTerms(h) == h \notin Commands \cup {"accept"}
ArgumentSound(h, x) ==
    /\ h \in {"amount", "payout"} => x \in Int
    /\ h = "user" => x \in Users
    /\ h \in {"apply", "pay", "pitch"} => x \in Kinds
    /\ h \in {"approve", "reject"} => x \in 1..Len(apps)
TaskSound(k) ==
    k.at # "free" =>
        /\ k.u \in Users /\ ArgumentSound(k.h, k.x)
        /\ NeedsTerms(k.h) => row[k.u].known
        /\ NeedsTerms(k.h) /\ k.at = "admitted" => row[k.u].terms
        /\ IsStaff(row[k.u], k.u) => k.staff
        /\ k.at = "admitted" /\ IsStaff(k.row, k.u) => k.staff

\* The inductive invariant.
Inv ==
    /\ Types
    /\ \A u \in Users : UserSound(u)
    /\ \A t \in Tasks : TaskSound(task[t])
    /\ \A i \in 1..Len(apps) : row[apps[i].u].terms

\* What no update does to a row.
Grows ==
    /\ row' \in [Users -> RowType]
    /\ \A u \in Users :
         /\ row[u].known => row'[u].known
         /\ row[u].terms => row'[u].terms
         /\ row'[u].terms => row'[u].known
         /\ IsStaff(row'[u], u) => IsStaff(row[u], u)

LEMMA FreeTyped == Free \in TaskType /\ NoChat \in ChatType /\ NoRow \in RowType
<1>1. NoChat \in ChatType
  BY DEF NoChat, ChatType, States
<1>2. NoRow \in RowType
  BY DEF NoRow, RowType, Roles
<1> HIDE DEF ChatType, RowType
<1>3. "none" \in Handlers /\ 0 \in Arguables
  BY DEF Handlers, Arguables
<1>4. Free \in TaskType
  BY <1>1, <1>2, <1>3 DEF Free, TaskType
<1> QED BY <1>1, <1>2, <1>4

LEMMA InitInv == Init => Inv
<1> SUFFICES ASSUME Init
             PROVE  Inv
  OBVIOUS
<1>1. ASSUME NEW u \in Users
      PROVE  /\ Before(u) \in RowType
             /\ Before(u).terms => Before(u).known
             /\ u \in Admins \cup Regulars => Before(u).terms
             /\ Welcomed(u) \in {0, 1}
  BY FreeTyped, BotAssumption DEF Before, Welcomed, RowType, NoRow, BotAssumption, Roles, Staff
<1>2. apps \in Seq(AppType) /\ \A i \in 1..Len(apps) : apps[i].u \in Admins \cup Regulars
  <2>1. Admins \cup Regulars \subseteq Users
    BY BotAssumption DEF BotAssumption
  <2> DEFINE Early == [u : Admins \cup Regulars, kind : {"reseller", "promoter"},
                       status : {"pending", "approved", "rejected"}]
  <2>2. apps \in Seq(Early)
    BY BotAssumption DEF BotAssumption, Init
  <2>3. \A a \in Early : a \in AppType /\ a.u \in Admins \cup Regulars
    BY <2>1 DEF AppType, Kinds
  <2> HIDE DEF Early
  <2> QED BY <2>2, <2>3
<1>3. Types
  <2>1. row = [u \in Users |-> Before(u)] /\ welcomed = [u \in Users |-> Welcomed(u)]
        /\ cash = [u \in Users |-> Welcomed(u)]
    BY DEF Init
  <2>2. row \in [Users -> RowType] /\ welcomed \in [Users -> Nat] /\ cash \in [Users -> Nat]
    BY <1>1, <2>1
  <2>4. posted \in [Users -> [Postings -> Int]]
    <3>1. posted = [u \in Users |-> [p \in Postings |-> IF p = "welcome" THEN Welcomed(u) ELSE 0]]
      BY DEF Init
    <3>2. \A u \in Users : Welcomed(u) \in Int
      BY <1>1
    <3> QED BY <3>1, <3>2
  <2>3. chat \in [Users -> ChatType] /\ task \in [Tasks -> TaskType]
    BY FreeTyped DEF Init
  <2> QED BY <1>2, <2>2, <2>3, <2>4 DEF Types
<1>4. ASSUME NEW u \in Users
      PROVE  UserSound(u)
  <2>1. /\ posted[u].welcome = Welcomed(u) /\ posted[u].adjust = 0
        /\ posted[u].payout = 0 /\ posted[u].order = 0
    BY DEF Postings, Init
  <2>2. chat[u].state = "none" /\ row[u] = Before(u) /\ cash[u] = Welcomed(u)
        /\ welcomed[u] = Welcomed(u)
    BY DEF NoChat, Init
  <2>3. Welcomed(u) = Welcomed(u) + 0 + 0 + 0 /\ Welcomed(u) <= 1
    BY <1>1
  <2> QED BY <1>1, <2>1, <2>2, <2>3 DEF UserSound
<1>5. \A t \in Tasks : TaskSound(task[t])
  BY DEF TaskSound, Free, Init
<1>6. \A i \in 1..Len(apps) : row[apps[i].u].terms
  BY <1>1, <1>2, BotAssumption DEF BotAssumption, Init
<1> QED BY <1>3, <1>4, <1>5, <1>6 DEF Inv

------------------------------------------------------------------------------
\* Money, applications and conversations after a step, as the invariant wants them.
MoneySound ==
    /\ cash' \in [Users -> Nat] /\ posted' \in [Users -> [Postings -> Int]]
    /\ welcomed' \in [Users -> Nat]
    /\ \A u \in Users :
         /\ cash'[u] = posted'[u].welcome + posted'[u].adjust + posted'[u].payout
                         + posted'[u].order
         /\ welcomed'[u] <= 1
         /\ posted'[u].order # 0 \/ posted'[u].payout # 0 => row'[u].terms
AppsSound ==
    /\ apps' \in Seq(AppType) /\ Len(apps') >= Len(apps)
    /\ \A i \in 1..Len(apps') : row'[apps'[i].u].terms
ChatSound ==
    /\ chat' \in [Users -> ChatType]
    /\ \A u \in Users : /\ chat'[u].state # "none" => row'[u].terms
                        /\ chat'[u].state = "pitch" => chat'[u].kind \in Kinds

\* A task is over; what the others rely on only grows.
LEMMA TaskEnds ==
    ASSUME Inv, NEW t \in Tasks, Grows, MoneySound, AppsSound, ChatSound,
           task' = [task EXCEPT ![t] = Free]
    PROVE  Inv'
<1>1. task \in [Tasks -> TaskType] /\ Len(apps) \in Nat /\ Len(apps') \in Nat
  BY DEF Inv, Types, AppsSound
<1>2. Types'
  BY <1>1, FreeTyped DEF Grows, MoneySound, AppsSound, ChatSound, Types, TaskType, AppType,
                         ChatType, RowType
<1>3. ASSUME NEW u \in Users
      PROVE  UserSound(u)'
  BY DEF UserSound, Grows, MoneySound, ChatSound
<1>4. ASSUME NEW s \in Tasks
      PROVE  TaskSound(task[s])'
  <2>1. CASE s = t
    <3>1. task'[s] = Free /\ Free.at = "free"
      BY <1>1, <2>1 DEF Free
    <3> QED BY <3>1 DEF TaskSound
  <2>2. CASE s # t
    <3>1. PICK k : k = task[s]
      OBVIOUS
    <3>2. task'[s] = k /\ TaskSound(k)
      BY <1>1, <2>2, <3>1 DEF Inv
    <3>3. TaskSound(k)'
      BY <1>1, <3>2 DEF TaskSound, ArgumentSound, Grows, AppsSound
    <3> QED BY <3>2, <3>3
  <2> QED BY <2>1, <2>2
<1> QED BY <1>2, <1>3, <1>4 DEF Inv, AppsSound

\* Nobody's money, or no application, changes.
LEMMA SameMoney == Inv /\ Grows /\ UNCHANGED money => MoneySound
<1> SUFFICES ASSUME Inv, Grows, UNCHANGED money
             PROVE  MoneySound
  OBVIOUS
<1>1. cash' = cash /\ posted' = posted /\ welcomed' = welcomed
  BY DEF money
<1> QED BY <1>1 DEF Inv, Types, UserSound, MoneySound, Grows

LEMMA SameApps == Inv /\ Grows /\ UNCHANGED apps => AppsSound
<1> SUFFICES ASSUME Inv, Grows, UNCHANGED apps
             PROVE  AppsSound
  OBVIOUS
<1>1. \A i \in 1..Len(apps) : apps[i].u \in Users
  <2>1. \A i \in 1..Len(apps) : apps[i] \in AppType
    BY DEF Inv, Types
  <2> QED BY <2>1 DEF AppType
<1>2. Len(apps) \in Nat
  BY DEF Inv, Types
<1>3. apps \in Seq(AppType) /\ \A i \in 1..Len(apps) : row'[apps[i].u].terms
  BY <1>1 DEF Inv, Types, Grows
<1> QED BY <1>2, <1>3 DEF AppsSound

\* A conversation is left alone, cleared, or goes on in an account with terms.
LEMMA ChatMoves ==
    ASSUME Inv, Grows, NEW u \in Users,
           \/ UNCHANGED chat
           \/ \E c \in ChatType :
                /\ chat' = [chat EXCEPT ![u] = c]
                /\ c.state = "none" \/ row'[u].terms
                /\ c.state = "pitch" => c.kind \in Kinds
    PROVE  ChatSound
<1>1. chat \in [Users -> ChatType]
  BY DEF Inv, Types
<1>2. \A v \in Users : /\ chat[v].state # "none" => row'[v].terms
                       /\ chat[v].state = "pitch" => chat[v].kind \in Kinds
  BY DEF Inv, UserSound, Grows
<1>3. CASE UNCHANGED chat
  BY <1>1, <1>2, <1>3 DEF ChatSound
<1>4. ASSUME NEW c \in ChatType, chat' = [chat EXCEPT ![u] = c],
             c.state = "none" \/ row'[u].terms,
             c.state = "pitch" => c.kind \in Kinds
      PROVE  ChatSound
  BY <1>1, <1>2, <1>4 DEF ChatSound
<1> QED BY <1>3, <1>4

\* get_or_create_user gives a new account or leaves what is there.
LEMMA EnsuredSound ==
    ASSUME Inv, NEW u \in Users
    PROVE  /\ Ensured(u) \in RowType /\ Ensured(u).known
           /\ row[u].terms => Ensured(u).terms
           /\ IsStaff(Ensured(u), u) => IsStaff(row[u], u)
<1>1. row[u] \in RowType /\ row[u].terms => row[u].known
  BY DEF Inv, Types, UserSound
<1>2. row[u] \in RowType
  BY DEF Inv, Types
<1>3. CASE ~row[u].known
  BY <1>1, <1>2, <1>3, FreeTyped DEF Ensured, NewRow, NoRow, RowType, Roles, Staff, IsStaff
<1>4. CASE row[u].known /\ u = Owner
  BY <1>2, <1>4 DEF Ensured, RowType, Roles, Staff, IsStaff
<1>5. CASE row[u].known /\ u # Owner
  BY <1>2, <1>5 DEF Ensured
<1> QED BY <1>3, <1>4, <1>5

LEMMA EnsureGrows ==
    ASSUME Inv, NEW u \in Users, row' = [row EXCEPT ![u] = Ensured(u)]
    PROVE  Grows
<1>1. row \in [Users -> RowType] /\ \A v \in Users : row[v].terms => row[v].known
  BY DEF Inv, Types, UserSound
<1> QED BY <1>1, EnsuredSound DEF Grows

LEMMA SameRowGrows == Inv /\ UNCHANGED row => Grows
BY DEF Inv, Types, UserSound, Grows

------------------------------------------------------------------------------
\* What the handler of an admitted update of u may rely on.
LEMMA Admitted ==
    ASSUME Inv, NEW t \in Tasks, NEW u \in Users, NEW h, Handles(t, u, h)
    PROVE  /\ task[t] \in TaskType /\ task[t].at = "admitted" /\ task[t].u = u
           /\ NeedsTerms(h) => row[u].terms
           /\ ArgumentSound(h, task[t].x)
           /\ StaffSeen(t) => task[t].staff
           /\ chat[u] \in ChatType /\ row[u] \in RowType
BY DEF Inv, Types, Handles, TaskSound, StaffSeen

\* The end of a handler that posts nothing.
LEMMA PlainEnds ==
    ASSUME Inv, NEW t \in Tasks, NEW u \in Users, Ends(t),
           EnsuresPlain(t, u) \/ UNCHANGED <<row, money, desk>>,
           \/ UNCHANGED chat
           \/ \E c \in ChatType :
                /\ Says(u, c)
                /\ c.state = "none" \/ row[u].terms
                /\ c.state = "pitch" => c.kind \in Kinds
    PROVE  Inv'
<1>1. task' = [task EXCEPT ![t] = Free] /\ UNCHANGED <<money, apps>>
  BY DEF Ends, EnsuresPlain, Ensures, desk
<1>2. Grows
  BY EnsureGrows, SameRowGrows DEF EnsuresPlain, Ensures, EnsuresRows
<1>3. ChatSound
  <2>1. row[u].terms => row'[u].terms
    BY <1>2 DEF Grows
  <2> QED BY <1>2, <2>1, ChatMoves DEF Says
<1> QED BY <1>1, <1>2, <1>3, SameMoney, SameApps, TaskEnds

\* The commands and the buttons that only move a conversation.
LEMMA CommandStep ==
    ASSUME Inv, NEW t \in Tasks, NEW u \in Users,
           Start(t, u) \/ Menu(t, u) \/ CancelForm(t, u) \/ AdminHome(t, u)
    PROVE  Inv'
<1>1. /\ Ends(t) /\ Says(u, NoChat)
      /\ EnsuresPlain(t, u) \/ UNCHANGED <<row, money, desk>>
  BY DEF Start, Menu, CancelForm, AdminHome, Clears
<1>2. NoChat \in ChatType /\ NoChat.state = "none"
  BY FreeTyped DEF NoChat
<1> QED BY <1>1, <1>2, PlainEnds

\* A conversation goes on in the update of an account with terms.
LEMMA GoesOn ==
    ASSUME Inv, NEW t \in Tasks, NEW u \in Users, NEW h, Handles(t, u, h), NeedsTerms(h),
           Ends(t), EnsuresPlain(t, u) \/ UNCHANGED <<row, money, desk>>,
           \/ UNCHANGED chat
           \/ \E c \in ChatType : Says(u, c) /\ (c.state = "pitch" => c.kind \in Kinds)
    PROVE  Inv'
<1>1. row[u].terms
  BY Admitted
<1> QED BY <1>1, PlainEnds

LEMMA ConversationStep ==
    ASSUME Inv, NEW t \in Tasks, NEW u \in Users,
           \/ ServiceOrder(t, u) \/ PartnerApply(t, u) \/ PartnerPay(t, u)
           \/ AdjustStart(t, u) \/ GotUser(t, u) \/ GotAmount(t, u)
    PROVE  Inv'
<1>1. \A h \in {"order", "apply", "pay", "credit", "user", "amount"} : NeedsTerms(h)
  BY DEF NeedsTerms, Commands
<1>2. PICK c : c = chat[u]
  OBVIOUS
<1>3. PICK x : x = task[t].x
  OBVIOUS
<1>4. /\ c \in ChatType
      /\ \A h \in {"apply", "pay", "user", "amount"} : Handles(t, u, h) => ArgumentSound(h, x)
  <2>1. c \in ChatType
    BY <1>2 DEF Inv, Types
  <2>2. ASSUME NEW h \in {"apply", "pay", "user", "amount"}, Handles(t, u, h)
        PROVE  ArgumentSound(h, x)
    BY <1>3, <2>2, Admitted
  <2> QED BY <2>1, <2>2
<1>5. NoChat \in ChatType /\ NoChat.state = "none"
  BY FreeTyped DEF NoChat
<1>6. CASE ServiceOrder(t, u)
  <2>1. PICK d : d = [NoChat EXCEPT !.state = "link", !.form = TRUE]
    OBVIOUS
  <2>2. d \in ChatType /\ d.state = "link"
    BY <1>5, <2>1 DEF ChatType, States, FormStates
  <2>3. /\ Handles(t, u, "order") /\ Ends(t) /\ UNCHANGED <<row, money, desk>>
        /\ UNCHANGED chat \/ Says(u, d)
    BY <1>6, <2>1 DEF ServiceOrder
  <2> QED BY <1>1, <2>2, <2>3, GoesOn
<1>7. CASE PartnerApply(t, u)
  <2>1. PICK d : d = [c EXCEPT !.state = "pitch", !.kind = x]
    OBVIOUS
  <2>2. /\ Handles(t, u, "apply") /\ Ends(t) /\ EnsuresPlain(t, u)
        /\ UNCHANGED chat \/ Says(u, d)
    BY <1>2, <1>3, <1>7, <2>1 DEF PartnerApply
  <2>3. x \in Kinds
    BY <1>4, <2>2 DEF ArgumentSound
  <2>4. d \in ChatType /\ d.kind \in Kinds
    BY <1>4, <2>1, <2>3 DEF ChatType, States
  <2> QED BY <1>1, <2>2, <2>4, GoesOn
<1>8. CASE PartnerPay(t, u)
  <2>1. PICK d : d = [c EXCEPT !.state = "payout", !.kind = x]
    OBVIOUS
  <2>2. /\ Handles(t, u, "pay") /\ Ends(t) /\ EnsuresPlain(t, u)
        /\ UNCHANGED chat \/ Says(u, d)
    BY <1>2, <1>3, <1>8, <2>1 DEF PartnerPay
  <2>3. x \in Kinds
    BY <1>4, <2>2 DEF ArgumentSound
  <2>4. d \in ChatType /\ d.state = "payout"
    BY <1>4, <2>1, <2>3 DEF ChatType, States
  <2> QED BY <1>1, <2>2, <2>4, GoesOn
<1>9. CASE AdjustStart(t, u)
  <2>1. /\ Handles(t, u, "credit") /\ Ends(t) /\ EnsuresPlain(t, u)
        /\ \/ UNCHANGED chat
           \/ \E kind \in {"credit", "lookup"} :
                Says(u, [c EXCEPT !.state = "user", !.kind = kind])
    BY <1>2, <1>9 DEF AdjustStart
  <2>2. \A kind \in {"credit", "lookup"} :
          LET d == [c EXCEPT !.state = "user", !.kind = kind]
          IN  d \in ChatType /\ d.state = "user"
    BY <1>4 DEF ChatType, States
  <2>3. \/ UNCHANGED chat
        \/ \E d \in ChatType : Says(u, d) /\ d.state = "user"
    BY <2>1, <2>2
  <2> QED BY <1>1, <2>1, <2>3, GoesOn
<1>10. CASE GotUser(t, u)
  <2>1. PICK d : d = [c EXCEPT !.state = "amount", !.target = x]
    OBVIOUS
  <2>2. /\ Handles(t, u, "user") /\ Ends(t) /\ EnsuresPlain(t, u)
        /\ UNCHANGED chat \/ Says(u, NoChat) \/ Says(u, d)
    BY <1>2, <1>3, <1>10, <2>1 DEF GotUser, Clears
  <2>3. x \in Users
    BY <1>4, <2>2 DEF ArgumentSound
  <2>4. d \in ChatType /\ d.state = "amount"
    BY <1>4, <2>1, <2>3 DEF ChatType, States
  <2> QED BY <1>1, <1>5, <2>2, <2>4, GoesOn
<1>11. CASE GotAmount(t, u)
  <2>1. PICK d : d = [c EXCEPT !.state = "reason", !.amount = x]
    OBVIOUS
  <2>2. /\ Handles(t, u, "amount") /\ Ends(t) /\ EnsuresPlain(t, u)
        /\ Says(u, NoChat) \/ Says(u, d)
    BY <1>2, <1>3, <1>11, <2>1 DEF GotAmount, Clears
  <2>3. x \in Int
    BY <1>4, <2>2 DEF ArgumentSound
  <2>4. d \in ChatType /\ d.state = "reason"
    BY <1>4, <2>1, <2>3 DEF ChatType, States
  <2> QED BY <1>1, <1>5, <2>2, <2>4, GoesOn
<1> QED BY <1>6, <1>7, <1>8, <1>9, <1>10, <1>11

LEMMA FormMoves ==
    ASSUME Inv, NEW t \in Tasks, NEW u \in Users, NEW h \in FormStates,
           NEW nexts \in SUBSET (FormStates \cup {"confirm"}),
           FormStep(t, u, h, nexts), Ensures(t, u) \/ UNCHANGED <<row, desk>>
    PROVE  Inv'
<1>1. NeedsTerms(h)
  BY DEF NeedsTerms, FormStates, Commands
<1>2. PICK c : c = chat[u]
  OBVIOUS
<1>3. /\ Handles(t, u, h) /\ Ends(t)
      /\ EnsuresPlain(t, u) \/ UNCHANGED <<row, money, desk>>
      /\ \/ UNCHANGED chat \/ Says(u, NoChat)
         \/ \E state \in nexts : Says(u, [c EXCEPT !.state = state])
  BY <1>2 DEF FormStep, Goes, Clears, EnsuresPlain
<1>4. NoChat \in ChatType /\ NoChat.state = "none"
  BY FreeTyped DEF NoChat
<1>5. \A state \in nexts : LET d == [c EXCEPT !.state = state]
                           IN  d \in ChatType /\ d.state \in FormStates \cup {"confirm"}
  <2>1. c \in ChatType
    BY <1>2 DEF Inv, Types
  <2> SUFFICES ASSUME NEW state \in nexts
               PROVE  LET d == [c EXCEPT !.state = state]
                      IN  d \in ChatType /\ d.state \in FormStates \cup {"confirm"}
    OBVIOUS
  <2>2. state \in FormStates \cup {"confirm"} /\ state \in States
    BY DEF States
  <2> QED BY <2>1, <2>2 DEF ChatType
<1>6. "pitch" \notin FormStates \cup {"confirm"}
  BY DEF FormStates
<1>7. \/ UNCHANGED chat
      \/ \E d \in ChatType : Says(u, d) /\ d.state # "pitch"
  BY <1>3, <1>4, <1>5, <1>6
<1> QED BY <1>1, <1>3, <1>7, GoesOn

LEMMA FormSteps ==
    ASSUME Inv, NEW t \in Tasks, NEW u \in Users,
           \/ FormLink(t, u) \/ FormQty(t, u) \/ FormComments(t, u)
           \/ FormMentions(t, u) \/ FormCoupon(t, u)
    PROVE  Inv'
<1>1. PICK h \in FormStates, nexts \in SUBSET (FormStates \cup {"confirm"}) :
        /\ FormStep(t, u, h, nexts)
        /\ Ensures(t, u) \/ UNCHANGED <<row, desk>>
  <2>1. /\ {"qty"} \in SUBSET (FormStates \cup {"confirm"})
        /\ {"comments", "mentions", "coupon"} \in SUBSET (FormStates \cup {"confirm"})
        /\ {"mentions", "coupon"} \in SUBSET (FormStates \cup {"confirm"})
        /\ {"coupon"} \in SUBSET (FormStates \cup {"confirm"})
        /\ {"confirm"} \in SUBSET (FormStates \cup {"confirm"})
        /\ {"link", "qty", "comments", "mentions", "coupon"} \subseteq FormStates
    BY DEF FormStates
  <2> QED BY <2>1 DEF FormLink, FormQty, FormComments, FormMentions, FormCoupon
<1> QED BY <1>1, FormMoves

------------------------------------------------------------------------------
\* A posting that leaves its account covered keeps the books.
LEMMA PostSound ==
    ASSUME Inv, Grows, NEW v \in Users, NEW p \in Postings, NEW n \in Int,
           Posts(v, p, n), cash[v] + n >= 0,
           p \in {"order", "payout"} => row'[v].terms,
           welcomed' \in [Users -> Nat], \A w \in Users : welcomed'[w] <= 1
    PROVE  MoneySound
<1>1. /\ cash \in [Users -> Nat] /\ posted \in [Users -> [Postings -> Int]]
      /\ cash' = [cash EXCEPT ![v] = cash[v] + n]
      /\ posted' = [posted EXCEPT ![v] = [posted[v] EXCEPT ![p] = posted[v][p] + n]]
  BY DEF Inv, Types, Posts
<1>2. cash' \in [Users -> Nat] /\ posted' \in [Users -> [Postings -> Int]]
  BY <1>1
<1>3. ASSUME NEW w \in Users
      PROVE  /\ cash'[w] = posted'[w].welcome + posted'[w].adjust + posted'[w].payout
                              + posted'[w].order
             /\ posted'[w].order # 0 \/ posted'[w].payout # 0 => row'[w].terms
  <2>1. /\ cash[w] = posted[w].welcome + posted[w].adjust + posted[w].payout + posted[w].order
        /\ posted[w].order # 0 \/ posted[w].payout # 0 => row'[w].terms
    BY DEF Inv, UserSound, Grows
  <2>2. CASE w # v
    BY <1>1, <2>1, <2>2
  <2>3. CASE w = v
    <3>1. PICK b : b = posted[v]
      OBVIOUS
    <3>2. /\ b \in [Postings -> Int] /\ cash'[w] = cash[w] + n
          /\ posted'[w] = [b EXCEPT ![p] = b[p] + n]
          /\ cash[w] = b.welcome + b.adjust + b.payout + b.order
          /\ b.order # 0 \/ b.payout # 0 => row'[w].terms
      BY <1>1, <2>1, <2>3, <3>1
    <3>3. cash[w] \in Nat
      BY <1>1
    <3>4. b.welcome \in Int /\ b.adjust \in Int /\ b.payout \in Int /\ b.order \in Int
      BY <3>2 DEF Postings
    <3>5. CASE p = "welcome"
      BY <3>2, <3>3, <3>4, <3>5 DEF Postings
    <3>6. CASE p = "adjust"
      BY <3>2, <3>3, <3>4, <3>6 DEF Postings
    <3>7. CASE p = "payout"
      BY <2>3, <3>2, <3>3, <3>4, <3>7 DEF Postings
    <3>8. CASE p = "order"
      BY <2>3, <3>2, <3>3, <3>4, <3>8 DEF Postings
    <3> QED BY <3>5, <3>6, <3>7, <3>8 DEF Postings
  <2> QED BY <2>2, <2>3
<1> QED BY <1>2, <1>3 DEF MoneySound

\* The end of a handler that posts, applies or decides for an admitted update.
LEMMA ConfirmStep ==
    ASSUME Inv, NEW t \in Tasks, NEW u \in Users, ConfirmOrder(t, u)
    PROVE  Inv'
<1>1. NeedsTerms("confirm") /\ Handles(t, u, "confirm") /\ Ends(t)
  BY DEF NeedsTerms, Commands, ConfirmOrder
<1>2. CASE UNCHANGED <<row, money, desk, chat>>
  BY <1>1, <1>2, GoesOn DEF desk, money
<1>3. CASE Ensures(t, u) /\ Clears(u) /\ UNCHANGED money
  BY <1>1, <1>3, FreeTyped, GoesOn DEF EnsuresPlain, Clears, NoChat
<1>4. CASE /\ Ensures(t, u) /\ Clears(u)
           /\ Covered(t, u, Price) /\ Posts(u, "order", -Price) /\ UNCHANGED welcomed
  <2>1. /\ row' = [row EXCEPT ![u] = Ensured(u)] /\ UNCHANGED apps
        /\ task' = [task EXCEPT ![t] = Free]
    BY <1>1, <1>4 DEF Ensures, EnsuresRows, Ends
  <2>2. Grows /\ row'[u].terms
    BY <1>1, <2>1, EnsureGrows, Admitted DEF Grows
  <2>3. cash[u] \in Nat /\ -Price \in Int /\ cash[u] + (-Price) >= 0
    BY <1>4, BotAssumption DEF BotAssumption, Inv, Types, Covered
  <2>4. welcomed' \in [Users -> Nat] /\ \A w \in Users : welcomed'[w] <= 1
    BY <1>4 DEF Inv, Types, UserSound
  <2>5. "order" \in Postings
    BY DEF Postings
  <2>6. MoneySound
    BY <1>4, <2>2, <2>3, <2>4, <2>5, PostSound
  <2>7. ChatSound
    BY <1>4, <2>2, FreeTyped, ChatMoves DEF Clears, Says, NoChat
  <2> QED BY <2>1, <2>2, <2>6, <2>7, SameApps, TaskEnds
<1> QED BY <1>2, <1>3, <1>4 DEF ConfirmOrder

LEMMA AcceptStep ==
    ASSUME Inv, NEW t \in Tasks, NEW u \in Users, NEW bonus \in {0, 1},
           AcceptTerms(t, u, bonus)
    PROVE  Inv'
<1>1. /\ task' = [task EXCEPT ![t] = Free] /\ UNCHANGED <<apps, chat>>
  BY DEF AcceptTerms, Ends
<1>2. Grows
  <2>1. PICK r : r = Ensured(u)
    OBVIOUS
  <2>2. PICK b : b = (r.bonus \/ (bonus > 0 /\ ~task[t].row.bonus))
    OBVIOUS
  <2>3. row' = [row EXCEPT ![u] = [r EXCEPT !.terms = TRUE, !.bonus = b]]
    BY <2>1, <2>2 DEF AcceptTerms
  <2>4. /\ r \in RowType /\ r.known
        /\ IsStaff(r, u) => IsStaff(row[u], u)
    BY <2>1, EnsuredSound
  <2>5. PICK d : d = [r EXCEPT !.terms = TRUE, !.bonus = b]
    OBVIOUS
  <2>6. b \in BOOLEAN
    BY <2>2, <2>4 DEF RowType
  <2>7. d \in RowType /\ d.known /\ d.terms /\ d.role = r.role
    BY <2>4, <2>5, <2>6 DEF RowType
  <2>8. IsStaff(d, u) => IsStaff(row[u], u)
    BY <2>4, <2>7 DEF IsStaff
  <2> HIDE DEF IsStaff
  <2>9. row' = [row EXCEPT ![u] = d] /\ row \in [Users -> RowType]
    BY <2>3, <2>5 DEF Inv, Types
  <2>10. \A v \in Users : row[v].terms => row[v].known
    BY DEF Inv, UserSound
  <2> QED BY <2>7, <2>8, <2>9, <2>10 DEF Grows
<1>3. MoneySound
  <2>1. CASE UNCHANGED money
    BY <1>2, <2>1, SameMoney
  <2>2. CASE /\ bonus > 0 /\ ~Granted(t, u) /\ Posts(u, "welcome", bonus)
             /\ welcomed' = [welcomed EXCEPT ![u] = @ + 1]
    <3>1. welcomed \in [Users -> Nat] /\ cash[u] \in Nat /\ welcomed[u] = 0
      BY <2>2 DEF Inv, Types, Granted
    <3>2. welcomed' \in [Users -> Nat] /\ \A w \in Users : welcomed'[w] <= 1
      BY <2>2, <3>1 DEF Inv, UserSound
    <3>3. bonus \in Int /\ cash[u] + bonus >= 0 /\ "welcome" \in Postings
      BY <2>2, <3>1 DEF Postings
    <3> QED BY <1>2, <2>2, <3>2, <3>3, PostSound
  <2> QED BY <2>1, <2>2 DEF AcceptTerms
<1>4. ChatSound
  BY <1>1, <1>2, ChatMoves
<1> QED BY <1>1, <1>2, <1>3, <1>4, SameApps, TaskEnds

LEMMA PayoutStep ==
    ASSUME Inv, NEW t \in Tasks, NEW u \in Users, GotPayout(t, u)
    PROVE  Inv'
<1>1. PICK n : n = task[t].x
  OBVIOUS
<1>2. NeedsTerms("payout") /\ Handles(t, u, "payout") /\ Ends(t) /\ Ensures(t, u)
  BY DEF NeedsTerms, Commands, GotPayout
<1>3. n \in Int
  BY <1>1, <1>2, Admitted DEF ArgumentSound
<1>4. CASE UNCHANGED <<money, chat>>
  BY <1>2, <1>4, GoesOn DEF EnsuresPlain, money
<1>5. CASE /\ n >= MinPayout /\ Covered(t, u, n)
           /\ Posts(u, "payout", -n) /\ UNCHANGED welcomed /\ Clears(u)
  <2>1. /\ row' = [row EXCEPT ![u] = Ensured(u)] /\ UNCHANGED apps
        /\ task' = [task EXCEPT ![t] = Free]
    BY <1>2 DEF Ensures, EnsuresRows, Ends
  <2>2. Grows /\ row'[u].terms
    BY <1>2, <2>1, EnsureGrows, Admitted DEF Grows
  <2>3. cash[u] \in Nat /\ -n \in Int /\ cash[u] + (-n) >= 0
    BY <1>3, <1>5 DEF Inv, Types, Covered
  <2>4. welcomed' \in [Users -> Nat] /\ \A w \in Users : welcomed'[w] <= 1
    BY <1>5 DEF Inv, Types, UserSound
  <2>5. "payout" \in Postings
    BY DEF Postings
  <2>6. MoneySound
    BY <1>5, <2>2, <2>3, <2>4, <2>5, PostSound
  <2>7. ChatSound
    BY <1>5, <2>2, FreeTyped, ChatMoves DEF Clears, Says, NoChat
  <2> QED BY <2>1, <2>2, <2>6, <2>7, SameApps, TaskEnds
<1> QED BY <1>1, <1>4, <1>5 DEF GotPayout

LEMMA ReasonStep ==
    ASSUME Inv, NEW t \in Tasks, NEW u \in Users, GotReason(t, u)
    PROVE  Inv'
<1>1. PICK target, n : target = task[t].chat.target /\ n = task[t].chat.amount
  OBVIOUS
<1>2. NeedsTerms("reason") /\ Handles(t, u, "reason") /\ Ends(t)
  BY DEF NeedsTerms, Commands, GotReason
<1>3. target \in Users \cup {Nobody} /\ n \in Int
  <2>1. task[t] \in TaskType
    BY DEF Inv, Types
  <2>2. task[t].chat \in ChatType
    BY <2>1 DEF TaskType
  <2> QED BY <1>1, <2>2 DEF ChatType
<1>4. CASE Clears(u) /\ EnsuresPlain(t, u)
  BY <1>2, <1>4, FreeTyped, GoesOn DEF Clears, NoChat
<1>5. CASE UNCHANGED <<row, money, desk, chat>>
  BY <1>2, <1>5, GoesOn DEF desk, money
<1>6. CASE Clears(u) /\ Ensures(t, u) /\ UNCHANGED money
  BY <1>2, <1>6, FreeTyped, GoesOn DEF EnsuresPlain, Clears, NoChat
<1>7. CASE /\ target # Nobody /\ Clears(u) /\ Ensures(t, u)
           /\ n > 0 \/ Covered(t, target, -n)
           /\ Posts(target, "adjust", n) /\ UNCHANGED welcomed
  <2>1. /\ row' = [row EXCEPT ![u] = Ensured(u)] /\ UNCHANGED apps
        /\ task' = [task EXCEPT ![t] = Free] /\ target \in Users
    BY <1>2, <1>3, <1>7 DEF Ensures, EnsuresRows, Ends
  <2>2. Grows
    BY <2>1, EnsureGrows
  <2>3. cash[target] \in Nat /\ cash[target] + n >= 0
    <3>1. cash[target] \in Nat
      BY <2>1 DEF Inv, Types
    <3>2. n > 0 \/ cash[target] >= -n
      BY <1>7 DEF Covered
    <3> QED BY <1>3, <3>1, <3>2
  <2>4. welcomed' \in [Users -> Nat] /\ \A w \in Users : welcomed'[w] <= 1
    BY <1>7 DEF Inv, Types, UserSound
  <2>5. "adjust" \in Postings
    BY DEF Postings
  <2>6. MoneySound
    BY <1>3, <1>7, <2>1, <2>2, <2>3, <2>4, <2>5, PostSound
  <2>7. ChatSound
    BY <1>7, <2>2, FreeTyped, ChatMoves DEF Clears, Says, NoChat
  <2> QED BY <2>1, <2>2, <2>6, <2>7, SameApps, TaskEnds
<1> QED BY <1>1, <1>4, <1>5, <1>6, <1>7 DEF GotReason

LEMMA PitchStep ==
    ASSUME Inv, NEW t \in Tasks, NEW u \in Users, GotPitch(t, u)
    PROVE  Inv'
<1>1. PICK kind : kind = task[t].x
  OBVIOUS
<1>2. NeedsTerms("pitch") /\ Handles(t, u, "pitch") /\ Ends(t) /\ UNCHANGED <<money, stopped>>
  BY DEF NeedsTerms, Commands, GotPitch
<1>3. kind \in Kinds
  BY <1>1, <1>2, Admitted DEF ArgumentSound
<1>4. CASE UNCHANGED <<row, partner, apps, chat>>
  BY <1>2, <1>4, GoesOn DEF desk, money
<1>5. CASE EnsuresRows(t, u) /\ Clears(u) /\ UNCHANGED apps
  BY <1>2, <1>5, FreeTyped, GoesOn DEF EnsuresPlain, Ensures, Clears, NoChat
<1>6. CASE /\ EnsuresRows(t, u) /\ Clears(u)
           /\ apps' = Append(apps, [u |-> u, kind |-> kind, status |-> "pending"])
  <2>1. /\ row' = [row EXCEPT ![u] = Ensured(u)] /\ UNCHANGED money
        /\ task' = [task EXCEPT ![t] = Free]
    BY <1>2, <1>6 DEF EnsuresRows, Ends, money
  <2>2. Grows /\ row'[u].terms
    BY <1>2, <2>1, EnsureGrows, Admitted DEF Grows
  <2>3. PICK a : a = [u |-> u, kind |-> kind, status |-> "pending"]
    OBVIOUS
  <2>4. a \in AppType /\ a.u = u
    BY <1>3, <2>3 DEF AppType
  <2>5. apps \in Seq(AppType) /\ apps' = Append(apps, a)
    BY <1>6, <2>3 DEF Inv, Types
  <2>6. AppsSound
    <3>1. UNCHANGED apps => \A i \in 1..Len(apps) : row'[apps[i].u].terms
      BY <2>2, SameApps DEF AppsSound
    <3>2. \A i \in 1..Len(apps) : row'[apps[i].u].terms
      <4>1. \A i \in 1..Len(apps) : apps[i] \in AppType
        BY <2>5
      <4>2. \A i \in 1..Len(apps) : apps[i].u \in Users
        BY <4>1 DEF AppType
      <4> QED BY <2>2, <4>2 DEF Inv, Grows
    <3>3. /\ Len(apps') = Len(apps) + 1 /\ apps' \in Seq(AppType)
          /\ apps'[Len(apps) + 1] = a
          /\ \A i \in 1..Len(apps) : apps'[i] = apps[i]
      BY <2>4, <2>5
    <3>4. \A i \in 1..Len(apps') : i \in 1..Len(apps) \/ i = Len(apps) + 1
      BY <2>5, <3>3
    <3> QED BY <2>2, <2>4, <2>5, <3>2, <3>3, <3>4 DEF AppsSound
  <2>7. ChatSound
    BY <1>6, <2>2, FreeTyped, ChatMoves DEF Clears, Says, NoChat
  <2> QED BY <2>1, <2>2, <2>6, <2>7, SameMoney, TaskEnds
<1> QED BY <1>1, <1>2, <1>4, <1>5, <1>6 DEF GotPitch

LEMMA DecideStep ==
    ASSUME Inv, NEW t \in Tasks, NEW u \in Users, AppDecide(t, u)
    PROVE  Inv'
<1>1. PICK i : i = task[t].x
  OBVIOUS
<1>2. Ends(t) /\ UNCHANGED <<money, stopped, chat>>
  BY DEF AppDecide
<1>3. ASSUME NEW h, Handles(t, u, h), h \in {"approve", "reject"}
      PROVE  NeedsTerms(h) /\ i \in 1..Len(apps)
  BY <1>1, <1>3, Admitted DEF ArgumentSound, NeedsTerms, Commands
<1>4. CASE EnsuresRows(t, u) /\ UNCHANGED apps
  <2>1. row' = [row EXCEPT ![u] = Ensured(u)]
    BY <1>4 DEF EnsuresRows
  <2>2. Grows /\ UNCHANGED <<apps, chat, money>> /\ task' = [task EXCEPT ![t] = Free]
    BY <1>2, <1>4, <2>1, EnsureGrows DEF Ends
  <2> QED BY <2>2, SameMoney, SameApps, ChatMoves, TaskEnds
<1>5. ASSUME NEW verdict \in {"approved", "rejected"}, i \in 1..Len(apps), Decide(t, verdict)
      PROVE  Inv'
  <2>1. apps \in Seq(AppType) /\ row \in [Users -> RowType]
    BY DEF Inv, Types
  <2>2. PICK a, v : a = apps[i] /\ v = apps[i].u
    OBVIOUS
  <2>3. a \in AppType
    BY <1>5, <2>1, <2>2
  <2>4. v \in Users /\ a.u = v /\ a.kind \in Kinds
    BY <2>2, <2>3 DEF AppType
  <2>5. apps' = [apps EXCEPT ![i] = [a EXCEPT !.status = verdict]]
    BY <1>1, <1>5, <2>2 DEF Decide
  <2>6. Grows
    <3>1. CASE UNCHANGED row
      BY <3>1, SameRowGrows
    <3>2. CASE row' = [row EXCEPT ![v].role = IF @ = "user" THEN a.kind ELSE @]
      <4>1. PICK r : r = row[v]
        OBVIOUS
      <4>2. PICK role : role = IF r.role = "user" THEN a.kind ELSE r.role
        OBVIOUS
      <4>3. PICK d : d = [r EXCEPT !.role = role]
        OBVIOUS
      <4>4. r \in RowType /\ role \in Roles /\ role \in Staff => r.role \in Staff
        BY <2>1, <2>4, <4>1, <4>2 DEF RowType, Roles, Kinds, Staff
      <4>5. r \in RowType /\ role \in Roles
        BY <2>1, <2>4, <4>1, <4>2 DEF RowType, Roles
      <4>6. d \in RowType /\ d.known = r.known /\ d.terms = r.terms /\ d.role = role
        BY <4>3, <4>5 DEF RowType
      <4>7. IsStaff(d, v) => IsStaff(row[v], v)
        BY <4>1, <4>4, <4>5, <4>6 DEF IsStaff
      <4>8. row' = [row EXCEPT ![v] = d]
        BY <3>2, <4>1, <4>2, <4>3
      <4>9. \A w \in Users : row[w].terms => row[w].known
        BY DEF Inv, UserSound
      <4> QED BY <2>1, <2>4, <4>1, <4>6, <4>7, <4>8, <4>9 DEF Grows
    <3> QED BY <1>1, <1>5, <2>2, <3>1, <3>2 DEF Decide, Promoted
  <2>7. AppsSound
    <3>1. PICK b : b = [a EXCEPT !.status = verdict]
      OBVIOUS
    <3>2. b \in AppType /\ b.u = v
      BY <2>3, <2>4, <3>1 DEF AppType
    <3>3. apps' = [apps EXCEPT ![i] = b]
      BY <2>5, <3>1
    <3>4. /\ apps' \in Seq(AppType) /\ Len(apps') = Len(apps) /\ Len(apps) \in Nat
          /\ \A k \in 1..Len(apps) : apps'[k].u = apps[k].u
      BY <1>5, <2>1, <2>2, <3>2, <3>3
    <3>5. \A k \in 1..Len(apps) : apps[k] \in AppType
      BY <2>1
    <3>6. \A k \in 1..Len(apps) : apps[k].u \in Users
      BY <3>5 DEF AppType
    <3> QED BY <2>6, <3>4, <3>6 DEF AppsSound, Inv, Grows
  <2>8. UNCHANGED <<money, chat>> /\ task' = [task EXCEPT ![t] = Free]
    BY <1>2 DEF Ends
  <2> QED BY <2>4, <2>6, <2>7, <2>8, SameMoney, ChatMoves, TaskEnds
<1>6. \/ EnsuresRows(t, u) /\ UNCHANGED apps
      \/ \E h \in {"approve", "reject"}, verdict \in {"approved", "rejected"} :
           Handles(t, u, h) /\ Decide(t, verdict)
  BY DEF AppDecide
<1> QED BY <1>3, <1>4, <1>5, <1>6

LEMMA ToggleStep ==
    ASSUME Inv, NEW t \in Tasks, NEW u \in Users, ToggleKill(t, u)
    PROVE  Inv'
<1>1. /\ row' = [row EXCEPT ![u] = Ensured(u)] /\ task' = [task EXCEPT ![t] = Free]
      /\ UNCHANGED <<money, apps, chat>>
  BY DEF ToggleKill, EnsuresRows, Ends
<1>2. Grows
  BY <1>1, EnsureGrows
<1> QED BY <1>1, <1>2, SameMoney, SameApps, ChatMoves, TaskEnds

LEMMA LostStep ==
    ASSUME Inv, NEW t \in Tasks, CommitLost(t)
    PROVE  Inv'
<1>1. PICK u : u = task[t].u
  OBVIOUS
<1>2. u \in Users
  BY <1>1 DEF Inv, TaskSound, CommitLost
<1>3. /\ Ends(t) /\ UNCHANGED <<row, money, desk>>
      /\ UNCHANGED chat \/ Says(u, NoChat)
  BY <1>1 DEF CommitLost, Clears
<1> QED BY <1>2, <1>3, FreeTyped, PlainEnds DEF NoChat

------------------------------------------------------------------------------
\* An update is received, or let in; nothing else changes.
LEMMA TaskMoves ==
    ASSUME Inv, NEW t \in Tasks, NEW k \in TaskType, TaskSound(k),
           task' = [task EXCEPT ![t] = k], UNCHANGED <<row, money, desk, chat>>
    PROVE  Inv'
<1>1. UNCHANGED <<row, cash, posted, welcomed, apps, chat>>
  BY DEF money, desk
<1>2. Types'
  BY <1>1 DEF Inv, Types, RowType, ChatType, AppType, TaskType
<1>3. ASSUME NEW u \in Users
      PROVE  UserSound(u)'
  BY <1>1 DEF Inv, UserSound
<1>4. ASSUME NEW s \in Tasks
      PROVE  TaskSound(task[s])'
  <2>1. PICK j : j = task'[s]
    OBVIOUS
  <2>2. TaskSound(j)
    <3>1. j = k \/ j = task[s]
      BY <2>1 DEF Inv, Types
    <3> QED BY <3>1 DEF Inv
  <2>3. TaskSound(j)'
    BY <1>1, <2>2 DEF TaskSound, ArgumentSound
  <2> QED BY <2>1, <2>3
<1>5. (\A i \in 1..Len(apps) : row[apps[i].u].terms)'
  BY <1>1 DEF Inv
<1> QED BY <1>2, <1>3, <1>4, <1>5 DEF Inv

LEMMA ReceiveStep ==
    ASSUME Inv, NEW t \in Tasks, NEW u \in Users, NEW h \in Uses[u], Receive(t, u, h)
    PROVE  Inv'
<1>1. PICK x \in Arguments(u, h) :
        /\ task' = [task EXCEPT ![t] =
                      [Free EXCEPT !.at = "received", !.u = u, !.h = h, !.x = x,
                                   !.staff = IsStaff(row[u], u)]]
        /\ Sendable(u, h) /\ UNCHANGED <<row, money, desk, chat>>
  BY DEF Receive
<1>2. PICK b : b = IsStaff(row[u], u)
  OBVIOUS
<1>3. PICK k : k = [Free EXCEPT !.at = "received", !.u = u, !.h = h, !.x = x, !.staff = b]
  OBVIOUS
<1>4. /\ Free \in TaskType /\ b \in BOOLEAN
      /\ row[u] \in RowType /\ chat[u] \in ChatType /\ chat[u].state \in States
      /\ chat[u].state = "pitch" => chat[u].kind \in Kinds
      /\ chat[u].state # "none" => row[u].known
  <2>1. row[u] \in RowType /\ chat[u] \in ChatType
    BY DEF Inv, Types
  <2>2. chat[u].state \in States
    BY <2>1 DEF ChatType
  <2>3. b \in BOOLEAN
    BY <1>2 DEF IsStaff
  <2> QED BY <2>1, <2>2, <2>3, FreeTyped DEF Inv, UserSound
<1>5. ArgumentSound(h, x) /\ x \in Arguables
  <2>1. CASE h = "amount"
    BY <1>1, <2>1 DEF Arguments, ArgumentSound, Arguables
  <2>2. CASE h = "payout"
    BY <1>1, <2>2, BotAssumption DEF BotAssumption, Arguments, ArgumentSound, Arguables
  <2>3. CASE h \in {"approve", "reject"}
    <3>1. x \in 1..Len(apps) /\ x \in Int
      BY <1>1, <2>3 DEF Arguments
    <3> QED BY <2>3, <3>1 DEF ArgumentSound, Arguables
  <2>4. CASE h \in {"apply", "pay"}
    BY <1>1, <2>4 DEF Arguments, ArgumentSound, Arguables
  <2>5. CASE h = "user"
    BY <1>1, <2>5 DEF Arguments, ArgumentSound, Arguables
  <2>6. CASE h = "pitch"
    <3>1. chat[u].state = "pitch"
      BY <1>1, <2>6 DEF Sendable, TextHandlers, Commands
    <3>2. x = chat[u].kind
      BY <1>1, <2>6 DEF Arguments
    <3>3. x \in Kinds
      BY <1>4, <3>1, <3>2
    <3> QED BY <2>6, <3>3 DEF ArgumentSound, Arguables
  <2>7. CASE h = "cancel"
    BY <1>1, <1>4, <2>7 DEF Arguments, ArgumentSound, Arguables
  <2>8. CASE h \notin {"amount", "payout", "approve", "reject", "apply", "pay", "user",
                      "pitch", "cancel"}
    BY <1>1, <2>8 DEF Arguments, ArgumentSound, Arguables
  <2> QED BY <2>1, <2>2, <2>3, <2>4, <2>5, <2>6, <2>7, <2>8
<1>6. NeedsTerms(h) => row[u].known
  <2>1. "none" \notin TextHandlers
    BY DEF TextHandlers
  <2> QED BY <1>1, <1>4, <2>1 DEF Sendable, NeedsTerms
<1>7. h \in Handlers
  BY DEF Handlers
<1>8. k \in TaskType
  BY <1>3, <1>4, <1>5, <1>7 DEF TaskType
<1>9. k.at = "received" /\ k.u = u /\ k.h = h /\ k.x = x /\ k.staff = b
  BY <1>3 DEF Free
<1>10. TaskSound(k)
  BY <1>2, <1>5, <1>6, <1>9 DEF TaskSound
<1> QED BY <1>1, <1>2, <1>3, <1>8, <1>10, TaskMoves

LEMMA AdmitStep ==
    ASSUME Inv, NEW t \in Tasks, Admit(t)
    PROVE  Inv'
<1>1. PICK j, u : j = task[t] /\ u = task[t].u
  OBVIOUS
<1>2. /\ j \in TaskType /\ TaskSound(j) /\ j.at = "received" /\ j.u = u /\ u \in Users
  BY <1>1 DEF Inv, Types, TaskSound, Admit
<1>3. row[u] \in RowType /\ cash[u] \in Int /\ chat[u] \in ChatType
  BY <1>2 DEF Inv, Types
<1>4. UNCHANGED <<row, money, desk, chat>>
  BY DEF Admit
<1>5. CASE task' = [task EXCEPT ![t] = Free]
  BY <1>4, <1>5, FreeTyped, TaskMoves DEF TaskSound, Free
<1>6. CASE /\ Gate(row[u], j.h)
           /\ task' = [task EXCEPT ![t] = [j EXCEPT !.at = "admitted", !.row = row[u],
                                                    !.cash = cash[u], !.chat = chat[u]]]
  <2>1. PICK k : k = [j EXCEPT !.at = "admitted", !.row = row[u], !.cash = cash[u],
                               !.chat = chat[u]]
    OBVIOUS
  <2>2. /\ k \in TaskType /\ k.at = "admitted" /\ k.u = u /\ k.h = j.h /\ k.x = j.x
        /\ k.row = row[u] /\ k.staff = j.staff
    BY <1>2, <1>3, <2>1 DEF TaskType
  <2>3. NeedsTerms(k.h) => row[u].terms
    BY <1>2, <1>6, <2>2 DEF TaskSound, NeedsTerms, Gate, TermsFree, Commands
  <2>4. TaskSound(k)
    BY <1>2, <2>2, <2>3 DEF TaskSound
  <2> QED BY <1>4, <1>6, <2>1, <2>2, <2>4, TaskMoves
<1> QED BY <1>1, <1>5, <1>6 DEF Admit

LEMMA RestartStep == Inv /\ Restart => Inv'
<1> SUFFICES ASSUME Inv, Restart
             PROVE  Inv'
  OBVIOUS
<1>1. /\ UNCHANGED <<row, cash, posted, welcomed, apps>>
      /\ chat' = [u \in Users |-> NoChat] /\ task' = [t \in Tasks |-> Free]
  BY DEF Restart, money, desk
<1>2. Types'
  BY <1>1, FreeTyped DEF Inv, Types, AppType
<1>3. ASSUME NEW u \in Users
      PROVE  UserSound(u)'
  BY <1>1 DEF Inv, UserSound, NoChat
<1>4. ASSUME NEW t \in Tasks
      PROVE  TaskSound(task[t])'
  BY <1>1 DEF TaskSound, Free
<1>5. (\A i \in 1..Len(apps) : row[apps[i].u].terms)'
  BY <1>1 DEF Inv
<1> QED BY <1>2, <1>3, <1>4, <1>5 DEF Inv

\* set-role may make somebody staff; the updates being handled know it.
LEMMA RoleStep ==
    ASSUME Inv, NEW u \in Users, NEW r \in {"user", "admin"}, SetRole(u, r)
    PROVE  Inv'
<1>1. /\ row \in [Users -> RowType] /\ task \in [Tasks -> TaskType]
      /\ UNCHANGED <<cash, posted, welcomed, apps, chat>>
      /\ row' = [row EXCEPT ![u].role = r]
      /\ task' = [t \in Tasks |->
                    IF task[t].u = u /\ task[t].at # "free" /\ r \in Staff
                    THEN [task[t] EXCEPT !.staff = TRUE] ELSE task[t]]
  BY DEF SetRole, money, desk, Inv, Types
<1>2. PICK d : d = [row[u] EXCEPT !.role = r]
  OBVIOUS
<1>3. /\ d \in RowType /\ d.known = row[u].known /\ d.terms = row[u].terms /\ d.role = r
      /\ row' = [row EXCEPT ![u] = d]
  BY <1>1, <1>2 DEF RowType, Roles, Staff
<1>4. /\ row' \in [Users -> RowType]
      /\ \A v \in Users : row'[v].known = row[v].known /\ row'[v].terms = row[v].terms
  BY <1>1, <1>3
<1>5. ASSUME NEW t \in Tasks
      PROVE  task'[t] \in TaskType /\ TaskSound(task[t])'
  <2>1. PICK j : j = task[t]
    OBVIOUS
  <2>2. PICK k : k = task'[t]
    OBVIOUS
  <2>3. j \in TaskType /\ TaskSound(j)
    BY <1>1, <2>1 DEF Inv
  <2>4. k = IF j.u = u /\ j.at # "free" /\ r \in Staff THEN [j EXCEPT !.staff = TRUE] ELSE j
    BY <1>1, <2>1, <2>2
  <2>5. /\ k \in TaskType /\ k.at = j.at /\ k.u = j.u /\ k.h = j.h /\ k.x = j.x /\ k.row = j.row
        /\ j.staff => k.staff
        /\ j.u = u /\ j.at # "free" /\ r \in Staff => k.staff
    BY <2>3, <2>4 DEF TaskType
  <2>6. ASSUME k.at # "free", IsStaff(row[k.u], k.u)'
        PROVE  k.staff
    <3>1. j.u \in Users /\ k.u = j.u
      BY <2>3, <2>5, <2>6 DEF TaskSound
    <3>2. CASE j.u = u
      <4>1. r \in Staff \/ u = Owner
        BY <1>1, <1>3, <2>6, <3>1, <3>2 DEF IsStaff
      <4>2. u = Owner => IsStaff(row[j.u], j.u)
        BY <3>2 DEF IsStaff
      <4> QED BY <2>3, <2>5, <2>6, <3>2, <4>1, <4>2 DEF TaskSound
    <3>3. CASE j.u # u
      <4>1. row'[j.u] = row[j.u]
        BY <1>1, <1>3, <3>1, <3>3
      <4>2. IsStaff(row[j.u], j.u)
        BY <2>6, <3>1, <4>1 DEF IsStaff
      <4> QED BY <2>3, <2>5, <2>6, <4>2 DEF TaskSound
    <3> QED BY <3>2, <3>3
  <2>7. TaskSound(k)'
    BY <1>1, <1>4, <2>3, <2>5, <2>6 DEF TaskSound, ArgumentSound
  <2> QED BY <2>2, <2>5, <2>7
<1>6. Types'
  BY <1>1, <1>4, <1>5 DEF Inv, Types
<1>7. ASSUME NEW v \in Users
      PROVE  UserSound(v)'
  BY <1>1, <1>4 DEF Inv, UserSound
<1>8. (\A i \in 1..Len(apps) : row[apps[i].u].terms)'
  <2>1. \A i \in 1..Len(apps) : apps[i] \in AppType
    BY DEF Inv, Types
  <2>2. \A i \in 1..Len(apps) : apps[i].u \in Users
    BY <2>1 DEF AppType
  <2> QED BY <1>1, <1>4, <2>2 DEF Inv
<1> QED BY <1>5, <1>6, <1>7, <1>8 DEF Inv

LEMMA StepKeepsInv == Inv /\ [Next]_vars => Inv'
<1> SUFFICES ASSUME Inv, [Next]_vars
             PROVE  Inv'
  OBVIOUS
<1>1. ASSUME NEW t \in Tasks, NEW u \in Users,
             \/ Start(t, u) \/ Menu(t, u) \/ CancelForm(t, u)
             \/ \E bonus \in {0, 1} : AcceptTerms(t, u, bonus)
             \/ Form(t, u) \/ Partner(t, u) \/ Adjust(t, u) \/ Desk(t, u)
      PROVE  Inv'
  <2>1. CASE Start(t, u) \/ Menu(t, u) \/ CancelForm(t, u)
    BY <2>1, CommandStep
  <2>2. CASE \E bonus \in {0, 1} : AcceptTerms(t, u, bonus)
    BY <2>2, AcceptStep
  <2>3. CASE Form(t, u)
    BY <2>3, ConversationStep, FormSteps, ConfirmStep DEF Form
  <2>4. CASE Partner(t, u)
    BY <2>4, ConversationStep, PitchStep, PayoutStep DEF Partner
  <2>5. CASE Adjust(t, u)
    BY <2>5, ConversationStep, ReasonStep DEF Adjust
  <2>6. CASE Desk(t, u)
    BY <2>6, CommandStep, ToggleStep, DecideStep DEF Desk
  <2> QED BY <1>1, <2>1, <2>2, <2>3, <2>4, <2>5, <2>6
<1>2. ASSUME NEW t \in Tasks, NEW u \in Users, NEW h \in Uses[u], Receive(t, u, h)
      PROVE  Inv'
  BY <1>2, ReceiveStep
<1>3. ASSUME NEW t \in Tasks, Admit(t) \/ CommitLost(t)
      PROVE  Inv'
  BY <1>3, AdmitStep, LostStep
<1>4. ASSUME NEW u \in Users, NEW r \in {"user", "admin"}, SetRole(u, r)
      PROVE  Inv'
  BY <1>4, RoleStep
<1>5. CASE Restart
  BY <1>5, RestartStep
<1>6. CASE UNCHANGED vars
  BY <1>6 DEF vars, Inv, Types, UserSound, TaskSound, ArgumentSound, AppType
<1> QED BY <1>1, <1>2, <1>3, <1>4, <1>5, <1>6 DEF Next

\* The invariant holds in every reachable state (bot/main.py, bot/handlers).
THEOREM Invariance == Spec => []Inv
BY InitInv, StepKeepsInv, PTL DEF Spec

\* No posting is lost or invented and no balance becomes negative, though payouts
\* and orders look at a balance loaded before they wait for the row lock
\* (referrals.py:544, wallet.py:127).
THEOREM BooksKept == Spec => []CashAccounted
<1>1. Inv => CashAccounted
  BY DEF Inv, Types, UserSound, CashAccounted
<1> QED BY <1>1, Invariance, PTL

\* The welcome bonus is granted once, however often and wherever "I agree" is
\* tapped (start.py:134-150).
THEOREM WelcomedOnce == Spec => []WelcomeOnce
<1>1. Inv => WelcomeOnce
  BY DEF Inv, UserSound, WelcomeOnce
<1> QED BY <1>1, Invariance, PTL

\* No order, payout or application of an account that has not accepted the terms
\* (bot/main.py:73-137).
THEOREM TermsComeFirst == Spec => []TermsFirst
<1>1. Inv => TermsFirst
  BY DEF Inv, UserSound, TermsFirst
<1> QED BY <1>1, Invariance, PTL

\* What a posting of another kind, or a new application, is not.
LEMMA NoStaffEffect ==
    ASSUME Inv, UNCHANGED stopped,
           \/ UNCHANGED posted
           \/ \E v \in Users, p \in Postings \ {"adjust"}, n \in Int : Posts(v, p, n),
           UNCHANGED apps \/ \E a : apps' = Append(apps, a)
    PROVE  ~StaffEffect
<1>1. \A w \in Users : posted'[w].adjust = posted[w].adjust
  <2>1. ASSUME NEW v \in Users, NEW p \in Postings \ {"adjust"}, NEW n \in Int, Posts(v, p, n),
               NEW w \in Users
        PROVE  posted'[w].adjust = posted[w].adjust
    <3>1. PICK b : b = posted[v]
      OBVIOUS
    <3>2. /\ posted \in [Users -> [Postings -> Int]] /\ b \in [Postings -> Int]
          /\ posted' = [posted EXCEPT ![v] = [b EXCEPT ![p] = b[p] + n]]
      BY <2>1, <3>1 DEF Inv, Types, Posts
    <3>3. "adjust" \in Postings
      BY DEF Postings
    <3>4. [b EXCEPT ![p] = b[p] + n].adjust = b.adjust
      BY <2>1, <3>2, <3>3
    <3> QED BY <3>1, <3>2, <3>4
  <2> QED BY <2>1
<1>2. \A i \in 1..Len(apps) : apps'[i] = apps[i]
  <2>1. apps \in Seq(AppType)
    BY DEF Inv, Types
  <2>2. ASSUME NEW a, apps' = Append(apps, a)
        PROVE  \A i \in 1..Len(apps) : apps'[i] = apps[i]
    BY <2>1, <2>2
  <2> QED BY <2>2
<1> QED BY <1>1, <1>2 DEF StaffEffect

LEMMA StaffStep ==
    Inv /\ [Next]_vars =>
        (StaffEffect => \E t \in Tasks : /\ task[t].at = "admitted" /\ task'[t].at = "free"
                                         /\ task[t].staff)
<1> DEFINE Done(t) == task[t].at = "admitted" /\ task'[t].at = "free" /\ task[t].staff
<1>1. ASSUME Inv, NEW t \in Tasks, NEW u \in Users, NEW h, Handles(t, u, h), Ends(t),
             StaffSeen(t)
      PROVE  Done(t)
  <2>1. task[t].at = "admitted" /\ task[t].staff
    BY <1>1, Admitted
  <2>2. task'[t].at = "free"
    BY <1>1 DEF Ends, Free, Inv, Types
  <2> QED BY <2>1, <2>2
<1> HIDE DEF Done
<1>2. ASSUME Inv, NEW t \in Tasks, NEW u \in Users
      PROVE  /\ GotReason(t, u) => ~StaffEffect \/ Done(t)
             /\ AppDecide(t, u) => ~StaffEffect \/ Done(t)
             /\ ToggleKill(t, u) => ~StaffEffect \/ Done(t)
  <2>1. ASSUME GotReason(t, u), ~StaffSeen(t)
        PROVE  ~StaffEffect
    BY <1>2, <2>1, NoStaffEffect
       DEF GotReason, RefusedNow, Refused, EnsuresPlain, Ensures, money, desk
  <2>2. ASSUME AppDecide(t, u), ~StaffSeen(t)
        PROVE  ~StaffEffect
    BY <1>2, <2>2, NoStaffEffect DEF AppDecide, money
  <2>3. ASSUME ToggleKill(t, u), ~StaffSeen(t)
        PROVE  ~StaffEffect
    BY <1>2, <2>3, NoStaffEffect DEF ToggleKill, money
  <2>4. ASSUME GotReason(t, u), StaffSeen(t)
        PROVE  Done(t)
    BY <1>1, <1>2, <2>4 DEF GotReason
  <2>5. ASSUME AppDecide(t, u), StaffSeen(t)
        PROVE  Done(t)
    BY <1>1, <1>2, <2>5 DEF AppDecide
  <2>6. ASSUME ToggleKill(t, u), StaffSeen(t)
        PROVE  Done(t)
    BY <1>1, <1>2, <2>6 DEF ToggleKill
  <2> QED BY <2>1, <2>2, <2>3, <2>4, <2>5, <2>6
<1>3. ASSUME Inv, NEW t \in Tasks, NEW u \in Users
      PROVE  /\ Start(t, u) \/ Menu(t, u) \/ CancelForm(t, u) \/ AdminHome(t, u) => ~StaffEffect
             /\ PartnerApply(t, u) \/ PartnerPay(t, u) => ~StaffEffect
             /\ AdjustStart(t, u) \/ GotUser(t, u) \/ GotAmount(t, u) => ~StaffEffect
  <2>1. ASSUME EnsuresPlain(t, u) \/ UNCHANGED <<row, money, desk>>
        PROVE  ~StaffEffect
    BY <1>3, <2>1, NoStaffEffect DEF EnsuresPlain, Ensures, money, desk
  <2> QED BY <2>1 DEF Start, Menu, CancelForm, AdminHome, PartnerApply, PartnerPay,
                      AdjustStart, GotUser, GotAmount
<1>4. ASSUME Inv, NEW t \in Tasks, NEW u \in Users, Form(t, u) \/ GotPitch(t, u)
      PROVE  ~StaffEffect
  <2>1. ASSUME NEW h, NEW nexts, FormStep(t, u, h, nexts), UNCHANGED <<row, desk>> \/ Ensures(t, u)
        PROVE  ~StaffEffect
    BY <1>4, <2>1, NoStaffEffect DEF FormStep, Ensures, money, desk
  <2>2. CASE FormLink(t, u) \/ FormQty(t, u) \/ FormComments(t, u)
             \/ FormMentions(t, u) \/ FormCoupon(t, u)
    BY <2>1, <2>2 DEF FormLink, FormQty, FormComments, FormMentions, FormCoupon
  <2>3. CASE ServiceOrder(t, u)
    BY <1>4, <2>3, NoStaffEffect DEF ServiceOrder, money, desk
  <2>4. CASE ConfirmOrder(t, u)
    <3>1. -Price \in Int /\ "order" \in Postings \ {"adjust"}
      BY BotAssumption DEF BotAssumption, Postings
    <3>2. /\ UNCHANGED <<stopped, apps>>
          /\ UNCHANGED posted \/ Posts(u, "order", -Price)
      BY <2>4 DEF ConfirmOrder, Ensures, money, desk
    <3> QED BY <1>4, <3>1, <3>2, NoStaffEffect
  <2>5. CASE GotPitch(t, u)
    <3>1. /\ UNCHANGED <<stopped, posted>>
          /\ UNCHANGED apps \/ \E a : apps' = Append(apps, a)
      BY <2>5 DEF GotPitch, money
    <3> QED BY <1>4, <3>1, NoStaffEffect
  <2> QED BY <1>4, <2>2, <2>3, <2>4, <2>5 DEF Form
<1>5. ASSUME Inv, NEW t \in Tasks, NEW u \in Users,
             GotPayout(t, u) \/ \E bonus \in {0, 1} : AcceptTerms(t, u, bonus)
      PROVE  ~StaffEffect
  <2>1. CASE GotPayout(t, u)
    <3>1. PICK n : n = task[t].x
      OBVIOUS
    <3>2. /\ UNCHANGED <<stopped, apps>> /\ Handles(t, u, "payout")
          /\ UNCHANGED posted \/ Posts(u, "payout", -n)
      BY <2>1, <3>1 DEF GotPayout, Ensures, money
    <3>3. -n \in Int /\ "payout" \in Postings \ {"adjust"}
      BY <1>5, <3>1, <3>2, Admitted DEF ArgumentSound, Postings
    <3> QED BY <1>5, <3>2, <3>3, NoStaffEffect
  <2>2. ASSUME NEW bonus \in {0, 1}, AcceptTerms(t, u, bonus)
        PROVE  ~StaffEffect
    <3>1. "welcome" \in Postings \ {"adjust"} /\ bonus \in Int
      BY <2>2 DEF Postings
    <3>2. /\ UNCHANGED <<stopped, apps>>
          /\ UNCHANGED posted \/ Posts(u, "welcome", bonus)
      BY <2>2 DEF AcceptTerms, money
    <3> QED BY <1>5, <3>1, <3>2, NoStaffEffect
  <2> QED BY <1>5, <2>1, <2>2
<1>6. ASSUME Inv, UNCHANGED <<posted, stopped, apps>>
      PROVE  ~StaffEffect
  BY <1>6, NoStaffEffect
<1>7. /\ \A t \in Tasks : Admit(t) \/ CommitLost(t) => UNCHANGED <<posted, stopped, apps>>
      /\ \A t \in Tasks, u \in Users : \A h \in Uses[u] :
           Receive(t, u, h) => UNCHANGED <<posted, stopped, apps>>
      /\ \A u \in Users, r \in {"user", "admin"} :
           SetRole(u, r) => UNCHANGED <<posted, stopped, apps>>
      /\ Restart \/ UNCHANGED vars => UNCHANGED <<posted, stopped, apps>>
  BY DEF Admit, CommitLost, Receive, SetRole, Restart, vars, money, desk
<1>8. ASSUME Inv, [Next]_vars, StaffEffect
      PROVE  \E t \in Tasks : Done(t)
  BY <1>2, <1>3, <1>4, <1>5, <1>6, <1>7, <1>8 DEF Next, Partner, Adjust, Desk
<1> QED BY <1>8 DEF Done

\* Whoever adjusts, decides or switches was staff while the update was handled
\* (admin.py:86-625).
THEOREM StaffWork == Spec => StaffOnly
BY StaffStep, Invariance, PTL DEF Spec, StaffOnly
==============================================================================
