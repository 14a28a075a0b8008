------------------------------ MODULE AdminDesk -------------------------------
(***************************************************************************)
(* app/admin_bot/handlers.py: the admins' bot of the second generation.    *)
(* A button either switches something, or prompts for a text: it notes in  *)
(* the conversation what the text will be about and sets the state, and    *)
(* the handler of that state does the work with what it finds there.       *)
(* Only /admin, the home and the users button, and a finished form, forget *)
(* the conversation; every other button leaves what is noted.              *)
(*                                                                         *)
(* Rows and texts are abstracted to what they are about.  Readers (lists,  *)
(* details, statistics) change nothing.                                    *)
(***************************************************************************)
EXTENDS Naturals, FiniteSets

CONSTANTS Admins, Tasks,
          Things,     \* users, services, categories, segments, coupon codes alike
          Forms,      \* the forms the admins of this run use
          Serial,     \* whether an admin waits for the answer before going on
          MaxTaps     \* bound: updates

VARIABLES chat,  \* per admin: FSM state and data
          task,  \* updates being handled
          flag,  \* what is banned, disabled or stopped
          asked, \* per admin: what the last prompt asked for (history)
          last,  \* the last form carried out, and what its admin was asked (history)
          taps

vars == <<chat, task, flag, asked, last, taps>>

None == "none"
\* Which entry of the data a form is about.
Key(form) ==
    CASE form \in {"credit", "debit"} -> "target_user_id"
      [] form \in {"name", "price", "profit"} -> "editing_svc_id"
      [] form = "catname" -> "editing_cat_id"
      [] form = "broadcast" -> "bc_segment"
      [] form = "starprice" -> "star_svc_id"
      [] form \in {"coupontype", "couponvalue", "couponexpiry"} -> "coupon_code"
      [] OTHER -> None
Keys == {"target_user_id", "editing_svc_id", "editing_cat_id", "bc_segment", "star_svc_id",
         "coupon_code"}
NoData == [k \in Keys |-> None]
NoChat == [state |-> None, data |-> NoData]
Nothing == <<None, None>>
Idle == [a |-> None, h |-> None, at |-> "idle", about |-> None, seen |-> FALSE]

Init ==
    /\ chat = [a \in Admins |-> NoChat]
    /\ task = [t \in Tasks |-> Idle]
    /\ flag = {}
    /\ asked = [a \in Admins |-> Nothing]
    /\ last = [did |-> Nothing, asked |-> Nothing]
    /\ taps = 0

------------------------------------------------------------------------------
\* Updates arrive

Aimed == {"credit", "debit", "name", "price", "profit", "catname", "broadcast"}
Plain == {"catadd", "global", "margin", "search", "couponcode", "star"}
TextForms == Aimed \cup Plain \cup {"couponvalue", "couponexpiry", "starprice"}

Takes(t, a) ==
    /\ task[t] = Idle /\ taps < MaxTaps /\ taps' = taps + 1
    /\ Serial => \A s \in Tasks : task[s].a # a
Job(a, h, at, about, seen) == [a |-> a, h |-> h, at |-> at, about |-> about, seen |-> seen]

\* A button that prompts: one about a thing notes it first, and then sets the state.
Notes(t, a, forms) ==
    /\ Takes(t, a)
    /\ \E h \in forms \cap Forms, x \in Things :
         task' = [task EXCEPT ![t] = Job(a, h, "note", x, FALSE)]
    /\ UNCHANGED <<chat, flag, asked, last>>
Prompts(t, a, h) ==
    /\ Takes(t, a) /\ h \in Forms
    /\ task' = [task EXCEPT ![t] = Job(a, h, "state", None, FALSE)]
    /\ UNCHANGED <<chat, flag, asked, last>>

AskCredit(t, a) == Notes(t, a, {"credit"})
AskDebit(t, a) == Notes(t, a, {"debit"})
AskService(t, a) == Notes(t, a, {"name", "price", "profit"})
AskCategory(t, a) == Notes(t, a, {"catname"})
ComposeBroadcast(t, a) == Notes(t, a, {"broadcast"})

SearchUser(t, a) == Prompts(t, a, "search")
AddCategory(t, a) == Prompts(t, a, "catadd")
SetGlobal(t, a) == Prompts(t, a, "global")
SetMargin(t, a) == Prompts(t, a, "margin")
NewCoupon(t, a) == Prompts(t, a, "couponcode")
FeatureService(t, a) == Prompts(t, a, "star")

\* The type of a coupon, chosen on any keyboard that still shows it.
CouponType(t, a) ==
    /\ Takes(t, a) /\ "couponcode" \in Forms
    /\ task' = [task EXCEPT ![t] = Job(a, "couponvalue", "state", None, FALSE)]
    /\ UNCHANGED <<chat, flag, asked, last>>

\* Buttons that switch: ban and unban set what they say, the others turn round what
\* they have read.
Switches(t, a, x, seen) ==
    /\ Takes(t, a) /\ "switch" \in Forms
    /\ task' = [task EXCEPT ![t] = Job(a, "switch", "flip", x, seen)]
    /\ UNCHANGED <<chat, flag, asked, last>>

BanOrUnban(t, a) ==
    \E x \in Things, banned \in BOOLEAN : Switches(t, a, <<"user", x>>, ~banned)
Turns(t, a, kind) == \E x \in Things : Switches(t, a, <<kind, x>>, <<kind, x>> \in flag)
ToggleProvider(t, a) == Turns(t, a, "provider")
ToggleKillSwitch(t, a) == Turns(t, a, "kill switch")
ToggleService(t, a) == Turns(t, a, "service")
ToggleCategory(t, a) == Turns(t, a, "category")

\* /admin, home, users
Home(t, a) ==
    /\ Takes(t, a)
    /\ chat' = [chat EXCEPT ![a] = NoChat]
    /\ asked' = [asked EXCEPT ![a] = Nothing]
    /\ UNCHANGED <<task, flag, last>>

\* A text goes to the handler of the state, which reads the data; a text that is not
\* valid is answered and nothing else.
Text(t, a) ==
    /\ Takes(t, a) /\ chat[a].state \in TextForms
    /\ LET h == chat[a].state IN
         task' = [task EXCEPT ![t] =
                    Job(a, h, "work", IF Key(h) = None THEN None ELSE chat[a].data[Key(h)], FALSE)]
    /\ UNCHANGED <<chat, flag, asked, last>>

------------------------------------------------------------------------------
\* Handlers

NotedForCredit(d, h, x) == IF h = "debit" THEN d ELSE [d EXCEPT ![Key(h)] = x]
Noted(d, h, x) == [d EXCEPT ![Key(h)] = x]

Note(t) ==
    LET x == task[t] IN
    /\ x.at = "note"
    /\ chat' = [chat EXCEPT ![x.a].data = Noted(@, x.h, x.about)]
    /\ task' = [task EXCEPT ![t].at = "state"]
    /\ UNCHANGED <<flag, asked, last, taps>>

SetState(t) ==
    LET x == task[t] IN
    /\ x.at = "state"
    /\ chat' = [chat EXCEPT ![x.a].state = x.h]
    /\ asked' = [asked EXCEPT ![x.a] = <<x.h, x.about>>]
    /\ task' = [task EXCEPT ![t] = Idle]
    /\ UNCHANGED <<flag, last, taps>>

Flip(t) ==
    LET x == task[t] IN
    /\ x.at = "flip"
    /\ flag' = IF x.seen THEN flag \ {x.about} ELSE flag \cup {x.about}
    /\ task' = [task EXCEPT ![t] = Idle]
    /\ UNCHANGED <<chat, asked, last, taps>>

\* The forms that end: the session is committed, then the conversation forgotten.
Works(t, forms) ==
    LET x == task[t] IN
    /\ x.at = "work" /\ x.h \in forms
    /\ Key(x.h) # None => x.about # None
    /\ last' = [did |-> <<x.h, x.about>>, asked |-> asked[x.a]]
    /\ task' = [task EXCEPT ![t].at = "clear"]
    /\ UNCHANGED <<chat, flag, asked, taps>>

Credit(t) == Works(t, {"credit"})
Debit(t) == Works(t, {"debit"})
SaveService(t) == Works(t, {"name", "price", "profit"})
SaveCategory(t) == Works(t, {"catname"})
SendBroadcast(t) == Works(t, {"broadcast"})
FindUser(t) == Works(t, {"search"})
CreateCategory(t) == Works(t, {"catadd"})
SaveGlobal(t) == Works(t, {"global"})
SaveMargin(t) == Works(t, {"margin"})
SaveCoupon(t) == Works(t, {"couponexpiry"})
SaveFeatured(t) == Works(t, {"starprice"})

\* An invalid text, nobody found, or an error before the commit: the conversation
\* goes on, except that of a debit that failed.
Refuse(t) ==
    LET x == task[t] IN
    /\ x.at = "work"
    /\ task' = [task EXCEPT ![t] = Idle]
    /\ UNCHANGED <<chat, flag, asked, last, taps>>

FailDebit(t) ==
    /\ task[t].at = "work" /\ task[t].h = "debit"
    /\ task' = [task EXCEPT ![t].at = "clear"]
    /\ UNCHANGED <<chat, flag, asked, last, taps>>

Clear(t) ==
    LET x == task[t] IN
    /\ x.at = "clear"
    /\ chat' = [chat EXCEPT ![x.a] = NoChat]
    /\ asked' = [asked EXCEPT ![x.a] = Nothing]
    /\ task' = [task EXCEPT ![t] = Idle]
    /\ UNCHANGED <<flag, last, taps>>

\* The steps of the longer forms: a featured service is named and then priced; a
\* coupon has its code, type, value and expiry.
NameFeatured(t) ==
    /\ task[t].at = "work" /\ task[t].h = "star"
    /\ \E x \in Things :
         task' = [task EXCEPT ![t].h = "starprice", ![t].at = "note", ![t].about = x]
    /\ UNCHANGED <<chat, flag, asked, last, taps>>

CouponCode(t) ==
    /\ task[t].at = "work" /\ task[t].h = "couponcode"
    /\ \E x \in Things :
         task' = [task EXCEPT ![t].h = "coupontype", ![t].at = "note", ![t].about = x]
    /\ UNCHANGED <<chat, flag, asked, last, taps>>

CouponValue(t) ==
    /\ task[t].at = "work" /\ task[t].h = "couponvalue"
    /\ task' = [task EXCEPT ![t].h = "couponexpiry", ![t].at = "state"]
    /\ UNCHANGED <<chat, flag, asked, last, taps>>

UserDesk(t, a) ==
    \/ SearchUser(t, a) \/ AskCredit(t, a) \/ AskDebit(t, a) \/ BanOrUnban(t, a)
ShopDesk(t, a) ==
    \/ AskService(t, a) \/ AskCategory(t, a) \/ AddCategory(t, a) \/ FeatureService(t, a)
    \/ ToggleProvider(t, a) \/ ToggleService(t, a) \/ ToggleCategory(t, a)
    \/ SetGlobal(t, a) \/ SetMargin(t, a) \/ NewCoupon(t, a) \/ CouponType(t, a)
    \/ ComposeBroadcast(t, a) \/ ToggleKillSwitch(t, a)
Finish(t) ==
    \/ Credit(t) \/ Debit(t) \/ FindUser(t) \/ SendBroadcast(t)
    \/ SaveService(t) \/ SaveCategory(t) \/ CreateCategory(t) \/ SaveGlobal(t)
    \/ SaveMargin(t) \/ SaveCoupon(t) \/ SaveFeatured(t)

Next ==
    \/ \E t \in Tasks, a \in Admins : UserDesk(t, a) \/ ShopDesk(t, a) \/ Home(t, a) \/ Text(t, a)
    \/ \E t \in Tasks :
         \/ Note(t) \/ SetState(t) \/ Flip(t) \/ Finish(t) \/ Refuse(t) \/ FailDebit(t)
         \/ Clear(t) \/ NameFeatured(t) \/ CouponCode(t) \/ CouponValue(t)

Spec == Init /\ [][Next]_vars

------------------------------------------------------------------------------
\* Properties

\* A form is carried out for what its admin was last asked about: no wallet is
\* credited or debited, no service, category or segment taken, because of what an
\* earlier, abandoned form left in the conversation.  Holds for an admin who waits
\* for each answer (handlers.py:277-357, 626-660, 885-1010, 1147-1180, 1512-1575).
\* A coupon is not covered: the type can be chosen on an old keyboard.
AsAsked ==
    last.did[1] # "couponexpiry" => last.did = last.asked
==============================================================================
