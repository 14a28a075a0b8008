------------------------------- MODULE Premium --------------------------------
(***************************************************************************)
(* app/premium: subscriptions (user_premiums) and the users.is_premium     *)
(* flag that is kept with them.  Grants, revocations, the daily expiry job *)
(* and the gate of an order each read rows without a lock, decide, and     *)
(* commit, or roll back, later.  UPDATEs write the changed columns only.   *)
(***************************************************************************)
EXTENDS Naturals, Sequences, FiniteSets

CONSTANTS Users,
          Txs,       \* transactions in progress at the same time
          Duration,  \* what one grant adds to the clock
          MaxTime,   \* bound: the clock
          MaxRows,   \* bound: subscriptions
          MaxTxs     \* bound: transactions begun

VARIABLES row,        \* user_premiums, in id order
          is_premium, \* users who have the flag
          tx, now, begun

vars == <<row, is_premium, tx, now, begun>>

Plans == {"premium", "vip"}
Rank(plan) == IF plan = "vip" THEN 2 ELSE 1

\* own: the active row this transaction has loaded (0: none), and until: its end then;
\* lapsed: the rows it expires; plan: of a grant; at: the clock when it read.
Idle == [op |-> "idle", u |-> "none", own |-> 0, until |-> 0, lapsed |-> {}, plan |-> "none",
         at |-> 0]

Init ==
    /\ row = <<>> /\ is_premium = {}
    /\ tx = [t \in Txs |-> Idle]
    /\ now = 0 /\ begun = 0

Tick ==
    /\ now < MaxTime /\ now' = now + 1
    /\ UNCHANGED <<row, is_premium, tx, begun>>

------------------------------------------------------------------------------
\* get_active_premium: several active rows of a user are an error, a lapsed one is
\* marked as expired.

Active(u) == {i \in DOMAIN row : row[i].u = u /\ row[i].status = "active"}
Lapsed(i) == row[i].until < now

Reads(t, op, u, plan) ==
    /\ tx[t] = Idle /\ begun < MaxTxs /\ begun' = begun + 1
    /\ Cardinality(Active(u)) <= 1
    /\ LET lapsed == {i \in Active(u) : Lapsed(i)}
           live == Active(u) \ lapsed
           own == IF live = {} THEN 0 ELSE CHOOSE i \in live : TRUE
       IN
         /\ op = "revoke" => own # 0
         /\ tx' = [tx EXCEPT ![t] =
                     [op |-> op, u |-> u, lapsed |-> lapsed, plan |-> plan, at |-> now,
                      own |-> own, until |-> IF own = 0 THEN 0 ELSE row[own].until]]
    /\ UNCHANGED <<row, is_premium, now>>

BeginGrant(t) == \E u \in Users, plan \in Plans : Reads(t, "grant", u, plan)
BeginRevoke(t) == \E u \in Users : Reads(t, "revoke", u, "none")
BeginGate(t) == \E u \in Users : Reads(t, "gate", u, "none")

\* expire_all_lapsed
BeginExpiry(t) ==
    /\ tx[t] = Idle /\ begun < MaxTxs /\ begun' = begun + 1
    /\ tx' = [tx EXCEPT ![t] = [Idle EXCEPT !.op = "expiry",
                 !.lapsed = {i \in DOMAIN row : row[i].status = "active" /\ Lapsed(i)}]]
    /\ UNCHANGED <<row, is_premium, now>>

\* _expire_premium
Expired(rows, lapsed) ==
    [i \in DOMAIN rows |-> IF i \in lapsed THEN [rows[i] EXCEPT !.status = "expired"] ELSE rows[i]]
FlagsKept(lapsed) == is_premium
Flags(lapsed) == is_premium \ {row[i].u : i \in lapsed}

Later(a, b) == IF a > b THEN a ELSE b

\* grant_premium: the same plan is extended; an upgrade cancels the old row; a
\* downgrade gets a row of its own at once, beside the old one.
Extends(x) == x.own # 0 /\ row[x.own].plan = x.plan
Upgrades(x) == x.own # 0 /\ Rank(row[x.own].plan) < Rank(x.plan)
NewRow(x) == [u |-> x.u, plan |-> x.plan, status |-> "active", until |-> x.at + Duration]

CommitGrant(t) ==
    LET x == tx[t]  rows == Expired(row, x.lapsed) IN
    /\ x.op = "grant"
    /\ \/ /\ Extends(x)
          /\ row' = [rows EXCEPT ![x.own].until = Later(x.until, x.at) + Duration]
          /\ is_premium' = Flags(x.lapsed)
       \/ /\ ~Extends(x) /\ Len(row) < MaxRows
          /\ row' = Append(IF Upgrades(x) THEN [rows EXCEPT ![x.own].status = "cancelled"] ELSE rows,
                           NewRow(x))
          /\ is_premium' = is_premium \cup {x.u}

CommitRevoke(t) ==
    LET x == tx[t] IN
    /\ x.op = "revoke"
    /\ row' = [row EXCEPT ![x.own].status = "cancelled"]
    /\ is_premium' = is_premium \ {x.u}

\* The expiry job, or an order's gate in a session that is committed.
CommitExpiry(t) ==
    LET x == tx[t] IN
    /\ x.op \in {"expiry", "gate"}
    /\ row' = Expired(row, x.lapsed)
    /\ is_premium' = Flags(x.lapsed)

Commit(t) ==
    /\ CommitGrant(t) \/ CommitRevoke(t) \/ CommitExpiry(t)
    /\ tx' = [tx EXCEPT ![t] = Idle]
    /\ UNCHANGED <<now, begun>>

Rollback(t) ==
    /\ tx[t] # Idle
    /\ tx' = [tx EXCEPT ![t] = Idle]
    /\ UNCHANGED <<row, is_premium, now, begun>>

Next ==
    \/ Tick
    \/ \E t \in Txs : BeginGrant(t) \/ BeginRevoke(t) \/ BeginGate(t) \/ BeginExpiry(t)
                     \/ Commit(t) \/ Rollback(t)

Spec == Init /\ [][Next]_vars

------------------------------------------------------------------------------
\* Properties

\* Whoever has the is_premium flag has an active subscription, whichever transactions
\* overlap (service.py:154-353).  The converse fails: with two active rows, the
\* end of one takes the flag away.
FlagHonest == \A u \in is_premium : Active(u) # {}
==============================================================================
