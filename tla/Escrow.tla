------------------------------- MODULE Escrow --------------------------------
(***************************************************************************)
(* What app/orders.py promises about a customer's money, whatever the      *)
(* provider answers and however requests interleave: the charge of an      *)
(* order is held, then either taken or given back, once; money taken is    *)
(* repaid, in total at most the charge; nothing else moves the balances.   *)
(***************************************************************************)
EXTENDS Integers

CONSTANTS Users,    \* customers
          Orders,   \* order identities
          Charge,   \* Charge[o]: what order o costs
          Opening,  \* a customer's balance before any order
          None      \* an order that does not exist has no owner

VARIABLES account,  \* per customer: balance and the part of it that is reserved
          owner,    \* per order
          stage,    \* per order: "none", "held", "taken" or "returned"
          repaid    \* per order: credited back so far

vars == <<account, owner, stage, repaid>>

Init ==
    /\ account = [u \in Users |-> [balance |-> Opening, reserved |-> 0]]
    /\ owner = [o \in Orders |-> None]
    /\ stage = [o \in Orders |-> "none"]
    /\ repaid = [o \in Orders |-> 0]

\* Order o of customer u moves to stage st; the account changes by these amounts.
Move(u, o, st, taken, held) ==
    /\ account[u].balance - account[u].reserved >= taken + held
    /\ account' = [account EXCEPT ![u] = [balance |-> @.balance - taken,
                                          reserved |-> @.reserved + held]]
    /\ owner' = [owner EXCEPT ![o] = u]
    /\ stage' = [stage EXCEPT ![o] = st]
    /\ UNCHANGED repaid

\* A new order: held, taken at once, or declined (held and returned at once).
Order(u, o) ==
    /\ stage[o] = "none"
    /\ \/ Move(u, o, "held", 0, Charge[o])
       \/ Move(u, o, "taken", Charge[o], 0)
       \/ Move(u, o, "returned", 0, 0)

\* A held order is settled one way or the other.
Settle(u, o) ==
    /\ stage[o] = "held" /\ owner[o] = u
    /\ \/ Move(u, o, "taken", Charge[o], -Charge[o])
       \/ Move(u, o, "returned", 0, -Charge[o])

\* Part of what was taken is credited back.
Repay(u, o, n) ==
    /\ stage[o] = "taken" /\ owner[o] = u
    /\ repaid[o] + n <= Charge[o]
    /\ account' = [account EXCEPT ![u].balance = @ + n]
    /\ repaid' = [repaid EXCEPT ![o] = @ + n]
    /\ UNCHANGED <<owner, stage>>

Next ==
    \E u \in Users, o \in Orders :
        \/ Order(u, o)
        \/ Settle(u, o)
        \/ \E n \in 1..Charge[o] : Repay(u, o, n)

Spec == Init /\ [][Next]_vars
==============================================================================
