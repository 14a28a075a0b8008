------------------------------ MODULE Statement ------------------------------
(***************************************************************************)
(* What app/wallet.py promises about one customer's ledger_entries rows,   *)
(* independent of sessions, locks and commits: a list of postings that     *)
(* only ever grows, in which every posting is a legal successor of the     *)
(* balances its predecessor left behind, and in which no idempotency key   *)
(* is posted twice.                                                        *)
(***************************************************************************)
EXTENDS Integers, Sequences

VARIABLE log   \* the postings, oldest first

\* The balances a new users row starts from (models.User column defaults).
Opening == [balance |-> 0, reserved |-> 0]

\* The balances in force just before posting i of history h.
Before(h, i) ==
    IF i = 1 THEN Opening
    ELSE [balance |-> h[i-1].balance, reserved |-> h[i-1].reserved]

\* The balances left by the last posting of h.
Closing(h) == Before(h, Len(h) + 1)

\* Solvent balances: nothing negative, nothing reserved that is not there.
Solvent(r) == 0 <= r.reserved /\ r.reserved <= r.balance

\* Posting e legally follows balances r.
Follows(r, e) ==
    /\ e.balance = r.balance + e.amount
    /\ Solvent(e)
    /\ \/ e.type = "credit"  /\ e.amount > 0 /\ e.reserved = r.reserved
       \/ e.type = "debit"   /\ e.amount < 0 /\ e.reserved = r.reserved
       \/ e.type = "reserve" /\ e.amount = 0 /\ e.reserved > r.reserved
       \/ e.type = "release" /\ e.amount = 0 /\ e.reserved <= r.reserved
       \/ e.type = "capture" /\ e.amount < 0 /\ e.reserved = r.reserved + e.amount

Legal(h) ==
    /\ \A i \in 1..Len(h) : Follows(Before(h, i), h[i])
    /\ \A i, j \in 1..Len(h) : h[i].key = h[j].key => i = j

\* h2 keeps every posting of h where it was.
Extends(h, h2) ==
    /\ Len(h) <= Len(h2)
    /\ \A i \in 1..Len(h) : h2[i] = h[i]

Init == log = <<>>

\* A committed transaction appends all of its postings at once.
Post == Extends(log, log') /\ Legal(log')

Spec == Init /\ [][Post]_log
==============================================================================
