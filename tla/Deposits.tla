------------------------------ MODULE Deposits -------------------------------
(***************************************************************************)
(* What app/payments/service.py promises about wallet top-ups: an invoice  *)
(* whose exact amount was received is credited at most once, and nothing   *)
(* else is ever credited.                                                  *)
(***************************************************************************)
EXTENDS Naturals

CONSTANT Invoices

VARIABLES received,  \* per invoice: "nothing", "exact" or "other" amount
          credited   \* per invoice: how many times it was credited

Init ==
    /\ received = [p \in Invoices |-> "nothing"]
    /\ credited = [p \in Invoices |-> 0]

Receive(p) ==
    /\ received[p] = "nothing"
    /\ \E r \in {"exact", "other"} : received' = [received EXCEPT ![p] = r]
    /\ UNCHANGED credited

Credit(p) ==
    /\ received[p] = "exact" /\ credited[p] = 0
    /\ credited' = [credited EXCEPT ![p] = 1]
    /\ UNCHANGED received

Next == \E p \in Invoices : Receive(p) \/ Credit(p)

Spec == Init /\ [][Next]_<<received, credited>>
==============================================================================
