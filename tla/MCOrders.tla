------------------------------ MODULE MCOrders -------------------------------
\* Values for checking Orders.
EXTENDS Orders, TLC

\* Order 1 costs 3 paise, every later one 2: charges that differ tell orders apart.
MCCharge == [o \in Orders |-> IF o = 1 THEN 3 ELSE 2]

\* Whichever sets a configuration has more than one model value of.
SessionSymmetry == Permutations(Sessions) \cup Permutations(Keys)
UserSymmetry == Permutations(Users)
Symmetry == SessionSymmetry \cup UserSymmetry

\* What a panel can report, without and with the two statuses the code mishandles.
UsualReports == {"processing", "in_progress", "partial", "completed", "canceled", "failed"}
PendingReports == UsualReports \cup {"pending"}
RefundedReports == UsualReports \cup {"refunded"}
==============================================================================
