----------------------------- MODULE MCPayments ------------------------------
\* Values for checking Payments.
EXTENDS Payments, TLC

\* The last invoice is confirmed by hand, the others are paid online.
MCMethod == [p \in Invoices |-> IF p = MaxInvoices THEN "manual" ELSE "razorpay"]
OnlineOnly == [p \in Invoices |-> "razorpay"]

Symmetry == Permutations(Sessions) \cup Permutations(Keys)
==============================================================================
