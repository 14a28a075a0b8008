------------------------------ MODULE MCPricing ------------------------------
\* Values for checking Pricing.
EXTENDS Pricing

\* A markup that sells below cost (even below nothing) and an ordinary one.
MCMarkups == {[percent |-> -20, fixed |-> -90], [percent |-> 8, fixed |-> 3]}
==============================================================================
