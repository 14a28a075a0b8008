----------------------------- MODULE MCReferrals -----------------------------
\* Values for checking Referrals.
EXTENDS Referrals, TLC

CONSTANTS a, b

\* b referred a; b taps a's link during the run, after the first deposit or before.
MCKind == 1 :> "deposit" @@ 2 :> "deposit" @@ 3 :> "deposit" @@ 4 :> "completed"
MCBuyer == 1 :> a @@ 2 :> b @@ 3 :> b @@ 4 :> a
MCReferred == a :> b @@ b :> None
MCVisits == {<<b, a>>}
==============================================================================
