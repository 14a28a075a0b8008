------------------------------- MODULE MCScenes -------------------------------
(***************************************************************************)
(* The second generation (app/main.py and its packages), and the boots of  *)
(* the first: components that run in one deployment and, as far as they    *)
(* are modelled, share no state.  A behaviour of this module is one of one *)
(* of them, its scene; since no step of one reads or writes what another   *)
(* keeps, every property of one component that holds here holds of all of  *)
(* them side by side.                                                      *)
(***************************************************************************)
EXTENDS Integers, Sequences

CONSTANTS Owners, Slugs, Tokens, NoToken, Requests, PerOwner, Overlap, MaxRows, MaxOps,
          MaxRestarts
CONSTANTS Readers, Runs, BatchSize, MaxTries, MaxCasts, MaxPlans, MaxEdits, MaxCrashes
CONSTANTS Panels, Services, Calls, DegradedAfter, DownAfter, MaxCalls, MaxToggles
CONSTANTS Users, Txs, Duration, MaxTime, MaxGrants, MaxTxs
CONSTANTS Admins, Tasks, Things, Forms, Serial, MaxTaps
CONSTANTS Payments, Sessions, Amounts, MaxOpened
CONSTANTS MaxOrders, Chunk, ShortLists, Misleading
CONSTANTS Procs, MaxUses, MaxWords
CONSTANTS Rates, Costs, Quantities, Markups, Margins, CustomPrices, Percents, Coupons

VARIABLES scene
VARIABLES tenant, running, manager, todo, excused, req, ops, restarts
VARIABLES cast, member, plans, run, castLock, reached, listing, result, edits, crashes
VARIABLES enabled, registry, reload, call, sold, redis, calls, toggles
VARIABLES premium, is_premium, tx, now, begun
VARIABLES chat, task, flag, asked, last, taps
VARIABLES balance, entry, payment, lock, session, opened
VARIABLES about, said, known, job, heard
VARIABLES production, fixture, boot, word
VARIABLES cached, service, quote

T == INSTANCE Tenants WITH row <- tenant
B == INSTANCE Broadcasts WITH Users <- Readers, lock <- castLock
R == INSTANCE Providers WITH entry <- registry
P == INSTANCE Premium WITH row <- premium, MaxRows <- MaxGrants
D == INSTANCE AdminDesk
M == INSTANCE Market
A == INSTANCE Panel
S == INSTANCE Boots WITH row <- fixture
Q == INSTANCE Rates

tenantVars == <<tenant, running, manager, todo, excused, req, ops, restarts>>
castVars == <<cast, member, plans, run, castLock, reached, listing, result, edits, crashes>>
registryVars == <<enabled, registry, reload, call, sold, redis, calls, toggles>>
premiumVars == <<premium, is_premium, tx, now, begun>>
deskVars == <<chat, task, flag, asked, last, taps>>
marketVars == <<balance, entry, payment, lock, session, opened>>
panelVars == <<about, said, known, job, heard>>
bootVars == <<production, fixture, boot, word>>
rateVars == <<cached, service, quote>>
vars == <<scene, tenantVars, castVars, registryVars, premiumVars, deskVars, marketVars, panelVars,
          bootVars, rateVars>>

Init ==
    /\ scene \in {"tenants", "broadcasts", "providers", "premium", "desk", "market", "panel", "boots",
                 "rates"}
    /\ T!Init /\ B!Init /\ R!Init /\ P!Init /\ D!Init /\ M!Init /\ A!Init /\ S!Init /\ Q!Init
    \* Elsewhere than in its scene one initial state of a component is enough.
    /\ scene # "panel" => about = "orders"
    /\ scene # "boots" => production
    /\ scene # "rates" => service = CHOOSE s \in Q!Settings : TRUE

Next ==
    /\ UNCHANGED scene
    /\ \/ /\ scene = "tenants" /\ T!Next
          /\ UNCHANGED <<castVars, registryVars, premiumVars, deskVars, marketVars,
                         panelVars, bootVars, rateVars>>
       \/ /\ scene = "broadcasts" /\ B!Next
          /\ UNCHANGED <<tenantVars, registryVars, premiumVars, deskVars, marketVars,
                         panelVars, bootVars, rateVars>>
       \/ /\ scene = "providers" /\ R!Next
          /\ UNCHANGED <<tenantVars, castVars, premiumVars, deskVars, marketVars,
                         panelVars, bootVars, rateVars>>
       \/ /\ scene = "premium" /\ P!Next
          /\ UNCHANGED <<tenantVars, castVars, registryVars, deskVars, marketVars,
                         panelVars, bootVars, rateVars>>
       \/ /\ scene = "desk" /\ D!Next
          /\ UNCHANGED <<tenantVars, castVars, registryVars, premiumVars, marketVars,
                         panelVars, bootVars, rateVars>>
       \/ /\ scene = "market" /\ M!Next
          /\ UNCHANGED <<tenantVars, castVars, registryVars, premiumVars, deskVars,
                         panelVars, bootVars, rateVars>>
       \/ /\ scene = "panel" /\ A!Next
          /\ UNCHANGED <<tenantVars, castVars, registryVars, premiumVars, deskVars,
                         marketVars, bootVars, rateVars>>
       \/ /\ scene = "boots" /\ S!Next
          /\ UNCHANGED <<tenantVars, castVars, registryVars, premiumVars, deskVars,
                         marketVars, panelVars, rateVars>>
       \/ /\ scene = "rates" /\ Q!Next
          /\ UNCHANGED <<tenantVars, castVars, registryVars, premiumVars, deskVars,
                         marketVars, panelVars, bootVars>>

Spec == Init /\ [][Next]_vars

\* The promises of the components, as their modules state them.
BotsMatchRows == T!BotsMatchRows
CountsExact == B!CountsExact
TripKept == R!TripKept
FlagHonest == P!FlagHonest
AsAsked == D!AsAsked
DepositOnce == M!DepositOnce
HonestAnswers == A!HonestAnswers
OperatorKept == S!OperatorKept
ChargedFairly == Q!ChargedFairly
==============================================================================
