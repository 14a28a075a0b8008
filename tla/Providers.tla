------------------------------ MODULE Providers -------------------------------
(***************************************************************************)
(* app/providers/registry.py (second generation): the in-memory registry   *)
(* of panels with its circuit breaker, the health-check job that uses it   *)
(* (workers/main.py), and sync/engine.py, which stores the panels' lists.  *)
(*                                                                         *)
(* Calls to panels are concurrent and awaited; what a call reports is      *)
(* recorded in the entry that is current when it ends.  A reload copies    *)
(* the entries and, while it closes the clients of panels that are gone,   *)
(* leaves the old ones in use.                                             *)
(***************************************************************************)
EXTENDS Naturals, FiniteSets

CONSTANTS Panels, Services,
          Calls,          \* calls to panels in progress at the same time
          DegradedAfter,  \* _CB_DEGRADED_THRESHOLD
          DownAfter,      \* _CB_DOWN_THRESHOLD
          MaxCalls,       \* bound: calls made
          MaxToggles      \* bound: panels enabled or disabled

VARIABLES enabled, \* panels whose row is active and whose credentials decrypt
          entry,   \* registry._providers
          reload,  \* the copy load_providers is about to install
          call,
          sold,    \* active provider_services rows
          redis,   \* panels with a breaker record in Redis, which nothing reads
          calls, toggles

vars == <<enabled, entry, reload, call, sold, redis, calls, toggles>>

Absent == [status |-> "absent", count |-> 0]
Fresh == [status |-> "HEALTHY", count |-> 0]
NoCopy == [p \in {} |-> Fresh]
Idle == [p |-> "none", kind |-> "none"]

Init ==
    /\ enabled = Panels
    /\ entry = [p \in Panels |-> Fresh]
    /\ reload = NoCopy
    /\ call = [c \in Calls |-> Idle]
    /\ sold = [p \in Panels |-> Services]
    /\ redis = {}
    /\ calls = 0 /\ toggles = 0

Loaded == {p \in Panels : entry[p] # Absent}

------------------------------------------------------------------------------
\* load_providers and admin_provider_toggle

Toggle(p) ==
    /\ toggles < MaxToggles /\ toggles' = toggles + 1
    /\ enabled' = IF p \in enabled THEN enabled \ {p} ELSE enabled \cup {p}
    /\ UNCHANGED <<entry, reload, call, sold, redis, calls>>

HealthForgotten(p) == Fresh
Copied(p) == IF p \in Loaded THEN entry[p] ELSE Fresh
Copy == [p \in Panels |-> IF p \in enabled THEN Copied(p) ELSE Absent]

\* No await lies between the copy and its installation unless clients are closed.
Load ==
    /\ reload = NoCopy
    /\ IF Loaded \subseteq enabled THEN entry' = Copy /\ UNCHANGED reload
       ELSE reload' = Copy /\ UNCHANGED entry
    /\ UNCHANGED <<enabled, call, sold, redis, calls, toggles>>

Install ==
    /\ reload # NoCopy
    /\ entry' = reload /\ reload' = NoCopy
    /\ UNCHANGED <<enabled, call, sold, redis, calls, toggles>>

------------------------------------------------------------------------------
\* Calls: only orders are refused by an open breaker.

Kinds == {"order", "other", "sync"}

Begin(c, p, kind) ==
    /\ call[c] = Idle /\ calls < MaxCalls /\ calls' = calls + 1
    /\ p \in Loaded
    /\ kind = "order" => entry[p].status # "DOWN"
    /\ kind = "sync" => p \in enabled
    /\ call' = [call EXCEPT ![c] = [p |-> p, kind |-> kind]]
    /\ UNCHANGED <<enabled, entry, reload, sold, redis, toggles>>

Ends(c) == call' = [call EXCEPT ![c] = Idle] /\ UNCHANGED <<enabled, reload, calls, toggles>>

\* record_success: a success does not bring a panel back from DOWN.
Success(e) ==
    [status |-> IF e.status = "DEGRADED" THEN "HEALTHY" ELSE e.status, count |-> 0]

\* record_failure
Failure(e) ==
    LET n == e.count + 1 IN
    [count |-> n,
     status |-> IF n >= DownAfter THEN "DOWN"
                ELSE IF n >= DegradedAfter /\ e.status = "HEALTHY" THEN "DEGRADED"
                ELSE e.status]

Records(p, e) == entry' = IF p \in Loaded THEN [entry EXCEPT ![p] = e] ELSE entry

\* sync_provider on the panel's list: the rows that are not in it are turned off.
\* For every service in it the loop reads or sets the row's "raw", which the
\* table does not have, and that error is counted: nothing is inserted, updated
\* or turned on again.
Synced(p, list) == sold' = [sold EXCEPT ![p] = @ \cap list]

Answers(c) ==
    LET p == call[c].p IN
    /\ call[c] # Idle
    /\ Records(p, Success(entry[p]))
    /\ IF call[c].kind = "sync" THEN \E list \in SUBSET Services : Synced(p, list)
       ELSE UNCHANGED sold
    /\ Ends(c) /\ UNCHANGED redis

Fails(c) ==
    LET p == call[c].p IN
    /\ call[c] # Idle
    /\ Records(p, Failure(entry[p]))
    \* setex: the record lives for _CB_AUTO_RESET_S from here.
    /\ redis' = redis \cup ({p} \cap Loaded)
    /\ Ends(c) /\ UNCHANGED sold

\* An exception that is not a provider error is not recorded.
Breaks(c) ==
    /\ call[c] # Idle
    /\ Ends(c) /\ UNCHANGED <<entry, sold, redis>>

\* reset_circuit_breaker
Reset(p) ==
    /\ p \in Loaded
    /\ entry' = [entry EXCEPT ![p] = Fresh]
    /\ redis' = redis \ {p}
    /\ UNCHANGED <<enabled, reload, call, sold, calls, toggles>>

\* _CB_AUTO_RESET_S without a failure: the record is gone, the entry is not told.
Expire(p) ==
    /\ p \in redis
    /\ redis' = redis \ {p}
    /\ UNCHANGED <<enabled, entry, reload, call, sold, calls, toggles>>

Next ==
    \/ \E p \in Panels : Toggle(p) \/ Reset(p) \/ Expire(p)
    \/ Load \/ Install
    \/ \E c \in Calls, p \in Panels, kind \in Kinds : Begin(c, p, kind)
    \/ \E c \in Calls : Answers(c) \/ Fails(c) \/ Breaks(c)

Spec == Init /\ [][Next]_vars

------------------------------------------------------------------------------
\* Properties

Tripped(p) == entry[p].status = "DOWN"
Outdated(p) == reload # NoCopy /\ reload[p] # entry[p]

\* A tripped breaker stays tripped through successes, failures, reloads and the time-out of
\* its record, until it is reset by hand or its panel is dropped (registry.py:86-141,
\* 201-258).  The exception is what was recorded while a reload closed the clients of
\* dropped panels: the copy it installs does not have it.  This is what the code does; its
\* comments promise more, see AutoReset.
TripKept ==
    [][\A p \in Panels :
         Tripped(p) => Tripped(p)' \/ entry'[p] = Absent \/ Reset(p) \/ Outdated(p)]_vars

\* "recovery requires admin action or auto-reset after 30m" (registry.py:9, 55): half an hour
\* after its last failure a panel is not down any more.
AutoReset == \A p \in Panels : Tripped(p) => p \in redis
==============================================================================
