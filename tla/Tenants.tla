------------------------------- MODULE Tenants --------------------------------
(***************************************************************************)
(* app/tenants: hosted bots.  The rows of the tenants table (service.py)   *)
(* and the bots that run in this process's memory (bot_manager.py), which  *)
(* the admin routes (routes.py) keep in step by hand: a request commits    *)
(* its row first and then starts or stops the bot, with network calls in   *)
(* between.  The process may die at any point.                             *)
(*                                                                         *)
(* A PATCH (display_name, plan, config), the readers and the health checks *)
(* change nothing that is modelled.                                        *)
(***************************************************************************)
EXTENDS Naturals, Sequences, FiniteSets

CONSTANTS Owners, Slugs, Tokens, NoToken,
          Requests,   \* admin requests in progress at the same time
          PerOwner,   \* _MAX_TENANTS_PER_OWNER
          Overlap,    \* whether two requests may be about one tenant
          MaxRows,    \* bound: tenants created
          MaxOps,     \* bound: admin requests
          MaxRestarts \* bound: restarts of the process

VARIABLES row,     \* the tenants table, in id order
          running, \* _instances (and _by_slug): the token each tenant's bot runs with
          manager, \* "new"; "starting" in startup(); "ready", when it knows its domain
          todo,    \* what startup() has loaded and not yet started
          excused, \* tenants whose bot could not be started, or waits for the
                   \* re-activation that rotate_token asks for (history)
          req,     \* the requests
          ops, restarts

vars == <<row, running, manager, todo, excused, req, ops, restarts>>

Ids == 1..MaxRows
\* seen: the row as the request has loaded it; token, slug, owner: its arguments.
NoRow == [owner |-> "none", slug |-> "none", token |-> NoToken, active |-> FALSE, deleted |-> FALSE]
Idle == [op |-> "none", t |-> 0, at |-> "idle", seen |-> NoRow]

Init ==
    /\ row = <<>>
    /\ running = [t \in Ids |-> NoToken]
    /\ manager = "new" /\ todo = {} /\ excused = {}
    /\ req = [r \in Requests |-> Idle]
    /\ ops = 0 /\ restarts = 0

Ends(r) == req' = [req EXCEPT ![r] = Idle]
Goes(r, at) == req' = [req EXCEPT ![r].at = at]
Rows == UNCHANGED <<manager, todo, ops, restarts>>
Bots == UNCHANGED <<running, excused>>

------------------------------------------------------------------------------
\* service.create_tenant

SlugTaken(s) == \E t \in DOMAIN row : row[t].slug = s   \* deleted tenants keep theirs
Bots_of(o) == {t \in DOMAIN row : row[t].owner = o /\ ~row[t].deleted}

Create(r) ==
    /\ req[r].at = "idle" /\ manager # "starting" /\ ops < MaxOps /\ ops' = ops + 1
    /\ \E o \in Owners, s \in Slugs, k \in Tokens :
         /\ ~SlugTaken(s) /\ Cardinality(Bots_of(o)) < PerOwner
         /\ req' = [req EXCEPT ![r] =
                      [op |-> "create", t |-> 0, at |-> "insert",
                       seen |-> [NoRow EXCEPT !.owner = o, !.slug = s, !.token = k]]]
    /\ UNCHANGED <<row, running, manager, todo, excused, restarts>>

\* slug is unique in the table: a second insert fails, and the request answers 500.
Insert(r) ==
    /\ req[r].at = "insert" /\ Len(row) < MaxRows
    /\ row' = IF SlugTaken(req[r].seen.slug) THEN row ELSE Append(row, req[r].seen)
    /\ Ends(r) /\ Bots /\ Rows

------------------------------------------------------------------------------
\* The other requests load the row first (get_tenant), without a lock.

Free(t) == Overlap \/ \A r \in Requests : req[r].t # t

Ask(r) ==
    /\ req[r].at = "idle" /\ manager # "starting" /\ ops < MaxOps /\ ops' = ops + 1
    /\ \E t \in DOMAIN row, op \in {"activate", "suspend", "delete", "rotate"} :
         /\ ~row[t].deleted /\ Free(t)
         /\ req' = [req EXCEPT ![r] =
                      [op |-> op, t |-> t, seen |-> row[t],
                       at |-> IF op # "activate" THEN "write"
                              ELSE IF row[t].active THEN "start" ELSE "verify"]]
    /\ UNCHANGED <<row, running, manager, todo, excused, restarts>>

\* activate_tenant: getMe with the loaded token, then the commit.
Verify(r) ==
    /\ req[r].at = "verify"
    /\ \/ /\ Goes(r, "start")
          /\ row' = [row EXCEPT ![req[r].t].active = TRUE]
       \/ Ends(r) /\ UNCHANGED row
    /\ Bots /\ Rows

\* The commit of suspend_tenant, delete_tenant and rotate_tenant_bot_token.  An UPDATE
\* names the columns whose loaded value changes.
Off(t, seen) == IF seen.active THEN FALSE ELSE row[t].active
Suspended(t, seen) == [row[t] EXCEPT !.active = Off(t, seen)]
Deleted(t, seen) == [row[t] EXCEPT !.active = Off(t, seen), !.deleted = TRUE, !.token = NoToken]
Rotated(t, k) == [row[t] EXCEPT !.token = k]
Written(op, t, seen, k) ==
    CASE op = "suspend" -> Suspended(t, seen)
      [] op = "delete" -> Deleted(t, seen)
      [] op = "rotate" -> Rotated(t, k)

StopsButRotate(op) == op # "rotate"
Stops(op) == op \in {"suspend", "delete", "rotate"}

Write(r) ==
    LET op == req[r].op  t == req[r].t IN
    /\ req[r].at = "write"
    /\ \E k \in IF op = "rotate" THEN Tokens ELSE {NoToken} :
         row' = [row EXCEPT ![t] = Written(op, t, req[r].seen, k)]
    /\ IF Stops(op) THEN Goes(r, "stop") ELSE Ends(r)
    /\ excused' = IF op = "rotate" THEN excused \cup {t} ELSE excused
    /\ UNCHANGED running /\ Rows

\* stop_tenant
Stop(r) ==
    /\ req[r].at = "stop"
    /\ running' = [running EXCEPT ![req[r].t] = NoToken]
    /\ Ends(r) /\ UNCHANGED <<row, excused>> /\ Rows

\* start_tenant, with the row as it was loaded: nothing to do when a bot runs.
Start(r) ==
    /\ req[r].at = "start"
    /\ IF running[req[r].t] # NoToken THEN Ends(r) ELSE Goes(r, "hook")
    /\ UNCHANGED row /\ Bots /\ Rows

\* _start_instance: set_webhook may fail (and does while there is no domain for its
\* URL), and the error is not caught.
Registered(t, k) ==
    /\ running' = [running EXCEPT ![t] = k]
    /\ excused' = excused \ {t}
NotRegistered(t) == excused' = excused \cup {t} /\ UNCHANGED running

Hook(r) ==
    LET t == req[r].t IN
    /\ req[r].at = "hook"
    /\ \/ manager = "ready" /\ Registered(t, req[r].seen.token)
       \/ NotRegistered(t)
    /\ Ends(r) /\ UNCHANGED row /\ Rows

------------------------------------------------------------------------------
\* The process.  startup() runs before requests are served; one tenant that does not
\* start does not keep the others from starting.

Startup ==
    /\ manager = "new" /\ \A r \in Requests : req[r] = Idle
    /\ manager' = "starting"
    /\ todo' = {t \in DOMAIN row : row[t].active /\ ~row[t].deleted}
    /\ UNCHANGED <<row, running, excused, req, ops, restarts>>

StartOne ==
    /\ manager = "starting"
    /\ \E t \in todo :
         /\ Registered(t, row[t].token) \/ NotRegistered(t)
         /\ todo' = todo \ {t}
    /\ UNCHANGED <<row, manager, req, ops, restarts>>

Started ==
    /\ manager = "starting" /\ todo = {}
    /\ manager' = "ready"
    /\ UNCHANGED <<row, running, todo, excused, req, ops, restarts>>

\* shutdown(), or a crash: what was not committed is lost.
Restart ==
    /\ restarts < MaxRestarts /\ restarts' = restarts + 1
    /\ running' = [t \in Ids |-> NoToken]
    /\ req' = [r \in Requests |-> Idle]
    /\ manager' = "new" /\ todo' = {} /\ excused' = {}
    /\ UNCHANGED <<row, ops>>

Next ==
    \/ \E r \in Requests :
         \/ Create(r) \/ Insert(r) \/ Ask(r) \/ Verify(r) \/ Write(r)
         \/ Stop(r) \/ Start(r) \/ Hook(r)
    \/ Startup \/ StartOne \/ Started \/ Restart

Spec == Init /\ [][Next]_vars

------------------------------------------------------------------------------
\* Properties

Settled(t) == \A r \in Requests : req[r].t # t

\* While no request is about a tenant, its bot runs in a started process exactly when
\* the tenant is active and not deleted, and with its current token, except
\* where a start failed or a rotation waits for the re-activation it asks for.
\* Holds for one request per tenant at a time (routes.py:163-234,
\* bot_manager.py:162-286).
BotsMatchRows ==
    manager = "ready" =>
        \A t \in DOMAIN row :
            Settled(t) =>
                LET live == row[t].active /\ ~row[t].deleted IN
                /\ running[t] # NoToken => live /\ running[t] = row[t].token
                /\ live /\ t \notin excused => running[t] # NoToken
==============================================================================
