------------------------------- MODULE Catalog --------------------------------
(***************************************************************************)
(* app/sync.py, app/sync_normalize.py, the adapter cache of app/catalog.py *)
(* and the provider and service commands of app/cli.py: one provider's     *)
(* catalogue, pulled by the catalogue loop, by staff (/sync) and by the    *)
(* command line, and switched on and off service by service by the         *)
(* operator.                                                               *)
(*                                                                         *)
(* A sync asks the panel first and reads the services after it; it writes  *)
(* only the columns that differ from what it read, and commits them        *)
(* together.  A command of the CLI is a process of its own, with an empty  *)
(* adapter cache; the cache here is that of the running platform.          *)
(***************************************************************************)
EXTENDS Naturals, FiniteSets

CONSTANTS Exts,       \* provider_service_id
          Cats,
          CatOf,      \* the panel's category of each service
          Sessions,   \* transactions of the platform and of CLI commands
          MinRows,    \* 10: fewer rows are never too many invalid ones
          MinLive,    \* 20: fewer live services are never dropped too fast
          Rates,
          Faults,     \* which of {"cut", "bad", "net"} happen to an answer
          MaxEvents   \* bound: changes at the panel, faults, commands

ASSUME CatalogAssumption ==
    /\ CatOf \in [Exts -> Cats] /\ Rates # {} /\ Rates \subseteq Nat
    /\ MinRows \in Nat \ {0} /\ MinLive \in Nat \ {0} /\ MaxEvents \in Nat

VARIABLES offer,    \* the panel's list
          panelKey, \* the API key the panel accepts (they are numbered)
          provider, \* providers row: key and auto_activate_new
          health,   \* provider.health_status
          svc,      \* services
          cat,      \* categories
          cache,    \* _ADAPTERS: the key the cached adapter was built with, and
                    \* whether it is younger than the TTL
          sess,
          decided,  \* per service: the operator's last recorded decision (history)
          events    \* bounds the run

vars == <<offer, panelKey, provider, health, svc, cat, cache, sess, decided, events>>
panel == <<offer, panelKey>>
rows == <<svc, cat, decided>>

\* offered: on the list; supported: a type the order forms can render.
NotOffered == [offered |-> FALSE, supported |-> FALSE, rate |-> 0]
NoService == [known |-> FALSE, active |-> FALSE, removed |-> FALSE, supported |-> FALSE, rate |-> 0]
NoCategory == [known |-> FALSE, active |-> FALSE]
NoAdapter == [key |-> 0, fresh |-> FALSE]
\* key: the adapter's; got: the valid rows of the answer; svc, cat: as read.
Idle == [at |-> "idle", key |-> 0, auto |-> FALSE, got |-> {}, offer |-> <<>>,
         svc |-> <<>>, cat |-> <<>>, ids |-> {}, on |-> FALSE]

Init ==
    /\ offer \in [Exts -> {[offered |-> TRUE, supported |-> b, rate |-> CHOOSE r \in Rates : TRUE] :
                              b \in BOOLEAN}]
    /\ panelKey = 1
    /\ provider \in {[key |-> 1, auto |-> b] : b \in BOOLEAN}
    /\ health = "unknown"
    /\ svc = [x \in Exts |-> NoService]
    /\ cat = [c \in Cats |-> NoCategory]
    /\ cache = NoAdapter
    /\ sess = [s \in Sessions |-> Idle]
    /\ decided = [x \in Exts |-> "none"]
    /\ events = 0

Happens == events < MaxEvents /\ events' = events + 1
Enter(s, r) == sess' = [sess EXCEPT ![s] = r]
Finish(s) == Enter(s, Idle)

------------------------------------------------------------------------------
\* The panel

\* A service appears, disappears, or changes its price or its type.
PanelChanges(x) ==
    /\ Happens
    /\ \E o \in {NotOffered} \cup [offered : {TRUE}, supported : BOOLEAN, rate : Rates] :
         o # offer[x] /\ offer' = [offer EXCEPT ![x] = o]
    /\ UNCHANGED <<panelKey, provider, health, rows, cache, sess>>

PanelRotatesKey ==
    /\ Happens
    /\ panelKey' = panelKey + 1
    /\ UNCHANGED <<offer, provider, health, rows, cache, sess>>

------------------------------------------------------------------------------
\* catalog.py: build_adapter

CachedForEver == cache # NoAdapter
Cached == cache # NoAdapter /\ cache.fresh
Adapter == IF Cached THEN cache.key ELSE provider.key
CachedAdapter == IF Cached THEN cache ELSE [key |-> provider.key, fresh |-> TRUE]

\* _ADAPTER_TTL_SECONDS go by.
Tick ==
    /\ cache.fresh
    /\ cache' = [cache EXCEPT !.fresh = FALSE]
    /\ UNCHANGED <<panel, provider, health, rows, sess, events>>

\* health_check_providers_once
HealthCheck ==
    /\ cache' = CachedAdapter
    /\ health' = IF Adapter = panelKey THEN "ok" ELSE "down"
    /\ UNCHANGED <<panel, provider, rows, sess, events>>

\* The platform restarts: its cache is empty and its transactions are gone.
Restart ==
    /\ Happens
    /\ cache' = NoAdapter
    /\ \E gone \in SUBSET {s \in Sessions : sess[s].at # "idle"} :
         sess' = [s \in Sessions |-> IF s \in gone THEN Idle ELSE sess[s]]
    /\ UNCHANGED <<panel, provider, health, rows>>

------------------------------------------------------------------------------
\* sync.py: sync_provider

\* By the platform (the loop, /sync) or by a command.
SyncBegin(s) ==
    /\ sess[s].at = "idle"
    /\ Enter(s, [Idle EXCEPT !.at = "asked", !.key = Adapter, !.auto = provider.auto])
    /\ cache' = CachedAdapter
    /\ UNCHANGED <<panel, provider, health, rows, events>>
SyncCommand(s) ==
    /\ sess[s].at = "idle" /\ Happens
    /\ Enter(s, [Idle EXCEPT !.at = "asked", !.key = provider.key, !.auto = provider.auto])
    /\ UNCHANGED <<panel, provider, health, rows, cache>>

\* The panel refuses the key, or cannot be reached: SyncRun "error".
SyncFails(s) ==
    /\ sess[s].at = "asked"
    /\ \/ sess[s].key # panelKey /\ UNCHANGED events
       \/ "net" \in Faults /\ Happens
    /\ Finish(s)
    /\ UNCHANGED <<panel, provider, health, rows, cache>>

\* looks_malformed: no valid row; more than 30% invalid; less than half of what
\* was live before.
Live(services) == {x \in Exts : services[x].known /\ ~services[x].removed}
Trusted(live, valid, invalid) ==
    /\ valid > 0
    /\ valid + invalid >= MinRows => 10 * invalid <= 3 * (valid + invalid)
    /\ live >= MinLive => 2 * valid >= live

Offered == {x \in Exts : offer[x].offered}

\* What the answer holds of the list: all of it, or a part (cut), of which some
\* rows do not normalize (bad).
SyncLoad(s) ==
    /\ sess[s].at = "asked" /\ sess[s].key = panelKey
    /\ \E got \in SUBSET Offered, bad \in SUBSET Offered :
         /\ got \cap bad = {}
         /\ got \cup bad # Offered => "cut" \in Faults
         /\ bad # {} => "bad" \in Faults
         /\ IF got = Offered THEN UNCHANGED events ELSE Happens
         /\ IF Trusted(Cardinality(Live(svc)), Cardinality(got), Cardinality(bad))
            THEN Enter(s, [sess[s] EXCEPT !.at = "loaded", !.got = got, !.offer = offer,
                                          !.svc = svc, !.cat = cat])
            ELSE Finish(s)                                   \* "aborted"
    /\ UNCHANGED <<panel, provider, health, rows, cache>>

\* The columns that differ from what was read are written.
Fresh(s, x) == x \in sess[s].got /\ ~sess[s].svc[x].known
Added(s, x) ==
    LET o == sess[s].offer[x] IN
    [known |-> TRUE, active |-> sess[s].auto /\ o.supported, removed |-> FALSE,
     supported |-> o.supported, rate |-> o.rate]
Changed(s, x) ==
    LET o == sess[s].offer[x]
        was == sess[s].svc[x] IN
    [svc[x] EXCEPT !.removed = IF was.removed THEN FALSE ELSE @,
                   !.rate = IF was.rate # o.rate THEN o.rate ELSE @,
                   !.supported = IF was.supported # o.supported THEN o.supported ELSE @,
                   !.active = IF was.active /\ was.supported /\ ~o.supported THEN FALSE ELSE @]
Removed(s, x) ==
    [svc[x] EXCEPT !.removed = TRUE, !.active = IF sess[s].svc[x].active THEN FALSE ELSE @]
WholeRow(s, x) ==
    IF ~sess[s].svc[x].known THEN IF x \in sess[s].got THEN Added(s, x) ELSE svc[x]
    ELSE [sess[s].svc[x] EXCEPT !.removed = x \notin sess[s].got,
                                !.active = @ /\ x \in sess[s].got,
                                !.rate = sess[s].offer[x].rate]
Synced(s, x) ==
    IF Fresh(s, x) THEN Added(s, x)
    ELSE IF ~sess[s].svc[x].known THEN svc[x]
    ELSE IF x \in sess[s].got THEN Changed(s, x)
    ELSE IF ~sess[s].svc[x].removed THEN Removed(s, x)
    ELSE svc[x]

\* _ensure_category, for new services only.
FreshIn(s, c) == {x \in Exts : CatOf[x] = c /\ Fresh(s, x)}
EnsureCategory(s, c) ==
    IF FreshIn(s, c) = {} THEN cat[c]
    ELSE IF ~sess[s].cat[c].known
         THEN [known |-> TRUE, active |-> \E x \in FreshIn(s, c) : Added(s, x).active]
    ELSE [cat[c] EXCEPT !.active = @ \/ /\ ~sess[s].cat[c].active
                                        /\ \E x \in FreshIn(s, c) : Added(s, x).active]

\* Someone else inserted a row that this sync has to insert.
Conflict(s) ==
    \/ \E x \in Exts : Fresh(s, x) /\ svc[x].known
    \/ \E c \in Cats : FreshIn(s, c) # {} /\ ~sess[s].cat[c].known /\ cat[c].known

\* An IntegrityError loses the whole transaction.
SyncCommit(s) ==
    /\ sess[s].at = "loaded"
    /\ IF Conflict(s) THEN UNCHANGED rows
       ELSE /\ svc' = [x \in Exts |-> Synced(s, x)]
            /\ cat' = [c \in Cats |-> EnsureCategory(s, c)]
            /\ UNCHANGED decided
    /\ Finish(s)
    /\ UNCHANGED <<panel, provider, health, cache, events>>

------------------------------------------------------------------------------
\* cli.py

\* cmd_add_provider, with the key the panel accepts now; it empties its own cache,
\* not the platform's.
AddProvider ==
    /\ Happens
    /\ \E auto \in BOOLEAN : provider' = [key |-> panelKey, auto |-> auto]
    /\ UNCHANGED <<panel, health, rows, cache, sess>>

\* _toggle reads the services (and counts the category's active ones: the session
\* does not flush before a query, so the count is of what is committed).
ToggleLoad(s, ids, on) ==
    /\ sess[s].at = "idle" /\ Happens
    /\ ids # {} /\ \A x \in ids : svc[x].known
    /\ Enter(s, [Idle EXCEPT !.at = "toggled", !.ids = ids, !.on = on, !.svc = svc, !.cat = cat])
    /\ UNCHANGED <<panel, provider, health, rows, cache>>

Switchable(s, x) ==
    LET was == sess[s].svc[x] IN
    /\ x \in sess[s].ids /\ was.active # sess[s].on
    /\ sess[s].on => was.supported /\ ~was.removed
Counted(s, c) == \E x \in Exts : CatOf[x] = c /\ sess[s].svc[x].active
Recounted(s, c) ==
    IF \A x \in sess[s].ids : CatOf[x] # c THEN cat[c]
    ELSE [cat[c] EXCEPT !.active = IF sess[s].cat[c].active # Counted(s, c) THEN Counted(s, c) ELSE @]

ToggleCommit(s) ==
    /\ sess[s].at = "toggled"
    /\ svc' = [x \in Exts |-> IF Switchable(s, x) THEN [svc[x] EXCEPT !.active = sess[s].on]
                              ELSE svc[x]]
    /\ cat' = [c \in Cats |-> Recounted(s, c)]
    /\ decided' = [x \in Exts |-> IF ~Switchable(s, x) THEN decided[x]
                                  ELSE IF sess[s].on THEN "on" ELSE "off"]
    /\ Finish(s)
    /\ UNCHANGED <<panel, provider, health, cache, events>>

Next ==
    \/ \E x \in Exts : PanelChanges(x)
    \/ PanelRotatesKey \/ AddProvider
    \/ Tick \/ HealthCheck \/ Restart
    \/ \E s \in Sessions :
         \/ SyncBegin(s) \/ SyncCommand(s) \/ SyncFails(s) \/ SyncLoad(s) \/ SyncCommit(s)
         \/ \E ids \in SUBSET Exts, on \in BOOLEAN : ToggleLoad(s, ids, on)
         \/ ToggleCommit(s)

Spec == Init /\ [][Next]_vars

\* Fairness.  The loops come round again and again, a request ends, time goes by.
Fairness ==
    /\ WF_vars(Tick) /\ WF_vars(HealthCheck)
    /\ WF_vars(\E s \in Sessions : SyncBegin(s))
    /\ \A s \in Sessions :
         WF_vars(SyncFails(s) \/ SyncLoad(s) \/ SyncCommit(s) \/ ToggleCommit(s))

FairSpec == Spec /\ Fairness

------------------------------------------------------------------------------
\* Properties

\* What the operator switched off stays off, whatever syncs that had read the
\* service before do after it (sync.py:165-212, cli.py:115-145).
OffStaysOff == \A x \in Exts : decided[x] = "off" => ~svc[x].active

\* Once the stored key is right and the panel's list is not too much shorter than
\* ours, the catalogue becomes the panel's, and stays so; the platform notices a
\* new key without a restart (sync.py:98-229, catalog.py:35-39).
Mirrored ==
    \A x \in Exts :
        IF ~offer[x].offered THEN svc[x].known => svc[x].removed
        ELSE /\ svc[x].known /\ ~svc[x].removed
             /\ svc[x].rate = offer[x].rate /\ svc[x].supported = offer[x].supported
Reachable ==
    /\ provider.key = panelKey
    /\ Trusted(Cardinality(Live(svc)), Cardinality(Offered), 0)
CatalogueConverges == <>[]Reachable => <>[](Mirrored /\ health = "ok")

\* "A category is visible only while it has at least one active service"
\* (cli.py:137): after a command of the operator, with nothing else going on.
CategoryVisible ==
    [][\A s \in Sessions : ToggleCommit(s) =>
         \A x \in sess[s].ids :
            cat'[CatOf[x]].active <=> \E y \in Exts : CatOf[y] = CatOf[x] /\ svc'[y].active]_vars

\* "a type we cannot render must not stay sellable" (sync.py:206), nor what the
\* panel does not list any more.
SellableOnly == \A x \in Exts : svc[x].active => svc[x].supported /\ ~svc[x].removed
==============================================================================
