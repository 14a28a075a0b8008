---------------------------- MODULE CatalogProofs -----------------------------
(***************************************************************************)
(* Proofs about Catalog for any services, categories, sessions, prices and *)
(* thresholds, and any number of events.                                   *)
(*                                                                         *)
(* A sync writes what it decided from rows it read earlier.  It never      *)
(* makes a service active that was there when it read, and one that was    *)
(* not there when it read but is now makes it lose everything; so only a   *)
(* command of the operator, which says so, makes a known service active.   *)
(***************************************************************************)
EXTENDS Catalog, TLAPS

OfferType == [offered : BOOLEAN, supported : BOOLEAN, rate : Rates \cup {0}]
ServiceType == [known : BOOLEAN, active : BOOLEAN, removed : BOOLEAN, supported : BOOLEAN,
                rate : Rates \cup {0}]
CategoryType == [known : BOOLEAN, active : BOOLEAN]
Offers == [Exts -> OfferType]
ServiceRows == [Exts -> ServiceType]
SessType == [at : {"idle", "asked", "loaded", "toggled"}, key : Nat, auto : BOOLEAN,
             got : SUBSET Exts, offer : Offers \cup {<<>>}, svc : ServiceRows \cup {<<>>},
             cat : [Cats -> CategoryType] \cup {<<>>}, ids : SUBSET Exts, on : BOOLEAN]

Types ==
    /\ offer \in Offers /\ panelKey \in Nat
    /\ provider \in [key : Nat, auto : BOOLEAN]
    /\ svc \in ServiceRows /\ cat \in [Cats -> CategoryType]
    /\ cache \in [key : Nat, fresh : BOOLEAN]
    /\ sess \in [Sessions -> SessType]
    /\ decided \in [Exts -> {"none", "on", "off"}]

\* What a session that has read the services relies on until its commit.
Sound(r) ==
    /\ r.at = "loaded" => r.offer \in Offers /\ r.svc \in ServiceRows
    /\ r.at = "toggled" => r.svc \in ServiceRows /\ \A x \in r.ids : svc[x].known

\* The inductive invariant.
Inv ==
    /\ Types
    /\ \A s \in Sessions : Sound(sess[s])
    /\ \A x \in Exts : decided[x] = "off" => svc[x].known /\ ~svc[x].active

LEMMA IdleTyped == Idle \in SessType /\ Idle.at = "idle"
BY DEF Idle, SessType

LEMMA InitInv == Init => Inv
<1> SUFFICES ASSUME Init
             PROVE  Inv
  OBVIOUS
<1>1. (CHOOSE r \in Rates : TRUE) \in Rates
  BY CatalogAssumption DEF CatalogAssumption
<1>2. \A b \in BOOLEAN :
        [offered |-> TRUE, supported |-> b, rate |-> CHOOSE r \in Rates : TRUE] \in OfferType
  BY <1>1 DEF OfferType
<1>3. offer \in Offers
  BY <1>2 DEF Init, Offers
<1>4. /\ svc \in ServiceRows /\ cat \in [Cats -> CategoryType]
      /\ cache \in [key : Nat, fresh : BOOLEAN] /\ provider \in [key : Nat, auto : BOOLEAN]
  BY DEF Init, NoService, NoCategory, NoAdapter, ServiceRows, ServiceType, CategoryType
<1> QED BY <1>3, <1>4, IdleTyped DEF Init, Inv, Types, Sound

------------------------------------------------------------------------------
\* No service is written: a session goes on, or things change around the sessions.
LEMMA NothingWritten ==
    ASSUME Inv, UNCHANGED <<svc, cat, decided>>, offer' \in Offers, panelKey' \in Nat,
           provider' \in [key : Nat, auto : BOOLEAN], cache' \in [key : Nat, fresh : BOOLEAN],
           sess' \in [Sessions -> SessType],
           \A s \in Sessions : sess'[s] = sess[s] \/ Sound(sess'[s])
    PROVE  Inv'
<1>1. Types'
  BY DEF Inv, Types
<1>2. ASSUME NEW s \in Sessions
      PROVE  Sound(sess[s])'
  <2>1. PICK r : r = sess'[s]
    OBVIOUS
  <2>2. Sound(r)
    BY <2>1 DEF Inv
  <2>3. Sound(r)'
    BY <2>2 DEF Sound
  <2> QED BY <2>1, <2>3
<1>3. (\A x \in Exts : decided[x] = "off" => svc[x].known /\ ~svc[x].active)'
  <2>1. \A x \in Exts : decided[x] = "off" => svc[x].known /\ ~svc[x].active
    BY DEF Inv
  <2> QED BY <2>1
<1> QED BY <1>1, <1>2, <1>3 DEF Inv

LEMMA CacheTyped ==
    ASSUME Inv
    PROVE  /\ CachedAdapter \in [key : Nat, fresh : BOOLEAN]
           /\ NoAdapter \in [key : Nat, fresh : BOOLEAN]
           /\ [cache EXCEPT !.fresh = FALSE] \in [key : Nat, fresh : BOOLEAN]
<1>1. cache \in [key : Nat, fresh : BOOLEAN] /\ provider.key \in Nat
  BY DEF Inv, Types
<1>2. CachedAdapter \in [key : Nat, fresh : BOOLEAN]
  BY <1>1 DEF CachedAdapter
<1>3. [cache EXCEPT !.fresh = FALSE] \in [key : Nat, fresh : BOOLEAN]
  BY <1>1
<1> QED BY <1>2, <1>3 DEF NoAdapter

LEMMA PanelStep ==
    ASSUME Inv, (\E x \in Exts : PanelChanges(x)) \/ PanelRotatesKey \/ AddProvider
    PROVE  Inv'
<1>1. /\ offer \in Offers /\ panelKey \in Nat /\ provider \in [key : Nat, auto : BOOLEAN]
      /\ cache \in [key : Nat, fresh : BOOLEAN] /\ sess \in [Sessions -> SessType]
  BY DEF Inv, Types
<1>2. CASE \E x \in Exts : PanelChanges(x)
  <2>1. PICK x \in Exts, o \in {NotOffered} \cup [offered : {TRUE}, supported : BOOLEAN, rate : Rates] :
          offer' = [offer EXCEPT ![x] = o]
    BY <1>2 DEF PanelChanges
  <2>2. o \in OfferType
    <3>1. {TRUE} \subseteq BOOLEAN
      OBVIOUS
    <3>2. CASE o = NotOffered
      BY <3>2 DEF NotOffered, OfferType
    <3>3. CASE o \in [offered : {TRUE}, supported : BOOLEAN, rate : Rates]
      <4>1. PICK a \in {TRUE}, b \in BOOLEAN, r \in Rates :
              o = [offered |-> a, supported |-> b, rate |-> r]
        BY <3>3
      <4> QED BY <3>1, <4>1 DEF OfferType
    <3> QED BY <3>2, <3>3
  <2>3. offer' \in Offers
    BY <1>1, <2>1, <2>2 DEF Offers
  <2>4. UNCHANGED <<panelKey, provider, svc, cat, decided, cache, sess>>
    BY <1>2 DEF PanelChanges, rows
  <2> QED BY <1>1, <2>3, <2>4, NothingWritten
<1>3. CASE PanelRotatesKey
  BY <1>1, <1>3, NothingWritten DEF PanelRotatesKey, rows
<1>4. CASE AddProvider
  <2>1. /\ provider' \in [key : Nat, auto : BOOLEAN]
        /\ UNCHANGED <<offer, panelKey, svc, cat, decided, cache, sess>>
    BY <1>1, <1>4 DEF AddProvider, rows, panel
  <2> QED BY <1>1, <2>1, NothingWritten
<1> QED BY <1>2, <1>3, <1>4

LEMMA CacheStep ==
    ASSUME Inv, Tick \/ HealthCheck \/ Restart
    PROVE  Inv'
<1>1. /\ offer \in Offers /\ panelKey \in Nat /\ provider \in [key : Nat, auto : BOOLEAN]
      /\ cache \in [key : Nat, fresh : BOOLEAN] /\ sess \in [Sessions -> SessType]
  BY DEF Inv, Types
<1>2. UNCHANGED <<offer, panelKey, provider, svc, cat, decided>>
  BY DEF Tick, HealthCheck, Restart, panel, rows
<1>3. cache' \in [key : Nat, fresh : BOOLEAN]
  BY CacheTyped DEF Tick, HealthCheck, Restart
<1>4. sess' \in [Sessions -> SessType] /\ \A s \in Sessions : sess'[s] = sess[s] \/ sess'[s] = Idle
  <2>1. CASE Tick \/ HealthCheck
    BY <1>1, <2>1 DEF Tick, HealthCheck
  <2>2. CASE Restart
    <3>1. PICK gone \in SUBSET {s \in Sessions : sess[s].at # "idle"} :
            sess' = [s \in Sessions |-> IF s \in gone THEN Idle ELSE sess[s]]
      BY <2>2 DEF Restart
    <3> QED BY <1>1, <3>1, IdleTyped
  <2> QED BY <2>1, <2>2
<1>5. Sound(Idle)
  BY IdleTyped DEF Sound
<1> QED BY <1>1, <1>2, <1>3, <1>4, <1>5, NothingWritten

\* A session reads.
LEMMA SessionStep ==
    ASSUME Inv, NEW s \in Sessions,
           \/ SyncBegin(s) \/ SyncCommand(s) \/ SyncFails(s) \/ SyncLoad(s)
           \/ \E ids \in SUBSET Exts, on \in BOOLEAN : ToggleLoad(s, ids, on)
    PROVE  Inv'
<1>1. /\ offer \in Offers /\ panelKey \in Nat /\ provider \in [key : Nat, auto : BOOLEAN]
      /\ svc \in ServiceRows /\ cat \in [Cats -> CategoryType]
      /\ cache \in [key : Nat, fresh : BOOLEAN] /\ sess \in [Sessions -> SessType]
  BY DEF Inv, Types
<1>2. UNCHANGED <<offer, panelKey, provider, svc, cat, decided>>
  BY DEF SyncBegin, SyncCommand, SyncFails, SyncLoad, ToggleLoad, panel, rows
<1>3. cache' \in [key : Nat, fresh : BOOLEAN]
  BY <1>1, CacheTyped DEF SyncBegin, SyncCommand, SyncFails, SyncLoad, ToggleLoad
<1>4. ASSUME NEW r \in SessType, Sound(r), Enter(s, r)
      PROVE  Inv'
  <2>1. sess' \in [Sessions -> SessType] /\ \A v \in Sessions : sess'[v] = sess[v] \/ sess'[v] = r
    BY <1>1, <1>4 DEF Enter
  <2> QED BY <1>1, <1>2, <1>3, <1>4, <2>1, NothingWritten
<1>5. ASSUME Finish(s)
      PROVE  Inv'
  <2>1. Sound(Idle)
    BY IdleTyped DEF Sound
  <2> QED BY <1>4, <1>5, <2>1, IdleTyped DEF Finish
<1>6. ASSUME NEW key \in Nat, Enter(s, [Idle EXCEPT !.at = "asked", !.key = key, !.auto = provider.auto])
      PROVE  Inv'
  <2>1. PICK r : r = [Idle EXCEPT !.at = "asked", !.key = key, !.auto = provider.auto]
    OBVIOUS
  <2>2. r \in SessType /\ r.at = "asked"
    BY <1>1, <2>1, IdleTyped DEF SessType
  <2>3. Sound(r)
    BY <2>2 DEF Sound
  <2> QED BY <1>4, <1>6, <2>1, <2>2, <2>3
<1>7. CASE SyncBegin(s) \/ SyncCommand(s)
  <2>1. Adapter \in Nat /\ provider.key \in Nat
    BY <1>1 DEF Adapter
  <2> QED BY <1>6, <1>7, <2>1 DEF SyncBegin, SyncCommand
<1>8. CASE SyncFails(s)
  BY <1>5, <1>8 DEF SyncFails
<1>9. CASE SyncLoad(s)
  <2>1. ASSUME NEW got \in SUBSET Offered,
               Enter(s, [sess[s] EXCEPT !.at = "loaded", !.got = got, !.offer = offer,
                                        !.svc = svc, !.cat = cat])
        PROVE  Inv'
    <3>1. PICK k : k = sess[s]
      OBVIOUS
    <3>2. PICK r : r = [k EXCEPT !.at = "loaded", !.got = got, !.offer = offer,
                                 !.svc = svc, !.cat = cat]
      OBVIOUS
    <3>3. k \in SessType /\ got \in SUBSET Exts
      BY <1>1, <3>1 DEF Offered
    <3>4. r \in SessType /\ r.at = "loaded" /\ r.offer = offer /\ r.svc = svc
      BY <1>1, <3>2, <3>3 DEF SessType
    <3>5. Sound(r)
      BY <1>1, <3>4 DEF Sound
    <3> QED BY <1>4, <2>1, <3>1, <3>2, <3>4, <3>5
  <2> QED BY <1>5, <1>9, <2>1 DEF SyncLoad
<1>10. ASSUME NEW ids \in SUBSET Exts, NEW on \in BOOLEAN, ToggleLoad(s, ids, on)
       PROVE  Inv'
  <2>1. PICK r : r = [Idle EXCEPT !.at = "toggled", !.ids = ids, !.on = on, !.svc = svc, !.cat = cat]
    OBVIOUS
  <2>2. r \in SessType /\ r.at = "toggled" /\ r.svc = svc /\ r.ids = ids
    BY <1>1, <2>1, IdleTyped DEF SessType
  <2>3. Sound(r) /\ Enter(s, r)
    BY <1>1, <1>10, <2>1, <2>2 DEF Sound, ToggleLoad
  <2> QED BY <1>4, <2>2, <2>3
<1> QED BY <1>7, <1>8, <1>9, <1>10

------------------------------------------------------------------------------
\* A session commits; services only become known.
LEMMA Written ==
    ASSUME Inv, NEW s \in Sessions, Finish(s), UNCHANGED <<panel, provider, cache>>,
           svc' \in ServiceRows, cat' \in [Cats -> CategoryType],
           decided' \in [Exts -> {"none", "on", "off"}],
           \A x \in Exts : /\ svc[x].known => svc'[x].known
                           /\ decided'[x] = "off" => svc'[x].known /\ ~svc'[x].active
    PROVE  Inv'
<1>1. sess' = [sess EXCEPT ![s] = Idle] /\ sess \in [Sessions -> SessType]
  BY DEF Finish, Enter, Inv, Types
<1>2. Types'
  BY <1>1, IdleTyped DEF Inv, Types, panel
<1>3. ASSUME NEW v \in Sessions
      PROVE  Sound(sess[v])'
  <2>1. PICK r : r = sess'[v]
    OBVIOUS
  <2>2. r = Idle \/ (r = sess[v] /\ r \in SessType /\ Sound(r))
    BY <1>1, <2>1 DEF Inv
  <2>3. Sound(r)'
    BY <2>2, IdleTyped DEF Sound, SessType
  <2> QED BY <2>1, <2>3
<1> QED BY <1>2, <1>3 DEF Inv

LEMMA SyncStep ==
    ASSUME Inv, NEW s \in Sessions, SyncCommit(s)
    PROVE  Inv'
<1>1. PICK k : k = sess[s]
  OBVIOUS
<1>2. /\ k \in SessType /\ k.offer \in Offers /\ k.svc \in ServiceRows
      /\ svc \in ServiceRows /\ cat \in [Cats -> CategoryType]
      /\ decided \in [Exts -> {"none", "on", "off"}]
      /\ \A x \in Exts : decided[x] = "off" => svc[x].known /\ ~svc[x].active
  BY <1>1 DEF SyncCommit, Inv, Types, Sound
<1>3. Finish(s) /\ UNCHANGED <<panel, provider, cache>>
  BY DEF SyncCommit
<1>4. CASE UNCHANGED rows
  BY <1>2, <1>3, <1>4, Written DEF rows
<1>5. CASE /\ ~Conflict(s) /\ svc' = [x \in Exts |-> Synced(s, x)]
           /\ cat' = [c \in Cats |-> EnsureCategory(s, c)] /\ UNCHANGED decided
  <2>1. ASSUME NEW x \in Exts
        PROVE  /\ Added(s, x) \in ServiceType /\ Added(s, x).known
               /\ Changed(s, x) \in ServiceType /\ Changed(s, x).known = svc[x].known
               /\ Changed(s, x).active => svc[x].active
               /\ Removed(s, x) \in ServiceType /\ Removed(s, x).known = svc[x].known
               /\ Removed(s, x).active => svc[x].active
    <3>1. PICK o, was, row : o = k.offer[x] /\ was = k.svc[x] /\ row = svc[x]
      OBVIOUS
    <3>2. o \in OfferType /\ was \in ServiceType /\ row \in ServiceType
      BY <1>2, <3>1 DEF Offers, ServiceRows
    <3>3. Added(s, x) \in ServiceType /\ Added(s, x).known
      BY <1>1, <1>2, <3>1, <3>2 DEF Added, SessType, OfferType, ServiceType
    <3>4. PICK removed, rate, supported, active :
            /\ removed = IF was.removed THEN FALSE ELSE row.removed
            /\ rate = IF was.rate # o.rate THEN o.rate ELSE row.rate
            /\ supported = IF was.supported # o.supported THEN o.supported ELSE row.supported
            /\ active = IF was.active /\ was.supported /\ ~o.supported THEN FALSE ELSE row.active
      OBVIOUS
    <3>5. Changed(s, x) = [row EXCEPT !.removed = removed, !.rate = rate,
                                      !.supported = supported, !.active = active]
      BY <1>1, <3>1, <3>4 DEF Changed
    <3>6. /\ removed \in BOOLEAN /\ rate \in Rates \cup {0} /\ supported \in BOOLEAN
          /\ active \in BOOLEAN /\ active => row.active
      BY <3>2, <3>4 DEF OfferType, ServiceType
    <3>7. /\ removed \in BOOLEAN /\ rate \in Rates \cup {0} /\ supported \in BOOLEAN
          /\ active \in BOOLEAN
      BY <3>2, <3>4 DEF OfferType, ServiceType
    <3>8. /\ Changed(s, x) \in ServiceType /\ Changed(s, x).known = row.known
          /\ Changed(s, x).active = active
      BY <3>2, <3>5, <3>7 DEF ServiceType
    <3>9. PICK off : off = IF was.active THEN FALSE ELSE row.active
      OBVIOUS
    <3>10. Removed(s, x) = [row EXCEPT !.removed = TRUE, !.active = off]
      BY <1>1, <3>1, <3>9 DEF Removed
    <3>11. off \in BOOLEAN
      BY <3>2, <3>9 DEF ServiceType
    <3>12. /\ Removed(s, x) \in ServiceType /\ Removed(s, x).known = row.known
           /\ Removed(s, x).active = off
      BY <3>2, <3>10, <3>11 DEF ServiceType
    <3> QED BY <3>1, <3>3, <3>4, <3>8, <3>9, <3>12
  <2>2. ASSUME NEW x \in Exts
        PROVE  /\ Synced(s, x) \in ServiceType
               /\ svc[x].known => Synced(s, x).known
               /\ svc[x].known /\ Synced(s, x).active => svc[x].active
  BY <1>2, <1>5, <2>1 DEF Synced, Conflict, ServiceRows
  <2>3. svc' \in ServiceRows
    BY <1>5, <2>2 DEF ServiceRows
  <2>4. ASSUME NEW c \in Cats
        PROVE  EnsureCategory(s, c) \in CategoryType
    <3>1. PICK on : on = (\E x \in FreshIn(s, c) : Added(s, x).active)
      OBVIOUS
    <3>2. on \in BOOLEAN /\ cat[c] \in CategoryType
      BY <1>2, <3>1
    <3>3. PICK row, a : row = cat[c] /\ a = (row.active \/ (~sess[s].cat[c].active /\ on))
      OBVIOUS
    <3>4. /\ [known |-> TRUE, active |-> on] \in CategoryType
          /\ [row EXCEPT !.active = a] \in CategoryType
      BY <3>2, <3>3 DEF CategoryType
    <3>5. EnsureCategory(s, c) \in {row, [known |-> TRUE, active |-> on], [row EXCEPT !.active = a]}
      BY <3>1, <3>3 DEF EnsureCategory
    <3> QED BY <3>2, <3>3, <3>4, <3>5
  <2> QED BY <1>2, <1>3, <1>5, <2>2, <2>3, <2>4, Written
<1> QED BY <1>4, <1>5 DEF SyncCommit

LEMMA ToggleStep ==
    ASSUME Inv, NEW s \in Sessions, ToggleCommit(s)
    PROVE  Inv'
<1>1. PICK k : k = sess[s]
  OBVIOUS
<1>2. /\ k \in SessType /\ \A x \in k.ids : svc[x].known
      /\ svc \in ServiceRows /\ cat \in [Cats -> CategoryType]
      /\ decided \in [Exts -> {"none", "on", "off"}]
      /\ \A x \in Exts : decided[x] = "off" => svc[x].known /\ ~svc[x].active
  BY <1>1 DEF ToggleCommit, Inv, Types, Sound
<1>3. Finish(s) /\ UNCHANGED <<panel, provider, cache>>
  BY DEF ToggleCommit
<1>4. k.on \in BOOLEAN
  BY <1>2 DEF SessType
<1>5. ASSUME NEW x \in Exts
      PROVE  /\ svc'[x] \in ServiceType /\ (svc[x].known => svc'[x].known)
             /\ (decided'[x] = "off" => svc'[x].known /\ ~svc'[x].active)
  <2>1. PICK row : row = [svc[x] EXCEPT !.active = k.on]
    OBVIOUS
  <2>2. svc[x] \in ServiceType
    BY <1>2 DEF ServiceRows
  <2>3. row \in ServiceType /\ row.known = svc[x].known /\ row.active = k.on
    BY <1>4, <2>1, <2>2 DEF ServiceType
  <2>4. CASE Switchable(s, x)
    <3>1. /\ svc'[x] = row /\ decided'[x] = IF k.on THEN "on" ELSE "off"
      BY <1>1, <2>1, <2>4 DEF ToggleCommit
    <3>2. svc[x].known
      BY <1>1, <1>2, <2>4 DEF Switchable
    <3> QED BY <2>3, <3>1, <3>2
  <2>5. CASE ~Switchable(s, x)
    BY <1>2, <2>2, <2>5 DEF ToggleCommit
  <2> QED BY <2>4, <2>5
<1>6. svc' \in ServiceRows /\ decided' \in [Exts -> {"none", "on", "off"}]
  <2>1. svc' = [x \in Exts |-> svc'[x]]
    BY DEF ToggleCommit
  <2>2. svc' \in ServiceRows
    BY <1>5, <2>1 DEF ServiceRows
  <2>3. decided' \in [Exts -> {"none", "on", "off"}]
    BY <1>2 DEF ToggleCommit
  <2> QED BY <2>2, <2>3
<1>7. cat' \in [Cats -> CategoryType]
  <2>1. ASSUME NEW c \in Cats
        PROVE  Recounted(s, c) \in CategoryType
    <3>1. PICK row, n : row = cat[c] /\ n = Counted(s, c)
      OBVIOUS
    <3>2. PICK on : on = IF k.cat[c].active # n THEN n ELSE row.active
      OBVIOUS
    <3>3. row \in CategoryType /\ on \in BOOLEAN
      BY <1>2, <3>1, <3>2 DEF Counted, CategoryType
    <3>4. [row EXCEPT !.active = on] \in CategoryType
      BY <3>3 DEF CategoryType
    <3> QED BY <1>1, <3>1, <3>2, <3>3, <3>4 DEF Recounted
  <2> QED BY <2>1 DEF ToggleCommit
<1> QED BY <1>3, <1>5, <1>6, <1>7, Written

LEMMA StepKeepsInv == Inv /\ [Next]_vars => Inv'
<1> SUFFICES ASSUME Inv, [Next]_vars
             PROVE  Inv'
  OBVIOUS
<1>1. CASE UNCHANGED vars
  BY <1>1, NothingWritten DEF vars, Inv, Types
<1> QED BY <1>1, PanelStep, CacheStep, SessionStep, SyncStep, ToggleStep DEF Next

\* The invariant holds in every reachable state (sync.py, catalog.py, cli.py).
THEOREM Invariance == Spec => []Inv
BY InitInv, StepKeepsInv, PTL DEF Spec

\* What the operator switched off stays off, whatever syncs that had read the service
\* before write after it (sync.py:165-212, cli.py:115-145).
THEOREM OffMeansOff == Spec => []OffStaysOff
<1>1. Inv => OffStaysOff
  BY DEF Inv, OffStaysOff
<1> QED BY <1>1, Invariance, PTL
==============================================================================
