---------------------------- MODULE ScenesProofs ------------------------------
(***************************************************************************)
(* Proofs about the components of MCScenes for any values of its           *)
(* constants, except where a condition is named.  What happens elsewhere   *)
(* leaves a component alone, so each is proved by its own steps.           *)
(***************************************************************************)
EXTENDS MCScenes, FiniteSetTheorems, SequenceTheorems, TLAPS

\* A step is one of the component, or leaves it as it is.
LEMMA OneScene ==
    ASSUME [Next]_vars
    PROVE  /\ T!Next \/ UNCHANGED tenantVars
           /\ B!Next \/ UNCHANGED castVars
           /\ R!Next \/ UNCHANGED registryVars
           /\ P!Next \/ UNCHANGED premiumVars
           /\ D!Next \/ UNCHANGED deskVars
           /\ M!Next \/ UNCHANGED marketVars
           /\ A!Next \/ UNCHANGED panelVars
           /\ S!Next \/ UNCHANGED bootVars
           /\ Q!Next \/ UNCHANGED rateVars
BY Zenon DEF Next, vars

------------------------------------------------------------------------------
\* Providers

\* The registry, and a copy of it, have an entry for every panel.
Registry == [Panels -> [status : {"absent", "HEALTHY", "DEGRADED", "DOWN"}, count : Nat]]
RegistryInv == registry \in Registry /\ (reload = R!NoCopy \/ reload \in Registry)

LEMMA EntryTyped ==
    ASSUME registry \in Registry, NEW p \in Panels
    PROVE  /\ R!Fresh \in [status : {"absent", "HEALTHY", "DEGRADED", "DOWN"}, count : Nat]
           /\ R!Absent \in [status : {"absent", "HEALTHY", "DEGRADED", "DOWN"}, count : Nat]
           /\ R!Success(registry[p]) \in [status : {"absent", "HEALTHY", "DEGRADED", "DOWN"}, count : Nat]
           /\ R!Failure(registry[p]) \in [status : {"absent", "HEALTHY", "DEGRADED", "DOWN"}, count : Nat]
           /\ registry[p].status = "DOWN" =>
                 /\ registry[p] # R!Absent
                 /\ R!Success(registry[p]).status = "DOWN"
                 /\ R!Failure(registry[p]).status = "DOWN"
BY DEF Registry, R!Fresh, R!Absent, R!Success, R!Failure

LEMMA CopyTyped == registry \in Registry => R!Copy \in Registry
<1> SUFFICES ASSUME registry \in Registry
             PROVE  R!Copy \in Registry
  OBVIOUS
<1>1. ASSUME NEW p \in Panels
      PROVE  (IF p \in enabled THEN R!Copied(p) ELSE R!Absent)
                \in [status : {"absent", "HEALTHY", "DEGRADED", "DOWN"}, count : Nat]
  BY EntryTyped DEF R!Copied, Registry
<1> QED BY <1>1 DEF R!Copy, Registry

\* A call's end records its outcome in the panel's entry, or nothing.
LEMMA RecordsKept ==
    ASSUME registry \in Registry, NEW q, NEW e,
           q \in Panels => /\ e \in [status : {"absent", "HEALTHY", "DEGRADED", "DOWN"}, count : Nat]
                           /\ registry[q].status = "DOWN" => e.status = "DOWN",
           R!Records(q, e)
    PROVE  /\ registry' \in Registry
           /\ \A p \in Panels : registry[p].status = "DOWN" => registry'[p].status = "DOWN"
BY DEF R!Records, R!Loaded, Registry

\* Every step of the registry, and what it does to a tripped breaker.
LEMMA RegistryStep ==
    ASSUME RegistryInv, R!Next
    PROVE  /\ RegistryInv'
           /\ \A p \in Panels : R!Tripped(p) =>
                 R!Tripped(p)' \/ registry'[p] = R!Absent \/ R!Reset(p) \/ R!Outdated(p)
<1>1. registry \in Registry /\ (reload = R!NoCopy \/ reload \in Registry)
  BY DEF RegistryInv
<1>2. CASE \E p \in Panels : R!Toggle(p)
  BY <1>1, <1>2 DEF R!Toggle, RegistryInv, R!Tripped
<1>3. ASSUME NEW q \in Panels, R!Reset(q)
      PROVE  /\ RegistryInv'
             /\ \A p \in Panels : R!Tripped(p) => R!Tripped(p)' \/ R!Reset(p)
  <2>1. registry' = [registry EXCEPT ![q] = R!Fresh] /\ UNCHANGED reload
    BY <1>3 DEF R!Reset
  <2>2. registry' \in Registry
    BY <1>1, <2>1, EntryTyped DEF Registry
  <2>3. ASSUME NEW p \in Panels, R!Tripped(p), p # q
        PROVE  R!Tripped(p)'
    BY <1>1, <2>1, <2>3 DEF R!Tripped, Registry
  <2> QED BY <1>1, <1>3, <2>1, <2>2, <2>3 DEF RegistryInv
<1>4. CASE R!Load
  <2>1. CASE R!Loaded \subseteq enabled
    <3>1. registry' = R!Copy /\ UNCHANGED reload
      BY <1>4, <2>1 DEF R!Load
    <3>2. RegistryInv'
      BY <1>1, <3>1, CopyTyped DEF RegistryInv
    <3>3. ASSUME NEW p \in Panels, R!Tripped(p)
          PROVE  R!Tripped(p)'
      <4>1. p \in R!Loaded /\ p \in enabled
        BY <1>1, <2>1, <3>3, EntryTyped DEF R!Tripped, R!Loaded
      <4>2. R!Copy[p] = registry[p]
        BY <4>1 DEF R!Copy, R!Copied
      <4> QED BY <3>1, <3>3, <4>2 DEF R!Tripped
    <3> QED BY <3>2, <3>3
  <2>2. CASE ~(R!Loaded \subseteq enabled)
    <3>1. reload' = R!Copy /\ UNCHANGED registry
      BY <1>4, <2>2 DEF R!Load
    <3> QED BY <1>1, <3>1, CopyTyped DEF RegistryInv, R!Tripped
  <2> QED BY <2>1, <2>2
<1>5. CASE R!Install
  <2>1. reload # R!NoCopy /\ registry' = reload /\ reload' = R!NoCopy
    BY <1>5 DEF R!Install
  <2>2. R!NoCopy' = R!NoCopy
    BY DEF R!NoCopy, R!Fresh
  <2> QED BY <1>1, <2>1, <2>2 DEF RegistryInv, R!Tripped, R!Outdated
<1>6. CASE \E c \in Calls, p \in Panels, kind \in R!Kinds : R!Begin(c, p, kind)
  BY <1>1, <1>6 DEF R!Begin, RegistryInv, R!Tripped
<1>8. CASE \E p \in Panels : R!Expire(p)
  BY <1>1, <1>8 DEF R!Expire, RegistryInv, R!Tripped
<1>7. ASSUME NEW c \in Calls, R!Answers(c) \/ R!Fails(c) \/ R!Breaks(c)
      PROVE  RegistryInv' /\ \A p \in Panels : R!Tripped(p) => R!Tripped(p)'
  <2>1. UNCHANGED reload
    BY <1>7 DEF R!Answers, R!Fails, R!Breaks, R!Ends
  <2>2. CASE R!Breaks(c)
    BY <1>1, <2>1, <2>2 DEF R!Breaks, RegistryInv, R!Tripped
  <2>3. CASE R!Answers(c)
    <3>1. R!Records(call[c].p, R!Success(registry[call[c].p]))
      BY <2>3 DEF R!Answers
    <3> QED BY <1>1, <2>1, <3>1, EntryTyped, RecordsKept DEF RegistryInv, R!Tripped
  <2>4. CASE R!Fails(c)
    <3>1. R!Records(call[c].p, R!Failure(registry[call[c].p]))
      BY <2>4 DEF R!Fails
    <3> QED BY <1>1, <2>1, <3>1, EntryTyped, RecordsKept DEF RegistryInv, R!Tripped
  <2> QED BY <1>7, <2>2, <2>3, <2>4
<1> QED BY <1>2, <1>3, <1>4, <1>5, <1>6, <1>7, <1>8 DEF R!Next

\* A tripped breaker stays tripped through successes, failures, reloads and the time-out of
\* its record, until it is reset by hand, its panel is dropped, or a copy taken before it
\* tripped is installed (registry.py:86-141, 201-258).
THEOREM BreakerStaysTripped == Spec => TripKept
<1>1. Init => RegistryInv
  BY EntryTyped DEF Init, R!Init, RegistryInv, Registry, R!Fresh
<1>2. RegistryInv /\ [Next]_vars => RegistryInv'
  BY OneScene, RegistryStep DEF RegistryInv, registryVars
<1>3. RegistryInv /\ [Next]_vars =>
        [\A p \in Panels : R!Tripped(p) =>
            R!Tripped(p)' \/ registry'[p] = R!Absent \/ R!Reset(p) \/ R!Outdated(p)]_(R!vars)
  BY OneScene, RegistryStep DEF registryVars, R!vars
<1> QED BY <1>1, <1>2, <1>3, PTL DEF Spec, TripKept, R!TripKept

------------------------------------------------------------------------------
\* Premium

\* A subscription keeps its user; a transaction knows rows of the user it is about.
Subscription == [u : Users, plan : P!Plans, status : {"active", "expired", "cancelled"}, until : Nat]
TxSound(x) ==
    /\ x.own \in Nat /\ x.lapsed \subseteq DOMAIN premium /\ x.until \in Nat /\ x.at \in Nat
    /\ x.op \in {"grant", "revoke", "gate"} =>
          /\ x.u \in Users /\ \A i \in x.lapsed : premium[i].u = x.u
          /\ x.own # 0 => x.own \in DOMAIN premium /\ premium[x.own].u = x.u
    /\ x.op = "revoke" => x.own # 0
    /\ x.op = "grant" => x.plan \in P!Plans
PremiumInv ==
    /\ premium \in Seq(Subscription) /\ is_premium \subseteq Users /\ now \in Nat
    /\ tx = [t \in Txs |-> tx[t]] /\ \A t \in Txs : TxSound(tx[t])
    /\ P!FlagHonest

\* Rows are only added or rewritten for the same user.
LEMMA TxStaysSound ==
    ASSUME NEW x, TxSound(x), premium' \in Seq(Subscription), DOMAIN premium \subseteq DOMAIN premium',
           \A i \in DOMAIN premium : premium'[i].u = premium[i].u
    PROVE  TxSound(x)'
BY DEF TxSound

LEMMA ExpiredRows ==
    ASSUME premium \in Seq(Subscription), NEW lapsed
    PROVE  /\ P!Expired(premium, lapsed) \in Seq(Subscription)
           /\ DOMAIN P!Expired(premium, lapsed) = DOMAIN premium
           /\ Len(P!Expired(premium, lapsed)) = Len(premium)
           /\ \A i \in DOMAIN premium :
                 /\ P!Expired(premium, lapsed)[i].u = premium[i].u
                 /\ i \notin lapsed => P!Expired(premium, lapsed)[i] = premium[i]
<1> DEFINE rows == P!Expired(premium, lapsed)
<1>1. DOMAIN premium = 1..Len(premium) /\ Len(premium) \in Nat
  OBVIOUS
<1>2. rows = [i \in 1..Len(premium) |->
                IF i \in lapsed THEN [premium[i] EXCEPT !.status = "expired"] ELSE premium[i]]
  BY <1>1 DEF P!Expired
<1>3. ASSUME NEW i \in 1..Len(premium)
      PROVE  /\ rows[i] \in Subscription /\ rows[i].u = premium[i].u
             /\ i \notin lapsed => rows[i] = premium[i]
  <2>1. premium[i] \in Subscription
    BY <1>1
  <2> QED BY <1>2, <2>1 DEF Subscription
<1>4. rows \in Seq(Subscription) /\ Len(rows) = Len(premium) /\ DOMAIN rows = 1..Len(premium)
  <2>1. rows \in [1..Len(premium) -> Subscription]
    BY <1>2, <1>3
  <2> QED BY <1>1, <2>1
<1> QED BY <1>1, <1>3, <1>4

\* What any commit has to do for the flags to stay honest: the rows of everybody who
\* keeps the flag stay, or the new flag comes with a new row.
LEMMA FlagsStayHonest ==
    ASSUME PremiumInv, NEW t \in Txs, tx' = [tx EXCEPT ![t] = P!Idle], UNCHANGED now,
           premium' \in Seq(Subscription), DOMAIN premium \subseteq DOMAIN premium',
           \A i \in DOMAIN premium : premium'[i].u = premium[i].u,
           is_premium' \subseteq Users,
           \A u \in is_premium' :
              \/ u \in is_premium /\ \A i \in DOMAIN premium :
                    premium[i].u = u /\ premium[i].status = "active" => premium'[i].status = "active"
              \/ \E i \in DOMAIN premium' : premium'[i].u = u /\ premium'[i].status = "active"
    PROVE  PremiumInv'
<1>1. P!FlagHonest'
  <2> SUFFICES ASSUME NEW u \in is_premium'
               PROVE  \E i \in DOMAIN premium' : premium'[i].u = u /\ premium'[i].status = "active"
    BY DEF P!FlagHonest, P!Active
  <2>1. CASE u \in is_premium /\ \A i \in DOMAIN premium :
                premium[i].u = u /\ premium[i].status = "active" => premium'[i].status = "active"
    <3>1. PICK i \in DOMAIN premium : premium[i].u = u /\ premium[i].status = "active"
      BY <2>1 DEF PremiumInv, P!FlagHonest, P!Active
    <3> QED BY <2>1, <3>1
  <2> QED BY <2>1
<1>2. \A s \in Txs : TxSound(tx[s])'
  <2>1. ASSUME NEW s \in Txs
        PROVE  TxSound(tx[s])'
    <3>1. TxSound(P!Idle)
      BY DEF TxSound, P!Idle
    <3>2. PICK x : x = tx'[s]
      OBVIOUS
    <3>3. TxSound(x)
      BY <3>1, <3>2 DEF PremiumInv
    <3>4. TxSound(x)'
      BY <3>3, TxStaysSound
    <3> QED BY <3>2, <3>4
  <2> QED BY <2>1
<1> QED BY <1>1, <1>2 DEF PremiumInv

LEMMA GrantKeepsInv ==
    ASSUME Duration \in Nat, PremiumInv, NEW t \in Txs, P!CommitGrant(t),
           tx' = [tx EXCEPT ![t] = P!Idle], UNCHANGED now
    PROVE  PremiumInv'
<1>1. PICK x : x = tx[t]
  OBVIOUS
<1>2. /\ premium \in Seq(Subscription) /\ is_premium \subseteq Users
      /\ x.op = "grant" /\ TxSound(x)
  BY <1>1 DEF P!CommitGrant, PremiumInv
<1>3. PICK rows : rows = P!Expired(premium, x.lapsed)
  OBVIOUS
<1>4. /\ rows \in Seq(Subscription) /\ DOMAIN rows = DOMAIN premium /\ Len(rows) = Len(premium)
      /\ \A i \in DOMAIN premium : rows[i].u = premium[i].u
                                   /\ (i \notin x.lapsed => rows[i] = premium[i])
  BY <1>2, <1>3, ExpiredRows
<1>5. /\ DOMAIN premium = 1..Len(premium) /\ Len(premium) \in Nat
      /\ \A i \in DOMAIN premium : rows[i] \in Subscription /\ premium[i] \in Subscription
  BY <1>2, <1>4
<1>6. CASE P!Extends(x) /\ premium' = [rows EXCEPT ![x.own].until = P!Later(x.until, x.at) + Duration]
           /\ is_premium' = P!Flags(x.lapsed)
  <2>1. PICK n : n = P!Later(x.until, x.at) + Duration
    OBVIOUS
  <2>2. n \in Nat
    BY <1>2, <2>1 DEF P!Later, TxSound
  <2>3. x.own \in DOMAIN premium
    BY <1>2, <1>6 DEF P!Extends, TxSound
  <2>4. PICK r : r = [rows[x.own] EXCEPT !.until = n]
    OBVIOUS
  <2>5. r \in Subscription /\ r.u = rows[x.own].u /\ r.status = rows[x.own].status
    BY <1>5, <2>2, <2>3, <2>4 DEF Subscription
  <2>6. premium' = [rows EXCEPT ![x.own] = r]
    BY <1>6, <2>1, <2>4
  <2>7. /\ premium' \in Seq(Subscription) /\ DOMAIN premium' = DOMAIN premium
        /\ \A i \in DOMAIN premium : premium'[i].u = premium[i].u
                                     /\ premium'[i].status = rows[i].status
    BY <1>4, <1>5, <2>3, <2>5, <2>6
  <2>8. is_premium' \subseteq Users
    BY <1>2, <1>6 DEF P!Flags
  <2>9. ASSUME NEW u \in is_premium', NEW i \in DOMAIN premium,
               premium[i].u = u, premium[i].status = "active"
        PROVE  premium'[i].status = "active"
    <3>1. i \notin x.lapsed
      BY <1>6, <2>9 DEF P!Flags
    <3> QED BY <1>4, <2>7, <2>9, <3>1
  <2>10. is_premium' \subseteq is_premium
    BY <1>6 DEF P!Flags
  <2> QED BY <2>7, <2>8, <2>9, <2>10, FlagsStayHonest
<1>7. CASE /\ premium' = Append(IF P!Upgrades(x) THEN [rows EXCEPT ![x.own].status = "cancelled"]
                                ELSE rows, P!NewRow(x))
           /\ is_premium' = is_premium \cup {x.u}
  <2>1. PICK base : base = IF P!Upgrades(x) THEN [rows EXCEPT ![x.own].status = "cancelled"] ELSE rows
    OBVIOUS
  <2>2. /\ base \in Seq(Subscription) /\ DOMAIN base = DOMAIN premium
        /\ \A i \in DOMAIN premium : base[i].u = premium[i].u
                                     /\ (premium[i].u # x.u => base[i] = premium[i])
    <3>1. ASSUME NEW i \in DOMAIN premium, premium[i].u # x.u
          PROVE  rows[i] = premium[i]
      BY <1>2, <1>4, <3>1 DEF TxSound
    <3>2. CASE ~P!Upgrades(x)
      BY <1>4, <2>1, <3>1, <3>2
    <3>3. CASE P!Upgrades(x)
      <4>1. x.own \in DOMAIN premium /\ premium[x.own].u = x.u
        BY <1>2, <3>3 DEF P!Upgrades, TxSound
      <4>2. PICK r : r = [rows[x.own] EXCEPT !.status = "cancelled"]
        OBVIOUS
      <4>3. r \in Subscription /\ r.u = rows[x.own].u
        BY <1>5, <4>1, <4>2 DEF Subscription
      <4>4. base = [rows EXCEPT ![x.own] = r]
        BY <2>1, <3>3, <4>2
      <4> QED BY <1>4, <1>5, <3>1, <4>1, <4>3, <4>4
    <3> QED BY <3>2, <3>3
  <2>3. PICK r : r = P!NewRow(x)
    OBVIOUS
  <2>4. r \in Subscription /\ r.u = x.u /\ r.status = "active" /\ x.u \in Users
    <3>1. x.u \in Users /\ x.plan \in P!Plans /\ x.at \in Nat
      BY <1>2 DEF TxSound
    <3>2. x.at + Duration \in Nat
      BY <3>1
    <3> QED BY <2>3, <3>1, <3>2 DEF P!NewRow, Subscription
  <2>5. premium' = Append(base, r)
    BY <1>7, <2>1, <2>3
  <2>6. /\ premium' \in Seq(Subscription) /\ DOMAIN premium \subseteq DOMAIN premium'
        /\ \A i \in DOMAIN premium : premium'[i] = base[i]
        /\ Len(base) + 1 \in DOMAIN premium' /\ premium'[Len(base) + 1] = r
    BY <2>2, <2>4, <2>5
  <2>7. is_premium' \subseteq Users
    BY <1>2, <1>7, <2>4
  <2>8. ASSUME NEW u \in is_premium', u # x.u
        PROVE  u \in is_premium /\ \A i \in DOMAIN premium :
                  premium[i].u = u /\ premium[i].status = "active" => premium'[i].status = "active"
    BY <1>7, <2>2, <2>6, <2>8
  <2>9. \E i \in DOMAIN premium' : premium'[i].u = x.u /\ premium'[i].status = "active"
    BY <2>4, <2>6
  <2>10. \A i \in DOMAIN premium : premium'[i].u = premium[i].u
    BY <2>2, <2>6
  <2> QED BY <2>6, <2>7, <2>8, <2>9, <2>10, FlagsStayHonest
<1> QED BY <1>1, <1>3, <1>6, <1>7 DEF P!CommitGrant

LEMMA RevokeKeepsInv ==
    ASSUME PremiumInv, NEW t \in Txs, P!CommitRevoke(t),
           tx' = [tx EXCEPT ![t] = P!Idle], UNCHANGED now
    PROVE  PremiumInv'
<1>1. PICK x : x = tx[t]
  OBVIOUS
<1>2. /\ premium \in Seq(Subscription) /\ x.own \in DOMAIN premium /\ premium[x.own].u = x.u
      /\ premium' = [premium EXCEPT ![x.own].status = "cancelled"]
      /\ is_premium' = is_premium \ {x.u} /\ is_premium \subseteq Users
  BY <1>1 DEF P!CommitRevoke, PremiumInv, TxSound
<1>3. PICK r : r = [premium[x.own] EXCEPT !.status = "cancelled"]
  OBVIOUS
<1>4. premium[x.own] \in Subscription
  BY <1>2
<1>5. r \in Subscription /\ r.u = x.u
  BY <1>2, <1>3, <1>4 DEF Subscription
<1>6. premium' = [premium EXCEPT ![x.own] = r]
  BY <1>2, <1>3
<1>7. /\ premium' \in Seq(Subscription) /\ DOMAIN premium' = DOMAIN premium
      /\ \A i \in DOMAIN premium : /\ premium'[i].u = premium[i].u
                                   /\ premium[i].u # x.u => premium'[i] = premium[i]
  BY <1>2, <1>5, <1>6
<1> QED BY <1>2, <1>7, FlagsStayHonest

LEMMA ExpiryKeepsInv ==
    ASSUME PremiumInv, NEW t \in Txs, P!CommitExpiry(t),
           tx' = [tx EXCEPT ![t] = P!Idle], UNCHANGED now
    PROVE  PremiumInv'
<1>1. PICK lapsed : lapsed = tx[t].lapsed
  OBVIOUS
<1>2. /\ premium \in Seq(Subscription) /\ is_premium \subseteq Users
      /\ premium' = P!Expired(premium, lapsed)
      /\ is_premium' = is_premium \ {premium[i].u : i \in lapsed}
  BY <1>1 DEF P!CommitExpiry, P!Flags, PremiumInv
<1>3. /\ premium' \in Seq(Subscription) /\ DOMAIN premium' = DOMAIN premium
      /\ \A i \in DOMAIN premium : /\ premium'[i].u = premium[i].u
                                   /\ i \notin lapsed => premium'[i] = premium[i]
  BY <1>2, ExpiredRows
<1> QED BY <1>2, <1>3, FlagsStayHonest

\* A transaction that begins has read rows of its user.
LEMMA ReadsKeepsInv ==
    ASSUME PremiumInv, NEW t \in Txs, NEW op, NEW u \in Users, NEW plan,
           op = "grant" => plan \in P!Plans, op \in {"grant", "revoke", "gate"},
           P!Reads(t, op, u, plan)
    PROVE  PremiumInv'
<1> DEFINE lapsed == {i \in P!Active(u) : P!Lapsed(i)}
           live == P!Active(u) \ lapsed
<1>1. PICK own : own = IF live = {} THEN 0 ELSE CHOOSE i \in live : TRUE
  OBVIOUS
<1>2. PICK x : x = [op |-> op, u |-> u, lapsed |-> lapsed, plan |-> plan, at |-> now,
                    own |-> own, until |-> IF own = 0 THEN 0 ELSE premium[own].until]
  OBVIOUS
<1>3. /\ tx' = [tx EXCEPT ![t] = x] /\ (op = "revoke" => own # 0)
      /\ UNCHANGED <<premium, is_premium, now>>
  BY <1>1, <1>2 DEF P!Reads
<1>4. premium \in Seq(Subscription) /\ now \in Nat
  BY DEF PremiumInv
<1>5. own # 0 => own \in P!Active(u)
  BY <1>1
<1>6. own \in Nat /\ (own # 0 => own \in DOMAIN premium /\ premium[own].u = u
                                 /\ premium[own].until \in Nat)
  <2>1. ASSUME NEW i \in P!Active(u)
        PROVE  /\ i \in DOMAIN premium /\ i \in Nat /\ premium[i].u = u
               /\ premium[i].until \in Nat
    <3>1. i \in DOMAIN premium /\ premium[i].u = u
      BY DEF P!Active
    <3>2. i \in Nat /\ premium[i] \in Subscription
      BY <1>4, <3>1
    <3> QED BY <3>1, <3>2 DEF Subscription
  <2> QED BY <1>1, <1>5, <2>1
<1>7. \A i \in lapsed : i \in DOMAIN premium /\ premium[i].u = u
  BY DEF P!Active
<1>8. TxSound(x)
  <2>1. /\ x.op = op /\ x.u = u /\ x.lapsed = lapsed /\ x.plan = plan /\ x.at = now
        /\ x.own = own /\ x.until = IF own = 0 THEN 0 ELSE premium[own].until
    BY <1>2
  <2>2. x.until \in Nat
    BY <1>6, <2>1
  <2>3. x.lapsed \subseteq DOMAIN premium /\ \A i \in x.lapsed : premium[i].u = x.u
    BY <1>7, <2>1
  <2> QED BY <1>3, <1>4, <1>6, <2>1, <2>2, <2>3 DEF TxSound
<1>9. ASSUME NEW s \in Txs
      PROVE  TxSound(tx[s])'
  <2>1. PICK y : y = tx'[s]
    OBVIOUS
  <2>2. TxSound(y)
    BY <1>3, <1>8, <2>1 DEF PremiumInv
  <2>3. TxSound(y)'
    BY <1>3, <2>2 DEF TxSound
  <2> QED BY <2>1, <2>3
<1> QED BY <1>3, <1>9 DEF PremiumInv, P!FlagHonest, P!Active

LEMMA PremiumStep ==
    ASSUME Duration \in Nat, PremiumInv, P!Next
    PROVE  PremiumInv'
<1>1. CASE P!Tick
  BY <1>1 DEF P!Tick, PremiumInv, TxSound, P!FlagHonest, P!Active
<1>2. ASSUME NEW t \in Txs, P!BeginGrant(t) \/ P!BeginRevoke(t) \/ P!BeginGate(t)
      PROVE  PremiumInv'
  <2>1. CASE P!BeginGrant(t)
    <3>1. PICK u \in Users, plan \in P!Plans : P!Reads(t, "grant", u, plan)
      BY <2>1 DEF P!BeginGrant
    <3> QED BY <3>1, ReadsKeepsInv
  <2>2. CASE P!BeginRevoke(t)
    <3>1. PICK u \in Users : P!Reads(t, "revoke", u, "none")
      BY <2>2 DEF P!BeginRevoke
    <3> QED BY <3>1, ReadsKeepsInv
  <2>3. CASE P!BeginGate(t)
    <3>1. PICK u \in Users : P!Reads(t, "gate", u, "none")
      BY <2>3 DEF P!BeginGate
    <3> QED BY <3>1, ReadsKeepsInv
  <2> QED BY <1>2, <2>1, <2>2, <2>3
<1>3. ASSUME NEW t \in Txs, P!BeginExpiry(t) \/ P!Rollback(t)
      PROVE  PremiumInv'
  <2>1. PICK x : /\ tx' = [tx EXCEPT ![t] = x] /\ TxSound(x)
                 /\ UNCHANGED <<premium, is_premium, now>>
    <3>1. CASE P!Rollback(t)
      <4>1. TxSound(P!Idle)
        BY DEF TxSound, P!Idle
      <4> QED BY <3>1, <4>1 DEF P!Rollback
    <3>2. CASE P!BeginExpiry(t)
      <4>1. PICK x : x = [P!Idle EXCEPT !.op = "expiry",
                  !.lapsed = {i \in DOMAIN premium : premium[i].status = "active" /\ P!Lapsed(i)}]
        OBVIOUS
      <4>2. TxSound(x)
        BY <4>1 DEF TxSound, P!Idle
      <4> QED BY <3>2, <4>1, <4>2 DEF P!BeginExpiry
    <3> QED BY <1>3, <3>1, <3>2
  <2>2. ASSUME NEW s \in Txs
        PROVE  TxSound(tx[s])'
    <3>1. PICK y : y = tx'[s]
      OBVIOUS
    <3>2. TxSound(y)
      BY <2>1, <3>1 DEF PremiumInv
    <3>3. TxSound(y)'
      BY <2>1, <3>2 DEF TxSound
    <3> QED BY <3>1, <3>3
  <2> QED BY <2>1, <2>2 DEF PremiumInv, P!FlagHonest, P!Active
<1>4. ASSUME NEW t \in Txs, P!Commit(t)
      PROVE  PremiumInv'
  BY <1>4, GrantKeepsInv, RevokeKeepsInv, ExpiryKeepsInv DEF P!Commit
<1> QED BY <1>1, <1>2, <1>3, <1>4 DEF P!Next

\* Whoever has the is_premium flag has an active subscription, whichever grants,
\* revocations, expiries and gates overlap (service.py:154-353).
THEOREM FlagsHonest ==
    ASSUME Duration \in Nat
    PROVE  Spec => []FlagHonest
<1>1. Init => PremiumInv
  <2>1. TxSound(P!Idle)
    BY DEF TxSound, P!Idle
  <2> SUFFICES ASSUME Init
               PROVE  PremiumInv
    OBVIOUS
  <2>3. premium = <<>> /\ is_premium = {} /\ now = 0 /\ tx = [t \in Txs |-> P!Idle]
    BY DEF Init, P!Init
  <2>4. premium \in Seq(Subscription) /\ is_premium \subseteq Users /\ now \in Nat /\ P!FlagHonest
    BY <2>3 DEF P!FlagHonest
  <2>5. tx = [t \in Txs |-> tx[t]] /\ \A t \in Txs : TxSound(tx[t])
    BY <2>1, <2>3
  <2> QED BY <2>4, <2>5 DEF PremiumInv
<1>2. PremiumInv /\ [Next]_vars => PremiumInv'
  <2> SUFFICES ASSUME PremiumInv, [Next]_vars
               PROVE  PremiumInv'
    OBVIOUS
  <2>1. CASE UNCHANGED premiumVars
    <3>1. UNCHANGED <<premium, is_premium, tx, now>>
      BY <2>1 DEF premiumVars
    <3> QED BY <3>1 DEF PremiumInv, TxSound, P!FlagHonest, P!Active
  <2> QED BY <2>1, OneScene, PremiumStep
<1>3. PremiumInv => FlagHonest
  BY DEF PremiumInv, FlagHonest
<1> QED BY <1>1, <1>2, <1>3, PTL DEF Spec

------------------------------------------------------------------------------
\* Boots

\* What a boot still has to do, by its kind: a first seed, a later boot of a demo,
\* one in production.
Seeded == {<<{"coupon"}, S!SETTINGS, S!ADS>>, <<S!SETTINGS, S!ADS>>}
Keeping == {S!KeepUp, <<S!SETTINGS, {"coupon"}, S!ADS>>, <<{"coupon"}, S!ADS>>}
Last == {<<S!ADS>>, <<>>}
Linking == {<<S!SETTINGS>>, <<S!SETTINGS, {"provider"}>>, <<{"provider"}>>, <<>>}

Set(b, r) == b.wrote[r] # S!Missing
There(r) == fixture[r] # S!Missing

\* The rows that belong to the operator and the customers once they are there.
Owned == {"markup", "stock", "coupon"} \cup (IF production THEN {} ELSE {"terms"})

BootType == [pc : {"down", "read", "flush", "count", "up"}, then : {"count", "up"}, env : S!Env,
             left : {<<{"schema"}>>, S!_seed_all} \cup Seeded \cup Keeping \cup Last \cup Linking,
             add : SUBSET S!Rows, sync : SUBSET S!Rows, wrote : [S!Rows -> {S!Missing, 0, 1, S!Falaron}]]

\* A demo's stock and ads are written in one transaction, the stock first.
Seeding(b) ==
    /\ b.left \in {S!_seed_all} \cup Seeded \cup Keeping \cup Last
    /\ b.left = S!_seed_all => ~Set(b, "stock")
    /\ b.left \in Seeded => Set(b, "stock")
    /\ b.left \in Keeping => There("stock")
    /\ b.left \in Last => There("stock") \/ Set(b, "stock")
    /\ Set(b, "ads") => Set(b, "stock") /\ b.left = <<>> /\ b.wrote["ads"] = 1
    /\ b.left = <<>> /\ Set(b, "stock") => Set(b, "ads")
    /\ b.pc = "flush" /\ b.left = S!_seed_all => "stock" \in b.add
    /\ b.pc = "flush" /\ b.left = <<S!ADS>> => ("ads" \in b.add <=> Set(b, "stock"))

BootSound(b) ==
    /\ b \in BootType
    /\ b.pc \in {"down", "count", "up"} => b.wrote = S!Unset
    /\ b.pc \in {"read", "flush"} /\ b.then = "count" =>
          b.left \in {<<{"schema"}>>, <<>>} /\ \A r \in S!Rows \ {"schema"} : ~Set(b, r)
    /\ b.pc \in {"read", "flush"} /\ b.then = "up" =>
          IF production THEN b.left \in Linking /\ ~Set(b, "stock") /\ ~Set(b, "ads")
          ELSE Seeding(b)
    /\ b.pc = "flush" =>
          /\ b.left # <<>> /\ b.add \subseteq Head(b.left) /\ b.sync \subseteq Head(b.left)
          /\ b.sync \cap (Owned \cup {"ads"}) = {}
    /\ \A r \in Owned : Set(b, r) => ~There(r)
    /\ Set(b, "brand") => ~There("brand") \/ b.wrote["brand"] = S!Falaron
    /\ b.wrote["stock"] # S!Falaron

BootInv ==
    /\ production \in BOOLEAN
    /\ fixture \in [S!Rows -> Int] /\ fixture["stock"] \in {S!Missing, 0, 1}
    /\ word \in [S!Rows -> Int]
    /\ boot \in [Procs -> BootType] /\ \A p \in Procs : BootSound(boot[p])
    /\ \A p, q \in Procs, r \in S!Keyed : Set(boot[p], r) /\ Set(boot[q], r) => p = q
    /\ fixture["ads"] \in {S!Missing, 1}
    /\ There("ads") <=> There("stock")
    /\ production => ~There("stock")
    /\ \A r \in Owned : word[r] # S!Missing => fixture[r] = word[r]
    /\ word["brand"] # S!Missing => fixture["brand"] \in {word["brand"], S!Falaron}

LEMMA RowsAre ==
    /\ S!Rows = {"schema", "coupon", "stock", "provider", "markup", "terms", "brand", "ads"}
    /\ S!Keyed = {"schema", "coupon", "stock", "provider", "markup", "terms", "brand"}
    /\ S!CATALOGUE = {"stock", "provider"} /\ S!SETTINGS = {"markup", "terms", "brand"}
    /\ S!ADS = {"ads"} /\ S!Missing = -1 /\ S!Falaron = 4 /\ S!Unset = [r \in S!Rows |-> -1]
    /\ Owned \subseteq S!Keyed /\ "brand" \in S!Keyed /\ "brand" \notin Owned
BY DEF S!Rows, S!Keyed, S!CATALOGUE, S!SETTINGS, S!ADS, S!Missing, S!Falaron, S!Unset, Owned

LEMMA LeftsAre ==
    /\ Head(S!_seed_all) = S!CATALOGUE
    /\ Tail(S!_seed_all) = <<{"coupon"}, S!SETTINGS, S!ADS>>
    /\ Head(<<{"coupon"}, S!SETTINGS, S!ADS>>) = {"coupon"}
    /\ Tail(<<{"coupon"}, S!SETTINGS, S!ADS>>) = <<S!SETTINGS, S!ADS>>
    /\ Head(<<S!SETTINGS, S!ADS>>) = S!SETTINGS /\ Tail(<<S!SETTINGS, S!ADS>>) = <<S!ADS>>
    /\ Head(<<S!ADS>>) = S!ADS /\ Tail(<<S!ADS>>) = <<>>
    /\ Head(S!KeepUp) = {"provider"} /\ Tail(S!KeepUp) = <<S!SETTINGS, {"coupon"}, S!ADS>>
    /\ Head(<<S!SETTINGS, {"coupon"}, S!ADS>>) = S!SETTINGS
    /\ Tail(<<S!SETTINGS, {"coupon"}, S!ADS>>) = <<{"coupon"}, S!ADS>>
    /\ Head(<<{"coupon"}, S!ADS>>) = {"coupon"} /\ Tail(<<{"coupon"}, S!ADS>>) = <<S!ADS>>
    /\ Head(<<S!SETTINGS>>) = S!SETTINGS /\ Tail(<<S!SETTINGS>>) = <<>>
    /\ Head(<<S!SETTINGS, {"provider"}>>) = S!SETTINGS
    /\ Tail(<<S!SETTINGS, {"provider"}>>) = <<{"provider"}>>
    /\ Head(<<{"provider"}>>) = {"provider"} /\ Tail(<<{"provider"}>>) = <<>>
    /\ Head(<<{"schema"}>>) = {"schema"} /\ Tail(<<{"schema"}>>) = <<>>
    /\ Len(S!_seed_all) = 4 /\ Len(S!KeepUp) = 4
BY DEF S!_seed_all, S!KeepUp

\* The stages of the different kinds of boot are told apart by what is left.
LEMMA LeftsApart ==
    /\ S!_seed_all \notin Seeded \cup Keeping \cup Last /\ S!KeepUp \notin Seeded
    /\ \A x \in Keeping : x # S!_seed_all /\ x \notin Seeded /\ x \notin Last
    /\ \A x \in Seeded : x # S!_seed_all /\ x \notin Last /\ x # <<>>
    /\ <<>> \notin Keeping /\ S!_seed_all # <<>>
<1>1. Len(S!_seed_all) = 4 /\ Len(S!KeepUp) = 4
  BY LeftsAre
<1>2. /\ \A x \in Seeded : Len(x) = 2 \/ Len(x) = 3
      /\ \A x \in Last : Len(x) = 0 \/ Len(x) = 1
      /\ Len(<<>>) = 0
  BY DEF Seeded, Last
<1>3. Len(<<S!SETTINGS, {"coupon"}, S!ADS>>) = 3 /\ Len(<<{"coupon"}, S!ADS>>) = 2
  OBVIOUS
<1>4. \A x \in Keeping : Len(x) = 2 \/ Len(x) = 3 \/ Len(x) = 4
  BY <1>1, <1>3 DEF Keeping
<1>5. S!SETTINGS # {"coupon"} /\ S!CATALOGUE # {"provider"}
  BY RowsAre
<1>6. /\ Head(<<S!SETTINGS, {"coupon"}, S!ADS>>) # Head(<<{"coupon"}, S!SETTINGS, S!ADS>>)
      /\ Head(<<{"coupon"}, S!ADS>>) # Head(<<S!SETTINGS, S!ADS>>)
      /\ Head(S!KeepUp) # Head(S!_seed_all)
  BY <1>5, LeftsAre
<1>7. Len(<<{"coupon"}, S!SETTINGS, S!ADS>>) = 3 /\ Len(<<S!SETTINGS, S!ADS>>) = 2
  OBVIOUS
<1>8. <<S!SETTINGS, {"coupon"}, S!ADS>> \notin Seeded
  BY <1>3, <1>6, <1>7 DEF Seeded
<1>9. <<{"coupon"}, S!ADS>> \notin Seeded
  BY <1>3, <1>6, <1>7 DEF Seeded
<1>10. S!KeepUp \notin Seeded
  <2>1. PICK x, l : x = S!KeepUp /\ l = Len(x)
    OBVIOUS
  <2>2. l = 4
    BY <1>1, <2>1, Zenon
  <2>3. x \in Seeded => l = 2 \/ l = 3
    BY <1>2, <2>1, Zenon
  <2>4. x \notin Seeded
    BY <2>2, <2>3
  <2> QED BY <2>1, <2>4, Zenon
<1>11. \A x \in Keeping : x \notin Seeded
  BY <1>8, <1>9, <1>10 DEF Keeping
<1>12. \A x \in Keeping : x # S!_seed_all
  BY <1>1, <1>3, <1>6 DEF Keeping
<1>13. S!_seed_all \notin Seeded \cup Keeping \cup Last
  <2>1. PICK x, l : x = S!_seed_all /\ l = Len(x)
    OBVIOUS
  <2>2. l = 4
    BY <1>1, <2>1, Zenon
  <2>3. (x \in Seeded => l = 2 \/ l = 3) /\ (x \in Last => l = 0 \/ l = 1)
    BY <1>2, <2>1, Zenon
  <2>4. x \notin Seeded /\ x \notin Last
    BY <2>2, <2>3
  <2> QED BY <1>12, <2>1, <2>4, Zenon
<1>14. \A x \in Keeping : x \notin Last
  BY <1>2, <1>4
<1>15. ASSUME NEW x \in Seeded
       PROVE  x # S!_seed_all /\ x \notin Last /\ x # <<>>
  <2>1. Len(x) = 2 \/ Len(x) = 3
    BY <1>2
  <2>2. x # S!_seed_all
    BY <1>1, <2>1
  <2>3. x \notin Last
    BY <1>2, <2>1
  <2>4. x # <<>>
    BY <1>2, <2>1
  <2> QED BY <2>2, <2>3, <2>4
<1>16. <<>> \notin Keeping /\ S!_seed_all # <<>>
  BY <1>1, <1>2, <1>4
<1> QED BY <1>10, <1>11, <1>12, <1>13, <1>14, <1>15, <1>16

\* A boot that has begun keeps its word, unless its rows are taken from it.
LEMMA BootStable ==
    ASSUME NEW b, BootSound(b), production' = production, There("stock") => There("stock")',
           \A r \in Owned \cup {"brand"} : Set(b, r) => fixture'[r] = fixture[r]
    PROVE  BootSound(b)'
<1>1. Owned' = Owned
  BY DEF Owned
<1>2. (Seeding(b) => Seeding(b)') /\ \A r : Set(b, r)' <=> Set(b, r)
  BY DEF Seeding, Set, There, Seeded, Keeping, Last
<1>3. BootType' = BootType /\ Linking' = Linking
  BY DEF BootType, Linking, Seeded, Keeping, Last
<1>4. \A r \in Owned : Set(b, r) => ~There(r)'
  BY DEF BootSound, There
<1>5. /\ Set(b, "brand") => ~There("brand")' \/ b.wrote["brand"] = S!Falaron
      /\ b.wrote["stock"] # S!Falaron
  BY DEF BootSound, There
<1> QED BY <1>1, <1>2, <1>3, <1>4, <1>5 DEF BootSound

LEMMA DownSound == BootSound(S!Down) /\ S!Down.pc = "down" /\ \A r \in S!Rows : ~Set(S!Down, r)
<1>1. /\ S!Down.pc = "down" /\ S!Down.then = "count" /\ S!Down.wrote = S!Unset
      /\ S!Down.left = <<>> /\ S!Down.add = {} /\ S!Down.sync = {}
  BY DEF S!Down
<1>2. S!Unset \in [S!Rows -> {S!Missing, 0, 1, S!Falaron}] /\ \A r \in S!Rows : S!Unset[r] = S!Missing
  BY DEF S!Unset
<1>3. S!Down \in BootType
  <2>1. [key |-> 0, links |-> 0] \in S!Env
    BY DEF S!Env
  <2>2. <<>> \in Last
    BY DEF Last
  <2> QED BY <1>2, <2>1, <2>2 DEF S!Down, BootType
<1>4. Owned \subseteq S!Rows /\ {"brand", "stock"} \subseteq S!Rows /\ S!Missing # S!Falaron
  BY RowsAre
<1> QED BY <1>1, <1>2, <1>3, <1>4 DEF BootSound, Set

\* One boot goes on and the rows are as they were.
LEMMA BootGoes ==
    ASSUME BootInv, NEW p \in Procs, NEW b, BootSound(b), boot' = [boot EXCEPT ![p] = b],
           UNCHANGED <<production, fixture, word>>,
           \A r \in S!Keyed : Set(b, r) =>
              Set(boot[p], r) \/ \A q \in Procs \ {p} : ~Set(boot[q], r)
    PROVE  BootInv'
<1>1. b \in BootType /\ boot \in [Procs -> BootType]
  BY DEF BootSound, BootInv
<1>2. boot' \in [Procs -> BootType] /\ \A q \in Procs : boot'[q] = IF q = p THEN b ELSE boot[q]
  BY <1>1
<1>3. ASSUME NEW q \in Procs
      PROVE  BootSound(boot[q])'
  <2>1. PICK c : c = boot'[q]
    OBVIOUS
  <2>2. BootSound(c)
    BY <1>2, <2>1 DEF BootInv
  <2>3. BootSound(c)'
    BY <2>2, BootStable DEF There
  <2> QED BY <2>1, <2>3
<1>4. ASSUME NEW q \in Procs, NEW s \in Procs, NEW r \in S!Keyed,
             Set(boot'[q], r), Set(boot'[s], r)
      PROVE  q = s
  <2>1. \A t, v \in Procs : Set(boot[t], r) /\ Set(boot[v], r) => t = v
    BY DEF BootInv
  <2>2. CASE q # p /\ s # p
    BY <1>2, <1>4, <2>1, <2>2
  <2>3. CASE q = p /\ s # p
    BY <1>2, <1>4, <2>1, <2>3
  <2>4. CASE q # p /\ s = p
    BY <1>2, <1>4, <2>1, <2>4
  <2> QED BY <2>2, <2>3, <2>4
<1>5. (\A q, s \in Procs, r \in S!Keyed : Set(boot[q], r) /\ Set(boot[s], r) => q = s)'
  BY <1>4 DEF Set
<1>6. BootType' = BootType
  BY DEF BootType
<1>7. /\ (There("ads") <=> There("stock"))' /\ (production => ~There("stock"))'
      /\ (\A r \in Owned : word[r] # S!Missing => fixture[r] = word[r])'
      /\ (word["brand"] # S!Missing => fixture["brand"] \in {word["brand"], S!Falaron})'
  BY DEF BootInv, There, Owned
<1> QED BY <1>2, <1>3, <1>5, <1>6, <1>7 DEF BootInv

LEMMA ExitKeepsInv ==
    ASSUME BootInv, NEW p \in Procs, boot' = [boot EXCEPT ![p] = S!Down],
           UNCHANGED <<production, fixture, word>>
    PROVE  BootInv'
BY DownSound, RowsAre, BootGoes

LEMMA BeginKeepsInv ==
    ASSUME BootInv, NEW p \in Procs, S!Begin(p)
    PROVE  BootInv'
<1>1. PICK e \in S!Env :
        boot' = [boot EXCEPT ![p] = [S!Down EXCEPT !.pc = "read", !.env = e, !.left = <<{"schema"}>>]]
  BY DEF S!Begin
<1>2. PICK b : b = [S!Down EXCEPT !.pc = "read", !.env = e, !.left = <<{"schema"}>>]
  OBVIOUS
<1>3. S!Down \in BootType /\ S!Down.wrote = S!Unset /\ S!Down.then = "count"
  BY DownSound DEF BootSound, S!Down
<1>4. b \in BootType
  BY <1>2, <1>3 DEF BootType
<1>5. b.pc = "read" /\ b.then = "count" /\ b.left = <<{"schema"}>> /\ b.wrote = S!Unset
  BY <1>2, <1>3 DEF BootType
<1>6. \A r \in S!Rows : ~Set(b, r)
  BY <1>5 DEF Set, S!Unset
<1>7. b.wrote["stock"] # S!Falaron
  BY <1>6, RowsAre DEF Set
<1>8. BootSound(b)
  BY <1>4, <1>5, <1>6, <1>7, RowsAre DEF BootSound
<1> QED BY <1>1, <1>2, <1>6, <1>8, RowsAre, BootGoes DEF S!Begin

LEMMA Joined ==
    ASSUME NEW E, NEW x \in E, NEW y \in E
    PROVE  <<x>> \o <<y>> = <<x, y>> /\ <<x>> \o <<>> = <<x>>
<1>1. <<x>> \in Seq(E) /\ <<y>> \in Seq(E) /\ <<x, y>> \in Seq(E) /\ <<>> \in Seq(E)
  OBVIOUS
<1>2. Len(<<x>>) = 1 /\ Len(<<y>>) = 1 /\ Len(<<x, y>>) = 2 /\ <<x>>[1] = x /\ <<y>>[1] = y
  OBVIOUS
<1>3. <<x>> \o <<y>> = <<x, y>>
  <2>1. PICK z : z = <<x>> \o <<y>>
    OBVIOUS
  <2>2. z \in Seq(E) /\ Len(z) = 2
    BY <1>1, <1>2, <2>1, ConcatProperties
  <2>3. z[1] = x /\ z[2] = y
    BY <1>1, <1>2, <2>1, ConcatProperties
  <2>4. PICK v : v = <<x, y>>
    OBVIOUS
  <2>5. v \in Seq(E) /\ Len(v) = 2 /\ v[1] = x /\ v[2] = y
    BY <1>1, <1>2, <2>4
  <2>6. \A i \in 1 .. 2 : z[i] = v[i]
    BY <2>3, <2>5
  <2> QED BY <2>1, <2>2, <2>4, <2>5, <2>6, SeqEqual
<1>4. <<x>> \o <<>> = <<x>>
  BY <1>1, ConcatEmptySeq
<1> QED BY <1>3, <1>4

LEMMA CountKeepsInv ==
    ASSUME BootInv, NEW p \in Procs, S!Count(p)
    PROVE  BootInv'
<1>1. PICK b : b = [boot[p] EXCEPT !.pc = "read", !.then = "up",
                            !.left = CASE production -> S!Production(boot[p].env)
                                       [] ~production /\ fixture["stock"] = S!Missing -> S!_seed_all
                                       [] OTHER -> S!KeepUp]
  OBVIOUS
<1>2. boot' = [boot EXCEPT ![p] = b] /\ boot[p].pc = "count" /\ UNCHANGED <<production, fixture, word>>
  BY <1>1 DEF S!Count
<1>3. boot[p] \in BootType /\ boot[p].wrote = S!Unset
  BY <1>2 DEF BootInv, BootSound
<1>4. PICK left : left = CASE production -> S!Production(boot[p].env)
                           [] ~production /\ fixture["stock"] = S!Missing -> S!_seed_all
                           [] OTHER -> S!KeepUp
  OBVIOUS
<1>5. b = [boot[p] EXCEPT !.pc = "read", !.then = "up", !.left = left]
  BY <1>1, <1>4
<1>6. production \in BOOLEAN
  BY DEF BootInv
<1>7. /\ production => left \in Linking
      /\ ~production /\ ~There("stock") => left = S!_seed_all
      /\ ~production /\ There("stock") => left = S!KeepUp
  <2>1. CASE production
    <3>1. left = <<S!SETTINGS>> \o (IF boot[p].env.key # 0 THEN <<{"provider"}>> ELSE <<>>)
      BY <1>4, <2>1 DEF S!Production
    <3>2. <<S!SETTINGS>> \o <<{"provider"}>> = <<S!SETTINGS, {"provider"}>>
          /\ <<S!SETTINGS>> \o <<>> = <<S!SETTINGS>>
      <4>1. S!SETTINGS \in SUBSET S!Rows /\ {"provider"} \in SUBSET S!Rows
        BY RowsAre
      <4> QED BY <4>1, Joined
    <3> QED BY <2>1, <3>1, <3>2 DEF Linking
  <2>2. CASE ~production
    BY <1>4, <2>2 DEF There
  <2> QED BY <1>6, <2>1, <2>2
<1>8. b \in BootType
  <2>1. left \in {S!_seed_all} \cup Keeping \cup Linking
    BY <1>6, <1>7 DEF Keeping
  <2> QED BY <1>3, <1>5, <2>1 DEF BootType
<1>9. b.pc = "read" /\ b.then = "up" /\ b.left = left /\ b.wrote = S!Unset
  BY <1>3, <1>5 DEF BootType
<1>10. \A r \in S!Rows : ~Set(b, r)
  BY <1>9 DEF Set, S!Unset
<1>11. ~production => Seeding(b)
  <2>1. "stock" \in S!Rows /\ "ads" \in S!Rows
    BY RowsAre
  <2>2. S!KeepUp \in Keeping
    BY DEF Keeping
  <2> QED BY <1>7, <1>9, <1>10, <2>1, <2>2, LeftsApart DEF Seeding
<1>12. BootSound(b)
  <2>1. b.wrote["stock"] # S!Falaron
    BY <1>10, RowsAre DEF Set
  <2> QED BY <1>7, <1>8, <1>9, <1>10, <1>11, <2>1, RowsAre DEF BootSound
<1> QED BY <1>2, <1>10, <1>12, RowsAre, BootGoes

LEMMA ReadKeepsInv ==
    ASSUME BootInv, NEW p \in Procs, S!Read(p)
    PROVE  BootInv'
<1>1. PICK c : c = boot[p]
  OBVIOUS
<1>2. c \in BootType /\ BootSound(c) /\ c.pc = "read" /\ c.left # <<>>
  BY <1>1 DEF BootInv, S!Read
<1>3. PICK step : step = Head(c.left)
  OBVIOUS
<1>4. PICK absent : absent = IF "stock" \in step THEN step ELSE {r \in step : fixture[r] = S!Missing}
  OBVIOUS
<1>5. PICK add : add = IF ~production /\ step = {"provider"} THEN {} ELSE absent
  OBVIOUS
<1>6. PICK sync : sync = {r \in step \ absent : S!EnvOwns(r, c.env)}
  OBVIOUS
<1>7. PICK b : b = [c EXCEPT !.pc = "flush", !.add = add, !.sync = sync]
  OBVIOUS
<1>8. boot' = [boot EXCEPT ![p] = b] /\ UNCHANGED <<production, fixture, word>>
  BY <1>1, <1>3, <1>4, <1>5, <1>6, <1>7 DEF S!Read
<1>9. add \subseteq step /\ sync \subseteq step
  BY <1>4, <1>5, <1>6
<1>10. sync \cap (Owned \cup {"ads"}) = {}
  BY <1>6 DEF S!EnvOwns, Owned
<1>11. step \subseteq S!Rows
  <2>1. c.left \in {<<{"schema"}>>, S!_seed_all} \cup Seeded \cup Keeping \cup Last \cup Linking
    BY <1>2 DEF BootType
  <2> QED BY <1>2, <1>3, <2>1, LeftsAre, RowsAre DEF Seeded, Keeping, Last, Linking
<1>12. b \in BootType
  BY <1>2, <1>7, <1>9, <1>11 DEF BootType
<1>13. /\ b.pc = "flush" /\ b.add = add /\ b.sync = sync /\ b.left = c.left /\ b.then = c.then
       /\ b.wrote = c.wrote
  BY <1>2, <1>7 DEF BootType
<1>14. \A r : Set(b, r) <=> Set(c, r)
  BY <1>13 DEF Set
<1>15. ASSUME Seeding(c)
       PROVE  Seeding(b)
  <2>1. c.left = S!_seed_all => "stock" \in add
    BY <1>3, <1>4, <1>5, LeftsAre, RowsAre
  <2>2. ASSUME c.left = <<S!ADS>>
        PROVE  "ads" \in add <=> Set(c, "stock")
    <3>1. step = {"ads"}
      BY <1>3, <2>2, LeftsAre, RowsAre
    <3>2. "ads" \in add <=> ~There("ads")
      BY <1>4, <1>5, <3>1 DEF There
    <3>3. There("ads") <=> There("stock")
      BY DEF BootInv
    <3>4. There("stock") \/ Set(c, "stock")
      BY <1>15, <2>2 DEF Seeding, Last
    <3>5. Set(c, "stock") => ~There("stock")
      BY <1>2 DEF BootSound, Owned
    <3> QED BY <3>2, <3>3, <3>4, <3>5
  <2> QED BY <1>13, <1>14, <1>15, <2>1, <2>2 DEF Seeding
<1>16. BootSound(b)
  BY <1>2, <1>3, <1>9, <1>10, <1>12, <1>13, <1>14, <1>15 DEF BootSound
<1> QED BY <1>1, <1>8, <1>14, <1>16, BootGoes

\* The rows of a step are written, unless one that has to be added is there.
LEMMA FlushKeepsInv ==
    ASSUME BootInv, NEW p \in Procs, S!Flush(p)
    PROVE  BootInv'
<1>1. PICK c : c = boot[p]
  OBVIOUS
<1>2. c \in BootType /\ BootSound(c) /\ c.pc = "flush" /\ c.left # <<>>
  BY <1>1 DEF BootInv, S!Flush, BootSound
<1>3. UNCHANGED <<production, fixture, word>>
  BY DEF S!Flush
<1>4. CASE \E r \in c.add \cap S!Keyed : fixture[r] # S!Missing
  <2>1. boot' = [boot EXCEPT ![p] = S!Down]
    BY <1>1, <1>4 DEF S!Flush
  <2> QED BY <1>3, <2>1, ExitKeepsInv
<1>5. CASE ~ \E r \in c.add \cap S!Keyed : fixture[r] # S!Missing
  <2>1. PICK new : new = c.add \cup c.sync
    OBVIOUS
  <2>2. PICK wrote : wrote = [r \in S!Rows |-> S!Flushed(c, r)]
    OBVIOUS
  <2>3. PICK b : b = [c EXCEPT !.pc = "read", !.left = Tail(c.left), !.add = {}, !.sync = {},
                               !.wrote = wrote]
    OBVIOUS
  <2>4. boot' = [boot EXCEPT ![p] = b]
    BY <1>1, <1>5, <2>2, <2>3 DEF S!Flush
  <2>5. \A r \in S!Rows : S!Fresh(r, c.env) \in {0, 1} /\ S!Fresh("ads", c.env) = 1
    <3>1. c.env.key \in {0, 1} /\ c.env.links \in {0, 1}
      BY <1>2 DEF BootType, S!Env
    <3> QED BY <3>1 DEF S!Fresh
  <2>20. /\ DOMAIN wrote = S!Rows
         /\ \A r \in c.add \cap S!Rows : wrote[r] = S!Fresh(r, c.env)
         /\ \A r \in (c.sync \cap S!Rows) \ c.add : wrote[r] = S!Again(r, c.env)
         /\ \A r \in S!Rows \ new : wrote[r] = c.wrote[r]
    BY <2>1, <2>2 DEF S!Flushed
  <2>21. /\ \A r \in (new \cap S!Rows) \ {"brand"} : wrote[r] \in {0, 1} /\ wrote[r] = S!Fresh(r, c.env)
         /\ "brand" \in c.add => wrote["brand"] \in {0, 1}
         /\ "brand" \in c.sync \ c.add => wrote["brand"] = S!Falaron
    BY <2>1, <2>5, <2>20, RowsAre DEF S!Again
  <2>22. \A r \in S!Rows : /\ r \in new => wrote[r] \in {0, 1, S!Falaron}
                           /\ r \notin new => wrote[r] = c.wrote[r]
    BY <2>1, <2>20, <2>21
  <2>6. wrote \in [S!Rows -> {S!Missing, 0, 1, S!Falaron}]
    <3>1. c.wrote \in [S!Rows -> {S!Missing, 0, 1, S!Falaron}]
      BY <1>2 DEF BootType
    <3>2. wrote = [r \in S!Rows |-> wrote[r]]
      BY <2>2
    <3> QED BY <2>22, <3>1, <3>2
  <2>7. c.left \in {<<{"schema"}>>, S!_seed_all} \cup Seeded \cup Keeping \cup Last \cup Linking
    BY <1>2 DEF BootType
  <2>8. Tail(c.left) \in {<<{"schema"}>>, S!_seed_all} \cup Seeded \cup Keeping \cup Last \cup Linking
    BY <1>2, <2>7, LeftsAre DEF Seeded, Keeping, Last, Linking
  <2>9. b \in BootType
    BY <1>2, <2>3, <2>6, <2>8 DEF BootType
  <2>10. /\ b.pc = "read" /\ b.left = Tail(c.left) /\ b.then = c.then /\ b.wrote = wrote
    BY <1>2, <2>3 DEF BootType
  <2>11. \A r \in S!Rows : Set(b, r) <=> r \in new \/ Set(c, r)
    BY <2>10, <2>22, RowsAre DEF Set
  <2>12. new \subseteq Head(c.left)
    BY <1>2, <2>1 DEF BootSound
  <2>13. \A r \in Owned : Set(b, r) => ~There(r)
    <3>1. ASSUME NEW r \in Owned, r \in new
          PROVE  ~There(r)
      BY <1>2, <1>5, <2>1, <3>1, RowsAre DEF BootSound, There
    <3>2. Owned \subseteq S!Rows
      BY RowsAre
    <3> QED BY <1>2, <2>11, <3>1, <3>2 DEF BootSound
  <2>14. "stock" \in S!Rows /\ "ads" \in S!Rows
    BY RowsAre
  <2>15. ASSUME c.then = "count"
         PROVE  b.left \in {<<{"schema"}>>, <<>>} /\ \A r \in S!Rows \ {"schema"} : ~Set(b, r)
    <3>1. c.left = <<{"schema"}>> /\ \A r \in S!Rows \ {"schema"} : ~Set(c, r)
      BY <1>2, <2>15 DEF BootSound
    <3> QED BY <2>10, <2>11, <2>12, <3>1, LeftsAre
  <2>16. ASSUME c.then = "up", production
         PROVE  b.left \in Linking /\ ~Set(b, "stock") /\ ~Set(b, "ads")
    <3>1. c.left \in Linking /\ ~Set(c, "stock") /\ ~Set(c, "ads")
      BY <1>2, <2>16 DEF BootSound
    <3>2. Tail(c.left) \in Linking /\ "stock" \notin Head(c.left) /\ "ads" \notin Head(c.left)
      <4>1. CASE c.left = <<S!SETTINGS>>
        <5>1. Head(c.left) = S!SETTINGS /\ Tail(c.left) = <<>>
          BY <4>1, LeftsAre
        <5> QED BY <5>1, RowsAre DEF Linking
      <4>2. CASE c.left = <<S!SETTINGS, {"provider"}>>
        <5>1. Head(c.left) = S!SETTINGS /\ Tail(c.left) = <<{"provider"}>>
          BY <4>2, LeftsAre
        <5> QED BY <5>1, RowsAre DEF Linking
      <4>3. CASE c.left = <<{"provider"}>>
        <5>1. Head(c.left) = {"provider"} /\ Tail(c.left) = <<>>
          BY <4>3, LeftsAre
        <5> QED BY <5>1, RowsAre DEF Linking
      <4> QED BY <1>2, <3>1, <4>1, <4>2, <4>3 DEF Linking
    <3> QED BY <2>10, <2>11, <2>12, <2>14, <3>1, <3>2
  <2>17. ASSUME c.then = "up", ~production
         PROVE  Seeding(b)
    <3>1. Seeding(c)
      BY <1>2, <2>17 DEF BootSound
    <3>2. ~Set(c, "ads") /\ (Set(c, "stock") => Set(b, "stock"))
      BY <1>2, <2>11, <2>14, <3>1 DEF Seeding
    <3>3. c.left \in {S!_seed_all} \cup Seeded \cup Keeping \cup {<<S!ADS>>}
      BY <1>2, <3>1 DEF Seeding, Last
    <3>4. CASE c.left = S!_seed_all
      <4>1. b.left \in Seeded /\ "ads" \notin Head(c.left)
        BY <2>10, <3>4, LeftsAre, RowsAre DEF Seeded
      <4>2. "stock" \in new
        BY <1>2, <2>1, <3>1, <3>4 DEF Seeding
      <4>3. Set(b, "stock")
        BY <2>11, <2>14, <4>2
      <4>4. "ads" \notin new
        BY <2>12, <4>1, Zenon
      <4>5. ~Set(b, "ads")
        BY <2>11, <2>14, <3>2, <4>4
      <4> QED BY <2>10, <4>1, <4>3, <4>5, LeftsApart DEF Seeding
    <3>5. CASE c.left \in Seeded
      <4>1. b.left \in Seeded \cup {<<S!ADS>>} /\ "ads" \notin Head(c.left)
        <5>1. CASE c.left = <<{"coupon"}, S!SETTINGS, S!ADS>>
          <6>1. Head(c.left) = {"coupon"} /\ b.left = <<S!SETTINGS, S!ADS>>
            BY <2>10, <5>1, LeftsAre, Zenon
          <6>2. b.left \in Seeded
            BY <6>1, Zenon DEF Seeded
          <6> QED BY <6>1, <6>2
        <5>2. CASE c.left = <<S!SETTINGS, S!ADS>>
          <6>1. Head(c.left) = S!SETTINGS /\ b.left = <<S!ADS>>
            BY <2>10, <5>2, LeftsAre, Zenon
          <6> QED BY <6>1, RowsAre
        <5> QED BY <3>5, <5>1, <5>2 DEF Seeded
      <4>2. Set(b, "stock") /\ ~Set(b, "ads")
        <5>1. Set(c, "stock")
          BY <3>1, <3>5, Zenon DEF Seeding
        <5>2. Set(b, "stock")
          BY <3>2, <5>1, Zenon
        <5>3. "ads" \notin new
          BY <2>12, <4>1, Zenon
        <5>4. Set(b, "ads") <=> "ads" \in new \/ Set(c, "ads")
          BY <2>11, <2>14, Zenon
        <5> QED BY <3>2, <5>2, <5>3, <5>4, Zenon
      <4>3. <<S!ADS>> \in Last /\ <<S!ADS>> # <<>>
        BY DEF Last
      <4>4. b.left \notin Keeping /\ b.left # S!_seed_all /\ b.left # <<>>
            /\ b.left \in {S!_seed_all} \cup Seeded \cup Keeping \cup Last
        BY <4>1, <4>3, LeftsApart
      <4> QED BY <2>10, <4>2, <4>4 DEF Seeding
    <3>6. CASE c.left \in Keeping
      <4>1. b.left \in Keeping \cup {<<S!ADS>>} /\ "ads" \notin Head(c.left)
        <5>1. CASE c.left = S!KeepUp
          <6>1. Head(c.left) = {"provider"} /\ b.left = <<S!SETTINGS, {"coupon"}, S!ADS>>
            BY <2>10, <5>1, LeftsAre
          <6> QED BY <6>1 DEF Keeping
        <5>2. CASE c.left = <<S!SETTINGS, {"coupon"}, S!ADS>>
          <6>1. Head(c.left) = S!SETTINGS /\ b.left = <<{"coupon"}, S!ADS>>
            BY <2>10, <5>2, LeftsAre
          <6> QED BY <6>1, RowsAre DEF Keeping
        <5>3. CASE c.left = <<{"coupon"}, S!ADS>>
          <6>1. Head(c.left) = {"coupon"} /\ b.left = <<S!ADS>>
            BY <2>10, <5>3, LeftsAre
          <6> QED BY <6>1
        <5> QED BY <3>6, <5>1, <5>2, <5>3 DEF Keeping
      <4>2. There("stock") /\ ~Set(b, "ads")
        BY <2>11, <2>12, <2>14, <3>1, <3>2, <3>6, <4>1 DEF Seeding
      <4>3. <<S!ADS>> \in Last /\ <<S!ADS>> # <<>>
        BY DEF Last
      <4>4. b.left \notin Seeded /\ b.left # S!_seed_all /\ b.left # <<>>
            /\ b.left \in {S!_seed_all} \cup Seeded \cup Keeping \cup Last
        BY <4>1, <4>3, LeftsApart
      <4> QED BY <2>10, <4>2, <4>4 DEF Seeding
    <3>7. CASE c.left = <<S!ADS>>
      <4>1. b.left = <<>> /\ Head(c.left) = {"ads"} /\ <<>> \in Last /\ <<S!ADS>> \in Last
        BY <2>10, <3>7, LeftsAre, RowsAre DEF Last
      <4>2. "ads" \in c.add <=> Set(c, "stock")
        BY <1>2, <3>1, <3>7 DEF Seeding
      <4>3. "ads" \notin c.sync
        BY <1>2 DEF BootSound
      <4>4. Set(b, "stock") <=> Set(c, "stock")
        BY <2>11, <2>12, <2>14, <4>1
      <4>5. Set(b, "ads") <=> Set(b, "stock")
        BY <2>1, <2>11, <2>14, <3>2, <4>2, <4>3, <4>4
      <4>6. There("stock") \/ Set(b, "stock")
        BY <3>1, <3>7, <4>1, <4>4 DEF Seeding
      <4>7. Set(b, "ads") => b.wrote["ads"] = 1
        BY <2>5, <2>10, <2>11, <2>14, <2>21, <3>2
      <4> QED BY <2>10, <4>1, <4>5, <4>6, <4>7, LeftsApart DEF Seeding
    <3> QED BY <3>3, <3>4, <3>5, <3>6, <3>7
  <2>18. BootSound(b)
    <3>1. c.then \in {"count", "up"} /\ production \in BOOLEAN
      BY <1>2 DEF BootType, BootInv
    <3>2. b.wrote["stock"] # S!Falaron
      <4>1. c.wrote["stock"] # S!Falaron
        BY <1>2 DEF BootSound
      <4> QED BY <2>10, <2>14, <2>20, <2>21, <4>1, RowsAre
    <3>3. Set(b, "brand") => ~There("brand") \/ b.wrote["brand"] = S!Falaron
      <4>1. "brand" \in S!Rows /\ "brand" \in S!Keyed
        BY RowsAre
      <4>2. CASE "brand" \in c.add
        BY <1>5, <4>1, <4>2 DEF There
      <4>3. CASE "brand" \in c.sync \ c.add
        BY <2>10, <2>21, <4>3
      <4>4. CASE "brand" \notin new
        <5>1. wrote["brand"] = c.wrote["brand"] /\ (Set(b, "brand") <=> Set(c, "brand"))
          BY <2>11, <2>20, <4>1, <4>4
        <5> QED BY <1>2, <2>10, <5>1 DEF BootSound
      <4> QED BY <2>1, <4>2, <4>3, <4>4
    <3> QED BY <2>9, <2>10, <2>13, <2>15, <2>16, <2>17, <3>1, <3>2, <3>3 DEF BootSound
  <2>19. ASSUME NEW r \in S!Keyed, Set(b, r), ~Set(c, r), NEW q \in Procs \ {p}
         PROVE  ~Set(boot[q], r)
    <3>1. r \in S!Rows
      BY RowsAre
    <3>2. r \in new
      BY <2>11, <2>19, <3>1
    <3>3. new \cap S!LockedFor(p) = {}
      BY <1>1, <2>1 DEF S!Flush
    <3>4. r \notin S!Written(q) \cap S!Keyed
      BY <2>19, <3>2, <3>3 DEF S!LockedFor
    <3> QED BY <2>19, <3>1, <3>4 DEF S!Written, Set
  <2> QED BY <1>1, <1>3, <2>4, <2>18, <2>19, BootGoes
<1> QED BY <1>4, <1>5

\* The end of a transaction makes its rows everybody's.
LEMMA CommitKeepsInv ==
    ASSUME BootInv, NEW p \in Procs, S!Commit(p)
    PROVE  BootInv'
<1>1. PICK c : c = boot[p]
  OBVIOUS
<1>2. /\ c \in BootType /\ BootSound(c) /\ c.pc = "read" /\ c.left = <<>>
      /\ UNCHANGED <<production, word>>
  BY <1>1 DEF BootInv, S!Commit
<1>3. PICK b : b = IF c.then = "up" THEN [S!Down EXCEPT !.pc = "up"]
                   ELSE [c EXCEPT !.pc = "count", !.wrote = S!Unset]
  OBVIOUS
<1>4. boot' = [boot EXCEPT ![p] = b]
  BY <1>1, <1>3 DEF S!Commit
<1>5. S!Unset \in [S!Rows -> {S!Missing, 0, 1, S!Falaron}] /\ \A r \in S!Rows : S!Unset[r] = S!Missing
  BY DEF S!Unset
<1>6. b \in BootType /\ b.pc \in {"count", "up"} /\ b.wrote = S!Unset
  <2>1. S!Down \in BootType /\ S!Down.wrote = S!Unset
    BY DownSound DEF BootSound
  <2>2. CASE c.then = "up"
    BY <1>3, <2>1, <2>2 DEF BootType
  <2>3. CASE c.then # "up"
    BY <1>2, <1>3, <1>5, <2>3 DEF BootType
  <2> QED BY <2>2, <2>3
<1>7. \A r \in S!Rows : ~Set(b, r)
  BY <1>5, <1>6 DEF Set
<1>8. BootSound(b)
  <2>1. b.wrote["stock"] # S!Falaron
    BY <1>7, RowsAre DEF Set
  <2> QED BY <1>6, <1>7, <2>1, RowsAre DEF BootSound
<1>9. /\ "stock" \in S!Rows /\ "ads" \in S!Rows /\ Owned \subseteq S!Rows /\ "stock" \in Owned
      /\ S!Keyed \subseteq S!Rows
  BY RowsAre DEF Owned
<1>10. /\ Set(c, "ads") <=> Set(c, "stock")
       /\ Set(c, "ads") => c.wrote["ads"] = 1
       /\ production => ~Set(c, "stock")
  <2>1. c.then \in {"count", "up"} /\ production \in BOOLEAN
    BY <1>2 DEF BootType, BootInv
  <2>2. CASE c.then = "count"
    BY <1>2, <1>9, <2>2 DEF BootSound
  <2>3. CASE c.then = "up" /\ production
    BY <1>2, <2>3 DEF BootSound
  <2>4. CASE c.then = "up" /\ ~production
    <3>1. Seeding(c)
      BY <1>2, <2>4 DEF BootSound
    <3> QED BY <1>2, <2>4, <3>1 DEF Seeding
  <2> QED BY <2>1, <2>2, <2>3, <2>4
<1>11. \A r \in Owned : Set(c, r) => ~There(r)
  BY <1>2 DEF BootSound
<1>12. fixture \in [S!Rows -> Int] /\ c.wrote \in [S!Rows -> {S!Missing, 0, 1, S!Falaron}]
  BY <1>2 DEF BootInv, BootType
<1>13. /\ DOMAIN fixture' = S!Rows
       /\ \A r \in S!Rows : fixture'[r] = IF ~Set(c, r) THEN fixture[r]
                                          ELSE IF r = "ads" /\ There(r) THEN fixture[r] + c.wrote[r]
                                          ELSE c.wrote[r]
  BY <1>1 DEF S!Commit, S!Written, Set, There
<1>14. \A r \in S!Rows \ {"ads"} : /\ ~Set(c, r) => fixture'[r] = fixture[r]
                                   /\ Set(c, r) => fixture'[r] = c.wrote[r]
  BY <1>13
<1>15. fixture' \in [S!Rows -> Int]
  <2>1. ASSUME NEW r \in S!Rows
        PROVE  fixture'[r] \in Int
    <3>1. fixture[r] \in Int /\ c.wrote[r] \in Int
      BY <1>12, RowsAre
    <3> QED BY <1>13, <3>1
  <2>2. fixture' = [r \in S!Rows |-> fixture'[r]]
    BY DEF S!Commit
  <2> QED BY <2>1, <2>2
<1>16. There("ads") <=> There("stock")
  BY DEF BootInv
<1>17. fixture'["ads"] = IF Set(c, "ads") THEN 1 ELSE fixture["ads"]
  BY <1>9, <1>10, <1>11, <1>13, <1>16
<1>18. c.wrote["stock"] \in {S!Missing, 0, 1}
  BY <1>2, <1>9, <1>12 DEF BootSound
<1>19. /\ fixture'["stock"] = IF Set(c, "stock") THEN c.wrote["stock"] ELSE fixture["stock"]
       /\ Set(c, "stock") => c.wrote["stock"] \in {0, 1}
  BY <1>9, <1>14, <1>18 DEF Set
<1>20. /\ fixture'["stock"] \in {S!Missing, 0, 1} /\ fixture'["ads"] \in {S!Missing, 1}
       /\ There("stock") => There("stock")'
       /\ There("ads")' <=> There("stock")'
       /\ production => ~There("stock")'
  BY <1>10, <1>16, <1>17, <1>19 DEF BootInv, There, S!Missing
<1>21. \A r \in S!Keyed, q \in Procs : q # p /\ Set(boot[q], r) => ~Set(c, r)
  BY <1>1 DEF BootInv
<1>22. ASSUME NEW q \in Procs
       PROVE  BootSound(boot[q])'
  <2>1. PICK d : d = boot'[q]
    OBVIOUS
  <2>2. BootSound(d) /\ \A r \in Owned \cup {"brand"} : Set(d, r) => fixture'[r] = fixture[r]
    <3>1. CASE q = p
      <4>1. d = b
        BY <1>4, <2>1, <3>1 DEF BootInv
      <4> QED BY <1>7, <1>8, <1>9, <4>1, RowsAre
    <3>2. CASE q # p
      <4>1. d = boot[q]
        BY <1>4, <2>1, <3>2
      <4>2. ASSUME NEW r \in Owned \cup {"brand"}, Set(d, r)
            PROVE  fixture'[r] = fixture[r]
        <5>1. r \in S!Keyed /\ r \in S!Rows \ {"ads"}
          BY RowsAre
        <5>2. ~Set(c, r)
          BY <1>21, <3>2, <4>1, <4>2, <5>1
        <5> QED BY <1>14, <5>1, <5>2
      <4> QED BY <4>1, <4>2 DEF BootInv
    <3> QED BY <3>1, <3>2
  <2>3. BootSound(d)'
    BY <1>2, <1>20, <2>2, BootStable
  <2> QED BY <2>1, <2>3
<1>23. boot' \in [Procs -> BootType]
  BY <1>4, <1>6 DEF BootInv
<1>24. ASSUME NEW q \in Procs, NEW s \in Procs, NEW r \in S!Keyed,
              Set(boot'[q], r), Set(boot'[s], r)
       PROVE  q = s
  <2>1. boot'[p] = b /\ \A t \in Procs \ {p} : boot'[t] = boot[t]
    BY <1>4 DEF BootInv
  <2>2. q # p /\ s # p
    BY <1>7, <1>9, <1>24, <2>1
  <2>3. Set(boot[q], r) /\ Set(boot[s], r)
    BY <1>24, <2>1, <2>2
  <2> QED BY <2>3 DEF BootInv
<1>25. (\A q, s \in Procs, r \in S!Keyed : Set(boot[q], r) /\ Set(boot[s], r) => q = s)'
  BY <1>24 DEF Set
<1>26. (\A r \in Owned : word[r] # S!Missing => fixture[r] = word[r])'
  <2>1. Owned' = Owned
    BY <1>2 DEF Owned
  <2>2. ASSUME NEW r \in Owned, word[r] # S!Missing
        PROVE  fixture'[r] = word[r]
    <3>1. fixture[r] = word[r] /\ There(r)
      BY <2>2 DEF BootInv, There
    <3>2. ~Set(c, r) /\ r \in S!Rows \ {"ads"}
      BY <1>11, <3>1, RowsAre
    <3> QED BY <1>14, <3>1, <3>2
  <2> QED BY <1>2, <2>1, <2>2
<1>27. BootType' = BootType
  BY DEF BootType
<1>28. (word["brand"] # S!Missing => fixture["brand"] \in {word["brand"], S!Falaron})'
  <2>1. "brand" \in S!Rows \ {"ads"}
    BY RowsAre
  <2>2. CASE Set(c, "brand")
    <3>1. There("brand") => fixture'["brand"] = S!Falaron
      BY <1>2, <1>14, <2>1, <2>2 DEF BootSound
    <3>2. word["brand"] # S!Missing => There("brand")
      BY RowsAre DEF BootInv, There
    <3> QED BY <1>2, <3>1, <3>2 DEF S!Falaron
  <2>3. CASE ~Set(c, "brand")
    <3>1. fixture'["brand"] = fixture["brand"]
      BY <1>14, <2>1, <2>3
    <3> QED BY <1>2, <3>1 DEF BootInv
  <2> QED BY <2>2, <2>3
<1> QED BY <1>2, <1>15, <1>20, <1>22, <1>23, <1>25, <1>26, <1>27, <1>28 DEF BootInv

\* The operator and the customers write rows that nobody is writing.
LEMMA MakeKeepsInv ==
    ASSUME BootInv, NEW r \in S!Rows \ {"schema", "ads"}, NEW v \in Int, v # S!Missing,
           r = "stock" => There("stock") /\ v \in {0, 1}, S!Make(r, v)
    PROVE  BootInv'
<1>1. /\ fixture' = [fixture EXCEPT ![r] = v] /\ UNCHANGED <<production, boot>>
      /\ \A p \in Procs : ~Set(boot[p], r)
  BY DEF S!Make, S!Unlocked, S!Written, Set
<1>2. word' = IF r = "provider" THEN word ELSE [word EXCEPT ![r] = v]
  BY DEF S!Make
<1>3. fixture \in [S!Rows -> Int] /\ word \in [S!Rows -> Int] /\ "stock" \in S!Rows /\ "ads" \in S!Rows
  BY RowsAre DEF BootInv
<1>4. /\ fixture' \in [S!Rows -> Int] /\ word' \in [S!Rows -> Int]
      /\ fixture'[r] = v /\ \A s \in S!Rows \ {r} : fixture'[s] = fixture[s]
  BY <1>1, <1>2, <1>3
<1>5. There("stock")' <=> There("stock")
  BY <1>3, <1>4 DEF There
<1>6. fixture'["stock"] \in {S!Missing, 0, 1} /\ fixture'["ads"] = fixture["ads"]
  BY <1>3, <1>4 DEF BootInv
<1>7. Owned' = Owned /\ Owned \subseteq S!Rows /\ "provider" \notin Owned
  BY <1>1, RowsAre DEF Owned
<1>8. ASSUME NEW p \in Procs
      PROVE  BootSound(boot[p])'
  <2>1. PICK c : c = boot[p]
    OBVIOUS
  <2>2. BootSound(c) /\ \A s \in Owned \cup {"brand"} : Set(c, s) => fixture'[s] = fixture[s]
    BY <1>1, <1>4, <1>7, <2>1, RowsAre DEF BootInv
  <2>3. BootSound(c)'
    BY <1>1, <1>5, <2>2, BootStable
  <2> QED BY <1>1, <2>1, <2>3
<1>9. ASSUME NEW s \in Owned, word'[s] # S!Missing
      PROVE  fixture'[s] = word'[s]
  <2>1. CASE s = r
    BY <1>2, <1>3, <1>4, <1>7, <2>1
  <2>2. CASE s # r
    BY <1>2, <1>3, <1>4, <1>7, <1>9, <2>2 DEF BootInv
  <2> QED BY <2>1, <2>2
<1>10. (\A q, s \in Procs, k \in S!Keyed : Set(boot[q], k) /\ Set(boot[s], k) => q = s)'
  BY <1>1 DEF BootInv, Set
<1>11. BootType' = BootType
  BY DEF BootType
<1>12. (There("ads") <=> There("stock"))' /\ (production => ~There("stock"))'
  BY <1>1, <1>5, <1>6 DEF BootInv, There
<1>13. boot' \in [Procs -> BootType] /\ production' \in BOOLEAN
  BY <1>1 DEF BootInv
<1>14. fixture'["ads"] \in {S!Missing, 1}
  BY <1>6 DEF BootInv
<1>15. word'["brand"] # S!Missing => fixture'["brand"] \in {word'["brand"], S!Falaron}
  <2>1. "brand" \in S!Rows
    BY RowsAre
  <2>2. CASE r = "brand"
    BY <1>2, <1>3, <1>4, <2>2
  <2>3. CASE r # "brand"
    BY <1>2, <1>3, <1>4, <2>1, <2>3 DEF BootInv
  <2> QED BY <2>2, <2>3
<1> QED BY <1>4, <1>6, <1>7, <1>8, <1>9, <1>10, <1>11, <1>12, <1>13, <1>14, <1>15 DEF BootInv

LEMMA BootUnchanged ==
    ASSUME BootInv, UNCHANGED <<production, fixture, boot, word>>
    PROVE  BootInv'
<1>1. ASSUME NEW p \in Procs
      PROVE  BootSound(boot[p])'
  <2>1. PICK c : c = boot[p]
    OBVIOUS
  <2>2. BootSound(c)'
    BY <2>1, BootStable DEF BootInv, There
  <2> QED BY <2>1, <2>2
<1>2. BootType' = BootType /\ Owned' = Owned /\ \A r : There(r)' <=> There(r)
  BY DEF BootType, Owned, There
<1>3. (\A q, s \in Procs, k \in S!Keyed : Set(boot[q], k) /\ Set(boot[s], k) => q = s)'
  BY DEF BootInv, Set
<1> QED BY <1>1, <1>2, <1>3 DEF BootInv

LEMMA BootStep ==
    ASSUME BootInv, S!Next
    PROVE  BootInv'
<1>1. ASSUME NEW p \in Procs,
             S!Begin(p) \/ S!Count(p) \/ S!Read(p) \/ S!Flush(p) \/ S!Commit(p) \/ S!Exit(p)
      PROVE  BootInv'
  <2>1. CASE S!Exit(p)
    BY <2>1, ExitKeepsInv DEF S!Exit
  <2> QED BY <1>1, <2>1, BeginKeepsInv, CountKeepsInv, ReadKeepsInv, FlushKeepsInv, CommitKeepsInv
<1>2. {"markup", "terms", "brand", "provider", "stock", "coupon"} = S!Rows \ {"schema", "ads"}
  BY RowsAre
<1>3. CASE S!SetSetting
  <2>1. PICK r \in S!SETTINGS, v \in {2, S!Velora} : S!Make(r, v)
    BY <1>3 DEF S!SetSetting
  <2>2. v \in Int /\ v # S!Missing
    BY RowsAre DEF S!Velora
  <2> QED BY <1>2, <2>1, <2>2, RowsAre, MakeKeepsInv
<1>4. CASE S!RotateKey
  BY <1>2, <1>4, RowsAre, MakeKeepsInv DEF S!RotateKey
<1>5. CASE S!ToggleStock
  <2>1. fixture["stock"] \in {0, 1} /\ There("stock") /\ S!Make("stock", 1 - fixture["stock"])
    BY <1>5 DEF S!ToggleStock, There, BootInv
  <2>2. 1 - fixture["stock"] \in {0, 1}
    BY <2>1
  <2> QED BY <1>2, <2>1, <2>2, RowsAre, MakeKeepsInv
<1>6. CASE S!UseCoupon
  <2>1. fixture["coupon"] \in Int /\ fixture["coupon"] >= 0 /\ S!Make("coupon", fixture["coupon"] + 1)
    BY <1>6, RowsAre DEF S!UseCoupon, BootInv
  <2>2. fixture["coupon"] + 1 \in Int /\ fixture["coupon"] + 1 # -1
    BY <2>1
  <2> QED BY <1>2, <2>1, <2>2, RowsAre, MakeKeepsInv
<1> QED BY <1>1, <1>3, <1>4, <1>5, <1>6 DEF S!Next

\* Boots keep what the operator and the customers have made of the rows since, except that
\* the links follow the environment in production and a brand name may become the new one,
\* and place the ads once, however they overlap or break off (seed.py:338-452).
THEOREM OperatorsKept == Spec => []OperatorKept
<1>1. Init => BootInv
  <2> SUFFICES ASSUME Init
               PROVE  BootInv
    OBVIOUS
  <2>1. /\ production \in BOOLEAN /\ fixture = S!Unset /\ word = S!Unset
        /\ boot = [p \in Procs |-> S!Down]
    BY DEF Init, S!Init
  <2>2. S!Unset \in [S!Rows -> Int] /\ \A r \in S!Rows : S!Unset[r] = S!Missing
    BY DEF S!Unset, S!Missing
  <2>3. "stock" \in S!Rows /\ "ads" \in S!Rows /\ Owned \subseteq S!Rows /\ S!Keyed \subseteq S!Rows
    BY RowsAre
  <2>4. S!Down \in BootType
    BY DownSound DEF BootSound
  <2> QED BY <2>1, <2>2, <2>3, <2>4, DownSound, RowsAre DEF BootInv, There
<1>2. BootInv /\ [Next]_vars => BootInv'
  <2> SUFFICES ASSUME BootInv, [Next]_vars
               PROVE  BootInv'
    OBVIOUS
  <2>1. CASE UNCHANGED bootVars
    <3>1. UNCHANGED <<production, fixture, boot, word>>
      BY <2>1 DEF bootVars
    <3> QED BY <3>1, BootUnchanged
  <2> QED BY <2>1, OneScene, BootStep
<1>3. BootInv => OperatorKept
  BY DEF BootInv, OperatorKept, S!OperatorKept, Owned
<1> QED BY <1>1, <1>2, <1>3, PTL DEF Spec

------------------------------------------------------------------------------
\* AdminDesk

Kinds == {"user", "provider", "kill switch", "service", "category"}
Handlers == D!TextForms \cup {"coupontype", "switch"}
TaskType == [a : Admins \cup {D!None}, h : Handlers \cup {D!None},
             at : {"idle", "note", "state", "flip", "work", "clear"},
             about : Things \cup {D!None} \cup (Kinds \X Things), seen : BOOLEAN]
AskType == (Handlers \cup {D!None}) \X (Things \cup {D!None} \cup (Kinds \X Things))
ChatType == [state : Handlers \cup {D!None}, data : [D!Keys -> Things \cup {D!None}]]

\* The forms whose text is taken for what the prompt was about.
Bound == D!TextForms \ {"couponvalue", "couponexpiry"}

\* What a form finds in a conversation.
Finds(c, h) == IF D!Key(h) = D!None THEN D!None ELSE c.data[D!Key(h)]

\* What a handler has in hand, as far as the conversation of its admin goes.
TaskSound(x, c, ask) ==
    /\ x.at # "idle" => x.a \in Admins
    /\ x.at = "note" => x.h \in D!Aimed \cup {"starprice", "coupontype"} /\ x.about \in Things
    /\ x.at = "state" =>
          /\ x.h \in D!TextForms \cup {"coupontype"}
          /\ x.h \in Bound => x.about = Finds(c, x.h)
    /\ x.at = "work" => x.h \in D!TextForms /\ (x.h \in Bound => ask = <<x.h, x.about>>)

\* Between a note and its state a conversation is about two things.
ChatSound(a) ==
    \/ chat[a].state \in Bound => asked[a] = <<chat[a].state, Finds(chat[a], chat[a].state)>>
    \/ \E t \in Tasks : task[t].at = "state" /\ task[t].a = a

DeskInv ==
    /\ task \in [Tasks -> TaskType] /\ chat \in [Admins -> ChatType]
    /\ asked \in [Admins -> AskType]
    /\ \A s, t \in Tasks : task[s].at # "idle" /\ task[t].at # "idle" /\ task[s].a = task[t].a => s = t
    /\ \A t \in Tasks : TaskSound(task[t], chat[task[t].a], asked[task[t].a])
    /\ \A a \in Admins : ChatSound(a)
    /\ D!AsAsked

\* One admin's turn: a task of the admin goes on, and the conversation with it.
Turns(t, a, x, c, k) ==
    /\ task' = [task EXCEPT ![t] = x] /\ chat' = [chat EXCEPT ![a] = c]
    /\ asked' = [asked EXCEPT ![a] = k]
    /\ x \in TaskType /\ c \in ChatType /\ k \in AskType
    /\ x.at # "idle" => x.a = a
    /\ \A s \in Tasks \ {t} : task[s].at # "idle" => task[s].a # a
    /\ task[t].at # "idle" => task[t].a = a
    /\ TaskSound(x, c, k)
    /\ x.at = "state" \/ (c.state \in Bound => k = <<c.state, Finds(c, c.state)>>)

LEMMA Turn ==
    ASSUME DeskInv, D!AsAsked', NEW t \in Tasks, NEW a \in Admins, NEW x, NEW c, NEW k,
           Turns(t, a, x, c, k)
    PROVE  DeskInv'
<1> USE DEF Turns
<1>1. task' \in [Tasks -> TaskType] /\ chat' \in [Admins -> ChatType]
      /\ asked' \in [Admins -> AskType]
  BY DEF DeskInv
<1>2. task'[t] = x /\ chat'[a] = c /\ asked'[a] = k /\ \A s \in Tasks \ {t} : task'[s] = task[s]
  BY DEF DeskInv
<1>3. \A b \in Admins \ {a} : chat'[b] = chat[b] /\ asked'[b] = asked[b]
  BY DEF DeskInv
<1>4. ASSUME NEW r \in Tasks, NEW s \in Tasks, task'[r].at # "idle", task'[s].at # "idle",
             task'[r].a = task'[s].a
      PROVE  r = s
  <2>1. r # t /\ s # t => r = s
    BY <1>2, <1>4 DEF DeskInv
  <2>2. ~(r = t /\ s # t) /\ ~(s = t /\ r # t)
    BY <1>2, <1>4
  <2> QED BY <2>1, <2>2
<1>5. ASSUME NEW s \in Tasks
      PROVE  TaskSound(task'[s], chat'[task'[s].a], asked'[task'[s].a])
  <2>1. CASE s = t
    <3>1. x.at # "idle" => TaskSound(x, chat'[x.a], asked'[x.a])
      BY <1>2
    <3>2. x.at = "idle" => TaskSound(x, chat'[x.a], asked'[x.a])
      BY DEF TaskSound
    <3> QED BY <1>2, <2>1, <3>1, <3>2
  <2>2. CASE s # t
    <3>1. TaskSound(task[s], chat[task[s].a], asked[task[s].a]) /\ task'[s] = task[s]
      BY <1>2, <2>2 DEF DeskInv
    <3>2. CASE task[s].at = "idle"
      BY <3>1, <3>2 DEF TaskSound
    <3>3. CASE task[s].at # "idle"
      <4>1. task[s].a \in Admins \ {a}
        BY <2>2, <3>1, <3>3 DEF TaskSound
      <4> QED BY <1>3, <3>1, <4>1
    <3> QED BY <3>2, <3>3
  <2> QED BY <2>1, <2>2
<1>6. ASSUME NEW b \in Admins
      PROVE  ChatSound(b)'
  <2>1. CASE b = a
    <3>1. x.at = "state" => x.a = a
      OBVIOUS
    <3>2. CASE x.at = "state"
      BY <1>2, <2>1, <3>1, <3>2 DEF ChatSound
    <3>3. CASE c.state \in Bound => k = <<c.state, Finds(c, c.state)>>
      <4>1. chat'[b] = c /\ asked'[b] = k
        BY <1>2, <2>1
      <4> QED BY <3>3, <4>1 DEF ChatSound, Finds
    <3> QED BY <3>2, <3>3
  <2>2. CASE b # a
    <3>1. chat'[b] = chat[b] /\ asked'[b] = asked[b]
      BY <1>3, <2>2
    <3>2. ASSUME NEW s \in Tasks, task[s].at = "state", task[s].a = b
          PROVE  task'[s].at = "state" /\ task'[s].a = b
      BY <1>2, <2>2, <3>2
    <3>3. ChatSound(b)
      BY DEF DeskInv
    <3> QED BY <3>1, <3>2, <3>3 DEF ChatSound, Finds
  <2> QED BY <2>1, <2>2
<1> QED BY <1>1, <1>4, <1>5, <1>6, Zenon DEF DeskInv

LEMMA HandlersAre ==
    /\ D!Aimed \subseteq Bound /\ D!Plain \subseteq Bound /\ "starprice" \in Bound
    /\ Bound \subseteq D!TextForms /\ D!TextForms \subseteq Handlers
    /\ \A h \in D!Aimed \cup {"starprice", "coupontype"} : D!Key(h) \in D!Keys /\ D!Key(h) # D!None
    /\ \A h \in Handlers : D!Key(h) \in D!Keys \cup {D!None}
    /\ \A h \in D!Plain : D!Key(h) = D!None
    /\ D!None \notin Bound /\ {"coupontype", "couponvalue", "couponexpiry"} \cap Bound = {}
    /\ Bound = D!Aimed \cup D!Plain \cup {"starprice"}
BY DEF D!Aimed, D!Plain, Bound, D!TextForms, Handlers, D!Key, D!Keys, D!None

LEMMA DeskUnchanged == DeskInv /\ UNCHANGED deskVars => DeskInv'
<1> SUFFICES ASSUME DeskInv, UNCHANGED <<chat, task, flag, asked, last, taps>>
             PROVE  DeskInv'
  BY DEF deskVars
<1>1. D!AsAsked'
  BY DEF DeskInv, D!AsAsked
<1>2. \A a \in Admins : ChatSound(a)'
  BY DEF DeskInv, ChatSound, Finds
<1>3. \A t \in Tasks : TaskSound(task[t], chat[task[t].a], asked[task[t].a])'
  BY DEF DeskInv, TaskSound, Finds
<1> QED BY <1>1, <1>2, <1>3, Zenon DEF DeskInv

\* An update of an admin who has waited for the answer to the one before.
LEMMA Tapped ==
    ASSUME Serial, DeskInv, NEW t \in Tasks, NEW a \in Admins, D!Takes(t, a), UNCHANGED <<chat, asked, last>>,
           NEW x \in TaskType, x.a = a, task' = [task EXCEPT ![t] = x],
           TaskSound(x, chat[a], asked[a])
    PROVE  DeskInv'
<1>1. task[t].at = "idle" /\ \A s \in Tasks : task[s].a # a
  BY DEF D!Takes, D!Idle
<1>2. D!AsAsked'
  BY DEF DeskInv, D!AsAsked
<1>3. PICK c : c = chat[a]
  OBVIOUS
<1>4. PICK k : k = asked[a]
  OBVIOUS
<1>5. chat' = [chat EXCEPT ![a] = c] /\ asked' = [asked EXCEPT ![a] = k] /\ c \in ChatType
      /\ k \in AskType
  BY <1>3, <1>4 DEF DeskInv
<1>6. c.state \in Bound => k = <<c.state, Finds(c, c.state)>>
  BY <1>1, <1>3, <1>4 DEF DeskInv, ChatSound
<1>7. TaskSound(x, c, k)
  BY <1>3, <1>4
<1>8. Turns(t, a, x, c, k)
  BY <1>1, <1>5, <1>6, <1>7 DEF Turns
<1> QED BY <1>2, <1>8, Turn

LEMMA TapsKeepInv ==
    ASSUME Serial, DeskInv, NEW t \in Tasks, NEW a \in Admins,
           D!UserDesk(t, a) \/ D!ShopDesk(t, a) \/ D!Home(t, a) \/ D!Text(t, a)
    PROVE  DeskInv'
<1>1. ASSUME NEW forms \in SUBSET D!Aimed, D!Notes(t, a, forms)
      PROVE  DeskInv'
  <2>1. PICK h \in forms, y \in Things : task' = [task EXCEPT ![t] = D!Job(a, h, "note", y, FALSE)]
    BY <1>1 DEF D!Notes
  <2>2. D!Job(a, h, "note", y, FALSE) \in TaskType /\ D!Job(a, h, "note", y, FALSE).a = a
    BY HandlersAre DEF D!Job, TaskType
  <2>3. TaskSound(D!Job(a, h, "note", y, FALSE), chat[a], asked[a])
    BY DEF D!Job, TaskSound
  <2> QED BY <1>1, <2>1, <2>2, <2>3, Tapped DEF D!Notes
<1>2. ASSUME NEW h \in D!Plain, D!Prompts(t, a, h)
      PROVE  DeskInv'
  <2>1. D!Job(a, h, "state", D!None, FALSE) \in TaskType /\ D!Job(a, h, "state", D!None, FALSE).a = a
    BY HandlersAre DEF D!Job, TaskType
  <2>2. TaskSound(D!Job(a, h, "state", D!None, FALSE), chat[a], asked[a])
    BY HandlersAre DEF D!Job, TaskSound, Finds
  <2> QED BY <1>2, <2>1, <2>2, Tapped DEF D!Prompts
<1>3. CASE D!CouponType(t, a)
  <2>1. D!Job(a, "couponvalue", "state", D!None, FALSE) \in TaskType
        /\ D!Job(a, "couponvalue", "state", D!None, FALSE).a = a
    BY DEF D!Job, TaskType, Handlers, D!TextForms
  <2>2. TaskSound(D!Job(a, "couponvalue", "state", D!None, FALSE), chat[a], asked[a])
    BY DEF D!Job, TaskSound, Bound, D!TextForms
  <2> QED BY <1>3, <2>1, <2>2, Tapped DEF D!CouponType
<1>4. ASSUME NEW kind \in Kinds, NEW y \in Things, NEW seen \in BOOLEAN, D!Switches(t, a, <<kind, y>>, seen)
      PROVE  DeskInv'
  <2>1. D!Job(a, "switch", "flip", <<kind, y>>, seen) \in TaskType
        /\ D!Job(a, "switch", "flip", <<kind, y>>, seen).a = a
    BY DEF D!Job, TaskType, Handlers
  <2>2. TaskSound(D!Job(a, "switch", "flip", <<kind, y>>, seen), chat[a], asked[a])
    BY DEF D!Job, TaskSound
  <2> QED BY <1>4, <2>1, <2>2, Tapped DEF D!Switches
<1>5. ASSUME NEW kind \in Kinds, D!Turns(t, a, kind)
      PROVE  DeskInv'
  <2>1. PICK y \in Things : D!Switches(t, a, <<kind, y>>, <<kind, y>> \in flag)
    BY <1>5, Zenon DEF D!Turns
  <2>2. PICK seen : seen = (<<kind, y>> \in flag)
    OBVIOUS
  <2>3. D!Switches(t, a, <<kind, y>>, seen)
    BY <2>1, <2>2, Zenon
  <2>4. seen \in BOOLEAN
    BY <2>2
  <2> QED BY <1>4, <2>3, <2>4, Zenon
<1>6. CASE D!UserDesk(t, a)
  <2>1. CASE D!SearchUser(t, a)
    BY <1>2, <2>1 DEF D!SearchUser, D!Plain
  <2>2. CASE D!AskCredit(t, a)
    BY <1>1, <2>2 DEF D!AskCredit, D!Aimed
  <2>3. CASE D!AskDebit(t, a)
    BY <1>1, <2>3 DEF D!AskDebit, D!Aimed
  <2>4. CASE D!BanOrUnban(t, a)
    <3>1. PICK y \in Things, banned \in BOOLEAN : D!Switches(t, a, <<"user", y>>, ~banned)
      BY <2>4 DEF D!BanOrUnban
    <3>2. PICK seen : seen = ~banned
      OBVIOUS
    <3>3. D!Switches(t, a, <<"user", y>>, seen)
      BY <3>1, <3>2, Zenon
    <3>4. "user" \in Kinds
      BY DEF Kinds
    <3>5. seen \in BOOLEAN
      BY <3>2
    <3> QED BY <1>4, <3>3, <3>4, <3>5, Zenon
  <2> QED BY <1>6, <2>1, <2>2, <2>3, <2>4 DEF D!UserDesk
<1>7. CASE D!ShopDesk(t, a)
  <2>1. CASE D!AskService(t, a)
    BY <1>1, <2>1 DEF D!AskService, D!Aimed
  <2>2. CASE D!AskCategory(t, a)
    BY <1>1, <2>2 DEF D!AskCategory, D!Aimed
  <2>3. CASE D!ComposeBroadcast(t, a)
    BY <1>1, <2>3 DEF D!ComposeBroadcast, D!Aimed
  <2>4. CASE D!AddCategory(t, a) \/ D!FeatureService(t, a) \/ D!SetGlobal(t, a)
             \/ D!SetMargin(t, a) \/ D!NewCoupon(t, a)
    BY <1>2, <2>4 DEF D!AddCategory, D!FeatureService, D!SetGlobal, D!SetMargin, D!NewCoupon, D!Plain
  <2>5. CASE D!ToggleProvider(t, a) \/ D!ToggleService(t, a) \/ D!ToggleCategory(t, a)
             \/ D!ToggleKillSwitch(t, a)
    BY <1>5, <2>5 DEF D!ToggleProvider, D!ToggleService, D!ToggleCategory, D!ToggleKillSwitch, Kinds
  <2> QED BY <1>3, <1>7, <2>1, <2>2, <2>3, <2>4, <2>5 DEF D!ShopDesk
<1>8. CASE D!Home(t, a)
  <2>1. task[t] = D!Idle /\ \A s \in Tasks : task[s].a # a
    BY <1>8 DEF D!Home, D!Takes
  <2>2. task' = [task EXCEPT ![t] = D!Idle] /\ task[t].at = "idle" /\ D!Idle.at = "idle"
    BY <1>8, <2>1 DEF D!Home, DeskInv, D!Idle
  <2>3. D!Idle \in TaskType /\ D!NoChat \in ChatType /\ D!Nothing \in AskType
    BY DEF D!Idle, TaskType, D!NoChat, D!NoData, ChatType, D!Nothing, AskType
  <2>4. D!NoChat.state \notin Bound /\ TaskSound(D!Idle, D!NoChat, D!Nothing)
    BY HandlersAre DEF D!NoChat, TaskSound, D!Idle
  <2>5. Turns(t, a, D!Idle, D!NoChat, D!Nothing)
    BY <1>8, <2>1, <2>2, <2>3, <2>4 DEF D!Home, Turns
  <2>6. D!AsAsked'
    BY <1>8 DEF D!Home, DeskInv, D!AsAsked
  <2> QED BY <2>5, <2>6, Turn
<1>9. CASE D!Text(t, a)
  <2>1. PICK h : h = chat[a].state
    OBVIOUS
  <2>2. PICK x : x = D!Job(a, h, "work", Finds(chat[a], h), FALSE)
    OBVIOUS
  <2>3. task' = [task EXCEPT ![t] = x] /\ h \in D!TextForms /\ D!Takes(t, a)
        /\ UNCHANGED <<chat, asked, last>>
    BY <1>9, <2>1, <2>2 DEF D!Text, Finds
  <2>4. chat[a] \in ChatType
    BY DEF DeskInv
  <2>5. Finds(chat[a], h) \in Things \cup {D!None}
    BY <2>3, <2>4, HandlersAre DEF Finds, ChatType
  <2>6. x \in TaskType /\ x.a = a /\ x.at = "work" /\ x.h = h /\ x.about = Finds(chat[a], h)
    BY <2>2, <2>3, <2>5, HandlersAre DEF D!Job, TaskType
  <2>7. \A s \in Tasks : task[s].a # a
    BY <2>3 DEF D!Takes
  <2>8. h \in Bound => asked[a] = <<h, Finds(chat[a], h)>>
    BY <2>1, <2>7 DEF DeskInv, ChatSound
  <2>9. TaskSound(x, chat[a], asked[a])
    BY <2>3, <2>6, <2>8 DEF TaskSound
  <2> QED BY <2>3, <2>6, <2>9, Tapped
<1> QED BY <1>6, <1>7, <1>8, <1>9

\* A handler knows its admin, whose only task it is.
LEMMA Handled ==
    ASSUME DeskInv, NEW t \in Tasks, task[t].at # "idle"
    PROVE  /\ task[t] \in TaskType /\ task[t].a \in Admins
           /\ \A s \in Tasks \ {t} : task[s].at # "idle" => task[s].a # task[t].a
           /\ chat[task[t].a] \in ChatType /\ asked[task[t].a] \in AskType
           /\ TaskSound(task[t], chat[task[t].a], asked[task[t].a])
<1>1. TaskSound(task[t], chat[task[t].a], asked[task[t].a])
  BY DEF DeskInv
<1>2. task[t].a \in Admins /\ task[t] \in TaskType
  BY <1>1 DEF TaskSound, DeskInv
<1>3. \A s \in Tasks \ {t} : task[s].at # "idle" => task[s].a # task[t].a
  BY DEF DeskInv
<1> QED BY <1>1, <1>2, <1>3 DEF DeskInv

\* A handler's step that leaves the conversation alone.
LEMMA GoesOn ==
    ASSUME DeskInv, D!AsAsked', NEW t \in Tasks, task[t].at \notin {"idle", "state"},
           NEW x \in TaskType, task' = [task EXCEPT ![t] = x], UNCHANGED <<chat, asked>>,
           x.at # "idle" => x.a = task[t].a,
           TaskSound(x, chat[task[t].a], asked[task[t].a])
    PROVE  DeskInv'
<1>1. PICK a : a = task[t].a
  OBVIOUS
<1>2. PICK c : c = chat[a]
  OBVIOUS
<1>3. PICK k : k = asked[a]
  OBVIOUS
<1>4. /\ a \in Admins /\ c \in ChatType /\ k \in AskType
      /\ \A s \in Tasks \ {t} : task[s].at # "idle" => task[s].a # a
  BY <1>1, <1>2, <1>3, Handled
<1>5. chat' = [chat EXCEPT ![a] = c] /\ asked' = [asked EXCEPT ![a] = k]
  BY <1>2, <1>3 DEF DeskInv
<1>6. c.state \in Bound => k = <<c.state, Finds(c, c.state)>>
  <2>1. ~ \E s \in Tasks : task[s].at = "state" /\ task[s].a = a
    BY <1>4
  <2> QED BY <1>2, <1>3, <1>4, <2>1 DEF DeskInv, ChatSound
<1>7. TaskSound(x, c, k) /\ (x.at # "idle" => x.a = a)
  BY <1>1, <1>2, <1>3
<1>8. Turns(t, a, x, c, k)
  BY <1>1, <1>4, <1>5, <1>6, <1>7 DEF Turns
<1> QED BY <1>4, <1>8, Turn

LEMMA IdleSound == D!Idle \in TaskType /\ D!Idle.at = "idle" /\ \A c, k : TaskSound(D!Idle, c, k)
BY DEF D!Idle, TaskType, TaskSound

\* A form is carried out with what its admin was asked about.
LEMMA WorkKeepsInv ==
    ASSUME DeskInv, NEW t \in Tasks, NEW forms, "couponvalue" \notin forms, D!Works(t, forms)
    PROVE  DeskInv'
<1>1. PICK x : x = [task[t] EXCEPT !.at = "clear"]
  OBVIOUS
<1>2. /\ task[t].at = "work" /\ task' = [task EXCEPT ![t] = x] /\ UNCHANGED <<chat, asked>>
      /\ last' = [did |-> <<task[t].h, task[t].about>>, asked |-> asked[task[t].a]]
  BY <1>1 DEF D!Works, DeskInv, TaskType
<1>3. x \in TaskType /\ x.at = "clear" /\ x.a = task[t].a
  BY <1>1, <1>2, Handled DEF TaskType
<1>4. TaskSound(x, chat[task[t].a], asked[task[t].a])
  BY <1>2, <1>3, Handled DEF TaskSound
<1>5. D!AsAsked'
  <2>1. task[t].h \in D!TextForms /\ (task[t].h \in Bound => asked[task[t].a] = <<task[t].h, task[t].about>>)
    BY <1>2, Handled DEF TaskSound
  <2>2. task[t].h # "couponvalue"
    BY DEF D!Works
  <2>3. task[t].h # "couponexpiry" => task[t].h \in Bound
    BY <2>1, <2>2 DEF Bound
  <2>4. last'.did = <<task[t].h, task[t].about>> /\ last'.asked = asked[task[t].a]
        /\ last'.did[1] = task[t].h
    BY <1>2
  <2> QED BY <2>1, <2>3, <2>4 DEF D!AsAsked
<1> QED BY <1>2, <1>3, <1>4, <1>5, GoesOn

LEMMA HandlersKeepInv ==
    ASSUME DeskInv, NEW t \in Tasks,
           \/ D!Note(t) \/ D!SetState(t) \/ D!Flip(t) \/ D!Finish(t) \/ D!Refuse(t) \/ D!FailDebit(t)
           \/ D!Clear(t) \/ D!NameFeatured(t) \/ D!CouponCode(t) \/ D!CouponValue(t)
    PROVE  DeskInv'
<1>1. PICK a : a = task[t].a
  OBVIOUS
<1>2. PICK c : c = chat[a]
  OBVIOUS
<1>3. PICK k : k = asked[a]
  OBVIOUS
<1>4. UNCHANGED last => D!AsAsked'
  BY DEF DeskInv, D!AsAsked
<1>5. CASE D!Note(t)
  <2>1. PICK x : x = [task[t] EXCEPT !.at = "state"]
    OBVIOUS
  <2>2. PICK d : d = [c EXCEPT !.data = D!Noted(c.data, task[t].h, task[t].about)]
    OBVIOUS
  <2>3. task[t].at = "note" /\ UNCHANGED <<asked, last>>
    BY <1>5 DEF D!Note
  <2>4. /\ task[t] \in TaskType /\ a \in Admins /\ c \in ChatType /\ k \in AskType
        /\ \A s \in Tasks \ {t} : task[s].at # "idle" => task[s].a # a
        /\ task[t].h \in D!Aimed \cup {"starprice", "coupontype"} /\ task[t].about \in Things
    BY <1>1, <1>2, <1>3, <2>3, Handled DEF TaskSound
  <2>5. task' = [task EXCEPT ![t] = x] /\ chat' = [chat EXCEPT ![a] = d]
    BY <1>1, <1>2, <1>5, <2>1, <2>2 DEF D!Note
  <2>6. asked' = [asked EXCEPT ![a] = k]
    BY <1>3, <2>3 DEF DeskInv
  <2>7. x \in TaskType /\ x.at = "state" /\ x.a = a /\ x.h = task[t].h /\ x.about = task[t].about
    BY <1>1, <2>1, <2>4 DEF TaskType
  <2>8. D!Key(task[t].h) \in D!Keys /\ D!Key(task[t].h) # D!None
    BY <2>4, HandlersAre
  <2>9. d \in ChatType /\ d.data[D!Key(task[t].h)] = task[t].about
    BY <2>2, <2>4, <2>8 DEF ChatType, D!Noted
  <2>10. task[t].h \in D!TextForms \cup {"coupontype"}
    BY <2>4, HandlersAre
  <2>11. TaskSound(x, d, k)
    BY <2>4, <2>7, <2>8, <2>9, <2>10 DEF TaskSound, Finds
  <2>12. Turns(t, a, x, d, k)
    BY <1>1, <2>4, <2>5, <2>6, <2>7, <2>9, <2>11 DEF Turns
  <2> QED BY <1>4, <2>3, <2>4, <2>12, Turn
<1>6. CASE D!SetState(t)
  <2>1. PICK d : d = [c EXCEPT !.state = task[t].h]
    OBVIOUS
  <2>2. PICK new : new = <<task[t].h, task[t].about>>
    OBVIOUS
  <2>3. task[t].at = "state" /\ UNCHANGED last
    BY <1>6 DEF D!SetState
  <2>4. /\ task[t] \in TaskType /\ a \in Admins /\ c \in ChatType
        /\ \A s \in Tasks \ {t} : task[s].at # "idle" => task[s].a # a
        /\ task[t].h \in D!TextForms \cup {"coupontype"}
        /\ task[t].h \in Bound => task[t].about = Finds(c, task[t].h)
    BY <1>1, <1>2, <2>3, Handled DEF TaskSound
  <2>5. /\ task' = [task EXCEPT ![t] = D!Idle] /\ chat' = [chat EXCEPT ![a] = d]
        /\ asked' = [asked EXCEPT ![a] = new]
    BY <1>1, <1>2, <1>6, <2>1, <2>2 DEF D!SetState
  <2>6. d \in ChatType /\ d.state = task[t].h /\ d.data = c.data
    BY <2>1, <2>4, HandlersAre DEF ChatType, Handlers
  <2>7. new \in AskType
    BY <2>2, <2>4 DEF AskType, TaskType
  <2>8. d.state \in Bound => new = <<d.state, Finds(d, d.state)>>
    BY <2>2, <2>4, <2>6 DEF Finds
  <2>9. Turns(t, a, D!Idle, d, new)
    BY <1>1, <2>4, <2>5, <2>6, <2>7, <2>8, IdleSound DEF Turns
  <2> QED BY <1>4, <2>3, <2>4, <2>9, Turn
<1>7. CASE D!Clear(t)
  <2>1. task[t].at = "clear" /\ UNCHANGED last
    BY <1>7 DEF D!Clear
  <2>2. /\ a \in Admins
        /\ \A s \in Tasks \ {t} : task[s].at # "idle" => task[s].a # a
    BY <1>1, <2>1, Handled
  <2>3. /\ task' = [task EXCEPT ![t] = D!Idle] /\ chat' = [chat EXCEPT ![a] = D!NoChat]
        /\ asked' = [asked EXCEPT ![a] = D!Nothing]
    BY <1>1, <1>7 DEF D!Clear
  <2>4. D!NoChat \in ChatType /\ D!Nothing \in AskType
    BY DEF D!NoChat, D!NoData, ChatType, D!Nothing, AskType
  <2>5. D!NoChat.state \notin Bound
    BY HandlersAre DEF D!NoChat
  <2>6. Turns(t, a, D!Idle, D!NoChat, D!Nothing)
    BY <1>1, <2>2, <2>3, <2>4, <2>5, IdleSound DEF Turns
  <2> QED BY <1>4, <2>1, <2>2, <2>6, Turn
<1>8. CASE D!Flip(t) \/ D!Refuse(t)
  <2>1. /\ task[t].at \in {"flip", "work"} /\ task' = [task EXCEPT ![t] = D!Idle]
        /\ UNCHANGED <<chat, asked, last>>
    BY <1>8 DEF D!Flip, D!Refuse
  <2> QED BY <1>4, <2>1, IdleSound, GoesOn
<1>9. CASE D!Finish(t)
  BY <1>9, WorkKeepsInv DEF D!Finish, D!Credit, D!Debit, D!FindUser, D!SendBroadcast, D!SaveService,
     D!SaveCategory, D!CreateCategory, D!SaveGlobal, D!SaveMargin, D!SaveCoupon, D!SaveFeatured
<1>10. CASE D!FailDebit(t)
  <2>1. PICK x : x = [task[t] EXCEPT !.at = "clear"]
    OBVIOUS
  <2>2. task[t].at = "work" /\ task' = [task EXCEPT ![t] = x] /\ UNCHANGED <<chat, asked, last>>
    BY <1>10, <2>1 DEF D!FailDebit
  <2>3. x \in TaskType /\ x.at = "clear" /\ x.a = task[t].a
    BY <2>1, <2>2, Handled DEF TaskType
  <2>4. TaskSound(x, chat[task[t].a], asked[task[t].a])
    BY <2>2, <2>3, Handled DEF TaskSound
  <2> QED BY <1>4, <2>2, <2>3, <2>4, GoesOn
<1>11. ASSUME NEW h \in {"starprice", "coupontype"}, NEW y \in Things, task[t].at = "work",
              task' = [task EXCEPT ![t].h = h, ![t].at = "note", ![t].about = y],
              UNCHANGED <<chat, asked, last>>
       PROVE  DeskInv'
  <2>1. PICK x : x = [task[t] EXCEPT !.h = h, !.at = "note", !.about = y]
    OBVIOUS
  <2>2. task' = [task EXCEPT ![t] = x]
    BY <1>11, <2>1 DEF DeskInv
  <2>3. x \in TaskType /\ x.at = "note" /\ x.a = task[t].a /\ x.h = h /\ x.about = y
    BY <1>11, <2>1, Handled DEF TaskType, Handlers, D!TextForms
  <2>4. TaskSound(x, chat[task[t].a], asked[task[t].a])
    BY <1>11, <2>3, Handled DEF TaskSound
  <2> QED BY <1>4, <1>11, <2>2, <2>3, <2>4, GoesOn
<1>12. CASE D!NameFeatured(t)
  BY <1>11, <1>12 DEF D!NameFeatured
<1>13. CASE D!CouponCode(t)
  BY <1>11, <1>13 DEF D!CouponCode
<1>14. CASE D!CouponValue(t)
  <2>1. PICK x : x = [task[t] EXCEPT !.h = "couponexpiry", !.at = "state"]
    OBVIOUS
  <2>2. task[t].at = "work" /\ task' = [task EXCEPT ![t] = x] /\ UNCHANGED <<chat, asked, last>>
    BY <1>14, <2>1 DEF D!CouponValue, DeskInv
  <2>3. x \in TaskType /\ x.at = "state" /\ x.a = task[t].a /\ x.h = "couponexpiry"
    BY <2>1, <2>2, Handled DEF TaskType, Handlers, D!TextForms
  <2>4. TaskSound(x, chat[task[t].a], asked[task[t].a])
    BY <2>2, <2>3, Handled DEF TaskSound, Bound, D!TextForms
  <2> QED BY <1>4, <2>2, <2>3, <2>4, GoesOn
<1> QED BY <1>5, <1>6, <1>7, <1>8, <1>9, <1>10, <1>12, <1>13, <1>14

\* A form is carried out for what its admin was last asked about, when the admin waits
\* for each answer: nobody is credited because of what an abandoned form has left in the
\* conversation (admin_bot/handlers.py).
THEOREM DoneAsAsked ==
    ASSUME Serial
    PROVE  Spec => []AsAsked
<1>1. Init => DeskInv
  <2> SUFFICES ASSUME Init
               PROVE  DeskInv
    OBVIOUS
  <2>1. /\ chat = [a \in Admins |-> D!NoChat] /\ task = [t \in Tasks |-> D!Idle]
        /\ asked = [a \in Admins |-> D!Nothing]
        /\ last = [did |-> D!Nothing, asked |-> D!Nothing]
    BY DEF Init, D!Init
  <2>2. D!NoChat \in ChatType /\ D!Nothing \in AskType /\ D!NoChat.state \notin Bound
    BY HandlersAre DEF D!NoChat, D!NoData, ChatType, D!Nothing, AskType
  <2>3. \A a \in Admins : ChatSound(a)
    BY <2>1, <2>2 DEF ChatSound
  <2>4. \A t \in Tasks : TaskSound(task[t], chat[task[t].a], asked[task[t].a])
    BY <2>1, IdleSound
  <2>5. D!AsAsked
    BY <2>1 DEF D!AsAsked
  <2> QED BY <2>1, <2>2, <2>3, <2>4, <2>5, IdleSound DEF DeskInv
<1>2. DeskInv /\ [Next]_vars => DeskInv'
  <2> SUFFICES ASSUME DeskInv, [Next]_vars
               PROVE  DeskInv'
    OBVIOUS
  <2>1. CASE UNCHANGED deskVars
    BY <2>1, DeskUnchanged
  <2>2. CASE D!Next
    BY <2>2, TapsKeepInv, HandlersKeepInv DEF D!Next
  <2> QED BY <2>1, <2>2, OneScene
<1>3. DeskInv => AsAsked
  BY DEF DeskInv, AsAsked
<1> QED BY <1>1, <1>2, <1>3, PTL DEF Spec

------------------------------------------------------------------------------
\* Rates

\* quantize stays within a half of the quotient.
LEMMA HalfEvenNear ==
    ASSUME NEW n \in Int, NEW d \in Nat \ {0}
    PROVE  /\ Q!HalfEven(n, d) \in Int
           /\ 2 * (d * Q!HalfEven(n, d)) <= 2 * n + d
           /\ 2 * n - d <= 2 * (d * Q!HalfEven(n, d))
<1>1. PICK q : q = n \div d
  OBVIOUS
<1>2. PICK r : r = n % d
  OBVIOUS
<1>3. q \in Int /\ r \in 0 .. (d - 1) /\ n = d * q + r
  BY <1>1, <1>2
<1>4. PICK h : h = Q!HalfEven(n, d)
  OBVIOUS
<1>5. \/ h = q + 1 /\ 2 * r >= d
      \/ h = q /\ 2 * r <= d
  <2>1. h = IF 2 * r > d \/ (2 * r = d /\ q % 2 = 1) THEN q + 1 ELSE q
    BY <1>1, <1>2, <1>4 DEF Q!HalfEven
  <2> QED BY <1>3, <2>1
<1>6. PICK e : e = d * q
  OBVIOUS
<1>7. e \in Int /\ n = e + r /\ d * (q + 1) = e + d
  BY <1>3, <1>6
<1>8. CASE h = q + 1 /\ 2 * r >= d
  BY <1>3, <1>4, <1>7, <1>8
<1>9. CASE h = q /\ 2 * r <= d
  BY <1>3, <1>4, <1>6, <1>7, <1>9
<1> QED BY <1>5, <1>8, <1>9

\* What is at least a multiple stays so when it is rounded.
LEMMA HalfEvenAbove ==
    ASSUME NEW n \in Int, NEW d \in Nat \ {0}, NEW k \in Int
    PROVE  /\ d * k <= n => k <= Q!HalfEven(n, d)
           /\ n <= d * k => Q!HalfEven(n, d) <= k
<1>1. PICK h : h = Q!HalfEven(n, d)
  OBVIOUS
<1>2. h \in Int /\ 2 * (d * h) <= 2 * n + d /\ 2 * n - d <= 2 * (d * h)
  BY <1>1, HalfEvenNear
<1>3. ASSUME d * k <= n, h < k
      PROVE  FALSE
  <2>1. d * h + d <= d * k
    <3>1. PICK m : m = k - h - 1
      OBVIOUS
    <3>2. m \in Nat /\ k = h + 1 + m
      BY <1>2, <1>3, <3>1
    <3>3. d * m \in Nat /\ d * k = d * h + d + d * m
      BY <1>2, <3>2
    <3> QED BY <1>2, <3>3
  <2> QED BY <1>2, <1>3, <2>1
<1>4. ASSUME n <= d * k, k < h
      PROVE  FALSE
  <2>1. d * k + d <= d * h
    <3>1. PICK m : m = h - k - 1
      OBVIOUS
    <3>2. m \in Nat /\ h = k + 1 + m
      BY <1>2, <1>4, <3>1
    <3>3. d * m \in Nat /\ d * h = d * k + d + d * m
      BY <1>2, <3>2
    <3> QED BY <1>2, <3>3
  <2> QED BY <1>2, <1>4, <2>1
<1> QED BY <1>1, <1>2, <1>3, <1>4

LEMMA HalfEvenNat ==
    ASSUME NEW n \in Nat, NEW d \in Nat \ {0}
    PROVE  Q!HalfEven(n, d) \in Nat
<1>1. d * 0 <= n /\ n \in Int /\ 0 \in Int
  OBVIOUS
<1>2. 0 <= Q!HalfEven(n, d) /\ Q!HalfEven(n, d) \in Int
  BY <1>1, HalfEvenNear, HalfEvenAbove
<1> QED BY <1>2

\* What an operator, a panel and a customer can enter is not negative.
NothingNegative ==
    /\ Costs \subseteq Nat /\ Quantities \subseteq Nat /\ Markups \subseteq Nat /\ Margins \subseteq Nat
    /\ CustomPrices \subseteq Nat /\ Percents \subseteq Nat /\ Coupons \subseteq Nat

\* A price on its way from the standard price down to the floor.
Between(price, standard, floor) ==
    price \in Nat /\ (price = standard \/ price = floor \/ (floor <= price /\ price <= standard))

LEMMA DiscountKeeps ==
    ASSUME NEW standard \in Nat, NEW floor \in Nat, NEW price, Between(price, standard, floor),
           NEW off \in Nat
    PROVE  /\ Between(Q!PercentOff(price, off, floor), standard, floor)
           /\ Between(Q!FlatOff(price, off, floor), standard, floor)
<1>1. PICK x : x = Q!HalfEven(price * (100 - off), 100)
  OBVIOUS
<1>2. x \in Int /\ x <= price
  <2>1. price \in Nat
    BY DEF Between
  <2>2. PICK m : m = price * off
    OBVIOUS
  <2>3. m \in Nat /\ price * (100 - off) = 100 * price - m
    BY <2>1, <2>2
  <2>4. PICK n : n = price * (100 - off)
    OBVIOUS
  <2>5. n \in Int /\ n <= 100 * price
    BY <2>1, <2>3, <2>4
  <2> QED BY <1>1, <2>1, <2>4, <2>5, HalfEvenNear, HalfEvenAbove
<1>3. Between(Q!Capped(x, floor), standard, floor)
  BY <1>2 DEF Between, Q!Capped
<1>4. Between(Q!Capped(price - off, floor), standard, floor)
  BY DEF Between, Q!Capped
<1> QED BY <1>1, <1>3, <1>4 DEF Q!PercentOff, Q!FlatOff

LEMMA PriceFair ==
    ASSUME NothingNegative, NEW o \in Q!Orders, NEW s \in Q!Settings, NEW fx \in Nat,
           NEW p, p = Q!calculate_price(o, s, fx)
    PROVE  /\ p.price \in Int
           /\ ~(s.custom > 0) =>
                /\ p.price >= p.floor \/ p.price = p.standard
                /\ p.price <= p.standard \/ p.price = p.floor
                /\ 100 * p.price + 50 >= p.cost
<1>1. /\ o.cost \in Nat /\ o.quantity \in Nat /\ o.premium \in Nat /\ o.reseller \in Nat
      /\ o.coupon \in Nat /\ s.custom \in Nat
  BY DEF NothingNegative, Q!Orders, Q!Settings
<1>2. Q!_resolve_markup(s) \in Nat /\ Q!MinMargin(s) \in Nat
  BY DEF NothingNegative, Q!Settings, Q!_resolve_markup, Q!MinMargin, Q!Unset, Q!DEFAULT_MIN_MARGIN
<1>3. PICK per1000 : per1000 = Q!HalfEven(o.cost * fx, 100)
  OBVIOUS
<1>4. PICK n : n = per1000 * o.quantity
  OBVIOUS
<1>5. PICK cost : cost = Q!HalfEven(n, 1000)
  OBVIOUS
<1>6. PICK margin : margin = IF s.custom > 0 THEN Q!DEFAULT_MIN_MARGIN ELSE Q!MinMargin(s)
  OBVIOUS
<1>7. PICK floor : floor = Q!HalfEven(cost * (100 + margin), 10000)
  OBVIOUS
<1>8. PICK marked : marked = Q!HalfEven(per1000 * (100 + Q!_resolve_markup(s)), 100)
  OBVIOUS
<1>9. PICK standard : standard = Q!HalfEven(marked * o.quantity, 100000)
  OBVIOUS
<1>10. per1000 \in Nat /\ n \in Nat /\ cost \in Nat
  <2>1. PICK m : m = o.cost * fx
    OBVIOUS
  <2>2. m \in Nat
    BY <1>1, <2>1
  <2>3. Q!HalfEven(m, 100) \in Nat
    BY <2>2, HalfEvenNat
  <2>4. n \in Nat
    BY <1>1, <1>3, <1>4, <2>1, <2>3
  <2>5. cost \in Nat
    BY <1>5, <2>4, HalfEvenNat
  <2> QED BY <1>3, <2>1, <2>3, <2>4, <2>5
<1>11. floor \in Nat /\ cost <= 100 * floor + 50
  <2>1. margin \in Nat
    BY <1>2, <1>6 DEF Q!DEFAULT_MIN_MARGIN
  <2>2. PICK e : e = cost * margin
    OBVIOUS
  <2>3. PICK m : m = cost * (100 + margin)
    OBVIOUS
  <2>4. e \in Nat /\ m = 100 * cost + e
    BY <1>10, <2>1, <2>2, <2>3
  <2>5. m \in Nat /\ 100 * cost <= m
    BY <1>10, <2>4
  <2>6. floor \in Nat
    BY <1>7, <2>3, <2>5, HalfEvenNat
  <2>7. 2 * m - 10000 <= 2 * (10000 * floor)
    BY <1>7, <2>3, <2>5, HalfEvenNear
  <2> QED BY <1>10, <2>5, <2>6, <2>7
<1>12. marked \in Nat /\ per1000 <= marked
  <2>1. PICK m : m = per1000 * (100 + Q!_resolve_markup(s))
    OBVIOUS
  <2>2. PICK e : e = per1000 * Q!_resolve_markup(s)
    OBVIOUS
  <2>3. e \in Nat /\ m = 100 * per1000 + e
    BY <1>2, <1>10, <2>1, <2>2
  <2>4. m \in Int /\ 100 * per1000 <= m
    BY <1>10, <2>3
  <2>5. marked = Q!HalfEven(m, 100)
    BY <1>8, <2>1
  <2>6. per1000 <= Q!HalfEven(m, 100) /\ Q!HalfEven(m, 100) \in Int
    BY <1>10, <2>4, HalfEvenNear, HalfEvenAbove
  <2> QED BY <1>10, <2>5, <2>6
<1>13. standard \in Nat /\ cost <= 100 * standard + 50
  <2>1. PICK m : m = marked * o.quantity
    OBVIOUS
  <2>2. m \in Nat /\ n <= m
    <3>1. PICK d : d = marked - per1000
      OBVIOUS
    <3>2. d \in Nat /\ marked = per1000 + d
      BY <1>10, <1>12, <3>1
    <3>3. d * o.quantity \in Nat /\ m = n + d * o.quantity
      BY <1>1, <1>4, <1>10, <2>1, <3>2
    <3> QED BY <1>10, <3>3
  <2>3. standard = Q!HalfEven(m, 100000)
    BY <1>9, <2>1
  <2>4. standard \in Nat /\ 2 * m - 100000 <= 2 * (100000 * standard)
    BY <2>2, <2>3, HalfEvenNat, HalfEvenNear
  <2>5. n <= 1000 * (100 * standard + 50) /\ 100 * standard + 50 \in Int
    BY <1>10, <2>2, <2>4
  <2> QED BY <1>5, <1>10, <2>4, <2>5, HalfEvenAbove
<1>14. PICK deal : deal = Q!PercentOff(standard, o.premium, floor)
  OBVIOUS
<1>15. PICK reseller : reseller = Q!PercentOff(deal, o.reseller, floor)
  OBVIOUS
<1>16. PICK price : price = Q!FlatOff(reseller, o.coupon, floor)
  OBVIOUS
<1>17. Between(price, standard, floor)
  <2>1. Between(standard, standard, floor)
    BY <1>13 DEF Between
  <2>2. Between(deal, standard, floor)
    BY <1>1, <1>11, <1>13, <1>14, <2>1, DiscountKeeps
  <2>3. Between(reseller, standard, floor)
    BY <1>1, <1>11, <1>13, <1>15, <2>2, DiscountKeeps
  <2> QED BY <1>1, <1>11, <1>13, <1>16, <2>3, DiscountKeeps
<1>18. CASE s.custom > 0
  <2>1. p.price = Q!HalfEven(s.custom * o.quantity, 1000)
    BY <1>18 DEF Q!calculate_price
  <2>2. PICK m : m = s.custom * o.quantity
    OBVIOUS
  <2>3. m \in Nat
    BY <1>1, <2>2
  <2>4. Q!HalfEven(m, 1000) \in Nat
    BY <2>3, HalfEvenNat
  <2>5. p.price \in Nat
    BY <2>1, <2>2, <2>4
  <2> QED BY <1>18, <2>5
<1>19. CASE ~(s.custom > 0)
  <2>1. p = [cost |-> cost, floor |-> floor, standard |-> standard, price |-> price]
    BY <1>3, <1>4, <1>5, <1>6, <1>7, <1>8, <1>9, <1>14, <1>15, <1>16, <1>19 DEF Q!calculate_price
  <2>2. p.cost = cost /\ p.floor = floor /\ p.standard = standard /\ p.price = price
    BY <2>1
  <2> QED BY <1>10, <1>11, <1>13, <1>17, <2>2 DEF Between
<1> QED BY <1>18, <1>19
RateInv ==
    /\ service \in Q!Settings
    /\ quote.state = "shown" => quote.order \in Q!Orders /\ quote.was.price \in Int
    /\ Q!ChargedFairly

LEMMA RateStep ==
    ASSUME NothingNegative, RateInv, Q!Next
    PROVE  RateInv'
<1>1. Q!get_usd_to_inr_rate \in Nat
  <2>1. CASE Q!Valid(cached)
    BY <2>1 DEF Q!get_usd_to_inr_rate, Q!Valid
  <2>2. CASE ~Q!Valid(cached)
    BY <2>2 DEF Q!get_usd_to_inr_rate, Q!FALLBACK_RATE
  <2> QED BY <2>1, <2>2
<1>2. CASE Q!Refresh \/ Q!Expire
  <2>1. UNCHANGED <<service, quote>>
    BY <1>2 DEF Q!Refresh, Q!Expire
  <2> QED BY <2>1 DEF RateInv, Q!ChargedFairly
<1>3. CASE Q!Edit
  <2>1. service' \in Q!Settings /\ UNCHANGED quote
    BY <1>3 DEF Q!Edit
  <2> QED BY <2>1 DEF RateInv, Q!ChargedFairly
<1>4. CASE Q!Preview
  <2>1. PICK o \in Q!Orders : quote' = [state |-> "shown", order |-> o,
                                        was |-> Q!calculate_price(o, service, Q!get_usd_to_inr_rate)]
    BY <1>4 DEF Q!Preview
  <2>2. PICK was : was = Q!calculate_price(o, service, Q!get_usd_to_inr_rate)
    OBVIOUS
  <2>3. was.price \in Int
    BY <1>1, <2>2, PriceFair DEF RateInv
  <2>4. quote'.state = "shown" /\ quote'.order = o /\ quote'.was = was
    BY <2>1, <2>2
  <2>5. service' \in Q!Settings
    BY <1>4 DEF Q!Preview, RateInv
  <2> QED BY <2>3, <2>4, <2>5 DEF RateInv, Q!ChargedFairly
<1>5. CASE Q!Order
  <2>1. PICK due : due = Q!calculate_price(quote.order, service, Q!get_usd_to_inr_rate)
    OBVIOUS
  <2>2. quote.order \in Q!Orders /\ quote.was.price \in Int /\ UNCHANGED service
    BY <1>5 DEF Q!Order, RateInv
  <2>3. /\ due.price \in Int
        /\ ~(service.custom > 0) =>
             /\ due.price >= due.floor \/ due.price = due.standard
             /\ due.price <= due.standard \/ due.price = due.floor
             /\ 100 * due.price + 50 >= due.cost
    BY <1>1, <2>1, <2>2, PriceFair DEF RateInv
  <2>4. CASE Q!verify_price_unchanged(quote.was.price, due.price)
    <3>1. quote' = [state |-> "ordered", order |-> quote.order, was |-> quote.was, now |-> due,
                    custom |-> service.custom > 0]
      BY <1>5, <2>1, <2>4 DEF Q!Order
    <3>2. quote'.state = "ordered" /\ quote'.was = quote.was /\ quote'.now = due
          /\ quote'.custom = (service.custom > 0)
      BY <3>1
    <3>3. due.price - quote.was.price \in {-1, 0, 1}
      BY <2>2, <2>3, <2>4 DEF Q!verify_price_unchanged
    <3>4. Q!ChargedFairly'
      BY <2>3, <3>2, <3>3 DEF Q!ChargedFairly
    <3> QED BY <2>2, <3>2, <3>4 DEF RateInv
  <2>5. CASE ~Q!verify_price_unchanged(quote.was.price, due.price)
    <3>1. quote' = Q!NoQuote
      BY <1>5, <2>1, <2>5 DEF Q!Order
    <3>2. quote'.state = "none"
      BY <3>1 DEF Q!NoQuote
    <3> QED BY <2>2, <3>2 DEF RateInv, Q!ChargedFairly
  <2> QED BY <2>4, <2>5
<1> QED BY <1>2, <1>3, <1>4, <1>5 DEF Q!Next

\* Whatever changes between the price shown and the order, the charge is the price shown to a
\* paisa, the discounts stop at the floor and, without a price of the service's own, the panel
\* is paid (pricing/engine.py:100-211, orders/engine.py:171-190).
THEOREM FairCharges ==
    ASSUME NothingNegative
    PROVE  Spec => []ChargedFairly
<1>1. Init => RateInv
  BY DEF Init, Q!Init, RateInv, Q!NoQuote, Q!ChargedFairly
<1>2. RateInv /\ [Next]_vars => RateInv'
  <2> SUFFICES ASSUME RateInv, [Next]_vars
               PROVE  RateInv'
    OBVIOUS
  <2>1. CASE UNCHANGED rateVars
    BY <2>1 DEF rateVars, RateInv, Q!ChargedFairly
  <2> QED BY <2>1, OneScene, RateStep
<1>3. RateInv => ChargedFairly
  BY DEF RateInv, ChargedFairly
<1> QED BY <1>1, <1>2, <1>3, PTL DEF Spec

------------------------------------------------------------------------------
\* Tenants

\* One request at a time is about a tenant.
OneAtATime == ~Overlap /\ NoToken \notin Tokens /\ MaxRows \in Nat

RowType == [owner : Owners \cup {"none"}, slug : Slugs \cup {"none"}, token : Tokens \cup {NoToken},
            active : BOOLEAN, deleted : BOOLEAN]
ReqType == [op : {"none", "create", "activate", "suspend", "delete", "rotate"}, t : Nat,
            at : {"idle", "insert", "verify", "write", "stop", "start", "hook"}, seen : RowType]

Live(t) == tenant[t].active /\ ~tenant[t].deleted
\* A bot that runs belongs to a live tenant, with its token; a live tenant's bot runs.
RunsFor(t) == running[t] # NoToken => Live(t) /\ running[t] = tenant[t].token
RunsAt(t) == Live(t) /\ t \notin excused => running[t] # NoToken

\* What a request has loaded is still the case, and what is left to do not yet done.
ReqSound(q) ==
    /\ q.at = "idle" => q = T!Idle
    /\ q.at = "insert" => q.t = 0 /\ q.seen.token \in Tokens /\ ~q.seen.active /\ ~q.seen.deleted
    /\ q.at \in {"verify", "write", "stop", "start", "hook"} => q.t \in DOMAIN tenant
    /\ q.at \in {"verify", "write"} => tenant[q.t] = q.seen /\ ~q.seen.deleted
    /\ q.at = "verify" => ~q.seen.active
    /\ q.at = "write" => q.op \in {"suspend", "delete", "rotate"}
    /\ q.at = "stop" => (Live(q.t) => q.t \in excused)
    /\ q.at \in {"start", "hook"} => Live(q.t) /\ q.seen.token = tenant[q.t].token
    /\ q.at = "start" /\ manager = "ready" => RunsFor(q.t)
    /\ q.at = "hook" => running[q.t] = NoToken

\* No request stands between the row and its bot.
InStep(t) == \A r \in Requests : req[r].t = t => req[r].at \notin {"stop", "start", "hook"}
RowSound(row) == row \in RowType /\ (~row.deleted => row.token \in Tokens)

TenantInv ==
    /\ tenant \in Seq(RowType) /\ Len(tenant) <= MaxRows
    /\ \A t \in DOMAIN tenant : RowSound(tenant[t])
    /\ running \in [T!Ids -> Tokens \cup {NoToken}]
    /\ \A t \in T!Ids \ DOMAIN tenant : running[t] = NoToken
    /\ req \in [Requests -> ReqType] /\ \A r \in Requests : ReqSound(req[r])
    /\ \A r, s \in Requests : req[r].t = req[s].t /\ req[r].t # 0 => r = s
    /\ manager \in {"new", "starting", "ready"}
    /\ manager = "new" => running = [t \in T!Ids |-> NoToken]
    /\ manager = "starting" =>
          /\ \A r \in Requests : req[r] = T!Idle
          /\ todo \subseteq DOMAIN tenant
          /\ \A t \in todo : Live(t)
          /\ \A t \in DOMAIN tenant : RunsFor(t) /\ (t \notin todo => RunsAt(t))
    /\ manager = "ready" => \A t \in DOMAIN tenant : InStep(t) => RunsFor(t) /\ RunsAt(t)

\* One step of a request about a tenant: its row, its bot and its excuse may change.
Serves(r, q, t, row, bot) ==
    /\ manager # "starting" /\ UNCHANGED <<manager, todo>>
    /\ req' = [req EXCEPT ![r] = q] /\ q \in ReqType
    /\ tenant' = [tenant EXCEPT ![t] = row] /\ RowSound(row)
    /\ running' = [running EXCEPT ![t] = bot] /\ bot \in Tokens \cup {NoToken}
    /\ manager = "new" => bot = NoToken
    /\ \A u : u # t => (u \in excused' <=> u \in excused)
    /\ \A s \in Requests \ {r} : req[s].t # t
    /\ req[r].t \in {0, t} /\ q.t \in {0, t}
    /\ ReqSound(q)'
    /\ manager = "ready" /\ (q.t = t => q.at \notin {"stop", "start", "hook"}) =>
           RunsFor(t)' /\ RunsAt(t)'

LEMMA Served ==
    ASSUME MaxRows \in Nat, TenantInv, NEW r \in Requests, NEW t \in DOMAIN tenant,
           NEW q, NEW row, NEW bot, Serves(r, q, t, row, bot)
    PROVE  TenantInv'
<1>1. PICK n \in Nat : n = Len(tenant) /\ DOMAIN tenant = 1 .. n /\ n <= MaxRows
  BY DEF TenantInv
<1>2. tenant' \in Seq(RowType) /\ Len(tenant') = n /\ DOMAIN tenant' = 1 .. n
  BY <1>1 DEF TenantInv, Serves, RowSound
<1>3. tenant'[t] = row /\ \A u \in DOMAIN tenant \ {t} : tenant'[u] = tenant[u]
  BY <1>1 DEF TenantInv, Serves
<1>4. t \in T!Ids /\ DOMAIN tenant \subseteq T!Ids
  BY <1>1 DEF T!Ids
<1>5. running' \in [T!Ids -> Tokens \cup {NoToken}]
      /\ \A u \in T!Ids \ {t} : running'[u] = running[u]
  BY <1>4 DEF TenantInv, Serves
<1>6. /\ req' \in [Requests -> ReqType] /\ req'[r] = q
      /\ \A s \in Requests \ {r} : req'[s] = req[s]
  BY DEF TenantInv, Serves
<1>7. \A u \in DOMAIN tenant : RowSound(tenant'[u])
  BY <1>3 DEF TenantInv, Serves
<1>8. ASSUME NEW s \in Requests
      PROVE  ReqSound(req[s])'
  <2>1. CASE s = r
    BY <1>6, <2>1 DEF Serves
  <2>2. CASE s # r
    <3>1. PICK p : p = req[s]
      OBVIOUS
    <3>2. req'[s] = p /\ ReqSound(p) /\ p.t # t
      BY <1>6, <2>2, <3>1 DEF TenantInv, Serves
    <3>3. p.t \in DOMAIN tenant =>
             /\ tenant'[p.t] = tenant[p.t] /\ running'[p.t] = running[p.t]
             /\ p.t \in excused' <=> p.t \in excused
      BY <1>3, <1>4, <1>5, <3>2 DEF Serves
    <3>4. manager' = manager /\ DOMAIN tenant' = DOMAIN tenant
      BY <1>1, <1>2 DEF Serves
    <3>5. ReqSound(p)'
      BY <3>2, <3>3, <3>4 DEF ReqSound, Live, RunsFor
    <3> QED BY <3>2, <3>5
  <2> QED BY <2>1, <2>2
<1>9. ASSUME NEW s1 \in Requests, NEW s2 \in Requests, req'[s1].t = req'[s2].t, req'[s1].t # 0
      PROVE  s1 = s2
  <2>1. s1 # r /\ s2 # r => s1 = s2
    BY <1>6, <1>9 DEF TenantInv
  <2>2. ~(s1 = r /\ s2 # r) /\ ~(s2 = r /\ s1 # r)
    BY <1>6, <1>9 DEF Serves
  <2> QED BY <2>1, <2>2
<1>10. manager' \in {"new", "ready"} /\ manager' = manager
  BY DEF TenantInv, Serves
<1>11. manager' = "new" => running' = [u \in T!Ids |-> NoToken]
  BY <1>5, <1>10 DEF TenantInv, Serves
<1>12. ASSUME manager' = "ready", NEW u \in DOMAIN tenant, InStep(u)'
       PROVE  RunsFor(u)' /\ RunsAt(u)'
  <2>1. CASE u = t
    <3>1. q.t = t => q.at \notin {"stop", "start", "hook"}
      BY <1>6, <1>12, <2>1 DEF InStep
    <3> QED BY <1>10, <1>12, <2>1, <3>1 DEF Serves
  <2>2. CASE u # t
    <3>1. ASSUME NEW s \in Requests, req[s].t = u
          PROVE  req[s].at \notin {"stop", "start", "hook"}
      <4>1. CASE s = r
        <5>1. req[r].t \in {0, t} /\ u # 0
          BY <1>1 DEF Serves
        <5> QED BY <2>2, <3>1, <4>1, <5>1
      <4>2. CASE s # r
        BY <1>6, <1>12, <3>1, <4>2 DEF InStep
      <4> QED BY <4>1, <4>2
    <3>2. RunsFor(u) /\ RunsAt(u)
      BY <1>10, <1>12, <3>1 DEF TenantInv, InStep
    <3>3. tenant'[u] = tenant[u] /\ running'[u] = running[u] /\ (u \in excused' <=> u \in excused)
      BY <1>3, <1>4, <1>5, <2>2 DEF Serves
    <3> QED BY <3>2, <3>3 DEF RunsFor, RunsAt, Live
  <2> QED BY <2>1, <2>2
<1>13. \A u \in T!Ids \ DOMAIN tenant : running'[u] = NoToken
  BY <1>5 DEF TenantInv
<1> QED BY <1>1, <1>2, <1>5, <1>6, <1>7, <1>8, <1>9, <1>10, <1>11, <1>12, <1>13, Zenon DEF TenantInv

LEMMA BeganSound ==
    /\ T!Idle \in ReqType /\ T!Idle.t = 0 /\ T!Idle.at = "idle"
    /\ ReqSound(T!Idle) /\ ReqSound(T!Idle)'
<1>1. T!Idle \in ReqType /\ T!Idle.t = 0 /\ T!Idle.at = "idle"
  BY DEF T!Idle, T!NoRow, ReqType, RowType
<1> QED BY <1>1 DEF ReqSound

\* A request that is about a tenant, and what it finds.
LEMMA Asked ==
    ASSUME MaxRows \in Nat, TenantInv, NEW r \in Requests,
           req[r].at \in {"verify", "write", "stop", "start", "hook"}
    PROVE  /\ req[r] \in ReqType /\ ReqSound(req[r]) /\ req[r].t \in DOMAIN tenant
           /\ tenant[req[r].t] \in RowType /\ RowSound(tenant[req[r].t])
           /\ running[req[r].t] \in Tokens \cup {NoToken}
           /\ tenant = [tenant EXCEPT ![req[r].t] = tenant[req[r].t]]
           /\ running = [running EXCEPT ![req[r].t] = running[req[r].t]]
           /\ manager # "starting"
           /\ manager = "new" => running[req[r].t] = NoToken
           /\ \A s \in Requests \ {r} : req[s].t # req[r].t
<1>1. req[r] \in ReqType /\ ReqSound(req[r]) /\ req[r].t \in DOMAIN tenant
  BY DEF TenantInv, ReqSound
<1>2. PICK n \in Nat : n = Len(tenant) /\ DOMAIN tenant = 1 .. n /\ n <= MaxRows
  BY DEF TenantInv
<1>3. req[r].t \in T!Ids
  BY <1>1, <1>2 DEF T!Ids
<1>4. tenant[req[r].t] \in RowType /\ RowSound(tenant[req[r].t])
  BY <1>1 DEF TenantInv, RowSound
<1>5. manager # "starting"
  BY BeganSound DEF TenantInv
<1>6. req[r].t # 0
  BY <1>1, <1>2
<1>7. \A s \in Requests \ {r} : req[s].t # req[r].t
  BY <1>6 DEF TenantInv
<1>8. tenant = [tenant EXCEPT ![req[r].t] = tenant[req[r].t]]
  BY <1>1 DEF TenantInv
<1>9. running[req[r].t] \in Tokens \cup {NoToken}
      /\ running = [running EXCEPT ![req[r].t] = running[req[r].t]]
  BY <1>3 DEF TenantInv
<1>10. manager = "new" => running[req[r].t] = NoToken
  BY <1>3 DEF TenantInv
<1> QED BY <1>1, <1>4, <1>5, <1>7, <1>8, <1>9, <1>10

\* A request about no tenant: to create one.
LEMMA CreatesKeepInv ==
    ASSUME MaxRows \in Nat, TenantInv, NEW r \in Requests, T!Create(r) \/ T!Insert(r)
    PROVE  TenantInv'
<1>1. CASE T!Create(r)
  <2>1. PICK o \in Owners, s \in Slugs, k \in Tokens :
           req' = [req EXCEPT ![r] = [op |-> "create", t |-> 0, at |-> "insert",
                       seen |-> [T!NoRow EXCEPT !.owner = o, !.slug = s, !.token = k]]]
    BY <1>1 DEF T!Create
  <2>2. PICK q : q = [op |-> "create", t |-> 0, at |-> "insert",
                      seen |-> [T!NoRow EXCEPT !.owner = o, !.slug = s, !.token = k]]
    OBVIOUS
  <2>3. q \in ReqType /\ q.t = 0 /\ q.at = "insert" /\ q.seen.token \in Tokens
        /\ ~q.seen.active /\ ~q.seen.deleted
    BY <2>2 DEF ReqType, RowType, T!NoRow
  <2>4. /\ req' = [req EXCEPT ![r] = q] /\ req[r].at = "idle" /\ manager # "starting"
        /\ UNCHANGED <<tenant, running, manager, todo, excused>>
    BY <1>1, <2>1, <2>2 DEF T!Create
  <2>5. ReqSound(q)'
    BY <2>3 DEF ReqSound
  <2>6. req' \in [Requests -> ReqType] /\ req'[r] = q /\ \A x \in Requests \ {r} : req'[x] = req[x]
    BY <2>3, <2>4 DEF TenantInv
  <2>7. \A x \in Requests : ReqSound(req[x])'
    <3>1. ASSUME NEW x \in Requests \ {r}
          PROVE  ReqSound(req[x])'
      <4>1. ReqSound(req[x]) /\ req'[x] = req[x]
        BY <2>6 DEF TenantInv
      <4> QED BY <2>4, <4>1 DEF ReqSound, Live, RunsFor
    <3> QED BY <2>5, <2>6, <3>1
  <2>8. \A x, y \in Requests : req'[x].t = req'[y].t /\ req'[x].t # 0 => x = y
    BY <2>3, <2>6 DEF TenantInv
  <2>9. \A t \in DOMAIN tenant : InStep(t)' => InStep(t)
    <3>1. req[r].at \notin {"stop", "start", "hook"}
      BY <2>4
    <3> QED BY <2>6, <3>1 DEF InStep
  <2>10. \A t \in DOMAIN tenant : (RunsFor(t)' <=> RunsFor(t)) /\ (RunsAt(t)' <=> RunsAt(t))
    BY <2>4 DEF RunsFor, RunsAt, Live
  <2>11. manager' = "ready" => \A t \in DOMAIN tenant' : InStep(t)' => RunsFor(t)' /\ RunsAt(t)'
    BY <2>4, <2>9, <2>10 DEF TenantInv
  <2> QED BY <2>4, <2>6, <2>7, <2>8, <2>11, Zenon DEF TenantInv
<1>2. CASE T!Insert(r)
  <2>1. /\ req[r].at = "insert" /\ Len(tenant) < MaxRows /\ req' = [req EXCEPT ![r] = T!Idle]
        /\ UNCHANGED <<running, excused, manager, todo>>
        /\ tenant' \in {tenant, Append(tenant, req[r].seen)}
    BY <1>2 DEF T!Insert, T!Ends, T!Bots, T!Rows
  <2>2. /\ req[r].t = 0 /\ req[r].seen.token \in Tokens /\ ~req[r].seen.active /\ ~req[r].seen.deleted
        /\ req[r] \in ReqType
    BY <2>1 DEF TenantInv, ReqSound
  <2>3. req[r].seen \in RowType
    BY <2>2 DEF ReqType
  <2>4. PICK n \in Nat : n = Len(tenant) /\ DOMAIN tenant = 1 .. n /\ n < MaxRows
    BY <2>1 DEF TenantInv
  <2>5. tenant' \in Seq(RowType) /\ Len(tenant') <= MaxRows
    BY <2>1, <2>3, <2>4 DEF TenantInv
  <2>6. /\ DOMAIN tenant \subseteq DOMAIN tenant' /\ DOMAIN tenant' \subseteq 1 .. (n + 1)
        /\ \A t \in DOMAIN tenant : tenant'[t] = tenant[t]
        /\ n + 1 \in DOMAIN tenant' => tenant'[n + 1] = req[r].seen
    <3>1. CASE tenant' = tenant
      BY <2>4, <3>1
    <3>2. CASE tenant' = Append(tenant, req[r].seen)
      BY <2>3, <2>4, <3>2 DEF TenantInv
    <3> QED BY <2>1, <3>1, <3>2
  <2>7. req' \in [Requests -> ReqType] /\ req'[r] = T!Idle /\ \A x \in Requests \ {r} : req'[x] = req[x]
    BY <2>1, BeganSound DEF TenantInv
  <2>8. \A t \in DOMAIN tenant' : RowSound(tenant'[t])
    <3>1. ASSUME NEW t \in DOMAIN tenant', t \notin DOMAIN tenant
          PROVE  RowSound(tenant'[t])
      <4>1. t = n + 1
        BY <2>4, <2>6, <3>1
      <4> QED BY <2>2, <2>3, <2>6, <4>1 DEF RowSound
    <3> QED BY <2>6, <3>1 DEF TenantInv
  <2>9. \A x \in Requests : ReqSound(req[x])'
    <3>1. ASSUME NEW x \in Requests \ {r}
          PROVE  ReqSound(req[x])'
      <4>1. ReqSound(req[x]) /\ req'[x] = req[x]
        BY <2>7 DEF TenantInv
      <4>2. req[x].t \in DOMAIN tenant => tenant'[req[x].t] = tenant[req[x].t]
                                          /\ req[x].t \in DOMAIN tenant'
        BY <2>6
      <4> QED BY <2>1, <4>1, <4>2 DEF ReqSound, Live, RunsFor
    <3> QED BY <2>7, <3>1, BeganSound
  <2>10. \A x, y \in Requests : req'[x].t = req'[y].t /\ req'[x].t # 0 => x = y
    BY <2>7, BeganSound DEF TenantInv
  <2>11. manager # "starting"
    BY <2>1, BeganSound DEF TenantInv
  <2>12. ASSUME manager' = "ready", NEW t \in DOMAIN tenant', InStep(t)'
         PROVE  RunsFor(t)' /\ RunsAt(t)'
    <3>1. CASE t \in DOMAIN tenant
      <4>1. InStep(t)
        BY <2>1, <2>7, <2>12 DEF InStep
      <4>2. RunsFor(t) /\ RunsAt(t)
        BY <2>1, <2>12, <3>1, <4>1 DEF TenantInv
      <4> QED BY <2>1, <2>6, <3>1, <4>2 DEF RunsFor, RunsAt, Live
    <3>2. CASE t \notin DOMAIN tenant
      <4>1. t = n + 1 /\ tenant'[t] = req[r].seen
        BY <2>4, <2>6, <3>2
      <4>2. ~Live(t)'
        BY <2>2, <4>1 DEF Live
      <4>3. running'[t] = NoToken
        BY <2>1, <2>4, <3>2, <4>1 DEF TenantInv, T!Ids
      <4> QED BY <4>2, <4>3 DEF RunsFor, RunsAt
    <3> QED BY <3>1, <3>2
  <2>13. \A t \in T!Ids \ DOMAIN tenant' : running'[t] = NoToken
    BY <2>1, <2>6 DEF TenantInv
  <2>14. running' \in [T!Ids -> Tokens \cup {NoToken}] /\ manager' \in {"new", "starting", "ready"}
         /\ (manager' = "new" => running' = [t \in T!Ids |-> NoToken])
    BY <2>1 DEF TenantInv
  <2> QED BY <2>1, <2>5, <2>7, <2>8, <2>9, <2>10, <2>11, <2>12, <2>13, <2>14, Zenon DEF TenantInv
<1> QED BY <1>1, <1>2

\* get_tenant, for a tenant no other request is about.
LEMMA AskKeepsInv ==
    ASSUME OneAtATime, TenantInv, NEW r \in Requests, T!Ask(r)
    PROVE  TenantInv'
<1>1. PICK t \in DOMAIN tenant, op \in {"activate", "suspend", "delete", "rotate"} :
         /\ ~tenant[t].deleted /\ T!Free(t)
         /\ req' = [req EXCEPT ![r] =
                      [op |-> op, t |-> t, seen |-> tenant[t],
                       at |-> IF op # "activate" THEN "write"
                              ELSE IF tenant[t].active THEN "start" ELSE "verify"]]
  BY DEF T!Ask
<1>2. PICK at : at = IF op # "activate" THEN "write"
                     ELSE IF tenant[t].active THEN "start" ELSE "verify"
  OBVIOUS
<1>3. PICK q : q = [op |-> op, t |-> t, seen |-> tenant[t], at |-> at]
  OBVIOUS
<1>4. PICK row : row = tenant[t]
  OBVIOUS
<1>5. PICK bot : bot = running[t]
  OBVIOUS
<1>6. /\ req' = [req EXCEPT ![r] = q] /\ req[r].at = "idle" /\ manager # "starting"
      /\ UNCHANGED <<tenant, running, manager, todo, excused>>
  BY <1>1, <1>2, <1>3 DEF T!Ask
<1>7. PICK n \in Nat : n = Len(tenant) /\ DOMAIN tenant = 1 .. n /\ n <= MaxRows
  BY DEF TenantInv, OneAtATime
<1>8. t \in T!Ids /\ t \in Nat /\ t # 0
  BY <1>7 DEF T!Ids, OneAtATime
<1>9. RowSound(row) /\ row \in RowType /\ tenant' = [tenant EXCEPT ![t] = row]
  BY <1>4, <1>6 DEF TenantInv, RowSound
<1>10. bot \in Tokens \cup {NoToken} /\ running' = [running EXCEPT ![t] = bot]
       /\ (manager = "new" => bot = NoToken)
  BY <1>5, <1>6, <1>8 DEF TenantInv
<1>11. at \in {"write", "start", "verify"} /\ q \in ReqType
  BY <1>2, <1>3, <1>4, <1>8, <1>9 DEF ReqType
<1>12. q.op = op /\ q.t = t /\ q.seen = row /\ q.at = at
  BY <1>3, <1>4
<1>13. \A s \in Requests : req[s].t # t
  BY <1>1 DEF T!Free, OneAtATime
<1>14. req[r].t = 0
  BY <1>6, BeganSound DEF TenantInv, ReqSound
<1>15. manager = "ready" => RunsFor(t) /\ RunsAt(t)
  BY <1>13 DEF TenantInv, InStep
<1>16. (RunsFor(t)' <=> RunsFor(t)) /\ (RunsAt(t)' <=> RunsAt(t)) /\ (Live(t)' <=> Live(t))
  BY <1>6 DEF RunsFor, RunsAt, Live
<1>17. ReqSound(q)'
  <2>1. CASE at = "write"
    <3>1. op # "activate"
      BY <1>2, <2>1
    <3> QED BY <1>1, <1>4, <1>6, <1>12, <2>1, <3>1 DEF ReqSound
  <2>2. CASE at = "start"
    <3>1. tenant[t].active /\ Live(t)
      BY <1>1, <1>2, <2>2 DEF Live
    <3> QED BY <1>4, <1>6, <1>12, <1>15, <1>16, <2>2, <3>1 DEF ReqSound
  <2>3. CASE at = "verify"
    <3>1. ~tenant[t].active
      BY <1>2, <2>3
    <3> QED BY <1>1, <1>4, <1>6, <1>12, <2>3, <3>1 DEF ReqSound
  <2> QED BY <1>11, <2>1, <2>2, <2>3
<1>18. Serves(r, q, t, row, bot)
  BY <1>6, <1>9, <1>10, <1>11, <1>12, <1>13, <1>14, <1>15, <1>16, <1>17 DEF Serves
<1> QED BY <1>18, Served DEF OneAtATime

\* A request that does not change the row.
LEMMA GoesAhead ==
    ASSUME OneAtATime, TenantInv, NEW r \in Requests,
           req[r].at \in {"verify", "write", "stop", "start", "hook"}, UNCHANGED <<manager, todo>>,
           NEW t, t = req[r].t,
           NEW row, RowSound(row), tenant' = [tenant EXCEPT ![t] = row],
           NEW q \in ReqType, req' = [req EXCEPT ![r] = q], q.t \in {0, t}, ReqSound(q)',
           NEW bot \in Tokens \cup {NoToken}, running' = [running EXCEPT ![t] = bot],
           manager = "new" => bot = NoToken,
           \A u : u # t => (u \in excused' <=> u \in excused),
           manager = "ready" /\ (q.t = t => q.at \notin {"stop", "start", "hook"}) =>
               RunsFor(t)' /\ RunsAt(t)'
    PROVE  TenantInv'
<1>1. t \in DOMAIN tenant /\ manager # "starting" /\ \A s \in Requests \ {r} : req[s].t # t
  BY Asked DEF OneAtATime
<1>2. Serves(r, q, t, row, bot)
  BY <1>1 DEF Serves
<1> QED BY <1>1, <1>2, Served DEF OneAtATime

\* What the steps below start from.
LEMMA Found ==
    ASSUME OneAtATime, TenantInv, NEW r \in Requests,
           req[r].at \in {"verify", "write", "stop", "start", "hook"}, NEW t, t = req[r].t
    PROVE  /\ req[r] \in ReqType /\ ReqSound(req[r])
           /\ t \in DOMAIN tenant /\ t \in T!Ids /\ t # 0
           /\ tenant[t] \in RowType /\ RowSound(tenant[t]) /\ running[t] \in Tokens \cup {NoToken}
           /\ tenant = [tenant EXCEPT ![t] = tenant[t]]
           /\ running = [running EXCEPT ![t] = running[t]]
           /\ manager = "new" => running[t] = NoToken
           /\ manager # "starting"
           /\ \A s \in Requests \ {r} : req[s].t # t
<1>1. DOMAIN tenant \subseteq T!Ids /\ 0 \notin T!Ids
  BY DEF TenantInv, T!Ids, OneAtATime
<1> QED BY <1>1, Asked DEF OneAtATime

LEMMA StopKeepsInv ==
    ASSUME OneAtATime, TenantInv, NEW r \in Requests, T!Stop(r)
    PROVE  TenantInv'
<1>1. PICK t : t = req[r].t
  OBVIOUS
<1>2. PICK row : row = tenant[t]
  OBVIOUS
<1>3. /\ req[r].at = "stop" /\ running' = [running EXCEPT ![t] = NoToken]
      /\ req' = [req EXCEPT ![r] = T!Idle] /\ UNCHANGED <<tenant, excused, manager, todo>>
  BY <1>1 DEF T!Stop, T!Ends, T!Rows
<1>4. RowSound(row) /\ tenant' = [tenant EXCEPT ![t] = row]
  BY <1>1, <1>2, <1>3, Found
<1>5. running'[t] = NoToken
  BY <1>1, <1>3, Found DEF TenantInv
<1>6. Live(t) => t \in excused
  BY <1>1, <1>3, Found DEF ReqSound
<1>7. RunsFor(t)' /\ RunsAt(t)'
  BY <1>3, <1>5, <1>6 DEF RunsFor, RunsAt, Live
<1> QED BY <1>1, <1>3, <1>4, <1>7, BeganSound, GoesAhead

LEMMA StartKeepsInv ==
    ASSUME OneAtATime, TenantInv, NEW r \in Requests, T!Start(r)
    PROVE  TenantInv'
<1>1. PICK t : t = req[r].t
  OBVIOUS
<1>2. PICK row : row = tenant[t]
  OBVIOUS
<1>3. PICK bot : bot = running[t]
  OBVIOUS
<1>4. /\ req[r].at = "start" /\ UNCHANGED <<tenant, running, excused, manager, todo>>
      /\ req' = [req EXCEPT ![r] = IF bot # NoToken THEN T!Idle ELSE [req[r] EXCEPT !.at = "hook"]]
  BY <1>1, <1>3 DEF T!Start, T!Ends, T!Goes, T!Bots, T!Rows
<1>5. /\ RowSound(row) /\ tenant' = [tenant EXCEPT ![t] = row]
      /\ bot \in Tokens \cup {NoToken} /\ running' = [running EXCEPT ![t] = bot]
      /\ manager = "new" => bot = NoToken
  BY <1>1, <1>2, <1>3, <1>4, Found
<1>6. /\ req[r] \in ReqType /\ t \in DOMAIN tenant /\ t # 0
      /\ Live(t) /\ req[r].seen.token = row.token /\ (manager = "ready" => RunsFor(t))
  BY <1>1, <1>2, <1>4, Found DEF ReqSound
<1>7. (RunsFor(t)' <=> RunsFor(t)) /\ (Live(t)' <=> Live(t))
  BY <1>4 DEF RunsFor, Live
<1>8. CASE bot # NoToken
  <2>1. RunsAt(t)'
    BY <1>3, <1>4, <1>8 DEF RunsAt
  <2>2. PICK q : q = T!Idle
    OBVIOUS
  <2>3. q \in ReqType /\ q.t = 0 /\ q.at = "idle"
    BY <2>2, BeganSound, Zenon
  <2>4. ReqSound(q)'
    BY <2>2, <2>3 DEF ReqSound
  <2>5. req' = [req EXCEPT ![r] = q]
    BY <1>4, <1>8, <2>2
  <2>6. \A u : u # t => (u \in excused' <=> u \in excused)
    BY <1>4
  <2>7. t \in DOMAIN tenant /\ manager # "starting" /\ \A s \in Requests \ {r} : req[s].t # t
    BY <1>1, <1>4, Found
  <2>8. manager = "ready" => RunsFor(t)' /\ RunsAt(t)'
    BY <1>6, <1>7, <2>1
  <2>9. Serves(r, q, t, row, bot)
    BY <1>1, <1>4, <1>5, <2>3, <2>4, <2>5, <2>6, <2>7, <2>8 DEF Serves
  <2> QED BY <2>7, <2>9, Served DEF OneAtATime
<1>9. CASE bot = NoToken
  <2>1. PICK q : q = [req[r] EXCEPT !.at = "hook"]
    OBVIOUS
  <2>2. q \in ReqType /\ q.at = "hook" /\ q.t = t /\ q.seen = req[r].seen
    BY <1>1, <1>6, <2>1 DEF ReqType
  <2>3. ReqSound(q)'
    BY <1>2, <1>3, <1>4, <1>6, <1>7, <1>9, <2>2 DEF ReqSound
  <2>4. req' = [req EXCEPT ![r] = q]
    BY <1>4, <1>9, <2>1
  <2>5. ~(q.t = t => q.at \notin {"stop", "start", "hook"}) /\ q.t \in {0, t}
    BY <2>2
  <2>6. \A u : u # t => (u \in excused' <=> u \in excused)
    BY <1>4
  <2>7. t \in DOMAIN tenant /\ manager # "starting" /\ \A s \in Requests \ {r} : req[s].t # t
    BY <1>1, <1>4, Found
  <2>8. Serves(r, q, t, row, bot)
    BY <1>1, <1>4, <1>5, <2>2, <2>3, <2>4, <2>5, <2>6, <2>7 DEF Serves
  <2> QED BY <2>7, <2>8, Served DEF OneAtATime
<1> QED BY <1>8, <1>9

LEMMA HookKeepsInv ==
    ASSUME OneAtATime, TenantInv, NEW r \in Requests, T!Hook(r)
    PROVE  TenantInv'
<1>1. PICK t : t = req[r].t
  OBVIOUS
<1>2. PICK row : row = tenant[t]
  OBVIOUS
<1>3. /\ req[r].at = "hook" /\ UNCHANGED <<tenant, manager, todo>> /\ req' = [req EXCEPT ![r] = T!Idle]
      /\ \/ manager = "ready" /\ T!Registered(t, req[r].seen.token)
         \/ T!NotRegistered(t)
  BY <1>1 DEF T!Hook, T!Ends, T!Rows
<1>4. RowSound(row) /\ tenant' = [tenant EXCEPT ![t] = row]
  BY <1>1, <1>2, <1>3, Found
<1>5. /\ Live(t) /\ req[r].seen.token = row.token /\ running[t] = NoToken
      /\ t \in T!Ids /\ row.token \in Tokens
  BY <1>1, <1>2, <1>3, Found DEF ReqSound, RowSound, Live
<1>6. Live(t)' <=> Live(t)
  BY <1>3 DEF Live
<1>7. CASE manager = "ready" /\ T!Registered(t, req[r].seen.token)
  <2>1. /\ running' = [running EXCEPT ![t] = row.token] /\ running'[t] = row.token
        /\ excused' = excused \ {t}
    BY <1>5, <1>7 DEF T!Registered, TenantInv
  <2>2. RunsFor(t)' /\ RunsAt(t)'
    BY <1>2, <1>3, <1>5, <1>6, <2>1 DEF RunsFor, RunsAt, OneAtATime
  <2>3. row.token \in Tokens \cup {NoToken} /\ manager # "new"
        /\ \A u : u # t => (u \in excused' <=> u \in excused)
    BY <1>5, <1>7, <2>1
  <2> QED BY <1>1, <1>3, <1>4, <2>1, <2>2, <2>3, BeganSound, GoesAhead
<1>8. CASE T!NotRegistered(t)
  <2>1. UNCHANGED running /\ excused' = excused \cup {t}
    BY <1>8 DEF T!NotRegistered
  <2>2. running' = [running EXCEPT ![t] = NoToken] /\ NoToken \in Tokens \cup {NoToken}
    BY <1>1, <1>3, <1>5, <2>1, Found
  <2>3. RunsFor(t)' /\ RunsAt(t)'
    BY <1>5, <2>1 DEF RunsFor, RunsAt
  <2>4. \A u : u # t => (u \in excused' <=> u \in excused)
    BY <2>1
  <2> QED BY <1>1, <1>3, <1>4, <2>2, <2>3, <2>4, BeganSound, GoesAhead
<1> QED BY <1>3, <1>7, <1>8

LEMMA VerifyKeepsInv ==
    ASSUME OneAtATime, TenantInv, NEW r \in Requests, T!Verify(r)
    PROVE  TenantInv'
<1>1. PICK t : t = req[r].t
  OBVIOUS
<1>2. PICK bot : bot = running[t]
  OBVIOUS
<1>3. PICK old : old = tenant[t]
  OBVIOUS
<1>4. /\ req[r].at = "verify" /\ UNCHANGED <<running, excused, manager, todo>>
      /\ \/ req' = [req EXCEPT ![r] = [req[r] EXCEPT !.at = "start"]]
            /\ tenant' = [tenant EXCEPT ![t] = [old EXCEPT !.active = TRUE]]
         \/ req' = [req EXCEPT ![r] = T!Idle] /\ UNCHANGED tenant
  BY <1>1, <1>3 DEF T!Verify, T!Ends, T!Goes, T!Bots, T!Rows
<1>5. /\ req[r] \in ReqType /\ t \in DOMAIN tenant /\ t # 0 /\ old = req[r].seen
      /\ ~old.deleted /\ ~old.active
  BY <1>1, <1>3, <1>4, Found DEF ReqSound
<1>6. /\ bot \in Tokens \cup {NoToken} /\ running' = [running EXCEPT ![t] = bot]
      /\ (manager = "new" => bot = NoToken) /\ old \in RowType /\ RowSound(old)
      /\ tenant = [tenant EXCEPT ![t] = old]
  BY <1>1, <1>2, <1>3, <1>4, Found
<1>7. manager = "ready" => RunsFor(t) /\ RunsAt(t)
  <2>1. InStep(t)
    BY <1>1, <1>4, Found DEF InStep
  <2> QED BY <1>5, <2>1 DEF TenantInv
<1>8. manager = "ready" => bot = NoToken
  BY <1>2, <1>3, <1>5, <1>7 DEF RunsFor, Live
<1>9. manager # "starting" /\ manager \in {"new", "starting", "ready"}
  BY <1>1, <1>4, Found DEF TenantInv
<1>10. bot = NoToken
  BY <1>6, <1>8, <1>9
<1>11. CASE req' = [req EXCEPT ![r] = T!Idle] /\ UNCHANGED tenant
  <2>1. manager = "ready" => RunsFor(t)' /\ RunsAt(t)'
    BY <1>4, <1>7, <1>11 DEF RunsFor, RunsAt, Live
  <2>2. t \in DOMAIN tenant /\ manager # "starting" /\ \A s \in Requests \ {r} : req[s].t # t
    BY <1>1, <1>4, Found
  <2>3. \A u : u # t => (u \in excused' <=> u \in excused)
    BY <1>4
  <2>4. Serves(r, T!Idle, t, old, bot)
    BY <1>1, <1>4, <1>6, <1>11, <2>1, <2>2, <2>3, BeganSound DEF Serves
  <2> QED BY <2>2, <2>4, Served DEF OneAtATime
<1>12. CASE /\ req' = [req EXCEPT ![r] = [req[r] EXCEPT !.at = "start"]]
            /\ tenant' = [tenant EXCEPT ![t] = [old EXCEPT !.active = TRUE]]
  <2>1. PICK q : q = [req[r] EXCEPT !.at = "start"]
    OBVIOUS
  <2>2. q \in ReqType /\ q.at = "start" /\ q.t = t /\ q.seen = old
    BY <1>1, <1>5, <2>1 DEF ReqType
  <2>3. PICK row : row = [old EXCEPT !.active = TRUE]
    OBVIOUS
  <2>4. row \in RowType /\ row.active /\ row.deleted = old.deleted /\ row.token = old.token
    BY <1>6, <2>3 DEF RowType
  <2>5. RowSound(row)
    BY <1>6, <2>4 DEF RowSound
  <2>6. tenant' = [tenant EXCEPT ![t] = row] /\ tenant'[t] = row /\ DOMAIN tenant' = DOMAIN tenant
    BY <1>5, <1>12, <2>3 DEF TenantInv
  <2>7. Live(t)'
    BY <1>5, <2>4, <2>6 DEF Live
  <2>8. running'[t] = NoToken
    BY <1>2, <1>4, <1>10
  <2>9. ReqSound(q)'
    BY <1>5, <2>2, <2>4, <2>6, <2>7, <2>8 DEF ReqSound, RunsFor
  <2>10. req' = [req EXCEPT ![r] = q]
    BY <1>12, <2>1
  <2>11. ~(q.t = t => q.at \notin {"stop", "start", "hook"}) /\ q.t \in {0, t}
    BY <2>2
  <2>12. \A u : u # t => (u \in excused' <=> u \in excused)
    BY <1>4
  <2>13. t \in DOMAIN tenant /\ manager # "starting" /\ \A s \in Requests \ {r} : req[s].t # t
    BY <1>1, <1>4, Found
  <2>14. Serves(r, q, t, row, bot)
    BY <1>1, <1>4, <1>6, <2>2, <2>5, <2>6, <2>9, <2>10, <2>11, <2>12, <2>13 DEF Serves
  <2> QED BY <2>13, <2>14, Served DEF OneAtATime
<1> QED BY <1>4, <1>11, <1>12

LEMMA WriteKeepsInv ==
    ASSUME OneAtATime, TenantInv, NEW r \in Requests, T!Write(r)
    PROVE  TenantInv'
<1>1. PICK t : t = req[r].t
  OBVIOUS
<1>2. PICK bot : bot = running[t]
  OBVIOUS
<1>3. PICK old : old = tenant[t]
  OBVIOUS
<1>4. PICK op : op = req[r].op
  OBVIOUS
<1>5. req[r].at = "write"
  BY DEF T!Write
<1>6. /\ req[r] \in ReqType /\ t \in DOMAIN tenant /\ t # 0 /\ old = req[r].seen
      /\ ~old.deleted /\ op \in {"suspend", "delete", "rotate"}
  BY <1>1, <1>3, <1>4, <1>5, Found DEF ReqSound
<1>7. PICK k \in IF op = "rotate" THEN Tokens ELSE {NoToken} :
         tenant' = [tenant EXCEPT ![t] = T!Written(op, t, req[r].seen, k)]
  BY <1>1, <1>4 DEF T!Write
<1>8. PICK q : q = [req[r] EXCEPT !.at = "stop"]
  OBVIOUS
<1>9. /\ req' = [req EXCEPT ![r] = q] /\ UNCHANGED <<running, manager, todo>>
      /\ excused' = IF op = "rotate" THEN excused \cup {t} ELSE excused
  BY <1>1, <1>4, <1>6, <1>8 DEF T!Write, T!Stops, T!Goes, T!Rows
<1>10. q \in ReqType /\ q.at = "stop" /\ q.t = t
  BY <1>1, <1>6, <1>8 DEF ReqType
<1>11. /\ bot \in Tokens \cup {NoToken} /\ running' = [running EXCEPT ![t] = bot]
       /\ (manager = "new" => bot = NoToken) /\ old \in RowType /\ RowSound(old)
  BY <1>1, <1>2, <1>3, <1>5, <1>9, Found
<1>12. PICK row : row = T!Written(op, t, req[r].seen, k)
  OBVIOUS
<1>13. RowSound(row) /\ (row.active /\ ~row.deleted => op = "rotate")
  <2>1. T!Off(t, req[r].seen) = FALSE
    BY <1>3, <1>6, <1>11 DEF T!Off, RowType
  <2>2. CASE op = "suspend"
    <3>1. row = [old EXCEPT !.active = FALSE]
      BY <1>3, <1>12, <2>1, <2>2 DEF T!Written, T!Suspended
    <3>2. row \in RowType /\ row.token = old.token /\ row.deleted = old.deleted /\ ~row.active
      BY <1>11, <3>1 DEF RowType
    <3> QED BY <1>11, <3>2 DEF RowSound
  <2>3. CASE op = "delete"
    <3>1. row = [old EXCEPT !.active = FALSE, !.deleted = TRUE, !.token = NoToken]
      BY <1>3, <1>12, <2>1, <2>3 DEF T!Written, T!Deleted
    <3>2. row \in RowType /\ row.deleted
      BY <1>11, <3>1 DEF RowType
    <3> QED BY <3>2 DEF RowSound
  <2>4. CASE op = "rotate"
    <3>1. row = [old EXCEPT !.token = k] /\ k \in Tokens
      BY <1>3, <1>7, <1>12, <2>4 DEF T!Written, T!Rotated
    <3>2. row \in RowType /\ row.token \in Tokens
      BY <1>11, <3>1 DEF RowType
    <3> QED BY <2>4, <3>2 DEF RowSound
  <2> QED BY <1>6, <2>2, <2>3, <2>4
<1>14. tenant' = [tenant EXCEPT ![t] = row] /\ tenant'[t] = row /\ DOMAIN tenant' = DOMAIN tenant
  BY <1>6, <1>7, <1>12 DEF TenantInv
<1>15. Live(t)' => t \in excused'
  BY <1>9, <1>13, <1>14 DEF Live
<1>16. ReqSound(q)'
  BY <1>6, <1>10, <1>14, <1>15 DEF ReqSound
<1>17. \A u : u # t => (u \in excused' <=> u \in excused)
  BY <1>9
<1>18. ~(q.t = t => q.at \notin {"stop", "start", "hook"}) /\ q.t \in {0, t}
  BY <1>10
<1>19. t \in DOMAIN tenant /\ manager # "starting" /\ \A s \in Requests \ {r} : req[s].t # t
  BY <1>1, <1>5, Found
<1>20. Serves(r, q, t, row, bot)
  BY <1>1, <1>9, <1>10, <1>11, <1>13, <1>14, <1>16, <1>17, <1>18, <1>19 DEF Serves
<1> QED BY <1>19, <1>20, Served DEF OneAtATime

LEMMA ProcessKeepsInv ==
    ASSUME OneAtATime, TenantInv, T!Startup \/ T!StartOne \/ T!Started \/ T!Restart
    PROVE  TenantInv'
<1>1. DOMAIN tenant \subseteq T!Ids
  BY DEF TenantInv, T!Ids, OneAtATime
<1>3. CASE T!Startup
  <2>1. /\ manager = "new" /\ manager' = "starting" /\ \A r \in Requests : req[r] = T!Idle
        /\ todo' = {t \in DOMAIN tenant : tenant[t].active /\ ~tenant[t].deleted}
        /\ UNCHANGED <<tenant, running, excused, req>>
    BY <1>3 DEF T!Startup
  <2>2. \A r \in Requests : ReqSound(req[r])'
    BY <2>1, BeganSound
  <2>3. ASSUME NEW t \in DOMAIN tenant
        PROVE  RunsFor(t)' /\ (t \notin todo' => RunsAt(t)')
    <3>1. running'[t] = NoToken
      BY <1>1, <2>1 DEF TenantInv
    <3>2. t \notin todo' => ~Live(t)'
      BY <2>1 DEF Live
    <3> QED BY <3>1, <3>2 DEF RunsFor, RunsAt
  <2>4. todo' \subseteq DOMAIN tenant /\ \A t \in todo' : Live(t)'
    BY <2>1 DEF Live
  <2>5. tenant' = tenant /\ running' = running /\ req' = req
    BY <2>1
  <2> QED BY <2>1, <2>2, <2>3, <2>4, <2>5 DEF TenantInv
<1>4. CASE T!StartOne
  <2>1. PICK t \in todo : /\ T!Registered(t, tenant[t].token) \/ T!NotRegistered(t)
                          /\ todo' = todo \ {t}
    BY <1>4 DEF T!StartOne
  <2>2. manager = "starting" /\ UNCHANGED <<tenant, manager, req>>
    BY <1>4 DEF T!StartOne
  <2>3. t \in DOMAIN tenant /\ t \in T!Ids /\ Live(t) /\ tenant[t].token \in Tokens
        /\ \A r \in Requests : req[r] = T!Idle
    BY <1>1, <2>2 DEF TenantInv, RowSound, Live
  <2>4. /\ running' \in [T!Ids -> Tokens \cup {NoToken}]
        /\ \A u \in T!Ids \ {t} : running'[u] = running[u] /\ (u \in excused' <=> u \in excused)
    BY <2>1, <2>3 DEF T!Registered, T!NotRegistered, TenantInv
  <2>5. RunsFor(t) /\ \A u : Live(u)' <=> Live(u)
    BY <2>2, <2>3 DEF TenantInv, Live
  <2>6. RunsFor(t)' /\ RunsAt(t)'
    <3>1. CASE T!Registered(t, tenant[t].token)
      <4>1. running'[t] = tenant[t].token
        BY <2>3, <3>1 DEF T!Registered, TenantInv
      <4> QED BY <2>2, <2>3, <2>5, <4>1 DEF RunsFor, RunsAt, OneAtATime
    <3>2. CASE T!NotRegistered(t)
      BY <2>2, <2>5, <3>2 DEF T!NotRegistered, RunsFor, RunsAt
    <3> QED BY <2>1, <3>1, <3>2
  <2>7. ASSUME NEW u \in DOMAIN tenant
        PROVE  RunsFor(u)' /\ (u \notin todo' => RunsAt(u)')
    <3>1. CASE u = t
      BY <2>6, <3>1
    <3>2. CASE u # t
      <4>1. RunsFor(u) /\ (u \notin todo => RunsAt(u)) /\ (u \in todo <=> u \in todo')
        BY <2>1, <2>2, <3>2 DEF TenantInv
      <4>2. running'[u] = running[u] /\ (u \in excused' <=> u \in excused) /\ tenant'[u] = tenant[u]
        BY <1>1, <2>2, <2>4, <3>2
      <4> QED BY <2>5, <4>1, <4>2 DEF RunsFor, RunsAt
    <3> QED BY <3>1, <3>2
  <2>8. todo' \subseteq DOMAIN tenant /\ \A u \in todo' : Live(u)'
    BY <2>1, <2>2, <2>5 DEF TenantInv
  <2>9. \A u \in T!Ids \ DOMAIN tenant : running'[u] = NoToken
    BY <2>3, <2>4 DEF TenantInv
  <2>10. \A r \in Requests : ReqSound(req[r])'
    BY <2>2, <2>3, BeganSound
  <2>11. tenant' = tenant /\ req' = req /\ manager' = "starting"
    BY <2>2
  <2> QED BY <2>3, <2>4, <2>7, <2>8, <2>9, <2>10, <2>11 DEF TenantInv
<1>5. CASE T!Started
  <2>1. manager = "starting" /\ todo = {} /\ manager' = "ready"
        /\ tenant' = tenant /\ running' = running /\ req' = req /\ excused' = excused
    BY <1>5 DEF T!Started
  <2>2. \A r \in Requests : req[r] = T!Idle /\ ReqSound(req[r])'
    BY <2>1, BeganSound DEF TenantInv
  <2>3. \A t \in DOMAIN tenant : RunsFor(t) /\ RunsAt(t)
    BY <2>1 DEF TenantInv
  <2>4. \A t \in DOMAIN tenant : RunsFor(t)' /\ RunsAt(t)'
    BY <2>1, <2>3 DEF RunsFor, RunsAt, Live
  <2> QED BY <2>1, <2>2, <2>4 DEF TenantInv
<1>6. CASE T!Restart
  <2>1. /\ running' = [t \in T!Ids |-> NoToken] /\ req' = [r \in Requests |-> T!Idle]
        /\ manager' = "new" /\ tenant' = tenant
    BY <1>6 DEF T!Restart
  <2>2. \A r \in Requests : req'[r] = T!Idle /\ ReqSound(req[r])'
    BY <2>1, BeganSound
  <2> QED BY <2>1, <2>2, BeganSound DEF TenantInv
<1> QED BY <1>3, <1>4, <1>5, <1>6

\* In a started process a bot runs exactly for a live tenant, and with its current token,
\* once no request is about it, when requests about one tenant do not overlap
\* (tenants/routes.py, bot_manager.py).
THEOREM BotsFollowRows ==
    ASSUME OneAtATime
    PROVE  Spec => []BotsMatchRows
<1>1. Init => TenantInv
  <2> SUFFICES ASSUME Init
               PROVE  TenantInv
    OBVIOUS
  <2>1. /\ tenant = <<>> /\ running = [t \in T!Ids |-> NoToken] /\ manager = "new"
        /\ req = [r \in Requests |-> T!Idle]
    BY DEF Init, T!Init
  <2>2. tenant \in Seq(RowType) /\ Len(tenant) <= MaxRows /\ DOMAIN tenant = {}
    BY <2>1 DEF OneAtATime
  <2> QED BY <2>1, <2>2, BeganSound DEF TenantInv
<1>2. TenantInv /\ [Next]_vars => TenantInv'
  <2> SUFFICES ASSUME TenantInv, [Next]_vars
               PROVE  TenantInv'
    OBVIOUS
  <2>1. CASE UNCHANGED tenantVars
    <3>1. UNCHANGED <<tenant, running, manager, todo, excused, req>>
      BY <2>1 DEF tenantVars
    <3>2. \A r \in Requests : ReqSound(req[r])'
      BY <3>1 DEF TenantInv, ReqSound, Live, RunsFor
    <3>3. \A t : (RunsFor(t)' <=> RunsFor(t)) /\ (RunsAt(t)' <=> RunsAt(t)) /\ (Live(t)' <=> Live(t))
                 /\ (InStep(t)' <=> InStep(t))
      BY <3>1 DEF RunsFor, RunsAt, Live, InStep
    <3> QED BY <3>1, <3>2, <3>3 DEF TenantInv
  <2>2. CASE T!Next
    <3>1. ASSUME NEW r \in Requests,
                 T!Create(r) \/ T!Insert(r) \/ T!Ask(r) \/ T!Verify(r) \/ T!Write(r)
                 \/ T!Stop(r) \/ T!Start(r) \/ T!Hook(r)
          PROVE  TenantInv'
      BY <3>1, CreatesKeepInv, AskKeepsInv, VerifyKeepsInv, WriteKeepsInv, StopKeepsInv,
         StartKeepsInv, HookKeepsInv DEF OneAtATime
    <3> QED BY <2>2, <3>1, ProcessKeepsInv DEF T!Next
  <2> QED BY <2>1, <2>2, OneScene
<1>3. TenantInv => BotsMatchRows
  <2> SUFFICES ASSUME TenantInv, manager = "ready", NEW t \in DOMAIN tenant, T!Settled(t)
               PROVE  /\ running[t] # NoToken => Live(t) /\ running[t] = tenant[t].token
                      /\ Live(t) /\ t \notin excused => running[t] # NoToken
    BY DEF BotsMatchRows, T!BotsMatchRows, Live
  <2>1. InStep(t)
    BY DEF InStep, T!Settled
  <2> QED BY <2>1 DEF TenantInv, RunsFor, RunsAt
<1> QED BY <1>1, <1>2, <1>3, PTL DEF Spec

------------------------------------------------------------------------------
\* Broadcasts

\* Among some subsets of a finite set there is a smallest one.
LEMMA Smallest ==
    ASSUME NEW C, IsFiniteSet(C), NEW Bad, Bad \subseteq SUBSET C, Bad # {}
    PROVE  \E X \in Bad : \A V \in SUBSET X : V # X => V \notin Bad
<1>1. IsWellFoundedOn(StrictSubsetOrdering(C), FiniteSubsetsOf(C))
  BY FS_StrictSubsetOrderingWellFounded
<1>2. FiniteSubsetsOf(C) = SUBSET C
  BY FS_FiniteSubsetsOfFinite
<1>3. PICK X \in Bad : \A V \in Bad : ~(<<V, X>> \in StrictSubsetOrdering(C))
  BY <1>1, <1>2, WFMin
<1>4. ASSUME NEW V \in SUBSET X, V # X, V \in Bad
      PROVE  FALSE
  <2>1. V \in SUBSET C /\ X \in SUBSET C
    BY <1>4
  <2>2. <<V, X>> \in StrictSubsetOrdering(C)
    BY <1>4, <2>1 DEF StrictSubsetOrdering
  <2> QED BY <1>3, <1>4, <2>2
<1> QED BY <1>3, <1>4

\* Some numbers have a greatest.
LEMMA Greatest ==
    ASSUME NEW C, IsFiniteSet(C), C \subseteq Nat, C # {}
    PROVE  \E m \in C : \A n \in C : n <= m
<1> DEFINE Bad == {X \in SUBSET C : X # {} /\ ~ \E m \in X : \A n \in X : n <= m}
<1>1. SUFFICES ASSUME Bad # {}
               PROVE  FALSE
  OBVIOUS
<1>2. PICK X \in Bad : \A V \in SUBSET X : V # X => V \notin Bad
  <2>1. Bad \subseteq SUBSET C
    OBVIOUS
  <2> HIDE DEF Bad
  <2> QED BY <1>1, <2>1, Smallest
<1>3. PICK x \in X : TRUE
  BY <1>2
<1>4. CASE X = {x}
  <2>1. \A n \in X : n <= x
    BY <1>4
  <2> QED BY <1>2, <1>3, <2>1
<1>5. CASE X # {x}
  <2>1. X \ {x} \in SUBSET X /\ X \ {x} # X /\ X \ {x} # {} /\ X \ {x} \in SUBSET C
    BY <1>3, <1>5
  <2>2. PICK m \in X \ {x} : \A n \in X \ {x} : n <= m
    BY <1>2, <2>1
  <2>3. m \in Nat /\ x \in Nat /\ X \subseteq Nat
    BY <1>3, <2>2
  <2>4. CASE x <= m
    <3>1. \A n \in X : n <= m
      BY <2>2, <2>4
    <3> QED BY <1>2, <2>2, <3>1
  <2>5. CASE m <= x
    <3>1. \A n \in X : n <= x
      BY <2>2, <2>3, <2>5
    <3> QED BY <1>2, <1>3, <3>1
  <2> QED BY <2>3, <2>4, <2>5
<1> QED BY <1>4, <1>5

Listing(f, C) ==
    /\ f \in [1 .. Cardinality(C) -> C]
    /\ \A x \in C : \E i \in 1 .. Cardinality(C) : f[i] = x
    /\ \A i, j \in 1 .. Cardinality(C) : i < j => f[i] < f[j]

LEMMA ListingExists ==
    ASSUME NEW C, IsFiniteSet(C), C \subseteq Nat
    PROVE  \E f : Listing(f, C)
<1> DEFINE Bad == {X \in SUBSET C : ~ \E f : Listing(f, X)}
<1>1. SUFFICES ASSUME Bad # {}
               PROVE  FALSE
  OBVIOUS
<1>2. PICK X \in Bad : \A V \in SUBSET X : V # X => V \notin Bad
  <2>1. Bad \subseteq SUBSET C
    OBVIOUS
  <2> HIDE DEF Bad
  <2> QED BY <1>1, <2>1, Smallest
<1>3. IsFiniteSet(X) /\ X \subseteq Nat /\ ~ \E f : Listing(f, X)
  <2>1. X \subseteq C
    BY <1>2
  <2> QED BY <1>2, <2>1, FS_Subset
<1>4. X # {}
  <2>1. Listing([i \in 1 .. 0 |-> i], {})
    <3>1. Cardinality({}) = 0
      BY FS_EmptySet
    <3> QED BY <3>1 DEF Listing
  <2> QED BY <1>3, <2>1
<1>5. PICK m \in X : \A n \in X : n <= m
  BY <1>3, <1>4, Greatest
<1>6. PICK V : V = X \ {m}
  OBVIOUS
<1>7. PICK g : Listing(g, V)
  <2>1. V \in SUBSET X /\ V # X /\ V \in SUBSET C
    BY <1>2, <1>5, <1>6
  <2> QED BY <1>2, <2>1
<1>8. PICK n : n = Cardinality(V)
  OBVIOUS
<1>9. n \in Nat /\ Cardinality(X) = n + 1
  <2>1. IsFiniteSet(V) /\ Cardinality(V) = Cardinality(X) - 1
    BY <1>3, <1>5, <1>6, FS_RemoveElement
  <2>2. Cardinality(X) \in Nat /\ Cardinality(V) \in Nat
    BY <1>3, <2>1, FS_CardinalityType
  <2> QED BY <1>8, <2>1, <2>2
<1>10. PICK f : f = [i \in 1 .. (n + 1) |-> IF i <= n THEN g[i] ELSE m]
  OBVIOUS
<1>11. \A i \in 1 .. n : i \in 1 .. (n + 1) /\ f[i] = g[i] /\ g[i] \in V
  BY <1>7, <1>8, <1>9, <1>10 DEF Listing
<1>12. f[n + 1] = m /\ n + 1 \in 1 .. (n + 1)
  BY <1>9, <1>10
<1>13. \A i \in 1 .. (n + 1) : i \in 1 .. n \/ i = n + 1
  BY <1>9
<1>14. f \in [1 .. (n + 1) -> X]
  <2>1. \A i \in 1 .. (n + 1) : f[i] \in X
    BY <1>5, <1>6, <1>11, <1>12, <1>13
  <2> QED BY <1>10, <2>1
<1>15. \A x \in X : \E i \in 1 .. (n + 1) : f[i] = x
  <2> SUFFICES ASSUME NEW x \in X
               PROVE  \E i \in 1 .. (n + 1) : f[i] = x
    OBVIOUS
  <2>1. CASE x = m
    BY <1>12, <2>1
  <2>2. CASE x # m
    <3>1. PICK i \in 1 .. n : g[i] = x
      BY <1>6, <1>7, <1>8, <2>2 DEF Listing
    <3> QED BY <1>11, <3>1
  <2> QED BY <2>1, <2>2
<1>16. ASSUME NEW i \in 1 .. (n + 1), NEW j \in 1 .. (n + 1), i < j
       PROVE  f[i] < f[j]
  <2>1. i \in 1 .. n
    BY <1>9, <1>16
  <2>2. CASE j \in 1 .. n
    BY <1>7, <1>8, <1>11, <1>16, <2>1, <2>2 DEF Listing
  <2>3. CASE j = n + 1
    <3>1. f[i] \in X /\ f[i] # m
      BY <1>6, <1>11, <2>1
    <3>2. f[i] <= m /\ f[i] \in Nat /\ m \in Nat
      BY <1>3, <1>5, <3>1
    <3> QED BY <1>12, <2>3, <3>1, <3>2
  <2> QED BY <1>13, <2>2, <2>3
<1>17. Listing(f, X)
  BY <1>9, <1>14, <1>15, <1>16 DEF Listing
<1> QED BY <1>3, <1>17

Members(s) == {s[i] : i \in DOMAIN s}
Distinct(s) == \A i, j \in DOMAIN s : s[i] = s[j] => i = j

\* ORDER BY id: a list of exactly the set, each once.
LEMMA InOrderIs ==
    ASSUME NEW C, IsFiniteSet(C), C \subseteq Nat
    PROVE  /\ B!InOrder(C) \in Seq(C)
           /\ Members(B!InOrder(C)) = C
           /\ Distinct(B!InOrder(C))
<1>1. PICK n : n = Cardinality(C)
  OBVIOUS
<1>2. n \in Nat
  BY <1>1, FS_CardinalityType
<1>3. B!InOrder(C) = CHOOSE f \in [1 .. n -> C] :
                        {f[i] : i \in DOMAIN f} = C /\ \A i, j \in DOMAIN f : i < j => f[i] < f[j]
  BY <1>1 DEF B!InOrder, B!ToSet, B!Cardinality, Cardinality
<1>4. \E f \in [1 .. n -> C] :
         {f[i] : i \in DOMAIN f} = C /\ \A i, j \in DOMAIN f : i < j => f[i] < f[j]
  <2>1. PICK f : Listing(f, C)
    BY ListingExists
  <2>2. f \in [1 .. n -> C] /\ DOMAIN f = 1 .. n
    BY <1>1, <2>1 DEF Listing
  <2>3. {f[i] : i \in DOMAIN f} = C
    <3>1. \A x \in C : \E i \in DOMAIN f : f[i] = x
      BY <1>1, <2>1, <2>2 DEF Listing
    <3>2. \A i \in DOMAIN f : f[i] \in C
      BY <2>2
    <3> QED BY <3>1, <3>2, Zenon
  <2>4. \A i, j \in DOMAIN f : i < j => f[i] < f[j]
    BY <1>1, <2>1, <2>2 DEF Listing
  <2> QED BY <2>2, <2>3, <2>4
<1>5. PICK f : f = B!InOrder(C)
  OBVIOUS
<1>6. /\ f \in [1 .. n -> C] /\ {f[i] : i \in DOMAIN f} = C
      /\ \A i, j \in DOMAIN f : i < j => f[i] < f[j]
  BY <1>3, <1>4, <1>5
<1>7. f \in Seq(C)
  BY <1>2, <1>6
<1>8. Distinct(f)
  <2> SUFFICES ASSUME NEW i \in 1 .. n, NEW j \in 1 .. n, f[i] = f[j], i # j
               PROVE  FALSE
    BY <1>6 DEF Distinct
  <2>1. i < j \/ j < i
    OBVIOUS
  <2>2. PICK x \in Nat : x = f[i] /\ x = f[j]
    BY <1>6
  <2>3. x < x
    BY <1>6, <2>1, <2>2
  <2> QED BY <2>3
<1> QED BY <1>5, <1>6, <1>7, <1>8 DEF Members

\* What is left of such a list.
LEMMA TailIs ==
    ASSUME NEW C, NEW s \in Seq(C), Distinct(s), s # <<>>
    PROVE  /\ Head(s) \in C /\ Head(s) \in Members(s) /\ Tail(s) \in Seq(C)
           /\ Distinct(Tail(s))
           /\ Members(Tail(s)) = Members(s) \ {Head(s)}
<1>1. PICK n : n = Len(s)
  OBVIOUS
<1>2. /\ n \in Nat /\ n > 0 /\ DOMAIN s = 1 .. n /\ Head(s) = s[1] /\ s[1] \in C
      /\ Tail(s) \in Seq(C) /\ DOMAIN Tail(s) = 1 .. (n - 1)
      /\ \A i \in 1 .. (n - 1) : Tail(s)[i] = s[i + 1]
  BY <1>1, HeadTailProperties, EmptySeq
<1>3. \A i \in 1 .. (n - 1) : i + 1 \in 1 .. n /\ i + 1 # 1
  BY <1>2
<1>4. Distinct(Tail(s))
  <2> SUFFICES ASSUME NEW i \in 1 .. (n - 1), NEW j \in 1 .. (n - 1), Tail(s)[i] = Tail(s)[j]
               PROVE  i = j
    BY <1>2 DEF Distinct
  <2>1. i + 1 = j + 1
    BY <1>2, <1>3 DEF Distinct
  <2> QED BY <2>1
<1>5. Members(Tail(s)) \subseteq Members(s) \ {Head(s)}
  <2> SUFFICES ASSUME NEW i \in 1 .. (n - 1)
               PROVE  Tail(s)[i] \in Members(s) \ {Head(s)}
    BY <1>2 DEF Members
  <2>1. s[i + 1] # s[1] /\ 1 \in 1 .. n
    BY <1>2, <1>3 DEF Distinct
  <2> QED BY <1>2, <1>3, <2>1 DEF Members
<1>6. ASSUME NEW x \in Members(s), x # Head(s)
      PROVE  x \in Members(Tail(s))
  <2>1. PICK i \in 1 .. n : s[i] = x
    BY <1>2 DEF Members
  <2>2. i # 1
    BY <1>2, <1>6, <2>1
  <2>3. i - 1 \in 1 .. (n - 1) /\ (i - 1) + 1 = i
    BY <1>2, <2>2
  <2>4. Tail(s)[i - 1] = x
    BY <1>2, <2>1, <2>3
  <2> QED BY <1>2, <2>3, <2>4 DEF Members
<1>7. Head(s) \in Members(s)
  <2>1. 1 \in 1 .. n
    BY <1>2
  <2> QED BY <1>2, <2>1 DEF Members
<1> QED BY <1>2, <1>4, <1>5, <1>6, <1>7

------------------------------------------------------------------------------
\* Conditions: the broadcasts have numbers, and one run at a time.
OneRun == MaxCasts \in Nat /\ \A v, w \in Runs : v = w

\* The rows of a listing that were tried, by how it went.
Marked(b, how) == {i \in DOMAIN result[b] : result[b][i] = how}

\* What a completed broadcast reports.
Exact(b, sent, failed) ==
    /\ sent = Cardinality(Marked(b, "sent")) /\ failed = Cardinality(Marked(b, "failed"))
    /\ \A i \in Marked(b, "sent") : listing[b][i] \in reached[b]

CastRow == [segment : B!Segments, status : {"pending", "completed"}, sent : Nat, failed : Nat]
CastType ==
    /\ cast \in Seq(CastRow) /\ Len(cast) <= MaxCasts
    /\ reached \in [B!Casts -> SUBSET Readers]
    /\ listing \in [B!Casts -> Seq(Readers)]
    /\ result \in [B!Casts -> Seq({"sent", "failed"})]
    /\ DOMAIN run = Runs

Waiting(b) == b \in DOMAIN cast /\ cast[b].status = "pending"

RowsSound ==
    \A b \in DOMAIN cast :
        /\ cast[b].status = "pending" => cast[b].sent = 0 /\ cast[b].failed = 0
        /\ cast[b].status = "completed" =>
              Exact(b, cast[b].sent, cast[b].failed) /\ Len(result[b]) = Len(listing[b])

\* A delivery: the rows left are the end of its listing, those before have been tried, and
\* the counters say with what result.
Delivery(r, b) ==
    /\ Waiting(b)
    /\ r.left \in Seq(Readers)
    /\ Len(listing[b]) = Len(result[b]) + Len(r.left)
    /\ \A i \in 1 .. Len(r.left) : r.left[i] = listing[b][Len(result[b]) + i]
    /\ r.sent \in Nat /\ r.failed \in Nat /\ r.bsent \in Nat /\ r.bfailed \in Nat
    /\ Exact(b, r.sent + r.bsent, r.failed + r.bfailed)

RunFields(r) == DOMAIN r = DOMAIN B!Idle
RunSound(r) ==
    /\ RunFields(r)
    /\ r.todo \in Seq(Nat) /\ Distinct(r.todo) /\ \A b \in Members(r.todo) : Waiting(b)
    /\ r.at \in {"idle", "next", "send"}
    /\ r.at = "send" => r.todo # <<>> /\ Delivery(r, Head(r.todo))

CastInv == CastType /\ RowsSound /\ \A w \in Runs : RunSound(run[w])

LEMMA RowNumbers ==
    ASSUME MaxCasts \in Nat, CastType
    PROVE  DOMAIN cast = 1 .. Len(cast) /\ Len(cast) \in Nat /\ DOMAIN cast \subseteq B!Casts
BY DEF CastType, B!Casts

\* What depends on the histories alone.
LEMMA SameHistory ==
    ASSUME UNCHANGED <<reached, listing, result>>
    PROVE  /\ \A b, s, f : Exact(b, s, f)' <=> Exact(b, s, f)
           /\ \A b, how : Marked(b, how)' = Marked(b, how)
BY DEF Exact, Marked

\* The next row's outcome is noted.
LEMMA MarkingOne ==
    ASSUME CastType, NEW b \in B!Casts, NEW how \in {"sent", "failed"},
           result' = [result EXCEPT ![b] = Append(@, how)]
    PROVE  /\ result' \in [B!Casts -> Seq({"sent", "failed"})]
           /\ Len(result[b]) \in Nat /\ Len(result'[b]) = Len(result[b]) + 1
           /\ Marked(b, how)' = Marked(b, how) \cup {Len(result[b]) + 1}
           /\ \A other : other # how => Marked(b, other)' = Marked(b, other)
           /\ Cardinality(Marked(b, how)') = Cardinality(Marked(b, how)) + 1
           /\ \A a \in B!Casts : a # b => result'[a] = result[a]
<1>1. PICK old : old = result[b]
  OBVIOUS
<1>2. PICK new : new = Append(old, how)
  OBVIOUS
<1>3. PICK n : n = Len(old)
  OBVIOUS
<1>4. old \in Seq({"sent", "failed"}) /\ n \in Nat /\ DOMAIN old = 1 .. n
  BY <1>1, <1>3 DEF CastType
<1>5. /\ new \in Seq({"sent", "failed"}) /\ Len(new) = n + 1 /\ DOMAIN new = 1 .. (n + 1)
      /\ new[n + 1] = how /\ \A i \in 1 .. n : new[i] = old[i]
  BY <1>2, <1>3, <1>4, AppendProperties
<1>6. /\ result' \in [B!Casts -> Seq({"sent", "failed"})] /\ result'[b] = new
      /\ \A a \in B!Casts : a # b => result'[a] = result[a]
  BY <1>1, <1>2, <1>5 DEF CastType
<1>7. \A h : Marked(b, h) = {i \in 1 .. n : old[i] = h}
  BY <1>1, <1>4 DEF Marked
<1>8. \A h : Marked(b, h)' = {i \in 1 .. (n + 1) : new[i] = h}
  BY <1>5, <1>6 DEF Marked
<1>9. \A h, i : i \in Marked(b, h)' <=> i \in Marked(b, h) \/ (i = n + 1 /\ h = how)
  BY <1>4, <1>5, <1>7, <1>8
<1>10. /\ Marked(b, how)' = Marked(b, how) \cup {n + 1}
       /\ \A other : other # how => Marked(b, other)' = Marked(b, other)
  <2>1. Marked(b, how)' = Marked(b, how) \cup {n + 1}
    BY <1>9
  <2>2. ASSUME NEW other, other # how
        PROVE  Marked(b, other)' = Marked(b, other)
    <3>1. PICK rest : rest = {i \in 1 .. n : old[i] = other}
      OBVIOUS
    <3>2. rest = {i \in 1 .. (n + 1) : new[i] = other}
      BY <1>4, <1>5, <2>2, <3>1
    <3> QED BY <1>7, <1>8, <3>1, <3>2, Zenon
  <2> QED BY <2>1, <2>2
<1>11. n + 1 \notin Marked(b, how) /\ IsFiniteSet(Marked(b, how))
  <2>1. Marked(b, how) \subseteq 1 .. n /\ IsFiniteSet(1 .. n)
    BY <1>4, <1>7, FS_Interval
  <2>2. n + 1 \notin 1 .. n
    BY <1>4
  <2> QED BY <2>1, <2>2, FS_Subset
<1>12. Cardinality(Marked(b, how) \cup {n + 1}) = Cardinality(Marked(b, how)) + 1
  BY <1>11, FS_AddElement
<1> QED BY <1>1, <1>3, <1>4, <1>5, <1>6, <1>10, <1>12

\* A run that delivers nothing is not disturbed, as long as what waits goes on waiting.
LEMMA RunStays ==
    ASSUME NEW r, RunSound(r), r.at # "send", \A b : Waiting(b) => Waiting(b)'
    PROVE  RunSound(r)'
BY DEF RunSound

\* A delivery is not disturbed by what leaves the histories alone.
LEMMA AllRunsStay ==
    ASSUME CastInv, UNCHANGED <<run, reached, listing, result>>, \A b : Waiting(b) => Waiting(b)'
    PROVE  \A w \in Runs : RunSound(run[w])'
<1> SUFFICES ASSUME NEW w \in Runs
             PROVE  RunSound(run[w])'
  OBVIOUS
<1>1. PICK r : r = run[w]
  OBVIOUS
<1>2. RunSound(r)
  BY <1>1 DEF CastInv
<1>3. \A b : Delivery(r, b) => Delivery(r, b)'
  BY SameHistory DEF Delivery
<1>4. RunSound(r)'
  BY <1>2, <1>3 DEF RunSound
<1> QED BY <1>1, <1>4 DEF RunSound, Delivery

LEMMA CreateBroadcastKeepsInv ==
    ASSUME OneRun, CastInv, B!CreateBroadcast
    PROVE  CastInv'
<1>1. PICK s \in B!Segments :
        cast' = Append(cast, [segment |-> s, status |-> "pending", sent |-> 0, failed |-> 0])
  BY DEF B!CreateBroadcast
<1>2. PICK new : new = [segment |-> s, status |-> "pending", sent |-> 0, failed |-> 0]
  OBVIOUS
<1>3. /\ Len(cast) < MaxCasts /\ cast' = Append(cast, new)
      /\ UNCHANGED <<run, reached, listing, result>>
  BY <1>1, <1>2 DEF B!CreateBroadcast
<1>4. /\ DOMAIN cast' = DOMAIN cast \cup {Len(cast) + 1} /\ Len(cast) + 1 \notin DOMAIN cast
      /\ cast'[Len(cast) + 1] = new /\ \A b \in DOMAIN cast : cast'[b] = cast[b]
  BY <1>3 DEF CastInv, CastType
<1>5. CastType'
  <2>1. new \in CastRow
    BY <1>2 DEF CastRow
  <2> QED BY <1>3, <2>1 DEF CastInv, CastType, OneRun, CastRow
<1>6. RowsSound'
  <2>1. new.status = "pending" /\ new.sent = 0 /\ new.failed = 0
    BY <1>2
  <2> QED BY <1>3, <1>4, <2>1, SameHistory DEF CastInv, RowsSound
<1>7. \A b : Waiting(b) => Waiting(b)'
  BY <1>4 DEF Waiting
<1> QED BY <1>3, <1>5, <1>6, <1>7, AllRunsStay DEF CastInv

\* Steps that leave the broadcasts and their deliveries alone.
LEMMA CastStays ==
    ASSUME CastInv, UNCHANGED <<cast, run, reached, listing, result>>
    PROVE  CastInv'
<1>1. CastType'
  BY DEF CastInv, CastType
<1>2. RowsSound'
  BY SameHistory DEF CastInv, RowsSound
<1>3. \A b : Waiting(b) => Waiting(b)'
  BY DEF Waiting
<1> QED BY <1>1, <1>2, <1>3, AllRunsStay DEF CastInv

\* A step of the one run that leaves the table and the results alone.  A message
\* may have arrived.
LEMMA RunMoves ==
    ASSUME OneRun, CastInv, NEW w \in Runs, NEW new, run' = [run EXCEPT ![w] = new],
           RunSound(new)', UNCHANGED <<cast, listing, result>>,
           reached' \in [B!Casts -> SUBSET Readers],
           \A b \in B!Casts : reached[b] \subseteq reached'[b]
    PROVE  CastInv'
<1>1. CastType'
  BY DEF CastInv, CastType
<1>2. \A b \in B!Casts : \A s, f : Exact(b, s, f) => Exact(b, s, f)'
  BY DEF Exact, Marked
<1>3. RowsSound'
  <2>1. DOMAIN cast \subseteq B!Casts
    BY RowNumbers DEF OneRun, CastInv
  <2> QED BY <1>2, <2>1 DEF CastInv, RowsSound
<1>4. \A v \in Runs : run'[v] = new
  BY DEF OneRun, CastInv, CastType
<1>5. \A v \in Runs : RunSound(run[v])'
  BY <1>4 DEF RunSound, Delivery
<1> QED BY <1>1, <1>3, <1>5 DEF CastInv

\* A broadcast that is not being delivered reports what it reported.
LEMMA OthersReport ==
    ASSUME OneRun, CastInv, NEW b, Waiting(b), UNCHANGED cast,
           \A a \in B!Casts : a # b => /\ result'[a] = result[a] /\ listing'[a] = listing[a]
                                       /\ reached[a] \subseteq reached'[a]
    PROVE  RowsSound'
<1> SUFFICES ASSUME NEW a \in DOMAIN cast
             PROVE  /\ cast[a].status = "pending" => cast[a].sent = 0 /\ cast[a].failed = 0
                    /\ cast[a].status = "completed" =>
                          /\ Exact(a, cast[a].sent, cast[a].failed)'
                          /\ Len(result'[a]) = Len(listing'[a])
  BY DEF RowsSound, Exact, Marked
<1>1. a \in B!Casts
  BY RowNumbers DEF OneRun, CastInv
<1>2. /\ cast[a].status = "pending" => cast[a].sent = 0 /\ cast[a].failed = 0
      /\ cast[a].status = "completed" =>
            Exact(a, cast[a].sent, cast[a].failed) /\ Len(result[a]) = Len(listing[a])
  BY Zenon DEF CastInv, RowsSound
<1>3. SUFFICES ASSUME cast[a].status = "completed"
               PROVE  /\ Exact(a, cast[a].sent, cast[a].failed)'
                      /\ Len(result'[a]) = Len(listing'[a])
  BY <1>2, Zenon
<1>4. a # b
  BY <1>3 DEF Waiting
<1>5. result'[a] = result[a] /\ listing'[a] = listing[a] /\ reached[a] \subseteq reached'[a]
  BY <1>1, <1>4
<1>6. Exact(a, cast[a].sent, cast[a].failed)'
  BY <1>2, <1>3, <1>5 DEF Exact, Marked
<1> QED BY <1>2, <1>3, <1>5, <1>6

LEMMA LoadKeepsInv ==
    ASSUME OneRun, CastInv, NEW w \in Runs, B!Begin(w)
    PROVE  CastInv'
<1>1. PICK due : due = {b \in DOMAIN cast : cast[b].status = "pending"}
  OBVIOUS
<1>2. PICK new : new = [B!Idle EXCEPT !.at = "next", !.todo = B!InOrder(due)]
  OBVIOUS
<1>3. run' = [run EXCEPT ![w] = new] /\ UNCHANGED <<cast, reached, listing, result>>
  BY <1>1, <1>2 DEF B!Begin
<1>4. new.at = "next" /\ new.todo = B!InOrder(due)
  BY <1>2 DEF B!Idle
<1>5. IsFiniteSet(due) /\ due \subseteq Nat
  <2>1. DOMAIN cast = 1 .. Len(cast) /\ Len(cast) \in Nat
    BY RowNumbers DEF OneRun, CastInv
  <2>2. IsFiniteSet(1 .. Len(cast))
    BY <2>1, FS_Interval
  <2>3. due \subseteq 1 .. Len(cast)
    BY <1>1, <2>1
  <2>4. IsFiniteSet(due)
    BY <2>2, <2>3, FS_Subset
  <2> QED BY <2>1, <2>3, <2>4
<1>6. new.todo \in Seq(due) /\ Members(new.todo) = due /\ Distinct(new.todo)
  BY <1>4, <1>5, InOrderIs
<1>7. new.todo \in Seq(Nat)
  <2>1. PICK s \in Seq(due) : s = new.todo
    BY <1>6
  <2>2. s \in Seq(Nat)
    BY <1>5, SeqMonotonic
  <2> QED BY <2>1, <2>2
<1>8. \A b \in due : Waiting(b)'
  BY <1>1, <1>3 DEF Waiting
<1>9. RunFields(new)
  BY <1>2 DEF RunFields, B!Idle
<1>10. RunSound(new)'
  BY <1>4, <1>6, <1>7, <1>8, <1>9 DEF RunSound
<1> QED BY <1>3, <1>10, RunMoves DEF CastInv, CastType

LEMMA CrashKeepsInv ==
    ASSUME OneRun, CastInv, NEW w \in Runs, B!Crash(w)
    PROVE  CastInv'
<1>1. PICK new : new = B!Idle
  OBVIOUS
<1>2. run' = [run EXCEPT ![w] = new] /\ UNCHANGED <<cast, reached, listing, result>>
  BY <1>1 DEF B!Crash
<1>3. RunSound(new)'
  BY <1>1 DEF RunSound, RunFields, B!Idle, Distinct, Members
<1> QED BY <1>2, <1>3, RunMoves DEF CastInv, CastType

\* A delivery begins: nobody has been tried, and what the query returned is left.
LEMMA DeliverKeepsInv ==
    ASSUME OneRun, CastInv, NEW w \in Runs, B!Deliver(w)
    PROVE  CastInv'
<1>1. PICK r : r = run[w]
  OBVIOUS
<1>2. PICK b : b = Head(r.todo)
  OBVIOUS
<1>3. PICK rows \in B!ResolveSegment(cast[b].segment) :
        /\ run' = [run EXCEPT ![w] = [B!Idle EXCEPT !.at = "send", !.todo = r.todo, !.left = rows]]
        /\ listing' = [listing EXCEPT ![b] = rows]
  BY <1>1, <1>2 DEF B!Deliver
<1>4. PICK new : new = [B!Idle EXCEPT !.at = "send", !.todo = r.todo, !.left = rows]
  OBVIOUS
<1>5. /\ r.todo # <<>>
      /\ run' = [run EXCEPT ![w] = new]
      /\ listing' = [listing EXCEPT ![b] = rows]
      /\ result' = [result EXCEPT ![b] = <<>>]
      /\ UNCHANGED <<cast, reached>>
  BY <1>1, <1>2, <1>3, <1>4 DEF B!Deliver
<1>6. RunSound(r) /\ CastType
  BY <1>1 DEF CastInv
<1>7. b \in Members(r.todo) /\ Waiting(b) /\ b \in B!Casts
  <2>1. b \in Members(r.todo)
    BY <1>2, <1>5, <1>6, TailIs DEF RunSound
  <2>2. Waiting(b)
    BY <1>6, <2>1 DEF RunSound
  <2> QED BY <1>6, <2>1, <2>2, RowNumbers DEF OneRun, Waiting
<1>8. rows \in Seq(Readers)
  <2>1. PICK n \in Nat : rows \in [1 .. n -> Readers]
    BY <1>3 DEF B!ResolveSegment, B!BoundedSeq, B!SeqOf
  <2> QED BY <2>1
<1>9. /\ new.at = "send" /\ new.todo = r.todo /\ new.left = rows
      /\ new.sent = 0 /\ new.failed = 0 /\ new.bsent = 0 /\ new.bfailed = 0
  BY <1>4 DEF B!Idle
<1>10. /\ result' \in [B!Casts -> Seq({"sent", "failed"})] /\ result'[b] = <<>>
       /\ listing' \in [B!Casts -> Seq(Readers)] /\ listing'[b] = rows
       /\ \A a \in B!Casts : a # b => result'[a] = result[a] /\ listing'[a] = listing[a]
  BY <1>5, <1>6, <1>7, <1>8 DEF CastType
<1>11. CastType'
  BY <1>5, <1>6, <1>10 DEF CastType
<1>12. RowsSound'
  BY <1>5, <1>7, <1>10, OthersReport
<1>13. Exact(b, 0, 0)'
  <2>1. Cardinality({}) = 0
    BY FS_EmptySet
  <2>2. \A how : Marked(b, how)' = {}
    BY <1>10 DEF Marked
  <2> QED BY <2>1, <2>2 DEF Exact
<1>14. Delivery(new, b)'
  <2>1. Waiting(b)'
    BY <1>5, <1>7 DEF Waiting
  <2>2. /\ Exact(b, new.sent + new.bsent, new.failed + new.bfailed)'
        /\ new.sent \in Nat /\ new.failed \in Nat /\ new.bsent \in Nat /\ new.bfailed \in Nat
    BY <1>9, <1>13
  <2>3. /\ Len(listing'[b]) = Len(result'[b]) + Len(new.left)
        /\ \A i \in 1 .. Len(new.left) : new.left[i] = listing'[b][Len(result'[b]) + i]
    BY <1>8, <1>9, <1>10
  <2> QED BY <1>8, <1>9, <2>1, <2>2, <2>3 DEF Delivery
<1>15. RunSound(new)'
  <2>1. \A a : Waiting(a)' <=> Waiting(a)
    BY <1>5 DEF Waiting
  <2>2. RunFields(new)
    BY <1>4 DEF RunFields, B!Idle
  <2> QED BY <1>2, <1>5, <1>6, <1>9, <1>14, <2>1, <2>2 DEF RunSound
<1>16. \A v \in Runs : run'[v] = new
  BY <1>5, <1>6 DEF OneRun, CastType
<1>17. \A v \in Runs : RunSound(run[v])'
  BY <1>15, <1>16 DEF RunSound, Delivery
<1> QED BY <1>11, <1>12, <1>17 DEF CastInv

Numbers(r) == r.sent \in Nat /\ r.failed \in Nat /\ r.bsent \in Nat /\ r.bfailed \in Nat
Counts(w, how, new) == new = B!Counted(w, how = "sent")

\* The counters after one more message add up to one more.
LEMMA CountedIs ==
    ASSUME NEW w, NEW r, r = run[w], RunFields(r), NEW how, NEW new, Counts(w, how, new), Numbers(r)
    PROVE  /\ new.at = r.at /\ new.todo = r.todo /\ new.left = Tail(r.left)
           /\ Numbers(new) /\ RunFields(new)
           /\ new.sent + new.bsent = r.sent + r.bsent + (IF how = "sent" THEN 1 ELSE 0)
           /\ new.failed + new.bfailed = r.failed + r.bfailed + (IF how = "sent" THEN 0 ELSE 1)
<1>1. PICK x : x = [r EXCEPT !.left = Tail(@), !.tries = 0, !.n = @ + 1,
                             !.bsent = IF how = "sent" THEN @ + 1 ELSE @,
                             !.bfailed = IF how = "sent" THEN @ ELSE @ + 1]
  OBVIOUS
<1>2. /\ x.at = r.at /\ x.todo = r.todo /\ x.left = Tail(r.left)
      /\ RunFields(x) /\ x.sent = r.sent /\ x.failed = r.failed
      /\ x.bsent = r.bsent + (IF how = "sent" THEN 1 ELSE 0)
      /\ x.bfailed = r.bfailed + (IF how = "sent" THEN 0 ELSE 1)
  <2>1. RunFields(x)
    BY <1>1 DEF RunFields
  <2>2. /\ x.at = r.at /\ x.todo = r.todo /\ x.left = Tail(r.left)
        /\ x.sent = r.sent /\ x.failed = r.failed
    BY <1>1
  <2>3. /\ x.bsent = IF how = "sent" THEN r.bsent + 1 ELSE r.bsent
        /\ x.bfailed = IF how = "sent" THEN r.bfailed ELSE r.bfailed + 1
    BY <1>1 DEF RunFields, B!Idle
  <2> QED BY <2>1, <2>2, <2>3 DEF Numbers
<1>3. PICK full \in BOOLEAN : full <=> x.n % BatchSize # 0
  OBVIOUS
<1>4. new = IF full THEN x
            ELSE [x EXCEPT !.sent = @ + x.bsent, !.failed = @ + x.bfailed, !.bsent = 0, !.bfailed = 0]
  BY <1>1, <1>3 DEF Counts, B!Counted, B!NewBatch
<1>5. CASE full
  BY <1>2, <1>4, <1>5 DEF Numbers
<1>6. CASE ~full
  <2>1. new = [x EXCEPT !.sent = @ + x.bsent, !.failed = @ + x.bfailed, !.bsent = 0, !.bfailed = 0]
    BY <1>4, <1>6
  <2>2. /\ new.at = x.at /\ new.todo = x.todo /\ new.left = x.left
        /\ new.sent = x.sent + x.bsent /\ new.failed = x.failed + x.bfailed
        /\ new.bsent = 0 /\ new.bfailed = 0
    BY <1>2, <2>1 DEF RunFields
  <2>3. RunFields(new)
    BY <1>2, <2>1 DEF RunFields
  <2> QED BY <1>2, <2>2, <2>3 DEF Numbers
<1> QED BY <1>5, <1>6

EndsAs(w, b, u, how) ==
    /\ run' = [run EXCEPT ![w] = B!Counted(w, how = "sent")]
    /\ result' = [result EXCEPT ![b] = Append(@, how)]
    /\ \/ reached' = [reached EXCEPT ![b] = @ \cup {u}]
       \/ how = "failed" /\ UNCHANGED reached
    /\ UNCHANGED <<cast, listing>>

\* One attempt that ends: the row is marked, and counted.
LEMMA EndsKeepsInv ==
    ASSUME OneRun, CastInv, NEW w \in Runs, NEW r, r = run[w], NEW b, b = Head(r.todo),
           NEW u, u = Head(r.left), r.at = "send", r.left # <<>>, NEW how \in {"sent", "failed"},
           EndsAs(w, b, u, how)
    PROVE  CastInv'
<1> USE DEF EndsAs
<1>1. RunSound(r) /\ Delivery(r, b) /\ CastType /\ b \in DOMAIN cast /\ b \in B!Casts
  <2>1. RunSound(r) /\ Delivery(r, b) /\ CastType
    BY DEF CastInv, RunSound
  <2> QED BY <2>1, RowNumbers DEF Delivery, Waiting, OneRun
<1>2. PICK n : n = Len(result[b])
  OBVIOUS
<1>3. /\ r.left \in Seq(Readers) /\ u \in Readers /\ u = r.left[1] /\ Tail(r.left) \in Seq(Readers)
      /\ Len(r.left) \in Nat /\ Len(r.left) > 0 /\ Len(Tail(r.left)) = Len(r.left) - 1
      /\ \A i \in 1 .. (Len(r.left) - 1) : Tail(r.left)[i] = r.left[i + 1]
  <2>1. r.left \in Seq(Readers)
    BY <1>1 DEF Delivery
  <2>2. Len(r.left) \in Nat /\ Len(r.left) > 0
    BY <2>1, EmptySeq
  <2> QED BY <2>1, <2>2, HeadTailProperties
<1>4. /\ result' \in [B!Casts -> Seq({"sent", "failed"})]
      /\ n \in Nat /\ Len(result'[b]) = n + 1
      /\ Marked(b, how)' = Marked(b, how) \cup {n + 1}
      /\ \A other : other # how => Marked(b, other)' = Marked(b, other)
      /\ Cardinality(Marked(b, how)') = Cardinality(Marked(b, how)) + 1
      /\ \A a \in B!Casts : a # b => result'[a] = result[a]
  BY <1>1, <1>2, MarkingOne
<1>5. u = listing[b][n + 1]
  <2>1. 1 \in 1 .. Len(r.left)
    BY <1>3
  <2> QED BY <1>1, <1>2, <1>3, <2>1 DEF Delivery
<1>6. /\ reached' \in [B!Casts -> SUBSET Readers]
      /\ \A a \in B!Casts : reached[a] \subseteq reached'[a]
      /\ how = "sent" => u \in reached'[b]
  <2>1. CASE reached' = [reached EXCEPT ![b] = @ \cup {u}]
    <3>1. \A a \in B!Casts : reached'[a] = IF a = b THEN reached[b] \cup {u} ELSE reached[a]
      BY <1>1, <2>1 DEF CastType
    <3> QED BY <1>1, <1>3, <2>1, <3>1 DEF CastType
  <2>2. CASE how = "failed" /\ UNCHANGED reached
    BY <1>1, <2>2 DEF CastType
  <2> QED BY <2>1, <2>2
<1>7. CastType'
  BY <1>1, <1>4, <1>6 DEF CastType
<1>8. PICK new : new = B!Counted(w, how = "sent")
  OBVIOUS
<1>9. /\ new.at = r.at /\ new.todo = r.todo /\ new.left = Tail(r.left)
      /\ Numbers(new) /\ RunFields(new)
      /\ new.sent + new.bsent = r.sent + r.bsent + (IF how = "sent" THEN 1 ELSE 0)
      /\ new.failed + new.bfailed = r.failed + r.bfailed + (IF how = "sent" THEN 0 ELSE 1)
  <2>1. Counts(w, how, new) /\ Numbers(r) /\ RunFields(r)
    BY <1>1, <1>8 DEF Counts, Numbers, Delivery, RunSound
  <2> QED BY <2>1, CountedIs
<1>10. Exact(b, new.sent + new.bsent, new.failed + new.bfailed)'
  <2>1. Exact(b, r.sent + r.bsent, r.failed + r.bfailed)
    BY <1>1 DEF Delivery
  <2>2. reached[b] \subseteq reached'[b]
    BY <1>1, <1>6
  <2>5. /\ r.sent + r.bsent \in Nat /\ r.failed + r.bfailed \in Nat
        /\ how = "sent" => /\ new.sent + new.bsent = (r.sent + r.bsent) + 1
                           /\ new.failed + new.bfailed = r.failed + r.bfailed
        /\ how = "failed" => /\ new.sent + new.bsent = r.sent + r.bsent
                             /\ new.failed + new.bfailed = (r.failed + r.bfailed) + 1
    BY <1>1, <1>9 DEF Delivery
  <2>3. CASE how = "sent"
    <3>1. Marked(b, "failed")' = Marked(b, "failed")
      BY <1>4, <2>3
    <3>2. \A i \in Marked(b, "sent")' : listing'[b][i] \in reached'[b]
      BY <1>4, <1>5, <1>6, <2>1, <2>2, <2>3 DEF Exact
    <3> QED BY <1>4, <2>1, <2>3, <2>5, <3>1, <3>2 DEF Exact
  <2>4. CASE how = "failed"
    <3>1. Marked(b, "sent")' = Marked(b, "sent")
      BY <1>4, <2>4
    <3>2. \A i \in Marked(b, "sent")' : listing'[b][i] \in reached'[b]
      BY <2>1, <2>2, <3>1 DEF Exact
    <3> QED BY <1>4, <2>1, <2>4, <2>5, <3>1, <3>2 DEF Exact
  <2> QED BY <2>3, <2>4
<1>11. \A a : Waiting(a)' <=> Waiting(a)
  BY DEF Waiting
<1>12. Delivery(new, b)'
  <2>1. Waiting(b)'
    BY <1>1, <1>11 DEF Delivery
  <2>2. Len(listing[b]) = n + Len(r.left) /\ \A i \in 1 .. Len(r.left) : r.left[i] = listing[b][n + i]
    BY <1>1, <1>2 DEF Delivery
  <2>3. Len(listing'[b]) = Len(result'[b]) + Len(new.left)
    <3>1. PICK k, x, y, z : k = Len(r.left) /\ x = Len(listing'[b]) /\ y = Len(result'[b]) /\ z = Len(new.left)
      OBVIOUS
    <3>2. k \in Nat /\ z = k - 1 /\ y = n + 1 /\ n \in Nat
      BY <1>3, <1>4, <1>9, <3>1
    <3>3. x = n + k
      <4>1. listing' = listing
        OBVIOUS
      <4>2. Len(listing[b]) = n + Len(r.left)
        BY <2>2, Zenon
      <4> QED BY <3>1, <4>1, <4>2, Zenon
    <3>4. x = y + z
      BY <3>2, <3>3
    <3> QED BY <3>1, <3>4, Zenon
  <2>4. ASSUME NEW i \in 1 .. Len(new.left)
        PROVE  new.left[i] = listing'[b][Len(result'[b]) + i]
    <3>1. i \in 1 .. (Len(r.left) - 1) /\ i + 1 \in 1 .. Len(r.left)
      BY <1>3, <1>9, <2>4
    <3>2. new.left[i] = listing[b][n + (i + 1)]
      BY <1>3, <1>9, <2>2, <3>1
    <3>3. n + (i + 1) = Len(result'[b]) + i
      <4>1. PICK y : y = Len(result'[b])
        OBVIOUS
      <4>2. y = n + 1 /\ n \in Nat
        BY <1>4, <4>1
      <4>3. n + (i + 1) = y + i
        BY <3>1, <4>2
      <4> QED BY <4>1, <4>3, Zenon
    <3> QED BY <3>2, <3>3
  <2> QED BY <1>3, <1>9, <1>10, <2>1, <2>3, <2>4 DEF Delivery, Numbers
<1>13. RunSound(new)'
  BY <1>1, <1>9, <1>11, <1>12 DEF RunSound
<1>14. \A v \in Runs : RunSound(run[v])'
  <2>1. \A v \in Runs : run'[v] = new
    BY <1>1, <1>8 DEF OneRun, CastType
  <2> QED BY <1>13, <2>1, Zenon DEF RunSound, Delivery
<1>15. RowsSound'
  BY <1>1, <1>4, <1>6, OthersReport DEF Delivery
<1> QED BY <1>7, <1>14, <1>15 DEF CastInv

LEMMA SendKeepsInv ==
    ASSUME OneRun, CastInv, NEW w \in Runs, B!Send(w)
    PROVE  CastInv'
<1>1. PICK r : r = run[w]
  OBVIOUS
<1>2. PICK b, u : b = Head(r.todo) /\ u = Head(r.left)
  OBVIOUS
<1>3. r.at = "send" /\ r.left # <<>> /\ UNCHANGED <<cast, listing>>
  BY <1>1 DEF B!Send
<1> DEFINE Reaches == reached' = [reached EXCEPT ![b] = @ \cup {u}]
           Ends(how) == /\ run' = [run EXCEPT ![w] = B!Counted(w, how = "sent")]
                        /\ result' = [result EXCEPT ![b] = Append(@, how)]
           Retries == /\ run' = [run EXCEPT ![w].tries = @ + 1] /\ UNCHANGED result
                      /\ UNCHANGED reached \/ Reaches
<1>4. \/ Ends("sent") /\ Reaches
      \/ Ends("failed") /\ (UNCHANGED reached \/ Reaches)
      \/ Retries
  BY <1>1, <1>2 DEF B!Send
<1>5. CASE Ends("sent") /\ Reaches
  <2>1. EndsAs(w, b, u, "sent")
    BY <1>3, <1>5 DEF EndsAs
  <2> QED BY <1>1, <1>2, <1>3, <2>1, EndsKeepsInv
<1>6. CASE Ends("failed") /\ (UNCHANGED reached \/ Reaches)
  <2>1. EndsAs(w, b, u, "failed")
    BY <1>3, <1>6 DEF EndsAs
  <2> QED BY <1>1, <1>2, <1>3, <2>1, EndsKeepsInv
<1>7. CASE Retries
  <2>1. PICK new : new = [r EXCEPT !.tries = @ + 1]
    OBVIOUS
  <2>2. run' = [run EXCEPT ![w] = new]
    BY <1>1, <1>7, <2>1
  <2>3. RunSound(r) /\ Delivery(r, b) /\ CastType /\ b \in B!Casts
    <3>1. RunSound(r) /\ Delivery(r, b) /\ CastType
      BY <1>1, <1>2, <1>3 DEF CastInv, RunSound
    <3> QED BY <3>1, RowNumbers DEF Delivery, Waiting, OneRun
  <2>4. u \in Readers
    BY <1>2, <1>3, <2>3, HeadTailProperties DEF Delivery
  <2>5. /\ reached' \in [B!Casts -> SUBSET Readers]
        /\ \A a \in B!Casts : reached[a] \subseteq reached'[a]
    <3>1. CASE Reaches
      <4>1. \A a \in B!Casts : reached'[a] = IF a = b THEN reached[b] \cup {u} ELSE reached[a]
        BY <2>3, <3>1 DEF CastType
      <4> QED BY <2>3, <2>4, <3>1, <4>1 DEF CastType
    <3>2. CASE UNCHANGED reached
      BY <2>3, <3>2 DEF CastType
    <3> QED BY <1>7, <3>1, <3>2
  <2>6. /\ RunFields(new) /\ new.at = r.at /\ new.todo = r.todo /\ new.left = r.left
        /\ new.sent = r.sent /\ new.failed = r.failed
        /\ new.bsent = r.bsent /\ new.bfailed = r.bfailed
    BY <2>1, <2>3 DEF RunSound, RunFields
  <2>7. RunSound(new)'
    <3>1. RunSound(new)
      BY <2>3, <2>6 DEF RunSound, Delivery
    <3>2. \A a : Waiting(a)' <=> Waiting(a)
      BY <1>3 DEF Waiting
    <3>3. Exact(b, r.sent + r.bsent, r.failed + r.bfailed)'
      <4>1. \A how : Marked(b, how)' = Marked(b, how)
        BY <1>7 DEF Marked
      <4>2. listing' = listing /\ reached[b] \subseteq reached'[b]
        BY <1>3, <2>3, <2>5
      <4> QED BY <2>3, <4>1, <4>2 DEF Delivery, Exact
    <3>4. Delivery(new, b)'
      BY <1>3, <1>7, <2>3, <2>6, <3>2, <3>3 DEF Delivery, Marked
    <3> QED BY <1>2, <2>6, <3>1, <3>2, <3>4 DEF RunSound
  <2> QED BY <1>3, <1>7, <2>2, <2>5, <2>7, RunMoves
<1> QED BY <1>4, <1>5, <1>6, <1>7

\* The commit writes the counters, and the broadcast waits no more.
LEMMA CompleteKeepsInv ==
    ASSUME OneRun, CastInv, NEW w \in Runs, B!Complete(w)
    PROVE  CastInv'
<1>1. PICK r : r = run[w]
  OBVIOUS
<1>2. PICK b : b = Head(r.todo)
  OBVIOUS
<1>3. PICK row : row = [cast[b] EXCEPT !.status = "completed",
                                       !.sent = B!Column(r.sent + r.bsent, @),
                                       !.failed = B!Column(r.failed + r.bfailed, @)]
  OBVIOUS
<1>4. PICK new : new = [B!Idle EXCEPT !.at = IF Len(r.todo) = 1 THEN "idle" ELSE "next",
                                      !.todo = Tail(r.todo)]
  OBVIOUS
<1>5. /\ r.at = "send" /\ r.left = <<>>
      /\ cast' = [cast EXCEPT ![b] = row] /\ run' = [run EXCEPT ![w] = new]
      /\ UNCHANGED <<reached, listing, result>>
  <2>1. cast' = [cast EXCEPT ![b] = row]
    <3>1. PICK sent, failed : /\ sent = B!Column(r.sent + r.bsent, cast[b].sent)
                              /\ failed = B!Column(r.failed + r.bfailed, cast[b].failed)
      OBVIOUS
    <3>2. cast' = [cast EXCEPT ![b] = [cast[b] EXCEPT !.status = "completed", !.sent = sent,
                                                      !.failed = failed]]
      BY <1>1, <1>2, <3>1 DEF B!Complete
    <3>3. row = [cast[b] EXCEPT !.status = "completed", !.sent = sent, !.failed = failed]
      BY <1>3, <3>1
    <3> QED BY <3>2, <3>3, Zenon
  <2>2. run' = [run EXCEPT ![w] = new]
    BY <1>1, <1>4 DEF B!Complete
  <2> QED BY <1>1, <2>1, <2>2 DEF B!Complete
<1>6. RunSound(r) /\ Delivery(r, b) /\ CastType /\ r.todo # <<>>
  BY <1>1, <1>2, <1>5 DEF CastInv, RunSound
<1>7. b \in DOMAIN cast /\ cast[b].sent = 0 /\ cast[b].failed = 0 /\ cast[b] \in CastRow
  BY <1>6 DEF Delivery, Waiting, CastInv, RowsSound, CastType
<1>8. /\ row.status = "completed" /\ row.sent = r.sent + r.bsent
      /\ row.failed = r.failed + r.bfailed /\ row \in CastRow
  <2>1. /\ row.status = "completed" /\ row.sent = B!Column(r.sent + r.bsent, 0)
        /\ row.failed = B!Column(r.failed + r.bfailed, 0)
    BY <1>3, <1>7 DEF CastRow
  <2>2. r.sent + r.bsent \in Nat /\ r.failed + r.bfailed \in Nat
    BY <1>6 DEF Delivery
  <2>3. row.sent = r.sent + r.bsent /\ row.failed = r.failed + r.bfailed
    BY <2>1, <2>2 DEF B!Column
  <2> QED BY <1>3, <1>7, <2>1, <2>2, <2>3 DEF CastRow
<1>9. /\ cast' \in Seq(CastRow) /\ Len(cast') = Len(cast) /\ DOMAIN cast' = DOMAIN cast
      /\ cast'[b] = row /\ \A a \in DOMAIN cast : a # b => cast'[a] = cast[a]
  BY <1>5, <1>6, <1>7, <1>8 DEF CastType
<1>10. CastType'
  BY <1>5, <1>6, <1>9 DEF CastType, CastRow
<1>11. Exact(b, row.sent, row.failed) /\ Len(result[b]) = Len(listing[b])
  <2>1. Len(result[b]) \in Nat /\ Len(r.left) = 0
    <3>1. b \in B!Casts
      BY <1>6, <1>7, RowNumbers DEF OneRun
    <3> QED BY <1>5, <1>6, <3>1 DEF CastType
  <2> QED BY <1>6, <1>8, <2>1 DEF Delivery
<1>12. RowsSound'
  BY <1>5, <1>8, <1>9, <1>11, SameHistory DEF CastInv, RowsSound
<1>13. RunSound(new)'
  <2>1. new.todo = Tail(r.todo) /\ new.at \in {"idle", "next"}
    BY <1>4 DEF B!Idle
  <2>2. /\ Tail(r.todo) \in Seq(Nat) /\ Distinct(Tail(r.todo))
        /\ Members(Tail(r.todo)) = Members(r.todo) \ {b}
    BY <1>2, <1>6, TailIs DEF RunSound
  <2>3. \A a : Waiting(a) /\ a # b => Waiting(a)'
    BY <1>9 DEF Waiting
  <2>4. RunFields(new)
    BY <1>4 DEF RunFields, B!Idle
  <2> QED BY <1>6, <2>1, <2>2, <2>3, <2>4 DEF RunSound
<1>14. \A v \in Runs : RunSound(run[v])'
  <2>1. \A v \in Runs : run'[v] = new
    BY <1>5, <1>6 DEF OneRun, CastType
  <2> QED BY <1>13, <2>1 DEF RunSound, Delivery
<1> QED BY <1>10, <1>12, <1>14 DEF CastInv

LEMMA CastStep ==
    ASSUME OneRun, CastInv, B!Next
    PROVE  CastInv'
<1>1. CASE B!Ban \/ B!Subscribe
  BY <1>1, CastStays DEF B!Ban, B!Subscribe
<1> QED BY <1>1, CreateBroadcastKeepsInv, LoadKeepsInv, DeliverKeepsInv, SendKeepsInv,
           CompleteKeepsInv, CrashKeepsInv DEF B!Next

LEMMA CastBegins ==
    ASSUME OneRun, Init
    PROVE  CastInv
<1>1. /\ cast = <<>> /\ run = [w \in Runs |-> B!Idle]
      /\ reached = [b \in B!Casts |-> {}]
      /\ listing = [b \in B!Casts |-> <<>>] /\ result = [b \in B!Casts |-> <<>>]
  BY DEF Init, B!Init
<1>2. CastType
  BY <1>1 DEF CastType, OneRun
<1>3. RowsSound
  BY <1>1 DEF RowsSound
<1>4. RunSound(B!Idle)
  BY DEF RunSound, RunFields, B!Idle, Distinct, Members
<1> QED BY <1>1, <1>2, <1>3, <1>4 DEF CastInv

LEMMA CastPromise ==
    ASSUME OneRun, CastInv
    PROVE  CountsExact
<1> SUFFICES ASSUME NEW b \in DOMAIN cast, cast[b].status = "completed"
             PROVE  /\ Len(result[b]) = Len(listing[b])
                    /\ cast[b].sent = Cardinality(Marked(b, "sent"))
                    /\ cast[b].failed = Cardinality(Marked(b, "failed"))
                    /\ \A i \in Marked(b, "sent") : listing[b][i] \in reached[b]
  BY DEF CountsExact, B!CountsExact, Marked, B!Cardinality, Cardinality
<1> QED BY DEF CastInv, RowsSound, Exact

\* What a completed broadcast reports is what its last delivery did with the rows its
\* segment had then, each tried and counted once, across batches, retries, bans, premium
\* rows, crashes and deliveries begun again, one run at a time
\* (cms/broadcast_worker.py:58-160, 229-238).
THEOREM CountsAreExact ==
    ASSUME OneRun
    PROVE  Spec => []CountsExact
<1>1. Init => CastInv
  BY CastBegins
<1>2. CastInv /\ [Next]_vars => CastInv'
  BY OneScene, CastStep, CastStays DEF castVars
<1>3. CastInv => CountsExact
  BY CastPromise
<1> QED BY <1>1, <1>2, <1>3, PTL DEF Spec

------------------------------------------------------------------------------
(***************************************************************************)
(* What MapThenSumSet computes of postings: nothing for none, and one      *)
(* posting more adds its sum.  The library defines it by a recursive       *)
(* function that takes the elements in an order of its own; that the       *)
(* recursion has a solution, that it has one only and that the order does  *)
(* not matter are proved here, each by a smallest counterexample.          *)
(***************************************************************************)
Sums(C) == M!MapThenSumSet(LAMBDA e : e.sum, C)

\* The element the library takes next, and a sum over every subset in that order.
First(s) == CHOOSE x \in s : TRUE
Adds(g, C) ==
    g = [s \in SUBSET C |-> IF s = {} THEN 0 ELSE First(s).sum + g[s \ {First(s)}]]

LEMMA SumIs ==
    ASSUME NEW C
    PROVE  Sums(C) = (CHOOSE g : Adds(g, C))[C]
BY DEF Sums, M!MapThenSumSet, M!MapThenFoldSet, Adds, First

LEMMA FirstIn == \A s : s # {} => First(s) \in s
BY DEF First

\* Two solutions agree wherever both are defined.
LEMMA OneSolution ==
    ASSUME NEW C, IsFiniteSet(C), NEW g, Adds(g, C), NEW U, NEW h, Adds(h, U),
           NEW X \in SUBSET (C \cap U)
    PROVE  g[X] = h[X]
<1> DEFINE Bad == {V \in SUBSET (C \cap U) : g[V] # h[V]}
<1>1. SUFFICES ASSUME Bad # {}
               PROVE  FALSE
  OBVIOUS
<1>2. Bad \subseteq SUBSET C
  OBVIOUS
<1>3. PICK V \in Bad : \A W \in SUBSET V : W # V => W \notin Bad
  <2> HIDE DEF Bad
  <2> QED BY <1>1, <1>2, Smallest
<1>4. V \in SUBSET C /\ V \in SUBSET U
  OBVIOUS
<1>5. /\ g[V] = IF V = {} THEN 0 ELSE First(V).sum + g[V \ {First(V)}]
      /\ h[V] = IF V = {} THEN 0 ELSE First(V).sum + h[V \ {First(V)}]
  BY <1>4 DEF Adds
<1>6. V # {} => g[V \ {First(V)}] = h[V \ {First(V)}]
  <2>1. V # {} => V \ {First(V)} # V /\ V \ {First(V)} \in SUBSET V
    BY FirstIn
  <2> QED BY <1>3, <2>1
<1> QED BY <1>5, <1>6

LEMMA SolutionExists ==
    ASSUME NEW C, IsFiniteSet(C)
    PROVE  \E g : Adds(g, C)
<1> DEFINE Bad == {X \in SUBSET C : ~ \E g : Adds(g, X)}
<1>1. SUFFICES ASSUME Bad # {}
               PROVE  FALSE
  OBVIOUS
<1>2. PICK X \in Bad : \A V \in SUBSET X : V # X => V \notin Bad
  <2>1. Bad \subseteq SUBSET C
    OBVIOUS
  <2> HIDE DEF Bad
  <2> QED BY <1>1, <2>1, Smallest
<1>3. \A V \in SUBSET X : IsFiniteSet(V)
  BY FS_Subset
<1> DEFINE G(V) == CHOOSE g : Adds(g, V)
           h == [V \in SUBSET X |-> IF V = {} THEN 0
                                    ELSE First(V).sum + G(V \ {First(V)})[V \ {First(V)}]]
<1>4. ASSUME NEW V \in SUBSET X, V # X
      PROVE  Adds(G(V), V)
  BY <1>2, <1>4
<1>5. ASSUME NEW V \in SUBSET X, V # {}
      PROVE  V \ {First(V)} \in SUBSET X /\ V \ {First(V)} # X
  BY <1>5, FirstIn
<1>6. ASSUME NEW V \in SUBSET X, V # X
      PROVE  h[V] = G(V)[V]
  <2>1. G(V)[V] = IF V = {} THEN 0 ELSE First(V).sum + G(V)[V \ {First(V)}]
    <3>1. Adds(G(V), V)
      BY <1>4, <1>6
    <3> HIDE DEF G
    <3> QED BY <3>1 DEF Adds
  <2>2. ASSUME V # {}
        PROVE  G(V)[V \ {First(V)}] = G(V \ {First(V)})[V \ {First(V)}]
    <3> DEFINE W == V \ {First(V)}
    <3>1. W \in SUBSET X /\ W # X /\ W \in SUBSET (V \cap W)
      BY <1>5, <2>2
    <3>2. Adds(G(V), V) /\ Adds(G(W), W)
      BY <1>4, <1>6, <3>1
    <3> HIDE DEF G, W
    <3>3. G(V)[W] = G(W)[W]
      BY <1>3, <3>1, <3>2, OneSolution
    <3> QED BY <3>3 DEF W
  <2> HIDE DEF G
  <2> QED BY <2>1, <2>2
<1>7. Adds(h, X)
  <2>1. ASSUME NEW V \in SUBSET X, V # {}
        PROVE  h[V \ {First(V)}] = G(V \ {First(V)})[V \ {First(V)}]
    BY <1>5, <1>6, <2>1
  <2> HIDE DEF G
  <2>2. h = [V \in SUBSET X |-> IF V = {} THEN 0 ELSE First(V).sum + h[V \ {First(V)}]]
    <3> DEFINE k == [V \in SUBSET X |-> IF V = {} THEN 0 ELSE First(V).sum + h[V \ {First(V)}]]
    <3>1. \A V \in SUBSET X : h[V] = k[V]
      BY <2>1
    <3> QED BY <3>1
  <2> HIDE DEF h
  <2> QED BY <2>2 DEF Adds
<1> QED BY <1>2, <1>7

------------------------------------------------------------------------------
\* The sum in the library's order.
LEMMA SumInOrder ==
    ASSUME NEW C, IsFiniteSet(C)
    PROVE  /\ C = {} => Sums(C) = 0
           /\ C # {} => Sums(C)
                          = First(C).sum + Sums(C \ {First(C)})
<1> DEFINE g == CHOOSE x : Adds(x, C)
           W == C \ {First(C)}
           h == CHOOSE x : Adds(x, W)
<1>1. IsFiniteSet(W)
  BY FS_Subset
<1>2. Adds(g, C) /\ Adds(h, W)
  <2>1. (\E x : Adds(x, C)) /\ (\E x : Adds(x, W))
    <3> HIDE DEF W
    <3> QED BY <1>1, SolutionExists
  <2> QED BY <2>1
<1>3. Sums(C) = g[C] /\ Sums(W) = h[W]
  BY SumIs
<1> HIDE DEF g, h
<1>4. g[C] = IF C = {} THEN 0 ELSE First(C).sum + g[W]
  BY <1>2 DEF Adds
<1>5. g[W] = h[W]
  <2>1. W \in SUBSET (C \cap W)
    OBVIOUS
  <2> HIDE DEF W
  <2> QED BY <1>2, <2>1, OneSolution
<1> QED BY <1>3, <1>4, <1>5

\* A sum of natural numbers is one.
LEMMA SumType ==
    ASSUME NEW C, IsFiniteSet(C), \A e \in C : e.sum \in Int
    PROVE  Sums(C) \in Int
<1> DEFINE Bad == {X \in SUBSET C : Sums(X) \notin Int}
<1>1. SUFFICES ASSUME Bad # {}
               PROVE  FALSE
  OBVIOUS
<1>2. PICK X \in Bad : \A V \in SUBSET X : V # X => V \notin Bad
  <2>1. Bad \subseteq SUBSET C
    OBVIOUS
  <2> HIDE DEF Bad
  <2> QED BY <1>1, <2>1, Smallest
<1>3. IsFiniteSet(X)
  BY FS_Subset
<1>4. CASE X = {}
  <2>1. Sums(X) = 0
    BY <1>3, <1>4, SumInOrder
  <2>2. Sums(X) \notin Int
    BY <1>2
  <2> QED BY <2>1, <2>2
<1>5. CASE X # {}
  <2>1. First(X) \in X /\ First(X).sum \in Int
    BY <1>5, FirstIn
  <2>2. Sums(X \ {First(X)}) \in Int
    BY <1>2, <2>1
  <2>3. Sums(X) = First(X).sum + Sums(X \ {First(X)})
    BY <1>3, <1>5, SumInOrder
  <2> QED BY <1>2, <2>1, <2>2, <2>3
<1> QED BY <1>4, <1>5

\* Any element may come first.
LEMMA SumWithout ==
    ASSUME NEW C, IsFiniteSet(C), \A e \in C : e.sum \in Int, NEW x \in C
    PROVE  Sums(C) = x.sum + Sums(C \ {x})
<1> DEFINE Bad == {X \in SUBSET C : \E y \in X :
                   Sums(X) # y.sum + Sums(X \ {y})}
<1>1. SUFFICES ASSUME Bad # {}
               PROVE  FALSE
  OBVIOUS
<1>2. PICK X \in Bad : \A V \in SUBSET X : V # X => V \notin Bad
  <2>1. Bad \subseteq SUBSET C
    OBVIOUS
  <2> HIDE DEF Bad
  <2> QED BY <1>1, <2>1, Smallest
<1>3. PICK y \in X : Sums(X) # y.sum + Sums(X \ {y})
  BY <1>2
<1>4. PICK z \in X : z = First(X)
  BY <1>3, FirstIn
<1>5. IsFiniteSet(X) /\ IsFiniteSet(X \ {y}) /\ IsFiniteSet(X \ {z})
      /\ IsFiniteSet((X \ {y}) \ {z})
  <2>1. IsFiniteSet(X)
    BY FS_Subset
  <2> QED BY <2>1, FS_RemoveElement
<1>6. Sums(X) = z.sum + Sums(X \ {z})
  BY <1>4, <1>5, SumInOrder
<1>7. y # z
  BY <1>3, <1>6
<1>8. /\ Sums(X \ {z}) = y.sum + Sums((X \ {z}) \ {y})
      /\ Sums(X \ {y}) = z.sum + Sums((X \ {y}) \ {z})
  <2>1. X \ {z} \notin Bad /\ X \ {z} \in SUBSET C /\ y \in X \ {z}
    BY <1>2, <1>7
  <2>2. X \ {y} \notin Bad /\ X \ {y} \in SUBSET C /\ z \in X \ {y}
    BY <1>2, <1>7
  <2> QED BY <2>1, <2>2
<1>9. (X \ {z}) \ {y} = (X \ {y}) \ {z}
  OBVIOUS
<1>10. y.sum \in Int /\ z.sum \in Int /\ Sums((X \ {y}) \ {z}) \in Int
  BY <1>5, SumType
<1>11. PICK n : n = Sums((X \ {y}) \ {z})
  OBVIOUS
<1>12. Sums(X \ {z}) = y.sum + n /\ Sums(X \ {y}) = z.sum + n /\ n \in Int
  BY <1>8, <1>9, <1>10, <1>11
<1>13. PICK i \in Int, j \in Int : i = y.sum /\ j = z.sum
  BY <1>10
<1> QED BY <1>3, <1>6, <1>12, <1>13

\* One element more.
LEMMA SumWith ==
    ASSUME NEW C, IsFiniteSet(C), NEW x, x \notin C, \A e \in C \cup {x} : e.sum \in Int
    PROVE  Sums(C \cup {x}) = x.sum + Sums(C)
<1> DEFINE W == C \cup {x}
<1>1. IsFiniteSet(W) /\ x \in W /\ W \ {x} = C /\ \A e \in W : e.sum \in Int
  BY FS_AddElement
<1> HIDE DEF W
<1>2. Sums(W) = x.sum + Sums(W \ {x})
  BY <1>1, SumWithout
<1> QED BY <1>1, <1>2 DEF W

------------------------------------------------------------------------------
\* Market

\* The conditions: amounts are whole numbers, and no session has the name that stands for none.
MarketTyped == Amounts \subseteq Int /\ M!None \notin Sessions

Gateways == {"razorpay", "stripe"}
PaymentRow == [u : Users, amount : Int, provider : Gateways, status : {"pending", "verified"},
               verified : BOOLEAN]

MarketType ==
    /\ balance \in [Users -> Nat]
    /\ payment \in [Payments -> PaymentRow \cup {M!Absent}]
    /\ lock \in [Users -> Sessions \cup {M!None}]
    /\ DOMAIN session = Sessions
    /\ opened \in Nat

Posting(e) ==
    /\ e.u \in Users /\ e.sum \in Int
    /\ \/ \E p \in Payments : /\ e.key = <<"deposit", p>>
                              /\ payment[p].provider \in Gateways
                              /\ e.u = payment[p].u /\ e.sum = payment[p].amount
       \/ \E n \in 0 .. (opened - 1) : e.key = <<"uuid", n>>

\* Committed postings: each under a key of its own, and a balance is their sum.
LedgerSound ==
    /\ IsFiniteSet(entry)
    /\ \A e \in entry : Posting(e)
    /\ \A d, e \in entry : d.key = e.key => d = e
    /\ \A u \in Users : balance[u] = Sums({e \in entry : e.u = u})
Paid(p) == \E e \in entry : e.key = <<"deposit", p>>
VerifiedWhenPaid == \A p \in Payments : payment[p].verified <=> Paid(p)

Known(key) == \E e \in entry : e.key = key

\* What a session will post, and that nobody overtakes it: from the moment it holds the
\* wallet's row, the balance it has read and the absence of its key are up to date.
SessionFields(s) == DOMAIN s = DOMAIN M!Closed
Purpose(s) ==
    /\ SessionFields(s) /\ s.u \in Users /\ s.sum \in Int
    /\ s.op \in {"webhook", "adjust", "order"}
    /\ s.op = "webhook" => /\ s.p \in Payments /\ payment[s.p].provider \in Gateways
                           /\ s.u = payment[s.p].u /\ s.sum = payment[s.p].amount
                           /\ s.key = <<"deposit", s.p>>
    /\ s.op = "adjust" => \E n \in 0 .. (opened - 1) : s.key = <<"uuid", n>>
    /\ s.op = "order" => s.key = <<"order_debit", s.u>>
Posts(s) == [key |-> s.key, u |-> s.u, sum |-> s.sum]
Progress(r, s) ==
    \/ s.at \in {"look", "lock"} /\ s.wrote = {}
    \/ s.at = "write" /\ s.wrote = {} /\ lock[s.u] = r /\ s.read = balance[s.u]
    \/ s.at \in {"submit", "raise"} /\ s.op = "order"
    \/ s.at = "verify" /\ s.wrote = {} /\ Known(s.key)
    \/ /\ s.at = "verify" /\ s.op # "order" /\ s.wrote = {Posts(s)}
       /\ lock[s.u] = r /\ s.read = balance[s.u] /\ s.read + s.sum >= 0 /\ ~Known(s.key)
SessionSound(r, s) == s = M!Closed \/ (Purpose(s) /\ Progress(r, s))
SessionsSound == \A r \in Sessions : SessionSound(r, session[r])

\* Postings under one key are of one wallet, and so under one lock.
OneWallet ==
    \A r, s \in Sessions :
        session[r] # M!Closed /\ session[s] # M!Closed /\ session[r].key = session[s].key
            => session[r].u = session[s].u

MarketInv == MarketType /\ LedgerSound /\ VerifiedWhenPaid /\ SessionsSound /\ OneWallet

LEMMA Numbered ==
    ASSUME NEW a \in Nat, NEW b \in Nat, a <= b
    PROVE  \A n \in 0 .. (a - 1) : n \in 0 .. (b - 1)
OBVIOUS

\* What a posting and a session stand for stays the case while payments keep their
\* user and amount.
LEMMA StandsFor ==
    ASSUME opened \in Nat, opened' \in Nat, opened <= opened',
           \A p \in Payments : payment[p].provider \in Gateways =>
              /\ payment'[p].provider \in Gateways
              /\ payment'[p].u = payment[p].u /\ payment'[p].amount = payment[p].amount
    PROVE  /\ \A e : Posting(e) => Posting(e)'
           /\ \A s : Purpose(s) => Purpose(s)'
<1>1. \A n \in 0 .. (opened - 1) : n \in 0 .. (opened' - 1)
  BY Numbered
<1>2. ASSUME NEW e, Posting(e)
      PROVE  Posting(e)'
  BY <1>1, <1>2 DEF Posting
<1>3. ASSUME NEW s, Purpose(s)
      PROVE  Purpose(s)'
  <2>1. /\ s.u \in Users /\ s.sum \in Int
        /\ s.op \in {"webhook", "adjust", "order"}
        /\ s.op = "order" => s.key = <<"order_debit", s.u>>
    BY <1>3 DEF Purpose
  <2>2. s.op = "webhook" => /\ s.p \in Payments /\ payment'[s.p].provider \in Gateways
                            /\ s.u = payment'[s.p].u /\ s.sum = payment'[s.p].amount
                            /\ s.key = <<"deposit", s.p>>
    BY <1>3 DEF Purpose
  <2>3. s.op = "adjust" => \E n \in 0 .. (opened' - 1) : s.key = <<"uuid", n>>
    BY <1>1, <1>3 DEF Purpose
  <2>4. SessionFields(s)
    BY <1>3 DEF Purpose
  <2> QED BY <2>1, <2>2, <2>3, <2>4 DEF Purpose
<1> QED BY <1>2, <1>3

\* A step that commits nothing and only changes session s keeps the invariant when s is
\* sound afterwards, the locks of the others are left and s has the wallet it had.
LEMMA SessionStep ==
    ASSUME MarketInv, NEW s \in Sessions, NEW new,
           session' = [session EXCEPT ![s] = new], SessionSound(s, new)',
           lock' \in [Users -> Sessions \cup {M!None}],
           \A u \in Users : lock[u] # s /\ lock[u] # M!None => lock'[u] = lock[u],
           M!None \notin Sessions,
           \/ new = M!Closed
           \/ session[s] # M!Closed /\ new.u = session[s].u /\ new.key = session[s].key,
           UNCHANGED <<balance, entry, payment, opened>>
    PROVE  MarketInv'
<1>1. MarketType'
  BY DEF MarketInv, MarketType
<1>2. LedgerSound' /\ VerifiedWhenPaid'
  <2>1. \A e : Posting(e)' <=> Posting(e)
    BY DEF Posting
  <2>2. LedgerSound'
    BY <2>1 DEF MarketInv, LedgerSound
  <2>3. VerifiedWhenPaid'
    BY DEF MarketInv, VerifiedWhenPaid, Paid
  <2> QED BY <2>2, <2>3
<1>3. ASSUME NEW r \in Sessions, r # s
      PROVE  SessionSound(r, session[r])'
  <2>1. PICK t : t = session[r]
    OBVIOUS
  <2>2. session'[r] = t /\ SessionSound(r, t)
    BY <1>3, <2>1 DEF MarketInv, MarketType, SessionsSound
  <2>3. Purpose(t) => Purpose(t)'
    BY DEF Purpose
  <2>4. Known(t.key)' <=> Known(t.key)
    BY DEF Known
  <2>5. Purpose(t) /\ Progress(r, t) => Progress(r, t)'
    <3>1. Purpose(t) /\ lock[t.u] = r => lock'[t.u] = r
      BY <1>3 DEF Purpose
    <3> QED BY <2>4, <3>1 DEF Progress
  <2>6. SessionSound(r, t)'
    BY <2>2, <2>3, <2>5 DEF SessionSound, M!Closed, M!None
  <2> QED BY <2>2, <2>6 DEF SessionSound, Purpose, Progress, Posts, M!Closed, M!None
<1>4. SessionsSound'
  <2>1. session'[s] = new
    BY DEF MarketInv, MarketType
  <2>2. SessionSound(s, session[s])'
    BY <2>1 DEF SessionSound, Purpose, Progress, Posts, M!Closed, M!None
  <2> QED BY <1>3, <2>2 DEF SessionsSound
<1>5. ASSUME NEW q \in Sessions, NEW r \in Sessions, session'[q] # M!Closed,
             session'[r] # M!Closed, session'[q].key = session'[r].key
      PROVE  session'[q].u = session'[r].u
  <2>1. \A a \in Sessions : session'[a] = IF a = s THEN new ELSE session[a]
    BY DEF MarketInv, MarketType
  <2>2. \A a \in {q, r} : /\ session[a] # M!Closed /\ session'[a].u = session[a].u
                          /\ session'[a].key = session[a].key
    BY <1>5, <2>1
  <2>3. session[q].u = session[r].u
    BY <1>5, <2>2 DEF MarketInv, OneWallet
  <2> QED BY <2>2, <2>3
<1>6. OneWallet'
  BY <1>5 DEF OneWallet, M!Closed, M!None
<1> QED BY <1>1, <1>2, <1>4, <1>6 DEF MarketInv

LEMMA CreateDepositKeepsInv ==
    ASSUME MarketTyped, MarketInv, NEW u \in Users, NEW p \in Payments, NEW amount \in Amounts,
           M!CreateDeposit(u, p, amount)
    PROVE  MarketInv'
<1>1. PICK kind \in Gateways :
         payment' = [payment EXCEPT ![p] = [u |-> u, amount |-> amount, provider |-> kind,
                                            status |-> "pending", verified |-> FALSE]]
  BY DEF M!CreateDeposit, Gateways
<1>2. payment[p] = M!Absent /\ UNCHANGED <<balance, entry, lock, session, opened>>
  BY DEF M!CreateDeposit
<1>3. ~ M!Absent.verified /\ M!Absent.provider \notin Gateways
  BY DEF M!Absent, M!None, Gateways
<1>4. MarketType'
  <2>1. [u |-> u, amount |-> amount, provider |-> kind, status |-> "pending",
         verified |-> FALSE] \in PaymentRow
    BY <1>1 DEF MarketTyped, PaymentRow
  <2> QED BY <1>1, <1>2, <2>1 DEF MarketInv, MarketType
<1>5. \A q \in Payments : q # p => payment'[q] = payment[q]
  BY <1>1 DEF MarketInv, MarketType
<1>6. \A q \in Payments : payment[q].provider \in Gateways => payment'[q] = payment[q]
  BY <1>2, <1>3, <1>5
<1>7. (\A e : Posting(e) => Posting(e)') /\ (\A s : Purpose(s) => Purpose(s)')
  <2>1. opened \in Nat /\ opened' = opened
    BY <1>2 DEF MarketInv, MarketType
  <2> QED BY <1>6, <2>1, StandsFor
<1>8. LedgerSound'
  BY <1>2, <1>7 DEF MarketInv, LedgerSound
<1>9. VerifiedWhenPaid'
  <2>1. ~ payment'[p].verified
    BY <1>1 DEF MarketInv, MarketType
  <2>2. ~ Paid(p)
    BY <1>2, <1>3 DEF MarketInv, VerifiedWhenPaid
  <2>3. \A q \in Payments : Paid(q)' <=> Paid(q)
    BY <1>2 DEF Paid
  <2> QED BY <1>5, <2>1, <2>2, <2>3, Zenon DEF MarketInv, VerifiedWhenPaid
<1>10. SessionsSound'
  <2> SUFFICES ASSUME NEW r \in Sessions
               PROVE  SessionSound(r, session[r])'
    BY DEF SessionsSound
  <2>1. PICK t : t = session[r]
    OBVIOUS
  <2>2. SessionSound(r, t)
    BY <2>1 DEF MarketInv, SessionsSound
  <2>3. SessionSound(r, t)'
    BY <1>2, <1>7, <2>2 DEF SessionSound, Progress, Known, M!Closed, M!None
  <2> QED BY <1>2, <2>1, <2>3 DEF SessionSound, Purpose, Progress, Posts, M!Closed, M!None
<1>11. OneWallet'
  BY <1>2 DEF MarketInv, OneWallet, M!Closed, M!None
<1> QED BY <1>4, <1>8, <1>9, <1>10, <1>11 DEF MarketInv

\* A session begins with a purpose and a key of its own, or one of the same wallet.
LEMMA OpensKeepsInv ==
    ASSUME MarketTyped, MarketInv, NEW s \in Sessions, NEW new, M!Opens(s, new),
           Purpose(new)', new.at = "look", new.wrote = {},
           \A r \in Sessions : session[r] # M!Closed /\ session[r].key = new.key
              => session[r].u = new.u
    PROVE  MarketInv'
<1>1. /\ session[s] = M!Closed /\ opened' = opened + 1
      /\ session' = [session EXCEPT ![s] = new]
      /\ UNCHANGED <<balance, entry, payment, lock>>
  BY DEF M!Opens
<1>2. \A r \in Sessions : session'[r] = IF r = s THEN new ELSE session[r]
  BY <1>1 DEF MarketInv, MarketType
<1>3. MarketType'
  BY <1>1 DEF MarketInv, MarketType
<1>4. (\A e : Posting(e) => Posting(e)') /\ (\A t : Purpose(t) => Purpose(t)')
  <2>1. opened \in Nat /\ opened' \in Nat /\ opened <= opened'
    BY <1>1 DEF MarketInv, MarketType
  <2> QED BY <1>1, <2>1, StandsFor
<1>5. LedgerSound'
  BY <1>1, <1>4 DEF MarketInv, LedgerSound
<1>6. VerifiedWhenPaid'
  BY <1>1 DEF MarketInv, VerifiedWhenPaid, Paid
<1>7. SessionsSound'
  <2> SUFFICES ASSUME NEW r \in Sessions
               PROVE  SessionSound(r, session[r])'
    BY DEF SessionsSound
  <2>1. PICK t : t = session'[r]
    OBVIOUS
  <2>2. SessionSound(r, t)'
    <3>1. CASE r = s
      <4>1. t = new
        BY <1>2, <2>1, <3>1
      <4>2. Progress(s, t)'
        BY <4>1 DEF Progress
      <4>3. Purpose(t)'
        BY <4>1 DEF Purpose
      <4> QED BY <3>1, <4>2, <4>3 DEF SessionSound
    <3>2. CASE r # s
      <4>1. SessionSound(r, t)
        BY <1>2, <2>1, <3>2 DEF MarketInv, SessionsSound
      <4> QED BY <1>1, <1>4, <4>1 DEF SessionSound, Progress, Known, M!Closed, M!None
    <3> QED BY <3>1, <3>2
  <2> QED BY <2>1, <2>2 DEF SessionSound, Purpose, Progress, Posts, M!Closed, M!None
<1>8. OneWallet'
  <2> SUFFICES ASSUME NEW q \in Sessions, NEW r \in Sessions, session'[q] # M!Closed,
                      session'[r] # M!Closed, session'[q].key = session'[r].key
               PROVE  session'[q].u = session'[r].u
    BY DEF OneWallet, M!Closed, M!None
  <2> QED BY <1>2 DEF MarketInv, OneWallet
<1> QED BY <1>3, <1>5, <1>6, <1>7, <1>8 DEF MarketInv

LEMMA WebhookKeepsInv ==
    ASSUME MarketTyped, MarketInv, NEW s \in Sessions, NEW p \in Payments, NEW provider \in Gateways,
           M!Webhook(s, p, provider)
    PROVE  MarketInv'
<1>1. PICK t : t = [M!Closed EXCEPT !.op = "webhook", !.p = p, !.u = payment[p].u,
                                    !.sum = payment[p].amount, !.key = M!DepositKey(s, p),
                                    !.at = "look"]
  OBVIOUS
<1>2. M!Opens(s, t) /\ payment[p].provider = provider
  BY <1>1 DEF M!Webhook
<1>3. /\ t.op = "webhook" /\ t.p = p /\ t.u = payment[p].u /\ t.sum = payment[p].amount
      /\ t.key = <<"deposit", p>> /\ t.at = "look" /\ t.wrote = {}
  BY <1>1 DEF M!Closed, M!DepositKey
<1>4. payment[p] \in PaymentRow
  BY <1>2 DEF MarketInv, MarketType, M!Absent, M!None, Gateways
<1>5. Purpose(t)'
  <2>1. SessionFields(t)
    BY <1>1 DEF SessionFields, M!Closed
  <2> QED BY <1>2, <1>3, <1>4, <2>1 DEF Purpose, PaymentRow, M!Opens
<1>6. ASSUME NEW r \in Sessions, session[r] # M!Closed, session[r].key = t.key
      PROVE  session[r].u = t.u
  BY <1>3, <1>6 DEF MarketInv, SessionsSound, SessionSound, Purpose
<1> QED BY <1>2, <1>3, <1>5, <1>6, OpensKeepsInv

LEMMA AdjustKeepsInv ==
    ASSUME MarketTyped, MarketInv, NEW s \in Sessions, NEW u \in Users, NEW sum \in Int,
           M!Adjust(s, u, sum)
    PROVE  MarketInv'
<1>1. PICK t : t = [M!Closed EXCEPT !.op = "adjust", !.u = u, !.sum = sum,
                                    !.key = <<"uuid", opened>>, !.at = "look"]
  OBVIOUS
<1>2. M!Opens(s, t)
  BY <1>1 DEF M!Adjust
<1>3. /\ t.op = "adjust" /\ t.u = u /\ t.sum = sum
      /\ t.key = <<"uuid", opened>> /\ t.at = "look" /\ t.wrote = {}
  BY <1>1 DEF M!Closed
<1>4. opened \in Nat /\ opened' = opened + 1
  BY <1>2 DEF MarketInv, MarketType, M!Opens
<1>5. Purpose(t)'
  <2>1. opened \in 0 .. (opened' - 1)
    BY <1>4
  <2>2. SessionFields(t)
    BY <1>1 DEF SessionFields, M!Closed
  <2> QED BY <1>3, <2>1, <2>2 DEF Purpose
<1>6. ASSUME NEW r \in Sessions, session[r] # M!Closed, session[r].key = t.key
      PROVE  FALSE
  <2>1. Purpose(session[r])
    BY <1>6 DEF MarketInv, SessionsSound, SessionSound
  <2>2. session[r].op = "adjust"
    BY <1>3, <1>6, <2>1 DEF Purpose
  <2>3. PICK n \in 0 .. (opened - 1) : session[r].key = <<"uuid", n>>
    BY <2>1, <2>2 DEF Purpose
  <2>4. n = opened
    BY <1>3, <1>6, <2>3
  <2> QED BY <1>4, <2>4
<1> QED BY <1>2, <1>3, <1>5, <1>6, OpensKeepsInv

LEMMA OrderKeepsInv ==
    ASSUME MarketTyped, MarketInv, NEW s \in Sessions, NEW u \in Users, NEW price \in Int,
           M!Order(s, u, price)
    PROVE  MarketInv'
<1>1. PICK t : t = [M!Closed EXCEPT !.op = "order", !.u = u, !.sum = -price,
                                    !.key = <<"order_debit", u>>, !.at = "look"]
  OBVIOUS
<1>2. M!Opens(s, t)
  BY <1>1 DEF M!Order
<1>3. /\ t.op = "order" /\ t.u = u /\ t.sum = -price /\ t.sum \in Int
      /\ t.key = <<"order_debit", u>> /\ t.at = "look" /\ t.wrote = {}
  BY <1>1 DEF M!Closed
<1>4. SessionFields(t)
  BY <1>1 DEF SessionFields, M!Closed
<1>5. Purpose(t)'
  BY <1>3, <1>4 DEF Purpose
<1>6. ASSUME NEW r \in Sessions, session[r] # M!Closed, session[r].key = t.key
      PROVE  session[r].u = t.u
  <2>1. Purpose(session[r])
    BY <1>6 DEF MarketInv, SessionsSound, SessionSound
  <2>2. session[r].op = "order"
    BY <1>3, <1>6, <2>1 DEF Purpose
  <2> QED BY <1>3, <1>6, <2>1, <2>2 DEF Purpose
<1> QED BY <1>2, <1>3, <1>5, <1>6, OpensKeepsInv

LEMMA LookKeepsInv ==
    ASSUME MarketTyped, MarketInv, NEW s \in Sessions, M!Look(s)
    PROVE  MarketInv'
<1>1. PICK t : t = session[s]
  OBVIOUS
<1>2. PICK new : new = [t EXCEPT !.at = IF t.key \in M!Keys(entry) THEN "verify" ELSE "lock"]
  OBVIOUS
<1>3. session' = [session EXCEPT ![s] = new] /\ t.at = "look"
      /\ UNCHANGED <<balance, entry, payment, lock, opened>>
  BY <1>1, <1>2 DEF M!Look
<1>4. SessionSound(s, t) /\ t # M!Closed
  BY <1>1, <1>3 DEF MarketInv, SessionsSound, M!Closed
<1>5. t.key \in M!Keys(entry) <=> Known(t.key)
  BY DEF M!Keys, Known
<1>6. SessionSound(s, new)'
  <2>1. SessionFields(new)
    BY <1>2, <1>4 DEF SessionSound, Purpose, SessionFields
  <2> QED BY <1>2, <1>3, <1>4, <1>5, <2>1 DEF SessionSound, Purpose, Progress, Known
<1>7. new.u = t.u /\ new.key = t.key /\ lock' \in [Users -> Sessions \cup {M!None}]
  BY <1>2, <1>3 DEF MarketInv, MarketType
<1> QED BY <1>1, <1>3, <1>4, <1>6, <1>7, SessionStep DEF MarketTyped

LEMMA LockKeepsInv ==
    ASSUME MarketTyped, MarketInv, NEW s \in Sessions, M!LockWallet(s)
    PROVE  MarketInv'
<1>1. PICK t : t = session[s]
  OBVIOUS
<1>2. PICK new : new = [t EXCEPT !.at = "write", !.read = balance[t.u]]
  OBVIOUS
<1>3. /\ session' = [session EXCEPT ![s] = new] /\ t.at = "lock"
      /\ lock[t.u] = M!None /\ lock' = [lock EXCEPT ![t.u] = s]
      /\ UNCHANGED <<balance, entry, payment, opened>>
  BY <1>1, <1>2 DEF M!LockWallet
<1>4. Purpose(t) /\ Progress(s, t) /\ t # M!Closed
  BY <1>1, <1>3 DEF MarketInv, SessionsSound, SessionSound, M!Closed
<1>5. t.u \in Users /\ lock' \in [Users -> Sessions \cup {M!None}] /\ lock'[t.u] = s
      /\ \A u \in Users : lock[u] # M!None => lock'[u] = lock[u]
  BY <1>3, <1>4 DEF MarketInv, MarketType, Purpose
<1>6. SessionSound(s, new)'
  <2>1. SessionFields(new)
    BY <1>2, <1>4 DEF Purpose, SessionFields
  <2> QED BY <1>2, <1>3, <1>4, <1>5, <2>1 DEF SessionSound, Purpose, Progress
<1>7. new.u = t.u /\ new.key = t.key
  BY <1>2
<1> QED BY <1>1, <1>3, <1>4, <1>5, <1>6, <1>7, SessionStep DEF MarketTyped

LEMMA PostKeepsInv ==
    ASSUME MarketTyped, MarketInv, NEW s \in Sessions, M!Write(s)
    PROVE  MarketInv'
<1>1. PICK t : t = session[s]
  OBVIOUS
<1>2. PICK new : new = [t EXCEPT !.at = IF t.op = "order" THEN "submit" ELSE "verify",
                                 !.wrote = {Posts(t)}]
  OBVIOUS
<1>3. /\ session' = [session EXCEPT ![s] = new] /\ t.at = "write"
      /\ t.read + t.sum >= 0 /\ ~Known(t.key)
      /\ UNCHANGED <<balance, entry, payment, lock, opened>>
  BY <1>1, <1>2 DEF M!Write, M!Accepted, M!Keys, Known, Posts
<1>4. Purpose(t) /\ Progress(s, t) /\ t # M!Closed
  BY <1>1, <1>3 DEF MarketInv, SessionsSound, SessionSound, M!Closed
<1>5. SessionSound(s, new)'
  <2>1. /\ Posts(new) = Posts(t) /\ new.wrote = {Posts(t)} /\ new.u = t.u /\ new.sum = t.sum
        /\ new.key = t.key /\ new.op = t.op /\ new.p = t.p /\ new.read = t.read
        /\ new.at = IF t.op = "order" THEN "submit" ELSE "verify"
    BY <1>2 DEF Posts
  <2>2. Purpose(new)'
    <3>1. SessionFields(new)
      BY <1>2, <1>4 DEF Purpose, SessionFields
    <3> QED BY <1>3, <1>4, <2>1, <3>1 DEF Purpose
  <2>3. Progress(s, new)'
    BY <1>3, <1>4, <2>1 DEF Progress, Known
  <2> QED BY <2>2, <2>3 DEF SessionSound
<1>6. new.u = t.u /\ new.key = t.key /\ lock' \in [Users -> Sessions \cup {M!None}]
  BY <1>2, <1>3 DEF MarketInv, MarketType
<1> QED BY <1>1, <1>3, <1>4, <1>5, <1>6, SessionStep DEF MarketTyped

LEMMA SubmitKeepsInv ==
    ASSUME MarketTyped, MarketInv, NEW s \in Sessions, M!Submit(s)
    PROVE  MarketInv'
<1>1. PICK t : t = session[s]
  OBVIOUS
<1>2. PICK new : new = [t EXCEPT !.at = "raise",
                                 !.wrote = @ \cup {[key |-> <<"order_refund", t.key[2]>>,
                                                    u |-> t.u, sum |-> -t.sum]}]
  OBVIOUS
<1>3. /\ session' = [session EXCEPT ![s] = new] /\ t.at = "submit"
      /\ UNCHANGED <<balance, entry, payment, lock, opened>>
  BY <1>1, <1>2 DEF M!Submit
<1>4. Purpose(t) /\ Progress(s, t) /\ t # M!Closed
  BY <1>1, <1>3 DEF MarketInv, SessionsSound, SessionSound, M!Closed
<1>5. /\ new.u = t.u /\ new.sum = t.sum /\ new.key = t.key /\ new.op = t.op /\ new.p = t.p
      /\ new.at = "raise" /\ t.op = "order"
  BY <1>2, <1>3, <1>4 DEF Progress
<1>6. SessionSound(s, new)'
  <2>1. SessionFields(new)
    BY <1>2, <1>4 DEF Purpose, SessionFields
  <2> QED BY <1>3, <1>4, <1>5, <2>1 DEF SessionSound, Purpose, Progress
<1>7. lock' \in [Users -> Sessions \cup {M!None}]
  BY <1>3 DEF MarketInv, MarketType
<1> QED BY <1>1, <1>3, <1>4, <1>5, <1>6, <1>7, SessionStep DEF MarketTyped

LEMMA RollbackKeepsInv ==
    ASSUME MarketTyped, MarketInv, NEW s \in Sessions, M!Rollback(s)
    PROVE  MarketInv'
<1>1. PICK new : new = M!Closed
  OBVIOUS
<1>2. /\ session' = [session EXCEPT ![s] = new] /\ lock' = M!Released(s)
      /\ UNCHANGED <<balance, entry, payment, opened>>
  BY <1>1 DEF M!Rollback
<1>3. /\ lock' \in [Users -> Sessions \cup {M!None}]
      /\ \A u \in Users : lock[u] # s => lock'[u] = lock[u]
  BY <1>2 DEF MarketInv, MarketType, M!Released
<1>4. SessionSound(s, new)'
  BY <1>1 DEF SessionSound, M!Closed, M!None
<1> QED BY <1>1, <1>2, <1>3, <1>4, SessionStep DEF MarketTyped

\* A commit by s, which holds the row of the wallet it posts to, if it posts at all.
LEMMA CommitIs ==
    ASSUME MarketInv, NEW s \in Sessions, NEW t, t = session[s], M!Commit(s)
    PROVE  /\ Purpose(t) /\ t # M!Closed
           /\ \/ /\ Known(t.key) /\ entry' = entry /\ balance' = balance
              \/ /\ t.op # "order" /\ lock[t.u] = s /\ ~Known(t.key)
                 /\ t.read = balance[t.u] /\ t.read + t.sum >= 0
                 /\ entry' = entry \cup {Posts(t)}
                 /\ balance' = [balance EXCEPT ![t.u] = t.read + t.sum]
           /\ payment' = IF t.op # "webhook" THEN payment
                         ELSE [payment EXCEPT ![t.p].status = "verified", ![t.p].verified = TRUE]
           /\ session' = [session EXCEPT ![s] = M!Closed]
           /\ lock' = M!Released(s)
           /\ opened' = opened
<1>1. t.at = "verify"
  BY DEF M!Commit
<1>2. Purpose(t) /\ Progress(s, t) /\ t # M!Closed
  BY <1>1 DEF MarketInv, SessionsSound, SessionSound, M!Closed
<1>3. CASE t.wrote = {} /\ Known(t.key)
  <2>1. entry' = entry /\ balance' = balance
    BY <1>3 DEF M!Commit
  <2> QED BY <1>2, <1>3, <2>1 DEF M!Commit
<1>4. CASE /\ t.op # "order" /\ t.wrote = {Posts(t)} /\ lock[t.u] = s
           /\ t.read = balance[t.u] /\ t.read + t.sum >= 0 /\ ~Known(t.key)
  <2>1. /\ entry' = entry \cup {Posts(t)}
        /\ balance' = [balance EXCEPT ![t.u] = t.read + t.sum]
    BY <1>4 DEF M!Commit
  <2> QED BY <1>2, <1>4, <2>1 DEF M!Commit
<1> QED BY <1>1, <1>2, <1>3, <1>4 DEF Progress

\* What a commit does to the payments.
LEMMA CommitPays ==
    ASSUME MarketInv, NEW t, Purpose(t),
           payment' = IF t.op # "webhook" THEN payment
                      ELSE [payment EXCEPT ![t.p].status = "verified", ![t.p].verified = TRUE]
    PROVE  /\ payment' \in [Payments -> PaymentRow \cup {M!Absent}]
           /\ \A p \in Payments : /\ payment'[p].provider = payment[p].provider
                                  /\ payment'[p].u = payment[p].u
                                  /\ payment'[p].amount = payment[p].amount
           /\ \A p \in Payments : ~(t.op = "webhook" /\ p = t.p) => payment'[p] = payment[p]
           /\ t.op = "webhook" => payment'[t.p].verified
<1>1. CASE t.op = "webhook"
  <2>1. t.p \in Payments /\ payment[t.p] \in PaymentRow
    BY <1>1 DEF MarketInv, MarketType, Purpose, M!Absent, M!None, Gateways
  <2>2. PICK new : new = [payment[t.p] EXCEPT !.status = "verified", !.verified = TRUE]
    OBVIOUS
  <2>3. /\ new \in PaymentRow /\ new.provider = payment[t.p].provider
        /\ new.u = payment[t.p].u /\ new.amount = payment[t.p].amount
    BY <2>1, <2>2 DEF PaymentRow
  <2>4. new.verified
    BY <2>1, <2>2 DEF PaymentRow
  <2>5. payment' = [payment EXCEPT ![t.p] = new]
    BY <1>1, <2>1, <2>2 DEF MarketInv, MarketType
  <2>6. payment'[t.p] = new /\ \A p \in Payments : p # t.p => payment'[p] = payment[p]
    BY <2>1, <2>5 DEF MarketInv, MarketType
  <2>7. payment' \in [Payments -> PaymentRow \cup {M!Absent}]
    BY <2>1, <2>3, <2>5 DEF MarketInv, MarketType
  <2>8. payment'[t.p].verified
    BY <2>4, <2>6
  <2>9. \A p \in Payments : /\ payment'[p].provider = payment[p].provider
                            /\ payment'[p].u = payment[p].u
                            /\ payment'[p].amount = payment[p].amount
    BY <2>3, <2>6
  <2> QED BY <2>6, <2>7, <2>8, <2>9
<1>2. CASE t.op # "webhook"
  BY <1>2 DEF MarketInv, MarketType
<1> QED BY <1>1, <1>2

\* One posting under a new key: the ledger stays sound.
LEMMA PostsOne ==
    ASSUME MarketInv, NEW t, Purpose(t), t.op # "order", ~Known(t.key),
           t.read = balance[t.u], t.read + t.sum >= 0,
           entry' = entry \cup {Posts(t)},
           balance' = [balance EXCEPT ![t.u] = t.read + t.sum],
           \A e : Posting(e) => Posting(e)',
           \A p \in Payments : /\ payment'[p].provider = payment[p].provider
                               /\ payment'[p].u = payment[p].u
                               /\ payment'[p].amount = payment[p].amount,
           opened' = opened
    PROVE  LedgerSound' /\ balance' \in [Users -> Nat]
<1>1. PICK new : new = Posts(t)
  OBVIOUS
<1>2. /\ new.key = t.key /\ new.u = t.u /\ new.sum = t.sum /\ new.sum \in Int /\ t.u \in Users
      /\ new \notin entry
  BY <1>1 DEF Posts, Purpose, Known
<1>3. Posting(new)
  <2>1. CASE t.op = "webhook"
    BY <1>2, <2>1 DEF Posting, Purpose
  <2>2. CASE t.op = "adjust"
    BY <1>2, <2>2 DEF Posting, Purpose
  <2> QED BY <2>1, <2>2 DEF Purpose
<1>4. entry' = entry \cup {new} /\ IsFiniteSet(entry) /\ \A e \in entry' : e.sum \in Int
  BY <1>1, <1>2 DEF MarketInv, LedgerSound, Posting
<1>5. IsFiniteSet(entry')
  BY <1>4, FS_AddElement
<1>6. \A e \in entry' : Posting(e)'
  BY <1>3, <1>4 DEF MarketInv, LedgerSound
<1>7. \A d, e \in entry' : d.key = e.key => d = e
  BY <1>2, <1>4 DEF MarketInv, LedgerSound, Known
<1>8. balance' \in [Users -> Nat] /\ balance'[t.u] = balance[t.u] + t.sum
      /\ \A u \in Users : u # t.u => balance'[u] = balance[u]
  BY <1>2 DEF MarketInv, MarketType, Purpose
<1>9. ASSUME NEW u \in Users
      PROVE  balance'[u] = Sums({e \in entry' : e.u = u})
  <2>1. PICK old : old = {e \in entry : e.u = u}
    OBVIOUS
  <2>2. balance[u] = Sums(old) /\ IsFiniteSet(old) /\ old \subseteq entry
    <3>1. old \subseteq entry
      BY <2>1
    <3> QED BY <1>4, <2>1, <3>1, FS_Subset DEF MarketInv, LedgerSound
  <2>3. CASE u # t.u
    <3>1. {e \in entry' : e.u = u} = old
      BY <1>2, <1>4, <2>1, <2>3
    <3> QED BY <1>8, <2>2, <2>3, <3>1
  <2>4. CASE u = t.u
    <3>1. {e \in entry' : e.u = u} = old \cup {new}
      BY <1>2, <1>4, <2>1, <2>4
    <3>2. Sums(old \cup {new}) = new.sum + Sums(old)
      BY <1>2, <1>4, <2>2, SumWith
    <3>3. balance[u] \in Int /\ new.sum \in Int
      BY <1>2 DEF MarketInv, MarketType
    <3>4. PICK a \in Int, b \in Int : a = balance[u] /\ b = new.sum
      BY <3>3
    <3>5. balance'[u] = a + b
      BY <1>2, <1>8, <2>4, <3>4
    <3>6. Sums({e \in entry' : e.u = u}) = b + a
      BY <2>2, <3>1, <3>2, <3>4
    <3> QED BY <3>5, <3>6
  <2> QED BY <2>3, <2>4
<1> QED BY <1>5, <1>6, <1>7, <1>8, <1>9 DEF LedgerSound

LEMMA EndKeepsInv ==
    ASSUME MarketTyped, MarketInv, NEW s \in Sessions, M!Commit(s)
    PROVE  MarketInv'
<1>1. PICK t : t = session[s]
  OBVIOUS
<1> DEFINE Replays == Known(t.key) /\ entry' = entry /\ balance' = balance
           Adds1 == /\ t.op # "order" /\ lock[t.u] = s /\ ~Known(t.key)
                    /\ t.read = balance[t.u] /\ t.read + t.sum >= 0
                    /\ entry' = entry \cup {Posts(t)}
                    /\ balance' = [balance EXCEPT ![t.u] = t.read + t.sum]
<1>2. /\ Purpose(t) /\ t # M!Closed
      /\ Replays \/ Adds1
      /\ payment' = IF t.op # "webhook" THEN payment
                    ELSE [payment EXCEPT ![t.p].status = "verified", ![t.p].verified = TRUE]
      /\ session' = [session EXCEPT ![s] = M!Closed]
      /\ lock' = M!Released(s)
      /\ opened' = opened
  BY <1>1, CommitIs
<1>3. /\ payment' \in [Payments -> PaymentRow \cup {M!Absent}]
      /\ \A p \in Payments : /\ payment'[p].provider = payment[p].provider
                             /\ payment'[p].u = payment[p].u
                             /\ payment'[p].amount = payment[p].amount
      /\ \A p \in Payments : ~(t.op = "webhook" /\ p = t.p) => payment'[p] = payment[p]
      /\ t.op = "webhook" => payment'[t.p].verified
  BY <1>2, CommitPays
<1>4. (\A e : Posting(e) => Posting(e)') /\ (\A r : Purpose(r) => Purpose(r)')
  <2>1. opened \in Nat /\ opened' \in Nat /\ opened <= opened'
    BY <1>2 DEF MarketInv, MarketType
  <2> QED BY <1>3, <2>1, StandsFor
<1>5. LedgerSound' /\ balance' \in [Users -> Nat]
  <2>1. CASE Replays
    BY <1>4, <2>1 DEF MarketInv, LedgerSound, MarketType
  <2>2. CASE Adds1
    BY <1>2, <1>3, <1>4, <2>2, PostsOne
  <2> QED BY <1>2, <2>1, <2>2
<1>6. MarketType'
  BY <1>2, <1>3, <1>5 DEF MarketInv, MarketType, M!Released

\* What becomes known is the key of this session.
<1>7. \A key : Known(key)' <=> Known(key) \/ (key = t.key /\ Adds1)
  <2>1. CASE Replays
    BY <2>1 DEF Known
  <2>2. CASE Adds1
    <3>1. entry' = entry \cup {Posts(t)} /\ Posts(t).key = t.key
      BY <2>2 DEF Posts
    <3> HIDE DEF Adds1
    <3>2. \A key : Known(key)' <=> Known(key) \/ key = t.key
      BY <3>1 DEF Known
    <3> QED BY <2>2, <3>2
  <2> QED BY <1>2, <2>1, <2>2
<1> HIDE DEF Replays, Adds1
<1>8. VerifiedWhenPaid'
  <2> SUFFICES ASSUME NEW p \in Payments
               PROVE  payment'[p].verified <=> Paid(p)'
    BY DEF VerifiedWhenPaid
  <2>1. Paid(p) <=> Known(<<"deposit", p>>)
    BY DEF Paid, Known
  <2>2. Paid(p)' <=> Known(<<"deposit", p>>)'
    BY DEF Paid, Known
  <2>3. CASE t.op = "webhook" /\ p = t.p
    <3>1. t.key = <<"deposit", p>>
      BY <1>2, <2>3 DEF Purpose
    <3>2. Known(t.key)'
      BY <1>2, <1>7 DEF Replays
    <3>3. Paid(p)'
      BY <2>2, <3>1, <3>2 DEF Known
    <3> QED BY <1>3, <2>3, <3>3
  <2>4. CASE ~(t.op = "webhook" /\ p = t.p)
    <3>1. ~(t.key = <<"deposit", p>> /\ Adds1)
      BY <1>2, <2>4 DEF Purpose, Adds1
    <3>2. Paid(p)' <=> Paid(p)
      BY <1>7, <2>1, <2>2, <3>1
    <3>3. payment'[p] = payment[p]
      BY <1>3, <2>4
    <3> QED BY <3>2, <3>3, Zenon DEF MarketInv, VerifiedWhenPaid
  <2> QED BY <2>3, <2>4
<1>9. SessionsSound'
  <2> SUFFICES ASSUME NEW r \in Sessions
               PROVE  SessionSound(r, session[r])'
    BY DEF SessionsSound
  <2>1. PICK v : v = session'[r]
    OBVIOUS
  <2>2. SessionSound(r, v)'
    <3>1. CASE v = M!Closed
      BY <3>1 DEF SessionSound, M!Closed, M!None
    <3>2. CASE v # M!Closed
      <4>1. r # s /\ v = session[r]
        BY <1>2, <2>1, <3>2 DEF MarketInv, MarketType
      <4>2. Purpose(v) /\ Progress(r, v) /\ v.u \in Users /\ t.u \in Users
        BY <1>2, <3>2, <4>1 DEF MarketInv, SessionsSound, SessionSound, Purpose
      <4>3. lock[v.u] = r => lock'[v.u] = r
        BY <1>2, <4>1, <4>2 DEF M!Released
      <4>4. lock[v.u] = r => balance'[v.u] = balance[v.u]
        <5>1. CASE Replays
          BY <5>1 DEF Replays
        <5>2. CASE Adds1
          BY <4>1, <4>2, <5>2 DEF Adds1, MarketInv, MarketType
        <5> QED BY <1>2, <5>1, <5>2
      <4>5. lock[v.u] = r /\ ~Known(v.key) => ~Known(v.key)'
        <5>1. v.key = t.key => v.u = t.u
          BY <1>1, <1>2, <3>2, <4>1 DEF MarketInv, OneWallet
        <5> QED BY <1>7, <4>1, <5>1 DEF Adds1
      <4>6. Known(v.key) => Known(v.key)'
        BY <1>7
      <4>7. Progress(r, v)'
        BY <4>2, <4>3, <4>4, <4>5, <4>6 DEF Progress
      <4> QED BY <1>4, <4>2, <4>7 DEF SessionSound
    <3> QED BY <3>1, <3>2
  <2> QED BY <2>1, <2>2 DEF SessionSound, Purpose, Progress, Posts, M!Closed, M!None
<1>10. OneWallet'
  <2> SUFFICES ASSUME NEW q \in Sessions, NEW r \in Sessions, session'[q] # M!Closed,
                      session'[r] # M!Closed, session'[q].key = session'[r].key
               PROVE  session'[q].u = session'[r].u
    BY DEF OneWallet, M!Closed, M!None
  <2> QED BY <1>2 DEF MarketInv, MarketType, OneWallet
<1> QED BY <1>5, <1>6, <1>8, <1>9, <1>10 DEF MarketInv

LEMMA MarketStep ==
    ASSUME MarketTyped, MarketInv, [M!Next]_marketVars
    PROVE  MarketInv'
<1>1. CASE UNCHANGED marketVars
  <2>1. UNCHANGED <<balance, entry, payment, lock, session, opened>>
    BY <1>1 DEF marketVars
  <2>2. MarketType' /\ VerifiedWhenPaid'
    BY <2>1, Zenon DEF MarketInv, MarketType, VerifiedWhenPaid, Paid, PaymentRow, M!Absent, M!None
  <2>3. LedgerSound'
    <3>1. \A e : Posting(e)' <=> Posting(e)
      BY <2>1 DEF Posting
    <3> QED BY <2>1, <3>1 DEF MarketInv, LedgerSound
  <2>4. OneWallet'
    BY <2>1, Zenon DEF MarketInv, OneWallet, M!Closed, M!None
  <2>5. SessionsSound'
    <3> SUFFICES ASSUME NEW q \in Sessions
                 PROVE  SessionSound(q, session[q])'
      BY DEF SessionsSound
    <3>1. SessionSound(q, session[q])
      BY DEF MarketInv, SessionsSound
    <3>2. Purpose(session[q]) => Purpose(session[q])'
      BY <2>1, Zenon DEF Purpose, SessionFields, M!Closed, M!None
    <3>3. Progress(q, session[q]) => Progress(q, session[q])'
      BY <2>1, Zenon DEF Progress, Known, Posts
    <3>4. session[q] = M!Closed => session'[q] = M!Closed
      BY <2>1, Zenon
    <3> QED BY <3>1, <3>2, <3>3, <3>4, Zenon DEF SessionSound, M!Closed, M!None
  <2> QED BY <2>2, <2>3, <2>4, <2>5 DEF MarketInv
<1>2. CASE \E u \in Users, p \in Payments, amount \in Amounts : M!CreateDeposit(u, p, amount)
  BY <1>2, CreateDepositKeepsInv
<1>3. ASSUME NEW s \in Sessions, NEW p \in Payments, M!Razorpay(s, p) \/ M!Stripe(s, p)
      PROVE  MarketInv'
  BY <1>3, WebhookKeepsInv DEF M!Razorpay, M!Stripe, Gateways
<1>4. ASSUME NEW s \in Sessions, NEW u \in Users, NEW amount \in Amounts,
             M!Adjust(s, u, amount) \/ M!Adjust(s, u, -amount) \/ M!Order(s, u, amount)
      PROVE  MarketInv'
  <2>1. amount \in Int /\ -amount \in Int
    BY DEF MarketTyped
  <2> QED BY <1>4, <2>1, AdjustKeepsInv, OrderKeepsInv
<1>5. ASSUME NEW s \in Sessions,
             \/ M!Look(s) \/ M!LockWallet(s) \/ M!Write(s)
             \/ M!Submit(s) \/ M!Commit(s) \/ M!Rollback(s)
      PROVE  MarketInv'
  BY <1>5, LookKeepsInv, LockKeepsInv, PostKeepsInv, SubmitKeepsInv, EndKeepsInv,
     RollbackKeepsInv
<1> QED BY <1>1, <1>2, <1>3, <1>4, <1>5 DEF M!Next

LEMMA MarketBegins ==
    ASSUME MarketTyped, Init
    PROVE  MarketInv
<1>1. /\ balance = [u \in Users |-> 0] /\ entry = {}
      /\ payment = [p \in Payments |-> M!Absent]
      /\ lock = [u \in Users |-> M!None]
      /\ session = [s \in Sessions |-> M!Closed] /\ opened = 0
  BY DEF Init, M!Init
<1>2. MarketType
  BY <1>1 DEF MarketType
<1>3. LedgerSound
  <2>1. IsFiniteSet({})
    BY FS_EmptySet
  <2>2. Sums({}) = 0
    BY <2>1, SumInOrder
  <2>3. \A u \in Users : {e \in entry : e.u = u} = {}
    BY <1>1
  <2> QED BY <1>1, <2>1, <2>2, <2>3 DEF LedgerSound
<1>4. VerifiedWhenPaid
  BY <1>1 DEF VerifiedWhenPaid, Paid, M!Absent
<1>5. SessionsSound /\ OneWallet
  BY <1>1 DEF SessionsSound, SessionSound, OneWallet
<1> QED BY <1>2, <1>3, <1>4, <1>5 DEF MarketInv

\* What the invariant says is what is promised.
LEMMA MarketPromises ==
    ASSUME MarketInv
    PROVE  DepositOnce
<1>1. ASSUME NEW p \in Payments
      PROVE  /\ payment[p].verified <=> M!Of(p) # {}
             /\ M!Cardinality(M!Of(p)) <= 1
             /\ \A e \in M!Of(p) : e.u = payment[p].u /\ e.sum = payment[p].amount
  <2>1. M!Of(p) = {e \in entry : e.key = <<"deposit", p>>}
    <3>1. ASSUME NEW e \in entry
          PROVE  e.key[1] = "deposit" /\ e.key[2] = p <=> e.key = <<"deposit", p>>
      BY <3>1 DEF MarketInv, LedgerSound, Posting
    <3> QED BY <3>1 DEF M!Of
  <2>2. PICK mine : mine = M!Of(p)
    OBVIOUS
  <2>3. payment[p].verified <=> mine # {}
    <3>1. Paid(p) <=> mine # {}
      BY <2>1, <2>2 DEF Paid
    <3> QED BY <3>1, Zenon DEF MarketInv, VerifiedWhenPaid
  <2>4. \A d, e \in mine : d = e
    BY <2>1, <2>2 DEF MarketInv, LedgerSound
  <2>5. Cardinality(mine) <= 1
    <3>1. CASE mine = {}
      BY <3>1, FS_EmptySet
    <3>2. CASE mine # {}
      <4>1. PICK e : mine = {e}
        BY <2>4, <3>2
      <4>2. Cardinality(mine) = 1
        BY <4>1, FS_Singleton, Zenon
      <4> QED BY <4>2
    <3> QED BY <3>1, <3>2
  <2>6. M!Cardinality(mine) = Cardinality(mine)
    BY DEF M!Cardinality, Cardinality
  <2>7. \A e \in mine : e.u = payment[p].u /\ e.sum = payment[p].amount
    BY <2>1, <2>2 DEF MarketInv, LedgerSound, Posting
  <2> QED BY <2>2, <2>3, <2>5, <2>6, <2>7
<1>2. ASSUME NEW u \in Users
      PROVE  /\ balance[u] = M!MapThenSumSet(LAMBDA e : e.sum, {e \in entry : e.u = u})
             /\ balance[u] >= 0
  BY DEF MarketInv, LedgerSound, MarketType, Sums
<1> QED BY <1>1, <1>2 DEF DepositOnce, M!DepositOnce

\* However webhooks, adjustments and orders overlap, replay or die, a payment is credited
\* exactly when it is verified, once, and balances are the sums of what was posted
\* (wallet/ledger.py:59-150, payments/adapters.py:136-228).
THEOREM DepositsOnce ==
    ASSUME MarketTyped
    PROVE  Spec => []DepositOnce
<1>1. Init => MarketInv
  BY MarketBegins
<1>2. MarketInv /\ [Next]_vars => MarketInv'
  BY OneScene, MarketStep
<1>3. MarketInv => DepositOnce
  BY MarketPromises
<1> QED BY <1>1, <1>2, <1>3, PTL DEF Spec

------------------------------------------------------------------------------
\* Panel

PanelSized == MaxOrders \in Nat /\ Chunk \in Nat /\ ~ShortLists /\ ~Misleading

AnyWord == A!Words \cup {"none"}
Answers == {A!InBatch(w) : w \in AnyWord} \cup {A!Alone(w) : w \in AnyWord}
Reports == [id : A!Numbers, status : Answers]

\* What may be said of a number: that it still goes, or a word the panel has had for it.
Truth(n) ==
    {A!InBatch("none")} \cup {A!InBatch(w) : w \in heard[n]} \cup {A!Alone(w) : w \in heard[n]}

\* What was found stands in the order asked, before position p of what was asked.
Below(found, ask, p) ==
    /\ \A j \in 1..Len(found) : \E a \in 1..Len(ask) : a < p /\ found[j].id = ask[a]
    /\ \A j, k \in 1..Len(found) : j < k =>
        \E a, b \in 1..Len(ask) :
            a < b /\ b < p /\ found[j].id = ask[a] /\ found[k].id = ask[b]

\* And is true.
Reported(p) ==
    /\ job.found \in Seq(Reports)
    /\ Below(job.found, job.ask, p)
    /\ \A j \in 1..Len(job.found) : job.found[j].status \in Truth(job.found[j].id)

\* The numbers still to be asked in turn are the ones from position p.
Remaining(p) ==
    /\ job.alone \in Seq(A!Numbers)
    /\ p + Len(job.alone) <= job.from
    /\ \A i \in 1..Len(job.alone) :
        p + i - 1 <= Len(job.ask) /\ job.alone[i] = job.ask[p + i - 1]

PanelTyped ==
    /\ about \in {"orders", "refills"}
    /\ said \in [A!Numbers -> AnyWord]
    /\ heard \in [A!Numbers -> SUBSET AnyWord]
    /\ known \in SUBSET A!Numbers
    /\ DOMAIN job = {"kind", "ask", "from", "alone", "found", "pc"}
    /\ job.ask \in Seq(A!Numbers)
    /\ job.from \in Nat \ {0}

\* A call that goes on has heard the word each of its numbers has now.
Listens ==
    job.pc \in {"batch", "alone"} =>
        /\ job.kind = "batch"
        /\ \A a \in 1..Len(job.ask) : said[job.ask[a]] \in heard[job.ask[a]]

Apart == job.kind = "batch" =>
            \A a, b \in 1..Len(job.ask) : a < b => job.ask[a] # job.ask[b]

BatchSound ==
    /\ job.pc \in {"batch", "done"} /\ job.kind = "batch" => Reported(job.from)
    /\ job.pc = "alone" => \E p \in Nat \ {0} : Reported(p) /\ Remaining(p)

CancelSound ==
    job.pc = "done" /\ job.kind = "cancel" =>
        \A r \in A!ToSet(job.found) : r.id \in A!Numbers /\ said[r.id] = "canceled"

PanelInv == PanelTyped /\ Listens /\ Apart /\ BatchSound /\ CancelSound

LEMMA MinIs ==
    ASSUME NEW a \in Int, NEW b \in Int
    PROVE  /\ A!Min({a, b}) \in Int
           /\ A!Min({a, b}) <= a /\ A!Min({a, b}) <= b
           /\ A!Min({a, b}) = a \/ A!Min({a, b}) = b
<1>1. \E x \in {a, b} : \A y \in {a, b} : x <= y
  OBVIOUS
<1>2. A!Min({a, b}) \in {a, b} /\ \A y \in {a, b} : A!Min({a, b}) <= y
  BY <1>1 DEF A!Min
<1> QED BY <1>2

\* A chunk is the numbers asked from the position reached, and stops before the next one's.
LEMMA ChunkIs ==
    ASSUME PanelSized, PanelTyped, A!Sending
    PROVE  /\ A!ThisChunk \in Seq(A!Numbers)
           /\ job.from + Len(A!ThisChunk) <= job.from + Chunk
           /\ job.from + Len(A!ThisChunk) - 1 <= Len(job.ask)
           /\ \A i \in 1..Len(A!ThisChunk) : A!ThisChunk[i] = job.ask[job.from + i - 1]
<1>1. PICK ask, from : ask = job.ask /\ from = job.from
  OBVIOUS
<1>2. ask \in Seq(A!Numbers) /\ from \in Nat \ {0} /\ from <= Len(ask) /\ Len(ask) \in Nat
  BY <1>1 DEF PanelTyped, A!Sending
<1>3. PICK m : m = A!Min({Len(ask), from + Chunk - 1})
  OBVIOUS
<1>4. m \in Int /\ m <= Len(ask) /\ m <= from + Chunk - 1 /\ m >= from - 1
  <2>1. PICK l, e : l = Len(ask) /\ e = from + Chunk - 1
    OBVIOUS
  <2>2. l \in Int /\ e \in Int /\ e >= from - 1 /\ l >= from
    BY <1>2, <2>1 DEF PanelSized
  <2>3. m = A!Min({l, e})
    BY <1>3, <2>1
  <2>4. m \in Int /\ m <= l /\ m <= e /\ (m = l \/ m = e)
    BY <2>2, <2>3, MinIs, Zenon
  <2> QED BY <1>2, <2>1, <2>2, <2>4 DEF PanelSized
<1>5. PICK c : c = SubSeq(ask, from, m)
  OBVIOUS
<1>6. /\ c \in Seq(A!Numbers)
      /\ Len(c) = m - from + 1
      /\ \A i \in 1..Len(c) : c[i] = ask[from + i - 1]
  BY <1>2, <1>4, <1>5
<1>7. A!ThisChunk = c
  BY <1>1, <1>3, <1>5 DEF A!ThisChunk
<1>8. from + Len(c) <= from + Chunk /\ from + Len(c) - 1 <= Len(ask)
  BY <1>2, <1>4, <1>6 DEF PanelSized
<1> QED BY <1>1, <1>6, <1>7, <1>8, Zenon

\* Appending what stands from position p on keeps the order asked.
LEMMA LongerBelow ==
    ASSUME NEW Item, NEW f \in Seq(Item), NEW g \in Seq(Item), NEW Number, NEW ask \in Seq(Number),
           NEW p \in Nat \ {0}, NEW q \in Nat, p + Len(g) <= q, Below(f, ask, p),
           \A i \in 1..Len(g) : p + i - 1 <= Len(ask) /\ g[i].id = ask[p + i - 1]
    PROVE  f \o g \in Seq(Item) /\ Below(f \o g, ask, q)
<1>1. PICK h : h = f \o g
  OBVIOUS
<1>2. /\ h \in Seq(Item) /\ Len(h) = Len(f) + Len(g)
      /\ Len(f) \in Nat /\ Len(g) \in Nat /\ Len(ask) \in Nat
      /\ \A k \in 1..Len(f) : h[k] = f[k]
      /\ \A k \in 1..Len(h) : k > Len(f) => h[k] = g[k - Len(f)]
  BY <1>1
<1>3. ASSUME NEW k \in 1..Len(h), k > Len(f)
      PROVE  /\ p + k - Len(f) - 1 \in 1..Len(ask) /\ p + k - Len(f) - 1 < q
             /\ h[k].id = ask[p + k - Len(f) - 1]
  <2>1. k - Len(f) \in 1..Len(g)
    BY <1>2, <1>3
  <2>2. PICK i \in 1..Len(g) : i = k - Len(f)
    BY <2>1
  <2>3. h[k] = g[i]
    BY <1>2, <1>3, <2>2
  <2>4. p + k - Len(f) - 1 = p + i - 1 /\ i >= 1 /\ i <= Len(g) /\ p >= 1 /\ i \in Nat
    BY <1>2, <2>2
  <2>5. p + i - 1 <= Len(ask) /\ g[i].id = ask[p + i - 1]
    OBVIOUS
  <2>6. p + i - 1 \in 1..Len(ask) /\ p + i - 1 < q
    BY <1>2, <2>4, <2>5
  <2> QED BY <2>3, <2>4, <2>5, <2>6
<1>4. ASSUME NEW k \in 1..Len(h)
      PROVE  \E a \in 1..Len(ask) : a < q /\ h[k].id = ask[a]
  <2>1. CASE k > Len(f)
    BY <1>3, <2>1
  <2>2. CASE k <= Len(f)
    <3>1. k \in 1..Len(f)
      BY <1>2, <2>2
    <3>2. PICK a \in 1..Len(ask) : a < p /\ f[k].id = ask[a]
      BY <3>1 DEF Below
    <3> QED BY <1>2, <3>1, <3>2
  <2> QED BY <1>2, <2>1, <2>2
<1>5. ASSUME NEW j \in 1..Len(h), NEW k \in 1..Len(h), j < k
      PROVE  \E a, b \in 1..Len(ask) :
                a < b /\ b < q /\ h[j].id = ask[a] /\ h[k].id = ask[b]
  <2>1. CASE j > Len(f)
    <3>1. k > Len(f)
      BY <1>2, <1>5, <2>1
    <3>2. p + j - Len(f) - 1 < p + k - Len(f) - 1
      BY <1>2, <1>5
    <3> QED BY <1>3, <2>1, <3>1, <3>2
  <2>2. CASE j <= Len(f) /\ k > Len(f)
    <3>1. j \in 1..Len(f)
      BY <1>2, <2>2
    <3>2. PICK a \in 1..Len(ask) : a < p /\ f[j].id = ask[a]
      BY <3>1 DEF Below
    <3>3. a < p + k - Len(f) - 1
      BY <1>2, <2>2, <3>2
    <3> QED BY <1>2, <1>3, <2>2, <3>1, <3>2, <3>3
  <2>3. CASE k <= Len(f)
    <3>1. j \in 1..Len(f) /\ k \in 1..Len(f)
      BY <1>2, <1>5, <2>3
    <3>2. PICK a, b \in 1..Len(ask) :
            a < b /\ b < p /\ f[j].id = ask[a] /\ f[k].id = ask[b]
      BY <1>5, <3>1 DEF Below
    <3>3. b < q
      BY <1>2, <3>2
    <3> QED BY <1>2, <3>1, <3>2, <3>3
  <2>4. j > Len(f) \/ (j <= Len(f) /\ k > Len(f)) \/ k <= Len(f)
    BY <1>2
  <2> QED BY <2>1, <2>2, <2>3, <2>4, Zenon
<1>6. Below(h, ask, q)
  BY <1>4, <1>5 DEF Below
<1> QED BY <1>1, <1>2, <1>6

\* A new call.
CalledAs(kind, ask, found, pc) ==
    /\ DOMAIN job' = {"kind", "ask", "from", "alone", "found", "pc"}
    /\ job'.kind = kind /\ job'.ask = ask /\ job'.found = found /\ job'.pc = pc
    /\ job'.from = 1

LEMMA Called ==
    ASSUME NEW kind, NEW ask, NEW found, NEW pc, job' = A!Call(kind, ask, found, pc)
    PROVE  CalledAs(kind, ask, found, pc)
BY DEF A!Call, CalledAs

LEMMA AnswersAre ==
    ASSUME NEW w \in AnyWord
    PROVE  A!InBatch(w) \in Answers /\ A!Alone(w) \in Answers
BY DEF Answers

LEMMA AnswersStay ==
    ASSUME about' = about
    PROVE  Answers' = Answers /\ Reports' = Reports
<1>1. Answers' = Answers
  BY DEF Answers, A!InBatch, A!Alone
<1> QED BY <1>1 DEF Reports

\* A step that leaves the call alone and lets every number hear what it comes to.
LEMMA PanelWorkKeepsInv ==
    ASSUME PanelInv, NEW n \in A!Numbers, A!Work(n)
    PROVE  PanelInv'
<1>1. PICK w \in A!Later(said[n]) :
        /\ said' = [said EXCEPT ![n] = w]
        /\ heard' = IF heard[n] = {} THEN heard ELSE [heard EXCEPT ![n] = @ \cup {w}]
        /\ about' = about /\ known' = known /\ job' = job
  BY Zenon DEF A!Work
<1>2. w \in AnyWord /\ said[n] # "canceled"
  BY <1>1 DEF A!Later, AnyWord, A!Words
<1>3. PanelTyped'
  BY <1>1, <1>2, AnswersStay DEF PanelInv, PanelTyped
<1>4. \A m \in A!Numbers : heard[m] \subseteq heard'[m]
  BY <1>1 DEF PanelInv, PanelTyped
<1>5. \A m \in A!Numbers : said[m] \in heard[m] => said'[m] \in heard'[m]
  BY <1>1 DEF PanelInv, PanelTyped
<1>6. \A m \in A!Numbers : said[m] = "canceled" => said'[m] = "canceled"
  BY <1>1, <1>2 DEF PanelInv, PanelTyped
<1>7. Listens'
  <2>1. \A a \in 1..Len(job.ask) : job.ask[a] \in A!Numbers
    BY DEF PanelInv, PanelTyped
  <2> QED BY <1>1, <1>5, <2>1 DEF PanelInv, Listens
<1>8. Apart'
  BY <1>1 DEF PanelInv, Apart
<1>9. BatchSound'
  <2>1. \A m \in A!Numbers : Truth(m) \subseteq Truth(m)'
    BY <1>1, <1>4 DEF Truth, A!InBatch, A!Alone
  <2>2. ASSUME NEW p, Reported(p)
        PROVE  Reported(p)'
    <3>1. PICK f : f = job.found
      OBVIOUS
    <3>2. /\ f \in Seq(Reports)
          /\ \A j \in 1..Len(f) : f[j].status \in Truth(f[j].id)
      BY <2>2, <3>1, Zenon DEF Reported
    <3>3. \A j \in 1..Len(f) : f[j] \in Reports
      BY <3>2
    <3>4. \A j \in 1..Len(f) : f[j].id \in A!Numbers
      BY <3>3 DEF Reports
    <3>5. \A j \in 1..Len(f) : f[j].status \in Truth(f[j].id)'
      BY <2>1, <3>2, <3>4
    <3>6. Reported(p)' <=> /\ f \in Seq(Reports)
                           /\ Below(f, job.ask, p)
                           /\ \A j \in 1..Len(f) : f[j].status \in Truth(f[j].id)'
      BY <1>1, <3>1, AnswersStay, Zenon DEF Reported
    <3>7. Below(f, job.ask, p)
      BY <2>2, <3>1, Zenon DEF Reported
    <3> QED BY <3>2, <3>5, <3>6, <3>7
  <2>3. ASSUME NEW p, Remaining(p)
        PROVE  Remaining(p)'
    BY <1>1, <2>3 DEF Remaining
  <2> QED BY <1>1, <2>2, <2>3 DEF PanelInv, BatchSound
<1>10. CancelSound'
  BY <1>1, <1>6 DEF PanelInv, CancelSound
<1> QED BY <1>3, <1>7, <1>8, <1>9, <1>10 DEF PanelInv

\* Any other call than a batch that ends, or a batch that raises.
LEMMA EndedKeepsInv ==
    ASSUME PanelTyped', job'.pc \notin {"batch", "alone"},
           job'.kind = "batch" => job'.pc = "raised" /\ Apart',
           job'.kind = "cancel" => CancelSound'
    PROVE  PanelInv'
BY DEF PanelInv, Listens, Apart, BatchSound, CancelSound

LEMMA PlaceKeepsInv ==
    ASSUME PanelInv, NEW n \in A!Numbers, A!Place(n)
    PROVE  PanelInv'
<1>1. PICK found, pc : job' = A!Call("place", <<n>>, found, pc) /\ pc \in {"done", "raised"}
  BY Zenon DEF A!Place
<1>2. said' \in {said, [said EXCEPT ![n] = "pending"]} /\ known' \in {known, known \cup {n}}
      /\ about' = about /\ heard' = heard
  BY Zenon DEF A!Place
<1>3. CalledAs("place", <<n>>, found, pc)
  BY <1>1, Called
<1>4. PanelTyped'
  <2>1. <<n>> \in Seq(A!Numbers)
    OBVIOUS
  <2>2. said' \in [A!Numbers -> AnyWord] /\ known' \in SUBSET A!Numbers
    BY <1>2 DEF PanelInv, PanelTyped, AnyWord, A!Words
  <2> QED BY <1>2, <1>3, <2>1, <2>2 DEF PanelInv, PanelTyped, CalledAs
<1> QED BY <1>1, <1>3, <1>4, EndedKeepsInv DEF CalledAs

LEMMA CancelKeepsInv ==
    ASSUME PanelSized, PanelInv, NEW n \in A!Numbers, A!Cancel(n)
    PROVE  PanelInv'
<1>1. PICK ok \in BOOLEAN :
        /\ said' = IF ok THEN [said EXCEPT ![n] = "canceled"] ELSE said
        /\ \/ \E a \in IF ok THEN A!CancelAnswers ELSE A!DeclineAnswers :
                job' = A!Call("cancel", <<n>>,
                              IF A!SaysSuccess(a) THEN <<[id |-> n, status |-> "cancelled"]>>
                              ELSE <<>>, "done")
           \/ job' = A!Call("cancel", <<n>>, <<>>, "raised")
        /\ about' = about /\ known' = known /\ heard' = heard
  BY Zenon DEF A!Cancel
<1>2. PICK found, pc : /\ job' = A!Call("cancel", <<n>>, found, pc) /\ pc \in {"done", "raised"}
                       /\ found = <<>> \/ (ok /\ found = <<[id |-> n, status |-> "cancelled"]>>)
  BY <1>1 DEF A!CancelAnswers, A!DeclineAnswers, A!SaysSuccess, PanelSized
<1>3. PanelTyped' /\ CalledAs("cancel", <<n>>, found, pc)
  <2>1. <<n>> \in Seq(A!Numbers)
    OBVIOUS
  <2>2. said' \in [A!Numbers -> AnyWord]
    BY <1>1 DEF PanelInv, PanelTyped, AnyWord, A!Words
  <2>3. CalledAs("cancel", <<n>>, found, pc)
    BY <1>2, Called
  <2> QED BY <1>1, <2>1, <2>2, <2>3 DEF PanelInv, PanelTyped, CalledAs
<1>4. \A r \in A!ToSet(found) : r.id = n /\ said'[n] = "canceled"
  BY <1>1, <1>2 DEF A!ToSet, PanelInv, PanelTyped
<1>5. CancelSound'
  BY <1>3, <1>4 DEF CancelSound, CalledAs
<1> QED BY <1>2, <1>3, <1>5, EndedKeepsInv DEF CalledAs

LEMMA OthersKeepInv ==
    ASSUME PanelInv, A!Fetch \/ A!Probe \/ A!Taken
    PROVE  PanelInv'
<1>1. PICK kind, found, pc : /\ job' = A!Call(kind, <<>>, found, pc)
                             /\ kind \in {"services", "probe", "none"}
                             /\ pc \in {"done", "raised", "idle"}
  BY Zenon DEF A!Fetch, A!Probe, A!Taken, A!Idle
<1>2. about' = about /\ said' = said /\ known' = known
      /\ (heard' = heard \/ heard' = [n \in A!Numbers |-> {}])
  BY Zenon DEF A!Fetch, A!Probe, A!Taken
<1>3. CalledAs(kind, <<>>, found, pc)
  BY <1>1, Called
<1>4. PanelTyped'
  BY <1>2, <1>3 DEF PanelInv, PanelTyped, CalledAs
<1> QED BY <1>1, <1>3, <1>4, EndedKeepsInv DEF CalledAs

\* An enumeration of a set of numbers: a sequence in which no number is twice.
LEMMA InOrderAre ==
    ASSUME PanelSized, NEW ids \in SUBSET A!Numbers, NEW ask \in A!InOrder(ids)
    PROVE  /\ ask \in Seq(ids) /\ \A a, b \in 1..Len(ask) : a < b => ask[a] # ask[b]
<1>1. IsFiniteSet(ids)
  <2>1. MaxOrders \in Nat /\ A!Numbers = 1..MaxOrders
    BY DEF PanelSized, A!Numbers
  <2>2. IsFiniteSet(A!Numbers)
    BY <2>1, FS_Interval
  <2> QED BY <2>2, FS_Subset
<1>2. Cardinality(ids) \in Nat
  BY <1>1, FS_CardinalityType
<1>3. PICK c \in Nat : c = Cardinality(ids)
  BY <1>2
<1>4. ask \in [1..c -> ids] /\ \A i, j \in 1..c : i # j => ask[i] # ask[j]
  BY <1>3 DEF A!InOrder, A!SetToSeqs, A!Cardinality, Cardinality
<1> QED BY <1>4

LEMMA AskKeepsTheInv ==
    ASSUME PanelSized, PanelInv, NEW ids \in SUBSET known, A!Ask(ids)
    PROVE  PanelInv'
<1>1. PICK ask \in A!InOrder(ids) : job' = A!Call("batch", ask, <<>>, "batch")
  BY Zenon DEF A!Ask
<1>2. /\ heard' = [n \in A!Numbers |-> IF n \in ids THEN {said[n]} ELSE {}]
      /\ about' = about /\ said' = said /\ known' = known
  BY Zenon DEF A!Ask
<1>3. ids \in SUBSET A!Numbers
  BY DEF PanelInv, PanelTyped
<1>4. ask \in Seq(ids) /\ \A a, b \in 1..Len(ask) : a < b => ask[a] # ask[b]
  BY <1>3, InOrderAre
<1>0. CalledAs("batch", ask, <<>>, "batch")
  BY <1>1, Called
<1>5. PanelTyped'
  <2>1. ask \in Seq(A!Numbers)
    BY <1>3, <1>4
  <2>2. heard' \in [A!Numbers -> SUBSET AnyWord]
    BY <1>2 DEF PanelInv, PanelTyped
  <2> QED BY <1>0, <1>2, <2>1, <2>2 DEF PanelInv, PanelTyped, CalledAs
<1>6. Listens'
  <2>1. \A a \in 1..Len(ask) : ask[a] \in ids
    BY <1>4
  <2>2. \A a \in 1..Len(ask) : said[ask[a]] \in heard'[ask[a]]
    BY <1>2, <1>3, <2>1
  <2> QED BY <1>0, <1>2, <2>2 DEF Listens, CalledAs
<1>7. Apart'
  BY <1>0, <1>4 DEF Apart, CalledAs
<1>8. BatchSound'
  <2>1. <<>> \in Seq(Reports') /\ Len(<<>>) = 0
    OBVIOUS
  <2>2. Reported(1)'
    BY <1>0, <2>1 DEF Reported, Below, CalledAs
  <2> QED BY <1>0, <2>2 DEF BatchSound, CalledAs
<1>9. CancelSound'
  BY <1>0 DEF CancelSound, CalledAs
<1> QED BY <1>5, <1>6, <1>7, <1>8, <1>9 DEF PanelInv

\* The call goes on: what it asks, and what it is about, stay.
GoesOnAs(found, from, alone, pc) ==
    /\ DOMAIN job' = {"kind", "ask", "from", "alone", "found", "pc"}
    /\ job'.kind = job.kind /\ job'.ask = job.ask
    /\ job'.found = found /\ job'.from = from /\ job'.alone = alone /\ job'.pc = pc
    /\ UNCHANGED <<about, said, known, heard>>

LEMMA GoesOnKeepsInv ==
    ASSUME PanelInv, job.pc \in {"batch", "alone"}, NEW found, NEW from \in Nat \ {0}, NEW alone,
           NEW pc, GoesOnAs(found, from, alone, pc),
           pc \in {"batch", "done"} => Reported(from)',
           pc = "alone" => \E p \in Nat \ {0} : Reported(p)' /\ Remaining(p)'
    PROVE  PanelInv'
<1>1. job.kind = "batch"
  BY DEF PanelInv, Listens
<1>2. PanelTyped'
  BY DEF PanelInv, PanelTyped, GoesOnAs
<1>3. Listens'
  BY <1>1 DEF PanelInv, Listens, GoesOnAs
<1>4. Apart'
  BY DEF PanelInv, Apart, GoesOnAs
<1>5. BatchSound'
  BY DEF BatchSound, GoesOnAs
<1>6. CancelSound'
  BY <1>1 DEF CancelSound, GoesOnAs
<1> QED BY <1>2, <1>3, <1>4, <1>5, <1>6 DEF PanelInv

LEMMA RaiseKeepsInv ==
    ASSUME PanelInv, job.pc \in {"batch", "alone"}, A!Raise, UNCHANGED <<about, said, known, heard>>
    PROVE  PanelInv'
<1>1. GoesOnAs(<<>>, job.from, job.alone, "raised")
  BY DEF A!Raise, GoesOnAs, PanelInv, PanelTyped
<1>2. job.from \in Nat \ {0}
  BY DEF PanelInv, PanelTyped
<1> QED BY <1>1, <1>2, GoesOnKeepsInv

\* More is found from position p on, and is true.
LEMMA MoreReported ==
    ASSUME PanelTyped, NEW p \in Nat \ {0}, Reported(p), NEW g \in Seq(Reports), NEW q \in Nat,
           p + Len(g) <= q,
           \A i \in 1..Len(g) :
                /\ p + i - 1 <= Len(job.ask) /\ g[i].id = job.ask[p + i - 1]
                /\ g[i].status \in Truth(g[i].id),
           NEW from, NEW alone, NEW pc, GoesOnAs(job.found \o g, from, alone, pc)
    PROVE  Reported(q)'
<1>1. PICK f, ask : f = job.found /\ ask = job.ask
  OBVIOUS
<1>2. /\ f \in Seq(Reports) /\ Below(f, ask, p) /\ ask \in Seq(A!Numbers)
      /\ \A j \in 1..Len(f) : f[j].status \in Truth(f[j].id)
  BY <1>1, Zenon DEF Reported, PanelTyped
<1>3. PICK h : h = f \o g
  OBVIOUS
<1>4. h \in Seq(Reports) /\ Below(h, ask, q)
  BY <1>1, <1>2, <1>3, LongerBelow, Zenon
<1>5. \A j \in 1..Len(h) : h[j].status \in Truth(h[j].id)
  <2>1. /\ Len(h) = Len(f) + Len(g)
        /\ Len(f) \in Nat /\ Len(g) \in Nat
        /\ \A k \in 1..Len(f) : h[k] = f[k]
        /\ \A k \in 1..Len(h) : k > Len(f) => h[k] = g[k - Len(f)]
    BY <1>2, <1>3
  <2>2. ASSUME NEW j \in 1..Len(h)
        PROVE  h[j].status \in Truth(h[j].id)
    <3>1. CASE j > Len(f)
      <4>1. PICK i \in 1..Len(g) : i = j - Len(f)
        BY <2>1, <3>1
      <4> QED BY <2>1, <3>1, <4>1
    <3>2. CASE j <= Len(f)
      <4>1. j \in 1..Len(f)
        BY <2>1, <3>2
      <4> QED BY <1>2, <2>1, <4>1
    <3> QED BY <2>1, <3>1, <3>2
  <2> QED BY <2>2
<1>6. job'.found = h /\ job'.ask = ask /\ about' = about /\ heard' = heard
  BY <1>1, <1>3, Zenon DEF GoesOnAs
<1>7. Reports' = Reports
  BY <1>6, AnswersStay
<1>8. \A n : Truth(n)' = Truth(n)
  BY <1>6 DEF Truth, A!InBatch, A!Alone
<1>9. Reported(q)' <=> /\ h \in Seq(Reports)
                       /\ Below(h, ask, q)
                       /\ \A j \in 1..Len(h) : h[j].status \in Truth(h[j].id)'
  BY <1>6, <1>7, Zenon DEF Reported
<1> QED BY <1>4, <1>5, <1>8, <1>9

\* An answer that gives, for every number of the chunk, the word it has or none.
LEMMA AppendKeepsInv ==
    ASSUME PanelSized, PanelInv, A!Sending, NEW g \in Seq(Reports),
           Len(g) = Len(A!ThisChunk),
           \A i \in 1..Len(g) :
                /\ g[i].id = A!ThisChunk[i]
                /\ g[i].status \in {A!InBatch("none"), A!InBatch(said[A!ThisChunk[i]])},
           A!Append_results(g), UNCHANGED <<about, said, known, heard>>
    PROVE  PanelInv'
<1>1. PICK p \in Nat \ {0} : p = job.from
  BY DEF PanelInv, PanelTyped
<1>2. Reported(p) /\ job.kind = "batch"
  BY <1>1 DEF PanelInv, BatchSound, Listens, A!Sending
<1>3. Len(g) \in Nat /\ p + Len(g) <= p + Chunk /\ p + Len(g) - 1 <= Len(job.ask) /\ Chunk \in Nat
  BY <1>1, ChunkIs DEF PanelInv, PanelSized
<1>4. ASSUME NEW i \in 1..Len(g)
      PROVE  /\ p + i - 1 <= Len(job.ask) /\ g[i].id = job.ask[p + i - 1]
             /\ g[i].status \in Truth(g[i].id)
  <2>1. p + i - 1 \in 1..Len(job.ask)
    BY <1>3, <1>4
  <2>2. A!ThisChunk[i] = job.ask[p + i - 1]
    BY <1>1, ChunkIs DEF PanelInv
  <2>3. said[job.ask[p + i - 1]] \in heard[job.ask[p + i - 1]]
    BY <2>1 DEF PanelInv, Listens, A!Sending
  <2>4. g[i].id = job.ask[p + i - 1]
    BY <2>2
  <2>5. g[i].status \in {A!InBatch("none"), A!InBatch(said[g[i].id])} /\ said[g[i].id] \in heard[g[i].id]
    BY <2>2, <2>3, <2>4
  <2>6. g[i].status \in Truth(g[i].id)
    BY <2>5 DEF Truth
  <2> QED BY <2>1, <2>4, <2>6
<1>5. GoesOnAs(job.found \o g, p + Chunk, job.alone, "batch")
  BY <1>1 DEF A!Append_results, GoesOnAs, PanelInv, PanelTyped, A!Sending
<1>6. p + Chunk \in Nat \ {0}
  BY <1>3
<1>7. Reported(p + Chunk)'
  <2>1. PICK q \in Nat : q = p + Chunk
    BY <1>3
  <2>2. p + Len(g) <= q
    BY <1>3, <2>1
  <2>3. Reported(q)'
    BY <1>2, <1>4, <1>5, <2>2, MoreReported DEF PanelInv
  <2> QED BY <2>1, <2>3
<1>8. job.pc \in {"batch", "alone"}
  BY DEF A!Sending
<1> QED BY <1>5, <1>6, <1>7, <1>8, GoesOnKeepsInv

\* What stands in a chunk are numbers, with a word each.
LEMMA ChunkTyped ==
    ASSUME PanelSized, PanelInv, A!Sending, NEW i \in 1..Len(A!ThisChunk)
    PROVE  /\ A!ThisChunk[i] \in A!Numbers
           /\ A!InBatch(said[A!ThisChunk[i]]) \in Answers /\ A!InBatch("none") \in Answers
<1>1. A!ThisChunk[i] \in A!Numbers
  BY ChunkIs DEF PanelInv
<1>2. said[A!ThisChunk[i]] \in AnyWord /\ "none" \in AnyWord
  BY <1>1 DEF PanelInv, PanelTyped, AnyWord
<1> QED BY <1>1, <1>2, AnswersAre

LEMMA SendKeepsTheInv ==
    ASSUME PanelSized, PanelInv, A!Send
    PROVE  PanelInv'
<1>1. A!Sending /\ UNCHANGED <<about, said, known, heard>>
  BY Zenon DEF A!Send
<1>2. PICK c : c = A!ThisChunk
  OBVIOUS
<1>3. c \in Seq(A!Numbers) /\ Len(c) \in Nat /\ DOMAIN c = 1..Len(c)
  BY <1>1, <1>2, ChunkIs DEF PanelInv
<1>4. \A i \in 1..Len(c) :
        c[i] \in A!Numbers /\ A!InBatch(said[c[i]]) \in Answers /\ A!InBatch("none") \in Answers
  BY <1>1, <1>2, ChunkTyped
<1>5. CASE A!AnswerNamed
  <2>1. PICK missing : A!Append_results(A!Named(missing))
    BY <1>5, Zenon DEF A!AnswerNamed
  <2>2. PICK g : g = A!Named(missing)
    OBVIOUS
  <2>3. g = [k \in 1..Len(c) |->
                [id |-> c[k],
                 status |-> A!InBatch(IF c[k] \in missing THEN "none" ELSE said[c[k]])]]
    BY <1>2, <1>3, <2>2 DEF A!Named
  <2>4. \A k \in 1..Len(c) : g[k] \in Reports
    BY <1>4, <2>3 DEF Reports
  <2>5. g \in Seq(Reports) /\ Len(g) = Len(c)
    BY <1>3, <2>3, <2>4
  <2>6. \A i \in 1..Len(g) :
          /\ g[i].id = A!ThisChunk[i]
          /\ g[i].status \in {A!InBatch("none"), A!InBatch(said[A!ThisChunk[i]])}
    BY <1>2, <2>3, <2>5
  <2>7. A!Append_results(g)
    BY <2>1, <2>2
  <2> QED BY <1>1, <1>2, <2>5, <2>6, <2>7, AppendKeepsInv
<1>6. CASE A!AnswerListed
  <2>1. A!Raise \/ A!Append_results(A!Listed(c))
    BY <1>2, <1>6 DEF A!AnswerListed, PanelSized
  <2>2. CASE A!Raise
    BY <1>1, <2>2, RaiseKeepsInv DEF A!Sending
  <2>3. CASE A!Append_results(A!Listed(c))
    <3>1. PICK g : g = A!Listed(c)
      OBVIOUS
    <3>2. g = [k \in 1..Len(c) |-> [id |-> c[k], status |-> A!InBatch(said[c[k]])]]
      BY <1>2, <3>1 DEF A!Listed
    <3>3. \A k \in 1..Len(c) : g[k] \in Reports
      BY <1>4, <3>2 DEF Reports
    <3>4. g \in Seq(Reports) /\ Len(g) = Len(c)
      BY <1>3, <3>2, <3>3
    <3>5. \A i \in 1..Len(g) :
            /\ g[i].id = A!ThisChunk[i]
            /\ g[i].status \in {A!InBatch("none"), A!InBatch(said[A!ThisChunk[i]])}
      BY <1>2, <3>2, <3>4
    <3>6. A!Append_results(g)
      BY <2>3, <3>1
    <3> QED BY <1>1, <1>2, <3>4, <3>5, <3>6, AppendKeepsInv
  <2> QED BY <2>1, <2>2, <2>3
<1>7. CASE A!AnswerRefused
  <2>1. PICK p \in Nat \ {0} : p = job.from
    BY DEF PanelInv, PanelTyped
  <2>2. p + Chunk \in Nat \ {0}
    BY DEF PanelSized
  <2>3. GoesOnAs(job.found, p + Chunk, c, "alone")
    BY <1>1, <1>2, <1>7, <2>1 DEF A!AnswerRefused, GoesOnAs, PanelInv, PanelTyped
  <2>4. Reported(p)'
    <3>1. Reported(p)
      BY <1>1, <2>1 DEF PanelInv, BatchSound, Listens, A!Sending
    <3>2. Reports' = Reports /\ \A n : Truth(n)' = Truth(n)
      BY <1>1, AnswersStay DEF Truth, A!InBatch, A!Alone
    <3> QED BY <2>3, <3>1, <3>2 DEF Reported, GoesOnAs
  <2>5. Remaining(p)'
    <3>1. /\ p + Len(c) <= p + Chunk
          /\ \A i \in 1..Len(c) : p + i - 1 <= Len(job.ask) /\ c[i] = job.ask[p + i - 1]
      <4>1. /\ p + Len(c) <= p + Chunk
            /\ p + Len(c) - 1 <= Len(job.ask)
            /\ \A i \in 1..Len(c) : c[i] = job.ask[p + i - 1]
        BY <1>1, <1>2, <2>1, ChunkIs DEF PanelInv
      <4>2. PICK l \in Nat : l = Len(job.ask)
        BY DEF PanelInv, PanelTyped
      <4>3. \A i \in 1..Len(c) : p + i - 1 <= l
        BY <1>3, <4>1, <4>2
      <4> QED BY <4>1, <4>2, <4>3
    <3> QED BY <1>3, <2>3, <3>1 DEF Remaining, GoesOnAs
  <2>6. job.pc \in {"batch", "alone"}
    BY <1>1 DEF A!Sending
  <2> QED BY <2>2, <2>3, <2>4, <2>5, <2>6, GoesOnKeepsInv
<1>8. CASE A!Raise
  BY <1>1, <1>8, RaiseKeepsInv DEF A!Sending
<1> QED BY <1>5, <1>6, <1>7, <1>8, Zenon DEF A!Send

\* What was found before a position was found before every later one.
LEMMA ReportedLater ==
    ASSUME PanelTyped, NEW p \in Nat, NEW q \in Nat, p <= q, Reported(p)
    PROVE  Reported(q)
<1>1. PICK f, ask : f = job.found /\ ask = job.ask /\ Len(ask) \in Nat
  BY DEF PanelTyped
<1>2. Below(f, ask, p)
  BY <1>1 DEF Reported
<1>3. Below(f, ask, q)
  BY <1>1, <1>2 DEF Below
<1> QED BY <1>1, <1>3 DEF Reported

\* A step that finds nothing leaves what is reported.
LEMMA SameReported ==
    ASSUME NEW p, Reported(p), NEW from, NEW alone, NEW pc, GoesOnAs(job.found, from, alone, pc)
    PROVE  Reported(p)'
<1>1. Reports' = Reports /\ \A n : Truth(n)' = Truth(n)
  BY AnswersStay DEF Truth, A!InBatch, A!Alone, GoesOnAs
<1> QED BY <1>1 DEF Reported, GoesOnAs

LEMMA AskAloneKeepsInv ==
    ASSUME PanelInv, A!AskAlone
    PROVE  PanelInv'
<1>1. job.pc = "alone" /\ job.alone # <<>> /\ UNCHANGED <<about, said, known, heard>>
  BY Zenon DEF A!AskAlone
<1>2. PICK p \in Nat \ {0} : Reported(p) /\ Remaining(p)
  BY <1>1 DEF PanelInv, BatchSound
<1>3. PICK alone, from : alone = job.alone /\ from = job.from
  OBVIOUS
<1>4. /\ alone \in Seq(A!Numbers) /\ alone # <<>> /\ from \in Nat \ {0}
      /\ p + Len(alone) <= from /\ Len(alone) \in Nat
      /\ \A i \in 1..Len(alone) : p + i - 1 <= Len(job.ask) /\ alone[i] = job.ask[p + i - 1]
  BY <1>1, <1>2, <1>3 DEF Remaining, PanelInv, PanelTyped
<1>5. PICK n, rest : n = Head(alone) /\ rest = Tail(alone)
  OBVIOUS
<1>6. /\ n \in A!Numbers /\ n = job.ask[p] /\ p <= Len(job.ask)
      /\ rest \in Seq(A!Numbers) /\ p + 1 + Len(rest) <= from
  <2>1. Len(alone) >= 1 /\ n = alone[1] /\ n \in A!Numbers
    BY <1>4, <1>5
  <2>2. rest \in Seq(A!Numbers) /\ Len(rest) = Len(alone) - 1
    BY <1>4, <1>5
  <2>3. 1 \in 1..Len(alone) /\ p + 1 - 1 = p
    BY <1>4, <2>1
  <2>4. p <= Len(job.ask) /\ alone[1] = job.ask[p]
    BY <1>4, <2>3
  <2> QED BY <1>4, <2>1, <2>2, <2>4
<1>7. ASSUME NEW found, GoesOnAs(found, from, rest, "alone")
      PROVE  Remaining(p + 1)'
  <2>1. ASSUME NEW i \in 1..Len(rest)
        PROVE  p + 1 + i - 1 <= Len(job.ask) /\ rest[i] = job.ask[p + 1 + i - 1]
    <3>1. Len(rest) = Len(alone) - 1 /\ rest[i] = alone[i + 1] /\ i + 1 \in 1..Len(alone)
      BY <1>4, <1>5, <2>1
    <3>2. PICK k \in 1..Len(alone) : k = i + 1
      BY <3>1
    <3>3. p + k - 1 <= Len(job.ask) /\ alone[k] = job.ask[p + k - 1]
      BY <1>4
    <3>4. p + k - 1 = p + 1 + i - 1
      BY <3>2
    <3> QED BY <3>1, <3>2, <3>3, <3>4
  <2> QED BY <1>6, <1>7, <2>1 DEF Remaining, GoesOnAs
<1>8. p + 1 \in Nat \ {0}
  OBVIOUS
<1>9. ASSUME NEW found, GoesOnAs(found, from, rest, "alone"), Reported(p + 1)'
      PROVE  PanelInv'
  BY <1>1, <1>4, <1>7, <1>8, <1>9, GoesOnKeepsInv
<1>10. ASSUME NEW w \in {said[n], "none"},
              job' = [job EXCEPT !.alone = rest,
                                 !.found = Append(@, [id |-> n, status |-> A!Alone(w)])]
       PROVE  PanelInv'
  <2>1. PICK g : g = <<[id |-> n, status |-> A!Alone(w)]>>
    OBVIOUS
  <2>2. w \in AnyWord
    BY <1>6 DEF PanelInv, PanelTyped, AnyWord
  <2>3. [id |-> n, status |-> A!Alone(w)] \in Reports
    BY <1>6, <2>2, AnswersAre DEF Reports
  <2>4. g \in Seq(Reports) /\ Len(g) = 1 /\ g[1] = [id |-> n, status |-> A!Alone(w)]
    BY <2>1, <2>3
  <2>5. job.found \in Seq(Reports)
    BY <1>2 DEF Reported
  <2>6. Append(job.found, [id |-> n, status |-> A!Alone(w)]) = job.found \o g
    BY <2>1, <2>3, <2>5
  <2>7. GoesOnAs(job.found \o g, from, rest, "alone")
    BY <1>1, <1>3, <1>10, <2>6 DEF GoesOnAs, PanelInv, PanelTyped
  <2>8. said[n] \in heard[n]
    <3>1. p \in 1..Len(job.ask)
      BY <1>6
    <3> QED BY <1>1, <1>6, <3>1 DEF PanelInv, Listens
  <2>9. A!Alone(w) \in Truth(n)
    <3>1. A!Alone("none") = A!InBatch("none")
      BY DEF A!Alone, A!InBatch, A!RefillInBatch, A!RefillAlone
    <3> QED BY <2>8, <3>1 DEF Truth
  <2>10. \A i \in 1..Len(g) :
            /\ p + i - 1 <= Len(job.ask) /\ g[i].id = job.ask[p + i - 1]
            /\ g[i].status \in Truth(g[i].id)
    BY <1>6, <2>4, <2>9
  <2>11. Reported(p + 1)'
    <3>1. PICK q \in Nat : q = p + 1
      OBVIOUS
    <3>2. p + Len(g) <= q
      BY <2>4, <3>1
    <3>3. Reported(q)'
      BY <1>2, <2>4, <2>7, <2>10, <3>2, MoreReported DEF PanelInv
    <3> QED BY <3>1, <3>3
  <2> QED BY <1>9, <2>7, <2>11
<1>11. CASE job' = [job EXCEPT !.alone = rest]
  <2>1. GoesOnAs(job.found, from, rest, "alone")
    BY <1>1, <1>3, <1>11 DEF GoesOnAs, PanelInv, PanelTyped
  <2>2. PICK q \in Nat : q = p + 1
    OBVIOUS
  <2>3. p <= q
    BY <2>2
  <2>4. Reported(q)
    BY <1>2, <2>3, ReportedLater DEF PanelInv
  <2>5. Reported(q)'
    BY <2>1, <2>4, SameReported
  <2> QED BY <1>9, <2>1, <2>2, <2>5
<1>12. CASE A!Raise
  BY <1>1, <1>12, RaiseKeepsInv
<1>13. \/ \E w \in {said[n], "none"} :
             job' = [job EXCEPT !.alone = rest,
                                !.found = Append(@, [id |-> n, status |-> A!Alone(w)])]
       \/ job' = [job EXCEPT !.alone = rest]
       \/ A!Raise
  BY <1>3, <1>5 DEF A!AskAlone, PanelInv, PanelTyped
<1> QED BY <1>10, <1>11, <1>12, <1>13

LEMMA MovesKeepInv ==
    ASSUME PanelInv, A!NextChunk \/ A!Return
    PROVE  PanelInv'
<1>1. PICK from \in Nat \ {0} : from = job.from
  BY DEF PanelInv, PanelTyped
<1>2. job.pc \in {"batch", "alone"}
  BY DEF A!NextChunk, A!Return
<1>3. Reported(from)
  <2>1. CASE A!Return
    BY <1>1, <2>1 DEF A!Return, PanelInv, BatchSound, Listens
  <2>2. CASE A!NextChunk
    <3>1. PICK p \in Nat \ {0} : Reported(p) /\ Remaining(p)
      BY <2>2 DEF A!NextChunk, PanelInv, BatchSound
    <3>2. p <= from
      BY <1>1, <2>2, <3>1 DEF A!NextChunk, Remaining
    <3> QED BY <3>1, <3>2, ReportedLater DEF PanelInv
  <2> QED BY <2>1, <2>2
<1>4. ASSUME NEW pc, pc \in {"batch", "done"}, job' = [job EXCEPT !.pc = pc],
             UNCHANGED <<about, said, known, heard>>
      PROVE  PanelInv'
  <2>1. GoesOnAs(job.found, from, job.alone, pc)
    BY <1>1, <1>4 DEF GoesOnAs, PanelInv, PanelTyped
  <2>2. Reported(from)'
    BY <1>3, <2>1, SameReported
  <2> QED BY <1>2, <1>4, <2>1, <2>2, GoesOnKeepsInv
<1> QED BY <1>4, Zenon DEF A!NextChunk, A!Return

LEMMA PanelStep ==
    ASSUME PanelSized, PanelInv, A!Next \/ UNCHANGED panelVars
    PROVE  PanelInv'
<1>1. ASSUME NEW n \in A!Numbers, A!Work(n) \/ A!Place(n) \/ A!Cancel(n)
      PROVE  PanelInv'
  BY <1>1, PanelWorkKeepsInv, PlaceKeepsInv, CancelKeepsInv
<1>2. ASSUME NEW ids \in (SUBSET known) \ {{}}, A!Ask(ids)
      PROVE  PanelInv'
  BY <1>2, AskKeepsTheInv
<1>3. CASE A!Fetch \/ A!Probe \/ A!Taken
  BY <1>3, OthersKeepInv
<1>4. CASE A!Send \/ A!AskAlone \/ A!NextChunk \/ A!Return
  BY <1>4, SendKeepsTheInv, AskAloneKeepsInv, MovesKeepInv
<1>5. CASE UNCHANGED panelVars
  <2>1. PanelTyped' /\ Listens' /\ Apart' /\ CancelSound'
    BY <1>5 DEF panelVars, PanelInv, PanelTyped, Listens, Apart, CancelSound
  <2>2. Reports' = Reports /\ \A n : Truth(n)' = Truth(n)
    BY <1>5, AnswersStay DEF panelVars, Truth, A!InBatch, A!Alone
  <2>3. \A p : (Reported(p) => Reported(p)') /\ (Remaining(p) => Remaining(p)')
    BY <1>5, <2>2 DEF panelVars, Reported, Remaining
  <2>4. BatchSound'
    BY <1>5, <2>3 DEF panelVars, PanelInv, BatchSound
  <2> QED BY <2>1, <2>4 DEF PanelInv
<1> QED BY <1>1, <1>2, <1>3, <1>4, <1>5, Zenon DEF A!Next

\* What the invariant says is what callers rely on.
LEMMA PanelPromise ==
    ASSUME PanelInv
    PROVE  HonestAnswers
<1>1. ASSUME job.pc = "done", job.kind = "batch"
      PROVE  /\ \A j \in DOMAIN job.found : \E a \in DOMAIN job.ask : job.found[j].id = job.ask[a]
             /\ \A j, k \in DOMAIN job.found : j < k =>
                  /\ job.found[j].id # job.found[k].id
                  /\ \E a, b \in DOMAIN job.ask :
                        a < b /\ job.found[j].id = job.ask[a] /\ job.found[k].id = job.ask[b]
             /\ \A r \in A!ToSet(job.found) : r.status \in Truth(r.id)
  <2>1. PICK f, ask : f = job.found /\ ask = job.ask
    OBVIOUS
  <2>2. Reported(job.from)
    BY <1>1 DEF PanelInv, BatchSound
  <2>3. /\ f \in Seq(Reports) /\ Below(f, ask, job.from) /\ ask \in Seq(A!Numbers)
        /\ \A j \in 1..Len(f) : f[j].status \in Truth(f[j].id)
    BY <2>1, <2>2, Zenon DEF Reported, PanelInv, PanelTyped
  <2>4. DOMAIN f = 1..Len(f) /\ DOMAIN ask = 1..Len(ask)
    BY <2>3
  <2>5. \A a, b \in 1..Len(ask) : a < b => ask[a] # ask[b]
    BY <1>1, <2>1 DEF PanelInv, Apart
  <2>6. \A j \in DOMAIN f : \E a \in DOMAIN ask : f[j].id = ask[a]
    BY <2>3, <2>4 DEF Below
  <2>7. \A j, k \in DOMAIN f : j < k =>
            /\ f[j].id # f[k].id
            /\ \E a, b \in DOMAIN ask : a < b /\ f[j].id = ask[a] /\ f[k].id = ask[b]
    <3>1. SUFFICES ASSUME NEW j \in DOMAIN f, NEW k \in DOMAIN f, j < k
                   PROVE  /\ f[j].id # f[k].id
                          /\ \E a, b \in DOMAIN ask :
                                a < b /\ f[j].id = ask[a] /\ f[k].id = ask[b]
      BY Zenon
    <3>2. PICK a, b \in 1..Len(ask) : a < b /\ f[j].id = ask[a] /\ f[k].id = ask[b]
      <4>1. j \in 1..Len(f) /\ k \in 1..Len(f) /\ j < k
        BY <2>4, <3>1
      <4>2. \E a, b \in 1..Len(ask) :
                a < b /\ b < job.from /\ f[j].id = ask[a] /\ f[k].id = ask[b]
        BY <2>3, <4>1, Zenon DEF Below
      <4> QED BY <4>2, Zenon
    <3>3. ask[a] # ask[b]
      BY <2>5, <3>2
    <3> QED BY <2>4, <3>2, <3>3
  <2>8. \A r \in A!ToSet(f) : r.status \in Truth(r.id)
    BY <2>3, <2>4 DEF A!ToSet
  <2> QED BY <2>1, <2>6, <2>7, <2>8
<1>2. ASSUME job.pc = "done", job.kind = "cancel"
      PROVE  \A r \in A!ToSet(job.found) : said[r.id] = "canceled"
  BY <1>2 DEF PanelInv, CancelSound
<1> QED BY <1>1, <1>2 DEF HonestAnswers, A!HonestAnswers, Truth

\* Whatever chunks are refused, whatever an answer leaves out and however the panel moves on
\* between two requests, a batch returns each number asked at most once, in the order asked,
\* and only what the panel had for it during the call; a cancellation is reported only when it
\* took place (providers/smmpromax.py:208-269, 316-363, 368-405).
THEOREM AnswersAreHonest ==
    ASSUME PanelSized
    PROVE  Spec => []HonestAnswers
<1>1. Init => PanelInv
  <2>1. SUFFICES ASSUME Init
                 PROVE  PanelInv
    OBVIOUS
  <2>2. A!Init
    BY <2>1, Zenon DEF Init
  <2>3. /\ DOMAIN job = {"kind", "ask", "from", "alone", "found", "pc"}
        /\ job.kind = "none" /\ job.pc = "idle" /\ job.ask = <<>> /\ job.from = 1
    BY <2>2 DEF A!Init, A!Idle, A!Call
  <2>4. PanelTyped
    BY <2>2, <2>3 DEF PanelTyped, A!Init, AnyWord
  <2> QED BY <2>3, <2>4 DEF PanelInv, Listens, Apart, BatchSound, CancelSound
<1>2. PanelInv /\ [Next]_vars => PanelInv'
  BY OneScene, PanelStep
<1>3. PanelInv => HonestAnswers
  BY PanelPromise
<1> QED BY <1>1, <1>2, <1>3, PTL DEF Spec
===============================================================================
