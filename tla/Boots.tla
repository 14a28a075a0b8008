-------------------------------- MODULE Boots --------------------------------
(***************************************************************************)
(* app/seed.py, app/db.py and the start of app/__main__.py: what a boot    *)
(* writes into the database, and what of it belongs to the operator from   *)
(* then on.  A boot first brings the schema up to date in a transaction of *)
(* its own, then fills in, in a second one, whatever rows are missing.     *)
(* Boots may overlap (the new process starts before the old one is gone),  *)
(* be killed at any point, and run beside the operator's CLI.              *)
(*                                                                         *)
(* A row stands for the rows that are handled alike: "markup" for the      *)
(* settings the operator owns, "terms" for the legal links, "brand" for    *)
(* brand_name, which boots rename if it is an old one, "provider" for      *)
(* the panel of the environment (prov_main in production, prov_prism in a  *)
(* demo), "stock" for the demo's categories, services, other providers and *)
(* star prices, "schema" for the tables.  Values are small numbers; a      *)
(* session sees its own writes and what others have committed, and waits   *)
(* for a row somebody else has written and not committed.                  *)
(***************************************************************************)
EXTENDS Integers, Sequences, FiniteSets

CONSTANTS
    Procs,    \* bound: processes that may be booting at once
    MaxUses,  \* bound: uses of the coupon
    MaxWords  \* bound: rows that the operator or customers make something of

VARIABLES
    production,  \* APP_ENV; fixed, since the two kinds do not share a database
    row,         \* the committed rows
    boot,        \* process -> its boot
    word         \* ghost: row -> what the operator or a customer last made of it (of the
                 \* panel's key nothing is noted: it is the environment's)

bootVars == <<production, row, boot, word>>

CATALOGUE == {"stock", "provider"}
SETTINGS == {"markup", "terms", "brand"}
ADS == {"ads"}
Rows == {"schema", "coupon"} \cup CATALOGUE \cup SETTINGS \cup ADS
Missing == -1
\* Values of "brand" beside the environment's and an operator's: the old name and the new.
Velora == 3
Falaron == 4
Unset == [r \in Rows |-> Missing]

Down == [pc |-> "down", then |-> "count", env |-> [key |-> 0, links |-> 0], left |-> <<>>, add |-> {}, sync |-> {},
         wrote |-> Unset]

Init ==
    /\ production \in BOOLEAN
    /\ row = Unset
    /\ boot = [p \in Procs |-> Down]
    /\ word = Unset

\* The steps of a boot, each a set of rows it reads together and then flushes.
Production(e) == <<SETTINGS>> \o (IF e.key # 0 THEN <<{"provider"}>> ELSE <<>>)
_seed_all == <<CATALOGUE, {"coupon"}, SETTINGS, ADS>>
KeepUp == <<{"provider"}, SETTINGS, {"coupon"}, ADS>>

\* What a row is when a boot creates it, CATEGORIES to ADS in seed.py.
Fresh(r, e) ==
    CASE r = "provider" -> e.key
      [] r = "terms" -> e.links
      [] r = "coupon" -> 0
      [] OTHER -> 1

\* What every boot writes again: the panel's credentials, in production the links, and,
\* whoever set it, a brand name that is the old one.
EnvOwnsAll(r, e) == Fresh(r, e) # 0
EnvOwns(r, e) ==
    \/ r = "provider" /\ e.key # 0
    \/ r = "terms" /\ production /\ e.links # 0
    \/ r = "brand" /\ row[r] = Velora
Again(r, e) == IF r = "brand" THEN Falaron ELSE Fresh(r, e)

\* The .env file may have been edited since: the panel's key and the links, 0 for not given.
Env == [key : 0..1, links : 0..1]

Begin(p) ==
    /\ boot[p].pc = "down"
    /\ \E e \in Env :
        boot' = [boot EXCEPT ![p] = [Down EXCEPT !.pc = "read", !.env = e, !.left = <<{"schema"}>>]]
    /\ UNCHANGED <<production, row, word>>

\* seed_if_empty: production, or an empty catalogue, or neither.
Count(p) ==
    /\ boot[p].pc = "count"
    /\ boot' = [boot EXCEPT ![p].pc = "read", ![p].then = "up",
                            ![p].left = CASE production -> Production(boot[p].env)
                                          [] ~production /\ row["stock"] = Missing -> _seed_all
                                          [] OTHER -> KeepUp]
    /\ UNCHANGED <<production, row, word>>

\* session.get, or for the ads a count: the rows of a step that have to be added, and those
\* to be brought in line with the environment.  A first seed adds without looking; in later
\* boots a demo's missing panel is left alone.
Read(p) ==
    /\ boot[p].pc = "read" /\ boot[p].left # <<>>
    /\ LET step == Head(boot[p].left)
           absent == IF "stock" \in step THEN step ELSE {r \in step : row[r] = Missing}
           add == IF ~production /\ step = {"provider"} THEN {} ELSE absent
       IN boot' = [boot EXCEPT ![p].pc = "flush", ![p].add = add,
                               ![p].sync = {r \in step \ absent : EnvOwns(r, boot[p].env)}]
    /\ UNCHANGED <<production, row, word>>

Written(p) == {r \in Rows : boot[p].wrote[r] # Missing}
\* Ads have no key of their own to collide on.
Keyed == Rows \ ADS
LockedFor(p) == UNION {Written(q) \cap Keyed : q \in Procs \ {p}}

Flushed(b, r) ==
    CASE r \in b.add -> Fresh(r, b.env)
      [] r \in b.sync \ b.add -> Again(r, b.env)
      [] r \notin b.add \cup b.sync -> b.wrote[r]

\* A key somebody else has committed meanwhile: IntegrityError, the process ends.
Flush(p) ==
    /\ boot[p].pc = "flush"
    /\ (boot[p].add \cup boot[p].sync) \cap LockedFor(p) = {}
    /\ IF \E r \in boot[p].add \cap Keyed : row[r] # Missing
         THEN boot' = [boot EXCEPT ![p] = Down]
         ELSE boot' = [boot EXCEPT ![p].pc = "read",
                                   ![p].left = Tail(@), ![p].add = {}, ![p].sync = {},
                                   ![p].wrote = [r \in Rows |-> Flushed(boot[p], r)]]
    /\ UNCHANGED <<production, row, word>>

\* The end of a transaction: of the schema's, after which the catalogue is counted, or the
\* seed's, after which the process is up.
Commit(p) ==
    /\ boot[p].pc = "read" /\ boot[p].left = <<>>
    /\ row' = [r \in Rows |-> IF r \notin Written(p) THEN row[r]
                              ELSE IF r = "ads" /\ row[r] # Missing THEN row[r] + boot[p].wrote[r]
                              ELSE boot[p].wrote[r]]
    /\ boot' = [boot EXCEPT ![p] = IF @.then = "up" THEN [Down EXCEPT !.pc = "up"]
                                     ELSE [@ EXCEPT !.pc = "count", !.wrote = Unset]]
    /\ UNCHANGED <<production, word>>

\* Stopped, crashed, killed: what was not committed is gone.
Exit(p) ==
    /\ boot[p].pc # "down"
    /\ boot' = [boot EXCEPT ![p] = Down]
    /\ UNCHANGED <<production, row, word>>

-----------------------------------------------------------------------------
(* The operator and a customer, each in a committed transaction.           *)

Unlocked(r) == \A p \in Procs : r \notin Written(p)

Make(r, v) ==
    /\ Unlocked(r)
    /\ Cardinality({q \in Rows : q = r \/ word[q] # Missing}) <= MaxWords
    /\ row' = [row EXCEPT ![r] = v]
    /\ word' = IF r = "provider" THEN word ELSE [word EXCEPT ![r] = v]
    /\ UNCHANGED <<production, boot>>

\* set_setting in the bot and the CLI, which insert what is missing.
SetSetting ==
    /\ row["schema"] # Missing
    /\ \E r \in SETTINGS, v \in {2, Velora} : (v = Velora => r = "brand") /\ Make(r, v)

\* add-provider with the id of a provider that exists replaces its key.
RotateKey == row["provider"] # Missing /\ Make("provider", 2)

ToggleStock == row["stock"] # Missing /\ Make("stock", 1 - row["stock"])

UseCoupon == row["coupon"] \in 0..(MaxUses - 1) /\ Make("coupon", row["coupon"] + 1)

Next ==
    \/ \E p \in Procs : Begin(p) \/ Count(p) \/ Read(p) \/ Flush(p) \/ Commit(p) \/ Exit(p)
    \/ SetSetting \/ RotateKey \/ ToggleStock \/ UseCoupon

Spec == Init /\ [][Next]_bootVars

-----------------------------------------------------------------------------
(* What operators rely on.                                                 *)

\* seed.py:338-452: boots keep what the operator and the customers have made of the rows
\* since: a changed setting, a service switched off, a coupon's uses; in production the legal
\* links follow the environment.  A brand name stays, or becomes the new one (a boot renames
\* the old one, even if the operator has set another since it looked), never again the
\* environment's.  And however boots overlap or break off, the ads are placed once.
OperatorKept ==
    /\ \A r \in {"markup", "stock", "coupon"} : word[r] # Missing => row[r] = word[r]
    /\ ~production /\ word["terms"] # Missing => row["terms"] = word["terms"]
    /\ word["brand"] # Missing => row["brand"] \in {word["brand"], Falaron}
    /\ row["ads"] \in {Missing, 1}
==============================================================================
