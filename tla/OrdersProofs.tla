---------------------------- MODULE OrdersProofs -----------------------------
(***************************************************************************)
(* Proofs about Orders for any number of customers, sessions, orders and   *)
(* keys, any charges, any panel and any faults, except where a theorem     *)
(* names the conditions it holds under.                                    *)
(*                                                                         *)
(* The argument: a session works on a stale copy of an order, but what it  *)
(* relies on is stable.  A placed order stays placed, charged and known to *)
(* the panel; what the panel reported as final stays so; and a customer's  *)
(* available funds only shrink under the row lock, which place_order holds *)
(* from its check of the funds to its COMMIT.                              *)
(***************************************************************************)
EXTENDS Orders, FiniteSetTheorems, TLAPS

(***************************************************************************)
(* What SumFunctionOnSet computes, for any function and any finite set:    *)
(* nothing for the empty set, and an element more or less makes exactly    *)
(* its value's difference.  The library defines it by a recursive function *)
(* that takes the elements in an order of its own; that the recursion has  *)
(* a solution, that it has one only and that the order does not matter are *)
(* proved here, each by a smallest counterexample.                         *)
(***************************************************************************)
First(s) == CHOOSE x \in s : TRUE

\* g adds up f over every subset of S, in the library's order.
Adds(g, f, S) ==
    g = [s \in SUBSET S |-> IF s = {} THEN 0 ELSE f[First(s)] + g[s \ {First(s)}]]

LEMMA SumIs ==
    ASSUME NEW f, NEW S
    PROVE  SumFunctionOnSet(f, S) = (CHOOSE g : Adds(g, f, S))[S]
BY DEF SumFunctionOnSet, FoldFunctionOnSet, MapThenFoldSet, Adds, First

LEMMA FirstIn == \A s : s # {} => First(s) \in s
BY DEF First

\* Among some subsets of a finite set there is a smallest one.
LEMMA Smallest ==
    ASSUME NEW S, IsFiniteSet(S), NEW B, B \subseteq SUBSET S, B # {}
    PROVE  \E T \in B : \A V \in SUBSET T : V # T => V \notin B
<1>1. IsWellFoundedOn(StrictSubsetOrdering(S), FiniteSubsetsOf(S))
  BY FS_StrictSubsetOrderingWellFounded
<1>2. FiniteSubsetsOf(S) = SUBSET S
  BY FS_FiniteSubsetsOfFinite
<1>3. PICK T \in B : \A V \in B : ~(<<V, T>> \in StrictSubsetOrdering(S))
  BY <1>1, <1>2, WFMin
<1>4. ASSUME NEW V \in SUBSET T, V # T, V \in B
      PROVE  FALSE
  <2>1. V \in SUBSET S /\ T \in SUBSET S
    BY <1>4
  <2>2. <<V, T>> \in StrictSubsetOrdering(S)
    BY <1>4, <2>1 DEF StrictSubsetOrdering
  <2> QED BY <1>3, <1>4, <2>2
<1> QED BY <1>3, <1>4

\* Two solutions agree wherever both are defined.
LEMMA OneSolution ==
    ASSUME NEW f, NEW S, IsFiniteSet(S), NEW g, Adds(g, f, S), NEW U, NEW h, Adds(h, f, U),
           NEW T \in SUBSET (S \cap U)
    PROVE  g[T] = h[T]
<1> DEFINE B == {V \in SUBSET (S \cap U) : g[V] # h[V]}
<1>1. SUFFICES ASSUME B # {}
               PROVE  FALSE
  OBVIOUS
<1>2. B \subseteq SUBSET S
  OBVIOUS
<1>3. PICK V \in B : \A W \in SUBSET V : W # V => W \notin B
  <2> HIDE DEF B
  <2> QED BY <1>1, <1>2, Smallest
<1>4. V \in SUBSET S /\ V \in SUBSET U
  OBVIOUS
<1>5. /\ g[V] = IF V = {} THEN 0 ELSE f[First(V)] + g[V \ {First(V)}]
      /\ h[V] = IF V = {} THEN 0 ELSE f[First(V)] + h[V \ {First(V)}]
  BY <1>4 DEF Adds
<1>6. V # {} => g[V \ {First(V)}] = h[V \ {First(V)}]
  <2>1. V # {} => V \ {First(V)} # V /\ V \ {First(V)} \in SUBSET V
    BY FirstIn
  <2> QED BY <1>3, <2>1
<1> QED BY <1>5, <1>6

LEMMA SolutionExists ==
    ASSUME NEW f, NEW S, IsFiniteSet(S)
    PROVE  \E g : Adds(g, f, S)
<1> DEFINE B == {T \in SUBSET S : ~ \E g : Adds(g, f, T)}
<1>1. SUFFICES ASSUME B # {}
               PROVE  FALSE
  OBVIOUS
<1>2. PICK T \in B : \A V \in SUBSET T : V # T => V \notin B
  <2>1. B \subseteq SUBSET S
    OBVIOUS
  <2> HIDE DEF B
  <2> QED BY <1>1, <2>1, Smallest
<1>3. \A V \in SUBSET T : IsFiniteSet(V)
  BY FS_Subset
<1> DEFINE G(V) == CHOOSE g : Adds(g, f, V)
           h == [V \in SUBSET T |-> IF V = {} THEN 0
                                    ELSE f[First(V)] + G(V \ {First(V)})[V \ {First(V)}]]
<1>4. ASSUME NEW V \in SUBSET T, V # T
      PROVE  Adds(G(V), f, V)
  BY <1>2, <1>4
<1>5. ASSUME NEW V \in SUBSET T, V # {}
      PROVE  V \ {First(V)} \in SUBSET T /\ V \ {First(V)} # T
  BY <1>5, FirstIn
<1>6. ASSUME NEW V \in SUBSET T, V # T
      PROVE  h[V] = G(V)[V]
  <2>1. G(V)[V] = IF V = {} THEN 0 ELSE f[First(V)] + G(V)[V \ {First(V)}]
    <3>1. Adds(G(V), f, V)
      BY <1>4, <1>6
    <3> HIDE DEF G
    <3> QED BY <3>1 DEF Adds
  <2>2. ASSUME V # {}
        PROVE  G(V)[V \ {First(V)}] = G(V \ {First(V)})[V \ {First(V)}]
    <3> DEFINE W == V \ {First(V)}
    <3>1. W \in SUBSET T /\ W # T /\ W \in SUBSET (V \cap W)
      BY <1>5, <2>2
    <3>2. Adds(G(V), f, V) /\ Adds(G(W), f, W)
      BY <1>4, <1>6, <3>1
    <3> HIDE DEF G, W
    <3>3. G(V)[W] = G(W)[W]
      BY <1>3, <3>1, <3>2, OneSolution
    <3> QED BY <3>3 DEF W
  <2> HIDE DEF G
  <2> QED BY <2>1, <2>2
<1>7. Adds(h, f, T)
  <2>1. ASSUME NEW V \in SUBSET T, V # {}
        PROVE  h[V \ {First(V)}] = G(V \ {First(V)})[V \ {First(V)}]
    BY <1>5, <1>6, <2>1
  <2> HIDE DEF G
  <2>2. h = [V \in SUBSET T |-> IF V = {} THEN 0 ELSE f[First(V)] + h[V \ {First(V)}]]
    <3> DEFINE k == [V \in SUBSET T |-> IF V = {} THEN 0 ELSE f[First(V)] + h[V \ {First(V)}]]
    <3>1. \A V \in SUBSET T : h[V] = k[V]
      BY <2>1
    <3> QED BY <3>1
  <2> HIDE DEF h
  <2> QED BY <2>2 DEF Adds
<1> QED BY <1>2, <1>7

------------------------------------------------------------------------------
\* The sum in the library's order.
LEMMA SumInOrder ==
    ASSUME NEW f, NEW S, IsFiniteSet(S)
    PROVE  /\ S = {} => SumFunctionOnSet(f, S) = 0
           /\ S # {} => SumFunctionOnSet(f, S)
                          = f[First(S)] + SumFunctionOnSet(f, S \ {First(S)})
<1> DEFINE g == CHOOSE x : Adds(x, f, S)
           W == S \ {First(S)}
           h == CHOOSE x : Adds(x, f, W)
<1>1. IsFiniteSet(W)
  BY FS_Subset
<1>2. Adds(g, f, S) /\ Adds(h, f, W)
  <2>1. (\E x : Adds(x, f, S)) /\ (\E x : Adds(x, f, W))
    <3> HIDE DEF W
    <3> QED BY <1>1, SolutionExists
  <2> QED BY <2>1
<1>3. SumFunctionOnSet(f, S) = g[S] /\ SumFunctionOnSet(f, W) = h[W]
  BY SumIs
<1> HIDE DEF g, h
<1>4. g[S] = IF S = {} THEN 0 ELSE f[First(S)] + g[W]
  BY <1>2 DEF Adds
<1>5. g[W] = h[W]
  <2>1. W \in SUBSET (S \cap W)
    OBVIOUS
  <2> HIDE DEF W
  <2> QED BY <1>2, <2>1, OneSolution
<1> QED BY <1>3, <1>4, <1>5

\* A sum of natural numbers is one.
LEMMA SumType ==
    ASSUME NEW D, NEW f \in [D -> Nat], NEW S \in SUBSET D, IsFiniteSet(S)
    PROVE  SumFunctionOnSet(f, S) \in Nat
<1> DEFINE B == {T \in SUBSET S : SumFunctionOnSet(f, T) \notin Nat}
<1>1. SUFFICES ASSUME B # {}
               PROVE  FALSE
  OBVIOUS
<1>2. PICK T \in B : \A V \in SUBSET T : V # T => V \notin B
  <2>1. B \subseteq SUBSET S
    OBVIOUS
  <2> HIDE DEF B
  <2> QED BY <1>1, <2>1, Smallest
<1>3. IsFiniteSet(T)
  BY FS_Subset
<1>4. CASE T = {}
  <2>1. SumFunctionOnSet(f, T) = 0
    BY <1>3, <1>4, SumInOrder
  <2>2. SumFunctionOnSet(f, T) \notin Nat
    BY <1>2
  <2> QED BY <2>1, <2>2
<1>5. CASE T # {}
  <2>1. First(T) \in T /\ f[First(T)] \in Nat
    BY <1>5, FirstIn
  <2>2. SumFunctionOnSet(f, T \ {First(T)}) \in Nat
    BY <1>2, <2>1
  <2>3. SumFunctionOnSet(f, T) = f[First(T)] + SumFunctionOnSet(f, T \ {First(T)})
    BY <1>3, <1>5, SumInOrder
  <2> QED BY <1>2, <2>1, <2>2, <2>3
<1> QED BY <1>4, <1>5

\* Any element may come first.
LEMMA SumWithout ==
    ASSUME NEW D, NEW f \in [D -> Nat], NEW S \in SUBSET D, IsFiniteSet(S), NEW x \in S
    PROVE  SumFunctionOnSet(f, S) = f[x] + SumFunctionOnSet(f, S \ {x})
<1> DEFINE B == {T \in SUBSET S : \E y \in T :
                   SumFunctionOnSet(f, T) # f[y] + SumFunctionOnSet(f, T \ {y})}
<1>1. SUFFICES ASSUME B # {}
               PROVE  FALSE
  OBVIOUS
<1>2. PICK T \in B : \A V \in SUBSET T : V # T => V \notin B
  <2>1. B \subseteq SUBSET S
    OBVIOUS
  <2> HIDE DEF B
  <2> QED BY <1>1, <2>1, Smallest
<1>3. PICK y \in T : SumFunctionOnSet(f, T) # f[y] + SumFunctionOnSet(f, T \ {y})
  BY <1>2
<1>4. PICK z \in T : z = First(T)
  BY <1>3, FirstIn
<1>5. IsFiniteSet(T) /\ IsFiniteSet(T \ {y}) /\ IsFiniteSet(T \ {z})
      /\ IsFiniteSet((T \ {y}) \ {z})
  <2>1. IsFiniteSet(T)
    BY FS_Subset
  <2> QED BY <2>1, FS_RemoveElement
<1>6. SumFunctionOnSet(f, T) = f[z] + SumFunctionOnSet(f, T \ {z})
  BY <1>4, <1>5, SumInOrder
<1>7. y # z
  BY <1>3, <1>6
<1>8. /\ SumFunctionOnSet(f, T \ {z}) = f[y] + SumFunctionOnSet(f, (T \ {z}) \ {y})
      /\ SumFunctionOnSet(f, T \ {y}) = f[z] + SumFunctionOnSet(f, (T \ {y}) \ {z})
  <2>1. T \ {z} \notin B /\ T \ {z} \in SUBSET S /\ y \in T \ {z}
    BY <1>2, <1>7
  <2>2. T \ {y} \notin B /\ T \ {y} \in SUBSET S /\ z \in T \ {y}
    BY <1>2, <1>7
  <2> QED BY <2>1, <2>2
<1>9. (T \ {z}) \ {y} = (T \ {y}) \ {z}
  OBVIOUS
<1>10. f[y] \in Nat /\ f[z] \in Nat /\ SumFunctionOnSet(f, (T \ {y}) \ {z}) \in Nat
  <2>1. (T \ {y}) \ {z} \in SUBSET D
    OBVIOUS
  <2> QED BY <1>5, <2>1, SumType
<1> QED BY <1>3, <1>6, <1>8, <1>9, <1>10

\* One element more.
LEMMA SumWith ==
    ASSUME NEW D, NEW f \in [D -> Nat], NEW S \in SUBSET D, IsFiniteSet(S),
           NEW x \in D, x \notin S
    PROVE  SumFunctionOnSet(f, S \cup {x}) = f[x] + SumFunctionOnSet(f, S)
<1> DEFINE T == S \cup {x}
<1>1. IsFiniteSet(T) /\ T \in SUBSET D /\ x \in T /\ T \ {x} = S
  BY FS_AddElement
<1> HIDE DEF T
<1>2. SumFunctionOnSet(f, T) = f[x] + SumFunctionOnSet(f, T \ {x})
  BY <1>1, SumWithout
<1> QED BY <1>1, <1>2 DEF T

\* No element's value exceeds the sum.
LEMMA SumAtLeast ==
    ASSUME NEW D, NEW f \in [D -> Nat], NEW S \in SUBSET D, IsFiniteSet(S), NEW x \in S
    PROVE  f[x] <= SumFunctionOnSet(f, S)
<1>1. SumFunctionOnSet(f, S \ {x}) \in Nat
  <2>1. IsFiniteSet(S \ {x}) /\ S \ {x} \in SUBSET D
    BY FS_RemoveElement
  <2> QED BY <2>1, SumType
<1> QED BY <1>1, SumWithout

------------------------------------------------------------------------------

\* Conditions under which some of the results hold; README says why.
Alone == \A s, t \in Sessions : s = t
NoRace == "cancel" \notin Operations \/ Alone
NoPendingCancel == "cancel" \notin Operations \/ "pending" \notin Reports
Tidy == NoRace /\ NoPendingCancel /\ "refunded" \notin Reports

Refunds == {"refund-canceled", "refund-failed", "refund-cancel"}

\* An order's row, by itself and beside the panel's.
RowSound(o) ==
    LET row == order[o]
    IN  /\ row.status = "none" => row = NoOrder
        /\ row.status # "none" =>
              row.owner \in Users /\ o < nextId /\ "reserve" \in row.posts
        /\ row.placed =>
              /\ row.status \notin {"none", "review"} /\ panel[o] # None
              /\ "capture" \in row.posts /\ "release" \notin row.posts
        /\ ~row.placed =>
              /\ row.status \in {"none", "review", "failed"}
              /\ row.refunded = 0 /\ row.posts \subseteq {"reserve", "release"}
              /\ row.status = "failed" <=> "release" \in row.posts
              /\ row.status = "failed" /\ panel[o] # None => "garbled" \in Faults
        /\ row.refunded > 0 => panel[o] \in {"partial", "canceled", "failed"}
        /\ row.status = "pending" => "pending" \in Reports
        /\ panel[o] \in Reports \cup {"canceled", None}
        /\ NoPendingCancel => "release-cancel" \notin row.posts
        /\ NoRace => row.refunded <= Charge[o]
        /\ Tidy => /\ row.posts \cap Refunds # {} => row.refunded = Charge[o]
                   /\ row.placed /\ row.status \in {"canceled", "failed", "refunded"}
                        => row.refunded = Charge[o]

\* What a session at r relies on.
Placing(r) == r.at \in {"calling", "answered"}
Canceling(r) == r.at \in {"canceling", "confirmed", "counted"}
Working(r) == r.at \in {"syncing", "reported", "refilling"} \/ Canceling(r)
StillReported(o, st) ==
    CASE st \in {"completed", "canceled", "failed"} -> panel[o] = st
      [] st = "partial" -> panel[o] \in {"partial", "canceled"}
      [] OTHER -> st \in Reports

SessionSound(s, r) ==
    /\ r.at = "quoted" => r.user \in Users /\ r.key \in Keys
    /\ Placing(r) =>
         /\ r.user \in Users /\ r.key \in Keys /\ r.o \in Orders /\ r.o < nextId
         /\ order[r.o].status = "none" /\ locked[r.user] = s
         /\ Available(r.user) >= Charge[r.o]
    /\ r.at = "calling" => panel[r.o] = None
    /\ r.at = "answered" =>
         /\ r.report \in {"ok", "timeout", "refused"}
         /\ r.report = "ok" => panel[r.o] # None
         /\ r.report = "refused" /\ panel[r.o] # None => "garbled" \in Faults
    /\ Working(r) => r.o \in Orders /\ order[r.o].placed
    /\ r.at = "reported" => r.report \in PanelStatuses /\ StillReported(r.o, r.report)
    /\ Canceling(r) =>
         /\ "cancel" \in Operations
         /\ r.seen = "pending" => "pending" \in Reports
    /\ r.at \in {"confirmed", "counted"} => panel[r.o] = "canceled"
    /\ r.at = "counted" /\ Alone => r.owed = Owed(r.o)
    /\ r.at = "resolving" =>
         /\ r.o \in Orders /\ order[r.o].status # "none"
         /\ \/ r.report = "release" /\ panel[r.o] = None
            \/ /\ r.report = "attach" /\ panel[r.o] # None
               /\ order[r.o].placed \/ order[r.o].status = "review"

\* Ids come from the sequence; the orders the panel has are known or being placed.
IdsFresh ==
    /\ \A o \in Orders : nextId <= o => panel[o] = None
    /\ \A s, t \in Sessions :
         Placing(sess[s]) /\ Placing(sess[t]) /\ sess[s].o = sess[t].o => s = t
    /\ \A o \in Orders :
         panel[o] # None /\ order[o].status = "none" /\ "crash" \notin Faults => BeingPlaced(o)

Solvent == \A u \in Users : account[u].reserved <= account[u].balance

\* The inductive invariant.
Inv ==
    /\ TypeOK /\ Solvent /\ IdsFresh /\ CommissionOnDelivery
    /\ \A o \in Orders : RowSound(o)
    /\ \A s \in Sessions : SessionSound(s, sess[s])

------------------------------------------------------------------------------
\* The records of TypeOK.
Ats == {"idle", "quoted", "calling", "answered", "syncing", "reported",
        "canceling", "confirmed", "counted", "refilling", "resolving"}
Answers == PanelStatuses \cup {"none", "ok", "timeout", "refused", "release", "attach"}
SessionType == [at : Ats, user : Users \cup {None}, o : 0..MaxOrders, key : Keys \cup {None},
                coupon : BOOLEAN, used : Nat, seen : Statuses, report : Answers, owed : Nat]
RowType == [status : Statuses, owner : Users \cup {None}, key : Keys \cup {None},
            asked : Keys \cup {None}, placed : BOOLEAN, posts : SUBSET Posts, refunded : Nat]

LEMMA Types ==
    TypeOK <=> /\ account \in [Users -> [balance : Nat, reserved : Nat]]
               /\ order \in [Orders -> RowType]
               /\ nextId \in 1..(MaxOrders + 1)
               /\ coupon \in [used : Nat, by : SUBSET Orders]
               /\ commission \in SUBSET Orders
               /\ panel \in [Orders -> PanelStatuses \cup {None}]
               /\ locked \in [Users -> Sessions \cup {None}]
               /\ sess \in [Sessions -> SessionType]
BY DEF TypeOK, RowType, SessionType, Ats, Answers

\* Every status the panel has, spelled out.
LEMMA PanelStatusesAre ==
    PanelStatuses = {"pending", "processing", "in_progress", "partial", "completed",
                     "canceled", "failed", "refunded"}
BY DEF PanelStatuses, Later, Ended

LEMMA IdleTyped == Idle \in SessionType /\ NoOrder \in RowType /\ Idle.at = "idle"
BY OrdersAssumption
   DEF OrdersAssumption, Idle, NoOrder, SessionType, RowType, Ats, Answers, Statuses

LEMMA IdleSound == \A s : SessionSound(s, Idle)
BY IdleTyped DEF SessionSound, Placing, Working, Canceling

LEMMA InitInv == Init => Inv
<1> SUFFICES ASSUME Init
             PROVE  Inv
  OBVIOUS
<1>1. TypeOK
  BY Types, IdleTyped, OrdersAssumption DEF Init, OrdersAssumption, Orders
<1>2. Solvent
  BY OrdersAssumption DEF Init, Solvent, OrdersAssumption
<1>3. IdsFresh /\ CommissionOnDelivery
  BY IdleTyped DEF Init, IdsFresh, CommissionOnDelivery, Placing
<1>4. ASSUME NEW o \in Orders
      PROVE  RowSound(o)
  <2>1. order[o] = NoOrder /\ panel[o] = None
    BY DEF Init
  <2>2. /\ NoOrder.status = "none" /\ NoOrder.placed = FALSE /\ NoOrder.posts = {}
        /\ NoOrder.refunded = 0
    BY DEF NoOrder
  <2>3. Charge[o] \in Nat
    BY OrdersAssumption DEF OrdersAssumption
  <2> QED BY <2>1, <2>2, <2>3 DEF RowSound, Refunds
<1>5. \A s \in Sessions : SessionSound(s, sess[s])
  BY IdleSound DEF Init
<1> QED BY <1>1, <1>2, <1>3, <1>4, <1>5 DEF Inv

\* A step of one session that reads, waits or gives up disturbs nothing, if what
\* it goes on with is sound.
LEMMA SessionStep ==
    ASSUME Inv, NEW s \in Sessions, NEW r \in SessionType, Enter(s, r),
           UNCHANGED <<account, order, nextId, coupon, commission, panel, locked>>,
           SessionSound(s, r),
           Placing(r) <=> Placing(sess[s]),
           Placing(r) => r.o = sess[s].o
    PROVE  Inv'
<1>1. sess' = [sess EXCEPT ![s] = r]
  BY DEF Enter
<1>2. sess \in [Sessions -> SessionType] /\ TypeOK
  BY Types DEF Inv
<1>3. TypeOK'
  <2>1. sess' \in [Sessions -> SessionType]
    BY <1>1, <1>2
  <2> QED BY <1>2, <2>1 DEF TypeOK, SessionType, Ats, Answers
<1>4. Solvent'
  BY DEF Inv, Solvent
<1>5. \A t \in Sessions : /\ Placing(sess[t])' <=> Placing(sess[t])
                          /\ Placing(sess[t])' => sess'[t].o = sess[t].o
  BY <1>1, <1>2 DEF Placing
<1>6. IdsFresh'
  BY <1>5 DEF Inv, IdsFresh, BeingPlaced, Placing
<1>7. CommissionOnDelivery'
  BY DEF Inv, CommissionOnDelivery
<1>8. ASSUME NEW o \in Orders
      PROVE  RowSound(o)'
  BY DEF Inv, RowSound, NoRace, Tidy, NoPendingCancel, Alone
<1>9. ASSUME NEW t \in Sessions
      PROVE  SessionSound(t, sess[t])'
  <2>1. SessionSound(t, sess'[t])
    BY <1>1, <1>2 DEF Inv
  <2> QED BY <2>1 DEF SessionSound, Placing, Working, Canceling, StillReported,
                      Available, Owed, Alone
<1> QED BY <1>3, <1>4, <1>6, <1>7, <1>8, <1>9 DEF Inv

------------------------------------------------------------------------------
\* What every handler's last part does to a committed order: it writes the row,
\* may change the owner's account without taking from what is available, and ends.
LEMMA WorkStep ==
    ASSUME Inv, NEW s \in Sessions, NEW o \in Orders, NEW row \in RowType,
           order' = [order EXCEPT ![o] = row], Finish(s), ~Placing(sess[s]),
           UNCHANGED <<nextId, panel, locked>>,
           account' \in [Users -> [balance : Nat, reserved : Nat]],
           coupon' \in [used : Nat, by : SUBSET Orders],
           commission' \subseteq commission \cup {p \in {o} : panel[p] = "completed"},
           order[o].status # "none", row.status # "none",
           order[o].placed => row.placed,
           row.placed \/ row.status = "review" \/ panel[o] = None,
           \A u \in Users : Available(u) <= account'[u].balance - account'[u].reserved,
           RowSound(o)'
    PROVE  Inv'
<1>1. sess' = [sess EXCEPT ![s] = Idle]
  BY DEF Finish
<1>2. /\ sess \in [Sessions -> SessionType] /\ order \in [Orders -> RowType] /\ TypeOK
      /\ account \in [Users -> [balance : Nat, reserved : Nat]] /\ commission \in SUBSET Orders
      /\ nextId \in Nat
  BY Types, OrdersAssumption DEF Inv, OrdersAssumption
<1>3. TypeOK'
  <2>1. sess' \in [Sessions -> SessionType] /\ order' \in [Orders -> RowType]
        /\ commission' \in SUBSET Orders
    BY <1>1, <1>2, IdleTyped
  <2> QED BY <1>2, <2>1 DEF TypeOK, SessionType, RowType, Ats, Answers
<1>4. Solvent'
  <2>1. ASSUME NEW u \in Users
        PROVE  account'[u].reserved <= account'[u].balance
    <3>1. /\ account[u] \in [balance : Nat, reserved : Nat]
          /\ account'[u] \in [balance : Nat, reserved : Nat]
          /\ account[u].reserved <= account[u].balance
      BY <1>2 DEF Inv, Solvent
    <3> QED BY <3>1 DEF Available
  <2> QED BY <2>1 DEF Solvent
<1>5. \A t \in Sessions : /\ Placing(sess[t])' <=> Placing(sess[t])
                          /\ Placing(sess[t])' => sess'[t] = sess[t]
  BY <1>1, <1>2, IdleTyped DEF Placing
<1>6. \A p \in Orders : /\ p # o => order'[p] = order[p]
                        /\ order'[p].status = "none" <=> order[p].status = "none"
                        /\ order[p].placed => order'[p].placed
  BY <1>2
<1>7. IdsFresh'
  BY <1>5, <1>6 DEF Inv, IdsFresh, BeingPlaced, Placing
<1>8. CommissionOnDelivery'
  BY DEF Inv, CommissionOnDelivery
<1>9. ASSUME NEW p \in Orders
      PROVE  RowSound(p)'
  <2>1. CASE p = o
    BY <2>1
  <2>2. CASE p # o
    <3>1. RowSound(p) /\ order'[p] = order[p]
      BY <2>2, <1>6 DEF Inv
    <3> QED BY <3>1 DEF RowSound, NoRace, Tidy, NoPendingCancel, Alone
  <2> QED BY <2>1, <2>2
<1>10. ASSUME NEW t \in Sessions
       PROVE  SessionSound(t, sess[t])'
  <2>1. CASE t = s
    <3>1. sess'[t] = Idle
      BY <1>1, <1>2, <2>1
    <3> QED BY <3>1, IdleTyped DEF SessionSound, Placing, Working, Canceling
  <2>2. CASE t # s
    <3>1. sess'[t] = sess[t] /\ SessionSound(t, sess[t]) /\ ~Alone
      BY <1>1, <1>2, <2>2 DEF Inv, Alone
    <3> DEFINE r == sess[t]
    <3>2. Placing(r) => /\ order'[r.o].status = "none"
                        /\ account'[r.user].balance - account'[r.user].reserved >= Charge[r.o]
      <4>1. ASSUME Placing(r)
            PROVE  account'[r.user].balance - account'[r.user].reserved >= Charge[r.o]
        <5>1. r.user \in Users /\ r.o \in Orders /\ Available(r.user) >= Charge[r.o]
          BY <3>1, <4>1 DEF SessionSound
        <5>2. /\ account[r.user] \in [balance : Nat, reserved : Nat]
              /\ account'[r.user] \in [balance : Nat, reserved : Nat]
              /\ Charge[r.o] \in Nat
          BY <5>1, <1>2, OrdersAssumption DEF OrdersAssumption
        <5> QED BY <5>1, <5>2 DEF Available
      <4> QED BY <3>1, <4>1, <1>6 DEF SessionSound
    <3>3. Working(r) => order'[r.o].placed
      BY <3>1, <1>6 DEF SessionSound
    <3>4. r.at = "resolving" =>
            /\ order'[r.o].status # "none"
            /\ r.report = "attach" => order'[r.o].placed \/ order'[r.o].status = "review"
      BY <3>1, <1>2, <1>6 DEF SessionSound
    <3> HIDE DEF r
    <3>5. SessionSound(t, r)'
      <4>1. UNCHANGED <<locked, panel, nextId>> /\ ~Alone /\ SessionSound(t, r)
        BY <3>1 DEF r
      <4>2. r' = r
        BY <3>1 DEF r
      <4> QED BY <4>1, <4>2, <3>2, <3>3, <3>4
              DEF SessionSound, Placing, Working, Canceling, StillReported, Available, Alone
    <3> QED BY <3>1, <3>5 DEF r
  <2> QED BY <2>1, <2>2
<1> QED BY <1>3, <1>4, <1>7, <1>8, <1>9, <1>10 DEF Inv

------------------------------------------------------------------------------
\* What is known of a placed order.
LEMMA PlacedFacts ==
    ASSUME Inv, NEW o \in Orders, order[o].placed
    PROVE  /\ order[o] \in RowType /\ order[o].owner \in Users /\ o < nextId
           /\ {"reserve", "capture"} \subseteq order[o].posts
           /\ "release" \notin order[o].posts
           /\ order[o].status \notin {"none", "review"}
           /\ panel[o] # None /\ panel[o] \in Reports \cup {"canceled"}
           /\ Charge[o] \in Nat \ {0}
           /\ account \in [Users -> [balance : Nat, reserved : Nat]]
<1>1. RowSound(o) /\ order[o] \in RowType
      /\ account \in [Users -> [balance : Nat, reserved : Nat]]
  BY Types DEF Inv
<1>2. order[o].status \notin {"none", "review"} /\ order[o].owner \in Users /\ o < nextId
  BY <1>1 DEF RowSound
<1>3. Charge[o] \in Nat \ {0}
  BY OrdersAssumption DEF OrdersAssumption
<1> QED BY <1>1, <1>2, <1>3 DEF RowSound

\* A credit, posted or replayed, takes nothing from anybody.
LEMMA CreditKeepsFunds ==
    ASSUME Inv, NEW o \in Orders, order[o].placed, NEW n \in Int, NEW post,
           account' = AccountCredited(o, post, n)
    PROVE  /\ account' \in [Users -> [balance : Nat, reserved : Nat]]
           /\ \A u \in Users : Available(u) <= account'[u].balance - account'[u].reserved
<1>1. account \in [Users -> [balance : Nat, reserved : Nat]] /\ order[o].owner \in Users
  BY PlacedFacts
<1>2. CASE Credits(o, post, n)
  <2>1. account' = [account EXCEPT ![order[o].owner].balance = @ + n] /\ n > 0
    BY <1>2 DEF AccountCredited, Credits
  <2> QED BY <1>1, <2>1 DEF Available
<1>3. CASE ~Credits(o, post, n)
  BY <1>1, <1>3 DEF AccountCredited, Available
<1> QED BY <1>2, <1>3

\* What the row of a placed order is after a credit and a new status.
IsCredited(row, o, post, n, status) ==
    /\ row \in RowType /\ row.status = status
    /\ row.owner = order[o].owner /\ row.placed
    /\ row.posts = IF Credits(o, post, n) THEN order[o].posts \cup {post}
                   ELSE order[o].posts
    /\ row.refunded = IF Credits(o, post, n) THEN order[o].refunded + n
                      ELSE order[o].refunded

\* The row that _credit_order writes is such a row (orders.py:449-516).
LEMMA CreditedRow ==
    ASSUME Inv, NEW o \in Orders, order[o].placed, NEW n \in Int, NEW post \in Posts,
           NEW status \in Statuses
    PROVE  IsCredited(Credited(o, post, n, status), o, post, n, status)
<1>1. order[o] \in RowType
  BY PlacedFacts
<1>2. CASE Credits(o, post, n)
  <2>1. order[o].refunded + n \in Nat
    BY <1>1, <1>2 DEF Credits, RowType
  <2> QED BY <1>1, <1>2, <2>1 DEF Credited, RowType, IsCredited
<1>3. CASE ~Credits(o, post, n)
  BY <1>1, <1>3 DEF Credited, RowType, IsCredited
<1> QED BY <1>2, <1>3

\* When a placed order's new row is sound.
LEMMA PlacedRowSound ==
    ASSUME Inv, NEW o \in Orders, order[o].placed, NEW row \in RowType,
           order' = [order EXCEPT ![o] = row], UNCHANGED <<nextId, panel>>,
           row.placed, row.owner = order[o].owner, row.status \notin {"none", "review"},
           order[o].posts \subseteq row.posts,
           "release" \notin row.posts,
           NoPendingCancel => "release-cancel" \notin row.posts,
           row.refunded > 0 => panel[o] \in {"partial", "canceled", "failed"},
           row.status = "pending" => "pending" \in Reports,
           NoRace => row.refunded <= Charge[o],
           Tidy => /\ row.posts \cap Refunds # {} => row.refunded = Charge[o]
                   /\ row.status \in {"canceled", "failed", "refunded"}
                        => row.refunded = Charge[o]
    PROVE  RowSound(o)'
<1>1. order'[o] = row
  BY Types DEF Inv
<1> QED BY <1>1, PlacedFacts DEF RowSound, NoRace, Tidy, NoPendingCancel, Alone, Refunds

\* A placed order that is credited n and gets a status (orders.py:449-516, 583-614).
LEMMA CreditStep ==
    ASSUME Inv, NEW s \in Sessions, Working(sess[s]), NEW o \in Orders, sess[s].o = o,
           NEW n \in Int, NEW post \in Posts,
           NEW status \in Statuses \ {"none", "review", "pending"},
           post \notin {"release", "release-cancel"},
           account' = AccountCredited(o, post, n),
           order' = [order EXCEPT ![o] = Credited(o, post, n, status)],
           Finish(s), UNCHANGED <<nextId, coupon, commission, panel, locked>>,
           panel[o] \in {"partial", "canceled", "failed"},
           NoRace => n <= Owed(o),
           post \in Refunds /\ Tidy => n = Owed(o),
           status \in {"canceled", "failed", "refunded"} => post \in Refunds
    PROVE  Inv'
<1> DEFINE row == Credited(o, post, n, status)
<1>1. order[o].placed /\ RowSound(o)
  BY DEF Inv, SessionSound
<1>2. /\ row \in RowType /\ row.status = status
      /\ row.owner = order[o].owner /\ row.placed
      /\ row.posts = IF Credits(o, post, n) THEN order[o].posts \cup {post}
                     ELSE order[o].posts
      /\ row.refunded = IF Credits(o, post, n) THEN order[o].refunded + n
                        ELSE order[o].refunded
  <2>1. IsCredited(row, o, post, n, status)
    BY <1>1, CreditedRow, Zenon
  <2> QED BY <2>1, Zenon DEF IsCredited
<1>3. /\ account' \in [Users -> [balance : Nat, reserved : Nat]]
      /\ \A u \in Users : Available(u) <= account'[u].balance - account'[u].reserved
  BY <1>1, CreditKeepsFunds
<1>4. /\ order[o] \in RowType /\ Charge[o] \in Nat \ {0} /\ order[o].refunded \in Nat
      /\ "release" \notin order[o].posts
      /\ NoPendingCancel => "release-cancel" \notin order[o].posts
      /\ order[o].status \notin {"none", "review"}
  BY <1>1, PlacedFacts DEF RowSound, RowType
<1>5. NoRace => row.refunded <= Charge[o]
  <2>1. ASSUME NoRace, Credits(o, post, n)
        PROVE  order[o].refunded + n <= Charge[o]
    BY <1>1, <1>4, <2>1 DEF Owed, Credits, RowSound
  <2> QED BY <1>1, <1>2, <2>1 DEF RowSound
<1>6. ASSUME Tidy
      PROVE  /\ row.posts \cap Refunds # {} => row.refunded = Charge[o]
             /\ status \in {"canceled", "failed", "refunded"} => row.refunded = Charge[o]
  <2>1. order[o].refunded <= Charge[o]
        /\ (order[o].posts \cap Refunds # {} => order[o].refunded = Charge[o])
    BY <1>1, <1>6 DEF RowSound, Tidy
  <2>2. Owed(o) = Charge[o] - order[o].refunded
    BY <1>4, <2>1 DEF Owed
  <2>3. CASE post \in Refunds
    <3>1. n = Charge[o] - order[o].refunded
      BY <1>6, <2>2, <2>3
    <3>2. row.refunded = Charge[o]
      <4>1. CASE Credits(o, post, n)
        BY <1>2, <1>4, <3>1, <4>1
      <4>2. CASE n <= 0
        BY <1>2, <1>4, <2>1, <3>1, <4>2 DEF Credits
      <4>3. CASE post \in order[o].posts
        BY <1>2, <2>1, <2>3, <4>3 DEF Credits
      <4> QED BY <4>1, <4>2, <4>3 DEF Credits
    <3> QED BY <3>2
  <2>4. CASE post \notin Refunds
    <3>1. row.posts \cap Refunds # {} => order[o].posts \cap Refunds # {}
      BY <1>2, <2>4
    <3>2. order[o].refunded = Charge[o] => row.refunded = Charge[o]
      <4>1. n <= Owed(o)
        BY <1>6 DEF Tidy
      <4> QED BY <1>2, <1>4, <2>2, <4>1 DEF Credits
    <3> QED BY <2>1, <2>4, <3>1, <3>2
  <2> QED BY <2>3, <2>4
<1>7. order' = [order EXCEPT ![o] = row] /\ order[o].posts \subseteq row.posts
  BY <1>2
<1>8. /\ "release" \notin row.posts
      /\ NoPendingCancel => "release-cancel" \notin row.posts
  BY <1>2, <1>4
<1> HIDE DEF row
<1>9. RowSound(o)'
  BY <1>1, <1>2, <1>5, <1>6, <1>7, <1>8, PlacedRowSound
<1>10. coupon' \in [used : Nat, by : SUBSET Orders] /\ ~Placing(sess[s])
  BY DEF Inv, TypeOK, Working, Canceling, Placing
<1> QED BY <1>1, <1>2, <1>3, <1>4, <1>7, <1>9, <1>10, WorkStep

\* A placed order that only gets a status.
LEMMA StatusStep ==
    ASSUME Inv, NEW s \in Sessions, Working(sess[s]), NEW o \in Orders, sess[s].o = o,
           NEW status \in Statuses \ {"none", "review"},
           order' = [order EXCEPT ![o].status = status],
           Finish(s), UNCHANGED <<account, nextId, coupon, panel, locked>>,
           commission' \subseteq commission \cup {p \in {o} : panel[p] = "completed"},
           status = "pending" => "pending" \in Reports,
           Tidy => status \notin {"canceled", "failed", "refunded"}
    PROVE  Inv'
<1> DEFINE row == [order[o] EXCEPT !.status = status]
<1>1. order[o].placed /\ RowSound(o)
  BY DEF Inv, SessionSound
<1>2. order[o] \in RowType /\ order[o].status \notin {"none", "review"}
  BY <1>1, PlacedFacts
<1>3. /\ row \in RowType /\ row.status = status /\ row.owner = order[o].owner
      /\ row.placed /\ row.posts = order[o].posts /\ row.refunded = order[o].refunded
      /\ order' = [order EXCEPT ![o] = row]
  BY <1>1, <1>2 DEF RowType
<1> HIDE DEF row
<1>4. RowSound(o)'
  <2>1. /\ "release" \notin order[o].posts
        /\ NoPendingCancel => "release-cancel" \notin order[o].posts
        /\ order[o].refunded > 0 => panel[o] \in {"partial", "canceled", "failed"}
        /\ NoRace => order[o].refunded <= Charge[o]
        /\ Tidy /\ order[o].posts \cap Refunds # {} => order[o].refunded = Charge[o]
    BY <1>1 DEF RowSound
  <2> QED BY <1>1, <1>3, <2>1, PlacedRowSound
<1>5. /\ account' \in [Users -> [balance : Nat, reserved : Nat]]
      /\ \A u \in Users : Available(u) <= account'[u].balance - account'[u].reserved
  <2>1. account \in [Users -> [balance : Nat, reserved : Nat]]
    BY Types DEF Inv
  <2> QED BY <2>1 DEF Available
<1>6. coupon' \in [used : Nat, by : SUBSET Orders] /\ ~Placing(sess[s])
  BY DEF Inv, TypeOK, Working, Canceling, Placing
<1> QED BY <1>1, <1>2, <1>3, <1>4, <1>5, <1>6, WorkStep

------------------------------------------------------------------------------
\* What a session that works on a placed order knows.
LEMMA WorkingFacts ==
    ASSUME Inv, NEW s \in Sessions, Working(sess[s]), NEW o, sess[s].o = o
    PROVE  /\ o \in Orders /\ order[o].placed /\ RowSound(o) /\ order[o] \in RowType
           /\ Charge[o] \in Nat \ {0} /\ order[o].refunded \in Nat /\ Owed(o) \in Nat
           /\ SessionSound(s, sess[s]) /\ sess[s] \in SessionType
<1>1. o \in Orders /\ order[o].placed /\ RowSound(o) /\ SessionSound(s, sess[s])
  BY DEF Inv, SessionSound
<1>2. order[o] \in RowType /\ Charge[o] \in Nat \ {0} /\ sess[s] \in SessionType
  BY <1>1, PlacedFacts, Types DEF Inv
<1> QED BY <1>1, <1>2 DEF RowType, Owed

\* sync_order_status, from the status write to COMMIT (orders.py:435-476).
LEMMA SyncApplyStep ==
    ASSUME Inv, NEW s \in Sessions, SyncApply(s)
    PROVE  Inv'
<1>1. PICK o : o = sess[s].o
  OBVIOUS
<1>2. sess[s].at = "reported" /\ Working(sess[s])
  BY DEF SyncApply, SyncStatus, SyncCompleted, SyncPartial, SyncRefund, SyncApplies, Working
<1>3. /\ o \in Orders /\ Charge[o] \in Nat \ {0} /\ Owed(o) \in Nat
      /\ StillReported(o, sess[s].report)
  BY <1>1, <1>2, WorkingFacts DEF SessionSound
<1>4. CASE SyncStatus(s)
  <2>1. /\ sess[s].report \in {"pending", "processing", "in_progress", "refunded"}
        /\ order' = [order EXCEPT ![o].status = sess[s].report]
        /\ Finish(s) /\ UNCHANGED <<account, nextId, coupon, commission, panel, locked>>
    BY <1>1, <1>4 DEF SyncStatus
  <2>2. sess[s].report \in Reports
    BY <1>3, <2>1 DEF StillReported
  <2>3. sess[s].report \in Statuses \ {"none", "review"}
    BY <2>1, PanelStatusesAre DEF Statuses
  <2>4. /\ sess[s].report = "pending" => "pending" \in Reports
        /\ Tidy => sess[s].report \notin {"canceled", "failed", "refunded"}
    BY <2>1, <2>2 DEF Tidy
  <2>5. commission' \subseteq commission \cup {p \in {o} : panel[p] = "completed"}
    BY <2>1
  <2> QED BY <1>1, <1>2, <1>3, <2>1, <2>3, <2>4, <2>5, StatusStep
<1>5. CASE SyncCompleted(s)
  <2>1. /\ order' = [order EXCEPT ![o].status = "completed"]
        /\ commission' \subseteq commission \cup {o}
        /\ Finish(s) /\ UNCHANGED <<account, nextId, coupon, panel, locked>>
        /\ panel[o] = "completed"
    BY <1>1, <1>3, <1>5 DEF SyncCompleted, SyncApplies, StillReported
  <2>2. "completed" \in Statuses \ {"none", "review"}
    BY PanelStatusesAre DEF Statuses
  <2>3. commission' \subseteq commission \cup {p \in {o} : panel[p] = "completed"}
    BY <2>1
  <2> QED BY <1>1, <1>2, <1>3, <2>1, <2>2, <2>3, StatusStep
<1>6. ASSUME NEW r \in Undelivered, SyncPartial(s, r)
      PROVE  Inv'
  <2>1. PICK n : n = Minimum(Minimum(r, Charge[o]), Owed(o))
    OBVIOUS
  <2>2. n \in Int /\ n <= Owed(o)
    BY <1>3, <2>1, OrdersAssumption DEF OrdersAssumption, Minimum
  <2>3. /\ account' = AccountCredited(o, "partial", n)
        /\ order' = [order EXCEPT ![o] = Credited(o, "partial", n, "partial")]
        /\ Finish(s) /\ UNCHANGED <<nextId, coupon, commission, panel, locked>>
        /\ panel[o] \in {"partial", "canceled", "failed"}
    BY <1>1, <1>3, <1>6, <2>1 DEF SyncPartial, SyncApplies, StillReported
  <2>4. "partial" \in Statuses \ {"none", "review", "pending"} /\ "partial" \in Posts
        /\ "partial" \notin Refunds
    BY PanelStatusesAre DEF Statuses, Posts, Refunds
  <2> QED BY <1>1, <1>2, <1>3, <2>2, <2>3, <2>4, CreditStep
<1>7. ASSUME NEW st \in {"canceled", "failed"}, SyncRefund(s, st)
      PROVE  Inv'
  <2>1. PICK post \in {"refund-canceled", "refund-failed"} :
          post = IF st = "canceled" THEN "refund-canceled" ELSE "refund-failed"
    OBVIOUS
  <2>2. PICK status \in {"canceled", "failed", "refunded"} :
          status = IF Credits(o, post, Owed(o)) THEN "refunded" ELSE st
    OBVIOUS
  <2>3. /\ account' = AccountCredited(o, post, Owed(o))
        /\ order' = [order EXCEPT ![o] = Credited(o, post, Owed(o), status)]
        /\ Finish(s) /\ UNCHANGED <<nextId, coupon, commission, panel, locked>>
        /\ panel[o] \in {"partial", "canceled", "failed"}
    BY <1>1, <1>3, <1>7, <2>1, <2>2 DEF SyncRefund, SyncApplies, StillReported
  <2>4. /\ status \in Statuses \ {"none", "review", "pending"}
        /\ post \in Posts /\ post \in Refunds
    BY PanelStatusesAre DEF Statuses, Posts, Refunds
  <2>5. Owed(o) \in Int /\ Owed(o) <= Owed(o) /\ post \notin {"release", "release-cancel"}
    BY <1>3, <2>1
  <2> QED BY <1>1, <1>2, <1>3, <2>3, <2>4, <2>5, CreditStep
<1> QED BY <1>4, <1>5, <1>6, <1>7 DEF SyncApply

\* request_cancel after the panel's confirmation: the credit of what was owed when
\* counted, or the release of an order thought to be reserved (orders.py:583-614).
LEMMA CancelCreditStep ==
    ASSUME Inv, NEW s \in Sessions, CancelCredit(s)
    PROVE  Inv'
<1>1. PICK o : o = sess[s].o
  OBVIOUS
<1>2. PICK n : n = sess[s].owed
  OBVIOUS
<1>3. sess[s].at = "counted" /\ Working(sess[s])
  BY DEF CancelCredit, Working, Canceling
<1>4. /\ o \in Orders /\ n \in Int /\ panel[o] = "canceled" /\ "cancel" \in Operations
      /\ Alone => n = Owed(o)
  BY <1>1, <1>2, <1>3, WorkingFacts DEF SessionSound, Canceling, SessionType
<1>5. (NoRace => n <= Owed(o)) /\ (Tidy => n = Owed(o))
  <2>1. Owed(o) \in Nat
    BY <1>1, <1>3, WorkingFacts
  <2> QED BY <1>4, <2>1 DEF NoRace, Tidy
<1>6. /\ account' = AccountCredited(o, "refund-cancel", n)
      /\ order' = [order EXCEPT ![o] = Credited(o, "refund-cancel", n, "canceled")]
      /\ Finish(s) /\ UNCHANGED <<nextId, coupon, commission, panel, locked>>
  BY <1>1, <1>2 DEF CancelCredit
<1>7. /\ "canceled" \in Statuses \ {"none", "review", "pending"}
      /\ "refund-cancel" \in Posts /\ "refund-cancel" \in Refunds
      /\ "refund-cancel" \notin {"release", "release-cancel"}
      /\ panel[o] \in {"partial", "canceled", "failed"}
  BY <1>4, PanelStatusesAre DEF Statuses, Posts, Refunds
<1> QED BY <1>1, <1>3, <1>4, <1>5, <1>6, <1>7, CreditStep

\* wallet.release never makes less available.
LEMMA ReleaseKeepsFunds ==
    ASSUME Inv, NEW o \in Orders, order[o].owner \in Users, NEW post,
           account' = AccountReleased(o, post)
    PROVE  /\ account' \in [Users -> [balance : Nat, reserved : Nat]]
           /\ \A u \in Users : Available(u) <= account'[u].balance - account'[u].reserved
<1>1. account \in [Users -> [balance : Nat, reserved : Nat]] /\ Charge[o] \in Nat
  BY Types, OrdersAssumption DEF Inv, OrdersAssumption
<1>2. CASE post \in order[o].posts
  BY <1>1, <1>2 DEF AccountReleased, Available
<1>3. CASE post \notin order[o].posts
  <2> DEFINE left == account[order[o].owner].reserved
                       - Minimum(account[order[o].owner].reserved, Charge[o])
  <2>1. left \in Nat /\ left <= account[order[o].owner].reserved
    BY <1>1 DEF Minimum
  <2>2. account' = [account EXCEPT ![order[o].owner].reserved = left]
    BY <1>3 DEF AccountReleased
  <2> HIDE DEF left
  <2> QED BY <1>1, <2>1, <2>2 DEF Available
<1> QED BY <1>2, <1>3

LEMMA CancelReleaseStep ==
    ASSUME Inv, NEW s \in Sessions, CancelRelease(s)
    PROVE  Inv'
<1>1. PICK o : o = sess[s].o
  OBVIOUS
<1>2. sess[s].at = "confirmed" /\ sess[s].seen = "pending" /\ Working(sess[s])
  BY DEF CancelRelease, Working, Canceling
<1>3. /\ o \in Orders /\ order[o].placed /\ RowSound(o) /\ order[o] \in RowType
      /\ order[o].owner \in Users /\ order[o].status \notin {"none", "review"}
      /\ ~NoPendingCancel
  BY <1>1, <1>2, WorkingFacts, PlacedFacts DEF SessionSound, Canceling, NoPendingCancel
<1> DEFINE row == [order[o] EXCEPT !.status = "canceled", !.posts = @ \cup {"release-cancel"}]
<1>4. /\ account' = AccountReleased(o, "release-cancel")
      /\ order' = [order EXCEPT ![o].status = "canceled", ![o].posts = @ \cup {"release-cancel"}]
      /\ Finish(s) /\ UNCHANGED <<nextId, coupon, commission, panel, locked>>
  BY <1>1 DEF CancelRelease
<1>5. /\ row \in RowType /\ row.status = "canceled" /\ row.owner = order[o].owner
      /\ row.placed /\ row.posts = order[o].posts \cup {"release-cancel"}
      /\ row.refunded = order[o].refunded
      /\ order' = [order EXCEPT ![o] = row]
  BY <1>3, <1>4, PanelStatusesAre, Types DEF RowType, Statuses, Posts, Inv
<1> HIDE DEF row
<1>6. RowSound(o)'
  <2>1. /\ "release" \notin order[o].posts /\ ~Tidy
        /\ order[o].refunded > 0 => panel[o] \in {"partial", "canceled", "failed"}
        /\ NoRace => order[o].refunded <= Charge[o]
    BY <1>3 DEF RowSound, Tidy
  <2> QED BY <1>3, <1>4, <1>5, <2>1, PlacedRowSound
<1>7. coupon' \in [used : Nat, by : SUBSET Orders] /\ ~Placing(sess[s])
  BY <1>2, <1>4 DEF Inv, TypeOK, Placing
<1> QED BY <1>3, <1>4, <1>5, <1>6, <1>7, ReleaseKeepsFunds, WorkStep

\* request_refill (orders.py:655-700).
LEMMA RefillStep ==
    ASSUME Inv, NEW s \in Sessions, RefillCommit(s)
    PROVE  Inv'
<1>1. PICK o : o = sess[s].o
  OBVIOUS
<1>2. /\ Working(sess[s]) /\ Finish(s) /\ ~Placing(sess[s])
      /\ UNCHANGED <<account, nextId, coupon, commission, panel, locked>>
  BY DEF RefillCommit, Working, Placing
<1>3. o \in Orders
  BY <1>1, <1>2, WorkingFacts
<1>4. CASE order' = [order EXCEPT ![o].status = "refilling"]
  <2>1. "refilling" \in Statuses \ {"none", "review"}
    BY DEF Statuses
  <2> QED BY <1>1, <1>2, <1>3, <1>4, <2>1, StatusStep
<1>5. CASE UNCHANGED order
  <2>1. Enter(s, Idle)
    BY <1>2 DEF Finish, Enter
  <2> QED BY <1>2, <1>5, <2>1, IdleTyped, IdleSound, SessionStep DEF Placing
<1> QED BY <1>1, <1>4, <1>5 DEF RefillCommit

------------------------------------------------------------------------------
\* What the operator's session knows of the order it resolves.
LEMMA ResolvingFacts ==
    ASSUME Inv, NEW s \in Sessions, sess[s].at = "resolving", NEW o, sess[s].o = o
    PROVE  /\ o \in Orders /\ order[o] \in RowType /\ RowSound(o)
           /\ order[o].status # "none" /\ order[o].owner \in Users /\ o < nextId
           /\ Charge[o] \in Nat \ {0}
           /\ \/ sess[s].report = "release" /\ panel[o] = None
              \/ /\ sess[s].report = "attach" /\ panel[o] # None
                 /\ order[o].placed \/ order[o].status = "review"
           /\ ~order[o].placed => order[o].status \in {"review", "failed"}
           /\ order[o].placed => panel[o] # None
           /\ ~Placing(sess[s])
<1>1. SessionSound(s, sess[s]) /\ o \in Orders /\ RowSound(o) /\ order[o] \in RowType
  BY Types DEF Inv, SessionSound
<1>2. order[o].status # "none" /\ Charge[o] \in Nat \ {0}
  BY <1>1, OrdersAssumption DEF SessionSound, OrdersAssumption
<1> QED BY <1>1, <1>2 DEF SessionSound, RowSound, Placing

\* resolve_review_order --release (orders.py:312-349).
LEMMA ResolveReleaseStep ==
    ASSUME Inv, NEW s \in Sessions, ResolveRelease(s)
    PROVE  Inv'
<1>1. PICK o : o = sess[s].o
  OBVIOUS
<1>2. sess[s].at = "resolving" /\ sess[s].report = "release"
  BY DEF ResolveRelease
<1>3. /\ o \in Orders /\ order[o] \in RowType /\ RowSound(o) /\ order[o].owner \in Users
      /\ o < nextId /\ ~order[o].placed /\ order[o].status \in {"review", "failed"}
      /\ panel[o] = None /\ ~Placing(sess[s]) /\ Charge[o] \in Nat \ {0}
  BY <1>1, <1>2, ResolvingFacts
<1> DEFINE row == [order[o] EXCEPT !.status = "failed", !.posts = @ \cup {"release"}]
<1>4. /\ account' = AccountReleased(o, "release") /\ coupon' = CouponReturned(o)
      /\ order' = [order EXCEPT ![o].status = "failed", ![o].posts = @ \cup {"release"}]
      /\ Finish(s) /\ UNCHANGED <<nextId, commission, panel, locked>>
  BY <1>1 DEF ResolveRelease
<1>5. /\ row \in RowType /\ row.status = "failed" /\ row.owner = order[o].owner
      /\ row.placed = FALSE /\ row.posts = order[o].posts \cup {"release"}
      /\ row.refunded = order[o].refunded
      /\ order' = [order EXCEPT ![o] = row]
  BY <1>3, <1>4, PanelStatusesAre, Types DEF RowType, Statuses, Posts, Inv
<1> HIDE DEF row
<1>6. RowSound(o)'
  <2>1. /\ order[o].posts \subseteq {"reserve", "release"} /\ order[o].refunded = 0
        /\ "reserve" \in order[o].posts
    BY <1>3 DEF RowSound
  <2>2. order'[o] = row
    BY <1>3, <1>5, Types DEF Inv
  <2>3. /\ row.posts \subseteq {"reserve", "release"} /\ "reserve" \in row.posts
        /\ "release" \in row.posts /\ row.posts \cap Refunds = {}
        /\ "release-cancel" \notin row.posts /\ row.refunded = 0
    BY <1>5, <2>1 DEF Refunds
  <2>4. panel'[o] = None /\ nextId' = nextId
    BY <1>3, <1>4
  <2> QED BY <1>3, <1>5, <2>2, <2>3, <2>4 DEF RowSound
<1>7. coupon' \in [used : Nat, by : SUBSET Orders]
  BY <1>4 DEF Inv, TypeOK, CouponReturned
<1> QED BY <1>3, <1>4, <1>5, <1>6, <1>7, ReleaseKeepsFunds, WorkStep

\* resolve_review_order --attach (orders.py:312-349).
LEMMA ResolveAttachStep ==
    ASSUME Inv, NEW s \in Sessions, ResolveAttach(s)
    PROVE  Inv'
<1>1. PICK o : o = sess[s].o
  OBVIOUS
<1>2. sess[s].at = "resolving" /\ sess[s].report = "attach" /\ Finish(s)
      /\ UNCHANGED <<nextId, coupon, commission, panel, locked>>
  BY DEF ResolveAttach
<1>3. /\ o \in Orders /\ order[o] \in RowType /\ RowSound(o) /\ order[o].owner \in Users
      /\ o < nextId /\ (order[o].placed \/ order[o].status = "review")
      /\ panel[o] # None /\ ~Placing(sess[s]) /\ Charge[o] \in Nat \ {0}
      /\ order[o].status # "none"
  BY <1>1, <1>2, ResolvingFacts
<1>4. account \in [Users -> [balance : Nat, reserved : Nat]]
      /\ account[order[o].owner].reserved <= account[order[o].owner].balance
  BY <1>3, Types DEF Inv, Solvent
<1> DEFINE funded == "capture" \in order[o].posts
                       \/ account[order[o].owner].reserved >= Charge[o]
           row == [order[o] EXCEPT !.status = "processing", !.placed = TRUE,
                                   !.posts = @ \cup {"capture"}]
<1>5. CASE ~funded
  <2>1. UNCHANGED <<account, order>> /\ Enter(s, Idle)
    BY <1>1, <1>2, <1>5 DEF ResolveAttach, Finish, Enter
  <2> QED BY <1>2, <1>3, <2>1, IdleTyped, IdleSound, SessionStep DEF Placing
<1>6. CASE funded
  <2>1. /\ account' = AccountCaptured(o)
        /\ order' = [order EXCEPT ![o].status = "processing", ![o].placed = TRUE,
                                  ![o].posts = @ \cup {"capture"}]
    BY <1>1, <1>6 DEF ResolveAttach
  <2>2. /\ account' \in [Users -> [balance : Nat, reserved : Nat]]
        /\ \A u \in Users : Available(u) <= account'[u].balance - account'[u].reserved
    <3>1. CASE "capture" \in order[o].posts
      BY <1>4, <2>1, <3>1 DEF AccountCaptured, Available
    <3>2. CASE "capture" \notin order[o].posts
      <4> DEFINE a == account[order[o].owner]
                 b == [balance |-> a.balance - Charge[o], reserved |-> a.reserved - Charge[o]]
      <4>1. a.reserved >= Charge[o] /\ a.reserved <= a.balance
            /\ a \in [balance : Nat, reserved : Nat]
        BY <1>3, <1>4, <1>6, <3>2
      <4>2. account' = [account EXCEPT ![order[o].owner] = b]
        BY <2>1, <3>2 DEF AccountCaptured
      <4>3. b \in [balance : Nat, reserved : Nat] /\ b.balance - b.reserved = a.balance - a.reserved
        BY <1>3, <4>1
      <4> HIDE DEF b
      <4> QED BY <1>3, <1>4, <4>2, <4>3 DEF Available
    <3> QED BY <3>1, <3>2
  <2>3. /\ row \in RowType /\ row.status = "processing" /\ row.owner = order[o].owner
        /\ row.placed /\ row.posts = order[o].posts \cup {"capture"}
        /\ row.refunded = order[o].refunded
        /\ order' = [order EXCEPT ![o] = row]
    BY <1>3, <2>1, PanelStatusesAre, Types DEF RowType, Statuses, Posts, Inv
  <2> HIDE DEF row, funded
  <2>4. RowSound(o)'
    <3>1. CASE order[o].placed
      <4>1. /\ "release" \notin order[o].posts
            /\ NoPendingCancel => "release-cancel" \notin order[o].posts
            /\ order[o].refunded > 0 => panel[o] \in {"partial", "canceled", "failed"}
            /\ NoRace => order[o].refunded <= Charge[o]
            /\ Tidy /\ order[o].posts \cap Refunds # {} => order[o].refunded = Charge[o]
        BY <1>3, <3>1 DEF RowSound
      <4>2. row.posts \cap Refunds # {} => order[o].posts \cap Refunds # {}
        BY <2>3 DEF Refunds
      <4> QED BY <1>2, <1>3, <2>3, <3>1, <4>1, <4>2, PlacedRowSound
    <3>2. CASE ~order[o].placed
      <4>1. /\ order[o].status = "review" /\ order[o].refunded = 0
            /\ order[o].posts \subseteq {"reserve", "release"}
            /\ "reserve" \in order[o].posts /\ "release" \notin order[o].posts
            /\ panel[o] \in Reports \cup {"canceled"}
        BY <1>3, <3>2 DEF RowSound
      <4>2. order'[o] = row
        BY <1>3, <2>3, Types DEF Inv
      <4> QED BY <1>2, <1>3, <2>3, <4>1, <4>2 DEF RowSound, Refunds
    <3> QED BY <3>1, <3>2
  <2>5. coupon' \in [used : Nat, by : SUBSET Orders]
        /\ commission' \subseteq commission \cup {p \in {o} : panel[p] = "completed"}
    BY <1>2 DEF Inv, TypeOK
  <2> QED BY <1>2, <1>3, <2>2, <2>3, <2>4, <2>5, WorkStep
<1> QED BY <1>5, <1>6

------------------------------------------------------------------------------
\* place_order under the row lock: a fresh id, enough available funds.
LEMMA ReserveStep ==
    ASSUME Inv, NEW s \in Sessions, PlaceReserve(s)
    PROVE  Inv'
<1>1. PICK u : u = sess[s].user
  OBVIOUS
<1>2. PICK r : r = [sess[s] EXCEPT !.at = "calling", !.o = nextId, !.used = coupon.used]
  OBVIOUS
<1>3. /\ sess[s].at = "quoted" /\ locked[u] = None /\ nextId \in Orders
      /\ Available(u) >= Charge[nextId]
      /\ locked' = [locked EXCEPT ![u] = s] /\ nextId' = nextId + 1
      /\ sess' = [sess EXCEPT ![s] = r]
      /\ UNCHANGED <<account, order, coupon, commission, panel>>
  BY <1>1, <1>2 DEF PlaceReserve, Unlocked, Enter
<1>4. /\ sess \in [Sessions -> SessionType] /\ TypeOK /\ sess[s] \in SessionType
      /\ nextId \in Nat /\ coupon \in [used : Nat, by : SUBSET Orders]
      /\ locked \in [Users -> Sessions \cup {None}]
      /\ MaxOrders \in Nat
  BY Types, OrdersAssumption DEF Inv, OrdersAssumption
<1>5. u \in Users /\ sess[s].key \in Keys /\ s # None
  BY <1>3, <1>1, OrdersAssumption DEF Inv, SessionSound, OrdersAssumption
<1>6. nextId \in 0..MaxOrders /\ nextId' \in 1..(MaxOrders + 1)
  BY <1>3, <1>4 DEF Orders
<1>7. /\ r \in SessionType /\ r.at = "calling" /\ r.o = nextId /\ r.user = u
      /\ r.key = sess[s].key
  BY <1>4, <1>6, <1>1, <1>2 DEF SessionType, Ats
<1>8. TypeOK'
  <2>1. sess' \in [Sessions -> SessionType] /\ locked' \in [Users -> Sessions \cup {None}]
    BY <1>3, <1>4, <1>7
  <2> QED BY <1>3, <1>4, <1>6, <2>1 DEF TypeOK, SessionType, Ats, Answers
<1>9. Solvent' /\ CommissionOnDelivery'
  BY <1>3 DEF Inv, Solvent, CommissionOnDelivery
<1>10. order[nextId].status = "none" /\ panel[nextId] = None
  BY <1>3, <1>4 DEF Inv, RowSound, IdsFresh
<1>11. \A t \in Sessions \ {s} : sess'[t] = sess[t]
  BY <1>3, <1>4
<1>12. sess'[s] = r /\ ~Placing(sess[s])
  BY <1>3, <1>4, <1>7 DEF Placing
<1>13. IdsFresh'
  <2>1. ASSUME NEW t \in Sessions, t # s, Placing(sess'[t])
        PROVE  sess'[t].o < nextId
    BY <1>11, <2>1 DEF Inv, SessionSound
  <2>2. ASSUME NEW t \in Sessions, NEW v \in Sessions, Placing(sess'[t]), Placing(sess'[v]),
               sess'[t].o = sess'[v].o
        PROVE  t = v
    BY <1>4, <1>7, <1>11, <1>12, <2>1, <2>2 DEF Inv, IdsFresh
  <2>3. \A o \in Orders : nextId' <= o => panel'[o] = None
    BY <1>3, <1>4 DEF Inv, IdsFresh, Orders
  <2>4. ASSUME NEW o \in Orders, BeingPlaced(o)
        PROVE  BeingPlaced(o)'
    BY <1>11, <1>12, <2>4 DEF BeingPlaced, Placing
  <2>5. \A o \in Orders : panel'[o] # None /\ order'[o].status = "none" /\ "crash" \notin Faults
                            => BeingPlaced(o)'
    BY <1>3, <2>4 DEF Inv, IdsFresh
  <2> QED BY <2>2, <2>3, <2>5 DEF IdsFresh, Placing
<1>14. ASSUME NEW o \in Orders
       PROVE  RowSound(o)'
  BY <1>3, <1>4, OrdersAssumption DEF Inv, RowSound, OrdersAssumption, Orders
<1>15. ASSUME NEW t \in Sessions
       PROVE  SessionSound(t, sess[t])'
  <2>1. CASE t = s
    <3>1. locked'[u] = s /\ nextId < nextId'
      BY <1>3, <1>4, <1>5
    <3>2. SessionSound(t, r)'
      BY <2>1, <3>1, <1>3, <1>5, <1>7, <1>10
         DEF SessionSound, Placing, Working, Canceling, Available
    <3> QED BY <2>1, <1>12, <3>2
  <2>2. CASE t # s
    <3>1. sess'[t] = sess[t] /\ SessionSound(t, sess[t])
      BY <2>2, <1>11 DEF Inv
    <3>2. Placing(sess[t]) => sess[t].user # u /\ sess[t].o < nextId'
                              /\ locked'[sess[t].user] = t
      <4>1. ASSUME Placing(sess[t])
            PROVE  sess[t].user # u /\ sess[t].user \in Users /\ locked[sess[t].user] = t
                   /\ sess[t].o < nextId
        <5>1. t # None
          BY OrdersAssumption DEF OrdersAssumption
        <5> QED BY <1>3, <3>1, <4>1, <5>1 DEF SessionSound
      <4> QED BY <1>3, <1>4, <3>1, <4>1 DEF SessionSound, Orders
    <3> QED BY <1>3, <3>1, <3>2 DEF SessionSound, Placing, Working, Canceling, StillReported,
                                    Available, Owed
  <2> QED BY <2>1, <2>2
<1> QED BY <1>8, <1>9, <1>13, <1>14, <1>15 DEF Inv

\* The COMMIT of place_order: the row, the account and the coupon appear at once.
LEMMA CommitStep ==
    ASSUME Inv, NEW s \in Sessions, sess[s].at = "answered", NEW o, o = sess[s].o,
           NEW u, u = sess[s].user,
           NEW row \in RowType, PlaceCommit(s, row),
           row.status # "none",
           account' \in [Users -> [balance : Nat, reserved : Nat]],
           \A v \in Users \ {u} : account'[v] = account[v],
           account'[u].reserved <= account'[u].balance,
           coupon' \in [used : Nat, by : SUBSET Orders],
           RowSound(o)'
    PROVE  Inv'
<1>1. /\ order' = [order EXCEPT ![o] = row] /\ locked' = [locked EXCEPT ![u] = None]
      /\ sess' = [sess EXCEPT ![s] = Idle] /\ UNCHANGED <<nextId, commission, panel>>
  BY DEF PlaceCommit, Finish
<1>2. /\ sess \in [Sessions -> SessionType] /\ TypeOK /\ order \in [Orders -> RowType]
      /\ locked \in [Users -> Sessions \cup {None}]
  BY Types DEF Inv
<1>3. /\ u \in Users /\ o \in Orders /\ order[o].status = "none" /\ locked[u] = s
      /\ Placing(sess[s])
  BY DEF Inv, SessionSound, Placing
<1>4. TypeOK'
  <2>1. /\ sess' \in [Sessions -> SessionType] /\ order' \in [Orders -> RowType]
        /\ locked' \in [Users -> Sessions \cup {None}]
    BY <1>1, <1>2, IdleTyped
  <2> QED BY <1>1, <1>2, <2>1 DEF TypeOK, SessionType, RowType, Ats, Answers
<1>5. Solvent' /\ CommissionOnDelivery'
  BY <1>1 DEF Inv, Solvent, CommissionOnDelivery
<1>6. \A t \in Sessions \ {s} : sess'[t] = sess[t]
  BY <1>1, <1>2
<1>7. sess'[s] = Idle /\ order'[o] = row /\ \A p \in Orders \ {o} : order'[p] = order[p]
  BY <1>1, <1>2, <1>3
<1>8. ~Placing(Idle)
  BY IdleTyped DEF Placing
<1>9. IdsFresh'
  <2>1. \A t, v \in Sessions :
          Placing(sess'[t]) /\ Placing(sess'[v]) /\ sess'[t].o = sess'[v].o => t = v
    BY <1>6, <1>7, <1>8 DEF Inv, IdsFresh
  <2>2. ASSUME NEW p \in Orders, p # o, BeingPlaced(p)
        PROVE  BeingPlaced(p)'
    BY <1>6, <2>2 DEF BeingPlaced
  <2>3. \A p \in Orders : panel'[p] # None /\ order'[p].status = "none" /\ "crash" \notin Faults
                            => BeingPlaced(p)'
    BY <1>1, <1>7, <2>2 DEF Inv, IdsFresh
  <2> QED BY <1>1, <2>1, <2>3 DEF Inv, IdsFresh, Placing
<1>10. ASSUME NEW p \in Orders
       PROVE  RowSound(p)'
  <2>1. CASE p = o
    BY <2>1
  <2>2. CASE p # o
    <3>1. RowSound(p) /\ order'[p] = order[p]
      BY <2>2, <1>7 DEF Inv
    <3> QED BY <3>1, <1>1 DEF RowSound
  <2> QED BY <2>1, <2>2
<1>11. ASSUME NEW t \in Sessions
       PROVE  SessionSound(t, sess[t])'
  <2>1. CASE t = s
    BY <2>1, <1>7, IdleTyped DEF SessionSound, Placing, Working, Canceling
  <2>2. CASE t # s
    <3>1. sess'[t] = sess[t] /\ SessionSound(t, sess[t])
      BY <2>2, <1>6 DEF Inv
    <3> DEFINE r == sess[t]
    <3>2. Placing(r) => r.user # u /\ r.user \in Users /\ r.o # o /\ r.o \in Orders
      BY <1>3, <2>2, <3>1 DEF SessionSound, Inv, IdsFresh
    <3>3. Placing(r) => /\ locked'[r.user] = t /\ account'[r.user] = account[r.user]
                        /\ order'[r.o].status = "none"
      BY <1>1, <1>2, <1>7, <3>1, <3>2 DEF SessionSound
    <3>4. Working(r) \/ r.at = "resolving" => r.o \in Orders /\ order[r.o].status # "none"
      BY <3>1 DEF SessionSound, Inv, RowSound
    <3>5. Working(r) \/ r.at = "resolving" => order'[r.o] = order[r.o]
      BY <1>3, <1>7, <3>4
    <3> HIDE DEF r
    <3>6. SessionSound(t, r) /\ r' = r
      BY <3>1 DEF r
    <3>7. SessionSound(t, r)'
      BY <1>1, <3>3, <3>5, <3>6 DEF SessionSound, Placing, Working, Canceling, StillReported,
                                    Available, Owed
    <3> QED BY <3>1, <3>6, <3>7 DEF r
  <2> QED BY <2>1, <2>2
<1> QED BY <1>4, <1>5, <1>9, <1>10, <1>11 DEF Inv

\* The three ways place_order ends after the panel's answer (orders.py:356-398).
LEMMA PlaceEnds ==
    ASSUME Inv, NEW s \in Sessions, PlaceAccepted(s) \/ PlaceReview(s) \/ PlaceFailed(s)
    PROVE  Inv'
<1>1. PICK o, u : o = sess[s].o /\ u = sess[s].user
  OBVIOUS
<1>2. PICK status, posts, placed :
        /\ PlaceCommit(s, PlacedRow(s, status, posts, placed))
        /\ \/ /\ status = "processing" /\ posts = {"reserve", "capture"} /\ placed = TRUE
              /\ sess[s].report = "ok"
              /\ account' = [account EXCEPT ![u].balance = @ - Charge[o]]
           \/ /\ status = "review" /\ posts = {"reserve"} /\ placed = FALSE
              /\ account' = [account EXCEPT ![u].reserved = @ + Charge[o]]
           \/ /\ status = "failed" /\ posts = {"reserve", "release"} /\ placed = FALSE
              /\ sess[s].report = "refused" /\ account' = account
  BY <1>1 DEF PlaceAccepted, PlaceReview, PlaceFailed
<1>3. sess[s].at = "answered"
      /\ (coupon' = CouponConsumed(s)
            \/ coupon' = IF sess[s].coupon THEN [coupon EXCEPT !.used = sess[s].used] ELSE coupon)
  BY DEF PlaceAccepted, PlaceReview, PlaceFailed
<1>4. PICK row : row = PlacedRow(s, status, posts, placed)
  OBVIOUS
<1>5. /\ sess[s] \in SessionType /\ SessionSound(s, sess[s]) /\ Placing(sess[s])
      /\ account \in [Users -> [balance : Nat, reserved : Nat]]
      /\ coupon \in [used : Nat, by : SUBSET Orders] /\ order \in [Orders -> RowType]
  BY <1>3, Types DEF Inv, Placing
<1>6. /\ u \in Users /\ o \in Orders /\ o < nextId /\ sess[s].key \in Keys
      /\ Available(u) >= Charge[o] /\ Charge[o] \in Nat \ {0} /\ order[o].status = "none"
  BY <1>1, <1>5, OrdersAssumption DEF SessionSound, OrdersAssumption
<1>7. account[u] \in [balance : Nat, reserved : Nat]
      /\ account[u].balance - account[u].reserved >= Charge[o]
  BY <1>5, <1>6 DEF Available
<1>8. row.posts = posts /\ row.placed = placed /\ row.status = status /\ row.owner = u
      /\ row.refunded = 0
  BY <1>1, <1>4 DEF PlacedRow
<1>9. row \in RowType
  BY <1>1, <1>2, <1>4, <1>6, PanelStatusesAre DEF PlacedRow, RowType, Statuses, Posts
<1>10. coupon' \in [used : Nat, by : SUBSET Orders]
  BY <1>1, <1>3, <1>5, <1>6 DEF CouponConsumed, SessionType
<1>11. /\ account' \in [Users -> [balance : Nat, reserved : Nat]]
       /\ \A v \in Users \ {u} : account'[v] = account[v]
       /\ account'[u].reserved <= account'[u].balance
  <2>1. CASE account' = [account EXCEPT ![u].balance = @ - Charge[o]]
    <3>1. account[u].balance - Charge[o] \in Nat
      BY <1>6, <1>7
    <3> QED BY <1>5, <1>6, <1>7, <2>1, <3>1
  <2>2. CASE account' = [account EXCEPT ![u].reserved = @ + Charge[o]]
    BY <1>5, <1>6, <1>7, <2>2
  <2>3. CASE account' = account
    BY <1>5, <1>6, <1>7, <2>3
  <2> QED BY <1>2, <2>1, <2>2, <2>3
<1>12. order' = [order EXCEPT ![o] = row] /\ UNCHANGED <<panel, nextId>>
  BY <1>1, <1>2, <1>4 DEF PlaceCommit
<1>13. order'[o] = row
  BY <1>5, <1>6, <1>12
<1>14. panel[o] \in Reports \cup {"canceled", None}
  BY <1>6 DEF Inv, RowSound
<1>15. RowSound(o)'
  <2>1. CASE placed = TRUE
    <3>1. panel[o] # None /\ status = "processing" /\ posts = {"reserve", "capture"}
      BY <1>1, <1>2, <1>3, <1>5, <2>1 DEF SessionSound
    <3>2. /\ row.placed /\ row.status = "processing" /\ "reserve" \in row.posts
          /\ "capture" \in row.posts /\ "release" \notin row.posts
          /\ "release-cancel" \notin row.posts /\ row.posts \cap Refunds = {}
      BY <1>8, <2>1, <3>1 DEF Refunds
    <3> QED BY <1>6, <1>8, <1>12, <1>13, <1>14, <3>1, <3>2 DEF RowSound
  <2>2. CASE placed = FALSE /\ status = "review"
    <3>1. posts = {"reserve"}
      BY <1>2, <2>2
    <3> QED BY <1>6, <1>8, <1>12, <1>13, <1>14, <2>2, <3>1 DEF RowSound, Refunds
  <2>3. CASE placed = FALSE /\ status = "failed"
    <3>1. posts = {"reserve", "release"} /\ (panel[o] # None => "garbled" \in Faults)
      BY <1>1, <1>2, <1>3, <1>5, <2>3 DEF SessionSound
    <3> QED BY <1>6, <1>8, <1>12, <1>13, <1>14, <2>3, <3>1 DEF RowSound, Refunds
  <2> QED BY <1>2, <2>1, <2>2, <2>3
<1>16. status # "none"
  BY <1>2
<1> QED BY <1>1, <1>2, <1>3, <1>4, <1>8, <1>9, <1>10, <1>11, <1>15, <1>16, CommitStep

------------------------------------------------------------------------------
\* A panel's order that moves on leaves true what anybody relies on.
LEMMA PanelMoves ==
    ASSUME Inv, NEW o \in Orders, NEW st \in Reports \cup {"canceled"},
           panel[o] # None, st \in Later[panel[o]],
           panel' = [panel EXCEPT ![o] = st],
           UNCHANGED <<account, order, nextId, coupon, commission, locked>>
    PROVE  /\ panel' \in [Orders -> PanelStatuses \cup {None}]
           /\ Solvent' /\ CommissionOnDelivery'
           /\ \A p \in Orders : RowSound(p)'
           /\ \A p \in Orders : panel'[p] = None <=> panel[p] = None
           /\ \A t \in Sessions : SessionSound(t, sess[t]) =>
                \A r : r = sess[t] => SessionSound(t, r)'
<1>1. /\ panel \in [Orders -> PanelStatuses \cup {None}] /\ panel[o] \in PanelStatuses
      /\ commission \in SUBSET Orders
  BY Types DEF Inv
<1>2. st \in PanelStatuses /\ st # None
  BY OrdersAssumption, PanelStatusesAre, <1>1 DEF OrdersAssumption, Later, Ended
<1>3. /\ panel[o] = "partial" => st = "canceled"
      /\ panel[o] \notin {"completed", "canceled", "failed", "refunded"}
  BY <1>1, PanelStatusesAre DEF Later, Ended
<1>4. panel' \in [Orders -> PanelStatuses \cup {None}] /\ panel'[o] = st
      /\ \A p \in Orders \ {o} : panel'[p] = panel[p]
  BY <1>1, <1>2
<1>5. Solvent' /\ CommissionOnDelivery'
  BY <1>1, <1>3, <1>4 DEF Inv, Solvent, CommissionOnDelivery
<1>6. \A p \in Orders : panel'[p] = None <=> panel[p] = None
  BY <1>2, <1>4
<1>7. ASSUME NEW p \in Orders
      PROVE  RowSound(p)'
  <2>1. RowSound(p)
    BY DEF Inv
  <2>2. order[p].refunded > 0 => panel'[p] \in {"partial", "canceled", "failed"}
    BY <1>3, <1>4, <2>1 DEF RowSound
  <2>3. panel'[p] \in Reports \cup {"canceled", None}
    BY <1>4, <2>1 DEF RowSound
  <2> QED BY <1>6, <2>1, <2>2, <2>3 DEF RowSound
<1>8. ASSUME NEW t \in Sessions, NEW r, r = sess[t], SessionSound(t, r)
      PROVE  SessionSound(t, r)'
  <2>1. \A p \in Orders : StillReported(p, r.report) => StillReported(p, r.report)'
    BY <1>3, <1>4 DEF StillReported
  <2>2. r.o \in Orders /\ panel[r.o] = "canceled" => panel'[r.o] = "canceled"
    BY <1>3, <1>4
  <2>3. Working(r) \/ Placing(r) \/ r.at = "resolving" => r.o \in Orders
    BY <1>8 DEF SessionSound
  <2>4. r.o \in Orders => (panel'[r.o] = None <=> panel[r.o] = None)
    BY <1>6
  <2> QED BY <1>8, <2>1, <2>2, <2>3, <2>4
          DEF SessionSound, Placing, Working, Canceling, Available, Owed
<1> QED BY <1>4, <1>5, <1>6, <1>7, <1>8

\* The panel works on an order by itself.
LEMMA PanelAdvanceStep ==
    ASSUME Inv, NEW o \in Orders, PanelAdvance(o)
    PROVE  Inv'
<1>1. PICK st \in Later[panel[o]] \cap Reports : panel' = [panel EXCEPT ![o] = st]
  BY DEF PanelAdvance
<1>2. panel[o] # None /\ UNCHANGED <<account, order, nextId, coupon, commission, locked, sess>>
  BY DEF PanelAdvance
<1>3. /\ panel' \in [Orders -> PanelStatuses \cup {None}] /\ Solvent' /\ CommissionOnDelivery'
      /\ \A p \in Orders : RowSound(p)'
      /\ \A p \in Orders : panel'[p] = None <=> panel[p] = None
      /\ \A t \in Sessions : SessionSound(t, sess[t]) =>
           \A r : r = sess[t] => SessionSound(t, r)'
  BY <1>1, <1>2, PanelMoves
<1>4. TypeOK'
  BY <1>2, <1>3 DEF Inv, TypeOK
<1>5. IdsFresh'
  BY <1>2, <1>3 DEF Inv, IdsFresh, BeingPlaced, Placing
<1>6. ASSUME NEW t \in Sessions
      PROVE  SessionSound(t, sess[t])'
  <2>1. PICK r : r = sess[t]
    OBVIOUS
  <2>2. SessionSound(t, r)' /\ sess'[t] = r
    BY <1>2, <1>3, <2>1 DEF Inv
  <2> QED BY <2>2
<1> QED BY <1>3, <1>4, <1>5, <1>6 DEF Inv

\* The panel confirms a cancellation, or its confirmation is lost (orders.py:553-582).
LEMMA CancelMoves ==
    ASSUME Inv, NEW s \in Sessions, CancelConfirmed(s) \/ CancelRefused(s)
    PROVE  Inv'
<1>1. PICK o : o = sess[s].o
  OBVIOUS
<1>2. /\ sess[s].at = "canceling" /\ Working(sess[s]) /\ ~Placing(sess[s])
      /\ UNCHANGED <<account, order, nextId, coupon, commission, locked>>
  BY DEF CancelConfirmed, CancelRefused, Working, Canceling, Placing
<1>3. /\ o \in Orders /\ panel[o] # None /\ sess \in [Sessions -> SessionType]
      /\ panel \in [Orders -> PanelStatuses \cup {None}] /\ SessionSound(s, sess[s])
      /\ order[o].placed
  BY <1>1, <1>2, WorkingFacts, PlacedFacts, Types DEF Inv
<1>4. PICK r \in SessionType :
        /\ sess' = [sess EXCEPT ![s] = r]
        /\ \/ r = Idle /\ UNCHANGED panel
           \/ /\ r = Idle \/ r = [sess[s] EXCEPT !.at = "confirmed"]
              /\ panel[o] \notin Ended /\ panel' = [panel EXCEPT ![o] = "canceled"]
  <2>1. Idle \in SessionType /\ [sess[s] EXCEPT !.at = "confirmed"] \in SessionType
    BY <1>3, IdleTyped DEF SessionType, Ats
  <2> QED BY <1>1, <2>1 DEF CancelConfirmed, CancelRefused, RefusalEnds, Finish, Enter
<1>5. CASE r = Idle /\ UNCHANGED panel
  <2>1. Enter(s, Idle)
    BY <1>4, <1>5 DEF Enter
  <2> QED BY <1>2, <1>5, <2>1, IdleTyped, IdleSound, SessionStep DEF Placing
<1>6. CASE panel' = [panel EXCEPT ![o] = "canceled"] /\ panel[o] \notin Ended
           /\ (r = Idle \/ r = [sess[s] EXCEPT !.at = "confirmed"])
  <2>1. "canceled" \in Later[panel[o]]
    BY <1>3, <1>6 DEF Later, Ended, PanelStatuses
  <2>2. /\ panel' \in [Orders -> PanelStatuses \cup {None}] /\ Solvent' /\ CommissionOnDelivery'
        /\ \A p \in Orders : RowSound(p)'
        /\ \A p \in Orders : panel'[p] = None <=> panel[p] = None
        /\ \A t \in Sessions : SessionSound(t, sess[t]) =>
             \A x : x = sess[t] => SessionSound(t, x)'
    BY <1>2, <1>3, <1>6, <2>1, PanelMoves
  <2>3. TypeOK'
    <3>1. sess' \in [Sessions -> SessionType]
      BY <1>3, <1>4
    <3> QED BY <1>2, <2>2, <3>1 DEF Inv, TypeOK, SessionType, Ats, Answers
  <2>4. sess'[s] = r /\ (\A t \in Sessions \ {s} : sess'[t] = sess[t]) /\ ~Placing(r)
    BY <1>3, <1>4, <1>6, IdleTyped DEF Placing, SessionType
  <2>5. IdsFresh'
    <3>1. \A p \in Orders : BeingPlaced(p) => BeingPlaced(p)'
      BY <1>2, <2>4 DEF BeingPlaced, Placing
    <3> QED BY <1>2, <2>2, <2>4, <3>1 DEF Inv, IdsFresh
  <2>6. ASSUME NEW t \in Sessions
        PROVE  SessionSound(t, sess[t])'
    <3>1. CASE t # s
      <4>1. PICK x : x = sess[t]
        OBVIOUS
      <4>2. SessionSound(t, x)' /\ sess'[t] = x
        BY <2>2, <2>4, <3>1, <4>1 DEF Inv
      <4> QED BY <4>2
    <3>2. CASE t = s /\ r = Idle
      BY <2>4, <3>2, IdleTyped DEF SessionSound, Placing, Working, Canceling
    <3>3. CASE t = s /\ r = [sess[s] EXCEPT !.at = "confirmed"]
      <4>1. r.at = "confirmed" /\ r.o = o /\ r.seen = sess[s].seen
        BY <1>1, <1>3, <3>3 DEF SessionType
      <4>2. panel'[o] = "canceled" /\ order'[o].placed
        BY <1>2, <1>3, <1>6
      <4>3. "cancel" \in Operations /\ (sess[s].seen = "pending" => "pending" \in Reports)
        BY <1>2, <1>3 DEF SessionSound, Canceling
      <4>4. SessionSound(s, r)'
        BY <1>3, <4>1, <4>2, <4>3 DEF SessionSound, Placing, Working, Canceling
      <4> QED BY <2>4, <3>3, <4>4
    <3> QED BY <1>6, <3>1, <3>2, <3>3
  <2> QED BY <2>2, <2>3, <2>5, <2>6 DEF Inv
<1> QED BY <1>4, <1>5, <1>6

\* The panel takes a new order, whatever becomes of its answer.
LEMMA PanelAcceptsStep ==
    ASSUME Inv, NEW s \in Sessions, NEW reply, PanelAccepts(s, reply)
    PROVE  Inv'
<1>1. PICK o : o = sess[s].o
  OBVIOUS
<1>2. PICK st \in {"pending", "processing"} \cap Reports : panel' = [panel EXCEPT ![o] = st]
  BY <1>1 DEF PanelAccepts
<1>3. PICK r : r = [sess[s] EXCEPT !.at = "answered", !.report = reply]
  OBVIOUS
<1>4. /\ sess[s].at = "calling" /\ reply \in {"ok", "timeout", "refused"}
      /\ reply = "refused" => "garbled" \in Faults
      /\ sess' = [sess EXCEPT ![s] = r]
      /\ UNCHANGED <<account, order, nextId, coupon, commission, locked>>
  BY <1>3 DEF PanelAccepts, RepliesToAccepted, Enter
<1>5. /\ sess \in [Sessions -> SessionType] /\ sess[s] \in SessionType /\ TypeOK
      /\ panel \in [Orders -> PanelStatuses \cup {None}] /\ SessionSound(s, sess[s])
      /\ commission \in SUBSET Orders
  BY Types DEF Inv
<1>6. o \in Orders /\ panel[o] = None /\ order[o].status = "none" /\ o < nextId
  BY <1>1, <1>4, <1>5 DEF SessionSound, Placing
<1>7. /\ r \in SessionType /\ r.at = "answered" /\ r.o = o /\ r.user = sess[s].user
      /\ r.key = sess[s].key /\ r.report = reply
  BY <1>1, <1>3, <1>4, <1>5 DEF SessionType, Ats, Answers
<1>8. st \in PanelStatuses /\ st # None
  BY OrdersAssumption, PanelStatusesAre DEF OrdersAssumption
<1>9. panel' \in [Orders -> PanelStatuses \cup {None}] /\ panel'[o] = st
      /\ \A p \in Orders \ {o} : panel'[p] = panel[p]
  BY <1>2, <1>5, <1>6, <1>8
<1>10. sess'[s] = r /\ \A t \in Sessions \ {s} : sess'[t] = sess[t]
  BY <1>4, <1>5
<1>11. TypeOK'
  <2>1. sess' \in [Sessions -> SessionType]
    BY <1>4, <1>5, <1>7
  <2> QED BY <1>4, <1>5, <1>9, <2>1 DEF TypeOK, SessionType, Ats, Answers
<1>12. Solvent' /\ CommissionOnDelivery'
  <2>1. None # "completed"
    BY OrdersAssumption, PanelStatusesAre DEF OrdersAssumption
  <2>2. o \notin commission
    BY <1>6, <2>1 DEF Inv, CommissionOnDelivery
  <2> QED BY <1>4, <1>5, <1>9, <2>2 DEF Inv, Solvent, CommissionOnDelivery
<1>13. IdsFresh'
  <2>1. \A t \in Sessions : /\ Placing(sess'[t]) <=> Placing(sess[t])
                            /\ Placing(sess'[t]) => sess'[t].o = sess[t].o
    BY <1>1, <1>4, <1>7, <1>10 DEF Placing
  <2>2. \A p \in Orders : BeingPlaced(p) => BeingPlaced(p)'
    BY <2>1 DEF BeingPlaced, Placing
  <2>3. BeingPlaced(o)'
    BY <1>7, <1>10 DEF BeingPlaced
  <2>4. \A p \in Orders : nextId' <= p => panel'[p] = None
    BY <1>4, <1>6, <1>9, <1>5 DEF Inv, IdsFresh, Orders, TypeOK
  <2>5. \A t, v \in Sessions :
          Placing(sess'[t]) /\ Placing(sess'[v]) /\ sess'[t].o = sess'[v].o => t = v
    BY <2>1 DEF Inv, IdsFresh
  <2>6. \A p \in Orders : panel'[p] # None /\ order'[p].status = "none" /\ "crash" \notin Faults
                            => BeingPlaced(p)'
    BY <1>4, <1>9, <2>2, <2>3 DEF Inv, IdsFresh
  <2> QED BY <2>4, <2>5, <2>6 DEF IdsFresh, Placing
<1>14. ASSUME NEW p \in Orders
       PROVE  RowSound(p)'
  <2>1. CASE p = o
    <3>1. order'[o] = NoOrder /\ panel'[o] \in Reports
      BY <1>2, <1>4, <1>6, <1>9 DEF Inv, RowSound
    <3>2. /\ NoOrder.status = "none" /\ NoOrder.placed = FALSE /\ NoOrder.posts = {}
          /\ NoOrder.refunded = 0
      BY DEF NoOrder
    <3>3. Charge[o] \in Nat
      BY <1>6, OrdersAssumption DEF OrdersAssumption
    <3> QED BY <2>1, <3>1, <3>2, <3>3 DEF RowSound, Refunds
  <2>2. CASE p # o
    <3>1. RowSound(p) /\ panel'[p] = panel[p]
      BY <1>9, <2>2 DEF Inv
    <3> QED BY <1>4, <3>1 DEF RowSound
  <2> QED BY <2>1, <2>2
<1>15. ASSUME NEW t \in Sessions
       PROVE  SessionSound(t, sess[t])'
  <2>1. CASE t = s
    <3>1. /\ r.user \in Users /\ r.key \in Keys /\ locked[r.user] = s
          /\ Available(r.user) >= Charge[r.o]
      BY <1>1, <1>4, <1>5, <1>7 DEF SessionSound, Placing
    <3>2. SessionSound(t, r)'
      BY <1>4, <1>6, <1>7, <1>8, <1>9, <2>1, <3>1
         DEF SessionSound, Placing, Working, Canceling, Available
    <3> QED BY <1>10, <2>1, <3>2
  <2>2. CASE t # s
    <3>1. PICK x : x = sess[t]
      OBVIOUS
    <3>2. sess'[t] = x /\ SessionSound(t, x)
      BY <1>10, <2>2, <3>1 DEF Inv
    <3>3. Placing(x) => x.o # o /\ x.o \in Orders
      BY <1>1, <1>4, <2>2, <3>1, <3>2 DEF Inv, IdsFresh, SessionSound, Placing
    <3>4. Working(x) \/ x.at = "resolving" => x.o \in Orders /\ x.o # o
      BY <1>6, <3>2 DEF SessionSound, Inv, RowSound
    <3>5. Placing(x) \/ Working(x) \/ x.at = "resolving" => panel'[x.o] = panel[x.o]
      BY <1>9, <3>3, <3>4
    <3>6. SessionSound(t, x)'
      BY <1>4, <3>2, <3>5 DEF SessionSound, Placing, Working, Canceling, StillReported,
                              Available, Owed
    <3> QED BY <3>2, <3>6
  <2> QED BY <2>1, <2>2
<1> QED BY <1>11, <1>12, <1>13, <1>14, <1>15 DEF Inv

------------------------------------------------------------------------------
LEMMA SessionTyped ==
    ASSUME NEW at \in Ats, NEW u \in Users \cup {None}, NEW o \in 0..MaxOrders,
           NEW seen \in Statuses
    PROVE  LET r == Session(at, u, o, seen)
           IN  r \in SessionType /\ r.at = at /\ r.user = u /\ r.o = o /\ r.seen = seen
BY IdleTyped DEF Session, SessionType, Idle, Ats, Answers

\* Reads, waits and refusals of every handler.
LEMMA QuietStep ==
    ASSUME Inv, NEW s \in Sessions,
           \/ \E u \in Users, k \in Keys, c \in Coupons : PlaceQuote(s, u, k, c)
           \/ PlaceReplay(s) \/ PlaceRefuse(s)
           \/ \E reply \in {"ok", "timeout", "refused"} : PanelDeclines(s, reply)
           \/ \E o \in Orders : SyncLoad(s, o) \/ CancelLoad(s, o) \/ RefillLoad(s, o)
                                  \/ ResolveLoad(s, o)
           \/ SyncReport(s) \/ SyncUnavailable(s) \/ CancelCount(s)
    PROVE  Inv'
<1>1. /\ sess[s] \in SessionType /\ SessionSound(s, sess[s])
      /\ panel \in [Orders -> PanelStatuses \cup {None}] /\ order \in [Orders -> RowType]
      /\ MaxOrders \in Nat /\ Coupons \subseteq BOOLEAN
  BY Types, OrdersAssumption DEF Inv, OrdersAssumption
<1>2. ASSUME Finish(s), ~Placing(sess[s]),
             UNCHANGED <<account, order, nextId, coupon, commission, panel, locked>>
      PROVE  Inv'
  <2>1. Enter(s, Idle)
    BY <1>2 DEF Finish, Enter
  <2> QED BY <1>2, <2>1, IdleTyped, IdleSound, SessionStep DEF Placing
<1>3. ASSUME NEW u \in Users, NEW k \in Keys, NEW c \in Coupons, PlaceQuote(s, u, k, c)
      PROVE  Inv'
  <2>1. PICK r : r = [Session("quoted", u, 0, "none") EXCEPT !.key = k, !.coupon = c]
    OBVIOUS
  <2>2. /\ r \in SessionType /\ r.at = "quoted" /\ r.user = u /\ r.key = k
    BY <1>1, <2>1, IdleTyped DEF Session, Idle, SessionType, Ats, Answers, Statuses
  <2>3. SessionSound(s, r) /\ ~Placing(r)
    BY <2>2 DEF SessionSound, Placing, Working, Canceling
  <2> QED BY <1>3, <2>1, <2>2, <2>3, SessionStep DEF PlaceQuote, Placing
<1>4. ASSUME NEW reply \in {"ok", "timeout", "refused"}, PanelDeclines(s, reply)
      PROVE  Inv'
  <2>1. PICK r : r = [sess[s] EXCEPT !.at = "answered", !.report = reply]
    OBVIOUS
  <2>2. sess[s].at = "calling" /\ reply \in {"timeout", "refused"}
    BY <1>4 DEF PanelDeclines, RepliesToDeclined
  <2>3. /\ r \in SessionType /\ r.at = "answered" /\ r.user = sess[s].user /\ r.o = sess[s].o
        /\ r.key = sess[s].key /\ r.report = reply
    BY <1>1, <2>1, <2>2 DEF SessionType, Ats, Answers
  <2>4. SessionSound(s, r)
    BY <1>1, <2>2, <2>3 DEF SessionSound, Placing, Working, Canceling
  <2> QED BY <1>4, <2>1, <2>2, <2>3, <2>4, SessionStep DEF PanelDeclines, Placing
<1>5. ASSUME NEW o \in Orders, NEW at \in {"syncing", "canceling", "refilling"},
             NEW seen, seen = order[o].status,
             Enter(s, Session(at, order[o].owner, o, seen)), sess[s].at = "idle",
             order[o].placed, at = "canceling" => "cancel" \in Operations,
             UNCHANGED <<account, order, nextId, coupon, commission, panel, locked>>
      PROVE  Inv'
  <2> PICK u : u = order[o].owner
    OBVIOUS
  <2>1. PICK r : r = Session(at, u, o, seen)
    OBVIOUS
  <2>2. /\ r \in SessionType /\ r.at = at /\ r.o = o /\ r.seen = seen
    <3>1. /\ at \in Ats /\ u \in Users \cup {None} /\ o \in 0..MaxOrders
          /\ seen \in Statuses
      BY <1>1, <1>5 DEF Ats, RowType, Orders
    <3> DEFINE q == Session(at, u, o, seen)
    <3>2. q \in SessionType /\ q.at = at /\ q.user = u /\ q.o = o /\ q.seen = seen
      BY <3>1, SessionTyped
    <3> QED BY <2>1, <3>2
  <2>3. SessionSound(s, r) /\ ~Placing(r)
    BY <1>5, <2>2 DEF SessionSound, Placing, Working, Canceling, Inv, RowSound
  <2> QED BY <1>5, <2>1, <2>2, <2>3, SessionStep DEF Placing
<1>6. ASSUME NEW o \in Orders, SyncLoad(s, o) \/ CancelLoad(s, o) \/ RefillLoad(s, o)
      PROVE  Inv'
  <2>1. order[o].placed
    <3>1. CASE CancelLoad(s, o)
      <4>1. order[o].status \notin {"none", "review", "failed"}
        BY <3>1 DEF CancelLoad, CANCELABLE_STATUSES
      <4> QED BY <4>1 DEF Inv, RowSound
    <3> QED BY <1>6, <3>1 DEF SyncLoad, Syncable, RefillLoad
  <2> QED BY <1>5, <1>6, <2>1 DEF SyncLoad, CancelLoad, RefillLoad
<1>7. ASSUME NEW o \in Orders, ResolveLoad(s, o)
      PROVE  Inv'
  <2>1. PICK r : r = [Session("resolving", order[o].owner, o, "review") EXCEPT
                        !.report = IF panel[o] = None THEN "release" ELSE "attach"]
    OBVIOUS
  <2>2. /\ r \in SessionType /\ r.at = "resolving" /\ r.o = o
        /\ r.report = IF panel[o] = None THEN "release" ELSE "attach"
    <3>1. /\ "resolving" \in Ats /\ order[o].owner \in Users \cup {None} /\ o \in 0..MaxOrders
          /\ "review" \in Statuses
      BY <1>1 DEF Ats, RowType, Orders, Statuses
    <3>2. PICK q : q = Session("resolving", order[o].owner, o, "review")
      OBVIOUS
    <3>3. q \in SessionType /\ q.at = "resolving" /\ q.o = o
      BY <3>1, <3>2, SessionTyped
    <3> QED BY <2>1, <3>2, <3>3 DEF SessionType, Answers
  <2>3. SessionSound(s, r) /\ ~Placing(r)
    BY <1>7, <2>2 DEF ResolveLoad, SessionSound, Placing, Working, Canceling
  <2> QED BY <1>7, <2>1, <2>2, <2>3, SessionStep DEF ResolveLoad, Placing
<1>8. CASE SyncReport(s)
  <2>1. Working(sess[s]) /\ ~Placing(sess[s])
    BY <1>8 DEF SyncReport, Working, Placing
  <2>2. PICK o : o = sess[s].o
    OBVIOUS
  <2>3. o \in Orders /\ panel[o] \in PanelStatuses /\ panel[o] \in Reports \cup {"canceled"}
        /\ order[o].placed
    BY <1>1, <2>1, <2>2, WorkingFacts, PlacedFacts
  <2>4. CASE panel[o] = sess[s].seen
    BY <1>2, <1>8, <2>1, <2>2, <2>4 DEF SyncReport
  <2>5. CASE panel[o] # sess[s].seen
    <3>1. PICK r : r = [sess[s] EXCEPT !.at = "reported", !.report = panel[o]]
      OBVIOUS
    <3>2. r \in SessionType /\ r.at = "reported" /\ r.o = o /\ r.report = panel[o]
      BY <1>1, <2>2, <2>3, <3>1 DEF SessionType, Ats, Answers
    <3>3. SessionSound(s, r) /\ ~Placing(r)
      BY <2>3, <3>2 DEF SessionSound, Placing, Working, Canceling, StillReported
    <3> QED BY <1>8, <2>1, <2>2, <2>5, <3>1, <3>2, <3>3, SessionStep DEF SyncReport
  <2> QED BY <2>4, <2>5
<1>9. CASE CancelCount(s)
  <2>1. Working(sess[s]) /\ Canceling(sess[s]) /\ ~Placing(sess[s]) /\ sess[s].at = "confirmed"
    BY <1>9 DEF CancelCount, Working, Canceling, Placing
  <2>2. PICK o : o = sess[s].o
    OBVIOUS
  <2>3. /\ o \in Orders /\ order[o].placed /\ Owed(o) \in Nat
        /\ panel[o] = "canceled" /\ "cancel" \in Operations
        /\ sess[s].seen = "pending" => "pending" \in Reports
    BY <1>1, <2>1, <2>2, WorkingFacts DEF SessionSound
  <2>4. PICK r : r = [sess[s] EXCEPT !.at = "counted", !.owed = Owed(o)]
    OBVIOUS
  <2>5. /\ r \in SessionType /\ r.at = "counted" /\ r.o = o /\ r.owed = Owed(o)
        /\ r.seen = sess[s].seen
    BY <1>1, <2>2, <2>3, <2>4 DEF SessionType, Ats
  <2>6. SessionSound(s, r) /\ ~Placing(r)
    BY <2>3, <2>5 DEF SessionSound, Placing, Working, Canceling
  <2> QED BY <1>9, <2>1, <2>2, <2>4, <2>5, <2>6, SessionStep DEF CancelCount
<1>10. CASE PlaceReplay(s) \/ PlaceRefuse(s) \/ SyncUnavailable(s)
  BY <1>2, <1>10 DEF PlaceReplay, PlaceRefuse, SyncUnavailable, Placing
<1> QED BY <1>3, <1>4, <1>6, <1>7, <1>8, <1>9, <1>10

\* The transaction rolls back; its locks are gone, the panel's order is not.
LEMMA CrashStep ==
    ASSUME Inv, NEW s \in Sessions, Crash(s)
    PROVE  Inv'
<1>1. /\ "crash" \in Faults /\ sess' = [sess EXCEPT ![s] = Idle]
      /\ locked' = [u \in Users |-> IF locked[u] = s THEN None ELSE locked[u]]
      /\ UNCHANGED <<account, order, nextId, coupon, commission, panel>>
  BY DEF Crash, Finish
<1>2. /\ sess \in [Sessions -> SessionType] /\ TypeOK
      /\ locked \in [Users -> Sessions \cup {None}]
  BY Types DEF Inv
<1>3. TypeOK'
  <2>1. sess' \in [Sessions -> SessionType] /\ locked' \in [Users -> Sessions \cup {None}]
    BY <1>1, <1>2, IdleTyped
  <2> QED BY <1>1, <1>2, <2>1 DEF TypeOK, SessionType, Ats, Answers
<1>4. sess'[s] = Idle /\ ~Placing(Idle) /\ \A t \in Sessions \ {s} : sess'[t] = sess[t]
  BY <1>1, <1>2, IdleTyped DEF Placing
<1>5. Solvent' /\ CommissionOnDelivery' /\ IdsFresh'
  BY <1>1, <1>4 DEF Inv, Solvent, CommissionOnDelivery, IdsFresh
<1>6. ASSUME NEW o \in Orders
      PROVE  RowSound(o)'
  BY <1>1 DEF Inv, RowSound
<1>7. ASSUME NEW t \in Sessions
      PROVE  SessionSound(t, sess[t])'
  <2>1. CASE t = s
    BY <1>4, <2>1, IdleTyped DEF SessionSound, Placing, Working, Canceling
  <2>2. CASE t # s
    <3>1. PICK r : r = sess[t]
      OBVIOUS
    <3>2. sess'[t] = r /\ SessionSound(t, r)
      BY <1>4, <2>2, <3>1 DEF Inv
    <3>3. Placing(r) => locked'[r.user] = t
      BY <1>1, <1>2, <2>2, <3>2 DEF SessionSound
    <3>4. SessionSound(t, r)'
      BY <1>1, <3>2, <3>3 DEF SessionSound, Placing, Working, Canceling, StillReported,
                              Available, Owed
    <3> QED BY <3>2, <3>4
  <2> QED BY <2>1, <2>2
<1> QED BY <1>3, <1>5, <1>6, <1>7 DEF Inv

LEMMA StutterStep == Inv /\ UNCHANGED vars => Inv'
<1> SUFFICES ASSUME Inv, UNCHANGED vars
             PROVE  Inv'
  OBVIOUS
<1>1. TypeOK' /\ Solvent' /\ IdsFresh' /\ CommissionOnDelivery'
  BY DEF vars, Inv, TypeOK, Solvent, IdsFresh, CommissionOnDelivery, BeingPlaced, Placing
<1>2. \A o \in Orders : RowSound(o)'
  BY DEF vars, Inv, RowSound
<1>3. \A t \in Sessions : SessionSound(t, sess[t])'
  BY DEF vars, Inv, SessionSound, Placing, Working, Canceling, StillReported, Available, Owed
<1> QED BY <1>1, <1>2, <1>3 DEF Inv

LEMMA StepKeepsInv == Inv /\ [Next]_vars => Inv'
<1> SUFFICES ASSUME Inv, [Next]_vars
             PROVE  Inv'
  OBVIOUS
<1>1. ASSUME NEW s \in Sessions, Place(s)
      PROVE  Inv'
  BY <1>1, QuietStep, ReserveStep, PanelAcceptsStep, PlaceEnds DEF Place
<1>2. ASSUME NEW s \in Sessions, Sync(s)
      PROVE  Inv'
  BY <1>2, QuietStep, SyncApplyStep DEF Sync
<1>3. ASSUME NEW s \in Sessions, Cancel(s)
      PROVE  Inv'
  BY <1>3, QuietStep, CancelMoves, CancelCreditStep, CancelReleaseStep DEF Cancel
<1>4. ASSUME NEW s \in Sessions, Refill(s)
      PROVE  Inv'
  BY <1>4, QuietStep, RefillStep DEF Refill
<1>5. ASSUME NEW s \in Sessions, Resolve(s)
      PROVE  Inv'
  BY <1>5, QuietStep, ResolveReleaseStep, ResolveAttachStep DEF Resolve
<1> QED BY <1>1, <1>2, <1>3, <1>4, <1>5, PanelAdvanceStep, CrashStep, StutterStep DEF Next

------------------------------------------------------------------------------
THEOREM Invariance == Spec => []Inv
BY InitInv, StepKeepsInv, PTL DEF Spec

\* The types hold; in particular no balance and no reservation is ever negative,
\* whichever statuses the panel reports and however sessions interleave
\* (wallet.py:282-346, orders.py:221-700).
THEOREM TypeCorrect == Spec => []TypeOK
<1>1. Inv => TypeOK
  BY DEF Inv
<1> QED BY <1>1, Invariance, PTL

\* A commission is earned by delivery only (orders.py:462-468, referrals.py:183-224).
THEOREM CommissionEarned == Spec => []CommissionOnDelivery
<1>1. Inv => CommissionOnDelivery
  BY DEF Inv
<1> QED BY <1>1, Invariance, PTL

\* What the panel delivered in full is never refunded, however stale the statuses
\* are that sessions apply (perfectpanel.py:189-208, orders.py:435-476).
THEOREM DeliveredKept == Spec => []DeliveredNotRefunded
<1>1. Inv => DeliveredNotRefunded
  BY Types DEF Inv, RowSound, DeliveredNotRefunded, RowType
<1> QED BY <1>1, Invariance, PTL

\* As long as no answer is garbled and no process dies between the panel's
\* acceptance and COMMIT, whatever the panel accepted is charged or held for
\* review (orders.py:356-374).
THEOREM NothingForFree ==
    ASSUME "garbled" \notin Faults, "crash" \notin Faults
    PROVE  Spec => []NoFreeDelivery
<1>1. Inv => NoFreeDelivery
  <2> SUFFICES ASSUME Inv, NEW o \in Orders, panel[o] # None, ~BeingPlaced(o)
               PROVE  Captured(o) \/ (Held(o) /\ order[o].status = "review")
    BY DEF NoFreeDelivery
  <2>1. order[o].status # "none" /\ RowSound(o) /\ order[o] \in RowType
    BY Types DEF Inv, IdsFresh
  <2>2. CASE order[o].placed
    BY <2>1, <2>2 DEF RowSound, Captured
  <2>3. CASE ~order[o].placed
    <3>1. order[o].status = "review"
      BY <2>1, <2>3 DEF RowSound
    <3>2. order[o].posts \subseteq {"reserve", "release"} /\ "reserve" \in order[o].posts
          /\ "release" \notin order[o].posts
      BY <2>1, <2>3, <3>1 DEF RowSound
    <3> QED BY <3>1, <3>2 DEF Held
  <2> QED BY <2>2, <2>3
<1> QED BY <1>1, Invariance, PTL

\* Refunds never exceed the charge when no cancellation races another session
\* (orders.py:206, 489, 521, 601).
THEOREM RefundsCapped ==
    ASSUME NoRace
    PROVE  Spec => []RefundCap
<1>1. Inv => RefundCap
  BY Types, OrdersAssumption DEF Inv, RowSound, RefundCap, Captured, RowType, OrdersAssumption
<1> QED BY <1>1, Invariance, PTL

\* An order that ends without delivery costs nothing, when no cancellation races
\* another session or meets the status "pending", and the panel does not report
\* "refunded" (orders.py:459-461, 583-614).
THEOREM PaidBack ==
    ASSUME Tidy
    PROVE  Spec => []UndeliveredPaidBack
<1>1. Inv => UndeliveredPaidBack
  <2> SUFFICES ASSUME Inv, NEW o \in Orders, Captured(o),
                      order[o].status \in {"canceled", "failed", "refunded"}
               PROVE  order[o].refunded = Charge[o]
    BY DEF UndeliveredPaidBack
  <2>1. RowSound(o) /\ order[o] \in RowType
    BY Types DEF Inv
  <2>2. order[o].placed
    BY <2>1 DEF RowSound, Captured
  <2> QED BY <2>1, <2>2 DEF RowSound
<1> QED BY <1>1, Invariance, PTL

------------------------------------------------------------------------------
\* What is reserved, to the paisa.

Review(u) == {o \in Orders : order[o].owner = u /\ order[o].status = "review"}
Backed == \A u \in Users : account[u].reserved = SumFunctionOnSet(Charge, Review(u))

LEMMA OrdersAreFinite ==
    /\ IsFiniteSet(Orders) /\ Charge \in [Orders -> Nat]
    /\ \A u : Review(u) \in SUBSET Orders /\ IsFiniteSet(Review(u))
<1>1. IsFiniteSet(Orders)
  BY OrdersAssumption, FS_Interval DEF Orders, OrdersAssumption
<1>2. \A u : Review(u) \in SUBSET Orders
  BY DEF Review
<1> QED BY <1>1, <1>2, FS_Subset, OrdersAssumption DEF OrdersAssumption

\* A row that is not under review before nor after leaves the reservations alone.
LEMMA NotReviewed ==
    ASSUME Inv, Backed, NEW o \in Orders, NEW row,
           order' = [order EXCEPT ![o] = row],
           order[o].status # "review", row.status # "review",
           \A u \in Users : account'[u].reserved = account[u].reserved
    PROVE  Backed'
<1>1. order \in [Orders -> RowType]
  BY Types DEF Inv
<1>2. ASSUME NEW u \in Users
      PROVE  Review(u)' = Review(u)
  BY <1>1 DEF Review
<1> QED BY <1>2 DEF Backed

\* An order comes under review: its charge is added.
LEMMA ComesUnderReview ==
    ASSUME Inv, Backed, NEW o \in Orders, NEW row, NEW u \in Users,
           order' = [order EXCEPT ![o] = row],
           order[o].status # "review", row.status = "review", row.owner = u,
           account' = [account EXCEPT ![u].reserved = @ + Charge[o]]
    PROVE  Backed'
<1>1. /\ order \in [Orders -> RowType]
      /\ account \in [Users -> [balance : Nat, reserved : Nat]]
  BY Types DEF Inv
<1>2. ASSUME NEW v \in Users
      PROVE  account'[v].reserved = SumFunctionOnSet(Charge, Review(v))'
  <2>1. CASE v = u
    <3>1. Review(v)' = Review(v) \cup {o} /\ o \notin Review(v)
      BY <1>1, <2>1 DEF Review
    <3>2. SumFunctionOnSet(Charge, Review(v) \cup {o})
            = Charge[o] + SumFunctionOnSet(Charge, Review(v))
      BY <3>1, OrdersAreFinite, SumWith
    <3>3. account'[v].reserved = account[v].reserved + Charge[o]
      BY <1>1, <2>1
    <3>4. account[v].reserved \in Nat /\ Charge[o] \in Nat
      BY <1>1, OrdersAreFinite
    <3> QED BY <3>1, <3>2, <3>3, <3>4 DEF Backed
  <2>2. CASE v # u
    BY <1>1, <2>2 DEF Review, Backed
  <2> QED BY <2>1, <2>2
<1> QED BY <1>2 DEF Backed

\* A reservation covers each order under review.
LEMMA ReservationCovers ==
    ASSUME Inv, Backed, NEW o \in Orders, order[o].status = "review"
    PROVE  /\ order[o].owner \in Users
           /\ Charge[o] \in Nat /\ Charge[o] <= account[order[o].owner].reserved
<1>1. order[o].owner \in Users
  BY DEF Inv, RowSound
<1>2. o \in Review(order[o].owner)
  BY DEF Review
<1> QED BY <1>1, <1>2, OrdersAreFinite, SumAtLeast DEF Backed

\* A review ends: its charge is taken off.
LEMMA ReviewEnds ==
    ASSUME Inv, Backed, NEW o \in Orders, NEW row, NEW u, u = order[o].owner,
           order' = [order EXCEPT ![o] = row],
           order[o].status = "review", row.status # "review",
           \A v \in Users \ {u} : account'[v].reserved = account[v].reserved,
           account'[u].reserved = account[u].reserved - Charge[o]
    PROVE  Backed'
<1>1. /\ order \in [Orders -> RowType] /\ u \in Users /\ Charge[o] \in Nat
      /\ account[u].reserved \in Nat
  BY Types, ReservationCovers DEF Inv
<1>2. ASSUME NEW v \in Users
      PROVE  account'[v].reserved = SumFunctionOnSet(Charge, Review(v))'
  <2>1. CASE v = u
    <3>1. Review(v)' = Review(v) \ {o} /\ o \in Review(v)
      BY <1>1, <2>1 DEF Review
    <3>2. SumFunctionOnSet(Charge, Review(v))
            = Charge[o] + SumFunctionOnSet(Charge, Review(v) \ {o})
      BY <3>1, OrdersAreFinite, SumWithout
    <3>3. SumFunctionOnSet(Charge, Review(v) \ {o}) \in Nat
      <4>1. Review(v) \ {o} \in SUBSET Orders /\ IsFiniteSet(Review(v) \ {o})
        BY OrdersAreFinite, FS_RemoveElement
      <4> QED BY <4>1, OrdersAreFinite, SumType
    <3> QED BY <1>1, <2>1, <3>1, <3>2, <3>3 DEF Backed
  <2>2. CASE v # u
    BY <1>1, <2>2 DEF Review, Backed
  <2> QED BY <2>1, <2>2
<1> QED BY <1>2 DEF Backed

------------------------------------------------------------------------------
\* Every step as the customer's money sees it.

\* Where the charge of a row is: in Stage's words, by the row's columns.
Phase(row) == CASE row.status = "none" -> "none"
                [] row.status # "none" /\ row.placed -> "taken"
                [] row.status = "review" /\ ~row.placed -> "held"
                [] OTHER -> "returned"

\* The row is rewritten; n > 0 is credited for it.
Rewritten(o, row, n) ==
    /\ order' = [order EXCEPT ![o] = row]
    /\ row.owner = order[o].owner /\ row.refunded = order[o].refunded + n
    /\ Phase(row) = Phase(order[o]) /\ Phase(row) \in {"taken", "returned"}
    /\ \/ n = 0 /\ UNCHANGED account
       \/ /\ n > 0 /\ Phase(row) = "taken"
          /\ account' = [account EXCEPT ![order[o].owner].balance = @ + n]

\* The row reaches another phase: so much is taken from the account or held in it.
Moved(o, u, row, from, to, taken, held) ==
    /\ order' = [order EXCEPT ![o] = row]
    /\ row.owner = u /\ row.refunded = 0 /\ order[o].refunded = 0
    /\ Phase(order[o]) = from /\ Phase(row) = to
    /\ account[u].balance - account[u].reserved >= taken + held
    /\ account' = [account EXCEPT ![u] = [balance |-> @.balance - taken,
                                          reserved |-> @.reserved + held]]

Bought(o, u, row) ==
    \/ Moved(o, u, row, "none", "held", 0, Charge[o])
    \/ Moved(o, u, row, "none", "taken", Charge[o], 0)
    \/ Moved(o, u, row, "none", "returned", 0, 0)

Settled(o, u, row) ==
    /\ order[o].owner = u
    /\ \/ Moved(o, u, row, "held", "taken", Charge[o], -Charge[o])
       \/ Moved(o, u, row, "held", "returned", 0, -Charge[o])

MoneyMoves ==
    \/ UNCHANGED <<account, order>>
    \/ \E o \in Orders, row \in RowType :
         \/ \E n \in Nat : Rewritten(o, row, n)
         \/ \E u \in Users : Bought(o, u, row) \/ Settled(o, u, row)

\* A credit rewrites the row of a placed order.
LEMMA CreditMoves ==
    ASSUME Inv, NEW o \in Orders, order[o].placed, NEW n \in Int, NEW post \in Posts,
           NEW status \in Statuses \ {"none", "review"},
           account' = AccountCredited(o, post, n),
           order' = [order EXCEPT ![o] = Credited(o, post, n, status)]
    PROVE  MoneyMoves
<1>1. PICK row : row = Credited(o, post, n, status)
  OBVIOUS
<1>2. /\ row \in RowType /\ row.status = status /\ row.owner = order[o].owner /\ row.placed
      /\ row.refunded = IF Credits(o, post, n) THEN order[o].refunded + n
                        ELSE order[o].refunded
  <2>1. IsCredited(row, o, post, n, status)
    <3>1. status \in Statuses
      OBVIOUS
    <3> QED BY <1>1, <3>1, CreditedRow, Zenon
  <2> QED BY <2>1, Zenon DEF IsCredited
<1>3. /\ Phase(row) = "taken" /\ Phase(order[o]) = "taken" /\ order[o].refunded \in Nat
      /\ order' = [order EXCEPT ![o] = row]
  BY <1>1, <1>2, PlacedFacts DEF Phase, RowType
<1>4. CASE Credits(o, post, n)
  <2>1. account' = [account EXCEPT ![order[o].owner].balance = @ + n] /\ n > 0 /\ n \in Nat
    BY <1>4 DEF AccountCredited, Credits
  <2>2. row.refunded = order[o].refunded + n
    BY <1>2, <1>4
  <2>3. Rewritten(o, row, n)
    BY <1>2, <1>3, <2>1, <2>2, Zenon DEF Rewritten
  <2> QED BY <1>2, <2>1, <2>3 DEF MoneyMoves
<1>5. CASE ~Credits(o, post, n)
  <2>1. UNCHANGED account
    BY <1>5 DEF AccountCredited
  <2>2. row.refunded = order[o].refunded + 0
    BY <1>2, <1>3, <1>5
  <2>3. Rewritten(o, row, 0)
    BY <1>2, <1>3, <2>1, <2>2, Zenon DEF Rewritten
  <2> QED BY <1>2, <2>3 DEF MoneyMoves
<1> QED BY <1>4, <1>5

\* A status alone rewrites the row of a placed order.
LEMMA StatusMoves ==
    ASSUME Inv, NEW o \in Orders, order[o].placed, NEW status \in Statuses \ {"none", "review"},
           order' = [order EXCEPT ![o].status = status], UNCHANGED account
    PROVE  MoneyMoves
<1>1. PICK row : row = [order[o] EXCEPT !.status = status]
  OBVIOUS
<1>2. order[o] \in RowType /\ order[o].refunded \in Nat
  BY PlacedFacts DEF RowType
<1>3. /\ row \in RowType /\ row.status = status /\ row.owner = order[o].owner /\ row.placed
      /\ row.refunded = order[o].refunded /\ order' = [order EXCEPT ![o] = row]
  BY <1>1, <1>2, Types DEF RowType, Inv
<1>4. Phase(row) = "taken" /\ Phase(order[o]) = "taken"
  BY <1>3, PlacedFacts DEF Phase
<1>5. Rewritten(o, row, 0)
  <2>1. row.refunded = order[o].refunded + 0
    BY <1>2, <1>3
  <2> QED BY <1>3, <1>4, <2>1, Zenon DEF Rewritten
<1> QED BY <1>3, <1>5 DEF MoneyMoves

\* An account after an update of one of its columns, or of none.
LEMMA AccountColumns ==
    ASSUME NEW a \in [balance : Nat, reserved : Nat], NEW c \in Nat
    PROVE  /\ [a EXCEPT !.balance = @ - c] = [balance |-> a.balance - c, reserved |-> a.reserved + 0]
           /\ [a EXCEPT !.reserved = @ + c] = [balance |-> a.balance - 0, reserved |-> a.reserved + c]
           /\ a = [balance |-> a.balance - 0, reserved |-> a.reserved + 0]
OBVIOUS

\* place_order commits: held, taken at once, or declined.
LEMMA PlaceMoves ==
    ASSUME Inv, NEW s \in Sessions, PlaceAccepted(s) \/ PlaceReview(s) \/ PlaceFailed(s)
    PROVE  MoneyMoves
<1>1. PICK o, u : o = sess[s].o /\ u = sess[s].user
  OBVIOUS
<1>2. PICK status, posts, placed :
        /\ PlaceCommit(s, PlacedRow(s, status, posts, placed))
        /\ \/ /\ status = "processing" /\ posts = {"reserve", "capture"} /\ placed = TRUE
              /\ account' = [account EXCEPT ![u].balance = @ - Charge[o]]
           \/ /\ status = "review" /\ posts = {"reserve"} /\ placed = FALSE
              /\ account' = [account EXCEPT ![u].reserved = @ + Charge[o]]
           \/ /\ status = "failed" /\ posts = {"reserve", "release"} /\ placed = FALSE
              /\ account' = account
  BY <1>1 DEF PlaceAccepted, PlaceReview, PlaceFailed
<1>3. sess[s].at = "answered"
  BY DEF PlaceAccepted, PlaceReview, PlaceFailed
<1>4. PICK row : row = PlacedRow(s, status, posts, placed)
  OBVIOUS
<1>5. /\ SessionSound(s, sess[s]) /\ Placing(sess[s])
      /\ account \in [Users -> [balance : Nat, reserved : Nat]]
  BY <1>3, Types DEF Inv, Placing
<1>6. /\ u \in Users /\ o \in Orders /\ sess[s].key \in Keys
      /\ Available(u) >= Charge[o] /\ Charge[o] \in Nat \ {0} /\ order[o].status = "none"
  BY <1>1, <1>5, OrdersAssumption DEF SessionSound, OrdersAssumption
<1>7. /\ account[u] \in [balance : Nat, reserved : Nat]
      /\ account[u].balance - account[u].reserved >= Charge[o]
  BY <1>5, <1>6 DEF Available
<1>8. /\ row.placed = placed /\ row.status = status /\ row.owner = u /\ row.refunded = 0
      /\ order' = [order EXCEPT ![o] = row]
  BY <1>1, <1>2, <1>4 DEF PlacedRow, PlaceCommit
<1>9. row \in RowType
  BY <1>1, <1>2, <1>4, <1>6, PanelStatusesAre DEF PlacedRow, RowType, Statuses, Posts
<1>10. order[o].refunded = 0 /\ Phase(order[o]) = "none"
  BY <1>6 DEF Inv, RowSound, NoOrder, Phase
<1>11. CASE account' = [account EXCEPT ![u].balance = @ - Charge[o]] /\ placed = TRUE
  <2>1. Moved(o, u, row, "none", "taken", Charge[o], 0)
    <3>1. Phase(row) = "taken"
      BY <1>2, <1>8, <1>11 DEF Phase
    <3>2. account' = [account EXCEPT ![u] = [balance |-> @.balance - Charge[o],
                                             reserved |-> @.reserved + 0]]
      BY <1>6, <1>7, <1>11, AccountColumns, Zenon
    <3> QED BY <1>6, <1>7, <1>8, <1>10, <3>1, <3>2 DEF Moved
  <2> QED BY <1>6, <1>9, <2>1 DEF Bought, MoneyMoves
<1>12. CASE account' = [account EXCEPT ![u].reserved = @ + Charge[o]] /\ status = "review"
            /\ placed = FALSE
  <2>1. Moved(o, u, row, "none", "held", 0, Charge[o])
    <3>1. Phase(row) = "held"
      BY <1>8, <1>12 DEF Phase
    <3>2. account' = [account EXCEPT ![u] = [balance |-> @.balance - 0,
                                             reserved |-> @.reserved + Charge[o]]]
      BY <1>6, <1>7, <1>12, AccountColumns, Zenon
    <3> QED BY <1>6, <1>7, <1>8, <1>10, <3>1, <3>2 DEF Moved
  <2> QED BY <1>6, <1>9, <2>1 DEF Bought, MoneyMoves
<1>13. CASE account' = account /\ status = "failed" /\ placed = FALSE
  <2>1. Moved(o, u, row, "none", "returned", 0, 0)
    <3>1. Phase(row) = "returned"
      BY <1>8, <1>13 DEF Phase
    <3>2. account' = [account EXCEPT ![u] = [balance |-> @.balance - 0,
                                             reserved |-> @.reserved + 0]]
      BY <1>5, <1>6, <1>7, <1>13
    <3> QED BY <1>6, <1>7, <1>8, <1>10, <3>1, <3>2 DEF Moved
  <2> QED BY <1>6, <1>9, <2>1 DEF Bought, MoneyMoves
<1> QED BY <1>2, <1>11, <1>12, <1>13

\* What an order under review holds, and what settling it does to the account.
LEMMA ReviewFacts ==
    ASSUME Inv, NEW o \in Orders, order[o].status = "review"
    PROVE  /\ order[o].posts = {"reserve"} /\ ~order[o].placed /\ order[o].refunded = 0
           /\ order[o].owner \in Users /\ Phase(order[o]) = "held"
<1>1. order[o].owner \in Users /\ "reserve" \in order[o].posts /\ ~order[o].placed
  BY DEF Inv, RowSound
<1>2. /\ order[o].posts \subseteq {"reserve", "release"} /\ "release" \notin order[o].posts
      /\ order[o].refunded = 0
  BY <1>1 DEF Inv, RowSound
<1> QED BY <1>1, <1>2 DEF Phase

LEMMA AccountSettled ==
    ASSUME NEW a \in [balance : Nat, reserved : Nat], NEW c \in Nat, c <= a.reserved,
           a.reserved <= a.balance
    PROVE  /\ [a EXCEPT !.reserved = @ - Minimum(@, c)]
                = [balance |-> a.balance - 0, reserved |-> a.reserved + (-c)]
           /\ [balance |-> a.balance - c, reserved |-> a.reserved - c]
                = [balance |-> a.balance - c, reserved |-> a.reserved + (-c)]
           /\ a.balance - a.reserved >= c + (-c) /\ a.balance - a.reserved >= 0 + (-c)
<1>1. Minimum(a.reserved, c) = c
  BY DEF Minimum
<1>2. [a EXCEPT !.reserved = a.reserved - c]
        = [balance |-> a.balance - 0, reserved |-> a.reserved + (-c)]
  OBVIOUS
<1>3. a.balance - a.reserved >= c + (-c) /\ a.balance - a.reserved >= 0 + (-c)
  OBVIOUS
<1> QED BY <1>1, <1>2, <1>3

\* resolve_review_order --release: a held charge is returned.
LEMMA ReleaseMoves ==
    ASSUME Inv, Backed, NEW s \in Sessions, ResolveRelease(s)
    PROVE  MoneyMoves
<1>1. PICK o : o = sess[s].o
  OBVIOUS
<1>2. sess[s].at = "resolving" /\ sess[s].report = "release"
  BY DEF ResolveRelease
<1>3. /\ o \in Orders /\ order[o] \in RowType /\ RowSound(o) /\ order[o].owner \in Users
      /\ ~order[o].placed /\ order[o].status \in {"review", "failed"}
      /\ Charge[o] \in Nat \ {0}
  BY <1>1, <1>2, ResolvingFacts
<1>4. PICK row : row = [order[o] EXCEPT !.status = "failed", !.posts = @ \cup {"release"}]
  OBVIOUS
<1>5. /\ account' = AccountReleased(o, "release")
      /\ order' = [order EXCEPT ![o].status = "failed", ![o].posts = @ \cup {"release"}]
  BY <1>1 DEF ResolveRelease
<1>6. /\ row \in RowType /\ row.owner = order[o].owner /\ row.refunded = order[o].refunded
      /\ Phase(row) = "returned" /\ order' = [order EXCEPT ![o] = row]
  <2>1. /\ row \in RowType /\ row.status = "failed" /\ row.owner = order[o].owner
        /\ row.placed = FALSE /\ row.refunded = order[o].refunded
        /\ order' = [order EXCEPT ![o] = row]
    BY <1>3, <1>4, <1>5, PanelStatusesAre, Types DEF RowType, Statuses, Posts, Inv
  <2> QED BY <2>1 DEF Phase
<1>7. CASE order[o].status = "failed"
  <2>1. "release" \in order[o].posts /\ order[o].refunded = 0
    BY <1>3, <1>7 DEF RowSound
  <2>2. UNCHANGED account /\ Phase(order[o]) = "returned"
    BY <1>3, <1>5, <1>7, <2>1 DEF AccountReleased, Phase
  <2>3. Rewritten(o, row, 0)
    BY <1>6, <2>1, <2>2 DEF Rewritten
  <2> QED BY <1>3, <1>6, <2>3 DEF MoneyMoves
<1>8. CASE order[o].status = "review"
  <2>1. PICK u : u = order[o].owner
    OBVIOUS
  <2>2. /\ order[o].posts = {"reserve"} /\ order[o].refunded = 0
        /\ Phase(order[o]) = "held" /\ Charge[o] <= account[u].reserved
    BY <1>3, <1>8, <2>1, ReviewFacts, ReservationCovers
  <2>3. /\ u \in Users /\ account[u] \in [balance : Nat, reserved : Nat]
        /\ account[u].reserved <= account[u].balance
    BY <1>3, <2>1, Types DEF Inv, Solvent
  <2>4. account' = [account EXCEPT ![u].reserved = @ - Minimum(@, Charge[o])]
    BY <1>5, <2>1, <2>2 DEF AccountReleased
  <2>5. account' = [account EXCEPT ![u] = [balance |-> @.balance - 0,
                                           reserved |-> @.reserved + (-Charge[o])]]
        /\ account[u].balance - account[u].reserved >= 0 + (-Charge[o])
    <3>1. Charge[o] \in Nat
      BY <1>3
    <3>2. /\ [account[u] EXCEPT !.reserved = @ - Minimum(@, Charge[o])]
               = [balance |-> account[u].balance - 0,
                  reserved |-> account[u].reserved + (-Charge[o])]
          /\ account[u].balance - account[u].reserved >= 0 + (-Charge[o])
      BY <2>2, <2>3, <3>1, AccountSettled
    <3> QED BY <2>4, <3>2, Zenon
  <2>6. Moved(o, u, row, "held", "returned", 0, -Charge[o])
    BY <1>6, <2>1, <2>2, <2>5, Zenon DEF Moved
  <2> QED BY <1>3, <1>6, <2>1, <2>3, <2>6 DEF Settled, MoneyMoves
<1> QED BY <1>3, <1>7, <1>8

\* resolve_review_order --attach: a held charge is taken.
LEMMA AttachMoves ==
    ASSUME Inv, Backed, NEW s \in Sessions, ResolveAttach(s)
    PROVE  MoneyMoves
<1>1. PICK o : o = sess[s].o
  OBVIOUS
<1>2. sess[s].at = "resolving" /\ sess[s].report = "attach"
  BY DEF ResolveAttach
<1>3. /\ o \in Orders /\ order[o] \in RowType /\ RowSound(o) /\ order[o].owner \in Users
      /\ order[o].placed \/ order[o].status = "review"
      /\ Charge[o] \in Nat \ {0} /\ order[o].status # "none"
  BY <1>1, <1>2, ResolvingFacts
<1> DEFINE funded == "capture" \in order[o].posts
                       \/ account[order[o].owner].reserved >= Charge[o]
<1>4. CASE ~funded
  <2>1. UNCHANGED <<account, order>>
    BY <1>1, <1>4 DEF ResolveAttach
  <2> QED BY <2>1 DEF MoneyMoves
<1>5. CASE funded
  <2>1. /\ account' = AccountCaptured(o)
        /\ order' = [order EXCEPT ![o].status = "processing", ![o].placed = TRUE,
                                  ![o].posts = @ \cup {"capture"}]
    BY <1>1, <1>5 DEF ResolveAttach
  <2>2. PICK row : row = [order[o] EXCEPT !.status = "processing", !.placed = TRUE,
                                          !.posts = @ \cup {"capture"}]
    OBVIOUS
  <2>3. /\ row \in RowType /\ row.owner = order[o].owner /\ row.refunded = order[o].refunded
        /\ Phase(row) = "taken" /\ order' = [order EXCEPT ![o] = row]
    <3>1. /\ row \in RowType /\ row.status = "processing" /\ row.owner = order[o].owner
          /\ row.placed /\ row.refunded = order[o].refunded
          /\ order' = [order EXCEPT ![o] = row]
      BY <1>3, <2>1, <2>2, PanelStatusesAre, Types DEF RowType, Statuses, Posts, Inv
    <3> QED BY <3>1 DEF Phase
  <2> HIDE DEF funded
  <2>4. CASE order[o].placed
    <3>1. UNCHANGED account /\ Phase(order[o]) = "taken"
      BY <1>3, <2>1, <2>4, PlacedFacts DEF AccountCaptured, Phase
    <3>2. row.refunded = order[o].refunded + 0
      BY <1>3, <2>3 DEF RowType
    <3>3. Rewritten(o, row, 0)
      BY <2>3, <3>1, <3>2, Zenon DEF Rewritten
    <3> QED BY <1>3, <2>3, <3>3 DEF MoneyMoves
  <2>5. CASE order[o].status = "review"
    <3>1. PICK u : u = order[o].owner
      OBVIOUS
    <3>2. /\ order[o].posts = {"reserve"} /\ order[o].refunded = 0
          /\ Phase(order[o]) = "held" /\ Charge[o] <= account[u].reserved
      BY <1>3, <2>5, <3>1, ReviewFacts, ReservationCovers
    <3>3. /\ u \in Users /\ account[u] \in [balance : Nat, reserved : Nat]
          /\ account[u].reserved <= account[u].balance
      BY <1>3, <3>1, Types DEF Inv, Solvent
    <3>4. account' = [account EXCEPT ![u] = [balance |-> @.balance - Charge[o],
                                             reserved |-> @.reserved - Charge[o]]]
      BY <2>1, <3>1, <3>2 DEF AccountCaptured
    <3>5. account' = [account EXCEPT ![u] = [balance |-> @.balance - Charge[o],
                                             reserved |-> @.reserved + (-Charge[o])]]
          /\ account[u].balance - account[u].reserved >= Charge[o] + (-Charge[o])
      <4>1. Charge[o] \in Nat
        BY <1>3
      <4>2. /\ [balance |-> account[u].balance - Charge[o],
                reserved |-> account[u].reserved - Charge[o]]
                 = [balance |-> account[u].balance - Charge[o],
                    reserved |-> account[u].reserved + (-Charge[o])]
            /\ account[u].balance - account[u].reserved >= Charge[o] + (-Charge[o])
        BY <3>2, <3>3, <4>1, AccountSettled
      <4> QED BY <3>4, <4>2, Zenon
    <3>6. Moved(o, u, row, "held", "taken", Charge[o], -Charge[o])
      BY <2>3, <3>1, <3>2, <3>5, Zenon DEF Moved
    <3> QED BY <1>3, <2>3, <3>1, <3>3, <3>6 DEF Settled, MoneyMoves
  <2> QED BY <1>3, <2>4, <2>5
<1> QED BY <1>4, <1>5

\* Without a cancellation of a "pending" order no charge is released but by the
\* operator, so that every step is one of these.
LEMMA EveryStepMoves ==
    ASSUME Inv, Backed, NoPendingCancel, [Next]_vars
    PROVE  MoneyMoves
<1>1. ASSUME UNCHANGED <<account, order>>
      PROVE  MoneyMoves
  BY <1>1 DEF MoneyMoves
<1>2. ASSUME NEW s \in Sessions, Place(s)
      PROVE  MoneyMoves
  <2>1. CASE PlaceAccepted(s) \/ PlaceReview(s) \/ PlaceFailed(s)
    BY <2>1, PlaceMoves
  <2>2. CASE ~(PlaceAccepted(s) \/ PlaceReview(s) \/ PlaceFailed(s))
    <3>1. UNCHANGED <<account, order>>
      BY <1>2, <2>2 DEF Place, PlaceQuote, PlaceReplay, PlaceRefuse, PlaceReserve,
                        PanelAccepts, PanelDeclines
    <3> QED BY <3>1, <1>1
  <2> QED BY <2>1, <2>2
<1>3. ASSUME NEW s \in Sessions, Sync(s)
      PROVE  MoneyMoves
  <2>1. CASE SyncApply(s)
    <3>1. PICK o : o = sess[s].o
      OBVIOUS
    <3>2. sess[s].at = "reported" /\ Working(sess[s])
      BY <2>1 DEF SyncApply, SyncStatus, SyncCompleted, SyncPartial, SyncRefund,
                  SyncApplies, Working
    <3>3. o \in Orders /\ order[o].placed /\ Charge[o] \in Nat \ {0} /\ Owed(o) \in Nat
      BY <3>1, <3>2, WorkingFacts
    <3>4. CASE SyncStatus(s) \/ SyncCompleted(s)
      <4>1. PICK st \in {"pending", "processing", "in_progress", "refunded", "completed"} :
              order' = [order EXCEPT ![o].status = st] /\ UNCHANGED account
        BY <3>1, <3>4 DEF SyncStatus, SyncCompleted
      <4>2. st \in Statuses \ {"none", "review"}
        BY PanelStatusesAre DEF Statuses
      <4> QED BY <3>3, <4>1, <4>2, StatusMoves
    <3>5. ASSUME NEW r \in Undelivered, SyncPartial(s, r)
          PROVE  MoneyMoves
      <4>1. PICK n : n = Minimum(Minimum(r, Charge[o]), Owed(o))
        OBVIOUS
      <4>2. n \in Int
        BY <3>3, <4>1, OrdersAssumption DEF OrdersAssumption, Minimum
      <4>3. /\ account' = AccountCredited(o, "partial", n)
            /\ order' = [order EXCEPT ![o] = Credited(o, "partial", n, "partial")]
        BY <3>1, <3>5, <4>1 DEF SyncPartial
      <4>4. "partial" \in Statuses \ {"none", "review"} /\ "partial" \in Posts
        BY PanelStatusesAre DEF Statuses, Posts
      <4> QED BY <3>3, <4>2, <4>3, <4>4, CreditMoves
    <3>6. ASSUME NEW st \in {"canceled", "failed"}, SyncRefund(s, st)
          PROVE  MoneyMoves
      <4>1. PICK post \in {"refund-canceled", "refund-failed"} :
              post = IF st = "canceled" THEN "refund-canceled" ELSE "refund-failed"
        OBVIOUS
      <4>2. PICK status \in {"canceled", "failed", "refunded"} :
              status = IF Credits(o, post, Owed(o)) THEN "refunded" ELSE st
        OBVIOUS
      <4>3. PICK n : n = Owed(o)
        OBVIOUS
      <4>4. /\ account' = AccountCredited(o, post, n)
            /\ order' = [order EXCEPT ![o] = Credited(o, post, n, status)]
        BY <3>1, <3>6, <4>1, <4>2, <4>3 DEF SyncRefund
      <4>5. status \in Statuses \ {"none", "review"} /\ post \in Posts /\ n \in Int
        BY <3>3, <4>3, PanelStatusesAre DEF Statuses, Posts
      <4> QED BY <3>3, <4>4, <4>5, CreditMoves
    <3> QED BY <2>1, <3>4, <3>5, <3>6 DEF SyncApply
  <2>2. CASE ~SyncApply(s)
    <3>1. UNCHANGED <<account, order>>
      BY <1>3, <2>2 DEF Sync, SyncLoad, SyncReport, SyncUnavailable
    <3> QED BY <3>1, <1>1
  <2> QED BY <2>1, <2>2
<1>4. ASSUME NEW s \in Sessions, Cancel(s)
      PROVE  MoneyMoves
  <2>1. CASE CancelCredit(s)
    <3>1. PICK o, n : o = sess[s].o /\ n = sess[s].owed
      OBVIOUS
    <3>2. Working(sess[s])
      BY <2>1 DEF CancelCredit, Working, Canceling
    <3>3. o \in Orders /\ order[o].placed /\ n \in Int
      BY <3>1, <3>2, WorkingFacts DEF SessionType
    <3>4. /\ account' = AccountCredited(o, "refund-cancel", n)
          /\ order' = [order EXCEPT ![o] = Credited(o, "refund-cancel", n, "canceled")]
      BY <3>1, <2>1 DEF CancelCredit
    <3>5. "canceled" \in Statuses \ {"none", "review"} /\ "refund-cancel" \in Posts
      BY PanelStatusesAre DEF Statuses, Posts
    <3> QED BY <3>3, <3>4, <3>5, CreditMoves
  <2>2. ~CancelRelease(s)
    <3> SUFFICES ASSUME CancelRelease(s)
                 PROVE  FALSE
      OBVIOUS
    <3>1. /\ Working(sess[s]) /\ Canceling(sess[s]) /\ sess[s].seen = "pending"
      BY DEF CancelRelease, Working, Canceling
    <3> QED BY <3>1 DEF Inv, SessionSound, NoPendingCancel
  <2>3. CASE ~CancelCredit(s)
    <3>1. UNCHANGED <<account, order>>
      BY <1>4, <2>2, <2>3 DEF Cancel, CancelLoad, CancelConfirmed, CancelRefused, CancelCount
    <3> QED BY <3>1, <1>1
  <2> QED BY <2>1, <2>3
<1>5. ASSUME NEW s \in Sessions, Refill(s)
      PROVE  MoneyMoves
  <2>1. CASE RefillCommit(s)
    <3>1. PICK o : o = sess[s].o
      OBVIOUS
    <3>2. Working(sess[s]) /\ UNCHANGED account
      BY <2>1 DEF RefillCommit, Working
    <3>3. o \in Orders /\ order[o].placed /\ "refilling" \in Statuses \ {"none", "review"}
      BY <3>1, <3>2, WorkingFacts DEF Statuses
    <3>4. CASE order' = [order EXCEPT ![o].status = "refilling"]
      BY <3>2, <3>3, <3>4, StatusMoves
    <3>5. CASE UNCHANGED order
      BY <1>1, <3>2, <3>5
    <3> QED BY <2>1, <3>1, <3>4, <3>5 DEF RefillCommit
  <2>2. CASE ~RefillCommit(s)
    <3>1. UNCHANGED <<account, order>>
      BY <1>5, <2>2 DEF Refill, RefillLoad
    <3> QED BY <3>1, <1>1
  <2> QED BY <2>1, <2>2
<1>6. ASSUME NEW s \in Sessions, Resolve(s)
      PROVE  MoneyMoves
  <2>1. CASE ResolveRelease(s) \/ ResolveAttach(s)
    BY <2>1, ReleaseMoves, AttachMoves
  <2>2. ASSUME NEW o \in Orders, ResolveLoad(s, o)
        PROVE  MoneyMoves
    BY <2>2, <1>1 DEF ResolveLoad
  <2> QED BY <1>6, <2>1, <2>2 DEF Resolve
<1>7. ASSUME NEW s \in Sessions, Crash(s)
      PROVE  MoneyMoves
  BY <1>7, <1>1 DEF Crash
<1>8. ASSUME NEW o \in Orders, PanelAdvance(o)
      PROVE  MoneyMoves
  BY <1>8, <1>1 DEF PanelAdvance
<1>9. CASE UNCHANGED vars
  BY <1>9, <1>1 DEF vars
<1> QED BY <1>2, <1>3, <1>4, <1>5, <1>6, <1>7, <1>8, <1>9 DEF Next

\* The status of a row before and after such a step.
LEMMA PhasesAre ==
    ASSUME Inv, Inv', NEW o \in Orders, NEW row \in RowType, order' = [order EXCEPT ![o] = row]
    PROVE  /\ Phase(order[o]) = "held" <=> order[o].status = "review"
           /\ Phase(row) = "held" <=> row.status = "review"
           /\ order \in [Orders -> RowType] /\ order'[o] = row
<1>1. order \in [Orders -> RowType] /\ order'[o] = row
  BY Types DEF Inv
<1>2. RowSound(o) /\ RowSound(o)'
  BY DEF Inv
<1>3. order[o].status = "review" => ~order[o].placed
  BY <1>2 DEF RowSound
<1>4. row.status = "review" => ~row.placed
  BY <1>1, <1>2 DEF RowSound
<1> QED BY <1>1, <1>3, <1>4 DEF Phase

LEMMA BackedStep ==
    ASSUME Inv, Inv', Backed, NoPendingCancel, [Next]_vars
    PROVE  Backed'
<1>1. MoneyMoves
  BY EveryStepMoves
<1>2. account \in [Users -> [balance : Nat, reserved : Nat]]
  BY Types DEF Inv
<1>3. CASE UNCHANGED <<account, order>>
  BY <1>3 DEF Backed, Review
<1>4. ASSUME NEW o \in Orders, NEW row \in RowType, NEW n \in Nat, Rewritten(o, row, n)
      PROVE  Backed'
  <2>1. order[o].status # "review" /\ row.status # "review"
    BY <1>4, PhasesAre DEF Rewritten
  <2>2. \A u \in Users : account'[u].reserved = account[u].reserved
    BY <1>2, <1>4 DEF Rewritten
  <2> QED BY <1>4, <2>1, <2>2, NotReviewed DEF Rewritten
<1>5. ASSUME NEW o \in Orders, NEW row \in RowType, NEW u \in Users, Bought(o, u, row)
      PROVE  Backed'
  <2>1. order' = [order EXCEPT ![o] = row] /\ row.owner = u /\ Phase(order[o]) = "none"
    BY <1>5 DEF Bought, Moved
  <2>2. order[o].status # "review" /\ (Phase(row) = "held" <=> row.status = "review")
    BY <2>1, PhasesAre
  <2>3. CASE Phase(row) = "held"
    <3>1. account' = [account EXCEPT ![u] = [balance |-> @.balance - 0,
                                             reserved |-> @.reserved + Charge[o]]]
      BY <1>5, <2>3 DEF Bought, Moved
    <3>2. account' = [account EXCEPT ![u].reserved = @ + Charge[o]]
      <4>1. account[u] \in [balance : Nat, reserved : Nat] /\ Charge[o] \in Nat
        BY <1>2, OrdersAreFinite
      <4>2. [account[u] EXCEPT !.reserved = @ + Charge[o]]
              = [balance |-> account[u].balance - 0, reserved |-> account[u].reserved + Charge[o]]
        BY <4>1, AccountColumns
      <4> QED BY <3>1, <4>2, Zenon
    <3> QED BY <2>1, <2>2, <2>3, <3>2, ComesUnderReview
  <2>4. CASE Phase(row) # "held"
    <3>1. /\ \A v \in Users \ {u} : account'[v] = account[v]
          /\ account'[u].reserved = account[u].reserved + 0
      BY <1>2, <1>5, <2>4 DEF Bought, Moved
    <3>2. account[u].reserved \in Nat
      BY <1>2
    <3>3. \A v \in Users : account'[v].reserved = account[v].reserved
      BY <3>1, <3>2
    <3> QED BY <2>1, <2>2, <2>4, <3>3, NotReviewed
  <2> QED BY <2>3, <2>4
<1>6. ASSUME NEW o \in Orders, NEW row \in RowType, NEW u \in Users, Settled(o, u, row)
      PROVE  Backed'
  <2>1. /\ order' = [order EXCEPT ![o] = row] /\ order[o].owner = u
        /\ Phase(order[o]) = "held" /\ Phase(row) # "held"
    BY <1>6 DEF Settled, Moved
  <2>2. order[o].status = "review" /\ row.status # "review"
    BY <2>1, PhasesAre
  <2>3. /\ \A v \in Users \ {u} : account'[v] = account[v]
        /\ account'[u].reserved = account[u].reserved + (-Charge[o])
    BY <1>2, <1>6 DEF Settled, Moved
  <2>4. account[u].reserved \in Nat /\ Charge[o] \in Nat
    BY <1>2, OrdersAreFinite
  <2>5. account'[u].reserved = account[u].reserved - Charge[o]
    BY <2>3, <2>4
  <2> QED BY <2>1, <2>2, <2>3, <2>5, ReviewEnds
<1> QED BY <1>1, <1>3, <1>4, <1>5, <1>6 DEF MoneyMoves

LEMMA InitBacked == Init => Backed
<1> SUFFICES ASSUME Init, NEW u \in Users
             PROVE  account[u].reserved = SumFunctionOnSet(Charge, Review(u))
  BY DEF Backed
<1>1. account[u].reserved = 0
  BY DEF Init
<1>2. Review(u) = {}
  BY DEF Init, Review, NoOrder
<1>3. SumFunctionOnSet(Charge, {}) = 0
  <2>1. IsFiniteSet({})
    BY FS_EmptySet
  <2> QED BY <2>1, SumInOrder, Zenon
<1> QED BY <1>1, <1>2, <1>3

\* What is reserved is, to the paisa, the charges of the orders under review, as
\* long as no cancellation meets the status "pending" (orders.py:327, 356-374, 655;
\* wallet.py:310).
THEOREM ReservationsBacked ==
    ASSUME NoPendingCancel
    PROVE  Spec => []HoldsBacked
<1>1. Init => Backed
  BY InitBacked
<1>2. Inv /\ Inv' /\ Backed /\ [Next]_vars => Backed'
  BY BackedStep
<1>3. Inv /\ Backed => HoldsBacked
  BY ReviewFacts DEF Backed, Review, HoldsBacked, Held
<1> QED BY <1>1, <1>2, <1>3, Invariance, PTL DEF Spec

------------------------------------------------------------------------------
\* The order engine implements Escrow.

\* What the ledger says of an order is what its row says.
LEMMA StageIsPhase ==
    ASSUME NEW row \in RowType, row.status = "none" => row.posts = {},
           row.status # "none" => "reserve" \in row.posts,
           row.placed => "capture" \in row.posts /\ "release" \notin row.posts,
           ~row.placed => /\ row.posts \subseteq {"reserve", "release"}
                          /\ row.status \in {"none", "review", "failed"}
                          /\ row.status = "failed" <=> "release" \in row.posts,
           row.placed => row.status # "none",
           "release-cancel" \notin row.posts
    PROVE  Phase(row) =
             LET returned == row.posts \cap {"release", "release-cancel"} # {}
                 captured == "capture" \in row.posts
             IN  CASE "reserve" \notin row.posts -> "none"
                   [] captured /\ returned         -> "both"
                   [] captured /\ ~returned        -> "taken"
                   [] ~captured /\ returned        -> "returned"
                   [] OTHER                        -> "held"
<1>1. row.posts \cap {"release", "release-cancel"} # {} <=> "release" \in row.posts
  OBVIOUS
<1>2. CASE row.placed
  BY <1>1, <1>2 DEF Phase
<1>3. CASE ~row.placed
  <2>1. "capture" \notin row.posts
    BY <1>3
  <2>2. row.status \in {"none", "review", "failed"}
    BY <1>3
  <2> QED BY <1>1, <1>3, <2>1, <2>2 DEF Phase
<1> QED BY <1>2, <1>3

LEMMA Stages ==
    ASSUME Inv, Inv', NoPendingCancel, NEW o \in Orders
    PROVE  Stage(o) = Phase(order[o]) /\ Stage(o)' = Phase(order'[o])
<1>1. RowSound(o) /\ RowSound(o)' /\ order[o] \in RowType /\ order'[o] \in RowType
  <2>1. TypeOK /\ TypeOK'
    BY DEF Inv
  <2> QED BY <2>1 DEF TypeOK, Inv, RowType
<1>2. NoOrder.posts = {}
  BY DEF NoOrder
<1>3. Stage(o) = Phase(order[o])
  BY <1>1, <1>2, StageIsPhase DEF Stage, Captured, RowSound
<1>4. Stage(o)' = Phase(order'[o])
  BY <1>1, <1>2, StageIsPhase DEF Stage, Captured, RowSound
<1> QED BY <1>3, <1>4

\* The mapped state, and what a rewritten row changes of it.
OwnerOf == [o \in Orders |-> order[o].owner]
StageOf == [o \in Orders |-> Stage(o)]
RepaidOf == [o \in Orders |-> order[o].refunded]

LEMMA MappedRow ==
    ASSUME Inv, Inv', NoPendingCancel, NEW o \in Orders, NEW row \in RowType,
           order' = [order EXCEPT ![o] = row]
    PROVE  /\ OwnerOf[o] = order[o].owner /\ OwnerOf' = [OwnerOf EXCEPT ![o] = row.owner]
           /\ StageOf[o] = Phase(order[o]) /\ StageOf' = [StageOf EXCEPT ![o] = Phase(row)]
           /\ RepaidOf[o] = order[o].refunded
           /\ RepaidOf' = [RepaidOf EXCEPT ![o] = row.refunded]
<1>1. /\ order \in [Orders -> RowType] /\ order'[o] = row
      /\ \A p \in Orders \ {o} : order'[p] = order[p]
  BY Types DEF Inv
<1>2. \A p \in Orders : Stage(p) = Phase(order[p]) /\ Stage(p)' = Phase(order'[p])
  BY Stages
<1>3. StageOf = [p \in Orders |-> Phase(order[p])]
  BY <1>2 DEF StageOf
<1>4. StageOf' = [p \in Orders |-> Phase(order'[p])]
  BY <1>2 DEF StageOf
<1>5. StageOf[o] = Phase(order[o]) /\ StageOf' = [StageOf EXCEPT ![o] = Phase(row)]
  BY <1>1, <1>3, <1>4
<1>6. OwnerOf[o] = order[o].owner /\ OwnerOf' = [OwnerOf EXCEPT ![o] = row.owner]
  BY <1>1 DEF OwnerOf
<1>7. RepaidOf[o] = order[o].refunded /\ RepaidOf' = [RepaidOf EXCEPT ![o] = row.refunded]
  BY <1>1 DEF RepaidOf
<1> QED BY <1>5, <1>6, <1>7

\* A row that reaches another phase moves the escrow.
LEMMA MovesTheEscrow ==
    ASSUME Inv, Inv', NoPendingCancel, NEW o \in Orders, NEW u \in Users, NEW row \in RowType,
           NEW from, NEW to, NEW taken, NEW held,
           Moved(o, u, row, from, to, taken, held)
    PROVE  StageOf[o] = from /\ Money!Move(u, o, to, taken, held)
<1>1. /\ order' = [order EXCEPT ![o] = row] /\ row.owner = u
      /\ row.refunded = 0 /\ order[o].refunded = 0
      /\ Phase(order[o]) = from /\ Phase(row) = to
      /\ account[u].balance - account[u].reserved >= taken + held
      /\ account' = [account EXCEPT ![u] = [balance |-> @.balance - taken,
                                            reserved |-> @.reserved + held]]
  BY Zenon DEF Moved
<1>2. /\ OwnerOf' = [OwnerOf EXCEPT ![o] = row.owner]
      /\ StageOf[o] = Phase(order[o]) /\ StageOf' = [StageOf EXCEPT ![o] = Phase(row)]
      /\ RepaidOf[o] = order[o].refunded /\ RepaidOf' = [RepaidOf EXCEPT ![o] = row.refunded]
  BY <1>1, MappedRow
<1>3. UNCHANGED RepaidOf
  BY <1>1, <1>2 DEF RepaidOf
<1> QED BY <1>1, <1>2, <1>3, Zenon DEF Money!Move, OwnerOf, StageOf, RepaidOf

\* Under these conditions the order engine keeps the promise of Escrow to every
\* customer: each charge is held, then taken or returned, once, and the balances
\* move by exactly that (orders.py:221-614).
THEOREM ImplementsTheEscrow ==
    ASSUME NoRace, NoPendingCancel
    PROVE  Spec => ImplementsEscrow
<1>1. Init => Money!Init
  <2> SUFFICES ASSUME Init
               PROVE  Money!Init
    OBVIOUS
  <2>1. \A o \in Orders : /\ order[o].owner = None /\ order[o].refunded = 0
                          /\ order[o].posts = {}
    BY DEF Init, NoOrder
  <2>2. ASSUME NEW o \in Orders
        PROVE  Stage(o) = "none"
    <3>1. "reserve" \notin order[o].posts /\ ~Captured(o)
          /\ order[o].posts \cap {"release", "release-cancel"} = {}
      BY <2>1 DEF Captured
    <3> QED BY <3>1 DEF Stage
  <2> QED BY <2>1, <2>2 DEF Init, Money!Init
<1>2. Inv /\ Inv' /\ Backed /\ [Next]_vars =>
        [Money!Next]_<<account, [o \in Orders |-> order[o].owner],
                       [o \in Orders |-> Stage(o)], [o \in Orders |-> order[o].refunded]>>
  <2> SUFFICES ASSUME Inv, Inv', Backed, [Next]_vars
               PROVE  [Money!Next]_<<account, OwnerOf, StageOf, RepaidOf>>
    BY DEF OwnerOf, StageOf, RepaidOf
  <2>1. MoneyMoves
    BY EveryStepMoves
  <2>2. CASE UNCHANGED <<account, order>>
    BY <2>2 DEF OwnerOf, StageOf, RepaidOf, Stage, Captured
  <2>3. ASSUME NEW o \in Orders, NEW row \in RowType, NEW n \in Nat, Rewritten(o, row, n)
        PROVE  [Money!Next]_<<account, OwnerOf, StageOf, RepaidOf>>
    <3>1. /\ order' = [order EXCEPT ![o] = row] /\ row.owner = order[o].owner
          /\ row.refunded = order[o].refunded + n /\ Phase(row) = Phase(order[o])
      BY <2>3 DEF Rewritten
    <3>2. /\ OwnerOf[o] = order[o].owner /\ OwnerOf' = [OwnerOf EXCEPT ![o] = row.owner]
          /\ StageOf[o] = Phase(order[o]) /\ StageOf' = [StageOf EXCEPT ![o] = Phase(row)]
          /\ RepaidOf[o] = order[o].refunded
          /\ RepaidOf' = [RepaidOf EXCEPT ![o] = row.refunded]
      BY <3>1, MappedRow
    <3>3. OwnerOf' = OwnerOf /\ StageOf' = StageOf
      BY <3>1, <3>2 DEF OwnerOf, StageOf
    <3>4. order[o].refunded \in Nat
      BY Types DEF Inv, RowType
    <3>5. CASE n = 0 /\ UNCHANGED account
      <4>1. RepaidOf' = RepaidOf
        BY <3>1, <3>2, <3>4, <3>5 DEF RepaidOf
      <4> QED BY <3>3, <3>5, <4>1
    <3>6. CASE n > 0 /\ Phase(row) = "taken"
               /\ account' = [account EXCEPT ![order[o].owner].balance = @ + n]
      <4>1. PICK u : u = order[o].owner
        OBVIOUS
      <4>2. u \in Users
        <5>1. order[o].status # "none"
          BY <3>1, <3>6 DEF Phase
        <5> QED BY <4>1, <5>1 DEF Inv, RowSound
      <4>3. row.refunded <= Charge[o]
        <5>1. order'[o] = row /\ RowSound(o)'
          BY <3>1, PhasesAre DEF Inv
        <5> QED BY <5>1 DEF RowSound, NoRace, Alone
      <4>4. n \in 1..Charge[o] /\ RepaidOf[o] + n <= Charge[o]
        BY <3>1, <3>2, <3>4, <3>6, <4>3, OrdersAreFinite
      <4>5. RepaidOf' = [RepaidOf EXCEPT ![o] = @ + n]
        BY <3>1, <3>2
      <4>6. Money!Repay(u, o, n)
        <5>1. StageOf[o] = "taken" /\ OwnerOf[o] = u
          BY <3>1, <3>2, <3>6, <4>1
        <5>2. account' = [account EXCEPT ![u].balance = @ + n]
          BY <3>6, <4>1
        <5> QED BY <3>3, <4>4, <4>5, <5>1, <5>2, Zenon
                DEF Money!Repay, OwnerOf, StageOf, RepaidOf
      <4> QED BY <4>2, <4>4, <4>6 DEF Money!Next
    <3> QED BY <2>3, <3>5, <3>6 DEF Rewritten
  <2>4. ASSUME NEW o \in Orders, NEW row \in RowType, NEW u \in Users, Bought(o, u, row)
        PROVE  Money!Next
    <3>1. StageOf[o] = "none" /\ \/ Money!Move(u, o, "held", 0, Charge[o])
                                 \/ Money!Move(u, o, "taken", Charge[o], 0)
                                 \/ Money!Move(u, o, "returned", 0, 0)
      BY <2>4, MovesTheEscrow DEF Bought
    <3>2. Money!Order(u, o)
      BY <3>1, Zenon DEF Money!Order, StageOf
    <3> QED BY <3>2 DEF Money!Next
  <2>5. ASSUME NEW o \in Orders, NEW row \in RowType, NEW u \in Users, Settled(o, u, row)
        PROVE  Money!Next
    <3>1. OwnerOf[o] = u
      BY <2>5 DEF Settled, OwnerOf
    <3>2. StageOf[o] = "held" /\ \/ Money!Move(u, o, "taken", Charge[o], -Charge[o])
                                 \/ Money!Move(u, o, "returned", 0, -Charge[o])
      BY <2>5, MovesTheEscrow DEF Settled
    <3>3. Money!Settle(u, o)
      BY <3>1, <3>2, Zenon DEF Money!Settle, StageOf, OwnerOf
    <3> QED BY <3>3 DEF Money!Next
  <2> QED BY <2>1, <2>2, <2>3, <2>4, <2>5 DEF MoneyMoves
<1>3. Init => Backed
  BY InitBacked
<1>4. Inv /\ Inv' /\ Backed /\ [Next]_vars => Backed'
  BY BackedStep
<1> QED BY <1>1, <1>2, <1>3, <1>4, Invariance, PTL
        DEF Spec, ImplementsEscrow, Money!Spec, Money!vars
------------------------------------------------------------------------------
\* One handler at a time: what a handler loaded is still so, and what the coupon's
\* check found as well.
SoloSession(r) ==
    /\ r.at \in {"syncing", "reported"} => order[r.o].status \notin TERMINAL_STATUSES
    /\ Canceling(r) => order[r.o].status \in CANCELABLE_STATUSES
    /\ r.at = "refilling" => order[r.o].status \in REFILLABLE_STATUSES
    /\ r.at = "resolving" => order[r.o].status = "review"
    /\ Placing(r) => r.used = coupon.used
    /\ (r.at = "quoted" \/ Placing(r)) /\ r.coupon => CouponUsable(r.user)

\* An order refunded because it failed is closed; so a failed one is not met again.
SoloRow(o) ==
    /\ order[o].status = "completed" => panel[o] = "completed"
    /\ order[o].posts \cap Refunds # {} => order[o].refunded > 0
    /\ order[o].refunded > 0 /\ panel[o] = "failed" => order[o].status \in TERMINAL_STATUSES
    /\ o \in coupon.by => order[o].status \notin {"none", "failed"}

Solo ==
    /\ \A o \in Orders : SoloRow(o)
    /\ \A s \in Sessions : SoloSession(sess[s])
    /\ coupon.used = Cardinality(coupon.by)
    /\ CouponWithinLimits

LEMMA SoloIdle == SoloSession(Idle)
BY IdleTyped DEF SoloSession, Placing, Canceling

LEMMA SoloInit == Init => Solo
<1> SUFFICES ASSUME Init
             PROVE  Solo
  OBVIOUS
<1>1. coupon.by = {} /\ coupon.used = 0
  BY DEF Init
<1>2. \A S : S \subseteq coupon.by => S = {}
  BY <1>1
<1>3. coupon.used = Cardinality(coupon.by) /\ CouponWithinLimits
  <2>1. Cardinality({}) = 0
    BY FS_EmptySet
  <2>2. ASSUME NEW u \in Users
        PROVE  {o \in coupon.by : order[o].owner = u} = {}
    BY <1>1
  <2> QED BY <1>1, <2>1, <2>2, OrdersAssumption DEF CouponWithinLimits, OrdersAssumption
<1>4. ASSUME NEW o \in Orders
      PROVE  SoloRow(o)
  BY <1>1 DEF Init, SoloRow, NoOrder
<1> QED BY <1>3, <1>4, SoloIdle DEF Init, Solo

\* The redemptions are finitely many.
LEMMA Redemptions ==
    ASSUME TypeOK
    PROVE  /\ IsFiniteSet(coupon.by) /\ coupon.by \subseteq Orders
           /\ Cardinality(coupon.by) \in Nat
           /\ \A u : /\ IsFiniteSet({o \in coupon.by : order[o].owner = u})
                     /\ Cardinality({o \in coupon.by : order[o].owner = u}) \in Nat
<1>1. coupon.by \subseteq Orders
  BY DEF TypeOK
<1>2. IsFiniteSet(Orders)
  BY FS_Interval, OrdersAssumption DEF Orders, OrdersAssumption
<1>3. IsFiniteSet(coupon.by) /\ \A u : IsFiniteSet({o \in coupon.by : order[o].owner = u})
  <2>1. \A u : {o \in coupon.by : order[o].owner = u} \subseteq Orders
    BY <1>1
  <2> QED BY <1>1, <1>2, <2>1, FS_Subset
<1> QED BY <1>1, <1>3, FS_CardinalityType

\* A step that writes no row and no coupon.
LEMMA SoloQuiet ==
    ASSUME Solo, Alone, NEW s \in Sessions, sess \in [Sessions -> SessionType], NEW r,
           sess' = [sess EXCEPT ![s] = r], UNCHANGED <<order, coupon>>,
           SoloSession(r), \A o \in Orders : SoloRow(o)'
    PROVE  Solo'
<1>1. ASSUME NEW t \in Sessions
      PROVE  SoloSession(sess[t])'
  <2>1. sess'[t] = r
    BY DEF Alone
  <2>2. SoloSession(r)'
    BY DEF SoloSession, CouponUsable, Placing, Canceling
  <2> QED BY <2>1, <2>2
<1>2. CouponWithinLimits'
  <2>1. CouponWithinLimits
    BY DEF Solo
  <2> QED BY <2>1 DEF CouponWithinLimits
<1> QED BY <1>1, <1>2 DEF Solo

\* A handler ends by writing the row of an order that has one.
LEMMA SoloWrite ==
    ASSUME Inv, Solo, Alone, NEW s \in Sessions, NEW o \in Orders, NEW row \in RowType,
           order' = [order EXCEPT ![o] = row], Finish(s), UNCHANGED <<coupon, panel>>,
           row.owner = order[o].owner, SoloRow(o)'
    PROVE  Solo'
<1>1. /\ order \in [Orders -> RowType] /\ sess \in [Sessions -> SessionType]
      /\ sess' = [sess EXCEPT ![s] = Idle] /\ coupon.by \subseteq Orders
  BY Types DEF Inv, Finish, TypeOK
<1>2. \A p \in Orders : order'[p].owner = order[p].owner
  BY <1>1
<1>3. ASSUME NEW p \in Orders
      PROVE  SoloRow(p)'
  <2>1. CASE p = o
    BY <2>1
  <2>2. CASE p # o
    <3>1. order'[p] = order[p] /\ SoloRow(p)
      BY <1>1, <2>2 DEF Solo
    <3> QED BY <3>1 DEF SoloRow
  <2> QED BY <2>1, <2>2
<1>4. ASSUME NEW t \in Sessions
      PROVE  SoloSession(sess[t])'
  <2>1. sess'[t] = Idle
    BY <1>1 DEF Alone
  <2> QED BY <2>1, IdleTyped DEF SoloSession, Placing, Canceling
<1>5. CouponWithinLimits'
  <2>1. \A u : {p \in coupon'.by : order'[p].owner = u} = {p \in coupon.by : order[p].owner = u}
    BY <1>1, <1>2
  <2>2. CouponWithinLimits
    BY DEF Solo
  <2> QED BY <2>1, <2>2 DEF CouponWithinLimits
<1> QED BY <1>3, <1>4, <1>5 DEF Solo
LEMMA SoloStatus ==
    ASSUME Inv, Solo, Alone, NEW s \in Sessions, NEW o \in Orders, order[o].placed,
           NEW st \in Statuses \ {"none", "failed"},
           order' = [order EXCEPT ![o].status = st], Finish(s), UNCHANGED <<coupon, panel>>,
           st = "completed" => panel[o] = "completed",
           order[o].refunded > 0 /\ panel[o] = "failed" => st \in TERMINAL_STATUSES
    PROVE  Solo'
<1>1. order \in [Orders -> RowType] /\ order[o] \in RowType /\ SoloRow(o)
  BY Types DEF Inv, Solo
<1>2. PICK row : row = [order[o] EXCEPT !.status = st]
  OBVIOUS
<1>3. /\ row \in RowType /\ row.status = st /\ row.posts = order[o].posts
      /\ row.owner = order[o].owner /\ row.refunded = order[o].refunded
      /\ order' = [order EXCEPT ![o] = row]
  BY <1>1, <1>2 DEF RowType
<1>4. order'[o] = row
  BY <1>1, <1>3
<1>5. SoloRow(o)'
  BY <1>1, <1>3, <1>4 DEF SoloRow
<1> QED BY <1>3, <1>5, SoloWrite

LEMMA SoloCredit ==
    ASSUME Inv, Solo, Alone, NEW s \in Sessions, NEW o \in Orders, order[o].placed,
           NEW n \in Int, NEW post \in Posts, NEW status \in Statuses \ {"none", "review", "pending"},
           order' = [order EXCEPT ![o] = Credited(o, post, n, status)],
           Finish(s), UNCHANGED <<coupon, panel>>,
           status \notin {"completed", "failed"},
           panel[o] = "failed" => status \in TERMINAL_STATUSES
    PROVE  Solo'
<1>1. order \in [Orders -> RowType] /\ SoloRow(o)
  BY Types DEF Inv, Solo
<1> DEFINE row == Credited(o, post, n, status)
<1>2. status \in Statuses
  OBVIOUS
<1>3. /\ row \in RowType /\ row.status = status
      /\ row.owner = order[o].owner /\ row.placed
      /\ row.posts = IF Credits(o, post, n) THEN order[o].posts \cup {post}
                     ELSE order[o].posts
      /\ row.refunded = IF Credits(o, post, n) THEN order[o].refunded + n
                        ELSE order[o].refunded
  <2>1. IsCredited(row, o, post, n, status)
    BY ONLY Inv, order[o].placed, <1>2, CreditedRow, Zenon
  <2> QED BY <2>1, Zenon DEF IsCredited
<1>4. order' = [order EXCEPT ![o] = row]
  OBVIOUS
<1> HIDE DEF row
<1>5. order'[o] = row /\ order[o].refunded \in Nat
  BY <1>1, <1>4 DEF RowType
<1>6. row.posts \cap Refunds # {} => row.refunded > 0
  <2>1. CASE Credits(o, post, n)
    BY <1>3, <1>5, <2>1 DEF Credits
  <2>2. CASE ~Credits(o, post, n)
    BY <1>1, <1>3, <2>2 DEF SoloRow
  <2> QED BY <2>1, <2>2
<1>7. SoloRow(o)'
  BY <1>1, <1>3, <1>5, <1>6 DEF SoloRow
<1> QED BY <1>3, <1>4, <1>7, SoloWrite

\* sync_order_status (orders.py:435-476).
LEMMA SoloSync ==
    ASSUME Inv, Solo, Alone, NEW s \in Sessions, SyncApply(s)
    PROVE  Solo'
<1>1. PICK o : o = sess[s].o
  OBVIOUS
<1>2. sess[s].at = "reported" /\ Working(sess[s])
  BY DEF SyncApply, SyncStatus, SyncCompleted, SyncPartial, SyncRefund, SyncApplies, Working
<1>3. /\ o \in Orders /\ order[o].placed /\ RowSound(o) /\ order[o] \in RowType
      /\ Charge[o] \in Nat \ {0} /\ order[o].refunded \in Nat /\ Owed(o) \in Nat
      /\ SessionSound(s, sess[s])
  BY <1>1, <1>2, WorkingFacts
<1>4. /\ order[o].status \notin TERMINAL_STATUSES /\ SoloRow(o)
      /\ StillReported(o, sess[s].report)
  BY <1>1, <1>2, <1>3 DEF Solo, SoloSession, SessionSound
<1>5. order[o].refunded > 0 => panel[o] # "failed"
  BY <1>4 DEF SoloRow
<1>6. CASE SyncStatus(s)
  <2>1. PICK st : st = sess[s].report
    OBVIOUS
  <2>2. st \in {"pending", "processing", "in_progress", "refunded"} /\ Finish(s)
        /\ order' = [order EXCEPT ![o].status = st] /\ UNCHANGED <<coupon, panel>>
    BY <1>1, <1>6, <2>1 DEF SyncStatus
  <2>3. st \in Statuses \ {"none", "failed"} /\ st # "completed"
    BY <2>2, PanelStatusesAre DEF Statuses
  <2> QED BY <1>3, <1>5, <2>2, <2>3, SoloStatus
<1>7. CASE SyncCompleted(s)
  <2>1. /\ Finish(s) /\ order' = [order EXCEPT ![o].status = "completed"]
        /\ UNCHANGED <<coupon, panel>> /\ panel[o] = "completed"
    BY <1>1, <1>4, <1>7 DEF SyncCompleted, SyncApplies, StillReported
  <2>2. "completed" \in Statuses \ {"none", "failed"}
    BY PanelStatusesAre DEF Statuses
  <2> QED BY <1>3, <2>1, <2>2, SoloStatus
<1>8. ASSUME NEW r \in Undelivered, SyncPartial(s, r)
      PROVE  Solo'
  <2>1. PICK n : n = Minimum(Minimum(r, Charge[o]), Owed(o))
    OBVIOUS
  <2>2. n \in Int /\ "partial" \in Posts /\ "partial" \in Statuses \ {"none", "review", "pending"}
    BY <1>3, <2>1, OrdersAssumption, PanelStatusesAre
       DEF OrdersAssumption, Minimum, Posts, Statuses
  <2>3. /\ order' = [order EXCEPT ![o] = Credited(o, "partial", n, "partial")]
        /\ Finish(s) /\ UNCHANGED <<coupon, panel>> /\ sess[s].report = "partial"
    BY <1>1, <1>8, <2>1 DEF SyncPartial, SyncApplies
  <2>4. panel[o] \in {"partial", "canceled"}
    BY <1>4, <2>3 DEF StillReported
  <2> QED BY <1>3, <2>2, <2>3, <2>4, SoloCredit
<1>9. ASSUME NEW st \in {"canceled", "failed"}, SyncRefund(s, st)
      PROVE  Solo'
  <2>1. PICK post : post = IF st = "canceled" THEN "refund-canceled" ELSE "refund-failed"
    OBVIOUS
  <2>2. PICK status : status = IF Credits(o, post, Owed(o)) THEN "refunded" ELSE st
    OBVIOUS
  <2>3. /\ order' = [order EXCEPT ![o] = Credited(o, post, Owed(o), status)]
        /\ Finish(s) /\ UNCHANGED <<coupon, panel>> /\ panel[o] = st
    BY <1>1, <1>4, <1>9, <2>1, <2>2 DEF SyncRefund, SyncApplies, StillReported
  <2>4. post \in Posts /\ post \in Refunds
    BY <2>1 DEF Posts, Refunds
  <2>5. st = "failed" => status = "refunded"
    <3>1. ASSUME st = "failed"
          PROVE  Credits(o, post, Owed(o))
      <4>1. order[o].refunded = 0
        BY <1>3, <1>5, <2>3, <3>1
      <4>2. order[o].posts \cap Refunds = {}
        BY <1>4, <4>1 DEF SoloRow
      <4> QED BY <1>3, <2>4, <4>1, <4>2 DEF Credits, Owed
    <3> QED BY <2>2, <3>1
  <2>6. /\ status \in Statuses \ {"none", "review", "pending"}
        /\ status \notin {"completed", "failed"} /\ status \in TERMINAL_STATUSES
    BY <2>2, <2>5, PanelStatusesAre DEF Statuses, TERMINAL_STATUSES
  <2>7. PICK n : n = Owed(o)
    OBVIOUS
  <2>8. n \in Int /\ order' = [order EXCEPT ![o] = Credited(o, post, n, status)]
    BY <1>3, <2>3, <2>7
  <2>9. o \in Orders /\ order[o].placed /\ Finish(s) /\ UNCHANGED <<coupon, panel>>
    BY <1>3, <2>3
  <2> QED BY ONLY Inv, Solo, Alone, s \in Sessions, <2>4, <2>6, <2>8, <2>9, SoloCredit, Zenon
<1> QED BY <1>6, <1>7, <1>8, <1>9 DEF SyncApply

\* request_cancel and request_refill (orders.py:583-614, 655-700).
LEMMA SoloCancelRefill ==
    ASSUME Inv, Solo, Alone, NEW s \in Sessions,
           CancelCredit(s) \/ CancelRelease(s) \/ RefillCommit(s)
    PROVE  Solo'
<1>1. PICK o : o = sess[s].o
  OBVIOUS
<1>2. Working(sess[s])
  BY DEF CancelCredit, CancelRelease, RefillCommit, Working, Canceling
<1>3. /\ o \in Orders /\ order[o].placed /\ order[o] \in RowType
      /\ SessionSound(s, sess[s]) /\ sess[s] \in SessionType
      /\ sess \in [Sessions -> SessionType] /\ order \in [Orders -> RowType]
      /\ SoloRow(o) /\ SoloSession(sess[s])
  BY <1>1, <1>2, WorkingFacts, Types DEF Solo, Inv
<1>4. CASE CancelCredit(s)
  <2>1. PICK n : n = sess[s].owed
    OBVIOUS
  <2>2. /\ order' = [order EXCEPT ![o] = Credited(o, "refund-cancel", n, "canceled")]
        /\ Finish(s) /\ UNCHANGED <<coupon, panel>> /\ panel[o] = "canceled" /\ n \in Int
    BY <1>1, <1>3, <1>4, <2>1 DEF CancelCredit, SessionSound, SessionType
  <2>3. "canceled" \in Statuses \ {"none", "review", "pending"} /\ "refund-cancel" \in Posts
    BY PanelStatusesAre DEF Statuses, Posts
  <2> QED BY <1>3, <2>2, <2>3, SoloCredit
<1>5. CASE CancelRelease(s)
  <2>1. PICK row : row = [order[o] EXCEPT !.status = "canceled", !.posts = @ \cup {"release-cancel"}]
    OBVIOUS
  <2>2. /\ order' = [order EXCEPT ![o].status = "canceled", ![o].posts = @ \cup {"release-cancel"}]
        /\ Finish(s) /\ UNCHANGED <<coupon, panel>>
    BY <1>1, <1>5 DEF CancelRelease
  <2>3. /\ row \in RowType /\ row.status = "canceled" /\ row.owner = order[o].owner
        /\ row.posts = order[o].posts \cup {"release-cancel"}
        /\ row.refunded = order[o].refunded /\ order' = [order EXCEPT ![o] = row]
    BY <1>3, <2>1, <2>2, PanelStatusesAre DEF RowType, Statuses, Posts
  <2>4. order'[o] = row
    BY <1>3, <2>3
  <2>5. SoloRow(o)'
    BY <1>3, <2>2, <2>3, <2>4 DEF SoloRow, Refunds, TERMINAL_STATUSES
  <2> QED BY <1>3, <2>2, <2>3, <2>5, SoloWrite
<1>6. CASE RefillCommit(s)
  <2>1. /\ Finish(s) /\ UNCHANGED <<coupon, panel>>
        /\ order' = [order EXCEPT ![o].status = "refilling"] \/ UNCHANGED order
    BY <1>1, <1>6 DEF RefillCommit
  <2>2. order[o].status \in {"completed", "partial"}
    BY <1>1, <1>3, <1>6 DEF RefillCommit, SoloSession, REFILLABLE_STATUSES
  <2>3. ~(order[o].refunded > 0 /\ panel[o] = "failed") /\ "refilling" \in Statuses \ {"none", "failed"}
    BY <1>3, <2>2 DEF SoloRow, TERMINAL_STATUSES, Statuses
  <2>4. CASE order' = [order EXCEPT ![o].status = "refilling"]
    BY <1>3, <2>1, <2>3, <2>4, SoloStatus
  <2>5. CASE UNCHANGED order
    <3>1. \A p \in Orders : SoloRow(p)'
      BY <2>1, <2>5 DEF Solo, SoloRow
    <3> QED BY <1>3, <2>1, <2>5, <3>1, SoloIdle, SoloQuiet DEF Finish
  <2> QED BY <2>1, <2>4, <2>5
<1> QED BY <1>4, <1>5, <1>6
\* resolve_review_order --release gives the coupon use back (orders.py:170-186, 326-349).
LEMMA SoloRelease ==
    ASSUME Inv, Solo, Alone, NEW s \in Sessions, ResolveRelease(s)
    PROVE  Solo'
<1>1. PICK o : o = sess[s].o
  OBVIOUS
<1>2. /\ sess[s].at = "resolving" /\ coupon' = CouponReturned(o) /\ UNCHANGED panel
      /\ order' = [order EXCEPT ![o].status = "failed", ![o].posts = @ \cup {"release"}]
      /\ sess' = [sess EXCEPT ![s] = Idle]
  BY <1>1 DEF ResolveRelease, Finish
<1>3. /\ o \in Orders /\ RowSound(o) /\ order \in [Orders -> RowType] /\ TypeOK
      /\ sess \in [Sessions -> SessionType] /\ coupon \in [used : Nat, by : SUBSET Orders]
      /\ order[o].status = "review"
  BY <1>1, <1>2, ResolvingFacts, Types DEF Inv, Solo, SoloSession
<1>4. order[o].posts \cap Refunds = {} /\ order[o].refunded = 0
  BY <1>3 DEF RowSound, Refunds
<1>5. /\ \A p \in Orders : order'[p].owner = order[p].owner
      /\ \A p \in Orders : p # o => order'[p] = order[p]
      /\ order'[o].status = "failed" /\ order'[o].posts = order[o].posts \cup {"release"}
      /\ order'[o].refunded = 0
  BY <1>2, <1>3, <1>4 DEF RowType
<1>6. coupon'.by = coupon.by \ {o}
  BY <1>2, <1>3 DEF CouponReturned
<1>7. coupon'.used = Cardinality(coupon'.by) /\ Cardinality(coupon'.by) <= Cardinality(coupon.by)
  <2>1. /\ IsFiniteSet(coupon.by) /\ Cardinality(coupon.by) \in Nat
        /\ coupon.used = Cardinality(coupon.by)
    BY <1>3, Redemptions DEF Solo
  <2>2. CASE o \in coupon.by
    <3>1. /\ Cardinality(coupon.by \ {o}) = Cardinality(coupon.by) - 1
          /\ Cardinality(coupon.by \ {o}) \in Nat
      BY <2>1, <2>2, FS_RemoveElement, FS_CardinalityType
    <3> QED BY <1>2, <1>6, <2>1, <2>2, <3>1 DEF CouponReturned
  <2>3. CASE o \notin coupon.by
    BY <1>2, <2>1, <2>3 DEF CouponReturned
  <2> QED BY <2>2, <2>3
<1>8. ASSUME NEW u \in Users
      PROVE  Cardinality({p \in coupon'.by : order'[p].owner = u})
               <= Cardinality({p \in coupon.by : order[p].owner = u})
  <2> DEFINE A == {p \in coupon'.by : order'[p].owner = u}
             B == {p \in coupon.by : order[p].owner = u}
  <2>1. A \subseteq B
    BY <1>3, <1>5, <1>6
  <2>2. IsFiniteSet(B)
    BY <1>3, Redemptions
  <2> HIDE DEF A, B
  <2>3. Cardinality(A) <= Cardinality(B)
    BY <2>1, <2>2, FS_Subset
  <2> QED BY <2>3 DEF A, B
<1>9. CouponWithinLimits'
  <2>1. /\ Cardinality(coupon.by) \in Nat /\ Cardinality(coupon.by) <= MaxUses
        /\ Cardinality(coupon'.by) \in Nat /\ MaxUses \in Nat /\ PerUserLimit \in Nat
    BY <1>3, <1>6, Redemptions, FS_Subset, FS_CardinalityType, OrdersAssumption
       DEF Solo, CouponWithinLimits, OrdersAssumption
  <2>2. TypeOK'
    BY ResolveReleaseStep DEF Inv
  <2>3. ASSUME NEW u \in Users
        PROVE  Cardinality({p \in coupon'.by : order'[p].owner = u}) <= PerUserLimit
    <3>1. /\ Cardinality({p \in coupon.by : order[p].owner = u}) \in Nat
          /\ Cardinality({p \in coupon.by : order[p].owner = u}) <= PerUserLimit
      BY <1>3, Redemptions DEF Solo, CouponWithinLimits
    <3>2. Cardinality({p \in coupon'.by : order'[p].owner = u}) \in Nat
      <4> DEFINE A == {p \in coupon'.by : order'[p].owner = u}
      <4>1. A \subseteq coupon.by /\ IsFiniteSet(coupon.by)
        BY <1>3, <1>6, Redemptions
      <4> HIDE DEF A
      <4>2. Cardinality(A) \in Nat
        BY <4>1, FS_Subset, FS_CardinalityType
      <4> QED BY <4>2 DEF A
    <3> DEFINE m == Cardinality({p \in coupon'.by : order'[p].owner = u})
               n == Cardinality({p \in coupon.by : order[p].owner = u})
    <3>3. m \in Nat /\ n \in Nat /\ m <= n /\ n <= PerUserLimit
      BY <1>8, <3>1, <3>2
    <3> HIDE DEF m, n
    <3>4. m <= PerUserLimit
      BY <2>1, <3>3
    <3> QED BY <3>4 DEF m
  <2> QED BY <1>7, <2>1, <2>3 DEF CouponWithinLimits
<1>10. ASSUME NEW p \in Orders
       PROVE  SoloRow(p)'
  <2>1. SoloRow(p)
    BY DEF Solo
  <2>2. CASE p = o
    <3>1. order'[o].posts \cap Refunds = {} /\ o \notin coupon'.by
      BY <1>4, <1>5, <1>6 DEF Refunds
    <3> QED BY <1>5, <2>2, <3>1 DEF SoloRow
  <2>3. CASE p # o
    BY <1>2, <1>5, <1>6, <2>1, <2>3 DEF SoloRow
  <2> QED BY <2>2, <2>3
<1>11. ASSUME NEW t \in Sessions
       PROVE  SoloSession(sess[t])'
  <2>1. sess'[t] = Idle
    BY <1>2, <1>3 DEF Alone
  <2> QED BY <2>1, IdleTyped DEF SoloSession, Placing, Canceling
<1> QED BY <1>7, <1>9, <1>10, <1>11 DEF Solo

\* resolve_review_order --attach (orders.py:312-349).
LEMMA SoloAttach ==
    ASSUME Inv, Solo, Alone, NEW s \in Sessions, ResolveAttach(s)
    PROVE  Solo'
<1>1. PICK o : o = sess[s].o
  OBVIOUS
<1>2. /\ sess[s].at = "resolving" /\ Finish(s) /\ UNCHANGED <<coupon, panel>>
      /\ \/ UNCHANGED order
         \/ order' = [order EXCEPT ![o].status = "processing", ![o].placed = TRUE,
                                   ![o].posts = @ \cup {"capture"}]
  BY <1>1 DEF ResolveAttach
<1>3. /\ o \in Orders /\ RowSound(o) /\ order \in [Orders -> RowType]
      /\ sess \in [Sessions -> SessionType] /\ order[o].status = "review" /\ SoloRow(o)
  BY <1>1, <1>2, ResolvingFacts, Types DEF Inv, Solo, SoloSession
<1>4. CASE UNCHANGED order
  <2>1. \A p \in Orders : SoloRow(p)'
    BY <1>2, <1>4 DEF Solo, SoloRow
  <2> QED BY <1>2, <1>3, <1>4, <2>1, SoloIdle, SoloQuiet DEF Finish
<1>5. CASE order' = [order EXCEPT ![o].status = "processing", ![o].placed = TRUE,
                                  ![o].posts = @ \cup {"capture"}]
  <2>1. PICK row : row = [order[o] EXCEPT !.status = "processing", !.placed = TRUE,
                                          !.posts = @ \cup {"capture"}]
    OBVIOUS
  <2>2. /\ row \in RowType /\ row.status = "processing" /\ row.owner = order[o].owner
        /\ row.posts = order[o].posts \cup {"capture"} /\ row.refunded = order[o].refunded
        /\ order' = [order EXCEPT ![o] = row]
    <3>1. order[o] \in RowType
      BY <1>3
    <3>2. row \in RowType
      BY <2>1, <3>1, PanelStatusesAre DEF RowType, Statuses, Posts
    <3>3. /\ row.status = "processing" /\ row.owner = order[o].owner
          /\ row.posts = order[o].posts \cup {"capture"} /\ row.refunded = order[o].refunded
      BY <2>1, <3>1 DEF RowType
    <3>4. order' = [order EXCEPT ![o] = row]
      BY <1>3, <1>5, <2>1
    <3> QED BY <3>2, <3>3, <3>4
  <2>3. order'[o] = row
    BY <1>3, <2>2
  <2>4. order[o].refunded = 0
    BY <1>3 DEF RowSound
  <2>5. SoloRow(o)'
    <3>1. row.posts \cap Refunds = {}
      <4>1. order[o].posts \cap Refunds = {}
        BY <1>3, <2>4 DEF SoloRow
      <4> QED BY <2>2, <4>1 DEF Refunds
    <3> QED BY <1>2, <2>2, <2>3, <2>4, <3>1 DEF SoloRow
  <2> QED BY <1>2, <1>3, <2>2, <2>5, SoloWrite
<1> QED BY <1>2, <1>4, <1>5
\* place_order ends: the redemption is the order's, counted once (orders.py:280-398,
\* pricing.py:206-230).
LEMMA SoloPlaceEnds ==
    ASSUME Inv, Solo, Alone, NEW s \in Sessions,
           PlaceAccepted(s) \/ PlaceReview(s) \/ PlaceFailed(s)
    PROVE  Solo'
<1>1. PICK o, u : o = sess[s].o /\ u = sess[s].user
  OBVIOUS
<1>2. PICK status, posts, placed :
        /\ PlaceCommit(s, PlacedRow(s, status, posts, placed))
        /\ posts \in {{"reserve", "capture"}, {"reserve"}, {"reserve", "release"}}
        /\ \/ status \in {"processing", "review"} /\ coupon' = CouponConsumed(s)
           \/ /\ status = "failed"
              /\ coupon' = IF sess[s].coupon THEN [coupon EXCEPT !.used = sess[s].used] ELSE coupon
  BY DEF PlaceAccepted, PlaceReview, PlaceFailed
<1>3. PICK row : row = PlacedRow(s, status, posts, placed)
  OBVIOUS
<1>4. row.status = status /\ row.owner = u /\ row.posts = posts /\ row.refunded = 0
  BY <1>1, <1>3 DEF PlacedRow
<1>5. /\ order' = [order EXCEPT ![o] = row] /\ sess' = [sess EXCEPT ![s] = Idle]
      /\ UNCHANGED panel
  BY <1>1, <1>2, <1>3 DEF PlaceCommit, Finish
<1>6. Placing(sess[s])
  BY DEF PlaceAccepted, PlaceReview, PlaceFailed, Placing
<1>7. /\ TypeOK /\ order \in [Orders -> RowType] /\ sess \in [Sessions -> SessionType]
      /\ coupon \in [used : Nat, by : SUBSET Orders] /\ sess[s] \in SessionType
      /\ o \in Orders /\ u \in Users /\ order[o].status = "none"
  BY <1>1, <1>6, Types DEF Inv, SessionSound
<1>8. /\ o \notin coupon.by /\ sess[s].used = coupon.used
      /\ sess[s].coupon => CouponUsable(u)
  BY <1>1, <1>6, <1>7 DEF Solo, SoloRow, SoloSession
<1>9. order'[o] = row /\ \A p \in Orders : p # o => order'[p] = order[p]
  BY <1>5, <1>7
<1>10. \/ coupon' = coupon
       \/ /\ coupon'.used = coupon.used + 1 /\ coupon'.by = coupon.by \cup {o}
          /\ status # "failed" /\ CouponUsable(u)
  <2>1. CASE status = "failed"
    <3>1. [coupon EXCEPT !.used = sess[s].used] = coupon
      BY <1>7, <1>8
    <3> QED BY <1>2, <2>1, <3>1
  <2>2. CASE status # "failed"
    BY <1>1, <1>2, <1>8, <2>2 DEF CouponConsumed
  <2> QED BY <2>1, <2>2
<1>11. /\ IsFiniteSet(coupon.by) /\ coupon.used = Cardinality(coupon.by)
       /\ Cardinality(coupon.by) \in Nat /\ CouponWithinLimits
       /\ MaxUses \in Nat /\ PerUserLimit \in Nat
  BY <1>7, Redemptions, OrdersAssumption DEF Solo, OrdersAssumption
<1>12. coupon'.used = Cardinality(coupon'.by) /\ Cardinality(coupon'.by) <= MaxUses
  <2>1. CASE coupon' = coupon
    BY <1>11, <2>1 DEF CouponWithinLimits
  <2>2. CASE /\ coupon'.used = coupon.used + 1 /\ coupon'.by = coupon.by \cup {o}
             /\ CouponUsable(u)
    <3>1. Cardinality(coupon.by \cup {o}) = Cardinality(coupon.by) + 1
      BY <1>8, <1>11, FS_AddElement
    <3>2. coupon.used < MaxUses
      BY <2>2 DEF CouponUsable
    <3> QED BY <1>11, <2>2, <3>1, <3>2
  <2> QED BY <1>10, <2>1, <2>2
<1>13. ASSUME NEW v \in Users
       PROVE  Cardinality({p \in coupon'.by : order'[p].owner = v}) <= PerUserLimit
  <2> DEFINE A == {p \in coupon'.by : order'[p].owner = v}
             B == {p \in coupon.by : order[p].owner = v}
  <2>1. \A p \in coupon.by : p \in Orders /\ p # o /\ order'[p] = order[p]
    BY <1>7, <1>8, <1>9
  <2>2. Cardinality(B) \in Nat /\ Cardinality(B) <= PerUserLimit /\ IsFiniteSet(B)
    BY <1>7, <1>11, Redemptions DEF CouponWithinLimits
  <2>3. CASE coupon' = coupon
    <3>1. A = B
      BY <2>1, <2>3
    <3> QED BY <2>2, <3>1
  <2>4. CASE coupon'.by = coupon.by \cup {o} /\ CouponUsable(u) /\ v # u
    <3>1. A = B
      BY <1>4, <1>9, <2>1, <2>4
    <3> QED BY <2>2, <3>1
  <2>5. CASE coupon'.by = coupon.by \cup {o} /\ CouponUsable(u) /\ v = u
    <3>1. A = B \cup {o} /\ o \notin B
      BY <1>4, <1>8, <1>9, <2>1, <2>5
    <3>2. Cardinality(B) < PerUserLimit
      BY <2>5 DEF CouponUsable
    <3> HIDE DEF A, B
    <3>3. Cardinality(A) = Cardinality(B) + 1
      BY <2>2, <3>1, FS_AddElement
    <3>4. Cardinality(A) <= PerUserLimit
      BY <1>11, <2>2, <3>2, <3>3
    <3> QED BY <3>4 DEF A
  <2> QED BY <1>10, <2>3, <2>4, <2>5
<1>14. ASSUME NEW p \in Orders
       PROVE  SoloRow(p)'
  <2>1. SoloRow(p)
    BY DEF Solo
  <2>2. CASE p = o
    <3>1. row.posts \cap Refunds = {}
      BY <1>2, <1>4 DEF Refunds
    <3>2. o \in coupon'.by => row.status \notin {"none", "failed"}
      BY <1>2, <1>4, <1>8, <1>10
    <3>3. row.status # "completed"
      BY <1>2, <1>4
    <3> QED BY <1>4, <1>9, <2>2, <3>1, <3>2, <3>3 DEF SoloRow
  <2>3. CASE p # o
    <3>1. order'[p] = order[p] /\ (p \in coupon'.by <=> p \in coupon.by) /\ panel' = panel
      BY <1>5, <1>9, <1>10, <2>3
    <3> QED BY <2>1, <3>1 DEF SoloRow
  <2> QED BY <2>2, <2>3
<1>15. ASSUME NEW t \in Sessions
       PROVE  SoloSession(sess[t])'
  <2>1. sess'[t] = Idle
    BY <1>5, <1>7 DEF Alone
  <2> QED BY <2>1, IdleTyped DEF SoloSession, Placing, Canceling
<1>16. CouponWithinLimits'
  BY <1>12, <1>13 DEF CouponWithinLimits
<1> QED BY <1>12, <1>14, <1>15, <1>16 DEF Solo
\* Reads, waits and refusals, and a process that dies.
LEMMA SoloReads ==
    ASSUME Inv, Solo, Alone, NEW s \in Sessions,
           \/ \E u \in Users, k \in Keys, c \in Coupons : PlaceQuote(s, u, k, c)
           \/ PlaceReplay(s) \/ PlaceRefuse(s) \/ PlaceReserve(s) \/ Crash(s)
           \/ \E reply \in {"ok", "timeout", "refused"} : PanelDeclines(s, reply)
           \/ \E o \in Orders : SyncLoad(s, o) \/ CancelLoad(s, o) \/ RefillLoad(s, o)
                                  \/ ResolveLoad(s, o)
           \/ SyncReport(s) \/ SyncUnavailable(s) \/ CancelCount(s)
    PROVE  Solo'
<1>1. /\ sess \in [Sessions -> SessionType] /\ sess[s] \in SessionType
      /\ order \in [Orders -> RowType] /\ MaxOrders \in Nat /\ SoloSession(sess[s])
  BY Types, OrdersAssumption DEF Inv, OrdersAssumption, Solo
<1>2. ASSUME NEW r, Enter(s, r), SoloSession(r), UNCHANGED <<order, coupon, panel>>
      PROVE  Solo'
  <2>1. \A o \in Orders : SoloRow(o)'
    BY <1>2 DEF Solo, SoloRow
  <2> QED BY <1>1, <1>2, <2>1, SoloQuiet DEF Enter
<1>3. ASSUME NEW u \in Users, NEW k \in Keys, NEW c \in Coupons, PlaceQuote(s, u, k, c)
      PROVE  Solo'
  <2>1. PICK r : r = [Session("quoted", u, 0, "none") EXCEPT !.key = k, !.coupon = c]
    OBVIOUS
  <2>2. r.at = "quoted" /\ r.user = u /\ r.coupon = c
    BY <2>1 DEF Session, Idle
  <2>3. SoloSession(r)
    <3>1. c => CouponUsable(u)
      BY <1>3, Zenon DEF PlaceQuote
    <3>2. r.coupon => CouponUsable(r.user)
      BY <2>2, <3>1, Zenon
    <3> QED BY <2>2, <3>2, Zenon DEF SoloSession, Placing, Canceling
  <2>4. Enter(s, r) /\ UNCHANGED <<order, coupon, panel>>
    BY <1>3, <2>1, Zenon DEF PlaceQuote
  <2> QED BY <1>2, <2>3, <2>4
<1>4. CASE PlaceReserve(s)
  <2>1. PICK r : r = [sess[s] EXCEPT !.at = "calling", !.o = nextId, !.used = coupon.used]
    OBVIOUS
  <2>2. /\ r.at = "calling" /\ r.user = sess[s].user /\ r.coupon = sess[s].coupon
        /\ r.used = coupon.used
    BY <1>1, <2>1 DEF SessionType
  <2>3. SoloSession(r)
    BY <1>1, <1>4, <2>2 DEF PlaceReserve, SoloSession, Placing, Canceling
  <2> QED BY <1>2, <1>4, <2>1, <2>3 DEF PlaceReserve
<1>5. ASSUME NEW reply \in {"ok", "timeout", "refused"}, PanelDeclines(s, reply)
      PROVE  Solo'
  <2>1. PICK r : r = [sess[s] EXCEPT !.at = "answered", !.report = reply]
    OBVIOUS
  <2>2. /\ r.at = "answered" /\ r.user = sess[s].user /\ r.coupon = sess[s].coupon
        /\ r.used = sess[s].used
    BY <1>1, <2>1 DEF SessionType
  <2>3. SoloSession(r)
    BY <1>1, <1>5, <2>2 DEF PanelDeclines, SoloSession, Placing, Canceling
  <2> QED BY <1>2, <1>5, <2>1, <2>3 DEF PanelDeclines
<1>6. ASSUME NEW o \in Orders, SyncLoad(s, o) \/ CancelLoad(s, o) \/ RefillLoad(s, o)
      PROVE  Solo'
  <2>1. PICK at, u : /\ at \in {"syncing", "canceling", "refilling"}
                     /\ Enter(s, Session(at, u, o, order[o].status))
                     /\ u = order[o].owner
                     /\ at = "syncing" => order[o].status \notin TERMINAL_STATUSES
                     /\ at = "canceling" => order[o].status \in CANCELABLE_STATUSES
                     /\ at = "refilling" => order[o].status \in REFILLABLE_STATUSES
    BY <1>6 DEF SyncLoad, CancelLoad, RefillLoad, Syncable
  <2>2. PICK r : r = Session(at, u, o, order[o].status)
    OBVIOUS
  <2>3. r.at = at /\ r.o = o
    BY <2>2 DEF Session, Idle
  <2>4. SoloSession(r)
    BY <2>1, <2>3 DEF SoloSession, Placing, Canceling
  <2> QED BY <1>2, <1>6, <2>1, <2>2, <2>4 DEF SyncLoad, CancelLoad, RefillLoad
<1>7. ASSUME NEW o \in Orders, ResolveLoad(s, o)
      PROVE  Solo'
  <2>1. PICK r : r = [Session("resolving", order[o].owner, o, "review") EXCEPT
                        !.report = IF panel[o] = None THEN "release" ELSE "attach"]
    OBVIOUS
  <2>2. r.at = "resolving" /\ r.o = o
    BY <2>1 DEF Session, Idle
  <2>3. SoloSession(r)
    BY <1>7, <2>2 DEF ResolveLoad, SoloSession, Placing, Canceling
  <2> QED BY <1>2, <1>7, <2>1, <2>3 DEF ResolveLoad
<1>8. CASE SyncReport(s)
  <2>1. CASE Finish(s)
    BY <1>2, <1>8, <2>1, SoloIdle DEF SyncReport, Finish, Enter
  <2>2. CASE Enter(s, [sess[s] EXCEPT !.at = "reported", !.report = panel[sess[s].o]])
    <3>1. PICK r : r = [sess[s] EXCEPT !.at = "reported", !.report = panel[sess[s].o]]
      OBVIOUS
    <3>2. r.at = "reported" /\ r.o = sess[s].o
      BY <1>1, <3>1 DEF SessionType
    <3>3. SoloSession(r)
      BY <1>1, <1>8, <3>2 DEF SyncReport, SoloSession, Placing, Canceling
    <3> QED BY <1>2, <1>8, <2>2, <3>1, <3>3 DEF SyncReport
  <2> QED BY <1>8, <2>1, <2>2 DEF SyncReport
<1>9. CASE CancelCount(s)
  <2>1. PICK r : r = [sess[s] EXCEPT !.at = "counted", !.owed = Owed(sess[s].o)]
    OBVIOUS
  <2>2. r.at = "counted" /\ r.o = sess[s].o
    BY <1>1, <2>1 DEF SessionType
  <2>3. SoloSession(r)
    BY <1>1, <1>9, <2>2 DEF CancelCount, SoloSession, Placing, Canceling
  <2> QED BY <1>2, <1>9, <2>1, <2>3 DEF CancelCount
<1>10. CASE PlaceReplay(s) \/ PlaceRefuse(s) \/ SyncUnavailable(s) \/ Crash(s)
  BY <1>2, <1>10, SoloIdle DEF PlaceReplay, PlaceRefuse, SyncUnavailable, Crash, Finish, Enter
<1> QED BY <1>3, <1>4, <1>5, <1>6, <1>7, <1>8, <1>9, <1>10

\* Another row of the panel's.
LEMMA SoloPanelRow ==
    ASSUME Inv, Solo, NEW o \in Orders, NEW st, panel' = [panel EXCEPT ![o] = st],
           UNCHANGED <<order, coupon>>, order[o].status # "completed",
           st = "failed" => order[o].refunded = 0
    PROVE  \A p \in Orders : SoloRow(p)'
<1>1. panel \in [Orders -> PanelStatuses \cup {None}]
  BY Types DEF Inv
<1>2. panel'[o] = st /\ \A p \in Orders : p # o => panel'[p] = panel[p]
  BY <1>1
<1>3. ASSUME NEW p \in Orders
      PROVE  SoloRow(p)'
  <2>1. SoloRow(p) /\ order' = order /\ coupon' = coupon
    BY DEF Solo
  <2>2. CASE p = o
    BY <1>2, <2>1, <2>2 DEF SoloRow
  <2>3. CASE p # o
    BY <1>2, <2>1, <2>3 DEF SoloRow
  <2> QED BY <2>2, <2>3
<1> QED BY <1>3

\* The panel takes the order that is being placed.
LEMMA SoloAccepts ==
    ASSUME Inv, Solo, Alone, NEW s \in Sessions, NEW reply, PanelAccepts(s, reply)
    PROVE  Solo'
<1>1. PICK o : o = sess[s].o
  OBVIOUS
<1>2. PICK st \in {"pending", "processing"} \cap Reports : panel' = [panel EXCEPT ![o] = st]
  BY <1>1 DEF PanelAccepts
<1>3. PICK r : r = [sess[s] EXCEPT !.at = "answered", !.report = reply]
  OBVIOUS
<1>4. /\ sess[s].at = "calling" /\ sess' = [sess EXCEPT ![s] = r]
      /\ UNCHANGED <<order, coupon>> /\ sess \in [Sessions -> SessionType]
  BY <1>3, Types DEF PanelAccepts, Enter, Inv
<1>5. o \in Orders /\ order[o].status = "none" /\ SoloSession(sess[s])
      /\ sess[s] \in SessionType
  BY <1>1, <1>4 DEF Inv, Solo, SessionSound, Placing
<1>6. \A p \in Orders : SoloRow(p)'
  BY <1>2, <1>4, <1>5, SoloPanelRow
<1>7. /\ r.at = "answered" /\ r.user = sess[s].user /\ r.coupon = sess[s].coupon
      /\ r.used = sess[s].used
  BY <1>3, <1>5 DEF SessionType
<1>8. SoloSession(r)
  BY <1>4, <1>5, <1>7 DEF SoloSession, Placing, Canceling
<1> QED BY <1>4, <1>6, <1>8, SoloQuiet

\* What the panel does changes nothing a handler relies on.
LEMMA SoloPanel ==
    ASSUME Inv, Solo, Alone,
           \/ \E o \in Orders : PanelAdvance(o)
           \/ \E s \in Sessions :
                \/ \E reply \in {"ok", "timeout", "refused"} : PanelAccepts(s, reply)
                \/ CancelConfirmed(s) \/ CancelRefused(s)
    PROVE  Solo'
<1>1. /\ sess \in [Sessions -> SessionType] /\ order \in [Orders -> RowType]
      /\ panel \in [Orders -> PanelStatuses \cup {None}]
  BY Types DEF Inv
<1>2. ASSUME NEW o \in Orders, PanelAdvance(o)
      PROVE  Solo'
  <2>1. PICK st \in Later[panel[o]] \cap Reports : panel' = [panel EXCEPT ![o] = st]
    BY <1>2 DEF PanelAdvance
  <2>2. panel[o] # None /\ UNCHANGED <<order, coupon, sess>> /\ panel[o] \in PanelStatuses
    BY <1>1, <1>2 DEF PanelAdvance
  <2>3. Later[panel[o]] # {} /\ (panel[o] = "partial" => st = "canceled")
        /\ panel[o] \notin {"completed", "canceled", "failed", "refunded"}
    BY <2>1, <2>2, PanelStatusesAre DEF Later, Ended, PanelStatuses
  <2>4. order[o].status # "completed" /\ (st = "failed" => order[o].refunded = 0)
    <3>1. SoloRow(o) /\ RowSound(o) /\ order[o].refunded \in Nat
      BY <1>1 DEF Inv, Solo, RowType
    <3> QED BY <2>3, <3>1 DEF SoloRow, RowSound
  <2>5. \A p \in Orders : SoloRow(p)'
    BY <2>1, <2>2, <2>4, SoloPanelRow
  <2>6. \A t \in Sessions : SoloSession(sess[t])'
    BY <2>2 DEF Solo, SoloSession, CouponUsable, Placing, Canceling
  <2> QED BY <2>2, <2>5, <2>6 DEF Solo, CouponWithinLimits
<1>3. ASSUME NEW s \in Sessions, CancelConfirmed(s) \/ CancelRefused(s)
      PROVE  Solo'
  <2>1. PICK o : o = sess[s].o
    OBVIOUS
  <2>2. sess[s].at = "canceling" /\ UNCHANGED <<order, coupon>>
        /\ (UNCHANGED panel \/ panel' = [panel EXCEPT ![o] = "canceled"])
    BY <1>3, <2>1 DEF CancelConfirmed, CancelRefused
  <2>3. o \in Orders /\ SoloSession(sess[s]) /\ sess[s] \in SessionType
    BY <1>1, <2>1, <2>2, WorkingFacts DEF Solo, Working, Canceling
  <2>4. order[o].status # "completed"
    BY <2>1, <2>2, <2>3 DEF SoloSession, Canceling, CANCELABLE_STATUSES
  <2>5. \A p \in Orders : SoloRow(p)'
    <3>1. CASE UNCHANGED panel
      BY <2>2, <3>1 DEF Solo, SoloRow
    <3>2. CASE panel' = [panel EXCEPT ![o] = "canceled"]
      BY <2>2, <2>3, <2>4, <3>2, SoloPanelRow
    <3> QED BY <2>2, <3>1, <3>2
  <2>6. PICK r : r = [sess[s] EXCEPT !.at = "confirmed"]
    OBVIOUS
  <2>7. r.at = "confirmed" /\ r.o = sess[s].o
    BY <2>3, <2>6 DEF SessionType
  <2>8. SoloSession(r)
    BY <2>2, <2>3, <2>7 DEF SoloSession, Placing, Canceling
  <2>9. sess' = [sess EXCEPT ![s] = r] \/ sess' = [sess EXCEPT ![s] = Idle]
    BY <1>3, <2>6 DEF CancelConfirmed, CancelRefused, RefusalEnds, Finish, Enter
  <2> QED BY <1>1, <2>2, <2>5, <2>8, <2>9, SoloIdle, SoloQuiet
<1> QED BY <1>2, <1>3, SoloAccepts
LEMMA SoloStep == Inv /\ Solo /\ Alone /\ [Next]_vars => Solo'
<1> SUFFICES ASSUME Inv, Solo, Alone, [Next]_vars
             PROVE  Solo'
  OBVIOUS
<1>1. ASSUME NEW s \in Sessions, Place(s)
      PROVE  Solo'
  BY <1>1, SoloReads, SoloAccepts, SoloPlaceEnds DEF Place
<1>2. ASSUME NEW s \in Sessions, Sync(s)
      PROVE  Solo'
  BY <1>2, SoloReads, SoloSync DEF Sync
<1>3. ASSUME NEW s \in Sessions, Cancel(s)
      PROVE  Solo'
  BY <1>3, SoloReads, SoloPanel, SoloCancelRefill DEF Cancel
<1>4. ASSUME NEW s \in Sessions, Refill(s)
      PROVE  Solo'
  BY <1>4, SoloReads, SoloCancelRefill DEF Refill
<1>5. ASSUME NEW s \in Sessions, Resolve(s)
      PROVE  Solo'
  BY <1>5, SoloReads, SoloRelease, SoloAttach DEF Resolve
<1>6. CASE UNCHANGED vars
  BY <1>6 DEF vars, Solo, SoloRow, SoloSession, CouponUsable, CouponWithinLimits,
              Placing, Canceling
<1> QED BY <1>1, <1>2, <1>3, <1>4, <1>5, <1>6, SoloPanel, SoloReads DEF Next

LEMMA SoloInvariance ==
    ASSUME Alone
    PROVE  Spec => []Solo
<1>1. Inv /\ Solo /\ [Next]_vars => Solo'
  BY SoloStep
<1> QED BY <1>1, SoloInit, Invariance, PTL DEF Spec

\* One handler at a time, used_count counts the redemptions and no redemption belongs
\* to an order that failed, whatever fails or is released (orders.py:170-186, 338-349).
THEOREM CouponCounted ==
    ASSUME Alone
    PROVE  Spec => []CouponCountExact
<1>1. Inv /\ Solo => CouponCountExact
  <2> SUFFICES ASSUME Inv, Solo
               PROVE  CouponCountExact
    OBVIOUS
  <2>1. coupon.by \subseteq Orders
    BY DEF Inv, TypeOK
  <2> QED BY <2>1 DEF Solo, SoloRow, CouponCountExact
<1> QED BY <1>1, SoloInvariance, Invariance, PTL

\* One handler at a time, a coupon is used at most MaxUses times, and at most
\* PerUserLimit times by a customer (pricing.py:211-222).
THEOREM CouponLimited ==
    ASSUME Alone
    PROVE  Spec => []CouponWithinLimits
<1>1. Solo => CouponWithinLimits
  BY DEF Solo
<1> QED BY <1>1, SoloInvariance, PTL
\* A step by which order o stays finished, or is not finished anyway.
StaysFinished(o) ==
    order[o].status \in TERMINAL_STATUSES =>
        \/ order'[o].status \in TERMINAL_STATUSES
        \/ order[o].status = "completed" /\ order'[o].status = "refilling"

\* Which rows a step may write, and with which status.
LEMMA OneRowWritten ==
    ASSUME Inv, NEW p \in Orders, NEW row, order' = [order EXCEPT ![p] = row],
           \/ order[p].status \notin TERMINAL_STATUSES
           \/ row.status \in TERMINAL_STATUSES
           \/ order[p].status = "completed" /\ row.status = "refilling"
    PROVE  \A o \in Orders : StaysFinished(o)
<1>1. order \in [Orders -> RowType]
  BY Types DEF Inv
<1>2. order'[p] = row /\ \A o \in Orders : o # p => order'[o] = order[o]
  BY <1>1
<1>3. ASSUME NEW o \in Orders
      PROVE  StaysFinished(o)
  <2>1. CASE o = p
    BY <1>2, <2>1 DEF StaysFinished
  <2>2. CASE o # p
    BY <1>2, <2>2 DEF StaysFinished
  <2> QED BY <2>1, <2>2
<1> QED BY <1>3

LEMMA FinishedStep ==
    ASSUME Inv, Solo, [Next]_vars
    PROVE  \A o \in Orders : StaysFinished(o)
<1>1. order \in [Orders -> RowType]
  BY Types DEF Inv
<1>2. CASE UNCHANGED order
  BY <1>2 DEF StaysFinished
<1>3. ASSUME NEW s \in Sessions, PlaceAccepted(s) \/ PlaceReview(s) \/ PlaceFailed(s)
      PROVE  \A o \in Orders : StaysFinished(o)
  <2>1. PICK p : p = sess[s].o
    OBVIOUS
  <2>2. \E row : order' = [order EXCEPT ![p] = row]
    BY <1>3, <2>1 DEF PlaceAccepted, PlaceReview, PlaceFailed, PlaceCommit
  <2>3. Placing(sess[s])
    BY <1>3 DEF PlaceAccepted, PlaceReview, PlaceFailed, Placing
  <2>4. p \in Orders /\ order[p].status = "none"
    BY <2>1, <2>3 DEF Inv, SessionSound
  <2> QED BY <2>2, <2>4, OneRowWritten DEF TERMINAL_STATUSES
<1>4. ASSUME NEW s \in Sessions, SyncApply(s)
      PROVE  \A o \in Orders : StaysFinished(o)
  <2>1. PICK p : p = sess[s].o
    OBVIOUS
  <2>2. sess[s].at = "reported" /\ Working(sess[s])
    BY <1>4 DEF SyncApply, SyncStatus, SyncCompleted, SyncPartial, SyncRefund, SyncApplies, Working
  <2>3. p \in Orders /\ order[p].status \notin TERMINAL_STATUSES
    BY <2>1, <2>2, WorkingFacts DEF Solo, SoloSession
  <2>4. CASE SyncStatus(s) \/ SyncCompleted(s)
    <3>1. \E st : order' = [order EXCEPT ![p].status = st]
      BY <2>1, <2>4 DEF SyncStatus, SyncCompleted
    <3>2. \E row : order' = [order EXCEPT ![p] = row]
      BY <3>1
    <3> QED BY <2>3, <3>2, OneRowWritten
  <2>5. CASE \/ \E r \in Undelivered : SyncPartial(s, r)
             \/ \E st \in {"canceled", "failed"} : SyncRefund(s, st)
    <3>1. \E post, n, st : order' = [order EXCEPT ![p] = Credited(p, post, n, st)]
      BY <2>1, <2>5 DEF SyncPartial, SyncRefund
    <3> QED BY <2>3, <3>1, OneRowWritten
  <2> QED BY <1>4, <2>4, <2>5 DEF SyncApply
<1>5. ASSUME NEW s \in Sessions, CancelCredit(s) \/ CancelRelease(s)
      PROVE  \A o \in Orders : StaysFinished(o)
  <2>1. PICK p : p = sess[s].o
    OBVIOUS
  <2>2. Working(sess[s])
    BY <1>5 DEF CancelCredit, CancelRelease, Working, Canceling
  <2>3. p \in Orders /\ order[p] \in RowType
    BY <2>1, <2>2, WorkingFacts
  <2>4. \E row : order' = [order EXCEPT ![p] = row] /\ row.status = "canceled"
    <3>1. CASE CancelCredit(s)
      <4>1. PICK row : row = Credited(p, "refund-cancel", sess[s].owed, "canceled")
        OBVIOUS
      <4>2. order' = [order EXCEPT ![p] = row]
        BY <2>1, <3>1, <4>1 DEF CancelCredit
      <4>3. row.status = "canceled"
        BY <2>3, <4>1 DEF Credited, RowType
      <4> QED BY <4>2, <4>3
    <3>2. CASE CancelRelease(s)
      <4>1. PICK row : row = [order[p] EXCEPT !.status = "canceled",
                                              !.posts = @ \cup {"release-cancel"}]
        OBVIOUS
      <4>2. order' = [order EXCEPT ![p].status = "canceled",
                                   ![p].posts = @ \cup {"release-cancel"}]
        BY <2>1, <3>2 DEF CancelRelease
      <4>3. row.status = "canceled"
        BY <2>3, <4>1 DEF RowType
      <4>4. order' = [order EXCEPT ![p] = row]
        BY <1>1, <2>3, <4>1, <4>2
      <4> QED BY <4>3, <4>4
    <3> QED BY <1>5, <3>1, <3>2
  <2> QED BY <2>3, <2>4, OneRowWritten DEF TERMINAL_STATUSES
<1>6. ASSUME NEW s \in Sessions, RefillCommit(s), order' # order
      PROVE  \A o \in Orders : StaysFinished(o)
  <2>1. PICK p : p = sess[s].o
    OBVIOUS
  <2>2. Working(sess[s]) /\ sess[s].at = "refilling"
    BY <1>6 DEF RefillCommit, Working
  <2>3. p \in Orders /\ order[p] \in RowType /\ order[p].status \in REFILLABLE_STATUSES
    BY <2>1, <2>2, WorkingFacts DEF Solo, SoloSession
  <2>4. PICK row : row = [order[p] EXCEPT !.status = "refilling"]
    OBVIOUS
  <2>5. order' = [order EXCEPT ![p] = row] /\ row.status = "refilling"
    BY <1>6, <2>1, <2>3, <2>4 DEF RefillCommit, RowType
  <2> QED BY <2>3, <2>5, OneRowWritten DEF TERMINAL_STATUSES, REFILLABLE_STATUSES
<1>7. ASSUME NEW s \in Sessions, ResolveRelease(s) \/ ResolveAttach(s), order' # order
      PROVE  \A o \in Orders : StaysFinished(o)
  <2>1. PICK p : p = sess[s].o
    OBVIOUS
  <2>2. sess[s].at = "resolving"
    BY <1>7 DEF ResolveRelease, ResolveAttach
  <2>3. p \in Orders /\ order[p].status = "review"
    BY <2>1, <2>2, ResolvingFacts DEF Solo, SoloSession
  <2>4. \E row : order' = [order EXCEPT ![p] = row]
    <3>1. CASE ResolveRelease(s)
      <4>1. order' = [order EXCEPT ![p].status = "failed", ![p].posts = @ \cup {"release"}]
        BY <2>1, <3>1 DEF ResolveRelease
      <4> DEFINE row == [order[p] EXCEPT !.status = "failed", !.posts = @ \cup {"release"}]
      <4>2. order' = [order EXCEPT ![p] = row]
        BY <1>1, <2>3, <4>1
      <4> QED BY <4>2
    <3>2. CASE ResolveAttach(s)
      <4>1. order' = [order EXCEPT ![p].status = "processing", ![p].placed = TRUE,
                                   ![p].posts = @ \cup {"capture"}]
        BY <1>7, <2>1, <3>2 DEF ResolveAttach
      <4> DEFINE row == [order[p] EXCEPT !.status = "processing", !.placed = TRUE,
                                         !.posts = @ \cup {"capture"}]
      <4>2. order' = [order EXCEPT ![p] = row]
        BY <1>1, <2>3, <4>1
      <4> QED BY <4>2
    <3> QED BY <1>7, <3>1, <3>2
  <2> QED BY <2>3, <2>4, OneRowWritten DEF TERMINAL_STATUSES
<1>8. ASSUME NEW s \in Sessions, Place(s)
      PROVE  \A o \in Orders : StaysFinished(o)
  BY <1>2, <1>3, <1>8 DEF Place, PlaceQuote, PlaceReplay, PlaceRefuse, PlaceReserve,
                          PanelAccepts, PanelDeclines
<1>9. ASSUME NEW s \in Sessions, Sync(s) \/ Cancel(s)
      PROVE  \A o \in Orders : StaysFinished(o)
  BY <1>2, <1>4, <1>5, <1>9 DEF Sync, SyncLoad, SyncReport, SyncUnavailable, Cancel,
                                CancelLoad, CancelConfirmed, CancelRefused, CancelCount
<1>10. ASSUME NEW s \in Sessions, Refill(s) \/ Resolve(s) \/ Crash(s)
       PROVE  \A o \in Orders : StaysFinished(o)
  BY <1>2, <1>6, <1>7, <1>10 DEF Refill, RefillLoad, Resolve, ResolveLoad, Crash
<1>11. CASE (\E o \in Orders : PanelAdvance(o)) \/ UNCHANGED vars
  BY <1>2, <1>11 DEF PanelAdvance, vars
<1> QED BY <1>8, <1>9, <1>10, <1>11 DEF Next

\* One handler at a time, a finished order stays finished, except that a completed
\* one may be refilled (orders.py:435, 553, 576).
THEOREM FinishedKept ==
    ASSUME Alone
    PROVE  Spec => FinishedStays
<1>1. Inv /\ Solo /\ [Next]_vars =>
        [\A o \in Orders : order[o].status \in TERMINAL_STATUSES =>
            \/ order'[o].status \in TERMINAL_STATUSES
            \/ order[o].status = "completed" /\ order'[o].status = "refilling"]_vars
  BY FinishedStep DEF StaysFinished
<1> QED BY <1>1, SoloInvariance, Invariance, PTL DEF Spec, FinishedStays
------------------------------------------------------------------------------
\* A key buys one order as long as no order fails: then the row with the key is found
\* under the customer's row lock, which place_order holds until its own row is there.
NoneFailed == \A o \in Orders : order[o].status # "failed"

Existing(o) == order[o].status # "none"
AskedBy(o, u, k) == Existing(o) /\ order[o].owner = u /\ order[o].asked = k

Keyed ==
    /\ \A o \in Orders : Existing(o) => order[o].key = order[o].asked
    /\ \A o, p \in Orders :
         Existing(o) /\ AskedBy(p, order[o].owner, order[o].asked) => o = p
    /\ \A s \in Sessions : Placing(sess[s]) =>
         \A o \in Orders : ~AskedBy(o, sess[s].user, sess[s].key)

\* Whose an order is and what it was asked under does not change.
SameOrder(o, row) ==
    /\ order[o].status # "none" /\ row.status # "none"
    /\ row.owner = order[o].owner /\ row.key = order[o].key /\ row.asked = order[o].asked
OrdersKept ==
    \A o \in Orders : /\ order'[o].status = "none" <=> order[o].status = "none"
                      /\ order'[o].owner = order[o].owner /\ order'[o].key = order[o].key
                      /\ order'[o].asked = order[o].asked

LEMMA RowKept ==
    ASSUME Inv, NEW p \in Orders, NEW row, SameOrder(p, row), order' = [order EXCEPT ![p] = row]
    PROVE  OrdersKept
<1>1. order \in [Orders -> RowType]
  BY Types DEF Inv
<1>2. ASSUME NEW o \in Orders
      PROVE  order'[o] = IF o = p THEN row ELSE order[o]
  BY <1>1
<1> QED BY <1>2 DEF OrdersKept, SameOrder

LEMMA StatusKept ==
    ASSUME Inv, NEW p \in Orders, order[p].status # "none", NEW st, st # "none",
           order' = [order EXCEPT ![p].status = st]
    PROVE  OrdersKept
<1>1. order[p] \in RowType /\ order \in [Orders -> RowType]
  BY Types DEF Inv
<1>2. PICK row : row = [order[p] EXCEPT !.status = st]
  OBVIOUS
<1>3. SameOrder(p, row)
  BY <1>1, <1>2 DEF RowType, SameOrder
<1>4. order' = [order EXCEPT ![p] = row]
  BY <1>1, <1>2
<1> QED BY <1>3, <1>4, RowKept

LEMMA CreditKept ==
    ASSUME Inv, NEW p \in Orders, order[p].status # "none", NEW post, NEW n, NEW st, st # "none",
           order' = [order EXCEPT ![p] = Credited(p, post, n, st)]
    PROVE  OrdersKept
<1>1. order[p] \in RowType
  BY Types DEF Inv
<1>2. PICK row : row = Credited(p, post, n, st)
  OBVIOUS
<1>3. SameOrder(p, row)
  <2>1. row = [order[p] EXCEPT !.status = st, !.posts = @ \cup {post}, !.refunded = @ + n]
          \/ row = [order[p] EXCEPT !.status = st]
    BY <1>2 DEF Credited
  <2> QED BY <1>1, <2>1 DEF RowType, SameOrder
<1> QED BY <1>2, <1>3, RowKept

LEMMA HandlersKeepOrders ==
    ASSUME Inv, [Next]_vars,
           ~ \E s \in Sessions : PlaceAccepted(s) \/ PlaceReview(s) \/ PlaceFailed(s)
    PROVE  OrdersKept
<1>1. CASE UNCHANGED order
  BY <1>1 DEF OrdersKept
<1>2. ASSUME NEW s \in Sessions, Working(sess[s]), NEW p, p = sess[s].o
      PROVE  p \in Orders /\ order[p].status # "none" /\ order[p] \in RowType
  BY <1>2, WorkingFacts DEF RowSound
<1>3. ASSUME NEW s \in Sessions, SyncApply(s)
      PROVE  OrdersKept
  <2>1. PICK p : p = sess[s].o
    OBVIOUS
  <2>2. sess[s].at = "reported" /\ Working(sess[s])
    BY <1>3 DEF SyncApply, SyncStatus, SyncCompleted, SyncPartial, SyncRefund, SyncApplies, Working
  <2>3. p \in Orders /\ order[p].status # "none"
    BY <1>2, <2>1, <2>2
  <2>4. CASE SyncStatus(s) \/ SyncCompleted(s)
    <3>1. PICK st \in {"pending", "processing", "in_progress", "refunded", "completed"} :
            order' = [order EXCEPT ![p].status = st]
      BY <2>1, <2>4 DEF SyncStatus, SyncCompleted
    <3> QED BY <2>3, <3>1, StatusKept
  <2>5. CASE \/ \E r \in Undelivered : SyncPartial(s, r)
             \/ \E st \in {"canceled", "failed"} : SyncRefund(s, st)
    <3>1. \E post, n : \E st \in {"partial", "canceled", "failed", "refunded"} :
            order' = [order EXCEPT ![p] = Credited(p, post, n, st)]
      BY <2>1, <2>5 DEF SyncPartial, SyncRefund
    <3> QED BY <2>3, <3>1, CreditKept
  <2> QED BY <1>3, <2>4, <2>5 DEF SyncApply
<1>4. ASSUME NEW s \in Sessions, CancelCredit(s)
      PROVE  OrdersKept
  <2>1. PICK p : p = sess[s].o
    OBVIOUS
  <2>2. Working(sess[s])
    BY <1>4 DEF CancelCredit, Working, Canceling
  <2>3. order' = [order EXCEPT ![p] = Credited(p, "refund-cancel", sess[s].owed, "canceled")]
    BY <1>4, <2>1 DEF CancelCredit
  <2> QED BY <1>2, <2>1, <2>2, <2>3, CreditKept
<1>5. ASSUME NEW s \in Sessions, CancelRelease(s)
      PROVE  OrdersKept
  <2>1. PICK p : p = sess[s].o
    OBVIOUS
  <2>2. Working(sess[s])
    BY <1>5 DEF CancelRelease, Working, Canceling
  <2>3. p \in Orders /\ order[p].status # "none" /\ order[p] \in RowType
    BY <1>2, <2>1, <2>2
  <2>4. PICK row : row = [order[p] EXCEPT !.status = "canceled", !.posts = @ \cup {"release-cancel"}]
    OBVIOUS
  <2>5. SameOrder(p, row)
    BY <2>3, <2>4 DEF RowType, SameOrder
  <2>6. order' = [order EXCEPT ![p] = row]
    <3>1. order' = [order EXCEPT ![p].status = "canceled", ![p].posts = @ \cup {"release-cancel"}]
      BY <1>5, <2>1 DEF CancelRelease
    <3>2. order \in [Orders -> RowType]
      BY Types DEF Inv
    <3> QED BY <2>3, <2>4, <3>1, <3>2
  <2> QED BY <2>3, <2>5, <2>6, RowKept
<1>6. ASSUME NEW s \in Sessions, RefillCommit(s), order' # order
      PROVE  OrdersKept
  <2>1. PICK p : p = sess[s].o
    OBVIOUS
  <2>2. Working(sess[s])
    BY <1>6 DEF RefillCommit, Working
  <2>3. order' = [order EXCEPT ![p].status = "refilling"]
    BY <1>6, <2>1 DEF RefillCommit
  <2> QED BY <1>2, <2>1, <2>2, <2>3, StatusKept
<1>7. ASSUME NEW s \in Sessions, ResolveRelease(s) \/ ResolveAttach(s), order' # order
      PROVE  OrdersKept
  <2>1. PICK p : p = sess[s].o
    OBVIOUS
  <2>2. sess[s].at = "resolving"
    BY <1>7 DEF ResolveRelease, ResolveAttach
  <2>3. /\ p \in Orders /\ order[p].status # "none" /\ order[p] \in RowType
        /\ order \in [Orders -> RowType]
    BY <2>1, <2>2, ResolvingFacts, Types DEF Inv
  <2>4. CASE ResolveRelease(s)
    <3>1. order' = [order EXCEPT ![p].status = "failed", ![p].posts = @ \cup {"release"}]
      BY <2>1, <2>4 DEF ResolveRelease
    <3>2. PICK row : row = [order[p] EXCEPT !.status = "failed", !.posts = @ \cup {"release"}]
      OBVIOUS
    <3>3. order' = [order EXCEPT ![p] = row]
      BY <2>3, <3>1, <3>2
    <3>4. SameOrder(p, row)
      BY <2>3, <3>2 DEF RowType, SameOrder
    <3> QED BY <2>3, <3>3, <3>4, RowKept
  <2>5. CASE ResolveAttach(s)
    <3>1. order' = [order EXCEPT ![p].status = "processing", ![p].placed = TRUE,
                                 ![p].posts = @ \cup {"capture"}]
      BY <1>7, <2>1, <2>5 DEF ResolveAttach
    <3>2. PICK row : row = [order[p] EXCEPT !.status = "processing", !.placed = TRUE,
                                            !.posts = @ \cup {"capture"}]
      OBVIOUS
    <3>3. order' = [order EXCEPT ![p] = row]
      BY <2>3, <3>1, <3>2
    <3>4. SameOrder(p, row)
      BY <2>3, <3>2 DEF RowType, SameOrder
    <3> QED BY <2>3, <3>3, <3>4, RowKept
  <2> QED BY <1>7, <2>4, <2>5
<1>8. ASSUME NEW s \in Sessions, Place(s)
      PROVE  OrdersKept
  BY <1>1, <1>8 DEF Place, PlaceQuote, PlaceReplay, PlaceRefuse, PlaceReserve,
                    PanelAccepts, PanelDeclines
<1>9. ASSUME NEW s \in Sessions, Sync(s) \/ Cancel(s)
      PROVE  OrdersKept
  BY <1>1, <1>3, <1>4, <1>5, <1>9 DEF Sync, SyncLoad, SyncReport, SyncUnavailable, Cancel,
                                      CancelLoad, CancelConfirmed, CancelRefused, CancelCount
<1>10. ASSUME NEW s \in Sessions, Refill(s) \/ Resolve(s) \/ Crash(s)
       PROVE  OrdersKept
  BY <1>1, <1>6, <1>7, <1>10 DEF Refill, RefillLoad, Resolve, ResolveLoad, Crash
<1>11. CASE (\E o \in Orders : PanelAdvance(o)) \/ UNCHANGED vars
  BY <1>1, <1>11 DEF PanelAdvance, vars
<1> QED BY <1>8, <1>9, <1>10, <1>11 DEF Next
\* A session places an order from PlaceReserve on, for the customer and the key it has.
LEMMA PlacingBegins ==
    ASSUME Inv, [Next]_vars, NEW t \in Sessions, Placing(sess[t])'
    PROVE  \/ PlaceReserve(t)
           \/ Placing(sess[t]) /\ sess'[t].user = sess[t].user /\ sess'[t].key = sess[t].key
<1> DEFINE Goal == \/ PlaceReserve(t)
                   \/ /\ Placing(sess[t]) /\ sess'[t].user = sess[t].user
                      /\ sess'[t].key = sess[t].key
<1>1. sess \in [Sessions -> SessionType] /\ order \in [Orders -> RowType] /\ MaxOrders \in Nat
  BY Types, OrdersAssumption DEF Inv, OrdersAssumption
<1>2. CASE UNCHANGED sess
  BY <1>2 DEF Placing
<1>3. ASSUME NEW s \in Sessions, NEW r, Enter(s, r), r.at \notin {"calling", "answered"}
      PROVE  Goal
  <2>1. s # t
    BY <1>1, <1>3 DEF Enter, Placing
  <2> QED BY <1>1, <1>3, <2>1 DEF Enter, Placing
<1>4. ASSUME NEW s \in Sessions, Finish(s)
      PROVE  Goal
  BY <1>3, <1>4, IdleTyped DEF Finish, Enter
<1>5. ASSUME NEW s \in Sessions, NEW reply, PanelAccepts(s, reply) \/ PanelDeclines(s, reply)
      PROVE  Goal
  <2>1. PICK r : r = [sess[s] EXCEPT !.at = "answered", !.report = reply]
    OBVIOUS
  <2>2. sess[s].at = "calling" /\ sess' = [sess EXCEPT ![s] = r]
    BY <1>5, <2>1 DEF PanelAccepts, PanelDeclines, Enter
  <2>3. sess[s] \in SessionType
    BY <1>1
  <2>4. r.user = sess[s].user /\ r.key = sess[s].key
    BY <2>1, <2>3 DEF SessionType
  <2> QED BY <1>1, <2>2, <2>4 DEF Placing
<1>6. ASSUME NEW s \in Sessions, PlaceReserve(s)
      PROVE  Goal
  BY <1>1, <1>6 DEF PlaceReserve, Enter, Placing
<1>7. ASSUME NEW s \in Sessions, NEW u \in Users, NEW k \in Keys, NEW c \in Coupons,
             PlaceQuote(s, u, k, c)
      PROVE  Goal
  <2>1. PICK r : r = [Session("quoted", u, 0, "none") EXCEPT !.key = k, !.coupon = c]
    OBVIOUS
  <2>2. r.at = "quoted"
    BY <2>1 DEF Session, Idle
  <2>3. Enter(s, r)
    BY <1>7, <2>1, Zenon DEF PlaceQuote
  <2> QED BY <1>3, <2>2, <2>3
<1>8. ASSUME NEW s \in Sessions, Place(s)
      PROVE  Goal
  <2>1. CASE PlaceAccepted(s) \/ PlaceReview(s) \/ PlaceFailed(s) \/ PlaceReplay(s) \/ PlaceRefuse(s)
    BY <1>4, <2>1 DEF PlaceAccepted, PlaceReview, PlaceFailed, PlaceCommit, PlaceReplay, PlaceRefuse
  <2> QED BY <1>5, <1>6, <1>7, <1>8, <2>1 DEF Place
<1>9. ASSUME NEW s \in Sessions, NEW o \in Orders,
             SyncLoad(s, o) \/ CancelLoad(s, o) \/ RefillLoad(s, o) \/ ResolveLoad(s, o)
      PROVE  Goal
  <2>1. PICK at, r : /\ Enter(s, r) /\ at \in {"syncing", "canceling", "refilling", "resolving"}
                     /\ \/ r = Session(at, order[o].owner, o, order[o].status)
                        \/ r = [Session("resolving", order[o].owner, o, "review") EXCEPT
                                  !.report = IF panel[o] = None THEN "release" ELSE "attach"]
    BY <1>9 DEF SyncLoad, CancelLoad, RefillLoad, ResolveLoad
  <2>2. r.at \in {"syncing", "canceling", "refilling", "resolving"}
    BY <2>1 DEF Session, Idle
  <2> QED BY <1>3, <2>1, <2>2
<1>10. ASSUME NEW s \in Sessions, SyncReport(s) \/ CancelConfirmed(s) \/ CancelRefused(s)
                                    \/ CancelCount(s)
       PROVE  Goal
  <2>1. sess[s] \in SessionType
    BY <1>1
  <2>2. \/ Finish(s)
        \/ \E report, owed : \E at \in {"reported", "confirmed", "counted"} :
             \/ Enter(s, [sess[s] EXCEPT !.at = at, !.report = report])
             \/ Enter(s, [sess[s] EXCEPT !.at = at])
             \/ Enter(s, [sess[s] EXCEPT !.at = at, !.owed = owed])
    BY <1>10 DEF SyncReport, CancelConfirmed, CancelRefused, RefusalEnds, CancelCount
  <2>3. ASSUME NEW r, Enter(s, r),
               NEW at \in {"reported", "confirmed", "counted"}, NEW report, NEW owed,
               \/ r = [sess[s] EXCEPT !.at = at, !.report = report]
               \/ r = [sess[s] EXCEPT !.at = at]
               \/ r = [sess[s] EXCEPT !.at = at, !.owed = owed]
        PROVE  Goal
    <3>1. r.at = at
      BY <2>1, <2>3, Zenon DEF SessionType
    <3> QED BY <1>3, <2>3, <3>1
  <2> QED BY <1>4, <2>2, <2>3
<1>11. ASSUME NEW s \in Sessions, Sync(s) \/ Cancel(s) \/ Refill(s) \/ Resolve(s) \/ Crash(s)
       PROVE  Goal
  <2>1. CASE \/ SyncUnavailable(s) \/ SyncApply(s) \/ CancelCredit(s) \/ CancelRelease(s)
             \/ RefillCommit(s) \/ ResolveRelease(s) \/ ResolveAttach(s) \/ Crash(s)
    BY <1>4, <2>1, Zenon DEF SyncUnavailable, SyncApply, SyncStatus, SyncCompleted, SyncPartial,
       SyncRefund, CancelCredit, CancelRelease, RefillCommit, ResolveRelease, ResolveAttach, Crash
  <2> QED BY <1>9, <1>10, <1>11, <2>1 DEF Sync, Cancel, Refill, Resolve
<1>12. CASE (\E o \in Orders : PanelAdvance(o)) \/ UNCHANGED vars
  BY <1>2, <1>12 DEF PanelAdvance, vars
<1>13. \/ \E s \in Sessions : Place(s)
       \/ \E s \in Sessions : Sync(s) \/ Cancel(s) \/ Refill(s) \/ Resolve(s) \/ Crash(s)
       \/ (\E o \in Orders : PanelAdvance(o)) \/ UNCHANGED vars
  BY Zenon DEF Next
<1> QED BY <1>8, <1>11, <1>12, <1>13, Zenon

LEMMA KeyedStep == Inv /\ Keyed /\ NoneFailed /\ [Next]_vars => Keyed'
<1> SUFFICES ASSUME Inv, Keyed, NoneFailed, [Next]_vars
             PROVE  Keyed'
  OBVIOUS
<1>1. /\ order \in [Orders -> RowType] /\ sess \in [Sessions -> SessionType]
      /\ locked \in [Users -> Sessions \cup {None}] /\ None \notin Users
  BY Types, OrdersAssumption DEF Inv, OrdersAssumption
<1>2. ASSUME NEW t \in Sessions, PlaceReserve(t), NEW o \in Orders
      PROVE  ~AskedBy(o, sess[t].user, sess[t].key)
  <2>1. LiveOrders(sess[t].user, sess[t].key) = {}
    BY <1>2 DEF PlaceReserve
  <2>2. Existing(o) => order[o].key = order[o].asked /\ order[o].status # "failed"
    BY DEF Keyed, NoneFailed
  <2> QED BY <2>1, <2>2 DEF LiveOrders, ExistingOrders, AskedBy
<1>3. ASSUME NEW t \in Sessions, Placing(sess[t])'
      PROVE  \A o \in Orders : ~AskedBy(o, sess'[t].user, sess'[t].key)
  <2>1. CASE PlaceReserve(t)
    <3>1. sess'[t].user = sess[t].user /\ sess'[t].key = sess[t].key
      <4>1. sess[t] \in SessionType
        BY <1>1
      <4>2. sess'[t] = [sess[t] EXCEPT !.at = "calling", !.o = nextId, !.used = coupon.used]
        BY <1>1, <2>1 DEF PlaceReserve, Enter
      <4> QED BY <4>1, <4>2 DEF SessionType
    <3> QED BY <1>2, <2>1, <3>1
  <2>2. CASE Placing(sess[t]) /\ sess'[t].user = sess[t].user /\ sess'[t].key = sess[t].key
    BY <2>2 DEF Keyed
  <2> QED BY <1>3, <2>1, <2>2, PlacingBegins
<1>4. CASE ~ \E s \in Sessions : PlaceAccepted(s) \/ PlaceReview(s) \/ PlaceFailed(s)
  <2>1. OrdersKept
    BY <1>4, HandlersKeepOrders
  <2>2. ASSUME NEW o \in Orders
        PROVE  /\ Existing(o)' <=> Existing(o)
               /\ order'[o].owner = order[o].owner /\ order'[o].key = order[o].key
               /\ order'[o].asked = order[o].asked
    BY <2>1 DEF OrdersKept, Existing
  <2>3. ASSUME NEW t \in Sessions, Placing(sess[t])', NEW o \in Orders
        PROVE  ~AskedBy(o, sess[t].user, sess[t].key)'
    BY <1>3, <2>2, <2>3 DEF AskedBy
  <2>4. \A o \in Orders : Existing(o)' => order'[o].key = order'[o].asked
    BY <2>2 DEF Keyed
  <2>5. ASSUME NEW o \in Orders, NEW p \in Orders, Existing(o)',
               AskedBy(p, order[o].owner, order[o].asked)'
        PROVE  o = p
    BY <2>2, <2>5 DEF Keyed, AskedBy
  <2> QED BY <2>3, <2>4, <2>5 DEF Keyed
<1>5. ASSUME NEW s \in Sessions, PlaceAccepted(s) \/ PlaceReview(s) \/ PlaceFailed(s)
      PROVE  Keyed'
  <2>1. PICK q, u, k : q = sess[s].o /\ u = sess[s].user /\ k = sess[s].key
    OBVIOUS
  <2>2. PICK row : /\ order' = [order EXCEPT ![q] = row] /\ row.status # "none"
                   /\ row.owner = u /\ row.asked = k
                   /\ row.key = IF ExistingOrders(u, k) = {} THEN k ELSE None
    BY <1>5, <2>1 DEF PlaceAccepted, PlaceReview, PlaceFailed, PlaceCommit, PlacedRow
  <2>3. Placing(sess[s]) /\ sess' = [sess EXCEPT ![s] = Idle]
    BY <1>5 DEF PlaceAccepted, PlaceReview, PlaceFailed, PlaceCommit, Placing, Finish
  <2>4. q \in Orders /\ u \in Users /\ locked[u] = s /\ order[q].status = "none"
    BY <2>1, <2>3 DEF Inv, SessionSound
  <2>5. \A o \in Orders : ~AskedBy(o, u, k)
    BY <2>1, <2>3 DEF Keyed
  <2>6. ExistingOrders(u, k) = {}
    <3>1. ASSUME NEW o \in Orders, order[o].owner = u, order[o].key = k
          PROVE  FALSE
      <4>1. Existing(o)
        <5>1. order[o].status = "none" => order[o].owner = None
          BY DEF Inv, RowSound, NoOrder
        <5> QED BY <1>1, <2>4, <3>1, <5>1 DEF Existing
      <4> QED BY <2>5, <3>1, <4>1 DEF Keyed, AskedBy
    <3> QED BY <3>1 DEF ExistingOrders
  <2>7. /\ order'[q] = row /\ row.key = k
        /\ \A o \in Orders : o # q => order'[o] = order[o]
    BY <1>1, <2>2, <2>4, <2>6
  <2>8. ASSUME NEW t \in Sessions, Placing(sess[t])', NEW o \in Orders
        PROVE  ~AskedBy(o, sess[t].user, sess[t].key)'
    <3>1. t # s
      BY <1>1, <2>3, <2>8, IdleTyped DEF Placing
    <3>2. sess'[t] = sess[t] /\ Placing(sess[t])
      BY <1>1, <2>3, <2>8, <3>1 DEF Placing
    <3>3. sess[t].user # u
      BY <2>4, <3>1, <3>2 DEF Inv, SessionSound
    <3>4. ~AskedBy(o, sess'[t].user, sess'[t].key)
      BY <1>3, <2>8
    <3>5. CASE o = q
      BY <2>2, <2>7, <3>2, <3>3, <3>5 DEF AskedBy
    <3>6. CASE o # q
      BY <2>7, <3>4, <3>6 DEF AskedBy, Existing
    <3> QED BY <3>5, <3>6
  <2>9. ASSUME NEW o \in Orders, Existing(o)'
        PROVE  order'[o].key = order'[o].asked
    BY <2>2, <2>7, <2>9 DEF Keyed, Existing
  <2>10. ASSUME NEW o \in Orders, NEW p \in Orders, Existing(o)',
                AskedBy(p, order[o].owner, order[o].asked)'
         PROVE  o = p
    <3>1. CASE o # q /\ p # q
      BY <2>7, <2>10, <3>1 DEF Keyed, AskedBy, Existing
    <3>2. CASE o = q /\ p # q
      BY <2>2, <2>5, <2>7, <2>10, <3>2 DEF AskedBy, Existing
    <3>3. CASE o # q /\ p = q
      BY <2>2, <2>5, <2>7, <2>10, <3>3 DEF AskedBy, Existing
    <3> QED BY <3>1, <3>2, <3>3
  <2> QED BY <2>8, <2>9, <2>10 DEF Keyed
<1> QED BY <1>4, <1>5

\* Until an order fails, two requests under one key of a customer never become two
\* orders, however many sessions ask at once and whatever is lost: a key that was
\* bought with is found, under the lock, before another reservation (orders.py:256-276).
THEOREM OneOrderPerKey == Spec /\ []NoneFailed => []KeyPlacedOnce
<1>1. Init => Keyed
  <2> SUFFICES ASSUME Init
               PROVE  Keyed
    OBVIOUS
  <2>1. \A o \in Orders : ~Existing(o)
    BY DEF Init, Existing, NoOrder
  <2>2. \A s \in Sessions : ~Placing(sess[s])
    BY IdleTyped DEF Init, Placing
  <2> QED BY <2>1, <2>2 DEF Keyed, AskedBy
<1>2. Inv /\ Keyed => KeyPlacedOnce
  BY DEF Keyed, KeyPlacedOnce, AskedBy, Existing
<1> QED BY <1>1, <1>2, KeyedStep, Invariance, PTL DEF Spec
==============================================================================
