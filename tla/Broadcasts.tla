------------------------------ MODULE Broadcasts ------------------------------
(***************************************************************************)
(* app/cms: an admin queues broadcasts (service.create_broadcast), and     *)
(* runs of run_pending_broadcasts (broadcast_worker.py) deliver those that *)
(* are due, one after the other, each in a transaction that is committed   *)
(* only when the whole segment has been messaged: a crash or an error      *)
(* leaves the broadcast as it was, and the next run begins it again.       *)
(* Messages are grouped in batches for the counters.                       *)
(*                                                                         *)
(* A segment is the rows of a query.  "all" and "inactive_30d" read users; *)
(* "premium" and "vip" join user_premiums, so that a user with two active  *)
(* rows there is listed, messaged and counted twice.                       *)
(***************************************************************************)
EXTENDS Naturals, Sequences, FiniteSets, SequencesExt

CONSTANTS Users,      \* in id order: positive numbers
          Runs,       \* runs of the job at the same time
          BatchSize,  \* _BATCH_SIZE
          MaxTries,   \* _MAX_RETRIES
          MaxCasts,   \* bound: broadcasts queued
          MaxPlans,   \* bound, at least 1: active premium rows of a user
          MaxEdits,   \* bound: bans, unbans and changes of premium rows
          MaxCrashes  \* bound: runs that die or lose their connection

VARIABLES cast,    \* the broadcasts table, committed
          member,  \* users who are active, not banned (and, for inactive_30d, idle)
          plans,   \* per user: the active user_premiums rows of the segment's plans
          run,     \* the runs
          lock,    \* the run that holds the row of a broadcast
          reached, \* per broadcast: users who have its message (history)
          listing, \* per broadcast: the rows its last delivery read (history)
          result,  \* per broadcast: how it went with them so far (history)
          edits, crashes

vars == <<cast, member, plans, run, lock, reached, listing, result, edits, crashes>>

Casts == 1..MaxCasts
\* todo: broadcasts this run has loaded; at: "idle", "next", "send"; left: rows of
\* the segment still to message; tries: attempts for the first of them.
\* n: messages so far; sent, failed: as set on the loaded object; bsent, bfailed:
\* since the last batch.
Idle == [at |-> "idle", todo |-> <<>>, left |-> <<>>, tries |-> 0, n |-> 0,
         sent |-> 0, failed |-> 0, bsent |-> 0, bfailed |-> 0]
Nobody == "nobody"

Init ==
    /\ cast = <<>> /\ member = Users /\ plans = [u \in Users |-> 0]
    /\ run = [w \in Runs |-> Idle]
    /\ lock = [b \in Casts |-> Nobody]
    /\ reached = [b \in Casts |-> {}]
    /\ listing = [b \in Casts |-> <<>>] /\ result = [b \in Casts |-> <<>>]
    /\ edits = 0 /\ crashes = 0

------------------------------------------------------------------------------
\* Whom a broadcast is for: "all" (or "inactive_30d"), or "premium" (or "vip").
Segments == {"all", "premium"}

\* create_broadcast, committed by admin_broadcast_send.
CreateBroadcast ==
    /\ Len(cast) < MaxCasts
    /\ \E s \in Segments :
         cast' = Append(cast, [segment |-> s, status |-> "pending", sent |-> 0, failed |-> 0])
    /\ UNCHANGED <<member, plans, run, lock, reached, listing, result, edits, crashes>>

Edits == edits < MaxEdits /\ edits' = edits + 1

Ban ==
    /\ Edits
    /\ \E u \in Users : member' = IF u \in member THEN member \ {u} ELSE member \cup {u}
    /\ UNCHANGED <<cast, plans, run, lock, reached, listing, result, crashes>>

\* Premium rows are granted, cancelled and expire; a downgrade adds one to an active one.
Subscribe ==
    /\ Edits
    /\ \E u \in Users, n \in 0..MaxPlans : plans' = [plans EXCEPT ![u] = n]
    /\ UNCHANGED <<cast, member, run, lock, reached, listing, result, crashes>>

\* ORDER BY scheduled_at, which is how broadcasts are numbered here.
InOrder(ids) ==
    CHOOSE f \in [1..Cardinality(ids) -> ids] :
        ToSet(f) = ids /\ \A i, j \in DOMAIN f : i < j => f[i] < f[j]

\* run_pending_broadcasts: "running" is never committed, so pending it is.
Begin(w) ==
    /\ run[w].at = "idle"
    /\ LET due == {b \in DOMAIN cast : cast[b].status = "pending"} IN
         /\ due # {}
         /\ run' = [run EXCEPT ![w] = [Idle EXCEPT !.at = "next", !.todo = InOrder(due)]]
    /\ UNCHANGED <<cast, member, plans, lock, reached, listing, result, edits, crashes>>

\* _resolve_segment: the rows of the query, ORDER BY u.id.
Multiplicity(s, u) == IF u \notin member THEN 0 ELSE IF s = "premium" THEN plans[u] ELSE 1
ResolveSegment(s) ==
    {rows \in BoundedSeq(Users, Cardinality(Users) * MaxPlans) :
        /\ \A i, j \in DOMAIN rows : i < j => rows[i] <= rows[j]
        /\ \A u \in Users : Cardinality({i \in DOMAIN rows : rows[i] = u}) = Multiplicity(s, u)}

\* deliver_broadcast: the object is the one the run loaded, whatever was committed
\* since.  The flush of "running" waits for the row; the segment is read at once.
Deliver(w) ==
    LET b == Head(run[w].todo) IN
    /\ run[w].at = "next" /\ run[w].todo # <<>> /\ lock[b] = Nobody
    /\ lock' = [lock EXCEPT ![b] = w]
    /\ \E rows \in ResolveSegment(cast[b].segment) :
         /\ run' = [run EXCEPT ![w] = [Idle EXCEPT !.at = "send", !.todo = run[w].todo,
                                                   !.left = rows]]
         /\ listing' = [listing EXCEPT ![b] = rows]
    /\ result' = [result EXCEPT ![b] = <<>>]
    /\ UNCHANGED <<cast, member, plans, reached, edits, crashes>>

\* The counters after one more message: every BatchSize messages, those of the batch
\* are added to the object's and start again.
BatchKept(r) ==
    IF r.n % BatchSize # 0 THEN r
    ELSE [r EXCEPT !.sent = @ + r.bsent, !.failed = @ + r.bfailed]
NewBatch(r) ==
    IF r.n % BatchSize # 0 THEN r
    ELSE [r EXCEPT !.sent = @ + r.bsent, !.failed = @ + r.bfailed, !.bsent = 0, !.bfailed = 0]

Counted(w, ok) ==
    NewBatch([run[w] EXCEPT !.left = Tail(@), !.tries = 0, !.n = @ + 1,
                            !.bsent = IF ok THEN @ + 1 ELSE @,
                            !.bfailed = IF ok THEN @ ELSE @ + 1])

\* _send_with_retry: one attempt.  403 gives up; 429, another status or an exception
\* (the message may have arrived) is tried again up to MaxTries times.
Send(w) ==
    LET r == run[w]  b == Head(r.todo)  u == Head(r.left)
        Ends(ok) == /\ run' = [run EXCEPT ![w] = Counted(w, ok)]
                    /\ result' = [result EXCEPT ![b] = Append(@, IF ok THEN "sent" ELSE "failed")]
    IN
    /\ r.at = "send" /\ r.left # <<>>
    /\ \/ Ends(TRUE) /\ reached' = [reached EXCEPT ![b] = @ \cup {u}]
       \/ Ends(FALSE) /\ UNCHANGED reached
       \/ /\ IF r.tries + 1 < MaxTries
             THEN run' = [run EXCEPT ![w].tries = @ + 1] /\ UNCHANGED result
             ELSE Ends(FALSE)
          /\ \/ UNCHANGED reached
             \/ reached' = [reached EXCEPT ![b] = @ \cup {u}]
    /\ UNCHANGED <<cast, member, plans, lock, listing, edits, crashes>>

\* The final persist and the commit.  An UPDATE names the columns whose value differs
\* from the loaded one (a pending broadcast has no counts).
Column(new, old) == IF new = 0 THEN old ELSE new
Complete(w) ==
    LET r == run[w]  b == Head(r.todo) IN
    /\ r.at = "send" /\ r.left = <<>>
    /\ cast' = [cast EXCEPT ![b] = [cast[b] EXCEPT !.status = "completed",
                                    !.sent = Column(r.sent + r.bsent, @),
                                    !.failed = Column(r.failed + r.bfailed, @)]]
    /\ lock' = [lock EXCEPT ![b] = Nobody]
    /\ run' = [run EXCEPT ![w] = [Idle EXCEPT !.at = IF Len(r.todo) = 1 THEN "idle" ELSE "next",
                                              !.todo = Tail(r.todo)]]
    /\ UNCHANGED <<member, plans, reached, listing, result, edits, crashes>>

\* The process dies, or a statement fails: the transaction is rolled back.  The
\* handler of the error reads broadcast.id, expired by the rollback, and fails too,
\* so the run ends.
Crash(w) ==
    /\ run[w].at = "send" /\ crashes < MaxCrashes /\ crashes' = crashes + 1
    /\ lock' = [b \in Casts |-> IF lock[b] = w THEN Nobody ELSE lock[b]]
    /\ run' = [run EXCEPT ![w] = Idle]
    /\ UNCHANGED <<cast, member, plans, reached, listing, result, edits>>

Next ==
    \/ CreateBroadcast \/ Ban \/ Subscribe
    \/ \E w \in Runs : Begin(w) \/ Deliver(w) \/ Send(w) \/ Complete(w) \/ Crash(w)

Spec == Init /\ [][Next]_vars

------------------------------------------------------------------------------
\* Properties

\* What a completed broadcast reports is what its last delivery did: every row its segment
\* had when that delivery read it was tried and is counted once, and whoever is counted as
\* sent has the message, across batches, retries, bans, premium rows that come and go, and
\* deliveries begun again (one run at a time; broadcast_worker.py:58-160, 229-238).  A row
\* is a user, except that "premium" and "vip" have one for each active premium row.
CountsExact ==
    \A b \in DOMAIN cast :
        cast[b].status = "completed" =>
            /\ Len(result[b]) = Len(listing[b])
            /\ cast[b].sent = Cardinality({i \in DOMAIN result[b] : result[b][i] = "sent"})
            /\ cast[b].failed = Cardinality({i \in DOMAIN result[b] : result[b][i] = "failed"})
            /\ \A i \in DOMAIN result[b] : result[b][i] = "sent" => listing[b][i] \in reached[b]
==============================================================================
