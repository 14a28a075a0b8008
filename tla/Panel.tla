-------------------------------- MODULE Panel --------------------------------
(***************************************************************************)
(* app/providers/smmpromax.py over app/providers/base.py: how the second   *)
(* generation's adapter asks a panel about many orders (or many refills)   *)
(* at once.  The numbers are asked in chunks of _MAX_MULTI_STATUS; a panel *)
(* that refuses a batch is asked about each number of the chunk in turn,   *)
(* and goes on working between two requests.                               *)
(*                                                                         *)
(* Every request is one POST.  What _post makes of the answer:             *)
(*   "dict", "list"   JSON without an "error" entry                        *)
(*   "refused"        4xx, no JSON, {"error": ..}: ProviderResponseError   *)
(*   "down"           5xx, time-out, no connection:                        *)
(*                    ProviderUnavailableError (or, for any other failure  *)
(*                    of the transport, ProviderError; nobody treats the   *)
(*                    two differently here)                                *)
(* The decorator for retries, _retryable, is applied nowhere, so that no   *)
(* request is repeated.                                                    *)
(***************************************************************************)
EXTENDS Integers, Sequences, SequencesExt, FiniteSets

CONSTANTS
    MaxOrders,  \* bound: numbers the panel gives out
    Chunk,      \* _MAX_MULTI_STATUS and _MAX_MULTI_REFILL, both 100
    ShortLists, \* may a panel that answers with a list leave a number out?
    Misleading  \* may a panel decline a cancellation with a word that has "success" in it?

VARIABLES
    about,  \* "orders" or "refills": what the numbers stand for
    said,   \* number -> the panel's word for it, "none" before it exists
    known,  \* the numbers the adapter has returned to its callers
    job,    \* the call in progress, or the last one
    heard   \* number -> the words the panel has had for it since a call asked about it

panelVars == <<about, said, known, job, heard>>

Numbers == 1..MaxOrders

\* The words panels use that the program tells apart; "odd" is one it does not know.
Words == {"pending", "odd", "completed", "canceled", "error"}

\* The words that can come after a word.
Later(w) == CASE w = "pending" -> {"odd", "canceled", "error"}
              [] w = "odd" -> {"completed", "canceled"}
              [] OTHER -> {}

\* OrderStatus.from_provider_string: what is not in the map is still processing.
from_provider_string ==
    [pending |-> "pending", odd |-> "processing", none |-> "processing", completed |-> "completed",
     canceled |-> "cancelled", error |-> "failed"]

\* get_refill_status reads "fail" and "error" as failed, the batch only "fail".
RefillAlone ==
    [pending |-> "pending", odd |-> "pending", none |-> "pending", completed |-> "completed",
     canceled |-> "rejected", error |-> "failed"]
RefillInBatch == [RefillAlone EXCEPT !["error"] = "pending"]

InBatch(w) == IF about = "orders" THEN from_provider_string[w] ELSE RefillInBatch[w]
Alone(w) == IF about = "orders" THEN from_provider_string[w] ELSE RefillAlone[w]

\* A call that returns `found` or raises; ask is what it was asked, from the first number
\* whose chunk is still to be sent, alone the numbers of a refused chunk still to be asked.
Call(kind, ask, found, pc) ==
    [kind |-> kind, ask |-> ask, from |-> 1, alone |-> <<>>, found |-> found, pc |-> pc]

Idle == Call("none", <<>>, <<>>, "idle")
Free == job.pc = "idle"

Init ==
    /\ about \in {"orders", "refills"}
    /\ said = [n \in Numbers |-> "none"]
    /\ known = {}
    /\ job = Idle
    /\ heard = [n \in Numbers |-> {}]

-----------------------------------------------------------------------------
(* The panel.                                                              *)

Work(n) ==
    \E w \in Later(said[n]) :
        /\ said' = [said EXCEPT ![n] = w]
        /\ heard' = IF heard[n] = {} THEN heard ELSE [heard EXCEPT ![n] = @ \cup {w}]
        /\ UNCHANGED <<about, known, job>>

\* create_order, refill: the panel takes it and gives its number, or refuses.  An answer
\* without a number, or none, raises although the panel may have taken it.
Place(n) ==
    /\ Free /\ said[n] = "none"
    /\ \A k \in 1..(n - 1) : said[k] # "none"
    /\ \/ /\ said' = [said EXCEPT ![n] = "pending"]
          /\ known' = known \cup {n}
          /\ job' = Call("place", <<n>>, <<[id |-> n, status |-> "pending"]>>, "done")
       \/ /\ said' \in {said, [said EXCEPT ![n] = "pending"]}
          /\ job' = Call("place", <<n>>, <<>>, "raised")
          /\ UNCHANGED known
    /\ UNCHANGED <<about, heard>>

\* What the answer to a cancellation says: a list whose first entry has a dict under
\* "cancel", a list with anything else there, or one dict searched for "success".
CancelAnswers == {"listed success", "listed number", "success"}
DeclineAnswers == {"listed error", "refused"} \cup (IF Misleading THEN {"unsuccessful"} ELSE {})
SaysSuccess(a) == a \in {"listed success", "success", "unsuccessful"}

\* cancel: the panel cancels what is still open, or declines; the answer can be lost.
Cancel(n) ==
    /\ Free /\ about = "orders" /\ n \in known
    /\ \E ok \in {o \in BOOLEAN : o => Later(said[n]) # {}} :
        /\ said' = IF ok THEN [said EXCEPT ![n] = "canceled"] ELSE said
        /\ \/ \E a \in IF ok THEN CancelAnswers ELSE DeclineAnswers :
                job' = Call("cancel", <<n>>, IF SaysSuccess(a) THEN <<[id |-> n, status |-> "cancelled"]>>
                                             ELSE <<>>, "done")
           \/ job' = Call("cancel", <<n>>, <<>>, "raised")
    /\ UNCHANGED <<about, known, heard>>

\* get_services: of a list, the entries that are dicts with a number and a name.
Entries == {"whole", "nameless", "text"}
Fetch ==
    /\ Free
    /\ \/ \E listed \in BoundedSeq(Entries, 2) :
            LET kept == SelectSeq([k \in DOMAIN listed |-> <<k, listed[k]>>],
                                  LAMBDA e : e[2] = "whole")
            IN job' = Call("services", <<>>,
                           [k \in DOMAIN kept |-> [id |-> kept[k][1], status |-> "whole"]], "done")
       \/ job' = Call("services", <<>>, <<>>, "raised")
    /\ UNCHANGED <<about, said, known, heard>>

\* health_check: the balance as a probe.  It never raises: a panel that is down is "down",
\* one whose answer is refused, or has no number in it, "degraded".
Probe ==
    /\ Free
    /\ \E health \in {"healthy", "degraded", "down"} :
        job' = Call("probe", <<>>, <<[id |-> 0, status |-> health]>>, "done")
    /\ UNCHANGED <<about, said, known, heard>>

-----------------------------------------------------------------------------
(* get_multiple_order_status and get_multiple_refill_status.               *)

\* Nothing compares two numbers, so that the order they are named in may as well be theirs.
InOrder(ids) == {s \in SetToSeqs(ids) : \A i, j \in DOMAIN s : i < j => s[i] < s[j]}

Ask(ids) ==
    /\ Free
    /\ \E ask \in InOrder(ids) : job' = Call("batch", ask, <<>>, "batch")
    /\ heard' = [n \in Numbers |-> IF n \in ids THEN {said[n]} ELSE {}]
    /\ UNCHANGED <<about, said, known>>

\* chunk = provider_order_ids[i:i + _MAX_MULTI_STATUS]
ThisChunkAndNext == SubSeq(job.ask, job.from, Min({Len(job.ask), job.from + Chunk}))
ThisChunk == SubSeq(job.ask, job.from, Min({Len(job.ask), job.from + Chunk - 1}))

Sending == job.pc = "batch" /\ job.from <= Len(job.ask)

\* Entries for the numbers of a chunk; in a dict some may be missing, and get the default.
Named(missing) ==
    [k \in DOMAIN ThisChunk |->
        [id |-> ThisChunk[k],
         status |-> InBatch(IF ThisChunk[k] \in missing THEN "none" ELSE said[ThisChunk[k]])]]

\* A list is taken by position: it is the orders the panel chose to list.
Listed(order) ==
    [k \in 1..Len(order) |-> [id |-> ThisChunk[k], status |-> InBatch(said[order[k]])]]

Append_results(found) == job' = [job EXCEPT !.found = @ \o found, !.from = @ + Chunk]
Raise == job' = [job EXCEPT !.found = <<>>, !.pc = "raised"]

AnswerNamed == \E missing \in SUBSET ToSet(ThisChunk) : Append_results(Named(missing))

\* Only the status of orders may come as a list; on refills raw.get fails.
AnswerListed ==
    \/ about = "refills" /\ Raise
    \/ about = "orders" /\ Append_results(Listed(ThisChunk))
    \/ /\ about = "orders" /\ ShortLists
       /\ \E left \in SUBSET ToSet(ThisChunk) :
            Append_results(Listed(SelectSeq(ThisChunk, LAMBDA n : n \notin left)))

AnswerRefused == job' = [job EXCEPT !.alone = ThisChunk, !.from = @ + Chunk, !.pc = "alone"]

Send ==
    /\ Sending
    /\ AnswerNamed \/ AnswerListed \/ AnswerRefused \/ Raise
    /\ UNCHANGED <<about, said, known, heard>>

\* One number of a refused chunk; an answer without a status gets the default.  A refusal
\* skips the number; when the panel is down the whole call raises for orders, while for
\* refills every exception skips the number.
AskAlone ==
    /\ job.pc = "alone" /\ job.alone # <<>>
    /\ LET n == Head(job.alone)
           rest == [job EXCEPT !.alone = Tail(@)]
       IN \/ \E w \in {said[n], "none"} :
               job' = [rest EXCEPT !.found = Append(@, [id |-> n, status |-> Alone(w)])]
          \/ job' = rest
          \/ about = "orders" /\ Raise
    /\ UNCHANGED <<about, said, known, heard>>

NextChunk ==
    /\ job.pc = "alone" /\ job.alone = <<>>
    /\ job' = [job EXCEPT !.pc = "batch"]
    /\ UNCHANGED <<about, said, known, heard>>

Return ==
    /\ job.pc = "batch" /\ job.from > Len(job.ask)
    /\ job' = [job EXCEPT !.pc = "done"]
    /\ UNCHANGED <<about, said, known, heard>>

\* The caller has the result, or the exception.
Taken ==
    /\ job.pc \in {"done", "raised"}
    /\ job' = Idle
    /\ heard' = [n \in Numbers |-> {}]
    /\ UNCHANGED <<about, said, known>>

Next ==
    \/ \E n \in Numbers : Work(n) \/ Place(n) \/ Cancel(n)
    \/ \E ids \in (SUBSET known) \ {{}} : Ask(ids)
    \/ Fetch \/ Probe
    \/ Send \/ AskAlone \/ NextChunk \/ Return \/ Taken

Spec == Init /\ [][Next]_panelVars

-----------------------------------------------------------------------------
(* What callers rely on.                                                   *)

\* smmpromax.py:208-269, 316-363, 368-405: what a batch returns names each number at most
\* once, in the order asked, and says of it only what the panel had for it at some moment
\* of the call, or that it is still going; a completion or cancellation is never made up,
\* whatever chunks are refused, whatever is missing from an answer and however the panel
\* moves on between two requests.  And a cancellation is reported only if it took place.
HonestAnswers ==
    job.pc = "done" =>
        /\ job.kind = "batch" =>
            /\ \A j \in DOMAIN job.found : \E a \in DOMAIN job.ask : job.found[j].id = job.ask[a]
            /\ \A j, k \in DOMAIN job.found : j < k =>
                /\ job.found[j].id # job.found[k].id
                /\ \E a, b \in DOMAIN job.ask :
                    a < b /\ job.found[j].id = job.ask[a] /\ job.found[k].id = job.ask[b]
            /\ \A r \in ToSet(job.found) :
                r.status \in {InBatch("none")} \cup {InBatch(w) : w \in heard[r.id]}
                                              \cup {Alone(w) : w \in heard[r.id]}
        /\ job.kind = "cancel" => \A r \in ToSet(job.found) : said[r.id] = "canceled"
==============================================================================
