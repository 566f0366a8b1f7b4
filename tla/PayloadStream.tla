---------------------------- MODULE PayloadStream ----------------------------
(***************************************************************************)
(* What a payload job promises to its two consumers: the subscribers of    *)
(* the flashblock stream and the caller of engine_getPayload.  A payload   *)
(* is the index of the flashblock that completed it.                       *)
(*                                                                         *)
(*   - The stream is 0, 1, 2, ... without gaps or repetitions: stream[j]   *)
(*     counts the flashblocks published for job j.                         *)
(*   - best[j], the payload on offer, follows the stream one by one and    *)
(*     stays at most one published flashblock behind it.                   *)
(*   - The decision to publish a flashblock is only taken while the job is *)
(*     open; a flashblock already decided upon may leave after that.       *)
(*   - A closed job serves the payload on offer, once.                     *)
(***************************************************************************)
EXTENDS Integers

CONSTANT Jobs

Empty == -1

VARIABLES
    stream, \* flashblocks published
    best,   \* payload on offer
    armed,  \* the next publication has been decided upon
    closed, \* a newer job, getPayload or the deadline has ended the job
    served  \* the payload returned to the engine

vars == <<stream, best, armed, closed, served>>

TypeOK ==
    /\ stream \in [Jobs -> Nat]
    /\ best \in [Jobs -> Int]
    /\ armed \in [Jobs -> BOOLEAN]
    /\ closed \in [Jobs -> BOOLEAN]
    /\ served \in [Jobs -> Int]

\* The flashblock that belongs to the fallback block is decided upon with the
\* job.
Init ==
    /\ stream = [j \in Jobs |-> 0]
    /\ best = [j \in Jobs |-> Empty]
    /\ armed = [j \in Jobs |-> TRUE]
    /\ closed = [j \in Jobs |-> FALSE]
    /\ served = [j \in Jobs |-> Empty]

OfferFallback(j) ==
    /\ best[j] = Empty
    /\ best' = [best EXCEPT ![j] = 0]
    /\ UNCHANGED <<stream, armed, closed, served>>

Offer(j) ==
    /\ best[j] # Empty
    /\ stream[j] = best[j] + 2
    /\ best' = [best EXCEPT ![j] = @ + 1]
    /\ UNCHANGED <<stream, armed, closed, served>>

Decide(j) ==
    /\ ~closed[j]
    /\ ~armed[j]
    /\ best[j] # Empty
    /\ stream[j] = best[j] + 1
    /\ armed' = [armed EXCEPT ![j] = TRUE]
    /\ UNCHANGED <<stream, best, closed, served>>

Publish(j) ==
    /\ armed[j]
    /\ best[j] # Empty
    /\ stream' = [stream EXCEPT ![j] = @ + 1]
    /\ armed' = [armed EXCEPT ![j] = FALSE]
    /\ UNCHANGED <<best, closed, served>>

\* The build fails, or is one that publishes nothing.
GiveUp(j) ==
    /\ armed[j]
    /\ armed' = [armed EXCEPT ![j] = FALSE]
    /\ UNCHANGED <<stream, best, closed, served>>

\* As GiveUp, in the step that puts the fallback block on offer.
OfferOnly(j) ==
    /\ best[j] = Empty
    /\ best' = [best EXCEPT ![j] = 0]
    /\ armed' = [armed EXCEPT ![j] = FALSE]
    /\ UNCHANGED <<stream, closed, served>>

\* One step may close several jobs.
Close ==
    /\ \E S \in SUBSET Jobs : closed' = [j \in Jobs |-> closed[j] \/ j \in S]
    /\ UNCHANGED <<stream, best, armed, served>>

Serve(j) ==
    /\ closed[j]
    /\ served[j] = Empty
    /\ best[j] # Empty
    /\ served' = [served EXCEPT ![j] = best[j]]
    /\ UNCHANGED <<stream, best, armed, closed>>

Next ==
    \/ \E j \in Jobs : \/ OfferFallback(j) \/ Offer(j) \/ OfferOnly(j)
                       \/ Decide(j) \/ Publish(j) \/ GiveUp(j) \/ Serve(j)
    \/ Close

Spec == Init /\ [][Next]_vars
=============================================================================
