---------------------------- MODULE PayloadJobs ----------------------------
(***************************************************************************)
(* Payload jobs of builders/generator.rs: BlockPayloadJobGenerator, the    *)
(* BlockPayloadJob futures the payload service polls, and the BlockCell    *)
(* through which the build thread hands payloads to engine_getPayload.     *)
(*                                                                         *)
(* The payload service is a single task, so new_payload_job, resolve_kind  *)
(* and poll never overlap each other; they do interleave with the build    *)
(* threads, which see only the cancellation token and the cell.  A payload *)
(* is represented by the index of the flashblock that completed it: 0 is   *)
(* the fallback block.                                                     *)
(***************************************************************************)
EXTENDS Integers, Sequences

CONSTANTS
    MaxJobs,               \* bound on the forkchoice updates with attributes
    EnsureOnlyOnePayload   \* ensure_only_one_payload, TRUE in service.rs

ASSUME JobsAssumption ==
    /\ MaxJobs \in Nat \ {0}
    /\ EnsureOnlyOnePayload \in BOOLEAN

Jobs == 1..MaxJobs

\* An empty BlockCell, and the answer of a request that is not answered.
Empty == -1

VARIABLES
    requests,    \* how many times new_payload_job was called
    lastPayload, \* the job whose token last_payload holds, 0 for none
    job,         \* "none", "live" (owned by the service), "gone", "rejected"
    noTxPool,    \* the attributes of the job say no_tx_pool
    cancelled,   \* the job's CancellationToken
    cell,        \* the BlockCell: Empty or a payload
    resolve,     \* the engine_getPayload future: "none", "waiting", "ready"
    answer       \* the payload the future resolved to

jobVars == <<requests, lastPayload, job, noTxPool, cancelled, cell, resolve, answer>>

JobsTypeOK ==
    /\ requests \in 0..MaxJobs
    /\ lastPayload \in 0..MaxJobs
    /\ job \in [Jobs -> {"none", "live", "gone", "rejected"}]
    /\ noTxPool \in [Jobs -> BOOLEAN]
    /\ cancelled \in [Jobs -> BOOLEAN]
    /\ cell \in [Jobs -> Int]
    /\ resolve \in [Jobs -> {"none", "waiting", "ready"}]
    /\ answer \in [Jobs -> Int]

JobsInit ==
    /\ requests = 0
    /\ lastPayload = 0
    /\ job = [j \in Jobs |-> "none"]
    /\ noTxPool = [j \in Jobs |-> FALSE]
    /\ cancelled = [j \in Jobs |-> FALSE]
    /\ cell = [j \in Jobs |-> Empty]
    /\ resolve = [j \in Jobs |-> "none"]
    /\ answer = [j \in Jobs |-> Empty]

(***************************************************************************)
(* new_payload_job: the token of the last request is cancelled and         *)
(* replaced before the parent header is looked up, so a request whose      *)
(* parent is missing still ends the job that was being built.              *)
(***************************************************************************)
CancelLast(new) ==
    IF EnsureOnlyOnePayload
    THEN /\ lastPayload' = new
         /\ cancelled' = [j \in Jobs |-> IF j = lastPayload THEN TRUE ELSE cancelled[j]]
    ELSE UNCHANGED <<lastPayload, cancelled>>

SpawnJob(j, noPool) ==
    /\ j = requests + 1
    /\ requests' = j
    /\ CancelLast(j)
    /\ job' = [job EXCEPT ![j] = "live"]
    /\ noTxPool' = [noTxPool EXCEPT ![j] = noPool]
    /\ UNCHANGED <<cell, resolve, answer>>

RejectJob(j) ==
    /\ j = requests + 1
    /\ requests' = j
    /\ CancelLast(j)
    /\ job' = [job EXCEPT ![j] = "rejected"]
    /\ UNCHANGED <<noTxPool, cell, resolve, answer>>

\* Mutant: the build goes on after engine_getPayload.
ResolveKind_NoCancel(j) ==
    /\ job[j] = "live"
    /\ job' = [job EXCEPT ![j] = "gone"]
    /\ resolve' = [resolve EXCEPT ![j] = "waiting"]
    /\ UNCHANGED <<requests, lastPayload, noTxPool, cancelled, cell, answer>>

\* resolve_kind: cancel the build, wait on the cell, give up the job.
ResolveKind(j) ==
    /\ job[j] = "live"
    /\ cancelled' = [cancelled EXCEPT ![j] = TRUE]
    /\ job' = [job EXCEPT ![j] = "gone"]
    /\ resolve' = [resolve EXCEPT ![j] = "waiting"]
    /\ UNCHANGED <<requests, lastPayload, noTxPool, cell, answer>>

\* BlockPayloadJob::poll once the deadline has passed.
PollDeadline(j) ==
    /\ job[j] = "live"
    /\ cancelled' = [cancelled EXCEPT ![j] = TRUE]
    /\ job' = [job EXCEPT ![j] = "gone"]
    /\ UNCHANGED <<requests, lastPayload, noTxPool, cell, resolve, answer>>

\* BlockPayloadJob::poll before the deadline, the token being cancelled.
PollCancelled(j) ==
    /\ job[j] = "live"
    /\ cancelled[j]
    /\ job' = [job EXCEPT ![j] = "gone"]
    /\ UNCHANGED <<requests, lastPayload, noTxPool, cancelled, cell, resolve, answer>>

\* WaitForValue::poll that finds a value; one that does not wakes itself
\* again and changes nothing.
WaitForValue(j) ==
    /\ resolve[j] = "waiting"
    /\ cell[j] # Empty
    /\ resolve' = [resolve EXCEPT ![j] = "ready"]
    /\ answer' = [answer EXCEPT ![j] = cell[j]]
    /\ UNCHANGED <<requests, lastPayload, job, noTxPool, cancelled, cell>>

\* BlockCell::set, called by the build thread.
CellSet(j, payload) ==
    /\ cell' = [cell EXCEPT ![j] = payload]
    /\ UNCHANGED <<requests, lastPayload, job, noTxPool, cancelled, resolve, answer>>

=============================================================================
