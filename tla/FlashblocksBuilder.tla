------------------------- MODULE FlashblocksBuilder -------------------------
(***************************************************************************)
(* The flashblocks build of builders/flashblocks/payload.rs: for every     *)
(* payload job one blocking build thread (build_payload and                *)
(* build_next_flashblock) and one timer task, which tells the thread over  *)
(* a bounded synchronous channel when to start the next flashblock and     *)
(* cancels the pool execution of the one in progress.  It is composed with *)
(* the payload jobs and the payload handler.                               *)
(*                                                                         *)
(* A flashblock token is the number of its issue: the timer cancels the    *)
(* current token whenever it issues the next one, so a token is cancelled  *)
(* when a later one exists or when the job's own token is cancelled.       *)
(***************************************************************************)
EXTENDS PayloadHandler

CONSTANTS
    FlashblocksPerBlock, \* config.flashblocks_per_block()
    Targets,             \* the flashblock counts the timing derivation gives
    BuildAtIntervalEnd,  \* config.specific.build_at_interval_end
    MaxRetries,          \* sidecar config.max_retries
    MaxTicks             \* bound on the interval ticks of one job

ASSUME BuilderAssumption ==
    /\ FlashblocksPerBlock \in Nat
    /\ Targets \subseteq Nat
    /\ BuildAtIntervalEnd \in BOOLEAN
    /\ MaxRetries \in Nat
    /\ MaxTicks \in Nat

SignalCap == FlashblocksPerBlock + 1

VARIABLES
    build,     \* where the build thread of each job is
    index,     \* ctx.flashblock_index()
    target,    \* ctx.target_flashblock_count()
    token,     \* the flashblock token in ctx.cancel
    retries,   \* how often the sidecar has answered hold in this poll
    timer,     \* where the timer task of each job is
    issued,    \* the latest flashblock token
    signals,   \* the sync_channel from the timer to the build thread
    published, \* how many flashblocks ws_pub.publish has sent out
    late       \* history: how many of them after the job was cancelled

buildVars == <<build, index, target, token, retries, published, late>>
timerVars == <<timer, issued, signals>>
vars == <<jobVars, handlerVars, buildVars, timerVars>>

Stopped == {"done", "failed"}

BuildSteps ==
    {"none", "pre", "send0", "set0", "publish0", "timing", "recv", "execute",
     "check", "poll", "assemble", "recheck", "publish", "send", "set"} \cup Stopped

BuilderTypeOK ==
    /\ build \in [Jobs -> BuildSteps]
    /\ index \in [Jobs -> Nat]
    /\ target \in [Jobs -> Nat]
    /\ token \in [Jobs -> Nat]
    /\ retries \in [Jobs -> Nat]
    /\ timer \in [Jobs -> {"off", "select", "send", "sendLast", "done"}]
    /\ issued \in [Jobs -> Nat]
    /\ signals \in [Jobs -> Seq(Nat)]
    /\ \A j \in Jobs : Len(signals[j]) <= SignalCap
    /\ published \in [Jobs -> Nat]
    /\ late \in [Jobs -> Nat]

\* Every variable has its type and no channel exceeds its capacity.
TypeOK == JobsTypeOK /\ HandlerTypeOK /\ BuilderTypeOK

Init ==
    /\ JobsInit
    /\ HandlerInit
    /\ build = [j \in Jobs |-> "none"]
    /\ index = [j \in Jobs |-> 1]
    /\ target = [j \in Jobs |-> FlashblocksPerBlock]
    /\ token = [j \in Jobs |-> 0]
    /\ retries = [j \in Jobs |-> 0]
    /\ timer = [j \in Jobs |-> "off"]
    /\ issued = [j \in Jobs |-> 0]
    /\ signals = [j \in Jobs |-> << >>]
    /\ published = [j \in Jobs |-> 0]
    /\ late = [j \in Jobs |-> 0]

-----------------------------------------------------------------------------
\* The engine's side.

\* forkchoiceUpdated with attributes; spawn_build_job starts the thread.
NewPayloadJob(j) ==
    /\ \E noPool \in BOOLEAN : SpawnJob(j, noPool)
    /\ build' = [build EXCEPT ![j] = "pre"]
    /\ UNCHANGED <<handlerVars, timerVars, index, target, token, retries, published, late>>

MissingParent(j) ==
    /\ RejectJob(j)
    /\ UNCHANGED <<handlerVars, buildVars, timerVars>>

GetPayload(j) == ResolveKind(j) /\ UNCHANGED <<handlerVars, buildVars, timerVars>>

JobDeadline(j) == PollDeadline(j) /\ UNCHANGED <<handlerVars, buildVars, timerVars>>

JobDropped(j) == PollCancelled(j) /\ UNCHANGED <<handlerVars, buildVars, timerVars>>

Answer(j) == WaitForValue(j) /\ UNCHANGED <<handlerVars, buildVars, timerVars>>

-----------------------------------------------------------------------------
\* The build thread.

Goto(j, step) == build' = [build EXCEPT ![j] = step]

\* A step of the thread that touches no other state.
Move(j, step) ==
    /\ Goto(j, step)
    /\ UNCHANGED <<jobVars, handlerVars, timerVars, index, target, token, retries, published, late>>

\* Deposits, the first builder transactions and the fallback block.
BuildFallback(j) == build[j] = "pre" /\ Move(j, "send0")

\* Mutant: a full channel is logged and the build goes on.
Send_IgnoresFull(j, from, payload, to) ==
    /\ build[j] = from
    /\ Goto(j, to)
    /\ IF TrySendFails THEN UNCHANGED handlerVars ELSE TrySend(j, payload)
    /\ UNCHANGED <<jobVars, timerVars, index, target, token, retries, published, late>>

\* payload_tx.try_send of the payload at hand: a full channel ends the build,
\* before the cell is set.
Send(j, from, payload, to) ==
    /\ build[j] = from
    /\ Goto(j, IF TrySendFails THEN "failed" ELSE to)
    /\ IF TrySendFails THEN UNCHANGED handlerVars ELSE TrySend(j, payload)
    /\ UNCHANGED <<jobVars, timerVars, index, target, token, retries, published, late>>

SendFallback(j) == Send(j, "send0", 0, "set0")

\* Mutant: the cell is only filled when the pool may be used.
SetFallback_PoolOnly(j) ==
    /\ build[j] = "set0"
    /\ IF noTxPool[j] THEN UNCHANGED jobVars ELSE CellSet(j, 0)
    /\ Goto(j, IF noTxPool[j] THEN "done" ELSE "publish0")
    /\ UNCHANGED <<handlerVars, timerVars, index, target, token, retries, published, late>>

\* best_payload.set(fallback); with no_tx_pool the build is complete.
SetFallback(j) ==
    /\ build[j] = "set0"
    /\ CellSet(j, 0)
    /\ Goto(j, IF noTxPool[j] THEN "done" ELSE "publish0")
    /\ UNCHANGED <<handlerVars, timerVars, index, target, token, retries, published, late>>

\* ws_pub.publish of one flashblock.
Publish(j, from, to) ==
    /\ build[j] = from
    /\ published' = [published EXCEPT ![j] = @ + 1]
    /\ late' = [late EXCEPT ![j] = IF cancelled[j] THEN @ + 1 ELSE @]
    /\ Goto(j, to)
    /\ UNCHANGED <<jobVars, handlerVars, timerVars, index, target, token, retries>>

PublishFallback(j) == Publish(j, "publish0", "timing")

\* The timing derivation, the per-batch limits (division by the flashblock
\* count: a count of zero panics the thread) and the spawn of the timer.
DeriveTiming(j, n) ==
    /\ build[j] = "timing"
    /\ target' = [target EXCEPT ![j] = n]
    /\ Goto(j, IF n = 0 THEN "failed" ELSE "recv")
    /\ timer' = [timer EXCEPT ![j] =
                    CASE n = 0 -> @
                      [] n # 0 /\ BuildAtIntervalEnd -> "select"
                      [] n # 0 /\ ~BuildAtIntervalEnd -> "send"]
    /\ UNCHANGED <<jobVars, handlerVars, index, token, issued, signals, retries, published, late>>

\* Mutant: the target is compared before the index of this round counts.
Receive_OffByOne(j) ==
    /\ build[j] = "recv"
    /\ signals[j] # << >>
    /\ token' = [token EXCEPT ![j] = Head(signals[j])]
    /\ signals' = [signals EXCEPT ![j] = Tail(@)]
    /\ Goto(j, IF index[j] - 1 > target[j] THEN "done" ELSE "execute")
    /\ UNCHANGED <<jobVars, handlerVars, index, target, timer, issued, retries, published, late>>

\* rx.recv returns a token; the target count is checked before building.
Receive(j) ==
    /\ build[j] = "recv"
    /\ signals[j] # << >>
    /\ token' = [token EXCEPT ![j] = Head(signals[j])]
    /\ signals' = [signals EXCEPT ![j] = Tail(@)]
    /\ Goto(j, IF index[j] > target[j] THEN "done" ELSE "execute")
    /\ UNCHANGED <<jobVars, handlerVars, index, target, timer, issued, retries, published, late>>

\* rx.recv fails: the timer task has dropped its end and nothing is left.
ReceiveClosed(j) ==
    /\ build[j] = "recv"
    /\ signals[j] = << >>
    /\ timer[j] = "done"
    /\ Move(j, "done")

FlashblockCancelled(j) == cancelled[j] \/ token[j] < issued[j]

\* execute_best_transactions sees the cancelled token and stops.  It looks
\* only before a transaction it is about to execute: one that is skipped for
\* its conditions or for the limits is not followed by a look at the token.
ExecuteCancelled(j) ==
    /\ build[j] = "execute"
    /\ FlashblockCancelled(j)
    /\ Move(j, "check")

\* The pool has no further transaction.  New transactions may keep arriving,
\* so nothing makes this happen.
ExecutePoolDrained(j) == build[j] = "execute" /\ Move(j, "check")

\* Mutant: the token is not looked at.
UnlessCancelled_Ignored(j, step) == step

\* block_cancel.is_cancelled() ends the build with Ok(None).
UnlessCancelled(j, step) == IF cancelled[j] THEN "done" ELSE step

\* block_cancel is read after the pool transactions ...
CheckCancelled(j) ==
    /\ build[j] = "check"
    /\ Move(j, UnlessCancelled(j, "poll"))

\* ... the thread blocks in poll_transactions.  The loop ends with an answer
\* that does not ask to hold; a request that fails or times out, and a sidecar
\* that is not configured, end it as well and the build goes on ...
PollAnswered(j) ==
    /\ build[j] = "poll"
    /\ retries' = [retries EXCEPT ![j] = 0]
    /\ Goto(j, "assemble")
    /\ UNCHANGED <<jobVars, handlerVars, timerVars, index, target, token, published, late>>

\* Mutant: an answer that asks to hold is not counted.
PollHold_Uncounted(j) ==
    /\ build[j] = "poll"
    /\ UNCHANGED vars

\* ... or an answer that asks to hold, after which the thread sleeps as long as
\* the sidecar asks and polls again, without a look at any token, until
\* max_retries is exceeded; the build then goes on without the sidecar.
PollHold(j) ==
    /\ build[j] = "poll"
    /\ retries' = [retries EXCEPT ![j] = IF @ < MaxRetries THEN @ + 1 ELSE 0]
    /\ Goto(j, IF retries[j] < MaxRetries THEN "poll" ELSE "assemble")
    /\ UNCHANGED <<jobVars, handlerVars, timerVars, index, target, token, published, late>>

\* ... the sidecar's transactions are executed, the builder transactions added
\* and the block is sealed ...
AssembleBlock(j) == build[j] = "assemble" /\ Move(j, "recheck")

\* ... and block_cancel is read again before anything leaves the thread.
RecheckCancelled(j) ==
    /\ build[j] = "recheck"
    /\ Move(j, UnlessCancelled(j, "publish"))

PublishFlashblock(j) == Publish(j, "publish", "send")

SendFlashblock(j) == Send(j, "send", index[j], "set")

\* Mutant: the index advances and the cell keeps the earlier payload.
SetFlashblock_Forgets(j) ==
    /\ build[j] = "set"
    /\ index' = [index EXCEPT ![j] = @ + 1]
    /\ Goto(j, "recv")
    /\ UNCHANGED <<jobVars, handlerVars, timerVars, target, token, retries, published, late>>

\* best_payload.set(flashblock), then the context of the next one.
SetFlashblock(j) ==
    /\ build[j] = "set"
    /\ CellSet(j, index[j])
    /\ index' = [index EXCEPT ![j] = @ + 1]
    /\ Goto(j, "recv")
    /\ UNCHANGED <<handlerVars, timerVars, target, token, retries, published, late>>

\* The calls of build_payload and build_next_flashblock that can return an
\* error: state provider, pre-steps and fallback block; publish; the pool
\* execution; required sidecar transactions and the flashblock's block.
BuildError(j) ==
    /\ build[j] \in {"pre", "publish0", "timing", "execute", "assemble", "publish"}
    /\ Move(j, "failed")

-----------------------------------------------------------------------------
\* The timer task.

\* The interval fires: the token in use is cancelled, the next one issued.
\* tx.send may block the task, which then notices nothing else.
TimerTick(j) ==
    /\ timer[j] = "select"
    /\ issued[j] < MaxTicks
    /\ issued' = [issued EXCEPT ![j] = @ + 1]
    /\ timer' = [timer EXCEPT ![j] = "send"]
    /\ UNCHANGED <<jobVars, handlerVars, buildVars, signals>>

\* The flashblocks deadline: cancel, one more token, and the task ends.
TimerDeadline(j) ==
    /\ timer[j] = "select"
    /\ issued' = [issued EXCEPT ![j] = @ + 1]
    /\ timer' = [timer EXCEPT ![j] = "sendLast"]
    /\ UNCHANGED <<jobVars, handlerVars, buildVars, signals>>

\* Mutant: the end of the build thread is not noticed.
TimerSend_NoHangup(j) ==
    /\ timer[j] \in {"send", "sendLast"}
    /\ Len(signals[j]) < SignalCap
    /\ signals' = [signals EXCEPT ![j] = Append(@, issued[j])]
    /\ timer' = [timer EXCEPT ![j] = IF @ = "send" THEN "select" ELSE "done"]
    /\ UNCHANGED <<jobVars, handlerVars, buildVars, issued>>

\* tx.send: it fails once the build thread has returned, and otherwise needs
\* room in the channel.
TimerSend(j) ==
    /\ timer[j] \in {"send", "sendLast"}
    /\ IF build[j] \in Stopped
       THEN UNCHANGED signals
       ELSE /\ Len(signals[j]) < SignalCap
            /\ signals' = [signals EXCEPT ![j] = Append(@, issued[j])]
    /\ timer' = [timer EXCEPT ![j] =
                    IF @ = "send" /\ build[j] \notin Stopped THEN "select" ELSE "done"]
    /\ UNCHANGED <<jobVars, handlerVars, buildVars, issued>>

\* block_cancel.cancelled(): the sender is dropped.
TimerCancelled(j) ==
    /\ timer[j] = "select"
    /\ cancelled[j]
    /\ timer' = [timer EXCEPT ![j] = "done"]
    /\ UNCHANGED <<jobVars, handlerVars, buildVars, issued, signals>>

-----------------------------------------------------------------------------
Handler ==
    /\ HandleBuilt \/ Forward
    /\ UNCHANGED <<jobVars, buildVars, timerVars>>

P2pNode == NodeTakes /\ UNCHANGED <<jobVars, buildVars, timerVars>>

BuildStep(j) ==
    \/ BuildFallback(j) \/ SendFallback(j) \/ SetFallback(j) \/ PublishFallback(j)
    \/ \E n \in Targets : DeriveTiming(j, n)
    \/ Receive(j) \/ ReceiveClosed(j)
    \/ ExecuteCancelled(j) \/ CheckCancelled(j) \/ PollHold(j) \/ AssembleBlock(j)
    \/ RecheckCancelled(j) \/ PublishFlashblock(j) \/ SendFlashblock(j)
    \/ SetFlashblock(j)

TimerStep(j) == TimerDeadline(j) \/ TimerSend(j) \/ TimerCancelled(j)

ServiceStep(j) == JobDeadline(j) \/ JobDropped(j) \/ Answer(j)

JobNext(j) ==
    \/ NewPayloadJob(j) \/ MissingParent(j) \/ GetPayload(j)
    \/ ServiceStep(j)
    \/ BuildStep(j) \/ ExecutePoolDrained(j) \/ PollAnswered(j) \/ BuildError(j)
    \/ TimerTick(j) \/ TimerStep(j)

Next ==
    \/ \E j \in Jobs : JobNext(j)
    \/ Handler
    \/ P2pNode

Spec == Init /\ [][Next]_vars

\* The build thread and the timer are scheduled by the operating system and by
\* tokio, deadlines pass, and the service polls its jobs and futures.  Nothing
\* is assumed of the engine, of interval ticks, of the pool running dry, of
\* the p2p node, whose peers may never read, or of the sidecar, which may answer
\* every poll with hold: that a poll returns is the timeout of its client.  Of
\* the pool it is assumed only that it does not yield for ever transactions that
\* are skipped before the token is looked at.
FairSpec ==
    /\ Spec
    /\ \A j \in Jobs : /\ WF_vars(BuildStep(j))
                      /\ WF_vars(TimerStep(j))
                      /\ WF_vars(ServiceStep(j))
    /\ WF_vars(Handler)

-----------------------------------------------------------------------------
\* Safety.

\* engine_getPayload returns a payload that lacks at most the last flashblock
\* subscribers were ever sent for the job, whatever is published after the
\* answer (resolve_kind, the two reads of block_cancel).
AnswerNearStream ==
    \A j \in Jobs :
        answer[j] # Empty => published[j] \in answer[j]..(answer[j] + 2)

\* Once a job's token is cancelled at most one more flashblock of the job goes
\* out: the one whose thread was past the last read of block_cancel.
AtMostOneLate == \A j \in Jobs : late[j] <= 1

\* The cell follows the stream: it is filled before the first flashblock goes
\* out, never holds a flashblock that was not published, and is never more
\* than one flashblock behind, failed builds included.
CellTracksStream ==
    \A j \in Jobs :
        \/ published[j] = 0 /\ cell[j] \in {Empty, 0}
        \/ published[j] - cell[j] \in {1, 2}

\* The engine is told of the payloads of a job in the order they were built
\* without leaving one out (try_send, PayloadHandler::run): what waits in the
\* channel is what was sent and not announced, in order.
AnnouncedInOrder ==
    \A j \in Jobs :
        /\ \A k \in 1..Len(built) :
              built[k][1] = j =>
                  /\ built[k][2] \in announced[j]..(sent[j] - 1)
                  /\ \A i \in 1..(k - 1) : built[i][1] = j => built[i][2] < built[k][2]
        /\ \A v \in announced[j]..(sent[j] - 1) :
              \E k \in 1..Len(built) : built[k] = <<j, v>>

\* Every flashblock after the first publication has used up a signal of its
\* own: the build is never ahead of the timer, however signals queue up, nor
\* does it publish more than the target count.
PacedByTimer ==
    \A j \in Jobs :
        build[j] \in {"execute", "check", "poll", "assemble", "recheck", "publish", "send", "set"}
            => /\ index[j] = token[j] + (IF BuildAtIntervalEnd THEN 0 ELSE 1)
               /\ index[j] <= target[j]

\* Whatever was being built when a newer request arrived has been told to
\* stop, also when that request was refused for want of its parent.
OlderJobsCancelled ==
    EnsureOnlyOnePayload =>
        \A j \in Jobs : (job[j] \in {"live", "gone"} /\ j < requests) => cancelled[j]

\* Where the build thread is bound to publish without a further look at
\* block_cancel.
ArmedSteps == {"none", "pre", "send0", "set0", "publish0", "publish"}

Armed == [j \in Jobs |-> build[j] \in ArmedSteps]

\* The jobs implement the promise of PayloadStream.
Stream == INSTANCE PayloadStream WITH
    stream <- published,
    best   <- cell,
    armed  <- Armed,
    closed <- cancelled,
    served <- answer

\* Every step of the jobs, threads and timers is one PayloadStream allows.
StreamSpec == Stream!Spec

-----------------------------------------------------------------------------
\* Liveness, of FairSpec.

\* Every build comes to an end, even when the pool never runs dry, the engine
\* never asks for the payload, peers never read and the sidecar always holds.
BuildEnds == \A j \in Jobs : build[j] = "pre" ~> build[j] \in Stopped

\* Every timer task ends; none is left blocked on the signal channel.
TimerEnds == \A j \in Jobs : timer[j] # "off" ~> timer[j] = "done"

\* engine_getPayload is answered unless the build failed before it had a
\* fallback block.
AnswerComes ==
    \A j \in Jobs :
        resolve[j] = "waiting"
            ~> resolve[j] = "ready" \/ (build[j] = "failed" /\ cell[j] = Empty)

-----------------------------------------------------------------------------
\* What the repository says and the code does not do.

\* payload.rs:898: once getPayload has cancelled the job everything is dropped,
\* so that the payload returned is the block subscribers were last sent.
AnswerIsLastPublished ==
    \A j \in Jobs : answer[j] # Empty => published[j] <= answer[j] + 1
=============================================================================
