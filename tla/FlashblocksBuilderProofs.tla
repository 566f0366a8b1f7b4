---------------------- MODULE FlashblocksBuilderProofs ----------------------
(***************************************************************************)
(* Proofs about FlashblocksBuilder, for any number of jobs, any channel    *)
(* capacities, flashblock counts and tick bounds.                          *)
(***************************************************************************)
EXTENDS FlashblocksBuilder, TLAPS

-----------------------------------------------------------------------------
\* Type correctness, one lemma per component.

\* Cancelling the last payload leaves the tokens and last_payload well typed.
LEMMA CancelLastType ==
    ASSUME JobsTypeOK, NEW new \in Jobs, CancelLast(new)
    PROVE  lastPayload' \in 0..MaxJobs /\ cancelled' \in [Jobs -> BOOLEAN]
<1>1. CASE EnsureOnlyOnePayload
  <2>1. cancelled' \in [Jobs -> BOOLEAN]
    BY <1>1, Zenon DEF CancelLast, JobsTypeOK
  <2>2. lastPayload' \in 0..MaxJobs
    BY <1>1, JobsAssumption DEF CancelLast, Jobs
  <2> QED
    BY <2>1, <2>2
<1>2. CASE ~EnsureOnlyOnePayload
  BY <1>2 DEF CancelLast, JobsTypeOK
<1> QED
  BY <1>1, <1>2

\* The operations of PayloadJobs keep its variables in their types.
LEMMA JobsType ==
    ASSUME JobsTypeOK, NEW j \in Jobs,
           \/ \E noPool \in BOOLEAN : SpawnJob(j, noPool)
           \/ RejectJob(j) \/ ResolveKind(j) \/ PollDeadline(j)
           \/ PollCancelled(j) \/ WaitForValue(j)
           \/ \E payload \in Int : CellSet(j, payload)
           \/ UNCHANGED jobVars
    PROVE  JobsTypeOK'
<1>1. ASSUME NEW noPool \in BOOLEAN, SpawnJob(j, noPool)
      PROVE  JobsTypeOK'
  <2>1. lastPayload' \in 0..MaxJobs /\ cancelled' \in [Jobs -> BOOLEAN]
    BY <1>1, CancelLastType DEF SpawnJob
  <2>2. noTxPool' \in [Jobs -> BOOLEAN]
    BY <1>1 DEF SpawnJob, JobsTypeOK
  <2>3. requests' \in 0..MaxJobs /\ job' \in [Jobs -> {"none", "live", "gone", "rejected"}]
    BY <1>1 DEF SpawnJob, JobsTypeOK, Jobs
  <2> QED
    BY <1>1, <2>1, <2>2, <2>3 DEF SpawnJob, JobsTypeOK
<1>2. CASE RejectJob(j)
  <2>1. lastPayload' \in 0..MaxJobs /\ cancelled' \in [Jobs -> BOOLEAN]
    BY <1>2, CancelLastType DEF RejectJob
  <2>2. requests' \in 0..MaxJobs /\ job' \in [Jobs -> {"none", "live", "gone", "rejected"}]
    BY <1>2 DEF RejectJob, JobsTypeOK, Jobs
  <2> QED
    BY <1>2, <2>1, <2>2 DEF RejectJob, JobsTypeOK
<1>3. CASE ResolveKind(j)
  BY <1>3 DEF ResolveKind, JobsTypeOK
<1>4. CASE PollDeadline(j)
  BY <1>4 DEF PollDeadline, JobsTypeOK
<1>5. CASE PollCancelled(j)
  BY <1>5 DEF PollCancelled, JobsTypeOK
<1>6. CASE WaitForValue(j)
  BY <1>6 DEF WaitForValue, JobsTypeOK
<1>7. CASE \E payload \in Int : CellSet(j, payload)
  BY <1>7 DEF CellSet, JobsTypeOK
<1>8. CASE UNCHANGED jobVars
  BY <1>8 DEF jobVars, JobsTypeOK
<1> QED
  BY <1>1, <1>2, <1>3, <1>4, <1>5, <1>6, <1>7, <1>8

\* The operations of PayloadHandler keep its variables in their types; in
\* particular no channel exceeds its capacity.
LEMMA HandlerType ==
    ASSUME HandlerTypeOK,
           \/ \E j \in Jobs, payload \in Nat : TrySend(j, payload)
           \/ HandleBuilt \/ Forward \/ NodeTakes
           \/ UNCHANGED handlerVars
    PROVE  HandlerTypeOK'
<1> USE HandlerAssumption DEF HandlerTypeOK
<1>1. CASE \E j \in Jobs, payload \in Nat : TrySend(j, payload)
  BY <1>1 DEF TrySend, TrySendFails
<1>2. CASE HandleBuilt
  BY <1>2 DEF HandleBuilt
<1>3. CASE Forward
  BY <1>3 DEF Forward
<1>4. CASE NodeTakes
  BY <1>4 DEF NodeTakes
<1>5. CASE UNCHANGED handlerVars
  BY <1>5 DEF handlerVars
<1> QED
  BY <1>1, <1>2, <1>3, <1>4, <1>5

\* What the build thread and the timer do to their own variables.
LEMMA BuilderType ==
    ASSUME BuilderTypeOK, NEW j \in Jobs,
           BuildStep(j) \/ ExecutePoolDrained(j) \/ PollAnswered(j) \/ BuildError(j)
    PROVE  BuilderTypeOK'
<1> USE BuilderAssumption DEF BuilderTypeOK, BuildSteps, Stopped, Goto, timerVars
<1>1. CASE BuildFallback(j)
  BY <1>1 DEF BuildFallback, Move
<1>2. CASE SendFallback(j) \/ SendFlashblock(j)
  BY <1>2, Zenon DEF SendFallback, SendFlashblock, Send
<1>3. CASE SetFallback(j)
  BY <1>3 DEF SetFallback
<1>4. CASE PublishFallback(j) \/ PublishFlashblock(j)
  <2>1. PICK from, to \in BuildSteps : Publish(j, from, to)
    BY <1>4 DEF PublishFallback, PublishFlashblock
  <2>2. (IF cancelled[j] THEN late[j] + 1 ELSE late[j]) \in Nat
    OBVIOUS
  <2>3. late' \in [Jobs -> Nat]
    BY <2>1, <2>2 DEF Publish
  <2>4. published' \in [Jobs -> Nat]
    BY <2>1 DEF Publish
  <2> QED
    BY <2>1, <2>3, <2>4 DEF Publish
<1>5. ASSUME NEW n \in Targets, DeriveTiming(j, n)
      PROVE  BuilderTypeOK'
  <2>1. n \in Nat /\ BuildAtIntervalEnd \in BOOLEAN
    OBVIOUS
  <2>2. timer' \in [Jobs -> {"off", "select", "send", "sendLast", "done"}]
    BY <1>5, <2>1 DEF DeriveTiming
  <2> QED
    BY <1>5, <2>1, <2>2 DEF DeriveTiming
<1>6. CASE Receive(j)
  <2>1. /\ Head(signals[j]) \in Nat
        /\ Tail(signals[j]) \in Seq(Nat)
        /\ Len(Tail(signals[j])) <= SignalCap
    BY <1>6 DEF Receive, SignalCap
  <2> QED
    BY <1>6, <2>1, Zenon DEF Receive
<1>7. CASE ReceiveClosed(j)
  BY <1>7 DEF ReceiveClosed, Move
<1>8. CASE ExecuteCancelled(j) \/ ExecutePoolDrained(j)
  BY <1>8, Zenon DEF ExecuteCancelled, ExecutePoolDrained, Move
<1>9. CASE CheckCancelled(j) \/ RecheckCancelled(j)
  BY <1>9, Zenon DEF CheckCancelled, RecheckCancelled, UnlessCancelled, Move
<1>10. CASE AssembleBlock(j)
  BY <1>10 DEF AssembleBlock, Move
<1>11. CASE SetFlashblock(j)
  BY <1>11 DEF SetFlashblock
<1>12. CASE BuildError(j)
  BY <1>12 DEF BuildError, Move
<1>13. CASE PollAnswered(j)
  BY <1>13 DEF PollAnswered
<1>14. CASE PollHold(j)
  <2>1. retries' \in [Jobs -> Nat]
    BY <1>14 DEF PollHold
  <2>2. build' \in [Jobs -> BuildSteps]
    BY <1>14, Zenon DEF PollHold
  <2> QED
    BY <1>14, <2>1, <2>2 DEF PollHold
<1> QED
  BY <1>1, <1>2, <1>3, <1>4, <1>5, <1>6, <1>7, <1>8, <1>9, <1>10, <1>11, <1>12,
     <1>13, <1>14, Zenon
     DEF BuildStep

\* As BuilderType, for the timer task.
LEMMA TimerType ==
    ASSUME BuilderTypeOK, NEW j \in Jobs, TimerTick(j) \/ TimerStep(j)
    PROVE  BuilderTypeOK'
<1> USE BuilderAssumption DEF BuilderTypeOK, buildVars
<1>1. CASE TimerTick(j)
  <2>1. issued' \in [Jobs -> Nat]
    BY <1>1 DEF TimerTick
  <2>2. timer' \in [Jobs -> {"off", "select", "send", "sendLast", "done"}]
    BY <1>1, Zenon DEF TimerTick
  <2> QED
    BY <1>1, <2>1, <2>2 DEF TimerTick
<1>2. CASE TimerDeadline(j)
  <2>1. issued' \in [Jobs -> Nat]
    BY <1>2 DEF TimerDeadline
  <2>2. timer' \in [Jobs -> {"off", "select", "send", "sendLast", "done"}]
    BY <1>2, Zenon DEF TimerDeadline
  <2> QED
    BY <1>2, <2>1, <2>2 DEF TimerDeadline
<1>3. CASE TimerSend(j)
  <2>1. timer' \in [Jobs -> {"off", "select", "send", "sendLast", "done"}]
    BY <1>3 DEF TimerSend
  <2>2. CASE build[j] \in Stopped
    BY <1>3, <2>1, <2>2 DEF TimerSend
  <2>3. CASE build[j] \notin Stopped
    <3>1. /\ Append(signals[j], issued[j]) \in Seq(Nat)
          /\ Len(Append(signals[j], issued[j])) <= SignalCap
      BY <1>3, <2>3 DEF TimerSend, SignalCap
    <3>2. signals' = [signals EXCEPT ![j] = Append(signals[j], issued[j])]
      BY <1>3, <2>3 DEF TimerSend
    <3>3. /\ signals' \in [Jobs -> Seq(Nat)]
          /\ \A k \in Jobs : Len(signals'[k]) <= SignalCap
      BY <3>1, <3>2
    <3> QED
      BY <1>3, <2>1, <3>3 DEF TimerSend
  <2> QED
    BY <2>2, <2>3, Zenon
<1>4. CASE TimerCancelled(j)
  BY <1>4 DEF TimerCancelled
<1> QED
  BY <1>1, <1>2, <1>3, <1>4, Zenon DEF TimerStep

\* How the actions of each actor act on the jobs and on the handler.
LEMMA BuildFrame ==
    ASSUME TypeOK, NEW j \in Jobs,
           BuildStep(j) \/ ExecutePoolDrained(j) \/ PollAnswered(j) \/ BuildError(j)
    PROVE  /\ (\E payload \in Nat : CellSet(j, payload)) \/ UNCHANGED jobVars
           /\ (\E payload \in Nat : TrySend(j, payload)) \/ UNCHANGED handlerVars
<1>1. index[j] \in Nat
  BY DEF TypeOK, BuilderTypeOK
<1>2. ASSUME NEW n \in Targets, DeriveTiming(j, n)
      PROVE  UNCHANGED jobVars /\ UNCHANGED handlerVars
  BY <1>2 DEF DeriveTiming
<1>3. CASE SendFallback(j) \/ SendFlashblock(j)
  BY <1>1, <1>3 DEF SendFallback, SendFlashblock, Send
<1>4. CASE SetFallback(j) \/ SetFlashblock(j)
  BY <1>1, <1>4 DEF SetFallback, SetFlashblock
<1>5. CASE ~ \/ SendFallback(j) \/ SendFlashblock(j)
             \/ SetFallback(j) \/ SetFlashblock(j)
             \/ \E n \in Targets : DeriveTiming(j, n)
  BY <1>5 DEF BuildStep, BuildFallback, PublishFallback, Publish, Receive,
     ReceiveClosed, ExecuteCancelled, ExecutePoolDrained, CheckCancelled,
     PollAnswered, PollHold, AssembleBlock, RecheckCancelled, PublishFlashblock, BuildError, Move
<1> QED
  BY <1>2, <1>3, <1>4, <1>5

\* Type correctness is inductive.
LEMMA TypeStep ==
    ASSUME TypeOK, [Next]_vars
    PROVE  TypeOK'
<1>1. ASSUME NEW j \in Jobs,
             BuildStep(j) \/ ExecutePoolDrained(j) \/ PollAnswered(j) \/ BuildError(j)
      PROVE  TypeOK'
  <2>1. BuilderTypeOK'
    BY <1>1, BuilderType DEF TypeOK
  <2>2. JobsTypeOK'
    BY <1>1, BuildFrame, JobsType DEF TypeOK
  <2>3. HandlerTypeOK'
    BY <1>1, BuildFrame, HandlerType DEF TypeOK
  <2> QED
    BY <2>1, <2>2, <2>3 DEF TypeOK
<1>2. ASSUME NEW j \in Jobs, TimerTick(j) \/ TimerStep(j)
      PROVE  TypeOK'
  <2>1. UNCHANGED jobVars /\ UNCHANGED handlerVars
    BY <1>2 DEF TimerStep, TimerTick, TimerDeadline, TimerSend, TimerCancelled
  <2> QED
    BY <1>2, <2>1, TimerType, JobsType, HandlerType DEF TypeOK
<1>3. ASSUME NEW j \in Jobs, NewPayloadJob(j)
      PROVE  TypeOK'
  <2>1. BuilderTypeOK'
    BY <1>3 DEF NewPayloadJob, TypeOK, BuilderTypeOK, BuildSteps, timerVars
  <2> QED
    BY <1>3, <2>1, JobsType, HandlerType DEF NewPayloadJob, TypeOK
<1>4. ASSUME NEW j \in Jobs,
             MissingParent(j) \/ GetPayload(j) \/ ServiceStep(j)
      PROVE  TypeOK'
  <2> USE <1>4 DEF MissingParent, GetPayload, ServiceStep, JobDeadline,
              JobDropped, Answer
  <2>1. BuilderTypeOK'
    BY DEF TypeOK, BuilderTypeOK, buildVars, timerVars
  <2>2. JobsTypeOK'
    BY JobsType DEF TypeOK
  <2>3. HandlerTypeOK'
    BY HandlerType DEF TypeOK
  <2> QED
    BY <2>1, <2>2, <2>3 DEF TypeOK
<1>5. CASE Handler \/ P2pNode
  <2>1. BuilderTypeOK'
    BY <1>5 DEF Handler, P2pNode, TypeOK, BuilderTypeOK, buildVars, timerVars
  <2>2. JobsTypeOK'
    BY <1>5 DEF Handler, P2pNode, TypeOK, JobsTypeOK, jobVars
  <2>3. HandlerTypeOK'
    BY <1>5, HandlerType DEF Handler, P2pNode, TypeOK
  <2> QED
    BY <2>1, <2>2, <2>3 DEF TypeOK
<1>6. CASE UNCHANGED vars
  BY <1>6 DEF vars, jobVars, handlerVars, buildVars, timerVars,
     TypeOK, JobsTypeOK, HandlerTypeOK, BuilderTypeOK
<1> QED
  BY <1>1, <1>2, <1>3, <1>4, <1>5, <1>6 DEF Next, JobNext

\* Every variable keeps its type, and the built-payload, outgoing and signal
\* channels never hold more than their capacity.
THEOREM TypeCorrect == Spec => []TypeOK
<1>1. Init => TypeOK
  BY JobsAssumption, HandlerAssumption, BuilderAssumption
     DEF Init, JobsInit, HandlerInit, TypeOK, JobsTypeOK, HandlerTypeOK,
         BuilderTypeOK, BuildSteps, Stopped, SignalCap, Empty
<1>2. TypeOK /\ [Next]_vars => TypeOK'
  BY TypeStep
<1> QED
  BY <1>1, <1>2, PTL DEF Spec

-----------------------------------------------------------------------------
\* The inductive invariant.  The properties relate the cell, the stream and the
\* answer of a job; none is inductive, because how far the three may be apart
\* depends on where the build thread is.

\* Cell and stream at every step of the build thread.
Progress(j) ==
    /\ build[j] \in {"none", "pre", "send0", "set0"}
         => cell[j] = Empty /\ published[j] = 0 /\ index[j] = 1
    /\ build[j] = "publish0" => cell[j] = 0 /\ published[j] = 0 /\ index[j] = 1
    /\ build[j] = "timing" => cell[j] = 0 /\ published[j] = 1 /\ index[j] = 1
    /\ build[j] \in {"recv", "execute", "check", "poll", "assemble", "recheck", "publish"}
         => index[j] >= 1 /\ cell[j] = index[j] - 1 /\ published[j] = index[j]
    /\ build[j] \in {"send", "set"}
         => index[j] >= 1 /\ cell[j] = index[j] - 1 /\ published[j] = index[j] + 1
    /\ build[j] \in Stopped
         => \/ published[j] = 0 /\ cell[j] \in {Empty, 0}
            \/ cell[j] >= 0 /\ published[j] - cell[j] \in {1, 2}

\* The publication the thread is bound to make counts as made.
Owed(j) == IF build[j] \in ArmedSteps THEN 1 ELSE 0

\* The answer is a payload the cell has held, and what is owed to the stream
\* stays within two flashblocks of it.
Answered(j) ==
    /\ resolve[j] # "none" => cancelled[j] /\ job[j] = "gone"
    /\ resolve[j] # "ready" => answer[j] = Empty
    /\ resolve[j] = "ready" => /\ answer[j] \in 0..cell[j]
                               /\ published[j] + Owed(j) <= answer[j] + 2

\* A late publication was the last one.
Late(j) ==
    /\ late[j] <= 1
    /\ late[j] # 0 => cancelled[j] /\ build[j] \notin ArmedSteps

\* Requests come in order and only the last may be uncancelled.
Requested(j) ==
    /\ j > requests => job[j] = "none" /\ build[j] = "none"
    /\ j <= requests => job[j] # "none"
    /\ EnsureOnlyOnePayload /\ j < requests => cancelled[j]

JobInv(j) == Progress(j) /\ Answered(j) /\ Late(j) /\ Requested(j)

IInv ==
    /\ TypeOK
    /\ EnsureOnlyOnePayload => lastPayload = requests
    /\ \A j \in Jobs : JobInv(j)

\* The thread of a job that a request starts has not run.
LEMMA NewJobUntouched ==
    ASSUME IInv, NEW j \in Jobs, NewPayloadJob(j)
    PROVE  build[j] = "none" /\ build \in [Jobs -> BuildSteps]
<1>1. j = requests + 1
  BY Zenon DEF NewPayloadJob, SpawnJob
<1>2. j > requests
  BY <1>1 DEF IInv, TypeOK, JobsTypeOK
<1>3. Requested(j)
  BY Zenon DEF IInv, JobInv
<1> QED
  BY <1>2, <1>3, Zenon DEF Requested, IInv, TypeOK, BuilderTypeOK

\* A job whose own state is left alone keeps its invariant, even if it is
\* cancelled or given up in the step.
LEMMA JobFrame ==
    ASSUME NEW k \in Jobs, JobInv(k),
           requests' = requests,
           cancelled[k] => cancelled'[k],
           job'[k] = job[k] \/ (job[k] = "live" /\ job'[k] = "gone"),
           build'[k] = build[k], index'[k] = index[k], cell'[k] = cell[k],
           published'[k] = published[k], late'[k] = late[k],
           resolve'[k] = resolve[k], answer'[k] = answer[k]
    PROVE  JobInv(k)'
<1>1. Progress(k)'
  BY DEF JobInv, Progress
<1>2. Answered(k)' /\ Late(k)'
  BY DEF JobInv, Answered, Late, Owed
<1>3. Requested(k)'
  BY DEF JobInv, Requested
<1> QED
  BY <1>1, <1>2, <1>3, Zenon DEF JobInv

\* A step in which the thread neither publishes nor sets the cell, but only
\* moves within a part of the build where cell and stream stay as they are.
Moved(j) ==
    \/ build'[j] \in Stopped
    \/ /\ build[j] \in {"pre", "send0"}
       /\ build'[j] \in {"send0", "set0"}
    \/ /\ build[j] \in {"timing", "recv", "execute", "check", "poll", "assemble", "recheck"}
       /\ build'[j] \in {"recv", "execute", "check", "poll", "assemble", "recheck", "publish"}
    \/ build[j] = "send" /\ build'[j] = "set"

LEMMA MoveInv ==
    ASSUME NEW j \in Jobs, JobInv(j),
           published[j] \in Nat, cell[j] \in Int, index[j] \in Nat, answer[j] \in Int,
           UNCHANGED <<requests, cancelled, job, resolve, answer>>,
           UNCHANGED <<index, cell, published, late>>,
           build[j] \in BuildSteps \ {"none"},
           Moved(j),
           build'[j] = "publish" => ~cancelled[j]
    PROVE  JobInv(j)'
<1> USE DEF Stopped, Empty
<1>1. Progress(j)'
  <2>1. CASE build'[j] \in Stopped
    <3>1. \/ published[j] = 0 /\ cell[j] \in {Empty, 0}
          \/ cell[j] >= 0 /\ published[j] - cell[j] \in {1, 2}
      <4>1. Progress(j)
        BY DEF JobInv
      <4>2. CASE build[j] \in {"pre", "send0", "set0", "publish0"}
        BY <4>1, <4>2 DEF Progress
      <4>3. CASE build[j] \in {"timing", "recv", "execute", "check", "poll", "assemble",
                               "recheck", "publish"}
        BY <4>1, <4>3 DEF Progress
      <4>4. CASE build[j] \in {"send", "set"} \cup Stopped
        BY <4>1, <4>4 DEF Progress
      <4> QED
        BY <4>2, <4>3, <4>4 DEF BuildSteps
    <3> QED
      BY <2>1, <3>1 DEF Progress
  <2>2. CASE /\ build[j] \in {"pre", "send0"}
             /\ build'[j] \in {"send0", "set0"}
    BY <2>2, Zenon DEF JobInv, Progress
  <2>3. CASE /\ build[j] \in {"timing", "recv", "execute", "check", "poll", "assemble", "recheck"}
             /\ build'[j] \in {"recv", "execute", "check", "poll", "assemble", "recheck", "publish"}
    <3>1. index[j] >= 1 /\ cell[j] = index[j] - 1 /\ published[j] = index[j]
      <4>1. CASE build[j] = "timing"
        <5>1. cell[j] = 0 /\ published[j] = 1 /\ index[j] = 1
          BY <4>1, Zenon DEF JobInv, Progress
        <5> QED
          BY <5>1
      <4>2. CASE build[j] # "timing"
        BY <2>3, <4>2, Zenon DEF JobInv, Progress
      <4> QED
        BY <4>1, <4>2
    <3> QED
      BY <2>3, <3>1 DEF Progress
  <2>4. CASE build[j] = "send" /\ build'[j] = "set"
    BY <2>4 DEF JobInv, Progress
  <2> QED
    BY <2>1, <2>2, <2>3, <2>4 DEF Moved
<1>2. build'[j] \in ArmedSteps => build[j] \in ArmedSteps \/ ~cancelled[j]
  BY DEF Moved, ArmedSteps
<1>3. Answered(j)'
  <2>1. resolve[j] = "ready" => published[j] + Owed(j)' <= answer[j] + 2
    BY <1>2 DEF JobInv, Answered, Owed
  <2> QED
    BY <2>1 DEF JobInv, Answered
<1>4. Late(j)'
  BY <1>2 DEF JobInv, Late
<1>5. Requested(j)'
  BY DEF JobInv, Requested
<1> QED
  BY <1>1, <1>3, <1>4, <1>5 DEF JobInv

\* The steps of the build thread of job j preserve the invariant of job j.
LEMMA BuildInv ==
    ASSUME IInv, NEW j \in Jobs,
           BuildStep(j) \/ ExecutePoolDrained(j) \/ PollAnswered(j) \/ BuildError(j)
    PROVE  JobInv(j)'
<1> USE DEF Goto, ArmedSteps, Stopped, Empty
<1>0. JobInv(j) /\ UNCHANGED <<cancelled, requests, job, resolve, answer>>
  BY BuildFrame DEF IInv, CellSet, jobVars
<1>F. /\ build \in [Jobs -> BuildSteps] /\ index \in [Jobs -> Nat]
      /\ published \in [Jobs -> Nat] /\ late \in [Jobs -> Nat]
      /\ cell \in [Jobs -> Int] /\ answer \in [Jobs -> Int]
  BY DEF IInv, TypeOK, JobsTypeOK, BuilderTypeOK
<1>T. /\ published[j] \in Nat /\ cell[j] \in Int /\ index[j] \in Nat
      /\ answer[j] \in Int /\ late[j] \in Nat /\ build[j] \in BuildSteps
  BY <1>F
<1>1. ASSUME NEW to, to \in BuildSteps, Goto(j, to), cell' = cell,
             UNCHANGED <<index, published, late>>, build[j] # "none",
             Moved(j), to = "publish" => ~cancelled[j]
      PROVE  JobInv(j)'
  <2>1. build'[j] = to
    BY <1>1, <1>F
  <2> QED
    BY <1>0, <1>1, <1>T, <2>1, MoveInv
<1>2. CASE BuildFallback(j) \/ ReceiveClosed(j) \/ ExecuteCancelled(j)
           \/ ExecutePoolDrained(j) \/ AssembleBlock(j)
  BY <1>1, <1>2, <1>F, Zenon
     DEF BuildFallback, ReceiveClosed, ExecuteCancelled, ExecutePoolDrained,
         AssembleBlock, Move, Moved, BuildSteps, jobVars
<1>3. CASE BuildError(j)
  BY <1>1, <1>3, <1>F, Zenon DEF BuildError, Move, Moved, BuildSteps, jobVars
<1>4. CASE CheckCancelled(j) \/ RecheckCancelled(j)
  BY <1>1, <1>4, <1>F
     DEF CheckCancelled, RecheckCancelled, UnlessCancelled, Move, Moved, BuildSteps, jobVars
<1>5. CASE SendFallback(j) \/ SendFlashblock(j)
  BY <1>1, <1>5, <1>F DEF SendFallback, SendFlashblock, Send, Moved, BuildSteps, jobVars
<1>6. CASE SetFallback(j)
  <2>1. /\ build[j] = "set0" /\ build'[j] \in {"done", "publish0"}
        /\ cell'[j] = 0 /\ UNCHANGED <<index, published, late>>
    BY <1>6, <1>F DEF SetFallback, CellSet
  <2>2. cell[j] = Empty /\ published[j] = 0 /\ index[j] = 1
    BY <1>0, <2>1, Zenon DEF JobInv, Progress
  <2>3. Progress(j)'
    BY <2>1, <2>2, Zenon DEF Progress
  <2>4. Answered(j)' /\ Late(j)' /\ Requested(j)'
    BY <1>0, <1>T, <2>1, <2>2 DEF JobInv, Answered, Late, Requested, Owed
  <2> QED
    BY <2>3, <2>4 DEF JobInv
<1>7. CASE SetFlashblock(j)
  <2>1. /\ build[j] = "set" /\ build'[j] = "recv"
        /\ cell'[j] = index[j] /\ index'[j] = index[j] + 1
        /\ UNCHANGED <<published, late>>
    BY <1>7, <1>F DEF SetFlashblock, CellSet
  <2>2. index[j] >= 1 /\ cell[j] = index[j] - 1 /\ published[j] = index[j] + 1
    BY <1>0, <2>1, Zenon DEF JobInv, Progress
  <2>3. index'[j] >= 1 /\ cell'[j] = index'[j] - 1 /\ published'[j] = index'[j]
    <3>1. /\ index[j] \in Nat
          /\ index'[j] = index[j] + 1 /\ cell'[j] = index[j]
          /\ published'[j] = index[j] + 1
      BY <1>T, <2>1, <2>2, Zenon
    <3> QED
      BY <3>1
  <2>4. Progress(j)'
    BY <2>1, <2>3, Zenon DEF Progress
  <2>5. Answered(j)' /\ Late(j)' /\ Requested(j)'
    BY <1>0, <1>T, <2>1, <2>2 DEF JobInv, Answered, Late, Requested, Owed
  <2> QED
    BY <2>4, <2>5 DEF JobInv
<1>8. CASE PublishFallback(j) \/ PublishFlashblock(j)
  <2>1. /\ \/ build[j] = "publish0" /\ build'[j] = "timing"
           \/ build[j] = "publish" /\ build'[j] = "send"
        /\ published'[j] = published[j] + 1
        /\ late'[j] = IF cancelled[j] THEN late[j] + 1 ELSE late[j]
        /\ UNCHANGED <<index, cell>>
    BY <1>8, <1>F DEF PublishFallback, PublishFlashblock, Publish, jobVars
  <2>2. Progress(j)'
    <3>1. CASE build[j] = "publish0"
      <4>1. cell[j] = 0 /\ published[j] = 0 /\ index[j] = 1
        BY <1>0, <3>1, Zenon DEF JobInv, Progress
      <4>2. published'[j] = 0 + 1
        BY <2>1, <4>1, Zenon
      <4>3. cell'[j] = 0 /\ index'[j] = 1
        BY <2>1, <4>1, Zenon
      <4> QED
        <5>1. published'[j] = 1
          BY <4>2
        <5>2. build'[j] = "timing"
          BY <2>1, <3>1
        <5> QED
          BY <4>3, <5>1, <5>2, Zenon DEF Progress
    <3>2. CASE build[j] = "publish"
      <4>1. index[j] >= 1 /\ cell[j] = index[j] - 1 /\ published[j] = index[j]
        BY <1>0, <3>2, Zenon DEF JobInv, Progress
      <4>2. /\ index'[j] >= 1 /\ cell'[j] = index'[j] - 1
            /\ published'[j] = index'[j] + 1
        BY <2>1, <4>1
      <4> QED
        BY <2>1, <3>2, <4>2 DEF Progress
    <3> QED
      BY <2>1, <3>1, <3>2
  <2>3. Answered(j)'
    <3>1. Owed(j) = 1 /\ Owed(j)' = 0
      BY <2>1 DEF Owed
    <3>2. published'[j] + 0 = published[j] + 1
      BY <1>T, <2>1
    <3>3. published'[j] + Owed(j)' = published[j] + Owed(j)
      BY <3>1, <3>2, Zenon
    <3> QED
      BY <1>0, <2>1, <3>3 DEF JobInv, Answered
  <2>4. Late(j)' /\ Requested(j)'
    BY <1>0, <1>T, <2>1 DEF JobInv, Late, Requested
  <2> QED
    BY <2>2, <2>3, <2>4 DEF JobInv
<1>9. ASSUME NEW n \in Targets, DeriveTiming(j, n)
      PROVE  JobInv(j)'
  BY <1>1, <1>9, <1>F, Zenon DEF DeriveTiming, Moved, BuildSteps, jobVars
<1>10. CASE Receive(j)
  BY <1>1, <1>10, <1>F, Zenon DEF Receive, Moved, BuildSteps, jobVars
<1>11. CASE PollAnswered(j) \/ PollHold(j)
  BY <1>1, <1>11, <1>F, Zenon DEF PollAnswered, PollHold, Moved, BuildSteps, jobVars
<1> QED
  BY <1>2, <1>3, <1>4, <1>5, <1>6, <1>7, <1>8, <1>9, <1>10, <1>11 DEF BuildStep

\* new_payload_job, accepted or rejected, preserves the invariant of every job.
LEMMA RequestInv ==
    ASSUME IInv, NEW j \in Jobs, NewPayloadJob(j) \/ MissingParent(j)
    PROVE  /\ EnsureOnlyOnePayload => lastPayload' = requests'
           /\ \A k \in Jobs : JobInv(k)'
<1> USE DEF IInv
<1>1. /\ j = requests + 1 /\ requests' = j /\ CancelLast(j)
      /\ UNCHANGED <<index, cell, published, late, resolve, answer>>
  BY DEF NewPayloadJob, MissingParent, SpawnJob, RejectJob, buildVars
<1>2. EnsureOnlyOnePayload => lastPayload' = requests'
  BY <1>1 DEF CancelLast
<1>3. ASSUME NEW k \in Jobs
      PROVE  /\ cancelled[k] => cancelled'[k]
             /\ EnsureOnlyOnePayload /\ k = requests => cancelled'[k]
  <2>1. CASE EnsureOnlyOnePayload
    BY <1>1, <2>1, Zenon DEF CancelLast
  <2>2. CASE ~EnsureOnlyOnePayload
    BY <1>1, <2>2 DEF CancelLast
  <2> QED
    BY <2>1, <2>2
<1>4. ASSUME NEW k \in Jobs, k # j
      PROVE  job'[k] = job[k] /\ build'[k] = build[k]
  BY <1>4, Zenon DEF NewPayloadJob, MissingParent, SpawnJob, RejectJob, buildVars,
     TypeOK, JobsTypeOK, BuilderTypeOK
<1>5. /\ job'[j] \in {"live", "rejected"}
      /\ job[j] = "none" /\ build[j] = "none"
      /\ build'[j] \in {"none", "pre"}
  <2>1. job[j] = "none" /\ build[j] = "none"
    BY <1>1 DEF JobInv, Requested, Jobs, TypeOK, JobsTypeOK
  <2>2. CASE NewPayloadJob(j)
    BY <2>1, <2>2 DEF NewPayloadJob, SpawnJob, TypeOK, JobsTypeOK, BuilderTypeOK
  <2>3. CASE MissingParent(j)
    BY <2>1, <2>3 DEF MissingParent, RejectJob, buildVars, TypeOK, JobsTypeOK
  <2> QED
    BY <2>1, <2>2, <2>3
<1>6. ASSUME NEW k \in Jobs
      PROVE  JobInv(k)'
  <2>0. JobInv(k)
    OBVIOUS
  <2>1. Progress(k)'
    BY <2>0, <1>1, <1>4, <1>5 DEF JobInv, Progress, Stopped
  <2>2. Answered(k)' /\ Late(k)'
    BY <2>0, <1>1, <1>3, <1>4, <1>5 DEF JobInv, Answered, Late, Owed, ArmedSteps
  <2>3. Requested(k)'
    BY <2>0, <1>1, <1>3, <1>4, <1>5
       DEF JobInv, Requested, Jobs, TypeOK, JobsTypeOK
  <2> QED
    BY <2>1, <2>2, <2>3 DEF JobInv
<1> QED
  BY <1>2, <1>6

\* Polling a job and its getPayload future preserves the invariant of the job.
LEMMA ServiceInv ==
    ASSUME IInv, NEW j \in Jobs, GetPayload(j) \/ ServiceStep(j)
    PROVE  JobInv(j)'
<1>0. JobInv(j) /\ UNCHANGED <<requests, cell, build, index, published, late>>
  BY DEF IInv, GetPayload, ServiceStep, JobDeadline, JobDropped, Answer, ResolveKind,
     PollDeadline, PollCancelled, WaitForValue, buildVars
<1>F. /\ job \in [Jobs -> {"none", "live", "gone", "rejected"}]
      /\ cancelled \in [Jobs -> BOOLEAN] /\ answer \in [Jobs -> Int]
      /\ resolve \in [Jobs -> {"none", "waiting", "ready"}]
  BY DEF IInv, TypeOK, JobsTypeOK
<1>1. CASE JobDeadline(j) \/ JobDropped(j)
  BY <1>0, <1>1, <1>F, JobFrame
     DEF JobDeadline, JobDropped, PollDeadline, PollCancelled
<1>2. CASE GetPayload(j)
  <2>1. job[j] = "live" /\ job'[j] = "gone" /\ cancelled'[j] /\ resolve'[j] = "waiting"
        /\ answer' = answer
    BY <1>2, <1>F DEF GetPayload, ResolveKind
  <2>2. answer[j] = Empty
    BY <1>0, <2>1, Zenon DEF JobInv, Answered
  <2> QED
    BY <1>0, <2>1, <2>2
       DEF JobInv, Progress, Answered, Late, Requested, Owed
<1>3. CASE Answer(j)
  <2>1. /\ resolve[j] = "waiting" /\ resolve'[j] = "ready"
        /\ cell[j] # Empty /\ answer'[j] = cell[j]
        /\ UNCHANGED <<job, cancelled>>
    BY <1>3, <1>F DEF Answer, WaitForValue
  <2>2. cell[j] \in Nat /\ published[j] + Owed(j) <= cell[j] + 2
    <3>1. Progress(j) /\ build[j] \in BuildSteps /\ cell[j] \in Int
          /\ index[j] \in Nat /\ published[j] \in Nat
      BY <1>0 DEF IInv, JobInv, TypeOK, BuilderTypeOK, JobsTypeOK
    <3>2. CASE build[j] \in Stopped
      BY <2>1, <3>1, <3>2 DEF Progress, Owed, ArmedSteps, Stopped, Empty
    <3>3. CASE build[j] \notin Stopped
      BY <2>1, <3>1, <3>3 DEF Progress, Owed, ArmedSteps, BuildSteps, Empty
    <3> QED
      BY <3>2, <3>3
  <2>3. Owed(j)' = Owed(j)
    BY <1>0 DEF Owed
  <2>4. answer'[j] \in 0..cell'[j] /\ published'[j] + Owed(j)' <= answer'[j] + 2
    <3>1. \A n \in Nat : n \in 0..n
      OBVIOUS
    <3>2. answer'[j] = cell[j] /\ cell'[j] = cell[j] /\ published'[j] = published[j]
      BY <1>0, <2>1, Zenon
    <3> QED
      BY <2>2, <2>3, <3>1, <3>2, Zenon
  <2>5. Answered(j)'
    BY <1>0, <2>1, <2>4, Zenon DEF JobInv, Answered
  <2>6. Progress(j)' /\ Late(j)' /\ Requested(j)'
    BY <1>0, <2>1 DEF JobInv, Progress, Late, Requested
  <2> QED
    BY <2>5, <2>6 DEF JobInv
<1> QED
  BY <1>1, <1>2, <1>3 DEF ServiceStep

\* The build thread of one job leaves the state of the others alone.
LEMMA BuildElsewhere ==
    ASSUME TypeOK, NEW j \in Jobs, NEW k \in Jobs, k # j,
           BuildStep(j) \/ ExecutePoolDrained(j) \/ PollAnswered(j) \/ BuildError(j)
    PROVE  /\ UNCHANGED <<requests, lastPayload, job, cancelled, resolve, answer>>
           /\ build'[k] = build[k] /\ index'[k] = index[k] /\ cell'[k] = cell[k]
           /\ published'[k] = published[k] /\ late'[k] = late[k]
<1> USE DEF TypeOK, JobsTypeOK, BuilderTypeOK, Goto
<1>1. /\ UNCHANGED <<requests, lastPayload, job, cancelled, resolve, answer>>
      /\ cell'[k] = cell[k]
  BY BuildFrame, Zenon DEF CellSet, jobVars
<1>2. ASSUME NEW n \in Targets, DeriveTiming(j, n)
      PROVE  /\ build'[k] = build[k] /\ index'[k] = index[k]
             /\ published'[k] = published[k] /\ late'[k] = late[k]
  BY <1>2 DEF DeriveTiming
<1>3. CASE SendFallback(j) \/ SendFlashblock(j) \/ SetFallback(j) \/ SetFlashblock(j)
  <2>1. CASE SendFallback(j) \/ SendFlashblock(j)
    BY <1>1, <2>1, Zenon DEF SendFallback, SendFlashblock, Send
  <2>2. CASE SetFallback(j)
    BY <1>1, <2>2 DEF SetFallback
  <2>3. CASE SetFlashblock(j)
    BY <1>1, <2>3 DEF SetFlashblock
  <2> QED
    BY <1>3, <2>1, <2>2, <2>3, Zenon
<1>4. CASE PublishFallback(j) \/ PublishFlashblock(j)
  <2>1. ASSUME NEW from, NEW to, Publish(j, from, to)
        PROVE  /\ build'[k] = build[k] /\ index'[k] = index[k]
               /\ published'[k] = published[k] /\ late'[k] = late[k]
    BY <2>1, Zenon DEF Publish
  <2> QED
    BY <1>1, <1>4, <2>1, Zenon DEF PublishFallback, PublishFlashblock
<1>5. CASE Receive(j)
  BY <1>1, <1>5 DEF Receive
<1>6. CASE \/ BuildFallback(j) \/ ReceiveClosed(j) \/ ExecuteCancelled(j)
           \/ ExecutePoolDrained(j) \/ CheckCancelled(j) \/ AssembleBlock(j)
           \/ RecheckCancelled(j) \/ BuildError(j)
  <2>1. PICK step : Move(j, step)
    BY <1>6, Zenon DEF BuildFallback, ReceiveClosed, ExecuteCancelled, ExecutePoolDrained,
       CheckCancelled, AssembleBlock, RecheckCancelled, BuildError
  <2> QED
    BY <1>1, <2>1 DEF Move
<1>7. CASE PollAnswered(j) \/ PollHold(j)
  BY <1>1, <1>7, Zenon DEF PollAnswered, PollHold
<1> QED
  BY <1>1, <1>2, <1>3, <1>4, <1>5, <1>6, <1>7, Zenon DEF BuildStep

\* IInv is inductive.
LEMMA IInvStep ==
    ASSUME IInv, [Next]_vars
    PROVE  IInv'
<1>0. TypeOK'
  BY TypeStep DEF IInv
<1>1. ASSUME NEW j \in Jobs,
             BuildStep(j) \/ ExecutePoolDrained(j) \/ PollAnswered(j) \/ BuildError(j)
      PROVE  IInv'
  <2>1. ASSUME NEW k \in Jobs
        PROVE  JobInv(k)'
    <3>1. CASE k = j
      BY <1>1, <3>1, BuildInv
    <3>2. CASE k # j
      BY <1>1, <3>2, BuildElsewhere, JobFrame DEF IInv
    <3> QED
      BY <3>1, <3>2
  <2>2. UNCHANGED <<requests, lastPayload>>
    BY <1>1, BuildFrame DEF IInv, CellSet, jobVars
  <2> QED
    BY <1>0, <2>1, <2>2 DEF IInv
<1>2. ASSUME NEW j \in Jobs, NewPayloadJob(j) \/ MissingParent(j)
      PROVE  IInv'
  BY <1>0, <1>2, RequestInv DEF IInv
<1>3. ASSUME NEW j \in Jobs, GetPayload(j) \/ ServiceStep(j)
      PROVE  IInv'
  <2> USE <1>3 DEF GetPayload, ServiceStep, JobDeadline, JobDropped, Answer,
              ResolveKind, PollDeadline, PollCancelled, WaitForValue
  <2>1. ASSUME NEW k \in Jobs, k # j
        PROVE  JobInv(k)'
    BY <2>1, JobFrame, Zenon DEF IInv, TypeOK, JobsTypeOK, buildVars
  <2>2. JobInv(j)'
    BY ServiceInv, Zenon
  <2>3. UNCHANGED <<requests, lastPayload>>
    BY Zenon
  <2> QED
    BY <1>0, <2>1, <2>2, <2>3 DEF IInv
<1>4. ASSUME UNCHANGED jobVars, UNCHANGED buildVars
      PROVE  IInv'
  <2>1. ASSUME NEW k \in Jobs
        PROVE  JobInv(k)'
    BY <1>4, <2>1, JobFrame DEF IInv, jobVars, buildVars
  <2> QED
    BY <1>0, <1>4, <2>1 DEF IInv, jobVars
<1>5. ASSUME NEW j \in Jobs, TimerTick(j) \/ TimerStep(j)
      PROVE  IInv'
  BY <1>4, <1>5 DEF TimerTick, TimerStep, TimerDeadline, TimerSend, TimerCancelled
<1>6. CASE Handler \/ P2pNode
  BY <1>4, <1>6 DEF Handler, P2pNode
<1>7. CASE UNCHANGED vars
  BY <1>4, <1>7 DEF vars
<1> QED
  BY <1>1, <1>2, <1>3, <1>5, <1>6, <1>7 DEF Next, JobNext

\* IInv holds in every reachable state.
THEOREM Invariant == Spec => []IInv
<1>1. Init => IInv
  <2> SUFFICES ASSUME Init PROVE IInv
    OBVIOUS
  <2>1. TypeOK
    BY JobsAssumption, HandlerAssumption, BuilderAssumption
       DEF Init, JobsInit, HandlerInit, TypeOK, JobsTypeOK, HandlerTypeOK,
           BuilderTypeOK, BuildSteps, Stopped, SignalCap, Empty
  <2>2. ASSUME NEW j \in Jobs
        PROVE  JobInv(j)
    BY DEF Init, JobsInit, JobInv, Progress, Answered, Late, Requested,
       Stopped, Empty, Jobs
  <2> QED
    BY <2>1, <2>2 DEF Init, JobsInit, IInv
<1>2. IInv /\ [Next]_vars => IInv'
  BY IInvStep
<1> QED
  BY <1>1, <1>2, PTL DEF Spec

\* engine_getPayload lacks at most the last flashblock published for the job.
THEOREM AnswerNearStreamHolds == Spec => []AnswerNearStream
<1>1. IInv => AnswerNearStream
  <2> SUFFICES ASSUME IInv, NEW j \in Jobs, answer[j] # Empty
               PROVE  published[j] \in answer[j]..(answer[j] + 2)
    BY DEF AnswerNearStream
  <2>1. /\ answer[j] \in 0..cell[j]
        /\ published[j] + Owed(j) <= answer[j] + 2
    BY DEF IInv, JobInv, Answered
  <2>2. cell[j] <= published[j]
    <3>1. Progress(j) /\ build[j] \in BuildSteps /\ cell[j] \in Int
          /\ index[j] \in Nat /\ published[j] \in Nat
      BY DEF IInv, JobInv, TypeOK, BuilderTypeOK, JobsTypeOK
    <3> QED
      BY <3>1 DEF Progress, BuildSteps, Stopped, Empty
  <2> QED
    BY <2>1, <2>2 DEF IInv, TypeOK, JobsTypeOK, BuilderTypeOK, Owed
<1> QED
  BY <1>1, Invariant, PTL

\* After a job is cancelled at most one of its flashblocks is published.
THEOREM AtMostOneLateHolds == Spec => []AtMostOneLate
<1>1. IInv => AtMostOneLate
  BY DEF IInv, JobInv, Late, AtMostOneLate
<1> QED
  BY <1>1, Invariant, PTL

\* The cell and the stream of a job stay together at every point of the build.
THEOREM CellTracksStreamHolds == Spec => []CellTracksStream
<1>1. IInv => CellTracksStream
  <2> SUFFICES ASSUME IInv, NEW j \in Jobs
               PROVE  \/ published[j] = 0 /\ cell[j] \in {Empty, 0}
                      \/ published[j] - cell[j] \in {1, 2}
    BY DEF CellTracksStream
  <2>1. Progress(j) /\ build[j] \in BuildSteps /\ cell[j] \in Int
        /\ index[j] \in Nat /\ published[j] \in Nat
    BY DEF IInv, JobInv, TypeOK, BuilderTypeOK, JobsTypeOK
  <2> QED
    BY <2>1 DEF Progress, BuildSteps, Stopped, Empty
<1> QED
  BY <1>1, Invariant, PTL

\* Every request but the last has been cancelled.
THEOREM OlderJobsCancelledHolds == Spec => []OlderJobsCancelled
<1>1. IInv => OlderJobsCancelled
  BY DEF IInv, JobInv, Requested, OlderJobsCancelled
<1> QED
  BY <1>1, Invariant, PTL

=============================================================================
