----------------------- MODULE FlashblocksOrderProofs -----------------------
(***************************************************************************)
(* The order of things in FlashblocksBuilder, on top of its invariant: the *)
(* flashblocks follow the signals of the timer one by one, and the engine  *)
(* is told of the payloads of a job in order and without gaps.             *)
(***************************************************************************)
EXTENDS FlashblocksBuilderProofs

-----------------------------------------------------------------------------
\* Pacing.  PacedByTimer is about the flashblock at work; it holds because the
\* tokens in the channel and the one the timer is about to send continue the
\* count of the flashblocks.

Before == {"none", "pre", "send0", "set0", "publish0", "timing"}

Working == {"execute", "check", "poll", "assemble", "recheck", "publish", "send", "set"}

Offset == IF BuildAtIntervalEnd THEN 0 ELSE 1

\* The token the build thread receives next.
NextToken(j) == (index[j] - Offset) + (IF build[j] \in Working THEN 1 ELSE 0)

Sending(j) == IF timer[j] \in {"send", "sendLast"} THEN 1 ELSE 0

Queued(j) ==
    /\ \A k \in 1..Len(signals[j]) : signals[j][k] = NextToken(j) + k - 1
    /\ issued[j] = NextToken(j) + Len(signals[j]) - 1 + Sending(j)

Paced(j) ==
    /\ build[j] \in Before => timer[j] = "off" /\ issued[j] = 0 /\ signals[j] = << >>
    /\ build[j] \in Working \cup {"recv"} => timer[j] # "off" /\ Queued(j)
    /\ build[j] \in Working => index[j] = token[j] + Offset /\ index[j] <= target[j]

\* What Paced speaks of.
pacing(k) == <<build[k], index[k], target[k], token[k], timer[k], issued[k], signals[k]>>

\* A job none of whose pacing state changes stays paced.
LEMMA PacedFrame ==
    ASSUME NEW k \in Jobs, Paced(k), pacing(k)' = pacing(k)
    PROVE  Paced(k)'
  BY DEF pacing, Paced, Queued, NextToken, Sending

\* A step of the thread that leaves signals and indices alone.
LEMMA PacedMove ==
    ASSUME NEW j \in Jobs, Paced(j),
           UNCHANGED <<index, target, token, timer, issued, signals>>,
           \/ build[j] \in Before /\ build'[j] \in Before
           \/ build[j] \in Working /\ build'[j] \in Working
           \/ build'[j] \in Stopped
    PROVE  Paced(j)'
<1> USE DEF Before, Working, Stopped
<1>1. CASE build[j] \in Before /\ build'[j] \in Before
  BY <1>1 DEF Paced
<1>2. CASE build[j] \in Working /\ build'[j] \in Working
  <2>1. Queued(j)'
    BY <1>2 DEF Paced, Queued, NextToken, Sending
  <2> QED
    BY <1>2, <2>1 DEF Paced
<1>3. CASE build'[j] \in Stopped
  BY <1>3 DEF Paced
<1> QED
  BY <1>1, <1>2, <1>3

\* The steps of the build thread of job j.
LEMMA PacedBuild ==
    ASSUME IInv, NEW j \in Jobs, Paced(j),
           BuildStep(j) \/ ExecutePoolDrained(j) \/ PollAnswered(j) \/ BuildError(j)
    PROVE  Paced(j)'
<1> USE DEF Goto, timerVars
<1>T. /\ build \in [Jobs -> BuildSteps] /\ index \in [Jobs -> Nat]
      /\ target \in [Jobs -> Nat] /\ token \in [Jobs -> Nat]
      /\ timer \in [Jobs -> {"off", "select", "send", "sendLast", "done"}]
      /\ issued \in [Jobs -> Nat] /\ signals \in [Jobs -> Seq(Nat)]
  BY DEF IInv, TypeOK, BuilderTypeOK
<1>O. Offset \in {0, 1}
  BY DEF Offset
<1>1. ASSUME NEW from, NEW to, build[j] = from, Goto(j, to),
             UNCHANGED <<index, target, token, timer, issued, signals>>,
             \/ from \in Before /\ to \in Before
             \/ from \in Working /\ to \in Working
             \/ to \in Stopped
      PROVE  Paced(j)'
  <2>1. build'[j] = to
    BY <1>1, <1>T
  <2> QED
    BY <1>1, <2>1, PacedMove
<1>2. CASE BuildFallback(j) \/ BuildError(j) \/ ReceiveClosed(j) \/ AssembleBlock(j)
  BY <1>1, <1>2 DEF BuildFallback, BuildError, ReceiveClosed, AssembleBlock, Move,
     Before, Working, Stopped
<1>3. CASE ExecuteCancelled(j) \/ ExecutePoolDrained(j)
  BY <1>1, <1>3 DEF ExecuteCancelled, ExecutePoolDrained, Move, Working
<1>4. CASE CheckCancelled(j) \/ RecheckCancelled(j)
  <2>1. PICK from \in {"check", "recheck"}, to \in {"done", "poll", "publish"} :
            build[j] = from /\ Move(j, to)
    BY <1>4 DEF CheckCancelled, RecheckCancelled, UnlessCancelled
  <2> QED
    BY <1>1, <2>1 DEF Move, Working, Stopped
<1>5. CASE SendFallback(j) \/ SendFlashblock(j)
  <2>1. CASE SendFallback(j)
    <3>1. PICK to \in {"failed", "set0"} : Goto(j, to)
      BY <2>1 DEF SendFallback, Send
    <3> QED
      BY <1>1, <2>1, <3>1 DEF SendFallback, Send, Before, Stopped
  <2>2. CASE SendFlashblock(j)
    <3>1. PICK to \in {"failed", "set"} : Goto(j, to)
      BY <2>2 DEF SendFlashblock, Send
    <3> QED
      BY <1>1, <2>2, <3>1 DEF SendFlashblock, Send, Working, Stopped
  <2> QED
    BY <1>5, <2>1, <2>2
<1>6. CASE SetFallback(j)
  <2>1. PICK to \in {"done", "publish0"} : Goto(j, to)
    BY <1>6 DEF SetFallback
  <2> QED
    BY <1>1, <1>6, <2>1 DEF SetFallback, Before, Stopped
<1>7. CASE PublishFallback(j) \/ PublishFlashblock(j)
  BY <1>1, <1>7 DEF PublishFallback, PublishFlashblock, Publish, Before, Working
<1>8. CASE PollAnswered(j) \/ PollHold(j)
  <2>1. PICK to \in {"poll", "assemble"} : Goto(j, to)
    BY <1>8 DEF PollAnswered, PollHold
  <2> QED
    BY <1>1, <1>8, <2>1 DEF PollAnswered, PollHold, Working
<1>9. ASSUME NEW n \in Targets, DeriveTiming(j, n)
      PROVE  Paced(j)'
  <2>0. /\ build[j] = "timing" /\ index[j] = 1
        /\ timer[j] = "off" /\ issued[j] = 0 /\ signals[j] = << >>
    BY <1>9 DEF DeriveTiming, IInv, JobInv, Progress, Paced, Before
  <2>1. CASE n = 0
    <3>1. build'[j] = "failed"
      BY <1>9, <1>T, <2>1 DEF DeriveTiming
    <3> QED
      BY <3>1 DEF Paced, Before, Working
  <2>2. CASE n # 0
    <3>1. /\ build'[j] = "recv" /\ UNCHANGED <<index, issued, signals>>
          /\ timer'[j] = IF BuildAtIntervalEnd THEN "select" ELSE "send"
      BY <1>9, <1>T, <2>2, BuilderAssumption DEF DeriveTiming
    <3>2. Queued(j)'
      BY <2>0, <3>1 DEF Queued, NextToken, Sending, Offset, Working
    <3> QED
      BY <3>1, <3>2 DEF Paced, Before, Working
  <2> QED
    BY <2>1, <2>2
<1>10. CASE Receive(j)
  <2> DEFINE q == signals[j]
  <2>0. /\ build[j] = "recv" /\ q # << >> /\ q \in Seq(Nat)
        /\ timer[j] # "off" /\ Queued(j)
    BY <1>10, <1>T DEF Receive, Paced
  <2>1. /\ token'[j] = Head(q) /\ signals'[j] = Tail(q)
        /\ UNCHANGED <<index, target, timer, issued>>
    BY <1>10, <1>T DEF Receive
  <2>2. build'[j] = IF index[j] > target[j] THEN "done" ELSE "execute"
    BY <1>10, <1>T DEF Receive
  <2>3. CASE index[j] > target[j]
    BY <2>2, <2>3 DEF Paced, Before, Working
  <2>4. CASE ~(index[j] > target[j])
    <3>1. build'[j] = "execute"
      BY <2>2, <2>4
    <3>2. NextToken(j) = index[j] - Offset /\ NextToken(j)' = index[j] - Offset + 1
      BY <2>0, <2>1, <3>1, <1>T, <1>O DEF NextToken, Working, Offset
    <3>3. /\ Len(Tail(q)) = Len(q) - 1 /\ Len(q) \in Nat /\ Len(q) >= 1
          /\ Head(q) = q[1]
          /\ \A k \in 1..Len(Tail(q)) : Tail(q)[k] = q[k + 1]
      BY <2>0
    <3>4. Head(q) = index[j] - Offset
      BY <2>0, <3>2, <3>3, <1>T, <1>O DEF Queued
    <3>5. ASSUME NEW k \in 1..Len(Tail(q))
          PROVE  Tail(q)[k] = NextToken(j)' + k - 1
      <4>1. k + 1 \in 1..Len(q) /\ Tail(q)[k] = q[k + 1]
        BY <3>3
      <4>2. q[k + 1] = NextToken(j) + (k + 1) - 1
        BY <2>0, <4>1 DEF Queued
      <4> QED
        BY <4>1, <4>2, <3>2, <3>3, <1>T, <1>O
    <3>6. issued'[j] = NextToken(j)' + Len(Tail(q)) - 1 + Sending(j)'
      <4>1. issued[j] = NextToken(j) + Len(q) - 1 + Sending(j)
        BY <2>0 DEF Queued
      <4>2. Sending(j)' = Sending(j) /\ Sending(j) \in {0, 1} /\ issued'[j] = issued[j]
        BY <2>1 DEF Sending
      <4> QED
        BY <3>2, <3>3, <4>1, <4>2, <1>T, <1>O
    <3>7. Queued(j)'
      BY <2>1, <3>5, <3>6 DEF Queued
    <3>8. index'[j] = token'[j] + Offset /\ index'[j] <= target'[j]
      BY <2>1, <2>4, <3>4, <1>T, <1>O
    <3> QED
      BY <2>0, <2>1, <3>1, <3>7, <3>8 DEF Paced, Before
  <2> QED
    BY <2>3, <2>4
<1>11. CASE SetFlashblock(j)
  <2>1. /\ build[j] = "set" /\ build'[j] = "recv" /\ index'[j] = index[j] + 1
        /\ UNCHANGED <<target, token, timer, issued, signals>>
    BY <1>11, <1>T DEF SetFlashblock
  <2>2. NextToken(j)' = NextToken(j)
    <3>1. NextToken(j) = index[j] - Offset + 1
      BY <2>1 DEF NextToken, Working
    <3>2. NextToken(j)' = index'[j] - Offset + 0
      BY <2>1 DEF NextToken, Working, Offset
    <3>3. index[j] \in Nat
      BY <1>T
    <3> QED
      BY <2>1, <3>1, <3>2, <3>3, <1>O
  <2>3. Queued(j)' /\ timer[j] # "off"
    BY <2>1, <2>2 DEF Paced, Queued, Sending, Working
  <2> QED
    BY <2>1, <2>3 DEF Paced, Before, Working
<1> QED
  BY <1>2, <1>3, <1>4, <1>5, <1>6, <1>7, <1>8, <1>9, <1>10, <1>11, Zenon DEF BuildStep

\* The steps of the timer task of job j.
LEMMA PacedTimer ==
    ASSUME IInv, NEW j \in Jobs, Paced(j), TimerTick(j) \/ TimerStep(j)
    PROVE  Paced(j)'
<1> DEFINE q == signals[j]
<1>T. /\ timer \in [Jobs -> {"off", "select", "send", "sendLast", "done"}]
      /\ issued \in [Jobs -> Nat] /\ signals \in [Jobs -> Seq(Nat)]
      /\ index[j] \in Nat /\ build[j] \in BuildSteps
  BY DEF IInv, TypeOK, BuilderTypeOK
<1>0. UNCHANGED <<build, index, target, token>>
  BY DEF TimerStep, TimerTick, TimerDeadline, TimerSend, TimerCancelled, buildVars
<1>1. build[j] \notin Before
  BY DEF TimerStep, TimerTick, TimerDeadline, TimerSend, TimerCancelled, Paced
<1>2. CASE build[j] \in Stopped
  BY <1>0, <1>2 DEF Paced, Before, Working, Stopped
<1>3. CASE build[j] \in Working \cup {"recv"}
  <2>1. NextToken(j)' = NextToken(j) /\ NextToken(j) \in Int
    BY <1>0, <1>T DEF NextToken, Offset
  <2>2. /\ Queued(j) /\ Len(q) \in Nat /\ q \in Seq(Nat) /\ issued[j] \in Nat
    BY <1>3, <1>T DEF Paced
  <2>3. ASSUME timer'[j] # "off", Queued(j)'
        PROVE  Paced(j)'
    BY <1>0, <1>1, <2>3 DEF Paced
  <2>4. CASE TimerTick(j) \/ TimerDeadline(j)
    <3>1. /\ issued'[j] = issued[j] + 1 /\ signals' = signals
          /\ timer[j] = "select" /\ timer'[j] \in {"send", "sendLast"}
      BY <2>4, <1>T DEF TimerTick, TimerDeadline
    <3>2. Sending(j) = 0 /\ Sending(j)' = 1
      BY <3>1 DEF Sending
    <3>3. Queued(j)'
      BY <2>1, <2>2, <3>1, <3>2 DEF Queued
    <3> QED
      BY <2>3, <3>1, <3>3
  <2>5. CASE TimerSend(j)
    <3>1. /\ timer[j] \in {"send", "sendLast"} /\ issued' = issued
          /\ signals'[j] = Append(q, issued[j])
          /\ timer'[j] \in {"select", "done"}
      BY <1>3, <2>5, <1>T DEF TimerSend, Working, Stopped
    <3>2. Sending(j) = 1 /\ Sending(j)' = 0
      BY <3>1 DEF Sending
    <3>3. issued[j] = NextToken(j) + Len(q)
      BY <2>1, <2>2, <3>2 DEF Queued
    <3>4. /\ Len(signals'[j]) = Len(q) + 1
          /\ \A k \in 1..Len(q) : signals'[j][k] = q[k]
          /\ signals'[j][Len(q) + 1] = issued[j]
      BY <2>2, <3>1
    <3>5. ASSUME NEW k \in 1..Len(signals'[j])
          PROVE  signals'[j][k] = NextToken(j) + k - 1
      <4>1. CASE k \in 1..Len(q)
        BY <2>2, <3>4, <4>1 DEF Queued
      <4>2. CASE k = Len(q) + 1
        BY <2>1, <2>2, <3>3, <3>4, <4>2
      <4> QED
        BY <2>2, <3>4, <4>1, <4>2
    <3>6. Queued(j)'
      BY <2>1, <2>2, <3>1, <3>2, <3>3, <3>4, <3>5 DEF Queued
    <3> QED
      BY <2>3, <3>1, <3>6
  <2>6. CASE TimerCancelled(j)
    <3>1. UNCHANGED <<issued, signals>> /\ timer[j] = "select" /\ timer'[j] = "done"
      BY <2>6, <1>T DEF TimerCancelled
    <3>2. Queued(j)'
      BY <2>1, <2>2, <3>1 DEF Queued, Sending
    <3> QED
      BY <2>3, <3>1, <3>2
  <2> QED
    BY <2>4, <2>5, <2>6 DEF TimerStep
<1> QED
  BY <1>1, <1>2, <1>3, <1>T DEF BuildSteps, Before, Working

\* A step of one job's thread or timer leaves the other jobs alone.
LEMMA PacedElsewhere ==
    ASSUME IInv, NEW j \in Jobs, NEW k \in Jobs, k # j, JobNext(j)
    PROVE  pacing(k)' = pacing(k)
<1> USE DEF Goto, pacing, timerVars, buildVars
<1>T. /\ build \in [Jobs -> BuildSteps] /\ index \in [Jobs -> Nat]
      /\ target \in [Jobs -> Nat] /\ token \in [Jobs -> Nat]
      /\ timer \in [Jobs -> {"off", "select", "send", "sendLast", "done"}]
      /\ issued \in [Jobs -> Nat] /\ signals \in [Jobs -> Seq(Nat)]
  BY DEF IInv, TypeOK, BuilderTypeOK
<1>1. ASSUME NEW to, Goto(j, to),
             UNCHANGED <<index, target, token, timer, issued, signals>>
      PROVE  pacing(k)' = pacing(k)
  BY <1>1, <1>T
<1>2. ASSUME NEW n \in Targets, DeriveTiming(j, n)
      PROVE  pacing(k)' = pacing(k)
  BY <1>2, <1>T DEF DeriveTiming
<1>3. CASE Receive(j)
  BY <1>3, <1>T DEF Receive
<1>4. CASE SetFlashblock(j)
  BY <1>4, <1>T DEF SetFlashblock
<1>5. CASE SendFallback(j) \/ SendFlashblock(j)
  BY <1>1, <1>5, Zenon DEF SendFallback, SendFlashblock, Send
<1>6. CASE SetFallback(j) \/ PollAnswered(j) \/ PollHold(j)
  BY <1>1, <1>6, Zenon DEF SetFallback, PollAnswered, PollHold
<1>7. CASE PublishFallback(j) \/ PublishFlashblock(j)
  BY <1>1, <1>7, Zenon DEF PublishFallback, PublishFlashblock, Publish
<1>8. CASE \/ BuildFallback(j) \/ ReceiveClosed(j) \/ ExecuteCancelled(j)
           \/ ExecutePoolDrained(j) \/ CheckCancelled(j) \/ AssembleBlock(j)
           \/ RecheckCancelled(j) \/ BuildError(j)
  BY <1>1, <1>8, Zenon DEF BuildFallback, ReceiveClosed, ExecuteCancelled,
     ExecutePoolDrained, CheckCancelled, AssembleBlock, RecheckCancelled, BuildError, Move
<1>9. CASE TimerTick(j) \/ TimerDeadline(j) \/ TimerCancelled(j)
  BY <1>9, <1>T DEF TimerTick, TimerDeadline, TimerCancelled
<1>10. CASE TimerSend(j)
  BY <1>10, <1>T DEF TimerSend
<1>11. CASE NewPayloadJob(j)
  BY <1>11, <1>T DEF NewPayloadJob
<1>12. CASE MissingParent(j) \/ GetPayload(j) \/ ServiceStep(j)
  BY <1>12 DEF MissingParent, GetPayload, ServiceStep, JobDeadline, JobDropped, Answer
<1> QED
  BY <1>2, <1>3, <1>4, <1>5, <1>6, <1>7, <1>8, <1>9, <1>10, <1>11, <1>12, Zenon
  DEF JobNext, BuildStep, TimerStep

PacedInv == IInv /\ \A j \in Jobs : Paced(j)

\* Every step keeps every job paced.
LEMMA PacedStep ==
    ASSUME PacedInv, [Next]_vars
    PROVE  PacedInv'
<1>0. IInv /\ IInv'
  BY IInvStep DEF PacedInv
<1>1. ASSUME NEW j \in Jobs, JobNext(j), NEW k \in Jobs
      PROVE  Paced(k)'
  <2>1. CASE k # j
    BY <1>0, <1>1, <2>1, PacedElsewhere, PacedFrame DEF PacedInv
  <2>2. CASE k = j
    <3>1. Paced(j)
      BY DEF PacedInv
    <3>2. CASE BuildStep(j) \/ ExecutePoolDrained(j) \/ PollAnswered(j) \/ BuildError(j)
      BY <1>0, <2>2, <3>1, <3>2, PacedBuild
    <3>3. CASE TimerTick(j) \/ TimerStep(j)
      BY <1>0, <2>2, <3>1, <3>3, PacedTimer
    <3>4. CASE NewPayloadJob(j)
      <4>1. build[j] = "none" /\ build \in [Jobs -> BuildSteps]
        BY <1>0, <3>4, NewJobUntouched
      <4>2. build'[j] = "pre" /\ UNCHANGED <<index, target, token, timer, issued, signals>>
        BY <3>4, <4>1 DEF NewPayloadJob, timerVars
      <4> QED
        BY <2>2, <3>1, <4>1, <4>2, PacedMove DEF Before
    <3>5. CASE MissingParent(j) \/ GetPayload(j) \/ ServiceStep(j)
      <4>1. pacing(j)' = pacing(j)
        BY <3>5 DEF MissingParent, GetPayload, ServiceStep, JobDeadline, JobDropped,
           Answer, pacing, buildVars, timerVars
      <4> QED
        BY <2>2, <3>1, <4>1, PacedFrame
    <3> QED
      BY <1>1, <3>2, <3>3, <3>4, <3>5, Zenon DEF JobNext
  <2> QED
    BY <2>1, <2>2
<1>2. CASE Handler \/ P2pNode \/ UNCHANGED vars
  <2>1. ASSUME NEW k \in Jobs
        PROVE  Paced(k)'
    <3>1. pacing(k)' = pacing(k)
      BY <1>2 DEF Handler, P2pNode, vars, pacing, buildVars, timerVars
    <3> QED
      BY <3>1, PacedFrame DEF PacedInv
  <2> QED
    BY <1>0, <2>1 DEF PacedInv
<1> QED
  BY <1>0, <1>1, <1>2 DEF PacedInv, Next

\* Every flashblock uses up a signal of its own and none is beyond the target
\* count, however far the timer is ahead.
THEOREM PacedByTimerHolds == Spec => []PacedByTimer
<1>1. Init /\ IInv => PacedInv
  BY DEF Init, PacedInv, Paced, Before, Working
<1>2. PacedInv /\ [Next]_vars => PacedInv'
  BY PacedStep
<1>3. PacedInv => PacedByTimer
  BY DEF PacedInv, Paced, PacedByTimer, Working, Offset
<1> QED
  BY <1>1, <1>2, <1>3, Invariant, PTL DEF Spec

-----------------------------------------------------------------------------
\* Announcements.  What the thread sends next is the number of payloads it has
\* sent, so that the channel holds a run of them.

Sent0 == {"none", "pre", "send0"}

Sent1 == {"set0", "publish0", "timing"}

SentIndex == {"recv", "execute", "check", "poll", "assemble", "recheck", "publish", "send"}

SentInv(j) ==
    /\ build[j] \in Sent0 => sent[j] = 0
    /\ build[j] \in Sent1 => sent[j] = 1
    /\ build[j] \in SentIndex => sent[j] = index[j]
    /\ build[j] = "set" => sent[j] = index[j] + 1

\* The body of AnnouncedInOrder.
InOrder(j) ==
    /\ \A k \in 1..Len(built) :
          built[k][1] = j =>
              /\ built[k][2] \in announced[j]..(sent[j] - 1)
              /\ \A i \in 1..(k - 1) : built[i][1] = j => built[i][2] < built[k][2]
    /\ \A v \in announced[j]..(sent[j] - 1) :
          \E k \in 1..Len(built) : built[k] = <<j, v>>

\* The handler takes the head of the channel, which is the next payload to
\* announce of its job.
LEMMA HandleInOrder ==
    ASSUME HandlerTypeOK, \A j \in Jobs : InOrder(j) /\ announced[j] <= sent[j],
           HandleBuilt
    PROVE  \A j \in Jobs : InOrder(j)' /\ announced'[j] <= sent'[j]
<1> DEFINE h == Head(built)[1]
           w == Head(built)[2]
<1>1. /\ built \in Seq(Jobs \X Nat) /\ built # << >>
      /\ announced \in [Jobs -> Nat] /\ sent \in [Jobs -> Nat]
  BY DEF HandlerTypeOK, HandleBuilt
<1>2. /\ Len(built) \in Nat /\ 1 \in 1..Len(built) /\ Head(built) = built[1]
      /\ \A k \in 1..Len(built) : built[k] \in Jobs \X Nat
  BY <1>1
<1>3. /\ h \in Jobs /\ w \in Nat /\ built[1] = <<h, w>>
  BY <1>2
<1>4. /\ Len(Tail(built)) = Len(built) - 1
      /\ \A k \in 1..(Len(built) - 1) : Tail(built)[k] = built[k + 1]
  BY <1>1
<1>5. /\ built' = Tail(built) /\ sent' = sent
      /\ announced' = [announced EXCEPT ![h] = announced[h] + 1]
  BY DEF HandleBuilt
<1>6. w = announced[h]
  <2>1. w \in announced[h]..(sent[h] - 1)
    BY <1>2, <1>3 DEF InOrder
  <2>2. announced[h] \in announced[h]..(sent[h] - 1)
    BY <1>1, <1>3, <2>1
  <2>3. PICK k \in 1..Len(built) : built[k] = <<h, announced[h]>>
    BY <1>3, <2>2 DEF InOrder
  <2>4. k # 1 => w < announced[h]
    <3> SUFFICES ASSUME k # 1
                 PROVE  w < announced[h]
      OBVIOUS
    <3>1. 1 \in 1..(k - 1) /\ built[k][1] = h /\ built[1][1] = h
      BY <1>2, <1>3, <2>3
    <3>2. built[1][2] < built[k][2]
      BY <1>3, <2>3, <3>1 DEF InOrder
    <3> QED
      BY <1>3, <2>3, <3>2
  <2> QED
    BY <1>1, <1>3, <2>1, <2>3, <2>4
<1>7. ASSUME NEW j \in Jobs
      PROVE  InOrder(j)' /\ announced'[j] <= sent'[j]
  <2>0. announced[j] \in Nat /\ sent[j] \in Nat
    BY <1>1
  <2>1. announced'[j] = IF j = h THEN announced[j] + 1 ELSE announced[j]
    BY <1>1, <1>5
  <2>2. j = h => announced[j] <= sent[j] - 1
    <3>1. j = h => w \in announced[j]..(sent[j] - 1)
      BY <1>2, <1>3 DEF InOrder
    <3> QED
      BY <2>0, <3>1
  <2>3. announced'[j] <= sent'[j]
    BY <1>5, <2>0, <2>1, <2>2
  <2>4. ASSUME NEW k \in 1..Len(built'), built'[k][1] = j
        PROVE  /\ built'[k][2] \in announced'[j]..(sent'[j] - 1)
               /\ \A i \in 1..(k - 1) : built'[i][1] = j => built'[i][2] < built'[k][2]
    <3>1. /\ k + 1 \in 1..Len(built) /\ built'[k] = built[k + 1]
          /\ k \in Nat
      BY <1>2, <1>4, <1>5, <2>4
    <3>2. /\ built[k + 1][2] \in announced[j]..(sent[j] - 1)
          /\ \A i \in 1..((k + 1) - 1) : built[i][1] = j => built[i][2] < built[k + 1][2]
      BY <2>4, <3>1 DEF InOrder
    <3>3. j = h => w < built[k + 1][2]
      <4>1. 1 \in 1..((k + 1) - 1) /\ built[1] = <<h, w>>
        BY <1>3, <3>1
      <4> QED
        BY <3>2, <4>1
    <3>4. built'[k][2] \in announced'[j]..(sent'[j] - 1)
      BY <1>5, <1>6, <2>0, <2>1, <3>1, <3>2, <3>3
    <3>5. ASSUME NEW i \in 1..(k - 1), built'[i][1] = j
          PROVE  built'[i][2] < built'[k][2]
      <4>1. i + 1 \in 1..((k + 1) - 1) /\ built'[i] = built[i + 1]
        BY <1>2, <1>4, <1>5, <3>1
      <4> QED
        BY <3>1, <3>2, <3>5, <4>1
    <3> QED
      BY <3>4, <3>5
  <2>5. ASSUME NEW v \in announced'[j]..(sent'[j] - 1)
        PROVE  \E k \in 1..Len(built') : built'[k] = <<j, v>>
    <3>1. v \in announced[j]..(sent[j] - 1) /\ (j = h => v # w)
      BY <1>3, <1>5, <1>6, <2>0, <2>1
    <3>2. PICK k \in 1..Len(built) : built[k] = <<j, v>>
      BY <3>1 DEF InOrder
    <3>3. k # 1
      BY <1>3, <3>1, <3>2
    <3>4. k - 1 \in 1..Len(built') /\ built'[k - 1] = built[(k - 1) + 1] /\ (k - 1) + 1 = k
      BY <1>2, <1>4, <1>5, <3>3
    <3> QED
      BY <3>2, <3>4
  <2> QED
    BY <2>3, <2>4, <2>5 DEF InOrder
<1> QED
  BY <1>7

\* A successful try_send of payload sent[j] continues the run.
LEMMA SendInOrder ==
    ASSUME HandlerTypeOK, \A k \in Jobs : InOrder(k) /\ announced[k] <= sent[k],
           NEW j \in Jobs, TrySend(j, sent[j])
    PROVE  \A k \in Jobs : InOrder(k)' /\ announced'[k] <= sent'[k]
<1> DEFINE n == Len(built)
<1>1. /\ built \in Seq(Jobs \X Nat) /\ announced \in [Jobs -> Nat] /\ sent \in [Jobs -> Nat]
      /\ <<j, sent[j]>> \in Jobs \X Nat
  BY DEF HandlerTypeOK
<1>2. /\ built' = Append(built, <<j, sent[j]>>) /\ announced' = announced
      /\ sent' = [sent EXCEPT ![j] = sent[j] + 1]
  BY DEF TrySend
<1>3. /\ n \in Nat /\ Len(built') = n + 1
      /\ \A i \in 1..n : built'[i] = built[i] /\ built[i] \in Jobs \X Nat
      /\ built'[n + 1] = <<j, sent[j]>>
  BY <1>1, <1>2
<1>4. ASSUME NEW k \in Jobs
      PROVE  InOrder(k)' /\ announced'[k] <= sent'[k]
  <2>0. /\ announced[k] \in Nat /\ sent[k] \in Nat /\ announced[k] <= sent[k] /\ InOrder(k)
    BY <1>1
  <2>1. sent'[k] = IF k = j THEN sent[k] + 1 ELSE sent[k]
    BY <1>1, <1>2
  <2>2. announced'[k] = announced[k] /\ announced'[k] <= sent'[k]
    BY <1>2, <2>0, <2>1
  <2>3. ASSUME NEW m \in 1..Len(built'), built'[m][1] = k
        PROVE  /\ built'[m][2] \in announced'[k]..(sent'[k] - 1)
               /\ \A i \in 1..(m - 1) : built'[i][1] = k => built'[i][2] < built'[m][2]
    <3>1. CASE m \in 1..n
      <4>1. /\ built[m][1] = k
            /\ built[m][2] \in announced[k]..(sent[k] - 1)
            /\ \A i \in 1..(m - 1) : built[i][1] = k => built[i][2] < built[m][2]
        BY <1>3, <2>0, <2>3, <3>1 DEF InOrder
      <4>2. \A i \in 1..(m - 1) : built'[i] = built[i]
        BY <1>3, <3>1
      <4>3. built'[m] = built[m]
        BY <1>3, <3>1
      <4> QED
        BY <2>0, <2>1, <2>2, <4>1, <4>2, <4>3
    <3>2. CASE m = n + 1
      <4>1. k = j /\ built'[m][2] = sent[k]
        BY <1>3, <2>3, <3>2
      <4>2. ASSUME NEW i \in 1..(m - 1), built'[i][1] = k
            PROVE  built'[i][2] < built'[m][2]
        <5>1. i \in 1..n /\ built'[i] = built[i]
          BY <1>3, <3>2
        <5>2. built[i][2] \in announced[k]..(sent[k] - 1)
          BY <2>0, <4>2, <5>1 DEF InOrder
        <5> QED
          BY <2>0, <4>1, <5>1, <5>2
      <4> QED
        BY <2>0, <2>1, <2>2, <4>1, <4>2
    <3> QED
      BY <1>3, <3>1, <3>2
  <2>4. ASSUME NEW v \in announced'[k]..(sent'[k] - 1)
        PROVE  \E i \in 1..Len(built') : built'[i] = <<k, v>>
    <3>1. CASE v \in announced[k]..(sent[k] - 1)
      <4>1. PICK i \in 1..n : built[i] = <<k, v>>
        BY <2>0, <3>1 DEF InOrder
      <4>2. i \in 1..Len(built') /\ built'[i] = <<k, v>>
        BY <1>3, <4>1
      <4> QED
        BY <4>2
    <3>2. CASE v \notin announced[k]..(sent[k] - 1)
      <4>1. k = j /\ v = sent[k]
        BY <2>0, <2>1, <2>2, <3>2
      <4> QED
        BY <1>3, <4>1
    <3> QED
      BY <3>1, <3>2
  <2> QED
    BY <2>2, <2>3, <2>4 DEF InOrder
<1> QED
  BY <1>4

\* The thread of job j sends the payload whose number is the count of those it
\* has sent, or sends nothing.
LEMMA SentBuild ==
    ASSUME IInv, NEW j \in Jobs, SentInv(j),
           BuildStep(j) \/ ExecutePoolDrained(j) \/ PollAnswered(j) \/ BuildError(j)
    PROVE  SentInv(j)' /\ (TrySend(j, sent[j]) \/ UNCHANGED handlerVars)
<1> USE DEF Goto, Sent0, Sent1, SentIndex
<1>T. /\ build \in [Jobs -> BuildSteps] /\ index \in [Jobs -> Nat] /\ sent \in [Jobs -> Nat]
  BY DEF IInv, TypeOK, BuilderTypeOK, HandlerTypeOK
<1>1. ASSUME NEW from, NEW to, build[j] = from, Goto(j, to),
             UNCHANGED index, UNCHANGED handlerVars,
             \/ from \in Sent0 /\ to \in Sent0
             \/ from \in Sent1 /\ to \in Sent1
             \/ from \in SentIndex /\ to \in SentIndex
             \/ to \in Stopped
      PROVE  SentInv(j)' /\ (TrySend(j, sent[j]) \/ UNCHANGED handlerVars)
  <2>1. build'[j] = to /\ sent' = sent
    BY <1>1, <1>T DEF handlerVars
  <2>2. SentInv(j)'
    BY <1>1, <2>1 DEF SentInv, Stopped
  <2> QED
    BY <1>1, <2>2
<1>2. CASE BuildFallback(j) \/ BuildError(j) \/ ReceiveClosed(j) \/ AssembleBlock(j)
  BY <1>1, <1>2 DEF BuildFallback, BuildError, ReceiveClosed, AssembleBlock, Move, Stopped
<1>3. CASE ExecuteCancelled(j) \/ ExecutePoolDrained(j)
  BY <1>1, <1>3 DEF ExecuteCancelled, ExecutePoolDrained, Move
<1>4. CASE CheckCancelled(j) \/ RecheckCancelled(j)
  <2>1. PICK from \in {"check", "recheck"}, to \in {"done", "poll", "publish"} :
            build[j] = from /\ Move(j, to)
    BY <1>4 DEF CheckCancelled, RecheckCancelled, UnlessCancelled
  <2> QED
    BY <1>1, <2>1 DEF Move, Stopped
<1>5. ASSUME NEW from, NEW to, NEW payload, Send(j, from, payload, to),
             \/ from = "send0" /\ payload = 0 /\ to = "set0"
             \/ from = "send" /\ payload = index[j] /\ to = "set"
      PROVE  SentInv(j)' /\ (TrySend(j, sent[j]) \/ UNCHANGED handlerVars)
  <2>1. CASE TrySendFails
    BY <1>1, <1>5, <2>1 DEF Send, Stopped
  <2>2. CASE ~TrySendFails
    <3>1. payload = sent[j]
      BY <1>5 DEF Send, SentInv
    <3>2. TrySend(j, payload)
      BY <1>5, <2>2 DEF Send
    <3>3. build'[j] = to /\ sent'[j] = sent[j] + 1 /\ index' = index
      BY <1>5, <1>T, <2>2, <3>2 DEF Send, TrySend
    <3>4. SentInv(j)'
      <4>1. CASE from = "send0"
        <5>1. build'[j] = "set0" /\ sent'[j] = 1
          BY <1>5, <3>1, <3>3, <4>1
        <5> QED
          BY <5>1 DEF SentInv
      <4>2. CASE from = "send"
        <5>1. build'[j] = "set" /\ sent'[j] = index'[j] + 1
          BY <1>5, <3>1, <3>3, <4>2
        <5> QED
          BY <5>1 DEF SentInv
      <4> QED
        BY <1>5, <4>1, <4>2
    <3> QED
      BY <3>1, <3>2, <3>4
  <2> QED
    BY <2>1, <2>2
<1>6. CASE SendFallback(j) \/ SendFlashblock(j)
  BY <1>5, <1>6 DEF SendFallback, SendFlashblock
<1>7. CASE SetFallback(j)
  <2>1. PICK to \in {"done", "publish0"} : Goto(j, to)
    BY <1>7 DEF SetFallback
  <2> QED
    BY <1>1, <1>7, <2>1 DEF SetFallback, Stopped
<1>8. CASE PublishFallback(j) \/ PublishFlashblock(j)
  BY <1>1, <1>8 DEF PublishFallback, PublishFlashblock, Publish
<1>9. CASE PollAnswered(j) \/ PollHold(j)
  <2>1. PICK to \in {"poll", "assemble"} : Goto(j, to)
    BY <1>9 DEF PollAnswered, PollHold
  <2> QED
    BY <1>1, <1>9, <2>1 DEF PollAnswered, PollHold
<1>10. ASSUME NEW n \in Targets, DeriveTiming(j, n)
       PROVE  SentInv(j)' /\ (TrySend(j, sent[j]) \/ UNCHANGED handlerVars)
  <2>1. /\ build[j] = "timing" /\ index[j] = 1 /\ sent[j] = 1
        /\ UNCHANGED index /\ UNCHANGED handlerVars /\ build'[j] \in {"failed", "recv"}
    BY <1>10, <1>T DEF DeriveTiming, IInv, JobInv, Progress, SentInv
  <2> QED
    BY <2>1 DEF SentInv, handlerVars
<1>11. CASE Receive(j)
  <2>1. PICK to \in {"done", "execute"} : Goto(j, to)
    BY <1>11 DEF Receive
  <2> QED
    BY <1>1, <1>11, <2>1 DEF Receive, Stopped
<1>12. CASE SetFlashblock(j)
  <2>1. /\ build[j] = "set" /\ build'[j] = "recv" /\ index'[j] = index[j] + 1
        /\ UNCHANGED handlerVars
    BY <1>12, <1>T DEF SetFlashblock
  <2> QED
    BY <2>1 DEF SentInv, handlerVars
<1> QED
  BY <1>2, <1>3, <1>4, <1>6, <1>7, <1>8, <1>9, <1>10, <1>11, <1>12, Zenon DEF BuildStep

AnnounceInv ==
    /\ IInv
    /\ \A j \in Jobs : SentInv(j)
    /\ \A j \in Jobs : InOrder(j) /\ announced[j] <= sent[j]

\* Steps that do not touch the channel or its counters.
LEMMA AnnounceFrame ==
    ASSUME \A j \in Jobs : InOrder(j) /\ announced[j] <= sent[j],
           UNCHANGED <<built, sent, announced>>
    PROVE  \A j \in Jobs : InOrder(j)' /\ announced'[j] <= sent'[j]
  BY DEF InOrder

\* Every step keeps the channel and the counters of every job in order.
LEMMA AnnounceStep ==
    ASSUME AnnounceInv, [Next]_vars
    PROVE  AnnounceInv'
<1>0. IInv /\ IInv' /\ HandlerTypeOK
  BY IInvStep DEF AnnounceInv, IInv, TypeOK
<1>1. ASSUME NEW j \in Jobs, JobNext(j)
      PROVE  AnnounceInv'
  <2>1. ASSUME TrySend(j, sent[j]) \/ UNCHANGED handlerVars, SentInv(j)'
        PROVE  AnnounceInv'
    <3>1. \A k \in Jobs : InOrder(k)' /\ announced'[k] <= sent'[k]
      BY <1>0, <2>1, SendInOrder, AnnounceFrame DEF AnnounceInv, handlerVars
    <3>2. ASSUME NEW k \in Jobs, k # j
          PROVE  SentInv(k)'
      <4>1. build'[k] = build[k] /\ index'[k] = index[k]
        BY <1>0, <1>1, <3>2, PacedElsewhere DEF pacing
      <4>2. sent'[k] = sent[k]
        BY <1>0, <2>1, <3>2 DEF TrySend, HandlerTypeOK, handlerVars
      <4> QED
        BY <4>1, <4>2 DEF AnnounceInv, SentInv
    <3> QED
      BY <1>0, <2>1, <3>1, <3>2 DEF AnnounceInv
  <2>2. SentInv(j)
    BY DEF AnnounceInv
  <2>3. CASE BuildStep(j) \/ ExecutePoolDrained(j) \/ PollAnswered(j) \/ BuildError(j)
    BY <1>0, <2>1, <2>2, <2>3, SentBuild
  <2>4. CASE TimerTick(j) \/ TimerStep(j) \/ MissingParent(j) \/ GetPayload(j) \/ ServiceStep(j)
    <3>1. UNCHANGED handlerVars /\ UNCHANGED buildVars
      BY <2>4 DEF TimerStep, TimerTick, TimerDeadline, TimerSend, TimerCancelled,
         MissingParent, GetPayload, ServiceStep, JobDeadline, JobDropped, Answer
    <3> QED
      BY <2>1, <2>2, <3>1 DEF SentInv, handlerVars, buildVars
  <2>5. CASE NewPayloadJob(j)
    <3>1. build[j] = "none" /\ build \in [Jobs -> BuildSteps]
      BY <1>0, <2>5, NewJobUntouched
    <3>2. build'[j] = "pre" /\ UNCHANGED handlerVars
      BY <2>5, <3>1 DEF NewPayloadJob
    <3>3. SentInv(j)'
      BY <2>2, <3>1, <3>2 DEF SentInv, Sent0, Sent1, SentIndex, handlerVars
    <3> QED
      BY <2>1, <3>2, <3>3
  <2> QED
    BY <1>1, <2>3, <2>4, <2>5, Zenon DEF JobNext
<1>2. CASE Handler \/ P2pNode \/ UNCHANGED vars
  <2>1. UNCHANGED <<build, index, sent>>
    BY <1>2 DEF Handler, P2pNode, HandleBuilt, Forward, NodeTakes, vars, buildVars,
       handlerVars
  <2>2. \A k \in Jobs : SentInv(k)'
    BY <2>1 DEF AnnounceInv, SentInv
  <2>3. HandleBuilt \/ UNCHANGED <<built, sent, announced>>
    BY <1>2 DEF Handler, P2pNode, Forward, NodeTakes, vars, handlerVars
  <2>4. \A k \in Jobs : InOrder(k)' /\ announced'[k] <= sent'[k]
    BY <1>0, <2>3, HandleInOrder, AnnounceFrame DEF AnnounceInv
  <2> QED
    BY <1>0, <2>2, <2>4 DEF AnnounceInv
<1> QED
  BY <1>1, <1>2 DEF Next

\* The engine hears of the payloads of a job in the order they were built, and
\* of each that was sent.
THEOREM AnnouncedInOrderHolds == Spec => []AnnouncedInOrder
<1>1. Init /\ IInv => AnnounceInv
  <2> SUFFICES ASSUME Init, IInv
               PROVE  AnnounceInv
    OBVIOUS
  <2>1. /\ built = << >> /\ sent = [j \in Jobs |-> 0] /\ announced = [j \in Jobs |-> 0]
        /\ build = [j \in Jobs |-> "none"]
    BY DEF Init, HandlerInit
  <2> QED
    BY <2>1 DEF AnnounceInv, SentInv, InOrder, Sent1, SentIndex
<1>2. AnnounceInv /\ [Next]_vars => AnnounceInv'
  BY AnnounceStep
<1>3. AnnounceInv => AnnouncedInOrder
  BY DEF AnnounceInv, InOrder, AnnouncedInOrder
<1> QED
  BY <1>1, <1>2, <1>3, Invariant, PTL DEF Spec

=============================================================================
