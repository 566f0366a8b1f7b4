----------------------- MODULE FlashblocksStreamProofs -----------------------
(***************************************************************************)
(* The proof that FlashblocksBuilder implements PayloadStream.  Which step *)
(* of the abstract specification a step of the build thread is depends on  *)
(* how far cell and stream are apart, which IInv knows.                    *)
(***************************************************************************)
EXTENDS FlashblocksBuilderProofs

\* A step of one build thread changes Armed at that job only.
LEMMA ArmedChange ==
    ASSUME build \in [Jobs -> BuildSteps], NEW j \in Jobs, NEW step \in BuildSteps,
           build' = [build EXCEPT ![j] = step]
    PROVE  Armed' = [Armed EXCEPT ![j] = (step \in ArmedSteps)]
BY Zenon DEF Armed

\* Armed at the job that moves.
LEMMA ArmedAt ==
    ASSUME NEW j \in Jobs
    PROVE  /\ build[j] \in ArmedSteps => Armed[j]
           /\ build[j] \notin ArmedSteps => ~Armed[j]
BY Zenon DEF Armed

\* A thread that moves between two steps of the same kind leaves Armed alone.
LEMMA ArmedSame ==
    ASSUME build \in [Jobs -> BuildSteps], NEW j \in Jobs, NEW step \in BuildSteps,
           build' = [build EXCEPT ![j] = step],
           build[j] \in ArmedSteps <=> step \in ArmedSteps
    PROVE  Armed' = Armed
<1>1. ASSUME NEW k \in Jobs
      PROVE  (build'[k] \in ArmedSteps) = (build[k] \in ArmedSteps)
  <2>1. CASE k = j
    <3>1. build'[k] = step /\ build[k] = build[j]
      BY <2>1
    <3> QED
      BY <3>1
  <2>2. CASE k # j
    <3>1. build'[k] = build[k]
      BY <2>2
    <3> QED
      BY <3>1
  <2> QED
    BY <2>1, <2>2
<1> QED
  BY <1>1, Zenon DEF Armed

\* A step that stops a thread or lets it run on, without publishing or
\* touching the cell, is GiveUp, or no step at all.
LEMMA MoveRefines ==
    ASSUME IInv, NEW j \in Jobs, NEW step \in BuildSteps,
           build' = [build EXCEPT ![j] = step],
           step \in ArmedSteps => build[j] \in ArmedSteps,
           UNCHANGED <<published, cell, cancelled, answer>>
    PROVE  Stream!GiveUp(j) \/ UNCHANGED Stream!vars
<1>0. build \in [Jobs -> BuildSteps]
  BY DEF IInv, TypeOK, BuilderTypeOK
<1>1. CASE step \in ArmedSteps \/ build[j] \notin ArmedSteps
  <2>1. Armed' = Armed
    BY <1>0, <1>1, ArmedSame
  <2> QED
    BY <2>1 DEF Stream!vars
<1>2. CASE step \notin ArmedSteps /\ build[j] \in ArmedSteps
  <2>1. Armed' = [Armed EXCEPT ![j] = (step \in ArmedSteps)]
    BY <1>0, ArmedChange
  <2>2. (step \in ArmedSteps) = FALSE
    BY <1>2
  <2>3. Armed' = [Armed EXCEPT ![j] = FALSE] /\ Armed[j]
    BY <1>2, <2>1, <2>2, ArmedAt, Zenon
  <2> QED
    BY <2>3 DEF Stream!GiveUp
<1> QED
  BY <1>1, <1>2

\* The steps of a build thread.
LEMMA BuildRefines ==
    ASSUME IInv, NEW j \in Jobs,
           BuildStep(j) \/ ExecutePoolDrained(j) \/ PollAnswered(j) \/ BuildError(j)
    PROVE  Stream!Next \/ UNCHANGED Stream!vars
<1> USE DEF Goto
<1>0. /\ build \in [Jobs -> BuildSteps] /\ build[j] \in BuildSteps
      /\ cell \in [Jobs -> Int] /\ published \in [Jobs -> Nat] /\ index[j] \in Nat
      /\ Progress(j)
  BY DEF IInv, JobInv, TypeOK, BuilderTypeOK, JobsTypeOK
<1>1. UNCHANGED <<cancelled, answer>>
  BY BuildFrame DEF IInv, CellSet, jobVars
<1>2. ASSUME NEW step \in BuildSteps, build' = [build EXCEPT ![j] = step],
             step \in ArmedSteps => build[j] \in ArmedSteps,
             UNCHANGED <<published, cell>>
      PROVE  Stream!Next \/ UNCHANGED Stream!vars
  BY <1>1, <1>2, MoveRefines DEF Stream!Next
<1>3. CASE \/ BuildFallback(j) \/ ReceiveClosed(j) \/ ExecuteCancelled(j)
           \/ ExecutePoolDrained(j) \/ AssembleBlock(j) \/ BuildError(j)
           \/ CheckCancelled(j)
  <2>1. PICK step \in BuildSteps : Move(j, step) /\ (step \in ArmedSteps => build[j] \in ArmedSteps)
    BY <1>3 DEF BuildFallback, ReceiveClosed, ExecuteCancelled, ExecutePoolDrained,
       AssembleBlock, BuildError, CheckCancelled, UnlessCancelled, BuildSteps,
       Stopped, ArmedSteps
  <2> QED
    BY <1>2, <2>1 DEF Move, jobVars
<1>4. CASE RecheckCancelled(j)
  <2>1. CASE cancelled[j]
    <3>1. Move(j, "done")
      BY <1>4, <2>1 DEF RecheckCancelled, UnlessCancelled
    <3> QED
      BY <1>2, <3>1 DEF Move, jobVars, BuildSteps, Stopped, ArmedSteps
  <2>2. CASE ~cancelled[j]
    <3>1. /\ build[j] = "recheck" /\ build' = [build EXCEPT ![j] = "publish"]
          /\ UNCHANGED <<published, cell>>
      BY <1>4, <2>2 DEF RecheckCancelled, UnlessCancelled, Move, jobVars
    <3>2. ("publish" \in ArmedSteps) = TRUE /\ build[j] \notin ArmedSteps
          /\ "publish" \in BuildSteps
      BY <3>1 DEF ArmedSteps, BuildSteps
    <3>3. Armed' = [Armed EXCEPT ![j] = TRUE] /\ ~Armed[j]
      BY <1>0, <3>1, <3>2, ArmedChange, ArmedAt, Zenon
    <3>4. cell[j] # -1 /\ published[j] = cell[j] + 1
      BY <1>0, <3>1 DEF Progress
    <3>5. Stream!Decide(j)
      BY <1>1, <2>2, <3>1, <3>3, <3>4 DEF Stream!Decide, Stream!Empty
    <3> QED
      BY <3>5 DEF Stream!Next
  <2> QED
    BY <2>1, <2>2
<1>5. CASE PublishFallback(j) \/ PublishFlashblock(j)
  <2>1. PICK step \in BuildSteps \ ArmedSteps :
          /\ build[j] \in {"publish0", "publish"}
          /\ build' = [build EXCEPT ![j] = step]
          /\ published' = [published EXCEPT ![j] = @ + 1]
          /\ UNCHANGED cell
    BY <1>5 DEF PublishFallback, PublishFlashblock, Publish, jobVars, BuildSteps, ArmedSteps
  <2>2. (step \in ArmedSteps) = FALSE /\ build[j] \in ArmedSteps
    BY <2>1 DEF ArmedSteps
  <2>3. Armed' = [Armed EXCEPT ![j] = FALSE] /\ Armed[j]
    BY <1>0, <2>1, <2>2, ArmedChange, ArmedAt, Zenon
  <2>4. cell[j] # -1
    BY <1>0, <2>1 DEF Progress
  <2>5. Stream!Publish(j)
    BY <1>1, <2>1, <2>3, <2>4 DEF Stream!Publish, Stream!Empty
  <2> QED
    BY <2>5 DEF Stream!Next
<1>6. CASE SendFallback(j) \/ SendFlashblock(j)
  <2>1. PICK step \in BuildSteps :
          /\ build' = [build EXCEPT ![j] = step]
          /\ step \in ArmedSteps => build[j] \in ArmedSteps
          /\ UNCHANGED <<published, cell>>
    BY <1>6 DEF SendFallback, SendFlashblock, Send, jobVars, BuildSteps, Stopped, ArmedSteps
  <2> QED
    BY <1>2, <2>1
<1>7. CASE SetFallback(j)
  <2>1. /\ build[j] = "set0" /\ cell' = [cell EXCEPT ![j] = 0]
        /\ UNCHANGED published
        /\ cell[j] = -1
    BY <1>0, <1>7 DEF SetFallback, CellSet, Progress, Empty
  <2>2. CASE noTxPool[j]
    <3>1. build' = [build EXCEPT ![j] = "done"]
      BY <1>7, <2>2 DEF SetFallback
    <3>2. ("done" \in ArmedSteps) = FALSE /\ "done" \in BuildSteps
      BY DEF ArmedSteps, BuildSteps, Stopped
    <3>3. Armed' = [Armed EXCEPT ![j] = FALSE]
      BY <1>0, <3>1, <3>2, ArmedChange, Zenon
    <3>4. Stream!OfferOnly(j)
      BY <1>1, <2>1, <3>3 DEF Stream!OfferOnly, Stream!Empty
    <3> QED
      BY <3>4 DEF Stream!Next
  <2>3. CASE ~noTxPool[j]
    <3>1. build' = [build EXCEPT ![j] = "publish0"]
      BY <1>7, <2>3 DEF SetFallback
    <3>2. "publish0" \in ArmedSteps /\ "publish0" \in BuildSteps /\ build[j] \in ArmedSteps
      BY <2>1 DEF ArmedSteps, BuildSteps
    <3>3. Armed' = Armed
      BY <1>0, <3>1, <3>2, ArmedSame
    <3>4. Stream!OfferFallback(j)
      BY <1>1, <2>1, <3>3 DEF Stream!OfferFallback, Stream!Empty
    <3> QED
      BY <3>4 DEF Stream!Next
  <2> QED
    BY <2>2, <2>3
<1>8. CASE SetFlashblock(j)
  <2>1. /\ build[j] = "set" /\ build' = [build EXCEPT ![j] = "recv"]
        /\ cell' = [cell EXCEPT ![j] = index[j]]
        /\ UNCHANGED published
    BY <1>8 DEF SetFlashblock, CellSet
  <2>2. cell[j] # -1 /\ index[j] = cell[j] + 1 /\ published[j] = cell[j] + 2
    BY <1>0, <2>1 DEF Progress
  <2>3. "recv" \notin ArmedSteps /\ "recv" \in BuildSteps /\ build[j] \notin ArmedSteps
    BY <2>1 DEF ArmedSteps, BuildSteps
  <2>4. Armed' = Armed
    BY <1>0, <2>1, <2>3, ArmedSame
  <2>5. Stream!Offer(j)
    BY <1>1, <2>1, <2>2, <2>4 DEF Stream!Offer, Stream!Empty
  <2> QED
    BY <2>5 DEF Stream!Next
<1>9. ASSUME NEW n \in Targets, DeriveTiming(j, n)
      PROVE  Stream!Next \/ UNCHANGED Stream!vars
  <2>1. PICK step \in BuildSteps :
          /\ build' = [build EXCEPT ![j] = step]
          /\ step \notin ArmedSteps
          /\ UNCHANGED <<published, cell>>
    BY <1>9 DEF DeriveTiming, jobVars, BuildSteps, Stopped, ArmedSteps
  <2> QED
    BY <1>2, <2>1
<1>10. CASE Receive(j)
  <2>1. PICK step \in BuildSteps :
          /\ build' = [build EXCEPT ![j] = step]
          /\ step \notin ArmedSteps
          /\ UNCHANGED <<published, cell>>
    BY <1>10 DEF Receive, jobVars, BuildSteps, Stopped, ArmedSteps
  <2> QED
    BY <1>2, <2>1
<1>11. CASE PollAnswered(j) \/ PollHold(j)
  <2>1. PICK step \in BuildSteps :
          /\ build' = [build EXCEPT ![j] = step]
          /\ step \notin ArmedSteps
          /\ UNCHANGED <<published, cell>>
    BY <1>11 DEF PollAnswered, PollHold, jobVars, BuildSteps, ArmedSteps
  <2> QED
    BY <1>2, <2>1
<1> QED
  BY <1>3, <1>4, <1>5, <1>6, <1>7, <1>8, <1>9, <1>10, <1>11 DEF BuildStep

\* The requests of the engine and the polls of the service.
LEMMA ServiceRefines ==
    ASSUME IInv, NEW j \in Jobs,
           NewPayloadJob(j) \/ MissingParent(j) \/ GetPayload(j) \/ ServiceStep(j)
    PROVE  Stream!Next \/ UNCHANGED Stream!vars
<1>0. /\ build \in [Jobs -> BuildSteps] /\ cancelled \in [Jobs -> BOOLEAN]
      /\ UNCHANGED <<cell, published>>
  BY DEF IInv, TypeOK, BuilderTypeOK, JobsTypeOK, NewPayloadJob, MissingParent,
     GetPayload, ServiceStep, JobDeadline, JobDropped, Answer, SpawnJob, RejectJob,
     ResolveKind, PollDeadline, PollCancelled, WaitForValue, buildVars
<1>1. Armed' = Armed
  <2>1. CASE NewPayloadJob(j)
    <3>1. build[j] = "none"
      BY <2>1, NewJobUntouched
    <3>2. build' = [build EXCEPT ![j] = "pre"]
      BY <2>1 DEF NewPayloadJob
    <3>3. "pre" \in ArmedSteps /\ "none" \in ArmedSteps /\ "pre" \in BuildSteps
      BY DEF ArmedSteps, BuildSteps
    <3> QED
      BY <1>0, <3>1, <3>2, <3>3, ArmedSame
  <2>2. CASE UNCHANGED build
    BY <2>2, Zenon DEF Armed
  <2> QED
    BY <2>1, <2>2 DEF MissingParent, GetPayload, ServiceStep, JobDeadline,
       JobDropped, Answer, buildVars
<1>2. ASSUME NEW S \in SUBSET Jobs,
             cancelled' = [k \in Jobs |-> cancelled[k] \/ k \in S],
             UNCHANGED answer
      PROVE  Stream!Next
  <2>1. Stream!Close
    BY <1>0, <1>1, <1>2 DEF Stream!Close
  <2> QED
    BY <2>1 DEF Stream!Next
<1>3. CASE NewPayloadJob(j) \/ MissingParent(j)
  <2>1. CancelLast(j) /\ UNCHANGED answer
    BY <1>3 DEF NewPayloadJob, MissingParent, SpawnJob, RejectJob
  <2>2. CASE EnsureOnlyOnePayload
    <3>1. cancelled' = [k \in Jobs |-> IF k = lastPayload THEN TRUE ELSE cancelled[k]]
      BY <2>1, <2>2 DEF CancelLast
    <3>2. ASSUME NEW k \in Jobs
          PROVE  (IF k = lastPayload THEN TRUE ELSE cancelled[k])
                   = (cancelled[k] \/ k \in {i \in Jobs : i = lastPayload})
      BY <1>0
    <3>3. cancelled' = [k \in Jobs |-> cancelled[k] \/ k \in {i \in Jobs : i = lastPayload}]
      BY <3>1, <3>2, Zenon
    <3> QED
      BY <1>2, <2>1, <3>3
  <2>3. CASE ~EnsureOnlyOnePayload
    BY <1>0, <1>1, <2>1, <2>3 DEF CancelLast, Stream!vars
  <2> QED
    BY <2>2, <2>3
<1>4. CASE GetPayload(j) \/ JobDeadline(j)
  <2>1. cancelled' = [cancelled EXCEPT ![j] = TRUE] /\ UNCHANGED answer
    BY <1>4 DEF GetPayload, JobDeadline, ResolveKind, PollDeadline
  <2>2. cancelled' = [k \in Jobs |-> cancelled[k] \/ k \in {j}]
    BY <1>0, <2>1, Zenon
  <2> QED
    BY <1>2, <2>1, <2>2
<1>5. CASE JobDropped(j)
  BY <1>0, <1>1, <1>5 DEF JobDropped, PollCancelled, Stream!vars
<1>6. CASE Answer(j)
  <2>1. /\ resolve[j] = "waiting" /\ cell[j] # -1
        /\ answer' = [answer EXCEPT ![j] = cell[j]] /\ UNCHANGED cancelled
    BY <1>6 DEF Answer, WaitForValue, Empty
  <2>2. cancelled[j] /\ answer[j] = -1
    BY <2>1 DEF IInv, JobInv, Answered, Empty
  <2>3. Stream!Serve(j)
    BY <1>0, <1>1, <2>1, <2>2 DEF Stream!Serve, Stream!Empty
  <2> QED
    BY <2>3 DEF Stream!Next
<1> QED
  BY <1>3, <1>4, <1>5, <1>6 DEF ServiceStep

\* Every job keeps the promise of PayloadStream to the subscribers of the
\* flashblock stream and to the caller of engine_getPayload.
THEOREM ImplementsStream == Spec => StreamSpec
<1>1. Init => Stream!Init
  <2> SUFFICES ASSUME Init PROVE Stream!Init
    OBVIOUS
  <2>1. ASSUME NEW j \in Jobs
        PROVE  (build[j] \in ArmedSteps) = TRUE
    BY DEF Init, ArmedSteps
  <2>2. Armed = [j \in Jobs |-> TRUE]
    BY <2>1, Zenon DEF Armed
  <2> QED
    BY <2>2 DEF Init, JobsInit, Stream!Init, Stream!Empty, Empty
<1>2. IInv /\ [Next]_vars => [Stream!Next]_(Stream!vars)
  <2> SUFFICES ASSUME IInv, [Next]_vars
               PROVE  Stream!Next \/ UNCHANGED Stream!vars
    OBVIOUS
  <2>1. ASSUME UNCHANGED jobVars, UNCHANGED buildVars
        PROVE  UNCHANGED Stream!vars
    <3>1. Armed' = Armed
      BY <2>1, Zenon DEF Armed, buildVars
    <3> QED
      BY <2>1, <3>1 DEF jobVars, buildVars, Stream!vars
  <2>2. ASSUME NEW j \in Jobs, JobNext(j)
        PROVE  Stream!Next \/ UNCHANGED Stream!vars
    <3>1. CASE TimerTick(j) \/ TimerStep(j)
      BY <2>1, <3>1
         DEF TimerTick, TimerStep, TimerDeadline, TimerSend, TimerCancelled
    <3> QED
      BY <2>2, <3>1, BuildRefines, ServiceRefines DEF JobNext
  <2>3. CASE Handler \/ P2pNode \/ UNCHANGED vars
    BY <2>1, <2>3 DEF Handler, P2pNode, vars
  <2> QED
    BY <2>2, <2>3 DEF Next
<1> QED
  BY <1>1, <1>2, Invariant, PTL DEF Spec, StreamSpec, Stream!Spec

=============================================================================
