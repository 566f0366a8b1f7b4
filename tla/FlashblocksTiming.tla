-------------------------- MODULE FlashblocksTiming --------------------------
(***************************************************************************)
(* How builders/flashblocks/payload.rs derives the number of flashblocks,  *)
(* the first tick and the deadline from the arrival of forkchoiceUpdated,  *)
(* and the signals the timer task then sends, over a discrete clock.       *)
(*                                                                         *)
(* Times are milliseconds counted from the derivation; the clock of the    *)
(* model moves by one unit.  A due tick or deadline fires at most MaxLag   *)
(* units late; a late tick does not move the ones after it.                *)
(***************************************************************************)
EXTENDS Integers

CONSTANTS
    BlockTime,   \* config.block_time
    Interval,    \* config.specific.interval
    Leeways,     \* values of leeway_time
    EndBuffers,  \* values of end_buffer_ms
    MaxOffset,   \* bound on send_offset_ms, in either direction
    MaxLag       \* bound on how late a due timer event is handled

ASSUME TimingAssumption ==
    /\ Interval \in Nat \ {0}
    /\ BlockTime \in Nat
    /\ Interval <= BlockTime
    /\ Leeways \subseteq 0..Interval   \* "it shouldn't be more than interval"
    /\ EndBuffers \subseteq Nat
    /\ MaxOffset \in Nat
    /\ MaxLag \in Nat

VARIABLES
    config,    \* the settings of the node
    remaining, \* time from the arrival to the block's timestamp
    timing,    \* the derived count, offset and deadline
    timer,     \* "initial", "running", "over" or "cancelled"
    clock,     \* time since the derivation
    ticks,     \* interval ticks handled
    issued,    \* flashblock tokens that replaced an earlier one
    pending,   \* signals in the channel
    taken      \* signals the build thread has received

vars == <<config, remaining, timing, timer, clock, ticks, issued, pending, taken>>

flashblocks_per_block == IF BlockTime = 0 THEN 0 ELSE BlockTime \div Interval

\* Mutant: no room for the signal beyond the target.
SignalCap_NoSpare == flashblocks_per_block

SignalCap == flashblocks_per_block + 1

Lesser(a, b) == IF a < b THEN a ELSE b

\* Duration::saturating_sub.
SaturatingSub(a, b) == IF a > b THEN a - b ELSE 0

Magnitude(a) == IF a < 0 THEN -a ELSE a

\* Mutant: the short flashblock comes last.
Split_ShortLast(t) ==
    IF t % Interval = 0
    THEN [count |-> t \div Interval, offset |-> Interval]
    ELSE [count |-> t \div Interval + 1, offset |-> Interval]

\* Whole intervals counted back from the end; a remainder is one flashblock
\* more, the first and a short one.
Split(t) ==
    IF t % Interval = 0
    THEN [count |-> t \div Interval, offset |-> Interval]
    ELSE [count |-> t \div Interval + 1, offset |-> t % Interval]

\* calculate_flashblocks, with the deadline build_payload adds to it.
calculate_flashblocks(c, left) ==
    LET drift == left - c.leeway
        split ==
            CASE c.fixed -> [count |-> flashblocks_per_block, offset |-> Interval - c.leeway]
              [] ~c.fixed /\ drift <= 0 -> [count |-> flashblocks_per_block, offset |-> Interval]
              [] ~c.fixed /\ drift > 0 -> Split(Lesser(drift, BlockTime))
    IN  [count |-> split.count, offset |-> split.offset, deadline |-> BlockTime]

Shift(t, by) == IF by >= 0 THEN t + by ELSE SaturatingSub(t, Magnitude(by))

\* Mutant: the deadline is put where the last flashblock would start.
Deadline_LastStart(c, t) == SaturatingSub(t, c.endBuffer + Interval)

Deadline(c, t) == SaturatingSub(t, c.endBuffer)

\* calculate_flashblocks_timing: a fixed schedule moves the ticks only, a
\* derived one moves ticks and deadline, one for a late arrival moves neither.
calculate_flashblocks_timing(c, left) ==
    LET whole == Lesser(left, BlockTime)
        split == Split(whole)
    IN  CASE c.fixed ->
               [count |-> flashblocks_per_block,
                offset |-> Shift(Interval, c.sendOffset),
                deadline |-> Deadline(c, BlockTime)]
          [] ~c.fixed /\ left <= 0 ->
               [count |-> flashblocks_per_block,
                offset |-> Interval,
                deadline |-> Deadline(c, BlockTime)]
          [] ~c.fixed /\ left > 0 ->
               [count |-> split.count,
                offset |-> Shift(split.offset, c.sendOffset),
                deadline |-> Shift(Deadline(c, whole), c.sendOffset)]

Derive(c, left) ==
    IF c.intervalEnd THEN calculate_flashblocks_timing(c, left)
                     ELSE calculate_flashblocks(c, left)

Configs ==
    [fixed : BOOLEAN, intervalEnd : BOOLEAN,
     leeway : Leeways, endBuffer : EndBuffers, sendOffset : -MaxOffset..MaxOffset]

\* Arrivals: early by a unit, at any time of the block, or late by a unit.
Arrivals == -1..(BlockTime + 1)

Init ==
    /\ config \in Configs
    /\ remaining \in Arrivals
    /\ timing = Derive(config, remaining)
    /\ timer = IF config.intervalEnd THEN "running" ELSE "initial"
    /\ clock = 0
    /\ ticks = 0
    /\ issued = 0
    /\ pending = 0
    /\ taken = 0

-----------------------------------------------------------------------------
NextTick == timing.offset + ticks * Interval

\* The build thread has taken the signal beyond the target and returned.
ReceiverGone == taken > timing.count

\* tx.send: an error ends the task, a full channel blocks it.
SendSignal(after) ==
    IF ReceiverGone
    THEN timer' = "over" /\ UNCHANGED pending
    ELSE pending < SignalCap /\ pending' = pending + 1 /\ timer' = after

\* Without build_at_interval_end the first flashblock starts at once.
InitialSignal ==
    /\ timer = "initial"
    /\ SendSignal("running")
    /\ UNCHANGED <<config, remaining, timing, clock, ticks, issued, taken>>

TimerTick ==
    /\ timer = "running"
    /\ clock >= NextTick
    /\ ticks' = ticks + 1
    /\ issued' = issued + 1
    /\ SendSignal("running")
    /\ UNCHANGED <<config, remaining, timing, clock, taken>>

TimerDeadline ==
    /\ timer = "running"
    /\ clock >= timing.deadline
    /\ issued' = issued + 1
    /\ SendSignal("over")
    /\ UNCHANGED <<config, remaining, timing, clock, ticks, taken>>

TimerCancelled ==
    /\ timer = "running"
    /\ timer' = "cancelled"
    /\ UNCHANGED <<config, remaining, timing, clock, ticks, issued, pending, taken>>

\* rx.recv in the build thread, as late as it likes.
Receive ==
    /\ pending > 0
    /\ ~ReceiverGone
    /\ pending' = pending - 1
    /\ taken' = taken + 1
    /\ UNCHANGED <<config, remaining, timing, timer, clock, ticks, issued>>

\* Time passes unless an event of the timer would become later than MaxLag.
Elapse ==
    /\ timer = "running"
    /\ clock < NextTick + MaxLag
    /\ clock < timing.deadline + MaxLag
    /\ clock' = clock + 1
    /\ UNCHANGED <<config, remaining, timing, timer, ticks, issued, pending, taken>>

Next ==
    \/ InitialSignal \/ TimerTick \/ TimerDeadline \/ TimerCancelled
    \/ Receive
    \/ Elapse

Spec == Init /\ [][Next]_vars

-----------------------------------------------------------------------------
\* The derived times are durations, and no signal exceeds the channel.
TypeOK ==
    /\ config \in Configs
    /\ timing.count \in Nat /\ timing.offset \in Nat /\ timing.deadline \in Nat
    /\ timer \in {"initial", "running", "over", "cancelled"}
    /\ pending \in 0..SignalCap

Sent == pending + taken

\* When the timer has run its course it has sent a signal for every flashblock
\* the gas of the block was divided by (gas_per_batch), as long as buffer,
\* shift and lag together are shorter than an interval.
TargetSignalled ==
    timer = "over" /\ config.endBuffer + Magnitude(config.sendOffset) + MaxLag < Interval
        => Sent >= timing.count

\* Up to its deadline the timer never blocks in tx.send, even if the build
\* thread takes nothing but the first signal, when the interval divides the
\* block time: flashblocks_per_block() + 1 is room enough.
SendNeverBlocks ==
    (/\ BlockTime % Interval = 0
     /\ timer = "running" /\ taken > 0 /\ ~ReceiverGone
     /\ clock <= timing.deadline)
        => pending < SignalCap

\* Without build_at_interval_end every flashblock up to the target has had its
\* pool execution cancelled by the time the leeway begins, unless the request
\* itself came too late.
LeewayKept ==
    LET drift == remaining - config.leeway
    IN  (/\ ~config.intervalEnd /\ ~config.fixed /\ drift > 0
         /\ timer \in {"running", "over"} /\ ~ReceiverGone
         /\ clock > drift + MaxLag)
            => issued >= timing.count
=============================================================================
