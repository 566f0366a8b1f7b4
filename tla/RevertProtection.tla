-------------------------- MODULE RevertProtection --------------------------
(***************************************************************************)
(* The life of a bundle: eth_sendBundle validates its ranges and hands its *)
(* transaction to the pool (revert_protection.rs, primitives/bundle.rs),   *)
(* the flashblocks of the blocks within its ranges try it and leave it out *)
(* while it reverts (builders/context.rs, best_txs.rs), the pool drops it  *)
(* when its range has passed, the pool monitor notes that                  *)
(* (monitor_tx_pool.rs) and eth_getTransactionReceipt answers from the     *)
(* chain or from those notes.                                              *)
(*                                                                         *)
(* The pool is external.  Two of its tasks follow the canonical chain,     *)
(* each at its own pace: the maintenance that removes mined transactions,  *)
(* and the one the launcher enables that removes transactions out of their *)
(* range.                                                                  *)
(***************************************************************************)
EXTENDS Naturals, FiniteSets

CONSTANTS
    Bundles,                \* bundle transactions, by hash
    Requests,               \* what eth_sendBundle may be asked for
    MAX_BLOCK_RANGE_BLOCKS,
    FlashblockCount,        \* flashblocks of a block that take pool transactions
    BlockTime,              \* timestamp of block n: n * BlockTime
    CacheCapacity,          \* max_capacity of reverted_cache
    LogPool,                \* --builder.log-pool-transactions
    MaxSends,               \* bound on the requests
    MaxHead,                \* bound on the canonical chain
    NONE                    \* an Option that is None

Option(S) == S \cup {NONE}

\* The struct Bundle: the number of its transactions, whether revertingTxHashes has
\* the hash of the first, and its ranges.
Bundle == [txs : Nat, reverting : BOOLEAN,
           block_number_min : Option(Nat), block_number_max : Option(Nat),
           flashblock_number_min : Option(Nat), flashblock_number_max : Option(Nat),
           min_timestamp : Option(Nat), max_timestamp : Option(Nat)]

ASSUME BundleAssumption ==
    /\ Requests \subseteq Bundle
    /\ MAX_BLOCK_RANGE_BLOCKS \in Nat \ {0} /\ BlockTime \in Nat \ {0}
    /\ FlashblockCount \in Nat
    /\ CacheCapacity \in Nat \ {0} /\ LogPool \in BOOLEAN
    /\ MaxSends \in Nat /\ MaxHead \in Nat
    /\ NONE \notin Nat

VARIABLES
    head,       \* number of the canonical head
    sends,      \* requests made so far
    adding,     \* the pool transaction a request awaits add_transaction with
    pool,       \* the pool transactions
    maintained, \* block up to which the pool has removed mined transactions
    collected,  \* block up to which the pool has removed expired transactions
    payload,    \* the block under construction on the head, or NONE
    mined,      \* where and how canonical blocks contain a bundle
    events,     \* Discarded events the monitor has not read
    cache,      \* reverted_cache
    dropped     \* history: bundles the pool has discarded

vars == <<head, sends, adding, pool, maintained, collected, payload, mined, events, cache,
          dropped>>

Status == {"success", "reverted"}

\* A FBPooledTransaction made from a bundle: it has the fields of the request but
\* for the block_number_max of its conditional.  last is history: the head the
\* request read.
PoolTx == [request : Requests, block_number_max : Option(Nat), last : Nat]

Included == [tx : PoolTx, number : Nat, index : Nat, status : Status]

\* Types; a pool task is never ahead of the chain, the cache keeps its
\* capacity (launcher.rs), and the payload is the next block's.
TypeOK ==
    /\ head \in 0..MaxHead
    /\ sends \in 0..MaxSends
    /\ adding \in [Bundles -> Option(PoolTx)]
    /\ pool \in [Bundles -> Option(PoolTx)]
    /\ maintained \in 0..head /\ collected \in 0..head
    /\ payload \in Option([number : Nat, index : 0..FlashblockCount,
                          txs : [Bundles -> Option(Included)]])
    /\ payload # NONE => payload.number = head + 1
    /\ mined \in [Bundles -> Option(Included)]
    /\ events \subseteq Bundles
    /\ cache \subseteq Bundles /\ Cardinality(cache) <= CacheCapacity
    /\ dropped \subseteq Bundles

Init ==
    /\ head = 0
    /\ sends = 0
    /\ adding = [b \in Bundles |-> NONE]
    /\ pool = [b \in Bundles |-> NONE]
    /\ maintained = 0 /\ collected = 0
    /\ payload = NONE
    /\ mined = [b \in Bundles |-> NONE]
    /\ events = {} /\ cache = {} /\ dropped = {}

----------------------------------------------------------------------------
(* eth_sendBundle *)

AtLeast(n, min) == min = NONE \/ min <= n
AtMost(n, max) == max = NONE \/ n <= max

\* Mutant: the current block still counts as one of the range.
Accepts_Current(r, last) ==
    LET max_allowed == last + MAX_BLOCK_RANGE_BLOCKS IN
    /\ r.block_number_max # NONE =>
          /\ r.block_number_min # NONE => r.block_number_min <= r.block_number_max
          /\ r.block_number_max >= last
          /\ r.block_number_max <= max_allowed
    /\ r.block_number_max = NONE /\ r.block_number_min # NONE =>
          r.block_number_min <= max_allowed
    /\ r.flashblock_number_min # NONE /\ r.flashblock_number_max # NONE =>
          r.flashblock_number_min <= r.flashblock_number_max

\* Bundle::conditional: the ranges it accepts, and the upper bound it sets.
Accepts(r, last) ==
    LET max_allowed == last + MAX_BLOCK_RANGE_BLOCKS IN
    /\ r.block_number_max # NONE =>
          /\ r.block_number_min # NONE => r.block_number_min <= r.block_number_max
          /\ r.block_number_max > last
          /\ r.block_number_max <= max_allowed
    /\ r.block_number_max = NONE /\ r.block_number_min # NONE =>
          r.block_number_min <= max_allowed
    /\ r.flashblock_number_min # NONE /\ r.flashblock_number_max # NONE =>
          r.flashblock_number_min <= r.flashblock_number_max

conditional(r, last) ==
    [request |-> r,
     block_number_max |-> IF r.block_number_max = NONE
                          THEN last + MAX_BLOCK_RANGE_BLOCKS ELSE r.block_number_max,
     last |-> last]

\* send_bundle_inner up to add_transaction: best_block_number is read first.  A
\* refused request changes nothing.  MaxHead is beyond every range accepted.
SendBundle(b, r) ==
    /\ sends < MaxSends
    /\ head + MAX_BLOCK_RANGE_BLOCKS <= MaxHead
    /\ adding[b] = NONE
    /\ sends' = sends + 1
    /\ adding' = IF r.txs = 1 /\ Accepts(r, head)
                 THEN [adding EXCEPT ![b] = conditional(r, head)] ELSE adding
    /\ UNCHANGED <<head, pool, maintained, collected, payload, mined, events, cache,
                   dropped>>

\* add_transaction answers.  The pool refuses a transaction it has or whose nonce is
\* used; another it refuses is as if it had not been sent.  The bound is one block
\* short of the chain's, so that every transaction sees a block after it was added.
AddTransaction(b) ==
    /\ adding[b] # NONE
    /\ head < MaxHead
    /\ pool' = IF pool[b] = NONE /\ mined[b] = NONE
               THEN [pool EXCEPT ![b] = adding[b]] ELSE pool
    /\ adding' = [adding EXCEPT ![b] = NONE]
    /\ UNCHANGED <<head, sends, maintained, collected, payload, mined, events, cache,
                   dropped>>

----------------------------------------------------------------------------
(* Building *)

matches_block_attributes(t, n) ==
    /\ AtLeast(n, t.request.block_number_min) /\ AtMost(n, t.block_number_max)
    /\ AtLeast(n * BlockTime, t.request.min_timestamp)
    /\ AtMost(n * BlockTime, t.request.max_timestamp)

\* BestFlashblocksTxs::next.
Offered(t, i) ==
    /\ AtLeast(i, t.request.flashblock_number_min)
    /\ AtMost(i, t.request.flashblock_number_max)

\* Mutant: a bundle without revertingTxHashes is taken for an ordinary transaction.
Commits_Any(t, outcome) == outcome \in Status

\* exclude_reverting_txs: the hash of a bundle's transaction is not in its list.
Commits(t, outcome) == outcome = "success" \/ (outcome = "reverted" /\ t.request.reverting)

StartBlock ==
    /\ payload = NONE
    /\ head < MaxHead
    /\ payload' = [number |-> head + 1, index |-> 0, txs |-> [b \in Bundles |-> NONE]]
    /\ UNCHANGED <<head, sends, adding, pool, maintained, collected, mined, events, cache,
                   dropped>>

\* The bundles the i-th flashblock executes.  One that is already mined has too low
\* a nonce.
Tried(i) ==
    {b \in Bundles : /\ pool[b] # NONE /\ payload.txs[b] = NONE /\ mined[b] = NONE
                     /\ Offered(pool[b], i)
                     /\ matches_block_attributes(pool[b], payload.number)}

\* One pass of execute_best_transactions over the bundles of the pool.  Each has an
\* outcome: it succeeds, reverts, or is skipped for a reason outside this module (a
\* limit, the gas limiter).
Flashblock(outcome) ==
    /\ payload # NONE
    /\ payload.index < FlashblockCount
    /\ LET i == payload.index + 1
           Add(b) == [tx |-> pool[b], number |-> payload.number, index |-> i,
                      status |-> outcome[b]]
       IN payload' = [number |-> payload.number, index |-> i,
                      txs |-> [b \in Bundles |->
                                 IF b \in Tried(i) /\ Commits(pool[b], outcome[b])
                                 THEN Add(b) ELSE payload.txs[b]]]
    /\ UNCHANGED <<head, sends, adding, pool, maintained, collected, mined, events, cache,
                   dropped>>

\* The chain grows by this builder's block, in whatever state it is, or by the block
\* of another.
Extend(txs) ==
    /\ head < MaxHead
    /\ head' = head + 1
    /\ mined' = [b \in Bundles |-> IF txs[b] = NONE THEN mined[b] ELSE txs[b]]
    /\ payload' = NONE
    /\ UNCHANGED <<sends, adding, pool, maintained, collected, events, cache, dropped>>

Import == payload # NONE /\ Extend(payload.txs)

ImportOther == Extend([b \in Bundles |-> NONE])

----------------------------------------------------------------------------
(* The pool after a block, and the monitor *)

\* The pool removes what the chain mined; the event it emits is only logged.
PoolMaintenance ==
    /\ maintained < head
    /\ maintained' = head
    /\ pool' = [b \in Bundles |-> IF mined[b] = NONE THEN pool[b] ELSE NONE]
    /\ UNCHANGED <<head, sends, adding, collected, payload, mined, events, cache, dropped>>

Discard(S) ==
    /\ pool' = [b \in Bundles |-> IF b \in S THEN NONE ELSE pool[b]]
    /\ events' = IF LogPool THEN events \cup S ELSE events
    /\ dropped' = dropped \cup S

\* Mutant: a range ends one block early.
has_exceeded_Early(t, n) == t.block_number_max # NONE /\ n + 1 >= t.block_number_max

\* Mutant: only a range the request gave ends.
has_exceeded_Requested(t, n) ==
    t.request.block_number_max # NONE /\ n >= t.request.block_number_max

\* The block that is the last of the range ends it: nothing later may include it.
has_exceeded_block_attributes(t, n) ==
    \/ t.block_number_max # NONE /\ n >= t.block_number_max
    \/ t.request.max_timestamp # NONE /\ n * BlockTime >= t.request.max_timestamp

\* with_enable_tx_conditional: transactions out of range are discarded.
GarbageCollect ==
    /\ collected < head
    /\ collected' = head
    /\ Discard({b \in Bundles : pool[b] # NONE
                                /\ has_exceeded_block_attributes(pool[b], head)})
    /\ UNCHANGED <<head, sends, adding, maintained, payload, mined, cache>>

\* The pool is over its limits and discards a transaction.
Overflow(b) ==
    /\ pool[b] # NONE
    /\ Discard({b})
    /\ UNCHANGED <<head, sends, adding, maintained, collected, payload, mined, cache>>

\* Mutant: the event is only logged.
MonitorDiscarded_Logs(b) ==
    /\ LogPool
    /\ b \in events
    /\ events' = events \ {b}
    /\ UNCHANGED <<head, sends, adding, pool, maintained, collected, payload, mined, cache,
                   dropped>>

\* monitor_tx_pool reads an event; a full cache gives up one entry, maybe the new one.
MonitorDiscarded(b) ==
    /\ LogPool
    /\ b \in events
    /\ events' = events \ {b}
    /\ IF Cardinality(cache \cup {b}) <= CacheCapacity
       THEN cache' = cache \cup {b}
       ELSE \E c \in cache \cup {b} : cache' = (cache \cup {b}) \ {c}
    /\ UNCHANGED <<head, sends, adding, pool, maintained, collected, payload, mined,
                   dropped>>

----------------------------------------------------------------------------
(* eth_getTransactionReceipt: the chain is asked first, then the cache *)

\* Mutant: the cache is asked first.
transaction_receipt_CacheFirst(b) ==
    IF b \in cache THEN "dropped" ELSE IF mined[b] # NONE THEN "receipt" ELSE "unknown"

transaction_receipt(b) ==
    IF mined[b] # NONE THEN "receipt" ELSE IF b \in cache THEN "dropped" ELSE "unknown"

----------------------------------------------------------------------------
Next ==
    \/ \E b \in Bundles :
          \/ \E r \in Requests : SendBundle(b, r)
          \/ AddTransaction(b)
          \/ Overflow(b)
          \/ MonitorDiscarded(b)
    \/ StartBlock
    \/ \E outcome \in [Bundles -> Status \cup {"skipped"}] : Flashblock(outcome)
    \/ Import \/ ImportOther
    \/ PoolMaintenance \/ GarbageCollect

\* The consensus layer goes on producing blocks, and the tasks that follow the pool
\* and the chain are polled.
Fairness ==
    /\ WF_vars(Import \/ ImportOther)
    /\ WF_vars(PoolMaintenance)
    /\ WF_vars(GarbageCollect)
    /\ \A b \in Bundles : WF_vars(MonitorDiscarded(b))

Spec == Init /\ [][Next]_vars /\ Fairness

----------------------------------------------------------------------------
(* Properties *)

\* One of the next MAX_BLOCK_RANGE_BLOCKS blocks is in the range asked for, the range
\* does not reach beyond them, and some flashblock number is in the flashblock range.
Servable(r, last) ==
    LET next == last + 1 .. last + MAX_BLOCK_RANGE_BLOCKS IN
    /\ \E n \in next : AtLeast(n, r.block_number_min) /\ AtMost(n, r.block_number_max)
    /\ r.block_number_max \in next \cup {NONE}
    /\ \E i \in {0, r.flashblock_number_min, r.flashblock_number_max} \ {NONE} :
          AtLeast(i, r.flashblock_number_min) /\ AtMost(i, r.flashblock_number_max)

\* Bundle::conditional accepts exactly the bundles that can be served, whatever the
\* head: its checks leave no accepted bundle without a block, and refuse none that
\* has one.
AcceptsServable == \A r \in Requests : Accepts(r, head) <=> Servable(r, head)

\* A bundle in a canonical block is where its request wants it, no further from the
\* head the request saw than MAX_BLOCK_RANGE_BLOCKS, and reverts only when its hash
\* is in revertingTxHashes; also when its request was slow to reach the pool, and
\* when the bundle was dropped and sent again.
MinedAsRequested ==
    \A b \in Bundles : mined[b] # NONE =>
        LET m == mined[b]  r == m.tx.request IN
        /\ AtLeast(m.number, r.block_number_min) /\ AtMost(m.number, r.block_number_max)
        /\ m.number \in m.tx.last + 1 .. m.tx.last + MAX_BLOCK_RANGE_BLOCKS
        /\ AtLeast(m.index, r.flashblock_number_min) /\ AtMost(m.index, r.flashblock_number_max)
        /\ AtLeast(m.number * BlockTime, r.min_timestamp)
        /\ AtMost(m.number * BlockTime, r.max_timestamp)
        /\ m.status = "reverted" => r.reverting

CollectsUnbuilt ==
    GarbageCollect =>
        \A b \in Bundles :
            pool[b] # pool'[b] /\ mined[b] = NONE /\ payload # NONE =>
                payload.txs[b] = NONE \/ payload.txs[b].tx # pool[b]

\* What the pool discards because its range has passed is not in the block being
\* built: a bundle reported as dropped for its range does not turn up later.
DroppedIsFinal == [][CollectsUnbuilt]_vars

\* eth_getTransactionReceipt gives the receipt of every mined transaction, also of
\* one the pool discarded although it was mined, because the task that ends ranges
\* ran before the one that removes what is mined.  It calls a transaction dropped
\* only when the pool did discard it.
ReceiptTruthful ==
    \A b \in Bundles :
        /\ mined[b] # NONE => transaction_receipt(b) = "receipt"
        /\ transaction_receipt(b) = "dropped" => b \in dropped

\* No bundle stays in the pool: it is mined or dropped when its range has passed.
LeavesPool == \A b \in Bundles : pool[b] # NONE ~> pool[b] = NONE

\* When the pool drops a bundle, eth_getTransactionReceipt comes to say so, unless
\* the bundle is mined after all or the cache is full of other transactions.
DropIsReported ==
    \A b \in Bundles :
        b \in dropped ~> \/ transaction_receipt(b) \in {"dropped", "receipt"}
                             \/ Cardinality(cache \ {b}) = CacheCapacity
=============================================================================
