--------------------------- MODULE BlockExecution ---------------------------
(***************************************************************************)
(* What one flashblocks build puts into its block: the transactions of the *)
(* fallback block, then for every flashblock the builder transactions, the *)
(* pool transactions BestFlashblocksTxs yields, the transactions of the    *)
(* sidecar, and the budgets of gas and data availability (DA) that bound   *)
(* them (builders/context.rs, best_txs.rs, builder_tx.rs, execution.rs,    *)
(* and the part of payload.rs that keeps the budgets).                     *)
(*                                                                         *)
(* The build is one thread; pool, sidecar and EVM answer as they like.     *)
(* When a build starts, waits and stops is the matter of                   *)
(* FlashblocksBuilder, builds without the pool (no_tx_pool) included.      *)
(***************************************************************************)
EXTENDS Integers, Sequences, FiniteSets, SequencesExt

CONSTANTS
    PoolTxs,         \* transactions the pool may hold
    SidecarTxs,      \* transactions the sidecar may return
    Required,        \* the sidecar transactions that are required
    Info,            \* per transaction: sender, nonce, gas (limit), da, min, max
    FlashblockCount, \* flashblocks_per_block
    BlockGasLimit,   \* block_gas_limit()
    MaxDaBlockSize,  \* da_config.max_da_block_size()
    Scalar,          \* da_footprint_scalar, 0 before Jovian
    DepositGas,      \* gas of the sequencer transactions
    BuilderGas,      \* gas of one builder transaction
    BuilderDa,       \* DA size of one builder transaction
    NumberContracts, \* what number_contract may be
    Flashtestations  \* flashtestations_builder_tx is configured

Txs == PoolTxs \cup SidecarTxs

Senders == {Info[t].sender : t \in Txs}

gas_per_batch == BlockGasLimit \div FlashblockCount
da_per_batch == MaxDaBlockSize \div FlashblockCount
da_footprint_per_batch == BlockGasLimit \div FlashblockCount

ASSUME ExecutionAssumption ==
    /\ FlashblockCount \in Nat \ {0}
    /\ BlockGasLimit \in Nat /\ MaxDaBlockSize \in Nat /\ Scalar \in Nat
    /\ DepositGas \in Nat /\ BuilderGas \in Nat /\ BuilderDa \in Nat
    /\ DepositGas + 4 * BuilderGas <= gas_per_batch   \* a batch has room for
    /\ 4 * BuilderDa <= da_per_batch                  \* what is not checked
    /\ 4 * BuilderDa * Scalar <= da_footprint_per_batch
    /\ NumberContracts \subseteq BOOLEAN /\ Flashtestations \in BOOLEAN
    /\ Required \subseteq SidecarTxs
    /\ \A t \in Txs : Info[t].nonce \in Nat /\ Info[t].gas \in Nat \ {0} /\ Info[t].da \in Nat

VARIABLES
    number_contract, \* FlashblocksNumberBuilderTx, else FlashblocksBuilderTx
    phase,      \* where the build is
    index,      \* ctx.flashblock_index()
    gas,        \* info.cumulative_gas_used
    da,         \* info.cumulative_da_bytes_used
    executed,   \* info.executed_transactions
    last,       \* info.extra.last_flashblock_index
    nonces,     \* the nonce of each sender in the state being built
    target,     \* ctx.extra_ctx: gas, DA and footprint for the batch
    budget,     \* the same less what is reserved for builder transactions
    reserved,   \* how many builder transactions that reserve is for
    iterator,   \* what the pool iterator has still to yield
    committed,  \* commited_transactions of BestFlashblocksTxs
    external,   \* sidecar transactions still to be executed
    demanded,   \* history: required transactions received for this flashblock
    diff,       \* transactions of the flashblock build_block returned last
    flashblocks,\* the transactions of every flashblock published
    best,       \* transactions of the payload in the best_payload cell
    unreserved  \* history: how many builder transactions were committed at
                \* the bottom of a flashblock without having been reserved

vars == <<number_contract, phase, index, gas, da, executed, last, nonces, target, budget, reserved,
          iterator, committed, external, demanded, diff, flashblocks, best,
          unreserved>>

Limits == [gas : Nat, da : Nat, footprint : Nat]

TypeOK ==
    /\ number_contract \in BOOLEAN
    /\ phase \in {"fallback", "recv", "pool", "poll", "sidecar", "seal", "publish",
                  "done", "failed"}
    /\ index \in 0..(FlashblockCount + 1)
    /\ gas \in Nat /\ da \in Nat
    /\ executed \in Seq(Txs \cup {"deposit", "builder"})
    /\ last \in 0..Len(executed)
    /\ nonces \in [Senders -> Nat]
    /\ target \in Limits /\ budget \in Limits
    /\ reserved \in 0..3
    /\ iterator \subseteq PoolTxs
    /\ committed \subseteq Txs \cup {"deposit", "builder"}
    /\ external \subseteq SidecarTxs
    /\ demanded \subseteq Required
    /\ unreserved \in 0..3

Init ==
    /\ number_contract \in NumberContracts
    /\ phase = "fallback"
    /\ index = 0
    /\ gas = 0 /\ da = 0
    /\ executed = << >>
    /\ last = 0
    /\ nonces = [s \in Senders |-> 0]
    /\ target = [gas |-> 0, da |-> 0, footprint |-> 0]
    /\ budget = target
    /\ reserved = 0
    /\ iterator = {}
    /\ committed = {}
    /\ external = {} /\ demanded = {}
    /\ diff = << >> /\ flashblocks = << >> /\ best = << >>
    /\ unreserved = 0

SaturatingSub(a, b) == IF a > b THEN a - b ELSE 0

Lesser(a, b) == IF a < b THEN a ELSE b

\* The transactions after the first n.
Since(n, txs) == SubSeq(txs, n + 1, Len(txs))

-----------------------------------------------------------------------------
\* Builder transactions: how many simulate_builder_txs of the two variants
\* makes for the top and the bottom of flashblock i (a registration and a block
\* proof are added to the last one by flashtestations).

TopCount(i) == IF number_contract /\ i > 0 THEN 1 ELSE 0

BottomCount(i) ==
    (IF i = 0 \/ (i = FlashblockCount /\ ~number_contract) THEN 1 ELSE 0)
    + (IF i = FlashblockCount /\ Flashtestations THEN 2 ELSE 0)

MaxBottom == 3

\* add_builder_txs commits k of the transactions without a look at the
\* limits; the others have reverted or are invalid.
AddBuilderTxs(k) ==
    /\ gas' = gas + k * BuilderGas
    /\ da' = da + k * BuilderDa
    /\ executed' = executed \o [i \in 1..k |-> "builder"]

\* Sequencer transactions, builder transaction and fallback block.
Fallback(k) ==
    /\ phase = "fallback"
    /\ gas' = DepositGas + k * BuilderGas
    /\ da' = k * BuilderDa
    /\ executed' = <<"deposit">> \o [i \in 1..k |-> "builder"]
    /\ last' = k + 1
    /\ diff' = executed'
    /\ flashblocks' = <<diff'>>
    /\ best' = executed'
    /\ index' = 1
    /\ target' = [gas |-> gas_per_batch, da |-> da_per_batch,
                  footprint |-> da_footprint_per_batch]
    /\ phase' = "recv"
    /\ UNCHANGED <<nonces, budget, reserved, iterator, committed,
                   external, demanded, unreserved>>

\* Mutant: nothing is set aside for the builder transactions to come.
Reserve_Nothing(n) == target

Reserve(n) ==
    [gas |-> SaturatingSub(target.gas, n * BuilderGas),
     da |-> SaturatingSub(target.da, n * BuilderDa),
     footprint |-> SaturatingSub(target.footprint, n * BuilderDa * Scalar)]

\* The builder transactions are simulated; k of those for the top are
\* committed, r of those for the bottom reserved, fewer than there are when a
\* simulation fails.  The iterator is replaced by one over what the pool holds.
StartFlashblock(k, r, pool) ==
    /\ phase = "recv"
    /\ index <= FlashblockCount
    /\ k <= TopCount(index)
    /\ r <= BottomCount(index)
    /\ AddBuilderTxs(k)
    /\ reserved' = r
    /\ budget' = Reserve(r)
    /\ iterator' = pool
    /\ demanded' = {}
    /\ phase' = "pool"
    /\ UNCHANGED <<index, last, nonces, target, committed, external,
                   diff, flashblocks, best, unreserved>>

TargetReached ==
    /\ phase = "recv"
    /\ index > FlashblockCount
    /\ phase' = "done"
    /\ UNCHANGED <<index, gas, da, executed, last, nonces, target, budget, reserved, iterator,
                   committed, external, demanded, diff, flashblocks,
                   best, unreserved>>

-----------------------------------------------------------------------------
\* Pool transactions.

blockVars == <<index, gas, da, executed, last, nonces, target, budget, reserved,
               committed, external,
                   demanded, diff, flashblocks, best, unreserved>>

\* The pool's iterator yields the transactions of a sender by nonce.
Yielded(t) ==
    /\ phase = "pool"
    /\ t \in iterator
    /\ \A u \in iterator :
          Info[u].sender = Info[t].sender => Info[u].nonce >= Info[t].nonce

\* mark_invalid: nothing more of this sender.
MarkInvalid(t) == iterator' = {u \in iterator : Info[u].sender # Info[t].sender}

Skip(t) == iterator' = iterator \ {t}

Expired(t) == index > Info[t].max

Waiting(t) == index < Info[t].min

\* BestFlashblocksTxs::next passes over a transaction.
PassOver(t) ==
    /\ Yielded(t)
    /\ \/ t \in committed /\ Skip(t)
       \/ t \notin committed /\ Waiting(t) /\ Skip(t)
       \/ t \notin committed /\ ~Waiting(t) /\ Expired(t) /\ MarkInvalid(t)
    /\ UNCHANGED <<blockVars, phase>>

Candidate(t) == Yielded(t) /\ t \notin committed /\ ~Waiting(t) /\ ~Expired(t)

OverGas(t) == gas + Info[t].gas > Lesser(budget.gas, BlockGasLimit)

is_tx_over_limits(t) ==
    \/ da + Info[t].da > budget.da
    \/ Scalar # 0 /\ (da + Info[t].da) * Scalar > budget.footprint
    \/ OverGas(t)

\* Conditions not met, limits exceeded, blob or deposit, invalid for the EVM,
\* refused by the gas limiter, reverted and excluded, over max_gas_per_txn.
RejectTx(t) ==
    /\ Candidate(t)
    /\ MarkInvalid(t)
    /\ UNCHANGED <<blockVars, phase>>

\* The EVM finds the nonce too low; the sender stays in the iterator.
NonceTooLow(t) ==
    /\ Candidate(t)
    /\ ~is_tx_over_limits(t)
    /\ Info[t].nonce < nonces[Info[t].sender]
    /\ Skip(t)
    /\ UNCHANGED <<blockVars, phase>>

\* Mutant: the state changes of the transaction are not committed.
Commit_NoState(t, used) ==
    /\ gas' = gas + used
    /\ da' = da + Info[t].da
    /\ executed' = Append(executed, t)
    /\ UNCHANGED nonces

Commit(t, used) ==
    /\ gas' = gas + used
    /\ da' = da + Info[t].da
    /\ executed' = Append(executed, t)
    /\ nonces' = [nonces EXCEPT ![Info[t].sender] = @ + 1]

Executable(t) == ~is_tx_over_limits(t) /\ Info[t].nonce = nonces[Info[t].sender]

ExecuteTx(t, used) ==
    /\ Candidate(t)
    /\ Executable(t)
    /\ Commit(t, used)
    /\ Skip(t)
    /\ UNCHANGED <<phase, index, last, target, budget, reserved, committed, external,
                   demanded, diff, flashblocks, best, unreserved>>

\* The iterator is exhausted, or the flashblock's token is found cancelled
\* before a transaction that fits; mark_commited follows.
PoolDone ==
    /\ phase = "pool"
    /\ iterator = {} \/ \E t \in iterator : Candidate(t) /\ ~is_tx_over_limits(t)
    /\ committed' = committed \cup ToSet(Since(last, executed))
    /\ phase' = "poll"
    /\ UNCHANGED <<index, gas, da, executed, last, nonces, target, budget, reserved, iterator,
                   external, demanded, diff, flashblocks, best, unreserved>>

-----------------------------------------------------------------------------
\* The sidecar, the end of the flashblock and its publication.

\* poll_transactions; none are returned when the poll fails or is disabled.
Poll(txs) ==
    /\ phase = "poll"
    /\ external' = txs
    /\ demanded' = txs \cap Required
    /\ phase' = "sidecar"
    /\ UNCHANGED <<index, gas, da, executed, last, nonces, target, budget, reserved, iterator,
                   committed, diff, flashblocks, best, unreserved>>

ExecuteSidecarTx(t, used) ==
    /\ phase = "sidecar"
    /\ t \in external
    /\ Executable(t)
    /\ Commit(t, used)
    /\ external' = external \ {t}
    /\ UNCHANGED <<phase, index, last, target, budget, reserved, iterator, committed,
                   demanded, diff, flashblocks, best, unreserved>>

\* Mutant: a required transaction that fails is left out like the others.
AfterFailure_Lenient(t) == "sidecar"

AfterFailure(t) == IF t \in Required THEN "failed" ELSE "sidecar"

\* Undecodable, of a wrong type, over the limits, invalid or reverted.
SidecarTxFails(t) ==
    /\ phase = "sidecar"
    /\ t \in external
    /\ external' = external \ {t}
    /\ phase' = AfterFailure(t)
    /\ UNCHANGED <<index, gas, da, executed, last, nonces, target, budget, reserved, iterator,
                   committed, demanded, diff, flashblocks, best, unreserved>>

\* The builder transactions of the bottom are simulated again and committed.
FinishFlashblock(k) ==
    /\ phase = "sidecar"
    /\ external = {}
    /\ k <= BottomCount(index)
    /\ AddBuilderTxs(k)
    /\ unreserved' = unreserved + SaturatingSub(k, reserved)
    /\ phase' = "seal"
    /\ UNCHANGED <<index, last, nonces, target, budget, reserved, iterator, committed,
                   external, demanded, diff, flashblocks, best>>

\* Mutant: the index of the last flashblock stays where it was.
LastIndex_Unmoved == last

LastIndex == Len(executed)

\* build_block takes the transactions since the last flashblock.
SealBlock ==
    /\ phase = "seal"
    /\ diff' = Since(last, executed)
    /\ last' = LastIndex
    /\ phase' = "publish"
    /\ UNCHANGED <<index, gas, da, executed, nonces, target, budget, reserved, iterator,
                   committed, external, demanded, flashblocks, best,
                   unreserved>>

\* The flashblock is published, the payload sent to the handler and put into
\* the cell, and the targets move on.
PublishFlashblock ==
    /\ phase = "publish"
    /\ flashblocks' = Append(flashblocks, diff)
    /\ best' = executed
    /\ index' = index + 1
    /\ target' = [gas |-> target.gas + gas_per_batch,
                  da |-> budget.da + da_per_batch,
                  footprint |-> budget.footprint + da_footprint_per_batch]
    /\ phase' = "recv"
    /\ UNCHANGED <<gas, da, executed, last, nonces, budget, reserved, iterator, committed,
                   external, demanded, diff, unreserved>>

\* The flashblock is published but the queue to the handler is full.
SendFails ==
    /\ phase = "publish"
    /\ flashblocks' = Append(flashblocks, diff)
    /\ phase' = "failed"
    /\ UNCHANGED <<index, gas, da, executed, last, nonces, target, budget, reserved, iterator,
                   committed, external, demanded, diff, best, unreserved>>

\* block_cancel is found cancelled after the pool or before the publication.
BlockCancelled ==
    /\ phase \in {"poll", "publish"}
    /\ phase' = "done"
    /\ UNCHANGED <<blockVars, iterator>>

\* A fatal EVM error, or build_block or the publication fails.
BuildError ==
    /\ phase \in {"fallback", "pool", "seal", "publish"}
    /\ phase' = "failed"
    /\ UNCHANGED <<blockVars, iterator>>

\* A transaction uses up its gas limit or little of it.
GasUsed(t) == {1, Info[t].gas}

PoolStep(t) ==
    \/ PassOver(t) \/ RejectTx(t) \/ NonceTooLow(t)
    \/ \E used \in GasUsed(t) : ExecuteTx(t, used)

SidecarStep(t) ==
    \/ \E used \in GasUsed(t) : ExecuteSidecarTx(t, used)
    \/ SidecarTxFails(t)

Step ==
    \/ \E k \in 0..BottomCount(0) : Fallback(k)
    \/ \E k \in 0..1, r \in 0..MaxBottom, pool \in SUBSET PoolTxs :
          StartFlashblock(k, r, pool)
    \/ TargetReached
    \/ \E t \in PoolTxs : PoolStep(t)
    \/ PoolDone
    \/ \E txs \in SUBSET SidecarTxs : Poll(txs)
    \/ \E t \in SidecarTxs : SidecarStep(t)
    \/ \E k \in 0..MaxBottom : FinishFlashblock(k)
    \/ SealBlock \/ PublishFlashblock \/ SendFails
    \/ BlockCancelled \/ BuildError

\* The kind of builder transactions is a matter of configuration.
Next == Step /\ UNCHANGED number_contract

Spec == Init /\ [][Next]_vars

-----------------------------------------------------------------------------
\* The block keeps within its gas limit, the DA size and the DA footprint,
\* although builder transactions are never checked against them: the targets
\* leave room for them, unless their first simulation failed and the second
\* did not.
WithinLimits ==
    /\ gas <= BlockGasLimit + unreserved * BuilderGas
    /\ da <= MaxDaBlockSize + unreserved * BuilderDa
    /\ da * Scalar <= BlockGasLimit + unreserved * BuilderDa * Scalar

\* The flashblocks published so far, put together, are the payload getPayload
\* would return: no transaction is sent twice or left out, wherever it came
\* from and wherever the build stops, unless it fails.
FlashblocksMakeBlock == phase # "failed" => FlattenSeq(flashblocks) = best

\* No transaction is in the block twice, also when the pool still yields it or
\* the sidecar returns it after it was executed.
NoTxTwice ==
    \A i, j \in 1..Len(executed) : executed[i] = executed[j] /\ i # j => executed[i] \notin Txs

\* No flashblock goes out without the transactions the sidecar required of it.
RequiredIncluded ==
    phase \in {"seal", "publish", "recv"} => demanded \subseteq ToSet(executed)

=============================================================================
