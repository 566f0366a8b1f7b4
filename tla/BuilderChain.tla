---------------------------- MODULE BuilderChain ----------------------------
(***************************************************************************)
(* A builder node with flashtestations over a chain of blocks: how it gets *)
(* its TEE key and registers it (flashtestations/service.rs,               *)
(* tx_manager.rs), how it builds a block around its own transactions       *)
(* (standard/payload.rs and the same steps of flashblocks/payload.rs), and *)
(* what becomes of the block: imported, passed over for the block of       *)
(* another builder, or reorganised away.  The node may crash at any time;  *)
(* the key file and the chain survive.                                     *)
(***************************************************************************)
EXTENDS BuilderTransactions, FiniteSets

CONSTANTS
    Keys,           \* TEE keys that can be generated
    BuilderKinds,   \* the implementations of BuilderTransactions to look at
    FlashblockCount,\* flashblocks of a block
    BlockGasLimit,
    PoolTxs,        \* transactions of others
    Genesis,        \* what may be ready in the first block
    MaxSent,        \* bound on the registrations sent to flashtestations_rpc_url,
                    \* 0 when it is not set
    MaxHeight,      \* bound on the blocks of the chain
    MaxPool,        \* bound on the pool transactions of a block
    NONE

ASSUME ChainAssumption ==
    /\ BuilderKinds \subseteq {"standard", "flashblocks", "number"}
    /\ FlashblockCount \in Nat \ {0} /\ BlockGasLimit \in Nat
    /\ MaxHeight \in Nat /\ MaxPool \in Nat
    /\ MaxSent \in Nat
    /\ Genesis \subseteq SUBSET Contracts
    /\ NONE \notin Keys

VARIABLES
    kind,       \* which builder this is
    process,    \* "down", "registering" (awaiting the receipt), "up"
    file,       \* the key in the file, NONE when it is missing or cannot be read
    generated,  \* keys generated so far
    tee,        \* tee_service_signer
    registered, \* the AtomicBool of FlashtestationsBuilderTx
    sent,       \* the registration the TxManager waits for, or NONE
    pending,    \* registrations sent by it that may be included
    chain,      \* the canonical blocks: state, and the receipts of rpc transactions
    payload,    \* the block last built on the head, or NONE
    seen        \* history: keys that canonical blocks have registered

vars == <<kind, process, file, generated, tee, registered, sent, pending, chain, payload,
          seen>>

Tip == chain[Len(chain)]

\* Types; the key, the flag and the block are in the memory of the process, and a
\* process that builds has a key.
TypeOK ==
    /\ kind \in BuilderKinds
    /\ process \in {"down", "registering", "up"}
    /\ file \in Keys \cup {NONE}
    /\ generated \subseteq Keys
    /\ tee \in Keys \cup {NONE}
    /\ registered \in BOOLEAN
    /\ process = "down" <=> tee = NONE
    /\ registered \/ payload # NONE => process = "up"
    /\ Len(chain) \in 1..MaxHeight
    /\ \A i \in 1..Len(chain) :
          chain[i].state \in [nonce : Nat, valid : SUBSET Keys, ready : SUBSET Contracts]

Init ==
    /\ kind \in BuilderKinds
    /\ process = "down"
    /\ file = NONE
    /\ generated = {}
    /\ tee = NONE
    /\ registered = FALSE
    /\ sent = NONE
    /\ pending = {}
    /\ \E ready \in Genesis :
          chain = <<[receipts |-> {}, state |-> [nonce |-> 0, valid |-> {}, ready |-> ready]]>>
    /\ payload = NONE
    /\ seen = {}

-----------------------------------------------------------------------------
\* bootstrap_flashtestations.

\* The key is in hand: the TxManager sends a registration when there is an RPC
\* and its gas can be estimated; otherwise it is left to the blocks.
Bootstrap(k) ==
    /\ tee' = k
    /\ registered' = FALSE
    /\ LET t == Tx("rpc", Tip.state.nonce, k, << >>)
       IN  IF Cardinality(pending) < MaxSent /\ Succeeds(Tip.state, t)
           THEN sent' = t /\ pending' = pending \cup {t} /\ process' = "registering"
           ELSE sent' = NONE /\ UNCHANGED pending /\ process' = "up"
    /\ payload' = NONE
    /\ UNCHANGED <<kind, chain, seen>>

\* load_tee_key.
LoadKey ==
    /\ process = "down"
    /\ file \in Keys
    /\ Bootstrap(file)
    /\ UNCHANGED <<file, generated>>

\* Mutant: the stored key is not looked at.
GenerateKey_Always(k, content) ==
    /\ process = "down"
    /\ k \in Keys \ generated
    /\ content \in {k, file}
    /\ file' = content
    /\ generated' = generated \cup {k}
    /\ Bootstrap(k)

\* A new key; the file is truncated and written, or cannot be opened, or is
\* left torn by an error or a crash.
GenerateKey(k, content) ==
    /\ process = "down"
    /\ file \notin Keys
    /\ k \in Keys \ generated
    /\ content \in {k, NONE}
    /\ file' = content
    /\ generated' = generated \cup {k}
    /\ Bootstrap(k)

\* get_receipt returns, and says whether the call succeeded.
Receipt ==
    /\ process = "registering"
    /\ \E i \in 1..Len(chain) :
          \/ sent \in chain[i].receipts /\ registered' = TRUE
          \/ [sent EXCEPT !.kind = "reverted"] \in chain[i].receipts /\ registered' = FALSE
    /\ process' = "up"
    /\ UNCHANGED <<kind, file, generated, tee, sent, pending, chain, payload, seen>>

\* 30 seconds without a receipt, or an RPC error; the transaction is still out.
ReceiptTimeout ==
    /\ process = "registering"
    /\ process' = "up"
    /\ UNCHANGED <<kind, file, generated, tee, registered, sent, pending, chain, payload, seen>>

Crash ==
    /\ process # "down"
    /\ process' = "down"
    /\ tee' = NONE
    /\ registered' = FALSE
    /\ payload' = NONE
    /\ sent' = NONE
    /\ UNCHANGED <<kind, file, generated, pending, chain, seen>>

-----------------------------------------------------------------------------
\* Building on the head.  A block under construction also has the flag, the
\* state its last builder transactions were simulated on, and as history the
\* gas of the transactions that were added without having been reserved.

SaturatingSub(a, b) == IF a > b THEN a - b ELSE 0

Target == IF kind = "standard" THEN 1 ELSE FlashblockCount

simulate_builder_txs(b, index, top_of_block) ==
    LET first == index = 0
        last == index = Target
    IN  CASE kind = "standard" ->
               StandardBuilderTx(b.state, b.registered, tee, Tip.state, b.txs)
          [] kind = "flashblocks" ->
               FlashblocksBuilderTx(b.state, b.registered, tee, Tip.state, b.txs, first, last)
          [] kind = "number" ->
               FlashblocksNumberBuilderTx(b.state, b.registered, tee, Tip.state, b.txs,
                                          first, last, top_of_block)

\* The pass at the bottom, with what was simulated for it.
AddSimulated(b, sim) ==
    add_builder_txs([b EXCEPT !.registered = sim.registered, !.before = b.state], sim.bottom)

AddBottom(b, index) == AddSimulated(b, simulate_builder_txs(b, index, FALSE))

\* Mutant: nothing is kept for the builder transactions of the bottom.
Available_All(index, sim) == index * (BlockGasLimit \div Target)

\* What is left of the target of gas for the pool.
Available(index, sim) ==
    SaturatingSub(index * (BlockGasLimit \div Target), GasOf(sim.bottom))

\* The pass at the top, then the pool with what the reserve leaves.
Fill(b, index, pool, sim) ==
    LET top == add_builder_txs([b EXCEPT !.registered = sim.registered], sim.top)
    IN  ExecutePool(top, pool, Available(index, sim))

\* Gas of the bottom that sim had not reserved.
Account(filled, done, sim) ==
    LET added == GasOf(done.txs) - GasOf(filled.txs)
    IN  [done EXCEPT !.unreserved = @ + SaturatingSub(added, GasOf(sim.bottom))]

\* Mutant: the transactions simulated for the reserve are the ones added.
Batch_Reused(b, index, pool) ==
    LET sim == simulate_builder_txs(b, index, TRUE)
    IN  AddSimulated(Fill(b, index, pool, sim), sim)

\* The pass at the top, the reserve, the pool, the pass at the bottom.
Batch(b, index, pool) ==
    LET sim == simulate_builder_txs(b, index, TRUE)
        filled == Fill(b, index, pool, sim)
    IN  Account(filled, AddBottom(filled, index), sim)

\* The sequencer's transactions, and in the fallback block of the flashblocks
\* builder the first builder transaction unless no_tx_pool is set.
Start(no_tx_pool) ==
    LET b == [state |-> Tip.state, txs |-> <<Tx("deposit", 0, << >>, << >>)>>,
              invalid |-> FALSE, registered |-> registered, before |-> Tip.state,
              unreserved |-> 0, full |-> FALSE]
    IN  IF kind = "standard" \/ no_tx_pool THEN b ELSE AddBottom(b, 0)

\* The block with the pool transactions pools[i] offered to its i-th part.
BlockOf(pools, no_tx_pool) ==
    LET parts[i \in 0..Len(pools)] ==
            IF i = 0 THEN Start(no_tx_pool) ELSE Batch(parts[i - 1], i, pools[i])
    IN  [parts[Len(pools)] EXCEPT !.full = (Len(pools) = Target)]

Parts == IF kind = "standard" THEN {1} ELSE 0..FlashblockCount

\* A payload job of the standard builder builds again and again, without the
\* pool when no_tx_pool is set; one of the flashblocks builder then has the
\* fallback block only, and otherwise stops after any flashblock.
Build(pools, no_tx_pool) ==
    /\ process = "up"
    /\ Len(chain) < MaxHeight
    /\ Len(pools) \in Parts
    /\ no_tx_pool => pools = IF kind = "standard" THEN << << >> >> ELSE << >>
    /\ payload' = BlockOf(pools, no_tx_pool)
    /\ registered' = payload'.registered
    /\ UNCHANGED <<kind, process, file, generated, tee, sent, pending, chain, seen>>

-----------------------------------------------------------------------------
\* What becomes of the blocks (reth and the sequencer).

Extend(b) ==
    LET of(kinds) == {t \in ToSet(b.txs) : t.kind \in kinds}
    IN  /\ chain' = Append(chain, [state |-> b.state, receipts |-> of({"rpc", "reverted"})])
        /\ seen' = seen \cup {t.key : t \in of({"register", "rpc"})}
        /\ payload' = NONE
        /\ UNCHANGED <<kind, process, file, generated, tee, registered, sent, pending>>

Import == payload # NONE /\ Extend(payload)

ImportOther(pool) ==
    /\ Len(chain) < MaxHeight
    /\ Extend(ExecutePool([state |-> Tip.state, txs |-> << >>], pool, BlockGasLimit))

Reorg ==
    /\ Len(chain) > 1
    /\ chain' = Front(chain)
    /\ payload' = NONE
    /\ UNCHANGED <<kind, process, file, generated, tee, registered, sent, pending, seen>>

Pools == SeqOf(PoolTxs \cup pending, MaxPool)

\* What the pool offers to n parts of a block: one part gets all of it.
Offers(n) ==
    {[i \in 1..n |-> IF i = part THEN pool ELSE << >>] : part \in 1..n, pool \in Pools}

Next ==
    \/ LoadKey \/ Receipt \/ ReceiptTimeout \/ Crash
    \/ \E k \in Keys, content \in Keys \cup {NONE} : GenerateKey(k, content)
    \/ \E n \in Parts : \E pools \in Offers(n) \cup {[i \in 1..n |-> << >>]}, no_tx_pool \in BOOLEAN :
          Build(pools, no_tx_pool)
    \/ Import \/ Reorg
    \/ \E pool \in Pools : ImportOther(pool)

Spec == Init /\ [][Next]_vars

-----------------------------------------------------------------------------
\* The block proof of a block covers every transaction of it but the ones the
\* builder adds after it has simulated the proof: those of the bottom.
ProofCoversBlock ==
    payload # NONE =>
        \A i \in 1..Len(payload.txs) :
            LET t == payload.txs[i]
            IN  t.kind = "proof" =>
                    /\ t.arg = SubSeq(payload.txs, 1, Len(t.arg))
                    /\ \A j \in (Len(t.arg) + 1)..Len(payload.txs) :
                          payload.txs[j].kind \in {"base", "register", "proof"}

\* When the flag is right about the state the transactions are simulated on,
\* and balance, policy and, if needed, registry are ready there, a complete
\* block has a block proof: no nonce is wrong and none of the simulated
\* transactions is left out.
ProofWhenPossible ==
    (payload # NONE /\ payload.full) =>
        LET s == payload.before
        IN  (/\ {"funds", "policy"} \subseteq s.ready
             /\ payload.registered = (tee \in s.valid)
             /\ payload.registered \/ "registry" \in s.ready)
            => \E t \in ToSet(payload.txs) : t.kind = "proof" /\ t.key = tee

\* The flag is set only for a key that a canonical block has registered, never
\* on the strength of a block that may not become canonical.
RegisteredWasSeen == registered => tee \in seen

\* A node that has a key on disk runs with that key, after a crash too.
StoredKeyInUse == process # "down" /\ file \in Keys => tee = file

\* A block exceeds the gas limit at most by the builder transactions whose
\* simulation at the top failed and at the bottom did not.
GasWithinLimit ==
    payload # NONE => GasOf(payload.txs) <= BlockGasLimit + payload.unreserved

=============================================================================
