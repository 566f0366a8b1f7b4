------------------------ MODULE BuilderTransactions ------------------------
(***************************************************************************)
(* The transactions the builder signs itself and adds to its blocks, as    *)
(* functions of the state they run on: builders/builder_tx.rs, the         *)
(* implementations of BuilderTransactions of the standard builder, of the  *)
(* flashblocks builder with and without the number contract, and of        *)
(* flashtestations.                                                        *)
(*                                                                         *)
(* A state has the nonce of the builder's account, the TEE keys that are   *)
(* valid in the registry, and what is ready: the builder's balance, the    *)
(* registry for its quote, the policy for its workload and the number      *)
(* contract for its address.  What other transactions do to these is part  *)
(* of the model; gas is one number per kind of transaction.  The permit    *)
(* nonces are read in the simulation that signs them and left out.         *)
(***************************************************************************)
EXTENDS Naturals, Sequences, SequencesExt

CONSTANTS
    Gas,               \* gas of each kind of transaction
    Flashtestations,   \* flashtestations_builder_tx is configured
    EnableBlockProofs  \* enable_block_proofs

Contracts == {"funds", "registry", "policy", "number"}

Kinds == {"deposit", "base", "register", "proof", "number", "admit", "expel", "revoke", "rpc", "reverted"}

ASSUME BuilderTxAssumption ==
    /\ Gas \in [Kinds -> Nat]
    /\ Flashtestations \in BOOLEAN /\ EnableBlockProofs \in BOOLEAN

\* arg is the contract an "admit" or "expel" is about, or the transactions a
\* block proof covers.
Tx(kind, nonce, key, arg) == [kind |-> kind, nonce |-> nonce, key |-> key, arg |-> arg]

SignedByBuilder(t) == t.kind \in {"base", "register", "proof", "number", "rpc"}

GasOf(txs) == FoldLeft(LAMBDA g, t : g + Gas[t.kind], 0, txs)

-----------------------------------------------------------------------------
\* The EVM and the contracts.

Succeeds(s, t) ==
    CASE t.kind \in {"register", "rpc"} -> "registry" \in s.ready /\ t.key \notin s.valid
      [] t.kind = "proof"  -> "policy" \in s.ready /\ t.key \in s.valid
      [] t.kind = "number" -> "number" \in s.ready
      [] OTHER -> TRUE

Effect(s, t) ==
    [s EXCEPT !.nonce = IF SignedByBuilder(t) THEN @ + 1 ELSE @,
              !.valid = CASE t.kind \in {"register", "rpc"} -> @ \cup {t.key}
                          [] t.kind = "revoke" -> @ \ {t.key}
                          [] OTHER -> @,
              !.ready = CASE t.kind = "admit" -> @ \cup {t.arg}
                          [] t.kind = "expel" -> @ \ {t.arg}
                          [] OTHER -> @]

\* evm.transact accepts a transaction of the builder's account.
Valid(s, t) == t.nonce = s.nonce /\ "funds" \in s.ready

-----------------------------------------------------------------------------
\* Simulation.  The result is ok, whether registered is set, the transactions
\* for the top and for the bottom.

Simulated(flag, top, bottom) ==
    [ok |-> TRUE, registered |-> flag, top |-> top, bottom |-> bottom]

Failed(flag) == [ok |-> FALSE, registered |-> flag, top |-> << >>, bottom |-> << >>]

\* BuilderTxBase::simulate_builder_tx: the nonce of the state, no call.
Base(s) == Tx("base", s.nonce, << >>, << >>)

\* set_registered reads the state of the parent block; nothing takes the flag
\* back.
set_registered(registered, tee, parent) == registered \/ tee \in parent.valid

\* simulate_call: the nonce is the one of the state and the balance is not
\* checked, so that the contract alone decides.
simulate_call(s, t) == Succeeds(s, t)

\* signed_registration_permit_tx and signed_block_proof_permit_tx.
Registration(s, tee) == Tx("register", s.nonce, tee, << >>)

BlockProof(s, tee, executed) == Tx("proof", s.nonce, tee, executed)

Optional(condition, t) == IF condition THEN <<t>> ELSE << >>

\* Mutant: the key counts as registered as soon as the transaction is made.
FlashtestationsTxs_Early(s, registered, tee, parent, executed) ==
    LET known == set_registered(registered, tee, parent)
        register == Registration(s, tee)
        after == IF known THEN s ELSE Effect(s, register)
        proof == BlockProof(after, tee, executed)
    IN  IF ~known /\ ~simulate_call(s, register)
        THEN [ok |-> TRUE, registered |-> known, txs |-> << >>]
        ELSE [ok |-> TRUE, registered |-> TRUE,
              txs |-> Optional(~known, register)
                      \o Optional(EnableBlockProofs /\ simulate_call(after, proof), proof)]

\* FlashtestationsBuilderTx::simulate_builder_txs in state s: a registration
\* that fails ends it, a block proof that fails is left out.
FlashtestationsTxs(s, registered, tee, parent, executed) ==
    LET known == set_registered(registered, tee, parent)
        register == Registration(s, tee)
        after == IF known THEN s ELSE Effect(s, register)
        proof == BlockProof(after, tee, executed)
    IN  IF ~known /\ ~simulate_call(s, register)
        THEN [ok |-> TRUE, registered |-> known, txs |-> << >>]
        ELSE [ok |-> TRUE, registered |-> known,
              txs |-> Optional(~known, register)
                      \o Optional(EnableBlockProofs /\ simulate_call(after, proof), proof)]

commit_txs(s, txs) == FoldLeft(Effect, s, txs)

\* Mutant: the simulation goes on from the state before the transactions.
WithFlashtestations_Uncommitted(s, txs, registered, tee, parent, executed) ==
    IF txs # << >> /\ "funds" \notin s.ready
    THEN Failed(registered)
    ELSE FlashtestationsTxs(s, registered, tee, parent, executed)

\* commit_txs fails on a transaction that is not valid; otherwise the
\* transactions of flashtestations are simulated on what it leads to.
WithFlashtestations(s, txs, registered, tee, parent, executed) ==
    IF txs # << >> /\ "funds" \notin s.ready
    THEN Failed(registered)
    ELSE FlashtestationsTxs(commit_txs(s, txs), registered, tee, parent, executed)

\* The error goes up, or the transactions f of flashtestations come last.
Extended(top, bottom, f) ==
    IF f.ok THEN Simulated(f.registered, top, bottom \o f.txs) ELSE f

\* StandardBuilderTx.
StandardBuilderTx(s, registered, tee, parent, executed) ==
    LET f == WithFlashtestations(s, <<Base(s)>>, registered, tee, parent, executed)
    IN  IF ~Flashtestations THEN Simulated(registered, << >>, <<Base(s)>>)
        ELSE Extended(<< >>, <<Base(s)>>, f)

\* FlashblocksBuilderTx: a transaction in the fallback block and one in the
\* last flashblock, with those of flashtestations.
FlashblocksBuilderTx(s, registered, tee, parent, executed, first, last) ==
    LET early == IF first THEN <<Base(s)>> ELSE << >>
        f == WithFlashtestations(s, <<Base(s)>>, registered, tee, parent, executed)
    IN  IF ~last THEN Simulated(registered, << >>, early)
        ELSE IF ~Flashtestations THEN Simulated(registered, << >>, early \o <<Base(s)>>)
        ELSE Extended(<< >>, early \o <<Base(s)>>, f)

\* increment_flashblocks_tx, with or without a permit.
IncrementNumber(s) == Tx("number", s.nonce, << >>, << >>)

\* FlashblocksNumberBuilderTx: every flashblock but the fallback block has a
\* call of the contract at its top, or in its place the base transaction.
FlashblocksNumberBuilderTx(s, registered, tee, parent, executed, first, last, top_of_block) ==
    LET number == IncrementNumber(s)
        top == IF first THEN << >>
               ELSE IF simulate_call(s, number) THEN <<number>> ELSE <<Base(s)>>
        bottom == IF first THEN <<Base(s)>> ELSE << >>
        f == WithFlashtestations(s, IF top_of_block THEN top ELSE bottom,
                                 registered, tee, parent, executed)
    IN  IF ~last \/ ~Flashtestations THEN Simulated(registered, top, bottom)
        ELSE Extended(top, bottom, f)

-----------------------------------------------------------------------------
\* add_builder_txs: the loop that commits.  A block has the state it leads to
\* and its transactions.

\* A nonce that is too low is passed over; otherwise a transaction that is not
\* valid or reverts makes its signer invalid.
CommitOne(b, t) ==
    IF b.invalid \/ t.nonce < b.state.nonce THEN b
    ELSE IF ~Valid(b.state, t) \/ ~Succeeds(b.state, t) THEN [b EXCEPT !.invalid = TRUE]
    ELSE [b EXCEPT !.state = Effect(@, t), !.txs = Append(@, t)]

add_builder_txs(b, txs) ==
    [FoldLeft(CommitOne, [b EXCEPT !.invalid = FALSE], txs) EXCEPT !.invalid = FALSE]

\* A transaction from the pool is executed when it fits; one that the builder's
\* account has sent needs its nonce, and is included also when it reverts.
ExecuteOne(b, t) ==
    IF ~SignedByBuilder(t) \/ Succeeds(b.state, t)
    THEN [b EXCEPT !.state = Effect(@, t), !.txs = Append(@, t)]
    ELSE [b EXCEPT !.state.nonce = @ + 1, !.txs = Append(@, [t EXCEPT !.kind = "reverted"])]

ExecutePool(b, pool, limit) ==
    FoldLeft(LAMBDA c, t :
                IF \/ GasOf(c.txs) + Gas[t.kind] > limit
                   \/ SignedByBuilder(t) /\ ~Valid(c.state, t)
                THEN c ELSE ExecuteOne(c, t),
             b, pool)

=============================================================================
