----------------------------- MODULE GasLimiter -----------------------------
(***************************************************************************)
(* The per-address token buckets of gas_limiter/mod.rs, shared by every    *)
(* build thread of the node: build_payload calls refresh once per request  *)
(* for a payload, and execute_best_transactions calls consume_gas once per *)
(* simulated pool transaction, whether or not it is included afterwards.   *)
(*                                                                         *)
(* The buckets are a DashMap: an entry is locked while it is used, the map *)
(* as a whole is not.  refresh walks over the entries one by one, and the  *)
(* threads of overlapping builds consume and refresh in between.           *)
(***************************************************************************)
EXTENDS Integers, FiniteSets

CONSTANTS
    Addresses,
    Threads,             \* build threads
    max_gas_per_address,
    refill_rate_per_block,
    cleanup_interval,
    Word,                \* number of values of a u64
    Requests,            \* amounts of gas a transaction may have used
    MaxRefreshes,        \* bound on the payload requests
    MaxBlock             \* bound on the block numbers

ASSUME LimiterAssumption ==
    /\ IsFiniteSet(Threads)
    /\ Word \in Nat
    /\ max_gas_per_address \in 0..(Word - 1)
    /\ refill_rate_per_block \in 0..(Word - 1)
    /\ cleanup_interval \in Nat
    /\ Requests \subseteq 0..(Word - 1)
    /\ MaxRefreshes \in Nat
    /\ MaxBlock \in Nat

\* available + refill_rate_per_block does not overflow.
NoOverflow == max_gas_per_address + refill_rate_per_block < Word

None == -1

VARIABLES
    available, \* per address, the gas in its bucket, None without a bucket
    todo,      \* per thread, the entries its refresh has still to visit
    thread,    \* "none", "refresh", "cleanup" or "execute"
    block,     \* the block number of each thread's build, 0 for none
    refreshes, \* how often refresh was called
    refills,   \* history: how often each address was refilled
    granted    \* history: the gas consume_gas has granted to each address

vars == <<available, todo, thread, block, refreshes, refills, granted>>

\* Every bucket holds between nothing and its capacity.
TypeOK ==
    /\ available \in [Addresses -> {None} \cup 0..max_gas_per_address]
    /\ todo \in [Threads -> SUBSET Addresses]
    /\ thread \in [Threads -> {"none", "refresh", "cleanup", "execute"}]
    /\ block \in [Threads -> 0..MaxBlock]
    /\ refreshes \in 0..MaxRefreshes
    /\ refills \in [Addresses -> Nat]
    /\ granted \in [Addresses -> Nat]

Init ==
    /\ available = [a \in Addresses |-> None]
    /\ todo = [t \in Threads |-> {}]
    /\ thread = [t \in Threads |-> "none"]
    /\ block = [t \in Threads |-> 0]
    /\ refreshes = 0
    /\ refills = [a \in Addresses |-> 0]
    /\ granted = [a \in Addresses |-> 0]

\* What the bucket of a holds, or would hold if consume_gas created it.
Balance(a) == IF available[a] = None THEN max_gas_per_address ELSE available[a]

\* consume_gas: a missing bucket is created full, also for a refusal.
ConsumeGas(t, a, gas) ==
    /\ thread[t] = "execute"
    /\ IF gas <= Balance(a)
       THEN /\ available' = [available EXCEPT ![a] = Balance(a) - gas]
            /\ granted' = [granted EXCEPT ![a] = @ + gas]
       ELSE /\ available' = [available EXCEPT ![a] = Balance(a)]
            /\ UNCHANGED granted
    /\ UNCHANGED <<todo, thread, block, refreshes, refills>>

\* refresh at the start of a build.  A thread builds one payload after the
\* other, for the same block or for a later one, and so do the others.
Refresh(t, number) ==
    /\ thread[t] \in {"none", "execute"}
    /\ refreshes < MaxRefreshes
    /\ refreshes' = refreshes + 1
    /\ block' = [block EXCEPT ![t] = number]
    /\ todo' = [todo EXCEPT ![t] = Addresses]
    /\ thread' = [thread EXCEPT ![t] = "refresh"]
    /\ UNCHANGED <<available, refills, granted>>

Lesser(a, b) == IF a < b THEN a ELSE b

\* Mutant: the bucket is set to the rate.
Refilled_Reset(gas) == Lesser(max_gas_per_address, refill_rate_per_block)

\* min(capacity, available + refill_rate_per_block), on u64.
Refilled(gas) == Lesser(max_gas_per_address, (gas + refill_rate_per_block) % Word)

\* The closure of iter_mut().for_each on one entry.  An address without a
\* bucket is passed over; one whose bucket is created during the walk may be
\* visited or not.
RefillOne(t, a) ==
    /\ thread[t] = "refresh"
    /\ a \in todo[t]
    /\ todo' = [todo EXCEPT ![t] = @ \ {a}]
    /\ IF available[a] = None
       THEN UNCHANGED <<available, refills>>
       ELSE /\ available' = [available EXCEPT ![a] = Refilled(@)]
            /\ refills' = [refills EXCEPT ![a] = @ + 1]
    /\ UNCHANGED <<thread, block, refreshes, granted>>

\* u64::is_multiple_of.
IsMultipleOf(n, k) == IF k = 0 THEN n = 0 ELSE n % k = 0

RefillDone(t) ==
    /\ thread[t] = "refresh"
    /\ todo[t] = {}
    /\ thread' = [thread EXCEPT ![t] =
                     IF IsMultipleOf(block[t], cleanup_interval) THEN "cleanup" ELSE "execute"]
    /\ UNCHANGED <<available, todo, block, refreshes, refills, granted>>

\* Mutant: the comparison is turned around and drops the buckets in use.
Retained_Full(gas) == gas >= max_gas_per_address

\* The condition of retain: available <= capacity.
Retained(gas) == gas <= max_gas_per_address

Cleanup(t) ==
    /\ thread[t] = "cleanup"
    /\ available' = [a \in Addresses |->
                        IF available[a] # None /\ Retained(available[a])
                        THEN available[a] ELSE None]
    /\ thread' = [thread EXCEPT ![t] = "execute"]
    /\ UNCHANGED <<todo, block, refreshes, refills, granted>>

ThreadNext(t) ==
    \/ \E a \in Addresses, gas \in Requests : ConsumeGas(t, a, gas)
    \/ \E number \in 1..MaxBlock : number >= block[t] /\ Refresh(t, number)
    \/ \E a \in Addresses : RefillOne(t, a)
    \/ RefillDone(t)
    \/ Cleanup(t)

Next == \E t \in Threads : ThreadNext(t)

Spec == Init /\ [][Next]_vars

-----------------------------------------------------------------------------
\* The token bucket bound: whatever the threads interleave, an address has
\* been granted no more than a full bucket and its refills, less what is left
\* (consume_gas_inner, refresh_inner).
GrantedWithinBucket ==
    \A a \in Addresses :
        granted[a] + Balance(a)
            <= max_gas_per_address + refills[a] * refill_rate_per_block

\* No address is refilled more often than refresh was called, less the walks
\* that have it still before them.
RefilledOncePerRefresh ==
    \A a \in Addresses :
        refills[a] + Cardinality({t \in Threads : a \in todo[t]}) <= refreshes

TakenOnlyByGrants ==
    NoOverflow =>
        \A a \in Addresses : Balance(a)' < Balance(a) => granted'[a] > granted[a]

\* A refresh never leaves an address with less gas, not even when builds
\* overlap, as long as the u64 addition does not overflow.
RefreshNeverTakes == [][TakenOnlyByGrants]_vars

-----------------------------------------------------------------------------
\* What the repository says and the code does not do.

\* mod.rs:117, args.rs:25: every cleanup_interval blocks stale buckets, the
\* ones refilled to capacity, are cleaned up.
StaleBucketsRemoved ==
    [][\A t \in Threads, a \in Addresses :
          Cleanup(t) /\ available[a] = max_gas_per_address => available'[a] = None]_vars
=============================================================================
