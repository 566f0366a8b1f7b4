-------------------------- MODULE GasLimiterProofs --------------------------
(***************************************************************************)
(* The gas limiter for any addresses, any number of build threads and any  *)
(* capacity, rate and word size.                                           *)
(***************************************************************************)
EXTENDS GasLimiter, FiniteSetTheorems, TLAPS

\* A refill adds at most the rate, stays within the capacity, and takes
\* nothing away unless the addition overflows.
LEMMA RefilledBounds ==
    ASSUME NEW gas \in 0..max_gas_per_address
    PROVE  /\ Refilled(gas) \in 0..max_gas_per_address
           /\ Refilled(gas) <= gas + refill_rate_per_block
           /\ NoOverflow => Refilled(gas) >= gas
<1> DEFINE sum == gas + refill_rate_per_block
<1>1. /\ Word \in Nat \ {0} /\ sum \in Nat
      /\ max_gas_per_address \in Nat /\ refill_rate_per_block \in Nat
  BY LimiterAssumption
<1>2. sum % Word \in 0..(Word - 1) /\ sum % Word <= sum
  BY <1>1
<1>3. NoOverflow => sum % Word = sum
  BY <1>1 DEF NoOverflow
<1> HIDE DEF sum
<1>4. Refilled(gas) = Lesser(max_gas_per_address, sum % Word)
  BY DEF Refilled, sum
<1>5. sum >= gas
  BY <1>1 DEF sum
<1>6. Refilled(gas) \in 0..max_gas_per_address /\ Refilled(gas) <= sum
  BY <1>1, <1>2, <1>4 DEF Lesser
<1>7. NoOverflow => Refilled(gas) >= gas
  BY <1>1, <1>3, <1>4, <1>5 DEF Lesser
<1> QED
  BY <1>6, <1>7 DEF sum

\* The clean-up removes no bucket that holds what a bucket may hold.
LEMMA CleanupKeeps ==
    ASSUME TypeOK, NEW t \in Threads, Cleanup(t)
    PROVE  available' = available
<1>1. \A a \in Addresses : available[a] # None => Retained(available[a])
  BY LimiterAssumption DEF TypeOK, Retained, None
<1>2. available' = [a \in Addresses |-> available[a]]
  BY <1>1, Zenon DEF Cleanup
<1> QED
  BY <1>2 DEF TypeOK

\* A walk is over once its thread has left it.
WalksOver == \A t \in Threads : thread[t] # "refresh" => todo[t] = {}

IInv == TypeOK /\ GrantedWithinBucket /\ WalksOver /\ RefilledOncePerRefresh

LEMMA TypeStep ==
    ASSUME TypeOK, [Next]_vars
    PROVE  TypeOK'
<1> USE DEF TypeOK
<1>1. CASE UNCHANGED vars
  BY <1>1 DEF vars
<1>2. ASSUME NEW t \in Threads, NEW a \in Addresses, NEW gas \in Requests,
             ConsumeGas(t, a, gas)
      PROVE  TypeOK'
  <2>1. gas \in Nat /\ Balance(a) \in 0..max_gas_per_address
    BY LimiterAssumption DEF Balance, None
  <2>2. available' \in [Addresses -> {None} \cup 0..max_gas_per_address]
    BY <1>2, <2>1, LimiterAssumption DEF ConsumeGas
  <2>3. granted' \in [Addresses -> Nat]
    BY <1>2, <2>1 DEF ConsumeGas
  <2> QED
    BY <1>2, <2>2, <2>3 DEF ConsumeGas
<1>3. ASSUME NEW t \in Threads, NEW number \in 1..MaxBlock, Refresh(t, number)
      PROVE  TypeOK'
  BY <1>3, LimiterAssumption DEF Refresh
<1>4. ASSUME NEW t \in Threads, NEW a \in Addresses, RefillOne(t, a)
      PROVE  TypeOK'
  <2>1. todo' \in [Threads -> SUBSET Addresses]
    BY <1>4 DEF RefillOne
  <2>2. available[a] # None => Refilled(available[a]) \in 0..max_gas_per_address
    BY RefilledBounds
  <2>3. available' \in [Addresses -> {None} \cup 0..max_gas_per_address]
    BY <1>4, <2>2 DEF RefillOne
  <2>4. refills' \in [Addresses -> Nat]
    BY <1>4 DEF RefillOne
  <2> QED
    BY <1>4, <2>1, <2>3, <2>4 DEF RefillOne
<1>5. ASSUME NEW t \in Threads, RefillDone(t)
      PROVE  TypeOK'
  BY <1>5 DEF RefillDone
<1>6. ASSUME NEW t \in Threads, Cleanup(t)
      PROVE  TypeOK'
  <2>1. available' = available
    BY <1>6, CleanupKeeps
  <2> QED
    BY <1>6, <2>1 DEF Cleanup
<1> QED
  BY <1>1, <1>2, <1>3, <1>4, <1>5, <1>6 DEF Next, ThreadNext

LEMMA GrantedStep ==
    ASSUME TypeOK, GrantedWithinBucket, [Next]_vars
    PROVE  GrantedWithinBucket'
<1> SUFFICES ASSUME NEW b \in Addresses
             PROVE  granted'[b] + Balance(b)'
                        <= max_gas_per_address + refills'[b] * refill_rate_per_block
  BY DEF GrantedWithinBucket
<1>0. /\ granted[b] + Balance(b)
            <= max_gas_per_address + refills[b] * refill_rate_per_block
      /\ granted[b] \in Nat /\ refills[b] \in Nat /\ Balance(b) \in 0..max_gas_per_address
      /\ max_gas_per_address \in Nat /\ refill_rate_per_block \in Nat
  BY LimiterAssumption DEF GrantedWithinBucket, TypeOK, Balance, None
<1>1. ASSUME granted'[b] = granted[b], refills'[b] = refills[b],
             available'[b] = available[b]
      PROVE  granted'[b] + Balance(b)'
                 <= max_gas_per_address + refills'[b] * refill_rate_per_block
  BY <1>0, <1>1 DEF Balance
<1>2. ASSUME NEW t \in Threads, NEW a \in Addresses, NEW gas \in Requests,
             ConsumeGas(t, a, gas)
      PROVE  granted'[b] + Balance(b)'
                 <= max_gas_per_address + refills'[b] * refill_rate_per_block
  <2>1. CASE a # b
    BY <1>1, <1>2, <2>1 DEF ConsumeGas, TypeOK
  <2>2. CASE a = b /\ gas <= Balance(a)
    <3>1. gas \in Nat
      BY LimiterAssumption
    <3>2. /\ available'[b] = Balance(b) - gas
          /\ granted'[b] = granted[b] + gas
          /\ refills'[b] = refills[b]
      BY <1>2, <2>2 DEF ConsumeGas, TypeOK
    <3>3. Balance(b)' = Balance(b) - gas
      BY <1>0, <2>2, <3>1, <3>2 DEF Balance, None
    <3> QED
      BY <1>0, <3>1, <3>2, <3>3
  <2>3. CASE a = b /\ ~(gas <= Balance(a))
    <3>1. /\ available'[b] = Balance(b)
          /\ granted'[b] = granted[b]
          /\ refills'[b] = refills[b]
      BY <1>2, <2>3 DEF ConsumeGas, TypeOK
    <3>2. Balance(b)' = Balance(b)
      BY <1>0, <3>1 DEF Balance, None
    <3> QED
      BY <1>0, <3>1, <3>2
  <2> QED
    BY <2>1, <2>2, <2>3
<1>3. ASSUME NEW t \in Threads, NEW a \in Addresses, RefillOne(t, a)
      PROVE  granted'[b] + Balance(b)'
                 <= max_gas_per_address + refills'[b] * refill_rate_per_block
  <2>1. CASE a # b \/ available[a] = None
    BY <1>1, <1>3, <2>1 DEF RefillOne, TypeOK
  <2>2. CASE a = b /\ available[a] # None
    <3>1. /\ available'[b] = Refilled(available[b])
          /\ granted'[b] = granted[b]
          /\ refills'[b] = refills[b] + 1
      BY <1>3, <2>2 DEF RefillOne, TypeOK
    <3>2. available[b] \in 0..max_gas_per_address /\ Balance(b) = available[b]
      BY <2>2 DEF TypeOK, Balance
    <3>3. /\ Refilled(available[b]) \in 0..max_gas_per_address
          /\ Refilled(available[b]) <= available[b] + refill_rate_per_block
      BY <3>2, RefilledBounds
    <3>4. Balance(b)' = Refilled(available[b])
      BY <1>0, <3>1, <3>3 DEF Balance, None
    <3>5. refills'[b] * refill_rate_per_block
            = refills[b] * refill_rate_per_block + refill_rate_per_block
      BY <1>0, <3>1
    <3>6. refills[b] * refill_rate_per_block \in Nat
      BY <1>0
    <3> QED
      BY <1>0, <3>1, <3>2, <3>3, <3>4, <3>5, <3>6
  <2> QED
    BY <2>1, <2>2
<1>4. CASE \E t \in Threads : Cleanup(t)
  BY <1>1, <1>4, CleanupKeeps DEF Cleanup
<1>5. CASE UNCHANGED <<available, granted, refills>>
  BY <1>1, <1>5
<1> QED
  BY <1>2, <1>3, <1>4, <1>5 DEF Next, ThreadNext, Refresh, RefillDone, vars

LEMMA WalksStep ==
    ASSUME TypeOK, WalksOver, [Next]_vars
    PROVE  WalksOver'
<1> USE DEF TypeOK, WalksOver
<1>1. CASE UNCHANGED <<thread, todo>>
  BY <1>1
<1>2. ASSUME NEW t \in Threads, NEW number \in 1..MaxBlock, Refresh(t, number)
      PROVE  WalksOver'
  BY <1>2 DEF Refresh
<1>3. ASSUME NEW t \in Threads, NEW a \in Addresses, RefillOne(t, a)
      PROVE  WalksOver'
  BY <1>3 DEF RefillOne
<1>4. ASSUME NEW t \in Threads, RefillDone(t)
      PROVE  WalksOver'
  BY <1>4 DEF RefillDone
<1>5. ASSUME NEW t \in Threads, Cleanup(t)
      PROVE  WalksOver'
  BY <1>5 DEF Cleanup
<1> QED
  BY <1>1, <1>2, <1>3, <1>4, <1>5 DEF Next, ThreadNext, ConsumeGas, vars

\* The walks that have address a still before them.
Before(a) == {t \in Threads : a \in todo[t]}

LEMMA RefillsStep ==
    ASSUME TypeOK, WalksOver, RefilledOncePerRefresh, [Next]_vars
    PROVE  RefilledOncePerRefresh'
<1> SUFFICES ASSUME NEW b \in Addresses
             PROVE  refills'[b] + Cardinality(Before(b)') <= refreshes'
  BY DEF RefilledOncePerRefresh, Before
<1>0. /\ refills[b] + Cardinality(Before(b)) <= refreshes
      /\ refills[b] \in Nat /\ refreshes \in Nat
  BY LimiterAssumption DEF RefilledOncePerRefresh, Before, TypeOK
<1>1. IsFiniteSet(Before(b)) /\ Cardinality(Before(b)) \in Nat
  <2>1. IsFiniteSet(Before(b))
    BY LimiterAssumption, FS_Subset DEF Before
  <2> QED
    BY <2>1, FS_CardinalityType
<1>2. CASE UNCHANGED <<todo, refills, refreshes>>
  BY <1>0, <1>2 DEF Before
<1>3. ASSUME NEW t \in Threads, NEW number \in 1..MaxBlock, Refresh(t, number)
      PROVE  refills'[b] + Cardinality(Before(b)') <= refreshes'
  <2>1. todo[t] = {}
    BY <1>3 DEF Refresh, WalksOver
  <2>2. Before(b)' = Before(b) \cup {t} /\ t \notin Before(b)
    BY <1>3, <2>1 DEF Refresh, Before, TypeOK
  <2>3. Cardinality(Before(b)') = Cardinality(Before(b)) + 1
    BY <1>1, <2>2, FS_AddElement
  <2>4. refills'[b] = refills[b] /\ refreshes' = refreshes + 1
    BY <1>3 DEF Refresh
  <2> QED
    BY <1>0, <1>1, <2>3, <2>4
<1>4. ASSUME NEW t \in Threads, NEW a \in Addresses, RefillOne(t, a)
      PROVE  refills'[b] + Cardinality(Before(b)') <= refreshes'
  <2>1. refreshes' = refreshes
    BY <1>4 DEF RefillOne
  <2>2. CASE a # b
    <3>1. Before(b)' = Before(b) /\ refills'[b] = refills[b]
      BY <1>4, <2>2 DEF RefillOne, Before, TypeOK
    <3> QED
      BY <1>0, <2>1, <3>1
  <2>3. CASE a = b
    <3>1. t \in Before(b) /\ Before(b)' = Before(b) \ {t}
      BY <1>4, <2>3 DEF RefillOne, Before, TypeOK
    <3>2. Cardinality(Before(b)') = Cardinality(Before(b)) - 1
      BY <1>1, <3>1, FS_RemoveElement
    <3>3. refills'[b] \in {refills[b], refills[b] + 1}
      BY <1>4, <2>3 DEF RefillOne, TypeOK
    <3> QED
      BY <1>0, <1>1, <2>1, <3>2, <3>3
  <2> QED
    BY <2>2, <2>3
<1> QED
  BY <1>2, <1>3, <1>4 DEF Next, ThreadNext, ConsumeGas, RefillDone, Cleanup, vars

LEMMA InitInv == Init => IInv
<1> SUFFICES ASSUME Init PROVE IInv
  OBVIOUS
<1>1. TypeOK
  BY LimiterAssumption DEF Init, TypeOK
<1>2. GrantedWithinBucket
  BY LimiterAssumption DEF Init, GrantedWithinBucket, Balance
<1>3. WalksOver
  BY DEF Init, WalksOver
<1>4. RefilledOncePerRefresh
  <2>1. \A a \in Addresses : {t \in Threads : a \in todo[t]} = {}
    BY DEF Init
  <2> QED
    BY <2>1, FS_EmptySet DEF Init, RefilledOncePerRefresh
<1> QED
  BY <1>1, <1>2, <1>3, <1>4 DEF IInv

\* The inductive invariant: types, the token bucket bound, and that a thread
\* outside its refresh has no entry left to refill.
THEOREM LimiterInvariant == Spec => []IInv
<1>1. IInv /\ [Next]_vars => IInv'
  BY TypeStep, GrantedStep, WalksStep, RefillsStep DEF IInv
<1> QED
  BY <1>1, InitInv, PTL DEF Spec

\* However the builds that share the limiter overlap, no address is granted
\* more than a full bucket and its refills (consume_gas_inner, refresh_inner).
THEOREM GrantedWithinBucketHolds == Spec => []GrantedWithinBucket
<1>1. IInv => GrantedWithinBucket
  BY DEF IInv
<1> QED
  BY <1>1, LimiterInvariant, PTL

\* No walk of refresh_inner refills an address twice, however the walks of the
\* build threads interleave.
THEOREM RefilledOncePerRefreshHolds == Spec => []RefilledOncePerRefresh
<1>1. IInv => RefilledOncePerRefresh
  BY DEF IInv
<1> QED
  BY <1>1, LimiterInvariant, PTL

\* Only consume_gas takes gas from an address: neither the refill nor the
\* clean-up of refresh_inner does, unless the u64 addition overflows.
THEOREM RefreshNeverTakesHolds == Spec => RefreshNeverTakes
<1>1. ASSUME TypeOK, Next
      PROVE  TakenOnlyByGrants
  <2> SUFFICES ASSUME NoOverflow, NEW b \in Addresses, Balance(b)' < Balance(b)
               PROVE  granted'[b] > granted[b]
    BY DEF TakenOnlyByGrants
  <2>0. Balance(b) \in 0..max_gas_per_address /\ granted[b] \in Nat /\ max_gas_per_address \in Nat
    BY <1>1, LimiterAssumption DEF TypeOK, Balance, None
  <2>1. ASSUME NEW t \in Threads, NEW a \in Addresses, NEW gas \in Requests,
               ConsumeGas(t, a, gas)
        PROVE  granted'[b] > granted[b]
    <3>1. CASE a # b
      BY <1>1, <2>0, <2>1, <3>1 DEF ConsumeGas, TypeOK, Balance
    <3>2. CASE a = b /\ ~(gas <= Balance(a))
      <4>1. available'[b] = Balance(b)
        BY <1>1, <2>1, <3>2 DEF ConsumeGas, TypeOK
      <4> QED
        BY <2>0, <4>1 DEF Balance, None
    <3>3. CASE a = b /\ gas <= Balance(a)
      <4>1. gas \in Nat
        BY LimiterAssumption
      <4>2. available'[b] = Balance(b) - gas /\ granted'[b] = granted[b] + gas
        BY <1>1, <2>1, <3>3 DEF ConsumeGas, TypeOK
      <4>3. Balance(b)' = Balance(b) - gas
        BY <2>0, <3>3, <4>1, <4>2 DEF Balance, None
      <4> QED
        BY <2>0, <4>1, <4>2, <4>3
    <3> QED
      BY <3>1, <3>2, <3>3
  <2>2. ASSUME NEW t \in Threads, NEW a \in Addresses, RefillOne(t, a)
        PROVE  FALSE
    <3>1. CASE a # b \/ available[a] = None
      BY <1>1, <2>0, <2>2, <3>1 DEF RefillOne, TypeOK, Balance
    <3>2. CASE a = b /\ available[a] # None
      <4>1. available[b] \in 0..max_gas_per_address
        BY <1>1, <3>2 DEF TypeOK
      <4>2. available'[b] = Refilled(available[b])
        BY <1>1, <2>2, <3>2 DEF RefillOne, TypeOK
      <4>3. Refilled(available[b]) \in 0..max_gas_per_address /\ Refilled(available[b]) >= available[b]
        BY <4>1, RefilledBounds
      <4> QED
        BY <2>0, <3>2, <4>1, <4>2, <4>3 DEF Balance, None
    <3> QED
      BY <3>1, <3>2
  <2>3. ASSUME NEW t \in Threads, Cleanup(t)
        PROVE  FALSE
    BY <1>1, <2>0, <2>3, CleanupKeeps DEF Balance
  <2>4. CASE available' = available
    BY <2>0, <2>4 DEF Balance
  <2> QED
    BY <1>1, <2>1, <2>2, <2>3, <2>4 DEF Next, ThreadNext, Refresh, RefillDone
<1>2. TypeOK /\ [Next]_vars => [TakenOnlyByGrants]_vars
  BY <1>1
<1>3. IInv => TypeOK
  BY DEF IInv
<1> QED
  BY <1>2, <1>3, LimiterInvariant, PTL DEF Spec, RefreshNeverTakes
=============================================================================
