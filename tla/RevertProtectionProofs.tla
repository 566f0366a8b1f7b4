----------------------- MODULE RevertProtectionProofs -----------------------
(***************************************************************************)
(* Bundles for any number of them, any requests, any range limit, any      *)
(* number of flashblocks and any capacity of the cache.                    *)
(***************************************************************************)
EXTENDS RevertProtection, FiniteSetTheorems, TLAPS

\* The checks of Bundle::conditional decide whether the bundle can be served, for
\* every bundle and every head.
THEOREM AcceptsIsServable ==
    ASSUME NEW r \in Bundle, NEW last \in Nat
    PROVE  Accepts(r, last) <=> Servable(r, last)
<1> DEFINE min == r.block_number_min
           max == r.block_number_max
           fmin == r.flashblock_number_min
           fmax == r.flashblock_number_max
           range == MAX_BLOCK_RANGE_BLOCKS
           next == last + 1 .. last + range
           Blocks == /\ max # NONE => /\ min # NONE => min <= max
                                      /\ max > last /\ max <= last + range
                     /\ max = NONE /\ min # NONE => min <= last + range
           Served == \E n \in next : AtLeast(n, min) /\ AtMost(n, max)
           Flash == fmin # NONE /\ fmax # NONE => fmin <= fmax
           Index == \E i \in {0, fmin, fmax} \ {NONE} : AtLeast(i, fmin) /\ AtMost(i, fmax)
<1>1. /\ min \in Nat \cup {NONE} /\ max \in Nat \cup {NONE}
      /\ fmin \in Nat \cup {NONE} /\ fmax \in Nat \cup {NONE}
  BY DEF Bundle, Option
<1>2. range \in Nat \ {0} /\ NONE \notin Nat
  BY BundleAssumption
<1>3. Accepts(r, last) <=> Blocks /\ Flash
  BY DEF Accepts
<1>4. Servable(r, last) <=> Served /\ max \in next \cup {NONE} /\ Index
  BY DEF Servable
<1> HIDE DEF min, max, fmin, fmax, range
<1>5. Blocks => max \in next \cup {NONE}
  BY <1>1, <1>2
<1>6. Blocks => Served
  <2>1. CASE max # NONE
    BY <2>1, <1>1, <1>2 DEF AtLeast, AtMost
  <2>2. CASE max = NONE
    <3>1. last + range \in next
      BY <1>2
    <3> QED
      BY <2>2, <3>1, <1>1, <1>2 DEF AtLeast, AtMost
  <2> QED
    BY <2>1, <2>2
<1>7. Served /\ max \in next \cup {NONE} => Blocks
  BY <1>1, <1>2 DEF AtLeast, AtMost
<1>8. Flash <=> Index
  <2>1. CASE fmin # NONE
    <3>1. Flash => AtLeast(fmin, fmin) /\ AtMost(fmin, fmax)
      BY <2>1, <1>1, <1>2 DEF AtLeast, AtMost
    <3>2. Index => Flash
      BY <2>1, <1>1, <1>2 DEF AtLeast, AtMost
    <3> QED
      BY <2>1, <3>1, <3>2
  <2>2. CASE fmin = NONE
    <3>1. 0 # NONE /\ AtLeast(0, fmin) /\ AtMost(0, fmax)
      BY <2>2, <1>1, <1>2 DEF AtLeast, AtMost
    <3> QED
      BY <2>2, <3>1
  <2> QED
    BY <2>1, <2>2
<1> QED
  BY <1>3, <1>4, <1>5, <1>6, <1>7, <1>8

-----------------------------------------------------------------------------
\* A transaction send_bundle_inner made of an accepted request that read a head not
\* beyond h.
Made(t, h) ==
    /\ t \in PoolTx
    /\ Accepts(t.request, t.last)
    /\ t.block_number_max = conditional(t.request, t.last).block_number_max
    /\ t.last <= h

\* A transaction a flashblock of block number n executed and committed.
Placed(m, n) ==
    /\ m \in Included
    /\ m.number = n
    /\ Made(m.tx, n - 1)
    /\ matches_block_attributes(m.tx, n)
    /\ Offered(m.tx, m.index)
    /\ Commits(m.tx, m.status)

MadeInv ==
    /\ \A b \in Bundles : adding[b] # NONE => Made(adding[b], head)
    /\ \A b \in Bundles : pool[b] # NONE => Made(pool[b], head)

PlacedInv ==
    /\ \A b \in Bundles : mined[b] # NONE => Placed(mined[b], mined[b].number)
    /\ payload # NONE =>
          \A b \in Bundles : payload.txs[b] # NONE => Placed(payload.txs[b], head + 1)

CacheInv == IsFiniteSet(cache) /\ events \subseteq dropped /\ cache \subseteq dropped

IInv == TypeOK /\ MadeInv /\ PlacedInv /\ CacheInv

\* What conditional makes of an accepted request.
LEMMA ConditionalMade ==
    ASSUME NEW r \in Requests, NEW h \in Nat, Accepts(r, h)
    PROVE  Made(conditional(r, h), h)
<1>1. r \in Bundle /\ MAX_BLOCK_RANGE_BLOCKS \in Nat
  BY BundleAssumption
<1>2. r.block_number_max \in Option(Nat)
  BY <1>1 DEF Bundle
<1>3. conditional(r, h) \in PoolTx
  BY <1>1, <1>2 DEF conditional, PoolTx, Option
<1> QED
  BY <1>3 DEF Made, conditional

\* A later head makes no difference.
LEMMA MadeLater ==
    ASSUME NEW t, NEW h \in Nat, NEW k \in Nat, Made(t, h), h <= k
    PROVE  Made(t, k)
  BY DEF Made, PoolTx

\* What was placed is where its request wants it.
LEMMA PlacedAsRequested ==
    ASSUME NEW m, NEW n \in Nat, Placed(m, n)
    PROVE  LET r == m.tx.request IN
           /\ AtLeast(n, r.block_number_min) /\ AtMost(n, r.block_number_max)
           /\ n \in m.tx.last + 1 .. m.tx.last + MAX_BLOCK_RANGE_BLOCKS
           /\ AtLeast(m.index, r.flashblock_number_min)
           /\ AtMost(m.index, r.flashblock_number_max)
           /\ AtLeast(n * BlockTime, r.min_timestamp)
           /\ AtMost(n * BlockTime, r.max_timestamp)
           /\ m.status = "reverted" => r.reverting
<1> DEFINE t == m.tx
           r == t.request
<1>1. t \in PoolTx /\ r \in Bundle /\ t.last \in Nat /\ t.last <= n - 1
  BY BundleAssumption DEF Placed, Made, PoolTx
<1>2. /\ matches_block_attributes(t, n) /\ Offered(t, m.index) /\ Commits(t, m.status)
      /\ Accepts(r, t.last)
      /\ t.block_number_max = conditional(r, t.last).block_number_max
  BY DEF Placed, Made
<1>3. r.block_number_max \in Nat \cup {NONE} /\ NONE \notin Nat
      /\ MAX_BLOCK_RANGE_BLOCKS \in Nat
  BY <1>1, BundleAssumption DEF Bundle, Option
<1> HIDE DEF t, r
<1>4. t.block_number_max \in Nat /\ t.block_number_max <= t.last + MAX_BLOCK_RANGE_BLOCKS
      /\ (r.block_number_max # NONE => t.block_number_max = r.block_number_max)
  BY <1>1, <1>2, <1>3 DEF Accepts, conditional
<1>5. n <= t.block_number_max
  BY <1>2, <1>3, <1>4 DEF matches_block_attributes, AtMost
<1>6. n \in t.last + 1 .. t.last + MAX_BLOCK_RANGE_BLOCKS
  BY <1>1, <1>3, <1>4, <1>5
<1>7. AtMost(n, r.block_number_max)
  BY <1>4, <1>5 DEF AtMost
<1>8. /\ AtLeast(n, r.block_number_min)
      /\ AtLeast(n * BlockTime, r.min_timestamp) /\ AtMost(n * BlockTime, r.max_timestamp)
  BY <1>2 DEF matches_block_attributes, r
<1>9. AtLeast(m.index, r.flashblock_number_min) /\ AtMost(m.index, r.flashblock_number_max)
  BY <1>2 DEF Offered, r
<1>10. m.status = "reverted" => r.reverting
  BY <1>2 DEF Commits, r
<1> QED
  BY <1>6, <1>7, <1>8, <1>9, <1>10 DEF t, r

-----------------------------------------------------------------------------
\* Nothing is in the pool, in a block or in the cache at first.
LEMMA InitIInv == Init => IInv
<1> SUFFICES ASSUME Init PROVE IInv
  OBVIOUS
<1>1. TypeOK
  <2>1. Cardinality({}) = 0 /\ IsFiniteSet({})
    BY FS_EmptySet
  <2> QED
    BY <2>1, BundleAssumption DEF Init, TypeOK, Option
<1>2. MadeInv /\ PlacedInv
  BY DEF Init, MadeInv, PlacedInv
<1>3. CacheInv
  BY FS_EmptySet DEF Init, CacheInv
<1> QED
  BY <1>1, <1>2, <1>3 DEF IInv

\* Every action keeps the types, the capacity of the cache included.
LEMMA TypeStep ==
    ASSUME TypeOK, MadeInv, PlacedInv, CacheInv, Next
    PROVE  TypeOK'
<1>0. /\ head \in Nat /\ head \in 0..MaxHead /\ maintained \in 0..head /\ collected \in 0..head
      /\ MaxHead \in Nat /\ MaxSends \in Nat /\ FlashblockCount \in Nat
  BY BundleAssumption DEF TypeOK
<1>1. ASSUME NEW b \in Bundles, NEW r \in Requests, SendBundle(b, r)
      PROVE  TypeOK'
  <2>1. Accepts(r, head) => conditional(r, head) \in PoolTx
    BY <1>0, ConditionalMade DEF Made
  <2>2. adding' \in [Bundles -> Option(PoolTx)]
    BY <1>1, <2>1 DEF SendBundle, TypeOK, Option
  <2>3. sends' \in 0..MaxSends
    BY <1>0, <1>1 DEF SendBundle, TypeOK
  <2> QED
    BY <1>1, <2>2, <2>3 DEF SendBundle, TypeOK
<1>2. ASSUME NEW b \in Bundles, AddTransaction(b)
      PROVE  TypeOK'
  <2>1. pool' \in [Bundles -> Option(PoolTx)] /\ adding' \in [Bundles -> Option(PoolTx)]
    BY <1>2 DEF AddTransaction, TypeOK, Option
  <2> QED
    BY <1>2, <2>1 DEF AddTransaction, TypeOK
<1>3. ASSUME NEW S \in SUBSET Bundles, Discard(S)
      PROVE  /\ pool' \in [Bundles -> Option(PoolTx)]
             /\ events' \subseteq Bundles /\ dropped' \subseteq Bundles
  BY <1>3 DEF Discard, TypeOK, Option
<1>4. ASSUME NEW b \in Bundles, Overflow(b)
      PROVE  TypeOK'
  BY <1>3, <1>4 DEF Overflow, TypeOK
<1>5. CASE GarbageCollect
  <2>1. collected' \in 0..head
    BY <1>0, <1>5 DEF GarbageCollect
  <2> QED
    BY <1>3, <1>5, <2>1 DEF GarbageCollect, TypeOK
<1>6. ASSUME NEW b \in Bundles, MonitorDiscarded(b)
      PROVE  TypeOK'
  <2> DEFINE all == cache \cup {b}
  <2>1. IsFiniteSet(all) /\ Cardinality(all) <= Cardinality(cache) + 1
        /\ Cardinality(cache) \in Nat /\ Cardinality(all) \in Nat
    <3>1. IsFiniteSet(cache) /\ Cardinality(cache) \in Nat
      BY FS_CardinalityType DEF CacheInv
    <3>2. IsFiniteSet(all)
          /\ (Cardinality(all) = Cardinality(cache) \/ Cardinality(all) = Cardinality(cache) + 1)
      BY <3>1, FS_AddElement, Zenon
    <3> QED
      BY <3>1, <3>2
  <2>2. \A c \in all : Cardinality(all \ {c}) = Cardinality(all) - 1
    BY <2>1, FS_RemoveElement
  <2>3. Cardinality(cache) <= CacheCapacity /\ CacheCapacity \in Nat
    BY BundleAssumption DEF TypeOK
  <2> HIDE DEF all
  <2>4. Cardinality(cache') <= CacheCapacity
    <3>1. CASE Cardinality(all) <= CacheCapacity
      BY <3>1, <1>6 DEF MonitorDiscarded, all
    <3>2. CASE ~(Cardinality(all) <= CacheCapacity)
      <4>1. PICK c \in all : cache' = all \ {c}
        BY <3>2, <1>6 DEF MonitorDiscarded, all
      <4> QED
        BY <4>1, <2>1, <2>2, <2>3
    <3> QED
      BY <3>1, <3>2
  <2>5. cache' \subseteq Bundles /\ events' \subseteq Bundles
    BY <1>6 DEF MonitorDiscarded, TypeOK
  <2> QED
    BY <1>6, <2>4, <2>5 DEF MonitorDiscarded, TypeOK
<1>7. CASE StartBlock
  <2>1. payload'.number = head + 1
        /\ payload' \in [number : Nat, index : 0..FlashblockCount,
                         txs : [Bundles -> Option(Included)]]
    BY <1>0, <1>7 DEF StartBlock, Option
  <2> QED
    BY <1>7, <2>1 DEF StartBlock, TypeOK, Option
<1>8. ASSUME NEW outcome \in [Bundles -> Status \cup {"skipped"}], Flashblock(outcome)
      PROVE  TypeOK'
  <2> DEFINE i == payload.index + 1
             Add(b) == [tx |-> pool[b], number |-> payload.number, index |-> i,
                        status |-> outcome[b]]
             txs == [b \in Bundles |-> IF b \in Tried(i) /\ Commits(pool[b], outcome[b])
                                       THEN Add(b) ELSE payload.txs[b]]
  <2>1. payload' = [number |-> payload.number, index |-> i, txs |-> txs]
    BY <1>8 DEF Flashblock
  <2>2. payload \in [number : Nat, index : 0..FlashblockCount,
                     txs : [Bundles -> Option(Included)]]
    BY <1>8 DEF Flashblock, TypeOK, Option
  <2>3. i \in 0..FlashblockCount /\ i \in Nat /\ payload.number \in Nat
        /\ payload.txs \in [Bundles -> Option(Included)]
    BY <1>0, <1>8, <2>2 DEF Flashblock
  <2>4. ASSUME NEW b \in Bundles, b \in Tried(i), Commits(pool[b], outcome[b])
        PROVE  Add(b) \in Included
    <3>1. pool[b] \in PoolTx
      BY <2>4 DEF Tried, TypeOK, Option
    <3>2. outcome[b] \in Status
      BY <2>4 DEF Commits, Status
    <3> QED
      BY <2>3, <3>1, <3>2 DEF Included
  <2>5. txs \in [Bundles -> Option(Included)]
    BY <2>3, <2>4 DEF Option
  <2> HIDE DEF i, txs
  <2>6. payload' \in [number : Nat, index : 0..FlashblockCount,
                      txs : [Bundles -> Option(Included)]]
        /\ payload'.number = payload.number
    BY <2>1, <2>3, <2>5
  <2> QED
    BY <1>8, <2>6 DEF Flashblock, TypeOK, Option
<1>9. ASSUME NEW txs \in [Bundles -> Option(Included)], Extend(txs)
      PROVE  TypeOK'
  <2>1. head' \in 0..MaxHead /\ maintained' \in 0..head' /\ collected' \in 0..head'
    BY <1>0, <1>9 DEF Extend
  <2>2. mined' \in [Bundles -> Option(Included)]
    BY <1>9 DEF Extend, TypeOK
  <2> QED
    BY <1>9, <2>1, <2>2 DEF Extend, TypeOK, Option
<1>10. CASE Import
  <2>1. payload.txs \in [Bundles -> Option(Included)]
    BY <1>10 DEF Import, TypeOK, Option
  <2> QED
    BY <1>9, <1>10, <2>1 DEF Import
<1>11. CASE ImportOther
  <2>1. [b \in Bundles |-> NONE] \in [Bundles -> Option(Included)]
    BY DEF Option
  <2> QED
    BY <1>9, <1>11, <2>1 DEF ImportOther
<1>12. CASE PoolMaintenance
  <2>1. maintained' \in 0..head /\ pool' \in [Bundles -> Option(PoolTx)]
    BY <1>0, <1>12 DEF PoolMaintenance, TypeOK, Option
  <2> QED
    BY <1>12, <2>1 DEF PoolMaintenance, TypeOK
<1> QED
  BY <1>1, <1>2, <1>4, <1>5, <1>6, <1>7, <1>8, <1>10, <1>11, <1>12 DEF Next

\* A transaction enters adding and the pool only by way of an accepted request.
LEMMA MadeStep ==
    ASSUME TypeOK, MadeInv, Next
    PROVE  MadeInv'
<1>0. head \in Nat
  BY BundleAssumption DEF TypeOK
<1>1. ASSUME NEW b \in Bundles, NEW r \in Requests, SendBundle(b, r)
      PROVE  MadeInv'
  <2>1. Accepts(r, head) => Made(conditional(r, head), head)
    BY <1>0, ConditionalMade
  <2>2. ASSUME NEW c \in Bundles, adding'[c] # NONE
        PROVE  Made(adding'[c], head)
    <3>1. adding'[c] = adding[c] \/ (adding'[c] = conditional(r, head) /\ Accepts(r, head))
      BY <1>1 DEF SendBundle, TypeOK
    <3> QED
      BY <2>1, <2>2, <3>1 DEF MadeInv
  <2> QED
    BY <1>1, <2>2 DEF SendBundle, MadeInv
<1>2. ASSUME NEW b \in Bundles, AddTransaction(b)
      PROVE  MadeInv'
  <2>1. ASSUME NEW c \in Bundles, pool'[c] # NONE
        PROVE  Made(pool'[c], head)
    <3>1. pool'[c] = pool[c] \/ pool'[c] = adding[c]
      BY <1>2 DEF AddTransaction, TypeOK
    <3> QED
      BY <2>1, <3>1 DEF MadeInv
  <2>2. ASSUME NEW c \in Bundles, adding'[c] # NONE
        PROVE  adding'[c] = adding[c]
    BY <1>2, <2>2 DEF AddTransaction, TypeOK
  <2> QED
    BY <1>2, <2>1, <2>2 DEF AddTransaction, MadeInv
<1>3. ASSUME \A b \in Bundles : pool'[b] # NONE => pool'[b] = pool[b],
             UNCHANGED <<head, adding>>
      PROVE  MadeInv'
  BY <1>3 DEF MadeInv
<1>4. ASSUME NEW S, Discard(S)
      PROVE  \A b \in Bundles : pool'[b] # NONE => pool'[b] = pool[b]
  BY <1>4 DEF Discard
<1>5. ASSUME NEW b \in Bundles, Overflow(b)
      PROVE  MadeInv'
  BY <1>3, <1>4, <1>5 DEF Overflow
<1>6. CASE GarbageCollect
  BY <1>3, <1>4, <1>6 DEF GarbageCollect
<1>7. CASE PoolMaintenance
  <2>1. \A b \in Bundles : pool'[b] # NONE => pool'[b] = pool[b]
    BY <1>7 DEF PoolMaintenance
  <2> QED
    BY <1>3, <1>7, <2>1 DEF PoolMaintenance
<1>8. ASSUME NEW b \in Bundles, MonitorDiscarded(b)
      PROVE  MadeInv'
  BY <1>3, <1>8 DEF MonitorDiscarded
<1>9. CASE StartBlock
  BY <1>3, <1>9 DEF StartBlock
<1>10. ASSUME NEW outcome \in [Bundles -> Status \cup {"skipped"}], Flashblock(outcome)
       PROVE  MadeInv'
  BY <1>3, <1>10 DEF Flashblock
<1>11. ASSUME NEW txs, Extend(txs)
       PROVE  MadeInv'
  <2>1. head' = head + 1 /\ UNCHANGED <<adding, pool>>
    BY <1>11 DEF Extend
  <2>2. \A t : Made(t, head) => Made(t, head + 1)
    BY <1>0, MadeLater
  <2> QED
    BY <2>1, <2>2 DEF MadeInv
<1> QED
  BY <1>1, <1>2, <1>5, <1>6, <1>7, <1>8, <1>9, <1>10, <1>11 DEF Next, Import, ImportOther

\* A block gets a transaction only from a flashblock that checked it, and the chain
\* only from such a block.
LEMMA PlacedStep ==
    ASSUME TypeOK, MadeInv, PlacedInv, Next
    PROVE  PlacedInv'
<1>0. head \in Nat
  BY BundleAssumption DEF TypeOK
<1>1. ASSUME UNCHANGED <<mined, payload, head>>
      PROVE  PlacedInv'
  BY <1>1 DEF PlacedInv
<1>2. CASE StartBlock
  BY <1>2 DEF StartBlock, PlacedInv
<1>3. ASSUME NEW outcome \in [Bundles -> Status \cup {"skipped"}], Flashblock(outcome)
      PROVE  PlacedInv'
  <2> DEFINE i == payload.index + 1
             Add(b) == [tx |-> pool[b], number |-> payload.number, index |-> i,
                        status |-> outcome[b]]
             txs == [b \in Bundles |-> IF b \in Tried(i) /\ Commits(pool[b], outcome[b])
                                       THEN Add(b) ELSE payload.txs[b]]
  <2>1. payload'.txs = txs /\ payload # NONE
    BY <1>3 DEF Flashblock
  <2>2. payload.number = head + 1 /\ i \in Nat
    BY <2>1, BundleAssumption DEF TypeOK, Option
  <2>3. ASSUME NEW b \in Bundles, b \in Tried(i), Commits(pool[b], outcome[b])
        PROVE  Placed(Add(b), head + 1)
    <3>1. /\ pool[b] # NONE /\ Offered(pool[b], i)
          /\ matches_block_attributes(pool[b], head + 1)
      BY <2>2, <2>3 DEF Tried
    <3>2. Made(pool[b], (head + 1) - 1)
      <4>1. (head + 1) - 1 = head
        BY <1>0
      <4> QED
        BY <3>1, <4>1 DEF MadeInv
    <3>3. outcome[b] \in Status
      BY <2>3 DEF Commits, Status
    <3>4. Add(b) \in Included
      BY <1>0, <2>2, <3>2, <3>3 DEF Included, Made
    <3> QED
      BY <2>2, <2>3, <3>1, <3>2, <3>4 DEF Placed
  <2> HIDE DEF i
  <2>4. \A b \in Bundles : txs[b] # NONE => Placed(txs[b], head + 1)
    BY <2>1, <2>3 DEF PlacedInv
  <2> HIDE DEF txs
  <2> QED
    BY <1>3, <2>1, <2>4 DEF Flashblock, PlacedInv
<1>4. ASSUME NEW txs, Extend(txs),
             \A b \in Bundles : txs[b] # NONE => Placed(txs[b], head + 1)
      PROVE  PlacedInv'
  <2>1. payload' = NONE
    BY <1>4 DEF Extend
  <2>2. ASSUME NEW b \in Bundles, mined'[b] # NONE
        PROVE  Placed(mined'[b], mined'[b].number)
    <3>1. mined'[b] = mined[b] \/ (txs[b] # NONE /\ mined'[b] = txs[b])
      BY <1>4 DEF Extend
    <3>2. txs[b] # NONE => Placed(txs[b], txs[b].number)
      BY <1>4 DEF Placed
    <3> QED
      BY <2>2, <3>1, <3>2 DEF PlacedInv
  <2> QED
    BY <2>1, <2>2 DEF PlacedInv
<1>5. CASE Import
  BY <1>4, <1>5 DEF Import, PlacedInv
<1>6. CASE ImportOther
  BY <1>4, <1>6 DEF ImportOther
<1> QED
  BY <1>1, <1>2, <1>3, <1>5, <1>6 DEF Next, SendBundle, AddTransaction, Overflow,
     MonitorDiscarded, PoolMaintenance, GarbageCollect

\* The cache has what the monitor read, and that is what the pool discarded.
LEMMA CacheStep ==
    ASSUME TypeOK, CacheInv, Next
    PROVE  CacheInv'
<1>1. ASSUME UNCHANGED <<events, cache, dropped>>
      PROVE  CacheInv'
  BY <1>1 DEF CacheInv
<1>2. ASSUME NEW S, Discard(S), UNCHANGED cache
      PROVE  CacheInv'
  BY <1>2 DEF Discard, CacheInv
<1>3. ASSUME NEW b \in Bundles, MonitorDiscarded(b)
      PROVE  CacheInv'
  <2>1. IsFiniteSet(cache \cup {b})
    BY FS_AddElement DEF CacheInv
  <2>2. IsFiniteSet(cache')
    BY <1>3, <2>1, FS_Subset DEF MonitorDiscarded
  <2>3. events' \subseteq dropped' /\ cache' \subseteq dropped'
    BY <1>3 DEF MonitorDiscarded, CacheInv
  <2> QED
    BY <2>2, <2>3 DEF CacheInv
<1> QED
  BY <1>1, <1>2, <1>3 DEF Next, SendBundle, AddTransaction, Overflow, StartBlock,
     Flashblock, Import, ImportOther, Extend, PoolMaintenance, GarbageCollect

-----------------------------------------------------------------------------
\* The inductive invariant: every transaction on its way into the pool, in the pool
\* or in a block was made of a request that Bundle::conditional accepted, and every
\* one in a block passed the checks of the flashblock that executed it.
THEOREM Invariant == Spec => []IInv
<1>1. IInv /\ [Next]_vars => IInv'
  <2>1. CASE Next
    BY <2>1, TypeStep, MadeStep, PlacedStep, CacheStep DEF IInv
  <2>2. CASE UNCHANGED vars
    BY <2>2 DEF vars, IInv, TypeOK, MadeInv, PlacedInv, CacheInv
  <2> QED
    BY <2>1, <2>2
<1> QED
  BY <1>1, InitIInv, PTL DEF Spec

\* Types, and the capacity of the cache.
THEOREM TypeCorrect == Spec => []TypeOK
<1>1. IInv => TypeOK
  BY DEF IInv
<1> QED
  BY <1>1, Invariant, PTL

\* Bundle::conditional accepts exactly what can be served, at every head.
THEOREM AcceptsServableHolds == Spec => []AcceptsServable
<1>1. IInv => AcceptsServable
  <2> SUFFICES ASSUME IInv, NEW r \in Requests
               PROVE  Accepts(r, head) <=> Servable(r, head)
    BY DEF AcceptsServable
  <2>1. r \in Bundle /\ head \in Nat
    BY BundleAssumption DEF IInv, TypeOK
  <2> QED
    BY <2>1, AcceptsIsServable
<1> QED
  BY <1>1, Invariant, PTL

\* A bundle in a canonical block is where and how its request allows it.
THEOREM MinedAsRequestedHolds == Spec => []MinedAsRequested
<1>1. IInv => MinedAsRequested
  <2> SUFFICES ASSUME IInv PROVE MinedAsRequested
    OBVIOUS
  <2>1. ASSUME NEW b \in Bundles, mined[b] # NONE
        PROVE  mined[b].number \in Nat /\ Placed(mined[b], mined[b].number)
    BY <2>1 DEF IInv, PlacedInv, Placed, Included
  <2> QED
    BY <2>1, PlacedAsRequested DEF MinedAsRequested
<1> QED
  BY <1>1, Invariant, PTL

\* eth_getTransactionReceipt never calls a mined transaction dropped, nor one the
\* pool has not discarded.
THEOREM ReceiptTruthfulHolds == Spec => []ReceiptTruthful
<1>1. IInv => ReceiptTruthful
  BY DEF IInv, CacheInv, ReceiptTruthful, transaction_receipt
<1> QED
  BY <1>1, Invariant, PTL

\* What is discarded for its range is not in the block being built.
THEOREM DroppedIsFinalHolds == Spec => DroppedIsFinal
<1>1. ASSUME IInv PROVE CollectsUnbuilt
  <2> SUFFICES ASSUME GarbageCollect, NEW b \in Bundles,
                      pool[b] # pool'[b], payload # NONE,
                      payload.txs[b] # NONE, payload.txs[b].tx = pool[b]
               PROVE  FALSE
    BY DEF CollectsUnbuilt
  <2> DEFINE t == pool[b]
  <2>1. has_exceeded_block_attributes(t, head)
    BY DEF GarbageCollect, Discard
  <2>2. Placed(payload.txs[b], head + 1)
    BY <1>1 DEF IInv, PlacedInv
  <2>3. matches_block_attributes(t, head + 1) /\ t \in PoolTx
    BY <2>2 DEF Placed, Made
  <2>4. /\ t.block_number_max \in Nat \cup {NONE}
        /\ t.request.max_timestamp \in Nat \cup {NONE}
        /\ head \in Nat /\ BlockTime \in Nat \ {0}
    BY <1>1, <2>3, BundleAssumption DEF IInv, TypeOK, PoolTx, Bundle, Option
  <2> HIDE DEF t
  <2>5. ~(t.block_number_max # NONE /\ head >= t.block_number_max)
    BY <2>3, <2>4 DEF matches_block_attributes, AtMost
  <2>6. ~(t.request.max_timestamp # NONE /\ head * BlockTime >= t.request.max_timestamp)
    <3> DEFINE time == head * BlockTime
    <3>1. (head + 1) * BlockTime = time + BlockTime /\ time \in Nat
      BY <2>4
    <3> HIDE DEF time
    <3>2. AtMost(time + BlockTime, t.request.max_timestamp)
      BY <2>3, <3>1 DEF matches_block_attributes
    <3>3. ~(t.request.max_timestamp # NONE /\ time >= t.request.max_timestamp)
      BY <2>4, <3>1, <3>2 DEF AtMost
    <3> QED
      BY <3>3 DEF time
  <2> QED
    BY <2>1, <2>5, <2>6 DEF has_exceeded_block_attributes
<1>2. IInv /\ [Next]_vars => [CollectsUnbuilt]_vars
  BY <1>1
<1>3. Spec => [][Next]_vars
  BY PTL DEF Spec
<1> QED
  BY <1>2, <1>3, Invariant, PTL DEF DroppedIsFinal
=============================================================================
