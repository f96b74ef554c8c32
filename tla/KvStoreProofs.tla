--------------------------- MODULE KvStoreProofs ---------------------------
(***************************************************************************)
(* What the store guarantees under concurrent callers, for any number of   *)
(* threads, keys, buckets and locks and any set of calls.                  *)
(***************************************************************************)
EXTENDS KvStoreSteps

(* The invariant is inductive.                                             *)
LEMMA NextIInv == IInv /\ [Next]_vars => IInv'
BY StepShapes, WorksInv, LinkInv, AdminInv DEF Admin

(* At every step of every call a thread holds the mutexes its place in the *)
(* code says it holds; until undef, size is the number of entries.         *)
THEOREM Inductive == Spec => []IInv
BY InitIInv, NextIInv, PTL DEF Spec

(* Whatever calls run and whatever the limits, size counts the entries of  *)
(* the table until two threads have met in a chain or a node was pushed    *)
(* into a freed entry.                                                     *)
THEOREM SizeCountsUntilUndef == Spec => [](undef \/ SizeExact)
<1>1. IInv => (undef \/ SizeExact)
  BY DEF IInv, Counted, SizeExact
<1>. QED  BY <1>1, Inductive, PTL

(* Only a call on a key, holding the mutex of that key, changes or adds    *)
(* the key's entry (kv_set, kv_lpush, kv_sadd and the others).             *)
THEOREM KeysIsolated == Spec => KeyIsolation
<1>. DEFINE A == \A k \in Keys :
          Has(store', k) /\ (Has(store, k) => store'.buckets[k] # store.buckets[k]) =>
             \E t \in Threads : /\ Working(t) /\ pc'[t] # pc[t]
                                /\ op[t].cmd \notin Global /\ op[t].k = k
                                /\ lock[LockIndex(k)] = t
<1>1. IInv /\ [Next]_vars => [A]_vars
  <2>. SUFFICES ASSUME IInv, [Next]_vars, NEW k \in Keys, Has(store', k),
                       Has(store, k) => store'.buckets[k] # store.buckets[k]
                PROVE  \E t \in Threads : /\ Working(t) /\ pc'[t] # pc[t]
                                          /\ op[t].cmd \notin Global /\ op[t].k = k
                                          /\ lock[LockIndex(k)] = t
    OBVIOUS
  <2>1. ASSUME NEW t \in Threads, Works(t) \/ LinkEntry(t)
        PROVE  pc[t] \in Inside /\ op[t].cmd \notin Global /\ op[t].k = k /\ pc'[t] # pc[t]
    <3>1. CASE Works(t)
      <4>1. Has(store, k) /\ store'.buckets[k] # store.buckets[k]
        BY <3>1 DEF Works, Touches, Within, Has
      <4>2. pc[t] \in Inside /\ pc[t] # "idle"
        BY <3>1 DEF Works, Inside
      <4>3. CASE Finishes(t) /\ Touches(t, Own(t))
        <5>1. k \in Own(t)
          BY <4>1, <4>3 DEF Touches, Within, Has
        <5>2. pc'[t] = "idle"
          BY <4>3 DEF Finishes, IInv, LockInv
        <5>. QED  BY <4>2, <5>1, <5>2 DEF Own
      <4>4. ASSUME NEW p \in Inside, Moves(t, p),
                   Touches(t, IF p = pc[t] THEN {} ELSE Own(t))
            PROVE  pc[t] \in Inside /\ op[t].cmd \notin Global /\ op[t].k = k /\ pc'[t] # pc[t]
        <5>1. k \in Own(t) /\ p # pc[t]
          BY <4>1, <4>4 DEF Touches, Within, Has
        <5>2. pc'[t] = p
          BY <4>4 DEF Moves, IInv, LockInv
        <5>. QED  BY <4>2, <5>1, <5>2 DEF Own
      <4>. QED  BY <3>1, <4>3, <4>4 DEF Works
    <3>2. CASE LinkEntry(t)
      <4>1. k = op[t].k /\ pc'[t] # pc[t]
        BY <3>2, LinkInv DEF Has
      <4>2. pc[t] \in Inside /\ op[t].cmd \in Growing
        BY <3>2 DEF LinkEntry, IInv, LockInv, ThreadOK, Inside
      <4>. QED  BY <4>1, <4>2, OwnKey
    <3>. QED  BY <2>1, <3>1, <3>2
  <2>2. ASSUME NEW t \in Threads, pc[t] \in Inside, op[t].cmd \notin Global, op[t].k = k
        PROVE  lock[LockIndex(k)] = t
    BY <2>2, LockIndexType DEF IInv, LockInv, ThreadOK
  <2>3. ~(store'.buckets = store.buckets)
    BY DEF Has, Present
  <2>4. PICK t \in Threads : Works(t) \/ LinkEntry(t)
    BY <2>3, StepShapes, AdminInv DEF Admin, Calm
  <2>. QED  BY <2>1, <2>2, <2>4 DEF Working
<1>. QED  BY <1>1, Inductive, PTL DEF Spec, KeyIsolation

(* The relation between table and mutexes that the server's default (64    *)
(* buckets, 64 mutexes) and its doublings have: num_locks divides          *)
(* bucket_count.                                                           *)
LocksDivideBuckets ==
    /\ InitBuckets % NumLocks = 0
    /\ \A o \in Ops : o.cmd = "RESIZE" => o.n % NumLocks = 0

Aligned == LocksDivideBuckets => store.bucket_count % NumLocks = 0

(* Quotient and remainder, for hash_key's modulo.                          *)
LEMMA DivMod ==
    ASSUME NEW L \in Nat, L > 0, NEW x \in Nat
    PROVE  x \div L \in Nat /\ x % L \in Nat /\ x % L < L /\ x = (x \div L) * L + (x % L)
<1>1. (x \div L) * L + (x % L) = x
  OBVIOUS
<1>2. x \div L \in Nat /\ x % L \in 0 .. L - 1
  OBVIOUS
<1>. QED  BY <1>1, <1>2

(* A multiple of L smaller in size than L is 0.                            *)
LEMMA SmallMultiple ==
    ASSUME NEW L \in Nat, L > 0, NEW q \in Int, q * L < L, q * L > -L
    PROVE  q = 0
<1>1. q >= 1 => q * L >= L
  OBVIOUS
<1>2. q <= -1 => q * L <= -L
  OBVIOUS
<1>. QED  BY <1>1, <1>2

(* The remainder is the only one.                                          *)
LEMMA ModUnique ==
    ASSUME NEW L \in Nat, L > 0, NEW a \in Nat, NEW r \in Nat, r < L,
           NEW x \in Nat, x = a * L + r
    PROVE  x % L = r
<1>. DEFINE q == x \div L
            s == x % L
<1>1. q \in Nat /\ s \in Nat /\ s < L /\ x = q * L + s
  BY DivMod
<1>. HIDE DEF q, s
<1>2. (q - a) * L = r - s
  BY <1>1
<1>3. q - a \in Int /\ (q - a) * L < L /\ (q - a) * L > -L
  BY <1>1, <1>2
<1>4. q - a = 0
  BY <1>3, SmallMultiple
<1>5. r = s
  BY <1>1, <1>2, <1>4
<1>. QED  BY <1>5 DEF s

(* With L a divisor of B, the remainder by B decides the remainder by L.   *)
LEMMA ModOfMod ==
    ASSUME NEW L \in Nat, L > 0, NEW B \in Nat, B > 0, B % L = 0, NEW h \in Nat
    PROVE  h % L = (h % B) % L
<1>. DEFINE b == B \div L
            q == h \div B
            m == h % B
            c == m \div L
            r == m % L
<1>1. b \in Nat /\ B = b * L
  BY DivMod
<1>2. q \in Nat /\ m \in Nat /\ h = q * B + m
  BY DivMod
<1>. HIDE DEF m
<1>3. c \in Nat /\ r \in Nat /\ r < L /\ m = c * L + r
  BY <1>2, DivMod
<1>. HIDE DEF b, q, c, r
<1>4. q * B = (q * b) * L /\ q * b \in Nat
  BY <1>1, <1>2
<1>. DEFINE a == q * b + c
<1>5. a \in Nat /\ h = a * L + r
  BY <1>2, <1>3, <1>4
<1>. HIDE DEF a
<1>6. h % L = r
  BY <1>3, <1>5, ModUnique
<1>. QED  BY <1>6 DEF r, m

(* Doubling the table keeps num_locks a divisor.                           *)
LEMMA ModDouble ==
    ASSUME NEW L \in Nat, L > 0, NEW B \in Nat, B % L = 0
    PROVE  (B * 2) % L = 0
<1>. DEFINE b == B \div L
            a == b * 2
            x == B * 2
<1>1. b \in Nat /\ B = b * L
  BY DivMod
<1>. HIDE DEF b
<1>2. a \in Nat /\ x \in Nat /\ x = a * L + 0
  BY <1>1
<1>. HIDE DEF a, x
<1>3. x % L = 0
  BY <1>2, ModUnique
<1>. QED  BY <1>3 DEF x

(* bucket_count stays a multiple of num_locks.                             *)
LEMMA AlignedNext == IInv /\ Aligned /\ [Next]_vars => Aligned'
<1>. SUFFICES ASSUME IInv, Aligned, [Next]_vars, LocksDivideBuckets
              PROVE  store'.bucket_count % NumLocks = 0
  BY DEF Aligned, LocksDivideBuckets, NumLocks
<1>1. NumLocks \in Nat /\ NumLocks > 0 /\ store.bucket_count \in Nat
  BY LockIndexType DEF IInv, Sound
<1>2. store.bucket_count % NumLocks = 0
  BY DEF Aligned
<1>3. (store.bucket_count * 2) % NumLocks = 0
  BY <1>1, <1>2, ModDouble
<1>4. \/ store'.bucket_count = store.bucket_count
      \/ \E t \in Threads : Admin(t)
  BY StepShapes, LinkInv DEF Works, Touches, Within, SameLimits, Calm
<1>5. store'.bucket_count \in {store.bucket_count, store.bucket_count * 2}
                              \cup {o.n : o \in {x \in Ops : x.cmd = "RESIZE"}}
  BY <1>4, AdminInv DEF Admin
<1>. QED  BY <1>2, <1>3, <1>5 DEF LocksDivideBuckets

(* Different mutexes are then for different buckets.                       *)
LEMMA AlignedExclusive ==
    ASSUME LocksDivideBuckets, IInv, Aligned
    PROVE  BucketExclusive
<1>. SUFFICES ASSUME IInv, Aligned, NEW t \in Threads, NEW u \in Threads, t # u,
                     pc[t] \in Inside, pc[u] \in Inside
              PROVE  /\ held[t] = "bucket" /\ held[u] = "bucket"
                     /\ BucketOf(store, op[t].k) # BucketOf(store, op[u].k)
  BY DEF BucketExclusive, Working
<1>. DEFINE L == NumLocks
            B == store.bucket_count
            x == Hash[op[t].k]
            y == Hash[op[u].k]
<1>1. held[t] = "bucket" /\ held[u] = "bucket" /\ LockIndex(op[t].k) # LockIndex(op[u].k)
  BY ShardsDiffer DEF IInv
<1>2. op[t].k \in Keys /\ op[u].k \in Keys
  BY <1>1, Classes DEF IInv, LockInv, ThreadOK, Inside
<1>3. x \in Nat /\ y \in Nat
  BY <1>2, DataAssumption DEF DataAssumption
<1>4. L \in Nat /\ L > 0 /\ B \in Nat /\ B > 0 /\ B % L = 0
  BY LockIndexType DEF IInv, Sound, Aligned
<1>5. x % L # y % L
  BY <1>1 DEF LockIndex
<1>. HIDE DEF L, B, x, y
<1>6. x % B # y % B
  <2>1. x % L = (x % B) % L
    BY <1>3, <1>4, ModOfMod
  <2>2. y % L = (y % B) % L
    BY <1>3, <1>4, ModOfMod
  <2>. QED  BY <1>5, <2>1, <2>2, Zenon
<1>. QED  BY <1>1, <1>6 DEF BucketOf, B, x, y

(* kv.h, bucket_locks "protecting buckets and entries": where num_locks    *)
(* divides bucket_count, at the start and in every kv_resize, two threads  *)
(* past their locks never work on the same bucket.                         *)
THEOREM BucketsProtected ==
    ASSUME LocksDivideBuckets
    PROVE  Spec => []BucketExclusive
<1>1. Init => Aligned
  BY DEF Init, Aligned, LocksDivideBuckets
<1>2. IInv /\ Aligned => BucketExclusive
  BY AlignedExclusive
<1>. QED  BY <1>1, <1>2, AlignedNext, Inductive, PTL DEF Spec

(* No memory budget, at the start or by kv_set_memory_budget: then nothing *)
(* is evicted in a budget loop, and never under a single bucket lock.      *)
NoBudget ==
    /\ Budget = 0
    /\ \A o \in Ops : o.cmd = "CONFIG" /\ o.field = "max_memory_budget" => o.n = 0

(* No race so far, and the entry a thread holds a pointer to is there.     *)
RaceFree ==
    /\ store.max_memory_budget = 0
    /\ ~undef
    /\ \A t \in Threads : pc[t] \in Holding => Has(store, op[t].k)

(* A thread under its locks meets no other in the chain it changes.        *)
LEMMA NoRace ==
    ASSUME IInv, BucketExclusive, store.max_memory_budget = 0,
           NEW t \in Threads, pc[t] \in Inside
    PROVE  /\ ~Race(t)
           /\ \A u \in Threads \ {t} : pc[u] \in Inside => op[u].k \notin Loses(t)
<1>1. \A u \in Threads : ~Evicting(u)
  BY DEF Evicting, OverBudget
<1>2. ASSUME NEW u \in Threads \ {t}, pc[u] \in Inside
      PROVE  /\ held[t] = "bucket" /\ BucketOf(store, op[t].k) # BucketOf(store, op[u].k)
             /\ op[t].cmd \notin Global
  BY <1>2 DEF BucketExclusive, Working, IInv, LockInv, ThreadOK
<1>3. ASSUME NEW u \in Threads \ {t}, pc[u] \in Inside
      PROVE  Loses(t) = {op[t].k} /\ op[u].k \notin Loses(t)
  BY <1>1, <1>2, <1>3 DEF Loses, Own
<1>4. ASSUME NEW u \in Threads \ {t}, NEW k \in Loses(t), Walks(u, BucketOf(store, k))
      PROVE  FALSE
  <2>1. held[u] = "bucket" /\ BucketOf(store, op[u].k) = BucketOf(store, k)
    BY <1>1, <1>4 DEF Walks
  <2>2. pc[u] \in Inside
    BY <2>1 DEF IInv, LockInv, ThreadOK
  <2>. QED  BY <1>2, <1>3, <2>1, <2>2
<1>. QED  BY <1>3, <1>4 DEF Race

(* Nothing brings about a race.                                            *)
LEMMA RaceFreeNext ==
    ASSUME NoBudget, IInv, BucketExclusive, RaceFree, [Next]_vars
    PROVE  RaceFree'
<1>0. LockInv /\ store.max_memory_budget = 0 /\ ~undef
  BY DEF IInv, RaceFree
<1>1. ASSUME NEW t \in Threads, Works(t) PROVE RaceFree'
  <2>1. PICK C : Touches(t, C)
    BY <1>1 DEF Works
  <2>2. pc[t] \in Inside
    BY <1>1 DEF Works
  <2>3. ~undef'
    <3>1. ~Race(t)
      BY <1>0, <2>2, NoRace
    <3>2. pc[t] = "push" => Has(store, op[t].k)
      BY DEF RaceFree, Holding
    <3>. QED  BY <1>0, <2>1, <3>1, <3>2, Zenon DEF Touches
  <2>4. Present(store) \ Loses(t) \subseteq Present(store') /\ store'.max_memory_budget = 0
    BY <1>0, <2>1, <2>3 DEF Touches, Exact, Within, SameLimits
  <2>5. ASSUME NEW u \in Threads \ {t}, pc'[u] = pc[u], op'[u] = op[u], pc'[u] \in Holding
        PROVE  Has(store', op'[u].k)
    <3>1. pc[u] \in Inside /\ Has(store, op[u].k)
      BY <2>5 DEF Holding, Inside, RaceFree
    <3>2. op[u].k \notin Loses(t)
      BY <1>0, <2>2, <3>1, NoRace
    <3>. QED  BY <2>4, <2>5, <3>1, <3>2 DEF Has
  <2>6. CASE Finishes(t)
    <3>1. pc'[t] = "idle" /\ \A u \in Threads \ {t} : pc'[u] = pc[u] /\ op'[u] = op[u]
      BY <1>0, <2>6, StepPlaces
    <3>. QED  BY <2>3, <2>4, <2>5, <3>1 DEF RaceFree, Holding
  <2>7. CASE ~Finishes(t)
    <3>1. PICK p : Moves(t, p) /\ Arrives(t, p)
      BY <1>1, <2>7 DEF Works
    <3>2. pc'[t] = p /\ op' = op /\ \A u \in Threads \ {t} : pc'[u] = pc[u]
      BY <1>0, <3>1, StepPlaces
    <3>3. ~Evicting(t)
      BY <1>0 DEF Evicting, OverBudget
    <3>4. p \in Holding => Has(store', op[t].k)
      BY <2>3, <3>1, <3>3 DEF Arrives, RaceFree
    <3>. QED  BY <2>3, <2>4, <2>5, <3>2, <3>4 DEF RaceFree
  <2>. QED  BY <2>6, <2>7
<1>2. ASSUME NEW t \in Threads, LinkEntry(t) PROVE RaceFree'
  <2>1. /\ undef' \in BOOLEAN /\ SameLimits(store, store')
        /\ ~undef' => Present(store') = Present(store) \cup {op[t].k}
        /\ undef' => undef \/ Race(t)
        /\ pc[t] = "link" /\ op' = op /\ \A u \in Threads \ {t} : pc'[u] = pc[u]
    BY <1>2, LinkInv DEF IInv
  <2>2. ~undef'
    BY <1>0, <2>1, NoRace DEF Inside
  <2>. QED  BY <1>0, <2>1, <2>2 DEF RaceFree, SameLimits, Has
<1>3. ASSUME NEW t \in Threads, Admin(t) PROVE RaceFree'
  <2>1. /\ Still /\ undef' = undef /\ store'.buckets = store.buckets
        /\ \/ store'.max_memory_budget = store.max_memory_budget
           \/ \E o \in Ops : /\ o.cmd = "CONFIG" /\ o.field = "max_memory_budget"
                             /\ store'.max_memory_budget = o.n
    BY <1>3, AdminInv DEF Admin
  <2>2. store'.max_memory_budget = 0
    BY <1>0, <2>1 DEF NoBudget
  <2>3. \A u \in Threads : pc'[u] \in Holding => pc'[u] = pc[u] /\ op'[u] = op[u]
    BY <2>1 DEF Still, Holding, Inside
  <2>. QED  BY <1>0, <2>1, <2>2, <2>3 DEF RaceFree, Has, Present
<1>4. CASE Calm
  <2>1. \A u \in Threads : pc'[u] \in Holding => pc'[u] = pc[u] /\ op'[u] = op[u]
    BY <1>4 DEF Calm, Still, Holding, Inside
  <2>. QED  BY <1>0, <1>4, <2>1 DEF RaceFree, Calm
<1>. QED  BY <1>1, <1>2, <1>3, <1>4, StepShapes

(* With a mutex for every bucket and no memory budget no two threads are   *)
(* ever in one chain, and no node is pushed into a freed entry: lookups,   *)
(* lazy expiry, sweeps, kv_evict_lru, resizes and the capacity test        *)
(* together never reach undefined behaviour.                               *)
THEOREM NoDataRace ==
    ASSUME LocksDivideBuckets, NoBudget
    PROVE  Spec => []~undef
<1>1. Init => Aligned
  BY DEF Init, Aligned, LocksDivideBuckets
<1>2. Init => RaceFree
  BY DEF Init, RaceFree, NoBudget, Holding
<1>3. IInv /\ Aligned => BucketExclusive
  BY AlignedExclusive
<1>4. IInv /\ BucketExclusive /\ RaceFree /\ [Next]_vars => RaceFree'
  BY RaceFreeNext
<1>5. RaceFree => ~undef
  BY DEF RaceFree
<1>. QED  BY <1>1, <1>2, <1>3, <1>4, <1>5, AlignedNext, Inductive, PTL DEF Spec

(* kv.h, size: "Current count of active key-value entries".  Under the     *)
(* same conditions it is that count in every state, whatever calls race.   *)
THEOREM SizeCounts ==
    ASSUME LocksDivideBuckets, NoBudget
    PROVE  Spec => []SizeExact
<1>1. Spec => []~undef
  BY NoDataRace
<1>. QED  BY <1>1, SizeCountsUntilUndef, PTL

(* The threads past the capacity test with their entry not yet linked.     *)
Inserting == {t \in Threads : pc[t] \in {"evict", "link"}}

(* Each of them will add one entry, and the last one to pass the test saw  *)
(* size below the limit.                                                   *)
CapacityInv ==
    /\ store.max_capacity \in Nat
    /\ store.max_capacity > 0 /\ Inserting # {} =>
          store.size + Cardinality(Inserting) <= store.max_capacity + Cardinality(Threads) - 1

(* The threads that insert are finitely many.                              *)
LEMMA InsertingFinite ==
    /\ Cardinality(Threads) \in Nat
    /\ \A S \in SUBSET Threads : /\ IsFiniteSet(S) /\ Cardinality(S) \in Nat
                                  /\ Cardinality(S) <= Cardinality(Threads)
BY StoreAssumption, FS_Subset, FS_CardinalityType DEF StoreAssumption

(* Fewer insertions under way, and no more entries.                        *)
LEMMA CapacityShrinks ==
    ASSUME IInv, CapacityInv, Inserting' \subseteq Inserting,
           store'.max_capacity = store.max_capacity,
           store'.size \in Nat, store'.size <= store.size
    PROVE  CapacityInv'
<1>1. Inserting \in SUBSET Threads /\ Inserting' \in SUBSET Threads
  BY DEF Inserting
<1>2. /\ IsFiniteSet(Inserting) /\ Cardinality(Inserting) \in Nat
      /\ Cardinality(Inserting') \in Nat /\ Cardinality(Threads) \in Nat
  BY <1>1, InsertingFinite
<1>3. Cardinality(Inserting') <= Cardinality(Inserting)
  BY <1>2, FS_Subset
<1>4. store.size \in Nat
  BY DEF IInv, Sound
<1>. QED  BY <1>2, <1>3, <1>4 DEF CapacityInv

(* Every step keeps that account.                                          *)
LEMMA CapacityNext ==
    ASSUME IInv, CapacityInv, [Next]_vars
    PROVE  CapacityInv'
<1>0. LockInv /\ store.size \in Nat /\ store.max_capacity \in Nat
  BY DEF IInv, Sound, CapacityInv
<1>. DEFINE I == Inserting
            J == Inserting'
<1>1. ASSUME NEW t \in Threads, Works(t) PROVE CapacityInv'
  <2>1. /\ store'.max_capacity = store.max_capacity
        /\ store'.size \in Nat /\ store'.size <= store.size
    BY <1>1 DEF Works, Touches, Within, SameLimits
  <2>2. CASE Finishes(t)
    <3>1. pc'[t] = "idle" /\ \A u \in Threads \ {t} : pc'[u] = pc[u]
      BY <1>0, <2>2, StepPlaces
    <3>2. J \subseteq I
      BY <3>1 DEF Inserting
    <3>. QED  BY <2>1, <3>2, CapacityShrinks
  <2>3. CASE ~Finishes(t)
    <3>1. PICK p : Moves(t, p) /\ Arrives(t, p)
      BY <1>1, <2>3 DEF Works
    <3>2. pc'[t] = p /\ \A u \in Threads \ {t} : pc'[u] = pc[u]
      BY <1>0, <3>1, StepPlaces
    <3>3. CASE p \in {"evict", "link"} => pc[t] \in {"evict", "link"}
      <4>1. J \subseteq I
        BY <3>2, <3>3 DEF Inserting
      <4>. QED  BY <2>1, <4>1, CapacityShrinks
    <3>4. CASE ~AtCapacity(store')
      <4>1. J \in SUBSET Threads
        BY DEF Inserting
      <4>2. /\ Cardinality(J) \in Nat /\ Cardinality(Threads) \in Nat
            /\ Cardinality(J) <= Cardinality(Threads)
        BY <4>1, InsertingFinite
      <4>3. store'.max_capacity > 0 => store'.size < store'.max_capacity
        BY <1>0, <2>1, <3>4 DEF AtCapacity
      <4>. HIDE DEF J
      <4>4. store'.max_capacity > 0 =>
               store'.size + Cardinality(J) <= store'.max_capacity + Cardinality(Threads) - 1
        BY <1>0, <2>1, <4>2, <4>3
      <4>. QED  BY <1>0, <2>1, <4>4 DEF CapacityInv, J
    <3>. QED  BY <3>1, <3>3, <3>4 DEF Arrives
  <2>. QED  BY <2>2, <2>3
<1>2. ASSUME NEW t \in Threads, LinkEntry(t) PROVE CapacityInv'
  <2>1. /\ SameLimits(store, store') /\ store'.size = store.size + 1
        /\ pc[t] = "link" /\ pc'[t] \in {"peak1", "peak2"}
        /\ \A u \in Threads \ {t} : pc'[u] = pc[u]
    BY <1>2, LinkInv
  <2>2. t \in I /\ J = I \ {t} /\ I \in SUBSET Threads
    BY <2>1 DEF Inserting
  <2>3. IsFiniteSet(I) /\ Cardinality(I) \in Nat /\ Cardinality(Threads) \in Nat
    BY <2>2, InsertingFinite
  <2>. HIDE DEF I, J
  <2>4. Cardinality(J) = Cardinality(I) - 1
    BY <2>2, <2>3, FS_RemoveElement
  <2>5. store.max_capacity > 0 =>
           store.size + Cardinality(I) <= store.max_capacity + Cardinality(Threads) - 1
    BY <2>2 DEF CapacityInv, I
  <2>6. store.max_capacity > 0 =>
           store'.size + Cardinality(J) <= store.max_capacity + Cardinality(Threads) - 1
    BY <1>0, <2>1, <2>3, <2>4, <2>5
  <2>. QED  BY <1>0, <2>1, <2>6 DEF CapacityInv, SameLimits, J
<1>3. ASSUME Still PROVE J \subseteq I
  <2>1. \A u \in Threads : pc'[u] \in {"evict", "link"} => pc'[u] = pc[u]
    BY <1>3 DEF Still, Inside
  <2>. QED  BY <2>1 DEF Inserting
<1>4. ASSUME NEW t \in Threads, Admin(t) PROVE CapacityInv'
  <2>1. /\ Still /\ store'.size = store.size
        /\ \/ store'.max_capacity = store.max_capacity
           \/ store'.max_capacity \in Nat /\ \A u \in Threads : pc'[u] \notin Inside
    BY <1>4, AdminInv DEF Admin
  <2>2. CASE store'.max_capacity = store.max_capacity
    BY <1>0, <1>3, <2>1, <2>2, CapacityShrinks
  <2>3. CASE store'.max_capacity \in Nat /\ \A u \in Threads : pc'[u] \notin Inside
    <3>1. J = {}
      BY <2>3 DEF Inserting, Inside
    <3>. QED  BY <2>3, <3>1 DEF CapacityInv
  <2>. QED  BY <2>1, <2>2, <2>3
<1>5. CASE Calm
  BY <1>0, <1>3, <1>5, CapacityShrinks DEF Calm
<1>. QED  BY <1>1, <1>2, <1>4, <1>5, StepShapes

(* kv.h, max_capacity: the capacity test of kv_set_internal is not atomic  *)
(* with the insertion, yet no insertion takes size past the limit by as    *)
(* much as the number of threads, whatever the locks and the budget.       *)
THEOREM CapacityHeld == Spec => CapacityBounded
<1>. DEFINE A == store'.size > store.size /\ store.max_capacity > 0 /\ ~undef'
                    => store'.size <= store.max_capacity + Cardinality(Threads) - 1
<1>1. Init => CapacityInv
  <2>. SUFFICES ASSUME Init PROVE CapacityInv
    OBVIOUS
  <2>1. store.max_capacity \in Nat
    BY StoreAssumption DEF Init, StoreAssumption
  <2>2. \A t \in Threads : pc[t] = "idle"
    BY DEF Init
  <2>3. Inserting = {}
    BY <2>2 DEF Inserting
  <2>. QED  BY <2>1, <2>3, Zenon DEF CapacityInv
<1>2. IInv /\ CapacityInv /\ [Next]_vars => CapacityInv'
  BY CapacityNext
<1>3. IInv /\ CapacityInv /\ [Next]_vars => [A]_vars
  <2>. SUFFICES ASSUME IInv, CapacityInv, [Next]_vars,
                       store'.size > store.size, store.max_capacity > 0
                PROVE  store'.size <= store.max_capacity + Cardinality(Threads) - 1
    OBVIOUS
  <2>1. store.size \in Nat /\ store.max_capacity \in Nat
    BY DEF IInv, Sound, CapacityInv
  <2>2. ASSUME NEW t \in Threads, Works(t) PROVE FALSE
    <3>1. store'.size \in Nat /\ store'.size <= store.size
      BY <2>2 DEF Works, Touches, Within
    <3>. QED  BY <2>1, <3>1
  <2>3. store'.size # store.size
    BY <2>1
  <2>4. ~Calm /\ \A t \in Threads : ~Admin(t)
    BY <2>3, AdminInv, Zenon DEF Admin, Calm
  <2>5. PICK t \in Threads : LinkEntry(t)
    BY <2>2, <2>4, StepShapes
  <2>6. pc[t] = "link" /\ store'.size = store.size + 1
    BY <2>5, LinkInv
  <2>7. t \in Inserting /\ Inserting \in SUBSET Threads
    BY <2>6 DEF Inserting
  <2>8. /\ IsFiniteSet(Inserting) /\ Cardinality(Inserting) \in Nat
        /\ Cardinality(Threads) \in Nat
    BY <2>7, InsertingFinite
  <2>9. Cardinality(Inserting) # 0
    BY <2>7, <2>8, FS_EmptySet
  <2>10. store.size + Cardinality(Inserting) <= store.max_capacity + Cardinality(Threads) - 1
    BY <2>7 DEF CapacityInv
  <2>. QED  BY <2>1, <2>6, <2>8, <2>9, <2>10
<1>. QED  BY <1>1, <1>2, <1>3, Inductive, PTL DEF Spec, CapacityBounded
=============================================================================
