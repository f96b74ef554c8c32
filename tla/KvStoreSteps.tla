--------------------------- MODULE KvStoreSteps ----------------------------
(***************************************************************************)
(* Every step of KvStore has one of the shapes of KvStoreLocks, links one  *)
(* entry, or changes the size or the limits of the table.                  *)
(***************************************************************************)
EXTENDS KvStoreLocks

(* The key of a call that is not on the whole table.                       *)
LEMMA OwnKey ==
    ASSUME IInv, NEW t \in Threads, pc[t] \in Inside,
           op[t].cmd \in Growing \cup Reads \cup Writes
    PROVE  /\ op[t].cmd \notin Global /\ Own(t) = {op[t].k}
           /\ op[t].k \in Keys /\ op[t].k \in Loses(t)
BY Classes DEF IInv, LockInv, ThreadOK, Inside, Own, Loses

(* "New entry insertion" of kv_set_internal, kv_lpush and kv_sadd.         *)
LEMMA InsertNewWorks ==
    ASSUME IInv, NEW t \in Threads, pc[t] \in {"body", "replace"}, op[t].cmd \in Growing,
           NEW s, ~Has(s, op[t].k), Effect(store, s, Own(t), Loses(t)), InsertNew(t, s)
    PROVE  Works(t)
<1>1. CASE AtCapacity(s) /\ Return(t, s, "CAPACITY_FULL")
  BY <1>1, ReturnWorks DEF Inside
<1>2. CASE ~AtCapacity(s) /\ Goto(t, "evict", s)
  BY <1>2, GotoWorks DEF Inside, Holding
<1>. QED  BY <1>1, <1>2 DEF InsertNew

(* kv_set_internal: the lookup and the overwrite.                          *)
LEMMA SetWorks ==
    ASSUME IInv, NEW t \in Threads, SetFind(t) \/ SetReplace(t)
    PROVE  Works(t)
<1>0. pc[t] \in {"body", "replace"} /\ pc[t] \in Inside /\ op[t].cmd \in Growing
  BY DEF SetFind, SetReplace, IInv, LockInv, ThreadOK, Inside, Growing
<1>1. Own(t) = {op[t].k} /\ Effect(store, store, Own(t), Loses(t)) /\ op[t].k \in Loses(t)
  BY <1>0, OwnKey, NoEffect DEF IInv
<1>2. CASE SetFind(t)
  <2>1. CASE ~Has(store, op[t].k) /\ InsertNew(t, store)
    BY <1>0, <1>1, <2>1, InsertNewWorks
  <2>2. CASE Return(t, store, "WRONG_TYPE")
    BY <1>0, <1>1, <2>2, ReturnWorks
  <2>3. CASE pc[t] = "body" /\ (Goto(t, "delta", store) \/ Goto(t, "replace", store))
    BY <1>0, <1>1, <2>3, GotoWorks DEF Inside, Holding
  <2>. QED  BY <1>2, <2>1, <2>2, <2>3 DEF SetFind
<1>3. CASE SetReplace(t)
  <2>. DEFINE s == Replace(store, op[t].k, op[t].v)
  <2>0. Effect(store, s, Own(t), Loses(t))
    BY <1>1, ReplaceEffect DEF IInv
  <2>. HIDE DEF s
  <2>1. CASE ~Has(store, op[t].k) /\ InsertNew(t, store)
    BY <1>0, <1>1, <2>1, InsertNewWorks
  <2>2. CASE Return(t, s, "OK")
    BY <1>0, <2>0, <2>2, ReturnWorks
  <2>3. CASE Return(t, store, "INTERNAL")
    BY <1>0, <1>1, <2>3, ReturnWorks
  <2>4. CASE pc[t] = "replace" /\ Goto(t, "peak2", s)
    BY <1>0, <2>0, <2>4, GotoWorks DEF Inside, Holding
  <2>. QED  BY <1>3, <2>1, <2>2, <2>3, <2>4 DEF SetReplace, s
<1>. QED  BY <1>2, <1>3

(* kv_lpush and kv_sadd: the lookup.                                       *)
LEMMA PushFindWorks ==
    ASSUME IInv, NEW t \in Threads, PushFind(t)
    PROVE  Works(t)
<1>. DEFINE s == Find(store, op[t].k, now)
            r == Touch(s, op[t].k)
<1>0. pc[t] = "body" /\ pc[t] \in Inside /\ op[t].cmd \in Growing
  BY DEF PushFind, Inside, Growing
<1>1. Own(t) = {op[t].k} /\ op[t].k \in Loses(t)
  BY <1>0, OwnKey
<1>2. Effect(store, s, Own(t), Loses(t)) /\ Sound(s)
  BY <1>1, FindEffect, WithinSound DEF IInv, Effect
<1>3. Effect(store, r, Own(t), Loses(t))
  <2>. HIDE DEF s
  <2>. QED  BY <1>1, <1>2, TouchEffect, EffectTrans DEF IInv, Sound
<1>8. Has(s, op[t].k) => Has(r, op[t].k)
  <2>. HIDE DEF s
  <2>. QED  BY <1>2, TouchEffect DEF Has
<1>. HIDE DEF s, r
<1>4. CASE ~Has(s, op[t].k) /\ InsertNew(t, s)
  BY <1>0, <1>2, <1>4, InsertNewWorks
<1>5. CASE Return(t, s, "WRONG_TYPE")
  BY <1>0, <1>2, <1>5, ReturnWorks
<1>6. CASE Return(t, r, "DUPLICATE")
  BY <1>0, <1>3, <1>6, ReturnWorks
<1>7. CASE Goto(t, "node", r) /\ Has(r, op[t].k)
  BY <1>0, <1>3, <1>7, GotoWorks DEF Inside, Holding
<1>. QED  BY <1>4, <1>5, <1>6, <1>7, <1>8 DEF PushFind, s, r

(* The budget loops, a failed allocation, and the peak: no key changes     *)
(* other than by eviction.                                                 *)
LEMMA LoopWorks ==
    ASSUME IInv, NEW t \in Threads,
           EvictOne(t) \/ OutOfBudget(t) \/ WithinBudget(t) \/ AllocFails(t)
    PROVE  Works(t)
<1>0. /\ pc[t] \in {"delta", "evict", "node", "link", "push"} /\ pc[t] \in Inside
      /\ op[t].cmd \in Growing
      /\ pc[t] \in {"evict", "link"} /\ ~undef => ~Has(store, op[t].k)
  BY DEF EvictOne, Evicting, OutOfBudget, WithinBudget, AllocFails, IInv, LockInv, ThreadOK,
         Inside, Absent
<1>1. Sound(store) /\ \A C : Effect(store, store, C, Loses(t))
  BY NoEffect DEF IInv
<1>5. \A p, s : Goto(t, p, s) => (undef => undef')
  BY Zenon DEF Goto, Change, IInv
<1>2. CASE EvictOne(t)
  <2>1. PICK k \in Victims(store) : Goto(t, pc[t], Delete(store, k))
    BY <1>2 DEF EvictOne
  <2>2. k \in Present(store) /\ k \in Loses(t) /\ Evicting(t)
    BY <1>1, <1>2 DEF Victims, Loses, EvictOne, Sound
  <2>. DEFINE s == Delete(store, k)
  <2>3. Effect(store, s, {}, Loses(t))
    BY <1>1, <2>2, DeleteEffect
  <2>4. Goto(t, pc[t], s)
    BY <2>1
  <2>5. pc[t] \in {"evict", "link"} /\ ~undef' => ~Has(s, op[t].k)
    BY <1>0, <1>5, <2>3, <2>4 DEF Effect, Within, Has
  <2>6. pc[t] \in Inside \ {"grow", "body"}
    BY <1>0
  <2>. HIDE DEF s
  <2>. QED  BY <1>0, <2>2, <2>3, <2>4, <2>5, <2>6, GotoWorks
<1>3. CASE OutOfBudget(t) \/ AllocFails(t)
  BY <1>0, <1>1, <1>3, ReturnWorks DEF OutOfBudget, AllocFails
<1>4. CASE WithinBudget(t)
  <2>1. \/ pc[t] = "delta" /\ Goto(t, "replace", store)
        \/ pc[t] = "evict" /\ Goto(t, "link", store)
        \/ pc[t] = "node" /\ Goto(t, "push", store)
    BY <1>4 DEF WithinBudget, AfterLoop
  <2>2. CASE pc[t] = "delta" /\ Goto(t, "replace", store)
    BY <1>0, <1>1, <2>2, GotoWorks DEF Inside, Holding
  <2>3. CASE pc[t] = "evict" /\ Goto(t, "link", store)
    BY <1>0, <1>1, <1>5, <2>3, GotoWorks DEF Inside, Holding
  <2>4. CASE pc[t] = "node" /\ Goto(t, "push", store)
    BY <1>0, <1>1, <2>4, GotoWorks DEF Inside, Holding
  <2>. QED  BY <2>1, <2>2, <2>3, <2>4
<1>. QED  BY <1>2, <1>3, <1>4

(* The node of kv_lpush and kv_sadd goes into the call's own entry.        *)
LEMMA PushedEffect ==
    ASSUME NEW s, Sound(s), NEW o, NEW D
    PROVE  Effect(s, Pushed(s, o), {o.k}, D)
<1>. DEFINE n == s.allocated_bytes + NodeNeed(o)
            paid == [s EXCEPT !.allocated_bytes = n]
            x == <<o.v>> \o paid.buckets[o.k].value
            y == paid.buckets[o.k].value \cup {o.v}
<1>1. Effect(s, paid, {o.k}, D) /\ Sound(paid)
  <2>. HIDE DEF n
  <2>1. Effect(s, paid, {o.k}, D)
    BY CounterEffect
  <2>. HIDE DEF paid
  <2>. QED  BY <2>1, WithinSound DEF Effect
<1>2. Pushed(s, o) \in {paid, [paid EXCEPT !.buckets[o.k].value = x],
                              [paid EXCEPT !.buckets[o.k].value = y]}
  BY DEF Pushed
<1>. HIDE DEF paid, x, y
<1>3. /\ Effect(paid, [paid EXCEPT !.buckets[o.k].value = x], {o.k}, D)
      /\ Effect(paid, [paid EXCEPT !.buckets[o.k].value = y], {o.k}, D)
  BY <1>1, EntryEffect
<1>. QED  BY <1>1, <1>2, <1>3, EffectTrans DEF Sound

(* The last steps of the growing operations.                               *)
LEMMA PushPeakWorks ==
    ASSUME IInv, NEW t \in Threads, PushNode(t) \/ PeakLoad(t) \/ PeakStore(t)
    PROVE  Works(t)
<1>0. pc[t] \in {"push", "peak1", "peak2", "store1", "store2"} /\ pc[t] \in Inside
  BY DEF PushNode, PeakLoad, PeakStore, Inside
<1>1. op[t].cmd \in Growing
  BY <1>0 DEF IInv, LockInv, ThreadOK, Inside
<1>2. Own(t) = {op[t].k} /\ Effect(store, store, Own(t), Loses(t)) /\ Sound(store)
  BY <1>0, <1>1, OwnKey, NoEffect DEF IInv
<1>3. CASE PushNode(t)
  <2>1. Effect(store, Pushed(store, op[t]), Own(t), Loses(t))
    BY <1>2, PushedEffect
  <2>2. /\ pc[t] = "push" /\ Moves(t, "peak2") /\ store' = Pushed(store, op[t])
        /\ undef' = (undef \/ ~Has(store, op[t].k)) /\ undef \in BOOLEAN
    BY <1>3 DEF PushNode, Moves, IInv
  <2>3. /\ undef' \in BOOLEAN /\ (~undef' => ~undef)
        /\ undef' => undef \/ ~Has(store, op[t].k)
    BY <2>2, Zenon DEF Has
  <2>4. Touches(t, Own(t))
    BY <2>1, <2>2, <2>3, Zenon DEF Touches, Effect
  <2>5. Arrives(t, "peak2")
    BY DEF Arrives, Holding
  <2>. QED  BY <1>0, <1>1, <2>2, <2>4, <2>5 DEF Works, Inside
<1>4. CASE PeakLoad(t)
  <2>1. \/ pc[t] = "peak1" /\ (Goto(t, "store1", store) \/ Goto(t, "node", store))
        \/ pc[t] = "peak2" /\ Goto(t, "store2", store)
        \/ Return(t, store, "OK")
    BY <1>4 DEF PeakLoad
  <2>2. CASE pc[t] = "peak1" /\ (Goto(t, "store1", store) \/ Goto(t, "node", store))
    BY <1>0, <1>1, <1>2, <2>2, GotoWorks DEF Inside, Holding
  <2>3. CASE pc[t] = "peak2" /\ Goto(t, "store2", store)
    BY <1>0, <1>1, <1>2, <2>3, GotoWorks DEF Inside, Holding
  <2>4. CASE Return(t, store, "OK")
    BY <1>0, <1>2, <2>4, ReturnWorks
  <2>. QED  BY <2>1, <2>2, <2>3, <2>4
<1>5. CASE PeakStore(t)
  <2>. DEFINE s == [store EXCEPT !.peak_allocated_bytes = tmp[t]]
  <2>1. Effect(store, s, Own(t), Loses(t))
    BY <1>2, CounterEffect
  <2>2. (pc[t] = "store1" /\ Goto(t, "node", s)) \/ Return(t, s, "OK")
    BY <1>5 DEF PeakStore
  <2>3. Present(s) = Present(store)
    BY <1>2 DEF Present, Sound, IsStore
  <2>. HIDE DEF s
  <2>4. CASE pc[t] = "store1" /\ Goto(t, "node", s)
    BY <1>0, <1>1, <2>1, <2>3, <2>4, GotoWorks DEF Inside, Holding, Has
  <2>5. CASE Return(t, s, "OK")
    BY <1>0, <2>1, <2>5, ReturnWorks
  <2>. QED  BY <2>2, <2>4, <2>5
<1>. QED  BY <1>3, <1>4, <1>5

(* The operations that are one step under the bucket lock.                 *)
LEMMA KeyOpWorks ==
    ASSUME IInv, NEW t \in Threads,
           Read(t) \/ DeleteKey(t) \/ SetExpiry(t) \/ Rpop(t) \/ Srem(t)
    PROVE  Works(t)
<1>. DEFINE k == op[t].k
            s == Find(store, k, now)
<1>0. pc[t] \in Inside /\ op[t].cmd \in Reads \cup Writes
  BY DEF Read, DeleteKey, SetExpiry, Rpop, Srem, In, Inside, Reads, Writes
<1>1. Own(t) = {k} /\ Sound(store) /\ k \in Loses(t)
  BY <1>0, OwnKey DEF IInv
<1>2. Effect(store, s, Own(t), Loses(t)) /\ Sound(s)
  BY <1>1, FindEffect, WithinSound DEF Effect
<1>. HIDE DEF k, s
<1>3. CASE Read(t)
  <2>1. Effect(store, Touch(s, k), Own(t), Loses(t))
    BY <1>1, <1>2, TouchEffect, EffectTrans DEF Sound
  <2>2. \E r : Return(t, s, r) \/ Return(t, Touch(s, k), r)
    BY <1>3 DEF Read, s, k
  <2>. QED  BY <1>0, <1>2, <2>1, <2>2, ReturnWorks
<1>4. CASE DeleteKey(t)
  <2>1. Effect(store, store, Own(t), Loses(t)) /\ (Has(store, k) => Effect(store, Delete(store, k), Own(t), Loses(t)))
    BY <1>1, NoEffect, DeleteEffect DEF Has
  <2>. QED  BY <1>0, <1>4, <2>1, ReturnWorks DEF DeleteKey, k
<1>5. CASE SetExpiry(t)
  <2>. DEFINE at == IF op[t].cmd = "PERSIST" THEN 0 ELSE op[t].at
              q == [s EXCEPT !.buckets[k].expire_at_ms = at]
  <2>1. Effect(store, q, Own(t), Loses(t))
    <3>. HIDE DEF at
    <3>1. Effect(s, q, {k}, Loses(t))
      BY <1>2, EntryEffect
    <3>. HIDE DEF q
    <3>. QED  BY <1>1, <1>2, <3>1, EffectTrans DEF Sound
  <2>2. \E r : Return(t, s, r) \/ Return(t, q, r)
    BY <1>5 DEF SetExpiry, s, k
  <2>. HIDE DEF q
  <2>. QED  BY <1>0, <1>2, <2>1, <2>2, ReturnWorks
<1>6. ASSUME Has(s, k), NEW value, NEW v, NEW last \in BOOLEAN
      PROVE  Effect(store, Shrink(s, k, value, v, last), Own(t), Loses(t))
  BY <1>1, <1>2, <1>6, ShrinkEffect, EffectTrans DEF Has, Sound
<1>7. CASE Rpop(t)
  <2>1. \/ \E r : Return(t, s, r)
        \/ /\ Has(s, k)
           /\ \E value, v, r : \E last \in BOOLEAN : Return(t, Shrink(s, k, value, v, last), r)
    BY <1>7 DEF Rpop, s, k
  <2>. QED  BY <1>0, <1>2, <1>6, <2>1, ReturnWorks
<1>8. CASE Srem(t)
  <2>1. \/ \E r : Return(t, s, r)
        \/ /\ Has(s, k)
           /\ \E value, v, r : \E last \in BOOLEAN : Return(t, Shrink(s, k, value, v, last), r)
    BY <1>8 DEF Srem, s, k
  <2>. QED  BY <1>0, <1>2, <1>6, <2>1, ReturnWorks
<1>. QED  BY <1>3, <1>4, <1>5, <1>7, <1>8

(* The sweep and kv_evict_lru, under all locks.                            *)
LEMMA TableOpWorks ==
    ASSUME IInv, NEW t \in Threads, Sweep(t) \/ EvictLru(t)
    PROVE  Works(t)
<1>0. /\ pc[t] \in Inside /\ op[t].cmd \in Global
      /\ Sound(store) /\ Effect(store, store, Own(t), Loses(t))
  BY NoEffect DEF Sweep, EvictLru, In, Inside, IInv, Global
<1>1. Present(store) \subseteq Loses(t)
  BY <1>0 DEF IInv, LockInv, ThreadOK, Loses, Sound
<1>2. CASE Sweep(t)
  <2>1. PICK D \in SUBSET Present(store) : Return(t, DeleteAll(store, D), "OK")
    BY <1>2 DEF Sweep
  <2>2. Effect(store, DeleteAll(store, D), Own(t), Loses(t))
    BY <1>0, <1>1, DeleteAllEffect
  <2>. QED  BY <1>0, <2>1, <2>2, ReturnWorks
<1>3. CASE EvictLru(t)
  <2>1. \/ \E r : Return(t, store, r)
        \/ \E k \in Present(store) : Return(t, Delete(store, k), "OK")
    BY <1>3 DEF EvictLru, Victims
  <2>2. \A k \in Present(store) : Effect(store, Delete(store, k), Own(t), Loses(t))
    BY <1>0, <1>1, DeleteEffect
  <2>. QED  BY <1>0, <2>1, <2>2, ReturnWorks
<1>. QED  BY <1>2, <1>3

(* A change that links and unlinks nothing disturbs no other thread.       *)
LEMMA QuietChange ==
    ASSUME undef \in BOOLEAN, NEW t, NEW s, s.buckets = store.buckets, Change(t, s)
    PROVE  store' = s /\ undef' = undef
<1>1. Disturbed(t, s) = {}
  BY DEF Disturbed, Present
<1>. QED  BY <1>1, Zenon DEF Change

(* Linking the new entry: its key is the only one added, and size goes up  *)
(* by one.  No other thread is about to link the same key, since that      *)
(* would be under the same mutex.                                          *)
LEMMA LinkInv ==
    ASSUME IInv, NEW t \in Threads, LinkEntry(t)
    PROVE  /\ IInv' /\ SameLimits(store, store') /\ store'.size = store.size + 1
           /\ Present(store') \subseteq Present(store) \cup {op[t].k}
           /\ \A j \in Present(store') \ {op[t].k} : store'.buckets[j] = store.buckets[j]
           /\ ~undef' => Present(store') = Present(store) \cup {op[t].k}
           /\ undef' => undef \/ Race(t)
           /\ pc[t] = "link" /\ pc'[t] \in {"peak1", "peak2"} /\ op' = op
           /\ \A u \in Threads \ {t} : pc'[u] = pc[u]
<1>. DEFINE k == op[t].k
<1>0. /\ pc[t] = "link" /\ pc[t] \in Inside /\ op[t].cmd \in Growing
      /\ LockInv /\ Sound(store) /\ undef \in BOOLEAN
      /\ ~undef => Counted(store) /\ Absent /\ ~Has(store, k)
  BY DEF LinkEntry, IInv, LockInv, ThreadOK, Inside, Absent
<1>1. k \in Keys /\ k \in Loses(t)
  BY <1>0, OwnKey
<1>2. PICK type, value, bytes : Change(t, Link(store, k, type, value, bytes))
  BY DEF LinkEntry, Goto
<1>. DEFINE r == Link(store, k, type, value, bytes)
            B == Disturbed(t, r)
<1>3. /\ Sound(r) /\ SameLimits(store, r) /\ r.size = store.size + 1
      /\ Present(r) = Present(store) \cup {k}
      /\ \A j \in Present(store) \ {k} : r.buckets[j] = store.buckets[j]
      /\ ~Has(store, k) /\ Counted(store) => Counted(r)
  BY <1>0, <1>1, LinkEffect
<1>. HIDE DEF r
<1>4. /\ undef' = (undef \/ B # {})
      /\ B = {} => store' = r
      /\ B # {} => store' \in Torn(store, r, B)
  BY <1>2 DEF Change, r
<1>5. B # {} => Race(t)
  BY <1>1, <1>3 DEF Disturbed, Race
<1>. HIDE DEF B
<1>6. /\ undef' \in BOOLEAN
      /\ ~undef' => ~undef /\ store' = r
      /\ undef' => undef \/ Race(t)
  BY <1>0, <1>4, <1>5, Zenon
<1>7. ASSUME B # {}
      PROVE  /\ IsStore(store') /\ SameLimits(r, store') /\ store'.size = r.size
             /\ Present(store') \subseteq Present(store) \cup Present(r)
             /\ \A j \in Present(store') :
                  store'.buckets[j] = IF Has(r, j) THEN r.buckets[j] ELSE store.buckets[j]
  <2>1. IsStore(r) /\ store' \in Torn(store, r, B)
    BY <1>3, <1>4, <1>7 DEF Sound
  <2>. QED  BY <2>1, TornFields
<1>8. /\ IsStore(store') /\ SameLimits(store, store') /\ store'.size = store.size + 1
      /\ Present(store') \subseteq Present(store) \cup {k}
  BY <1>3, <1>4, <1>7 DEF SameLimits, Sound
<1>9. \A j \in Present(store') \ {k} : store'.buckets[j] = store.buckets[j]
  BY <1>3, <1>4, <1>7, <1>8 DEF Has
<1>10. Sound(store')
  <2>1. /\ store.bucket_count \in Nat \ {0} /\ store.size \in Nat
        /\ Present(store) \subseteq Keys
    BY <1>0 DEF Sound
  <2>2. store'.bucket_count = store.bucket_count /\ store'.size \in Nat
    BY <1>8, <2>1 DEF SameLimits
  <2>3. Present(store') \subseteq Keys
    BY <1>1, <1>8, <2>1
  <2>. QED  BY <1>8, <2>1, <2>2, <2>3, Zenon DEF Sound
<1>11. PICK p \in {"peak1", "peak2"} : Moves(t, p)
  BY DEF LinkEntry, Goto, Moves
<1>12. pc'[t] = p /\ op' = op /\ \A u \in Threads \ {t} : pc'[u] = pc[u]
  BY <1>0, <1>11, StepPlaces
<1>13. LockInv'
  BY <1>0, <1>11, MovesLocks DEF Inside
<1>14. ASSUME ~undef' PROVE Counted(store)' /\ Absent'
  <2>1. Absent /\ Counted(store') /\ Present(store') = Present(store) \cup {k}
    BY <1>0, <1>3, <1>6, <1>14
  <2>2. ASSUME NEW u \in Threads \ {t}, pc[u] \in {"evict", "link"}
        PROVE  ~Has(store', op[u].k)
    <3>1. pc[u] \in Inside
      BY <2>2 DEF Inside
    <3>2. LockIndex(op[t].k) # LockIndex(op[u].k)
      BY <1>0, <3>1, ShardsDiffer
    <3>. QED  BY <2>1, <2>2, <3>2 DEF Has, Absent
  <2>. QED  BY <1>12, <2>1, <2>2 DEF Absent
<1>15. IInv'
  BY <1>6, <1>10, <1>13, <1>14 DEF IInv
<1>16. ~undef' => Present(store') = Present(store) \cup {k}
  BY <1>3, <1>6
<1>. QED  BY <1>0, <1>6, <1>8, <1>9, <1>12, <1>15, <1>16

(* Growing and resizing the table and setting its limits keep every entry; *)
(* bucket_count doubles or becomes the argument of kv_resize, and a limit  *)
(* changes only while no other thread is under a lock.                     *)
LEMMA AdminInv ==
    ASSUME IInv, NEW t \in Threads, Grow(t) \/ Resize(t) \/ Configure(t)
    PROVE  /\ IInv' /\ Still /\ undef' = undef
           /\ store'.buckets = store.buckets /\ store'.size = store.size
           /\ store'.bucket_count \in {store.bucket_count, store.bucket_count * 2}
                                      \cup {o.n : o \in {x \in Ops : x.cmd = "RESIZE"}}
           /\ \/ store'.max_capacity = store.max_capacity
              \/ store'.max_capacity \in Nat /\ \A u \in Threads : pc'[u] \notin Inside
           /\ \/ store'.max_memory_budget = store.max_memory_budget
              \/ \E o \in Ops : /\ o.cmd = "CONFIG" /\ o.field = "max_memory_budget"
                                /\ store'.max_memory_budget = o.n
<1>0. /\ pc[t] \in Inside /\ op[t] \in Ops /\ LockInv /\ Sound(store) /\ undef \in BOOLEAN
      /\ store.bucket_count \in Nat \ {0}
  BY DEF Grow, Resize, Configure, In, IInv, LockInv, ThreadOK, Inside, Sound
<1>1. CASE Grow(t)
  <2>. DEFINE n == store.bucket_count * 2
  <2>0. n \in Nat \ {0}
    BY <1>0
  <2>1. PICK s \in {store, Rehash(store, n)} : Goto(t, "body", s)
    BY <1>1 DEF Grow
  <2>. HIDE DEF n
  <2>2. /\ Sound(s) /\ s.buckets = store.buckets /\ s.size = store.size
        /\ s.bucket_count \in {store.bucket_count, n}
        /\ s.max_capacity = store.max_capacity /\ s.max_memory_budget = store.max_memory_budget
    BY <1>0, <2>0, RehashEffect
  <2>3. Moves(t, "body") /\ Change(t, s)
    BY <2>1 DEF Goto, Moves
  <2>4. store' = s /\ undef' = undef
    BY <1>0, <2>2, <2>3, QuietChange
  <2>5. LockInv'
    BY <1>0, <2>3, MovesLocks DEF Inside
  <2>6. pc'[t] = "body" /\ op' = op /\ \A u \in Threads \ {t} : pc'[u] = pc[u]
    BY <1>0, <2>3, StepPlaces
  <2>7. Still
    BY <2>6 DEF Still
  <2>8. IInv'
    BY <2>2, <2>4, <2>5, <2>7, StillInv
  <2>9. store'.bucket_count \in {store.bucket_count, store.bucket_count * 2}
    BY <2>2, <2>4 DEF n
  <2>. QED  BY <2>2, <2>4, <2>7, <2>8, <2>9
<1>2. ASSUME NEW s, NEW res, Return(t, s, res), Sound(s), s.buckets = store.buckets,
             s.size = store.size
      PROVE  store' = s /\ undef' = undef /\ Still /\ IInv' /\ pc'[t] = "idle"
  <2>1. Finishes(t) /\ Change(t, s)
    BY <1>2 DEF Return, Finishes
  <2>2. store' = s /\ undef' = undef
    BY <1>0, <1>2, <2>1, QuietChange
  <2>3. LockInv'
    BY <1>0, <2>1, FinishesLocks
  <2>4. pc'[t] = "idle" /\ \A u \in Threads \ {t} : pc'[u] = pc[u] /\ op'[u] = op[u]
    BY <1>0, <2>1, StepPlaces
  <2>5. Still
    BY <2>4 DEF Still, Inside
  <2>. QED  BY <1>2, <2>2, <2>3, <2>4, <2>5, StillInv
<1>3. CASE Resize(t)
  <2>. DEFINE n == op[t].n
  <2>0. op[t].cmd = "RESIZE" /\ n \in Nat \ {0}
    BY <1>0, <1>3, StoreAssumption DEF Resize, In, StoreAssumption
  <2>1. PICK s \in {store, Rehash(store, n)} : \E res : Return(t, s, res)
    BY <1>3 DEF Resize
  <2>. HIDE DEF n
  <2>2. /\ Sound(s) /\ s.buckets = store.buckets /\ s.size = store.size
        /\ s.bucket_count \in {store.bucket_count, n}
        /\ s.max_capacity = store.max_capacity /\ s.max_memory_budget = store.max_memory_budget
    BY <1>0, <2>0, RehashEffect
  <2>3. store' = s /\ undef' = undef /\ Still /\ IInv'
    BY <1>2, <2>1, <2>2
  <2>4. n \in {o.n : o \in {x \in Ops : x.cmd = "RESIZE"}}
    BY <1>0, <2>0 DEF n
  <2>. QED  BY <2>2, <2>3, <2>4
<1>4. CASE Configure(t)
  <2>0. op[t].cmd = "CONFIG" /\ op[t].n \in Nat
    BY <1>0, <1>4, StoreAssumption DEF Configure, In, StoreAssumption
  <2>1. PICK s : /\ Return(t, s, "OK")
                 /\ \/ s = [store EXCEPT !.max_capacity = op[t].n]
                    \/ /\ s = [store EXCEPT !.max_memory_budget = op[t].n]
                       /\ op[t].field = "max_memory_budget"
                    \/ s = [store EXCEPT !.auto_resize = (op[t].n # 0)]
    BY <1>4 DEF Configure
  <2>2. /\ IsStore(s) /\ s.buckets = store.buckets /\ s.size = store.size
        /\ s.bucket_count = store.bucket_count
        /\ s.max_capacity \in {store.max_capacity, op[t].n}
        /\ \/ s.max_memory_budget = store.max_memory_budget
           \/ op[t].field = "max_memory_budget" /\ s.max_memory_budget = op[t].n
    BY <1>0, <2>1 DEF Sound, IsStore
  <2>3. Sound(s)
    BY <1>0, <2>2 DEF Sound, Present
  <2>4. store' = s /\ undef' = undef /\ Still /\ IInv' /\ pc'[t] = "idle"
    BY <1>2, <2>1, <2>2, <2>3
  <2>5. \A u \in Threads : pc'[u] \notin Inside
    <3>1. held[t] = "all"
      BY <1>0, <2>0 DEF LockInv, ThreadOK, Global
    <3>2. \A u \in Threads \ {t} : pc[u] \notin Inside
      BY <1>0, <3>1, ShardsDiffer
    <3>3. Finishes(t)
      BY <2>1 DEF Return, Finishes
    <3>4. \A u \in Threads \ {t} : pc'[u] = pc[u]
      BY <1>0, <3>3, StepPlaces
    <3>. QED  BY <2>4, <3>2, <3>4 DEF Inside
  <2>. QED  BY <1>0, <2>0, <2>2, <2>4, <2>5
<1>. QED  BY <1>1, <1>3, <1>4

Admin(t) == Grow(t) \/ Resize(t) \/ Configure(t)

(* Every step that is not one of the above leaves the table alone.         *)
LEMMA StepShapes ==
    ASSUME IInv, [Next]_vars
    PROVE  \/ \E t \in Threads : Works(t) \/ LinkEntry(t) \/ Admin(t)
           \/ IInv' /\ Calm
<1>0. LockInv /\ Sound(store)
  BY DEF IInv
<1>1. ASSUME NEW t \in Threads, Step(t)
      PROVE  \/ Works(t) \/ LinkEntry(t) \/ Admin(t)
             \/ LockOne(t) \/ Escalate(t) \/ LockNext(t)
  BY <1>1, SetWorks, PushFindWorks, LoopWorks, PushPeakWorks, KeyOpWorks, TableOpWorks
     DEF Step, Admin
<1>2. Calm /\ LockInv' => IInv'
  BY <1>0, StillInv DEF Calm
<1>3. ASSUME NEW t \in Threads, LockOne(t) \/ Escalate(t) \/ LockNext(t)
      PROVE  IInv' /\ Calm
  BY <1>0, <1>2, <1>3, LockingInv, LockingCalm
<1>4. ASSUME NEW t \in Threads, NEW o \in Ops, Invoke(t, o)
      PROVE  IInv' /\ Calm
  BY <1>2, <1>4, InvokeInv
<1>5. CASE Tick \/ UNCHANGED vars
  <2>1. UNCHANGED <<store, lock, pc, op, held, next, undef>>
    BY <1>5 DEF Tick, vars
  <2>2. Calm
    BY <2>1 DEF Calm, Still
  <2>3. LockInv'
    BY <1>0, <2>1 DEF LockInv, ThreadOK, LockIndex
  <2>. QED  BY <1>2, <2>2, <2>3
<1>. QED  BY <1>1, <1>3, <1>4, <1>5 DEF Next, Rest
=============================================================================
