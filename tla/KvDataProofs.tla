---------------------------- MODULE KvDataProofs ----------------------------
(***************************************************************************)
(* What the operators of KvData do to the table: which keys are present,   *)
(* that size goes on counting them, and which entries may change.  The     *)
(* byte counters are left out: they are sums over the table, which only    *)
(* TLC evaluates.                                                          *)
(***************************************************************************)
EXTENDS KvData, FiniteSetTheorems, TLAPS

(* s is a record with the fields of kv_store_t.                            *)
IsStore(s) ==
    s \in [buckets : {s.buckets}, bucket_count : {s.bucket_count}, size : {s.size},
           max_capacity : {s.max_capacity}, allocated_bytes : {s.allocated_bytes},
           peak_allocated_bytes : {s.peak_allocated_bytes},
           max_memory_budget : {s.max_memory_budget}, auto_resize : {s.auto_resize},
           lru_clock : {s.lru_clock}]

(* A table of entries under keys, with a size that need not be right.      *)
Sound(s) ==
    /\ IsStore(s)
    /\ s.bucket_count \in Nat \ {0}
    /\ Present(s) \subseteq Keys
    /\ s.size \in Nat

(* size is the number of entries.                                          *)
Counted(s) == s.size = Cardinality(Present(s))

SameLimits(s, r) ==
    /\ r.bucket_count = s.bucket_count
    /\ r.max_capacity = s.max_capacity
    /\ r.max_memory_budget = s.max_memory_budget

(* r has the limits of s and no key that s has not; entries outside C are  *)
(* those of s.  A data race does not go beyond this.                       *)
Within(s, r, C) ==
    /\ IsStore(r)
    /\ SameLimits(s, r)
    /\ r.size \in Nat /\ r.size <= s.size
    /\ Present(r) \subseteq Present(s)
    /\ \A j \in Present(r) \ C : r.buckets[j] = s.buckets[j]

(* Without a race size goes on counting, and only keys of D have gone.     *)
Exact(s, r, D) ==
    /\ Counted(s) => Counted(r)
    /\ Present(s) \ D \subseteq Present(r)

Effect(s, r, C, D) == Within(s, r, C) /\ Exact(s, r, D)

(* The keys of a table are finitely many.                                  *)
LEMMA SoundFinite ==
    ASSUME NEW s, Sound(s)
    PROVE  IsFiniteSet(Present(s))
BY DataAssumption, FS_Subset DEF Sound, DataAssumption

(* What stays within a table is one.                                       *)
LEMMA WithinSound ==
    ASSUME NEW s, Sound(s), NEW r, NEW C, Within(s, r, C)
    PROVE  Sound(r)
BY DEF Sound, Within, SameLimits

(* A call that leaves the store alone has every effect that is allowed.    *)
LEMMA NoEffect ==
    ASSUME NEW s, Sound(s), NEW C, NEW D
    PROVE  Effect(s, s, C, D)
BY DEF Effect, Within, Exact, SameLimits, Sound

(* Effects compose: the lookup of a call and the change it then makes.     *)
LEMMA EffectTrans ==
    ASSUME NEW s, NEW r, NEW q, NEW C, NEW D, s.size \in Nat,
           Effect(s, r, C, D), Effect(r, q, C, D)
    PROVE  Effect(s, q, C, D)
<1>1. q.size <= s.size
  BY DEF Effect, Within
<1>2. Within(s, q, C)
  BY <1>1 DEF Effect, Within, SameLimits
<1>3. Exact(s, q, D)
  BY DEF Effect, Exact
<1>. QED  BY <1>2, <1>3 DEF Effect

(* What a race can make of the table: entries of s and r, counters of r.   *)
LEMMA TornFields ==
    ASSUME NEW s, NEW r, IsStore(r), NEW B, NEW q \in Torn(s, r, B)
    PROVE  /\ IsStore(q) /\ SameLimits(r, q) /\ q.size = r.size
           /\ Present(q) \subseteq Present(s) \cup Present(r)
           /\ \A j \in Present(q) :
                q.buckets[j] = IF Has(r, j) THEN r.buckets[j] ELSE s.buckets[j]
<1>. DEFINE both == [k \in Present(s) \cup Present(r) |->
                        IF Has(r, k) THEN r.buckets[k] ELSE s.buckets[k]]
            unsure == {k \in DOMAIN both : BucketOf(s, k) \in B}
<1>1. PICK X \in SUBSET unsure :
         q = [r EXCEPT !.buckets = Restrict(both, (Present(r) \ unsure) \cup X)]
  BY DEF Torn
<1>. DEFINE Y == (Present(r) \ unsure) \cup X
            f == Restrict(both, Y)
<1>2. Y \subseteq Present(s) \cup Present(r)
  OBVIOUS
<1>3. \A j \in Y : both[j] = IF Has(r, j) THEN r.buckets[j] ELSE s.buckets[j]
  BY <1>2
<1>4. DOMAIN f = Y /\ \A j \in Y : f[j] = both[j]
  BY DEF Restrict
<1>. HIDE DEF f, Y, both, unsure
<1>5. q = [r EXCEPT !.buckets = f]
  BY <1>1 DEF f, Y
<1>6. IsStore(q) /\ SameLimits(r, q) /\ q.size = r.size /\ q.buckets = f
  BY <1>5 DEF IsStore, SameLimits
<1>. QED  BY <1>2, <1>3, <1>4, <1>6 DEF Present

(* The counters are atomic: a race does not touch them.                    *)
LEMMA TornCounters ==
    ASSUME NEW s, NEW r, NEW B, IsStore(r), NEW q \in Torn(s, r, B)
    PROVE  q.size = r.size /\ SameLimits(r, q)
<1>1. /\ IsStore(q) /\ SameLimits(r, q) /\ q.size = r.size
      /\ Present(q) \subseteq Present(s) \cup Present(r)
      /\ \A j \in Present(q) :
            q.buckets[j] = IF Has(r, j) THEN r.buckets[j] ELSE s.buckets[j]
  BY TornFields
<1>. QED  BY <1>1

(* A race on the chains of a step keeps the step within its own keys.      *)
LEMMA TornWithin ==
    ASSUME NEW s, NEW r, NEW C, NEW B, Within(s, r, C), NEW q \in Torn(s, r, B)
    PROVE  Within(s, q, C)
<1>1. /\ IsStore(q) /\ SameLimits(r, q) /\ q.size = r.size
      /\ Present(q) \subseteq Present(s) \cup Present(r)
      /\ \A j \in Present(q) :
            q.buckets[j] = IF Has(r, j) THEN r.buckets[j] ELSE s.buckets[j]
  BY TornFields DEF Within
<1>. QED  BY <1>1 DEF Within, SameLimits, Has

(* The fields of the record after expire_and_delete_unlocked.              *)
LEMMA DeleteAllFields ==
    ASSUME NEW s, IsStore(s), NEW D
    PROVE  /\ IsStore(DeleteAll(s, D))
           /\ SameLimits(s, DeleteAll(s, D))
           /\ DeleteAll(s, D).buckets = [k \in Present(s) \ D |-> s.buckets[k]]
           /\ DeleteAll(s, D).size = IF s.size >= Cardinality(D)
                                     THEN s.size - Cardinality(D) ELSE 0
<1>1. IsStore(DeleteAll(s, D))
  BY DEF IsStore, DeleteAll
<1>2. SameLimits(s, DeleteAll(s, D))
  BY DEF IsStore, DeleteAll, SameLimits
<1>3. DeleteAll(s, D).buckets = [k \in Present(s) \ D |-> s.buckets[k]]
  BY DEF IsStore, DeleteAll
<1>4. DeleteAll(s, D).size = IF s.size >= Cardinality(D) THEN s.size - Cardinality(D) ELSE 0
  BY DEF IsStore, DeleteAll
<1>. QED  BY <1>1, <1>2, <1>3, <1>4

(* Deleting keys that are present keeps size exact and touches no other    *)
(* entry (expire_and_delete_unlocked, for one key or for a sweep).         *)
LEMMA DeleteAllEffect ==
    ASSUME NEW s, Sound(s), NEW D, D \subseteq Present(s), NEW C, NEW E, D \subseteq E
    PROVE  /\ Effect(s, DeleteAll(s, D), C, E)
           /\ Present(DeleteAll(s, D)) = Present(s) \ D
<1>. DEFINE r == DeleteAll(s, D)
<1>1. /\ IsStore(r) /\ SameLimits(s, r)
      /\ r.buckets = [k \in Present(s) \ D |-> s.buckets[k]]
      /\ r.size = IF s.size >= Cardinality(D) THEN s.size - Cardinality(D) ELSE 0
  BY DeleteAllFields DEF Sound
<1>. HIDE DEF r
<1>2. Present(r) = Present(s) \ D
  BY <1>1 DEF Present
<1>3. \A j \in Present(r) : r.buckets[j] = s.buckets[j]
  BY <1>1, <1>2
<1>4. /\ IsFiniteSet(Present(s)) /\ s.size \in Nat
  BY SoundFinite DEF Sound
<1>5. IsFiniteSet(D) /\ Cardinality(D) \in Nat /\ Cardinality(D) <= Cardinality(Present(s))
  BY <1>4, FS_Subset, FS_CardinalityType
<1>6. Cardinality(Present(s) \ D) = Cardinality(Present(s)) - Cardinality(Present(s) \cap D)
  BY <1>4, <1>5, FS_Difference
<1>7. Present(s) \cap D = D
  OBVIOUS
<1>8. Counted(s) => Counted(r)
  BY <1>1, <1>2, <1>4, <1>5, <1>6, <1>7 DEF Counted
<1>9. r.size \in Nat /\ r.size <= s.size
  BY <1>1, <1>4, <1>5
<1>10. Within(s, r, C) /\ Exact(s, r, E)
  BY <1>1, <1>2, <1>3, <1>8, <1>9 DEF Within, Exact
<1>. QED  BY <1>2, <1>10 DEF r, Effect

(* The one-key case, as kv_delete_internal and eviction use it.            *)
LEMMA DeleteEffect ==
    ASSUME NEW s, Sound(s), NEW k \in Present(s), NEW C, NEW E, k \in E
    PROVE  Effect(s, Delete(s, k), C, E) /\ Present(Delete(s, k)) = Present(s) \ {k}
BY DeleteAllEffect DEF Delete

(* find_entry_unlocked may only remove the key it looks up.                *)
LEMMA FindEffect ==
    ASSUME NEW s, Sound(s), NEW k, NEW now, NEW C, NEW E, k \in E
    PROVE  Effect(s, Find(s, k, now), C, E)
<1>1. CASE Has(s, k) /\ IsExpired(s.buckets[k], now)
  BY <1>1, DeleteEffect DEF Find, Has
<1>2. CASE ~(Has(s, k) /\ IsExpired(s.buckets[k], now))
  BY <1>2, NoEffect DEF Find
<1>. QED  BY <1>1, <1>2

(* A record that differs from a table in one entry and in the byte         *)
(* counters has that entry as its only effect.                             *)
LEMMA UpdateEffect ==
    ASSUME NEW s, Sound(s), NEW k, NEW D, NEW r, IsStore(r),
           SameLimits(s, r), r.size = s.size,
           DOMAIN r.buckets = DOMAIN s.buckets,
           \A j \in DOMAIN s.buckets : j # k => r.buckets[j] = s.buckets[j]
    PROVE  Effect(s, r, {k}, D) /\ Present(r) = Present(s)
<1>1. Within(s, r, {k})
  BY DEF Within, Sound, Present
<1>2. Exact(s, r, D)
  BY DEF Exact, Counted, Present
<1>. QED  BY <1>1, <1>2 DEF Effect, Present

(* A step that writes only allocated_bytes or peak_allocated_bytes.        *)
LEMMA CounterEffect ==
    ASSUME NEW s, Sound(s), NEW n, NEW C, NEW D
    PROVE  /\ Effect(s, [s EXCEPT !.peak_allocated_bytes = n], C, D)
           /\ Effect(s, [s EXCEPT !.allocated_bytes = n], C, D)
<1>0. IsStore(s) /\ s.size \in Nat
  BY DEF Sound
<1>1. LET r == [s EXCEPT !.peak_allocated_bytes = n] IN
      IsStore(r) /\ SameLimits(s, r) /\ r.size = s.size /\ r.buckets = s.buckets
  BY <1>0 DEF IsStore, SameLimits
<1>2. LET r == [s EXCEPT !.allocated_bytes = n] IN
      IsStore(r) /\ SameLimits(s, r) /\ r.size = s.size /\ r.buckets = s.buckets
  BY <1>0 DEF IsStore, SameLimits
<1>. QED  BY <1>0, <1>1, <1>2 DEF Effect, Within, Exact, Counted, Present

(* The setters of the three limits write nothing else.                     *)
LEMMA LimitFields ==
    ASSUME NEW s, Sound(s), NEW n, NEW r,
           \/ r = [s EXCEPT !.max_capacity = n]
           \/ r = [s EXCEPT !.max_memory_budget = n]
           \/ r = [s EXCEPT !.auto_resize = n]
    PROVE  /\ Sound(r) /\ r.bucket_count = s.bucket_count
           /\ r.buckets = s.buckets /\ r.size = s.size
           /\ r.max_capacity \in {s.max_capacity, n}
<1>0. IsStore(s)
  BY DEF Sound
<1>1. /\ IsStore(r) /\ r.bucket_count = s.bucket_count
      /\ r.buckets = s.buckets /\ r.size = s.size
      /\ r.max_capacity \in {s.max_capacity, n}
  BY <1>0 DEF IsStore
<1>. QED  BY <1>1 DEF Sound, Present

(* Touching an entry changes only that entry (kv_get and the others).      *)
LEMMA TouchEffect ==
    ASSUME NEW s, Sound(s), NEW k, NEW D
    PROVE  Effect(s, Touch(s, k), {k}, D) /\ Present(Touch(s, k)) = Present(s)
<1>. DEFINE r == Touch(s, k)
<1>0. IsStore(s)
  BY DEF Sound
<1>1. IsStore(r)
  BY <1>0 DEF IsStore, Touch
<1>2. SameLimits(s, r) /\ r.size = s.size
  BY <1>0 DEF IsStore, Touch, SameLimits
<1>3. DOMAIN r.buckets = DOMAIN s.buckets
  BY <1>0 DEF IsStore, Touch
<1>4. \A j \in DOMAIN s.buckets : j # k => r.buckets[j] = s.buckets[j]
  BY <1>0 DEF IsStore, Touch
<1>. HIDE DEF r
<1>5. Effect(s, r, {k}, D)
  BY <1>1, <1>2, <1>3, <1>4, UpdateEffect, Zenon
<1>6. Present(r) = Present(s)
  BY <1>3 DEF Present
<1>. QED  BY <1>5, <1>6 DEF r

(* Writing one field of one entry changes only that entry: the value of a  *)
(* string, the elements of a list or a set, the time of expiry.            *)
LEMMA EntryEffect ==
    ASSUME NEW s, Sound(s), NEW k, NEW x, NEW D
    PROVE  /\ Effect(s, [s EXCEPT !.buckets[k].value = x], {k}, D)
           /\ Present([s EXCEPT !.buckets[k].value = x]) = Present(s)
           /\ Effect(s, [s EXCEPT !.buckets[k].expire_at_ms = x], {k}, D)
<1>0. IsStore(s)
  BY DEF Sound
<1>. DEFINE r == [s EXCEPT !.buckets[k].value = x]
            q == [s EXCEPT !.buckets[k].expire_at_ms = x]
<1>1. /\ IsStore(r) /\ SameLimits(s, r) /\ r.size = s.size
      /\ DOMAIN r.buckets = DOMAIN s.buckets
      /\ \A j \in DOMAIN s.buckets : j # k => r.buckets[j] = s.buckets[j]
  BY <1>0 DEF IsStore, SameLimits
<1>2. /\ IsStore(q) /\ SameLimits(s, q) /\ q.size = s.size
      /\ DOMAIN q.buckets = DOMAIN s.buckets
      /\ \A j \in DOMAIN s.buckets : j # k => q.buckets[j] = s.buckets[j]
  BY <1>0 DEF IsStore, SameLimits
<1>. HIDE DEF r, q
<1>3. Effect(s, r, {k}, D)
  BY <1>1, UpdateEffect, Zenon
<1>4. Effect(s, q, {k}, D)
  BY <1>2, UpdateEffect, Zenon
<1>5. Present(r) = Present(s)
  BY <1>1 DEF Present
<1>. QED  BY <1>3, <1>4, <1>5 DEF r, q

(* The overwrite of kv_set_internal.                                       *)
LEMMA ReplaceEffect ==
    ASSUME NEW s, Sound(s), NEW k, NEW v, NEW D
    PROVE  Effect(s, Replace(s, k, v), {k}, D) /\ Present(Replace(s, k, v)) = Present(s)
<1>. DEFINE q == Touch(s, k)
            n == q.allocated_bytes + ValBytes[v] - ValBytes[s.buckets[k].value]
            r == [q EXCEPT !.buckets[k].value = v, !.allocated_bytes = n]
<1>1. Effect(s, q, {k}, D) /\ Present(q) = Present(s) /\ Sound(q)
  BY TouchEffect, WithinSound DEF Effect
<1>2. IsStore(q)
  BY <1>1 DEF Sound
<1>3. r = Replace(s, k, v)
  BY <1>2 DEF Replace, IsStore
<1>. HIDE DEF q, n
<1>4. IsStore(r) /\ SameLimits(q, r) /\ r.size = q.size
  BY <1>2 DEF IsStore, SameLimits
<1>5. /\ DOMAIN r.buckets = DOMAIN q.buckets
      /\ \A j \in DOMAIN q.buckets : j # k => r.buckets[j] = q.buckets[j]
  BY <1>2 DEF IsStore
<1>. HIDE DEF r
<1>6. Effect(q, r, {k}, D) /\ Present(r) = Present(q)
  BY <1>1, <1>4, <1>5, UpdateEffect
<1>7. Effect(s, r, {k}, D)
  BY <1>1, <1>6, EffectTrans DEF Sound
<1>. QED  BY <1>1, <1>3, <1>6, <1>7

(* An element leaves a list or a set, and with the last one its key.       *)
LEMMA ShrinkEffect ==
    ASSUME NEW s, Sound(s), NEW k \in Present(s), NEW value, NEW v, NEW last \in BOOLEAN,
           NEW D, k \in D
    PROVE  Effect(s, Shrink(s, k, value, v, last), {k}, D)
<1>. DEFINE n == Freed(s, NodeCost(v))
            r == [s EXCEPT !.buckets[k].value = value, !.allocated_bytes = n]
<1>1. IsStore(s)
  BY DEF Sound
<1>2. Shrink(s, k, value, v, last) = IF last THEN Delete(r, k) ELSE Touch(r, k)
  BY DEF Shrink
<1>. HIDE DEF n
<1>3. IsStore(r) /\ SameLimits(s, r) /\ r.size = s.size
  BY <1>1 DEF IsStore, SameLimits
<1>4. /\ DOMAIN r.buckets = DOMAIN s.buckets
      /\ \A j \in DOMAIN s.buckets : j # k => r.buckets[j] = s.buckets[j]
  BY <1>1 DEF IsStore
<1>. HIDE DEF r
<1>5. Effect(s, r, {k}, D) /\ Present(r) = Present(s) /\ Sound(r)
  BY <1>3, <1>4, UpdateEffect, WithinSound DEF Effect
<1>6. Effect(r, Delete(r, k), {k}, D) /\ Effect(r, Touch(r, k), {k}, D)
  BY <1>5, DeleteEffect, TouchEffect
<1>. QED  BY <1>2, <1>5, <1>6, EffectTrans DEF Sound

(* kv_resize_unlocked keeps every entry and sets bucket_count.             *)
LEMMA RehashEffect ==
    ASSUME NEW s, Sound(s), NEW n \in Nat \ {0}
    PROVE  /\ Sound(Rehash(s, n)) /\ Rehash(s, n).bucket_count = n
           /\ Rehash(s, n).buckets = s.buckets /\ Rehash(s, n).size = s.size
           /\ Rehash(s, n).max_capacity = s.max_capacity
           /\ Rehash(s, n).max_memory_budget = s.max_memory_budget
<1>. DEFINE m == s.allocated_bytes + n * PtrBytes
            a == [s EXCEPT !.allocated_bytes = m]
            b == RaisePeak(a)
            c == b.allocated_bytes - s.bucket_count * PtrBytes
            r == [b EXCEPT !.bucket_count = n, !.allocated_bytes = c]
<1>0. IsStore(s)
  BY DEF Sound
<1>1. /\ IsStore(a) /\ a.size = s.size /\ a.buckets = s.buckets
      /\ a.max_capacity = s.max_capacity /\ a.max_memory_budget = s.max_memory_budget
  <2>. HIDE DEF m
  <2>. QED  BY <1>0 DEF IsStore
<1>2. /\ IsStore(b) /\ b.size = s.size /\ b.buckets = s.buckets
      /\ b.max_capacity = s.max_capacity /\ b.max_memory_budget = s.max_memory_budget
  <2>. HIDE DEF a
  <2>. QED  BY <1>1 DEF IsStore, RaisePeak
<1>3. /\ IsStore(r) /\ r.size = s.size /\ r.buckets = s.buckets
      /\ r.max_capacity = s.max_capacity /\ r.max_memory_budget = s.max_memory_budget /\ r.bucket_count = n
  <2>. HIDE DEF b, c
  <2>. QED  BY <1>2 DEF IsStore
<1>4. r = Rehash(s, n)
  BY <1>0 DEF Rehash, IsStore
<1>. HIDE DEF r
<1>5. Sound(r)
  BY <1>3 DEF Sound, Present
<1>. QED  BY <1>3, <1>4, <1>5

(* One entry is linked under its key, and size goes up by one: it stays    *)
(* exact if the key was absent.                                            *)
LEMMA LinkEffect ==
    ASSUME NEW s, Sound(s), NEW k \in Keys, NEW type, NEW value, NEW bytes
    PROVE  LET r == Link(s, k, type, value, bytes) IN
           /\ Sound(r) /\ SameLimits(s, r) /\ r.size = s.size + 1
           /\ Present(r) = Present(s) \cup {k}
           /\ \A j \in Present(s) \ {k} : r.buckets[j] = s.buckets[j]
           /\ ~Has(s, k) /\ Counted(s) => Counted(r)
<1>. DEFINE r == Link(s, k, type, value, bytes)
<1>0. IsStore(s) /\ s.size \in Nat
  BY DEF Sound
<1>1. IsStore(r)
  BY <1>0 DEF IsStore, Link
<1>2. SameLimits(s, r) /\ r.size = s.size + 1
  BY <1>0 DEF IsStore, Link, SameLimits
<1>3. DOMAIN r.buckets = Present(s) \cup {k}
  BY <1>0 DEF IsStore, Link
<1>4. \A j \in Present(s) : j # k => r.buckets[j] = s.buckets[j]
  BY <1>0 DEF IsStore, Link
<1>. HIDE DEF r
<1>5. ~Has(s, k) => Cardinality(Present(s) \cup {k}) = Cardinality(Present(s)) + 1
  BY SoundFinite, FS_AddElement DEF Has
<1>6. Sound(r)
  BY <1>0, <1>1, <1>2, <1>3 DEF Sound, Present, SameLimits
<1>7. ~Has(s, k) /\ Counted(s) => Counted(r)
  BY <1>2, <1>3, <1>5 DEF Counted, Present
<1>8. Present(r) = Present(s) \cup {k}
  BY <1>3 DEF Present
<1>. QED  BY <1>2, <1>4, <1>6, <1>7, <1>8 DEF r
=============================================================================
