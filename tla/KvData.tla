------------------------------- MODULE KvData -------------------------------
(***************************************************************************)
(* The data structure of the store (kv_store_t, kv_entry_t) and the        *)
(* functions of kv.c, eviction.c, list.c and set.c that read and change it *)
(* while the caller holds its locks.  A store is a record whose fields     *)
(* carry the names of the C struct; buckets maps each key that is present  *)
(* to the entry found under it in the chain of its bucket.  Strings are    *)
(* model values with a length; sizeof is a constant for each struct.       *)
(***************************************************************************)
EXTENDS Integers, Sequences, FiniteSets, FiniteSetsExt, Functions

CONSTANTS
    Keys, Vals,
    Hash,           \* the 64-bit FNV-1a hash of a key, before the modulo
    ValBytes,       \* strlen(v) + 1
    PtrBytes,       \* sizeof(kv_entry_t *), one bucket head
    EntryBytes,     \* sizeof(kv_entry_t) + key_len + 1
    ListBytes,      \* sizeof(kv_list_t)
    SetBytes,       \* sizeof(kv_set_t) and its array of 16 heads
    NodeBytes       \* sizeof(kv_list_node_t), sizeof(kv_set_node_t)

ASSUME DataAssumption ==
    /\ IsFiniteSet(Keys)
    /\ Hash \in [Keys -> Nat]
    /\ ValBytes \in [Vals -> Nat]
    /\ {PtrBytes, EntryBytes, ListBytes, SetBytes, NodeBytes} \subseteq Nat

(* kv_type_t with the payload of each type: a string, the list from head   *)
(* to tail, the members of the set.                                        *)
EntryOK(e) ==
    /\ \/ e.type = "string" /\ e.value \in Vals
       \/ e.type = "list" /\ e.value \in Seq(Vals)
       \/ e.type = "set" /\ e.value \subseteq Vals
    /\ e.expire_at_ms \in Int
    /\ e.last_accessed_time \in Nat

StoreOK(s) ==
    /\ DOMAIN s.buckets \subseteq Keys
    /\ \A k \in DOMAIN s.buckets : EntryOK(s.buckets[k])
    /\ {s.bucket_count, s.size, s.max_capacity, s.allocated_bytes,
        s.peak_allocated_bytes, s.max_memory_budget, s.lru_clock} \subseteq Nat
    /\ s.auto_resize \in BOOLEAN

Present(s) == DOMAIN s.buckets
Has(s, k) == k \in Present(s)

(* hash_key                                                                *)
BucketOf(s, k) == Hash[k] % s.bucket_count

(* What expire_and_delete_unlocked frees, list_destroy and set_destroy     *)
(* included.                                                               *)
NodeCost(v) == NodeBytes + ValBytes[v]
Cost(e) ==
    EntryBytes +
    CASE e.type = "string" -> ValBytes[e.value]
      [] e.type = "list" -> FoldFunction(LAMBDA v, sum : sum + NodeCost(v), ListBytes, e.value)
      [] e.type = "set" -> SetBytes + MapThenSumSet(NodeCost, e.value)

(* The guarded subtraction the code uses on allocated_bytes.               *)
Freed(s, n) == IF s.allocated_bytes >= n THEN s.allocated_bytes - n ELSE 0

(* What the entries of D take together.                                    *)
Costs(s, D) == MapThenSumSet(LAMBDA k : Cost(s.buckets[k]), D)

(* Mutants of DeleteAll: size, or the bytes, not taken back.               *)
DeleteKeepsSize(s, D) ==
    [s EXCEPT !.buckets = [k \in Present(s) \ D |-> s.buckets[k]],
              !.allocated_bytes = Freed(s, Costs(s, D))]
DeleteKeepsBytes(s, D) ==
    [s EXCEPT !.buckets = [k \in Present(s) \ D |-> s.buckets[k]],
              !.size = IF @ >= Cardinality(D) THEN @ - Cardinality(D) ELSE 0]

(* expire_and_delete_unlocked, for every key of D.                         *)
DeleteAll(s, D) ==
    [s EXCEPT !.buckets = [k \in Present(s) \ D |-> s.buckets[k]],
              !.size = IF @ >= Cardinality(D) THEN @ - Cardinality(D) ELSE 0,
              !.allocated_bytes = Freed(s, Costs(s, D))]

Delete(s, k) == DeleteAll(s, {k})

(* entry_is_expired                                                        *)
IsExpired(e, now) == e.expire_at_ms > 0 /\ e.expire_at_ms <= now

(* Mutant of Find: an entry with a deadline is taken for expired.          *)
FindAnyDeadline(s, k, now) ==
    IF Has(s, k) /\ s.buckets[k].expire_at_ms > 0 THEN Delete(s, k) ELSE s

(* find_entry_unlocked: the store after the lookup, in which an expired    *)
(* entry of that key is gone.                                              *)
Find(s, k, now) == IF Has(s, k) /\ IsExpired(s.buckets[k], now) THEN Delete(s, k) ELSE s

(* Mutant of Touch: every entry of the chain is stamped.                   *)
TouchChain(s, k) ==
    [s EXCEPT !.lru_clock = @ + 1,
              !.buckets = [j \in Present(s) |->
                  IF BucketOf(s, j) = BucketOf(s, k)
                  THEN [s.buckets[j] EXCEPT !.last_accessed_time = s.lru_clock + 1]
                  ELSE s.buckets[j]]]

(* entry->last_accessed_time = ++store->lru_clock                          *)
Touch(s, k) ==
    [s EXCEPT !.lru_clock = @ + 1, !.buckets[k].last_accessed_time = s.lru_clock + 1]

(* kv_evict_lru_unlocked samples random buckets and evicts the least       *)
(* recently used entry it saw: which buckets it sees is arbitrary, so the  *)
(* victim is the oldest entry of some bucket.                              *)
Victims(s) ==
    {k \in Present(s) : \A j \in Present(s) :
        BucketOf(s, j) = BucketOf(s, k) =>
            s.buckets[k].last_accessed_time <= s.buckets[j].last_accessed_time}

(* (size + 1) * KV_LOAD_FACTOR_DEN >= bucket_count * KV_LOAD_FACTOR_NUM    *)
LoadExceeded(s) == s.auto_resize /\ (s.size + 1) * 4 >= s.bucket_count * 3

(* Mutant of OverBudget: what is about to be added is not counted.         *)
OverBudgetAlready(s, n) == s.max_memory_budget > 0 /\ s.allocated_bytes > s.max_memory_budget

OverBudget(s, n) == s.max_memory_budget > 0 /\ s.allocated_bytes + n > s.max_memory_budget

(* Mutant of AtCapacity: off by one.                                       *)
PastCapacity(s) == s.max_capacity > 0 /\ s.size > s.max_capacity

AtCapacity(s) == s.max_capacity > 0 /\ s.size >= s.max_capacity

(* if (allocated_bytes > peak_allocated_bytes) peak = allocated, when the  *)
(* caller holds every lock.                                                *)
RaisePeak(s) ==
    IF s.allocated_bytes > s.peak_allocated_bytes
    THEN [s EXCEPT !.peak_allocated_bytes = s.allocated_bytes]
    ELSE s

(* kv_resize_unlocked past its budget check: the new array is counted      *)
(* before the old one is freed, so the peak sees both.                     *)
Rehash(s, n) ==
    LET both == RaisePeak([s EXCEPT !.allocated_bytes = @ + n * PtrBytes])
    IN  [both EXCEPT !.bucket_count = n, !.allocated_bytes = @ - s.bucket_count * PtrBytes]

(* The new entry of kv_set_internal, kv_lpush and kv_sadd, linked at the   *)
(* head of its chain, with its size counted: what these statements do when *)
(* no other thread is in that chain.                                       *)
Link(s, k, type, value, bytes) ==
    [s EXCEPT !.buckets = [j \in Present(s) \cup {k} |->
                              IF j = k THEN [type |-> type, value |-> value, expire_at_ms |-> 0,
                                             last_accessed_time |-> s.lru_clock + 1]
                              ELSE s.buckets[j]],
              !.lru_clock = @ + 1,
              !.size = @ + 1,
              !.allocated_bytes = @ + bytes]

(* The overwrite of kv_set_internal: the value changes, expire_at_ms stays.*)
Replace(s, k, v) ==
    [Touch(s, k) EXCEPT
        !.buckets[k].value = v,
        !.allocated_bytes = @ + ValBytes[v] - ValBytes[s.buckets[k].value]]

(* Mutant of Shrink: the key stays when its last element has gone.         *)
ShrinkKeepsKey(s, k, value, v, last) ==
    Touch([s EXCEPT !.buckets[k].value = value, !.allocated_bytes = Freed(s, NodeCost(v))], k)

(* One element leaves a list or a set (RPOP, SREM), leaving value; with    *)
(* the last one kv_delete_internal removes the key.                        *)
Shrink(s, k, value, v, last) ==
    LET less == [s EXCEPT !.buckets[k].value = value, !.allocated_bytes = Freed(s, NodeCost(v))]
    IN  IF last THEN Delete(less, k) ELSE Touch(less, k)

(* What can become of the chains in B when a step that would turn s into r *)
(* unlinks or inserts an entry there while another thread is in them.      *)
(* Heads and next pointers are plain memory: one written back from a stale *)
(* read drops entries, an unlinked entry may stay reachable.  The counters *)
(* are atomic.                                                             *)
Torn(s, r, B) ==
    LET both == [k \in Present(s) \cup Present(r) |->
                    IF Has(r, k) THEN r.buckets[k] ELSE s.buckets[k]]
        unsure == {k \in DOMAIN both : BucketOf(s, k) \in B}
    IN  { [r EXCEPT !.buckets = Restrict(both, (Present(r) \ unsure) \cup X)] :
            X \in SUBSET unsure }

(* What a new entry and, for LPUSH and SADD, its first node will take.     *)
EntryNeed(o) ==
    EntryBytes + CASE o.cmd = "SET" -> ValBytes[o.v]
                   [] o.cmd = "LPUSH" -> ListBytes
                   [] o.cmd = "SADD" -> SetBytes
NodeNeed(o) == IF o.cmd = "SET" THEN 0 ELSE NodeCost(o.v)

Container(o) == IF o.cmd = "LPUSH" THEN "list" ELSE "set"

(* The node is linked through the pointer obtained before the budget loop. *)
(* If the entry was evicted since, the node goes into freed memory: the    *)
(* table does not change and only the counter does.                        *)
Pushed(s, o) ==
    LET paid == [s EXCEPT !.allocated_bytes = @ + NodeNeed(o)]
    IN  IF ~Has(s, o.k) THEN paid
        ELSE IF o.cmd = "LPUSH" THEN [paid EXCEPT !.buckets[o.k].value = <<o.v>> \o @]
        ELSE [paid EXCEPT !.buckets[o.k].value = @ \cup {o.v}]
=============================================================================
