------------------------------ MODULE KvStore ------------------------------
(***************************************************************************)
(* The store of kv.c, eviction.c, list.c and set.c under concurrent        *)
(* callers.  Each thread runs one call at a time; a call is cut into steps *)
(* wherever another thread can see or change what it has read: between the *)
(* unlocked test and the lock, between two turns of kv_acquire_all_locks,  *)
(* and, under a bucket lock, between the tests of size and allocated_bytes *)
(* (shared by all shards) and the updates that follow them.  Releasing     *)
(* locks and returning happen in the last step of the call.                *)
(*                                                                         *)
(* A chain is linked or unlinked and counted in one step, since every test *)
(* elsewhere reads one counter only, and a chain is seen under its lock.   *)
(* That lock fails to protect it in two cases: when two mutexes cover one  *)
(* bucket, and when a budget loop evicts under a single bucket lock.  A    *)
(* step that then links or unlinks in a chain another thread is walking is *)
(* a data race: the entries of that chain may or may not survive it (Torn  *)
(* in KvData), and undef is set.  undef is set also when a node is pushed  *)
(* into an entry that has been freed.  After undef the program may do more *)
(* than the model does, and the properties of the table promise nothing.   *)
(***************************************************************************)
EXTENDS KvData

CONSTANTS
    Threads, NoThread,
    Ops,            \* the calls the threads make, as records
    InitBuckets,    \* bucket_count given to kv_init_full
    MinLocks,       \* KV_DEFAULT_NUM_LOCKS, 32
    MaxLocks,       \* 64
    MaxCapacity, Budget, AutoResize,  \* initial limits, 0 = unbounded
    AllocMayFail,   \* tracked_malloc and tracked_calloc may return NULL
    MaxCalls,       \* bound: calls made by each thread
    MaxTime         \* bound: ticks of the clock

VARIABLES
    store,          \* the kv_store_t
    lock,           \* bucket_locks: the thread that holds each mutex
    now,            \* kv_current_time_ms()
    pc, op,         \* where each thread is, and in which call
    held,           \* "none", "bucket" (the key's shard) or "all": is_global
    next,           \* loop index of kv_acquire_all_locks
    tmp,            \* a value read and not yet used: a delta, a peak
    ret,            \* result of the thread's last call
    calls,          \* calls made by each thread
    undef           \* a data race or a write to freed memory has happened

vars == <<store, lock, now, pc, op, held, next, tmp, ret, calls, undef>>

(* num_locks as kv_init_full computes it.                                  *)
NumLocks ==
    IF InitBuckets > MaxLocks THEN MaxLocks
    ELSE IF InitBuckets < MinLocks THEN MinLocks ELSE InitBuckets

Locks == 0 .. NumLocks - 1

(* kv_lock_index                                                           *)
LockIndex(k) == Hash[k] % NumLocks

Growing == {"SET", "LPUSH", "SADD"}
Global == {"SWEEP", "EVICT", "RESIZE", "CONFIG"}
Reads == {"GET", "EXISTS", "PTTL", "LLEN", "SCARD", "SMEMBERS"}
Writes == {"DELETE", "PEXPIREAT", "PERSIST", "RPOP", "SREM"}

ASSUME StoreAssumption ==
    /\ IsFiniteSet(Threads) /\ NoThread \notin Threads
    /\ MaxCapacity \in Nat
    /\ {InitBuckets, MinLocks, MaxLocks} \subseteq Nat \ {0}
    /\ MinLocks <= MaxLocks
    /\ \A o \in Ops : /\ o.cmd \in Growing \cup Global \cup Reads \cup Writes
                      /\ o.cmd \notin Global => o.k \in Keys
                      /\ o.cmd = "RESIZE" => o.n \in Nat \ {0}
                      /\ o.cmd = "CONFIG" => o.n \in Nat

NoOp == [cmd |-> "none"]

Waiting == {"lockone", "lockall"}
Inside == {"grow", "body", "delta", "replace", "evict", "link",
           "peak1", "store1", "node", "push", "peak2", "store2"}

(* No entry is malformed, and until a race has broken a chain no counter   *)
(* is taken below zero, where a size_t would wrap.                         *)
TypeOK ==
    /\ undef \/ StoreOK(store)
    /\ lock \in [Locks -> Threads \cup {NoThread}]
    /\ now \in 0 .. MaxTime
    /\ pc \in [Threads -> {"idle"} \cup Waiting \cup Inside]
    /\ \A t \in Threads : pc[t] # "idle" => op[t] \in Ops
    /\ held \in [Threads -> {"none", "bucket", "all"}]
    /\ next \in [Threads -> 0 .. NumLocks]
    /\ tmp \in [Threads -> Nat]
    /\ calls \in [Threads -> 0 .. MaxCalls]
    /\ undef \in BOOLEAN

(* kv_init_full without a log.                                             *)
Init ==
    /\ store = [buckets |-> <<>>, bucket_count |-> InitBuckets,
                size |-> 0, max_capacity |-> MaxCapacity,
                allocated_bytes |-> InitBuckets * PtrBytes,
                peak_allocated_bytes |-> InitBuckets * PtrBytes,
                max_memory_budget |-> Budget, auto_resize |-> AutoResize, lru_clock |-> 0]
    /\ lock = [i \in Locks |-> NoThread]
    /\ now = 0
    /\ pc = [t \in Threads |-> "idle"]
    /\ op = [t \in Threads |-> NoOp]
    /\ held = [t \in Threads |-> "none"]
    /\ next = [t \in Threads |-> 0]
    /\ tmp = [t \in Threads |-> 0]
    /\ ret = [t \in Threads |-> "none"]
    /\ calls = [t \in Threads |-> 0]
    /\ undef = FALSE

-----------------------------------------------------------------------------
(* The bytes each budget loop makes room for, and the step after it.       *)
Need(t) ==
    CASE pc[t] = "delta" -> tmp[t]
      [] pc[t] = "evict" -> EntryNeed(op[t])
      [] pc[t] = "node" -> NodeNeed(op[t])
AfterLoop(t) ==
    CASE pc[t] = "delta" -> "replace" [] pc[t] = "evict" -> "link" [] pc[t] = "node" -> "push"

(* while (allocated_bytes + need > budget && size > 0): t is in            *)
(* kv_evict_lru_unlocked, which scans and unlinks in every chain.          *)
Evicting(t) ==
    /\ pc[t] \in {"delta", "evict", "node"}
    /\ OverBudget(store, Need(t)) /\ store.size > 0

(* t, with no more than its bucket lock, may be walking the chain of bucket*)
(* b, or hold a head of it that it has read and not yet written back.      *)
Walks(t, b) ==
    /\ held[t] = "bucket"
    /\ \/ pc[t] \in {"body", "replace", "link"} /\ BucketOf(store, op[t].k) = b
       \/ Evicting(t)

(* The buckets in which the change from store to s links or unlinks while  *)
(* another thread walks.                                                   *)
Disturbed(t, s) ==
    { b \in { BucketOf(store, k) : k \in (Present(store) \ Present(s)) \cup (Present(s) \ Present(store)) } :
        \E u \in Threads \ {t} : Walks(u, b) }

(* t changes the table to s, or to what a data race makes of it.           *)
Change(t, s) ==
    LET B == Disturbed(t, s)
    IN  /\ undef' = (undef \/ B # {})
        /\ IF B = {} THEN store' = s ELSE store' \in Torn(store, s, B)

(* Going on to another step of the same call.                              *)
Goto(t, p, s) ==
    /\ pc' = [pc EXCEPT ![t] = p]
    /\ Change(t, s)
    /\ UNCHANGED <<lock, now, op, held, next, ret, calls>>

(* kv_release_bucket_lock or kv_release_all_locks, and return r.           *)
Return(t, s, r) ==
    /\ pc' = [pc EXCEPT ![t] = "idle"]
    /\ op' = [op EXCEPT ![t] = NoOp]
    /\ held' = [held EXCEPT ![t] = "none"]
    /\ lock' = [i \in Locks |-> IF lock[i] = t THEN NoThread ELSE lock[i]]
    /\ next' = [next EXCEPT ![t] = 0]
    /\ tmp' = [tmp EXCEPT ![t] = 0]
    /\ ret' = [ret EXCEPT ![t] = r]
    /\ Change(t, s)
    /\ UNCHANGED <<now, calls>>

(* Mutant of NeedsGlobal: the load factor is forgotten.                    *)
NeedsGlobalForBytes(o) == OverBudget(store, EntryNeed(o) + NodeNeed(o))

NeedsGlobal(o) == LoadExceeded(store) \/ OverBudget(store, EntryNeed(o) + NodeNeed(o))

(* A call up to its first lock: the growing operations decide on shared    *)
(* counters, read without a lock, which locks to take.                     *)
Invoke(t, o) ==
    /\ pc[t] = "idle"
    /\ calls[t] < MaxCalls
    /\ calls' = [calls EXCEPT ![t] = @ + 1]
    /\ op' = [op EXCEPT ![t] = o]
    /\ pc' = [pc EXCEPT ![t] =
                IF o.cmd \in Global \/ (o.cmd \in Growing /\ NeedsGlobal(o))
                THEN "lockall" ELSE "lockone"]
    /\ UNCHANGED <<store, lock, now, held, next, tmp, ret, undef>>

(* Mutant of LockOne: the mutex is not waited for.                         *)
LockOneTaken(t) ==
    /\ pc[t] = "lockone"
    /\ op[t].cmd \in Growing => ~NeedsGlobal(op[t])
    /\ lock' = [lock EXCEPT ![LockIndex(op[t].k)] = t]
    /\ held' = [held EXCEPT ![t] = "bucket"]
    /\ pc' = [pc EXCEPT ![t] = "body"]
    /\ UNCHANGED <<store, now, op, next, tmp, ret, calls, undef>>

(* Mutant of LockOne: the shard of the key is not computed.                *)
LockOneFirst(t) ==
    /\ pc[t] = "lockone"
    /\ lock[0] = NoThread
    /\ op[t].cmd \in Growing => ~NeedsGlobal(op[t])
    /\ lock' = [lock EXCEPT ![0] = t]
    /\ held' = [held EXCEPT ![t] = "bucket"]
    /\ pc' = [pc EXCEPT ![t] = "body"]
    /\ UNCHANGED <<store, now, op, next, tmp, ret, calls, undef>>

(* kv_acquire_bucket_lock; the growing operations test again under it.     *)
LockOne(t) ==
    /\ pc[t] = "lockone"
    /\ lock[LockIndex(op[t].k)] = NoThread
    /\ op[t].cmd \in Growing => ~NeedsGlobal(op[t])
    /\ lock' = [lock EXCEPT ![LockIndex(op[t].k)] = t]
    /\ held' = [held EXCEPT ![t] = "bucket"]
    /\ pc' = [pc EXCEPT ![t] = "body"]
    /\ UNCHANGED <<store, now, op, next, tmp, ret, calls, undef>>

(* Mutant of Escalate: the bucket lock is tried again, and again.          *)
EscalateRetries(t) ==
    /\ pc[t] = "lockone"
    /\ lock[LockIndex(op[t].k)] = NoThread
    /\ op[t].cmd \in Growing /\ NeedsGlobal(op[t])
    /\ UNCHANGED vars

(* The second test failed: the bucket lock, just acquired, is dropped      *)
(* before all locks are requested.                                         *)
Escalate(t) ==
    /\ pc[t] = "lockone"
    /\ lock[LockIndex(op[t].k)] = NoThread
    /\ op[t].cmd \in Growing /\ NeedsGlobal(op[t])
    /\ pc' = [pc EXCEPT ![t] = "lockall"]
    /\ UNCHANGED <<store, lock, now, op, held, next, tmp, ret, calls, undef>>

(* One turn of the loop of kv_acquire_all_locks.                           *)
LockNext(t) ==
    /\ pc[t] = "lockall"
    /\ lock[next[t]] = NoThread
    /\ lock' = [lock EXCEPT ![next[t]] = t]
    /\ next' = [next EXCEPT ![t] = @ + 1]
    /\ IF next[t] + 1 < NumLocks
       THEN UNCHANGED <<pc, held>>
       ELSE /\ held' = [held EXCEPT ![t] = "all"]
            /\ pc' = [pc EXCEPT ![t] = IF op[t].cmd = "SET" THEN "grow" ELSE "body"]
    /\ UNCHANGED <<store, now, op, tmp, ret, calls, undef>>

(* kv_set under all locks: double the table; a failed resize is ignored.   *)
Grow(t) ==
    /\ pc[t] = "grow"
    /\ LET n == store.bucket_count * 2
           fits == ~OverBudget(store, n * PtrBytes)
       IN  \/ LoadExceeded(store) /\ fits /\ Goto(t, "body", Rehash(store, n))
           \/ ~(LoadExceeded(store) /\ fits) /\ Goto(t, "body", store)
           \/ AllocMayFail /\ LoadExceeded(store) /\ fits /\ Goto(t, "body", store)
    /\ UNCHANGED tmp

-----------------------------------------------------------------------------
(* kv_set_internal, kv_lpush and kv_sadd after the locks.                  *)

(* "New entry insertion": the capacity test.                               *)
InsertNew(t, s) ==
    \/ AtCapacity(s) /\ Return(t, s, "CAPACITY_FULL")
    \/ ~AtCapacity(s) /\ Goto(t, "evict", s) /\ UNCHANGED tmp

(* Mutant of SetFind: a value that shrinks has a delta too.                *)
SetFindAnyDelta(t) ==
    LET k == op[t].k
        e == store.buckets[k]
        delta == ValBytes[op[t].v] - ValBytes[e.value]
    IN  /\ pc[t] = "body" /\ op[t].cmd = "SET"
        /\ \/ ~Has(store, k) /\ InsertNew(t, store)
           \/ /\ Has(store, k) /\ e.type = "string"
              /\ Goto(t, "delta", store) /\ tmp' = [tmp EXCEPT ![t] = delta]

(* kv_set_internal looks the key up without find_entry_unlocked: an        *)
(* expired entry counts as existing.                                       *)
SetFind(t) ==
    LET k == op[t].k
        v == op[t].v
        e == store.buckets[k]
        delta == ValBytes[v] - ValBytes[e.value]
    IN  /\ pc[t] = "body" /\ op[t].cmd = "SET"
        /\ \/ ~Has(store, k) /\ InsertNew(t, store)
           \/ Has(store, k) /\ e.type # "string" /\ Return(t, store, "WRONG_TYPE")
           \/ /\ Has(store, k) /\ e.type = "string"
              /\ IF store.max_memory_budget > 0 /\ delta > 0
                 THEN Goto(t, "delta", store) /\ tmp' = [tmp EXCEPT ![t] = delta]
                 ELSE Goto(t, "replace", store) /\ UNCHANGED tmp

(* Mutant of SetReplace: a key evicted meanwhile is not inserted again.    *)
SetReplaceGone(t) ==
    LET s == Replace(store, op[t].k, op[t].v)
    IN  /\ pc[t] = "replace"
        /\ \/ ~Has(store, op[t].k) /\ Return(t, store, "OK")
           \/ Has(store, op[t].k) /\ Goto(t, "peak2", s) /\ UNCHANGED tmp

(* The second lookup: the evictions may have taken the key itself.         *)
SetReplace(t) ==
    LET k == op[t].k
        v == op[t].v
        s == Replace(store, k, v)
    IN  /\ pc[t] = "replace"
        /\ \/ ~Has(store, k) /\ InsertNew(t, store)
           \/ /\ Has(store, k)
              /\ IF s.allocated_bytes > store.allocated_bytes
                 THEN Goto(t, "peak2", s) /\ UNCHANGED tmp
                 ELSE Return(t, s, "OK")
           \/ AllocMayFail /\ Has(store, k) /\ Return(t, store, "INTERNAL")

(* kv_lpush and kv_sadd: the entry, if it is there, is touched before the  *)
(* duplicate test of kv_sadd.                                              *)
PushFind(t) ==
    LET k == op[t].k
        s == Find(store, k, now)
    IN  /\ pc[t] = "body" /\ op[t].cmd \in {"LPUSH", "SADD"}
        /\ \/ ~Has(s, k) /\ InsertNew(t, s)
           \/ Has(s, k) /\ s.buckets[k].type # Container(op[t]) /\ Return(t, s, "WRONG_TYPE")
           \/ /\ Has(s, k) /\ s.buckets[k].type = Container(op[t])
              /\ IF op[t].cmd = "SADD" /\ op[t].v \in s.buckets[k].value
                 THEN Return(t, Touch(s, k), "DUPLICATE")
                 ELSE Goto(t, "node", Touch(s, k)) /\ UNCHANGED tmp

(* kv_evict_lru_unlocked in a budget loop: one entry of any bucket, also   *)
(* of buckets that t has not locked.                                       *)
EvictOne(t) ==
    /\ Evicting(t)
    /\ \E k \in Victims(store) : Goto(t, pc[t], Delete(store, k))
    /\ UNCHANGED tmp

(* The loop ended with nothing left to evict: KV_ERR_BUDGET_EXCEEDED.      *)
OutOfBudget(t) ==
    /\ pc[t] \in {"delta", "evict", "node"}
    /\ OverBudget(store, Need(t)) /\ (store.size = 0 \/ Victims(store) = {})
    /\ Return(t, store, "BUDGET_EXCEEDED")

WithinBudget(t) ==
    /\ pc[t] \in {"delta", "evict", "node"}
    /\ ~OverBudget(store, Need(t))
    /\ Goto(t, AfterLoop(t), store)
    /\ UNCHANGED tmp

(* tracked_malloc fails for the entry or for the node: nothing is undone.  *)
AllocFails(t) ==
    /\ AllocMayFail
    /\ pc[t] \in {"link", "push"}
    /\ Return(t, store, "INTERNAL")

LinkEntry(t) ==
    LET o == op[t] IN
    /\ pc[t] = "link"
    /\ \/ o.cmd = "SET" /\ Goto(t, "peak2", Link(store, o.k, "string", o.v, EntryNeed(o)))
       \/ o.cmd = "LPUSH" /\ Goto(t, "peak1", Link(store, o.k, "list", <<>>, EntryNeed(o)))
       \/ o.cmd = "SADD" /\ Goto(t, "peak1", Link(store, o.k, "set", {}, EntryNeed(o)))
    /\ UNCHANGED tmp

(* The entry may have been evicted since its pointer was taken, by the     *)
(* loop just before or by another thread.                                  *)
PushNode(t) ==
    /\ pc[t] = "push"
    /\ store' = Pushed(store, op[t])
    /\ undef' = (undef \/ ~Has(store, op[t].k))
    /\ pc' = [pc EXCEPT ![t] = "peak2"]
    /\ UNCHANGED <<lock, now, op, held, next, tmp, ret, calls>>

(* if (allocated_bytes > peak_allocated_bytes) peak = allocated: the load  *)
(* and the store of the assignment are two atomic accesses.                *)
PeakLoad(t) ==
    /\ pc[t] \in {"peak1", "peak2"}
    /\ LET above == store.allocated_bytes > store.peak_allocated_bytes
           first == pc[t] = "peak1"
       IN  \/ /\ above
              /\ Goto(t, IF first THEN "store1" ELSE "store2", store)
              /\ tmp' = [tmp EXCEPT ![t] = store.allocated_bytes]
           \/ ~above /\ first /\ Goto(t, "node", store) /\ UNCHANGED tmp
           \/ ~above /\ ~first /\ Return(t, store, "OK")

PeakStore(t) ==
    LET s == [store EXCEPT !.peak_allocated_bytes = tmp[t]] IN
    \/ pc[t] = "store1" /\ Goto(t, "node", s) /\ UNCHANGED tmp
    \/ pc[t] = "store2" /\ Return(t, s, "OK")

-----------------------------------------------------------------------------
(* The operations whose body is one step under the bucket lock.  Apart     *)
(* from their own key they change only size, allocated_bytes and lru_clock,*)
(* each by one atomic update.                                              *)
In(t, cmds) == pc[t] = "body" /\ op[t].cmd \in cmds

(* kv_get, kv_exists, kv_pttl, kv_llen, kv_scard, kv_smembers              *)
Read(t) ==
    LET k == op[t].k
        s == Find(store, k, now)
        e == s.buckets[k]
        touched == CASE op[t].cmd = "GET" -> e.type = "string"
                     [] op[t].cmd = "LLEN" -> e.type = "list"
                     [] op[t].cmd = "SCARD" -> e.type = "set"
                     [] op[t].cmd = "SMEMBERS" -> e.type = "set" /\ e.value # {}
                     [] OTHER -> FALSE
    IN  /\ In(t, Reads)
        /\ \/ ~Has(s, k) /\ Return(t, s, "NOT_FOUND")
           \/ Has(s, k) /\ Return(t, IF touched THEN Touch(s, k) ELSE s, "OK")

(* kv_delete: also an expired entry is found and deleted.                  *)
DeleteKey(t) ==
    LET k == op[t].k IN
    /\ In(t, {"DELETE"})
    /\ \/ Has(store, k) /\ Return(t, Delete(store, k), "OK")
       \/ ~Has(store, k) /\ Return(t, store, "NOT_FOUND")

(* kv_pexpireat (kv_expire and kv_pexpire compute its argument) and        *)
(* kv_persist.                                                             *)
SetExpiry(t) ==
    LET k == op[t].k
        s == Find(store, k, now)
        at == IF op[t].cmd = "PERSIST" THEN 0 ELSE op[t].at
        applies == Has(s, k) /\ (op[t].cmd = "PERSIST" => s.buckets[k].expire_at_ms # 0)
    IN  /\ In(t, {"PEXPIREAT", "PERSIST"})
        /\ \/ applies /\ Return(t, [s EXCEPT !.buckets[k].expire_at_ms = at], "OK")
           \/ ~applies /\ Return(t, s, "NOT_FOUND")

(* kv_rpop; ret = malloc(...) may fail before anything changes.            *)
Rpop(t) ==
    LET k == op[t].k
        s == Find(store, k, now)
        list == s.buckets[k].value
        n == Len(list)
    IN  /\ In(t, {"RPOP"})
        /\ \/ ~Has(s, k) /\ Return(t, s, "NOT_FOUND")
           \/ Has(s, k) /\ s.buckets[k].type # "list" /\ Return(t, s, "WRONG_TYPE")
           \/ /\ Has(s, k) /\ s.buckets[k].type = "list"
              /\ \/ n = 0 /\ Return(t, s, "NOT_FOUND")
                 \/ n > 0 /\ Return(t, Shrink(s, k, SubSeq(list, 1, n - 1), list[n], n = 1), "OK")
                 \/ n > 0 /\ AllocMayFail /\ Return(t, s, "INTERNAL")

(* kv_srem                                                                 *)
Srem(t) ==
    LET k == op[t].k
        v == op[t].v
        s == Find(store, k, now)
        set == s.buckets[k].value
    IN  /\ In(t, {"SREM"})
        /\ \/ ~Has(s, k) /\ Return(t, s, "NOT_FOUND")
           \/ Has(s, k) /\ s.buckets[k].type # "set" /\ Return(t, s, "WRONG_TYPE")
           \/ /\ Has(s, k) /\ s.buckets[k].type = "set"
              /\ \/ v \notin set /\ Return(t, s, "NOT_FOUND")
                 \/ v \in set /\ Return(t, Shrink(s, k, set \ {v}, v, set = {v}), "OK")

-----------------------------------------------------------------------------
(* The operations that hold all locks.                                     *)

(* kv_expire_sample_sweep(sample_size, max_keys_to_delete): the sampled    *)
(* pass empties the expired entries of the buckets it happens to visit,    *)
(* one bucket after the other, up to the limit n; the full scan follows    *)
(* when the sample is large (o.full) or found nothing.                     *)
Sweep(t) ==
    LET o == op[t]
        expired == {k \in Present(store) : IsExpired(store.buckets[k], now)}
        HalfSwept(D) ==
            { BucketOf(store, k) : k \in
                {j \in expired \ D : \E i \in D : BucketOf(store, i) = BucketOf(store, j)} }
    IN  /\ In(t, {"SWEEP"})
        /\ \E D \in SUBSET expired :
              /\ \/ Cardinality(D) = o.n /\ Cardinality(HalfSwept(D)) <= 1
                 \/ Cardinality(D) <= o.n /\ D = expired
                 \/ Cardinality(D) <= o.n /\ HalfSwept(D) = {} /\ D # {} /\ ~o.full
              /\ Return(t, DeleteAll(store, D), "OK")

(* kv_evict_lru                                                            *)
EvictLru(t) ==
    /\ In(t, {"EVICT"})
    /\ \/ store.size = 0 /\ Return(t, store, "NOT_FOUND")
       \/ store.size > 0 /\ \E k \in Victims(store) : Return(t, Delete(store, k), "OK")
       \/ store.size > 0 /\ Victims(store) = {} /\ Return(t, store, "INTERNAL")

(* kv_resize                                                               *)
Resize(t) ==
    LET n == op[t].n
        fits == ~OverBudget(store, n * PtrBytes)
    IN  /\ In(t, {"RESIZE"})
        /\ \/ fits /\ Return(t, Rehash(store, n), "OK")
           \/ ~fits /\ Return(t, store, "BUDGET_EXCEEDED")
           \/ fits /\ AllocMayFail /\ Return(t, store, "INTERNAL")

(* kv_set_max_capacity, kv_set_memory_budget, kv_set_auto_resize           *)
Configure(t) ==
    LET o == op[t] IN
    /\ In(t, {"CONFIG"})
    /\ \/ o.field = "max_capacity" /\ Return(t, [store EXCEPT !.max_capacity = o.n], "OK")
       \/ o.field = "max_memory_budget" /\ Return(t, [store EXCEPT !.max_memory_budget = o.n], "OK")
       \/ o.field = "auto_resize" /\ Return(t, [store EXCEPT !.auto_resize = (o.n # 0)], "OK")

-----------------------------------------------------------------------------
Tick == now < MaxTime /\ now' = now + 1
        /\ UNCHANGED <<store, lock, pc, op, held, next, tmp, ret, calls, undef>>

Step(t) ==
    \/ LockOne(t) \/ Escalate(t) \/ LockNext(t) \/ Grow(t)
    \/ SetFind(t) \/ SetReplace(t) \/ PushFind(t)
    \/ EvictOne(t) \/ OutOfBudget(t) \/ WithinBudget(t)
    \/ AllocFails(t) \/ LinkEntry(t) \/ PushNode(t) \/ PeakLoad(t) \/ PeakStore(t)
    \/ Read(t) \/ DeleteKey(t) \/ SetExpiry(t) \/ Rpop(t) \/ Srem(t)
    \/ Sweep(t) \/ EvictLru(t) \/ Resize(t) \/ Configure(t)

(* Between calls the threads may rest: the only state in which nothing     *)
(* needs to happen.                                                        *)
Rest == (\A t \in Threads : pc[t] = "idle") /\ UNCHANGED vars

Next ==
    \/ \E t \in Threads : Step(t) \/ \E o \in Ops : Invoke(t, o)
    \/ Tick
    \/ Rest

Spec == Init /\ [][Next]_vars

(* A thread inside a call keeps running, and a mutex that stays free is    *)
(* eventually given to a thread that waits for it.                         *)
FairSpec == Spec /\ \A t \in Threads : WF_vars(Step(t))

-----------------------------------------------------------------------------
Working(t) == pc[t] \in Inside

(* kv.h, bucket_locks: "protecting buckets and entries".  Two threads past *)
(* their locks never work on the same bucket, and a thread that holds all  *)
(* locks works alone.                                                      *)
BucketExclusive ==
    \A t, u \in Threads : t # u /\ Working(t) /\ Working(u) =>
        /\ held[t] = "bucket" /\ held[u] = "bucket"
        /\ BucketOf(store, op[t].k) # BucketOf(store, op[u].k)

(* size counts the entries of the table, across insertions, lazy and swept *)
(* expirations, evictions of any shard's entries and deletions.            *)
SizeExact == store.size = Cardinality(Present(store))

(* kv.h, allocated_bytes: "Total heap bytes currently owned by the store". *)
AccountingExact ==
    store.allocated_bytes = store.bucket_count * PtrBytes + Costs(store, Present(store))

(* Both hold, also at the limits and after failed allocations, as long as  *)
(* no race has broken a chain and no node went into a freed entry.         *)
ExactUntilUndef == undef \/ (SizeExact /\ AccountingExact)

(* kv.h, max_capacity: "Entry count capacity limit".  The test and size++  *)
(* are not atomic under a bucket lock, but every thread past its test      *)
(* inserts one entry: an insertion takes size past the limit by less than  *)
(* the number of threads.                                                  *)
CapacityBounded ==
    [][store'.size > store.size /\ store.max_capacity > 0 /\ ~undef'
          => store'.size <= store.max_capacity + Cardinality(Threads) - 1]_vars

(* kv.h, max_memory_budget: "Maximum memory budget in bytes".  Each other  *)
(* thread between its test and its addition can take allocated_bytes past  *)
(* the budget by what it adds at once, an entry or a node, and no more.    *)
LargestNeed == Max(UNION { {EntryNeed(o), NodeNeed(o)} : o \in {p \in Ops : p.cmd \in Growing} })
BudgetBounded ==
    [][store'.allocated_bytes > store.allocated_bytes /\ store.max_memory_budget > 0 /\ ~undef'
          => store'.allocated_bytes
                <= store.max_memory_budget + (Cardinality(Threads) - 1) * LargestNeed]_vars

(* kv_set: "if another thread updated size or allocated_bytes, escalate    *)
(* cleanly".  Entries of other shards are evicted only under all locks.    *)
EvictsUnderAllLocks ==
    [][\A t \in Threads : EvictOne(t) => held[t] = "all"]_vars

(* A call changes no key but its own, except to remove it (evictions and   *)
(* sweeps), and it changes its own key only while it holds that shard.     *)
KeyIsolation ==
    [][\A k \in Keys :
          Has(store', k) /\ (Has(store, k) => store'.buckets[k] # store.buckets[k]) =>
             \E t \in Threads : /\ Working(t) /\ pc'[t] # pc[t]
                                /\ op[t].cmd \notin Global /\ op[t].k = k
                                /\ lock[LockIndex(k)] = t]_vars

(* A call of t answers OK, and no other thread short of memory can have    *)
(* evicted its key meanwhile.                                              *)
AnswersOK(t) ==
    /\ pc[t] # "idle" /\ pc'[t] = "idle" /\ ret'[t] = "OK" /\ ~undef'
    /\ store.max_memory_budget = 0 \/ held[t] = "all"

(* kv.h, kv_set: "Sets a string key-value pair in the store".  When SET    *)
(* answers OK, the key reads as the value just set.                        *)
SetTakesEffect ==
    [][\A t \in Threads :
          AnswersOK(t) /\ op[t].cmd = "SET" =>
             /\ Has(store', op[t].k)
             /\ ~IsExpired(store'.buckets[op[t].k], now')
             /\ store'.buckets[op[t].k].value = op[t].v]_vars

(* kv.h, kv_lpush and kv_sadd; kv_rpop and kv_srem.  When LPUSH or SADD    *)
(* answers OK its element is the list's head or a member of the set; when  *)
(* RPOP or SREM does, no empty list or set is left under the key.          *)
ElementsTakeEffect ==
    [][\A t \in Threads :
          AnswersOK(t) =>
             LET o == op[t]
                 e == store'.buckets[o.k]
             IN  /\ o.cmd = "LPUSH" => Has(store', o.k) /\ Head(e.value) = o.v
                 /\ o.cmd = "SADD" => Has(store', o.k) /\ o.v \in e.value
                 /\ o.cmd = "RPOP" => (Has(store', o.k) => e.value # <<>>)
                 /\ o.cmd = "SREM" => (Has(store', o.k) => e.value # {})]_vars

(* A key that has not expired goes only by a call on that key or, with a   *)
(* memory budget or on request, by eviction: sweeps and lazy expiry spare  *)
(* live keys.                                                              *)
LiveKeysStay ==
    [][\A k \in Keys :
          Has(store, k) /\ ~Has(store', k) /\ ~IsExpired(store.buckets[k], now) =>
             \E t \in Threads : \/ op[t].cmd \in {"DELETE", "RPOP", "SREM"} /\ op[t].k = k
                                \/ op[t].cmd = "EVICT" /\ held[t] = "all"
                                \/ EvictOne(t)]_vars

(* With auto_resize and SET as the only insertion, the load factor exceeds *)
(* 3/4 at most by the insertions already under way in other threads.       *)
LoadBounded ==
    store.auto_resize =>
        store.size * 4 < store.bucket_count * 3 + 4 * (Cardinality(Threads) - 1)

(* Every call returns: ascending acquisition and dropping the bucket lock  *)
(* before asking for all locks leave no circular wait.                     *)
CallsReturn == \A t \in Threads : pc[t] # "idle" ~> pc[t] = "idle"
=============================================================================
