--------------------------- MODULE KvStoreLocks ----------------------------
(***************************************************************************)
(* The inductive invariant of KvStore for any number of threads, keys,     *)
(* buckets and locks and any set of calls: which mutexes a thread holds at *)
(* each step of a call, and that, until undef, size counts the entries and *)
(* a key about to be linked is absent.  The steps of a call are reduced to *)
(* two shapes, going on (Moves) and returning (Finishes), each with its    *)
(* effect on the table, and both are shown to keep the invariant.          *)
(***************************************************************************)
EXTENDS KvStore, KvDataProofs

(* What thread t holds, and how far its call has come.                     *)
ThreadOK(t) ==
    /\ pc[t] # "idle" => op[t] \in Ops
    /\ pc[t] \notin Inside => held[t] = "none"
    /\ pc[t] \in {"idle", "lockone"} => next[t] = 0
    /\ pc[t] = "lockone" => op[t].cmd \notin Global
    /\ pc[t] = "lockall" => /\ next[t] < NumLocks
                            /\ \A i \in Locks : i < next[t] => lock[i] = t
    /\ pc[t] \in Inside =>
         \/ /\ held[t] = "bucket" /\ pc[t] # "grow" /\ op[t].cmd \notin Global
            /\ lock[LockIndex(op[t].k)] = t
         \/ held[t] = "all" /\ \A i \in Locks : lock[i] = t
    /\ pc[t] \in Inside \ {"body"} => op[t].cmd \in Growing

LockInv ==
    /\ lock \in [Locks -> Threads \cup {NoThread}]
    /\ pc \in [Threads -> {"idle"} \cup Waiting \cup Inside]
    /\ op \in [Threads -> Ops \cup {NoOp}]
    /\ held \in [Threads -> {"none", "bucket", "all"}]
    /\ next \in [Threads -> 0 .. NumLocks]
    /\ \A t \in Threads : ThreadOK(t)

(* A key about to be linked is not there yet.                              *)
Absent == \A t \in Threads : pc[t] \in {"evict", "link"} => ~Has(store, op[t].k)

(* The inductive invariant.                                                *)
IInv ==
    /\ LockInv
    /\ Sound(store)
    /\ undef \in BOOLEAN
    /\ ~undef => Counted(store) /\ Absent

(* The keys a call may change: its own.                                    *)
Own(t) == IF op[t].cmd \in Global THEN {} ELSE {op[t].k}

Moves(t, p) == pc' = [pc EXCEPT ![t] = p] /\ UNCHANGED <<lock, op, held, next>>

Finishes(t) ==
    /\ pc' = [pc EXCEPT ![t] = "idle"]
    /\ op' = [op EXCEPT ![t] = NoOp]
    /\ held' = [held EXCEPT ![t] = "none"]
    /\ lock' = [i \in Locks |-> IF lock[i] = t THEN NoThread ELSE lock[i]]
    /\ next' = [next EXCEPT ![t] = 0]

(* The keys that a step of t may remove, and the race it may run into: a   *)
(* thread in the chain of one of them.                                     *)
Loses(t) == IF held[t] = "all" \/ Evicting(t) THEN Keys ELSE Own(t)
Race(t) == \E u \in Threads \ {t} : \E k \in Loses(t) : Walks(u, BucketOf(store, k))

(* A change of the table by t that links no key and changes none outside C.*)
Touches(t, C) ==
    /\ Within(store, store', C)
    /\ undef' \in BOOLEAN
    /\ ~undef' => ~undef /\ Exact(store, store', Loses(t))
    /\ undef' => undef \/ Race(t) \/ (pc[t] = "push" /\ ~Has(store, op[t].k))

(* Where kv_lpush and kv_sadd keep a pointer to the entry.                 *)
Holding == {"node", "push", "peak1", "store1"}

(* What holds when t has come to p: the key to be linked is absent and was *)
(* counted against the capacity, the entry pointed to is there.            *)
Arrives(t, p) ==
    /\ p \in {"evict", "link"} /\ ~undef' => ~Has(store', op[t].k)
    /\ p \in {"evict", "link"} => pc[t] \in {"evict", "link"} \/ ~AtCapacity(store')
    /\ p \in Holding /\ ~undef' /\ ~Evicting(t) =>
          Has(store', op[t].k) \/ (pc[t] \in Holding /\ ~Has(store, op[t].k))

(* A step of a call under its locks that links no key and keeps the        *)
(* buckets: it returns or goes on, and changes at most its own key; a step *)
(* that stays where it is (the eviction loop) changes none.                *)
Works(t) ==
    /\ pc[t] \in Inside
    /\ \/ Finishes(t) /\ Touches(t, Own(t))
       \/ \E p \in Inside \ {"grow", "body"} :
             /\ Moves(t, p) /\ op[t].cmd \in Growing
             /\ Touches(t, IF p = pc[t] THEN {} ELSE Own(t))
             /\ Arrives(t, p)

(* There is a mutex, and every key has one (kv_lock_index).                *)
LEMMA LockIndexType ==
    /\ NumLocks \in Nat \ {0} /\ 0 \in Locks
    /\ \A k \in Keys : LockIndex(k) \in Locks
BY StoreAssumption, DataAssumption
   DEF StoreAssumption, DataAssumption, NumLocks, Locks, LockIndex

(* The commands are pairwise disjoint classes.                             *)
LEMMA Classes ==
    ASSUME NEW o \in Ops
    PROVE  /\ o.cmd \in Growing => o.cmd \notin Global
           /\ o.cmd \in Reads \cup Writes => o.cmd \notin Global
           /\ o.cmd \notin Global => o.k \in Keys
BY StoreAssumption DEF StoreAssumption, Growing, Global, Reads, Writes

(* kv_init_full establishes the invariant.                                 *)
LEMMA InitIInv == Init => IInv
<1>. SUFFICES ASSUME Init PROVE IInv
  OBVIOUS
<1>1. IsStore(store) /\ store.bucket_count \in Nat \ {0} /\ store.size = 0
  BY StoreAssumption DEF Init, IsStore, StoreAssumption
<1>2. Present(store) = {}
  BY DEF Init, Present
<1>3. Sound(store) /\ Counted(store)
  BY <1>1, <1>2, FS_EmptySet DEF Sound, Counted
<1>4. LockInv
  BY LockIndexType DEF Init, LockInv, ThreadOK, Inside, Waiting
<1>5. undef \in BOOLEAN /\ Absent
  BY Zenon DEF Init, Absent
<1>. QED  BY <1>3, <1>4, <1>5 DEF IInv

(* Two threads under their locks hold different mutexes, whatever the      *)
(* table: at most one of two threads can hold a given shard.               *)
LEMMA ShardsDiffer ==
    ASSUME LockInv, NEW t \in Threads, NEW u \in Threads, t # u,
           pc[t] \in Inside, pc[u] \in Inside
    PROVE  /\ held[t] = "bucket" /\ held[u] = "bucket"
           /\ LockIndex(op[t].k) # LockIndex(op[u].k)
<1>1. ThreadOK(t) /\ ThreadOK(u)
  BY DEF LockInv
<1>2. op[t] \in Ops /\ op[u] \in Ops
  BY <1>1 DEF ThreadOK, Inside
<1>3. /\ op[t].cmd \notin Global => LockIndex(op[t].k) \in Locks
      /\ op[u].cmd \notin Global => LockIndex(op[u].k) \in Locks
  BY <1>2, Classes, LockIndexType
<1>4. 0 \in Locks
  BY LockIndexType
<1>. QED  BY <1>1, <1>3, <1>4 DEF ThreadOK

(* A step that goes on keeps every thread's locks.                         *)
LEMMA MovesLocks ==
    ASSUME LockInv, NEW t \in Threads, pc[t] \in Inside,
           NEW p \in Inside \ {"grow"}, Moves(t, p),
           p # "body" => op[t].cmd \in Growing
    PROVE  LockInv'
<1>1. /\ lock' \in [Locks -> Threads \cup {NoThread}]
      /\ pc' \in [Threads -> {"idle"} \cup Waiting \cup Inside]
      /\ op' \in [Threads -> Ops \cup {NoOp}]
      /\ held' \in [Threads -> {"none", "bucket", "all"}]
      /\ next' \in [Threads -> 0 .. NumLocks]
  BY DEF LockInv, Moves
<1>2. ASSUME NEW u \in Threads PROVE ThreadOK(u)'
  <2>1. ThreadOK(u) /\ ThreadOK(t)
    BY DEF LockInv
  <2>2. CASE u = t
    <3>1. pc'[t] = p
      BY DEF LockInv, Moves
    <3>. QED  BY <2>1, <2>2, <3>1 DEF ThreadOK, Moves, Inside, LockIndex
  <2>3. CASE u # t
    <3>1. pc'[u] = pc[u]
      BY <2>3 DEF LockInv, Moves
    <3>. QED  BY <2>1, <2>3, <3>1 DEF ThreadOK, Moves, LockIndex
  <2>. QED  BY <2>2, <2>3
<1>. QED  BY <1>1, <1>2 DEF LockInv

(* Returning releases this thread's mutexes and no other's.                *)
LEMMA FinishesLocks ==
    ASSUME LockInv, NEW t \in Threads, pc[t] \in Inside, Finishes(t)
    PROVE  LockInv'
<1>1. /\ lock' \in [Locks -> Threads \cup {NoThread}]
      /\ pc' \in [Threads -> {"idle"} \cup Waiting \cup Inside]
      /\ op' \in [Threads -> Ops \cup {NoOp}]
      /\ held' \in [Threads -> {"none", "bucket", "all"}]
      /\ next' \in [Threads -> 0 .. NumLocks]
  BY LockIndexType DEF LockInv, Finishes
<1>2. ASSUME NEW u \in Threads PROVE ThreadOK(u)'
  <2>1. ThreadOK(u)
    BY DEF LockInv
  <2>2. CASE u = t
    <3>1. pc'[t] = "idle" /\ held'[t] = "none" /\ next'[t] = 0
      BY DEF LockInv, Finishes
    <3>. QED  BY <2>2, <3>1 DEF ThreadOK, Inside
  <2>3. CASE u # t
    <3>1. pc'[u] = pc[u] /\ op'[u] = op[u] /\ held'[u] = held[u] /\ next'[u] = next[u]
      BY <2>3 DEF LockInv, Finishes
    <3>2. \A i \in Locks : lock[i] = u => lock'[i] = u
      BY <2>3 DEF Finishes
    <3>3. pc[u] \in Inside /\ op[u].cmd \notin Global => LockIndex(op[u].k) \in Locks
      BY <2>1, Classes, LockIndexType DEF ThreadOK, Inside
    <3>. QED  BY <2>1, <2>3, <3>1, <3>2, <3>3 DEF ThreadOK, LockIndex
  <2>. QED  BY <2>2, <2>3
<1>. QED  BY <1>1, <1>2 DEF LockInv

(* What a step of t does to where the threads are.                         *)
LEMMA StepPlaces ==
    ASSUME LockInv, NEW t \in Threads
    PROVE  /\ Finishes(t) => /\ pc'[t] = "idle"
                             /\ \A u \in Threads \ {t} : pc'[u] = pc[u] /\ op'[u] = op[u]
           /\ \A p : Moves(t, p) => /\ pc'[t] = p /\ op' = op
                                    /\ \A u \in Threads \ {t} : pc'[u] = pc[u]
<1>1. DOMAIN pc = Threads /\ DOMAIN op = Threads
  BY DEF LockInv
<1>. QED  BY <1>1 DEF Finishes, Moves, LockInv

(* A step under the locks keeps the invariant.                             *)
LEMMA WorksInv ==
    ASSUME IInv, NEW t \in Threads, Works(t)
    PROVE  IInv'
<1>0. LockInv /\ Sound(store)
  BY DEF IInv
<1>1. PICK C : Touches(t, C)
  BY DEF Works
<1>2. Sound(store)' /\ Present(store') \subseteq Present(store) /\ (undef \in BOOLEAN)'
  BY <1>0, <1>1, WithinSound DEF Touches, Within
<1>3. \A k : ~Has(store, k) => ~Has(store', k)
  BY <1>2 DEF Has
<1>4. CASE Finishes(t)
  <2>1. LockInv'
    BY <1>0, <1>4, FinishesLocks DEF Works
  <2>2. ASSUME ~undef' PROVE Counted(store)' /\ Absent'
    <3>1. Counted(store) /\ Absent /\ Counted(store)'
      BY <1>1, <2>2 DEF Touches, Exact, IInv
    <3>2. pc'[t] = "idle" /\ \A u \in Threads \ {t} : pc'[u] = pc[u] /\ op'[u] = op[u]
      BY <1>0, <1>4, StepPlaces
    <3>. QED  BY <1>3, <3>1, <3>2 DEF Absent
  <2>. QED  BY <1>2, <2>1, <2>2 DEF IInv
<1>5. CASE ~Finishes(t)
  <2>1. PICK p \in Inside \ {"grow", "body"} :
           Moves(t, p) /\ op[t].cmd \in Growing /\ Arrives(t, p)
    BY <1>5 DEF Works
  <2>2. LockInv'
    BY <1>0, <2>1, MovesLocks DEF Works
  <2>3. ASSUME ~undef' PROVE Counted(store)' /\ Absent'
    <3>1. Counted(store) /\ Absent /\ Counted(store)'
      BY <1>1, <2>3 DEF Touches, Exact, IInv
    <3>2. pc'[t] = p /\ op' = op /\ \A u \in Threads \ {t} : pc'[u] = pc[u]
      BY <1>0, <2>1, StepPlaces
    <3>3. p \in {"evict", "link"} => ~Has(store', op[t].k)
      BY <2>1, <2>3 DEF Arrives
    <3>. QED  BY <1>3, <3>1, <3>2, <3>3 DEF Absent
  <2>. QED  BY <1>2, <2>2, <2>3 DEF IInv
<1>. QED  BY <1>4, <1>5

(* A step that takes no thread past the start of its call.                 *)
Still ==
    \A u \in Threads : pc'[u] \in Inside \ {"grow", "body"} => pc'[u] = pc[u] /\ op'[u] = op[u]
Calm == store' = store /\ undef' = undef /\ Still

(* Such a step, if it links and unlinks nothing, keeps what the invariant  *)
(* says of the table.                                                      *)
LEMMA StillInv ==
    ASSUME IInv, Still, LockInv', Sound(store'), undef' = undef,
           store'.buckets = store.buckets, store'.size = store.size
    PROVE  IInv'
<1>1. \A u \in Threads : pc'[u] \in {"evict", "link"} => pc'[u] = pc[u] /\ op'[u] = op[u]
  BY DEF Still, Inside
<1>2. Present(store') = Present(store)
  BY DEF Present
<1>3. Absent => Absent'
  BY <1>1, <1>2 DEF Absent, Has
<1>4. Counted(store) => Counted(store)'
  BY <1>2 DEF Counted
<1>. QED  BY <1>3, <1>4 DEF IInv

(* kv_acquire_bucket_lock, its second test, and one turn of                *)
(* kv_acquire_all_locks keep the invariant.                                *)
LEMMA LockingInv ==
    ASSUME IInv, NEW t \in Threads, LockOne(t) \/ Escalate(t) \/ LockNext(t)
    PROVE  LockInv'
<1>. DEFINE Others == \A u \in Threads : u # t =>
               /\ pc'[u] = pc[u] /\ op'[u] = op[u] /\ held'[u] = held[u] /\ next'[u] = next[u]
               /\ \A i \in Locks : lock[i] = u => lock'[i] = u
<1>0. ThreadOK(t) /\ NoThread \notin Threads /\ NumLocks \in Nat \ {0} /\ Locks = 0 .. NumLocks - 1
  BY LockIndexType, StoreAssumption DEF IInv, LockInv, StoreAssumption, Locks
<1>2. ASSUME Others, NEW u \in Threads, u # t PROVE ThreadOK(u)'
  <2>1. ThreadOK(u)
    BY DEF IInv, LockInv
  <2>2. pc[u] \in Inside /\ op[u].cmd \notin Global => LockIndex(op[u].k) \in Locks
    BY <2>1, Classes, LockIndexType DEF ThreadOK, Inside
  <2>3. /\ pc'[u] = pc[u] /\ op'[u] = op[u] /\ held'[u] = held[u] /\ next'[u] = next[u]
        /\ \A i \in Locks : lock[i] = u => lock'[i] = u
    BY <1>2
  <2>4. LockIndex(op[u].k)' = LockIndex(op[u].k)
    BY <2>3 DEF LockIndex
  <2>. QED  BY <2>1, <2>2, <2>3, <2>4 DEF ThreadOK
<1>3. CASE LockOne(t)
  <2>0. op[t] \in Ops /\ op[t].cmd \notin Global /\ next[t] = 0
    BY <1>0, <1>3 DEF ThreadOK, LockOne
  <2>1. LockIndex(op[t].k) \in Locks
    BY <2>0, Classes, LockIndexType
  <2>2. Others
    BY <1>0, <1>3, <2>1 DEF LockOne, IInv, LockInv
  <2>3. ThreadOK(t)'
    <3>1. /\ pc'[t] = "body" /\ held'[t] = "bucket" /\ op'[t] = op[t]
          /\ lock'[LockIndex(op[t].k)] = t
      BY <1>3, <2>1 DEF LockOne, IInv, LockInv
    <3>. QED  BY <2>0, <3>1 DEF ThreadOK, Inside, LockIndex
  <2>4. /\ lock' \in [Locks -> Threads \cup {NoThread}]
        /\ pc' \in [Threads -> {"idle"} \cup Waiting \cup Inside]
        /\ op' \in [Threads -> Ops \cup {NoOp}]
        /\ held' \in [Threads -> {"none", "bucket", "all"}]
        /\ next' \in [Threads -> 0 .. NumLocks]
    BY <1>3, <2>1 DEF LockOne, IInv, LockInv, Inside
  <2>. QED  BY <1>2, <2>2, <2>3, <2>4 DEF LockInv
<1>4. CASE Escalate(t)
  <2>1. Others
    BY <1>4 DEF Escalate, IInv, LockInv
  <2>2. ThreadOK(t)'
    <3>1. /\ pc[t] = "lockone" /\ pc'[t] = "lockall"
          /\ op'[t] = op[t] /\ held'[t] = held[t] /\ next'[t] = next[t]
      BY <1>4 DEF Escalate, IInv, LockInv
    <3>2. op[t] \in Ops /\ held[t] = "none" /\ next[t] = 0
      BY <1>0, <3>1 DEF ThreadOK, Inside
    <3>3. \A i \in Locks : ~(i < 0)
      BY <1>0
    <3>. QED  BY <1>0, <3>1, <3>2, <3>3 DEF ThreadOK, Inside
  <2>3. /\ lock' \in [Locks -> Threads \cup {NoThread}]
        /\ pc' \in [Threads -> {"idle"} \cup Waiting \cup Inside]
        /\ op' \in [Threads -> Ops \cup {NoOp}]
        /\ held' \in [Threads -> {"none", "bucket", "all"}]
        /\ next' \in [Threads -> 0 .. NumLocks]
    BY <1>4 DEF Escalate, IInv, LockInv, Waiting
  <2>. QED  BY <1>2, <2>1, <2>2, <2>3 DEF LockInv
<1>5. CASE LockNext(t)
  <2>0. next[t] \in 0 .. NumLocks /\ next[t] < NumLocks /\ \A i \in Locks : i < next[t] => lock[i] = t
    BY <1>0, <1>5 DEF LockNext, IInv, LockInv, ThreadOK
  <2>1. next[t] \in Locks /\ next[t] \in Nat
    BY <1>0, <2>0
  <2>2. Others
    BY <1>0, <1>5, <2>1 DEF LockNext, IInv, LockInv
  <2>3. \A i \in Locks : i < next[t] + 1 => lock'[i] = t
    <3>1. \A i \in Locks : i = next[t] \/ lock[i] = t => lock'[i] = t
      BY <1>5, <2>1 DEF LockNext, IInv, LockInv
    <3>2. \A i \in Locks : i < next[t] + 1 => i = next[t] \/ i < next[t]
      BY <1>0, <2>1
    <3>. QED  BY <2>0, <3>1, <3>2, Zenon
  <2>4. ThreadOK(t)'
    <3>1. CASE next[t] + 1 < NumLocks
      <4>1. pc'[t] = "lockall" /\ held'[t] = held[t] /\ op'[t] = op[t] /\ next'[t] = next[t] + 1
        BY <1>5, <3>1 DEF LockNext, IInv, LockInv
      <4>. QED  BY <1>0, <1>5, <2>3, <3>1, <4>1 DEF LockNext, ThreadOK, Inside
    <3>2. CASE ~(next[t] + 1 < NumLocks)
      <4>1. /\ pc'[t] = IF op[t].cmd = "SET" THEN "grow" ELSE "body"
            /\ held'[t] = "all" /\ op'[t] = op[t]
        BY <1>5, <3>2 DEF LockNext, IInv, LockInv
      <4>2. \A i \in Locks : lock'[i] = t
        BY <1>0, <2>1, <2>3, <3>2
      <4>. QED  BY <1>0, <1>5, <4>1, <4>2 DEF LockNext, ThreadOK, Inside, Growing
    <3>. QED  BY <3>1, <3>2
  <2>5. /\ lock' \in [Locks -> Threads \cup {NoThread}]
        /\ pc' \in [Threads -> {"idle"} \cup Waiting \cup Inside]
        /\ op' \in [Threads -> Ops \cup {NoOp}]
        /\ held' \in [Threads -> {"none", "bucket", "all"}]
        /\ next' \in [Threads -> 0 .. NumLocks]
    <3>1. next'[t] \in 0 .. NumLocks /\ next' = [next EXCEPT ![t] = next[t] + 1]
      BY <1>0, <1>5, <2>1 DEF LockNext, IInv, LockInv
    <3>2. next' \in [Threads -> 0 .. NumLocks]
      BY <3>1 DEF IInv, LockInv
    <3>3. pc' \in [Threads -> {"idle"} \cup Waiting \cup Inside]
      BY <1>5 DEF LockNext, IInv, LockInv, Inside
    <3>4. held' \in [Threads -> {"none", "bucket", "all"}]
      BY <1>5 DEF LockNext, IInv, LockInv
    <3>. QED  BY <1>5, <2>1, <3>2, <3>3, <3>4 DEF LockNext, IInv, LockInv
  <2>. QED  BY <1>2, <2>2, <2>4, <2>5 DEF LockInv
<1>. QED  BY <1>3, <1>4, <1>5

(* Taking locks changes nothing else.                                      *)
LEMMA LockingCalm ==
    ASSUME LockInv, NEW t \in Threads, LockOne(t) \/ Escalate(t) \/ LockNext(t)
    PROVE  Calm
<1>1. DOMAIN pc = Threads /\ UNCHANGED <<store, undef, op>>
  BY DEF LockInv, LockOne, Escalate, LockNext
<1>2. PICK p : /\ pc' = [pc EXCEPT ![t] = p] \/ pc' = pc
               /\ p \in {"grow", "body", "lockall"}
  BY DEF LockOne, Escalate, LockNext
<1>. QED  BY <1>1, <1>2 DEF Calm, Still, Inside

(* Starting a call keeps the invariant: nothing is locked yet.             *)
LEMMA InvokeInv ==
    ASSUME IInv, NEW t \in Threads, NEW o \in Ops, Invoke(t, o)
    PROVE  LockInv' /\ Calm
<1>1. /\ lock' \in [Locks -> Threads \cup {NoThread}]
      /\ pc' \in [Threads -> {"idle"} \cup Waiting \cup Inside]
      /\ op' \in [Threads -> Ops \cup {NoOp}]
      /\ held' \in [Threads -> {"none", "bucket", "all"}]
      /\ next' \in [Threads -> 0 .. NumLocks]
  BY DEF Invoke, IInv, LockInv, Waiting
<1>2. ASSUME NEW u \in Threads PROVE ThreadOK(u)'
  <2>1. ThreadOK(u) /\ ThreadOK(t)
    BY DEF IInv, LockInv
  <2>2. CASE u = t
    <3>1. /\ op'[t] = o /\ held'[t] = "none" /\ next'[t] = 0
          /\ pc'[t] \in {"lockone", "lockall"}
          /\ pc'[t] = "lockone" => o.cmd \notin Global
      BY <2>1 DEF Invoke, IInv, LockInv, ThreadOK, Inside
    <3>. QED  BY <2>2, <3>1, LockIndexType DEF ThreadOK, Inside, Locks
  <2>3. CASE u # t
    <3>1. /\ pc'[u] = pc[u] /\ op'[u] = op[u] /\ held'[u] = held[u] /\ next'[u] = next[u]
          /\ lock' = lock
      BY <2>3 DEF Invoke, IInv, LockInv
    <3>. QED  BY <2>1, <3>1 DEF ThreadOK, LockIndex
  <2>. QED  BY <2>2, <2>3
<1>3. Calm
  <2>1. DOMAIN pc = Threads /\ DOMAIN op = Threads /\ UNCHANGED <<store, undef>>
    BY DEF Invoke, IInv, LockInv
  <2>2. op' = [op EXCEPT ![t] = o] /\ \E p \in Waiting : pc' = [pc EXCEPT ![t] = p]
    BY DEF Invoke, Waiting
  <2>. QED  BY <2>1, <2>2 DEF Calm, Still, Inside, Waiting
<1>. QED  BY <1>1, <1>2, <1>3 DEF LockInv

(* What Change makes of a step that would remove no more than Loses(t).    *)
LEMMA ChangeTouches ==
    ASSUME IInv, NEW t \in Threads, NEW s, NEW C, Effect(store, s, C, Loses(t)), Change(t, s)
    PROVE  /\ Touches(t, C)
           /\ ~undef' => store' = s
           /\ AtCapacity(store') => AtCapacity(s)
<1>. DEFINE B == Disturbed(t, s)
<1>0. undef \in BOOLEAN /\ Within(store, s, C) /\ Exact(store, s, Loses(t))
  BY DEF IInv, Effect
<1>1. /\ undef' = (undef \/ B # {})
      /\ B = {} => store' = s
      /\ B # {} => store' \in Torn(store, s, B)
  BY DEF Change
<1>2. B # {} => Race(t)
  BY <1>0 DEF Disturbed, Race, Within, Exact
<1>. HIDE DEF B
<1>3. /\ undef' \in BOOLEAN
      /\ ~undef' => ~undef /\ B = {}
      /\ undef' => undef \/ B # {}
  BY <1>0, <1>1, Zenon
<1>4. Within(store, store', C)
  BY <1>0, <1>1, TornWithin
<1>5. AtCapacity(store') => AtCapacity(s)
  <2>1. IsStore(s)
    BY <1>0 DEF Within
  <2>2. B # {} => store'.size = s.size /\ SameLimits(s, store')
    BY <1>1, <2>1, TornCounters
  <2>. QED  BY <1>1, <2>2 DEF AtCapacity, SameLimits
<1>. QED  BY <1>0, <1>1, <1>2, <1>3, <1>4, <1>5, Zenon DEF Touches

(* A call that returns has worked, if its effect is on its own key.        *)
LEMMA ReturnWorks ==
    ASSUME IInv, NEW t \in Threads, pc[t] \in Inside, NEW s, NEW r, Return(t, s, r),
           Effect(store, s, Own(t), Loses(t))
    PROVE  Works(t)
<1>1. Change(t, s) /\ Finishes(t)
  BY DEF Return, Finishes
<1>. QED  BY <1>1, ChangeTouches, Zenon DEF Works

(* So has a call of a growing operation that goes on.                      *)
LEMMA GotoWorks ==
    ASSUME IInv, NEW t \in Threads, pc[t] \in Inside, NEW p \in Inside \ {"grow", "body"}, NEW s,
           Goto(t, p, s), op[t].cmd \in Growing,
           p \in {"evict", "link"} /\ ~undef' => ~Has(s, op[t].k),
           p \in {"evict", "link"} => pc[t] \in {"evict", "link"} \/ ~AtCapacity(s),
           p \in Holding /\ ~Evicting(t) =>
              Has(s, op[t].k) \/ (pc[t] \in Holding /\ ~Has(store, op[t].k)),
           Effect(store, s, IF p = pc[t] THEN {} ELSE Own(t), Loses(t))
    PROVE  Works(t)
<1>. DEFINE C == IF p = pc[t] THEN {} ELSE Own(t)
<1>1. Change(t, s) /\ Moves(t, p)
  BY DEF Goto, Moves
<1>2. Touches(t, C) /\ (~undef' => store' = s) /\ (AtCapacity(store') => AtCapacity(s))
  BY <1>1, ChangeTouches, Zenon
<1>3. Arrives(t, p)
  BY <1>2, Zenon DEF Arrives
<1>. QED  BY <1>1, <1>2, <1>3, Zenon DEF Works
=============================================================================
