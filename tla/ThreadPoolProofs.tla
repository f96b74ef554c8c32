-------------------------- MODULE ThreadPoolProofs --------------------------
(***************************************************************************)
(* Safety of the thread pool for any number of workers, tasks and slots.   *)
(* IInv is inductive: type correctness, the life-cycle facts of PoolInv,   *)
(* the placement of tasks (ExactlyOnce), the wakeup count (NoIdleBacklog)  *)
(* and the absence of sleepers after shutdown.                             *)
(***************************************************************************)
EXTENDS ThreadPool, FiniteSetTheorems, SequenceTheorems, TLAPS

IInv ==
    /\ TypeOK
    /\ PoolInv
    /\ ExactlyOnce
    /\ NoIdleBacklog
    /\ NoSleeperAfterShutdown
    /\ DrainedWhenFreed

-----------------------------------------------------------------------------
(* Arithmetic of the ring.                                                 *)

(* queue_head + 1 or queue_tail + 1 short of the end of the ring.          *)
LEMMA ModSmall ==
    ASSUME NEW C \in Nat \ {0}, NEW a \in Nat, a < C
    PROVE  a % C = a
  OBVIOUS

(* An index that wraps around the ring once.                               *)
LEMMA ModWrap ==
    ASSUME NEW C \in Nat \ {0}, NEW a \in Nat, a >= C, a < C + C
    PROVE  a % C = a - C
  OBVIOUS

(* The slot of the i-th queued task, for i up to a full ring.              *)
LEMMA SlotCases ==
    ASSUME NEW h \in Slots, NEW i \in 0 .. Capacity
    PROVE  /\ (h + i) % Capacity \in Slots
           /\ h + i < Capacity => (h + i) % Capacity = h + i
           /\ h + i >= Capacity => (h + i) % Capacity = h + i - Capacity
<1>1. Capacity \in Nat \ {0} /\ h \in Nat /\ h < Capacity /\ i \in Nat /\ i <= Capacity
  BY PoolAssumption DEF Slots
<1>2. CASE h + i < Capacity
  BY <1>1, <1>2, ModSmall DEF Slots
<1>3. CASE h + i >= Capacity
  <2> DEFINE a == h + i
  <2>0. a \in Nat /\ a >= Capacity /\ a < Capacity + Capacity
    BY <1>1, <1>3
  <2> HIDE DEF a
  <2>1. a % Capacity = a - Capacity
    BY <1>1, <2>0, ModWrap
  <2> USE DEF a
  <2>2. QED
    BY <1>1, <1>3, <2>1 DEF Slots
<1>4. QED
  BY <1>1, <1>2, <1>3

(* Taking a task moves the head by one and leaves the tail where it is.    *)
LEMMA RingTake ==
    ASSUME NEW h \in Slots, NEW n \in 0 .. Capacity, n > 0
    PROVE  (((h + 1) % Capacity) + (n - 1)) % Capacity = (h + n) % Capacity
<1>1. /\ Capacity \in Nat \ {0} /\ h \in Nat /\ h < Capacity
      /\ 1 \in 0 .. Capacity /\ n - 1 \in 0 .. Capacity
  BY PoolAssumption DEF Slots
<1> DEFINE g == (h + 1) % Capacity
           m == n - 1
<1>2. /\ g \in Slots /\ m \in 0 .. Capacity
      /\ g = IF h + 1 < Capacity THEN h + 1 ELSE h + 1 - Capacity
  BY <1>1, SlotCases
<1>3. m = n - 1
  OBVIOUS
<1> HIDE DEF g, m
<1>4. /\ g + m < Capacity => (g + m) % Capacity = g + m
      /\ g + m >= Capacity => (g + m) % Capacity = g + m - Capacity
  BY <1>2, SlotCases
<1>5. /\ h + n < Capacity => (h + n) % Capacity = h + n
      /\ h + n >= Capacity => (h + n) % Capacity = h + n - Capacity
  BY SlotCases
<1>a. g \in Nat /\ m \in Nat /\ n \in Nat
  BY <1>1, <1>2 DEF Slots
<1>6. CASE h + 1 < Capacity
  BY <1>1, <1>2, <1>3, <1>4, <1>5, <1>6, <1>a DEF g, m
<1>8. CASE h + 1 >= Capacity
  BY <1>1, <1>2, <1>3, <1>4, <1>5, <1>8, <1>a DEF g, m
<1>9. QED
  BY <1>1, <1>6, <1>8

(* Submitting occupies one more slot, and that slot was free.              *)
LEMMA SlotsGrow ==
    ASSUME NEW h \in Slots, NEW n \in 0 .. Capacity - 1
    PROVE  /\ SlotsFrom(h, n + 1) = SlotsFrom(h, n) \cup {(h + n) % Capacity}
           /\ (h + n) % Capacity \notin SlotsFrom(h, n)
<1>1. 0 .. (n + 1) - 1 = (0 .. n - 1) \cup {n}
  BY PoolAssumption
<1>2. SlotsFrom(h, n + 1) = SlotsFrom(h, n) \cup {(h + n) % Capacity}
  BY <1>1 DEF SlotsFrom
<1>3. ASSUME NEW i \in 0 .. n - 1 PROVE (h + i) % Capacity # (h + n) % Capacity
  <2>1. i \in 0 .. Capacity /\ n \in 0 .. Capacity /\ i < n /\ n < Capacity
    BY PoolAssumption
  <2>2. /\ h + i < Capacity => (h + i) % Capacity = h + i
        /\ h + i >= Capacity => (h + i) % Capacity = h + i - Capacity
        /\ h + n < Capacity => (h + n) % Capacity = h + n
        /\ h + n >= Capacity => (h + n) % Capacity = h + n - Capacity
    BY <2>1, SlotCases
  <2>3. QED
    BY <2>1, <2>2, PoolAssumption DEF Slots
<1>4. QED
  BY <1>2, <1>3 DEF SlotsFrom

(* Taking the head frees its slot and leaves the others occupied.          *)
LEMMA SlotsShrink ==
    ASSUME NEW h \in Slots, NEW n \in 1 .. Capacity
    PROVE  /\ SlotsFrom((h + 1) % Capacity, n - 1) = SlotsFrom(h, n) \ {h}
           /\ h \in SlotsFrom(h, n)
<1> DEFINE g == (h + 1) % Capacity
<1>1. g \in Slots /\ n - 1 \in 0 .. Capacity - 1
  BY PoolAssumption, SlotCases DEF Slots
<1>2. ASSUME NEW i \in 0 .. n - 2
      PROVE  (g + i) % Capacity = (h + (i + 1)) % Capacity
  <2>1. i \in 0 .. Capacity /\ i + 1 \in 0 .. Capacity /\ 1 \in 0 .. Capacity
    BY PoolAssumption
  <2>2. /\ h + 1 < Capacity => g = h + 1
        /\ h + 1 >= Capacity => g = h + 1 - Capacity
    BY <2>1, SlotCases
  <2>3. /\ g + i < Capacity => (g + i) % Capacity = g + i
        /\ g + i >= Capacity => (g + i) % Capacity = g + i - Capacity
    BY <2>1, <1>1, SlotCases
  <2>4. /\ h + (i + 1) < Capacity => (h + (i + 1)) % Capacity = h + (i + 1)
        /\ h + (i + 1) >= Capacity => (h + (i + 1)) % Capacity = h + (i + 1) - Capacity
    BY <2>1, SlotCases
  <2> HIDE DEF g
  <2>5. QED
    BY <2>2, <2>3, <2>4, <1>1, PoolAssumption DEF Slots
<1>3. ASSUME NEW i \in 1 .. n - 1 PROVE (h + i) % Capacity # h
  <2>1. i \in 0 .. Capacity /\ i < Capacity
    BY PoolAssumption
  <2>2. /\ h + i < Capacity => (h + i) % Capacity = h + i
        /\ h + i >= Capacity => (h + i) % Capacity = h + i - Capacity
    BY <2>1, SlotCases
  <2>3. QED
    BY <2>1, <2>2, PoolAssumption DEF Slots
<1>4. (h + 0) % Capacity = h
  BY PoolAssumption, ModSmall DEF Slots
<1>5. SlotsFrom(g, n - 1) \subseteq SlotsFrom(h, n) \ {h}
  <2> SUFFICES ASSUME NEW i \in 0 .. (n - 1) - 1
               PROVE  (g + i) % Capacity \in SlotsFrom(h, n) \ {h}
    BY DEF SlotsFrom
  <2>1. i \in 0 .. n - 2 /\ i + 1 \in 1 .. n - 1 /\ i + 1 \in 0 .. n - 1
    BY PoolAssumption
  <2>2. QED
    BY <2>1, <1>2, <1>3 DEF SlotsFrom
<1>6. SlotsFrom(h, n) \ {h} \subseteq SlotsFrom(g, n - 1)
  <2> SUFFICES ASSUME NEW i \in 0 .. n - 1, (h + i) % Capacity # h
               PROVE  (h + i) % Capacity \in SlotsFrom(g, n - 1)
    BY DEF SlotsFrom
  <2>1. i # 0
    BY <1>4
  <2>2. i - 1 \in 0 .. n - 2 /\ i - 1 \in 0 .. (n - 1) - 1 /\ (i - 1) + 1 = i
    BY <2>1, PoolAssumption
  <2>3. (g + (i - 1)) % Capacity = (h + i) % Capacity
    BY <2>2, <1>2
  <2>4. QED
    BY <2>2, <2>3 DEF SlotsFrom
<1>7. h \in SlotsFrom(h, n)
  BY <1>4, PoolAssumption DEF SlotsFrom
<1>8. QED
  BY <1>5, <1>6, <1>7

(* Occupied slots are slots.                                               *)
LEMMA SlotsInRing ==
    ASSUME NEW h \in Slots, NEW n \in 0 .. Capacity
    PROVE  SlotsFrom(h, n) \subseteq Slots
<1>1. ASSUME NEW i \in 0 .. n - 1 PROVE (h + i) % Capacity \in Slots
  <2>1. i \in 0 .. Capacity
    BY PoolAssumption
  <2>2. QED
    BY <2>1, SlotCases
<1>2. QED
  BY <1>1 DEF SlotsFrom

-----------------------------------------------------------------------------
(* The pool starts in a state of IInv.                                     *)
LEMMA InitIInv == Init => IInv
<1> SUFFICES ASSUME Init PROVE IInv
  OBVIOUS
<1> USE PoolAssumption DEF Init
<1>1. TypeOK
  <2>1. 0 \in Slots /\ 0 \in 0 .. Capacity
    BY DEF Slots
  <2>2. shutdown \in BOOLEAN
    OBVIOUS
  <2>3. QED
    BY <2>1, <2>2, Zenon DEF TypeOK, WorkerStates, OwnerStates
<1>2. \A s \in WorkerStates \ {"absent"} : InState(s) = {}
  BY DEF InState
<1>3. Occupied = {} /\ Queued = {} /\ Taken = {}
  <2>1. 0 .. 0 - 1 = {}
    OBVIOUS
  <2>2. Occupied = {}
    BY <2>1 DEF Occupied, SlotsFrom
  <2>3. QED
    BY <2>2, <1>2 DEF Queued, Taken, WorkerStates
<1>4. PoolInv
  <2>1. (0 + 0) % Capacity = 0
    BY ModSmall
  <2>2. QED
    BY <1>2, <2>1 DEF PoolInv, WorkerStates
<1>5. ExactlyOnce
  BY <1>2, <1>3 DEF ExactlyOnce, WorkerStates
<1>6. NoIdleBacklog /\ NoSleeperAfterShutdown /\ DrainedWhenFreed
  BY <1>2 DEF NoIdleBacklog, NoSleeperAfterShutdown, DrainedWhenFreed, WorkerStates
<1>7. QED
  BY <1>1, <1>4, <1>5, <1>6 DEF IInv

(* Every operation of the pool keeps the types.                            *)
LEMMA TypeStep == IInv /\ [Next]_vars => TypeOK'
<1> SUFFICES ASSUME IInv, [Next]_vars PROVE TypeOK'
  OBVIOUS
<1> TypeOK /\ ExactlyOnce
  BY DEF IInv
<1> USE PoolAssumption DEF TypeOK, WorkerStates, OwnerStates, ring, history
<1>0. \A x \in Slots : (x + 1) % Capacity \in Slots
  <2>1. 1 \in 0 .. Capacity
    OBVIOUS
  <2>2. QED
    BY <2>1, SlotCases
<1>1. ASSUME NEW w \in Workers, SpawnWorker(w) PROVE TypeOK'
  BY <1>1 DEF SpawnWorker
<1>2. ASSUME NEW w \in Workers, Wait(w) PROVE TypeOK'
  BY <1>2 DEF Wait
<1>3. ASSUME NEW w \in Workers, Exit(w) PROVE TypeOK'
  BY <1>3 DEF Exit
<1>4. ASSUME NEW w \in Workers, Take(w) PROVE TypeOK'
  BY <1>4, <1>0 DEF Take
<1>5. ASSUME NEW w \in Workers, Run(w) PROVE TypeOK'
  <2>1. task[w] \in Tasks
    BY <1>5 DEF Run, ExactlyOnce, Taken, InState
  <2>2. QED
    BY <1>5, <2>1 DEF Run
<1>6. ASSUME NEW w \in Workers, SpuriousWakeup(w) PROVE TypeOK'
  BY <1>6 DEF SpuriousWakeup
<1>7. ASSUME NEW t \in Tasks, Submit(t) PROVE TypeOK'
  <2>1. pc' \in [Workers -> WorkerStates]
    BY <1>7 DEF Submit, Signal, InState
  <2>2. QED
    BY <1>7, <1>0, <2>1 DEF Submit
<1>8. ASSUME NEW t \in Tasks, SubmitRefused(t) PROVE TypeOK'
  BY <1>8 DEF SubmitRefused
<1>9. CASE SpawnFails
  BY <1>9 DEF SpawnFails, Broadcast
<1>10. CASE Destroy
  BY <1>10 DEF Destroy, Broadcast
<1>11. CASE Free
  BY <1>11 DEF Free
<1>12. CASE UNCHANGED vars
  BY <1>12 DEF vars
<1>13. QED
  BY <1>1, <1>2, <1>3, <1>4, <1>5, <1>6, <1>7, <1>8, <1>9, <1>10, <1>11, <1>12
  DEF Next, WorkerStep

(* Life-cycle facts: creation, shutdown, join and free.                    *)
LEMMA PoolStep == IInv /\ [Next]_vars => PoolInv'
<1> SUFFICES ASSUME IInv, [Next]_vars PROVE PoolInv'
  OBVIOUS
<1> TypeOK /\ PoolInv
  BY DEF IInv
<1> USE PoolAssumption DEF TypeOK, InState, WorkerStates, OwnerStates, ring, history
<1>1. ASSUME NEW w \in Workers, SpawnWorker(w) PROVE PoolInv'
  BY <1>1 DEF SpawnWorker, PoolInv
<1>2. ASSUME NEW w \in Workers, Wait(w) PROVE PoolInv'
  BY <1>2 DEF Wait, PoolInv
<1>3. ASSUME NEW w \in Workers, Exit(w) PROVE PoolInv'
  BY <1>3 DEF Exit, PoolInv
<1>4. ASSUME NEW w \in Workers, Take(w) PROVE PoolInv'
  <2>1. queue_tail' = (queue_head' + queue_count') % Capacity
    BY <1>4, RingTake DEF Take, PoolInv
  <2>2. QED
    BY <1>4, <2>1 DEF Take, PoolInv
<1>5. ASSUME NEW w \in Workers, Run(w) PROVE PoolInv'
  BY <1>5 DEF Run, PoolInv
<1>6. ASSUME NEW w \in Workers, SpuriousWakeup(w) PROVE PoolInv'
  BY <1>6 DEF SpuriousWakeup, PoolInv
<1>7. ASSUME NEW t \in Tasks, Submit(t) PROVE PoolInv'
  <2>1. queue_tail' = (queue_head' + queue_count') % Capacity
    <3>1. queue_tail = (queue_head + queue_count) % Capacity
      BY DEF PoolInv
    <3>2. /\ queue_head \in Slots /\ queue_count \in 0 .. Capacity /\ queue_count < Capacity
          /\ queue_head' = queue_head /\ queue_count' = queue_count + 1
          /\ queue_tail' = (queue_tail + 1) % Capacity /\ queue_tail \in Slots
      BY <1>7 DEF Submit
    <3>3. 1 \in 0 .. Capacity /\ queue_count + 1 \in 0 .. Capacity
      BY <3>2
    <3>4. /\ queue_tail + 1 < Capacity => queue_tail' = queue_tail + 1
          /\ queue_tail + 1 >= Capacity => queue_tail' = queue_tail + 1 - Capacity
      BY <3>2, <3>3, SlotCases
    <3>5. /\ queue_head + queue_count < Capacity => queue_tail = queue_head + queue_count
          /\ queue_head + queue_count >= Capacity => queue_tail = queue_head + queue_count - Capacity
      BY <3>1, <3>2, SlotCases
    <3> DEFINE r == (queue_head + (queue_count + 1)) % Capacity
    <3>6. /\ queue_head + (queue_count + 1) < Capacity => r = queue_head + (queue_count + 1)
          /\ queue_head + (queue_count + 1) >= Capacity
             => r = queue_head + (queue_count + 1) - Capacity
      BY <3>2, <3>3, SlotCases
    <3> HIDE DEF r
    <3>7. queue_tail' = r
      BY <3>2, <3>3, <3>4, <3>5, <3>6 DEF Slots
    <3> USE DEF r
    <3>8. QED
      BY <3>2, <3>7
  <2>2. \A w \in Workers : pc'[w] = pc[w] \/ (pc[w] = "waiting" /\ pc'[w] = "ready")
    BY <1>7 DEF Submit, Signal
  <2>3. QED
    BY <1>7, <2>1, <2>2 DEF Submit, PoolInv
<1>8. ASSUME NEW t \in Tasks, SubmitRefused(t) PROVE PoolInv'
  BY <1>8 DEF SubmitRefused, PoolInv
<1>9. CASE SpawnFails
  BY <1>9 DEF SpawnFails, Broadcast, PoolInv
<1>10. CASE Destroy
  BY <1>10 DEF Destroy, Broadcast, PoolInv
<1>11. CASE Free
  BY <1>11 DEF Free, PoolInv
<1>12. CASE UNCHANGED vars
  BY <1>12 DEF vars, PoolInv
<1>13. QED
  BY <1>1, <1>2, <1>3, <1>4, <1>5, <1>6, <1>7, <1>8, <1>9, <1>10, <1>11, <1>12
  DEF Next, WorkerStep

-----------------------------------------------------------------------------
(* Counting the awake workers.                                             *)

(* The set of awake workers is finite.                                     *)
LEMMA ReadyFinite == IsFiniteSet(InState("ready")) /\ Cardinality(InState("ready")) \in Nat
<1>1. IsFiniteSet(InState("ready"))
  BY PoolAssumption, FS_Subset DEF InState
<1>2. QED
  BY <1>1, FS_CardinalityType

(* A worker that wakes, is spawned or finishes its task is one more.       *)
LEMMA ReadyGains ==
    ASSUME TypeOK, NEW w \in Workers, pc[w] # "ready",
           pc' = [pc EXCEPT ![w] = "ready"]
    PROVE  Cardinality(InState("ready")') = Cardinality(InState("ready")) + 1
<1>1. InState("ready")' = InState("ready") \cup {w} /\ w \notin InState("ready")
  BY DEF InState, TypeOK
<1>2. QED
  BY <1>1, ReadyFinite, FS_AddElement

(* A worker that takes a task is one less.                                 *)
LEMMA ReadyLoses ==
    ASSUME TypeOK, NEW w \in Workers, pc[w] = "ready", NEW s, s # "ready",
           pc' = [pc EXCEPT ![w] = s]
    PROVE  Cardinality(InState("ready")') = Cardinality(InState("ready")) - 1
<1>1. InState("ready")' = InState("ready") \ {w} /\ w \in InState("ready")
  BY DEF InState, TypeOK
<1>2. QED
  BY <1>1, ReadyFinite, FS_RemoveElement

(* No lost wakeup and no sleeper after shutdown are kept together.         *)
LEMMA WakeStep == IInv /\ [Next]_vars => (NoIdleBacklog /\ NoSleeperAfterShutdown)'
<1> SUFFICES ASSUME IInv, [Next]_vars PROVE (NoIdleBacklog /\ NoSleeperAfterShutdown)'
  OBVIOUS
<1> TypeOK /\ NoIdleBacklog /\ NoSleeperAfterShutdown
  BY DEF IInv
<1> DEFINE Goal == (NoIdleBacklog /\ NoSleeperAfterShutdown)'
           ready == Cardinality(InState("ready"))
<1>a. ready \in Nat /\ ready' \in Nat /\ queue_count \in Nat
  <2>1. InState("ready")' \subseteq Workers
    BY DEF InState
  <2>2. IsFiniteSet(InState("ready")')
    BY <2>1, PoolAssumption, FS_Subset
  <2>3. QED
    BY <2>2, FS_CardinalityType, ReadyFinite DEF TypeOK
<1>b. /\ Goal <=> /\ InState("waiting")' # {} => queue_count' <= ready'
                  /\ shutdown' => InState("waiting")' = {}
      /\ InState("waiting") # {} => queue_count <= ready
      /\ shutdown => InState("waiting") = {}
  BY DEF NoIdleBacklog, NoSleeperAfterShutdown
<1> HIDE DEF Goal, ready
<1>c. ASSUME UNCHANGED <<pc, queue_count, shutdown>> PROVE Goal
  <2>1. InState("waiting")' = InState("waiting") /\ InState("ready")' = InState("ready")
    BY <1>c DEF InState
  <2>2. ready' = ready
    BY <2>1 DEF ready
  <2>3. QED
    BY <1>b, <1>c, <2>1, <2>2
<1>1. ASSUME NEW w \in Workers, SpawnWorker(w) PROVE Goal
  <2>1. ready' = ready + 1
    BY <1>1, ReadyGains DEF SpawnWorker, ready
  <2>2. InState("waiting")' = InState("waiting")
    BY <1>1 DEF SpawnWorker, InState, TypeOK
  <2>3. UNCHANGED <<queue_count, shutdown>>
    BY <1>1 DEF SpawnWorker, ring
  <2>4. QED
    BY <1>a, <1>b, <2>1, <2>2, <2>3
<1>2. ASSUME NEW w \in Workers, Wait(w) PROVE Goal
  <2>1. queue_count' = 0 /\ ~shutdown'
    BY <1>2 DEF Wait, ring
  <2>2. QED
    BY <1>a, <1>b, <2>1
<1>3. ASSUME NEW w \in Workers, Exit(w) PROVE Goal
  <2>1. InState("waiting") = {} /\ InState("waiting")' = InState("waiting")
    BY <1>3, <1>b DEF Exit, InState, TypeOK
  <2>2. QED
    BY <1>b, <2>1
<1>4. ASSUME NEW w \in Workers, Take(w) PROVE Goal
  <2>1. ready' = ready - 1
    BY <1>4, ReadyLoses DEF Take, ready
  <2>2. InState("waiting")' = InState("waiting")
    BY <1>4 DEF Take, InState, TypeOK
  <2>3. queue_count' = queue_count - 1 /\ shutdown' = shutdown
    BY <1>4 DEF Take
  <2>4. QED
    BY <1>a, <1>b, <2>1, <2>2, <2>3
<1>5. ASSUME NEW w \in Workers, Run(w) PROVE Goal
  <2>1. ready' = ready + 1
    BY <1>5, ReadyGains DEF Run, ready
  <2>2. InState("waiting")' = InState("waiting")
    BY <1>5 DEF Run, InState, TypeOK
  <2>3. UNCHANGED <<queue_count, shutdown>>
    BY <1>5 DEF Run, ring
  <2>4. QED
    BY <1>a, <1>b, <2>1, <2>2, <2>3
<1>6. ASSUME NEW w \in Workers, SpuriousWakeup(w) PROVE Goal
  <2>1. ready' = ready + 1
    BY <1>6, ReadyGains DEF SpuriousWakeup, ready
  <2>2. InState("waiting")' \subseteq InState("waiting")
    BY <1>6 DEF SpuriousWakeup, InState, TypeOK
  <2>3. UNCHANGED <<queue_count, shutdown>>
    BY <1>6 DEF SpuriousWakeup, ring
  <2>4. InState("waiting")' # {} => InState("waiting") # {}
    BY <2>2
  <2>5. QED
    BY <1>a, <1>b, <2>1, <2>3, <2>4
<1>7. ASSUME NEW t \in Tasks, Submit(t) PROVE Goal
  <2>1. queue_count' = queue_count + 1 /\ ~shutdown /\ shutdown' = shutdown
    BY <1>7 DEF Submit
  <2>2. CASE InState("waiting") = {}
    <3>1. InState("waiting")' = {}
      BY <1>7, <2>2 DEF Submit, Signal, InState
    <3>2. QED
      BY <1>b, <3>1
  <2>3. CASE InState("waiting") # {}
    <3>1. PICK w \in InState("waiting") : pc' = [pc EXCEPT ![w] = "ready"]
      BY <1>7, <2>3 DEF Submit, Signal
    <3>2. ready' = ready + 1
      <4>1. w \in Workers /\ pc[w] # "ready"
        BY DEF InState
      <4>2. QED
        BY <3>1, <4>1, ReadyGains DEF ready
    <3>3. QED
      BY <1>a, <1>b, <2>1, <2>3, <3>2
  <2>4. QED
    BY <2>2, <2>3
<1>8. ASSUME NEW t \in Tasks, SubmitRefused(t) PROVE Goal
  BY <1>8, <1>c DEF SubmitRefused, ring
<1>9. ASSUME Broadcast PROVE Goal
  <2>1. InState("waiting")' = {}
    BY <1>9 DEF Broadcast, InState
  <2>2. QED
    BY <1>b, <2>1
<1>10. CASE Free
  BY <1>10, <1>c DEF Free, ring, Goal
<1>11. CASE UNCHANGED vars
  BY <1>11, <1>c DEF vars, Goal
<1>12. QED
  BY <1>1, <1>2, <1>3, <1>4, <1>5, <1>6, <1>7, <1>8, <1>9, <1>10, <1>11
  DEF Next, WorkerStep, SpawnFails, Destroy, Goal

-----------------------------------------------------------------------------
(* Where the accepted tasks are.                                           *)

(* A step that moves no task keeps the placement.                          *)
LEMMA OnceQuiet ==
    ASSUME ExactlyOnce, UNCHANGED <<ring, task, accepted, executed>>,
           InState("running")' = InState("running")
    PROVE  ExactlyOnce'
<1>1. Occupied' = Occupied /\ queue' = queue
  BY DEF Occupied, SlotsFrom, ring
<1>2. Queued' = Queued /\ Taken' = Taken
  BY <1>1 DEF Queued, Taken
<1>3. QED
  BY <1>1, <1>2 DEF ExactlyOnce

(* Submit writes the free slot at the tail.                                *)
LEMMA OnceSubmit ==
    ASSUME IInv, NEW t \in Tasks, Submit(t)
    PROVE  ExactlyOnce'
<1> TypeOK /\ PoolInv /\ ExactlyOnce
  BY DEF IInv
<1>1. queue_head \in Slots /\ queue_count \in 0 .. Capacity - 1 /\ queue_tail \in Slots
  BY PoolAssumption DEF TypeOK, Submit
<1>2. /\ Occupied' = Occupied \cup {queue_tail}
      /\ queue_tail \notin Occupied
      /\ Occupied \subseteq Slots
  <2>1. queue_tail = (queue_head + queue_count) % Capacity
    BY DEF PoolInv
  <2>2. queue_head' = queue_head /\ queue_count' = queue_count + 1
    BY DEF Submit
  <2>3. Occupied' = SlotsFrom(queue_head, queue_count + 1)
    BY <2>2 DEF Occupied, SlotsFrom
  <2>4. queue_count \in 0 .. Capacity
    BY DEF TypeOK
  <2>5. QED
    BY <1>1, <2>1, <2>3, <2>4, SlotsGrow, SlotsInRing DEF Occupied
<1>3. queue' = [queue EXCEPT ![queue_tail] = t] /\ queue \in [Slots -> Tasks \cup {NoTask}]
  BY DEF Submit, TypeOK
<1>4. /\ queue'[queue_tail] = t
      /\ \A i \in Occupied : queue'[i] = queue[i]
  BY <1>1, <1>2, <1>3
<1>5. InState("running")' = InState("running")
  BY DEF Submit, Signal, InState, TypeOK
<1>6. Taken' = Taken
  BY <1>5 DEF Taken, Submit
<1>7. Queued' = Queued \cup {t}
  BY <1>2, <1>4 DEF Queued
<1>8. t \notin Queued /\ t \notin Taken /\ t \notin executed
  BY DEF Submit, ExactlyOnce
<1>9. \A i \in Occupied : queue[i] # t
  BY <1>8 DEF Queued
<1>10. accepted' = accepted \cup {t} /\ UNCHANGED <<executed, task>>
  BY DEF Submit
<1>11. \A i, j \in Occupied' : queue'[i] = queue'[j] => i = j
  BY <1>2, <1>4, <1>9 DEF ExactlyOnce
<1>12. \A v, w \in InState("running")' : task'[v] = task'[w] => v = w
  BY <1>5, <1>10 DEF ExactlyOnce
<1>13. QED
  BY <1>6, <1>7, <1>8, <1>10, <1>11, <1>12 DEF ExactlyOnce

(* A worker moves the task at the head of the ring into its own hands.     *)
LEMMA OnceTake ==
    ASSUME IInv, NEW w \in Workers, Take(w)
    PROVE  ExactlyOnce'
<1> TypeOK /\ ExactlyOnce
  BY DEF IInv
<1> DEFINE t == queue[queue_head]
<1>1. queue_head \in Slots /\ queue_count \in 1 .. Capacity
  BY PoolAssumption DEF TypeOK, Take
<1>2. Occupied' = Occupied \ {queue_head} /\ queue_head \in Occupied
  <2>1. Occupied' = SlotsFrom((queue_head + 1) % Capacity, queue_count - 1)
    BY DEF Take, Occupied, SlotsFrom
  <2>2. QED
    BY <1>1, <2>1, SlotsShrink DEF Occupied
<1>3. queue' = queue /\ UNCHANGED <<accepted, executed>>
  BY DEF Take, history
<1>4. /\ InState("running")' = InState("running") \cup {w}
      /\ w \notin InState("running")
  BY DEF Take, InState, TypeOK
<1>5. task'[w] = t /\ \A v \in InState("running") : task'[v] = task[v]
  BY <1>4 DEF Take, TypeOK, InState
<1>6. Taken' = Taken \cup {t}
  BY <1>4, <1>5 DEF Taken
<1>7. \A i \in Occupied' : queue[i] # t
  BY <1>2 DEF ExactlyOnce
<1>8. Queued = Queued' \cup {t} /\ t \notin Queued'
  BY <1>2, <1>3, <1>7 DEF Queued
<1>9. \A i, j \in Occupied' : queue'[i] = queue'[j] => i = j
  BY <1>2, <1>3 DEF ExactlyOnce
<1>10. \A v \in InState("running") : task[v] # t
  BY <1>8 DEF ExactlyOnce, Taken
<1>11. \A u, v \in InState("running")' : task'[u] = task'[v] => u = v
  BY <1>4, <1>5, <1>10 DEF ExactlyOnce
<1> HIDE DEF t
<1>12. QED
  BY <1>3, <1>6, <1>8, <1>9, <1>11 DEF ExactlyOnce

(* A task that returns goes from its worker to the executed ones.          *)
LEMMA OnceRun ==
    ASSUME IInv, NEW w \in Workers, Run(w)
    PROVE  ExactlyOnce'
<1> TypeOK /\ ExactlyOnce
  BY DEF IInv
<1> DEFINE t == task[w]
<1>1. queue' = queue /\ Occupied' = Occupied /\ accepted' = accepted
  BY DEF Run, ring, Occupied, SlotsFrom
<1>2. Queued' = Queued
  BY <1>1 DEF Queued
<1>3. /\ InState("running")' = InState("running") \ {w}
      /\ w \in InState("running")
  BY DEF Run, InState, TypeOK
<1>4. \A v \in InState("running")' : task'[v] = task[v]
  BY <1>3 DEF Run, TypeOK, InState
<1>5. \A v \in InState("running")' : task[v] # t
  BY <1>3 DEF ExactlyOnce
<1>6. Taken = Taken' \cup {t} /\ t \notin Taken'
  BY <1>3, <1>4, <1>5 DEF Taken
<1>7. executed' = executed \cup {t}
  BY DEF Run
<1>8. \A u, v \in InState("running")' : task'[u] = task'[v] => u = v
  BY <1>3, <1>4 DEF ExactlyOnce
<1> HIDE DEF t
<1>9. QED
  BY <1>1, <1>2, <1>6, <1>7, <1>8 DEF ExactlyOnce

(* The placement of tasks is kept by every step.                           *)
LEMMA OnceStep == IInv /\ [Next]_vars => ExactlyOnce'
<1> SUFFICES ASSUME IInv, [Next]_vars PROVE ExactlyOnce'
  OBVIOUS
<1> TypeOK /\ ExactlyOnce
  BY DEF IInv
<1>1. ASSUME NEW w \in Workers,
             SpawnWorker(w) \/ Wait(w) \/ Exit(w) \/ SpuriousWakeup(w)
      PROVE  ExactlyOnce'
  <2>1. InState("running")' = InState("running")
    BY <1>1 DEF SpawnWorker, Wait, Exit, SpuriousWakeup, InState, TypeOK
  <2>2. UNCHANGED <<ring, task, accepted, executed>>
    BY <1>1 DEF SpawnWorker, Wait, Exit, SpuriousWakeup, history
  <2>3. QED
    BY <2>1, <2>2, OnceQuiet
<1>2. CASE SpawnFails \/ Destroy
  <2>1. InState("running")' = InState("running")
    BY <1>2 DEF SpawnFails, Destroy, Broadcast, InState
  <2>2. UNCHANGED <<ring, task, accepted, executed>>
    BY <1>2 DEF SpawnFails, Destroy, history
  <2>3. QED
    BY <2>1, <2>2, OnceQuiet
<1>3. ASSUME NEW t \in Tasks, SubmitRefused(t) PROVE ExactlyOnce'
  BY <1>3, OnceQuiet DEF SubmitRefused, InState
<1>4. CASE Free \/ UNCHANGED vars
  BY <1>4, OnceQuiet DEF Free, vars, InState, ring, history
<1>5. QED
  BY <1>1, <1>2, <1>3, <1>4, OnceSubmit, OnceTake, OnceRun DEF Next, WorkerStep

(* The pool is freed only when nothing is queued or running.               *)
LEMMA DrainStep == IInv /\ [Next]_vars => DrainedWhenFreed'
<1> SUFFICES ASSUME IInv, [Next]_vars, owner' = "freed" PROVE accepted' = executed'
  BY DEF DrainedWhenFreed
<1> TypeOK /\ PoolInv /\ ExactlyOnce /\ DrainedWhenFreed
  BY DEF IInv
<1>1. CASE owner = "freed"
  <2>1. \A w \in Workers : pc[w] \in {"exited", "absent"}
    BY <1>1 DEF PoolInv
  <2>2. accepted' = accepted /\ executed' = executed
    BY <1>1, <2>1 DEF Next, WorkerStep, SpawnWorker, Wait, Exit, Take, Run, SpuriousWakeup,
       Submit, SubmitRefused, SpawnFails, Destroy, Free, vars, history
  <2>3. QED
    BY <1>1, <2>2 DEF DrainedWhenFreed
<1>2. CASE owner # "freed"
  <2>1. Free
    BY <1>2 DEF Next, WorkerStep, SpawnWorker, Wait, Exit, Take, Run, SpuriousWakeup,
       Submit, SubmitRefused, SpawnFails, Destroy, vars
  <2>2. InState("running") = {}
    BY <2>1 DEF Free, InState
  <2>3. Taken = {}
    BY <2>2 DEF Taken
  <2>4. CASE owner = "joining"
    <3>1. InState("exited") # {}
      BY <2>1, <2>4, PoolAssumption DEF Free, PoolInv, InState
    <3>2. queue_count = 0
      BY <3>1 DEF PoolInv
    <3>3. Occupied = {}
      BY <3>2 DEF Occupied, SlotsFrom
    <3>4. Queued = {}
      BY <3>3 DEF Queued
    <3>5. QED
      BY <2>1, <2>3, <3>4 DEF ExactlyOnce, Free, history
  <2>5. CASE owner = "aborting"
    BY <2>1, <2>5 DEF PoolInv, ExactlyOnce, Free, history
  <2>6. QED
    BY <2>1, <2>4, <2>5 DEF Free
<1>3. QED
  BY <1>1, <1>2

-----------------------------------------------------------------------------
(* The inductive invariant holds in every reachable state.                 *)
THEOREM Inductive == Spec => []IInv
<1>1. IInv /\ [Next]_vars => IInv'
  BY TypeStep, PoolStep, OnceStep, WakeStep, DrainStep DEF IInv
<1>2. QED
  BY <1>1, InitIInv, PTL DEF Spec

(* Every field of the pool keeps its type: the ring indices stay in the    *)
(* ring and queue_count between 0 and max_queue_size.                      *)
THEOREM TypeCorrect == Spec => []TypeOK
  BY Inductive, PTL DEF IInv

(* A submission answered KV_OK is in one slot, with one worker, or done.   *)
THEOREM TasksPlacedOnce == Spec => []ExactlyOnce
  BY Inductive, PTL DEF IInv

(* pthread_cond_signal per submission is enough: no lost wakeup.           *)
THEOREM NoLostWakeup == Spec => []NoIdleBacklog
  BY Inductive, PTL DEF IInv

(* pthread_join in thread_pool_destroy never waits for a sleeping worker.  *)
THEOREM NoSleeper == Spec => []NoSleeperAfterShutdown
  BY Inductive, PTL DEF IInv

(* thread_pool_destroy releases the pool with every accepted task executed.*)
THEOREM Drained == Spec => []DrainedWhenFreed
  BY Inductive, PTL DEF IInv

=============================================================================
