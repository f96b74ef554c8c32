------------------------ MODULE ThreadPoolRefinement ------------------------
(***************************************************************************)
(* The thread pool implements the bounded FIFO of TaskQueue, for any       *)
(* number of workers, tasks and slots: every step of the pool is a step of *)
(* the queue or leaves it unchanged, with the ring read from its head as   *)
(* the queue's contents.                                                   *)
(***************************************************************************)
EXTENDS ThreadPoolProofs

(* The contents of the ring in order, a sequence of tasks.                 *)
LEMMA PendingShape ==
    ASSUME IInv
    PROVE  /\ PendingSeq \in Seq(Tasks \cup {NoTask})
           /\ Len(PendingSeq) = queue_count
           /\ \A i \in 1 .. queue_count :
                 /\ (queue_head + i - 1) % Capacity \in Occupied
                 /\ PendingSeq[i] = queue[(queue_head + i - 1) % Capacity]
<1> TypeOK
  BY DEF IInv
<1>1. queue_head \in Slots /\ queue_count \in 0 .. Capacity /\ queue_count \in Nat
  BY PoolAssumption DEF TypeOK
<1>2. ASSUME NEW i \in 1 .. queue_count
      PROVE  (queue_head + i - 1) % Capacity \in Occupied
  <2> DEFINE k == i - 1
  <2>1. k \in 0 .. queue_count - 1 /\ queue_head + i - 1 = queue_head + k
    BY <1>1, PoolAssumption DEF Slots
  <2> HIDE DEF k
  <2>2. QED
    BY <2>1 DEF Occupied, SlotsFrom
<1>3. Occupied \subseteq Slots
  BY <1>1, SlotsInRing DEF Occupied
<1>4. \A i \in 1 .. queue_count : queue[(queue_head + i - 1) % Capacity] \in Tasks \cup {NoTask}
  BY <1>2, <1>3 DEF TypeOK
<1>5. PendingSeq \in [1 .. queue_count -> Tasks \cup {NoTask}]
  BY <1>4 DEF PendingSeq
<1>6. QED
  BY <1>1, <1>2, <1>5 DEF PendingSeq

(* The ring read from its head is a sequence of queue_count tasks.         *)
PendingOK == PendingSeq \in Seq(Tasks \cup {NoTask}) /\ Len(PendingSeq) = queue_count

(* So it is in the state after a step.                                     *)
LEMMA PendingShapeNext == IInv' => PendingOK'
<1>1. IInv => PendingOK
  BY PendingShape DEF PendingOK
<1>2. QED
  BY <1>1, PTL

(* A submission appends at the end of the queue.                           *)
LEMMA SubmitAppends ==
    ASSUME IInv, IInv', NEW t \in Tasks, Submit(t)
    PROVE  PendingSeq' = Append(PendingSeq, t)
<1> TypeOK /\ PoolInv
  BY DEF IInv
<1>1. /\ queue_head' = queue_head /\ queue_count' = queue_count + 1
      /\ queue' = [queue EXCEPT ![queue_tail] = t]
      /\ queue \in [Slots -> Tasks \cup {NoTask}] /\ queue_tail \in Slots
      /\ queue_count \in Nat /\ queue_head \in Nat
  BY PoolAssumption DEF Submit, TypeOK, Slots
<1>2. queue_tail \notin Occupied /\ Occupied \subseteq Slots
  <2>1. queue_head \in Slots /\ queue_count \in 0 .. Capacity - 1 /\ queue_count \in 0 .. Capacity
    BY PoolAssumption DEF TypeOK, Submit
  <2>2. queue_tail = (queue_head + queue_count) % Capacity
    BY DEF PoolInv
  <2>3. QED
    BY <2>1, <2>2, SlotsGrow, SlotsInRing DEF Occupied
<1>3. ASSUME NEW i \in 1 .. queue_count PROVE PendingSeq'[i] = PendingSeq[i]
  <2>1. (queue_head + i - 1) % Capacity \in Occupied
    BY PendingShape
  <2>2. i \in 1 .. queue_count'
    BY <1>1
  <2>3. PendingSeq'[i] = queue'[(queue_head + i - 1) % Capacity]
    BY <1>1, <2>2 DEF PendingSeq
  <2>4. QED
    BY <1>1, <1>2, <2>1, <2>3, PendingShape
<1>4. PendingSeq'[queue_count + 1] = t
  <2>1. queue_count + 1 \in 1 .. queue_count' /\ queue_head + (queue_count + 1) - 1 = queue_head + queue_count
    BY <1>1
  <2>2. PendingSeq'[queue_count + 1] = queue'[(queue_head + queue_count) % Capacity]
    BY <1>1, <2>1 DEF PendingSeq
  <2>3. QED
    BY <1>1, <2>2 DEF PoolInv
<1>5. /\ PendingSeq' \in Seq(Tasks \cup {NoTask}) /\ Len(PendingSeq') = queue_count + 1
      /\ PendingSeq \in Seq(Tasks \cup {NoTask}) /\ Len(PendingSeq) = queue_count
  BY <1>1, PendingShape, PendingShapeNext DEF PendingOK
<1> DEFINE p == PendingSeq
           q == PendingSeq'
<1>6. /\ p \in Seq(Tasks \cup {NoTask}) /\ q \in Seq(Tasks \cup {NoTask})
      /\ Len(q) = Len(p) + 1 /\ Len(p) \in Nat
      /\ \A i \in 1 .. Len(p) : q[i] = p[i]
      /\ q[Len(p) + 1] = t
  BY <1>1, <1>3, <1>4, <1>5
<1> HIDE DEF p, q
<1>7. Append(p, t) \in Seq(Tasks \cup {NoTask})
  BY <1>6
<1>8. Len(Append(p, t)) = Len(q) /\ \A i \in 1 .. Len(q) : Append(p, t)[i] = q[i]
  BY <1>6
<1>9. Append(p, t) = q
  BY <1>6, <1>7, <1>8, SeqEqual
<1>10. QED
  BY <1>9 DEF p, q

(* A worker takes the task at the front of the queue.                      *)
LEMMA TakePops ==
    ASSUME IInv, IInv', NEW w \in Workers, Take(w)
    PROVE  /\ PendingSeq # <<>>
           /\ Head(PendingSeq) = queue[queue_head]
           /\ PendingSeq' = Tail(PendingSeq)
<1> TypeOK
  BY DEF IInv
<1>1. /\ queue' = queue /\ queue_head' = (queue_head + 1) % Capacity
      /\ queue_count' = queue_count - 1 /\ queue_count \in Nat /\ queue_count > 0
      /\ queue_head \in Slots /\ queue_count \in 0 .. Capacity
      /\ queue_head \in Nat /\ Capacity \in Nat \ {0} /\ queue_head < Capacity
  BY PoolAssumption DEF Take, TypeOK, Slots
<1>2. PendingSeq # <<>>
  BY <1>1, PendingShape
<1>3. Head(PendingSeq) = queue[queue_head]
  <2>1. 1 \in 1 .. queue_count /\ queue_head + 1 - 1 = queue_head /\ queue_head % Capacity = queue_head
    BY <1>1
  <2>2. PendingSeq[1] = queue[queue_head]
    BY <2>1, PendingShape
  <2>3. QED
    BY <1>2, <2>2, PendingShape
<1>4. ASSUME NEW i \in 1 .. queue_count - 1 PROVE PendingSeq'[i] = PendingSeq[i + 1]
  <2>1. i \in 1 .. queue_count' /\ i + 1 \in 1 .. queue_count
    BY <1>1
  <2>2. PendingSeq'[i] = queue[(((queue_head + 1) % Capacity) + i - 1) % Capacity]
    BY <1>1, <2>1 DEF PendingSeq
  <2>3. PendingSeq[i + 1] = queue[(queue_head + (i + 1) - 1) % Capacity]
    BY <2>1, PendingShape
  <2>4. i \in 0 .. Capacity /\ i > 0
    BY <1>1
  <2>5. (((queue_head + 1) % Capacity) + (i - 1)) % Capacity = (queue_head + i) % Capacity
    BY <1>1, <2>4, RingTake
  <2>6. (queue_head + 1) % Capacity \in Nat
    BY <1>1
  <2> DEFINE g == (queue_head + 1) % Capacity
  <2>a. g \in Nat
    BY <2>6
  <2> HIDE DEF g
  <2>7. g + i - 1 = g + (i - 1) /\ queue_head + (i + 1) - 1 = queue_head + i
    BY <1>1, <2>a
  <2>8. QED
    BY <2>2, <2>3, <2>5, <2>7 DEF g
<1>5. /\ PendingSeq' \in Seq(Tasks \cup {NoTask}) /\ Len(PendingSeq') = queue_count - 1
      /\ PendingSeq \in Seq(Tasks \cup {NoTask}) /\ Len(PendingSeq) = queue_count
  BY <1>1, PendingShape, PendingShapeNext DEF PendingOK
<1> DEFINE p == PendingSeq
           q == PendingSeq'
<1>6. /\ p \in Seq(Tasks \cup {NoTask}) /\ q \in Seq(Tasks \cup {NoTask})
      /\ Len(q) = Len(p) - 1 /\ p # <<>>
      /\ \A i \in 1 .. Len(p) - 1 : q[i] = p[i + 1]
  BY <1>1, <1>2, <1>4, <1>5
<1> HIDE DEF p, q
<1>7. Tail(p) \in Seq(Tasks \cup {NoTask}) /\ Len(Tail(p)) = Len(p) - 1
  BY <1>6, HeadTailProperties
<1>8. \A i \in 1 .. Len(q) : Tail(p)[i] = q[i]
  BY <1>6, <1>7, HeadTailProperties
<1>9. Tail(p) = q
  BY <1>6, <1>7, <1>8, SeqEqual
<1>10. QED
  BY <1>2, <1>3, <1>9 DEF p, q

-----------------------------------------------------------------------------
(* Every step of the pool is a step of the queue or leaves it unchanged.   *)
LEMMA RefineStep == IInv /\ IInv' /\ [Next]_vars => [Abstract!Next]_(Abstract!vars)
<1> SUFFICES ASSUME IInv, IInv', [Next]_vars PROVE [Abstract!Next]_(Abstract!vars)
  OBVIOUS
<1> TypeOK /\ PoolInv /\ ExactlyOnce
  BY DEF IInv
<1>q. ASSUME UNCHANGED <<ring, task, executed>>, InState("running")' = InState("running")
      PROVE  PendingSeq' = PendingSeq /\ Taken' = Taken /\ executed' = executed
  BY <1>q DEF PendingSeq, Taken, ring
<1>1. ASSUME NEW w \in Workers,
             SpawnWorker(w) \/ Wait(w) \/ Exit(w) \/ SpuriousWakeup(w)
      PROVE  UNCHANGED Abstract!vars
  <2>1. InState("running")' = InState("running")
    BY <1>1 DEF SpawnWorker, Wait, Exit, SpuriousWakeup, InState, TypeOK
  <2>2. UNCHANGED <<ring, task, executed, shutdown>>
    BY <1>1 DEF SpawnWorker, Wait, Exit, SpuriousWakeup, history
  <2>3. QED
    BY <2>1, <2>2, <1>q DEF Abstract!vars
<1>2. CASE SpawnFails \/ Destroy
  <2>1. InState("running")' = InState("running")
    BY <1>2 DEF SpawnFails, Destroy, Broadcast, InState
  <2>2. UNCHANGED <<ring, task, executed>> /\ ~shutdown /\ shutdown' = TRUE
    BY <1>2 DEF SpawnFails, Destroy, history, PoolInv
  <2>3. Abstract!Close
    BY <2>1, <2>2, <1>q DEF Abstract!Close
  <2>4. QED
    BY <2>3 DEF Abstract!Next
<1>3. ASSUME NEW t \in Tasks, SubmitRefused(t) PROVE UNCHANGED Abstract!vars
  BY <1>3, <1>q DEF SubmitRefused, InState, Abstract!vars
<1>4. CASE Free \/ UNCHANGED vars
  <2>1. UNCHANGED <<ring, task, executed, shutdown>> /\ pc' = pc
    BY <1>4 DEF Free, vars, ring, history
  <2>2. UNCHANGED Abstract!vars
    BY <2>1, <1>q DEF InState, Abstract!vars
  <2>3. QED
    BY <2>2
<1>5. ASSUME NEW t \in Tasks, Submit(t) PROVE Abstract!Accept(t)
  <2>1. PendingSeq' = Append(PendingSeq, t)
    BY <1>5, SubmitAppends
  <2>2. InState("running")' = InState("running")
    BY <1>5 DEF Submit, Signal, InState, TypeOK
  <2>3. Taken' = Taken /\ executed' = executed /\ shutdown' = shutdown /\ ~shutdown
    BY <1>5, <2>2 DEF Taken, Submit
  <2>4. t \notin Taken \cup executed /\ t \notin Queued
    BY <1>5 DEF Submit, ExactlyOnce
  <2>5. Len(PendingSeq) < Capacity
    BY <1>5, PendingShape DEF Submit
  <2>6. \A i \in DOMAIN PendingSeq : PendingSeq[i] # t
    <3>1. DOMAIN PendingSeq = 1 .. queue_count
      BY DEF PendingSeq
    <3>2. QED
      BY <2>4, <3>1, PendingShape DEF Queued
  <2>7. QED
    BY <2>1, <2>3, <2>4, <2>5, <2>6 DEF Abstract!Accept
<1>6. ASSUME NEW w \in Workers, Take(w) PROVE Abstract!Start
  <2>1. /\ InState("running")' = InState("running") \cup {w}
        /\ w \notin InState("running")
    BY <1>6 DEF Take, InState, TypeOK
  <2>2. task'[w] = queue[queue_head] /\ \A v \in InState("running") : task'[v] = task[v]
    BY <1>6, <2>1 DEF Take, TypeOK, InState
  <2>3. Taken' = Taken \cup {queue[queue_head]}
    BY <2>1, <2>2 DEF Taken
  <2>4. UNCHANGED <<executed, shutdown>>
    BY <1>6 DEF Take, history
  <2>5. QED
    BY <1>6, <2>3, <2>4, TakePops DEF Abstract!Start
<1>7. ASSUME NEW w \in Workers, Run(w) PROVE \E t \in Tasks : Abstract!Finish(t)
  <2>1. /\ InState("running")' = InState("running") \ {w}
        /\ w \in InState("running")
    BY <1>7 DEF Run, InState, TypeOK
  <2>2. \A v \in InState("running")' : task'[v] = task[v] /\ task[v] # task[w]
    BY <1>7, <2>1 DEF Run, TypeOK, InState, ExactlyOnce
  <2>3. Taken' = Taken \ {task[w]} /\ task[w] \in Taken
    BY <2>1, <2>2 DEF Taken
  <2>4. executed' = executed \cup {task[w]} /\ shutdown' = shutdown /\ UNCHANGED ring
    BY <1>7 DEF Run
  <2>5. PendingSeq' = PendingSeq
    BY <2>4 DEF PendingSeq, ring
  <2>6. task[w] \in Tasks
    BY <2>3 DEF ExactlyOnce, TypeOK
  <2>7. Abstract!Finish(task[w])
    BY <2>3, <2>4, <2>5 DEF Abstract!Finish
  <2>8. QED
    BY <2>6, <2>7
<1>8. QED
  BY <1>1, <1>2, <1>3, <1>4, <1>5, <1>6, <1>7 DEF Next, WorkerStep, Abstract!Next

(* thread_pool.c implements the bounded FIFO: tasks start in the order in  *)
(* which thread_pool_submit accepted them, for every ring length and any   *)
(* number of workers.                                                      *)
THEOREM PoolImplementsQueue == Spec => ImplementsTaskQueue
<1>1. Init => Abstract!Init
  <2> SUFFICES ASSUME Init PROVE Abstract!Init
    OBVIOUS
  <2>1. PendingSeq = <<>>
    BY DEF Init, PendingSeq
  <2>2. Taken = {}
    BY DEF Init, Taken, InState
  <2>3. QED
    BY <2>1, <2>2 DEF Init, Abstract!Init
<1>2. QED
  BY <1>1, RefineStep, Inductive, PTL DEF Spec, Abstract!Spec, ImplementsTaskQueue

=============================================================================
