----------------------------- MODULE ThreadPool -----------------------------
(***************************************************************************)
(* The worker pool of src/src/thread_pool.c: a ring buffer of tasks under  *)
(* one mutex (queue_lock) and one condition variable (queue_not_empty).    *)
(*                                                                         *)
(* Every critical section of the code runs under queue_lock from its first *)
(* to its last line, so it is one action here.  pthread_cond_wait is two   *)
(* actions: going to sleep (which releases the mutex) and, once woken, the *)
(* loop that re-acquires the mutex and tests the condition again.          *)
(***************************************************************************)
EXTENDS Naturals, FiniteSets, Sequences

CONSTANTS
    Workers,    \* the threads of pool->workers
    Tasks,      \* the tasks callers submit, each at most once
    Capacity,   \* max_queue_size, the length of the ring
    NoTask      \* an empty ring slot, or a worker without a task

ASSUME PoolAssumption ==
    /\ IsFiniteSet(Workers)
    /\ Workers # {}
    /\ Capacity \in Nat \ {0}
    /\ NoTask \notin Tasks

VARIABLES
    queue,      \* pool->queue, the ring of tasks
    queue_head, queue_tail, queue_count,
    shutdown,   \* the atomic flag of the same name
    pc,         \* where each worker thread is
    task,       \* the worker's local copy of the task it took
    owner,      \* what the thread that creates and destroys the pool does
    accepted,   \* tasks whose submission returned KV_OK
    refused,    \* tasks whose submission returned KV_ERR_AGAIN or KV_ERR_INTERNAL
    executed    \* tasks whose function has returned

vars == <<queue, queue_head, queue_tail, queue_count, shutdown,
          pc, task, owner, accepted, refused, executed>>

Slots == 0 .. Capacity - 1

(* "absent"   pthread_create has not run for this worker                   *)
(* "ready"    will lock queue_lock and test the wait condition             *)
(* "waiting"  asleep in pthread_cond_wait                                  *)
(* "running"  executes its task outside the mutex                          *)
(* "exited"   thread_pool_worker has returned                              *)
WorkerStates == {"absent", "ready", "waiting", "running", "exited"}

(* "creating" in the pthread_create loop; the caller has no pool yet       *)
(* "aborting" pthread_create failed: joining the workers already spawned   *)
(* "serving"  thread_pool_create returned the pool                         *)
(* "joining"  in thread_pool_destroy, after the broadcast                  *)
(* "freed"    every worker joined, pool memory released                    *)
OwnerStates == {"creating", "aborting", "serving", "joining", "freed"}

(* The indices stay inside the ring and its count inside its capacity.     *)
TypeOK ==
    /\ queue \in [Slots -> Tasks \cup {NoTask}]
    /\ queue_head \in Slots
    /\ queue_tail \in Slots
    /\ queue_count \in 0 .. Capacity
    /\ shutdown \in BOOLEAN
    /\ pc \in [Workers -> WorkerStates]
    /\ task \in [Workers -> Tasks \cup {NoTask}]
    /\ owner \in OwnerStates
    /\ accepted \subseteq Tasks
    /\ refused \subseteq Tasks
    /\ executed \subseteq Tasks

InState(s) == {w \in Workers : pc[w] = s}

(* n consecutive slots of the ring, starting at h.                         *)
SlotsFrom(h, n) == {(h + i) % Capacity : i \in 0 .. n - 1}

(* The slots that hold queued tasks.                                       *)
Occupied == SlotsFrom(queue_head, queue_count)

Queued == {queue[i] : i \in Occupied}
Taken == {task[w] : w \in InState("running")}

-----------------------------------------------------------------------------
Init ==
    /\ queue = [i \in Slots |-> NoTask]
    /\ queue_head = 0 /\ queue_tail = 0 /\ queue_count = 0
    /\ shutdown = FALSE
    /\ pc = [w \in Workers |-> "absent"]
    /\ task = [w \in Workers |-> NoTask]
    /\ owner = "creating"
    /\ accepted = {}
    /\ refused = {}
    /\ executed = {}

ring == <<queue, queue_head, queue_tail, queue_count>>
history == <<accepted, refused, executed>>

(* One turn of the pthread_create loop; the loop index is the number of    *)
(* workers that are no longer absent.                                      *)
SpawnWorker(w) ==
    /\ owner = "creating"
    /\ pc[w] = "absent"
    /\ pc' = [pc EXCEPT ![w] = "ready"]
    /\ owner' = IF InState("absent") = {w} THEN "serving" ELSE owner
    /\ UNCHANGED <<ring, shutdown, task, history>>

(* Every thread asleep on the condition variable becomes runnable.         *)
Broadcast == pc' = [w \in Workers |-> IF pc[w] = "waiting" THEN "ready" ELSE pc[w]]

(* pthread_create fails: shut down and join the workers spawned so far.    *)
SpawnFails ==
    /\ owner = "creating"
    /\ shutdown' = TRUE
    /\ Broadcast
    /\ owner' = "aborting"
    /\ UNCHANGED <<ring, task, history>>

(* thread_pool_submit by a caller that holds the pool pointer.             *)
SubmitRefused(t) ==
    /\ owner \in {"serving", "joining"}
    /\ t \notin accepted
    /\ shutdown \/ queue_count >= Capacity
    /\ refused' = refused \cup {t}
    /\ UNCHANGED <<ring, shutdown, pc, task, owner, accepted, executed>>

(* pthread_cond_signal wakes one sleeping worker, if there is one.         *)
Signal ==
    IF InState("waiting") = {}
    THEN pc' = pc
    ELSE \E w \in InState("waiting") : pc' = [pc EXCEPT ![w] = "ready"]

(* Mutants of Submit: a full ring accepted, the wrong slot written, nobody *)
(* woken.                                                                  *)
SubmitOf(t, room, slot, wake) ==
    /\ owner \in {"serving", "joining"}
    /\ t \notin accepted
    /\ ~shutdown
    /\ room
    /\ queue' = [queue EXCEPT ![slot] = t]
    /\ queue_tail' = (queue_tail + 1) % Capacity
    /\ queue_count' = queue_count + 1
    /\ accepted' = accepted \cup {t}
    /\ IF wake THEN Signal ELSE pc' = pc
    /\ UNCHANGED <<queue_head, shutdown, task, owner, refused, executed>>
SubmitToFull(t) == SubmitOf(t, queue_count <= Capacity, queue_tail, TRUE)
SubmitAtHead(t) == SubmitOf(t, queue_count < Capacity, queue_head, TRUE)
SubmitUnsignalled(t) == SubmitOf(t, queue_count < Capacity, queue_tail, FALSE)

Submit(t) ==
    /\ owner \in {"serving", "joining"}
    /\ t \notin accepted
    /\ ~shutdown
    /\ queue_count < Capacity
    /\ queue' = [queue EXCEPT ![queue_tail] = t]
    /\ queue_tail' = (queue_tail + 1) % Capacity
    /\ queue_count' = queue_count + 1
    /\ accepted' = accepted \cup {t}
    /\ Signal
    /\ UNCHANGED <<queue_head, shutdown, task, owner, refused, executed>>

(* Mutant of Destroy: pthread_cond_signal where the broadcast belongs.     *)
DestroySignals ==
    /\ owner = "serving"
    /\ shutdown' = TRUE
    /\ Signal
    /\ owner' = "joining"
    /\ UNCHANGED <<ring, task, history>>

(* thread_pool_destroy up to the unlock: flag and broadcast.               *)
Destroy ==
    /\ owner = "serving"
    /\ shutdown' = TRUE
    /\ Broadcast
    /\ owner' = "joining"
    /\ UNCHANGED <<ring, task, history>>

(* Mutant of Free: a worker that is busy is not joined.                    *)
FreeUnderBusy ==
    /\ owner \in {"joining", "aborting"}
    /\ \A w \in Workers : pc[w] \in {"exited", "absent", "running"}
    /\ owner' = "freed"
    /\ UNCHANGED <<ring, shutdown, pc, task, history>>

(* Mutant of Free: workers that were never created are joined too.         *)
FreeJoinsAll ==
    /\ owner \in {"joining", "aborting"}
    /\ \A w \in Workers : pc[w] = "exited"
    /\ owner' = "freed"
    /\ UNCHANGED <<ring, shutdown, pc, task, history>>

(* The last pthread_join returned; the ring and the pool are freed.        *)
Free ==
    /\ owner \in {"joining", "aborting"}
    /\ \A w \in Workers : pc[w] \in {"exited", "absent"}
    /\ owner' = "freed"
    /\ UNCHANGED <<ring, shutdown, pc, task, history>>

-----------------------------------------------------------------------------
(* thread_pool_worker.                                                     *)
Wait(w) ==
    /\ pc[w] = "ready"
    /\ queue_count = 0 /\ ~shutdown
    /\ pc' = [pc EXCEPT ![w] = "waiting"]
    /\ UNCHANGED <<ring, shutdown, task, owner, history>>

(* POSIX allows pthread_cond_wait to return without a signal.              *)
SpuriousWakeup(w) ==
    /\ pc[w] = "waiting"
    /\ pc' = [pc EXCEPT ![w] = "ready"]
    /\ UNCHANGED <<ring, shutdown, task, owner, history>>

(* Mutant of Exit: the shutdown flag alone ends the loop.                  *)
ExitUndrained(w) ==
    /\ pc[w] = "ready"
    /\ shutdown
    /\ pc' = [pc EXCEPT ![w] = "exited"]
    /\ UNCHANGED <<ring, shutdown, task, owner, history>>

Exit(w) ==
    /\ pc[w] = "ready"
    /\ shutdown /\ queue_count = 0
    /\ pc' = [pc EXCEPT ![w] = "exited"]
    /\ UNCHANGED <<ring, shutdown, task, owner, history>>

(* Mutants of Take: one task always stays; the newest task first.          *)
TakeButOne(w) ==
    /\ pc[w] = "ready"
    /\ queue_count > 1
    /\ task' = [task EXCEPT ![w] = queue[queue_head]]
    /\ queue_head' = (queue_head + 1) % Capacity
    /\ queue_count' = queue_count - 1
    /\ pc' = [pc EXCEPT ![w] = "running"]
    /\ UNCHANGED <<queue, queue_tail, shutdown, owner, history>>
TakeNewest(w) ==
    LET newest == (queue_tail + Capacity - 1) % Capacity IN
    /\ pc[w] = "ready"
    /\ queue_count > 0
    /\ task' = [task EXCEPT ![w] = queue[newest]]
    /\ queue_tail' = newest
    /\ queue_count' = queue_count - 1
    /\ pc' = [pc EXCEPT ![w] = "running"]
    /\ UNCHANGED <<queue, queue_head, shutdown, owner, history>>

Take(w) ==
    /\ pc[w] = "ready"
    /\ queue_count > 0
    /\ task' = [task EXCEPT ![w] = queue[queue_head]]
    /\ queue_head' = (queue_head + 1) % Capacity
    /\ queue_count' = queue_count - 1
    /\ pc' = [pc EXCEPT ![w] = "running"]
    /\ UNCHANGED <<queue, queue_tail, shutdown, owner, history>>

(* task.function(task.arg) returns; the worker goes round its loop.        *)
Run(w) ==
    /\ pc[w] = "running"
    /\ executed' = executed \cup {task[w]}
    /\ task' = [task EXCEPT ![w] = NoTask]
    /\ pc' = [pc EXCEPT ![w] = "ready"]
    /\ UNCHANGED <<ring, shutdown, owner, accepted, refused>>

WorkerStep(w) == Wait(w) \/ Exit(w) \/ Take(w) \/ Run(w)

Next ==
    \/ \E w \in Workers : SpawnWorker(w) \/ WorkerStep(w) \/ SpuriousWakeup(w)
    \/ \E t \in Tasks : Submit(t) \/ SubmitRefused(t)
    \/ SpawnFails \/ Destroy \/ Free

Spec == Init /\ [][Next]_vars

(* A thread that can run keeps running: the kernel schedules every         *)
(* runnable thread and the task functions return.  Nobody is obliged to    *)
(* submit or to destroy the pool.                                          *)
Fairness ==
    /\ \A w \in Workers : WF_vars(SpawnWorker(w)) /\ WF_vars(WorkerStep(w))
    /\ WF_vars(Free)

FairSpec == Spec /\ Fairness

-----------------------------------------------------------------------------
(* How the fields of the pool hang together over its life: the tail is     *)
(* where queue_count tasks after the head end (submit and the workers move *)
(* the three fields separately), a worker has exited only from a pool that *)
(* is shut down and empty, and the owner frees the pool after every worker.*)
PoolInv ==
    /\ queue_tail = (queue_head + queue_count) % Capacity
    /\ InState("exited") # {} => shutdown /\ queue_count = 0
    /\ shutdown <=> owner \in {"aborting", "joining", "freed"}
    /\ owner \in {"creating", "aborting"} => accepted = {}
    /\ owner \in {"serving", "joining"} => InState("absent") = {}
    /\ owner = "freed" => \A w \in Workers : pc[w] \in {"exited", "absent"}

(* Every submission answered KV_OK is in exactly one place: one slot of    *)
(* the ring, one worker, or done.  A wrap-around error, a slot overwritten *)
(* while occupied, or a task taken by two workers would break it.          *)
ExactlyOnce ==
    /\ accepted = Queued \cup Taken \cup executed
    /\ Queued \cap Taken = {} /\ Queued \cap executed = {} /\ Taken \cap executed = {}
    /\ \A i, j \in Occupied : queue[i] = queue[j] => i = j
    /\ \A v, w \in InState("running") : task[v] = task[w] => v = w

(* No lost wakeup: while some worker sleeps in pthread_cond_wait, there    *)
(* are at least as many awake workers on their way to the queue as queued  *)
(* tasks, so no task waits for a busy worker while another one sleeps.     *)
NoIdleBacklog ==
    InState("waiting") # {} => queue_count <= Cardinality(InState("ready"))

(* The broadcast of thread_pool_destroy leaves no worker asleep, and none  *)
(* falls asleep afterwards: pthread_join cannot block on a sleeper.        *)
NoSleeperAfterShutdown == shutdown => InState("waiting") = {}

(* thread_pool.h: destroy "drains all remaining queued tasks": when the    *)
(* pool memory is released, no accepted task is still queued or running.   *)
DrainedWhenFreed == owner = "freed" => accepted = executed

(* Every accepted task is executed, also when destroy is called meanwhile. *)
AcceptedRuns == \A t \in Tasks : t \in accepted ~> t \in executed

(* thread_pool_destroy and a failed thread_pool_create return.             *)
TeardownReturns == owner \in {"joining", "aborting"} ~> owner = "freed"

-----------------------------------------------------------------------------
(* The ring read from its head is the abstract FIFO.                       *)
PendingSeq == [i \in 1 .. queue_count |-> queue[(queue_head + i - 1) % Capacity]]

Abstract == INSTANCE TaskQueue WITH
    pending <- PendingSeq, started <- Taken, finished <- executed, closed <- shutdown

(* The pool implements the FIFO of TaskQueue: the ring buffer starts tasks *)
(* in submission order across wrap-around, with any number of workers.     *)
ImplementsTaskQueue == Abstract!Spec
=============================================================================
