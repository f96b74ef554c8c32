# Verification of mini-kv-db-server

TLA+ models of the server's thread pool, of its store under concurrent callers
and of its append-only file, with TLC runs and TLAPS proofs. `PROJECT.json`
lists the components, the runs, the source lines each definition models, the
hazards of the code and the disagreements found between code and documents.

## The system

| part | source | module | state |
|---|---|---|---|
| thread pool | `thread_pool.c` | `ThreadPool`, `TaskQueue` | modelled |
| hash table, sharded locks, limits | `kv.c` | `KvData`, `KvStore` | modelled except `kv_destroy` |
| TTL, sweep, LRU eviction | `eviction.c` | `KvData`, `KvStore` | modelled |
| lists, sets | `list.c`, `set.c` | `KvData`, `KvStore`, `AofLog` | modelled |
| append-only file | `aof.c`, `kv.c` | `AofLog`, `KvAof` | modelled except power loss, failing `ftruncate` and evictions |
| reaper of children | `server.c` | `KvAof` (Discard, Merge, MergeFails) | rewrite child only |
| snapshots | `snapshot.c` | - | not modelled |
| replication | `replication.c` | - | not modelled |
| reactor, clients | `server.c` | - | not modelled |
| protocol, command line, benchmark | `protocol.c`, `main.c`, `benchmark.c` | - | not modelled |

The event loop of `server.c` reads commands and gives them to the pool; pool
workers run them against the store. A call takes the mutex of its key's shard,
or all of them, and logs what it does. BGREWRITEAOF forks a child that dumps
the table; the event loop reaps the child and merges the mutations buffered
meanwhile.

## Modules

**TaskQueue** is the promise of the pool: a bounded FIFO that starts tasks in
order, each once. **ThreadPool** is the ring buffer, the mutex and condition
variable, and the workers. A step is one hold of the mutex; a signal wakes an
arbitrary sleeper, and sleepers may wake spuriously.

**KvData** holds the store as a record with the C struct's field names, and the
functions that change it under locks. Strings are model values with a length;
`sizeof` is a constant per struct. The chains of a bucket are a function from
keys to entries: the order in a chain matters nowhere.

**KvStore** runs those functions in threads. A call is cut where another
thread can see or change what it has read: between the unlocked test and the
lock, between two mutexes of `kv_acquire_all_locks`, and between the tests of
the shared counters and the updates that follow. The counters are `_Atomic`, so
each update is one step. The random sample of eviction and sweep is a choice.

A chain is linked or unlinked in one step as long as its lock protects it. It
does not in two cases: two mutexes can cover one bucket (`kv_lock_index` and
`hash_key` take different moduli), and a budget loop under a single bucket lock
scans and unlinks in every chain (`eviction.c:205-236`). When a step links or
unlinks in a chain that another thread may be walking (`Walks`), the outcome is
a choice: each entry of that chain may or may not survive (`Torn`), the counters
are updated, and the variable `undef` becomes true. It also becomes true when
`kv_lpush` or `kv_sadd` pushes a node through its pointer to an entry that has
been evicted. A real run may do worse after that, so the properties of the
table are stated for states and steps up to `undef`.

**AofLog** has the records: the effect of a command, replay, the dump, and the
pieces in which a record reaches the rewrite buffer. **KvAof** is the state
machine around them, with stdio's buffer, the position `ftell` reports, the
child, the merge, process crash and orderly restart. It abstracts the table's
locks to "two calls on one key never overlap", which `KvStore` justifies for
lock counts that divide the bucket count. `ftell` on a stream just opened with
`a+` is 0, as glibc has it.

`MC*` modules fix small sets of keys, values and calls.

## Runs that pass

| run | bounds | properties |
|---|---|---|
| ThreadPool | 3 workers, 3 tasks, ring of 2 (wraps, fills) | TypeOK, DrainedWhenFreed, PoolInv, ExactlyOnce, NoIdleBacklog, NoSleeperAfterShutdown, AcceptedRuns, TeardownReturns, ImplementsTaskQueue |
| KvStore_locks | 2 threads, 3 keys, 2 calls each; the table doubles from 2 buckets on, with 2 locks | BucketExclusive, SizeExact, AccountingExact, LoadBounded, KeyIsolation, CallsReturn |
| KvStore_limits | 2 threads, 3 keys, 2 calls each, capacity 1 or 2, budget 12 or 5, 1 to 4 buckets under 2 locks, failing allocations | TypeOK, ExactUntilUndef, CapacityBounded, BudgetBounded, SetTakesEffect |
| KvStore_types | 2 threads, 2 keys, 2 calls each, all types, one tick, failing allocations | SizeExact, AccountingExact, KeyIsolation, LiveKeysStay, ElementsTakeEffect |
| KvAof_calls | 1 thread, 5 calls, one value too long to log, flushed and unflushed, one deadline | RecoveryUntilDeadline, DumpExact |
| KvAof_rewrite | 1 thread, 4 calls, 1 rewrite, 1 restart, failing append | TypeOK, RecoveryExact, DumpExact |
| KvAof_threads | 2 threads, 4 calls, 1 restart, unflushed records | RecoveryExact |
| KvAof_liveness | 2 threads, 2 calls, every failure | RewriteEnds |

The bounds are the smallest at which the cases meet: a full and wrapped ring,
two keys of one bucket across growth, two threads past one capacity or budget
test, evictions of the call's own key and of another thread's under one bucket
lock, two mutexes on one bucket, a list evicted under its own push, a rollback behind buffered records, a mutation before, during and after a
rewrite. Deadlock is checked except for the pool, which stops once freed.

## Runs that find a violation

| run | what happens |
|---|---|
| KvStore_evictshard | an eviction under one bucket lock reaches other shards |
| KvStore_expiredset | SET inherits a deadline that has passed |
| KvAof_reopen | `ftell` is 0 after opening; a rollback empties the log |
| KvAof_truncate | a rollback cuts off another thread's record |

Each is a finding in `PROJECT.json` with the line of a comment or the README
that says otherwise.

## Where the properties end

A property that passes holds on its instance and not beyond. These stronger
statements, and the properties named on the instances named, TLC finds violated:

- BucketExclusive with fewer buckets than locks (as in KvStore_limits after
  RESIZE 1): `kv_init_full` makes at least 32 locks for any table.
  BucketsProtected has a sufficient condition. KvStore_limits runs into the data
  race that follows; ExactUntilUndef does not speak of what comes after it.
- The limits themselves, with two threads: size and bytes are tested under one
  bucket lock and shared by all. CapacityBounded and BudgetBounded say by how
  much they are passed. `tests/test_concurrency.c:391` asserts
  `kv_allocated_bytes(&store) <= 8192U` after eight threads have run, which
  BudgetBounded does not give: an interleaving can end above the budget.
- "Maximum allocated_bytes observed" (`kv.h:124`) with two threads: the peak is
  tested, loaded and stored in three accesses, and a smaller value can be
  stored last. PeakLoad and PeakStore have these steps; no property is claimed.
- SizeExact and AccountingExact with a budget: the loop that makes room for the
  node may evict the list itself, and an eviction under one bucket lock races
  with the other shards.
- "No list or set is empty": LPUSH and SADD that run out of memory or budget
  after linking the new entry leave it there. ElementsTakeEffect speaks of
  calls that answer OK.
- SetTakesEffect and ElementsTakeEffect for a call under one bucket lock while
  there is a budget: another thread may evict the key before the call returns.
- LoadBounded with LPUSH or SADD: they take all locks but do not grow the table.
- RecoveryExact with a clock and lists: the replay of a push after the deadline
  deletes the list and creates it again without one (`aof.c:76`). With a long
  value and LPUSH: the record is dropped, the call succeeds. With failing fsync or
  flush: a refused SET stays in the log. With two threads and a rewrite: the
  pieces of two records mix. With a dump on a full disk: the child exits with 0.
- LogStaysOpen with a failing rename, StreamNotClosedInUse with a rewrite and
  `kv_sync` (`aof.c:383` closes the stream without `aof_lock`).

## Fairness

Weak fairness of each worker, of each thread inside a call and of the child: the
kernel schedules runnable threads, and tasks return. Nobody has to submit, call
or destroy. CallsReturn is checked with a bounded number of calls, so a waiter is not
overtaken for ever. RewriteEnds assumes strong fairness of the reaper, which
waits for all bucket locks that other calls take again and again: it assumes
mutexes do not starve a waiter, which POSIX does not promise.

## Proofs

For every number of threads, tasks, slots, keys, buckets and calls:

- `ThreadPoolProofs`: `IInv` is the conjunction of the pool's invariants.
  None is inductive alone: ExactlyOnce needs the tail to be head plus count,
  NoIdleBacklog needs exits to happen only after shutdown. From it follow
  TypeCorrect, TasksPlacedOnce, NoLostWakeup, NoSleeper and Drained.
- `ThreadPoolRefinement`: PoolImplementsQueue, every step of the pool is a
  step of TaskQueue or a stutter, with the ring read from its head.
- `KvDataProofs`: lemmas on what each function, and a race on its chains, does
  to keys and size.
- `KvStoreLocks`, `KvStoreSteps`: `IInv` says which mutexes a thread holds at
  each step and, until `undef`, that size counts the entries and that a key
  about to be linked is absent (without it size could count a key twice). Every
  step has one of four shapes, each shown to keep it.
- `KvStoreProofs`: from `IInv`, with no condition on locks or limits,
  SizeCountsUntilUndef and KeysIsolated. CapacityHeld needs a second invariant:
  size plus the insertions under way stays below the limit plus the number of
  threads, since the last thread to pass the test saw size below the limit.
  BucketsProtected assumes that the number of locks divides every bucket count
  (LocksDivideBuckets; true of the default 64 and its doublings) and is false
  without it. NoDataRace and SizeCounts assume in addition that there is no
  memory budget (NoBudget), and are false without it: KvStore_evictshard shows
  the eviction that breaks them. They rest on the invariant that the entry a
  push points to is there.

The assumptions are PoolAssumption, DataAssumption and StoreAssumption.

Only model-checked: liveness, AccountingExact and BudgetBounded (sums over the
table, which need induction over data), SetTakesEffect, ElementsTakeEffect,
LiveKeysStay, LoadBounded, and all of KvAof.

## Plan

1. Background children: BGSAVE, its reaping, and its race with SYNC.
2. Replication: SYNC, broadcast before apply, the replica's thread.
3. Server: client reference counts, command queues, detach and shutdown, on
   top of TaskQueue.
4. Snapshots: save, load, checksum, crash before the rename.
5. KvAof with a memory budget (evictions are not logged), with power loss and
   a failing `ftruncate`; an inductive invariant for recovery with one thread.
