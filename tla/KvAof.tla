-------------------------------- MODULE KvAof --------------------------------
(***************************************************************************)
(* The append-only file: how the calls of kv.c, list.c, set.c and          *)
(* eviction.c log what they do, how the log is rolled back, rewritten by a *)
(* forked child and merged, and what a restart makes of it.                *)
(*                                                                         *)
(* A call holds the lock of its key from start to end, so two calls on one *)
(* key never overlap; calls on keys of different shards do, and interleave *)
(* at every acquisition of aof_lock.  Rewrite and merge take every bucket  *)
(* lock and not aof_lock.  A crash is the death of the process: what stdio *)
(* still buffers is lost, what was written is not.                         *)
(***************************************************************************)
EXTENDS AofLog

CONSTANTS
    Threads,
    Ops,            \* the calls a thread may make
    Long,           \* values whose record does not fit the 4096-byte buffer
    Levels,         \* what kv_set_durability is called with: 0 none, 1 flush, 2 sync
    IoFailures,     \* steps of write_aof_record that may fail
    RewriteFailures,\* steps of the child and of kv_merge_aof_rewrite that may
    MaxCalls, MaxTime, MaxRestarts, MaxRewrites

ASSUME AofAssumption ==
    /\ Long \subseteq Vals
    /\ Levels \subseteq 0 .. 2
    /\ IoFailures \subseteq {"write", "flush", "fsync"}
    /\ RewriteFailures \subseteq {"dump", "append", "rename", "reopen"}
    /\ {MaxCalls, MaxTime, MaxRestarts, MaxRewrites} \subseteq Nat

VARIABLES
    store,          \* the table in memory
    file,           \* the lines of the append-only file
    buffered,       \* records in the buffer of the stream
    open,           \* aof_fp # NULL
    rewound,        \* the stream was opened and not yet written: ftell says 0
    level,          \* durability_level
    now,
    pc, op,         \* where each thread is in its call, and the call
    pos,            \* aof_pos of that call
    todo,           \* the pieces it has yet to append to the rewrite buffer
    child,          \* aof_rewrite_pid: none, running, done or failed
    snap, temp,     \* the child's copy of the table and the file it wrote
    buf,            \* aof_rewrite_buf
    calls, restarts, rewrites

log == <<file, buffered, open, rewound, level>>
thread == <<pc, op, pos, todo>>
background == <<child, snap, temp, buf, rewrites>>
vars == <<store, log, now, thread, background, calls, restarts>>

Idle == [cmd |-> "none"]
LogFirst(o) == o.cmd \in {"SET", "DELETE"}

(* No call holds the lock of the key.                                      *)
Quiet(k) == \A t \in Threads : op[t] # Idle => op[t].k # k

(* kv_sync is the only call that holds aof_lock across two steps.          *)
AofLockFree == \A t \in Threads : pc[t] # "sync"
BucketLocksFree == \A t \in Threads : pc[t] \in {"idle", "sync"}

-----------------------------------------------------------------------------
All(x) == [t \in Threads |-> x]

Init ==
    /\ store = Fresh /\ file = <<>> /\ buffered = <<>>
    /\ open = TRUE /\ rewound = TRUE /\ level = 1 /\ now = 0
    /\ pc = All("idle") /\ op = All(Idle) /\ pos = All(-1) /\ todo = All(<<>>)
    /\ child = "none" /\ snap = Fresh /\ temp = <<>> /\ buf = <<>>
    /\ calls = 0 /\ restarts = 0 /\ rewrites = 0

Goto(t, where) == pc' = [pc EXCEPT ![t] = where]

Return(t) ==
    /\ Goto(t, "idle")
    /\ op' = [op EXCEPT ![t] = Idle]
    /\ pos' = [pos EXCEPT ![t] = -1]
    /\ todo' = [todo EXCEPT ![t] = <<>>]

(* Go on to the rewrite buffer with these pieces, or return.               *)
Buffer(t, pieces) ==
    IF pieces = <<>> THEN Return(t)
    ELSE Goto(t, "buffer") /\ todo' = [todo EXCEPT ![t] = pieces] /\ UNCHANGED <<op, pos>>

(* Mutant of Begin: the lock of the key is not waited for.                 *)
BeginUnlocked(t, o) ==
    /\ pc[t] = "idle" /\ calls < MaxCalls
    /\ Goto(t, IF LogFirst(o) /\ open THEN "write" ELSE "apply")
    /\ op' = [op EXCEPT ![t] = o]
    /\ calls' = calls + 1
    /\ UNCHANGED <<store, log, now, pos, todo, background, restarts>>

(* A call starts with the lock of its key.  SET and DELETE log first.      *)
Begin(t, o) ==
    /\ pc[t] = "idle" /\ calls < MaxCalls
    /\ Quiet(o.k)
    /\ Goto(t, IF LogFirst(o) /\ open THEN "write" ELSE "apply")
    /\ op' = [op EXCEPT ![t] = o]
    /\ calls' = calls + 1
    /\ UNCHANGED <<store, log, now, pos, todo, background, restarts>>

-----------------------------------------------------------------------------
(* Mutant of Tell: the size of the file, without what stdio buffers.       *)
TellFileSize == Len(file)

(* write_aof_record                                                        *)
Tell == IF rewound THEN 0 ELSE Len(file) + Len(buffered)
Fits(o) == o.cmd \in {"SET", "LPUSH", "SADD", "SREM"} => o.v \notin Long

Put(r, flush) ==
    /\ IF flush THEN file' = file \o buffered \o <<r>> /\ buffered' = <<>>
       ELSE file' = file /\ buffered' = buffered \o <<r>>
    /\ rewound' = FALSE
    /\ UNCHANGED <<open, level>>

Write(t) ==
    /\ pc[t] = "write" /\ AofLockFree /\ Fits(op[t])
    /\ Put(LogRecord(op[t]), level >= 1)
    /\ IF LogFirst(op[t])
       THEN Goto(t, "apply") /\ pos' = [pos EXCEPT ![t] = Tell] /\ UNCHANGED <<op, todo>>
       ELSE Buffer(t, todo[t])
    /\ UNCHANGED <<store, now, background, calls, restarts>>

(* KV_ERR_IO: SET and DELETE return it, the other calls do not look.  A    *)
(* record too long is not written; one that cannot be flushed stays in the *)
(* stream; one that cannot be synced is in the file.                       *)
WriteFails(t) ==
    /\ pc[t] = "write" /\ AofLockFree
    /\ \/ (~Fits(op[t]) \/ "write" \in IoFailures) /\ UNCHANGED log
       \/ "flush" \in IoFailures /\ level >= 1 /\ Fits(op[t]) /\ Put(LogRecord(op[t]), FALSE)
       \/ "fsync" \in IoFailures /\ level >= 2 /\ Fits(op[t]) /\ Put(LogRecord(op[t]), TRUE)
    /\ IF LogFirst(op[t]) THEN Return(t) ELSE Buffer(t, todo[t])
    /\ UNCHANGED <<store, now, background, calls, restarts>>

(* The table changes.  With its last element RPOP and SREM also delete the *)
(* key, and kv_delete_internal appends to the rewrite buffer too.          *)
PiecesOf(o, gone) ==
    IF child = "none" THEN <<>>
    ELSE Pieces(o) \o
         IF o.cmd \in {"RPOP", "SREM"} /\ gone THEN Pieces([cmd |-> "DELETE", k |-> o.k]) ELSE <<>>

Apply(t) ==
    LET o == op[t]
        r == Exec(store, o, now)
        pieces == PiecesOf(o, ~Has(r.store, o.k))
    IN  /\ pc[t] = "apply"
        /\ store' = r.store
        /\ CASE r.done /\ LogFirst(o) -> Buffer(t, pieces)
             [] r.done /\ ~LogFirst(o) /\ open ->
                  Goto(t, "write") /\ todo' = [todo EXCEPT ![t] = pieces] /\ UNCHANGED <<op, pos>>
             [] r.done /\ ~LogFirst(o) /\ ~open -> Buffer(t, pieces)
             [] ~r.done /\ LogFirst(o) /\ open -> Goto(t, "rollback") /\ UNCHANGED <<op, pos, todo>>
             [] OTHER -> Return(t)
        /\ UNCHANGED <<log, now, background, calls, restarts>>

(* rollback_aof_record: ftruncate to a position past the end extends the   *)
(* file with NUL bytes.                                                    *)
Truncated(lines, n) ==
    [i \in 1 .. n |-> IF i <= Len(lines) THEN lines[i] ELSE Hole]

Rollback(t) ==
    /\ pc[t] = "rollback" /\ AofLockFree
    /\ file' = Truncated(file \o buffered, pos[t])
    /\ buffered' = <<>>
    /\ rewound' = FALSE
    /\ Return(t)
    /\ UNCHANGED <<store, open, level, now, background, calls, restarts>>

(* append_aof_rewrite_buffer, one piece under one hold of aof_lock.        *)
AppendPiece(t) ==
    /\ pc[t] = "buffer" /\ AofLockFree
    /\ buf' = buf \o Head(todo[t])
    /\ Buffer(t, Tail(todo[t]))
    /\ UNCHANGED <<store, log, now, child, snap, temp, rewrites, calls, restarts>>

-----------------------------------------------------------------------------
(* kv_sync, and kv_set_durability.                                         *)
SyncStart(t) ==
    /\ pc[t] = "idle" /\ calls < MaxCalls /\ AofLockFree /\ open
    /\ Goto(t, "sync")
    /\ calls' = calls + 1
    /\ UNCHANGED <<store, log, now, op, pos, todo, background, restarts>>

SyncFlush(t) ==
    /\ pc[t] = "sync"
    /\ \/ file' = file \o buffered /\ buffered' = <<>>
       \/ "flush" \in IoFailures /\ UNCHANGED <<file, buffered>>
    /\ Goto(t, "idle")
    /\ UNCHANGED <<store, open, rewound, level, now, op, pos, todo, background, calls, restarts>>

SetDurability(n) ==
    /\ AofLockFree /\ level # n
    /\ level' = n
    /\ UNCHANGED <<store, file, buffered, open, rewound, now, thread, background, calls, restarts>>

-----------------------------------------------------------------------------
(* kv_bgrewriteaof; the fork may fail.                                     *)
BgRewriteAof ==
    /\ BucketLocksFree /\ child = "none" /\ rewrites < MaxRewrites
    /\ file' = file \o buffered /\ buffered' = <<>>
    /\ buf' = <<>>
    /\ \/ child' = "running" /\ snap' = store
       \/ UNCHANGED <<child, snap>>
    /\ rewrites' = rewrites + 1
    /\ UNCHANGED <<store, open, rewound, level, now, thread, temp, calls, restarts>>

(* The child does not look at what fprintf and fflush return: when the     *)
(* disk is full it leaves a part of the dump and exits with 0 all the same.*)
ChildExits ==
    /\ child = "running"
    /\ \/ child' = "done" /\ temp' = Dump(snap, now)
       \/ /\ "dump" \in RewriteFailures
          /\ child' = "done"
          /\ \E n \in 0 .. Len(Dump(snap, now)) : temp' = SubSeq(Dump(snap, now), 1, n)
       \/ child' = "failed" /\ temp' = <<>>
    /\ snap' = Fresh
    /\ UNCHANGED <<store, log, now, thread, buf, rewrites, calls, restarts>>

EndRewrite ==
    /\ child' = "none" /\ temp' = <<>> /\ buf' = <<>>
    /\ UNCHANGED <<store, level, now, thread, snap, rewrites, calls, restarts>>

(* Mutants of Discard: without the bucket locks, without clearing the pid. *)
DiscardUnlocked ==
    /\ child = "failed"
    /\ EndRewrite
    /\ UNCHANGED <<file, buffered, open, rewound>>
DiscardKeepsPid ==
    /\ child = "failed" /\ BucketLocksFree
    /\ buf' = <<>>
    /\ UNCHANGED <<store, log, now, thread, child, snap, temp, rewrites, calls, restarts>>

(* kv_discard_aof_rewrite, after a child that failed.                      *)
Discard ==
    /\ child = "failed" /\ BucketLocksFree
    /\ EndRewrite
    /\ UNCHANGED <<file, buffered, open, rewound>>

(* Mutant of Merged: the mutations made meanwhile are not appended.        *)
MergedDumpOnly == temp

(* kv_merge_aof_rewrite: the stream is closed before the rename.           *)
Merged == temp \o Lines(buf)

CloseStream ==
    /\ child = "done" /\ BucketLocksFree
    /\ buffered' = <<>> /\ rewound' = TRUE
    /\ EndRewrite

Merge == CloseStream /\ file' = Merged /\ open' = TRUE

(* What fails in the merge; that fflush could not write all of the buffer  *)
(* to the new file is not noticed.                                         *)
MergeFails ==
    \/ /\ "append" \in RewriteFailures
       /\ child = "done" /\ BucketLocksFree
       /\ EndRewrite
       /\ UNCHANGED <<file, buffered, open, rewound>>
    \/ /\ "dump" \in RewriteFailures
       /\ CloseStream
       /\ \E n \in Len(temp) .. Len(Merged) : file' = SubSeq(Merged, 1, n)
       /\ open' = TRUE
    \/ "rename" \in RewriteFailures /\ CloseStream /\ file' = file \o buffered /\ open' = FALSE
    \/ "reopen" \in RewriteFailures /\ CloseStream /\ file' = Merged /\ open' = FALSE

-----------------------------------------------------------------------------
(* kv_init_full on the file the last process left: after it died, or after *)
(* kv_destroy closed the stream.                                           *)
Restart(lines) ==
    /\ restarts < MaxRestarts
    /\ restarts' = restarts + 1
    /\ store' = Replay(lines, now)
    /\ file' = lines /\ buffered' = <<>>
    /\ open' = TRUE /\ rewound' = TRUE /\ level' = 1
    /\ pc' = All("idle") /\ op' = All(Idle) /\ pos' = All(-1) /\ todo' = All(<<>>)
    /\ child' = "none" /\ snap' = Fresh /\ temp' = <<>> /\ buf' = <<>>
    /\ UNCHANGED <<now, calls, rewrites>>

Crash == Restart(file)
Reopen == BucketLocksFree /\ AofLockFree /\ Restart(file \o buffered)

Tick ==
    /\ now < MaxTime
    /\ now' = now + 1
    /\ UNCHANGED <<store, log, thread, background, calls, restarts>>

(* Nothing needs to happen when no call and no rewrite is under way.       *)
Rest == (\A t \in Threads : pc[t] = "idle") /\ child = "none" /\ UNCHANGED vars

Step(t) ==
    \/ Write(t) \/ WriteFails(t) \/ Apply(t) \/ Rollback(t) \/ AppendPiece(t) \/ SyncFlush(t)
Reap == Discard \/ Merge \/ MergeFails

Next ==
    \/ \E t \in Threads : Step(t) \/ SyncStart(t) \/ \E o \in Ops : Begin(t, o)
    \/ \E n \in Levels : SetDurability(n)
    \/ BgRewriteAof \/ ChildExits \/ Reap
    \/ Crash \/ Reopen
    \/ Tick \/ Rest

Spec == Init /\ [][Next]_vars

(* A call that has its lock goes on; the child runs to its end; the event  *)
(* loop of server.c reaps it.  The reaper waits for all bucket locks, which*)
(* calls of other threads take again and again: the mutexes are taken to   *)
(* be granted to a waiter that asks for them infinitely often.             *)
FairSpec ==
    /\ Spec
    /\ \A t \in Threads : WF_vars(Step(t))
    /\ WF_vars(ChildExits)
    /\ SF_vars(Reap)

-----------------------------------------------------------------------------
(* Every variable keeps its type: no call leaves a malformed table, record *)
(* or piece behind.                                                        *)
TypeOK ==
    /\ StoreOK(store) /\ StoreOK(snap)
    /\ \A r \in Range(file \o buffered \o temp) :
          r.cmd \in {"SET", "DELETE", "LPUSH", "RPOP", "SADD", "SREM", "PEXPIREAT", "hole"}
    /\ {open, rewound} \subseteq BOOLEAN
    /\ level \in 0 .. 2 /\ now \in 0 .. MaxTime
    /\ \A t \in Threads :
          /\ pc[t] \in {"idle", "write", "apply", "rollback", "buffer", "sync"}
          /\ op[t] \in Ops \cup {Idle}
          /\ pos[t] >= -1
          /\ (todo[t] # <<>>) => child # "none"
    /\ child \in {"none", "running", "done", "failed"}
    /\ calls \in 0 .. MaxCalls /\ restarts \in 0 .. MaxRestarts /\ rewrites \in 0 .. MaxRewrites

Written == file \o buffered

(* While the log is open, replaying it would show every key that no call is*)
(* working on exactly as the running server shows it: nothing acknowledged *)
(* is missing, nothing refused or rolled back comes back (kv_set and its   *)
(* rollback, the logging of list.c, set.c and eviction.c, and the merge of *)
(* kv_merge_aof_rewrite).                                                  *)
RecoveryExact ==
    open => LET recovered == Replay(Written, now)
            IN  \A k \in Keys : Quiet(k) => Seen(recovered, k, now) = Seen(store, k, now)

(* A key with a logged deadline that has passed.                           *)
Lapsed(k) ==
    \E r \in Range(Written) : r.cmd = "PEXPIREAT" /\ r.k = k /\ r.at > 0 /\ r.at <= now

(* The same for the keys none of whose logged deadlines has passed: an     *)
(* expiry disturbs the recovery of its own key only (find_entry_unlocked   *)
(* removes expired entries without logging it).                            *)
RecoveryUntilDeadline ==
    open => LET recovered == Replay(Written, now)
            IN  \A k \in Keys : Quiet(k) /\ ~Lapsed(k) =>
                    Seen(recovered, k, now) = Seen(store, k, now)

(* What the child of kv_bgrewriteaof would write now replays to what the   *)
(* server shows now: list order, members and deadlines included.           *)
DumpExact ==
    LET recovered == Replay(Dump(store, now), now)
    IN  \A k \in Keys : Seen(recovered, k, now) = Seen(store, k, now)

(* A server that was started with an append-only file keeps logging to it: *)
(* no rewrite leaves aof_fp NULL (kv_merge_aof_rewrite).                   *)
LogStaysOpen == open

(* kv_merge_aof_rewrite never closes the stream while kv_sync, which holds *)
(* aof_lock, is flushing it.                                               *)
StreamNotClosedInUse == [][CloseStream => AofLockFree]_vars

(* A rewrite that was started ends: the child is reaped and the buffer is  *)
(* given up, so the next BGREWRITEAOF is possible (the reaper of server.c).*)
RewriteEnds == child # "none" ~> child = "none"
=============================================================================
