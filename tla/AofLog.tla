------------------------------- MODULE AofLog -------------------------------
(***************************************************************************)
(* The records of the append-only file and what the code makes of them:    *)
(* the effect of a command on the table, the replay of a log, the dump     *)
(* BGREWRITEAOF writes, and the pieces in which a record reaches the       *)
(* rewrite buffer.  A record is the call it came from; a file is the       *)
(* sequence of its lines.                                                  *)
(***************************************************************************)
EXTENDS KvData, SequencesExt

CONSTANTS
    InitBuckets, MaxCapacity,
    OtherVal        \* a string that no caller has passed: pieces of several

ASSUME LogAssumption == OtherVal \in Vals /\ InitBuckets \in Nat \ {0} /\ MaxCapacity \in Nat

(* kv_init_full, before the replay.  Growth of the table moves entries and *)
(* changes none; it is left to KvStore.                                    *)
Fresh ==
    [buckets |-> <<>>, bucket_count |-> InitBuckets, size |-> 0, max_capacity |-> MaxCapacity,
     allocated_bytes |-> InitBuckets * PtrBytes, peak_allocated_bytes |-> InitBuckets * PtrBytes,
     max_memory_budget |-> 0, auto_resize |-> TRUE, lru_clock |-> 0]

-----------------------------------------------------------------------------
(* Each command with its lookup: the store after it, and whether it is to  *)
(* be logged (SET and DELETE: whether it succeeded).                       *)
Did(s) == [store |-> s, done |-> TRUE]
Refused(s) == [store |-> s, done |-> FALSE]

(* kv_set_internal                                                         *)
ExecSet(s, o) ==
    CASE Has(s, o.k) /\ s.buckets[o.k].type = "string" -> Did(Replace(s, o.k, o.v))
      [] ~Has(s, o.k) /\ ~AtCapacity(s) -> Did(Link(s, o.k, "string", o.v, EntryNeed(o)))
      [] OTHER -> Refused(s)

(* kv_delete_internal                                                      *)
ExecDelete(s, o) == IF Has(s, o.k) THEN Did(Delete(s, o.k)) ELSE Refused(s)

(* kv_lpush and kv_sadd, s being the store after the lookup.               *)
ExecPush(s, o) ==
    LET e == s.buckets[o.k]
        empty == IF o.cmd = "LPUSH" THEN <<>> ELSE {}
    IN  CASE Has(s, o.k) /\ e.type # Container(o) -> Refused(s)
          [] Has(s, o.k) /\ e.type = "set" /\ o.cmd = "SADD" /\ o.v \in e.value -> Refused(Touch(s, o.k))
          [] ~Has(s, o.k) /\ AtCapacity(s) -> Refused(s)
          [] ~Has(s, o.k) /\ ~AtCapacity(s) ->
               Did(Pushed(Link(s, o.k, Container(o), empty, EntryNeed(o)), o))
          [] OTHER -> Did(Pushed(Touch(s, o.k), o))

(* kv_rpop and kv_srem                                                     *)
ExecRpop(s, o) ==
    LET list == s.buckets[o.k].value
        n == Len(list)
    IN  IF Has(s, o.k) /\ s.buckets[o.k].type = "list" /\ n > 0
        THEN Did(Shrink(s, o.k, Front(list), list[n], n = 1)) ELSE Refused(s)
ExecSrem(s, o) ==
    LET set == s.buckets[o.k].value
    IN  IF Has(s, o.k) /\ s.buckets[o.k].type = "set" /\ o.v \in set
        THEN Did(Shrink(s, o.k, set \ {o.v}, o.v, set = {o.v})) ELSE Refused(s)

(* kv_pexpireat, kv_persist, and kv_set_expire_at_ms_internal, which the   *)
(* replay calls without a lookup.                                          *)
WithExpiry(s, k, at) == IF Has(s, k) THEN [s EXCEPT !.buckets[k].expire_at_ms = at] ELSE s
ExecExpire(s, o) ==
    IF Has(s, o.k) /\ (o.cmd = "PERSIST" => s.buckets[o.k].expire_at_ms # 0)
    THEN Did(WithExpiry(s, o.k, IF o.cmd = "PERSIST" THEN 0 ELSE o.at))
    ELSE Refused(s)

(* kv_get, the one read here: it too removes an expired entry.             *)
ExecGet(s, o) ==
    Refused(IF Has(s, o.k) /\ s.buckets[o.k].type = "string" THEN Touch(s, o.k) ELSE s)

Exec(s, o, now) ==
    LET found == Find(s, o.k, now) IN
    CASE o.cmd = "SET" -> ExecSet(s, o)
      [] o.cmd = "DELETE" -> ExecDelete(s, o)
      [] o.cmd \in {"LPUSH", "SADD"} -> ExecPush(found, o)
      [] o.cmd = "RPOP" -> ExecRpop(found, o)
      [] o.cmd = "SREM" -> ExecSrem(found, o)
      [] o.cmd \in {"PEXPIREAT", "PERSIST"} -> ExecExpire(found, o)
      [] o.cmd = "GET" -> ExecGet(found, o)

-----------------------------------------------------------------------------
(* kv_persist logs an expiry at 0; every other command logs itself.        *)
LogRecord(o) ==
    IF o.cmd = "PERSIST" THEN [cmd |-> "PEXPIREAT", k |-> o.k, at |-> 0] ELSE o

(* A line of NUL bytes, left where ftruncate extends the file.             *)
Hole == [cmd |-> "hole"]

(* What fgets and strip_line_endings leave of the file: the NUL bytes end  *)
(* the string before the record that shares their line.                    *)
Readable(file) ==
    LET kept == SelectSeq([i \in 1 .. Len(file) |-> i],
                          LAMBDA i : file[i] # Hole /\ (i > 1 => file[i - 1] # Hole))
    IN  [i \in 1 .. Len(kept) |-> file[kept[i]]]

(* replay_aof_log                                                          *)
ReplayOne(s, r, now) ==
    IF r.cmd = "PEXPIREAT" THEN WithExpiry(s, r.k, r.at) ELSE Exec(s, r, now).store
Replay(file, now) == FoldLeft(LAMBDA s, r : ReplayOne(s, r, now), Fresh, Readable(file))

(* What the child of kv_bgrewriteaof writes for one entry: its value, and  *)
(* its deadline if it has one.  A list goes out from its tail.             *)
Adds(cmd, k, values) == [i \in 1 .. Len(values) |-> [cmd |-> cmd, k |-> k, v |-> values[i]]]

(* Mutant of ValueRecords: a list goes out from its head.                  *)
ValueFromHead(k, e) ==
    CASE e.type = "string" -> Adds("SET", k, <<e.value>>)
      [] e.type = "list" -> Adds("LPUSH", k, e.value)
      [] e.type = "set" -> Adds("SADD", k, SetToSeq(e.value))

ValueRecords(k, e) ==
    CASE e.type = "string" -> Adds("SET", k, <<e.value>>)
      [] e.type = "list" -> Adds("LPUSH", k, Reverse(e.value))
      [] e.type = "set" -> Adds("SADD", k, SetToSeq(e.value))

(* Mutant of DumpEntry: deadlines are left out.                            *)
DumpNoExpiry(k, e) == ValueRecords(k, e)

DumpEntry(k, e) ==
    ValueRecords(k, e) \o
    IF e.expire_at_ms > 0 THEN <<[cmd |-> "PEXPIREAT", k |-> k, at |-> e.expire_at_ms]>> ELSE <<>>

Dump(s, now) ==
    LET keys == SetToSeq({k \in Present(s) : ~IsExpired(s.buckets[k], now)})
    IN  FlattenSeq([i \in 1 .. Len(keys) |-> DumpEntry(keys[i], s.buckets[keys[i]])])

-----------------------------------------------------------------------------
(* append_aof_rewrite_buffer is called once for each piece of a record.    *)
Pieces(o) ==
    LET head == <<<<<<"cmd", LogRecord(o).cmd>>>>, <<<<"key", o.k>>>>>>
        tab == <<<<"tab", 0>>>>
        end == <<<<"nl", 0>>>>
    IN  head \o CASE o.cmd \in {"SET", "LPUSH", "SADD", "SREM"} -> <<tab, <<<<"val", o.v>>>>, end>>
                  [] o.cmd = "PEXPIREAT" -> <<tab, <<<<"num", o.at>>>>, end>>
                  [] o.cmd = "PERSIST" -> <<tab \o <<<<"num", 0>>>> \o end>>
                  [] o.cmd \in {"DELETE", "RPOP"} -> <<end>>

(* The lines of the buffer as replay_aof_log will take them apart: a       *)
(* command, a key up to the next tab, and the rest of the line as value.   *)
(* A key made of several pieces is none of Keys.                           *)
LineRecord(line) ==
    LET cmd == line[1][2]
        n == Len(line)
    IN  CASE cmd \in {"DELETE", "RPOP"} -> [cmd |-> cmd, k |-> line[2][2]]
          [] cmd = "PEXPIREAT" -> [cmd |-> cmd, k |-> line[2][2],
                                   at |-> IF n > 3 /\ line[4][1] = "num" THEN line[4][2] ELSE 0]
          [] OTHER -> [cmd |-> cmd, k |-> line[2][2],
                       v |-> IF n = 4 /\ line[4][1] = "val" THEN line[4][2] ELSE OtherVal]
IsRecord(line) ==
    /\ Len(line) > 1 /\ line[1][1] = "cmd" /\ line[2][1] = "key"
    /\ IF Len(line) > 2 THEN line[3][1] = "tab" ELSE line[1][2] \in {"DELETE", "RPOP"}
Lines(buf) ==
    LET split == FoldLeft(LAMBDA acc, x :
                     IF x[1] = "nl" THEN [lines |-> Append(acc.lines, acc.line), line |-> <<>>]
                     ELSE [acc EXCEPT !.line = Append(@, x)],
                     [lines |-> <<>>, line |-> <<>>], buf)
        records == SelectSeq(split.lines, IsRecord)
    IN  [i \in 1 .. Len(records) |-> LineRecord(records[i])]

(* What a client can see of a key at a given time.                         *)
Absent == [type |-> "none"]
Seen(s, k, now) ==
    IF Has(s, k) /\ ~IsExpired(s.buckets[k], now)
    THEN [type |-> s.buckets[k].type, value |-> s.buckets[k].value,
          expire_at_ms |-> s.buckets[k].expire_at_ms]
    ELSE Absent
=============================================================================
