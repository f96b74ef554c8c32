----------------------------- MODULE MCKvStore -----------------------------
(* Instances of KvStore: the keys, their hashes, and the calls of each run. *)
EXTENDS KvStore, TLC

CONSTANTS k1, k2, k3, v1, v2, t1, t2

(* k1 and k3 share a bucket of up to eight, k1 and k2 do not.              *)
MCHash == [k \in Keys |-> CASE k = k1 -> 0 [] k = k2 -> 1 [] k = k3 -> 8]
MCValBytes == [v \in Vals |-> IF v = v1 THEN 1 ELSE 3]

On(cmds) == [cmd : cmds, k : Keys]
Put(cmds) == [cmd : cmds, k : Keys, v : Vals]

(* Strings and table growth, by two threads.                               *)
StringOps == Put({"SET"}) \cup On({"DELETE"}) \cup [cmd : {"SWEEP"}, n : {1}, full : {TRUE}]

(* Two threads at the capacity and budget limits; RESIZE can leave fewer   *)
(* buckets than locks.                                                     *)
LimitOps ==
    [cmd : {"SET"}, k : {k1, k2}, v : Vals] \cup
    [cmd : {"SET"}, k : {k3}, v : {v1}] \cup [cmd : {"LPUSH"}, k : {k1}, v : {v1}] \cup
    [cmd : {"GET", "DELETE"}, k : {k2}] \cup [cmd : {"EVICT"}] \cup [cmd : {"RESIZE"}, n : {1, 4}] \cup
    { [cmd |-> "CONFIG", field |-> "max_capacity", n |-> 2],
      [cmd |-> "CONFIG", field |-> "max_memory_budget", n |-> 5],
      [cmd |-> "CONFIG", field |-> "auto_resize", n |-> 1] }

(* Lists, sets and deadlines, by two threads on two keys.                  *)
TypeOps ==
    [cmd : {"LPUSH"}, k : Keys, v : Vals] \cup [cmd : {"SADD", "SREM"}, k : {k2}, v : Vals] \cup
    [cmd : {"SET"}, k : {k1}, v : Vals] \cup [cmd : {"RPOP"}, k : Keys] \cup
    [cmd : {"GET", "LLEN", "PTTL", "PERSIST"}, k : {k1}] \cup
    [cmd : {"SMEMBERS", "DELETE"}, k : {k2}] \cup
    [cmd : {"PEXPIREAT"}, k : {k1}, at : {1}] \cup
    { [cmd |-> "SWEEP", n |-> 1, full |-> TRUE], [cmd |-> "SWEEP", n |-> 3, full |-> FALSE] }
=============================================================================
