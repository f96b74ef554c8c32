------------------------------- MODULE MCKvAof -------------------------------
(* Instances of KvAof: the calls of each run.  Sizes are 0, for no property *)
(* here is about bytes.                                                     *)
EXTENDS KvAof, TLC

CONSTANTS k1, k2, v1, v2, other, t1, t2

NoBytes == [v \in Vals |-> 0]
NoHash == [k \in Keys |-> 0]

On(cmds, K) == [cmd : cmds, k : K]
With(cmds, K, V) == [cmd : cmds, k : K, v : V]
At(K, T) == [cmd : {"PEXPIREAT"}, k : K, at : T]

(* Calls that are refused for a missing key, another type or a long value, *)
(* and a deadline that passes.                                             *)
RefusedOps ==
    With({"SET"}, Keys, {v1, v2}) \cup On({"DELETE"}, Keys) \cup With({"LPUSH"}, {k1}, {v1}) \cup
    On({"GET", "PERSIST"}, {k1}) \cup At({k1}, {1})

(* Calls whose log record is never rolled back, with deadlines that the    *)
(* clock does not reach.                                                   *)
SafeOps ==
    With({"SET"}, {k2}, {v1, v2}) \cup With({"LPUSH", "SADD"}, {k1}, {v1, v2}) \cup
    With({"SREM"}, {k1}, {v1}) \cup On({"RPOP", "PERSIST", "GET"}, {k1}) \cup At({k1, k2}, {9})

(* Two threads; SADD and SREM of v1, RPOP and LPUSH on either key.         *)
SharedOps ==
    With({"LPUSH"}, {k1, k2}, {v1, v2}) \cup On({"RPOP"}, {k1, k2}) \cup
    With({"SADD", "SREM"}, {k2}, {v1})

(* SET and DELETE, which look at the result of the log, and LPUSH, which   *)
(* does not.                                                               *)
FailOps == With({"SET"}, {k1}, {v1, v2}) \cup On({"DELETE"}, {k1}) \cup With({"LPUSH"}, {k2}, {v1})
=============================================================================
