------------------------------ MODULE TaskQueue ------------------------------
(***************************************************************************)
(* What the thread pool promises its callers: accepted tasks are started   *)
(* in the order in which they were accepted, at most Capacity of them wait,*)
(* each runs once, and nothing is accepted after the pool is closed.       *)
(***************************************************************************)
EXTENDS Naturals, Sequences

CONSTANTS Tasks, Capacity

VARIABLES
    pending,    \* accepted tasks not yet started, in order
    started,    \* tasks being executed
    finished,   \* tasks executed
    closed      \* no further task is accepted

vars == <<pending, started, finished, closed>>

Init == pending = <<>> /\ started = {} /\ finished = {} /\ closed = FALSE

Accept(t) ==
    /\ ~closed
    /\ Len(pending) < Capacity
    /\ t \notin started \cup finished
    /\ \A i \in DOMAIN pending : pending[i] # t
    /\ pending' = Append(pending, t)
    /\ UNCHANGED <<started, finished, closed>>

Start ==
    /\ pending # <<>>
    /\ started' = started \cup {Head(pending)}
    /\ pending' = Tail(pending)
    /\ UNCHANGED <<finished, closed>>

Finish(t) ==
    /\ t \in started
    /\ started' = started \ {t}
    /\ finished' = finished \cup {t}
    /\ UNCHANGED <<pending, closed>>

Close ==
    /\ ~closed
    /\ closed' = TRUE
    /\ UNCHANGED <<pending, started, finished>>

Next == (\E t \in Tasks : Accept(t) \/ Finish(t)) \/ Start \/ Close

Spec == Init /\ [][Next]_vars
=============================================================================
