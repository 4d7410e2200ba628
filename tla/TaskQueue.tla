----------------------------- MODULE TaskQueue -----------------------------
(***************************************************************************)
(* What thread_pool.h promises to its caller, without threads, mutex or    *)
(* condition variable: tasks are accepted in some order, started in that   *)
(* same order, at most Capacity at a time, and each one finishes once.     *)
(* Nothing is accepted once the queue is closed; what was accepted before  *)
(* is still served.                                                        *)
(***************************************************************************)
EXTENDS Naturals, Sequences, FiniteSets

CONSTANTS
    Tasks,     \* what may be submitted
    Capacity   \* how many tasks may run at once (nthreads)

VARIABLES
    pending,   \* accepted and not yet started, oldest first
    running,   \* started and not yet finished
    finished,  \* finished
    open       \* whether tasks are still accepted

qvars == <<pending, running, finished, open>>

Pending == {pending[i] : i \in DOMAIN pending}

Init ==
    /\ pending = <<>>
    /\ running = {}
    /\ finished = {}
    /\ open = TRUE

Accept(t) ==
    /\ open
    /\ t \notin Pending \cup running \cup finished
    /\ pending' = Append(pending, t)
    /\ UNCHANGED <<running, finished, open>>

Start ==
    /\ pending # <<>>
    /\ Cardinality(running) < Capacity
    /\ pending' = Tail(pending)
    /\ running' = running \cup {Head(pending)}
    /\ UNCHANGED <<finished, open>>

Finish(t) ==
    /\ t \in running
    /\ running' = running \ {t}
    /\ finished' = finished \cup {t}
    /\ UNCHANGED <<pending, open>>

Close ==
    /\ open
    /\ open' = FALSE
    /\ UNCHANGED <<pending, running, finished>>

Next ==
    \/ \E t \in Tasks : Accept(t) \/ Finish(t)
    \/ Start
    \/ Close

Spec == Init /\ [][Next]_qvars
=============================================================================
