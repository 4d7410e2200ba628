----------------------------- MODULE ThreadPool -----------------------------
(***************************************************************************)
(* The thread pool of v1_threadpool (src/threadpool.c) together with the   *)
(* one thread that owns it, run_server's: it creates the pool, submits the *)
(* connections it accepts and may at last destroy the pool.                *)
(*                                                                         *)
(* Critical sections that only the owner enters whole (submit, destroy)    *)
(* are one step.  A worker's section is three (lock, test, cond_wait):     *)
(* the failure path of thread_pool_create writes `stop` and broadcasts     *)
(* WITHOUT the mutex, so it can fall between the test and the wait.        *)
(***************************************************************************)
EXTENDS Naturals, Sequences, FiniteSets

CONSTANTS
    Workers,   \* the threads pool->threads[0 .. nthreads-1]
    Tasks,     \* connections the listening socket will ever yield
    NULL       \* the null pointer, and the owner of a free mutex

ASSUME WorkersAssumption == Workers # {} /\ IsFiniteSet(Workers)
ASSUME NullAssumption == NULL \notin Workers /\ NULL \notin Tasks

VARIABLES
    mpc,        \* where the owning thread is
    pc,         \* where each worker is
    mtx,        \* the worker holding pool->mtx, or NULL
    stop,       \* pool->stop
    queue,      \* the nodes reachable from pool->head, in order
    tail,       \* pool->tail
    task,       \* the task a worker passed to pool->handler
    accepted,   \* history: tasks thread_pool_submit returned 0 for, in order
    dispatched, \* history: tasks taken off the list, in order
    finished,   \* tasks whose handler has returned
    refused     \* tasks run_server closed because submit returned -1

poolVars == <<mtx, stop, queue, tail>>
histVars == <<accepted, dispatched, finished, refused>>
vars == <<mpc, pc, poolVars, task, histVars>>

OwnerStates == {"create", "unwind_broadcast", "unwind_join", "failed",
                "accept", "join", "destroyed"}
WorkerStates == {"none", "start", "check", "towait", "waiting", "woken",
                 "handle", "done"}

Elems(s) == {s[i] : i \in DOMAIN s}
In(states) == {w \in Workers : pc[w] \in states}
Waiting == In({"waiting"})
Awake == In({"start", "woken", "check"})   \* will look at the list again

Init ==
    /\ mpc = "create"
    /\ pc = [w \in Workers |-> "none"]
    /\ mtx = NULL
    /\ stop = FALSE
    /\ queue = <<>>
    /\ tail = NULL
    /\ task = [w \in Workers |-> NULL]
    /\ accepted = <<>>
    /\ dispatched = <<>>
    /\ finished = {}
    /\ refused = {}

-----------------------------------------------------------------------------
(* pthread_cond_signal and pthread_cond_broadcast on pool->cond.           *)

Signal ==
    \/ Waiting = {} /\ UNCHANGED pc
    \/ \E w \in Waiting : pc' = [pc EXCEPT ![w] = "woken"]

Broadcast ==
    pc' = [w \in Workers |-> IF w \in Waiting THEN "woken" ELSE pc[w]]

-----------------------------------------------------------------------------
(* thread_pool_create.                                                     *)

(* calloc or the initialisation of mutex or condition variable fails.      *)
CreateFailsEarly ==
    /\ mpc = "create"
    /\ In({"none"}) = Workers
    /\ mpc' = "failed"
    /\ UNCHANGED <<pc, poolVars, task, histVars>>

CreateWorker(w) ==
    /\ mpc = "create"
    /\ pc[w] = "none"
    /\ pc' = [pc EXCEPT ![w] = "start"]
    /\ UNCHANGED <<mpc, poolVars, task, histVars>>

CreateReturns ==
    /\ mpc = "create"
    /\ In({"none"}) = {}
    /\ mpc' = "accept"
    /\ UNCHANGED <<pc, poolVars, task, histVars>>

(* pthread_create fails: stop is set, with no lock held.                   *)
CreateFails ==
    /\ mpc = "create"
    /\ In({"none"}) # {}
    /\ stop' = TRUE
    /\ mpc' = "unwind_broadcast"
    /\ UNCHANGED <<pc, mtx, queue, tail, task, histVars>>

UnwindBroadcast ==
    /\ mpc = "unwind_broadcast"
    /\ Broadcast
    /\ mpc' = "unwind_join"
    /\ UNCHANGED <<poolVars, task, histVars>>

SomeJoined == In({"none", "done"}) # {}   \* mutant: joins one thread only

AllJoined == In({"none", "done"}) = Workers

UnwindJoined ==
    /\ mpc = "unwind_join"
    /\ AllJoined
    /\ mpc' = "failed"
    /\ UNCHANGED <<pc, poolVars, task, histVars>>

-----------------------------------------------------------------------------
(* worker_routine.                                                         *)

Lock(w) ==
    /\ pc[w] \in {"start", "woken"}
    /\ mtx = NULL
    /\ mtx' = w
    /\ pc' = [pc EXCEPT ![w] = "check"]
    /\ UNCHANGED <<mpc, stop, queue, tail, task, histVars>>

WaitUntested == ~stop   \* mutant: the list is not looked at before waiting

(* while(!pool->stop && pool->head == NULL)                                *)
WaitTest == ~stop /\ queue = <<>>

FoundEmpty(w) ==
    /\ pc[w] = "check"
    /\ WaitTest
    /\ pc' = [pc EXCEPT ![w] = "towait"]
    /\ UNCHANGED <<mpc, poolVars, task, histVars>>

(* pthread_cond_wait releases the mutex and blocks in one step.            *)
CondWait(w) ==
    /\ pc[w] = "towait"
    /\ pc' = [pc EXCEPT ![w] = "waiting"]
    /\ mtx' = NULL
    /\ UNCHANGED <<mpc, stop, queue, tail, task, histVars>>

(* POSIX lets pthread_cond_wait return with nobody having signalled.       *)
SpuriousWakeup(w) ==
    /\ pc[w] = "waiting"
    /\ pc' = [pc EXCEPT ![w] = "woken"]
    /\ UNCHANGED <<mpc, poolVars, task, histVars>>

ExitOnStop == stop   \* mutant: tasks still on the list are abandoned

(* if(pool->stop && pool->head == NULL)                                    *)
ExitTest == stop /\ queue = <<>>

Exit(w) ==
    /\ pc[w] = "check"
    /\ ExitTest
    /\ pc' = [pc EXCEPT ![w] = "done"]
    /\ mtx' = NULL
    /\ UNCHANGED <<mpc, stop, queue, tail, task, histVars>>

HeadKept == queue      \* mutant: pool->head is not advanced

HeadAfterPop == Tail(queue)

TailStale == tail      \* mutant: tail survives the pop of the last node

TailAfterPop == IF Tail(queue) = <<>> THEN NULL ELSE tail

NodeAfterAdvance ==    \* mutant: head is advanced before it is read
    IF Tail(queue) = <<>> THEN NULL ELSE queue[2]

Node == Head(queue)

Pop(w) ==
    /\ pc[w] = "check"
    /\ queue # <<>>
    /\ queue' = HeadAfterPop
    /\ tail' = TailAfterPop
    /\ task' = [task EXCEPT ![w] = Node]
    /\ dispatched' = Append(dispatched, Node)
    /\ pc' = [pc EXCEPT ![w] = "handle"]
    /\ mtx' = NULL
    /\ UNCHANGED <<mpc, stop, accepted, finished, refused>>

(* pool->handler returns and the node is freed.                            *)
Handled(w) ==
    /\ pc[w] = "handle"
    /\ finished' = finished \cup {task[w]}
    /\ task' = [task EXCEPT ![w] = NULL]
    /\ pc' = [pc EXCEPT ![w] = "start"]
    /\ UNCHANGED <<mpc, poolVars, accepted, dispatched, refused>>

-----------------------------------------------------------------------------
(* run_server's loop: accept, then thread_pool_submit.                     *)

Fresh(t) == t \notin Elems(accepted) \cup refused

LinkedAtHead(t) ==     \* mutant: the node is put in front of the list
    IF tail = NULL THEN <<t>> ELSE <<t>> \o queue

(* A node written through pool->tail is on the list only if tail is its    *)
(* last node; otherwise the write goes to freed memory and the node is     *)
(* lost to the list.                                                       *)
Linked(t) ==
    IF tail = NULL THEN <<t>>
    ELSE IF queue # <<>> /\ queue[Len(queue)] = tail THEN Append(queue, t)
    ELSE queue

SignalLost == UNCHANGED pc   \* mutant: submit does not signal

SubmitSignal == Signal

Submit(t) ==
    /\ mpc = "accept"
    /\ Fresh(t)
    /\ mtx = NULL
    /\ queue' = Linked(t)
    /\ tail' = t
    /\ SubmitSignal
    /\ accepted' = Append(accepted, t)
    /\ UNCHANGED <<mpc, mtx, stop, task, dispatched, finished, refused>>

(* malloc fails: submit returns -1 and run_server closes the connection.   *)
SubmitRefused(t) ==
    /\ mpc = "accept"
    /\ Fresh(t)
    /\ refused' = refused \cup {t}
    /\ UNCHANGED <<mpc, pc, poolVars, task, accepted, dispatched, finished>>

-----------------------------------------------------------------------------
(* thread_pool_destroy.  run_server's accept loop has no exit, so in the   *)
(* program as it stands this is the pool's promise to a future caller.     *)

WakesOne == Signal   \* mutant: signal where broadcast is needed

DestroyWakes == Broadcast

Destroy ==
    /\ mpc = "accept"
    /\ mtx = NULL
    /\ stop' = TRUE
    /\ DestroyWakes
    /\ mpc' = "join"
    /\ UNCHANGED <<mtx, queue, tail, task, histVars>>

(* Every worker joined: what is left on the list is freed, unserved.       *)
DestroyReturns ==
    /\ mpc = "join"
    /\ AllJoined
    /\ queue' = <<>>
    /\ mpc' = "destroyed"
    /\ UNCHANGED <<pc, mtx, stop, tail, task, histVars>>

-----------------------------------------------------------------------------
Create ==
    \/ CreateFailsEarly
    \/ \E w \in Workers : CreateWorker(w)
    \/ CreateReturns
    \/ CreateFails
    \/ UnwindBroadcast
    \/ UnwindJoined

Worker(w) ==
    \/ Lock(w)
    \/ FoundEmpty(w)
    \/ CondWait(w)
    \/ Exit(w)
    \/ Pop(w)
    \/ Handled(w)

Owner ==
    \/ \E t \in Tasks : Submit(t) \/ SubmitRefused(t)
    \/ Destroy
    \/ DestroyReturns

Next ==
    \/ Create
    \/ Owner
    \/ \E w \in Workers : Worker(w) \/ SpuriousWakeup(w)

(* Threads that can run are scheduled, and handlers return.  Nothing makes *)
(* the owner submit or destroy, and nothing makes a spurious wakeup come.  *)
Fairness ==
    /\ \A w \in Workers : WF_vars(Worker(w))
    /\ WF_vars(UnwindBroadcast \/ UnwindJoined \/ DestroyReturns)

Spec == Init /\ [][Next]_vars

FairSpec == Spec /\ Fairness

-----------------------------------------------------------------------------
(* The types of the pool's fields and of the threads' places in the code.  *)
TypeOK ==
    /\ mpc \in OwnerStates
    /\ pc \in [Workers -> WorkerStates]
    /\ mtx \in Workers \cup {NULL}
    /\ stop \in BOOLEAN
    /\ queue \in Seq(Tasks)
    /\ tail \in Tasks \cup {NULL}
    /\ task \in [Workers -> Tasks \cup {NULL}]
    /\ accepted \in Seq(Tasks)
    /\ dispatched \in Seq(Tasks)
    /\ finished \in SUBSET Tasks
    /\ refused \in SUBSET Tasks

(* pool->tail is the last node of the list, and NULL exactly when the list *)
(* is empty: submit never writes through a pointer to a freed node         *)
(* (worker_routine's reset of tail, thread_pool_submit's use of it).       *)
TailIsLast ==
    tail = IF queue = <<>> THEN NULL ELSE queue[Len(queue)]

(* Tasks leave the list in the order thread_pool_submit accepted them, and *)
(* none is lost or duplicated between submit and the handler.              *)
AcceptedInOrder == accepted = dispatched \o queue

(* A dispatched task is in the hands of exactly one worker until its       *)
(* handler returns, and no task is handled twice.                          *)
ServedOnce ==
    /\ \A i, j \in DOMAIN accepted : accepted[i] = accepted[j] => i = j
    /\ \A v, w \in In({"handle"}) : task[v] = task[w] => v = w
    /\ \A w \in In({"handle"}) : task[w] \notin finished
    /\ Elems(dispatched) = finished \cup {task[w] : w \in In({"handle"})}

(* One signal per submit is enough: while a worker sleeps, the list is no  *)
(* longer than the number of workers that are up and will look at it       *)
(* (thread_pool_submit's pthread_cond_signal under the mutex).             *)
NoLostWakeup ==
    Waiting # {} => Len(queue) <= Cardinality(Awake)

(* thread_pool_destroy returns only after every accepted task was handled, *)
(* so its loop over the remaining nodes never drops one.                   *)
NothingDropped == mpc = "destroyed" => finished = Elems(accepted)

(* An accepted task is eventually handled, even when thread_pool_destroy   *)
(* is called while it waits on the list.                                   *)
AcceptedIsHandled ==
    \A t \in Tasks : t \in Elems(accepted) ~> t \in finished

(* thread_pool_destroy returns: the broadcast under the mutex reaches      *)
(* every worker that sleeps, and the others see stop before they sleep.    *)
DestroyTerminates == mpc = "join" ~> mpc = "destroyed"

(* thread_pool_create returns when pthread_create fails part-way, as       *)
(* run_server expects of it ("thread_pool_create failed").                 *)
FailedCreateTerminates == mpc = "unwind_broadcast" ~> mpc = "failed"

InHand == {task[w] : w \in In({"handle"})}

TQ == INSTANCE TaskQueue WITH
    Capacity <- Cardinality(Workers),
    pending <- queue,
    running <- InHand,
    open <- ~stop

(* The pool implements the queue its header promises.                      *)
ImplementsTaskQueue == TQ!Spec
=============================================================================
