------------------------- MODULE ThreadPool_proofs -------------------------
(***************************************************************************)
(* The safety properties of ThreadPool for every number of workers and of  *)
(* tasks, and that the pool implements TaskQueue.  All follow from one     *)
(* inductive invariant, IInv.                                              *)
(***************************************************************************)
EXTENDS ThreadPool, TLAPS, FiniteSetTheorems, SequenceTheorems

(* pool->mtx is held exactly inside a worker's critical section.           *)
MutexInv == \A w \in Workers : pc[w] \in {"check", "towait"} <=> mtx = w

(* A worker owns a task exactly while the handler runs.                    *)
TaskHeld == \A w \in Workers : task[w] # NULL <=> pc[w] = "handle"

(* Between the test of the list and pthread_cond_wait the list stays       *)
(* empty, since the mutex is held.                                         *)
SeenEmpty == \A w \in Workers : pc[w] = "towait" => queue = <<>>

(* What the owner's position says of stop, of the list and of the workers. *)
Phases ==
    /\ mpc \notin {"accept", "join", "destroyed"} => accepted = <<>>
    /\ mpc \in {"create", "accept"} => ~stop
    /\ mpc \in {"unwind_broadcast", "unwind_join", "join", "destroyed"} => stop
    /\ mpc \in {"accept", "join", "destroyed"} =>
           \A w \in Workers : pc[w] # "none"
    /\ mpc = "destroyed" => \A w \in Workers : pc[w] = "done"
    /\ \A w \in Workers : pc[w] = "done" => stop /\ queue = <<>>

IInv ==
    /\ TypeOK
    /\ MutexInv
    /\ TaskHeld
    /\ SeenEmpty
    /\ Phases
    /\ TailIsLast
    /\ AcceptedInOrder
    /\ ServedOnce
    /\ NoLostWakeup

-----------------------------------------------------------------------------
(* Sequences.                                                              *)

(* Moving the head of the list to the end of what was dispatched changes   *)
(* nothing in the history.                                                 *)
LEMMA ConcatShift ==
    ASSUME NEW S, NEW s \in Seq(S), NEW q \in Seq(S), q # <<>>
    PROVE  s \o q = Append(s, Head(q)) \o Tail(q)
<1>1. Head(q) \in S /\ Tail(q) \in Seq(S) /\ Len(Tail(q)) = Len(q) - 1
  BY HeadTailProperties
<1>2. Head(q) = q[1] /\ \A i \in 1 .. Len(Tail(q)) : Tail(q)[i] = q[i + 1]
  BY HeadTailProperties
<1>3. Len(q) \in Nat \ {0}
  BY EmptySeq
<1>4. /\ Append(s, Head(q)) \in Seq(S)
      /\ Len(Append(s, Head(q))) = Len(s) + 1
      /\ \A i \in 1 .. Len(s) : Append(s, Head(q))[i] = s[i]
      /\ Append(s, Head(q))[Len(s) + 1] = Head(q)
  BY <1>1, AppendProperties
<1> DEFINE a == s \o q
           b == Append(s, Head(q)) \o Tail(q)
<1>5. /\ a \in Seq(S) /\ Len(a) = Len(s) + Len(q)
      /\ \A i \in 1 .. Len(s) + Len(q) :
             a[i] = IF i <= Len(s) THEN s[i] ELSE q[i - Len(s)]
  BY ConcatProperties
<1>6. /\ b \in Seq(S) /\ Len(b) = Len(s) + 1 + Len(Tail(q))
      /\ \A i \in 1 .. Len(s) + 1 + Len(Tail(q)) :
             b[i] = IF i <= Len(s) + 1 THEN Append(s, Head(q))[i]
                    ELSE Tail(q)[i - (Len(s) + 1)]
  BY <1>1, <1>4, ConcatProperties
<1>7. Len(s) \in Nat
  BY LenProperties
<1>8. Len(a) = Len(b)
  BY <1>1, <1>3, <1>5, <1>6, <1>7
<1>9. ASSUME NEW i \in 1 .. Len(a) PROVE a[i] = b[i]
  <2>1. CASE i <= Len(s)
    BY <2>1, <1>1, <1>3, <1>4, <1>5, <1>6, <1>7
  <2>2. CASE i = Len(s) + 1
    <3>1. a[i] = q[1]
      BY <2>2, <1>3, <1>5, <1>7
    <3>2. b[i] = Head(q)
      BY <2>2, <1>1, <1>3, <1>4, <1>6, <1>7
    <3>. QED
      BY <3>1, <3>2, <1>2
  <2>3. CASE i > Len(s) + 1
    <3>1. a[i] = q[i - Len(s)]
      BY <2>3, <1>5, <1>7
    <3>2. b[i] = Tail(q)[i - (Len(s) + 1)]
      BY <2>3, <1>5, <1>6, <1>7, <1>8
    <3>3. i - (Len(s) + 1) \in 1 .. Len(Tail(q))
      BY <2>3, <1>1, <1>3, <1>5, <1>7
    <3>4. Tail(q)[i - (Len(s) + 1)] = q[(i - (Len(s) + 1)) + 1]
      BY <3>3, <1>2
    <3>. QED
      BY <3>1, <3>2, <3>4, <1>5, <1>7
  <2>. QED
    BY <2>1, <2>2, <2>3, <1>5, <1>7
<1>. QED
  BY <1>5, <1>6, <1>8, <1>9, SeqEqual

(* What is on a concatenation is on one of its parts.                      *)
LEMMA ElemsAppend ==
    ASSUME NEW S, NEW s \in Seq(S), NEW e \in S
    PROVE  Elems(Append(s, e)) = Elems(s) \cup {e}
<1>1. /\ Append(s, e) \in Seq(S)
      /\ Len(Append(s, e)) = Len(s) + 1
      /\ \A i \in 1 .. Len(s) : Append(s, e)[i] = s[i]
      /\ Append(s, e)[Len(s) + 1] = e
  BY AppendProperties
<1>2. Len(s) \in Nat /\ DOMAIN s = 1 .. Len(s)
  BY LenProperties
<1>3. DOMAIN Append(s, e) = 1 .. Len(s) + 1
  BY <1>1, LenProperties
<1>. QED
  BY <1>1, <1>2, <1>3 DEF Elems

LEMMA ElemsConcat ==
    ASSUME NEW S, NEW s \in Seq(S), NEW q \in Seq(S)
    PROVE  /\ Elems(s) \subseteq Elems(s \o q)
           /\ Elems(q) \subseteq Elems(s \o q)
<1>1. Len(s) \in Nat /\ DOMAIN s = 1 .. Len(s)
  BY LenProperties
<1>2. Len(q) \in Nat /\ DOMAIN q = 1 .. Len(q)
  BY LenProperties
<1>3. /\ s \o q \in Seq(S)
      /\ Len(s \o q) = Len(s) + Len(q)
      /\ \A i \in 1 .. Len(s) + Len(q) :
             (s \o q)[i] = IF i <= Len(s) THEN s[i] ELSE q[i - Len(s)]
  BY ConcatProperties
<1>4. DOMAIN (s \o q) = 1 .. Len(s) + Len(q)
  BY <1>3, LenProperties
<1>5. ASSUME NEW i \in DOMAIN s PROVE s[i] \in Elems(s \o q)
  BY <1>1, <1>2, <1>3, <1>4 DEF Elems
<1>6. ASSUME NEW i \in DOMAIN q PROVE q[i] \in Elems(s \o q)
  <2>1. Len(s) + i \in DOMAIN (s \o q) /\ (s \o q)[Len(s) + i] = q[i]
    BY <1>1, <1>2, <1>3, <1>4
  <2>. QED
    BY <2>1 DEF Elems
<1>. QED
  BY <1>5, <1>6 DEF Elems

-----------------------------------------------------------------------------
(* The steps of the system, one by one, for the case splits below.         *)

LEMMA Steps ==
    ASSUME [Next]_vars
    PROVE  \/ CreateFailsEarly \/ CreateReturns \/ CreateFails
           \/ UnwindBroadcast \/ UnwindJoined \/ Destroy \/ DestroyReturns
           \/ \E t \in Tasks : Submit(t) \/ SubmitRefused(t)
           \/ \E w \in Workers :
                  \/ CreateWorker(w) \/ Lock(w) \/ FoundEmpty(w)
                  \/ CondWait(w) \/ Exit(w) \/ Pop(w) \/ Handled(w)
                  \/ SpuriousWakeup(w)
           \/ UNCHANGED vars
BY DEF Next, Create, Owner, Worker

(* Every variable keeps its type.                                          *)
LEMMA TypeStep ==
    ASSUME TypeOK, TaskHeld, [Next]_vars
    PROVE  TypeOK'
<1> USE DEF TypeOK, OwnerStates, WorkerStates, poolVars, histVars
<1>1. CASE CreateFailsEarly
  BY <1>1 DEF CreateFailsEarly
<1>2. CASE CreateReturns
  BY <1>2 DEF CreateReturns
<1>3. CASE CreateFails
  BY <1>3 DEF CreateFails
<1>4. CASE UnwindBroadcast
  BY <1>4 DEF UnwindBroadcast, Broadcast
<1>5. CASE UnwindJoined
  BY <1>5 DEF UnwindJoined
<1>6. CASE Destroy
  BY <1>6 DEF Destroy, DestroyWakes, Broadcast
<1>7. CASE DestroyReturns
  BY <1>7 DEF DestroyReturns
<1>8. ASSUME NEW t \in Tasks, Submit(t) PROVE TypeOK'
  <2>1. pc' \in [Workers -> WorkerStates]
    BY <1>8 DEF Submit, SubmitSignal, Signal, Waiting, In
  <2>2. queue' \in Seq(Tasks)
    BY <1>8 DEF Submit, Linked
  <2>. QED
    BY <1>8, <2>1, <2>2 DEF Submit
<1>9. ASSUME NEW t \in Tasks, SubmitRefused(t) PROVE TypeOK'
  BY <1>9 DEF SubmitRefused
<1>10. ASSUME NEW w \in Workers, CreateWorker(w) PROVE TypeOK'
  BY <1>10 DEF CreateWorker
<1>11. ASSUME NEW w \in Workers, Lock(w) PROVE TypeOK'
  BY <1>11 DEF Lock
<1>12. ASSUME NEW w \in Workers, FoundEmpty(w) PROVE TypeOK'
  BY <1>12 DEF FoundEmpty
<1>13. ASSUME NEW w \in Workers, CondWait(w) PROVE TypeOK'
  BY <1>13 DEF CondWait
<1>14. ASSUME NEW w \in Workers, Exit(w) PROVE TypeOK'
  BY <1>14 DEF Exit
<1>15. ASSUME NEW w \in Workers, Pop(w) PROVE TypeOK'
  BY <1>15, HeadTailProperties DEF Pop, HeadAfterPop, TailAfterPop, Node
<1>16. ASSUME NEW w \in Workers, Handled(w) PROVE TypeOK'
  <2>1. task[w] \in Tasks \cup {NULL}
    OBVIOUS
  <2>2. task[w] # NULL
    BY <1>16 DEF Handled, TaskHeld
  <2>3. finished' \in SUBSET Tasks
    BY <1>16, <2>1, <2>2 DEF Handled
  <2>. QED
    BY <1>16, <2>3 DEF Handled
<1>17. ASSUME NEW w \in Workers, SpuriousWakeup(w) PROVE TypeOK'
  BY <1>17 DEF SpuriousWakeup
<1>18. CASE UNCHANGED vars
  BY <1>18 DEF vars
<1>. QED
  BY <1>1, <1>2, <1>3, <1>4, <1>5, <1>6, <1>7, <1>8, <1>9, <1>10, <1>11,
     <1>12, <1>13, <1>14, <1>15, <1>16, <1>17, <1>18, Steps

(* Before the pool is handed to run_server, and after a failed create, the *)
(* list is empty.                                                          *)
LEMMA EmptyUntilAccept ==
    ASSUME IInv
    PROVE  /\ mpc \notin {"accept", "join", "destroyed"} => queue = <<>>
           /\ mpc = "destroyed" => queue = <<>>
<1>1. dispatched \in Seq(Tasks) /\ queue \in Seq(Tasks)
  BY DEF IInv, TypeOK
<1>2. ASSUME mpc \notin {"accept", "join", "destroyed"} PROVE queue = <<>>
  <2>1. dispatched \o queue = <<>>
    BY <1>2 DEF IInv, Phases, AcceptedInOrder
  <2>. QED
    BY <1>1, <2>1, ConcatEqualIffEmpty
<1>3. ASSUME mpc = "destroyed" PROVE queue = <<>>
  BY <1>3, WorkersAssumption DEF IInv, Phases
<1>. QED
  BY <1>2, <1>3

(* Where the mutex, the tasks and the owner stand relative to the workers. *)
LEMMA ControlStep ==
    ASSUME IInv, [Next]_vars
    PROVE  MutexInv' /\ TaskHeld' /\ SeenEmpty' /\ Phases'
<1>0. TypeOK /\ MutexInv /\ TaskHeld /\ SeenEmpty /\ Phases
  BY DEF IInv
<1>e. mpc \notin {"accept", "join", "destroyed"} => queue = <<>>
  BY EmptyUntilAccept
<1> USE <1>0, NullAssumption
    DEF TypeOK, MutexInv, TaskHeld, SeenEmpty, Phases, poolVars, histVars
<1>1. CASE CreateFailsEarly
  BY <1>1 DEF CreateFailsEarly
<1>2. CASE CreateReturns
  BY <1>2 DEF CreateReturns, In
<1>3. CASE CreateFails
  BY <1>3 DEF CreateFails
<1>4. CASE UnwindBroadcast
  BY <1>4 DEF UnwindBroadcast, Broadcast, Waiting, In
<1>5. CASE UnwindJoined
  BY <1>5 DEF UnwindJoined
<1>6. CASE Destroy
  BY <1>6 DEF Destroy, DestroyWakes, Broadcast, Waiting, In
<1>7. CASE DestroyReturns
  BY <1>7 DEF DestroyReturns, AllJoined, In
<1>8. ASSUME NEW t \in Tasks, Submit(t)
      PROVE  MutexInv' /\ TaskHeld' /\ SeenEmpty' /\ Phases'
  <2>1. \A w \in Workers :
            \/ pc'[w] = pc[w]
            \/ pc[w] = "waiting" /\ pc'[w] = "woken"
    BY <1>8 DEF Submit, SubmitSignal, Signal, Waiting, In
  <2>2. \A w \in Workers : pc[w] \notin {"check", "towait"}
    BY <1>8 DEF Submit
  <2>3. \A w \in Workers : pc[w] # "done"
    BY <1>8 DEF Submit
  <2>. QED
    BY <1>8, <2>1, <2>2, <2>3 DEF Submit
<1>9. ASSUME NEW t \in Tasks, SubmitRefused(t)
      PROVE  MutexInv' /\ TaskHeld' /\ SeenEmpty' /\ Phases'
  BY <1>9 DEF SubmitRefused
<1>10. ASSUME NEW w \in Workers, CreateWorker(w)
       PROVE  MutexInv' /\ TaskHeld' /\ SeenEmpty' /\ Phases'
  BY <1>10 DEF CreateWorker
<1>11. ASSUME NEW w \in Workers, Lock(w)
       PROVE  MutexInv' /\ TaskHeld' /\ SeenEmpty' /\ Phases'
  BY <1>11 DEF Lock
<1>12. ASSUME NEW w \in Workers, FoundEmpty(w)
       PROVE  MutexInv' /\ TaskHeld' /\ SeenEmpty' /\ Phases'
  BY <1>12 DEF FoundEmpty, WaitTest
<1>13. ASSUME NEW w \in Workers, CondWait(w)
       PROVE  MutexInv' /\ TaskHeld' /\ SeenEmpty' /\ Phases'
  BY <1>13 DEF CondWait
<1>14. ASSUME NEW w \in Workers, Exit(w)
       PROVE  MutexInv' /\ TaskHeld' /\ SeenEmpty' /\ Phases'
  BY <1>14 DEF Exit, ExitTest
<1>15. ASSUME NEW w \in Workers, Pop(w)
       PROVE  MutexInv' /\ TaskHeld' /\ SeenEmpty' /\ Phases'
  <2>1. Head(queue) \in Tasks /\ Tail(queue) \in Seq(Tasks)
    BY <1>15, HeadTailProperties DEF Pop
  <2>2. \A v \in Workers : pc[v] \notin {"towait", "done"}
    BY <1>15 DEF Pop
  <2>. QED
    BY <1>15, <2>1, <2>2, <1>e DEF Pop, HeadAfterPop, Node
<1>16. ASSUME NEW w \in Workers, Handled(w)
       PROVE  MutexInv' /\ TaskHeld' /\ SeenEmpty' /\ Phases'
  BY <1>16 DEF Handled
<1>17. ASSUME NEW w \in Workers, SpuriousWakeup(w)
       PROVE  MutexInv' /\ TaskHeld' /\ SeenEmpty' /\ Phases'
  BY <1>17 DEF SpuriousWakeup
<1>18. CASE UNCHANGED vars
  BY <1>18 DEF vars
<1>. QED
  BY <1>1, <1>2, <1>3, <1>4, <1>5, <1>6, <1>7, <1>8, <1>9, <1>10, <1>11,
     <1>12, <1>13, <1>14, <1>15, <1>16, <1>17, <1>18, Steps

-----------------------------------------------------------------------------
(* The list and the history change in a submit and in a pop only; emptying *)
(* the list in thread_pool_destroy changes nothing, since it is empty.     *)
LEMMA ListSteps ==
    ASSUME IInv, [Next]_vars
    PROVE  \/ \E t \in Tasks : Submit(t)
           \/ \E w \in Workers : Pop(w)
           \/ UNCHANGED <<queue, tail, accepted, dispatched>>
<1>1. CASE DestroyReturns
  <2>1. \A w \in Workers : pc[w] = "done"
    BY <1>1 DEF DestroyReturns, AllJoined, In, IInv, Phases
  <2>2. queue = <<>>
    BY <2>1, WorkersAssumption DEF IInv, Phases
  <2>. QED
    BY <1>1, <2>2 DEF DestroyReturns, histVars
<1>2. CASE UNCHANGED vars
  BY <1>2 DEF vars, poolVars, histVars
<1>. QED
  BY <1>1, <1>2, Steps
  DEF CreateFailsEarly, CreateReturns, CreateFails, UnwindBroadcast,
      UnwindJoined, Destroy, SubmitRefused, CreateWorker, Lock, FoundEmpty,
      CondWait, Exit, Handled, SpuriousWakeup, poolVars, histVars

(* The node linked by a submit goes to the end of the list.                *)
LEMMA SubmitAppends ==
    ASSUME TypeOK, TailIsLast, NEW t \in Tasks, Submit(t)
    PROVE  queue' = Append(queue, t)
<1>1. CASE queue = <<>>
  BY <1>1, NullAssumption DEF Submit, Linked, TailIsLast
<1>2. CASE queue # <<>>
  <2>1. Len(queue) \in 1 .. Len(queue)
    BY <1>2, EmptySeq DEF TypeOK
  <2>2. queue[Len(queue)] \in Tasks
    BY <2>1, ElementOfSeq DEF TypeOK
  <2>. QED
    BY <1>2, <2>2, NullAssumption DEF Submit, Linked, TailIsLast
<1>. QED
  BY <1>1, <1>2

LEMMA TailStep ==
    ASSUME IInv, [Next]_vars
    PROVE  TailIsLast'
<1>1. TypeOK /\ TailIsLast
  BY DEF IInv
<1>2. ASSUME NEW t \in Tasks, Submit(t) PROVE TailIsLast'
  <2>1. queue' = Append(queue, t) /\ tail' = t
    BY <1>1, <1>2, SubmitAppends DEF Submit
  <2>. QED
    BY <1>1, <2>1, AppendProperties DEF TypeOK, TailIsLast
<1>3. ASSUME NEW w \in Workers, Pop(w) PROVE TailIsLast'
  <2>1. queue # <<>> /\ queue' = Tail(queue)
    BY <1>3 DEF Pop, HeadAfterPop
  <2>2. tail' = IF Tail(queue) = <<>> THEN NULL ELSE tail
    BY <1>3 DEF Pop, TailAfterPop
  <2>3. /\ Tail(queue) \in Seq(Tasks)
        /\ Len(Tail(queue)) = Len(queue) - 1
        /\ \A i \in 1 .. Len(Tail(queue)) : Tail(queue)[i] = queue[i + 1]
    BY <1>1, <2>1, HeadTailProperties DEF TypeOK
  <2>4. Len(queue) \in Nat
    BY <1>1, LenProperties DEF TypeOK
  <2>5. CASE Tail(queue) = <<>>
    BY <2>1, <2>2, <2>5 DEF TailIsLast
  <2>6. CASE Tail(queue) # <<>>
    <3>1. Len(Tail(queue)) \in 1 .. Len(Tail(queue))
      BY <2>3, <2>6, EmptySeq
    <3>2. Tail(queue)[Len(Tail(queue))] = queue[Len(queue)]
      BY <2>3, <2>4, <3>1
    <3>. QED
      BY <1>1, <2>1, <2>2, <2>6, <3>2 DEF TailIsLast
  <2>. QED
    BY <2>5, <2>6
<1>4. CASE UNCHANGED <<queue, tail, accepted, dispatched>>
  BY <1>1, <1>4 DEF TailIsLast
<1>. QED
  BY <1>2, <1>3, <1>4, ListSteps

LEMMA OrderStep ==
    ASSUME IInv, [Next]_vars
    PROVE  AcceptedInOrder'
<1>1. TypeOK /\ TailIsLast /\ AcceptedInOrder
  BY DEF IInv
<1>2. ASSUME NEW t \in Tasks, Submit(t) PROVE AcceptedInOrder'
  <2>1. queue' = Append(queue, t)
    BY <1>1, <1>2, SubmitAppends
  <2>2. accepted' = Append(accepted, t) /\ dispatched' = dispatched
    BY <1>2 DEF Submit
  <2>3. dispatched \in Seq(Tasks) /\ queue \in Seq(Tasks)
    BY <1>1 DEF TypeOK
  <2>4. /\ Append(dispatched \o queue, t) = (dispatched \o queue) \o <<t>>
        /\ Append(queue, t) = queue \o <<t>>
    BY <2>3, AppendIsConcat, ConcatProperties
  <2>5. (dispatched \o queue) \o <<t>> = dispatched \o (queue \o <<t>>)
    BY <2>3, ConcatAssociative
  <2>. QED
    BY <1>1, <2>1, <2>2, <2>4, <2>5 DEF AcceptedInOrder
<1>3. ASSUME NEW w \in Workers, Pop(w) PROVE AcceptedInOrder'
  <2>1. /\ queue # <<>>
        /\ queue' = Tail(queue)
        /\ dispatched' = Append(dispatched, Head(queue))
        /\ accepted' = accepted
    BY <1>3 DEF Pop, HeadAfterPop, Node
  <2>. QED
    BY <1>1, <2>1, ConcatShift DEF TypeOK, AcceptedInOrder
<1>4. CASE UNCHANGED <<queue, tail, accepted, dispatched>>
  BY <1>1, <1>4 DEF AcceptedInOrder
<1>. QED
  BY <1>2, <1>3, <1>4, ListSteps

(* No task is accepted twice, so the head of the list was never taken off  *)
(* it before.                                                              *)
LEMMA HeadIsNew ==
    ASSUME IInv, queue # <<>>
    PROVE  Head(queue) \in Tasks /\ Head(queue) \notin Elems(dispatched)
<1>1. dispatched \in Seq(Tasks) /\ queue \in Seq(Tasks)
  BY DEF IInv, TypeOK
<1>2. /\ Len(queue) \in Nat \ {0}
      /\ Head(queue) \in Tasks
      /\ Head(queue) = queue[1]
  BY <1>1, EmptySeq, HeadTailProperties
<1>3. Len(dispatched) \in Nat /\ DOMAIN dispatched = 1 .. Len(dispatched)
  BY <1>1, LenProperties
<1>4. /\ accepted \in Seq(Tasks)
      /\ Len(accepted) = Len(dispatched) + Len(queue)
      /\ \A i \in 1 .. Len(dispatched) + Len(queue) :
             accepted[i] = IF i <= Len(dispatched) THEN dispatched[i]
                           ELSE queue[i - Len(dispatched)]
  BY <1>1, ConcatProperties DEF IInv, AcceptedInOrder
<1>5. DOMAIN accepted = 1 .. Len(dispatched) + Len(queue)
  BY <1>4, LenProperties
<1>6. accepted[Len(dispatched) + 1] = queue[1]
  BY <1>2, <1>3, <1>4
<1>7. ASSUME NEW i \in DOMAIN dispatched PROVE dispatched[i] # queue[1]
  <2>1. /\ i \in DOMAIN accepted
        /\ Len(dispatched) + 1 \in DOMAIN accepted
        /\ i # Len(dispatched) + 1
        /\ accepted[i] = dispatched[i]
    BY <1>2, <1>3, <1>4, <1>5
  <2>. QED
    BY <1>6, <2>1 DEF IInv, ServedOnce
<1>. QED
  BY <1>2, <1>7 DEF Elems

(* A step that neither accepts, dispatches nor finishes a task leaves every *)
(* task in the hands it was in.                                            *)
LEMMA HandSteps ==
    ASSUME IInv, [Next]_vars
    PROVE  \/ \E t \in Tasks : Submit(t)
           \/ \E w \in Workers : Pop(w) \/ Handled(w)
           \/ /\ UNCHANGED <<accepted, dispatched, finished, task>>
              /\ In({"handle"})' = In({"handle"})
<1> USE DEF IInv, TypeOK, In, poolVars, histVars
<1>1. CASE CreateFailsEarly \/ CreateReturns \/ CreateFails \/ UnwindJoined
           \/ DestroyReturns
  BY <1>1 DEF CreateFailsEarly, CreateReturns, CreateFails, UnwindJoined,
              DestroyReturns
<1>2. CASE UnwindBroadcast \/ Destroy
  BY <1>2 DEF UnwindBroadcast, Destroy, DestroyWakes, Broadcast, Waiting
<1>3. CASE \E t \in Tasks : SubmitRefused(t)
  BY <1>3 DEF SubmitRefused
<1>4. ASSUME NEW w \in Workers,
             \/ CreateWorker(w) \/ Lock(w) \/ FoundEmpty(w) \/ CondWait(w)
             \/ Exit(w) \/ SpuriousWakeup(w)
      PROVE  /\ UNCHANGED <<accepted, dispatched, finished, task>>
             /\ In({"handle"})' = In({"handle"})
  BY <1>4 DEF CreateWorker, Lock, FoundEmpty, CondWait, Exit, SpuriousWakeup
<1>5. CASE UNCHANGED vars
  BY <1>5 DEF vars
<1>. QED
  BY <1>1, <1>2, <1>3, <1>4, <1>5, Steps

LEMMA ServedStep ==
    ASSUME IInv, [Next]_vars
    PROVE  ServedOnce'
<1>1. TypeOK /\ TaskHeld /\ ServedOnce
  BY DEF IInv
<1>2. ASSUME NEW t \in Tasks, Submit(t) PROVE ServedOnce'
  <2>1. t \notin Elems(accepted) /\ accepted' = Append(accepted, t)
    BY <1>2 DEF Submit, Fresh
  <2>2. UNCHANGED <<dispatched, finished, task>>
    BY <1>2 DEF Submit
  <2>3. In({"handle"})' = In({"handle"})
    BY <1>1, <1>2 DEF Submit, SubmitSignal, Signal, Waiting, In, TypeOK
  <2>4. /\ Len(accepted) \in Nat /\ DOMAIN accepted = 1 .. Len(accepted)
        /\ accepted' \in Seq(Tasks)
        /\ Len(accepted') = Len(accepted) + 1
        /\ \A i \in 1 .. Len(accepted) : accepted'[i] = accepted[i]
        /\ accepted'[Len(accepted) + 1] = t
    BY <1>1, <2>1, AppendProperties, LenProperties DEF TypeOK
  <2>5. DOMAIN accepted' = 1 .. Len(accepted) + 1
    BY <2>4, LenProperties
  <2>6. \A i \in DOMAIN accepted : accepted[i] # t
    BY <2>1 DEF Elems
  <2>7. \A i, j \in DOMAIN accepted' : accepted'[i] = accepted'[j] => i = j
    BY <1>1, <2>4, <2>5, <2>6 DEF ServedOnce
  <2>8. Elems(dispatched)' = Elems(dispatched)
    BY <2>2 DEF Elems
  <2>. QED
    BY <1>1, <2>2, <2>3, <2>7, <2>8 DEF ServedOnce
<1>3. ASSUME NEW w \in Workers, Pop(w) PROVE ServedOnce'
  <2> DEFINE t == Head(queue)
  <2>1. queue # <<>> /\ pc[w] = "check"
    BY <1>3 DEF Pop
  <2>2. t \in Tasks /\ t \notin Elems(dispatched)
    BY <2>1, HeadIsNew
  <2>3. /\ task' = [task EXCEPT ![w] = t]
        /\ dispatched' = Append(dispatched, t)
        /\ pc' = [pc EXCEPT ![w] = "handle"]
        /\ UNCHANGED <<accepted, finished>>
    BY <1>3 DEF Pop, Node
  <2>4. /\ In({"handle"})' = In({"handle"}) \cup {w}
        /\ w \notin In({"handle"})
    BY <1>1, <2>1, <2>3 DEF In, TypeOK
  <2>5. /\ task'[w] = t
        /\ \A v \in In({"handle"}) : task'[v] = task[v]
    BY <1>1, <2>3, <2>4 DEF In, TypeOK
  <2>6. Elems(dispatched)' = Elems(dispatched) \cup {t}
    <3>1. Elems(Append(dispatched, t)) = Elems(dispatched) \cup {t}
      BY <1>1, <2>2, ElemsAppend DEF TypeOK
    <3>. QED
      BY <2>3, <3>1 DEF Elems
  <2>7. /\ t \notin finished
        /\ \A v \in In({"handle"}) : task[v] # t
    BY <1>1, <2>2 DEF ServedOnce
  <2>8. {task'[v] : v \in In({"handle"})'}
            = {task[v] : v \in In({"handle"})} \cup {t}
    BY <2>4, <2>5
  <2>. QED
    BY <1>1, <2>3, <2>4, <2>5, <2>6, <2>7, <2>8 DEF ServedOnce
<1>4. ASSUME NEW w \in Workers, Handled(w) PROVE ServedOnce'
  <2>1. /\ pc[w] = "handle"
        /\ finished' = finished \cup {task[w]}
        /\ task' = [task EXCEPT ![w] = NULL]
        /\ pc' = [pc EXCEPT ![w] = "start"]
        /\ UNCHANGED <<accepted, dispatched>>
    BY <1>4 DEF Handled
  <2>2. /\ In({"handle"})' = In({"handle"}) \ {w}
        /\ w \in In({"handle"})
    BY <1>1, <2>1 DEF In, TypeOK
  <2>3. \A v \in In({"handle"})' : task'[v] = task[v]
    BY <1>1, <2>1, <2>2 DEF In, TypeOK
  <2>4. \A v \in In({"handle"})' : task[v] # task[w]
    BY <1>1, <2>2 DEF ServedOnce
  <2>5. {task[v] : v \in In({"handle"})}
            = {task'[v] : v \in In({"handle"})'} \cup {task[w]}
    BY <2>2, <2>3
  <2>6. Elems(dispatched)' = Elems(dispatched)
    BY <2>1 DEF Elems
  <2>. QED
    BY <1>1, <2>1, <2>2, <2>3, <2>4, <2>5, <2>6 DEF ServedOnce
<1>5. CASE /\ UNCHANGED <<accepted, dispatched, finished, task>>
           /\ In({"handle"})' = In({"handle"})
  BY <1>1, <1>5 DEF ServedOnce, Elems
<1>. QED
  BY <1>2, <1>3, <1>4, <1>5, HandSteps

-----------------------------------------------------------------------------
(* NoLostWakeup counts the awake workers.                                  *)

LEMMA AwakeFinite == IsFiniteSet(Awake) /\ Cardinality(Awake) \in Nat
<1>1. IsFiniteSet(Awake)
  BY WorkersAssumption, FS_Subset DEF Awake, In
<1>. QED
  BY <1>1, FS_CardinalityType

(* A worker that moves between the awake states keeps Awake, one that      *)
(* enters them adds itself and one that leaves them removes itself.        *)
LEMMA MoveOne ==
    ASSUME pc \in [Workers -> WorkerStates], NEW w \in Workers, NEW to,
           pc' = [pc EXCEPT ![w] = to]
    PROVE  /\ Awake' = IF to \in {"start", "woken", "check"}
                       THEN Awake \cup {w} ELSE Awake \ {w}
           /\ Waiting' = IF to = "waiting"
                         THEN Waiting \cup {w} ELSE Waiting \ {w}
BY DEF Awake, Waiting, In

(* Removing a worker costs at most one, adding one never costs anything.   *)
LEMMA AwakeCount ==
    ASSUME NEW w \in Workers
    PROVE  /\ Awake' = Awake \cup {w} => Cardinality(Awake') >= Cardinality(Awake)
           /\ Awake' = Awake \cup {w} /\ w \notin Awake =>
                  Cardinality(Awake') = Cardinality(Awake) + 1
           /\ Awake' = Awake \ {w} => Cardinality(Awake') >= Cardinality(Awake) - 1
           /\ Cardinality(Awake') \in Nat
<1>1. IsFiniteSet(Awake) /\ Cardinality(Awake) \in Nat
  BY AwakeFinite
<1>2. Cardinality(Awake \cup {w}) =
          IF w \in Awake THEN Cardinality(Awake) ELSE Cardinality(Awake) + 1
  BY <1>1, FS_AddElement
<1>3. Cardinality(Awake \ {w}) =
          IF w \in Awake THEN Cardinality(Awake) - 1 ELSE Cardinality(Awake)
  BY <1>1, FS_RemoveElement
<1>4. Cardinality(Awake') \in Nat
  <2>1. IsFiniteSet(Awake')
    BY WorkersAssumption, FS_Subset DEF Awake, In
  <2>. QED
    BY <2>1, FS_CardinalityType
<1>. QED
  BY <1>1, <1>2, <1>3, <1>4

LEMMA WakeupStep ==
    ASSUME IInv, [Next]_vars
    PROVE  NoLostWakeup'
<1>0. TypeOK /\ NoLostWakeup /\ MutexInv /\ SeenEmpty /\ Phases
  BY DEF IInv
<1>1. pc \in [Workers -> WorkerStates] /\ queue \in Seq(Tasks) /\ Len(queue) \in Nat
  BY <1>0, LenProperties DEF TypeOK
<1>2. IsFiniteSet(Awake) /\ Cardinality(Awake) \in Nat
  BY AwakeFinite
<1>3. Len(<<>>) = 0
  OBVIOUS
<1>4. TypeOK'
  BY <1>0, TypeStep DEF IInv
<1>5. CASE \E w \in Workers : CreateWorker(w) \/ SpuriousWakeup(w)
  <2>1. PICK w \in Workers : CreateWorker(w) \/ SpuriousWakeup(w)
    BY <1>5
  <2>2. queue' = queue
    BY <2>1 DEF CreateWorker, SpuriousWakeup, poolVars
  <2>3. Awake' = Awake \cup {w} /\ Waiting' = Waiting \ {w}
    <3>1. CASE CreateWorker(w)
      BY <1>1, <3>1, MoveOne DEF CreateWorker
    <3>2. CASE SpuriousWakeup(w)
      BY <1>1, <3>2, MoveOne DEF SpuriousWakeup
    <3>. QED
      BY <2>1, <3>1, <3>2
  <2>4. Cardinality(Awake') >= Cardinality(Awake) /\ Cardinality(Awake') \in Nat
    BY <2>3, AwakeCount
  <2>5. CASE Waiting = {}
    BY <2>3, <2>5 DEF NoLostWakeup
  <2>6. CASE Waiting # {}
    BY <1>0, <1>1, <1>2, <2>2, <2>4, <2>6 DEF NoLostWakeup
  <2>. QED
    BY <2>5, <2>6
<1>6. ASSUME NEW w \in Workers, Lock(w) PROVE NoLostWakeup'
  <2>1. Awake' = Awake \/ Awake' = Awake \cup {w}
    BY <1>1, <1>6, MoveOne DEF Lock
  <2>2. Waiting' = Waiting \ {w} /\ w \notin Waiting
    BY <1>1, <1>6, MoveOne DEF Lock, Waiting, In
  <2>3. Cardinality(Awake') >= Cardinality(Awake) /\ Cardinality(Awake') \in Nat
    BY <1>2, <2>1, AwakeCount
  <2>4. queue' = queue
    BY <1>6 DEF Lock
  <2>. QED
    BY <1>0, <1>1, <1>2, <2>2, <2>3, <2>4 DEF NoLostWakeup
<1>7. ASSUME NEW w \in Workers, FoundEmpty(w) \/ CondWait(w) \/ Exit(w)
      PROVE  NoLostWakeup'
  <2>1. queue' = <<>>
    BY <1>0, <1>7 DEF FoundEmpty, CondWait, Exit, WaitTest, ExitTest, SeenEmpty,
                     poolVars
  <2>2. Cardinality(Awake') \in Nat
    BY AwakeCount
  <2>. QED
    BY <1>3, <2>1, <2>2 DEF NoLostWakeup
<1>8. ASSUME NEW w \in Workers, Pop(w) PROVE NoLostWakeup'
  <2>1. Awake' = Awake \ {w} /\ Waiting' = Waiting \ {w} /\ w \notin Waiting
    BY <1>1, <1>8, MoveOne DEF Pop, Waiting, In
  <2>2. Cardinality(Awake') >= Cardinality(Awake) - 1 /\ Cardinality(Awake') \in Nat
    BY <2>1, AwakeCount
  <2>3. Len(queue') = Len(queue) - 1
    BY <1>1, <1>8, HeadTailProperties DEF Pop, HeadAfterPop
  <2>. QED
    BY <1>0, <1>1, <1>2, <2>1, <2>2, <2>3 DEF NoLostWakeup
<1>9. ASSUME NEW w \in Workers, Handled(w) PROVE NoLostWakeup'
  <2>1. Awake' = Awake \cup {w} /\ Waiting' = Waiting \ {w} /\ w \notin Waiting
    BY <1>1, <1>9, MoveOne DEF Handled, Waiting, In
  <2>2. Cardinality(Awake') >= Cardinality(Awake) /\ Cardinality(Awake') \in Nat
    BY <2>1, AwakeCount
  <2>3. queue' = queue
    BY <1>9 DEF Handled, poolVars
  <2>. QED
    BY <1>0, <1>1, <1>2, <2>1, <2>2, <2>3 DEF NoLostWakeup
<1>10. CASE UnwindBroadcast \/ Destroy
  <2>1. Waiting' = {}
    BY <1>1, <1>10 DEF UnwindBroadcast, Destroy, DestroyWakes, Broadcast, Waiting, In
  <2>. QED
    BY <2>1 DEF NoLostWakeup
<1>11. ASSUME NEW t \in Tasks, Submit(t) PROVE NoLostWakeup'
  <2>1. Len(queue') = Len(queue) + 1
    BY <1>0, <1>1, <1>11, SubmitAppends, AppendProperties DEF IInv
  <2>2. CASE Waiting = {} /\ UNCHANGED pc
    BY <2>2 DEF NoLostWakeup, Waiting, In
  <2>3. CASE \E w \in Waiting : pc' = [pc EXCEPT ![w] = "woken"]
    <3>1. PICK w \in Waiting : pc' = [pc EXCEPT ![w] = "woken"]
      BY <2>3
    <3>2. w \in Workers /\ w \notin Awake
      BY <3>1 DEF Waiting, Awake, In
    <3>3. Awake' = Awake \cup {w}
      BY <1>1, <3>1, <3>2, MoveOne
    <3>4. Cardinality(Awake') = Cardinality(Awake) + 1
      BY <3>2, <3>3, AwakeCount
    <3>. QED
      BY <1>0, <1>1, <1>2, <2>1, <3>1, <3>4 DEF NoLostWakeup
  <2>. QED
    BY <1>11, <2>2, <2>3 DEF Submit, SubmitSignal, Signal
<1>12. CASE CreateFailsEarly \/ CreateReturns \/ CreateFails \/ UnwindJoined
            \/ DestroyReturns \/ \E t \in Tasks : SubmitRefused(t)
  <2>1. pc' = pc
    BY <1>12 DEF CreateFailsEarly, CreateReturns, CreateFails, UnwindJoined,
                 DestroyReturns, SubmitRefused
  <2>2. Awake' = Awake /\ Waiting' = Waiting
    BY <2>1 DEF Awake, Waiting, In
  <2>3. queue' = queue \/ queue' = <<>>
    BY <1>12 DEF CreateFailsEarly, CreateReturns, CreateFails, UnwindJoined,
                 DestroyReturns, SubmitRefused, poolVars
  <2>. QED
    BY <1>0, <1>2, <1>3, <2>2, <2>3 DEF NoLostWakeup
<1>13. CASE UNCHANGED vars
  BY <1>0, <1>13 DEF vars, poolVars, NoLostWakeup, Awake, Waiting, In
<1>. QED
  BY <1>5, <1>6, <1>7, <1>8, <1>9, <1>10, <1>11, <1>12, <1>13, Steps

-----------------------------------------------------------------------------
(* The inductive invariant and what follows from it.                       *)

LEMMA InitIInv == Init => IInv
<1> SUFFICES ASSUME Init PROVE IInv
  OBVIOUS
<1>1. TypeOK
  <2>1. <<>> \in Seq(Tasks)
    OBVIOUS
  <2>. QED
    BY <2>1 DEF Init, TypeOK, OwnerStates, WorkerStates
<1>2. MutexInv /\ TaskHeld /\ SeenEmpty /\ Phases /\ TailIsLast
  BY NullAssumption DEF Init, MutexInv, TaskHeld, SeenEmpty, Phases, TailIsLast
<1>3. AcceptedInOrder
  BY DEF Init, AcceptedInOrder
<1>4. ServedOnce
  BY DEF Init, ServedOnce, Elems, In
<1>5. NoLostWakeup
  BY DEF Init, NoLostWakeup, Waiting, In
<1>. QED
  BY <1>1, <1>2, <1>3, <1>4, <1>5 DEF IInv

LEMMA NextIInv == IInv /\ [Next]_vars => IInv'
<1> SUFFICES ASSUME IInv, [Next]_vars PROVE IInv'
  OBVIOUS
<1>1. TypeOK'
  BY TypeStep DEF IInv
<1>. QED
  BY <1>1, ControlStep, TailStep, OrderStep, ServedStep, WakeupStep DEF IInv

LEMMA Invariance == Spec => []IInv
BY InitIInv, NextIInv, PTL DEF Spec

(* Every variable keeps its type.                                          *)
THEOREM TypeCorrect == Spec => []TypeOK
<1>1. IInv => TypeOK
  BY DEF IInv
<1>. QED
  BY <1>1, Invariance, PTL

(* thread_pool_submit never writes through a freed node: tail is the last  *)
(* node of the list, or NULL.                                              *)
THEOREM TailCorrect == Spec => []TailIsLast
<1>1. IInv => TailIsLast
  BY DEF IInv
<1>. QED
  BY <1>1, Invariance, PTL

(* Tasks leave the list in the order submit accepted them, none lost.      *)
THEOREM OrderCorrect == Spec => []AcceptedInOrder
<1>1. IInv => AcceptedInOrder
  BY DEF IInv
<1>. QED
  BY <1>1, Invariance, PTL

(* A dispatched task is in exactly one worker's hands until its handler    *)
(* returns, and is never handled twice.                                    *)
THEOREM ServedCorrect == Spec => []ServedOnce
<1>1. IInv => ServedOnce
  BY DEF IInv
<1>. QED
  BY <1>1, Invariance, PTL

(* While a worker sleeps, the awake ones are enough for the list.          *)
THEOREM WakeupCorrect == Spec => []NoLostWakeup
<1>1. IInv => NoLostWakeup
  BY DEF IInv
<1>. QED
  BY <1>1, Invariance, PTL

(* thread_pool_destroy returns only when every accepted task was handled.  *)
THEOREM DestroyDropsNothing == Spec => []NothingDropped
<1>1. IInv => NothingDropped
  <2> SUFFICES ASSUME IInv, mpc = "destroyed" PROVE finished = Elems(accepted)
    BY DEF NothingDropped
  <2>1. \A w \in Workers : pc[w] = "done"
    BY DEF IInv, Phases
  <2>2. In({"handle"}) = {}
    BY <2>1 DEF In
  <2>3. queue = <<>>
    BY EmptyUntilAccept
  <2>4. accepted = dispatched
    BY <2>3, ConcatEmptySeq DEF IInv, TypeOK, AcceptedInOrder
  <2>. QED
    BY <2>2, <2>4 DEF IInv, ServedOnce
<1>. QED
  BY <1>1, Invariance, PTL

-----------------------------------------------------------------------------
(* The pool implements TaskQueue: a submit is an Accept, a pop a Start, a  *)
(* handler's return a Finish, and setting stop a Close.  Every other step  *)
(* stutters.                                                               *)

(* Fewer tasks are in hand than there are workers while one of them is not *)
(* handling.                                                               *)
LEMMA InHandBound ==
    ASSUME TypeOK, NEW w \in Workers, pc[w] # "handle"
    PROVE  Cardinality(InHand) < Cardinality(Workers)
<1> DEFINE H == In({"handle"})
           f == [v \in H |-> task[v]]
<1>1. H \in SUBSET (Workers \ {w})
  BY DEF In
<1>2. /\ IsFiniteSet(Workers \ {w})
      /\ Cardinality(Workers \ {w}) = Cardinality(Workers) - 1
  BY WorkersAssumption, FS_RemoveElement
<1>3. IsFiniteSet(H) /\ Cardinality(H) <= Cardinality(Workers) - 1
  BY <1>1, <1>2, FS_Subset
<1>4. f \in Surjection(H, InHand)
  BY DEF Surjection, InHand
<1>5. IsFiniteSet(InHand) /\ Cardinality(InHand) <= Cardinality(H)
  BY <1>3, <1>4, FS_Surjection
<1>6. Cardinality(InHand) \in Nat /\ Cardinality(H) \in Nat
      /\ Cardinality(Workers) \in Nat
  BY <1>3, <1>5, WorkersAssumption, FS_CardinalityType
<1>. QED
  BY <1>3, <1>5, <1>6

LEMMA InitRefines == Init => TQ!Init
BY DEF Init, TQ!Init, InHand, In

LEMMA StepRefines ==
    ASSUME IInv, IInv', [Next]_vars
    PROVE  [TQ!Next]_(TQ!qvars)
<1>1. TypeOK /\ TaskHeld /\ Phases /\ ServedOnce /\ AcceptedInOrder
  BY DEF IInv
<1>2. ASSUME NEW t \in Tasks, Submit(t) PROVE TQ!Accept(t)
  <2>1. queue' = Append(queue, t)
    BY <1>2, SubmitAppends DEF IInv
  <2>2. InHand' = InHand
    BY <1>1, <1>2 DEF Submit, SubmitSignal, Signal, Waiting, In, InHand, TypeOK
  <2>3. UNCHANGED <<finished, stop>> /\ ~stop
    BY <1>1, <1>2 DEF Submit, Phases
  <2>4. t \notin Elems(accepted)
    BY <1>2 DEF Submit, Fresh
  <2>5. Elems(dispatched) \cup Elems(queue) \subseteq Elems(accepted)
    BY <1>1, ElemsConcat DEF AcceptedInOrder, TypeOK
  <2>6. Elems(dispatched) = finished \cup InHand
    BY <1>1 DEF ServedOnce, InHand
  <2>7. Elems(queue) = TQ!Pending
    BY DEF Elems, TQ!Pending
  <2>. QED
    BY <2>1, <2>2, <2>3, <2>4, <2>5, <2>6, <2>7 DEF TQ!Accept
<1>3. ASSUME NEW w \in Workers, Pop(w) PROVE TQ!Start
  <2>1. pc[w] = "check" /\ queue # <<>> /\ queue' = Tail(queue)
    BY <1>3 DEF Pop, HeadAfterPop
  <2>2. Cardinality(InHand) < Cardinality(Workers)
    BY <1>1, <2>1, InHandBound
  <2>3. InHand' = InHand \cup {Head(queue)}
    <3>1. In({"handle"})' = In({"handle"}) \cup {w}
      BY <1>1, <1>3 DEF Pop, In, TypeOK
    <3>2. \A v \in Workers : task'[v] = IF v = w THEN Head(queue) ELSE task[v]
      BY <1>1, <1>3 DEF Pop, Node, TypeOK
    <3>3. w \notin In({"handle"})
      BY <2>1 DEF In
    <3>. QED
      BY <3>1, <3>2, <3>3 DEF InHand, In
  <2>4. UNCHANGED <<finished, stop>>
    BY <1>3 DEF Pop
  <2>5. TQ!Cardinality(InHand) = Cardinality(InHand)
    BY DEF TQ!Cardinality, Cardinality
  <2>. QED
    BY <2>1, <2>2, <2>3, <2>4, <2>5 DEF TQ!Start
<1>4. ASSUME NEW w \in Workers, Handled(w) PROVE TQ!Next
  <2>1. w \in In({"handle"}) /\ task[w] \in InHand /\ task[w] \in Tasks
    BY <1>1, <1>4 DEF Handled, In, InHand, TaskHeld, TypeOK
  <2>2. InHand' = InHand \ {task[w]}
    <3>1. In({"handle"})' = In({"handle"}) \ {w}
      BY <1>1, <1>4 DEF Handled, In, TypeOK
    <3>2. \A v \in In({"handle"}) \ {w} : task'[v] = task[v] /\ task[v] # task[w]
      BY <1>1, <1>4, <2>1 DEF Handled, In, ServedOnce, TypeOK
    <3>. QED
      BY <2>1, <3>1, <3>2 DEF InHand
  <2>3. finished' = finished \cup {task[w]} /\ UNCHANGED <<queue, stop>>
    BY <1>4 DEF Handled, poolVars
  <2>4. TQ!Finish(task[w])
    BY <2>1, <2>2, <2>3 DEF TQ!Finish
  <2>. QED
    BY <2>1, <2>4 DEF TQ!Next
<1>5. CASE \/ CreateFails \/ Destroy
  <2>1. InHand' = InHand
    BY <1>1, <1>5 DEF CreateFails, Destroy, DestroyWakes, Broadcast, Waiting, In, InHand,
                      TypeOK, histVars
  <2>2. ~stop /\ stop' /\ UNCHANGED <<queue, finished>>
    BY <1>1, <1>5 DEF CreateFails, Destroy, Phases, histVars
  <2>3. TQ!Close
    BY <2>1, <2>2 DEF TQ!Close
  <2>. QED
    BY <2>3 DEF TQ!Next
<1>6. ASSUME UNCHANGED <<queue, stop, finished, task>>,
             In({"handle"})' = In({"handle"})
      PROVE  UNCHANGED TQ!qvars
  BY <1>6 DEF TQ!qvars, InHand
<1>7. CASE DestroyReturns
  <2>1. queue = <<>>
    <3>1. \A w \in Workers : pc[w] = "done"
      BY <1>1, <1>7 DEF DestroyReturns, AllJoined, In, Phases
    <3>. QED
      BY <1>1, <3>1, WorkersAssumption DEF Phases
  <2>. QED
    BY <1>6, <1>7, <2>1 DEF DestroyReturns, In, histVars
<1>8. CASE \/ CreateFailsEarly \/ CreateReturns \/ UnwindBroadcast
           \/ UnwindJoined \/ \E t \in Tasks : SubmitRefused(t)
  BY <1>1, <1>6, <1>8
  DEF CreateFailsEarly, CreateReturns, UnwindBroadcast, UnwindJoined,
      SubmitRefused, Broadcast, Waiting, In, poolVars, histVars, TypeOK
<1>9. ASSUME NEW w \in Workers,
             \/ CreateWorker(w) \/ Lock(w) \/ FoundEmpty(w) \/ CondWait(w)
             \/ Exit(w) \/ SpuriousWakeup(w)
      PROVE  UNCHANGED TQ!qvars
  BY <1>1, <1>6, <1>9
  DEF CreateWorker, Lock, FoundEmpty, CondWait, Exit, SpuriousWakeup,
      In, poolVars, histVars, TypeOK
<1>10. CASE UNCHANGED vars
  BY <1>6, <1>10 DEF vars, poolVars, histVars, In
<1>. QED
  BY <1>2, <1>3, <1>4, <1>5, <1>7, <1>8, <1>9, <1>10, Steps DEF TQ!Next

(* Whatever the number of workers, the pool keeps the promise of           *)
(* thread_pool.h as TaskQueue states it.                                   *)
THEOREM PoolImplementsTaskQueue == Spec => ImplementsTaskQueue
BY InitRefines, StepRefines, Invariance, PTL
DEF Spec, ImplementsTaskQueue, TQ!Spec
=============================================================================
