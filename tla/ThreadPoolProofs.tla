-------------------------- MODULE ThreadPoolProofs --------------------------
(***************************************************************************)
(* Proofs about ThreadPool for every set of workers and of producers and   *)
(* every number of calls: type correctness, the drain-before-exit and      *)
(* no-stranded-task invariants, and the implementation of TaskPool.        *)
(***************************************************************************)
EXTENDS ThreadPool, SequenceTheorems, TLAPS

-----------------------------------------------------------------------------
\* The mutex is held exactly by the thread whose program counter says so.
MutexInv ==
    /\ \A w \in Workers : (mutex_ = w) <=> (wpc[w] \in {"pred", "sleep", "check", "pop"})
    /\ \A p \in Producers : (mutex_ = p) <=> (ppc[p] \in {"check", "push"})

\* What a worker concluded under the mutex is still true while it holds it.
WorkerInv ==
    \A w \in Workers :
        /\ w \in waiting <=> wpc[w] = "blocked"
        /\ wpc[w] = "sleep" => taskqueue_ = <<>>
        /\ wpc[w] = "pop" => /\ taskqueue_ # <<>>
                             /\ task[w] = Head(taskqueue_)

StopInv ==
    /\ stop_ <=> dpc # "up"
    /\ \A w \in Workers : wpc[w] = "exited" => stop_
    /\ dpc = "joined" => \A w \in Workers : wpc[w] = "exited"

\* The queue holds the tickets that follow those already handed out, in order.
TicketInv ==
    /\ Len(taskqueue_) <= accepted
    /\ \A i \in 1 .. Len(taskqueue_) : taskqueue_[i] = accepted - Len(taskqueue_) + i

\* No two workers run the same task, and none runs one that is still queued.
RunInv ==
    /\ \A w \in Workers : wpc[w] = "run" => task[w] <= accepted - Len(taskqueue_)
    /\ \A v, w \in Workers : wpc[v] = "run" /\ wpc[w] = "run" /\ v # w => task[v] # task[w]

IInv == TypeOK /\ MutexInv /\ WorkerInv /\ StopInv /\ DrainedBeforeExit


LEMMA InitIInv == Init => IInv
<1> SUFFICES ASSUME Init
             PROVE  IInv
  OBVIOUS
<1> USE ThreadAssumption DEF ThreadAssumption, Init
<1>1. taskqueue_ \in Seq(Nat \ {0})
  OBVIOUS
<1>2. TypeOK
  <2>1. stop_ \in BOOLEAN /\ waiting \in SUBSET Workers /\ mutex_ \in Workers \cup Producers \cup {NoThread}
    OBVIOUS
  <2>2. wpc \in [Workers -> WorkerPC] /\ task \in [Workers -> Nat]
    BY DEF WorkerPC
  <2>3. ppc \in [Producers -> ProducerPC] /\ dpc \in DestructorPC
    BY DEF ProducerPC, DestructorPC
  <2>4. calls \in 0 .. MaxCalls /\ accepted \in Nat
    OBVIOUS
  <2>5. QED
    BY <1>1, <2>1, <2>2, <2>3, <2>4 DEF TypeOK
<1>3. MutexInv /\ WorkerInv /\ StopInv /\ DrainedBeforeExit
  BY DEF MutexInv, WorkerInv, StopInv, DrainedBeforeExit
<1>4. QED
  BY <1>2, <1>3 DEF IInv

LEMMA NextIInv == IInv /\ [Next]_vars => IInv'
<1> SUFFICES ASSUME IInv, [Next]_vars
             PROVE  IInv'
  OBVIOUS
<1> USE DEF IInv
<1>0. QED
  <2>1. ASSUME NEW w \in Workers, WorkerStep(w) \/ SpuriousWakeup(w)
        PROVE  IInv'
    <3>1. CASE WLock(w)
      <4>1. TypeOK'
        BY <3>1, ThreadAssumption DEF ThreadAssumption, WLock, TypeOK, WorkerPC, ProducerPC, DestructorPC
      <4>2. MutexInv'
        BY <3>1, ThreadAssumption DEF ThreadAssumption, WLock, TypeOK, MutexInv
      <4>3. WorkerInv'
        BY <3>1, ThreadAssumption DEF ThreadAssumption, WLock, TypeOK, MutexInv, WorkerInv
      <4>4. StopInv'
        BY <3>1, ThreadAssumption DEF ThreadAssumption, WLock, TypeOK, StopInv, MutexInv
      <4>5. DrainedBeforeExit'
        BY <3>1, ThreadAssumption DEF ThreadAssumption, WLock, TypeOK, MutexInv, StopInv, DrainedBeforeExit
      <4>6. QED
        BY <4>1, <4>2, <4>3, <4>4, <4>5
    <3>2. CASE WPredicate(w)
      <4>1. TypeOK'
        BY <3>2, ThreadAssumption DEF ThreadAssumption, WPredicate, TypeOK, WorkerPC, ProducerPC, DestructorPC
      <4>2. MutexInv'
        BY <3>2, ThreadAssumption DEF ThreadAssumption, WPredicate, TypeOK, MutexInv
      <4>3. WorkerInv'
        BY <3>2, ThreadAssumption DEF ThreadAssumption, WPredicate, TypeOK, MutexInv, WorkerInv
      <4>4. StopInv'
        BY <3>2, ThreadAssumption DEF ThreadAssumption, WPredicate, TypeOK, StopInv, MutexInv
      <4>5. DrainedBeforeExit'
        BY <3>2, ThreadAssumption DEF ThreadAssumption, WPredicate, TypeOK, MutexInv, StopInv, DrainedBeforeExit
      <4>6. QED
        BY <4>1, <4>2, <4>3, <4>4, <4>5
    <3>3. CASE WBlock(w)
      <4>1. TypeOK'
        BY <3>3, ThreadAssumption DEF ThreadAssumption, WBlock, TypeOK, WorkerPC, ProducerPC, DestructorPC
      <4>2. MutexInv'
        BY <3>3, ThreadAssumption DEF ThreadAssumption, WBlock, TypeOK, MutexInv
      <4>3. WorkerInv'
        BY <3>3, ThreadAssumption DEF ThreadAssumption, WBlock, TypeOK, MutexInv, WorkerInv
      <4>4. StopInv'
        BY <3>3, ThreadAssumption DEF ThreadAssumption, WBlock, TypeOK, StopInv, MutexInv
      <4>5. DrainedBeforeExit'
        BY <3>3, ThreadAssumption DEF ThreadAssumption, WBlock, TypeOK, MutexInv, StopInv, DrainedBeforeExit
      <4>6. QED
        BY <4>1, <4>2, <4>3, <4>4, <4>5
    <3>4. CASE SpuriousWakeup(w)
      <4>1. TypeOK'
        BY <3>4, ThreadAssumption DEF ThreadAssumption, SpuriousWakeup, TypeOK, WorkerPC, ProducerPC, DestructorPC
      <4>2. MutexInv'
        BY <3>4, ThreadAssumption DEF ThreadAssumption, SpuriousWakeup, TypeOK, MutexInv, WorkerInv
      <4>3. WorkerInv'
        BY <3>4, ThreadAssumption DEF ThreadAssumption, SpuriousWakeup, TypeOK, MutexInv, WorkerInv
      <4>4. StopInv'
        BY <3>4, ThreadAssumption DEF ThreadAssumption, SpuriousWakeup, TypeOK, StopInv, MutexInv, WorkerInv
      <4>5. DrainedBeforeExit'
        BY <3>4, ThreadAssumption DEF ThreadAssumption, SpuriousWakeup, TypeOK, MutexInv, StopInv, DrainedBeforeExit
      <4>6. QED
        BY <4>1, <4>2, <4>3, <4>4, <4>5
    <3>5. CASE WExit(w)
      <4>1. TypeOK'
        BY <3>5, ThreadAssumption DEF ThreadAssumption, WExit, TypeOK, WorkerPC, ProducerPC, DestructorPC
      <4>2. MutexInv'
        BY <3>5, ThreadAssumption DEF ThreadAssumption, WExit, TypeOK, MutexInv
      <4>3. WorkerInv'
        BY <3>5, ThreadAssumption DEF ThreadAssumption, WExit, TypeOK, MutexInv, WorkerInv
      <4>4. StopInv'
        BY <3>5, ThreadAssumption DEF ThreadAssumption, WExit, TypeOK, StopInv, MutexInv
      <4>5. DrainedBeforeExit'
        BY <3>5, ThreadAssumption DEF ThreadAssumption, WExit, TypeOK, MutexInv, StopInv, DrainedBeforeExit
      <4>6. QED
        BY <4>1, <4>2, <4>3, <4>4, <4>5
    <3>6. CASE WFront(w)
      <4>1. TypeOK'
        BY <3>6, ThreadAssumption DEF ThreadAssumption, WFront, TypeOK, WorkerPC, ProducerPC, DestructorPC
      <4>2. MutexInv'
        BY <3>6, ThreadAssumption DEF ThreadAssumption, WFront, TypeOK, MutexInv
      <4>3. WorkerInv'
        BY <3>6, ThreadAssumption DEF ThreadAssumption, WFront, TypeOK, MutexInv, WorkerInv
      <4>4. StopInv'
        BY <3>6, ThreadAssumption DEF ThreadAssumption, WFront, TypeOK, StopInv, MutexInv
      <4>5. DrainedBeforeExit'
        BY <3>6, ThreadAssumption DEF ThreadAssumption, WFront, TypeOK, MutexInv, StopInv, DrainedBeforeExit
      <4>6. QED
        BY <4>1, <4>2, <4>3, <4>4, <4>5
    <3>7. CASE WPop(w)
      <4>1. TypeOK'
        <5>1. taskqueue_' \in Seq(Nat \ {0})
          BY <3>7 DEF WPop, TypeOK, WorkerInv
        <5>2. QED
          BY <5>1, <3>7, ThreadAssumption DEF ThreadAssumption, WPop, TypeOK, WorkerPC, ProducerPC, DestructorPC
      <4>2. MutexInv'
        BY <3>7, ThreadAssumption DEF ThreadAssumption, WPop, TypeOK, MutexInv
      <4>3. WorkerInv'
        BY <3>7, ThreadAssumption DEF ThreadAssumption, WPop, TypeOK, MutexInv, WorkerInv
      <4>4. StopInv'
        BY <3>7, ThreadAssumption DEF ThreadAssumption, WPop, TypeOK, StopInv, MutexInv
      <4>5. DrainedBeforeExit'
        BY <3>7, ThreadAssumption DEF ThreadAssumption, WPop, TypeOK, MutexInv, StopInv, DrainedBeforeExit
      <4>6. QED
        BY <4>1, <4>2, <4>3, <4>4, <4>5
    <3>8. CASE WRun(w)
      <4>1. TypeOK'
        BY <3>8, ThreadAssumption DEF ThreadAssumption, WRun, TypeOK, WorkerPC, ProducerPC, DestructorPC
      <4>2. MutexInv'
        BY <3>8, ThreadAssumption DEF ThreadAssumption, WRun, TypeOK, MutexInv
      <4>3. WorkerInv'
        BY <3>8, ThreadAssumption DEF ThreadAssumption, WRun, TypeOK, MutexInv, WorkerInv
      <4>4. StopInv'
        BY <3>8, ThreadAssumption DEF ThreadAssumption, WRun, TypeOK, StopInv, MutexInv
      <4>5. DrainedBeforeExit'
        BY <3>8, ThreadAssumption DEF ThreadAssumption, WRun, TypeOK, MutexInv, StopInv, DrainedBeforeExit
      <4>6. QED
        BY <4>1, <4>2, <4>3, <4>4, <4>5
    <3>9. QED
      BY <2>1, <3>1, <3>2, <3>3, <3>4, <3>5, <3>6, <3>7, <3>8 DEF WorkerStep
  <2>2. ASSUME NEW p \in Producers, PCall(p) \/ AddTaskStep(p)
        PROVE  IInv'
    <3>1. CASE PCall(p)
      <4>1. TypeOK'
        BY <3>1, ThreadAssumption DEF ThreadAssumption, PCall, TypeOK, WorkerPC, ProducerPC, DestructorPC
      <4>2. MutexInv'
        BY <3>1, ThreadAssumption DEF ThreadAssumption, PCall, TypeOK, MutexInv
      <4>3. WorkerInv'
        BY <3>1, ThreadAssumption DEF ThreadAssumption, PCall, TypeOK, MutexInv, WorkerInv
      <4>4. StopInv'
        BY <3>1, ThreadAssumption DEF ThreadAssumption, PCall, TypeOK, StopInv, MutexInv
      <4>5. DrainedBeforeExit'
        BY <3>1, ThreadAssumption DEF ThreadAssumption, PCall, TypeOK, MutexInv, StopInv, DrainedBeforeExit
      <4>6. QED
        BY <4>1, <4>2, <4>3, <4>4, <4>5
    <3>2. CASE PLock(p)
      <4>1. TypeOK'
        BY <3>2, ThreadAssumption DEF ThreadAssumption, PLock, TypeOK, WorkerPC, ProducerPC, DestructorPC
      <4>2. MutexInv'
        BY <3>2, ThreadAssumption DEF ThreadAssumption, PLock, TypeOK, MutexInv
      <4>3. WorkerInv'
        BY <3>2, ThreadAssumption DEF ThreadAssumption, PLock, TypeOK, MutexInv, WorkerInv
      <4>4. StopInv'
        BY <3>2, ThreadAssumption DEF ThreadAssumption, PLock, TypeOK, StopInv, MutexInv
      <4>5. DrainedBeforeExit'
        BY <3>2, ThreadAssumption DEF ThreadAssumption, PLock, TypeOK, MutexInv, StopInv, DrainedBeforeExit
      <4>6. QED
        BY <4>1, <4>2, <4>3, <4>4, <4>5
    <3>3. CASE PRefused(p)
      <4>1. TypeOK'
        BY <3>3, ThreadAssumption DEF ThreadAssumption, PRefused, TypeOK, WorkerPC, ProducerPC, DestructorPC
      <4>2. MutexInv'
        BY <3>3, ThreadAssumption DEF ThreadAssumption, PRefused, TypeOK, MutexInv
      <4>3. WorkerInv'
        BY <3>3, ThreadAssumption DEF ThreadAssumption, PRefused, TypeOK, MutexInv, WorkerInv
      <4>4. StopInv'
        BY <3>3, ThreadAssumption DEF ThreadAssumption, PRefused, TypeOK, StopInv, MutexInv
      <4>5. DrainedBeforeExit'
        BY <3>3, ThreadAssumption DEF ThreadAssumption, PRefused, TypeOK, MutexInv, StopInv, DrainedBeforeExit
      <4>6. QED
        BY <4>1, <4>2, <4>3, <4>4, <4>5
    <3>4. CASE PCheck(p)
      <4>1. TypeOK'
        BY <3>4, ThreadAssumption DEF ThreadAssumption, PCheck, TypeOK, WorkerPC, ProducerPC, DestructorPC
      <4>2. MutexInv'
        BY <3>4, ThreadAssumption DEF ThreadAssumption, PCheck, TypeOK, MutexInv
      <4>3. WorkerInv'
        BY <3>4, ThreadAssumption DEF ThreadAssumption, PCheck, TypeOK, MutexInv, WorkerInv
      <4>4. StopInv'
        BY <3>4, ThreadAssumption DEF ThreadAssumption, PCheck, TypeOK, StopInv, MutexInv
      <4>5. DrainedBeforeExit'
        BY <3>4, ThreadAssumption DEF ThreadAssumption, PCheck, TypeOK, MutexInv, StopInv, DrainedBeforeExit
      <4>6. QED
        BY <4>1, <4>2, <4>3, <4>4, <4>5
    <3>5. CASE PPush(p)
      <4>1. TypeOK'
        BY <3>5, ThreadAssumption DEF ThreadAssumption, PPush, TypeOK, WorkerPC, ProducerPC, DestructorPC
      <4>2. MutexInv'
        BY <3>5, ThreadAssumption DEF ThreadAssumption, PPush, TypeOK, MutexInv
      <4>3. WorkerInv'
        BY <3>5, ThreadAssumption DEF ThreadAssumption, PPush, TypeOK, MutexInv, WorkerInv
      <4>4. StopInv'
        BY <3>5, ThreadAssumption DEF ThreadAssumption, PPush, TypeOK, StopInv, MutexInv
      <4>5. DrainedBeforeExit'
        BY <3>5, ThreadAssumption DEF ThreadAssumption, PPush, TypeOK, MutexInv, StopInv, DrainedBeforeExit
      <4>6. QED
        BY <4>1, <4>2, <4>3, <4>4, <4>5
    <3>6. CASE PNotify(p)
      <4>1. TypeOK'
        BY <3>6, ThreadAssumption DEF ThreadAssumption, PNotify, TypeOK, WorkerPC, ProducerPC, DestructorPC
      <4>2. MutexInv'
        BY <3>6, ThreadAssumption DEF ThreadAssumption, PNotify, TypeOK, MutexInv, WorkerInv
      <4>3. WorkerInv'
        BY <3>6, ThreadAssumption DEF ThreadAssumption, PNotify, TypeOK, MutexInv, WorkerInv
      <4>4. StopInv'
        BY <3>6, ThreadAssumption DEF ThreadAssumption, PNotify, TypeOK, StopInv, MutexInv, WorkerInv
      <4>5. DrainedBeforeExit'
        BY <3>6, ThreadAssumption DEF ThreadAssumption, PNotify, TypeOK, MutexInv, StopInv, DrainedBeforeExit
      <4>6. QED
        BY <4>1, <4>2, <4>3, <4>4, <4>5
    <3>7. QED
      BY <2>2, <3>1, <3>2, <3>3, <3>4, <3>5, <3>6 DEF AddTaskStep
  <2>3. ASSUME DStop \/ StopStep
        PROVE  IInv'
    <3>1. CASE DStop
      <4>1. TypeOK'
        BY <3>1, ThreadAssumption DEF ThreadAssumption, DStop, TypeOK, WorkerPC, ProducerPC, DestructorPC
      <4>2. MutexInv'
        BY <3>1, ThreadAssumption DEF ThreadAssumption, DStop, TypeOK, MutexInv
      <4>3. WorkerInv'
        BY <3>1, ThreadAssumption DEF ThreadAssumption, DStop, TypeOK, MutexInv, WorkerInv
      <4>4. StopInv'
        BY <3>1, ThreadAssumption DEF ThreadAssumption, DStop, TypeOK, StopInv, MutexInv
      <4>5. DrainedBeforeExit'
        BY <3>1, ThreadAssumption DEF ThreadAssumption, DStop, TypeOK, MutexInv, StopInv, DrainedBeforeExit
      <4>6. QED
        BY <4>1, <4>2, <4>3, <4>4, <4>5
    <3>2. CASE DNotifyAll
      <4>1. TypeOK'
        BY <3>2, ThreadAssumption DEF ThreadAssumption, DNotifyAll, TypeOK, WorkerPC, ProducerPC, DestructorPC
      <4>2. MutexInv'
        BY <3>2, ThreadAssumption DEF ThreadAssumption, DNotifyAll, TypeOK, MutexInv, WorkerInv
      <4>3. WorkerInv'
        BY <3>2, ThreadAssumption DEF ThreadAssumption, DNotifyAll, TypeOK, MutexInv, WorkerInv
      <4>4. StopInv'
        BY <3>2, ThreadAssumption DEF ThreadAssumption, DNotifyAll, TypeOK, StopInv, MutexInv, WorkerInv
      <4>5. DrainedBeforeExit'
        BY <3>2, ThreadAssumption DEF ThreadAssumption, DNotifyAll, TypeOK, MutexInv, StopInv, DrainedBeforeExit
      <4>6. QED
        BY <4>1, <4>2, <4>3, <4>4, <4>5
    <3>3. CASE DJoin
      <4>1. TypeOK'
        BY <3>3, ThreadAssumption DEF ThreadAssumption, DJoin, TypeOK, WorkerPC, ProducerPC, DestructorPC
      <4>2. MutexInv'
        BY <3>3, ThreadAssumption DEF ThreadAssumption, DJoin, TypeOK, MutexInv
      <4>3. WorkerInv'
        BY <3>3, ThreadAssumption DEF ThreadAssumption, DJoin, TypeOK, MutexInv, WorkerInv
      <4>4. StopInv'
        BY <3>3, ThreadAssumption DEF ThreadAssumption, DJoin, TypeOK, StopInv, MutexInv
      <4>5. DrainedBeforeExit'
        BY <3>3, ThreadAssumption DEF ThreadAssumption, DJoin, TypeOK, MutexInv, StopInv, DrainedBeforeExit
      <4>6. QED
        BY <4>1, <4>2, <4>3, <4>4, <4>5
    <3>4. QED
      BY <2>3, <3>1, <3>2, <3>3 DEF StopStep
  <2>4. CASE UNCHANGED vars
    BY <2>4 DEF vars, TypeOK, MutexInv, WorkerInv, StopInv, DrainedBeforeExit
  <2>5. QED
    BY <2>1, <2>2, <2>3, <2>4 DEF Next

THEOREM Invariance == Spec => []IInv
<1>1. QED
  BY InitIInv, NextIInv, PTL DEF Spec

-----------------------------------------------------------------------------
(* The theorems.                                                           *)

\* Every variable of ThreadPool keeps to its type, for all constants.
THEOREM TypeCorrect == Spec => []TypeOK
<1>1. IInv => TypeOK
  BY DEF IInv
<1>2. QED
  BY <1>1, Invariance, PTL

\* No worker returns while a task is queued or about to be queued.
THEOREM DrainsBeforeExit == Spec => []DrainedBeforeExit
<1>1. IInv => DrainedBeforeExit
  BY DEF IInv
<1>2. QED
  BY <1>1, Invariance, PTL

LEMMA NextNoStrandedTask == IInv /\ NoStrandedTask /\ [Next]_vars => NoStrandedTask'
<1> SUFFICES ASSUME IInv, NoStrandedTask, [Next]_vars
             PROVE  NoStrandedTask'
  OBVIOUS
<1> USE DEF IInv
<1>1. ASSUME NEW w \in Workers, WorkerStep(w) \/ SpuriousWakeup(w)
      PROVE  NoStrandedTask'
  <2>1. CASE WLock(w)
    BY <2>1 DEF WLock, NoStrandedTask, TypeOK, WorkerInv
  <2>2. CASE WPredicate(w)
    BY <2>2 DEF WPredicate, NoStrandedTask, TypeOK, WorkerInv
  <2>3. CASE WBlock(w)
    BY <2>3 DEF WBlock, NoStrandedTask, TypeOK, WorkerInv
  <2>4. CASE SpuriousWakeup(w)
    BY <2>4 DEF SpuriousWakeup, NoStrandedTask, TypeOK, WorkerInv
  <2>5. CASE WExit(w)
    BY <2>5 DEF WExit, NoStrandedTask, TypeOK, WorkerInv
  <2>6. CASE WFront(w)
    BY <2>6 DEF WFront, NoStrandedTask, TypeOK, WorkerInv
  <2>7. CASE WPop(w)
    BY <2>7 DEF WPop, NoStrandedTask, TypeOK, WorkerInv
  <2>8. CASE WRun(w)
    BY <2>8 DEF WRun, NoStrandedTask, TypeOK, WorkerInv
  <2>9. QED
    BY <1>1, <2>1, <2>2, <2>3, <2>4, <2>5, <2>6, <2>7, <2>8 DEF WorkerStep
<1>2. ASSUME NEW p \in Producers, PCall(p) \/ AddTaskStep(p)
      PROVE  NoStrandedTask'
  <2>1. CASE PCall(p)
    BY <2>1 DEF PCall, NoStrandedTask, TypeOK, WorkerInv
  <2>2. CASE PLock(p)
    BY <2>2 DEF PLock, NoStrandedTask, TypeOK, WorkerInv
  <2>3. CASE PRefused(p)
    BY <2>3 DEF PRefused, NoStrandedTask, TypeOK, WorkerInv
  <2>4. CASE PCheck(p)
    BY <2>4 DEF PCheck, NoStrandedTask, TypeOK, WorkerInv
  <2>5. CASE PPush(p)
    BY <2>5 DEF PPush, NoStrandedTask, TypeOK, WorkerInv
  <2>6. CASE PNotify(p)
    <3> SUFFICES ASSUME taskqueue_ # <<>>
                 PROVE  NoStrandedTask'
      BY <2>6 DEF PNotify, NoStrandedTask
    <3>1. CASE waiting = {}
      <4>1. PICK w \in Workers : TRUE
        BY ThreadAssumption DEF ThreadAssumption
      <4>2. wpc[w] \in {"lock", "pred", "check", "pop", "run"}
        BY <3>1, <4>1 DEF TypeOK, WorkerPC, WorkerInv, DrainedBeforeExit
      <4>3. QED
        BY <2>6, <3>1, <4>1, <4>2 DEF PNotify, NoStrandedTask
    <3>2. CASE waiting # {}
      BY <2>6, <3>2 DEF PNotify, NoStrandedTask, TypeOK
    <3>3. QED
      BY <3>1, <3>2
  <2>7. QED
    BY <1>2, <2>1, <2>2, <2>3, <2>4, <2>5, <2>6 DEF AddTaskStep
<1>3. ASSUME DStop \/ StopStep
      PROVE  NoStrandedTask'
  <2>1. CASE DStop
    BY <2>1 DEF DStop, NoStrandedTask, TypeOK, WorkerInv
  <2>2. CASE DNotifyAll
    BY <2>2 DEF DNotifyAll, NoStrandedTask, TypeOK, WorkerInv
  <2>3. CASE DJoin
    BY <2>3 DEF DJoin, NoStrandedTask, TypeOK, WorkerInv
  <2>4. QED
    BY <1>3, <2>1, <2>2, <2>3 DEF StopStep
<1>4. CASE UNCHANGED vars
  BY <1>4 DEF vars, NoStrandedTask
<1>5. QED
  BY <1>1, <1>2, <1>3, <1>4 DEF Next

\* A queued task always has a worker awake or a notification under way.
THEOREM NoTaskStranded == Spec => []NoStrandedTask
<1>1. Init => NoStrandedTask
  BY DEF Init, NoStrandedTask
<1>2. QED
  BY <1>1, NextNoStrandedTask, Invariance, PTL DEF Spec
-----------------------------------------------------------------------------
(* ThreadPool implements TaskPool.                                         *)

RefInv == TicketInv /\ RunInv

LEMMA InitRefInv == Init => RefInv
  BY DEF Init, RefInv, TicketInv, RunInv

LEMMA NextRefInv == IInv /\ RefInv /\ [Next]_vars => RefInv'
<1> SUFFICES ASSUME IInv, RefInv, [Next]_vars
             PROVE  RefInv'
  OBVIOUS
<1> USE DEF IInv, RefInv
<1>1. ASSUME NEW w \in Workers, WorkerStep(w) \/ SpuriousWakeup(w)
      PROVE  RefInv'
  <2>1. CASE WLock(w)
    BY <2>1 DEF WLock, TypeOK, TicketInv, RunInv, WorkerInv
  <2>2. CASE WPredicate(w)
    BY <2>2 DEF WPredicate, TypeOK, TicketInv, RunInv, WorkerInv
  <2>3. CASE WBlock(w)
    BY <2>3 DEF WBlock, TypeOK, TicketInv, RunInv, WorkerInv
  <2>4. CASE SpuriousWakeup(w)
    BY <2>4 DEF SpuriousWakeup, TypeOK, TicketInv, RunInv, WorkerInv
  <2>5. CASE WExit(w)
    BY <2>5 DEF WExit, TypeOK, TicketInv, RunInv, WorkerInv
  <2>6. CASE WFront(w)
    BY <2>6 DEF WFront, TypeOK, TicketInv, RunInv, WorkerInv
  <2>7. CASE WPop(w)
    <3>1. /\ taskqueue_' \in Seq(Nat \ {0})
          /\ Len(taskqueue_') = Len(taskqueue_) - 1
          /\ \A i \in 1 .. Len(taskqueue_') : taskqueue_'[i] = taskqueue_[i + 1]
      BY <2>7, HeadTailProperties DEF WPop, TypeOK, WorkerInv
    <3>2. TicketInv'
      BY <2>7, <3>1, LenProperties DEF WPop, TypeOK, TicketInv, WorkerInv
    <3>3. task[w] = accepted - Len(taskqueue_) + 1
      BY <2>7 DEF WPop, TypeOK, TicketInv, WorkerInv
    <3>4. RunInv'
      BY <2>7, <3>1, <3>3 DEF WPop, TypeOK, RunInv
    <3>5. QED
      BY <3>2, <3>4
  <2>8. CASE WRun(w)
    BY <2>8 DEF WRun, TypeOK, TicketInv, RunInv, WorkerInv
  <2>9. QED
    BY <1>1, <2>1, <2>2, <2>3, <2>4, <2>5, <2>6, <2>7, <2>8 DEF WorkerStep
<1>2. ASSUME NEW p \in Producers, PCall(p) \/ AddTaskStep(p)
      PROVE  RefInv'
  <2>1. CASE PCall(p)
    BY <2>1 DEF PCall, TypeOK, TicketInv, RunInv, WorkerInv
  <2>2. CASE PLock(p)
    BY <2>2 DEF PLock, TypeOK, TicketInv, RunInv, WorkerInv
  <2>3. CASE PRefused(p)
    BY <2>3 DEF PRefused, TypeOK, TicketInv, RunInv, WorkerInv
  <2>4. CASE PCheck(p)
    BY <2>4 DEF PCheck, TypeOK, TicketInv, RunInv, WorkerInv
  <2>5. CASE PPush(p)
    <3>1. /\ Len(taskqueue_') = Len(taskqueue_) + 1
          /\ \A i \in 1 .. Len(taskqueue_) : taskqueue_'[i] = taskqueue_[i]
          /\ taskqueue_'[Len(taskqueue_) + 1] = accepted + 1
      BY <2>5 DEF PPush, TypeOK
    <3>2. TicketInv'
      <4>1. ASSUME NEW i \in 1 .. Len(taskqueue_')
            PROVE  taskqueue_'[i] = accepted' - Len(taskqueue_') + i
        <5>1. CASE i = Len(taskqueue_) + 1
          BY <2>5, <3>1, <5>1 DEF PPush, TypeOK
        <5>2. CASE i # Len(taskqueue_) + 1
          <6>1. i \in 1 .. Len(taskqueue_)
            BY <3>1, <4>1, <5>2 DEF TypeOK
          <6>2. QED
            BY <2>5, <3>1, <6>1 DEF PPush, TypeOK, TicketInv
        <5>3. QED
          BY <5>1, <5>2
      <4>2. Len(taskqueue_') <= accepted'
        BY <2>5, <3>1 DEF PPush, TypeOK, TicketInv
      <4>3. QED
        BY <4>1, <4>2 DEF TicketInv
    <3>3. RunInv'
      BY <2>5, <3>1 DEF PPush, TypeOK, RunInv
    <3>4. QED
      BY <3>2, <3>3
  <2>6. CASE PNotify(p)
    <3>1. \A v \in Workers : wpc'[v] = "run" <=> wpc[v] = "run"
      BY <2>6 DEF PNotify, TypeOK, WorkerInv
    <3>2. TicketInv' /\ RunInv'
      BY <2>6, <3>1 DEF PNotify, TicketInv, RunInv
    <3>3. QED
      BY <3>2
  <2>7. QED
    BY <1>2, <2>1, <2>2, <2>3, <2>4, <2>5, <2>6 DEF AddTaskStep
<1>3. ASSUME DStop \/ StopStep
      PROVE  RefInv'
  <2>1. CASE DStop
    BY <2>1 DEF DStop, TypeOK, TicketInv, RunInv, WorkerInv
  <2>2. CASE DNotifyAll
    BY <2>2 DEF DNotifyAll, TypeOK, TicketInv, RunInv, WorkerInv
  <2>3. CASE DJoin
    BY <2>3 DEF DJoin, TypeOK, TicketInv, RunInv, WorkerInv
  <2>4. QED
    BY <1>3, <2>1, <2>2, <2>3 DEF StopStep
<1>4. CASE UNCHANGED vars
  BY <1>4 DEF vars, TicketInv, RunInv
<1>5. QED
  BY <1>1, <1>2, <1>3, <1>4 DEF Next

Running == {task[w] : w \in {v \in Workers : wpc[v] = "run"}}

LEMMA NextTaskPool == IInv /\ RefInv /\ RefInv' /\ [Next]_vars => [TP!Next]_(TP!vars)
<1> SUFFICES ASSUME IInv, RefInv, RefInv', [Next]_vars
             PROVE  [TP!Next]_(TP!vars)
  OBVIOUS
<1> USE DEF IInv, RefInv
<1>1. ASSUME NEW w \in Workers, WorkerStep(w) \/ SpuriousWakeup(w)
      PROVE  [TP!Next]_(TP!vars)
  <2>1. CASE WLock(w)
    <3>1. \A v \in Workers : wpc'[v] = "run" <=> wpc[v] = "run"
      BY <2>1 DEF WLock, TypeOK
    <3>2. Running' = Running
      BY <2>1, <3>1 DEF WLock, Running
    <3>3. QED
      BY <2>1, <3>2 DEF WLock, Running, TP!vars
  <2>2. CASE WPredicate(w)
    <3>1. \A v \in Workers : wpc'[v] = "run" <=> wpc[v] = "run"
      BY <2>2 DEF WPredicate, TypeOK
    <3>2. Running' = Running
      BY <2>2, <3>1 DEF WPredicate, Running
    <3>3. QED
      BY <2>2, <3>2 DEF WPredicate, Running, TP!vars
  <2>3. CASE WBlock(w)
    <3>1. \A v \in Workers : wpc'[v] = "run" <=> wpc[v] = "run"
      BY <2>3 DEF WBlock, TypeOK
    <3>2. Running' = Running
      BY <2>3, <3>1 DEF WBlock, Running
    <3>3. QED
      BY <2>3, <3>2 DEF WBlock, Running, TP!vars
  <2>4. CASE SpuriousWakeup(w)
    <3>1. \A v \in Workers : wpc'[v] = "run" <=> wpc[v] = "run"
      BY <2>4 DEF SpuriousWakeup, TypeOK, WorkerInv
    <3>2. Running' = Running
      BY <2>4, <3>1 DEF SpuriousWakeup, Running
    <3>3. QED
      BY <2>4, <3>2 DEF SpuriousWakeup, Running, TP!vars
  <2>5. CASE WExit(w)
    <3>1. \A v \in Workers : wpc'[v] = "run" <=> wpc[v] = "run"
      BY <2>5 DEF WExit, TypeOK
    <3>2. Running' = Running
      BY <2>5, <3>1 DEF WExit, Running
    <3>3. QED
      BY <2>5, <3>2 DEF WExit, Running, TP!vars
  <2>6. CASE WFront(w)
    <3>1. Running' = Running
      BY <2>6 DEF WFront, TypeOK, Running
    <3>2. QED
      BY <2>6, <3>1 DEF WFront, Running, TP!vars
  <2>7. CASE WPop(w)
    <3>1. /\ Len(taskqueue_) \in Nat \ {0}
          /\ Len(taskqueue_') = Len(taskqueue_) - 1
          /\ task[w] = accepted - Len(taskqueue_) + 1
      <4>1. taskqueue_ # <<>> /\ task[w] = Head(taskqueue_) /\ taskqueue_' = Tail(taskqueue_)
        BY <2>7 DEF WPop, WorkerInv
      <4>2. taskqueue_ \in Seq(Nat)
        BY DEF TypeOK
      <4>3. Len(taskqueue_) \in Nat \ {0} /\ Head(taskqueue_) = taskqueue_[1]
            /\ Len(Tail(taskqueue_)) = Len(taskqueue_) - 1
        BY <4>1, <4>2, HeadTailProperties, LenProperties
      <4>4. taskqueue_[1] = accepted - Len(taskqueue_) + 1
        BY <4>3 DEF TicketInv
      <4> QED
        BY <4>1, <4>3, <4>4
    <3>2. Running' = Running \cup {task[w]}
      <4>1. {v \in Workers : wpc'[v] = "run"} = {v \in Workers : wpc[v] = "run"} \cup {w}
        BY <2>7 DEF WPop, TypeOK
      <4>2. task' = task
        BY <2>7 DEF WPop
      <4> QED
        BY <4>1, <4>2 DEF Running
    <3>3. dpc # "joined"
      BY <2>7 DEF WPop, StopInv
    <3>4. TP!Start
      BY <2>7, <3>1, <3>2, <3>3 DEF WPop, TypeOK, TicketInv, TP!Start, Running
    <3>5. QED
      BY <3>4 DEF TP!Next
  <2>8. CASE WRun(w)
    <3>1. Running' = Running \ {task[w]}
      BY <2>8 DEF WRun, TypeOK, RunInv, Running
    <3>2. task[w] \in Running /\ dpc # "joined"
      BY <2>8 DEF WRun, Running, StopInv
    <3>3. TP!Finish
      BY <2>8, <3>1, <3>2 DEF WRun, TP!Finish, Running
    <3>4. QED
      BY <3>3 DEF TP!Next
  <2>9. QED
    BY <1>1, <2>1, <2>2, <2>3, <2>4, <2>5, <2>6, <2>7, <2>8 DEF WorkerStep
<1>2. ASSUME NEW p \in Producers, PCall(p) \/ AddTaskStep(p)
      PROVE  [TP!Next]_(TP!vars)
  <2>1. CASE PCall(p)
    BY <2>1 DEF PCall, TP!vars
  <2>2. CASE PLock(p)
    BY <2>2 DEF PLock, TP!vars
  <2>3. CASE PRefused(p)
    BY <2>3 DEF PRefused, TP!vars
  <2>4. CASE PCheck(p)
    BY <2>4 DEF PCheck, TP!vars
  <2>5. CASE PPush(p)
    <3>1. Len(taskqueue_') = Len(taskqueue_) + 1 /\ Len(taskqueue_) \in Nat
      BY <2>5 DEF PPush, TypeOK
    <3>2. dpc # "joined"
      BY <2>5, ThreadAssumption DEF ThreadAssumption, PPush, StopInv, DrainedBeforeExit
    <3>3. TP!Accept
      BY <2>5, <3>1, <3>2 DEF PPush, TypeOK, TP!Accept
    <3>4. QED
      BY <3>3 DEF TP!Next
  <2>6. CASE PNotify(p)
    <3>1. \A v \in Workers : wpc'[v] = "run" <=> wpc[v] = "run"
      BY <2>6 DEF PNotify, TypeOK, WorkerInv
    <3>2. Running' = Running
      BY <2>6, <3>1 DEF PNotify, Running
    <3>3. QED
      BY <2>6, <3>2 DEF PNotify, Running, TP!vars
  <2>7. QED
    BY <1>2, <2>1, <2>2, <2>3, <2>4, <2>5, <2>6 DEF AddTaskStep
<1>3. ASSUME DStop \/ StopStep
      PROVE  [TP!Next]_(TP!vars)
  <2>1. CASE DStop
    BY <2>1 DEF DStop, TP!vars
  <2>2. CASE DNotifyAll
    <3>1. \A v \in Workers : wpc'[v] = "run" <=> wpc[v] = "run"
      BY <2>2 DEF DNotifyAll, TypeOK, WorkerInv
    <3>2. Running' = Running
      BY <2>2, <3>1 DEF DNotifyAll, Running
    <3>3. QED
      BY <2>2, <3>2 DEF DNotifyAll, Running, TP!vars
  <2>3. CASE DJoin
    <3>1. taskqueue_ = <<>> /\ Len(taskqueue_) = 0
      BY <2>3, ThreadAssumption DEF ThreadAssumption, DJoin, DrainedBeforeExit
    <3>2. TP!Terminate
      BY <2>3, <3>1 DEF DJoin, TypeOK, TP!Terminate
    <3>3. QED
      BY <3>2 DEF TP!Next
  <2>4. QED
    BY <1>3, <2>1, <2>2, <2>3 DEF StopStep
<1>4. CASE UNCHANGED vars
  BY <1>4 DEF vars, TP!vars
<1>5. QED
  BY <1>1, <1>2, <1>3, <1>4 DEF Next

\* The pool of threads implements TaskPool: tasks start in the order of acceptance,
\* each once, and the destructor returns only when all of them have been run.
THEOREM ImplementsTaskPool == Spec => TaskPoolSpec
<1>1. Init => TP!Init
  <2> SUFFICES ASSUME Init
               PROVE  TP!Init
    OBVIOUS
  <2>1. Running = {}
    BY DEF Init, Running
  <2>2. accepted = 0 /\ taskqueue_ = <<>> /\ dpc # "joined"
    BY DEF Init
  <2>3. accepted - Len(taskqueue_) = 0
    <3>1. Len(taskqueue_) = 0
      BY <2>2, EmptySeq
    <3>2. \A m, n \in Nat : m = n => m - n = 0
      OBVIOUS
    <3>3. QED
      BY <2>2, <3>1, <3>2
  <2>4. QED
    BY <2>1, <2>2, <2>3 DEF TP!Init, Running
<1>2. QED
  BY <1>1, InitRefInv, NextRefInv, NextTaskPool, Invariance, PTL
     DEF Spec, TaskPoolSpec, TP!Spec
=============================================================================
