----------------------------- MODULE ThreadPool -----------------------------
(***************************************************************************)
(* App/ThreadPool.cpp: a fixed set of worker threads, a task queue under   *)
(* one mutex, a condition variable and an atomic stop flag.                *)
(*                                                                         *)
(* Every step of a thread that another thread can tell apart is an action: *)
(* taking the mutex, evaluating the wait predicate, blocking (which        *)
(* releases the mutex atomically, as std::condition_variable::wait does),  *)
(* copying the front task, popping it, running it.  stop_ is an atomic and *)
(* stopthread() sets it without the mutex, so it may change between any    *)
(* two of those steps.                                                     *)
(*                                                                         *)
(* A task is named by its ticket, its position in the order of acceptance. *)
(***************************************************************************)
EXTENDS Naturals, Sequences

CONSTANTS
    Workers,    \* the threads the constructor starts (threadnum of them)
    Producers,  \* the threads that call addtask
    NoThread,   \* owner of the mutex when it is free
    MaxCalls    \* bound: calls of addtask in a behaviour

ASSUME ThreadAssumption ==
    /\ Workers # {}
    /\ Workers \cap Producers = {}
    /\ NoThread \notin Workers \cup Producers
    /\ MaxCalls \in Nat

VARIABLES
    stop_,      \* ThreadPool::stop_
    taskqueue_, \* ThreadPool::taskqueue_, a sequence of tickets
    mutex_,     \* the thread that holds ThreadPool::mutex_, or NoThread
    waiting,    \* the workers blocked on ThreadPool::condition_
    wpc,        \* where each worker is in its loop
    task,       \* the local variable "task" of each worker (0: empty)
    ppc,        \* where each producer is in addtask
    dpc,        \* where the destructor is in stopthread
    calls,      \* calls of addtask so far
    accepted    \* tasks pushed so far (the next ticket is accepted + 1)

vars == <<stop_, taskqueue_, mutex_, waiting, wpc, task, ppc, dpc, calls, accepted>>

WorkerPC == {"lock", "pred", "sleep", "blocked", "check", "pop", "run", "exited"}
ProducerPC == {"idle", "lock", "check", "push", "notify"}
DestructorPC == {"up", "notify", "join", "joined"}

Init ==
    /\ stop_ = FALSE
    /\ taskqueue_ = <<>>
    /\ mutex_ = NoThread
    /\ waiting = {}
    /\ wpc = [w \in Workers |-> "lock"]
    /\ task = [w \in Workers |-> 0]
    /\ ppc = [p \in Producers |-> "idle"]
    /\ dpc = "up"
    /\ calls = 0
    /\ accepted = 0
-----------------------------------------------------------------------------
(* Plausible faults, used only to show that the properties can fail: each  *)
(* is a form one of the actions below would take if the code had it.       *)

\* wait(lock, [this]{ return !taskqueue_.empty(); }): the stop flag is forgotten.
WPredicateIgnoresStop(w) ==
    /\ wpc[w] = "pred"
    /\ wpc' = [wpc EXCEPT ![w] = IF taskqueue_ # <<>> THEN "check" ELSE "sleep"]
    /\ UNCHANGED <<stop_, taskqueue_, mutex_, waiting, task, ppc, dpc, calls, accepted>>

\* if (stop_) return; without the test that the queue is empty.
WExitAtOnce(w) ==
    /\ wpc[w] = "check"
    /\ stop_
    /\ mutex_' = NoThread
    /\ wpc' = [wpc EXCEPT ![w] = "exited"]
    /\ UNCHANGED <<stop_, taskqueue_, waiting, task, ppc, dpc, calls, accepted>>

\* addtask does not test stop_.
PCheckIgnoresStop(p) ==
    /\ ppc[p] = "check"
    /\ ppc' = [ppc EXCEPT ![p] = "push"]
    /\ UNCHANGED <<stop_, taskqueue_, mutex_, waiting, wpc, task, dpc, calls, accepted>>

\* addtask does not call notify_one.
PPushSilently(p) ==
    /\ ppc[p] = "push"
    /\ accepted' = accepted + 1
    /\ taskqueue_' = Append(taskqueue_, accepted + 1)
    /\ mutex_' = NoThread
    /\ ppc' = [ppc EXCEPT ![p] = "idle"]
    /\ UNCHANGED <<stop_, waiting, wpc, task, dpc, calls>>
-----------------------------------------------------------------------------
(* The loop of a worker.                                                   *)

\* unique_lock, and the re-acquisition of the mutex at the end of a wait.
WLock(w) ==
    /\ wpc[w] = "lock"
    /\ mutex_ = NoThread
    /\ mutex_' = w
    /\ wpc' = [wpc EXCEPT ![w] = "pred"]
    /\ UNCHANGED <<stop_, taskqueue_, waiting, task, ppc, dpc, calls, accepted>>

\* The predicate of condition_.wait: true when the pool is stopped or has a task.
WPredicate(w) ==
    /\ wpc[w] = "pred"
    /\ wpc' = [wpc EXCEPT ![w] = IF stop_ \/ taskqueue_ # <<>> THEN "check" ELSE "sleep"]
    /\ UNCHANGED <<stop_, taskqueue_, mutex_, waiting, task, ppc, dpc, calls, accepted>>

\* The predicate was false: block on the condition and release the mutex.
WBlock(w) ==
    /\ wpc[w] = "sleep"
    /\ waiting' = waiting \cup {w}
    /\ mutex_' = NoThread
    /\ wpc' = [wpc EXCEPT ![w] = "blocked"]
    /\ UNCHANGED <<stop_, taskqueue_, task, ppc, dpc, calls, accepted>>

\* A wait may return without a notification.
SpuriousWakeup(w) ==
    /\ w \in waiting
    /\ waiting' = waiting \ {w}
    /\ wpc' = [wpc EXCEPT ![w] = "lock"]
    /\ UNCHANGED <<stop_, taskqueue_, mutex_, task, ppc, dpc, calls, accepted>>

\* Stopped and nothing left: the worker returns, which unlocks the mutex.
WExit(w) ==
    /\ wpc[w] = "check"
    /\ stop_
    /\ taskqueue_ = <<>>
    /\ mutex_' = NoThread
    /\ wpc' = [wpc EXCEPT ![w] = "exited"]
    /\ UNCHANGED <<stop_, taskqueue_, waiting, task, ppc, dpc, calls, accepted>>

\* task = std::move(taskqueue_.front())
WFront(w) ==
    /\ wpc[w] = "check"
    /\ taskqueue_ # <<>>
    /\ task' = [task EXCEPT ![w] = Head(taskqueue_)]
    /\ wpc' = [wpc EXCEPT ![w] = "pop"]
    /\ UNCHANGED <<stop_, taskqueue_, mutex_, waiting, ppc, dpc, calls, accepted>>

\* taskqueue_.pop(), and the end of the locked scope.
WPop(w) ==
    /\ wpc[w] = "pop"
    /\ taskqueue_' = Tail(taskqueue_)
    /\ mutex_' = NoThread
    /\ wpc' = [wpc EXCEPT ![w] = "run"]
    /\ UNCHANGED <<stop_, waiting, task, ppc, dpc, calls, accepted>>

\* task() returns and the task object is destroyed.
WRun(w) ==
    /\ wpc[w] = "run"
    /\ task' = [task EXCEPT ![w] = 0]
    /\ wpc' = [wpc EXCEPT ![w] = "lock"]
    /\ UNCHANGED <<stop_, taskqueue_, mutex_, waiting, ppc, dpc, calls, accepted>>
-----------------------------------------------------------------------------
(* addtask.  Its early return for an empty std::function is never taken:   *)
(* every caller passes a lambda.                                           *)

PCall(p) ==
    /\ ppc[p] = "idle"
    /\ calls < MaxCalls
    /\ calls' = calls + 1
    /\ ppc' = [ppc EXCEPT ![p] = "lock"]
    /\ UNCHANGED <<stop_, taskqueue_, mutex_, waiting, wpc, task, dpc, accepted>>

PLock(p) ==
    /\ ppc[p] = "lock"
    /\ mutex_ = NoThread
    /\ mutex_' = p
    /\ ppc' = [ppc EXCEPT ![p] = "check"]
    /\ UNCHANGED <<stop_, taskqueue_, waiting, wpc, task, dpc, calls, accepted>>

\* if (stop_) return; the lock_guard unlocks on return.
PRefused(p) ==
    /\ ppc[p] = "check"
    /\ stop_
    /\ mutex_' = NoThread
    /\ ppc' = [ppc EXCEPT ![p] = "idle"]
    /\ UNCHANGED <<stop_, taskqueue_, waiting, wpc, task, dpc, calls, accepted>>

PCheck(p) ==
    /\ ppc[p] = "check"
    /\ ~stop_
    /\ ppc' = [ppc EXCEPT ![p] = "push"]
    /\ UNCHANGED <<stop_, taskqueue_, mutex_, waiting, wpc, task, dpc, calls, accepted>>

\* taskqueue_.push, and the end of the locked scope.
PPush(p) ==
    /\ ppc[p] = "push"
    /\ accepted' = accepted + 1
    /\ taskqueue_' = Append(taskqueue_, accepted + 1)
    /\ mutex_' = NoThread
    /\ ppc' = [ppc EXCEPT ![p] = "notify"]
    /\ UNCHANGED <<stop_, waiting, wpc, task, dpc, calls>>

\* condition_.notify_one(), outside the mutex: lost when nobody is blocked.
PNotify(p) ==
    /\ ppc[p] = "notify"
    /\ \/ /\ waiting = {}
          /\ UNCHANGED <<waiting, wpc>>
       \/ \E w \in waiting :
             /\ waiting' = waiting \ {w}
             /\ wpc' = [wpc EXCEPT ![w] = "lock"]
    /\ ppc' = [ppc EXCEPT ![p] = "idle"]
    /\ UNCHANGED <<stop_, taskqueue_, mutex_, task, dpc, calls, accepted>>
-----------------------------------------------------------------------------
(* stopthread, called by the destructor.                                   *)

DStop ==
    /\ dpc = "up"
    /\ stop_' = TRUE
    /\ dpc' = "notify"
    /\ UNCHANGED <<taskqueue_, mutex_, waiting, wpc, task, ppc, calls, accepted>>

DNotifyAll ==
    /\ dpc = "notify"
    /\ waiting' = {}
    /\ wpc' = [w \in Workers |-> IF w \in waiting THEN "lock" ELSE wpc[w]]
    /\ dpc' = "join"
    /\ UNCHANGED <<stop_, taskqueue_, mutex_, task, ppc, calls, accepted>>

\* for (auto& x : threads_) x.join();
DJoin ==
    /\ dpc = "join"
    /\ \A w \in Workers : wpc[w] = "exited"
    /\ dpc' = "joined"
    /\ UNCHANGED <<stop_, taskqueue_, mutex_, waiting, wpc, task, ppc, calls, accepted>>
-----------------------------------------------------------------------------
WorkerStep(w) ==
    \/ WLock(w) \/ WPredicate(w) \/ WBlock(w) \/ WExit(w)
    \/ WFront(w) \/ WPop(w) \/ WRun(w)

AddTaskStep(p) == PLock(p) \/ PRefused(p) \/ PCheck(p) \/ PPush(p) \/ PNotify(p)

StopStep == DNotifyAll \/ DJoin

Next ==
    \/ \E w \in Workers : WorkerStep(w) \/ SpuriousWakeup(w)
    \/ \E p \in Producers : PCall(p) \/ AddTaskStep(p)
    \/ DStop
    \/ StopStep

Spec == Init /\ [][Next]_vars

\* The scheduler runs every thread that can run.  Nothing obliges a caller to
\* call addtask, the owner to destroy the pool, or a wait to return spuriously.
Fairness ==
    /\ \A w \in Workers : WF_vars(WorkerStep(w))
    /\ \A p \in Producers : WF_vars(AddTaskStep(p))
    /\ WF_vars(StopStep)

FairSpec == Spec /\ Fairness
-----------------------------------------------------------------------------
TypeOK ==
    /\ stop_ \in BOOLEAN
    /\ taskqueue_ \in Seq(Nat \ {0})
    /\ mutex_ \in Workers \cup Producers \cup {NoThread}
    /\ waiting \in SUBSET Workers
    /\ wpc \in [Workers -> WorkerPC]
    /\ task \in [Workers -> Nat]
    /\ ppc \in [Producers -> ProducerPC]
    /\ dpc \in DestructorPC
    /\ calls \in 0 .. MaxCalls
    /\ accepted \in Nat

\* Once one worker has returned, no accepted task is left in the queue and no
\* caller of addtask is past the stop_ test: although stopthread sets stop_
\* without the mutex, a task is never accepted by a pool that has begun to drain
\* away (the test of stop_ and the push are under the mutex the workers need).
DrainedBeforeExit ==
    (\E w \in Workers : wpc[w] = "exited") =>
        /\ taskqueue_ = <<>>
        /\ \A p \in Producers : ppc[p] # "push"

\* A queued task is never left to workers that are all asleep: some worker is on
\* its way to the queue or running a task, or a notification is still to be sent
\* (addtask notifies after it has released the mutex).
NoStrandedTask ==
    taskqueue_ # <<>> =>
        \/ \E w \in Workers : wpc[w] \in {"lock", "pred", "check", "pop", "run"}
        \/ \E p \in Producers : ppc[p] = "notify"

\* The pool starts tasks in the order of acceptance, runs each exactly once, and
\* its destructor returns only after the last accepted task has been run.
TP == INSTANCE TaskPool WITH
        started <- accepted - Len(taskqueue_),
        running <- {task[w] : w \in {v \in Workers : wpc[v] = "run"}},
        terminated <- dpc = "joined"

TaskPoolSpec == TP!Spec

\* Every accepted task is run in the end, whether or not the pool is stopped.
AcceptedTaskRuns ==
    \A k \in 1 .. MaxCalls :
        (accepted >= k) ~> (accepted - Len(taskqueue_) >= k /\ \A w \in Workers : task[w] # k)

\* If no worker was blocked or about to block when stopthread had sent its notification,
\* every worker returns and the destructor does too.  (A worker between the predicate and
\* blocking misses the notification and sleeps for ever.)
StopEndsUnlessMissed ==
    (dpc = "join" /\ \A w \in Workers : wpc[w] \notin {"sleep", "blocked"})
        ~> (dpc = "joined")
=============================================================================
