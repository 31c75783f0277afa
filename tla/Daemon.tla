------------------------------- MODULE Daemon -------------------------------
(***************************************************************************)
(* Deamon/Deamon.cpp: DaemonManager starts the configured processes, waits *)
(* for them, restarts those that crash within limits, and on a stop        *)
(* terminates all of them.                                                 *)
(*                                                                         *)
(* One thread runs main(): run(), which calls startAll, monitorLoop and    *)
(* stopAll, and then the destructor.  pc is where it is.  Around it, at    *)
(* any moment, children exit, a signal handler sets signalStopFlag_, and   *)
(* another thread may call stop().                                         *)
(*                                                                         *)
(* child is the sequence of all children ever forked; a pid is an index of *)
(* it, and 0 stands for the code's -1.  Reuse of a pid by the system is    *)
(* not modelled.  Every child leads its own process group (setpgid), so    *)
(* a signal to the group reaches it until it has been reaped.              *)
(***************************************************************************)
EXTENDS Integers, Sequences, FiniteSets

CONSTANTS
    NumProcs,     \* processes_.size()
    AutoRestart,  \* the processes with autoRestart
    RestartArg,   \* argument of addProcess: maxRestartCount
    CrashArg,     \* argument of setMaxCrashCount
    DelayArg,     \* argument of setRestartDelaySec, in turns of the delay loop
    MaxFaults     \* bound: system calls that fail while processes are started

ASSUME DaemonAssumption ==
    /\ NumProcs \in Nat \ {0}
    /\ AutoRestart \subseteq 1 .. NumProcs
    /\ {RestartArg, CrashArg, DelayArg} \subseteq Int
    /\ MaxFaults \in Nat

Procs == 1 .. NumProcs

\* Arguments out of range fall back to the defaults.
MaxRestartCount == IF RestartArg > 0 THEN RestartArg ELSE 10
MaxCrashCount == IF CrashArg > 0 THEN CrashArg ELSE 20
RestartDelay == IF DelayArg >= 0 THEN DelayArg ELSE 10

VARIABLES
    pc,               \* where the main thread is
    phase,            \* "run", or "dtor" once the destructor runs
    ret,              \* what run() returns
    stopping_,        \* DaemonManager::stopping_
    signalStopFlag_,  \* DaemonManager::signalStopFlag_
    running_,         \* DaemonManager::running_
    totalCrashCount_, \* DaemonManager::totalCrashCount_
    procs,            \* DaemonManager::processes_: pid and counters
    cur,              \* the process startProcess or restartProcess works on
    slice,            \* turns left in the delay loop of restartProcess
    child,            \* the children forked so far
    stopper,          \* the thread that calls stop(): before, within, after
    faults            \* failures so far

flags == <<stopping_, signalStopFlag_>>
vars == <<pc, phase, ret, stopping_, signalStopFlag_, running_, totalCrashCount_,
          procs, cur, slice, child, stopper, faults>>

PC == {"run", "setup", "startAll", "forkAll", "monitor", "wait", "decide", "restart", "delay",
       "start", "fork", "handled", "scan", "stopAll", "await", "drain", "kill", "awaitKill",
       "drainKill", "returned", "exited"}

Process == [pid : Nat, restartCount : Nat, crashCount : Nat]

Fresh == [pid |-> 0, restartCount |-> 0, crashCount |-> 0]

NewChild(i) == [of |-> i, state |-> "running", status |-> "none", termed |-> FALSE, killed |-> FALSE]

Init ==
    /\ pc = "run"
    /\ phase = "run"
    /\ ret = 0
    /\ stopping_ = FALSE
    /\ signalStopFlag_ = FALSE
    /\ running_ = FALSE
    /\ totalCrashCount_ = 0
    /\ procs = [i \in Procs |-> Fresh]
    /\ cur = 1
    /\ slice = 0
    /\ child = <<>>
    /\ stopper = "before"
    /\ faults = 0
-----------------------------------------------------------------------------
StopRequested == stopping_ \/ signalStopFlag_

\* Fault: a zombie does not count as running.
IsProcessRunningNow(k) == child[k].state = "running"

\* kill(pid, 0) succeeds for a zombie: only a child that was reaped is not running.
IsProcessRunning(k) == child[k].state # "reaped"

\* The processes of which the manager holds a pid.
Held == {i \in Procs : procs[i].pid > 0}

\* Fault: waitpid for the first process only.
ZombiesOfFirst == {k \in DOMAIN child : child[k].state = "zombie" /\ child[k].of = 1}

Zombies == {k \in DOMAIN child : child[k].state = "zombie"}

MarkStopped(i) == [procs EXCEPT ![i].pid = 0]

\* What the scan for live processes leaves of processes_.
Scanned == [i \in Procs |-> IF i \in Held /\ ~IsProcessRunning(procs[i].pid)
                            THEN [procs[i] EXCEPT !.pid = 0] ELSE procs[i]]

AnyAlive == \E i \in Held : IsProcessRunning(procs[i].pid)

\* What stopProcess does to every process held: the whole group gets the signal.
Signalled(field) ==
    [k \in DOMAIN child |->
        IF \E i \in Held : procs[i].pid = k /\ child[k].state = "running"
        THEN [child[k] EXCEPT ![field] = TRUE] ELSE child[k]]

Reaped(k) == [child EXCEPT ![k].state = "reaped"]

Fault ==
    /\ faults < MaxFaults
    /\ faults' = faults + 1
-----------------------------------------------------------------------------
(* run(): resetRuntimeState, then daemonize, redirectStdIO and             *)
(* installSignalHandlers, then startAll.                                   *)

ResetRuntimeState ==
    /\ pc = "run"
    /\ running_' = FALSE
    /\ stopping_' = FALSE
    /\ signalStopFlag_' = FALSE
    /\ totalCrashCount_' = 0
    /\ procs' = [i \in Procs |-> Fresh]
    /\ pc' = "setup"
    /\ UNCHANGED <<phase, ret, cur, slice, child, stopper, faults>>

SetupDone ==
    /\ pc = "setup"
    /\ pc' = "startAll"
    /\ cur' = 1
    /\ UNCHANGED <<phase, ret, flags, running_, totalCrashCount_, procs, slice, child, stopper, faults>>

\* A failure here returns without stopAll: no process has been started.
SetupFails ==
    /\ pc = "setup"
    /\ Fault
    /\ ret' = -1
    /\ pc' = "returned"
    /\ UNCHANGED <<phase, flags, running_, totalCrashCount_, procs, cur, slice, child, stopper>>

(* startProcess, called by startAll ("startAll", "forkAll") and by         *)
(* restartProcess ("start", "fork").  It asks stopping_ only, then access  *)
(* and fork may fail.                                                      *)

\* A process not started ends startAll, and with it run(); in handleChildExit
\* the result of restartProcess is ignored.
NotStarted(inStartAll) ==
    /\ ret' = IF inStartAll THEN -1 ELSE ret
    /\ pc' = IF inStartAll THEN "stopAll" ELSE "handled"

StartRefused ==
    /\ pc \in {"startAll", "start"}
    /\ stopping_
    /\ NotStarted(pc = "startAll")
    /\ UNCHANGED <<phase, flags, running_, totalCrashCount_, procs, cur, slice, child, stopper, faults>>

StartAllowed ==
    /\ pc \in {"startAll", "start"}
    /\ ~stopping_
    /\ pc' = IF pc = "startAll" THEN "forkAll" ELSE "fork"
    /\ UNCHANGED <<phase, ret, flags, running_, totalCrashCount_, procs, cur, slice, child, stopper, faults>>

\* access() or fork() fails.
StartFails ==
    /\ pc \in {"forkAll", "fork"}
    /\ Fault
    /\ NotStarted(pc = "forkAll")
    /\ UNCHANGED <<phase, flags, running_, totalCrashCount_, procs, cur, slice, child, stopper>>

\* After the last process startAll returns and running_ is set.
StartForks ==
    /\ pc \in {"forkAll", "fork"}
    /\ child' = Append(child, NewChild(cur))
    /\ procs' = [procs EXCEPT ![cur].pid = Len(child) + 1]
    /\ pc' = IF pc = "fork" THEN "handled"
             ELSE IF cur < NumProcs THEN "startAll" ELSE "monitor"
    /\ cur' = IF pc = "forkAll" /\ cur < NumProcs THEN cur + 1 ELSE cur
    /\ running_' = (running_ \/ pc' = "monitor")
    /\ UNCHANGED <<phase, ret, flags, totalCrashCount_, slice, stopper, faults>>
-----------------------------------------------------------------------------
(* monitorLoop                                                             *)

\* Fault: the flag set by the signal handler is not taken over.
HandleStopSignalLate ==
    /\ pc \in {"monitor", "handled"}
    /\ pc' = IF stopping_ THEN "stopAll" ELSE "wait"
    /\ UNCHANGED <<phase, ret, flags, running_, totalCrashCount_, procs, cur, slice, child, stopper, faults>>

\* "monitor" is the head of the loop, "handled" the end of handleChildExit:
\* both call handleStopSignalIfNeeded and leave the loop if stopping_ is set.
HandleStopSignal ==
    /\ pc \in {"monitor", "handled"}
    /\ stopping_' = StopRequested
    /\ pc' = IF StopRequested THEN "stopAll" ELSE "wait"
    /\ UNCHANGED <<phase, ret, signalStopFlag_, running_, totalCrashCount_, procs, cur, slice, child,
                   stopper, faults>>

\* Fault: every exit counts as a crash.
AnyExitIsCrash(k) == child[k].status # "none"

\* Killed by a signal, or exit code other than 0.
IsCrashExit(k) == child[k].status = "crash"

\* handleChildExit up to the counters.
HandleChildExit(k) ==
    IF \E i \in Procs : procs[i].pid = k
    THEN \E i \in Procs :
            /\ procs[i].pid = k
            /\ cur' = i
            /\ IF StopRequested \/ ~IsCrashExit(k)
               THEN /\ procs' = MarkStopped(i)
                    /\ pc' = "handled"
                    /\ UNCHANGED totalCrashCount_
               ELSE /\ procs' = [procs EXCEPT ![i].pid = 0, ![i].crashCount = @ + 1]
                    /\ totalCrashCount_' = totalCrashCount_ + 1
                    /\ pc' = "decide"
    ELSE /\ pc' = "handled"
         /\ UNCHANGED <<cur, procs, totalCrashCount_>>

ReapChild ==
    /\ pc = "wait"
    /\ \E k \in Zombies : child' = Reaped(k) /\ HandleChildExit(k)
    /\ UNCHANGED <<phase, ret, flags, running_, slice, stopper, faults>>

\* Fault: one restart more than allowed.
ShouldRestartOnceMore(i) ==
    /\ ~StopRequested
    /\ i \in AutoRestart
    /\ procs[i].restartCount <= MaxRestartCount
    /\ totalCrashCount_ < MaxCrashCount

\* Fault: one crash of all processes more than allowed.
ShouldRestartAtLimit(i) ==
    /\ ~StopRequested
    /\ i \in AutoRestart
    /\ procs[i].restartCount < MaxRestartCount
    /\ totalCrashCount_ <= MaxCrashCount

\* Fault: one restart less than allowed.
ShouldRestartOnceLess(i) ==
    /\ ~StopRequested
    /\ i \in AutoRestart
    /\ procs[i].restartCount + 1 < MaxRestartCount
    /\ totalCrashCount_ < MaxCrashCount

ShouldRestart(i) ==
    /\ ~StopRequested
    /\ i \in AutoRestart
    /\ procs[i].restartCount < MaxRestartCount
    /\ totalCrashCount_ < MaxCrashCount

Decide ==
    /\ pc = "decide"
    /\ IF ShouldRestart(cur)
       THEN /\ procs' = [procs EXCEPT ![cur].restartCount = @ + 1]
            /\ pc' = "restart"
       ELSE pc' = "handled" /\ UNCHANGED procs
    /\ UNCHANGED <<phase, ret, flags, running_, totalCrashCount_, cur, slice, child, stopper, faults>>

\* restartProcess: the test on entry, then the delay loop.
RestartBegins ==
    /\ pc = "restart"
    /\ slice' = RestartDelay
    /\ pc' = IF StopRequested THEN "handled" ELSE IF RestartDelay = 0 THEN "start" ELSE "delay"
    /\ UNCHANGED <<phase, ret, flags, running_, totalCrashCount_, procs, cur, child, stopper, faults>>

\* One turn: a test, then a sleep.  After the last sleep there is no test.
DelayTurn ==
    /\ pc = "delay"
    /\ slice' = IF StopRequested THEN slice ELSE slice - 1
    /\ pc' = IF StopRequested THEN "handled" ELSE IF slice = 1 THEN "start" ELSE "delay"
    /\ UNCHANGED <<phase, ret, flags, running_, totalCrashCount_, procs, cur, child, stopper, faults>>

\* waitpid returns 0 or fails with ECHILD: no child has exited just now.
NoneExited ==
    /\ pc = "wait"
    /\ Zombies = {}
    /\ pc' = IF stopping_ THEN "stopAll" ELSE "scan"
    /\ UNCHANGED <<phase, ret, flags, running_, totalCrashCount_, procs, cur, slice, child, stopper, faults>>

\* The loop ends when no process is left.
Scan ==
    /\ pc = "scan"
    /\ procs' = Scanned
    /\ pc' = IF AnyAlive THEN "monitor" ELSE "stopAll"
    /\ UNCHANGED <<phase, ret, flags, running_, totalCrashCount_, cur, slice, child, stopper, faults>>
-----------------------------------------------------------------------------
(* stopAll, called by run() and by the destructor                          *)

TermAll ==
    /\ pc = "stopAll"
    /\ stopping_' = TRUE
    /\ child' = Signalled("termed")
    /\ pc' = "await"
    /\ UNCHANGED <<phase, ret, signalStopFlag_, running_, totalCrashCount_, procs, cur, slice, stopper, faults>>

\* A turn of one of the two waiting loops begins, its deadline not passed.
AwaitTurn ==
    /\ pc \in {"await", "awaitKill"}
    /\ pc' = IF pc = "await" THEN "drain" ELSE "drainKill"
    /\ UNCHANGED <<phase, ret, flags, running_, totalCrashCount_, procs, cur, slice, child, stopper, faults>>

\* handleChildExit while stopping_: the process is only marked stopped.
DrainReaps ==
    /\ pc \in {"drain", "drainKill"}
    /\ \E k \in Zombies :
        /\ child' = Reaped(k)
        /\ procs' = [i \in Procs |-> [procs[i] EXCEPT !.pid = IF @ = k THEN 0 ELSE @]]
    /\ UNCHANGED <<pc, phase, ret, flags, running_, totalCrashCount_, cur, slice, stopper, faults>>

StopReturns == pc' = IF phase = "run" THEN "returned" ELSE "exited"

DrainScans ==
    /\ pc \in {"drain", "drainKill"}
    /\ Zombies = {}
    /\ procs' = Scanned
    /\ IF AnyAlive
       THEN /\ pc' = IF pc = "drain" THEN "await" ELSE "awaitKill"
            /\ UNCHANGED running_
       ELSE /\ StopReturns
            /\ running_' = FALSE
    /\ UNCHANGED <<phase, ret, flags, totalCrashCount_, cur, slice, child, stopper, faults>>

\* stopTimeoutSec_ has passed.
TermDeadline ==
    /\ pc = "await"
    /\ pc' = "kill"
    /\ UNCHANGED <<phase, ret, flags, running_, totalCrashCount_, procs, cur, slice, child, stopper, faults>>

\* Fault: SIGTERM is sent once more instead of SIGKILL.
KillMildly ==
    /\ pc = "kill"
    /\ child' = Signalled("termed")
    /\ pc' = "awaitKill"
    /\ UNCHANGED <<phase, ret, flags, running_, totalCrashCount_, procs, cur, slice, stopper, faults>>

KillAll ==
    /\ pc = "kill"
    /\ child' = Signalled("killed")
    /\ pc' = "awaitKill"
    /\ UNCHANGED <<phase, ret, flags, running_, totalCrashCount_, procs, cur, slice, stopper, faults>>

\* Two more seconds have passed: stopAll gives up; run() ignores its result.
KillDeadline ==
    /\ pc = "awaitKill"
    /\ running_' = FALSE
    /\ StopReturns
    /\ UNCHANGED <<phase, ret, flags, totalCrashCount_, procs, cur, slice, child, stopper, faults>>

\* ~DaemonManager, after main() has left run().
Destroy ==
    /\ pc = "returned"
    /\ phase' = "dtor"
    /\ IF running_ \/ Held # {}
       THEN /\ stopping_' = TRUE
            /\ signalStopFlag_' = TRUE
            /\ pc' = "stopAll"
            /\ UNCHANGED running_
       ELSE /\ running_' = FALSE
            /\ pc' = "exited"
            /\ UNCHANGED flags
    /\ UNCHANGED <<ret, totalCrashCount_, procs, cur, slice, child, stopper, faults>>

Exited ==
    /\ pc = "exited"
    /\ UNCHANGED vars
-----------------------------------------------------------------------------
(* What happens around the main thread                                     *)

\* A child ends by itself, after a SIGTERM or because of a SIGKILL.
ChildExits ==
    /\ pc # "exited"
    /\ \E k \in DOMAIN child, status \in {"ok", "crash"} :
        /\ child[k].state = "running"
        /\ child[k].killed => status = "crash"
        /\ child' = [child EXCEPT ![k].state = "zombie", ![k].status = status]
    /\ UNCHANGED <<pc, phase, ret, flags, running_, totalCrashCount_, procs, cur, slice, stopper, faults>>

\* SIGTERM, SIGINT, SIGQUIT or SIGHUP, once the handlers are installed.  (Before
\* that a signal kills the daemon, which has no child yet.)
SignalHandler ==
    /\ pc \notin {"run", "setup", "exited"}
    /\ ~signalStopFlag_
    /\ signalStopFlag_' = TRUE
    /\ UNCHANGED <<pc, phase, ret, stopping_, running_, totalCrashCount_, procs, cur, slice, child,
                   stopper, faults>>

\* stop() from another thread: stopping_ first, then the flag.
StopBegins ==
    /\ pc # "exited"
    /\ stopper = "before"
    /\ stopping_' = TRUE
    /\ stopper' = "within"
    /\ UNCHANGED <<pc, phase, ret, signalStopFlag_, running_, totalCrashCount_, procs, cur, slice, child,
                   faults>>

StopEnds ==
    /\ pc # "exited"
    /\ stopper = "within"
    /\ signalStopFlag_' = TRUE
    /\ stopper' = "after"
    /\ UNCHANGED <<pc, phase, ret, stopping_, running_, totalCrashCount_, procs, cur, slice, child, faults>>

Main ==
    \/ ResetRuntimeState \/ SetupDone \/ SetupFails
    \/ StartRefused \/ StartAllowed \/ StartFails \/ StartForks
    \/ HandleStopSignal \/ ReapChild \/ Decide \/ RestartBegins \/ DelayTurn \/ NoneExited \/ Scan
    \/ TermAll \/ AwaitTurn \/ DrainReaps \/ DrainScans \/ TermDeadline \/ KillAll \/ KillDeadline
    \/ Destroy

Next == Main \/ ChildExits \/ SignalHandler \/ StopBegins \/ StopEnds \/ Exited

Spec == Init /\ [][Next]_vars

\* The main thread runs, and the clock reaches the deadline of a waiting loop.
FairSpec ==
    /\ Spec
    /\ WF_vars(Main)
    /\ SF_vars(TermDeadline)
    /\ SF_vars(KillDeadline)
-----------------------------------------------------------------------------
Child == [of : Procs, state : {"running", "zombie", "reaped"}, status : {"none", "ok", "crash"},
          termed : BOOLEAN, killed : BOOLEAN]

TypeOK ==
    /\ pc \in PC
    /\ phase \in {"run", "dtor"}
    /\ ret \in {0, -1}
    /\ {stopping_, signalStopFlag_, running_} \subseteq BOOLEAN
    /\ totalCrashCount_ \in Nat
    /\ procs \in [Procs -> Process]
    /\ cur \in Procs
    /\ slice \in 0 .. RestartDelay
    /\ child \in Seq(Child)
    /\ stopper \in {"before", "within", "after"}
    /\ faults \in 0 .. MaxFaults

\* The manager never loses a child: one it has not reaped is the current child
\* of its process (startProcess, markProcessStopped and the scans, in which a
\* zombie counts as running).
ChildrenHeld ==
    \A k \in DOMAIN child : child[k].state # "reaped" => procs[child[k].of].pid = k

\* A process is started again only after its previous child crashed and was
\* reaped: two instances never run side by side, and one that ended normally
\* stays down (handleChildExit, shouldRestart).
RestartAfterCrash ==
    \A j, k \in DOMAIN child :
        j < k /\ child[j].of = child[k].of => child[j].state = "reaped" /\ child[j].status = "crash"

Forks(i) == Cardinality({k \in DOMAIN child : child[k].of = i})

\* A process is started at most once and then maxRestartCount times, never more
\* often than it crashed (handleChildExit, shouldRestart).
RestartsBounded ==
    \A i \in Procs :
        /\ Forks(i) <= 1 + procs[i].restartCount
        /\ procs[i].restartCount <= MaxRestartCount
        /\ procs[i].restartCount <= procs[i].crashCount

\* No process is started once the crashes of all of them have reached
\* maxCrashCount_: nothing crashes unseen between shouldRestart and fork.
NoStartBeyondCrashLimit ==
    [][Len(child') > Len(child) => totalCrashCount_ < MaxCrashCount]_vars

\* stopAll kills only what it has asked to terminate first.
TermBeforeKill == \A k \in DOMAIN child : child[k].killed => child[k].termed

\* When main() is left, no child runs on, unless it got a SIGKILL and did not die
\* of it in two seconds (run, stopAll, the destructor).
NoChildLeft ==
    pc = "exited" => \A k \in DOMAIN child : child[k].state # "running" \/ child[k].killed

\* The process is down after a crash although its limits allow a restart.
LeftDown(i) ==
    /\ procs[i].pid = 0
    /\ \E k \in DOMAIN child : child[k].of = i
    /\ \A k \in DOMAIN child : child[k].of = i => child[k].status = "crash"
    /\ procs[i].restartCount < MaxRestartCount
    /\ totalCrashCount_ < MaxCrashCount

\* Each round of monitorLoop finds every process that crashed started again,
\* unless a limit is reached ("autoRestart", Deamon.h:17), provided that access and
\* fork never failed: a restart that fails once is never tried again
\* (handleChildExit, restartProcess).
CrashedIsRestartedWithoutFaults ==
    faults = 0 /\ pc = "monitor" /\ ~StopRequested => \A i \in AutoRestart : ~LeftDown(i)

\* A stop request seen by run() ends the daemon, whatever the children do.
StopEndsDaemon == (pc \notin {"run"} /\ signalStopFlag_) ~> (pc = "exited")

IsZombie(k) == k \in DOMAIN child /\ child[k].state = "zombie"

\* A child that exited does not stay a zombie while the daemon runs: monitorLoop
\* and stopAll reap whatever exits.
ZombiesReaped ==
    \A k \in 1 .. NumProcs * (1 + MaxRestartCount) : IsZombie(k) ~> (~IsZombie(k) \/ pc = "exited")
=============================================================================
