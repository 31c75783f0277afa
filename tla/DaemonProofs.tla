---------------------------- MODULE DaemonProofs ----------------------------
(***************************************************************************)
(* Theorems about Daemon, for any number of processes, any limits, any     *)
(* delay and any number of failures.                                       *)
(*                                                                         *)
(* The inductive invariant relates the pids that the manager holds to the  *)
(* children that exist, and says at each point of the main thread what is  *)
(* known there: before a process is started, that its earlier children     *)
(* crashed and were reaped; within stopAll, which signal has been sent.    *)
(***************************************************************************)
EXTENDS Daemon, SequenceTheorems, FiniteSetTheorems, TLAPS

(* The inductive invariant.                                                *)

ProcessCalls == {"decide", "restart", "delay", "start", "fork"}
RestartCalls == {"restart", "delay", "start", "fork"}
StartCalls == {"startAll", "forkAll"}

\* The pid of a process is that of its child, not reaped yet.
HeldAreChildren ==
    \A i \in Procs : procs[i].pid # 0 =>
        /\ procs[i].pid \in DOMAIN child
        /\ child[procs[i].pid].of = i
        /\ child[procs[i].pid].state # "reaped"

\* Where a process may be started, all its earlier children have crashed and been
\* reaped; in startAll it has had none.
StartAllowedInv ==
    /\ pc \in {"run", "setup"} => child = <<>>
    /\ pc \in StartCalls => \A k \in DOMAIN child : child[k].of < cur
    /\ pc \in ProcessCalls =>
        \A k \in DOMAIN child : child[k].of = cur => child[k].state = "reaped" /\ child[k].status = "crash"

\* The delay loop has a turn left.
DelayInv == pc = "delay" => slice >= 1

\* A restart that was decided on is within the limits.
CountersInv ==
    /\ \A i \in Procs : procs[i].restartCount <= MaxRestartCount
    /\ \A i \in Procs : procs[i].restartCount <= procs[i].crashCount
    /\ pc = "decide" => procs[cur].restartCount < procs[cur].crashCount

CrashLimitInv ==
    /\ pc \in {"setup"} \cup StartCalls => totalCrashCount_ = 0
    /\ pc \in RestartCalls => totalCrashCount_ < MaxCrashCount

\* Children counted against restarts decided on.
ForksInv ==
    /\ \A i \in Procs : Forks(i) <= 1 + procs[i].restartCount
    /\ pc \in RestartCalls => Forks(cur) <= procs[cur].restartCount

\* stopAll has sent SIGTERM to whatever runs, and later SIGKILL.
SignalsInv ==
    /\ TermBeforeKill
    /\ pc \in {"await", "drain", "kill", "awaitKill", "drainKill"} =>
        \A k \in DOMAIN child : child[k].state = "running" => child[k].termed
    /\ pc \in {"awaitKill", "drainKill", "returned", "exited"} =>
        \A k \in DOMAIN child : child[k].state = "running" => child[k].killed

ChildInv == HeldAreChildren /\ ChildrenHeld /\ RestartAfterCrash /\ StartAllowedInv

IInv == TypeOK /\ DelayInv /\ ChildInv /\ CountersInv /\ CrashLimitInv /\ SignalsInv /\ ForksInv
-----------------------------------------------------------------------------
(* Constants and data                                                      *)

LEMMA Constants ==
    /\ Procs \subseteq Nat \ {0} /\ 1 \in Procs
    /\ \A i \in Procs : i < NumProcs => i + 1 \in Procs
    /\ MaxRestartCount \in Nat \ {0} /\ MaxCrashCount \in Nat \ {0} /\ RestartDelay \in Nat
BY DaemonAssumption DEF DaemonAssumption, Procs, MaxRestartCount, MaxCrashCount, RestartDelay

\* A zombie counts as running, so the scans of monitorLoop and stopAll drop no pid.
LEMMA ScanDropsNothing == TypeOK /\ HeldAreChildren => Scanned = procs
<1> SUFFICES ASSUME TypeOK, HeldAreChildren
             PROVE  Scanned = procs
  OBVIOUS
<1>1. \A i \in Held : IsProcessRunning(procs[i].pid)
  <2> SUFFICES ASSUME NEW i \in Held
               PROVE  IsProcessRunning(procs[i].pid)
    OBVIOUS
  <2>1. i \in Procs /\ procs[i].pid # 0
    BY DEF Held
  <2> QED
    BY <2>1 DEF HeldAreChildren, IsProcessRunning
<1>2. Scanned = [i \in Procs |-> procs[i]]
  BY <1>1, Zenon DEF Scanned
<1> QED
  BY <1>2 DEF TypeOK

\* What each kind of step makes of the sequence of children.
LEMMA SignalledType ==
    ASSUME TypeOK, NEW field \in {"termed", "killed"}
    PROVE  /\ Signalled(field) \in Seq(Child)
           /\ DOMAIN Signalled(field) = DOMAIN child
           /\ \A k \in DOMAIN child :
                /\ Signalled(field)[k].of = child[k].of
                /\ Signalled(field)[k].status = child[k].status
                /\ Signalled(field)[k].state = child[k].state
                /\ Signalled(field)[k][field]
                     = (child[k][field] \/ \E i \in Held : procs[i].pid = k /\ child[k].state = "running")
                /\ field = "killed" => Signalled(field)[k].termed = child[k].termed
                /\ field = "termed" => Signalled(field)[k].killed = child[k].killed
<1> DEFINE new(k) == [child[k] EXCEPT ![field] = TRUE]
           Sent(k) == \E i \in Held : procs[i].pid = k /\ child[k].state = "running"
<1>1. Len(child) \in Nat /\ DOMAIN child = 1 .. Len(child) /\ \A k \in DOMAIN child : child[k] \in Child
  BY DEF TypeOK
<1>2. ASSUME NEW k \in DOMAIN child
      PROVE  /\ new(k) \in Child /\ new(k)[field] = TRUE
             /\ new(k).of = child[k].of /\ new(k).status = child[k].status /\ new(k).state = child[k].state
             /\ field = "killed" => new(k).termed = child[k].termed
             /\ field = "termed" => new(k).killed = child[k].killed
  <2>1. child[k] \in Child
    BY <1>1
  <2>2. CASE field = "termed"
    BY <2>1, <2>2 DEF Child
  <2>3. CASE field = "killed"
    BY <2>1, <2>3 DEF Child
  <2> QED
    BY <2>2, <2>3
<1>3. Signalled(field) = [k \in 1 .. Len(child) |-> IF Sent(k) THEN new(k) ELSE child[k]]
  BY <1>1 DEF Signalled
<1> HIDE DEF new, Sent
<1>4. Signalled(field) \in [1 .. Len(child) -> Child]
  BY <1>1, <1>2, <1>3
<1>5. DOMAIN Signalled(field) = DOMAIN child
  BY <1>1, <1>3
<1>6. \A k \in DOMAIN child : Signalled(field)[k] = IF Sent(k) THEN new(k) ELSE child[k]
  BY <1>1, <1>3
<1>7. ASSUME NEW k \in DOMAIN child
      PROVE  Signalled(field)[k][field] = (child[k][field] \/ Sent(k))
  <2>1. CASE Sent(k)
    BY <2>1, <1>2, <1>6, Zenon
  <2>2. CASE ~Sent(k)
    <3>1. child[k][field] \in BOOLEAN
      BY <1>1 DEF Child
    <3> QED
      BY <2>2, <3>1, <1>6, Zenon
  <2> QED
    BY <2>1, <2>2
<1>8. ASSUME NEW k \in DOMAIN child
      PROVE  /\ Signalled(field)[k].of = child[k].of /\ Signalled(field)[k].status = child[k].status
             /\ Signalled(field)[k].state = child[k].state
             /\ field = "killed" => Signalled(field)[k].termed = child[k].termed
             /\ field = "termed" => Signalled(field)[k].killed = child[k].killed
  BY <1>2, <1>6, Zenon
<1>9. Signalled(field) \in Seq(Child)
  BY <1>1, <1>4
<1> QED
  BY <1>5, <1>7, <1>8, <1>9, Zenon DEF Sent

LEMMA ReapedType ==
    ASSUME TypeOK, NEW k \in DOMAIN child
    PROVE  /\ Reaped(k) \in Seq(Child)
           /\ DOMAIN Reaped(k) = DOMAIN child
           /\ \A j \in DOMAIN child :
                /\ Reaped(k)[j].of = child[j].of
                /\ Reaped(k)[j].status = child[j].status
                /\ Reaped(k)[j].state = IF j = k THEN "reaped" ELSE child[j].state
                /\ Reaped(k)[j].termed = child[j].termed
                /\ Reaped(k)[j].killed = child[j].killed
<1> DEFINE new == [child[k] EXCEPT !.state = "reaped"]
<1>1. Len(child) \in Nat /\ DOMAIN child = 1 .. Len(child) /\ \A j \in DOMAIN child : child[j] \in Child
  BY DEF TypeOK
<1>2. /\ new \in Child /\ new.state = "reaped"
      /\ new.of = child[k].of /\ new.status = child[k].status
      /\ new.termed = child[k].termed /\ new.killed = child[k].killed
  BY <1>1 DEF Child
<1>3. Reaped(k) = [j \in 1 .. Len(child) |-> IF j = k THEN new ELSE child[j]]
  BY <1>1 DEF Reaped
<1> HIDE DEF new
<1>4. Reaped(k) \in [1 .. Len(child) -> Child]
  BY <1>1, <1>2, <1>3
<1>5. DOMAIN Reaped(k) = DOMAIN child
  BY <1>1, <1>3
<1>6. \A j \in DOMAIN child : Reaped(k)[j] = IF j = k THEN new ELSE child[j]
  BY <1>1, <1>3
<1> QED
  BY <1>1, <1>2, <1>4, <1>5, <1>6

Ended(k, status) == [child EXCEPT ![k].state = "zombie", ![k].status = status]

LEMMA EndedType ==
    ASSUME TypeOK, NEW k \in DOMAIN child, NEW status \in {"ok", "crash"}
    PROVE  /\ Ended(k, status) \in Seq(Child)
           /\ DOMAIN Ended(k, status) = DOMAIN child
           /\ \A j \in DOMAIN child :
                /\ Ended(k, status)[j].of = child[j].of
                /\ Ended(k, status)[j].status = IF j = k THEN status ELSE child[j].status
                /\ Ended(k, status)[j].state = IF j = k THEN "zombie" ELSE child[j].state
                /\ Ended(k, status)[j].termed = child[j].termed
                /\ Ended(k, status)[j].killed = child[j].killed
<1> DEFINE new == [child[k] EXCEPT !.state = "zombie", !.status = status]
<1>1. Len(child) \in Nat /\ DOMAIN child = 1 .. Len(child) /\ \A j \in DOMAIN child : child[j] \in Child
  BY DEF TypeOK
<1>2. /\ new \in Child /\ new.state = "zombie" /\ new.status = status
      /\ new.of = child[k].of /\ new.termed = child[k].termed /\ new.killed = child[k].killed
  BY <1>1 DEF Child
<1>3. Ended(k, status) = [j \in 1 .. Len(child) |-> IF j = k THEN new ELSE child[j]]
  BY <1>1 DEF Ended
<1> HIDE DEF new
<1>4. Ended(k, status) \in [1 .. Len(child) -> Child]
  BY <1>1, <1>2, <1>3
<1>5. DOMAIN Ended(k, status) = DOMAIN child
  BY <1>1, <1>3
<1>6. \A j \in DOMAIN child : Ended(k, status)[j] = IF j = k THEN new ELSE child[j]
  BY <1>1, <1>3
<1> QED
  BY <1>1, <1>2, <1>4, <1>5, <1>6

LEMMA ForkedType ==
    ASSUME TypeOK
    PROVE  /\ Append(child, NewChild(cur)) \in Seq(Child)
           /\ Len(child) \in Nat /\ DOMAIN child = 1 .. Len(child)
           /\ DOMAIN Append(child, NewChild(cur)) = 1 .. Len(child) + 1
           /\ Append(child, NewChild(cur))[Len(child) + 1] = NewChild(cur)
           /\ \A k \in DOMAIN child : Append(child, NewChild(cur))[k] = child[k]
<1>1. NewChild(cur) \in Child /\ child \in Seq(Child)
  BY DEF TypeOK, NewChild, Child
<1>2. Append(child, NewChild(cur)) \in Seq(Child) /\ Len(Append(child, NewChild(cur))) = Len(child) + 1
  BY <1>1
<1> QED
  BY <1>1, <1>2

\* A child that waitpid returns is the one its process holds: handleChildExit
\* finds it, drops its pid, and counts it if it crashed.
Dropped(i) == [procs[i] EXCEPT !.pid = 0]
Counted(i) == [pid |-> 0, restartCount |-> procs[i].restartCount, crashCount |-> procs[i].crashCount + 1]

Handled(k, i) ==
    /\ i = child[k].of
    /\ cur' = i
    /\ \/ /\ StopRequested \/ ~IsCrashExit(k)
          /\ procs' = [procs EXCEPT ![i] = Dropped(i)]
          /\ pc' = "handled"
          /\ totalCrashCount_' = totalCrashCount_
       \/ /\ IsCrashExit(k)
          /\ procs' = [procs EXCEPT ![i] = Counted(i)]
          /\ pc' = "decide"
          /\ totalCrashCount_' = totalCrashCount_ + 1

LEMMA HandledFields ==
    ASSUME TypeOK, NEW k \in Zombies, NEW i \in Procs, Handled(k, i)
    PROVE  /\ \A j \in Procs : j # i => procs'[j] = procs[j]
           /\ procs'[i].pid = 0
           /\ procs'[i].restartCount = procs[i].restartCount
           /\ procs'[i].crashCount = procs[i].crashCount + (totalCrashCount_' - totalCrashCount_)
<1>1. DOMAIN procs = Procs /\ procs[i] \in Process /\ totalCrashCount_ \in Nat
  BY DEF TypeOK
<1>2. \/ procs' = [procs EXCEPT ![i] = Dropped(i)] /\ totalCrashCount_' = totalCrashCount_
      \/ procs' = [procs EXCEPT ![i] = Counted(i)] /\ totalCrashCount_' = totalCrashCount_ + 1
  BY DEF Handled
<1>3. /\ Dropped(i).pid = 0 /\ Counted(i).pid = 0
      /\ Dropped(i).restartCount = procs[i].restartCount /\ Counted(i).restartCount = procs[i].restartCount
      /\ Dropped(i).crashCount = procs[i].crashCount /\ Counted(i).crashCount = procs[i].crashCount + 1
  BY <1>1 DEF Dropped, Counted, Process
<1>4. \A j \in Procs : j # i => procs'[j] = procs[j]
  BY <1>1, <1>2
<1>5. \/ procs'[i] = Dropped(i) /\ totalCrashCount_' = totalCrashCount_
      \/ procs'[i] = Counted(i) /\ totalCrashCount_' = totalCrashCount_ + 1
  BY <1>1, <1>2
<1>6. procs[i].crashCount \in Nat
  BY <1>1 DEF Process
<1> QED
  BY <1>1, <1>3, <1>4, <1>5, <1>6

LEMMA ProcessType ==
    ASSUME TypeOK, NEW i \in Procs
    PROVE  Dropped(i) \in Process /\ Counted(i) \in Process
BY DEF TypeOK, Process, Dropped, Counted

LEMMA CountedAtOnce ==
    ASSUME NEW r \in Process
    PROVE  [r EXCEPT !.pid = 0, !.crashCount = @ + 1] =
           [pid |-> 0, restartCount |-> r.restartCount, crashCount |-> r.crashCount + 1]
<1> DEFINE q == [r EXCEPT !.pid = 0]
<1>1. q \in Process /\ q.pid = 0 /\ q.restartCount = r.restartCount /\ q.crashCount = r.crashCount
  BY DEF Process
<1>2. [r EXCEPT !.pid = 0, !.crashCount = @ + 1] = [q EXCEPT !.crashCount = r.crashCount + 1]
  BY DEF Process
<1> HIDE DEF q
<1>3. [q EXCEPT !.crashCount = r.crashCount + 1] =
        [pid |-> q.pid, restartCount |-> q.restartCount, crashCount |-> r.crashCount + 1]
  BY <1>1 DEF Process
<1> QED
  BY <1>1, <1>2, <1>3

LEMMA ChildExitHandled ==
    ASSUME TypeOK, HeldAreChildren, ChildrenHeld, NEW k \in Zombies, HandleChildExit(k)
    PROVE  \E i \in Procs : Handled(k, i)
<1>1. k \in DOMAIN child /\ child[k] \in Child /\ child[k].of \in Procs /\ procs[child[k].of].pid = k
  <2>1. k \in DOMAIN child /\ child[k].state = "zombie"
    BY DEF Zombies
  <2>2. child[k] \in Child
    BY <2>1 DEF TypeOK
  <2> QED
    BY <2>1, <2>2 DEF Child, ChildrenHeld
<1>2. k # 0
  BY <1>1 DEF TypeOK
<1>3. PICK i \in Procs :
        /\ procs[i].pid = k
        /\ cur' = i
        /\ IF StopRequested \/ ~IsCrashExit(k)
           THEN /\ procs' = MarkStopped(i)
                /\ pc' = "handled"
                /\ UNCHANGED totalCrashCount_
           ELSE /\ procs' = [procs EXCEPT ![i].pid = 0, ![i].crashCount = @ + 1]
                /\ totalCrashCount_' = totalCrashCount_ + 1
                /\ pc' = "decide"
  BY <1>1 DEF HandleChildExit
<1>4. i = child[k].of
  BY <1>1, <1>2, <1>3 DEF HeldAreChildren
<1>5. /\ MarkStopped(i) = [procs EXCEPT ![i] = Dropped(i)]
      /\ [procs EXCEPT ![i].pid = 0, ![i].crashCount = @ + 1] = [procs EXCEPT ![i] = Counted(i)]
  <2>1. DOMAIN procs = Procs /\ procs[i] \in Process
    BY DEF TypeOK
  <2>2. [procs[i] EXCEPT !.pid = 0, !.crashCount = @ + 1] = Counted(i)
    BY <2>1, CountedAtOnce DEF Counted
  <2>3. [procs EXCEPT ![i].pid = 0, ![i].crashCount = @ + 1] =
            [procs EXCEPT ![i] = [procs[i] EXCEPT !.pid = 0, !.crashCount = @ + 1]]
    BY <2>1
  <2> QED
    BY <2>1, <2>2, <2>3 DEF MarkStopped, Dropped
<1> QED
  BY <1>3, <1>4, <1>5 DEF Handled

-----------------------------------------------------------------------------
(* Types                                                                   *)

LEMMA StepType == TypeOK /\ DelayInv /\ HeldAreChildren /\ ChildrenHeld /\ [Next]_vars => TypeOK' /\ DelayInv'
<1> SUFFICES ASSUME TypeOK, DelayInv, HeldAreChildren, ChildrenHeld, [Next]_vars
             PROVE  TypeOK' /\ DelayInv'
  OBVIOUS
<1>1. CASE ResetRuntimeState
  BY <1>1, Constants, DaemonAssumption DEF ResetRuntimeState, Fresh, Process, flags, DaemonAssumption, TypeOK, PC, DelayInv
<1>2. CASE SetupDone
  BY <1>2, Constants, DaemonAssumption DEF SetupDone, flags, DaemonAssumption, TypeOK, PC, DelayInv
<1>3. CASE SetupFails
  BY <1>3, Constants, DaemonAssumption DEF SetupFails, Fault, flags, DaemonAssumption, TypeOK, PC, DelayInv
<1>4. CASE StartRefused
  BY <1>4, Constants, DaemonAssumption DEF StartRefused, NotStarted, flags, DaemonAssumption, TypeOK, PC, DelayInv
<1>5. CASE StartAllowed
  BY <1>5, Constants, DaemonAssumption DEF StartAllowed, flags, DaemonAssumption, TypeOK, PC, DelayInv
<1>6. CASE StartFails
  BY <1>6, Constants, DaemonAssumption DEF StartFails, Fault, NotStarted, flags, DaemonAssumption, TypeOK, PC, DelayInv
<1>7. CASE StartForks
  <2>1. child' \in Seq(Child) /\ Len(child) + 1 \in Nat
    BY <1>7, ForkedType DEF StartForks
  <2>2. procs' \in [Procs -> Process]
    <3>1. cur \in Procs /\ [procs[cur] EXCEPT !.pid = Len(child) + 1] \in Process
      BY <2>1 DEF TypeOK, Process
    <3>2. procs' = [procs EXCEPT ![cur] = [procs[cur] EXCEPT !.pid = Len(child) + 1]]
      BY <1>7 DEF StartForks
    <3> QED
      BY <3>1, <3>2 DEF TypeOK
  <2>3. cur' \in Procs /\ pc' \in PC /\ pc' # "delay"
    BY <1>7, Constants DEF StartForks, TypeOK, PC
  <2>4. running_' \in BOOLEAN
    BY <1>7, Zenon DEF StartForks
  <2> QED
    BY <1>7, <2>1, <2>2, <2>3, <2>4 DEF StartForks, flags, TypeOK, DelayInv
<1>8. CASE HandleStopSignal
  BY <1>8, Constants, DaemonAssumption DEF HandleStopSignal, StopRequested, flags, DaemonAssumption, TypeOK, PC, DelayInv
<1>9. CASE ReapChild
  <2>1. PICK k \in Zombies : child' = Reaped(k) /\ HandleChildExit(k)
    BY <1>9 DEF ReapChild
  <2>2. child' \in Seq(Child)
    BY <2>1, ReapedType DEF Zombies
  <2>3. PICK i \in Procs : Handled(k, i)
    BY <2>1, ChildExitHandled
  <2>4. procs' \in [Procs -> Process] /\ cur' \in Procs /\ totalCrashCount_' \in Nat /\ pc' \in {"handled", "decide"}
    BY <2>3, ProcessType DEF Handled, TypeOK
  <2> QED
    BY <1>9, <2>2, <2>4 DEF ReapChild, flags, TypeOK, PC, DelayInv
<1>10. CASE Decide
  <2>1. [procs EXCEPT ![cur].restartCount = @ + 1] \in [Procs -> Process]
    <3>1. cur \in Procs /\ [procs[cur] EXCEPT !.restartCount = @ + 1] \in Process
      BY DEF TypeOK, Process
    <3> QED
      BY <3>1 DEF TypeOK
  <2> QED
    BY <1>10, <2>1 DEF Decide, flags, TypeOK, PC, DelayInv
<1>11. CASE RestartBegins
  BY <1>11, Constants, DaemonAssumption DEF RestartBegins, flags, DaemonAssumption, TypeOK, PC, DelayInv
<1>12. CASE DelayTurn
  BY <1>12, Constants, DaemonAssumption DEF DelayTurn, flags, DaemonAssumption, TypeOK, PC, DelayInv
<1>13. CASE NoneExited
  BY <1>13, Constants, DaemonAssumption DEF NoneExited, flags, DaemonAssumption, TypeOK, PC, DelayInv
<1>14. CASE Scan
  BY <1>14, ScanDropsNothing DEF Scan, flags, TypeOK, PC, DelayInv
<1>15. CASE TermAll
  BY <1>15, SignalledType DEF TermAll, TypeOK, PC, DelayInv
<1>16. CASE AwaitTurn
  BY <1>16, Constants, DaemonAssumption DEF AwaitTurn, flags, DaemonAssumption, TypeOK, PC, DelayInv
<1>17. CASE DrainReaps
  <2>1. PICK k \in Zombies : /\ child' = Reaped(k)
                            /\ procs' = [i \in Procs |-> [procs[i] EXCEPT !.pid = IF @ = k THEN 0 ELSE @]]
    BY <1>17 DEF DrainReaps
  <2>2. child' \in Seq(Child)
    BY <2>1, ReapedType DEF Zombies
  <2>3. procs' \in [Procs -> Process]
    BY <2>1 DEF TypeOK, Process
  <2> QED
    BY <1>17, <2>2, <2>3 DEF DrainReaps, flags, TypeOK, DelayInv
<1>18. CASE DrainScans
  BY <1>18, ScanDropsNothing DEF DrainScans, StopReturns, flags, TypeOK, PC, DelayInv
<1>19. CASE TermDeadline
  BY <1>19, Constants, DaemonAssumption DEF TermDeadline, flags, DaemonAssumption, TypeOK, PC, DelayInv
<1>20. CASE KillAll
  BY <1>20, SignalledType DEF KillAll, flags, TypeOK, PC, DelayInv
<1>21. CASE KillDeadline
  BY <1>21, Constants, DaemonAssumption DEF KillDeadline, StopReturns, flags, DaemonAssumption, TypeOK, PC, DelayInv
<1>22. CASE Destroy
  BY <1>22, Constants, DaemonAssumption DEF Destroy, flags, DaemonAssumption, TypeOK, PC, DelayInv
<1>23. CASE ChildExits
  <2>1. PICK k \in DOMAIN child, status \in {"ok", "crash"} : child' = Ended(k, status)
    BY <1>23 DEF ChildExits, Ended
  <2>2. child' \in Seq(Child)
    BY <2>1, EndedType
  <2> QED
    BY <1>23, <2>2 DEF ChildExits, flags, TypeOK, DelayInv
<1>24. CASE SignalHandler
  BY <1>24, Constants, DaemonAssumption DEF SignalHandler, flags, DaemonAssumption, TypeOK, PC, DelayInv
<1>25. CASE StopBegins
  BY <1>25, Constants, DaemonAssumption DEF StopBegins, flags, DaemonAssumption, TypeOK, PC, DelayInv
<1>26. CASE StopEnds
  BY <1>26, Constants, DaemonAssumption DEF StopEnds, flags, DaemonAssumption, TypeOK, PC, DelayInv
<1>27. CASE Exited
  BY <1>27, Constants, DaemonAssumption DEF Exited, vars, flags, DaemonAssumption, TypeOK, PC, DelayInv
<1>28. CASE UNCHANGED vars
  BY <1>28 DEF vars, flags, DaemonAssumption, TypeOK, PC, DelayInv
<1> QED
  BY <1>1, <1>2, <1>3, <1>4, <1>5, <1>6, <1>7, <1>8, <1>9, <1>10, <1>11, <1>12, <1>13, <1>14, <1>15, <1>16, <1>17, <1>18, <1>19, <1>20, <1>21, <1>22, <1>23, <1>24, <1>25, <1>26, <1>27, <1>28 DEF Next, Main
-----------------------------------------------------------------------------
(* Children and pids                                                       *)

\* A step that reaps no child and touches no pid.
LEMMA ChildrenUntouched ==
    ASSUME ChildInv, DOMAIN child' = DOMAIN child,
           \A i \in Procs : procs'[i].pid = procs[i].pid,
           \A k \in DOMAIN child :
                /\ child'[k].of = child[k].of
                /\ child'[k].state = "reaped" <=> child[k].state = "reaped"
                /\ child[k].state = "reaped" => child'[k].status = child[k].status,
           \A k \in DOMAIN child : child[k].of \in Procs
    PROVE  HeldAreChildren' /\ ChildrenHeld' /\ RestartAfterCrash'
<1>1. HeldAreChildren'
  BY DEF ChildInv, HeldAreChildren
<1>2. ChildrenHeld'
  BY DEF ChildInv, ChildrenHeld
<1>3. RestartAfterCrash'
  BY DEF ChildInv, RestartAfterCrash
<1> QED
  BY <1>1, <1>2, <1>3

LEMMA StepChild == TypeOK /\ ChildInv /\ [Next]_vars => ChildInv'
<1> SUFFICES ASSUME TypeOK, ChildInv, [Next]_vars
             PROVE  ChildInv'
  OBVIOUS
<1>a. Len(child) \in Nat /\ DOMAIN child = 1 .. Len(child) /\ \A k \in DOMAIN child : child[k] \in Child /\ child[k].of \in Procs
  <2>1. child \in Seq(Child)
    BY DEF TypeOK
  <2>2. \A k \in DOMAIN child : child[k] \in Child
    BY <2>1
  <2> QED
    BY <2>1, <2>2 DEF Child
<1>b. child' = child /\ procs' = procs => HeldAreChildren' /\ ChildrenHeld' /\ RestartAfterCrash'
  BY <1>a, ChildrenUntouched
<1>1. CASE ResetRuntimeState
  <2>1. child = <<>> /\ child' = <<>> /\ pc' = "setup" /\ \A i \in Procs : procs'[i].pid = 0
    BY <1>1 DEF ResetRuntimeState, ChildInv, StartAllowedInv, Fresh
  <2> QED
    BY <2>1 DEF ChildInv, HeldAreChildren, ChildrenHeld, RestartAfterCrash, StartAllowedInv, StartCalls, ProcessCalls
<1>2. CASE SetupDone
  BY <1>2, <1>b DEF SetupDone, flags, ChildInv, StartAllowedInv, StartCalls, ProcessCalls
<1>3. CASE SetupFails
  BY <1>3, <1>b DEF SetupFails, flags, ChildInv, StartAllowedInv, StartCalls, ProcessCalls, Fault
<1>4. CASE StartRefused
  BY <1>4, <1>b DEF StartRefused, flags, ChildInv, StartAllowedInv, StartCalls, ProcessCalls, NotStarted
<1>5. CASE StartAllowed
  BY <1>5, <1>b DEF StartAllowed, flags, ChildInv, StartAllowedInv, StartCalls, ProcessCalls
<1>6. CASE StartFails
  BY <1>6, <1>b DEF StartFails, flags, ChildInv, StartAllowedInv, StartCalls, ProcessCalls, Fault, NotStarted
<1>7. CASE StartForks
  <2> DEFINE n == Len(child) + 1
  <2>1. /\ DOMAIN child' = 1 .. n /\ child'[n] = NewChild(cur)
        /\ \A k \in DOMAIN child : child'[k] = child[k]
    BY <1>7, ForkedType DEF StartForks
  <2>2. /\ cur \in Procs
        /\ \A i \in Procs : procs'[i].pid = IF i = cur THEN n ELSE procs[i].pid
    BY <1>7 DEF StartForks, TypeOK, Process
  <2>3. \A k \in DOMAIN child : child[k].of = cur => child[k].state = "reaped" /\ child[k].status = "crash"
    BY <1>7, <1>a, Constants DEF StartForks, TypeOK, ChildInv, StartAllowedInv, StartCalls, ProcessCalls
  <2>4. n \notin DOMAIN child /\ DOMAIN child' = DOMAIN child \cup {n} /\ \A k \in DOMAIN child : k < n
    BY <2>1, <1>a
  <2>5. NewChild(cur).of = cur /\ NewChild(cur).state = "running"
    BY DEF NewChild
  <2> HIDE DEF n
  <2>6. HeldAreChildren'
    <3> SUFFICES ASSUME NEW i \in Procs, procs'[i].pid # 0
                 PROVE  /\ procs'[i].pid \in DOMAIN child' /\ child'[procs'[i].pid].of = i
                        /\ child'[procs'[i].pid].state # "reaped"
      BY DEF HeldAreChildren
    <3>1. CASE i = cur
      <4>1. procs'[i].pid = n
        BY <3>1, <2>2
      <4>2. n \in DOMAIN child' /\ child'[n].of = i /\ child'[n].state = "running"
        BY <3>1, <2>1, <2>4, <2>5
      <4> QED
        BY <4>1, <4>2
    <3>2. CASE i # cur
      <4>1. procs'[i].pid = procs[i].pid
        BY <3>2, <2>2
      <4>2. /\ procs[i].pid \in DOMAIN child /\ child[procs[i].pid].of = i
            /\ child[procs[i].pid].state # "reaped"
        BY <4>1 DEF ChildInv, HeldAreChildren
      <4> QED
        BY <4>1, <4>2, <2>1, <2>4
    <3> QED
      BY <3>1, <3>2
  <2>7. ChildrenHeld'
    <3> SUFFICES ASSUME NEW k \in DOMAIN child', child'[k].state # "reaped"
                 PROVE  procs'[child'[k].of].pid = k
      BY DEF ChildrenHeld
    <3>1. CASE k = n
      BY <3>1, <2>1, <2>2, <2>5
    <3>2. CASE k # n
      <4>1. k \in DOMAIN child /\ child'[k] = child[k]
        BY <3>2, <2>1, <2>4
      <4>2. procs[child[k].of].pid = k /\ child[k].of # cur
        BY <4>1, <2>3 DEF ChildInv, ChildrenHeld
      <4>3. child[k].of \in Procs
        BY <4>1, <1>a
      <4> QED
        BY <4>1, <4>2, <4>3, <2>2
    <3> QED
      BY <3>1, <3>2
  <2>8. RestartAfterCrash'
    <3> SUFFICES ASSUME NEW j \in DOMAIN child', NEW k \in DOMAIN child', j < k, child'[j].of = child'[k].of
                 PROVE  child'[j].state = "reaped" /\ child'[j].status = "crash"
      BY DEF RestartAfterCrash
    <3>1. j \in DOMAIN child /\ child'[j] = child[j]
      <4>1. j # n
        BY <2>1, <1>a DEF n
      <4> QED
        BY <4>1, <2>1, <2>4
    <3>2. CASE k = n
      BY <3>1, <3>2, <2>1, <2>3, <2>5
    <3>3. CASE k # n
      BY <3>1, <3>3, <2>1, <2>4 DEF ChildInv, RestartAfterCrash
    <3> QED
      BY <3>2, <3>3
  <2>9. StartAllowedInv'
    <3>1. CASE pc' = "startAll"
      <4>1. pc = "forkAll" /\ cur' = cur + 1
        BY <1>7, <3>1 DEF StartForks
      <4>2. \A k \in DOMAIN child : child[k].of < cur
        BY <4>1 DEF ChildInv, StartAllowedInv, StartCalls
      <4>3. \A k \in DOMAIN child' : child'[k].of < cur'
        <5> SUFFICES ASSUME NEW k \in DOMAIN child'
                     PROVE  child'[k].of < cur'
          OBVIOUS
        <5>1. CASE k = n
          BY <5>1, <2>1, <2>2, <2>5, <4>1, Constants
        <5>2. CASE k \in DOMAIN child
          <6>1. child'[k].of = child[k].of /\ child[k].of < cur
            BY <5>2, <2>1, <4>2
          <6>2. child[k].of \in Nat /\ cur \in Nat
            BY <5>2, <2>2, <1>a, Constants
          <6> QED
            BY <6>1, <6>2, <4>1
        <5> QED
          BY <5>1, <5>2, <2>4
      <4> QED
        BY <3>1, <4>3 DEF StartAllowedInv, StartCalls, ProcessCalls
    <3>2. CASE pc' # "startAll"
      BY <1>7, <3>2 DEF StartForks, StartAllowedInv, StartCalls, ProcessCalls
    <3> QED
      BY <3>1, <3>2
  <2> QED
    BY <2>6, <2>7, <2>8, <2>9 DEF ChildInv
<1>8. CASE HandleStopSignal
  BY <1>8, <1>b DEF HandleStopSignal, flags, ChildInv, StartAllowedInv, StartCalls, ProcessCalls
<1>9. CASE ReapChild
  <2>1. PICK k \in Zombies : child' = Reaped(k) /\ HandleChildExit(k)
    BY <1>9 DEF ReapChild
  <2>2. PICK i \in Procs : Handled(k, i)
    BY <2>1, ChildExitHandled DEF ChildInv
  <2>3. k \in DOMAIN child /\ child[k].state = "zombie" /\ child[k].of = i /\ procs[i].pid = k
    BY <2>2, <1>a DEF Zombies, ChildInv, ChildrenHeld, Handled
  <2>4. /\ DOMAIN child' = DOMAIN child
        /\ \A j \in DOMAIN child :
            /\ child'[j].of = child[j].of
            /\ child'[j].status = child[j].status
            /\ child'[j].state = IF j = k THEN "reaped" ELSE child[j].state
    BY <2>1, <2>3, ReapedType
  <2>5. \A j \in Procs : procs'[j].pid = IF j = i THEN 0 ELSE procs[j].pid
    BY <2>2, HandledFields
  <2>6. HeldAreChildren'
    BY <2>3, <2>4, <2>5 DEF ChildInv, HeldAreChildren
  <2>7. ChildrenHeld'
    BY <2>3, <2>4, <2>5, <1>a DEF ChildInv, ChildrenHeld
  <2>8. RestartAfterCrash'
    BY <2>4 DEF ChildInv, RestartAfterCrash
  <2>9. StartAllowedInv'
    <3>1. CASE pc' = "decide"
      <4>1. child[k].status = "crash" /\ cur' = i
        BY <2>2, <3>1 DEF Handled, IsCrashExit
      <4>2. \A j \in DOMAIN child : child[j].of = i /\ j # k => child[j].state = "reaped" /\ child[j].status = "crash"
        <5> SUFFICES ASSUME NEW j \in DOMAIN child, child[j].of = i, j # k
                     PROVE  child[j].state = "reaped" /\ child[j].status = "crash"
          OBVIOUS
        <5>1. j < k \/ k < j
          BY <2>3, <1>a
        <5> QED
          BY <5>1, <2>3 DEF ChildInv, RestartAfterCrash
      <4> QED
        BY <3>1, <4>1, <4>2, <2>3, <2>4 DEF StartAllowedInv, StartCalls, ProcessCalls
    <3>2. CASE pc' = "handled"
      BY <3>2 DEF StartAllowedInv, StartCalls, ProcessCalls
    <3> QED
      BY <2>2, <3>1, <3>2 DEF Handled
  <2> QED
    BY <2>6, <2>7, <2>8, <2>9 DEF ChildInv
<1>10. CASE Decide
  <2>1. \A i \in Procs : procs'[i].pid = procs[i].pid
    <3>1. procs' = procs \/ procs' = [procs EXCEPT ![cur].restartCount = @ + 1]
      BY <1>10 DEF Decide
    <3> QED
      BY <3>1 DEF TypeOK, Process
  <2>2. HeldAreChildren' /\ ChildrenHeld' /\ RestartAfterCrash'
    BY <1>10, <2>1, <1>a, ChildrenUntouched DEF Decide
  <2> QED
    BY <1>10, <2>2 DEF Decide, ChildInv, StartAllowedInv, StartCalls, ProcessCalls
<1>11. CASE RestartBegins
  BY <1>11, <1>b DEF RestartBegins, flags, ChildInv, StartAllowedInv, StartCalls, ProcessCalls
<1>12. CASE DelayTurn
  BY <1>12, <1>b DEF DelayTurn, flags, ChildInv, StartAllowedInv, StartCalls, ProcessCalls
<1>13. CASE NoneExited
  BY <1>13, <1>b DEF NoneExited, flags, ChildInv, StartAllowedInv, StartCalls, ProcessCalls
<1>14. CASE Scan
  <2>1. procs' = procs
    BY <1>14, ScanDropsNothing DEF Scan, ChildInv
  <2> QED
    BY <1>14, <2>1, <1>b DEF Scan, ChildInv, StartAllowedInv, StartCalls, ProcessCalls
<1>15. CASE TermAll
  <2>1. /\ child' = Signalled("termed") /\ procs' = procs
        /\ pc' \notin {"run", "setup"} \cup StartCalls \cup ProcessCalls
    BY <1>15 DEF TermAll, StartCalls, ProcessCalls
  <2>2. /\ DOMAIN child' = DOMAIN child
        /\ \A k \in DOMAIN child :
            /\ child'[k].of = child[k].of
            /\ child'[k].state = child[k].state
            /\ child'[k].status = child[k].status
    BY <2>1, SignalledType
  <2>3. HeldAreChildren' /\ ChildrenHeld' /\ RestartAfterCrash'
    BY <2>1, <2>2, <1>a, ChildrenUntouched
  <2> QED
    BY <2>1, <2>3 DEF ChildInv, StartAllowedInv
<1>16. CASE AwaitTurn
  BY <1>16, <1>b DEF AwaitTurn, flags, ChildInv, StartAllowedInv, StartCalls, ProcessCalls
<1>17. CASE DrainReaps
  <2>1. PICK k \in Zombies :
            /\ child' = Reaped(k)
            /\ procs' = [i \in Procs |-> [procs[i] EXCEPT !.pid = IF procs[i].pid = k THEN 0 ELSE procs[i].pid]]
    BY <1>17 DEF DrainReaps
  <2>2. k \in DOMAIN child /\ child[k].state = "zombie" /\ k # 0
    BY <1>a DEF Zombies
  <2>3. /\ DOMAIN child' = DOMAIN child
        /\ \A j \in DOMAIN child :
            /\ child'[j].of = child[j].of
            /\ child'[j].status = child[j].status
            /\ child'[j].state = IF j = k THEN "reaped" ELSE child[j].state
    BY <2>1, <2>2, ReapedType
  <2>4. \A j \in Procs : procs'[j].pid = IF procs[j].pid = k THEN 0 ELSE procs[j].pid
    BY <2>1 DEF TypeOK, Process
  <2>5. HeldAreChildren'
    BY <2>2, <2>3, <2>4 DEF ChildInv, HeldAreChildren
  <2>6. ChildrenHeld'
    BY <2>2, <2>3, <2>4, <1>a DEF ChildInv, ChildrenHeld
  <2>7. RestartAfterCrash'
    BY <2>3 DEF ChildInv, RestartAfterCrash
  <2>8. StartAllowedInv'
    BY <1>17 DEF DrainReaps, StartAllowedInv, StartCalls, ProcessCalls
  <2> QED
    BY <2>5, <2>6, <2>7, <2>8 DEF ChildInv
<1>18. CASE DrainScans
  <2>1. procs' = procs
    BY <1>18, ScanDropsNothing DEF DrainScans, ChildInv
  <2> QED
    BY <1>18, <2>1, <1>b DEF DrainScans, StopReturns, ChildInv, StartAllowedInv, StartCalls, ProcessCalls
<1>19. CASE TermDeadline
  BY <1>19, <1>b DEF TermDeadline, flags, ChildInv, StartAllowedInv, StartCalls, ProcessCalls
<1>20. CASE KillAll
  <2>1. /\ child' = Signalled("killed") /\ procs' = procs
        /\ pc' \notin {"run", "setup"} \cup StartCalls \cup ProcessCalls
    BY <1>20 DEF KillAll, StartCalls, ProcessCalls
  <2>2. /\ DOMAIN child' = DOMAIN child
        /\ \A k \in DOMAIN child :
            /\ child'[k].of = child[k].of
            /\ child'[k].state = child[k].state
            /\ child'[k].status = child[k].status
    BY <2>1, SignalledType
  <2>3. HeldAreChildren' /\ ChildrenHeld' /\ RestartAfterCrash'
    BY <2>1, <2>2, <1>a, ChildrenUntouched
  <2> QED
    BY <2>1, <2>3 DEF ChildInv, StartAllowedInv
<1>21. CASE KillDeadline
  BY <1>21, <1>b DEF KillDeadline, flags, ChildInv, StartAllowedInv, StartCalls, ProcessCalls, StopReturns
<1>22. CASE Destroy
  BY <1>22, <1>b DEF Destroy, flags, ChildInv, StartAllowedInv, StartCalls, ProcessCalls
<1>23. CASE ChildExits
  <2>1. PICK k \in DOMAIN child, status \in {"ok", "crash"} :
            child[k].state = "running" /\ child' = Ended(k, status)
    BY <1>23 DEF ChildExits, Ended
  <2>2. procs' = procs /\ pc' = pc /\ cur' = cur
    BY <1>23 DEF ChildExits
  <2>3. /\ DOMAIN child' = DOMAIN child
        /\ \A j \in DOMAIN child :
            /\ child'[j].of = child[j].of
            /\ child'[j].state = IF j = k THEN "zombie" ELSE child[j].state
            /\ j # k => child'[j].status = child[j].status
    BY <2>1, EndedType
  <2>4. HeldAreChildren' /\ ChildrenHeld' /\ RestartAfterCrash'
    BY <2>1, <2>2, <2>3, <1>a, ChildrenUntouched
  <2>5. child # <<>>
    BY <2>1
  <2>6. StartAllowedInv'
    BY <2>1, <2>2, <2>3, <2>5 DEF ChildInv, StartAllowedInv
  <2> QED
    BY <2>4, <2>6 DEF ChildInv
<1>24. CASE SignalHandler
  BY <1>24, <1>b DEF SignalHandler, flags, ChildInv, StartAllowedInv, StartCalls, ProcessCalls
<1>25. CASE StopBegins
  BY <1>25, <1>b DEF StopBegins, flags, ChildInv, StartAllowedInv, StartCalls, ProcessCalls
<1>26. CASE StopEnds
  BY <1>26, <1>b DEF StopEnds, flags, ChildInv, StartAllowedInv, StartCalls, ProcessCalls
<1>27. CASE Exited
  BY <1>27, <1>b DEF Exited, flags, ChildInv, StartAllowedInv, StartCalls, ProcessCalls, vars
<1>28. CASE UNCHANGED vars
  BY <1>28, <1>b DEF vars, ChildInv, StartAllowedInv
<1> QED
  BY <1>1, <1>2, <1>3, <1>4, <1>5, <1>6, <1>7, <1>8, <1>9, <1>10, <1>11, <1>12, <1>13, <1>14, <1>15, <1>16, <1>17, <1>18, <1>19, <1>20, <1>21, <1>22, <1>23, <1>24, <1>25, <1>26, <1>27, <1>28 DEF Next, Main

-----------------------------------------------------------------------------
(* Counters and limits                                                     *)

LEMMA StepCounters ==
    TypeOK /\ ChildInv /\ CountersInv /\ CrashLimitInv /\ [Next]_vars => CountersInv' /\ CrashLimitInv'
<1> SUFFICES ASSUME TypeOK, ChildInv, CountersInv, CrashLimitInv, [Next]_vars
             PROVE  CountersInv' /\ CrashLimitInv'
  OBVIOUS
<1> USE DEF CountersInv, CrashLimitInv, StartCalls, RestartCalls
<1>1. CASE ResetRuntimeState
  BY <1>1, Constants DEF ResetRuntimeState, Fresh
<1>2. CASE SetupDone
  BY <1>2 DEF SetupDone, flags
<1>3. CASE SetupFails
  BY <1>3 DEF SetupFails, flags, Fault
<1>4. CASE StartRefused
  BY <1>4 DEF StartRefused, flags, NotStarted
<1>5. CASE StartAllowed
  BY <1>5 DEF StartAllowed, flags
<1>6. CASE StartFails
  BY <1>6 DEF StartFails, flags, Fault, NotStarted
<1>7. CASE StartForks
  <2>1. \A i \in Procs : procs'[i].restartCount = procs[i].restartCount /\ procs'[i].crashCount = procs[i].crashCount
    BY <1>7 DEF StartForks, TypeOK, Process
  <2> QED
    BY <1>7, <2>1 DEF StartForks
<1>8. CASE HandleStopSignal
  BY <1>8 DEF HandleStopSignal, flags
<1>9. CASE ReapChild
  <2>1. PICK k \in Zombies : HandleChildExit(k)
    BY <1>9 DEF ReapChild
  <2>2. PICK i \in Procs : Handled(k, i)
    BY <2>1, ChildExitHandled DEF ChildInv
  <2>3. \A j \in Procs : procs[j] \in Process
    BY DEF TypeOK
  <2>4. /\ cur' = i
        /\ \A j \in Procs : j # i => procs'[j] = procs[j]
    BY <2>2 DEF Handled, TypeOK
  <2>5. CASE pc' = "handled"
    <3>1. procs'[i].restartCount = procs[i].restartCount /\ procs'[i].crashCount = procs[i].crashCount
      BY <2>2, <2>5, <2>3 DEF Handled, Dropped, TypeOK, Process
    <3> QED
      BY <2>4, <2>5, <3>1
  <2>6. CASE pc' = "decide"
    <3>1. procs'[i].restartCount = procs[i].restartCount /\ procs'[i].crashCount = procs[i].crashCount + 1
      BY <2>2, <2>6 DEF Handled, Counted, TypeOK
    <3>2. procs[i].restartCount \in Nat /\ procs[i].crashCount \in Nat
      BY <2>3 DEF Process
    <3> QED
      BY <2>4, <2>6, <3>1, <3>2
  <2> QED
    BY <2>2, <2>5, <2>6 DEF Handled
<1>10. CASE Decide
  <2>1. cur' = cur /\ cur \in Procs /\ procs[cur] \in Process /\ totalCrashCount_' = totalCrashCount_
    BY <1>10 DEF Decide, TypeOK
  <2>2. CASE ShouldRestart(cur)
    <3>1. \A i \in Procs :
            /\ procs'[i].restartCount = IF i = cur THEN procs[i].restartCount + 1 ELSE procs[i].restartCount
            /\ procs'[i].crashCount = procs[i].crashCount
      BY <1>10, <2>2 DEF Decide, TypeOK, Process
    <3>2. /\ pc = "decide" /\ pc' = "restart"
          /\ procs[cur].restartCount < MaxRestartCount /\ totalCrashCount_ < MaxCrashCount
      BY <1>10, <2>2 DEF Decide, ShouldRestart
    <3> QED
      BY <2>1, <3>1, <3>2, Constants DEF Process
  <2>3. CASE ~ShouldRestart(cur)
    BY <1>10, <2>3 DEF Decide
  <2> QED
    BY <2>2, <2>3
<1>11. CASE RestartBegins
  BY <1>11 DEF RestartBegins, flags
<1>12. CASE DelayTurn
  BY <1>12 DEF DelayTurn, flags
<1>13. CASE NoneExited
  BY <1>13 DEF NoneExited, flags
<1>14. CASE Scan
  BY <1>14, ScanDropsNothing DEF Scan, ChildInv
<1>15. CASE TermAll
  BY <1>15 DEF TermAll, flags
<1>16. CASE AwaitTurn
  BY <1>16 DEF AwaitTurn, flags
<1>17. CASE DrainReaps
  <2>1. PICK k \in Zombies :
            procs' = [i \in Procs |-> [procs[i] EXCEPT !.pid = IF procs[i].pid = k THEN 0 ELSE procs[i].pid]]
    BY <1>17 DEF DrainReaps
  <2>2. \A i \in Procs : procs'[i].restartCount = procs[i].restartCount /\ procs'[i].crashCount = procs[i].crashCount
    BY <2>1 DEF TypeOK, Process
  <2> QED
    BY <1>17, <2>2 DEF DrainReaps
<1>18. CASE DrainScans
  BY <1>18, ScanDropsNothing DEF DrainScans, StopReturns, ChildInv
<1>19. CASE TermDeadline
  BY <1>19 DEF TermDeadline, flags
<1>20. CASE KillAll
  BY <1>20 DEF KillAll, flags
<1>21. CASE KillDeadline
  BY <1>21 DEF KillDeadline, flags, StopReturns
<1>22. CASE Destroy
  BY <1>22 DEF Destroy, flags
<1>23. CASE ChildExits
  BY <1>23 DEF ChildExits, flags
<1>24. CASE SignalHandler
  BY <1>24 DEF SignalHandler, flags
<1>25. CASE StopBegins
  BY <1>25 DEF StopBegins, flags
<1>26. CASE StopEnds
  BY <1>26 DEF StopEnds, flags
<1>27. CASE Exited
  BY <1>27 DEF Exited, flags, vars
<1>28. CASE UNCHANGED vars
  BY <1>28 DEF vars
<1> QED
  BY <1>1, <1>2, <1>3, <1>4, <1>5, <1>6, <1>7, <1>8, <1>9, <1>10, <1>11, <1>12, <1>13, <1>14, <1>15, <1>16, <1>17, <1>18, <1>19, <1>20, <1>21, <1>22, <1>23, <1>24, <1>25, <1>26, <1>27, <1>28 DEF Next, Main

-----------------------------------------------------------------------------
(* Signals                                                                 *)

\* Every child that runs is held, so a signal to all held processes reaches it.
LEMMA RunningIsHeld ==
    ASSUME TypeOK, ChildInv, NEW k \in DOMAIN child, child[k].state = "running"
    PROVE  \E i \in Held : procs[i].pid = k /\ IsProcessRunning(procs[i].pid)
<1>1. k \in Nat \ {0} /\ child[k] \in Child
  BY DEF TypeOK
<1>2. child[k].of \in Procs /\ procs[child[k].of].pid = k
  BY <1>1 DEF ChildInv, ChildrenHeld, Child
<1> QED
  BY <1>1, <1>2 DEF Held, IsProcessRunning

LEMMA StepSignals == TypeOK /\ ChildInv /\ SignalsInv /\ [Next]_vars => SignalsInv'
<1> SUFFICES ASSUME TypeOK, ChildInv, SignalsInv, [Next]_vars
             PROVE  SignalsInv'
  OBVIOUS
<1> USE DEF SignalsInv, TermBeforeKill
<1>1. CASE ResetRuntimeState
  BY <1>1 DEF ResetRuntimeState, flags
<1>2. CASE SetupDone
  BY <1>2 DEF SetupDone, flags
<1>3. CASE SetupFails
  BY <1>3 DEF SetupFails, flags, Fault, ChildInv, StartAllowedInv
<1>4. CASE StartRefused
  BY <1>4 DEF StartRefused, flags, NotStarted
<1>5. CASE StartAllowed
  BY <1>5 DEF StartAllowed, flags
<1>6. CASE StartFails
  BY <1>6 DEF StartFails, flags, Fault, NotStarted
<1>7. CASE StartForks
  <2>1. /\ DOMAIN child' = DOMAIN child \cup {Len(child) + 1} /\ child'[Len(child) + 1] = NewChild(cur)
        /\ \A k \in DOMAIN child : child'[k] = child[k]
    BY <1>7, ForkedType DEF StartForks
  <2>2. NewChild(cur).killed = FALSE
    BY DEF NewChild
  <2>3. pc' \in {"handled", "startAll", "monitor"}
    BY <1>7 DEF StartForks
  <2> QED
    BY <2>1, <2>2, <2>3
<1>8. CASE HandleStopSignal
  BY <1>8 DEF HandleStopSignal, flags
<1>9. CASE ReapChild
  <2>1. PICK k \in Zombies : child' = Reaped(k) /\ HandleChildExit(k)
    BY <1>9 DEF ReapChild
  <2>2. pc' \in {"handled", "decide"}
    BY <2>1, ChildExitHandled DEF ChildInv, Handled
  <2>3. DOMAIN child' = DOMAIN child /\ \A j \in DOMAIN child : child'[j].termed = child[j].termed /\ child'[j].killed = child[j].killed
    BY <2>1, ReapedType DEF Zombies
  <2> QED
    BY <2>2, <2>3
<1>10. CASE Decide
  BY <1>10 DEF Decide, flags
<1>11. CASE RestartBegins
  BY <1>11 DEF RestartBegins, flags
<1>12. CASE DelayTurn
  BY <1>12 DEF DelayTurn, flags
<1>13. CASE NoneExited
  BY <1>13 DEF NoneExited, flags
<1>14. CASE Scan
  BY <1>14 DEF Scan
<1>15. CASE TermAll
  <2>1. child' = Signalled("termed") /\ pc' = "await"
    BY <1>15 DEF TermAll
  <2>2. /\ DOMAIN child' = DOMAIN child
        /\ \A k \in DOMAIN child :
            /\ child'[k].state = child[k].state /\ child'[k].killed = child[k].killed
            /\ child'[k].termed = child[k].termed \/ child'[k].termed
            /\ child[k].state = "running" => child'[k].termed
    <3>1. /\ DOMAIN child' = DOMAIN child
          /\ \A k \in DOMAIN child :
                /\ child'[k].state = child[k].state /\ child'[k].killed = child[k].killed
                /\ child'[k].termed = (child[k].termed \/ \E i \in Held : procs[i].pid = k /\ child[k].state = "running")
      BY <2>1, SignalledType
    <3>2. \A k \in DOMAIN child : child[k].state = "running" => \E i \in Held : procs[i].pid = k
      BY RunningIsHeld
    <3>3. ASSUME NEW k \in DOMAIN child
          PROVE  child[k].termed \in BOOLEAN
      <4>1. child[k] \in Child
        BY DEF TypeOK
      <4> QED
        BY <4>1, Zenon DEF Child
    <3> QED
      BY <3>1, <3>2, <3>3, Zenon
  <2> QED
    BY <2>1, <2>2
<1>16. CASE AwaitTurn
  BY <1>16 DEF AwaitTurn, flags
<1>17. CASE DrainReaps
  <2>1. PICK k \in Zombies : child' = Reaped(k)
    BY <1>17 DEF DrainReaps
  <2>2. /\ DOMAIN child' = DOMAIN child
        /\ \A j \in DOMAIN child :
            /\ child'[j].termed = child[j].termed /\ child'[j].killed = child[j].killed
            /\ child'[j].state = "running" => child[j].state = "running"
    BY <2>1, ReapedType DEF Zombies
  <2> QED
    BY <1>17, <2>2 DEF DrainReaps
<1>18. CASE DrainScans
  <2>1. pc \in {"drain", "drainKill"} /\ child' = child
    BY <1>18 DEF DrainScans
  <2>2. CASE AnyAlive
    BY <1>18, <2>1, <2>2 DEF DrainScans
  <2>3. CASE ~AnyAlive
    <3>1. \A k \in DOMAIN child : child[k].state # "running"
      BY <2>3, RunningIsHeld DEF AnyAlive
    <3> QED
      BY <2>1, <3>1
  <2> QED
    BY <2>2, <2>3
<1>19. CASE TermDeadline
  BY <1>19 DEF TermDeadline, flags
<1>20. CASE KillAll
  <2>1. child' = Signalled("killed") /\ pc = "kill" /\ pc' = "awaitKill"
    BY <1>20 DEF KillAll
  <2>2. /\ DOMAIN child' = DOMAIN child
        /\ \A k \in DOMAIN child :
            /\ child'[k].state = child[k].state /\ child'[k].termed = child[k].termed
            /\ child'[k].killed = child[k].killed \/ child[k].state = "running"
            /\ child[k].state = "running" => child'[k].killed
    <3>1. /\ DOMAIN child' = DOMAIN child
          /\ \A k \in DOMAIN child :
                /\ child'[k].state = child[k].state /\ child'[k].termed = child[k].termed
                /\ child'[k].killed = (child[k].killed \/ \E i \in Held : procs[i].pid = k /\ child[k].state = "running")
      BY <2>1, SignalledType
    <3>2. \A k \in DOMAIN child : child[k].state = "running" => \E i \in Held : procs[i].pid = k
      BY RunningIsHeld
    <3>3. ASSUME NEW k \in DOMAIN child
          PROVE  child[k].killed \in BOOLEAN
      <4>1. child[k] \in Child
        BY DEF TypeOK
      <4> QED
        BY <4>1, Zenon DEF Child
    <3> QED
      BY <3>1, <3>2, <3>3, Zenon
  <2> QED
    BY <2>1, <2>2
<1>21. CASE KillDeadline
  BY <1>21 DEF KillDeadline, flags, StopReturns
<1>22. CASE Destroy
  <2>1. pc = "returned" /\ pc' \in {"stopAll", "exited"} /\ child' = child
    BY <1>22 DEF Destroy
  <2> QED
    BY <2>1
<1>23. CASE ChildExits
  <2>1. PICK k \in DOMAIN child, status \in {"ok", "crash"} : child' = Ended(k, status)
    BY <1>23 DEF ChildExits, Ended
  <2>2. /\ DOMAIN child' = DOMAIN child
        /\ \A j \in DOMAIN child :
            /\ child'[j].termed = child[j].termed /\ child'[j].killed = child[j].killed
            /\ child'[j].state = "running" => child[j].state = "running"
    BY <2>1, EndedType
  <2> QED
    BY <1>23, <2>2 DEF ChildExits
<1>24. CASE SignalHandler
  BY <1>24 DEF SignalHandler, flags
<1>25. CASE StopBegins
  BY <1>25 DEF StopBegins, flags
<1>26. CASE StopEnds
  BY <1>26 DEF StopEnds, flags
<1>27. CASE Exited
  BY <1>27 DEF Exited, flags, vars
<1>28. CASE UNCHANGED vars
  BY <1>28 DEF vars
<1> QED
  BY <1>1, <1>2, <1>3, <1>4, <1>5, <1>6, <1>7, <1>8, <1>9, <1>10, <1>11, <1>12, <1>13, <1>14, <1>15, <1>16, <1>17, <1>18, <1>19, <1>20, <1>21, <1>22, <1>23, <1>24, <1>25, <1>26, <1>27, <1>28 DEF Next, Main

-----------------------------------------------------------------------------
(* Counting the children of a process                                      *)

LEMMA ForksType ==
    ASSUME TypeOK
    PROVE  \A i \in Procs : Forks(i) \in Nat /\ IsFiniteSet({k \in DOMAIN child : child[k].of = i})
<1>1. Len(child) \in Nat /\ DOMAIN child = 1 .. Len(child)
  BY DEF TypeOK
<1>2. IsFiniteSet(DOMAIN child)
  BY <1>1, FS_Interval
<1> SUFFICES ASSUME NEW i \in Procs
             PROVE  Forks(i) \in Nat /\ IsFiniteSet({k \in DOMAIN child : child[k].of = i})
  OBVIOUS
<1>3. IsFiniteSet({k \in DOMAIN child : child[k].of = i})
  BY <1>2, FS_Subset
<1> QED
  BY <1>3, FS_CardinalityType DEF Forks

LEMMA ForksKept ==
    ASSUME DOMAIN child' = DOMAIN child, \A k \in DOMAIN child : child'[k].of = child[k].of
    PROVE  \A i \in Procs : Forks(i)' = Forks(i)
<1> SUFFICES ASSUME NEW i \in Procs PROVE Forks(i)' = Forks(i)
  OBVIOUS
<1>1. {k \in DOMAIN child' : child'[k].of = i} = {k \in DOMAIN child : child[k].of = i}
  OBVIOUS
<1> QED
  BY <1>1 DEF Forks

LEMMA ForksAdded ==
    ASSUME TypeOK, StartForks
    PROVE  \A i \in Procs : Forks(i)' = IF i = cur THEN Forks(i) + 1 ELSE Forks(i)
<1> DEFINE n == Len(child) + 1
<1>1. /\ DOMAIN child' = DOMAIN child \cup {n} /\ n \notin DOMAIN child
      /\ child'[n] = NewChild(cur) /\ \A k \in DOMAIN child : child'[k] = child[k]
  BY ForkedType DEF StartForks
<1>2. NewChild(cur).of = cur
  BY DEF NewChild
<1> HIDE DEF n
<1> SUFFICES ASSUME NEW i \in Procs
             PROVE  Forks(i)' = IF i = cur THEN Forks(i) + 1 ELSE Forks(i)
  OBVIOUS
<1> DEFINE Old == {k \in DOMAIN child : child[k].of = i}
           New == {k \in DOMAIN child' : child'[k].of = i}
<1>3. IsFiniteSet(Old) /\ Forks(i) = Cardinality(Old) /\ Forks(i)' = Cardinality(New)
  BY ForksType DEF Forks
<1>4. CASE i = cur
  <2>1. New = Old \cup {n} /\ n \notin Old
    BY <1>1, <1>2, <1>4
  <2> HIDE DEF Old, New
  <2>2. Cardinality(Old \cup {n}) = Cardinality(Old) + 1
    BY <1>3, <2>1, FS_AddElement
  <2> QED
    BY <1>3, <1>4, <2>1, <2>2
<1>5. CASE i # cur
  <2>1. New = Old
    BY <1>1, <1>2, <1>5
  <2> QED
    BY <1>3, <1>5, <2>1
<1> QED
  BY <1>4, <1>5

\* While startAll runs, the process it is at has no child yet.
LEMMA FirstFork ==
    ASSUME TypeOK, ChildInv, pc = "forkAll"
    PROVE  Forks(cur) = 0
<1>1. cur \in Nat
  BY Constants DEF TypeOK
<1>2. {k \in DOMAIN child : child[k].of = cur} = {}
  BY <1>1 DEF ChildInv, StartAllowedInv, StartCalls
<1> QED
  BY <1>2, FS_EmptySet DEF Forks

LEMMA StepForks == TypeOK /\ ChildInv /\ CountersInv /\ ForksInv /\ [Next]_vars => ForksInv'
<1> SUFFICES ASSUME TypeOK, ChildInv, CountersInv, ForksInv, [Next]_vars
             PROVE  ForksInv'
  OBVIOUS
<1>a. \A i \in Procs : Forks(i) \in Nat /\ procs[i] \in Process
  BY ForksType DEF TypeOK
<1>b. cur \in Procs /\ pc \in PC
  BY DEF TypeOK
<1>c. child' = child => \A i \in Procs : Forks(i)' = Forks(i)
  BY ForksKept
<1> USE DEF RestartCalls
<1>1. CASE ResetRuntimeState
  <2>1. child = <<>>
    BY <1>1 DEF ResetRuntimeState, ChildInv, StartAllowedInv
  <2>2. \A i \in Procs : {k \in DOMAIN child : child[k].of = i} = {}
    BY <2>1
  <2>3. \A i \in Procs : Forks(i) = 0
    BY <2>2, FS_EmptySet DEF Forks
  <2> QED
    BY <1>1, <2>3, <1>c DEF ResetRuntimeState, Fresh, ForksInv
<1>2. CASE SetupDone
  BY <1>2, <1>b, <1>c DEF SetupDone, flags, ForksInv
<1>3. CASE SetupFails
  BY <1>3, <1>b, <1>c DEF SetupFails, flags, ForksInv, Fault
<1>4. CASE StartRefused
  BY <1>4, <1>b, <1>c DEF StartRefused, flags, ForksInv, NotStarted
<1>5. CASE StartAllowed
  BY <1>5, <1>b, <1>c DEF StartAllowed, flags, ForksInv
<1>6. CASE StartFails
  BY <1>6, <1>b, <1>c DEF StartFails, flags, ForksInv, Fault, NotStarted
<1>7. CASE StartForks
  <2>1. \A i \in Procs : procs'[i].restartCount = procs[i].restartCount /\ procs[i].restartCount \in Nat
    BY <1>7 DEF StartForks, TypeOK, Process
  <2>2. Forks(cur) <= procs[cur].restartCount
    BY <1>7, <1>b, <2>1, FirstFork DEF StartForks, ForksInv
  <2>3. \A i \in Procs : Forks(i)' <= 1 + procs'[i].restartCount
    BY <1>7, <1>a, <1>b, <2>1, <2>2, ForksAdded DEF ForksInv
  <2> QED
    BY <1>7, <2>3 DEF StartForks, ForksInv
<1>8. CASE HandleStopSignal
  BY <1>8, <1>b, <1>c DEF HandleStopSignal, flags, ForksInv
<1>9. CASE ReapChild
  <2>1. PICK k \in Zombies : child' = Reaped(k) /\ HandleChildExit(k)
    BY <1>9 DEF ReapChild
  <2>2. PICK i \in Procs : Handled(k, i)
    BY <2>1, ChildExitHandled DEF ChildInv
  <2>3. \A j \in Procs : Forks(j)' = Forks(j)
    BY <2>1, ReapedType, ForksKept DEF Zombies
  <2>4. \A j \in Procs : procs'[j].restartCount = procs[j].restartCount
    BY <2>2, HandledFields
  <2>5. pc' \in {"handled", "decide"}
    BY <2>2 DEF Handled
  <2> QED
    BY <2>3, <2>4, <2>5 DEF ForksInv
<1>10. CASE Decide
  <2>1. child' = child /\ cur' = cur
    BY <1>10 DEF Decide
  <2>2. CASE ShouldRestart(cur)
    <3>1. \A i \in Procs :
            procs'[i].restartCount = IF i = cur THEN procs[i].restartCount + 1 ELSE procs[i].restartCount
      BY <1>10, <2>2 DEF Decide, TypeOK, Process
    <3> QED
      BY <1>a, <1>b, <1>c, <2>1, <3>1 DEF ForksInv, Process
  <2>3. CASE ~ShouldRestart(cur)
    BY <1>10, <2>1, <2>3, <1>c DEF Decide, ForksInv
  <2> QED
    BY <2>2, <2>3
<1>11. CASE RestartBegins
  BY <1>11, <1>b, <1>c DEF RestartBegins, flags, ForksInv
<1>12. CASE DelayTurn
  BY <1>12, <1>b, <1>c DEF DelayTurn, flags, ForksInv
<1>13. CASE NoneExited
  BY <1>13, <1>b, <1>c DEF NoneExited, flags, ForksInv
<1>14. CASE Scan
  BY <1>14, <1>b, <1>c, ScanDropsNothing DEF Scan, ForksInv, ChildInv
<1>15. CASE TermAll
  <2>1. child' = Signalled("termed") /\ procs' = procs /\ pc' \notin RestartCalls
    BY <1>15 DEF TermAll
  <2>3. DOMAIN child' = DOMAIN child /\ \A k \in DOMAIN child : child'[k].of = child[k].of
    BY <2>1, SignalledType
  <2>4. \A j \in Procs : Forks(j)' = Forks(j)
    BY <2>3, ForksKept
  <2> QED
    BY <2>1, <2>4 DEF ForksInv
<1>16. CASE AwaitTurn
  BY <1>16, <1>b, <1>c DEF AwaitTurn, flags, ForksInv
<1>17. CASE DrainReaps
  <2>1. PICK k \in Zombies :
            /\ child' = Reaped(k)
            /\ procs' = [i \in Procs |-> [procs[i] EXCEPT !.pid = IF procs[i].pid = k THEN 0 ELSE procs[i].pid]]
    BY <1>17 DEF DrainReaps
  <2>2. \A j \in Procs : Forks(j)' = Forks(j)
    BY <2>1, ReapedType, ForksKept DEF Zombies
  <2>3. \A j \in Procs : procs'[j].restartCount = procs[j].restartCount
    BY <2>1 DEF TypeOK, Process
  <2> QED
    BY <1>17, <2>2, <2>3 DEF DrainReaps, ForksInv
<1>18. CASE DrainScans
  BY <1>18, <1>b, <1>c, ScanDropsNothing DEF DrainScans, ForksInv, StopReturns, ChildInv
<1>19. CASE TermDeadline
  BY <1>19, <1>b, <1>c DEF TermDeadline, flags, ForksInv
<1>20. CASE KillAll
  <2>1. child' = Signalled("killed") /\ procs' = procs /\ pc' \notin RestartCalls
    BY <1>20 DEF KillAll
  <2>3. DOMAIN child' = DOMAIN child /\ \A k \in DOMAIN child : child'[k].of = child[k].of
    BY <2>1, SignalledType
  <2>4. \A j \in Procs : Forks(j)' = Forks(j)
    BY <2>3, ForksKept
  <2> QED
    BY <2>1, <2>4 DEF ForksInv
<1>21. CASE KillDeadline
  BY <1>21, <1>b, <1>c DEF KillDeadline, flags, ForksInv, StopReturns
<1>22. CASE Destroy
  BY <1>22, <1>b, <1>c DEF Destroy, flags, ForksInv
<1>23. CASE ChildExits
  <2>1. PICK k \in DOMAIN child, status \in {"ok", "crash"} : child' = Ended(k, status)
    BY <1>23 DEF ChildExits, Ended
  <2>2. \A j \in Procs : Forks(j)' = Forks(j)
    BY <2>1, EndedType, ForksKept
  <2> QED
    BY <1>23, <2>2, <1>b DEF ChildExits, ForksInv
<1>24. CASE SignalHandler
  BY <1>24, <1>b, <1>c DEF SignalHandler, flags, ForksInv
<1>25. CASE StopBegins
  BY <1>25, <1>b, <1>c DEF StopBegins, flags, ForksInv
<1>26. CASE StopEnds
  BY <1>26, <1>b, <1>c DEF StopEnds, flags, ForksInv
<1>27. CASE Exited
  BY <1>27, <1>b, <1>c DEF Exited, flags, ForksInv, vars
<1>28. CASE UNCHANGED vars
  BY <1>28, <1>b, <1>c DEF vars, ForksInv
<1> QED
  BY <1>1, <1>2, <1>3, <1>4, <1>5, <1>6, <1>7, <1>8, <1>9, <1>10, <1>11, <1>12, <1>13, <1>14, <1>15, <1>16, <1>17, <1>18, <1>19, <1>20, <1>21, <1>22, <1>23, <1>24, <1>25, <1>26, <1>27, <1>28 DEF Next, Main

-----------------------------------------------------------------------------
(* The theorems                                                            *)

LEMMA InitInv == Init => IInv
<1> SUFFICES ASSUME Init PROVE IInv
  OBVIOUS
<1>1. TypeOK
  <2>1. procs \in [Procs -> Process] /\ child \in Seq(Child)
    BY DEF Init, Process, Fresh
  <2>2. cur \in Procs /\ slice \in 0 .. RestartDelay /\ faults \in 0 .. MaxFaults
    BY Constants, DaemonAssumption DEF DaemonAssumption, Init
  <2> QED
    BY <2>1, <2>2 DEF Init, TypeOK, PC
<1>2. DelayInv /\ ChildInv
  BY DEF Init, Fresh, DelayInv, ChildInv, HeldAreChildren, ChildrenHeld, RestartAfterCrash,
         StartAllowedInv, StartCalls, ProcessCalls
<1>3. CountersInv /\ CrashLimitInv /\ SignalsInv
  BY Constants DEF Init, Fresh, CountersInv, CrashLimitInv, SignalsInv, TermBeforeKill, StartCalls, RestartCalls
<1>4. ForksInv
  <2>1. \A i \in Procs : {k \in DOMAIN child : child[k].of = i} = {}
    BY DEF Init
  <2>2. \A i \in Procs : Forks(i) = 0
    BY <2>1, FS_EmptySet DEF Forks
  <2> QED
    BY <2>2 DEF Init, Fresh, ForksInv, RestartCalls
<1> QED
  BY <1>1, <1>2, <1>3, <1>4 DEF IInv

LEMMA StepInv == IInv /\ [Next]_vars => IInv'
BY StepType, StepChild, StepCounters, StepSignals, StepForks DEF IInv, ChildInv

LEMMA InvariantHolds == Spec => []IInv
BY InitInv, StepInv, PTL DEF Spec

\* Type correctness of the daemon for any number of processes, limits and faults.
THEOREM TypeCorrect == Spec => []TypeOK
<1>1. IInv => TypeOK
  BY DEF IInv
<1> QED
  BY <1>1, InvariantHolds, PTL

\* The manager holds the pid of every child it has not reaped (startProcess,
\* handleChildExit, the scans of monitorLoop and stopAll).
THEOREM EveryChildIsHeld == Spec => []ChildrenHeld
<1>1. IInv => ChildrenHeld
  BY DEF IInv, ChildInv
<1> QED
  BY <1>1, InvariantHolds, PTL

\* A process is started again only after its previous child crashed and was
\* reaped (handleChildExit, shouldRestart, restartProcess).
THEOREM RestartsOnlyAfterCrash == Spec => []RestartAfterCrash
<1>1. IInv => RestartAfterCrash
  BY DEF IInv, ChildInv
<1> QED
  BY <1>1, InvariantHolds, PTL

\* A process is started once and then at most maxRestartCount times, never more
\* often than it crashed (shouldRestart, handleChildExit).
THEOREM RestartsAreBounded == Spec => []RestartsBounded
<1>1. IInv => RestartsBounded
  BY DEF IInv, CountersInv, ForksInv, RestartsBounded
<1> QED
  BY <1>1, InvariantHolds, PTL

\* stopAll sends SIGKILL only after SIGTERM.
THEOREM TermsBeforeKill == Spec => []TermBeforeKill
<1>1. IInv => TermBeforeKill
  BY DEF IInv, SignalsInv
<1> QED
  BY <1>1, InvariantHolds, PTL

\* When main() is left no child runs on that was not sent a SIGKILL (run, stopAll,
\* the destructor).
THEOREM LeavesNoChild == Spec => []NoChildLeft
<1>1. IInv => NoChildLeft
  BY DEF IInv, SignalsInv, NoChildLeft
<1> QED
  BY <1>1, InvariantHolds, PTL

\* No process is started once the crashes of all have reached maxCrashCount_
\* (shouldRestart, restartProcess, startProcess).
THEOREM NoStartAtCrashLimit == Spec => NoStartBeyondCrashLimit
<1>1. IInv /\ [Next]_vars => [Len(child') > Len(child) => totalCrashCount_ < MaxCrashCount]_vars
  <2> SUFFICES ASSUME IInv, Next, Len(child') > Len(child)
               PROVE  totalCrashCount_ < MaxCrashCount
    BY DEF vars
  <2>1. TypeOK /\ CrashLimitInv
    BY DEF IInv
  <2>2. CASE StartForks
    BY <2>1, <2>2, Constants DEF StartForks, CrashLimitInv, StartCalls, RestartCalls
  <2>3. CASE DOMAIN child' = DOMAIN child /\ child' \in Seq(Child)
    BY <2>1, <2>3 DEF TypeOK
  <2>4. ASSUME NEW k \in Zombies, child' = Reaped(k)
        PROVE  DOMAIN child' = DOMAIN child /\ child' \in Seq(Child)
    BY <2>1, <2>4, ReapedType DEF Zombies
  <2>5. ASSUME NEW field \in {"termed", "killed"}, child' = Signalled(field)
        PROVE  DOMAIN child' = DOMAIN child /\ child' \in Seq(Child)
    BY <2>1, <2>5, SignalledType, Zenon
  <2>6. ASSUME ChildExits
        PROVE  DOMAIN child' = DOMAIN child /\ child' \in Seq(Child)
    <3>1. PICK k \in DOMAIN child, status \in {"ok", "crash"} : child' = Ended(k, status)
      BY <2>6 DEF ChildExits, Ended
    <3> QED
      BY <2>1, <3>1, EndedType
  <2>7. CASE child' = child
    BY <2>7, <2>1 DEF TypeOK
  <2>8. \/ StartForks \/ ChildExits \/ child' = child
        \/ \E k \in Zombies : child' = Reaped(k)
        \/ child' = Signalled("termed") \/ child' = Signalled("killed")
    BY DEF Next, Main, ResetRuntimeState, SetupDone, SetupFails, StartRefused, StartAllowed, StartFails,
           HandleStopSignal, ReapChild, Decide, RestartBegins, DelayTurn, NoneExited, Scan, TermAll,
           AwaitTurn, DrainReaps, DrainScans, TermDeadline, KillAll, KillDeadline, Destroy,
           SignalHandler, StopBegins, StopEnds, Exited, vars
  <2> QED
    BY <2>2, <2>3, <2>4, <2>5, <2>6, <2>7, <2>8
<1> QED
  BY <1>1, InvariantHolds, PTL DEF Spec, NoStartBeyondCrashLimit
-----------------------------------------------------------------------------
(* Crashed processes are restarted                                         *)

\* A process that is down after a crash, within its limits, is one that is being
\* restarted, unless a stop was requested; stopAll runs only after such a request.
RestartedInv ==
    /\ faults = 0 => \A i \in AutoRestart : LeftDown(i) => StopRequested \/ (pc \in ProcessCalls /\ i = cur)
    /\ pc \in {"await", "drain", "kill", "awaitKill", "drainKill"} => stopping_

\* A process is not newly left down by a step that changes no pid and no outcome.
LEMMA LeftDownBefore ==
    ASSUME DOMAIN child' = DOMAIN child, NEW i \in Procs,
           procs'[i].pid = procs[i].pid, procs'[i].restartCount = procs[i].restartCount,
           totalCrashCount_' = totalCrashCount_,
           \A k \in DOMAIN child : child'[k].of = child[k].of /\ child'[k].status = child[k].status,
           LeftDown(i)'
    PROVE  LeftDown(i)
BY DEF LeftDown

LEMMA StepRestarted == TypeOK /\ TypeOK' /\ ChildInv /\ RestartedInv /\ [Next]_vars => RestartedInv'
<1> SUFFICES ASSUME TypeOK, TypeOK', ChildInv, RestartedInv, [Next]_vars
             PROVE  RestartedInv'
  OBVIOUS
<1>a. AutoRestart \subseteq Procs /\ faults \in Nat /\ faults' \in Nat
  BY DaemonAssumption DEF DaemonAssumption, Procs, TypeOK
<1>b. procs' = procs /\ child' = child /\ totalCrashCount_' = totalCrashCount_ =>
            \A i \in AutoRestart : LeftDown(i)' => LeftDown(i)
  BY <1>a, LeftDownBefore
<1> USE DEF ProcessCalls
<1>1. CASE ResetRuntimeState
  <2>1. child' = <<>> /\ pc' = "setup"
    BY <1>1 DEF ResetRuntimeState, ChildInv, StartAllowedInv
  <2>2. \A i \in AutoRestart : ~LeftDown(i)'
    BY <2>1 DEF LeftDown
  <2> QED
    BY <2>1, <2>2 DEF RestartedInv
<1>2. CASE SetupDone
  BY <1>2, <1>b DEF SetupDone, flags, StopRequested, RestartedInv
<1>3. CASE SetupFails
  BY <1>3, <1>a DEF SetupFails, Fault, RestartedInv
<1>4. CASE StartRefused
  BY <1>4, <1>b DEF StartRefused, flags, StopRequested, RestartedInv, NotStarted
<1>5. CASE StartAllowed
  BY <1>5, <1>b DEF StartAllowed, flags, StopRequested, RestartedInv
<1>6. CASE StartFails
  BY <1>6, <1>a DEF StartFails, Fault, NotStarted, RestartedInv
<1>7. CASE StartForks
  <2>1. /\ pc \in {"forkAll", "fork"} /\ pc' \in {"handled", "startAll", "monitor"}
        /\ faults' = faults /\ StopRequested' = StopRequested /\ totalCrashCount_' = totalCrashCount_
    BY <1>7 DEF StartForks, flags, StopRequested
  <2>2. PICK c \in Procs : c = cur
    BY DEF TypeOK
  <2>3. /\ procs'[c].pid # 0
        /\ \A i \in Procs : i # c => procs'[i] = procs[i]
    BY <1>7, <2>2, ForkedType DEF StartForks, TypeOK, Process
  <2>4. /\ DOMAIN child' = DOMAIN child \cup {Len(child) + 1} /\ child'[Len(child) + 1].of = c
        /\ Len(child) + 1 \notin DOMAIN child
        /\ \A k \in DOMAIN child : child'[k] = child[k]
    BY <1>7, <2>2, ForkedType DEF StartForks, NewChild
  <2>5. ~LeftDown(c)'
    BY <2>3 DEF LeftDown
  <2>6. \A i \in AutoRestart : i # c /\ LeftDown(i)' => LeftDown(i)
    BY <2>1, <2>3, <2>4, <1>a DEF LeftDown
  <2> QED
    BY <2>1, <2>2, <2>5, <2>6 DEF RestartedInv
<1>8. CASE HandleStopSignal
  BY <1>8, <1>b DEF HandleStopSignal, flags, StopRequested, RestartedInv
<1>9. CASE ReapChild
  <2>1. PICK k \in Zombies : child' = Reaped(k) /\ HandleChildExit(k)
    BY <1>9 DEF ReapChild
  <2>2. PICK i \in Procs : Handled(k, i)
    BY <2>1, ChildExitHandled DEF ChildInv
  <2>3. /\ DOMAIN child' = DOMAIN child /\ k \in DOMAIN child /\ child[k].of = i
        /\ \A j \in DOMAIN child : child'[j].of = child[j].of /\ child'[j].status = child[j].status
    BY <2>1, <2>2, ReapedType DEF Zombies, Handled
  <2>4. /\ pc = "wait" /\ faults' = faults /\ StopRequested' = StopRequested
        /\ cur' = i /\ \A j \in Procs : j # i => procs'[j] = procs[j]
    BY <1>9, <2>2 DEF ReapChild, Handled, flags, StopRequested, TypeOK
  <2>5. \A j \in AutoRestart : j # i /\ LeftDown(j)' => LeftDown(j)
    <3>1. totalCrashCount_' < MaxCrashCount => totalCrashCount_ < MaxCrashCount
      BY <2>2, Constants DEF Handled, TypeOK
    <3> QED
      BY <3>1, <2>3, <2>4, <1>a DEF LeftDown
  <2>6. i \in AutoRestart /\ LeftDown(i)' => StopRequested \/ pc' = "decide"
    <3> SUFFICES ASSUME ~StopRequested, pc' # "decide", LeftDown(i)'
                 PROVE  FALSE
      OBVIOUS
    <3>1. ~IsCrashExit(k)
      BY <2>2 DEF Handled
    <3>2. child'[k].status = "crash"
      BY <2>3 DEF LeftDown
    <3> QED
      BY <3>1, <3>2, <2>3 DEF IsCrashExit
  <2>7. pc' \in {"handled", "decide"}
    BY <2>2 DEF Handled
  <2> QED
    BY <2>4, <2>5, <2>6, <2>7 DEF RestartedInv
<1>10. CASE Decide
  <2>1. CASE ShouldRestart(cur)
    <3>1. /\ pc = "decide" /\ pc' = "restart" /\ cur' = cur /\ child' = child /\ totalCrashCount_' = totalCrashCount_
          /\ StopRequested' = StopRequested /\ faults' = faults
          /\ \A i \in Procs : i # cur => procs'[i] = procs[i]
      BY <1>10, <2>1 DEF Decide, flags, StopRequested, TypeOK
    <3>2. \A i \in AutoRestart : i # cur /\ LeftDown(i)' => LeftDown(i)
      BY <3>1, <1>a, LeftDownBefore
    <3> QED
      BY <3>1, <3>2 DEF RestartedInv
  <2>2. CASE ~ShouldRestart(cur)
    <3>1. /\ pc = "decide" /\ pc' = "handled" /\ cur' = cur /\ faults' = faults
          /\ procs' = procs /\ child' = child /\ totalCrashCount_' = totalCrashCount_
          /\ stopping_' = stopping_ /\ signalStopFlag_' = signalStopFlag_
      BY <1>10, <2>2 DEF Decide, flags
    <3>2. cur \in AutoRestart /\ LeftDown(cur) => StopRequested
      BY <2>2 DEF ShouldRestart, LeftDown
    <3> QED
      BY <3>1, <3>2, <1>b DEF RestartedInv, StopRequested
  <2> QED
    BY <2>1, <2>2
<1>11. CASE RestartBegins
  BY <1>11, <1>b DEF RestartBegins, flags, StopRequested, RestartedInv
<1>12. CASE DelayTurn
  BY <1>12, <1>b DEF DelayTurn, flags, StopRequested, RestartedInv
<1>13. CASE NoneExited
  BY <1>13, <1>b DEF NoneExited, flags, StopRequested, RestartedInv
<1>14. CASE Scan
  BY <1>14, <1>b, ScanDropsNothing DEF Scan, flags, ChildInv, StopRequested, RestartedInv
<1>15. CASE TermAll
  <2>1. /\ child' = Signalled("termed") /\ procs' = procs /\ totalCrashCount_' = totalCrashCount_
        /\ stopping_' /\ pc' \notin ProcessCalls
    BY <1>15 DEF TermAll, flags, RestartedInv
  <2> QED
    BY <2>1 DEF RestartedInv, StopRequested
<1>16. CASE AwaitTurn
  BY <1>16, <1>b DEF AwaitTurn, flags, StopRequested, RestartedInv
<1>17. CASE DrainReaps
  BY <1>17 DEF DrainReaps, flags, RestartedInv, StopRequested
<1>18. CASE DrainScans
  BY <1>18, <1>b, ScanDropsNothing DEF DrainScans, StopReturns, flags, ChildInv, StopRequested, RestartedInv
<1>19. CASE TermDeadline
  BY <1>19, <1>b DEF TermDeadline, flags, StopRequested, RestartedInv
<1>20. CASE KillAll
  <2>1. /\ child' = Signalled("killed") /\ procs' = procs /\ totalCrashCount_' = totalCrashCount_
        /\ stopping_' /\ pc' \notin ProcessCalls
    BY <1>20 DEF KillAll, flags, RestartedInv
  <2> QED
    BY <2>1 DEF RestartedInv, StopRequested
<1>21. CASE KillDeadline
  BY <1>21, <1>b DEF KillDeadline, flags, StopRequested, RestartedInv, StopReturns
<1>22. CASE Destroy
  BY <1>22, <1>b DEF Destroy, flags, StopRequested, RestartedInv
<1>23. CASE ChildExits
  <2>1. PICK k \in DOMAIN child, status \in {"ok", "crash"} :
            child[k].state = "running" /\ child' = Ended(k, status)
    BY <1>23 DEF ChildExits, Ended
  <2>2. /\ DOMAIN child' = DOMAIN child
        /\ \A j \in DOMAIN child : child'[j].of = child[j].of
        /\ \A j \in DOMAIN child : j # k => child'[j].status = child[j].status
    BY <2>1, EndedType
  <2>3. procs' = procs /\ pc' = pc /\ cur' = cur /\ totalCrashCount_' = totalCrashCount_
        /\ faults' = faults /\ stopping_' = stopping_ /\ signalStopFlag_' = signalStopFlag_
    BY <1>23 DEF ChildExits, flags
  <2>4. procs[child[k].of].pid # 0
    BY <2>1, RunningIsHeld DEF ChildInv, ChildrenHeld, Held, TypeOK
  <2>5. \A i \in AutoRestart : LeftDown(i)' => LeftDown(i)
    <3> SUFFICES ASSUME NEW i \in AutoRestart, LeftDown(i)' PROVE LeftDown(i)
      OBVIOUS
    <3>1. child[k].of # i
      BY <2>3, <2>4 DEF LeftDown
    <3> QED
      BY <2>2, <2>3, <3>1 DEF LeftDown
  <2> QED
    BY <2>3, <2>5 DEF RestartedInv, StopRequested
<1>24. CASE SignalHandler
  BY <1>24, <1>b DEF SignalHandler, flags, StopRequested, RestartedInv
<1>25. CASE StopBegins
  BY <1>25, <1>b DEF StopBegins, flags, StopRequested, RestartedInv
<1>26. CASE StopEnds
  BY <1>26, <1>b DEF StopEnds, flags, StopRequested, RestartedInv
<1>27. CASE Exited
  BY <1>27, <1>b DEF Exited, flags, StopRequested, RestartedInv, vars
<1>28. CASE UNCHANGED vars
  BY <1>28, <1>b DEF vars, RestartedInv, StopRequested
<1> QED
  BY <1>1, <1>2, <1>3, <1>4, <1>5, <1>6, <1>7, <1>8, <1>9, <1>10, <1>11, <1>12, <1>13, <1>14, <1>15, <1>16, <1>17, <1>18, <1>19, <1>20, <1>21, <1>22, <1>23, <1>24, <1>25, <1>26, <1>27, <1>28 DEF Next, Main

\* Without failing system calls every process that crashed has been started again
\* whenever monitorLoop begins a round, unless a limit is reached or a stop was
\* requested (handleChildExit, restartProcess).
THEOREM CrashesAreRestarted == Spec => []CrashedIsRestartedWithoutFaults
<1>1. Init => RestartedInv
  BY DEF Init, RestartedInv, LeftDown
<1>2. IInv /\ RestartedInv /\ [Next]_vars => RestartedInv'
  BY StepRestarted, StepInv DEF IInv
<1>3. RestartedInv => CrashedIsRestartedWithoutFaults
  BY DEF RestartedInv, ProcessCalls, CrashedIsRestartedWithoutFaults
<1> QED
  BY <1>1, <1>2, <1>3, InvariantHolds, PTL DEF Spec
=============================================================================
