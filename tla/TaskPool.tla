------------------------------ MODULE TaskPool ------------------------------
(***************************************************************************)
(* What a pool of threads promises to the code that hands it tasks: tasks  *)
(* begin in the order in which they were accepted, each exactly once, and  *)
(* the pool terminates only when every accepted task has been run.         *)
(*                                                                         *)
(* A task is named by its ticket, its position in the order of acceptance. *)
(* Which thread runs a task, and how the queue is locked, are left to      *)
(* ThreadPool, which implements this module.                               *)
(***************************************************************************)
EXTENDS Naturals

VARIABLES
    accepted,    \* number of tasks accepted so far
    started,     \* number of tasks handed to a thread so far
    running,     \* tickets of the tasks being run
    terminated   \* TRUE when the destructor of the pool has returned

vars == <<accepted, started, running, terminated>>

Init ==
    /\ accepted = 0
    /\ started = 0
    /\ running = {}
    /\ terminated = FALSE

Accept ==
    /\ ~terminated
    /\ accepted' = accepted + 1
    /\ UNCHANGED <<started, running, terminated>>

Start ==
    /\ ~terminated
    /\ started < accepted
    /\ started' = started + 1
    /\ running' = running \cup {started + 1}
    /\ UNCHANGED <<accepted, terminated>>

Finish ==
    /\ ~terminated
    /\ \E k \in running : running' = running \ {k}
    /\ UNCHANGED <<accepted, started, terminated>>

Terminate ==
    /\ started = accepted
    /\ running = {}
    /\ ~terminated
    /\ terminated' = TRUE
    /\ UNCHANGED <<accepted, started, running>>

Next == Accept \/ Start \/ Finish \/ Terminate

Spec == Init /\ [][Next]_vars
=============================================================================
