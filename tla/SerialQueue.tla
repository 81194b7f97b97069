---------------------------- MODULE SerialQueue ----------------------------
(***************************************************************************)
(* What a QueueManager promises to the code that enqueues work: tasks are  *)
(* run one at a time, in the order in which they were accepted, each       *)
(* exactly once.  When the next task starts is left open.                  *)
(***************************************************************************)
EXTENDS Sequences

CONSTANTS Tasks,    \* the tasks that may be submitted
          None      \* "no task is running"

VARIABLES waiting,  \* accepted, not started, oldest first
          running,  \* the task being run, or None
          finished  \* the tasks that were run, in order

vars == <<waiting, running, finished>>

Init == /\ waiting = <<>>
        /\ running = None
        /\ finished = <<>>

Submit(t) == /\ waiting' = Append(waiting, t)
             /\ UNCHANGED <<running, finished>>

StartNext == IF waiting = <<>>
             THEN running' = None /\ waiting' = waiting
             ELSE running' = Head(waiting) /\ waiting' = Tail(waiting)

Start == /\ running = None
         /\ StartNext
         /\ UNCHANGED finished

Finish == /\ running # None
          /\ finished' = Append(finished, running)
          /\ StartNext

Next == Start \/ Finish \/ \E t \in Tasks : Submit(t)

Spec == Init /\ [][Next]_vars
=============================================================================
