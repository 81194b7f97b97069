------------------------------ MODULE FifoLock ------------------------------
(***************************************************************************)
(* What a Mutex promises: callers hold it one at a time, in the order in   *)
(* which they asked.  The first caller in line is the one that holds it.   *)
(***************************************************************************)
EXTENDS Sequences

CONSTANT Callers

VARIABLE line

Init == line = <<>>

Request(c) == line' = Append(line, c)

Release == line # <<>> /\ line' = Tail(line)

Next == Release \/ \E c \in Callers : Request(c)

Spec == Init /\ [][Next]_line
=============================================================================
