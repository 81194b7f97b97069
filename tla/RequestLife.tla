---------------------------- MODULE RequestLife ----------------------------
(***************************************************************************)
(* What a caller of signAndBroadcast() can rely on (packages/sdk/src/      *)
(* sdk.ts): its messages are executed at most once and never before it     *)
(* asked; its promise is settled once; resolved in block mode it means     *)
(* executed, and rejected for its sequence number it means that they never *)
(* are.  TxPipeline implements it.                                         *)
(***************************************************************************)
EXTENDS Naturals

CONSTANT Requests

VARIABLES promise,     \* what the caller has in hand
          executions,  \* how often the messages have been executed
          confirmed    \* the requests sent in block mode; it never changes

vars == <<promise, executions, confirmed>>

Init == /\ promise = [r \in Requests |-> "none"]
        /\ executions = [r \in Requests |-> 0]
        /\ confirmed \subseteq Requests

Promise(r, from, to) == promise[r] \in from /\ promise'[r] = to

Stays(r) == executions'[r] = executions[r]

Asks(r) == Promise(r, {"none"}, "merging") \/ Promise(r, {"none", "merging"}, "pending")

Executes(r) == /\ promise[r] \notin {"none", "merging", "rejectedForNonce"}
               /\ executions[r] = 0 /\ executions'[r] = 1
               /\ promise'[r] = promise[r]

Resolves(r) == /\ Promise(r, {"pending"}, "resolved")
               /\ r \in confirmed => executions[r] = 1

Rejects(r) == Promise(r, {"none", "merging", "pending"}, "rejected")

RejectsForNonce(r) ==
  Promise(r, {"merging", "pending"}, "rejectedForNonce") /\ executions[r] = 0

Step(r) == \/ Executes(r)
           \/ Stays(r) /\ \/ Asks(r) \/ Resolves(r) \/ Rejects(r)
                          \/ RejectsForNonce(r) \/ promise'[r] = promise[r]

\* One step may concern several requests: a merge takes its caller with it.
Next == confirmed' = confirmed /\ \A r \in Requests : Step(r)

Spec == Init /\ [][Next]_vars
=============================================================================
