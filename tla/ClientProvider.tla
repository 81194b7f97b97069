--------------------------- MODULE ClientProvider ---------------------------
(***************************************************************************)
(* packages/core/src/query/provider.ts, and getGasFee() of                 *)
(* packages/sdk/src/sdk.ts: clients that are created when they are first   *)
(* asked for.  A getter takes the mutex of its client and, while it holds  *)
(* it, calls the getter of the client it builds on; the mutexes are        *)
(* FifoLocks (Mutex implements one), and their order is the order of       *)
(* Needs.                                                                  *)
(***************************************************************************)
EXTENDS Naturals, Sequences, FiniteSets

CONSTANTS Callers,
          None,
          Seeded,       \* the clients the provider was constructed with
          MaxCalls,     \* bound: calls of getters
          MaxFailures   \* bound: failed attempts to create a client

Clients == {"tm", "stargate", "query", "gasFee"}

ASSUME ClientProviderAssumption ==
  /\ None \notin Clients \cup Nat
  /\ Seeded \subseteq Clients
  /\ MaxCalls \in Nat /\ MaxFailures \in Nat

VARIABLES cached,    \* the field of every client: an instance, or None
          made,      \* history: how many instances were created
          line,      \* the mutex of every client: its holder and the waiters
          frames,    \* the getters a caller is in, the innermost last
          step,      \* what the innermost getter of a caller is doing
          calls, failures

vars == <<cached, made, line, frames, step, calls, failures>>

Init == /\ cached = [x \in Clients |-> IF x \in Seeded THEN 1 ELSE None]
        /\ made = [x \in Clients |-> IF x \in Seeded THEN 1 ELSE 0]
        /\ line = [x \in Clients |-> <<>>]
        /\ frames = [c \in Callers |-> <<>>]
        /\ step = [c \in Callers |-> "idle"]
        /\ calls = 0
        /\ failures = 0

-----------------------------------------------------------------------------
(* Variants of definitions below with a plausible mistake in them. *)

NotLookedUp(x) == FALSE           \* created without looking at the field
StaysLocked(x) == UNCHANGED line  \* release() is not called

\* The getter is not left.
StaysInside(c) ==
  /\ line' = [line EXCEPT ![frames[c][Len(frames[c])]] = Tail(@)]
  /\ UNCHANGED frames

\* The node's address is looked up in the fee table.
NeedsInACircle(x) == CASE x \in {"stargate", "query"} -> "tm"
                       [] x = "gasFee" -> "query"
                       [] x = "tm" -> "gasFee"

-----------------------------------------------------------------------------
\* The client whose getter the getter of x calls.
Needs(x) == CASE x \in {"stargate", "query"} -> "tm"
              [] x = "gasFee" -> "query"
              [] x = "tm" -> None

Inner(c) == frames[c][Len(frames[c])]

Is(c, s) == step' = [step EXCEPT ![c] = s]

\* Call the getter of x, first thing in which is mutex.lock().
Enter(c, x) == /\ frames' = [frames EXCEPT ![c] = Append(@, x)]
               /\ line' = [line EXCEPT ![x] = Append(@, c)]
               /\ Is(c, "locking")

Release(x) == line' = [line EXCEPT ![x] = Tail(@)]

\* The finally block, and back to the caller of the getter.
Leave(c) == /\ Release(Inner(c))
            /\ frames' = [frames EXCEPT ![c] = SubSeq(@, 1, Len(@) - 1)]

Call(c, x) ==
  /\ step[c] = "idle"
  /\ calls < MaxCalls
  /\ calls' = calls + 1
  /\ Enter(c, x)
  /\ UNCHANGED <<cached, made, failures>>

HasLock(c, x) == line[x] # <<>> /\ Head(line[x]) = c

Available(x) == cached[x] # None

\* The getter returns: to its caller, or to the getter that needed it,
\* which then creates its own client.
Returns(c) == Leave(c) /\ Is(c, IF Len(frames[c]) = 1 THEN "idle" ELSE "creating")

\* The lock is there: return the client, or set about creating it.
Locked(c) ==
  /\ step[c] = "locking"
  /\ HasLock(c, Inner(c))
  /\ \/ Available(Inner(c)) /\ Returns(c)
     \/ /\ ~Available(Inner(c))
        /\ IF Needs(Inner(c)) = None
           THEN Is(c, "creating") /\ UNCHANGED <<line, frames>>
           ELSE Enter(c, Needs(Inner(c)))
  /\ UNCHANGED <<cached, made, calls, failures>>

Created(c) ==
  LET x == Inner(c)
  IN  /\ step[c] = "creating"
      /\ made' = [made EXCEPT ![x] = @ + 1]
      /\ cached' = [cached EXCEPT ![x] = made[x] + 1]
      /\ Returns(c)
      /\ UNCHANGED <<calls, failures>>

\* connect(), create() or a query rejects, or the getter called did: the
\* error goes up, releasing one mutex after the other.
Fails(c) ==
  /\ \/ /\ step[c] = "creating" /\ failures < MaxFailures
        /\ failures' = failures + 1
     \/ step[c] = "failing" /\ UNCHANGED failures
  /\ Leave(c)
  /\ Is(c, IF Len(frames[c]) = 1 THEN "idle" ELSE "failing")
  /\ UNCHANGED <<cached, made, calls>>

Work(c) == Locked(c) \/ Created(c) \/ Fails(c)

Next == \E c \in Callers : Work(c) \/ \E x \in Clients : Call(c, x)

Spec == Init /\ [][Next]_vars

\* Every attempt to create a client comes to an end, and callers go on.
FairSpec == Spec /\ \A c \in Callers : WF_vars(Work(c))

-----------------------------------------------------------------------------
TypeOK ==
  /\ cached \in [Clients -> Nat \cup {None}]
  /\ made \in [Clients -> Nat]
  /\ line \in [Clients -> Seq(Callers)]
  /\ frames \in [Callers -> Seq(Clients)]
  /\ step \in [Callers -> {"idle", "locking", "creating", "failing"}]
  /\ \A c \in Callers : step[c] = "idle" <=> frames[c] = <<>>
  /\ calls \in 0 .. MaxCalls /\ failures \in 0 .. MaxFailures

(* However many callers ask at once, and whichever getter they come        *)
(* through, a client is created once; all callers share it.                *)
CreatedOnce == \A x \in Clients : made[x] <= 1

\* A creation under way excludes every other of the same client.
OneCreator ==
  \A c, d \in Callers :
    step[c] = "creating" /\ step[d] = "creating" /\ Inner(c) = Inner(d) => c = d

(* A caller keeps exactly the mutexes of the getters it is in, also after  *)
(* a failed attempt: nobody walks away with a lock.                        *)
LocksMatchFrames ==
  \A c \in Callers, x \in Clients :
    Cardinality({i \in DOMAIN line[x] : line[x][i] = c})
      = Cardinality({i \in DOMAIN frames[c] : frames[c][i] = x})

\* Nobody waits for ever, though mutexes are held while waiting for others.
EveryCallReturns == \A c \in Callers : (step[c] # "idle") ~> (step[c] = "idle")
=============================================================================
