------------------------------- MODULE Mutex -------------------------------
(***************************************************************************)
(* packages/core/src/util/mutex.ts: the lock that the clients' lazy        *)
(* creation is serialised with.  A call is one use of lock() or wait(); a  *)
(* call's promise may be resolved some time before its caller goes on.     *)
(***************************************************************************)
EXTENDS Naturals, Sequences, FiniteSets

CONSTANTS LockCalls,  \* the calls of lock()
          WaitCalls,  \* the calls of wait()
          Unlocked    \* whether wait() may find the mutex unlocked

ASSUME MutexAssumption == LockCalls \cap WaitCalls = {} /\ Unlocked \in BOOLEAN

Calls == LockCalls \cup WaitCalls

VARIABLES locks,      \* how many locks are out
          waiters,    \* the calls in the waiters queue, the next one first
          phase       \* how far each call is

vars == <<locks, waiters, phase>>

Init == /\ locks = 0
        /\ waiters = <<>>
        /\ phase = [c \in Calls |-> "new"]

-----------------------------------------------------------------------------
(* Variants of definitions below with a plausible mistake in them. *)

UsedNotChecked(c) == phase[c] \in {"holding", "released"}

ServesOneOnly(w, n) == n = IF w = <<>> THEN 0 ELSE 1

JoinsInFront(c) == waiters' = <<c>> \o waiters

-----------------------------------------------------------------------------

Becomes(c, p) == phase' = [phase EXCEPT ![c] = p]

Joins(c) == waiters' = Append(waiters, c)

\* lock(): take the lock, or join the queue.
Lock(c) ==
  /\ phase[c] = "new"
  /\ IF locks > 0
     THEN Joins(c) /\ Becomes(c, "waiting") /\ UNCHANGED locks
     ELSE locks' = locks + 1 /\ Becomes(c, "resolved") /\ UNCHANGED waiters

\* wait(): join the queue, whether there is a lock to wait for or not.
Wait(c) ==
  /\ phase[c] = "new"
  /\ locks > 0 \/ Unlocked
  /\ Joins(c) /\ Becomes(c, "waiting") /\ UNCHANGED locks

\* The caller of lock() gets its release function, that of wait() goes on.
Resume(c) ==
  /\ phase[c] = "resolved"
  /\ Becomes(c, IF c \in LockCalls THEN "holding" ELSE "done")
  /\ UNCHANGED <<locks, waiters>>

(* The loop of unlock(), when nobody has the lock, serves the first n      *)
(* waiters: it stops behind the first one that locks the mutex again.      *)
LoopServes(w, n) ==
  /\ \A i \in 1 .. n - 1 : w[i] \in WaitCalls
  /\ n = Len(w) \/ (n > 0 /\ w[n] \in LockCalls)

Unlock(c) ==
  \E n \in 0 .. Len(waiters) :
    /\ IF locks = 1 THEN LoopServes(waiters, n) ELSE n = 0
    /\ waiters' = SubSeq(waiters, n + 1, Len(waiters))
    /\ locks' = (locks - 1) + Cardinality({i \in 1 .. n : waiters[i] \in LockCalls})
    /\ phase' = [d \in Calls |->
                   IF d = c THEN "released"
                   ELSE IF \E i \in 1 .. n : waiters[i] = d THEN "resolved"
                   ELSE phase[d]]

\* The closure's variable used: a second call throws.
Unused(c) == phase[c] = "holding"

\* The release function is called, perhaps not for the first time.
Release(c) ==
  /\ phase[c] \in {"holding", "released"}
  /\ IF Unused(c) THEN Unlock(c) ELSE UNCHANGED vars

Next == \/ \E c \in LockCalls : Lock(c) \/ Release(c)
        \/ \E c \in WaitCalls : Wait(c)
        \/ \E c \in Calls : Resume(c)

Spec == Init /\ [][Next]_vars

\* Resolved promises run their callers, and holders release what they hold.
Fairness == /\ \A c \in Calls : WF_vars(Resume(c))
            /\ \A c \in LockCalls : WF_vars(Release(c))

FairSpec == Spec /\ Fairness

-----------------------------------------------------------------------------
Elems(s) == {s[i] : i \in DOMAIN s}

TypeOK == /\ locks \in Nat
          /\ waiters \in Seq(Calls)
          /\ phase \in [Calls -> {"new", "waiting", "resolved", "holding",
                                  "released", "done"}]

Has(c) == c \in LockCalls /\ phase[c] \in {"resolved", "holding"}

(* "only one "thread" will execute doSynchronousThings at any one time"    *)
(* (line 6), even between the unlocking and the moment the next caller     *)
(* goes on, and even if a caller releases twice.                           *)
MutualExclusion == \A c, d \in Calls : Has(c) /\ Has(d) => c = d

\* The counter tells whether somebody has the lock.
LocksCounted == locks = IF \E c \in Calls : Has(c) THEN 1 ELSE 0

(* No call of lock() is left in the queue of an unlocked mutex, where only *)
(* another caller's release could free it (lines 67-71).                   *)
NobodyLeftBehind == locks = 0 => Elems(waiters) \cap LockCalls = {}

(* While the mutex is locked, every call of lock() and wait() that is in    *)
(* the queue is served in the end: no release leaves one behind for ever.   *)
EveryCallServed ==
  \A c \in Calls : (phase[c] = "waiting" /\ locks > 0) ~> (phase[c] # "waiting")

\* The calls of lock() in a queue.
Lockers(w) ==
  LET kept[i \in 0 .. Len(w)] ==
        IF i = 0 THEN <<>>
        ELSE IF w[i] \in LockCalls THEN Append(kept[i - 1], w[i]) ELSE kept[i - 1]
  IN  kept[Len(w)]

(* The mutex is a lock that is handed on in the order of the calls.        *)
Line == LET holder == {c \in Calls : Has(c)}
        IN  (IF holder = {} THEN <<>> ELSE <<CHOOSE c \in holder : TRUE>>)
              \o Lockers(waiters)

Fifo == INSTANCE FifoLock WITH Callers <- LockCalls, line <- Line

RefinesFifoLock == Fifo!Spec
=============================================================================
