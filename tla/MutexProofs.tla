---------------------------- MODULE MutexProofs ----------------------------
(***************************************************************************)
(* The mutex is safe for any number of calls of lock() and wait(): one     *)
(* caller at a time has the lock, and no call of lock() waits for a lock   *)
(* that nobody has.  The invariant says, besides, that the queue holds     *)
(* every call at most once and only calls that are waiting: a call that    *)
(* was served can then not be served again, whoever else releases.         *)
(***************************************************************************)
EXTENDS Mutex, SequenceTheorems, FiniteSetTheorems, WellFoundedInduction, TLAPS

QueueOfWaiting ==
  /\ \A i \in 1 .. Len(waiters) : phase[waiters[i]] = "waiting"
  /\ \A i, j \in 1 .. Len(waiters) : waiters[i] = waiters[j] => i = j

Inv == /\ TypeOK
       /\ MutualExclusion
       /\ LocksCounted
       /\ QueueOfWaiting
       /\ locks = 0 => \A i \in 1 .. Len(waiters) : waiters[i] \notin LockCalls

-----------------------------------------------------------------------------

\* Joining the queue keeps it a queue of waiting calls.
LEMMA JoinKeepsQueue ==
  ASSUME TypeOK, QueueOfWaiting, NEW c \in Calls, phase[c] = "new",
         Joins(c), Becomes(c, "waiting")
  PROVE  /\ waiters' \in Seq(Calls)
         /\ Len(waiters') = Len(waiters) + 1
         /\ \A i \in 1 .. Len(waiters) : waiters'[i] = waiters[i]
         /\ waiters'[Len(waiters) + 1] = c
         /\ QueueOfWaiting'
<1>1. /\ waiters' \in Seq(Calls)
      /\ Len(waiters') = Len(waiters) + 1
      /\ \A i \in 1 .. Len(waiters) : waiters'[i] = waiters[i]
      /\ waiters'[Len(waiters) + 1] = c
  BY AppendProperties DEF TypeOK, Joins
<1>2. \A i \in 1 .. Len(waiters) : waiters[i] \in Calls /\ waiters[i] # c
  BY ElementOfSeq DEF TypeOK, QueueOfWaiting
<1>3. phase'[c] = "waiting" /\ \A d \in Calls : d # c => phase'[d] = phase[d]
  BY DEF Becomes, TypeOK
<1>4. Len(waiters) \in Nat
  BY LenProperties DEF TypeOK
<1> QED BY <1>1, <1>2, <1>3, <1>4 DEF QueueOfWaiting

\* The loop of unlock() gives the lock to at most one waiter, the last it
\* serves.
LEMMA LoopLocksOnce ==
  ASSUME TypeOK, NEW n \in 0 .. Len(waiters), LoopServes(waiters, n)
  PROVE  LET again == {i \in 1 .. n : waiters[i] \in LockCalls}
         IN  \/ n > 0 /\ again = {n} /\ Cardinality(again) = 1
             \/ again = {} /\ Cardinality(again) = 0 /\ n = Len(waiters)
<1> DEFINE again == {i \in 1 .. n : waiters[i] \in LockCalls}
<1>0. Len(waiters) \in Nat
  BY LenProperties DEF TypeOK
<1>1. \A i \in 1 .. n - 1 : waiters[i] \notin LockCalls
  BY MutexAssumption DEF LoopServes
<1>2. CASE n > 0 /\ waiters[n] \in LockCalls
  <2>1. again = {n}
    BY <1>0, <1>1, <1>2
  <2> QED BY <1>2, <2>1, FS_Singleton
<1>3. CASE ~(n > 0 /\ waiters[n] \in LockCalls)
  <2>1. again = {}
    BY <1>0, <1>1, <1>3
  <2>2. n = Len(waiters)
    BY <1>3 DEF LoopServes
  <2> QED BY <2>1, <2>2, FS_EmptySet
<1> QED BY <1>2, <1>3

\* Handing the mutex on, or leaving it unlocked, keeps the invariant.
LEMMA UnlockKeepsInv ==
  ASSUME Inv, NEW c \in LockCalls, phase[c] = "holding", Unlock(c)
  PROVE  Inv'
<1> USE DEF Inv
<1>1. PICK n \in 0 .. Len(waiters) :
         /\ IF locks = 1 THEN LoopServes(waiters, n) ELSE n = 0
         /\ waiters' = SubSeq(waiters, n + 1, Len(waiters))
         /\ locks' = (locks - 1) +
                     Cardinality({i \in 1 .. n : waiters[i] \in LockCalls})
         /\ phase' = [d \in Calls |->
                        IF d = c THEN "released"
                        ELSE IF \E i \in 1 .. n : waiters[i] = d THEN "resolved"
                        ELSE phase[d]]
  BY DEF Unlock
<1> DEFINE again == {i \in 1 .. n : waiters[i] \in LockCalls}
<1>2. Has(c) /\ c \in Calls
  BY DEF Has, Calls
<1>3. locks = 1 /\ LoopServes(waiters, n)
  BY <1>1, <1>2 DEF LocksCounted
<1>4. Len(waiters) \in Nat /\ \A i \in 1 .. Len(waiters) : waiters[i] \in Calls
  BY LenProperties, ElementOfSeq DEF TypeOK
<1>5. /\ waiters' \in Seq(Calls)
      /\ Len(waiters') = Len(waiters) - n
      /\ \A i \in 1 .. Len(waiters') : waiters'[i] = waiters[n + i]
  <2>1. \A i \in n + 1 .. Len(waiters) : waiters[i] \in Calls
    BY <1>4
  <2>2. n + 1 \in Int /\ Len(waiters) \in Int
    BY <1>4
  <2> QED BY <1>1, <1>4, <2>1, <2>2, SubSeqProperties
<1>6. \A d \in Calls : d # c /\ Has(d) => FALSE
  BY <1>2 DEF MutualExclusion
<1>7. \A d \in Calls : Has(d)' <=> d \in LockCalls /\ \E i \in again : waiters[i] = d
  <2> TAKE d \in Calls
  <2>1. CASE d = c
    <3>1. \A i \in 1 .. n : waiters[i] # c
      BY <1>4 DEF QueueOfWaiting
    <3> QED BY <1>1, <1>2, <2>1, <3>1 DEF Has
  <2>2. CASE d # c
    BY <1>1, <1>6, <2>2 DEF Has
  <2> QED BY <2>1, <2>2
<1>8. \/ n > 0 /\ again = {n} /\ Cardinality(again) = 1
      \/ again = {} /\ Cardinality(again) = 0 /\ n = Len(waiters)
  BY <1>3, LoopLocksOnce
<1>9. locks' = Cardinality(again)
  BY <1>1, <1>3, <1>8
<1>10. TypeOK'
  <2>1. phase' \in [Calls -> {"new", "waiting", "resolved", "holding",
                              "released", "done"}]
    BY <1>1 DEF TypeOK
  <2> QED BY <1>5, <1>8, <1>9, <2>1 DEF TypeOK
<1>11. MutualExclusion'
  BY <1>7, <1>8 DEF MutualExclusion
<1>12. LocksCounted'
  <2>1. CASE n > 0 /\ again = {n} /\ Cardinality(again) = 1
    <3>0. PICK d \in Calls : d = waiters[n] /\ d \in LockCalls /\ n \in again
      BY <1>4, <2>1
    <3>1. Has(d)'
      BY <1>7, <3>0
    <3> QED BY <1>9, <2>1, <3>1 DEF LocksCounted
  <2>2. CASE again = {} /\ Cardinality(again) = 0
    BY <1>7, <1>9, <2>2 DEF LocksCounted
  <2> QED BY <1>8, <2>1, <2>2
<1>13. QueueOfWaiting'
  <2>1. ASSUME NEW i \in 1 .. Len(waiters')
        PROVE  /\ n + i \in 1 .. Len(waiters)
               /\ waiters'[i] = waiters[n + i]
               /\ phase'[waiters'[i]] = "waiting"
    <3>1. n + i \in 1 .. Len(waiters) /\ waiters'[i] = waiters[n + i]
      BY <1>4, <1>5
    <3>2. \A k \in 1 .. n : waiters[k] # waiters[n + i]
      BY <1>4, <3>1 DEF QueueOfWaiting
    <3>3. waiters[n + i] \in Calls /\ waiters[n + i] # c
          /\ phase[waiters[n + i]] = "waiting"
      BY <1>4, <3>1 DEF QueueOfWaiting
    <3> QED BY <1>1, <3>1, <3>2, <3>3
  <2>2. ASSUME NEW i \in 1 .. Len(waiters'), NEW j \in 1 .. Len(waiters'),
               waiters'[i] = waiters'[j]
        PROVE  i = j
    <3>1. n + i = n + j
      BY <2>1, <2>2 DEF QueueOfWaiting
    <3> QED BY <1>4, <1>5, <3>1
  <2> QED BY <2>1, <2>2 DEF QueueOfWaiting
<1>14. locks' = 0 => \A i \in 1 .. Len(waiters') : waiters'[i] \notin LockCalls
  BY <1>4, <1>5, <1>8, <1>9
<1> QED BY <1>10, <1>11, <1>12, <1>13, <1>14

LEMMA InitIsInv == Init => Inv
<1> SUFFICES ASSUME Init PROVE Inv
  OBVIOUS
<1>1. TypeOK
  BY DEF Init, TypeOK
<1>2. \A c \in Calls : ~Has(c)
  BY DEF Init, Has
<1> QED BY <1>1, <1>2
        DEF Init, Inv, MutualExclusion, LocksCounted, QueueOfWaiting

\* The invariant holds of every reachable state of a mutex.
THEOREM Invariance == Spec => []Inv
<1>1. Init => Inv
  BY InitIsInv
<1>2. Inv /\ [Next]_vars => Inv'
  <2> SUFFICES ASSUME Inv, [Next]_vars PROVE Inv'
    OBVIOUS
  <2> USE DEF Inv
  <2>0. /\ Len(waiters) \in Nat
        /\ \A i \in 1 .. Len(waiters) : waiters[i] \in Calls
    BY LenProperties, ElementOfSeq DEF TypeOK
  <2>1. ASSUME NEW c \in LockCalls, Lock(c) PROVE Inv'
    <3>0. c \in Calls
      BY DEF Calls
    <3>1. CASE locks > 0
      <4>1. Joins(c) /\ Becomes(c, "waiting") /\ locks' = locks /\ phase[c] = "new"
        BY <2>1, <3>1 DEF Lock
      <4>2. \A d \in Calls : Has(d)' <=> Has(d)
        BY <3>0, <4>1 DEF Has, Becomes, TypeOK
      <4>3. TypeOK'
        BY <3>0, <4>1, JoinKeepsQueue DEF TypeOK, Becomes
      <4>4. QueueOfWaiting'
        BY <3>0, <4>1, JoinKeepsQueue
      <4>5. MutualExclusion' /\ LocksCounted'
        BY <4>1, <4>2 DEF MutualExclusion, LocksCounted
      <4> QED BY <3>1, <4>1, <4>3, <4>4, <4>5
    <3>2. CASE ~(locks > 0)
      <4>1. /\ locks = 0 /\ locks' = 1 /\ phase[c] = "new"
            /\ Becomes(c, "resolved") /\ waiters' = waiters
        BY <2>1, <3>2 DEF Lock, TypeOK
      <4>2. \A d \in Calls : Has(d)' <=> d = c
        BY <2>1, <3>0, <4>1 DEF Has, Becomes, TypeOK, LocksCounted
      <4>3. TypeOK'
        BY <3>0, <4>1 DEF TypeOK, Becomes
      <4>4. QueueOfWaiting'
        <5>1. \A i \in 1 .. Len(waiters) : waiters[i] # c
          BY <4>1 DEF QueueOfWaiting
        <5> QED BY <2>0, <3>0, <4>1, <5>1 DEF QueueOfWaiting, Becomes, TypeOK
      <4>5. MutualExclusion' /\ LocksCounted'
        BY <3>0, <4>1, <4>2 DEF MutualExclusion, LocksCounted
      <4> QED BY <4>1, <4>3, <4>4, <4>5
    <3> QED BY <3>1, <3>2
  <2>2. ASSUME NEW c \in LockCalls, Release(c) PROVE Inv'
    <3>1. CASE phase[c] = "holding"
      BY <2>2, <3>1, UnlockKeepsInv DEF Release, Unused
    <3>2. CASE phase[c] # "holding"
      BY <2>2, <3>2 DEF Release, Unused, vars, TypeOK, MutualExclusion,
                        LocksCounted, QueueOfWaiting, Has
    <3> QED BY <3>1, <3>2
  <2>3. ASSUME NEW c \in WaitCalls, Wait(c) PROVE Inv'
    <3>0. c \in Calls /\ c \notin LockCalls
      BY MutexAssumption DEF Calls
    <3>1. Joins(c) /\ Becomes(c, "waiting") /\ locks' = locks /\ phase[c] = "new"
      BY <2>3 DEF Wait
    <3>2. \A d \in Calls : Has(d)' <=> Has(d)
      BY <3>0, <3>1 DEF Has, Becomes, TypeOK
    <3>3. TypeOK'
      BY <3>0, <3>1, JoinKeepsQueue DEF TypeOK, Becomes
    <3>4. QueueOfWaiting'
      BY <3>0, <3>1, JoinKeepsQueue
    <3>5. MutualExclusion' /\ LocksCounted'
      BY <3>1, <3>2 DEF MutualExclusion, LocksCounted
    <3>6. locks' = 0 => \A i \in 1 .. Len(waiters') : waiters'[i] \notin LockCalls
      <4>1. /\ Len(waiters') = Len(waiters) + 1
            /\ \A i \in 1 .. Len(waiters) : waiters'[i] = waiters[i]
            /\ waiters'[Len(waiters) + 1] = c
        BY <3>0, <3>1, JoinKeepsQueue
      <4> QED BY <2>0, <3>0, <3>1, <4>1
    <3> QED BY <3>3, <3>4, <3>5, <3>6
  <2>4. ASSUME NEW c \in Calls, Resume(c) PROVE Inv'
    <3>1. \A d \in Calls : Has(d)' <=> Has(d)
      BY <2>4 DEF Resume, Has, Becomes, TypeOK
    <3>2. TypeOK'
      BY <2>4 DEF Resume, Becomes, TypeOK
    <3>3. QueueOfWaiting'
      BY <2>0, <2>4 DEF Resume, Becomes, TypeOK, QueueOfWaiting
    <3>4. MutualExclusion' /\ LocksCounted'
      BY <2>4, <3>1 DEF Resume, MutualExclusion, LocksCounted
    <3> QED BY <2>4, <3>2, <3>3, <3>4 DEF Resume
  <2>5. CASE UNCHANGED vars
    BY <2>5 DEF vars, TypeOK, MutualExclusion, LocksCounted, QueueOfWaiting, Has
  <2> QED BY <2>1, <2>2, <2>3, <2>4, <2>5 DEF Next
<1> QED BY <1>1, <1>2, PTL DEF Spec

\* The counter never falls below nothing, as much as is released twice, and the
\* queue holds calls (mutex.ts, unlock()).
THEOREM TypeCorrect == Spec => []TypeOK
<1>1. Inv => TypeOK
  BY DEF Inv
<1> QED BY <1>1, Invariance, PTL

\* One caller at a time has the lock, whatever is released twice.
THEOREM Exclusion == Spec => []MutualExclusion
<1>1. Inv => MutualExclusion
  BY DEF Inv
<1> QED BY <1>1, Invariance, PTL

\* No call of lock() waits in the queue of an unlocked mutex.
THEOREM NoLostWakeup == Spec => []NobodyLeftBehind
<1>1. Inv => NobodyLeftBehind
  <2> SUFFICES ASSUME Inv, locks = 0 PROVE Elems(waiters) \cap LockCalls = {}
    BY DEF NobodyLeftBehind
  <2>1. DOMAIN waiters = 1 .. Len(waiters)
    BY LenProperties DEF Inv, TypeOK
  <2> QED BY <2>1 DEF Inv, Elems
<1> QED BY <1>1, Invariance, PTL

-----------------------------------------------------------------------------
(* The order of the calls.  The calls of lock() in the queue are picked out *)
(* of it by a recursive function.  The library's theorems on induction have *)
(* an operator as their parameter; this one has a set.                      *)

LEMMA SetInduction ==
  ASSUME NEW S \in SUBSET Nat, 0 \in S, \A n \in S : n + 1 \in S
  PROVE  S = Nat
<1> SUFFICES ASSUME Nat \ S # {} PROVE FALSE
  OBVIOUS
<1> DEFINE R == {p \in Nat \X Nat : p[1] < p[2]}
<1>1. R = OpToRel(<, Nat)
  BY Zenon DEF OpToRel
<1>2. IsWellFoundedOn(R, Nat)
  BY <1>1, NatLessThanWellFounded, Zenon
<1>3. \A x, y \in Nat : y < x => <<y, x>> \in R
  OBVIOUS
<1> HIDE DEF R
<1>4. PICK x \in Nat \ S : \A y \in Nat \ S : ~ (<<y, x>> \in R)
  BY <1>2, WFMin
<1>5. x # 0 /\ x - 1 \in Nat /\ x = (x - 1) + 1
  BY <1>4
<1>6. x - 1 \in S
  <2>1. <<x - 1, x>> \in R
    BY <1>3, <1>5
  <2> QED
    BY <1>4, <1>5, <2>1
<1> QED
  BY <1>4, <1>5, <1>6

\* What the function does at i, given what it did before.
Keeping(w, f, i) == IF i = 0 THEN <<>>
                    ELSE IF w[i] \in LockCalls THEN Append(f[i - 1], w[i])
                                               ELSE f[i - 1]

Keeps(w, f, n) == f = [i \in 0 .. n |-> Keeping(w, f, i)]

LEMMA KeptExists == ASSUME NEW w, NEW n \in Nat PROVE \E f : Keeps(w, f, n)
<1> DEFINE S == {m \in Nat : \E f : Keeps(w, f, m)}
<1>1. 0 \in S
  <2> DEFINE f == [i \in 0 .. 0 |-> <<>>]
  <2>1. f = [i \in 0 .. 0 |-> Keeping(w, f, i)]
    BY DEF Keeping
  <2> QED
    BY <2>1 DEF Keeps
<1>2. ASSUME NEW m \in S PROVE m + 1 \in S
  <2>1. PICK f : f = [i \in 0 .. m |-> Keeping(w, f, i)]
    BY DEF Keeps
  <2> DEFINE last == Keeping(w, f, m + 1)
             g == [i \in 0 .. m + 1 |-> IF i = m + 1 THEN last ELSE f[i]]
  <2>2. m \in Nat
    OBVIOUS
  <2>3. \A i \in 0 .. m : g[i] = f[i]
    BY <2>2
  <2>4. ASSUME NEW i \in 0 .. m + 1 PROVE g[i] = Keeping(w, g, i)
    <3>1. CASE i = 0
      <4>1. f[0] = Keeping(w, f, 0)
        BY <2>1, <2>2
      <4> QED
        BY <2>2, <2>3, <3>1, <4>1 DEF Keeping
    <3>2. CASE i # 0
      <4>1. i - 1 \in 0 .. m
        BY <2>2, <3>2
      <4>2. Keeping(w, g, i) = Keeping(w, f, i)
        BY <2>3, <4>1 DEF Keeping
      <4>3. CASE i = m + 1
        BY <4>2, <4>3
      <4>4. CASE i # m + 1
        BY <2>1, <2>2, <4>2, <4>4
      <4> QED
        BY <4>3, <4>4
    <3> QED
      BY <3>1, <3>2
  <2>5. g = [i \in 0 .. m + 1 |-> Keeping(w, g, i)]
    BY <2>4
  <2> HIDE DEF g
  <2> QED
    BY <2>2, <2>5 DEF Keeps
<1> HIDE DEF S
<1>3. S = Nat
  <2>1. S \in SUBSET Nat
    BY DEF S
  <2> QED
    BY <1>1, <1>2, <2>1, SetInduction
<1> QED
  BY <1>3 DEF S

\* The function behind Lockers().
LEMMA LockersKept ==
  ASSUME NEW w \in Seq(Calls)
  PROVE  \E f : /\ Lockers(w) = f[Len(w)]
                /\ f[0] = <<>>
                /\ \A i \in 1 .. Len(w) :
                     f[i] = IF w[i] \in LockCalls THEN Append(f[i - 1], w[i])
                                                  ELSE f[i - 1]
<1> DEFINE f == CHOOSE g : Keeps(w, g, Len(w))
<1>1. Len(w) \in Nat
  BY LenProperties
<1>2. Keeps(w, f, Len(w))
  BY <1>1, KeptExists
<1>3. Lockers(w) = f[Len(w)]
  BY Zenon DEF Lockers, Keeps, Keeping
<1> HIDE DEF f
<1>4. f = [i \in 0 .. Len(w) |-> Keeping(w, f, i)]
  BY <1>2 DEF Keeps
<1>5. \A i \in 0 .. Len(w) : f[i] = Keeping(w, f, i)
  BY <1>4
<1>6. f[0] = <<>>
  BY <1>1, <1>5 DEF Keeping
<1>7. \A i \in 1 .. Len(w) :
        f[i] = IF w[i] \in LockCalls THEN Append(f[i - 1], w[i]) ELSE f[i - 1]
  BY <1>1, <1>5 DEF Keeping
<1> QED
  BY <1>3, <1>6, <1>7

LEMMA LockersTyped ==
  ASSUME NEW w \in Seq(Calls), NEW f,
         f[0] = <<>>,
         \A i \in 1 .. Len(w) :
           f[i] = IF w[i] \in LockCalls THEN Append(f[i - 1], w[i]) ELSE f[i - 1]
  PROVE  \A i \in 0 .. Len(w) : f[i] \in Seq(LockCalls)
<1> DEFINE S == {i \in Nat : i <= Len(w) => f[i] \in Seq(LockCalls)}
<1>1. Len(w) \in Nat
  BY LenProperties
<1>2. 0 \in S
  BY EmptySeq
<1>3. ASSUME NEW i \in S PROVE i + 1 \in S
  <2>1. i \in Nat /\ i + 1 \in Nat
    OBVIOUS
  <2>2. ASSUME i + 1 <= Len(w) PROVE f[i + 1] \in Seq(LockCalls)
    <3>1. i + 1 \in 1 .. Len(w) /\ (i + 1) - 1 = i /\ f[i] \in Seq(LockCalls)
      BY <1>1, <2>1, <2>2
    <3>2. f[i + 1] = IF w[i + 1] \in LockCalls THEN Append(f[i], w[i + 1]) ELSE f[i]
      BY <3>1
    <3>3. CASE w[i + 1] \in LockCalls
      BY <3>1, <3>2, <3>3, AppendProperties
    <3>4. CASE w[i + 1] \notin LockCalls
      BY <3>1, <3>2, <3>4
    <3> QED
      BY <3>3, <3>4
  <2> QED
    BY <2>1, <2>2
<1>4. S = Nat
  <2> HIDE DEF S
  <2>1. S \in SUBSET Nat
    BY DEF S
  <2> QED
    BY <1>2, <1>3, <2>1, SetInduction
<1> QED
  BY <1>1, <1>4

LEMMA LockersAreCalls ==
  ASSUME NEW w \in Seq(Calls) PROVE Lockers(w) \in Seq(LockCalls)
<1>1. PICK f : /\ Lockers(w) = f[Len(w)]
               /\ f[0] = <<>>
               /\ \A i \in 1 .. Len(w) :
                    f[i] = IF w[i] \in LockCalls THEN Append(f[i - 1], w[i])
                                                 ELSE f[i - 1]
  BY LockersKept
<1>2. Len(w) \in 0 .. Len(w)
  BY LenProperties
<1> QED
  BY <1>1, <1>2, LockersTyped

\* A call that joins the queue joins the line behind all others, if it is one
\* of lock().
LEMMA LockersOfLonger ==
  ASSUME NEW w \in Seq(Calls), NEW c \in Calls
  PROVE  Lockers(Append(w, c)) = IF c \in LockCalls THEN Append(Lockers(w), c)
                                                    ELSE Lockers(w)
<1> DEFINE v == Append(w, c)
<1>1. /\ Len(w) \in Nat /\ v \in Seq(Calls) /\ Len(v) = Len(w) + 1
      /\ \A i \in 1 .. Len(w) : v[i] = w[i]
      /\ v[Len(w) + 1] = c
  BY AppendProperties, LenProperties
<1> HIDE DEF v
<1>2. PICK f : /\ Lockers(w) = f[Len(w)]
               /\ f[0] = <<>>
               /\ \A i \in 1 .. Len(w) :
                    f[i] = IF w[i] \in LockCalls THEN Append(f[i - 1], w[i])
                                                 ELSE f[i - 1]
  BY LockersKept
<1>3. PICK g : /\ Lockers(v) = g[Len(v)]
               /\ g[0] = <<>>
               /\ \A i \in 1 .. Len(v) :
                    g[i] = IF v[i] \in LockCalls THEN Append(g[i - 1], v[i])
                                                 ELSE g[i - 1]
  BY <1>1, LockersKept
<1> DEFINE S == {i \in Nat : i <= Len(w) => g[i] = f[i]}
<1>4. 0 \in S
  BY <1>2, <1>3
<1>5. ASSUME NEW i \in S PROVE i + 1 \in S
  <2>1. i \in Nat /\ i + 1 \in Nat
    OBVIOUS
  <2>2. ASSUME i + 1 <= Len(w) PROVE g[i + 1] = f[i + 1]
    <3>1. /\ i + 1 \in 1 .. Len(w) /\ i + 1 \in 1 .. Len(v)
          /\ (i + 1) - 1 = i /\ g[i] = f[i] /\ v[i + 1] = w[i + 1]
      BY <1>1, <2>1, <2>2
    <3>2. f[i + 1] = IF w[i + 1] \in LockCalls THEN Append(f[i], w[i + 1]) ELSE f[i]
      BY <1>2, <3>1
    <3>3. g[i + 1] = IF v[i + 1] \in LockCalls THEN Append(g[i], v[i + 1]) ELSE g[i]
      BY <1>3, <3>1
    <3> QED
      BY <3>1, <3>2, <3>3
  <2> QED
    BY <2>1, <2>2
<1>6. S = Nat
  <2> HIDE DEF S
  <2>1. S \in SUBSET Nat
    BY DEF S
  <2> QED
    BY <1>4, <1>5, <2>1, SetInduction
<1>7. g[Len(w)] = f[Len(w)]
  BY <1>1, <1>6
<1>8. Len(v) \in 1 .. Len(v) /\ Len(v) - 1 = Len(w) /\ v[Len(v)] = c
  BY <1>1
<1>9. g[Len(v)] = IF c \in LockCalls THEN Append(g[Len(w)], c) ELSE g[Len(w)]
  BY <1>3, <1>8
<1> QED
  BY <1>2, <1>3, <1>7, <1>9 DEF v

\* No call of lock() in the queue, nobody in the line.
LEMMA NoLockers ==
  ASSUME NEW w \in Seq(Calls), \A i \in 1 .. Len(w) : w[i] \notin LockCalls
  PROVE  Lockers(w) = <<>>
<1>1. PICK f : /\ Lockers(w) = f[Len(w)]
               /\ f[0] = <<>>
               /\ \A i \in 1 .. Len(w) :
                    f[i] = IF w[i] \in LockCalls THEN Append(f[i - 1], w[i])
                                                 ELSE f[i - 1]
  BY LockersKept
<1> DEFINE S == {i \in Nat : i <= Len(w) => f[i] = <<>>}
<1>2. Len(w) \in Nat
  BY LenProperties
<1>3. 0 \in S
  BY <1>1
<1>4. ASSUME NEW i \in S PROVE i + 1 \in S
  <2>1. i \in Nat /\ i + 1 \in Nat
    OBVIOUS
  <2>2. ASSUME i + 1 <= Len(w) PROVE f[i + 1] = <<>>
    <3>1. i + 1 \in 1 .. Len(w) /\ (i + 1) - 1 = i /\ f[i] = <<>>
      BY <1>2, <2>1, <2>2
    <3> QED
      BY <1>1, <3>1
  <2> QED
    BY <2>1, <2>2
<1>5. S = Nat
  <2> HIDE DEF S
  <2>1. S \in SUBSET Nat
    BY DEF S
  <2> QED
    BY <1>3, <1>4, <2>1, SetInduction
<1> QED
  BY <1>1, <1>2, <1>5

\* Serving calls of wait() and, last, one of lock() serves the first in line.
LEMMA LockersOfRest ==
  ASSUME NEW w \in Seq(Calls), NEW n \in 1 .. Len(w),
         \A i \in 1 .. n - 1 : w[i] \notin LockCalls, w[n] \in LockCalls
  PROVE  Lockers(w) = <<w[n]>> \o Lockers(SubSeq(w, n + 1, Len(w)))
<1> DEFINE v == SubSeq(w, n + 1, Len(w))
<1>1. /\ Len(w) \in Nat /\ n \in Nat /\ n >= 1
      /\ v \in Seq(Calls) /\ Len(v) = Len(w) - n
      /\ \A i \in 1 .. Len(v) : v[i] = w[n + i]
  <2>1. Len(w) \in Nat
    BY LenProperties
  <2>2. \A i \in n + 1 .. Len(w) : w[i] \in Calls
    BY <2>1, ElementOfSeq
  <2>3. n + 1 \in Int /\ Len(w) \in Int
    BY <2>1
  <2> QED
    BY <2>1, <2>2, <2>3, SubSeqProperties
<1> HIDE DEF v
<1>2. PICK f : /\ Lockers(w) = f[Len(w)]
               /\ f[0] = <<>>
               /\ \A i \in 1 .. Len(w) :
                    f[i] = IF w[i] \in LockCalls THEN Append(f[i - 1], w[i])
                                                 ELSE f[i - 1]
  BY LockersKept
<1>3. PICK g : /\ Lockers(v) = g[Len(v)]
               /\ g[0] = <<>>
               /\ \A i \in 1 .. Len(v) :
                    g[i] = IF v[i] \in LockCalls THEN Append(g[i - 1], v[i])
                                                 ELSE g[i - 1]
  BY <1>1, LockersKept
<1>4. \A i \in 0 .. Len(v) : g[i] \in Seq(LockCalls)
  BY <1>1, <1>3, LockersTyped
<1> DEFINE S == {i \in Nat : i < n => f[i] = <<>>}
<1>5. 0 \in S
  BY <1>2
<1>6. ASSUME NEW i \in S PROVE i + 1 \in S
  <2>1. i \in Nat /\ i + 1 \in Nat
    OBVIOUS
  <2>2. ASSUME i + 1 < n PROVE f[i + 1] = <<>>
    <3>1. /\ i + 1 \in 1 .. Len(w) /\ i + 1 \in 1 .. n - 1
          /\ (i + 1) - 1 = i /\ f[i] = <<>>
      BY <1>1, <2>1, <2>2
    <3> QED
      BY <1>2, <3>1
  <2> QED
    BY <2>1, <2>2
<1>7. S = Nat
  <2> HIDE DEF S
  <2>1. S \in SUBSET Nat
    BY DEF S
  <2> QED
    BY <1>5, <1>6, <2>1, SetInduction
<1>8. f[n] = <<w[n]>>
  <2>1. n - 1 \in Nat /\ n - 1 < n /\ n \in 1 .. Len(w)
    BY <1>1
  <2>2. f[n - 1] = <<>>
    BY <1>7, <2>1
  <2>3. f[n] = Append(<<>>, w[n])
    BY <1>2, <2>1, <2>2
  <2> QED
    BY <2>3
<1> DEFINE h == <<w[n]>>
<1>h. h \in Seq(LockCalls) /\ f[n] = h
  BY <1>8
<1> HIDE DEF h
<1> DEFINE T == {i \in Nat : i <= Len(v) => f[n + i] = h \o g[i]}
<1>9. 0 \in T
  <2>1. h \o <<>> = h
    BY <1>h, ConcatEmptySeq
  <2>2. n + 0 = n
    BY <1>1
  <2>3. f[n + 0] = h \o g[0]
    BY <1>3, <1>h, <2>1, <2>2
  <2> QED
    BY <2>3
<1>10. ASSUME NEW i \in T PROVE i + 1 \in T
  <2>1. i \in Nat /\ i + 1 \in Nat
    OBVIOUS
  <2>2. ASSUME i + 1 <= Len(v) PROVE f[n + (i + 1)] = h \o g[i + 1]
    <3>1. /\ i + 1 \in 1 .. Len(v) /\ (i + 1) - 1 = i /\ i \in 0 .. Len(v)
          /\ n + (i + 1) \in 1 .. Len(w) /\ (n + (i + 1)) - 1 = n + i
          /\ v[i + 1] = w[n + (i + 1)]
      BY <1>1, <2>1, <2>2
    <3>2. f[n + i] = h \o g[i]
      BY <3>1
    <3>3. f[n + (i + 1)] = IF v[i + 1] \in LockCalls
                           THEN Append(f[n + i], v[i + 1]) ELSE f[n + i]
      BY <1>2, <3>1
    <3>4. g[i + 1] = IF v[i + 1] \in LockCalls THEN Append(g[i], v[i + 1]) ELSE g[i]
      BY <1>3, <3>1
    <3>5. CASE v[i + 1] \notin LockCalls
      BY <3>2, <3>3, <3>4, <3>5
    <3>6. CASE v[i + 1] \in LockCalls
      <4> DEFINE a == v[i + 1]
                 s == g[i]
      <4>1. a \in LockCalls /\ s \in Seq(LockCalls) /\ <<a>> \in Seq(LockCalls)
        BY <1>4, <3>1, <3>6
      <4>2. f[n + (i + 1)] = Append(h \o s, a) /\ g[i + 1] = Append(s, a)
        BY <3>2, <3>3, <3>4, <3>6
      <4> HIDE DEF a, s
      <4>3. h \o s \in Seq(LockCalls)
        BY <1>h, <4>1, ConcatProperties
      <4>4. Append(h \o s, a) = (h \o s) \o <<a>> /\ Append(s, a) = s \o <<a>>
        BY <4>1, <4>3, AppendIsConcat
      <4>5. (h \o s) \o <<a>> = h \o (s \o <<a>>)
        BY <1>h, <4>1, ConcatAssociative
      <4>6. f[n + (i + 1)] = h \o g[i + 1]
        BY <4>2, <4>4, <4>5
      <4> QED
        BY <4>6
    <3> QED
      BY <3>5, <3>6
  <2> QED
    BY <2>1, <2>2
<1>11. T = Nat
  <2> HIDE DEF T
  <2>1. T \in SUBSET Nat
    BY DEF T
  <2> QED
    BY <1>9, <1>10, <2>1, SetInduction
<1>12. \A i \in Nat : i <= Len(v) => f[n + i] = h \o g[i]
  BY <1>11
<1>13. f[Len(w)] = h \o g[Len(v)]
  <2>1. Len(v) \in Nat /\ Len(v) <= Len(v) /\ n + Len(v) = Len(w)
    BY <1>1
  <2>2. f[n + Len(v)] = h \o g[Len(v)]
    BY <1>12, <2>1
  <2> QED
    BY <2>1, <2>2
<1> QED
  BY <1>2, <1>3, <1>13 DEF v, h

-----------------------------------------------------------------------------
(* The refinement: every step of the mutex is a step of FifoLock, or none. *)

LEMMA LineOfHolder ==
  ASSUME Inv
  PROVE  /\ \A c \in Calls : Has(c) => Line = <<c>> \o Lockers(waiters)
         /\ (\A c \in Calls : ~Has(c)) => Line = <<>>
<1> DEFINE holder == {c \in Calls : Has(c)}
<1>w. waiters \in Seq(Calls) /\ Lockers(waiters) \in Seq(LockCalls)
  BY LockersAreCalls DEF Inv, TypeOK
<1>1. ASSUME NEW c \in Calls, Has(c) PROVE Line = <<c>> \o Lockers(waiters)
  <2>1. holder = {c}
    BY <1>1 DEF Inv, MutualExclusion
  <2>2. (CHOOSE d \in holder : TRUE) = c
    BY <2>1
  <2>3. holder # {}
    BY <2>1
  <2> QED
    BY <2>2, <2>3, Zenon DEF Line
<1>2. ASSUME \A c \in Calls : ~Has(c) PROVE Line = <<>>
  <2>1. holder = {}
    BY <1>2
  <2>2. locks = 0
    BY <1>2 DEF Inv, LocksCounted
  <2>3. Lockers(waiters) = <<>>
    BY <1>w, <2>2, NoLockers DEF Inv
  <2>4. <<>> \o <<>> = <<>>
    BY ConcatEmptySeq, EmptySeq
  <2> QED
    BY <2>1, <2>3, <2>4, Zenon DEF Line
<1> QED
  BY <1>1, <1>2

LEMMA LineOfHolderNext ==
  ASSUME Inv'
  PROVE  /\ \A c \in Calls : Has(c)' => Line' = <<c>> \o Lockers(waiters')
         /\ (\A c \in Calls : ~Has(c)') => Line' = <<>>
<1>1. (Inv => /\ \A c \in Calls : Has(c) => Line = <<c>> \o Lockers(waiters)
              /\ (\A c \in Calls : ~Has(c)) => Line = <<>>)'
  BY LineOfHolder, PTL
<1> QED
  BY <1>1

LEMMA AppendOfConcat ==
  ASSUME NEW S, NEW s \in Seq(S), NEW t \in Seq(S), NEW e \in S
  PROVE  s \o Append(t, e) = Append(s \o t, e)
<1>1. <<e>> \in Seq(S) /\ s \o t \in Seq(S)
  BY ConcatProperties
<1>2. Append(t, e) = t \o <<e>> /\ Append(s \o t, e) = (s \o t) \o <<e>>
  BY <1>1, AppendIsConcat
<1>3. (s \o t) \o <<e>> = s \o (t \o <<e>>)
  BY <1>1, ConcatAssociative
<1> QED
  BY <1>2, <1>3

LEMMA TailOfFirst ==
  ASSUME NEW S, NEW e \in S, NEW s \in Seq(S)
  PROVE  /\ <<e>> \o s # <<>>
         /\ Tail(<<e>> \o s) = s
<1> DEFINE q == <<e>> \o s
<1>1. /\ Len(s) \in Nat
      /\ q \in Seq(S) /\ Len(q) = 1 + Len(s)
      /\ \A i \in 1 .. Len(s) : q[i + 1] = s[i]
  <2> DEFINE h == <<e>>
  <2>1. h \in Seq(S) /\ Len(h) = 1 /\ Len(s) \in Nat
    BY LenProperties
  <2> HIDE DEF h
  <2>2. /\ h \o s \in Seq(S) /\ Len(h \o s) = 1 + Len(s)
        /\ \A i \in 1 .. 1 + Len(s) : (h \o s)[i] = IF i <= 1 THEN h[i] ELSE s[i - 1]
    BY <2>1, ConcatProperties
  <2>3. \A i \in 1 .. Len(s) : (h \o s)[i + 1] = s[i]
    BY <2>1, <2>2
  <2> QED
    BY <2>1, <2>2, <2>3 DEF h
<1> HIDE DEF q
<1>2. q # <<>>
  BY <1>1, EmptySeq
<1>3. /\ Tail(q) \in Seq(S) /\ Len(Tail(q)) = Len(s)
      /\ \A i \in 1 .. Len(s) : Tail(q)[i] = q[i + 1]
  BY <1>1, <1>2, HeadTailProperties
<1>4. Tail(q) = s
  BY <1>1, <1>3, SeqEqual
<1> QED
  BY <1>2, <1>4 DEF q

\* Who has the lock, and who is in line for it, is all the line tells.
LEMMA SameLine ==
  ASSUME Inv, Inv', \A c \in Calls : Has(c)' <=> Has(c),
         Lockers(waiters') = Lockers(waiters)
  PROVE  Line' = Line
<1>1. CASE \E c \in Calls : Has(c)
  <2>1. PICK c \in Calls : Has(c) /\ Has(c)'
    BY <1>1
  <2>2. Line = <<c>> \o Lockers(waiters)
    BY <2>1, LineOfHolder
  <2>3. Line' = <<c>> \o Lockers(waiters')
    BY <2>1, LineOfHolderNext
  <2> QED
    BY <2>2, <2>3
<1>2. CASE \A c \in Calls : ~Has(c)
  <2>1. \A c \in Calls : ~Has(c)'
    BY <1>2
  <2> QED
    BY <1>2, <2>1, LineOfHolder, LineOfHolderNext
<1> QED
  BY <1>1, <1>2

LEMMA StepRefines == Inv /\ Inv' /\ [Next]_vars => [Fifo!Next]_Line
<1> SUFFICES ASSUME Inv, Inv', [Next]_vars PROVE Line' = Line \/ Fifo!Next
  OBVIOUS
<1>t. /\ waiters \in Seq(Calls) /\ Len(waiters) \in Nat
      /\ phase \in [Calls -> {"new", "waiting", "resolved", "holding",
                              "released", "done"}]
      /\ LockCalls \subseteq Calls /\ \A c \in WaitCalls : c \in Calls \ LockCalls
  BY LenProperties, MutexAssumption DEF Inv, TypeOK, Calls
<1>1. ASSUME NEW c \in LockCalls, Lock(c) PROVE Line' = Line \/ Fifo!Next
  <2>1. CASE locks > 0
    <3>1. waiters' = Append(waiters, c) /\ phase[c] = "new" /\ Becomes(c, "waiting")
      BY <1>1, <2>1 DEF Lock, Joins
    <3>2. PICK d \in Calls : Has(d)
      BY <2>1 DEF Inv, LocksCounted
    <3>3. Has(d)'
      BY <1>t, <3>1, <3>2 DEF Has, Becomes
    <3>4. Line = <<d>> \o Lockers(waiters) /\ Line' = <<d>> \o Lockers(waiters')
      BY <3>2, <3>3, LineOfHolder, LineOfHolderNext
    <3>5. Lockers(waiters') = Append(Lockers(waiters), c)
      BY <1>t, <3>1, LockersOfLonger
    <3>6. <<d>> \in Seq(LockCalls) /\ Lockers(waiters) \in Seq(LockCalls)
          /\ <<c>> \in Seq(LockCalls)
      BY <1>t, <3>2, LockersAreCalls DEF Has
    <3>7. <<d>> \o Append(Lockers(waiters), c) = Append(<<d>> \o Lockers(waiters), c)
      BY <3>6, AppendOfConcat
    <3>8. Line' = Append(Line, c)
      BY <3>4, <3>5, <3>7
    <3> QED
      BY <3>8 DEF Fifo!Next, Fifo!Request
  <2>2. CASE ~(locks > 0)
    <3>1. /\ locks = 0 /\ phase[c] = "new"
          /\ Becomes(c, "resolved") /\ waiters' = waiters
      BY <1>1, <2>2 DEF Lock, Inv, TypeOK
    <3>2. \A d \in Calls : ~Has(d)
      BY <3>1 DEF Inv, LocksCounted
    <3>3. Has(c)' /\ c \in Calls
      BY <1>t, <3>1 DEF Has, Becomes
    <3>4. Line = <<>> /\ Line' = <<c>> \o Lockers(waiters)
      BY <3>1, <3>2, <3>3, LineOfHolder, LineOfHolderNext
    <3>5. Lockers(waiters) = <<>>
      BY <1>t, <3>1, NoLockers DEF Inv
    <3>6. <<c>> \o <<>> = <<c>> /\ Append(<<>>, c) = <<c>>
      BY ConcatEmptySeq, <<c>> \in Seq(LockCalls)
    <3>7. Line' = Append(Line, c)
      BY <3>4, <3>5, <3>6
    <3> QED
      BY <3>7 DEF Fifo!Next, Fifo!Request
  <2> QED
    BY <2>1, <2>2
<1>2. ASSUME NEW c \in LockCalls, Release(c) PROVE Line' = Line \/ Fifo!Next
  <2>1. CASE phase[c] = "holding"
    <3>1. PICK n \in 0 .. Len(waiters) :
            /\ IF locks = 1 THEN LoopServes(waiters, n) ELSE n = 0
            /\ waiters' = SubSeq(waiters, n + 1, Len(waiters))
            /\ phase' = [d \in Calls |->
                           IF d = c THEN "released"
                           ELSE IF \E i \in 1 .. n : waiters[i] = d THEN "resolved"
                           ELSE phase[d]]
      BY <1>2, <2>1 DEF Release, Unused, Unlock
    <3>2. Has(c) /\ c \in Calls
      BY <2>1 DEF Has, Calls
    <3>3. LoopServes(waiters, n)
      BY <3>1, <3>2 DEF Inv, LocksCounted
    <3>4. Line = <<c>> \o Lockers(waiters)
      BY <3>2, LineOfHolder
    <3>5. <<c>> \in Seq(LockCalls) /\ Lockers(waiters) \in Seq(LockCalls)
      BY <1>t, LockersAreCalls
    <3>6. Line # <<>> /\ Tail(Line) = Lockers(waiters)
      BY <3>4, <3>5, TailOfFirst
    <3>7. \A i \in 1 .. n - 1 : waiters[i] \notin LockCalls
      BY <3>3, MutexAssumption DEF LoopServes
    <3>8. Line' = Lockers(waiters)
      <4>1. CASE n > 0 /\ waiters[n] \in LockCalls
        <5>1. n \in 1 .. Len(waiters)
          BY <1>t, <4>1
        <5>2. Lockers(waiters) = <<waiters[n]>> \o Lockers(waiters')
          BY <1>t, <3>1, <3>7, <4>1, <5>1, LockersOfRest
        <5>3. PICK d \in Calls : d = waiters[n] /\ d # c
          BY <1>t, <2>1, <4>1, <5>1 DEF Inv, QueueOfWaiting
        <5>4. phase'[d] = "resolved" /\ d \in LockCalls
          BY <3>1, <4>1, <5>1, <5>3
        <5>5. Has(d)'
          BY <5>4 DEF Has
        <5>6. Line' = <<d>> \o Lockers(waiters')
          BY <5>3, <5>5, LineOfHolderNext
        <5> QED
          BY <5>2, <5>3, <5>6
      <4>2. CASE ~(n > 0 /\ waiters[n] \in LockCalls)
        <5>1. n = Len(waiters)
          BY <3>3, <4>2 DEF LoopServes
        <5>2. \A i \in 1 .. Len(waiters) : waiters[i] \notin LockCalls
          BY <1>t, <3>7, <4>2, <5>1
        <5>3. Lockers(waiters) = <<>>
          BY <1>t, <5>2, NoLockers
        <5>4. ASSUME NEW d \in Calls PROVE ~Has(d)'
          <6>1. CASE d = c
            BY <3>1, <3>2, <6>1 DEF Has
          <6>2. CASE d # c /\ \E i \in 1 .. n : waiters[i] = d
            BY <5>1, <5>2, <6>2 DEF Has
          <6>3. CASE d # c /\ ~ \E i \in 1 .. n : waiters[i] = d
            <7>1. phase'[d] = phase[d] /\ ~Has(d)
              BY <3>1, <3>2, <6>3 DEF Inv, MutualExclusion
            <7> QED
              BY <7>1 DEF Has
          <6> QED
            BY <6>1, <6>2, <6>3
        <5> QED
          BY <5>3, <5>4, LineOfHolderNext
      <4> QED
        BY <4>1, <4>2
    <3> QED
      BY <3>6, <3>8 DEF Fifo!Next, Fifo!Release
  <2>2. CASE phase[c] # "holding"
    <3>1. UNCHANGED vars
      BY <1>2, <2>2 DEF Release, Unused
    <3>2. (\A d \in Calls : Has(d)' <=> Has(d)) /\ waiters' = waiters
      BY <3>1 DEF vars, Has
    <3> QED
      BY <3>2, SameLine
  <2> QED
    BY <2>1, <2>2
<1>3. ASSUME NEW c \in WaitCalls, Wait(c) PROVE Line' = Line
  <2>1. /\ waiters' = Append(waiters, c) /\ c \in Calls \ LockCalls
        /\ Becomes(c, "waiting")
    BY <1>3, <1>t DEF Wait, Joins
  <2>2. Lockers(waiters') = Lockers(waiters)
    BY <1>t, <2>1, LockersOfLonger
  <2>3. \A d \in Calls : Has(d)' <=> Has(d)
    BY <1>t, <2>1 DEF Has, Becomes
  <2> QED
    BY <2>2, <2>3, SameLine
<1>4. ASSUME NEW c \in Calls, Resume(c) PROVE Line' = Line
  <2>1. (\A d \in Calls : Has(d)' <=> Has(d)) /\ waiters' = waiters
    BY <1>4, <1>t DEF Resume, Has, Becomes
  <2> QED
    BY <2>1, SameLine
<1>5. ASSUME UNCHANGED vars PROVE Line' = Line
  <2>1. (\A d \in Calls : Has(d)' <=> Has(d)) /\ waiters' = waiters
    BY <1>5 DEF vars, Has
  <2> QED
    BY <2>1, SameLine
<1> QED
  BY <1>1, <1>2, <1>3, <1>4, <1>5 DEF Next

(* The mutex is handed on in the order in which lock() was called, whoever *)
(* else waits for it (mutex.ts, lines 21-38 and 67-88).                    *)
THEOREM HandedOnInOrder == Spec => RefinesFifoLock
<1>1. Init => Fifo!Init
  <2> SUFFICES ASSUME Init PROVE Line = <<>>
    BY DEF Fifo!Init
  <2>1. Inv
    BY InitIsInv
  <2>2. \A c \in Calls : ~Has(c)
    BY DEF Init, Has
  <2> QED
    BY <2>1, <2>2, LineOfHolder
<1> QED
  BY <1>1, StepRefines, Invariance, PTL DEF Spec, RefinesFifoLock, Fifo!Spec
=============================================================================
