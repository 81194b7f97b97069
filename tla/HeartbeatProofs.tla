-------------------------- MODULE HeartbeatProofs --------------------------
(* What Heartbeat promises for every interval, timeout and round trip. *)
EXTENDS Heartbeat, TLAPS

\* How far the timeout is away: the time since the last pong is at most the
\* missed pings' intervals, the one the ping under way was sent after, and
\* what has passed of the present one.
PingsWaited == missed + (IF pong = None THEN 1 ELSE 2)

TimeoutIsFar ==
  /\ PingsWaited = 1 => untilTimeout >= Timeout - Interval + untilPing
  /\ PingsWaited = 2 => untilTimeout >= Timeout - 2 * Interval + untilPing
  /\ PingsWaited = 3 => untilTimeout >= Timeout - 3 * Interval + untilPing

PongIsOnTime == pong # None => pong + (Interval - untilPing) <= MaxRtt

Inv == /\ TypeOK
       /\ silence + untilTimeout = Timeout
       /\ PongIsOnTime
       /\ ~timedOut => TimeoutIsFar

(* The timers, the pong under way and the history stay as Inv says.        *)
THEOREM Invariance == Spec => []Inv
<1> USE HeartbeatAssumption DEF TypeOK, Inv
<1>1. Init => Inv
  <2> SUFFICES ASSUME Init PROVE Inv
    OBVIOUS
  <2>1. PingsWaited = 1
    BY DEF Init, PingsWaited
  <2>2. TypeOK
    <3>1. timedOut \in BOOLEAN
      BY Zenon DEF Init
    <3>2. /\ untilPing \in 0 .. Interval /\ untilTimeout \in 0 .. Timeout
          /\ pong \in 0 .. MaxRtt \cup {None}
          /\ missed \in 0 .. MaxMissed /\ silence \in Nat
      BY DEF Init
    <3> QED
      BY <3>1, <3>2
  <2>3. PongIsOnTime /\ TimeoutIsFar /\ silence + untilTimeout = Timeout
    BY <2>1 DEF Init, PongIsOnTime, TimeoutIsFar
  <2> QED
    BY <2>2, <2>3
<1>2. Inv /\ [Next]_vars => Inv'
  <2> SUFFICES ASSUME Inv, [Next]_vars PROVE Inv'
    OBVIOUS
  <2>1. CASE SendHeartbeat
    <3>1. pong = None
      BY <2>1 DEF SendHeartbeat, PongIsOnTime
    <3>2. CASE pong' = None /\ missed' = missed + 1
      <4>1. PingsWaited' = PingsWaited + 1
        BY <3>1, <3>2 DEF PingsWaited
      <4> QED
        BY <2>1, <3>1, <3>2, <4>1
        DEF SendHeartbeat, PingLeavesTimeout, PongIsOnTime, TimeoutIsFar, PingsWaited
    <3>3. CASE pong' \in 0 .. MaxRtt /\ missed' = missed
      <4>1. PingsWaited' = PingsWaited + 1
        BY <3>1, <3>3 DEF PingsWaited
      <4> QED
        BY <2>1, <3>1, <3>3, <4>1
        DEF SendHeartbeat, PingLeavesTimeout, PongIsOnTime, TimeoutIsFar, PingsWaited
    <3> QED
      BY <2>1, <3>2, <3>3 DEF SendHeartbeat
  <2>2. CASE PongArrives
    BY <2>2 DEF PongArrives, RestartHeartbeatTimeout, PongIsOnTime,
                TimeoutIsFar, PingsWaited
  <2>3. CASE OnHeartbeatTimeout
    BY <2>3 DEF OnHeartbeatTimeout, PongIsOnTime
  <2>4. CASE Tick
    <3>1. PingsWaited' = PingsWaited
      BY <2>4 DEF Tick, PingsWaited
    <3> QED
      BY <2>4, <3>1 DEF Tick, PongIsOnTime, TimeoutIsFar, PingsWaited
  <2>5. CASE UNCHANGED vars
    BY <2>5 DEF vars, PongIsOnTime, TimeoutIsFar, PingsWaited
  <2> QED
    BY <2>1, <2>2, <2>3, <2>4, <2>5 DEF Next
<1> QED
  BY <1>1, <1>2, PTL DEF Spec

(* No timer runs beyond what it was set to, and a pong that comes is not    *)
(* later than a round trip (connector.ts, startHeartbeat()).                *)
THEOREM TypeCorrect == Spec => []TypeOK
<1>1. Inv => TypeOK
  BY DEF Inv
<1> QED
  BY <1>1, Invariance, PTL

(* A connection without any sign of life is not kept beyond the timeout.   *)
THEOREM ZombiesFound == Spec => []SilenceIsNoticed
<1>1. Inv => SilenceIsNoticed
  BY HeartbeatAssumption DEF Inv, TypeOK, SilenceIsNoticed
<1> QED
  BY <1>1, Invariance, PTL

(* One heartbeat may go missing, provided that a round trip always takes   *)
(* less than what timeoutHeartbeat is over two intervals.                  *)
THEOREM OneMayBeMissing ==
  ASSUME MaxRtt < Timeout - 2 * Interval
  PROVE  Spec => []MissingOneIsAllowed
<1> USE HeartbeatAssumption
<1>1. Init => MissingOneIsAllowed
  BY DEF Init, MissingOneIsAllowed
<1>2. Inv /\ MissingOneIsAllowed /\ [Next]_vars => MissingOneIsAllowed'
  <2> SUFFICES ASSUME Inv, MissingOneIsAllowed, [Next]_vars
               PROVE  MissingOneIsAllowed'
    OBVIOUS
  <2>1. CASE OnHeartbeatTimeout
    <3>1. TimeoutIsFar /\ untilTimeout = 0 /\ missed' = missed
      BY <2>1 DEF OnHeartbeatTimeout, Inv
    <3>2. missed # 0 /\ missed # 1
      BY <3>1 DEF Inv, TypeOK, TimeoutIsFar, PingsWaited, PongIsOnTime
    <3> QED
      BY <3>1, <3>2 DEF Inv, TypeOK, MissingOneIsAllowed
  <2>2. CASE ~OnHeartbeatTimeout
    BY <2>2 DEF Next, vars, SendHeartbeat, PongArrives, Tick, MissingOneIsAllowed
  <2> QED
    BY <2>1, <2>2
<1> QED
  BY <1>1, <1>2, Invariance, PTL DEF Spec
=============================================================================
