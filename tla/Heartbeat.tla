----------------------------- MODULE Heartbeat -----------------------------
(***************************************************************************)
(* packages/websocket/src/connector.ts: how an open connection is found to *)
(* be dead.  A ping goes out every intervalHeartbeat; a pong restarts the  *)
(* timer of timeoutHeartbeat, whose callback disconnects.  Time passes in  *)
(* units; whatever is due happens before the clock moves on, in any order. *)
(* This is the connector over a global WebSocket: over Node's ws, whose    *)
(* messages are Buffers, no message is ever equal to "pong".               *)
(***************************************************************************)
EXTENDS Integers

CONSTANTS Interval,   \* intervalHeartbeat
          Timeout,    \* timeoutHeartbeat
          MaxRtt,     \* a pong that comes at all comes within this time
          None,       \* no pong under way
          MaxMissed   \* bound: pings in a row that go unanswered

ASSUME HeartbeatAssumption ==
  /\ Interval \in Nat \ {0} /\ Timeout \in Nat \ {0}
  /\ MaxRtt \in 0 .. Interval - 1
  /\ None \notin Int
  /\ MaxMissed \in Nat \ {0}

VARIABLES untilPing,     \* time left to the next call of sendHeartbeat()
          untilTimeout,  \* time left to onHeartbeatTimeout()
          pong,          \* time until the pong under way arrives, or None
          missed,        \* history: the pings in a row without an answer
          silence,       \* history: time since the last pong, or since onOpen()
          timedOut       \* onHeartbeatTimeout() has disconnected

vars == <<untilPing, untilTimeout, pong, missed, silence, timedOut>>

\* startHeartbeat(), called by onOpen().
Init == /\ untilPing = Interval
        /\ untilTimeout = Timeout
        /\ pong = None
        /\ missed = 0
        /\ silence = 0
        /\ timedOut = FALSE

-----------------------------------------------------------------------------
(* Variants of definitions below, each with a plausible mistake in it; the *)
(* runs show that the properties notice.                                   *)

RestartsOnce == UNCHANGED untilTimeout              \* pong does not restart
PingIsALifeSign == untilTimeout' = Timeout          \* restarted by the ping

-----------------------------------------------------------------------------

RestartHeartbeatTimeout == untilTimeout' = Timeout

PingLeavesTimeout == UNCHANGED untilTimeout

(* setInterval() calls sendHeartbeat(): the ping is answered, or it is not. *)
SendHeartbeat ==
  /\ ~timedOut
  /\ untilPing = 0
  /\ untilPing' = Interval
  /\ PingLeavesTimeout
  /\ \/ \E rtt \in 0 .. MaxRtt : pong' = rtt /\ UNCHANGED missed
     \/ missed < MaxMissed /\ missed' = missed + 1 /\ pong' = None
  /\ UNCHANGED <<silence, timedOut>>

\* onMessage() with "pong".
PongArrives ==
  /\ ~timedOut
  /\ pong = 0
  /\ pong' = None
  /\ missed' = 0
  /\ silence' = 0
  /\ RestartHeartbeatTimeout
  /\ UNCHANGED <<untilPing, timedOut>>

\* onHeartbeatTimeout(): disconnect() clears both timers.
OnHeartbeatTimeout ==
  /\ ~timedOut
  /\ untilTimeout = 0
  /\ timedOut' = TRUE
  /\ UNCHANGED <<untilPing, untilTimeout, pong, missed, silence>>

Tick ==
  /\ ~timedOut
  /\ untilPing # 0 /\ untilTimeout # 0 /\ pong # 0
  /\ untilPing' = untilPing - 1
  /\ untilTimeout' = untilTimeout - 1
  /\ pong' = IF pong = None THEN None ELSE pong - 1
  /\ silence' = silence + 1
  /\ UNCHANGED <<missed, timedOut>>

Next == SendHeartbeat \/ PongArrives \/ OnHeartbeatTimeout \/ Tick

Spec == Init /\ [][Next]_vars

-----------------------------------------------------------------------------
(* What the two timers and the history can hold. *)
TypeOK == /\ untilPing \in 0 .. Interval
          /\ untilTimeout \in 0 .. Timeout
          /\ pong \in 0 .. MaxRtt \cup {None}
          /\ missed \in 0 .. MaxMissed
          /\ silence \in Nat
          /\ timedOut \in BOOLEAN

(* "2x DEFAULT_INTERVAL_HEARTBEAT to allow for missing one heartbeat       *)
(* without triggering disconnect" (lines 9-10).                            *)
MissingOneIsAllowed == timedOut => missed >= 2

(* A connection whose server says nothing is not kept for longer than      *)
(* timeoutHeartbeat (lines 110-113).                                       *)
SilenceIsNoticed == silence <= Timeout
=============================================================================
