---------------------------- MODULE WsConnector ----------------------------
(***************************************************************************)
(* packages/websocket/src/connector.ts: one connector, the WebSockets it   *)
(* makes one after the other, and the server at their other end.  Events   *)
(* of a socket, timers and calls of the application come in any order; the *)
(* handlers do not look at which socket an event is from.                  *)
(*                                                                         *)
(* A call of connect() is known by its number, and so are the socket and   *)
(* the timer it makes.  All timers of initFailureTimeout have the same     *)
(* delay, so they expire in the order of their numbers.                    *)
(***************************************************************************)
EXTENDS Naturals, Sequences, FiniteSets

CONSTANTS Channels,         \* the channels to subscribe to
          None,             \* null
          EnableHeartbeat,  \* the option of that name
          Habits,           \* what the application does besides waiting its turn
          Faults,           \* what may go wrong around the sockets
          MaxConnects,      \* bound: calls of connect()
          MaxRequests,      \* bound: calls of request()
          MaxFrames         \* bound: frames under way, each direction

Sockets == 1 .. MaxConnects
Requests == 1 .. MaxRequests

ASSUME WsConnectorAssumption ==
  /\ None \notin Nat
  /\ EnableHeartbeat \in BOOLEAN
  /\ Habits \subseteq {"connectWhilePending", "sendDisconnected"}
  /\ Faults \subseteq {"endpointInvalid", "serverCloses", "socketErrors"}
  /\ MaxConnects \in Nat /\ MaxRequests \in Nat /\ MaxFrames \in Nat

VARIABLES websocket,           \* the field, a number or None
          connected,           \* the field
          shouldConnect,       \* the field
          connectPromiseHandler, \* the call of connect() whose promise it is
          requestHandlers,     \* the requests that have a handler
          channelHandlers,     \* the channels that have a handler
          heartbeat,           \* whether heartbeatInterval and -Timeout are set
          initTimers,          \* the timers of connectWebSocket() still to expire
          initFailureTimeout,  \* the field: the last of those timers
          connects,            \* the promise of every call of connect()
          requests,            \* the promise of every call of request()
          sentOn,              \* the socket a request went out on
          told,                \* what statusChangeListener heard last
          wanted,              \* channels subscribe() returned for while connected
          leftover,            \* channels whose handler is older than the connection
          state,               \* the state of every socket
          up, down,            \* frames to and from the server, per socket
          subs                 \* the channels the server has, per socket

fields == <<websocket, connected, shouldConnect, heartbeat, told>>
calls == <<connectPromiseHandler, connects, initTimers, initFailureTimeout>>
asks == <<requestHandlers, requests, sentOn>>
feeds == <<channelHandlers, wanted, leftover>>
wires == <<up, down, subs>>
vars == <<fields, calls, asks, feeds, state, wires>>

Silent == [interval |-> FALSE, timeout |-> FALSE]

Init == /\ websocket = None /\ connected = FALSE /\ shouldConnect = FALSE
        /\ heartbeat = Silent /\ told = FALSE
        /\ connectPromiseHandler = None
        /\ connects = [n \in Sockets |-> "none"]
        /\ initTimers = {} /\ initFailureTimeout = None
        /\ requestHandlers = {}
        /\ requests = [r \in Requests |-> "none"]
        /\ sentOn = [r \in Requests |-> None]
        /\ channelHandlers = {} /\ wanted = {} /\ leftover = {}
        /\ state = [s \in Sockets |-> "none"]
        /\ up = [s \in Sockets |-> <<>>] /\ down = [s \in Sockets |-> <<>>]
        /\ subs = [s \in Sockets |-> {}]

Live == {"connecting", "open"}

-----------------------------------------------------------------------------
(* Variants of definitions below, each with a plausible mistake in it; the *)
(* runs show that the properties notice.                                   *)

NeverCloses == state                       \* websocket = null without close()
TellsNobody == UNCHANGED told              \* updateConnectStatus() forgotten
StaysOnAir == UNCHANGED heartbeat          \* timers not cleared
KeepsHandler(ch) == UNCHANGED channelHandlers   \* unsubscribe() without delete
DropsRequests == UNCHANGED requests        \* handlers deleted, not rejected
RejectsNobody == connects                  \* rejectConnect() without reject()

-----------------------------------------------------------------------------
(* disconnectWebsocket() and disconnect() *)

\* The sockets after this.websocket?.close().
Closed == [s \in Sockets |-> IF s = websocket /\ state[s] \in Live
                             THEN "closing" ELSE state[s]]

StopHeartbeat == heartbeat' = Silent

UpdateConnectStatus == told' = connected'

ReverseStates == /\ StopHeartbeat
                 /\ connected' = FALSE
                 /\ IF connected THEN UpdateConnectStatus ELSE UNCHANGED told
                 /\ wanted' = {} /\ leftover' = {}

Disconnect ==
  /\ shouldConnect' = FALSE
  /\ state' = Closed
  /\ websocket' = None
  /\ ReverseStates
  /\ UNCHANGED <<calls, asks, channelHandlers, wires>>

-----------------------------------------------------------------------------
(* connect(): connectWebSocket() calls disconnect() first, so that         *)
(* shouldConnect is false again before the first socket is made.           *)

Pending == {n \in Sockets : connects[n] = "pending"}

\* The promises after rejectConnect(), which rejects that of the last call.
Rejected == [n \in Sockets |-> IF n = connectPromiseHandler
                               THEN "rejected" ELSE connects[n]]

\* clearTimeout(this.initFailureTimeout)
Cleared(timers) == timers \ {initFailureTimeout}

Calls(n) == /\ connects[n] = "none"
            /\ \A m \in 1 .. n - 1 : connects[m] # "none"
            /\ Pending = {} \/ "connectWhilePending" \in Habits

Connect(n) ==
  /\ Calls(n)
  /\ IF shouldConnect
     THEN /\ connects' = [connects EXCEPT ![n] = "resolved"]
          /\ UNCHANGED <<fields, connectPromiseHandler, initTimers,
                         initFailureTimeout, asks, feeds, state, wires>>
     ELSE /\ shouldConnect' = FALSE
          /\ ReverseStates
          /\ state' = [Closed EXCEPT ![n] = "connecting"]
          /\ websocket' = n
          /\ requestHandlers' = {}
          /\ initTimers' = initTimers \cup {n}
          /\ initFailureTimeout' = n
          /\ connects' = [connects EXCEPT ![n] = "pending"]
          /\ connectPromiseHandler' = n
          /\ UNCHANGED <<requests, sentOn, channelHandlers, wires>>

\* new WebSocket() throws: rejectConnect() runs before the new handler is in.
ConnectThrows(n) ==
  /\ "endpointInvalid" \in Faults
  /\ Calls(n)
  /\ ~shouldConnect
  /\ state' = Closed
  /\ websocket' = None
  /\ ReverseStates
  /\ connects' = [Rejected EXCEPT ![n] = "pending"]
  /\ connectPromiseHandler' = n
  /\ initTimers' = Cleared(initTimers)
  /\ UNCHANGED <<shouldConnect, initFailureTimeout, asks, channelHandlers, wires>>

InitFailureTimeout ==
  /\ \E n \in initTimers : /\ \A m \in initTimers : n <= m
                           /\ initTimers' = Cleared(initTimers \ {n})
  /\ connects' = Rejected
  /\ connectPromiseHandler' = None
  /\ UNCHANGED <<fields, initFailureTimeout, asks, feeds, state, wires>>

-----------------------------------------------------------------------------
(* The handlers of socket events *)

StartHeartbeat == heartbeat' = [interval |-> EnableHeartbeat,
                                timeout |-> EnableHeartbeat]

\* onOpen(): the timer it means to clear, initFailureTimeout, goes on.
Opens(s) ==
  /\ state[s] = "connecting"
  /\ state' = [state EXCEPT ![s] = "open"]
  /\ connected' = TRUE
  /\ connects' = [n \in Sockets |-> IF n = connectPromiseHandler
                                    THEN "resolved" ELSE connects[n]]
  /\ connectPromiseHandler' = None
  /\ UpdateConnectStatus
  /\ StartHeartbeat
  /\ leftover' = channelHandlers
  /\ UNCHANGED <<websocket, shouldConnect, initTimers, initFailureTimeout,
                 asks, channelHandlers, wanted, wires>>

\* onError() rejects the requests of whatever connection there is.
RejectRequests ==
  requests' = [r \in Requests |-> IF r \in requestHandlers
                                  THEN "rejected" ELSE requests[r]]

OnError(errs) == IF errs
                 THEN RejectRequests /\ requestHandlers' = {}
                 ELSE UNCHANGED <<requests, requestHandlers>>

\* What was under way, and what the server had for this socket, is gone.
Hangup(s) == /\ up' = [up EXCEPT ![s] = <<>>]
             /\ down' = [down EXCEPT ![s] = <<>>]
             /\ subs' = [subs EXCEPT ![s] = {}]

(* A socket comes to its end, after close() or by itself: onError() if it  *)
(* failed, then onClose(), which closes the socket there is now.           *)
Ends(s) ==
  /\ \/ state[s] = "closing"
     \/ state[s] \in Live /\ "serverCloses" \in Faults
  /\ \E errs \in IF "socketErrors" \in Faults THEN BOOLEAN ELSE {FALSE} :
       OnError(errs)
  /\ state' = [Closed EXCEPT ![s] = "closed"]
  /\ websocket' = None
  /\ ReverseStates
  /\ Hangup(s)
  /\ UNCHANGED <<shouldConnect, calls, sentOn, channelHandlers>>

\* onHeartbeatTimeout(); when a pong is late enough is in Heartbeat.
HeartbeatTimeout == heartbeat.timeout /\ Disconnect

\* onMessage(): an update for a channel without handler leads to unsubscribe()
\* of the bare channel name, which has no handler either: nothing is sent.
\* The sockets of Node's ws deliver after close() too, until they are closed.
Delivered(s) ==
  /\ state[s] \in {"open", "closing"}
  /\ down[s] # <<>>
  /\ down' = [down EXCEPT ![s] = Tail(@)]
  /\ LET r == Head(down[s]).request
     IN  IF r \in requestHandlers
         THEN /\ \E how \in {"resolved", "rejected"} :
                   requests' = [requests EXCEPT ![r] = how]
              /\ requestHandlers' = requestHandlers \ {r}
         ELSE UNCHANGED <<requests, requestHandlers>>
  /\ UNCHANGED <<fields, calls, sentOn, feeds, state, up, subs>>

-----------------------------------------------------------------------------
(* subscribe(), unsubscribe() and request(): sendMessage() throws while    *)
(* there is no connection, after the handlers have been changed.           *)

Frame(method, channel, request) ==
  [method |-> method, channel |-> channel, request |-> request]

MaySend == IF connected THEN Len(up[websocket]) < MaxFrames
                        ELSE "sendDisconnected" \in Habits

Sends(frame) == IF connected
                THEN up' = [up EXCEPT ![websocket] = Append(@, frame)]
                ELSE UNCHANGED up

Subscribe(ch) ==
  /\ MaySend
  /\ IF ch \in channelHandlers
     THEN UNCHANGED <<channelHandlers, up>>
     ELSE /\ channelHandlers' = channelHandlers \cup {ch}
          /\ Sends(Frame("subscribe", ch, None))
  /\ wanted' = IF connected THEN wanted \cup {ch} ELSE wanted
  /\ UNCHANGED <<leftover, fields, calls, asks, state, down, subs>>

DropHandler(ch) == channelHandlers' = channelHandlers \ {ch}

Unsubscribe(ch) ==
  /\ MaySend
  /\ ch \in channelHandlers
  /\ DropHandler(ch)
  /\ Sends(Frame("unsubscribe", ch, None))
  /\ wanted' = wanted \ {ch}
  /\ leftover' = leftover \ {ch}
  /\ UNCHANGED <<fields, calls, asks, state, down, subs>>

Request(r) ==
  /\ MaySend
  /\ requests[r] = "none" /\ \A q \in 1 .. r - 1 : requests[q] # "none"
  /\ Sends(Frame("request", None, r))
  /\ sentOn' = [sentOn EXCEPT ![r] = websocket]
  /\ IF connected
     THEN /\ requests' = [requests EXCEPT ![r] = "pending"]
          /\ requestHandlers' = requestHandlers \cup {r}
     ELSE /\ requests' = [requests EXCEPT ![r] = "rejected"]
          /\ UNCHANGED requestHandlers
  /\ UNCHANGED <<fields, calls, feeds, state, down, subs>>

-----------------------------------------------------------------------------
(* The server *)

After(channels, frame) ==
  CASE frame.method = "subscribe"   -> channels \cup {frame.channel}
    [] frame.method = "unsubscribe" -> channels \ {frame.channel}
    [] OTHER                        -> channels

ServerTakes(s) ==
  /\ up[s] # <<>>
  /\ LET frame == Head(up[s])
     IN  /\ subs' = [subs EXCEPT ![s] = After(@, frame)]
         /\ down' = IF frame.method = "request"
                    THEN [down EXCEPT ![s] = Append(@, frame)] ELSE down
  /\ up' = [up EXCEPT ![s] = Tail(@)]
  /\ UNCHANGED <<fields, calls, asks, feeds, state>>

-----------------------------------------------------------------------------

AppStep == \/ Disconnect
           \/ \E n \in Sockets : Connect(n) \/ ConnectThrows(n)
           \/ \E ch \in Channels : Subscribe(ch) \/ Unsubscribe(ch)
           \/ \E r \in Requests : Request(r)

SocketStep(s) == Opens(s) \/ Ends(s) \/ Delivered(s) \/ ServerTakes(s)

Next == \/ AppStep \/ InitFailureTimeout \/ HeartbeatTimeout
        \/ \E s \in Sockets : SocketStep(s)

Spec == Init /\ [][Next]_vars

(* Timers expire. *)
FairSpec == Spec /\ WF_vars(InitFailureTimeout)

-----------------------------------------------------------------------------
(* What the fields of a WsConnector and its sockets can hold. *)
Feeding == {"subscribe", "unsubscribe"}

Frames == [method : Feeding, channel : Channels, request : {None}]
            \cup [method : {"request"}, channel : {None}, request : Requests]

TypeOK ==
  /\ websocket \in Sockets \cup {None}
  /\ connected \in BOOLEAN /\ shouldConnect \in BOOLEAN /\ told \in BOOLEAN
  /\ heartbeat \in [interval : BOOLEAN, timeout : BOOLEAN]
  /\ connectPromiseHandler \in Sockets \cup {None}
  /\ connects \in [Sockets -> {"none", "pending", "resolved", "rejected"}]
  /\ initTimers \subseteq Sockets
  /\ initFailureTimeout \in Sockets \cup {None}
  /\ requestHandlers \subseteq Requests
  /\ requests \in [Requests -> {"none", "pending", "resolved", "rejected"}]
  /\ sentOn \in [Requests -> Sockets \cup {None}]
  /\ {channelHandlers, wanted, leftover} \subseteq SUBSET Channels
  /\ state \in [Sockets -> {"none", "closing", "closed"} \cup Live]
  /\ up \in [Sockets -> Seq(Frames)] /\ down \in [Sockets -> Seq(Frames)]
  /\ subs \in [Sockets -> SUBSET Channels]

(* The connector never loses sight of a socket: one that is connecting or  *)
(* open is the one in its field (lines 555-572, 577-599).                  *)
OneLiveSocket == \A s \in Sockets : state[s] \in Live => websocket = s

(* connected is "true only if connection is established and ready to use", *)
(* and the listener was told whenever it changed (lines 137-141).          *)
StatusIsTrue ==
  /\ connected = (\E s \in Sockets : websocket = s /\ state[s] = "open")
  /\ told = connected

(* No heartbeat timer outlives its connection, to tear down a later one.   *)
HeartbeatOnlyWhileConnected ==
  heartbeat.interval \/ heartbeat.timeout => connected

(* A request has its handler for as long as its connection lives, and      *)
(* loses it unsettled only when connect() is called again (line 600): the  *)
(* end of a connection in an error rejects it (lines 416-428).             *)
RequestsHaveHandlers ==
  \A r \in Requests :
    requests[r] = "pending" /\ r \notin requestHandlers =>
      /\ sentOn[r] # websocket
      /\ \E n \in Sockets : n > sentOn[r] /\ connects[n] # "none"

\* The channels the server will have once it has taken what was sent: the
\* last frame about a channel decides.
About(frames, ch) ==
  {i \in DOMAIN frames : frames[i].method \in Feeding /\ frames[i].channel = ch}

WillHave(channels, frames, ch) ==
  \/ About(frames, ch) = {} /\ ch \in channels
  \/ \E i \in About(frames, ch) : /\ frames[i].method = "subscribe"
                                 /\ \A j \in About(frames, ch) : j <= i

View(s) == {ch \in Channels : WillHave(subs[s], up[s], ch)}

(* "Sends a subscription data frame with channel ID to WebSocket server"   *)
(* (line 233): while connected, the server has, or is about to have,       *)
(* exactly the channels that subscribe() returned for on this connection.  *)
(* That is not so for a channel whose handler is older than the connection *)
(* (line 247: nothing is sent), until it has been unsubscribed from.       *)
SubscriptionsHonoured ==
  connected => \A ch \in Channels \ leftover :
                 ch \in View(websocket) <=> ch \in wanted

(* "It is safe to call WsConnector.connect() again once disconnect() is    *)
(* called" (line 222): the end of one socket does not close another.       *)
ClosesOnlyItself ==
  [][\A s, t \in Sockets :
       /\ s # t
       /\ state[s] \in Live
       /\ state[t] # "closed" /\ state'[t] = "closed"
       => state'[s] \in Live]_vars

(* "rejects the promise if connection cannot be established within         *)
(* timeoutConnect" (line 200): the promise of a call that set its timer is *)
(* settled, unless connect() is called again before it is.                 *)
EveryConnectSettles ==
  \A n \in Sockets :
    (connects[n] = "pending" /\ n \in initTimers)
      ~> (connects[n] # "pending" \/ \E m \in Sockets : m > n /\ connects[m] # "none")
=============================================================================
