------------------------- MODULE WsConnectorProofs -------------------------
(* What WsConnector promises for any number of sockets, channels and       *)
(* requests, whatever the application does and whatever goes wrong; and    *)
(* that the ids of channels, by which it finds handlers, can be told apart. *)
EXTENDS WsConnector, ChannelIds, SequenceTheorems, TLAPS

SocketsTyped ==
  /\ state \in [Sockets -> {"none", "closing", "closed"} \cup Live]
  /\ websocket \in Sockets \cup {None}
  /\ connected \in BOOLEAN
  /\ heartbeat \in [interval : BOOLEAN, timeout : BOOLEAN]

\* The socket in the field has not come to its end ...
FieldIsLive == websocket # None => state[websocket] \in Live

\* ... and connected says whether it is open.
ConnectedIsOpen ==
  /\ connected => websocket # None /\ state[websocket] = "open"
  /\ ~connected => \A s \in Sockets : websocket = s => state[s] # "open"

SocketInv == /\ SocketsTyped
             /\ FieldIsLive
             /\ OneLiveSocket
             /\ ConnectedIsOpen
             /\ told = connected
             /\ HeartbeatOnlyWhileConnected

\* What every teardown leaves behind.
TornDown == /\ websocket' = None
            /\ connected' = FALSE /\ told' = FALSE /\ heartbeat' = Silent

LEMMA NoneIsNoSocket == None \notin Sockets
BY WsConnectorAssumption DEF Sockets

\* Nothing is left of a connection after disconnectWebsocket().
LEMMA TeardownKeepsInv ==
  ASSUME SocketInv, TornDown,
         state' \in [Sockets -> {"none", "closing", "closed"} \cup Live],
         \A s \in Sockets : state'[s] \notin Live
  PROVE  SocketInv'
<1> USE NoneIsNoSocket
<1>1. SocketsTyped'
  BY DEF SocketInv, SocketsTyped, TornDown, Silent
<1>2. FieldIsLive' /\ OneLiveSocket' /\ HeartbeatOnlyWhileConnected'
  BY DEF TornDown, Silent, FieldIsLive, OneLiveSocket, HeartbeatOnlyWhileConnected
<1>3. ConnectedIsOpen'
  BY DEF TornDown, ConnectedIsOpen
<1>4. (told = connected)'
  BY DEF TornDown
<1> QED
  BY <1>1, <1>2, <1>3, <1>4 DEF SocketInv

\* close() on the socket in the field leaves no socket alive.
LEMMA ClosedLeavesNone ==
  ASSUME SocketInv
  PROVE  /\ Closed \in [Sockets -> {"none", "closing", "closed"} \cup Live]
         /\ \A s \in Sockets : Closed[s] \notin Live
BY DEF SocketInv, SocketsTyped, OneLiveSocket, Closed, Live

LEMMA ReversedIsTornDown ==
  ASSUME SocketInv, ReverseStates
  PROVE  connected' = FALSE /\ told' = FALSE /\ heartbeat' = Silent
BY Zenon DEF SocketInv, SocketsTyped, ReverseStates, UpdateConnectStatus, StopHeartbeat

LEMMA SocketStepKeepsInv == SocketInv /\ [Next]_vars => SocketInv'
<1> SUFFICES ASSUME SocketInv, [Next]_vars PROVE SocketInv'
  OBVIOUS
<1> USE NoneIsNoSocket
<1>1. ASSUME Disconnect PROVE SocketInv'
  <2>1. TornDown
    BY <1>1, ReversedIsTornDown DEF Disconnect, TornDown
  <2> QED
    BY <1>1, <2>1, ClosedLeavesNone, TeardownKeepsInv DEF Disconnect
<1>2. ASSUME NEW n \in Sockets, ConnectThrows(n) PROVE SocketInv'
  <2>1. TornDown
    BY <1>2, ReversedIsTornDown DEF ConnectThrows, TornDown
  <2> QED
    BY <1>2, <2>1, ClosedLeavesNone, TeardownKeepsInv DEF ConnectThrows
<1>3. ASSUME NEW s \in Sockets, Ends(s) PROVE SocketInv'
  <2>1. TornDown
    BY <1>3, ReversedIsTornDown DEF Ends, TornDown
  <2>2. state' = [Closed EXCEPT ![s] = "closed"]
    BY <1>3 DEF Ends
  <2>3. /\ state' \in [Sockets -> {"none", "closing", "closed"} \cup Live]
        /\ \A t \in Sockets : state'[t] \notin Live
    BY <2>2, ClosedLeavesNone DEF Live
  <2> QED
    BY <2>1, <2>3, TeardownKeepsInv
<1>4. ASSUME NEW n \in Sockets, Connect(n), ~shouldConnect PROVE SocketInv'
  <2>1. connected' = FALSE /\ told' = FALSE /\ heartbeat' = Silent
    BY <1>4, ReversedIsTornDown DEF Connect
  <2>2. state' = [Closed EXCEPT ![n] = "connecting"] /\ websocket' = n
    BY <1>4 DEF Connect
  <2>3. /\ state' \in [Sockets -> {"none", "closing", "closed"} \cup Live]
        /\ state'[n] = "connecting"
        /\ \A s \in Sockets : s # n => state'[s] \notin Live
    BY <2>2, ClosedLeavesNone DEF Live
  <2>4. SocketsTyped'
    BY <2>1, <2>2, <2>3 DEF SocketsTyped, Silent
  <2>5. FieldIsLive' /\ OneLiveSocket' /\ HeartbeatOnlyWhileConnected'
    BY <2>1, <2>2, <2>3
    DEF Silent, FieldIsLive, OneLiveSocket, HeartbeatOnlyWhileConnected, Live
  <2>6. ConnectedIsOpen'
    BY <2>1, <2>2, <2>3 DEF ConnectedIsOpen
  <2>7. (told = connected)'
    BY <2>1
  <2> QED
    BY <2>4, <2>5, <2>6, <2>7 DEF SocketInv
<1>5. ASSUME NEW s \in Sockets, Opens(s) PROVE SocketInv'
  <2>1. websocket = s
    BY <1>5 DEF Opens, SocketInv, OneLiveSocket, Live
  <2>2. /\ state' = [state EXCEPT ![s] = "open"]
        /\ connected' = TRUE /\ told' = connected'
        /\ websocket' = websocket
        /\ heartbeat' = [interval |-> EnableHeartbeat, timeout |-> EnableHeartbeat]
    BY <1>5 DEF Opens, UpdateConnectStatus, StartHeartbeat
  <2>3. SocketsTyped'
    BY <2>2, WsConnectorAssumption DEF SocketInv, SocketsTyped, Live
  <2>4. state'[s] = "open" /\ \A t \in Sockets : t # s => state'[t] = state[t]
    BY <2>2 DEF SocketInv, SocketsTyped
  <2>5. FieldIsLive' /\ OneLiveSocket'
    BY <2>1, <2>2, <2>4 DEF SocketInv, FieldIsLive, OneLiveSocket, Live
  <2>6. ConnectedIsOpen' /\ HeartbeatOnlyWhileConnected'
    BY <2>1, <2>2, <2>4 DEF ConnectedIsOpen, HeartbeatOnlyWhileConnected
  <2> QED
    BY <2>2, <2>3, <2>5, <2>6 DEF SocketInv
<1>6. ASSUME UNCHANGED <<fields, state>> PROVE SocketInv'
  BY <1>6 DEF fields, SocketInv, SocketsTyped, FieldIsLive, OneLiveSocket,
              ConnectedIsOpen, HeartbeatOnlyWhileConnected
<1>7. ASSUME NEW n \in Sockets, Connect(n), shouldConnect PROVE SocketInv'
  BY <1>6, <1>7 DEF Connect
<1>8. ASSUME InitFailureTimeout PROVE SocketInv'
  BY <1>6, <1>8 DEF InitFailureTimeout
<1>9. ASSUME HeartbeatTimeout PROVE SocketInv'
  BY <1>1, <1>9 DEF HeartbeatTimeout
<1>10. ASSUME NEW s \in Sockets, Delivered(s) \/ ServerTakes(s) PROVE SocketInv'
  BY <1>6, <1>10 DEF Delivered, ServerTakes
<1>11. ASSUME NEW ch \in Channels, Subscribe(ch) \/ Unsubscribe(ch)
       PROVE  SocketInv'
  BY <1>6, <1>11 DEF Subscribe, Unsubscribe
<1>12. ASSUME NEW r \in Requests, Request(r) PROVE SocketInv'
  BY <1>6, <1>12 DEF Request
<1>13. ASSUME UNCHANGED vars PROVE SocketInv'
  BY <1>6, <1>13 DEF vars
<1> QED
  BY <1>1, <1>2, <1>3, <1>4, <1>5, <1>7, <1>8, <1>9, <1>10, <1>11, <1>12, <1>13
  DEF Next, AppStep, SocketStep

LEMMA InitIsSocketInv == Init => SocketInv
<1> SUFFICES ASSUME Init PROVE SocketInv
  OBVIOUS
<1>1. SocketsTyped
  BY DEF Init, SocketsTyped, Silent
<1>2. FieldIsLive /\ OneLiveSocket /\ HeartbeatOnlyWhileConnected
  BY DEF Init, FieldIsLive, OneLiveSocket, HeartbeatOnlyWhileConnected, Live, Silent
<1>3. ConnectedIsOpen
  BY DEF Init, ConnectedIsOpen
<1>4. told = connected
  BY DEF Init
<1> QED
  BY <1>1, <1>2, <1>3, <1>4 DEF SocketInv

(* The fields say the truth about the sockets.                             *)
THEOREM SocketInvariance == Spec => []SocketInv
BY InitIsSocketInv, SocketStepKeepsInv, PTL DEF Spec

(* No socket that is connecting or open is ever lost sight of.             *)
THEOREM NoSocketLost == Spec => []OneLiveSocket
<1>1. SocketInv => OneLiveSocket
  BY DEF SocketInv
<1> QED
  BY <1>1, SocketInvariance, PTL

(* connected, and what the listener heard, is the state of the connection. *)
THEOREM StatusTrue == Spec => []StatusIsTrue
<1>1. SocketInv => StatusIsTrue
  <2> SUFFICES ASSUME SocketInv PROVE StatusIsTrue
    OBVIOUS
  <2>1. CASE connected
    <3>1. websocket \in Sockets /\ state[websocket] = "open"
      BY <2>1 DEF SocketInv, SocketsTyped, ConnectedIsOpen
    <3>2. connected = TRUE
      BY <2>1, Zenon DEF SocketInv, SocketsTyped
    <3> QED
      BY <3>1, <3>2, Zenon DEF SocketInv, StatusIsTrue
  <2>2. CASE ~connected
    <3>1. ~ \E s \in Sockets : websocket = s /\ state[s] = "open"
      BY <2>2 DEF SocketInv, ConnectedIsOpen
    <3>2. connected = FALSE
      BY <2>2, Zenon DEF SocketInv, SocketsTyped
    <3> QED
      BY <3>1, <3>2, Zenon DEF SocketInv, StatusIsTrue
  <2> QED
    BY <2>1, <2>2
<1> QED
  BY <1>1, SocketInvariance, PTL

(* No timer of a heartbeat outlives its connection.                        *)
THEOREM HeartbeatStops == Spec => []HeartbeatOnlyWhileConnected
<1>1. SocketInv => HeartbeatOnlyWhileConnected
  BY DEF SocketInv
<1> QED
  BY <1>1, SocketInvariance, PTL

-----------------------------------------------------------------------------
(* Requests.  A new connection starts without handlers, and no request has *)
(* gone out on its socket: the socket of a request is one that was made.   *)

RequestsTyped ==
  /\ requests \in [Requests -> {"none", "pending", "resolved", "rejected"}]
  /\ sentOn \in [Requests -> Sockets \cup {None}]
  /\ requestHandlers \subseteq Requests
  /\ connects \in [Sockets -> {"none", "pending", "resolved", "rejected"}]

SocketsWereMade ==
  /\ \A r \in Requests : sentOn[r] # None => connects[sentOn[r]] # "none"
  /\ websocket # None => connects[websocket] # "none"

PendingWasSent == \A r \in Requests : requests[r] = "pending" => sentOn[r] # None

CallsInOrder ==
  \A m, n \in Sockets : m < n /\ connects[n] # "none" => connects[m] # "none"

HandlerWasCalled ==
  \A n \in Sockets : connectPromiseHandler = n => connects[n] # "none"

RequestInv == /\ SocketInv
              /\ CallsInOrder
              /\ HandlerWasCalled
              /\ RequestsTyped
              /\ SocketsWereMade
              /\ PendingWasSent
              /\ RequestsHaveHandlers

\* A step that forgets no call of connect() and ends the connection, if it
\* touches the field at all, can only settle requests.
LEMMA EndKeepsRequests ==
  ASSUME RequestInv,
         connects' \in [Sockets -> {"none", "pending", "resolved", "rejected"}],
         \A n \in Sockets : connects[n] # "none" => connects'[n] # "none",
         websocket' = None \/ websocket' = websocket,
         sentOn' = sentOn,
         \/ UNCHANGED <<requests, requestHandlers>>
         \/ requests' = [r \in Requests |-> IF r \in requestHandlers
                                            THEN "rejected" ELSE requests[r]]
            /\ requestHandlers' = {}
  PROVE  /\ RequestsTyped' /\ SocketsWereMade' /\ PendingWasSent'
         /\ RequestsHaveHandlers'
<1> USE NoneIsNoSocket
<1>1. RequestsTyped'
  BY DEF RequestInv, RequestsTyped
<1>2. SocketsWereMade'
  BY DEF RequestInv, RequestsTyped, SocketsWereMade, SocketInv, SocketsTyped
<1>3. \A r \in Requests : requests'[r] = "pending" =>
        requests[r] = "pending" /\ (r \in requestHandlers => r \in requestHandlers')
  BY DEF RequestInv, RequestsTyped
<1>4. PendingWasSent'
  BY <1>3 DEF RequestInv, PendingWasSent
<1>5. RequestsHaveHandlers'
  BY <1>3, <1>4 DEF RequestInv, PendingWasSent, RequestsHaveHandlers
<1> QED
  BY <1>1, <1>2, <1>4, <1>5

\* connect() is called for the next number, and no call is forgotten.
LEMMA CallsStayInOrder == RequestInv /\ [Next]_vars => CallsInOrder'
<1> SUFFICES ASSUME RequestInv, [Next]_vars PROVE CallsInOrder'
  OBVIOUS
<1> DEFINE Called(n) == connects[n] # "none"
<1>k. connects \in [Sockets -> {"none", "pending", "resolved", "rejected"}]
  BY DEF RequestInv, RequestsTyped
<1>1. ASSUME \A n \in Sockets : Called(n)' <=> Called(n) PROVE CallsInOrder'
  BY <1>1 DEF RequestInv, CallsInOrder
<1>2. ASSUME NEW n \in Sockets, Calls(n),
             \A m \in Sockets : Called(m)' <=> Called(m) \/ m = n
      PROVE  CallsInOrder'
  <2>1. \A m \in Sockets : m < n => Called(m)
    BY <1>2 DEF Calls, Sockets
  <2>2. \A k, m \in Sockets : k < m /\ Called(m)' => Called(k)'
    BY <1>2, <2>1 DEF RequestInv, CallsInOrder
  <2> QED
    BY <2>2 DEF CallsInOrder
<1>r. /\ Rejected \in [Sockets -> {"none", "pending", "resolved", "rejected"}]
      /\ \A n \in Sockets : Rejected[n] = "none" => connects[n] = "none"
      /\ \A n \in Sockets : connects[n] = "none" =>
           Rejected[n] = "none" \/ connectPromiseHandler = n
  BY <1>k DEF Rejected
<1>3. \A n \in Sockets : connectPromiseHandler = n => Called(n)
  BY DEF RequestInv, HandlerWasCalled
<1>4. ASSUME NEW n \in Sockets, Connect(n) PROVE CallsInOrder'
  <2>1. Calls(n) /\ \A m \in Sockets : Called(m)' <=> Called(m) \/ m = n
    BY <1>4, <1>k DEF Connect, Calls
  <2> QED
    BY <2>1, <1>2
<1>5. ASSUME NEW n \in Sockets, ConnectThrows(n) PROVE CallsInOrder'
  <2>1. Calls(n) /\ connects' = [Rejected EXCEPT ![n] = "pending"]
    BY <1>5 DEF ConnectThrows
  <2>2. \A m \in Sockets : Called(m)' <=> Called(m) \/ m = n
    BY <1>r, <1>3, <2>1
  <2> QED
    BY <2>1, <2>2, <1>2
<1>6. ASSUME InitFailureTimeout PROVE CallsInOrder'
  BY <1>1, <1>6, <1>r, <1>3 DEF InitFailureTimeout
<1>7. ASSUME NEW s \in Sockets, Opens(s) PROVE CallsInOrder'
  BY <1>1, <1>7, <1>k, <1>3 DEF Opens
<1>8. ASSUME connects' = connects PROVE CallsInOrder'
  BY <1>1, <1>8
<1>9. Disconnect \/ HeartbeatTimeout \/ UNCHANGED vars => connects' = connects
  BY DEF Disconnect, HeartbeatTimeout, vars, calls
<1>10. \A s \in Sockets : Ends(s) \/ Delivered(s) \/ ServerTakes(s)
         => connects' = connects
  BY DEF Ends, Delivered, ServerTakes, calls
<1>11. /\ \A ch \in Channels : Subscribe(ch) \/ Unsubscribe(ch) => connects' = connects
       /\ \A r \in Requests : Request(r) => connects' = connects
  BY DEF Subscribe, Unsubscribe, Request, calls
<1> QED
  BY <1>4, <1>5, <1>6, <1>7, <1>8, <1>9, <1>10, <1>11
  DEF Next, AppStep, SocketStep

LEMMA HandlerStaysCalled == RequestInv /\ [Next]_vars => HandlerWasCalled'
<1> SUFFICES ASSUME RequestInv, [Next]_vars PROVE HandlerWasCalled'
  OBVIOUS
<1> USE NoneIsNoSocket DEF HandlerWasCalled
<1>k. connects \in [Sockets -> {"none", "pending", "resolved", "rejected"}]
  BY DEF RequestInv, RequestsTyped
<1>r. Rejected \in [Sockets -> {"none", "pending", "resolved", "rejected"}]
  BY <1>k DEF Rejected
<1>1. ASSUME UNCHANGED <<connectPromiseHandler, connects>> PROVE HandlerWasCalled'
  BY <1>1 DEF RequestInv
<1>2. ASSUME NEW n \in Sockets, Connect(n) PROVE HandlerWasCalled'
  BY <1>2, <1>k DEF Connect, RequestInv
<1>3. ASSUME NEW n \in Sockets, ConnectThrows(n) PROVE HandlerWasCalled'
  BY <1>3, <1>r DEF ConnectThrows
<1>4. ASSUME InitFailureTimeout PROVE HandlerWasCalled'
  BY <1>4 DEF InitFailureTimeout
<1>5. ASSUME NEW s \in Sockets, Opens(s) PROVE HandlerWasCalled'
  BY <1>5 DEF Opens
<1>6. Disconnect \/ HeartbeatTimeout \/ UNCHANGED vars
        => UNCHANGED <<connectPromiseHandler, connects>>
  BY DEF Disconnect, HeartbeatTimeout, vars, calls
<1>7. \A s \in Sockets : Ends(s) \/ Delivered(s) \/ ServerTakes(s)
        => UNCHANGED <<connectPromiseHandler, connects>>
  BY DEF Ends, Delivered, ServerTakes, calls
<1>8. /\ \A ch \in Channels : Subscribe(ch) \/ Unsubscribe(ch)
           => UNCHANGED <<connectPromiseHandler, connects>>
      /\ \A r \in Requests : Request(r)
           => UNCHANGED <<connectPromiseHandler, connects>>
  BY DEF Subscribe, Unsubscribe, Request, calls
<1> QED
  BY <1>1, <1>2, <1>3, <1>4, <1>5, <1>6, <1>7, <1>8 DEF Next, AppStep, SocketStep

LEMMA RequestStepKeepsInv == RequestInv /\ [Next]_vars => RequestInv'
<1> SUFFICES ASSUME RequestInv, [Next]_vars PROVE RequestInv'
  OBVIOUS
<1> DEFINE Goal == /\ RequestsTyped' /\ SocketsWereMade' /\ PendingWasSent'
                   /\ RequestsHaveHandlers'
<1> USE NoneIsNoSocket
<1>0. SocketInv'
  BY SocketStepKeepsInv DEF RequestInv
<1>k. connects \in [Sockets -> {"none", "pending", "resolved", "rejected"}]
  BY DEF RequestInv, RequestsTyped
<1>r. /\ Rejected \in [Sockets -> {"none", "pending", "resolved", "rejected"}]
      /\ \A n \in Sockets : connects[n] # "none" => Rejected[n] # "none"
  BY <1>k DEF Rejected
<1>1. ASSUME Disconnect PROVE Goal
  BY <1>1, <1>k, EndKeepsRequests DEF Disconnect, calls, asks
<1>2. ASSUME NEW n \in Sockets, Connect(n), ~shouldConnect PROVE Goal
  <2>1. /\ connects' = [connects EXCEPT ![n] = "pending"] /\ connects[n] = "none"
        /\ requestHandlers' = {} /\ UNCHANGED <<requests, sentOn>>
        /\ websocket' = n
    BY <1>2 DEF Connect, Calls
  <2>2. RequestsTyped' /\ SocketsWereMade' /\ PendingWasSent'
    BY <2>1, <1>k DEF RequestInv, RequestsTyped, SocketsWereMade, PendingWasSent
  <2>3. \A r \in Requests : sentOn[r] # None => sentOn[r] < n
    BY <2>1 DEF RequestInv, RequestsTyped, SocketsWereMade, CallsInOrder, Sockets
  <2>4. RequestsHaveHandlers'
    BY <2>1, <2>3, <1>k
    DEF RequestInv, RequestsTyped, PendingWasSent, RequestsHaveHandlers, Sockets
  <2> QED
    BY <2>2, <2>4
<1>3. ASSUME NEW n \in Sockets, Connect(n), shouldConnect PROVE Goal
  <2>1. /\ connects' = [connects EXCEPT ![n] = "resolved"]
        /\ websocket' = websocket /\ UNCHANGED <<requests, sentOn, requestHandlers>>
    BY <1>3 DEF Connect, fields, asks
  <2> QED
    BY <2>1, <1>k, EndKeepsRequests
<1>4. ASSUME NEW n \in Sockets, ConnectThrows(n) PROVE Goal
  <2>1. /\ connects' = [Rejected EXCEPT ![n] = "pending"]
        /\ websocket' = None /\ UNCHANGED <<requests, sentOn, requestHandlers>>
    BY <1>4 DEF ConnectThrows, asks
  <2> QED
    BY <2>1, <1>r, EndKeepsRequests
<1>5. ASSUME InitFailureTimeout PROVE Goal
  BY <1>5, <1>r, EndKeepsRequests DEF InitFailureTimeout, fields, asks
<1>6. ASSUME NEW s \in Sockets, Opens(s) PROVE Goal
  <2>1. /\ connects' \in [Sockets -> {"none", "pending", "resolved", "rejected"}]
        /\ \A n \in Sockets : connects[n] # "none" => connects'[n] # "none"
    BY <1>6, <1>k DEF Opens
  <2> QED
    BY <1>6, <2>1, EndKeepsRequests DEF Opens, asks
<1>7. ASSUME NEW s \in Sockets, Ends(s) PROVE Goal
  <2>1. PICK errs \in BOOLEAN : OnError(errs)
    BY <1>7 DEF Ends
  <2>2. websocket' = None /\ sentOn' = sentOn /\ connects' = connects
    BY <1>7 DEF Ends, calls
  <2> QED
    BY <2>1, <2>2, <1>k, EndKeepsRequests DEF OnError, RejectRequests
<1>8. ASSUME HeartbeatTimeout PROVE Goal
  BY <1>1, <1>8 DEF HeartbeatTimeout
<1>9. ASSUME NEW s \in Sockets, Delivered(s) PROVE Goal
  <2>1. /\ UNCHANGED <<websocket, connects, sentOn>>
    BY <1>9 DEF Delivered, fields, calls
  <2>2. CASE Head(down[s]).request \in requestHandlers
    <3>1. PICK how \in {"resolved", "rejected"} :
            /\ requests' = [requests EXCEPT ![Head(down[s]).request] = how]
            /\ requestHandlers' = requestHandlers \ {Head(down[s]).request}
      BY <1>9, <2>2 DEF Delivered
    <3> QED
      BY <2>1, <2>2, <3>1
      DEF RequestInv, RequestsTyped, SocketsWereMade, PendingWasSent,
          RequestsHaveHandlers
  <2>3. CASE Head(down[s]).request \notin requestHandlers
    BY <1>9, <2>1, <2>3, <1>k, EndKeepsRequests DEF Delivered
  <2> QED
    BY <2>2, <2>3
<1>10. ASSUME NEW r \in Requests, Request(r) PROVE Goal
  <2>1. /\ UNCHANGED <<websocket, connects>>
        /\ sentOn' = [sentOn EXCEPT ![r] = websocket]
    BY <1>10 DEF Request, fields, calls
  <2>2. connected => websocket # None
    BY DEF RequestInv, SocketInv, ConnectedIsOpen
  <2>3. \/ /\ connected /\ requests' = [requests EXCEPT ![r] = "pending"]
           /\ requestHandlers' = requestHandlers \cup {r}
        \/ /\ requests' = [requests EXCEPT ![r] = "rejected"]
           /\ requestHandlers' = requestHandlers
    BY <1>10 DEF Request
  <2>4. RequestsTyped' /\ SocketsWereMade'
    BY <2>1, <2>3 DEF RequestInv, RequestsTyped, SocketsWereMade, SocketInv, SocketsTyped
  <2>5. PendingWasSent' /\ RequestsHaveHandlers'
    BY <2>1, <2>2, <2>3
    DEF RequestInv, RequestsTyped, PendingWasSent, RequestsHaveHandlers
  <2> QED
    BY <2>4, <2>5
<1>11. ASSUME UNCHANGED <<asks, connects, websocket>> PROVE Goal
  BY <1>11, <1>k, EndKeepsRequests DEF asks
<1>12. ASSUME NEW s \in Sockets, ServerTakes(s) PROVE Goal
  BY <1>11, <1>12 DEF ServerTakes, fields, calls
<1>13. ASSUME NEW ch \in Channels, Subscribe(ch) \/ Unsubscribe(ch) PROVE Goal
  BY <1>11, <1>13 DEF Subscribe, Unsubscribe, fields, calls
<1>14. ASSUME UNCHANGED vars PROVE Goal
  BY <1>11, <1>14 DEF vars, fields, calls
<1>15. Goal
  BY <1>1, <1>2, <1>3, <1>4, <1>5, <1>6, <1>7, <1>8, <1>9, <1>10, <1>12, <1>13,
     <1>14
  DEF Next, AppStep, SocketStep
<1> QED
  BY <1>0, <1>15, CallsStayInOrder, HandlerStaysCalled DEF RequestInv

LEMMA InitIsRequestInv == Init => RequestInv
<1> SUFFICES ASSUME Init PROVE RequestInv
  OBVIOUS
<1>1. SocketInv
  BY InitIsSocketInv
<1>2. /\ RequestsTyped /\ SocketsWereMade /\ PendingWasSent /\ RequestsHaveHandlers
      /\ CallsInOrder /\ HandlerWasCalled
  BY NoneIsNoSocket
  DEF Init, RequestsTyped, SocketsWereMade, PendingWasSent, RequestsHaveHandlers,
      CallsInOrder, HandlerWasCalled
<1> QED
  BY <1>1, <1>2 DEF RequestInv

(* A request that waits for its answer on the connection there is has its  *)
(* handler, and loses it unsettled only when connect() is called again     *)
(* (connector.ts, lines 416-428 and 600).                                  *)
THEOREM HandlersKept == Spec => []RequestsHaveHandlers
<1>1. RequestInv => RequestsHaveHandlers
  BY DEF RequestInv
<1> QED
  BY <1>1, InitIsRequestInv, RequestStepKeepsInv, PTL DEF Spec

-----------------------------------------------------------------------------
(* Subscriptions.  What the server is going to have is changed by a frame  *)
(* that is sent, and not by one that it takes.                             *)

LEMMA AboutLonger ==
  ASSUME NEW q \in Seq(Frames), NEW frame \in Frames, NEW ch \in Channels
  PROVE  /\ About(q, ch) \subseteq 1 .. Len(q)
         /\ \A i \in 1 .. Len(q) : Append(q, frame)[i] = q[i]
         /\ \A i : i \in About(Append(q, frame), ch) <=>
                     \/ i \in About(q, ch)
                     \/ /\ i = Len(q) + 1
                        /\ frame.method \in Feeding /\ frame.channel = ch
<1> DEFINE p == Append(q, frame)
<1>1. /\ Len(q) \in Nat /\ DOMAIN q = 1 .. Len(q)
      /\ p \in Seq(Frames) /\ Len(p) = Len(q) + 1
      /\ \A i \in 1 .. Len(q) : p[i] = q[i]
      /\ p[Len(q) + 1] = frame
  BY AppendProperties, LenProperties
<1>2. DOMAIN p = 1 .. Len(q) + 1
  BY <1>1, LenProperties
<1> HIDE DEF p
<1>3. About(q, ch) \subseteq 1 .. Len(q)
  BY <1>1 DEF About
<1>4. ASSUME NEW i \in 1 .. Len(q) PROVE i \in About(p, ch) <=> i \in About(q, ch)
  BY <1>1, <1>2, <1>4 DEF About
<1>5. Len(q) + 1 \in About(p, ch) <=> frame.method \in Feeding /\ frame.channel = ch
  BY <1>1, <1>2 DEF About
<1>6. \A i : i \in About(p, ch) => i \in 1 .. Len(q) \/ i = Len(q) + 1
  BY <1>1, <1>2 DEF About
<1>7. Len(q) + 1 \notin 1 .. Len(q)
  BY <1>1
<1>8. \A i : i \in About(p, ch) <=>
                \/ i \in About(q, ch)
                \/ /\ i = Len(q) + 1
                   /\ frame.method \in Feeding /\ frame.channel = ch
  BY <1>3, <1>4, <1>5, <1>6, <1>7
<1> QED
  BY <1>1, <1>3, <1>8 DEF p

LEMMA SentDecides ==
  ASSUME NEW q \in Seq(Frames), NEW frame \in Frames, NEW ch \in Channels,
         NEW channels \in SUBSET Channels
  PROVE  /\ frame.method = "subscribe" /\ frame.channel = ch =>
              WillHave(channels, Append(q, frame), ch)
         /\ frame.method = "unsubscribe" /\ frame.channel = ch =>
              ~WillHave(channels, Append(q, frame), ch)
         /\ frame.method \notin Feeding \/ frame.channel # ch =>
              (WillHave(channels, Append(q, frame), ch)
                 <=> WillHave(channels, q, ch))
<1> DEFINE p == Append(q, frame)
<1>1. /\ Len(q) \in Nat
      /\ p[Len(q) + 1] = frame
      /\ About(q, ch) \subseteq 1 .. Len(q)
      /\ \A i \in 1 .. Len(q) : p[i] = q[i]
  BY AboutLonger, AppendProperties, LenProperties
<1>2. \A i : i \in About(p, ch) <=>
                \/ i \in About(q, ch)
                \/ /\ i = Len(q) + 1
                   /\ frame.method \in Feeding /\ frame.channel = ch
  BY AboutLonger
<1> HIDE DEF p
<1>3. ASSUME frame.method \in Feeding, frame.channel = ch
      PROVE  /\ Len(q) + 1 \in About(p, ch)
             /\ \A j \in About(p, ch) : j <= Len(q) + 1
             /\ \A i \in About(p, ch) :
                  (\A j \in About(p, ch) : j <= i) => i = Len(q) + 1
  <2>1. Len(q) + 1 \in About(p, ch)
    BY <1>2, <1>3
  <2>2. \A j \in About(p, ch) : j \in 1 .. Len(q) + 1
    BY <1>1, <1>2
  <2> QED
    BY <1>1, <2>1, <2>2
<1>4. frame.method = "subscribe" /\ frame.channel = ch => WillHave(channels, p, ch)
  BY <1>1, <1>3 DEF WillHave, Feeding
<1>5. frame.method = "unsubscribe" /\ frame.channel = ch => ~WillHave(channels, p, ch)
  BY <1>1, <1>3 DEF WillHave, Feeding
<1>6. ASSUME frame.method \notin Feeding \/ frame.channel # ch
      PROVE  WillHave(channels, p, ch) <=> WillHave(channels, q, ch)
  <2>1. About(p, ch) = About(q, ch)
    BY <1>2, <1>6
  <2>2. \A i \in About(q, ch) : p[i] = q[i]
    BY <1>1
  <2> QED
    BY <2>1, <2>2 DEF WillHave
<1> QED
  BY <1>4, <1>5, <1>6 DEF p

LEMMA TakenChangesNothing ==
  ASSUME NEW q \in Seq(Frames), q # <<>>, NEW ch \in Channels,
         NEW channels \in SUBSET Channels
  PROVE  WillHave(After(channels, Head(q)), Tail(q), ch)
           <=> WillHave(channels, q, ch)
<1> DEFINE p == Tail(q)
           has == After(channels, Head(q))
<1>1. /\ Len(q) \in Nat /\ Len(q) > 0 /\ DOMAIN q = 1 .. Len(q)
      /\ Head(q) = q[1] /\ q[1] \in Frames
      /\ p \in Seq(Frames) /\ Len(p) = Len(q) - 1
      /\ \A i \in 1 .. Len(p) : p[i] = q[i + 1]
  BY HeadTailProperties, LenProperties, ElementOfSeq, EmptySeq
<1>2. DOMAIN p = 1 .. Len(q) - 1
  BY <1>1, LenProperties
<1>h. /\ q[1].method = "subscribe" => (ch \in has <=> ch \in channels \/ ch = q[1].channel)
      /\ q[1].method = "unsubscribe" => (ch \in has <=> ch \in channels /\ ch # q[1].channel)
      /\ q[1].method \notin Feeding => has = channels
  <2> DEFINE f == q[1]
  <2>1. has = After(channels, f)
    BY <1>1
  <2> HIDE DEF has, f
  <2>2. f.method = "subscribe" => has = channels \cup {f.channel}
    BY <2>1, Zenon DEF After
  <2>3. f.method = "unsubscribe" => has = channels \ {f.channel}
    BY <2>1, Zenon DEF After
  <2>4. f.method \notin Feeding => has = channels
    BY <2>1, Zenon DEF After, Feeding
  <2>5. /\ f.method = "subscribe" => (ch \in has <=> ch \in channels \/ ch = f.channel)
        /\ f.method = "unsubscribe" => (ch \in has <=> ch \in channels /\ ch # f.channel)
        /\ f.method \notin Feeding => has = channels
    BY <2>2, <2>3, <2>4
  <2> QED
    BY <2>5 DEF f
<1> HIDE DEF p, has
<1>3. ASSUME NEW i \in 1 .. Len(q) - 1
      PROVE  p[i] = q[i + 1] /\ (i \in About(p, ch) <=> i + 1 \in About(q, ch))
  <2>1. p[i] = q[i + 1] /\ i \in DOMAIN p /\ i + 1 \in DOMAIN q
    BY <1>1, <1>2, <1>3
  <2> QED
    BY <2>1 DEF About
<1>4. /\ About(p, ch) \subseteq 1 .. Len(q) - 1
      /\ About(q, ch) \subseteq 1 .. Len(q)
      /\ 1 \in About(q, ch) <=> q[1].method \in Feeding /\ q[1].channel = ch
  BY <1>1, <1>2 DEF About
<1>5. ASSUME NEW k \in About(p, ch)
      PROVE  WillHave(has, p, ch) <=> WillHave(channels, q, ch)
  <2>1. k \in 1 .. Len(q) - 1 /\ k + 1 \in About(q, ch)
    BY <1>3, <1>4
  <2>2. ASSUME NEW i \in About(p, ch), p[i].method = "subscribe",
               \A j \in About(p, ch) : j <= i
        PROVE  WillHave(channels, q, ch)
    <3>1. i \in 1 .. Len(q) - 1 /\ i + 1 \in About(q, ch) /\ q[i + 1].method = "subscribe"
      BY <1>3, <1>4, <2>2
    <3>2. ASSUME NEW j \in About(q, ch) PROVE j <= i + 1
      <4>1. CASE j = 1
        BY <3>1, <4>1
      <4>2. CASE j # 1
        <5>1. j - 1 \in 1 .. Len(q) - 1 /\ j = (j - 1) + 1
          BY <1>1, <1>4, <4>2
        <5>2. j - 1 \in About(p, ch)
          BY <1>3, <5>1
        <5> QED
          BY <2>2, <3>1, <5>1, <5>2
      <4> QED
        BY <4>1, <4>2
    <3> QED
      BY <3>1, <3>2 DEF WillHave
  <2>3. ASSUME NEW i \in About(q, ch), q[i].method = "subscribe",
               \A j \in About(q, ch) : j <= i
        PROVE  WillHave(has, p, ch)
    <3>1. k + 1 <= i /\ i \in 1 .. Len(q)
      BY <1>4, <2>1, <2>3
    <3>2. i - 1 \in 1 .. Len(q) - 1 /\ i = (i - 1) + 1
      BY <1>1, <2>1, <3>1
    <3>3. i - 1 \in About(p, ch) /\ p[i - 1].method = "subscribe"
      BY <1>3, <2>3, <3>2
    <3>4. ASSUME NEW j \in About(p, ch) PROVE j <= i - 1
      <4>1. j \in 1 .. Len(q) - 1 /\ j + 1 \in About(q, ch)
        BY <1>3, <1>4
      <4>2. j + 1 <= i
        BY <2>3, <4>1
      <4> QED
        BY <3>1, <4>1, <4>2
    <3> QED
      BY <3>3, <3>4 DEF WillHave
  <2> QED
    BY <2>1, <2>2, <2>3 DEF WillHave
<1>6. ASSUME About(p, ch) = {}
      PROVE  WillHave(has, p, ch) <=> WillHave(channels, q, ch)
  <2>1. ASSUME NEW j \in About(q, ch) PROVE j = 1
    <3>1. CASE j # 1
      <4>1. j - 1 \in 1 .. Len(q) - 1 /\ j = (j - 1) + 1
        BY <1>1, <1>4, <3>1
      <4> QED
        BY <1>3, <1>6, <4>1
    <3> QED
      BY <3>1
  <2>2. WillHave(has, p, ch) <=> ch \in has
    BY <1>6 DEF WillHave
  <2>3. CASE 1 \in About(q, ch)
    <3>1. WillHave(channels, q, ch) <=> q[1].method = "subscribe"
      BY <2>1, <2>3 DEF WillHave
    <3> QED
      BY <1>4, <1>h, <2>2, <2>3, <3>1 DEF Feeding
  <2>4. CASE 1 \notin About(q, ch)
    <3>1. About(q, ch) = {}
      BY <2>1, <2>4
    <3>2. WillHave(channels, q, ch) <=> ch \in channels
      BY <3>1 DEF WillHave
    <3> QED
      BY <1>4, <1>h, <2>2, <2>4, <3>2 DEF Feeding
  <2> QED
    BY <2>3, <2>4
<1>7. WillHave(has, p, ch) <=> WillHave(channels, q, ch)
  BY <1>5, <1>6
<1> QED
  BY <1>7 DEF p, has

FeedsTyped == /\ up \in [Sockets -> Seq(Frames)]
              /\ subs \in [Sockets -> SUBSET Channels]

\* Nothing has been sent on a socket that has not opened yet.
UnusedAreEmpty ==
  \A s \in Sockets :
    /\ connects[s] = "none" => state[s] = "none"
    /\ state[s] \in {"none", "connecting"} => up[s] = <<>> /\ subs[s] = {}

\* A handler is that of a subscription of this connection, or is left over.
HandlersAccounted ==
  /\ wanted \in SUBSET Channels
  /\ connected => channelHandlers \ leftover \subseteq wanted
  /\ ~connected => wanted = {}

FeedInv == /\ RequestInv
           /\ FeedsTyped
           /\ UnusedAreEmpty
           /\ HandlersAccounted
           /\ SubscriptionsHonoured

\* Only these steps touch what was sent and what the server has.
LEMMA FeedsMoveIn ==
  ASSUME FeedInv, Next
  PROVE  \/ UNCHANGED <<up, subs>>
         \/ \E s \in Sockets : Ends(s) \/ ServerTakes(s)
         \/ \E frame \in Frames : connected /\ Sends(frame) /\ UNCHANGED subs
<1> USE DEF fields, calls, asks, feeds, wires
<1>1. Disconnect \/ HeartbeatTimeout \/ InitFailureTimeout => UNCHANGED <<up, subs>>
  BY DEF Disconnect, HeartbeatTimeout, InitFailureTimeout
<1>2. \A n \in Sockets : Connect(n) \/ ConnectThrows(n) => UNCHANGED <<up, subs>>
  BY DEF Connect, ConnectThrows
<1>3. \A s \in Sockets : Opens(s) \/ Delivered(s) => UNCHANGED <<up, subs>>
  BY DEF Opens, Delivered
<1>4. ASSUME NEW frame \in Frames, Sends(frame), UNCHANGED subs
      PROVE  \/ UNCHANGED <<up, subs>>
             \/ \E f \in Frames : connected /\ Sends(f) /\ UNCHANGED subs
  BY <1>4 DEF Sends
<1>5. ASSUME NEW ch \in Channels, Subscribe(ch)
      PROVE  \/ UNCHANGED <<up, subs>>
             \/ \E f \in Frames : connected /\ Sends(f) /\ UNCHANGED subs
  <2>1. Frame("subscribe", ch, None) \in Frames
    BY DEF Frame, Frames, Feeding
  <2> QED
    BY <1>4, <1>5, <2>1 DEF Subscribe
<1>6. ASSUME NEW ch \in Channels, Unsubscribe(ch)
      PROVE  \/ UNCHANGED <<up, subs>>
             \/ \E f \in Frames : connected /\ Sends(f) /\ UNCHANGED subs
  <2>1. Frame("unsubscribe", ch, None) \in Frames
    BY DEF Frame, Frames, Feeding
  <2> QED
    BY <1>4, <1>6, <2>1 DEF Unsubscribe
<1>7. ASSUME NEW r \in Requests, Request(r)
      PROVE  \/ UNCHANGED <<up, subs>>
             \/ \E f \in Frames : connected /\ Sends(f) /\ UNCHANGED subs
  <2>1. Frame("request", None, r) \in Frames
    BY DEF Frame, Frames, Feeding
  <2> QED
    BY <1>4, <1>7, <2>1 DEF Request
<1> QED
  BY <1>1, <1>2, <1>3, <1>5, <1>6, <1>7 DEF Next, AppStep, SocketStep

\* What a sent frame and a taken one do to the socket they are on.
LEMMA SentOnField ==
  ASSUME FeedInv, connected, NEW frame \in Frames, Sends(frame)
  PROVE  /\ websocket \in Sockets /\ state[websocket] = "open"
         /\ up' \in [Sockets -> Seq(Frames)]
         /\ up'[websocket] = Append(up[websocket], frame)
         /\ \A s \in Sockets : s # websocket => up'[s] = up[s]
<1>1. websocket \in Sockets /\ state[websocket] = "open"
  BY DEF FeedInv, RequestInv, SocketInv, SocketsTyped, ConnectedIsOpen
<1>2. up[websocket] \in Seq(Frames)
  BY <1>1 DEF FeedInv, FeedsTyped
<1>3. Append(up[websocket], frame) \in Seq(Frames)
  BY <1>2, AppendProperties
<1> QED
  BY <1>1, <1>3 DEF FeedInv, FeedsTyped, Sends

LEMMA TakenByServer ==
  ASSUME FeedInv, NEW s \in Sockets, ServerTakes(s)
  PROVE  /\ up[s] # <<>> /\ up[s] \in Seq(Frames) /\ subs[s] \in SUBSET Channels
         /\ up' \in [Sockets -> Seq(Frames)]
         /\ up'[s] = Tail(up[s])
         /\ subs' \in [Sockets -> SUBSET Channels]
         /\ subs'[s] = After(subs[s], Head(up[s]))
         /\ \A t \in Sockets : t # s => up'[t] = up[t] /\ subs'[t] = subs[t]
<1>1. up[s] # <<>> /\ up[s] \in Seq(Frames) /\ subs[s] \in SUBSET Channels
  BY DEF FeedInv, FeedsTyped, ServerTakes
<1>2. Tail(up[s]) \in Seq(Frames) /\ Head(up[s]) \in Frames
  BY <1>1, HeadTailProperties, EmptySeq
<1>3. After(subs[s], Head(up[s])) \in SUBSET Channels
  <2> SUFFICES ASSUME NEW f \in Frames PROVE After(subs[s], f) \in SUBSET Channels
    BY <1>2
  <2>1. f.method \in Feeding => f.channel \in Channels
    BY DEF Frames, Feeding
  <2>2. CASE f.method = "subscribe"
    <3>1. After(subs[s], f) = subs[s] \cup {f.channel}
      BY <2>2, Zenon DEF After
    <3> QED
      BY <1>1, <2>1, <2>2, <3>1 DEF Feeding
  <2>3. CASE f.method = "unsubscribe"
    <3>1. After(subs[s], f) = subs[s] \ {f.channel}
      BY <2>3, Zenon DEF After
    <3> QED
      BY <1>1, <3>1
  <2>4. CASE f.method \notin Feeding
    <3>1. After(subs[s], f) = subs[s]
      BY <2>4, Zenon DEF After, Feeding
    <3> QED
      BY <1>1, <3>1
  <2> QED
    BY <2>2, <2>3, <2>4 DEF Feeding
<1>4. /\ up' = [up EXCEPT ![s] = Tail(up[s])]
      /\ subs' = [subs EXCEPT ![s] = After(subs[s], Head(up[s]))]
  BY DEF ServerTakes
<1> QED
  BY <1>1, <1>2, <1>3, <1>4 DEF FeedInv, FeedsTyped

\* A socket is made by a call of connect(), and opens later, if ever.
LEMMA SocketsAgeInOrder ==
  ASSUME FeedInv, Next, NEW s \in Sockets
  PROVE  /\ connects'[s] = "none" => state'[s] = "none"
         /\ state'[s] \in {"none", "connecting"} => state[s] \in {"none", "connecting"}
<1> USE NoneIsNoSocket
<1> DEFINE Older == /\ connects'[s] = "none" => state'[s] = "none"
                    /\ state'[s] \in {"none", "connecting"} =>
                         state[s] \in {"none", "connecting"}
<1>t. /\ state \in [Sockets -> {"none", "closing", "closed"} \cup Live]
      /\ connects \in [Sockets -> {"none", "pending", "resolved", "rejected"}]
      /\ connects[s] = "none" => state[s] = "none"
      /\ connectPromiseHandler = s => connects[s] # "none"
  BY DEF FeedInv, RequestInv, SocketInv, SocketsTyped, RequestsTyped, UnusedAreEmpty,
         HandlerWasCalled
<1>c. /\ Closed \in [Sockets -> {"none", "closing", "closed"} \cup Live]
      /\ Closed[s] \in {state[s], "closing"}
      /\ state[s] \notin Live => Closed[s] = state[s]
  BY <1>t, ClosedLeavesNone DEF Closed, FeedInv, RequestInv
<1>r. /\ Rejected \in [Sockets -> {"none", "pending", "resolved", "rejected"}]
      /\ Rejected[s] = "none" => connects[s] = "none"
  BY <1>t DEF Rejected
<1>1. ASSUME connects'[s] = "none" => connects[s] = "none",
             state'[s] = state[s] \/ state'[s] = Closed[s]
      PROVE  Older
  BY <1>1, <1>t, <1>c DEF Live
<1>2. Disconnect \/ HeartbeatTimeout => Older
  BY <1>1 DEF Disconnect, HeartbeatTimeout, calls
<1>3. InitFailureTimeout => Older
  BY <1>1, <1>r DEF InitFailureTimeout
<1>4. ASSUME NEW n \in Sockets, Connect(n) PROVE Older
  <2>1. CASE shouldConnect
    BY <1>1, <1>4, <2>1, <1>t DEF Connect
  <2>2. CASE ~shouldConnect
    <3>1. /\ connects' = [connects EXCEPT ![n] = "pending"] /\ connects[n] = "none"
          /\ state' = [Closed EXCEPT ![n] = "connecting"]
      BY <1>4, <2>2 DEF Connect, Calls
    <3>2. CASE s = n
      BY <3>1, <3>2, <1>t, <1>c
    <3>3. CASE s # n
      BY <1>1, <3>1, <3>3, <1>t, <1>c
    <3> QED
      BY <3>2, <3>3
  <2> QED
    BY <2>1, <2>2
<1>5. ASSUME NEW n \in Sockets, ConnectThrows(n) PROVE Older
  <2>1. /\ connects' = [Rejected EXCEPT ![n] = "pending"] /\ state' = Closed
    BY <1>5 DEF ConnectThrows
  <2> QED
    BY <1>1, <1>r, <2>1
<1>6. ASSUME NEW t \in Sockets, Opens(t) PROVE Older
  <2>1. /\ state[t] = "connecting" /\ state' = [state EXCEPT ![t] = "open"]
        /\ connects'[s] = "none" => connects[s] = "none"
    BY <1>6, <1>t DEF Opens
  <2>2. CASE s = t
    BY <2>1, <2>2, <1>t
  <2>3. CASE s # t
    BY <1>1, <2>1, <2>3, <1>t
  <2> QED
    BY <2>2, <2>3
<1>7. ASSUME NEW t \in Sockets, Ends(t) PROVE Older
  <2>1. /\ state[t] \in {"closing"} \cup Live /\ connects' = connects
        /\ state' = [Closed EXCEPT ![t] = "closed"]
    BY <1>7 DEF Ends, calls
  <2>2. CASE s = t
    BY <2>1, <2>2, <1>t, <1>c DEF Live
  <2>3. CASE s # t
    BY <1>1, <2>1, <2>3, <1>c
  <2> QED
    BY <2>2, <2>3
<1>8. \A t \in Sockets : Delivered(t) \/ ServerTakes(t) => Older
  BY <1>1 DEF Delivered, ServerTakes, calls
<1>9. /\ \A ch \in Channels : Subscribe(ch) \/ Unsubscribe(ch) => Older
      /\ \A r \in Requests : Request(r) => Older
  BY <1>1 DEF Subscribe, Unsubscribe, Request, calls
<1>10. Older
  BY <1>2, <1>3, <1>4, <1>5, <1>6, <1>7, <1>8, <1>9 DEF Next, AppStep, SocketStep
<1> QED
  BY <1>10

LEMMA FeedsStayTyped == FeedInv /\ [Next]_vars => FeedsTyped' /\ UnusedAreEmpty'
<1>1. ASSUME FeedInv, UNCHANGED vars PROVE FeedsTyped' /\ UnusedAreEmpty'
  BY <1>1 DEF FeedInv, vars, calls, wires, FeedsTyped, UnusedAreEmpty
<1>2. ASSUME FeedInv, Next PROVE FeedsTyped' /\ UnusedAreEmpty'
  <2>0. FeedsTyped /\ UnusedAreEmpty
    BY <1>2 DEF FeedInv
  <2>1. FeedsTyped' /\ \A s \in Sockets :
                         state[s] \in {"none", "connecting"} =>
                           up'[s] = <<>> /\ subs'[s] = {}
    <3>1. CASE UNCHANGED <<up, subs>>
      BY <2>0, <3>1 DEF FeedsTyped, UnusedAreEmpty
    <3>2. ASSUME NEW s \in Sockets, Ends(s)
          PROVE  /\ FeedsTyped'
                 /\ \A t \in Sockets : state[t] \in {"none", "connecting"} =>
                                         up'[t] = <<>> /\ subs'[t] = {}
      <4>1. /\ up' = [up EXCEPT ![s] = <<>>] /\ subs' = [subs EXCEPT ![s] = {}]
            /\ <<>> \in Seq(Frames)
        BY <3>2, EmptySeq DEF Ends, Hangup
      <4> QED
        BY <2>0, <4>1 DEF FeedsTyped, UnusedAreEmpty
    <3>3. ASSUME NEW s \in Sockets, ServerTakes(s)
          PROVE  /\ FeedsTyped'
                 /\ \A t \in Sockets : state[t] \in {"none", "connecting"} =>
                                         up'[t] = <<>> /\ subs'[t] = {}
      <4>1. /\ up[s] # <<>>
            /\ up' \in [Sockets -> Seq(Frames)]
            /\ subs' \in [Sockets -> SUBSET Channels]
            /\ \A t \in Sockets : t # s => up'[t] = up[t] /\ subs'[t] = subs[t]
        BY <1>2, <3>3, TakenByServer
      <4> QED
        BY <2>0, <4>1 DEF FeedsTyped, UnusedAreEmpty
    <3>4. ASSUME NEW frame \in Frames, connected, Sends(frame), UNCHANGED subs
          PROVE  /\ FeedsTyped'
                 /\ \A t \in Sockets : state[t] \in {"none", "connecting"} =>
                                         up'[t] = <<>> /\ subs'[t] = {}
      <4>1. /\ state[websocket] = "open"
            /\ up' \in [Sockets -> Seq(Frames)]
            /\ \A s \in Sockets : s # websocket => up'[s] = up[s]
        BY <1>2, <3>4, SentOnField
      <4> QED
        BY <2>0, <3>4, <4>1 DEF FeedsTyped, UnusedAreEmpty
    <3> QED
      BY <1>2, <3>1, <3>2, <3>3, <3>4, FeedsMoveIn
  <2>2. UnusedAreEmpty'
    BY <1>2, <2>1, SocketsAgeInOrder DEF UnusedAreEmpty
  <2> QED
    BY <2>1, <2>2
<1> QED
  BY <1>1, <1>2

\* Neither the connection nor what is subscribed to on it is touched.
LEMMA NothingSubscribed ==
  ASSUME FeedInv,
         UNCHANGED <<connected, websocket, channelHandlers, wanted, leftover>>,
         connected =>
           \A ch \in Channels : ch \in View(websocket)' <=> ch \in View(websocket)
  PROVE  HandlersAccounted' /\ SubscriptionsHonoured'
BY DEF FeedInv, HandlersAccounted, SubscriptionsHonoured

\* Without a connection nothing is promised.
LEMMA NothingPromised ==
  ASSUME connected' = FALSE, wanted' = {}
  PROVE  HandlersAccounted' /\ SubscriptionsHonoured'
BY DEF HandlersAccounted, SubscriptionsHonoured

LEMMA FeedStepKeepsInv == FeedInv /\ [Next]_vars => FeedInv'
<1> SUFFICES ASSUME FeedInv, [Next]_vars PROVE FeedInv'
  OBVIOUS
<1> DEFINE Goal == HandlersAccounted' /\ SubscriptionsHonoured'
<1>0. RequestInv' /\ FeedsTyped' /\ UnusedAreEmpty'
  BY RequestStepKeepsInv, FeedsStayTyped DEF FeedInv
<1>t. /\ FeedsTyped /\ HandlersAccounted /\ SubscriptionsHonoured /\ UnusedAreEmpty
      /\ connected => websocket \in Sockets /\ state[websocket] = "open"
      /\ connected' \in BOOLEAN
  BY <1>0 DEF FeedInv, RequestInv, SocketInv, SocketsTyped, ConnectedIsOpen
<1>e. connected => up[websocket] \in Seq(Frames) /\ subs[websocket] \in SUBSET Channels
  BY <1>t DEF FeedsTyped
<1>1. Disconnect \/ HeartbeatTimeout => Goal
  BY NothingPromised DEF Disconnect, HeartbeatTimeout, ReverseStates
<1>2. ASSUME NEW n \in Sockets, Connect(n) PROVE Goal
  <2>1. CASE shouldConnect
    <3>1. /\ UNCHANGED <<connected, websocket, channelHandlers, wanted, leftover>>
          /\ UNCHANGED <<up, subs>>
      BY <1>2, <2>1 DEF Connect, fields, feeds, wires
    <3> QED
      BY <3>1, NothingSubscribed DEF View
  <2>2. CASE ~shouldConnect
    BY <1>2, <2>2, NothingPromised DEF Connect, ReverseStates
  <2> QED
    BY <2>1, <2>2
<1>3. \A n \in Sockets : ConnectThrows(n) => Goal
  BY NothingPromised DEF ConnectThrows, ReverseStates
<1>4. \A s \in Sockets : Ends(s) => Goal
  BY NothingPromised DEF Ends, ReverseStates
<1>5. ASSUME UNCHANGED <<connected, websocket, channelHandlers, wanted, leftover>>,
             UNCHANGED <<up, subs>>
      PROVE  Goal
  BY <1>5, NothingSubscribed DEF View
<1>6. InitFailureTimeout \/ UNCHANGED vars => Goal
  BY <1>5 DEF InitFailureTimeout, vars, fields, feeds, wires
<1>7. \A s \in Sockets : Delivered(s) => Goal
  BY <1>5 DEF Delivered, fields, feeds
<1>8. ASSUME NEW s \in Sockets, Opens(s) PROVE Goal
  <2>1. /\ websocket = s /\ ~connected /\ up[s] = <<>> /\ subs[s] = {}
    BY <1>8, <1>t DEF Opens, UnusedAreEmpty, FeedInv, RequestInv, SocketInv,
                      OneLiveSocket, Live
  <2>2. /\ connected' = TRUE /\ leftover' = channelHandlers
        /\ UNCHANGED <<websocket, channelHandlers, wanted, up, subs>>
    BY <1>8 DEF Opens, wires
  <2>3. wanted = {}
    BY <1>t, <2>1 DEF HandlersAccounted
  <2>4. HandlersAccounted'
    BY <2>2, <2>3 DEF HandlersAccounted
  <2>5. ASSUME NEW ch \in Channels PROVE ~WillHave(subs'[s], up'[s], ch)
    BY <2>1, <2>2 DEF WillHave, About
  <2>6. SubscriptionsHonoured'
    BY <2>1, <2>2, <2>3, <2>5 DEF SubscriptionsHonoured, View
  <2> QED
    BY <2>4, <2>6
<1>9. ASSUME NEW s \in Sockets, ServerTakes(s) PROVE Goal
  <2>1. UNCHANGED <<connected, websocket, channelHandlers, wanted, leftover>>
    BY <1>9 DEF ServerTakes, fields, feeds
  <2>2. ASSUME connected, NEW ch \in Channels
        PROVE  WillHave(subs'[websocket], up'[websocket], ch)
                 <=> WillHave(subs[websocket], up[websocket], ch)
    <3>1. CASE websocket = s
      BY <1>9, <2>2, <3>1, TakenByServer, TakenChangesNothing
    <3>2. CASE websocket # s
      BY <1>9, <1>t, <2>2, <3>2, TakenByServer
    <3> QED
      BY <3>1, <3>2
  <2> QED
    BY <2>1, <2>2, NothingSubscribed DEF View
<1>10. ASSUME NEW r \in Requests, Request(r) PROVE Goal
  <2>1. /\ UNCHANGED <<connected, websocket, channelHandlers, wanted, leftover, subs>>
        /\ Sends(Frame("request", None, r))
    BY <1>10 DEF Request, fields, feeds
  <2>2. CASE connected
    <3> DEFINE f == Frame("request", None, r)
    <3>1. f \in Frames /\ f.method \notin Feeding
      BY DEF Frame, Frames, Feeding
    <3>2. Sends(f)
      BY <2>1
    <3> HIDE DEF f
    <3>3. up'[websocket] = Append(up[websocket], f)
      BY <2>2, <3>1, <3>2, SentOnField
    <3>4. \A ch \in Channels : WillHave(subs'[websocket], up'[websocket], ch)
                                 <=> WillHave(subs[websocket], up[websocket], ch)
      BY <1>e, <2>1, <2>2, <3>1, <3>3, SentDecides
    <3> QED
      BY <2>1, <3>4, NothingSubscribed DEF View
  <2>3. CASE ~connected
    BY <1>5, <2>1, <2>3 DEF Sends
  <2> QED
    BY <2>2, <2>3
<1>11. ASSUME NEW ch \in Channels, Subscribe(ch) PROVE Goal
  <2>1. UNCHANGED <<connected, websocket, leftover, subs>>
    BY <1>11 DEF Subscribe, fields
  <2>2. CASE ~connected
    <3>1. wanted' = {} /\ connected' = FALSE
      BY <1>11, <1>t, <2>1, <2>2 DEF Subscribe, HandlersAccounted
    <3> QED
      BY <3>1, NothingPromised
  <2>3. CASE connected
    <3>1. wanted' = wanted \cup {ch}
      BY <1>11, <2>3 DEF Subscribe
    <3>2. CASE ch \in channelHandlers
      <4>1. UNCHANGED <<channelHandlers, up>>
        BY <1>11, <3>2 DEF Subscribe
      <4>2. ch \in leftover \/ ch \in wanted
        BY <1>t, <2>3, <3>2 DEF HandlersAccounted
      <4>3. HandlersAccounted'
        BY <1>t, <2>1, <2>3, <3>1, <4>1 DEF HandlersAccounted
      <4>4. SubscriptionsHonoured'
        BY <1>t, <2>1, <2>3, <3>1, <4>1, <4>2 DEF SubscriptionsHonoured, View
      <4> QED
        BY <4>3, <4>4
    <3>3. CASE ch \notin channelHandlers
      <4> DEFINE f == Frame("subscribe", ch, None)
      <4>1. /\ f \in Frames /\ f.method = "subscribe" /\ f.channel = ch
        BY DEF Frame, Frames, Feeding
      <4>2. channelHandlers' = channelHandlers \cup {ch} /\ Sends(f)
        BY <1>11, <3>3 DEF Subscribe
      <4> HIDE DEF f
      <4>3. up'[websocket] = Append(up[websocket], f)
        BY <2>3, <4>1, <4>2, SentOnField
      <4>4. HandlersAccounted'
        BY <1>t, <2>1, <2>3, <3>1, <4>2 DEF HandlersAccounted
      <4>5. WillHave(subs'[websocket], up'[websocket], ch)
        BY <1>e, <2>1, <2>3, <4>1, <4>3, SentDecides
      <4>6. ASSUME NEW other \in Channels, other # ch
            PROVE  WillHave(subs'[websocket], up'[websocket], other)
                     <=> WillHave(subs[websocket], up[websocket], other)
        BY <1>e, <2>1, <2>3, <4>1, <4>3, <4>6, SentDecides
      <4>7. SubscriptionsHonoured'
        BY <1>t, <2>1, <2>3, <3>1, <4>5, <4>6 DEF SubscriptionsHonoured, View
      <4> QED
        BY <4>4, <4>7
    <3> QED
      BY <3>2, <3>3
  <2> QED
    BY <2>2, <2>3
<1>12. ASSUME NEW ch \in Channels, Unsubscribe(ch) PROVE Goal
  <2>1. /\ UNCHANGED <<connected, websocket, subs>>
        /\ channelHandlers' = channelHandlers \ {ch}
        /\ wanted' = wanted \ {ch} /\ leftover' = leftover \ {ch}
    BY <1>12 DEF Unsubscribe, DropHandler, fields
  <2>2. CASE ~connected
    <3>1. wanted' = {} /\ connected' = FALSE
      BY <1>t, <2>1, <2>2 DEF HandlersAccounted
    <3> QED
      BY <3>1, NothingPromised
  <2>3. CASE connected
    <3> DEFINE f == Frame("unsubscribe", ch, None)
    <3>1. /\ f \in Frames /\ f.method = "unsubscribe" /\ f.channel = ch
      BY DEF Frame, Frames, Feeding
    <3>2. Sends(f)
      BY <1>12 DEF Unsubscribe
    <3> HIDE DEF f
    <3>3. up'[websocket] = Append(up[websocket], f)
      BY <2>3, <3>1, <3>2, SentOnField
    <3>4. HandlersAccounted'
      BY <1>t, <2>1, <2>3 DEF HandlersAccounted
    <3>5. ~WillHave(subs'[websocket], up'[websocket], ch)
      BY <1>e, <2>1, <2>3, <3>1, <3>3, SentDecides
    <3>6. ASSUME NEW other \in Channels, other # ch
          PROVE  WillHave(subs'[websocket], up'[websocket], other)
                   <=> WillHave(subs[websocket], up[websocket], other)
      BY <1>e, <2>1, <2>3, <3>1, <3>3, <3>6, SentDecides
    <3>7. SubscriptionsHonoured'
      BY <1>t, <2>1, <2>3, <3>5, <3>6 DEF SubscriptionsHonoured, View
    <3> QED
      BY <3>4, <3>7
  <2> QED
    BY <2>2, <2>3
<1>13. Goal
  BY <1>1, <1>2, <1>3, <1>4, <1>6, <1>7, <1>8, <1>9, <1>10, <1>11, <1>12
  DEF Next, AppStep, SocketStep
<1> QED
  BY <1>0, <1>13 DEF FeedInv

LEMMA InitIsFeedInv == Init => FeedInv
<1> SUFFICES ASSUME Init PROVE FeedInv
  OBVIOUS
<1>1. RequestInv
  BY InitIsRequestInv
<1>2. FeedsTyped
  BY EmptySeq DEF Init, FeedsTyped
<1>3. UnusedAreEmpty /\ HandlersAccounted /\ SubscriptionsHonoured
  BY DEF Init, UnusedAreEmpty, HandlersAccounted, SubscriptionsHonoured
<1> QED
  BY <1>1, <1>2, <1>3 DEF FeedInv

(* While connected, the server has, or is about to have, exactly the       *)
(* channels that subscribe() returned for on this connection, however many *)
(* frames are under way, except those whose handler is older than the      *)
(* connection (connector.ts, lines 233-255).                               *)
THEOREM FeedsHonoured == Spec => []SubscriptionsHonoured
<1>1. FeedInv => SubscriptionsHonoured
  BY DEF FeedInv
<1> QED
  BY <1>1, InitIsFeedInv, FeedStepKeepsInv, PTL DEF Spec

-----------------------------------------------------------------------------
(* The fields that the proofs above have no need of. *)

CallsTyped ==
  /\ shouldConnect \in BOOLEAN
  /\ connectPromiseHandler \in Sockets \cup {None}
  /\ initTimers \subseteq Sockets
  /\ initFailureTimeout \in Sockets \cup {None}

HandlersTyped ==
  /\ channelHandlers \subseteq Channels /\ leftover \subseteq Channels
  /\ down \in [Sockets -> Seq(Frames)]

LEMMA CallsStayTyped == CallsTyped /\ [Next]_vars => CallsTyped'
<1> SUFFICES ASSUME CallsTyped, [Next]_vars PROVE CallsTyped'
  OBVIOUS
<1> USE DEF CallsTyped
<1>1. UNCHANGED <<shouldConnect, calls>> => CallsTyped'
  BY DEF calls
<1>2. Disconnect \/ HeartbeatTimeout => CallsTyped'
  BY DEF Disconnect, HeartbeatTimeout, calls
<1>3. \A n \in Sockets : Connect(n) => CallsTyped'
  BY DEF Connect, fields
<1>4. \A n \in Sockets : ConnectThrows(n) => CallsTyped'
  BY DEF ConnectThrows, Cleared
<1>5. InitFailureTimeout => CallsTyped'
  BY DEF InitFailureTimeout, Cleared, fields
<1>6. \A s \in Sockets : Opens(s) => CallsTyped'
  BY DEF Opens
<1>7. \A s \in Sockets : Ends(s) \/ Delivered(s) \/ ServerTakes(s) => CallsTyped'
  BY <1>1 DEF Ends, Delivered, ServerTakes, fields
<1>8. \A ch \in Channels : Subscribe(ch) \/ Unsubscribe(ch) => CallsTyped'
  BY <1>1 DEF Subscribe, Unsubscribe, fields
<1>9. \A r \in Requests : Request(r) => CallsTyped'
  BY <1>1 DEF Request, fields
<1> QED
  BY <1>1, <1>2, <1>3, <1>4, <1>5, <1>6, <1>7, <1>8, <1>9
  DEF Next, AppStep, SocketStep, vars, fields

LEMMA HandlersStayTyped == FeedInv /\ HandlersTyped /\ [Next]_vars => HandlersTyped'
<1> SUFFICES ASSUME FeedInv, HandlersTyped, [Next]_vars PROVE HandlersTyped'
  OBVIOUS
<1> USE DEF HandlersTyped, feeds, wires
<1>1. ASSUME UNCHANGED <<channelHandlers, leftover, down>> PROVE HandlersTyped'
  BY <1>1
<1>2. Disconnect \/ HeartbeatTimeout => HandlersTyped'
  BY DEF Disconnect, HeartbeatTimeout, ReverseStates
<1>3. \A n \in Sockets : Connect(n) \/ ConnectThrows(n) => HandlersTyped'
  BY DEF Connect, ConnectThrows, ReverseStates
<1>4. InitFailureTimeout => HandlersTyped'
  BY DEF InitFailureTimeout
<1>5. \A s \in Sockets : Opens(s) => HandlersTyped'
  BY DEF Opens
<1>6. ASSUME NEW s \in Sockets, Ends(s) PROVE HandlersTyped'
  <2>1. /\ leftover' = {} /\ channelHandlers' = channelHandlers
        /\ down' = [down EXCEPT ![s] = <<>>] /\ <<>> \in Seq(Frames)
    BY <1>6, EmptySeq DEF Ends, ReverseStates, Hangup
  <2> QED
    BY <2>1
<1>7. ASSUME NEW s \in Sockets, Delivered(s) PROVE HandlersTyped'
  <2>1. down[s] \in Seq(Frames) /\ down[s] # <<>>
    BY <1>7 DEF Delivered
  <2>2. Tail(down[s]) \in Seq(Frames)
    BY <2>1, HeadTailProperties, EmptySeq
  <2>3. /\ down' = [down EXCEPT ![s] = Tail(down[s])]
        /\ UNCHANGED <<channelHandlers, leftover>>
    BY <1>7 DEF Delivered
  <2> QED
    BY <2>2, <2>3
<1>8. ASSUME NEW s \in Sockets, ServerTakes(s) PROVE HandlersTyped'
  <2>1. up[s] \in Seq(Frames) /\ up[s] # <<>>
    BY <1>8, TakenByServer
  <2>2. Head(up[s]) \in Frames
    BY <2>1, HeadTailProperties, EmptySeq
  <2>3. Append(down[s], Head(up[s])) \in Seq(Frames)
    BY <2>2, AppendProperties
  <2>4. /\ \/ down' = [down EXCEPT ![s] = Append(down[s], Head(up[s]))]
           \/ down' = down
        /\ UNCHANGED <<channelHandlers, leftover>>
    BY <1>8 DEF ServerTakes
  <2> QED
    BY <2>3, <2>4
<1>9. \A ch \in Channels : Subscribe(ch) => HandlersTyped'
  BY DEF Subscribe
<1>10. \A ch \in Channels : Unsubscribe(ch) => HandlersTyped'
  BY DEF Unsubscribe, DropHandler
<1>11. \A r \in Requests : Request(r) => HandlersTyped'
  BY DEF Request
<1>12. UNCHANGED vars => HandlersTyped'
  BY DEF vars
<1> QED
  BY <1>2, <1>3, <1>4, <1>5, <1>6, <1>7, <1>8, <1>9, <1>10, <1>11, <1>12
  DEF Next, AppStep, SocketStep

(* Every field of the connector, every promise and every socket is in one  *)
(* of the states its handlers expect: a timer is that of a call, a frame    *)
(* has the channel or the request it is about (connector.ts, lines 131-168). *)
THEOREM TypeCorrect == Spec => []TypeOK
<1>1. Init => CallsTyped /\ HandlersTyped
  <2> SUFFICES ASSUME Init PROVE CallsTyped /\ HandlersTyped
    OBVIOUS
  <2>1. shouldConnect \in BOOLEAN
    BY Zenon DEF Init
  <2>2. HandlersTyped
    <3>1. <<>> \in Seq(Frames)
      BY EmptySeq
    <3> QED
      BY <3>1 DEF Init, HandlersTyped
  <2> QED
    BY <2>1, <2>2 DEF Init, CallsTyped
<1>2. FeedInv /\ CallsTyped /\ HandlersTyped => TypeOK
  BY DEF FeedInv, RequestInv, SocketInv, SocketsTyped, RequestsTyped, FeedsTyped,
         HandlersAccounted, CallsTyped, HandlersTyped, TypeOK
<1> QED
  BY <1>1, <1>2, InitIsFeedInv, FeedStepKeepsInv, CallsStayTyped, HandlersStayTyped, PTL DEF Spec

-----------------------------------------------------------------------------
(* What generateChannelId() and parseChannelId() do for every channel and   *)
(* every parameter without a colon.                                         *)

(* The two switch statements agree on the parameters of every channel.      *)
LEMMA TablesAgree == \A channel : Read(channel) = Written(channel)
  BY Zenon DEF Read, Written

(* A channel has no parameter, one, or two of different names.              *)
LEMMA UpToTwo ==
  \A channel : \/ Written(channel) = <<>>
               \/ \E f : Written(channel) = <<f>>
               \/ \E f, g : f # g /\ Written(channel) = <<f, g>>
<1> TAKE channel
<1>1. \/ Written(channel) \in {<<"market_id">>, <<"address">>, <<"id">>, <<"denom">>, <<>>}
      \/ Written(channel) \in {<<"market_id", "address">>, <<"market_id", "resolution">>}
  BY Zenon DEF Written
<1>2. "market_id" # "address" /\ "market_id" # "resolution"
  OBVIOUS
<1>. QED BY <1>1, <1>2, Zenon

(* Joining parameters of one part each. *)
LEMMA Joined ==
  ASSUME NEW a, NEW b, NEW c
  PROVE  <<a>> \o <<b>> = <<a, b>> /\ <<a>> \o <<b>> \o <<c>> = <<a, b, c>>
<1> DEFINE S == {a, b, c}
<1>1. <<a>> \in Seq(S) /\ <<b>> \in Seq(S) /\ <<c>> \in Seq(S) /\ <<a, b>> \in Seq(S)
  OBVIOUS
<1>2. <<a>> \o <<b>> = <<a, b>>
  <2>1. /\ <<a>> \o <<b>> \in Seq(S) /\ Len(<<a>> \o <<b>>) = 2
        /\ (<<a>> \o <<b>>)[1] = a /\ (<<a>> \o <<b>>)[2] = b
    BY <1>1, ConcatProperties
  <2>2. Len(<<a, b>>) = 2 /\ \A n \in 1..2 : (<<a>> \o <<b>>)[n] = <<a, b>>[n]
    BY <2>1
  <2>. QED BY <1>1, <2>1, <2>2, SeqEqual
<1>3. <<a, b>> \o <<c>> = <<a, b, c>>
  <2>1. /\ <<a, b>> \o <<c>> \in Seq(S) /\ Len(<<a, b>> \o <<c>>) = 3
        /\ (<<a, b>> \o <<c>>)[1] = a /\ (<<a, b>> \o <<c>>)[2] = b /\ (<<a, b>> \o <<c>>)[3] = c
    BY <1>1, ConcatProperties
  <2>2. /\ <<a, b, c>> \in Seq(S) /\ Len(<<a, b, c>>) = 3
        /\ \A n \in 1..3 : (<<a, b>> \o <<c>>)[n] = <<a, b, c>>[n]
    BY <2>1
  <2>. QED BY <2>1, <2>2, SeqEqual
<1>. QED BY <1>2, <1>3

(* Whatever the channel and its parameters, what generateChannelId() made   *)
(* of them parseChannelId() takes apart into the same fields.               *)
THEOREM SubscriptionsFoundAgain == RoundTrip
<1> SUFFICES ASSUME NEW channel \in WsChannels, NEW params \in Plain(channel)
             PROVE  /\ ParsedChannel(Generate(channel, params)) = channel
                    /\ ParsedParams(Generate(channel, params)) = params
  BY DEF RoundTrip
<1> DEFINE w == Written(channel)
           id == Generate(channel, params)
<1>1. CASE w = <<>>
  <2>1. id = <<channel>> /\ Names(channel) = {}
    BY <1>1 DEF Generate, Names
  <2>2. ParsedParams(id) = [f \in {} |-> IF f = w[1] THEN <<id[2]>> ELSE <<id[3]>>]
    BY <2>1, <1>1, TablesAgree DEF ParsedParams
  <2>. QED BY <2>1, <2>2 DEF ParsedChannel, Plain
<1>2. ASSUME NEW f, w = <<f>>
      PROVE ParsedChannel(id) = channel /\ ParsedParams(id) = params
  <2>1. Names(channel) = {f} /\ Len(w) = 1 /\ w[1] = f
    BY <1>2 DEF Names
  <2>2. PICK p \in Parts : params[f] = <<p>>
    BY <2>1 DEF Plain
  <2>3. id = <<channel, p>>
    BY <2>1, <2>2, Joined DEF Generate
  <2>4. ParsedParams(id) = [g \in {f} |-> <<p>>]
    BY <2>1, <2>3, TablesAgree DEF ParsedParams, Names
  <2>5. params = [g \in {f} |-> <<p>>]
    BY <2>1, <2>2 DEF Plain
  <2>. QED BY <2>3, <2>4, <2>5 DEF ParsedChannel
<1>3. ASSUME NEW f, NEW g, f # g, w = <<f, g>>
      PROVE ParsedChannel(id) = channel /\ ParsedParams(id) = params
  <2>1. Names(channel) = {f, g} /\ Len(w) = 2 /\ w[1] = f /\ w[2] = g
    BY <1>3 DEF Names
  <2>2. PICK p \in Parts : params[f] = <<p>>
    BY <2>1 DEF Plain
  <2>3. PICK q \in Parts : params[g] = <<q>>
    BY <2>1 DEF Plain
  <2>4. id = <<channel, p, q>>
    BY <2>1, <2>2, <2>3, Joined DEF Generate
  <2>5. ParsedParams(id) = [h \in {f, g} |-> IF h = f THEN <<p>> ELSE <<q>>]
    BY <2>1, <2>4, TablesAgree DEF ParsedParams, Names
  <2>6. params = [h \in {f, g} |-> IF h = f THEN <<p>> ELSE <<q>>]
    BY <1>3, <2>1, <2>2, <2>3 DEF Plain
  <2>. QED BY <2>4, <2>5, <2>6 DEF ParsedChannel
<1>. QED BY <1>1, <1>2, <1>3, UpToTwo

(* The handlers of two subscriptions are never taken for each other.        *)
THEOREM SubscriptionsKeptApart == NoSharedId
  BY SubscriptionsFoundAgain DEF RoundTrip, NoSharedId
=============================================================================
