------------------------------- MODULE Ledger -------------------------------
(***************************************************************************)
(* packages/ledger/src/index.ts, and the same logic in packages/node-      *)
(* ledger/src/index.ts: the connection to a Ledger device.  connect()      *)
(* makes a transport once, remembers it in cosmosApp and checks the device *)
(* behind it; every operation connects and then exchanges messages with    *)
(* the device over whatever cosmosApp is at that moment.  Operations of    *)
(* several callers interleave at every await.  The app in test mode is not *)
(* allowed (the default).                                                  *)
(***************************************************************************)
EXTENDS Naturals, Sequences, FiniteSets

CONSTANTS Callers, None,
          MaxCalls,      \* bound: operations called, half as many by two at once
          MaxChanges     \* bound: times the user does something

\* What the user can have on the device: the app, an old one or one in test
\* mode, the dashboard, the screensaver.
Conditions == {"fit", "outdated", "testMode", "dashboard", "locked"}

Ops == {"testDevice", "getPubKey", "sign", "confirmLedgerAddress",
        "getCosmosAppVersion", "isCosmosAppOpen", "getOpenApp"}

ASSUME LedgerAssumption == /\ IsFiniteSet(Callers) /\ None \notin Nat
                           /\ MaxCalls \in Nat /\ MaxChanges \in Nat

VARIABLES atOnce,   \* how many callers there are at a time; it never changes
          device,   \* the condition of the device
          app,      \* cosmosApp: its transport, or None
          open,     \* the transports that are open
          made,     \* how many have been made
          passed,   \* history: those whose device passed the check
          todo,     \* what a caller's operation has still to do
          sent,     \* the transport a caller awaits an answer on, or None
          failed,   \* history: the connections (or None) operations threw with
          uses,     \* history: testDevice() or disconnect() has been called
          calls, changes

world == <<atOnce, device, changes>>
vars == <<world, app, open, made, passed, todo, sent, failed, uses, calls>>

Init == /\ atOnce \in 1 .. Cardinality(Callers)
        /\ device \in Conditions
        /\ app = None /\ open = {} /\ made = 0 /\ passed = {}
        /\ todo = [c \in Callers |-> <<>>]
        /\ sent = [c \in Callers |-> None]
        /\ failed = {} /\ uses = {} /\ calls = 0 /\ changes = 0

-----------------------------------------------------------------------------
(* Variants of definitions below with a plausible mistake in them. *)

ConnectsAlways == TRUE                       \* cosmosApp is not looked at
ReadyUnchecked == <<>>                       \* isReady() is not called
ClosesAlways(error) == TRUE                  \* the message is not looked at

-----------------------------------------------------------------------------
(* The steps of an operation.  checkVersion and checkOpen are isReady()'s  *)
(* use of getVersion and appInfo; skipIfOld is confirmLedgerAddress()'s.   *)

Ready == <<"checkVersion", "connect", "checkOpen", "checked">>

Exchanges == {"getVersion", "appInfo", "publicKey", "sign", "showAddress",
              "checkVersion", "checkOpen", "skipIfOld"}

Script(op) ==
  <<"connect">> \o CASE op = "testDevice" -> <<"forget">>
                     [] op = "getPubKey" -> <<"publicKey">>
                     [] op = "sign" -> <<"sign">>
                     [] op = "confirmLedgerAddress" ->
                          <<"connect", "skipIfOld", "showAddress">>
                     [] op = "getCosmosAppVersion" -> <<"getVersion">>
                     [] op = "isCosmosAppOpen" -> <<"checkOpen">>
                     [] op = "getOpenApp" -> <<"appInfo">>

Busy == {c \in Callers : todo[c] # <<>>}

At(c, step) == todo[c] # <<>> /\ Head(todo[c]) = step

Goes(c, steps) == todo' = [todo EXCEPT ![c] = steps \o Tail(@)]

Done(c) == Goes(c, <<>>)

Throws(c) == /\ todo' = [todo EXCEPT ![c] = <<>>]
             /\ failed' = failed \cup {app}

-----------------------------------------------------------------------------
Call(c, op) ==
  /\ todo[c] = <<>> /\ Cardinality(Busy) < atOnce /\ calls * atOnce < MaxCalls
  /\ todo' = [todo EXCEPT ![c] = Script(op)]
  /\ uses' = IF op = "testDevice" THEN uses \cup {op} ELSE uses
  /\ calls' = calls + 1
  /\ UNCHANGED <<world, app, open, made, passed, sent, failed>>

NoConnection == app = None

\* Assume well connection if connected once.
Connect(c) ==
  /\ At(c, "connect")
  /\ Goes(c, IF NoConnection THEN <<"create">> \o Ready ELSE <<>>)
  /\ UNCHANGED <<world, app, open, made, passed, sent, failed, uses, calls>>

NotMade == UNCHANGED <<app, open, made>>

\* The transport is made and remembered, or cannot be had: the user has done
\* something to the device, or another transport to it is open.  Whether it
\* can be opened twice is up to the kind of transport and the browser.
Create(c) ==
  /\ At(c, "create")
  /\ \/ /\ made' = made + 1 /\ app' = made' /\ open' = open \cup {made'}
        /\ Done(c)
        /\ UNCHANGED <<failed, changes>>
     \/ /\ \/ changes < MaxChanges /\ changes' = changes + 1
           \/ open # {} /\ UNCHANGED changes
        /\ Throws(c)
        /\ NotMade
  /\ UNCHANGED <<atOnce, device, passed, sent, uses, calls>>

Checked(c) ==
  /\ At(c, "checked")
  /\ passed' = IF app = None THEN passed ELSE passed \cup {app}
  /\ Done(c)
  /\ UNCHANGED <<world, app, open, made, sent, failed, uses, calls>>

\* testDevice() throws the connection away without closing it.
Forget(c) ==
  /\ At(c, "forget")
  /\ app' = None
  /\ Done(c)
  /\ UNCHANGED <<world, open, made, passed, sent, failed, uses, calls>>

Closes(error) == error # "none"

\* disconnect() as checkLedgerErrors() calls it: on the connection there is.
Closed(error) == open' = IF Closes(error) THEN open \ {app} ELSE open

\* A message goes out over the connection there is, if there is one; a
\* transport with a message under way takes no other, which the app reports
\* as an error or rejects with: then the connection is not closed.
Send(c) ==
  /\ \E e \in Exchanges : At(c, e)
  /\ sent[c] = None
  /\ CASE app = None -> Throws(c) /\ UNCHANGED <<sent, open>>
       [] app # None /\ (\E d \in Callers : sent[d] = app) ->
            /\ Throws(c) /\ UNCHANGED sent
            /\ Closed("busy") \/ UNCHANGED open
       [] OTHER -> /\ sent' = [sent EXCEPT ![c] = app]
                   /\ UNCHANGED <<todo, failed, open>>
  /\ UNCHANGED <<world, app, made, passed, uses, calls>>

\* What the device says: an error message, or none; the dashboard answers
\* questions about itself only.
Error(e, t) ==
  CASE t \notin open -> {"transport"}
    [] device = "locked" -> {"locked"}
    [] device = "dashboard" -> IF e \in {"appInfo", "checkOpen"} THEN {"none"}
                               ELSE {"notOpen"}
    [] OTHER -> {"none"}

\* What an answer without an error is refused for.
Refused(e) == \/ device = "dashboard" /\ e = "checkOpen"
              \/ device = "testMode" /\ e \in {"checkVersion", "getVersion", "skipIfOld"}
              \/ device = "outdated" /\ e = "checkVersion"

\* device_locked is part of what getVersion() returns, and of nothing else.
LockedIsTold(e, t) == /\ device = "locked" /\ t \in open
                      /\ e \in {"checkVersion", "getVersion", "skipIfOld"}

Answer(c) ==
  /\ sent[c] # None
  /\ LET e == Head(todo[c]) IN
     IF LockedIsTold(e, sent[c])
     THEN Throws(c) /\ UNCHANGED open
     ELSE \E error \in Error(e, sent[c]) :
            /\ Closed(error)
            /\ IF error # "none" \/ Refused(e) THEN Throws(c)
               ELSE /\ IF e = "skipIfOld" /\ device = "outdated"
                       THEN todo' = [todo EXCEPT ![c] = <<>>]
                       ELSE Done(c)
                    /\ UNCHANGED failed
  /\ sent' = [sent EXCEPT ![c] = None]
  /\ UNCHANGED <<world, app, made, passed, uses, calls>>

\* The user says no, which is an error like any other.
Reject(c) ==
  /\ sent[c] \in open /\ device \notin {"locked", "dashboard"}
  /\ Head(todo[c]) \in {"sign", "showAddress"}
  /\ changes < MaxChanges /\ changes' = changes + 1
  /\ Closed("rejected") /\ Throws(c)
  /\ sent' = [sent EXCEPT ![c] = None]
  /\ UNCHANGED <<atOnce, device, app, made, passed, uses, calls>>

\* disconnect(), called by the application; the connection is remembered.
Disconnect ==
  /\ app # None /\ Cardinality(Busy) < atOnce /\ calls * atOnce < MaxCalls
  /\ open' = open \ {app}
  /\ uses' = uses \cup {"disconnect"}
  /\ calls' = calls + 1
  /\ UNCHANGED <<world, app, made, passed, todo, sent, failed>>

\* The user does something to the device.
Change ==
  /\ changes < MaxChanges
  /\ device' \in Conditions \ {device}
  /\ changes' = changes + 1
  /\ UNCHANGED <<atOnce, app, open, made, passed, todo, sent, failed, uses, calls>>

Step(c) == Connect(c) \/ Create(c) \/ Checked(c) \/ Forget(c) \/ Send(c) \/ Answer(c)

Next == \/ \E c \in Callers : Step(c) \/ Reject(c) \/ \E op \in Ops : Call(c, op)
        \/ Disconnect \/ Change

Spec == Init /\ [][Next]_vars

-----------------------------------------------------------------------------
Steps == Exchanges \cup {"connect", "create", "checked", "forget"}

(* What the fields of the connection and the callers' operations can hold. *)
TypeOK ==
  /\ atOnce \in 1 .. Cardinality(Callers) /\ device \in Conditions
  /\ made \in Nat /\ app \in (1 .. made) \cup {None}
  /\ open \subseteq 1 .. made /\ passed \subseteq 1 .. made
  /\ todo \in [Callers -> Seq(Steps)]
  /\ sent \in [Callers -> (1 .. made) \cup {None}]
  /\ failed \subseteq (1 .. made) \cup {None} /\ uses \subseteq {"testDevice", "disconnect"}
  /\ calls \in 0 .. MaxCalls /\ changes \in 0 .. MaxChanges
  /\ \A c \in Callers : sent[c] # None => Head(todo[c]) \in Exchanges

Alone == atOnce = 1

(* One caller after the other, "assume well connection if connected once"  *)
(* (line 73): until somebody tests the device, there is one transport, and *)
(* none is left open that the next operation would not find.               *)
OneTransport ==
  Alone /\ "testDevice" \notin uses => made <= 1 /\ open \subseteq {app}

(* A connection remembered between operations has passed isReady() and is  *)
(* still open, unless an operation threw with this very connection: connect *)
(* remembers it before the check, and an error closes it without           *)
(* forgetting it, but nobody finds such a connection who was not told.     *)
CheckedUnlessTold ==
  Alone /\ Busy = {} /\ app # None =>
    \/ app \in failed
    \/ app \in passed /\ (app \in open \/ "disconnect" \in uses)

(* With the right app open, nobody saying no and nobody disconnecting, an  *)
(* operation that has its connection never throws, and one that cannot get *)
(* one is up against a transport that testDevice() forgot and left open.   *)
HealthyDeviceServes ==
  Alone /\ device = "fit" /\ changes = 0 /\ "disconnect" \notin uses =>
    /\ failed \subseteq {None}
    /\ failed # {} => "testDevice" \in uses /\ open \ {app} # {}
=============================================================================
