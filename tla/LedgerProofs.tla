---------------------------- MODULE LedgerProofs ----------------------------
(***************************************************************************)
(* Theorems about Ledger, for any callers and any bounds on what they and  *)
(* the user do.                                                            *)
(***************************************************************************)
EXTENDS Ledger, SequenceTheorems, FiniteSetTheorems, TLAPS
-----------------------------------------------------------------------------
(* The parts of the inductive invariant. *)

\* The order of the steps a caller has still to do.  Only connect() puts a
\* step in front of others, and it does so for its own isReady().
Orderly(s) ==
  \A i \in DOMAIN s :
    /\ s[i] = "create" => i = 1 /\ \E j \in DOMAIN s : s[j] = "checked"
    /\ s[i] = "forget" => i = Len(s)
    /\ s[i] = "skipIfOld" => \A j \in DOMAIN s : s[j] = "checked" => j < i

Scripts ==
  \A c \in Callers :
    /\ Orderly(todo[c])
    /\ \A i \in DOMAIN todo[c] : todo[c][i] = "forget" => "testDevice" \in uses
    /\ sent[c] # None => todo[c] # <<>>

\* What one caller at a time can rely on: nobody else is half way through
\* an operation, and there is a connection once connect() has returned.
OneAtATime == Alone => \A c, d \in Callers : todo[c] # <<>> /\ todo[d] # <<>> => c = d

Connected ==
  Alone => \A c \in Callers : todo[c] # <<>> =>
    /\ Head(todo[c]) \notin {"connect", "create"} => app # None
    /\ Head(todo[c]) = "create" => app = None

\* Without testDevice(), no connection is forgotten.
NoneForgotten ==
  Alone /\ "testDevice" \notin uses =>
    /\ open \subseteq {app} /\ made <= 1
    /\ app = None => made = 0

\* A connection that has not passed isReady() is about to, unless it failed.
ToBeChecked ==
  Alone /\ app # None /\ app \notin passed /\ app \notin failed =>
    \E c \in Callers : \E i \in DOMAIN todo[c] : todo[c][i] = "checked"

\* Whatever closes a connection throws with it.
StillOpen == app # None /\ app \notin failed => app \in open \/ "disconnect" \in uses

\* Nothing is wrong with the device, and nobody has meddled.
Healthy == Alone /\ device = "fit" /\ changes = 0 /\ "disconnect" \notin uses

HealthyConnection ==
  Healthy => /\ failed \subseteq {None}
             /\ failed # {} => "testDevice" \in uses /\ open \ {app} # {}
             /\ app # None => app \in open
             /\ \A c \in Callers : sent[c] # None => sent[c] \in open

-----------------------------------------------------------------------------
(* The steps of the operations. *)

USE LedgerAssumption

LEMMA StepNames ==
  /\ Exchanges \subseteq Steps
  /\ {"connect", "create", "checked", "forget"} \subseteq Steps
  /\ Exchanges \cap {"connect", "create", "checked", "forget"} = {}
  BY DEF Steps, Exchanges

LEMMA OrderlyConnect ==
  ASSUME NEW r \in Seq(Steps), Orderly(r), \A i \in DOMAIN r : r[i] # "create"
  PROVE  LET s == <<"connect">> \o r
         IN  /\ s \in Seq(Steps) /\ s # <<>> /\ Head(s) = "connect" /\ Orderly(s)
             /\ \A i \in DOMAIN s : s[i] = "forget" => i - 1 \in DOMAIN r /\ r[i - 1] = "forget"
<1> DEFINE s == <<"connect">> \o r
<1>1. /\ s \in Seq(Steps) /\ Len(s) = 1 + Len(r) /\ Len(r) \in Nat
      /\ DOMAIN s = 1 .. Len(s) /\ DOMAIN r = 1 .. Len(r)
      /\ s[1] = "connect"
      /\ \A i \in DOMAIN s : i # 1 => i - 1 \in DOMAIN r /\ s[i] = r[i - 1]
  <2>1. <<"connect">> \in Seq(Steps) /\ Len(<<"connect">>) = 1
    BY DEF Steps
  <2> QED
    BY <2>1, ConcatProperties, LenProperties
<1> HIDE DEF s
<1>2. s # <<>> /\ Head(s) = "connect"
  BY <1>1
<1>3. ASSUME NEW i \in DOMAIN s
      PROVE  /\ s[i] # "create"
             /\ s[i] = "forget" => i = Len(s) /\ i - 1 \in DOMAIN r /\ r[i - 1] = "forget"
             /\ s[i] = "skipIfOld" => \A j \in DOMAIN s : s[j] = "checked" => j < i
  <2>1. CASE i = 1
    BY <1>1, <2>1
  <2>2. CASE i # 1
    <3>1. i - 1 \in DOMAIN r /\ s[i] = r[i - 1]
      BY <1>1, <2>2
    <3>2. \A j \in DOMAIN s : j = 1 \/ (j - 1 \in DOMAIN r /\ s[j] = r[j - 1])
      BY <1>1
    <3> QED
      BY <1>1, <2>2, <3>1, <3>2 DEF Orderly
  <2> QED
    BY <2>1, <2>2
<1>4. Orderly(s)
  BY <1>3 DEF Orderly
<1> QED
  BY <1>1, <1>2, <1>3, <1>4 DEF s

LEMMA ScriptsOfOps ==
  ASSUME NEW op \in Ops
  PROVE  /\ Script(op) \in Seq(Steps) /\ Script(op) # <<>> /\ Head(Script(op)) = "connect"
         /\ Orderly(Script(op))
         /\ \A i \in DOMAIN Script(op) : Script(op)[i] = "forget" => op = "testDevice"
<1> DEFINE rest == CASE op = "testDevice" -> <<"forget">>
                     [] op = "getPubKey" -> <<"publicKey">>
                     [] op = "sign" -> <<"sign">>
                     [] op = "confirmLedgerAddress" ->
                          <<"connect", "skipIfOld", "showAddress">>
                     [] op = "getCosmosAppVersion" -> <<"getVersion">>
                     [] op = "isCosmosAppOpen" -> <<"checkOpen">>
                     [] op = "getOpenApp" -> <<"appInfo">>
<1>1. Script(op) = <<"connect">> \o rest
  BY DEF Script
<1>2. \/ rest \in {<<"publicKey">>, <<"sign">>, <<"getVersion">>, <<"checkOpen">>, <<"appInfo">>}
      \/ rest = <<"forget">> /\ op = "testDevice"
      \/ rest = <<"connect", "skipIfOld", "showAddress">>
  BY Zenon DEF Ops
<1> HIDE DEF rest
<1>3. /\ rest \in Seq(Steps) /\ Orderly(rest)
      /\ \A i \in DOMAIN rest : /\ rest[i] # "create"
                                /\ rest[i] = "forget" => op = "testDevice"
  <2>1. ASSUME NEW e \in {"publicKey", "sign", "getVersion", "checkOpen", "appInfo"},
               rest = <<e>>
        PROVE  /\ rest \in Seq(Steps) /\ Orderly(rest)
               /\ \A i \in DOMAIN rest : /\ rest[i] # "create"
                                         /\ rest[i] = "forget" => op = "testDevice"
    <3>1. <<e>> \in Seq(Steps) /\ Orderly(<<e>>)
      BY DEF Steps, Exchanges, Orderly
    <3> QED
      BY <2>1, <3>1
  <2>2. CASE rest = <<"forget">> /\ op = "testDevice"
    <3>1. <<"forget">> \in Seq(Steps) /\ Orderly(<<"forget">>)
      BY DEF Steps, Orderly
    <3> QED
      BY <2>2, <3>1
  <2>3. CASE rest = <<"connect", "skipIfOld", "showAddress">>
    <3>1. /\ <<"connect", "skipIfOld", "showAddress">> \in Seq(Steps)
          /\ Orderly(<<"connect", "skipIfOld", "showAddress">>)
      BY DEF Steps, Exchanges, Orderly
    <3> QED
      BY <2>3, <3>1
  <2> QED
    BY <1>2, <2>1, <2>2, <2>3
<1> QED
  BY <1>1, <1>3, OrderlyConnect

LEMMA OrderlyTail ==
  ASSUME NEW s \in Seq(Steps), s # <<>>, Orderly(s)
  PROVE  /\ Tail(s) \in Seq(Steps)
         /\ \A i \in DOMAIN Tail(s) : i + 1 \in DOMAIN s /\ Tail(s)[i] = s[i + 1]
         /\ Orderly(Tail(s))
<1>1. /\ Tail(s) \in Seq(Steps) /\ DOMAIN s = 1 .. Len(s) /\ Len(s) \in Nat
      /\ DOMAIN Tail(s) = 1 .. Len(s) - 1 /\ Len(Tail(s)) = Len(s) - 1
      /\ \A i \in 1 .. Len(s) - 1 : Tail(s)[i] = s[i + 1]
  BY LenProperties
<1>2. \A i \in DOMAIN Tail(s) : i + 1 \in DOMAIN s /\ Tail(s)[i] = s[i + 1]
  BY <1>1
<1>3. ASSUME NEW i \in DOMAIN Tail(s)
      PROVE  /\ Tail(s)[i] # "create"
             /\ Tail(s)[i] = "forget" => i = Len(Tail(s))
             /\ Tail(s)[i] = "skipIfOld" =>
                  \A j \in DOMAIN Tail(s) : Tail(s)[j] = "checked" => j < i
  BY <1>1, <1>2 DEF Orderly
<1> QED
  BY <1>1, <1>2, <1>3 DEF Orderly

\* connect() without a connection.
LEMMA OrderlyCreate ==
  ASSUME NEW s \in Seq(Steps), s # <<>>, Orderly(s), Head(s) = "connect"
  PROVE  LET t == (<<"create">> \o Ready) \o Tail(s)
         IN  /\ t \in Seq(Steps) /\ t # <<>> /\ Head(t) = "create" /\ Orderly(t)
             /\ \A i \in DOMAIN t : t[i] = "forget" => i - 4 \in DOMAIN s /\ s[i - 4] = "forget"
<1> DEFINE p == <<"create", "checkVersion", "connect", "checkOpen", "checked">>
           u == Tail(s)
           t == p \o u
<1>1. /\ u \in Seq(Steps) /\ DOMAIN s = 1 .. Len(s) /\ Len(s) \in Nat
      /\ Len(u) \in Nat /\ DOMAIN u = 1 .. Len(u) /\ Orderly(u)
      /\ \A i \in DOMAIN u : i + 1 \in DOMAIN s /\ u[i] = s[i + 1]
  BY OrderlyTail, LenProperties
<1>2. p \in Seq(Steps) /\ Len(p) = 5
  BY DEF Steps, Exchanges
<1> HIDE DEF u
<1>3. /\ t \in Seq(Steps) /\ Len(t) = 5 + Len(u) /\ DOMAIN t = 1 .. 5 + Len(u)
      /\ \A i \in 1 .. 5 : t[i] = p[i]
      /\ \A i \in DOMAIN t : i > 5 => i - 5 \in DOMAIN u /\ t[i] = u[i - 5]
  BY <1>1, <1>2, ConcatProperties, LenProperties
<1>4. \A i \in DOMAIN u : u[i] # "create"
  <2>1. \A i \in DOMAIN u : s[i + 1] # "create"
    BY <1>1 DEF Orderly
  <2> QED
    BY <1>1, <2>1
<1>5. /\ t[1] = "create" /\ t[2] = "checkVersion" /\ t[3] = "connect"
      /\ t[4] = "checkOpen" /\ t[5] = "checked" /\ 5 \in DOMAIN t
  BY <1>1, <1>3
<1>6. ASSUME NEW i \in DOMAIN t
      PROVE  i \in 1 .. 5 \/ (i > 5 /\ i - 5 \in DOMAIN u /\ t[i] = u[i - 5])
  BY <1>1, <1>3
<1> HIDE DEF t
<1>7. ASSUME NEW i \in DOMAIN t
      PROVE  /\ t[i] = "create" => i = 1
             /\ t[i] = "forget" => i = Len(t) /\ i - 4 \in DOMAIN s /\ s[i - 4] = "forget"
             /\ t[i] = "skipIfOld" => \A j \in DOMAIN t : t[j] = "checked" => j < i
  <2>1. CASE i \in 1 .. 5
    <3>1. i = 1 \/ i = 2 \/ i = 3 \/ i = 4 \/ i = 5
      BY <2>1
    <3> QED
      BY <1>5, <3>1
  <2>2. CASE i > 5 /\ i - 5 \in DOMAIN u /\ t[i] = u[i - 5]
    <3>1. t[i] # "create"
      BY <1>4, <2>2
    <3>2. ASSUME t[i] = "forget"
          PROVE  i = Len(t) /\ i - 4 \in DOMAIN s /\ s[i - 4] = "forget"
      <4>1. i - 5 = Len(u)
        BY <1>1, <2>2, <3>2 DEF Orderly
      <4>2. (i - 5) + 1 \in DOMAIN s /\ s[(i - 5) + 1] = "forget"
        BY <1>1, <2>2, <3>2
      <4>3. (i - 5) + 1 = i - 4 /\ i = Len(t)
        BY <1>1, <1>3, <4>1
      <4> QED
        BY <4>2, <4>3
    <3>3. ASSUME t[i] = "skipIfOld", NEW j \in DOMAIN t, t[j] = "checked"
          PROVE  j < i
      <4>1. CASE j \in 1 .. 5
        BY <2>2, <4>1
      <4>2. CASE j > 5 /\ j - 5 \in DOMAIN u /\ t[j] = u[j - 5]
        <5>1. j - 5 < i - 5
          BY <1>1, <2>2, <3>3, <4>2 DEF Orderly
        <5> QED
          BY <1>3, <5>1
      <4> QED
        BY <1>6, <4>1, <4>2
    <3> QED
      BY <3>1, <3>2, <3>3
  <2> QED
    BY <1>6, <2>1, <2>2
<1>8. (<<"create">> \o Ready) \o Tail(s) = t
  BY DEF Ready, t, u
<1>9. t \in Seq(Steps) /\ t # <<>> /\ Head(t) = "create" /\ Orderly(t)
  BY <1>3, <1>5, <1>7 DEF Orderly
<1> QED
  BY <1>7, <1>8, <1>9

-----------------------------------------------------------------------------
(* What a step does to the operations under way. *)

\* A caller's operation begins, goes on, ends, or connects first.
Begins(c) == todo[c] = <<>> /\ \E op \in Ops : Call(c, op) /\ todo'[c] = Script(op)
GoesOn(c) == todo[c] # <<>> /\ todo'[c] = Tail(todo[c])
Ended(c) == /\ todo[c] # <<>> /\ todo'[c] = <<>>
            /\ app \in failed' \/ Head(todo[c]) = "skipIfOld"
Connects(c) == /\ todo[c] # <<>> /\ Head(todo[c]) = "connect" /\ app = None
               /\ todo'[c] = (<<"create">> \o Ready) \o Tail(todo[c])

LEMMA TodoSteps ==
  ASSUME TypeOK, Scripts, [Next]_vars
  PROVE  \/ UNCHANGED todo
         \/ \E c \in Callers :
              /\ \A d \in Callers : d # c => todo'[d] = todo[d]
              /\ Begins(c) \/ GoesOn(c) \/ Ended(c) \/ Connects(c)
<1> DEFINE Moved(c) == /\ \A d \in Callers : d # c => todo'[d] = todo[d]
                       /\ Begins(c) \/ GoesOn(c) \/ Ended(c) \/ Connects(c)
<1>0. /\ todo \in [Callers -> Seq(Steps)]
      /\ \A c \in Callers : sent[c] # None => todo[c] # <<>>
  BY DEF TypeOK, Scripts
<1>1. ASSUME NEW c \in Callers, NEW s, todo' = [todo EXCEPT ![c] = s]
      PROVE  todo'[c] = s /\ \A d \in Callers : d # c => todo'[d] = todo[d]
  BY <1>0, <1>1
<1>2. ASSUME NEW c \in Callers, Done(c), todo[c] # <<>> PROVE Moved(c)
  <2>1. todo' = [todo EXCEPT ![c] = <<>> \o Tail(@)]
    BY <1>2 DEF Done, Goes
  <2>2. <<>> \o Tail(todo[c]) = Tail(todo[c])
    BY <1>0, <1>2, OrderlyTail, ConcatEmptySeq DEF Scripts
  <2>3. todo' = [todo EXCEPT ![c] = Tail(todo[c])]
    BY <1>0, <2>1, <2>2
  <2> QED
    BY <1>1, <1>2, <2>3 DEF GoesOn
<1>3. ASSUME NEW c \in Callers, Throws(c), todo[c] # <<>> PROVE Moved(c)
  BY <1>1, <1>3 DEF Throws, Ended
<1>4. ASSUME NEW c \in Callers, NEW op \in Ops, Call(c, op) PROVE Moved(c)
  BY <1>1, <1>4 DEF Call, Begins
<1>5. ASSUME NEW c \in Callers, Connect(c) PROVE Moved(c)
  <2>1. todo[c] # <<>> /\ Head(todo[c]) = "connect"
    BY <1>5 DEF Connect, At
  <2>2. CASE app = None
    <3>1. todo' = [todo EXCEPT ![c] = (<<"create">> \o Ready) \o Tail(todo[c])]
      BY <1>0, <1>5, <2>2 DEF Connect, Goes, NoConnection
    <3> QED
      BY <1>1, <2>1, <2>2, <3>1 DEF Connects
  <2>3. CASE app # None
    <3>1. Done(c)
      BY <1>5, <2>3 DEF Connect, Done, Goes, NoConnection
    <3> QED
      BY <1>2, <2>1, <3>1
  <2> QED
    BY <2>2, <2>3
<1>6. ASSUME NEW c \in Callers, Create(c) \/ Checked(c) \/ Forget(c) PROVE Moved(c)
  BY <1>2, <1>3, <1>6 DEF Create, Checked, Forget, At
<1>7. ASSUME NEW c \in Callers, Send(c) PROVE UNCHANGED todo \/ Moved(c)
  <2>1. todo[c] # <<>>
    BY <1>7 DEF Send, At
  <2>2. Throws(c) \/ UNCHANGED todo
    BY <1>7 DEF Send
  <2> QED
    BY <1>3, <2>1, <2>2
<1>8. ASSUME NEW c \in Callers, Answer(c) PROVE Moved(c)
  <2>1. todo[c] # <<>>
    BY <1>0, <1>8 DEF Answer
  <2>2. \/ Throws(c) \/ Done(c)
        \/ Head(todo[c]) = "skipIfOld" /\ todo' = [todo EXCEPT ![c] = <<>>]
    BY <1>8 DEF Answer
  <2> QED
    BY <1>1, <1>2, <1>3, <2>1, <2>2 DEF Ended
<1>9. ASSUME NEW c \in Callers, Reject(c) PROVE Moved(c)
  <2>1. sent[c] # None
    <3>1. ASSUME NEW t \in open PROVE t # None
      BY DEF TypeOK
    <3> QED
      BY <1>9, <3>1 DEF Reject
  <2> QED
    BY <1>0, <1>3, <1>9, <2>1 DEF Reject
<1>10. Disconnect \/ Change \/ UNCHANGED vars => UNCHANGED todo
  BY DEF Disconnect, Change, vars
<1> HIDE DEF Moved
<1>11. UNCHANGED todo \/ \E c \in Callers : Moved(c)
  BY <1>4, <1>5, <1>6, <1>7, <1>8, <1>9, <1>10 DEF Next, Step
<1> QED
  BY <1>11 DEF Moved

LEMMA UsesStay == ASSUME [Next]_vars PROVE uses \subseteq uses'
  BY DEF Next, Step, vars, Connect, Create, Checked, Forget, Send, Answer, Reject,
     Call, Disconnect, Change

LEMMA SentSteps ==
  ASSUME TypeOK, Scripts, [Next]_vars, NEW c \in Callers
  PROVE  \/ sent'[c] = sent[c] /\ (sent[c] # None => todo'[c] = todo[c])
         \/ sent'[c] = None
         \/ /\ todo[c] # <<>> /\ Head(todo[c]) \in Exchanges /\ todo'[c] = todo[c]
            /\ app # None /\ sent'[c] = app
<1>0. /\ todo \in [Callers -> Seq(Steps)]
      /\ sent \in [Callers -> (1 .. made) \cup {None}]
      /\ \A d \in Callers : sent[d] # None => todo[d] # <<>> /\ Head(todo[d]) \in Exchanges
  BY DEF TypeOK, Scripts
<1>1. ASSUME NEW d \in Callers, Send(d)
      PROVE  \/ sent'[c] = sent[c] /\ (sent[c] # None => todo'[c] = todo[c])
             \/ /\ todo[c] # <<>> /\ Head(todo[c]) \in Exchanges /\ todo'[c] = todo[c]
                /\ app # None /\ sent'[c] = app
  <2>1. sent[d] = None /\ todo[d] # <<>> /\ Head(todo[d]) \in Exchanges
    BY <1>1 DEF Send, At
  <2>2. \/ Throws(d) /\ UNCHANGED sent
        \/ app # None /\ sent' = [sent EXCEPT ![d] = app] /\ UNCHANGED todo
    BY <1>1 DEF Send
  <2> QED
    BY <1>0, <2>1, <2>2 DEF Throws
<1>2. ASSUME NEW d \in Callers, Answer(d) \/ Reject(d)
      PROVE  \/ sent'[c] = sent[c] /\ (sent[c] # None => todo'[c] = todo[c])
             \/ sent'[c] = None
  <2>1. sent' = [sent EXCEPT ![d] = None]
    BY <1>2 DEF Answer, Reject
  <2>2. \E s : todo' = [todo EXCEPT ![d] = s]
    BY <1>2 DEF Answer, Reject, Throws, Done, Goes
  <2> QED
    BY <1>0, <2>1, <2>2
<1>3. ASSUME NEW d \in Callers, Connect(d) \/ Create(d) \/ Checked(d) \/ Forget(d)
      PROVE  sent'[c] = sent[c] /\ (sent[c] # None => todo'[c] = todo[c])
  <2>1. UNCHANGED sent /\ Head(todo[d]) \in {"connect", "create", "checked", "forget"}
    BY <1>3 DEF Connect, Create, Checked, Forget, At
  <2>2. \E s : todo' = [todo EXCEPT ![d] = s]
    BY <1>3 DEF Connect, Create, Checked, Forget, Throws, Done, Goes
  <2>3. sent[c] # None => c # d
    BY <1>0, <2>1, StepNames
  <2> QED
    BY <1>0, <2>1, <2>2, <2>3
<1>4. ASSUME NEW d \in Callers, NEW op \in Ops, Call(d, op)
      PROVE  sent'[c] = sent[c] /\ (sent[c] # None => todo'[c] = todo[c])
  BY <1>0, <1>4 DEF Call
<1>5. Disconnect \/ Change \/ UNCHANGED vars => UNCHANGED <<sent, todo>>
  BY DEF Disconnect, Change, vars
<1> QED
  BY <1>1, <1>2, <1>3, <1>4, <1>5 DEF Next, Step

LEMMA ScriptsStep ==
  ASSUME TypeOK, Scripts, [Next]_vars
  PROVE  Scripts'
<1>0. todo \in [Callers -> Seq(Steps)]
  BY DEF TypeOK
<1>1. ASSUME NEW c \in Callers
      PROVE  /\ Orderly(todo'[c])
             /\ \A i \in DOMAIN todo'[c] : todo'[c][i] = "forget" => "testDevice" \in uses'
  <2>1. /\ todo[c] \in Seq(Steps) /\ Orderly(todo[c]) /\ uses \subseteq uses'
        /\ \A i \in DOMAIN todo[c] : todo[c][i] = "forget" => "testDevice" \in uses
    BY <1>0, UsesStay DEF Scripts
  <2>2. CASE todo'[c] = todo[c]
    BY <2>1, <2>2
  <2>3. CASE Begins(c)
    <3>1. PICK op \in Ops : Call(c, op) /\ todo'[c] = Script(op)
      BY <2>3 DEF Begins
    <3>2. op = "testDevice" => "testDevice" \in uses'
      BY <3>1 DEF Call
    <3> QED
      BY <3>1, <3>2, ScriptsOfOps
  <2>4. CASE GoesOn(c)
    BY <2>1, <2>4, OrderlyTail DEF GoesOn
  <2>5. CASE Ended(c)
    BY <2>5 DEF Ended, Orderly
  <2>6. CASE Connects(c)
    BY <2>1, <2>6, OrderlyCreate DEF Connects
  <2> QED
    BY <2>2, <2>3, <2>4, <2>5, <2>6, TodoSteps
<1>2. \A c \in Callers : sent'[c] # None => todo'[c] # <<>>
  BY SentSteps DEF Scripts
<1> QED
  BY <1>1, <1>2 DEF Scripts

-----------------------------------------------------------------------------
(* Type correctness. *)

LEMMA TodoTypes ==
  ASSUME TypeOK, Scripts, [Next]_vars
  PROVE  todo' \in [Callers -> Seq(Steps)]
<1>0. todo \in [Callers -> Seq(Steps)]
  BY DEF TypeOK
<1>1. ASSUME NEW c \in Callers PROVE todo'[c] \in Seq(Steps)
  <2>1. todo[c] \in Seq(Steps) /\ Orderly(todo[c])
    BY <1>0 DEF Scripts
  <2>2. CASE todo'[c] = todo[c]
    BY <2>1, <2>2
  <2>3. CASE Begins(c)
    BY <2>3, ScriptsOfOps DEF Begins
  <2>4. CASE GoesOn(c)
    BY <2>1, <2>4, OrderlyTail DEF GoesOn
  <2>5. CASE Ended(c)
    BY <2>5 DEF Ended
  <2>6. CASE Connects(c)
    BY <2>1, <2>6, OrderlyCreate DEF Connects
  <2> QED
    BY <2>2, <2>3, <2>4, <2>5, <2>6, TodoSteps
<1>2. UNCHANGED todo \/ \E c \in Callers : \E s : todo' = [todo EXCEPT ![c] = s]
  BY DEF Next, Step, vars, Connect, Create, Checked, Forget, Send, Answer, Reject,
     Call, Disconnect, Change, Throws, Done, Goes
<1>3. DOMAIN todo' = Callers /\ todo' = [c \in Callers |-> todo'[c]]
  BY <1>0, <1>2
<1> QED
  BY <1>1, <1>3

LEMMA ConnectionSteps ==
  ASSUME TypeOK, [Next]_vars
  PROVE  \/ UNCHANGED <<app, made, passed>> /\ open' \subseteq open
         \/ \E c \in Callers :
              /\ Create(c) /\ made' = made + 1 /\ app' = made' /\ open' = open \cup {made'}
              /\ UNCHANGED <<passed, failed>> /\ Done(c)
         \/ \E c \in Callers :
              /\ Checked(c) /\ UNCHANGED <<app, made, open>>
              /\ passed' = IF app = None THEN passed ELSE passed \cup {app}
         \/ \E c \in Callers :
              Forget(c) /\ app' = None /\ UNCHANGED <<open, made, passed>>
<1>1. ASSUME NEW c \in Callers, Step(c) \/ Reject(c) \/ \E op \in Ops : Call(c, op)
      PROVE  \/ UNCHANGED <<app, made, passed>> /\ open' \subseteq open
             \/ /\ Create(c) /\ made' = made + 1 /\ app' = made' /\ open' = open \cup {made'}
                /\ UNCHANGED <<passed, failed>> /\ Done(c)
             \/ /\ Checked(c) /\ UNCHANGED <<app, made, open>>
                /\ passed' = IF app = None THEN passed ELSE passed \cup {app}
             \/ Forget(c) /\ app' = None /\ UNCHANGED <<open, made, passed>>
  <2>1. CASE Connect(c) \/ \E op \in Ops : Call(c, op)
    BY <2>1 DEF Connect, Call
  <2>2. CASE Create(c)
    BY <2>2 DEF Create, NotMade
  <2>3. CASE Checked(c)
    BY <2>3 DEF Checked
  <2>4. CASE Forget(c)
    BY <2>4 DEF Forget
  <2>5. CASE Send(c)
    BY <2>5 DEF Send, Closed
  <2>6. CASE Answer(c)
    <3>1. UNCHANGED <<app, made, passed>>
      BY <2>6 DEF Answer
    <3>2. UNCHANGED open \/ \E error : Closed(error)
      BY <2>6 DEF Answer
    <3> QED
      BY <3>1, <3>2 DEF Closed
  <2>7. CASE Reject(c)
    BY <2>7 DEF Reject, Closed
  <2> QED
    BY <1>1, <2>1, <2>2, <2>3, <2>4, <2>5, <2>6, <2>7 DEF Step
<1>2. CASE Disconnect \/ Change \/ UNCHANGED vars
  BY <1>2 DEF Disconnect, Change, vars
<1> QED
  BY <1>1, <1>2 DEF Next

LEMMA ConnectionTypes ==
  ASSUME TypeOK, [Next]_vars
  PROVE  /\ made' \in Nat /\ app' \in (1 .. made') \cup {None}
         /\ open' \subseteq 1 .. made' /\ passed' \subseteq 1 .. made'
         /\ made <= made'
<1>1. /\ made \in Nat /\ app \in (1 .. made) \cup {None}
      /\ open \subseteq 1 .. made /\ passed \subseteq 1 .. made
  BY DEF TypeOK
<1>2. CASE UNCHANGED <<app, made, passed>> /\ open' \subseteq open
  BY <1>1, <1>2
<1>3. CASE /\ made' = made + 1 /\ app' = made' /\ open' = open \cup {made'}
           /\ UNCHANGED passed
  <2>1. made' \in Nat /\ app' \in 1 .. made' /\ made <= made' /\ passed' \subseteq 1 .. made'
    BY <1>1, <1>3
  <2>2. open' \subseteq 1 .. made'
    BY <1>1, <1>3
  <2> QED
    BY <2>1, <2>2
<1>4. CASE /\ UNCHANGED <<app, made, open>>
           /\ passed' = IF app = None THEN passed ELSE passed \cup {app}
  BY <1>1, <1>4
<1>5. CASE app' = None /\ UNCHANGED <<open, made, passed>>
  BY <1>1, <1>5
<1> QED
  BY <1>2, <1>3, <1>4, <1>5, ConnectionSteps

LEMMA TypeStep ==
  ASSUME TypeOK, Scripts, [Next]_vars
  PROVE  TypeOK'
<1>1. atOnce' = atOnce /\ device' \in Conditions
  BY DEF TypeOK, Next, Step, vars, world, Connect, Create, Checked, Forget, Send,
     Answer, Reject, Call, Disconnect, Change
<1>2. /\ failed' \subseteq (1 .. made') \cup {None}
      /\ uses' \subseteq {"testDevice", "disconnect"}
  <2>1. /\ failed \subseteq (1 .. made) \cup {None} /\ app \in (1 .. made) \cup {None}
        /\ made \in Nat /\ made' \in Nat /\ made <= made'
    BY ConnectionTypes DEF TypeOK
  <2>2. (1 .. made) \cup {None} \subseteq (1 .. made') \cup {None}
    BY <2>1
  <2>3. failed' = failed \/ failed' = failed \cup {app}
    BY DEF Next, Step, vars, Connect, Create, Checked, Forget, Send,
       Answer, Reject, Call, Disconnect, Change, Throws
  <2>4. uses' \subseteq {"testDevice", "disconnect"}
    BY DEF TypeOK, Next, Step, vars, Connect, Create, Checked, Forget, Send,
       Answer, Reject, Call, Disconnect, Change
  <2> QED
    BY <2>1, <2>2, <2>3, <2>4
<1>3. changes' \in 0 .. MaxChanges
  BY DEF TypeOK, Next, Step, vars, world, Connect, Create, Checked, Forget, Send,
     Answer, Reject, Call, Disconnect, Change
<1>4. calls' \in 0 .. MaxCalls
  <2>1. calls \in Nat /\ calls <= MaxCalls
    BY DEF TypeOK
  <2>2. atOnce \in Nat /\ atOnce >= 1
    BY FS_CardinalityType DEF TypeOK
  <2>3. calls * atOnce < MaxCalls => calls < MaxCalls
    <3>1. calls * atOnce >= calls
      BY <2>1, <2>2
    <3>2. calls * atOnce \in Nat
      BY <2>1, <2>2
    <3> QED
      BY <2>1, <3>1, <3>2
  <2>4. \/ calls' = calls
        \/ calls * atOnce < MaxCalls /\ calls' = calls + 1
    BY DEF Next, Step, vars, Connect, Create, Checked, Forget, Send,
       Answer, Reject, Call, Disconnect, Change
  <2> QED
    BY <2>1, <2>3, <2>4
<1>5. sent' \in [Callers -> (1 .. made') \cup {None}]
  <2>1. /\ sent \in [Callers -> (1 .. made) \cup {None}] /\ app \in (1 .. made) \cup {None}
        /\ made \in Nat /\ made' \in Nat /\ made <= made'
    BY ConnectionTypes DEF TypeOK
  <2>2. (1 .. made) \cup {None} \subseteq (1 .. made') \cup {None}
    BY <2>1
  <2>3. \/ UNCHANGED sent
        \/ \E c \in Callers : \/ sent' = [sent EXCEPT ![c] = None]
                              \/ sent' = [sent EXCEPT ![c] = app]
    BY DEF Next, Step, vars, Connect, Create, Checked, Forget, Send, Answer, Reject,
       Call, Disconnect, Change
  <2> QED
    BY <2>1, <2>2, <2>3
<1>6. \A c \in Callers : sent'[c] # None => Head(todo'[c]) \in Exchanges
  BY SentSteps DEF TypeOK
<1> QED
  BY <1>1, <1>2, <1>3, <1>4, <1>5, <1>6, TodoTypes, ConnectionTypes DEF TypeOK

LEMMA TypeInit == Init => TypeOK /\ Scripts
<1> SUFFICES ASSUME Init PROVE TypeOK /\ Scripts
  OBVIOUS
<1>1. /\ \A c \in Callers : todo[c] = <<>> /\ sent[c] = None
      /\ todo \in [Callers -> Seq(Steps)]
  BY DEF Init
<1>2. Scripts
  BY <1>1 DEF Scripts, Orderly
<1>3. sent \in [Callers -> (1 .. made) \cup {None}]
  BY DEF Init
<1>4. made \in Nat /\ app \in (1 .. made) \cup {None} /\ calls \in 0 .. MaxCalls
      /\ changes \in 0 .. MaxChanges
  BY DEF Init
<1> QED
  BY <1>1, <1>2, <1>3, <1>4 DEF Init, TypeOK

\* The fields of Ledger and what its callers have to do are what they are
\* meant to be, and the counters stay within their bounds.
THEOREM TypeCorrect == Spec => []TypeOK
<1>1. TypeOK /\ Scripts /\ [Next]_vars => (TypeOK /\ Scripts)'
  BY TypeStep, ScriptsStep
<1> QED
  BY <1>1, TypeInit, PTL DEF Spec

-----------------------------------------------------------------------------
(* One caller at a time. *)

LEMMA AtOnceStays == ASSUME [Next]_vars PROVE atOnce' = atOnce
  BY DEF Next, Step, vars, world, Connect, Create, Checked, Forget, Send,
     Answer, Reject, Call, Disconnect, Change

\* Whoever is called finds nobody at work.
LEMMA CalledAlone ==
  ASSUME TypeOK, OneAtATime, Alone, Cardinality(Busy) < atOnce
  PROVE  \A d \in Callers : todo[d] = <<>>
<1> SUFFICES ASSUME NEW d \in Callers, todo[d] # <<>> PROVE FALSE
  OBVIOUS
<1>1. Busy = {d}
  BY DEF OneAtATime, Busy
<1>2. Cardinality({d}) = 1
  BY FS_Singleton
<1>3. Cardinality(Busy) < 1
  BY DEF Alone
<1> QED
  BY <1>1, <1>2, <1>3

LEMMA BeginsAlone ==
  ASSUME TypeOK, OneAtATime, Alone, NEW c \in Callers, Begins(c)
  PROVE  \A d \in Callers : todo[d] = <<>>
  BY CalledAlone DEF Begins, Call

LEMMA OneAtATimeStep ==
  ASSUME TypeOK, Scripts, OneAtATime, [Next]_vars
  PROVE  OneAtATime'
<1> SUFFICES ASSUME Alone, NEW d \in Callers, NEW e \in Callers,
                    todo'[d] # <<>>, todo'[e] # <<>>
             PROVE  d = e
  BY AtOnceStays DEF OneAtATime, Alone
<1>1. CASE UNCHANGED todo
  BY <1>1 DEF OneAtATime
<1>2. ASSUME NEW c \in Callers, \A x \in Callers : x # c => todo'[x] = todo[x],
             Begins(c) \/ todo[c] # <<>>
      PROVE  d = e
  BY <1>2, BeginsAlone DEF OneAtATime
<1> QED
  BY <1>1, <1>2, TodoSteps DEF GoesOn, Ended, Connects

\* While an operation is under way, nobody but its caller and the user acts.
LEMMA Turns ==
  ASSUME TypeOK, Scripts, OneAtATime, Alone, [Next]_vars,
         NEW c \in Callers, todo[c] # <<>>
  PROVE  Step(c) \/ Reject(c) \/ Change \/ UNCHANGED vars
<1>1. ASSUME NEW d \in Callers, Step(d) \/ Reject(d) PROVE d = c
  <2>1. ASSUME NEW t \in open PROVE t # None
    BY DEF TypeOK
  <2>2. Answer(d) \/ Reject(d) => sent[d] # None
    BY <2>1 DEF Answer, Reject
  <2>3. todo[d] # <<>>
    BY <1>1, <2>2 DEF Step, Connect, Create, Checked, Forget, Send, At, Scripts
  <2> QED
    BY <2>3 DEF OneAtATime
<1>2. ~Disconnect /\ \A d \in Callers, op \in Ops : ~Call(d, op)
  BY CalledAlone DEF Disconnect, Call
<1> QED
  BY <1>1, <1>2 DEF Next

LEMMA TailOf ==
  ASSUME TypeOK, Scripts, NEW c \in Callers, todo[c] # <<>>
  PROVE  /\ todo[c] \in Seq(Steps) /\ Orderly(todo[c])
         /\ Head(todo[c]) = todo[c][1] /\ 1 \in DOMAIN todo[c]
         /\ Tail(todo[c]) # <<>> => /\ Head(Tail(todo[c])) # "create"
                                    /\ Head(todo[c]) # "forget"
         /\ Done(c) => todo'[c] = Tail(todo[c])
         /\ Throws(c) => todo'[c] = <<>> /\ app \in failed'
<1>1. todo \in [Callers -> Seq(Steps)] /\ todo[c] \in Seq(Steps) /\ Orderly(todo[c])
  BY DEF TypeOK, Scripts
<1>2. /\ Head(todo[c]) = todo[c][1] /\ Len(todo[c]) \in Nat /\ Len(todo[c]) >= 1
      /\ DOMAIN todo[c] = 1 .. Len(todo[c])
  BY <1>1, LenProperties
<1>3. ASSUME Tail(todo[c]) # <<>>
      PROVE  Head(Tail(todo[c])) # "create" /\ Head(todo[c]) # "forget"
  <2>1. /\ Len(todo[c]) >= 2 /\ Head(Tail(todo[c])) = todo[c][2]
        /\ 1 \in DOMAIN todo[c] /\ 2 \in DOMAIN todo[c]
    BY <1>1, <1>2, <1>3
  <2>2. /\ todo[c][2] = "create" => 2 = 1
        /\ todo[c][1] = "forget" => 1 = Len(todo[c])
    BY <1>1, <2>1 DEF Orderly
  <2> QED
    BY <1>2, <2>1, <2>2
<1>4. Done(c) => todo'[c] = Tail(todo[c])
  <2>1. <<>> \o Tail(todo[c]) = Tail(todo[c])
    BY <1>1, OrderlyTail, ConcatEmptySeq
  <2> QED
    BY <1>1, <2>1 DEF Done, Goes
<1> QED
  BY <1>1, <1>2, <1>3, <1>4 DEF Throws

\* A connection comes with Create and goes with Forget.
LEMMA ConnectedStep ==
  ASSUME TypeOK, Scripts, OneAtATime, Connected, [Next]_vars
  PROVE  Connected'
<1> SUFFICES ASSUME Alone, NEW c \in Callers, todo'[c] # <<>>
             PROVE  /\ Head(todo'[c]) \notin {"connect", "create"} => app' # None
                    /\ Head(todo'[c]) = "create" => app' = None
  BY AtOnceStays DEF Connected, Alone
<1> DEFINE Good == /\ Head(todo'[c]) \notin {"connect", "create"} => app' # None
                   /\ Head(todo'[c]) = "create" => app' = None
<1>1. CASE todo[c] = <<>>
  <2>1. Begins(c)
    BY <1>1, TodoSteps DEF GoesOn, Ended, Connects
  <2>2. Head(todo'[c]) = "connect"
    BY <2>1, ScriptsOfOps DEF Begins
  <2> QED
    BY <2>2
<1>2. CASE todo[c] # <<>>
  <2>0. /\ Tail(todo[c]) # <<>> => Head(Tail(todo[c])) # "create" /\ Head(todo[c]) # "forget"
        /\ Done(c) => todo'[c] = Tail(todo[c])
        /\ ~Throws(c)
        /\ Head(todo[c]) \notin {"connect", "create"} => app # None
        /\ Head(todo[c]) = "create" => app = None
    BY <1>2, TailOf DEF Connected
  <2>1. CASE Connect(c)
    <3>1. UNCHANGED app
      BY <2>1 DEF Connect
    <3>2. CASE app = None
      <4>1. todo'[c] = (<<"create">> \o Ready) \o Tail(todo[c]) /\ Head(todo[c]) = "connect"
        BY <2>1, <3>2 DEF Connect, NoConnection, Goes, TypeOK, At
      <4>2. Head(todo'[c]) = "create"
        BY <1>2, <4>1, TailOf, OrderlyCreate
      <4> QED
        BY <3>1, <3>2, <4>2
    <3>3. CASE app # None
      <4>1. Done(c)
        BY <2>1, <3>3 DEF Connect, NoConnection, Done
      <4> QED
        BY <2>0, <3>1, <3>3, <4>1
    <3> QED
      BY <3>2, <3>3
  <2>2. CASE Create(c)
    <3>1. Done(c) /\ made' = made + 1 /\ app' = made'
      BY <2>0, <2>2 DEF Create
    <3>2. app' # None
      BY <3>1 DEF TypeOK
    <3> QED
      BY <2>0, <3>1, <3>2
  <2>3. CASE Checked(c) \/ Forget(c)
    <3>1. Done(c) /\ Head(todo[c]) \in {"checked", "forget"}
      BY <2>3 DEF Checked, Forget, At
    <3>2. Checked(c)
      BY <2>0, <2>3, <3>1 DEF Forget, At
    <3> QED
      BY <2>0, <3>1, <3>2 DEF Checked
  <2>4. CASE Send(c)
    <3>1. UNCHANGED <<app, todo>>
      BY <2>0, <2>4 DEF Send
    <3> QED
      BY <2>0, <3>1
  <2>5. CASE Answer(c)
    <3>1. Head(todo[c]) \in Exchanges /\ UNCHANGED app
      BY <2>5 DEF Answer, TypeOK
    <3>2. Done(c)
      BY <2>0, <2>5 DEF Answer, TypeOK
    <3> QED
      BY <2>0, <3>1, <3>2, StepNames
  <2>6. CASE Reject(c)
    BY <2>0, <2>6 DEF Reject
  <2>7. CASE Change \/ UNCHANGED vars
    BY <2>0, <2>7 DEF Change, vars
  <2> QED
    BY <1>2, <2>1, <2>2, <2>3, <2>4, <2>5, <2>6, <2>7, Turns DEF Step
<1> QED
  BY <1>1, <1>2

LEMMA NoneForgottenStep ==
  ASSUME TypeOK, Scripts, OneAtATime, Connected, NoneForgotten, [Next]_vars
  PROVE  NoneForgotten'
<1> SUFFICES ASSUME Alone, "testDevice" \notin uses
             PROVE  open' \subseteq {app'} /\ made' <= 1 /\ (app' = None => made' = 0)
  BY AtOnceStays, UsesStay DEF NoneForgotten, Alone
<1>0. /\ open \subseteq {app} /\ made <= 1 /\ (app = None => made = 0) /\ made \in Nat
      /\ open \subseteq 1 .. made
  BY DEF NoneForgotten, TypeOK
<1>1. CASE UNCHANGED <<app, made, passed>> /\ open' \subseteq open
  BY <1>0, <1>1
<1>2. ASSUME NEW c \in Callers, Create(c), made' = made + 1, app' = made',
             open' = open \cup {made'}
      PROVE  open' \subseteq {app'} /\ made' <= 1 /\ (app' = None => made' = 0)
  <2>1. app = None
    BY <1>2 DEF Create, At, Connected
  <2>2. made = 0 /\ open = {}
    BY <1>0, <2>1
  <2> QED
    BY <1>2, <2>2
<1>3. CASE UNCHANGED <<app, made, open>>
  BY <1>0, <1>3
<1>4. ASSUME NEW c \in Callers, Forget(c) PROVE FALSE
  <2>1. todo[c] # <<>> /\ Head(todo[c]) = "forget"
    BY <1>4 DEF Forget, At
  <2>2. 1 \in DOMAIN todo[c] /\ todo[c][1] = "forget"
    BY <2>1, TailOf
  <2> QED
    BY <2>2 DEF Scripts
<1> QED
  BY <1>1, <1>2, <1>3, <1>4, ConnectionSteps

\* Steps that are left, and that are not.
Has(s) == \E i \in DOMAIN s : s[i] = "checked"

LEMMA CheckedIsLeft ==
  ASSUME NEW s \in Seq(Steps), Has(s), s # <<>>, Orderly(s), Head(s) # "checked"
  PROVE  Has(Tail(s)) /\ Head(s) # "skipIfOld"
<1>1. PICK i \in DOMAIN s : s[i] = "checked"
  BY DEF Has
<1>2. /\ DOMAIN s = 1 .. Len(s) /\ Len(s) \in Nat /\ Head(s) = s[1]
      /\ DOMAIN Tail(s) = 1 .. Len(s) - 1
      /\ \A j \in 1 .. Len(s) - 1 : Tail(s)[j] = s[j + 1]
  BY LenProperties
<1>3. i - 1 \in DOMAIN Tail(s) /\ Tail(s)[i - 1] = "checked"
  BY <1>1, <1>2
<1>4. s[1] # "skipIfOld"
  BY <1>1, <1>2 DEF Orderly
<1> QED
  BY <1>2, <1>3, <1>4 DEF Has

LEMMA CreateIsChecked ==
  ASSUME NEW s \in Seq(Steps), s # <<>>, Orderly(s), Head(s) = "create"
  PROVE  Has(Tail(s))
<1>1. 1 \in DOMAIN s /\ s[1] = "create"
  BY LenProperties
<1>2. Has(s)
  BY <1>1 DEF Orderly, Has
<1> QED
  BY <1>2, CheckedIsLeft

LEMMA ConnectIsChecked ==
  ASSUME NEW s \in Seq(Steps), s # <<>>, Orderly(s), Head(s) = "connect"
  PROVE  Has((<<"create">> \o Ready) \o Tail(s))
<1>1. /\ (<<"create">> \o Ready) \o Tail(s) \in Seq(Steps)
      /\ (<<"create">> \o Ready) \o Tail(s) # <<>>
      /\ Head((<<"create">> \o Ready) \o Tail(s)) = "create"
      /\ Orderly((<<"create">> \o Ready) \o Tail(s))
  BY OrderlyCreate
<1> DEFINE t == (<<"create">> \o Ready) \o Tail(s)
<1>2. t \in Seq(Steps) /\ t # <<>> /\ Head(t) = "create" /\ Orderly(t)
  BY <1>1
<1> HIDE DEF t
<1>3. 1 \in DOMAIN t /\ t[1] = "create"
  BY <1>2, LenProperties
<1>4. Has(t)
  BY <1>2, <1>3 DEF Orderly, Has
<1> QED
  BY <1>4 DEF t

LEMMA FailedStays == ASSUME [Next]_vars PROVE failed \subseteq failed'
  BY DEF Next, Step, vars, Connect, Create, Checked, Forget, Send, Answer, Reject,
     Call, Disconnect, Change, Throws

LEMMA ToBeCheckedStep ==
  ASSUME TypeOK, Scripts, OneAtATime, Connected, ToBeChecked, [Next]_vars
  PROVE  ToBeChecked'
<1> SUFFICES ASSUME Alone, app' # None, app' \notin passed', app' \notin failed'
             PROVE  \E c \in Callers : Has(todo'[c])
  BY AtOnceStays DEF ToBeChecked, Alone, Has
<1>1. CASE UNCHANGED <<app, made, passed>> /\ open' \subseteq open
  <2>1. PICK c \in Callers : Has(todo[c])
    BY <1>1, FailedStays DEF ToBeChecked, Has
  <2>2. todo[c] # <<>>
    BY <2>1 DEF Has
  <2>3. todo[c] \in Seq(Steps) /\ Orderly(todo[c])
    BY <2>2, TailOf
  <2>4. CASE todo'[c] = todo[c]
    BY <2>1, <2>4
  <2>5. CASE GoesOn(c)
    <3>1. CASE Head(todo[c]) = "checked"
      <4>1. todo'[c] # todo[c] \/ Checked(c)
        <5>1. Len(Tail(todo[c])) # Len(todo[c])
          BY <2>2, <2>3, LenProperties
        <5> QED
          BY <2>5, <5>1 DEF GoesOn
      <4>2. (~Change /\ ~UNCHANGED vars) \/ Checked(c)
        BY <4>1 DEF Change, vars
      <4>3. Send(c) => todo'[c] = todo[c]
        BY <2>2, TailOf DEF Send
      <4>4. Reject(c) => app' \in failed'
        BY DEF Reject, Throws
      <4>5. Answer(c) => Head(todo[c]) \in Exchanges
        BY DEF Answer, TypeOK
      <4>6. Checked(c)
        BY <2>2, <3>1, <4>1, <4>2, <4>3, <4>4, <4>5, Turns, StepNames
           DEF Step, Connect, Create, Forget, At
      <4>7. app' \in passed'
        BY <1>1, <4>6 DEF Checked
      <4> QED
        BY <4>7
    <3>2. CASE Head(todo[c]) # "checked"
      BY <2>1, <2>2, <2>3, <2>5, <3>2, CheckedIsLeft DEF GoesOn
    <3> QED
      BY <3>1, <3>2
  <2>6. CASE Ended(c)
    <3>1. Head(todo[c]) = "skipIfOld"
      BY <1>1, <2>6 DEF Ended
    <3> QED
      BY <2>1, <2>2, <2>3, <3>1, CheckedIsLeft
  <2>7. CASE Connects(c)
    BY <2>3, <2>7, ConnectIsChecked DEF Connects
  <2> QED
    BY <2>2, <2>4, <2>5, <2>6, <2>7, TodoSteps DEF Begins
<1>2. ASSUME NEW c \in Callers, Create(c), Done(c)
      PROVE  \E d \in Callers : Has(todo'[d])
  <2>1. todo[c] # <<>> /\ Head(todo[c]) = "create"
    BY <1>2 DEF Create, At
  <2>2. todo[c] \in Seq(Steps) /\ Orderly(todo[c]) /\ todo'[c] = Tail(todo[c])
    BY <1>2, <2>1, TailOf
  <2> QED
    BY <2>1, <2>2, CreateIsChecked
<1>3. CASE UNCHANGED app /\ passed' = IF app = None THEN passed ELSE passed \cup {app}
  BY <1>3
<1> QED
  BY <1>1, <1>2, <1>3, ConnectionSteps

LEMMA StillOpenStep ==
  ASSUME TypeOK, StillOpen, [Next]_vars
  PROVE  StillOpen'
<1> SUFFICES ASSUME app' # None, app' \notin failed', "disconnect" \notin uses'
             PROVE  app' \in open'
  BY DEF StillOpen
<1>0. failed \subseteq failed' /\ uses \subseteq uses'
  BY FailedStays, UsesStay
<1>1. CASE UNCHANGED <<app, open>>
  BY <1>0, <1>1 DEF StillOpen
<1>2. ASSUME NEW c \in Callers, Throws(c), UNCHANGED app PROVE FALSE
  BY <1>2 DEF Throws
<1>3. ASSUME NEW c \in Callers, Create(c) PROVE app' \in open'
  <2>1. CASE app' = made' /\ open' = open \cup {made'}
    BY <2>1
  <2>2. CASE Throws(c) /\ NotMade
    BY <1>2, <2>2 DEF NotMade
  <2> QED
    BY <1>3, <2>1, <2>2 DEF Create
<1>4. ASSUME NEW c \in Callers, Forget(c) PROVE FALSE
  BY <1>4 DEF Forget
<1>5. ASSUME NEW c \in Callers, Send(c) \/ Answer(c) \/ Reject(c) PROVE UNCHANGED <<app, open>>
  <2>1. UNCHANGED app /\ ~Throws(c)
    BY <1>2, <1>5 DEF Send, Answer, Reject
  <2>2. CASE Send(c)
    BY <2>1, <2>2 DEF Send
  <2>3. CASE Answer(c)
    <3>1. \E error : Closed(error) /\ error = "none"
      BY <2>1, <2>3 DEF Answer
    <3> QED
      BY <2>1, <3>1 DEF Closed, Closes
  <2>4. CASE Reject(c)
    BY <2>1, <2>4 DEF Reject
  <2> QED
    BY <1>5, <2>2, <2>3, <2>4
<1>6. ~Disconnect
  BY DEF Disconnect
<1>7. ASSUME NEW c \in Callers, Connect(c) \/ Checked(c) \/ \E op \in Ops : Call(c, op)
      PROVE  UNCHANGED <<app, open>>
  BY <1>7 DEF Connect, Checked, Call
<1>8. Change \/ UNCHANGED vars => UNCHANGED <<app, open>>
  BY DEF Change, vars
<1> QED
  BY <1>1, <1>3, <1>4, <1>5, <1>6, <1>7, <1>8 DEF Next, Step

LEMMA NoneIsNotOpen == ASSUME TypeOK PROVE None \notin open
<1>1. made \in Nat /\ open \subseteq 1 .. made
  BY DEF TypeOK
<1>2. None \notin 1 .. made
  BY <1>1
<1> QED
  BY <1>1, <1>2

LEMMA HealthyStep ==
  ASSUME TypeOK, Scripts, OneAtATime, Connected, NoneForgotten, HealthyConnection,
         [Next]_vars
  PROVE  HealthyConnection'
<1> DEFINE Fine == /\ failed' \subseteq {None}
                   /\ failed' # {} => "testDevice" \in uses' /\ open' \ {app'} # {}
                   /\ app' # None => app' \in open'
                   /\ \A c \in Callers : sent'[c] # None => sent'[c] \in open'
<1> SUFFICES ASSUME Healthy' PROVE Fine
  BY DEF HealthyConnection
<1>1. Healthy /\ ~Change /\ ~Disconnect /\ \A c \in Callers : ~Reject(c)
  <2>1. Alone /\ "disconnect" \notin uses
    BY AtOnceStays, UsesStay DEF Healthy, Alone
  <2>2. changes \in Nat /\ changes' = 0
    BY DEF Healthy, TypeOK
  <2>3. changes' = changes \/ changes' = changes + 1
    BY DEF Next, Step, vars, world, Connect, Create, Checked, Forget, Send,
       Answer, Reject, Call, Disconnect, Change
  <2>4. changes = 0 /\ ~Change /\ \A c \in Callers : ~Reject(c)
    BY <2>2, <2>3 DEF Change, Reject
  <2>5. ~Disconnect
    BY DEF Disconnect, Healthy
  <2>6. device' = device
    BY <2>4 DEF Next, Step, vars, world, Connect, Create, Checked, Forget, Send,
       Answer, Call, Disconnect
  <2> QED
    BY <2>1, <2>4, <2>5, <2>6 DEF Healthy
<1>2. /\ failed \subseteq {None} /\ (failed # {} => "testDevice" \in uses /\ open \ {app} # {})
      /\ (app # None => app \in open) /\ device = "fit" /\ Alone
      /\ \A c \in Callers : sent[c] # None => sent[c] \in open
      /\ changes = 0 /\ changes' = 0 /\ uses \subseteq uses'
  BY <1>1, UsesStay DEF Healthy, HealthyConnection
<1>3. CASE UNCHANGED <<app, open, sent, failed>>
  BY <1>2, <1>3
<1>4. ASSUME NEW c \in Callers, Create(c) PROVE Fine
  <2>1. app = None /\ UNCHANGED sent
    BY <1>2, <1>4 DEF Create, At, Connected
  <2>2. open \subseteq 1 .. made /\ made \in Nat /\ None \notin open
    BY NoneIsNotOpen DEF TypeOK
  <2>3. CASE app' = made' /\ made' = made + 1 /\ open' = open \cup {made'} /\ UNCHANGED failed
    <3>1. made' \notin open
      BY <2>2, <2>3
    <3>2. failed' # {} => open' \ {app'} # {}
      BY <1>2, <2>1, <2>2, <2>3, <3>1
    <3> QED
      BY <1>2, <2>1, <2>3, <3>2
  <2>4. CASE open # {} /\ Throws(c) /\ NotMade
    <3>1. failed' \subseteq {None} /\ UNCHANGED <<app, open>>
      BY <1>2, <2>1, <2>4 DEF Throws, NotMade
    <3>2. open \ {app} # {}
      BY <2>1, <2>2, <2>4
    <3>3. "testDevice" \in uses
      BY <1>2, <2>1, <2>2, <2>4 DEF NoneForgotten
    <3> QED
      BY <1>2, <2>1, <3>1, <3>2, <3>3
  <2> QED
    BY <1>2, <1>4, <2>3, <2>4 DEF Create, TypeOK
<1>5. ASSUME NEW c \in Callers, Forget(c) PROVE Fine
  <2>1. app' = None /\ UNCHANGED <<open, sent, failed>>
    BY <1>5 DEF Forget
  <2>2. None \notin open
    BY NoneIsNotOpen
  <2> QED
    BY <1>2, <2>1, <2>2
<1>6. ASSUME NEW c \in Callers, Send(c) PROVE Fine
  <2>1. todo[c] # <<>> /\ Head(todo[c]) \in Exchanges /\ sent[c] = None
    BY <1>6 DEF Send, At
  <2>2. app # None
    BY <1>2, <2>1, StepNames DEF Connected
  <2>3. \A d \in Callers : sent[d] # app
    BY <1>2, <2>1, <2>2 DEF Scripts, OneAtATime
  <2>4. UNCHANGED <<app, open, failed>> /\ sent' = [sent EXCEPT ![c] = app]
    BY <1>6, <2>2, <2>3 DEF Send
  <2>5. \A d \in Callers : sent'[d] = sent[d] \/ sent'[d] = app
    BY <2>4 DEF TypeOK
  <2> QED
    BY <1>2, <2>2, <2>4, <2>5
<1>7. ASSUME NEW c \in Callers, Answer(c) PROVE Fine
  <2>1. sent[c] \in open
    BY <1>2, <1>7 DEF Answer
  <2>2. /\ Error(Head(todo[c]), sent[c]) = {"none"} /\ ~Refused(Head(todo[c]))
        /\ ~LockedIsTold(Head(todo[c]), sent[c])
    BY <1>2, <2>1, Zenon DEF Error, Refused, LockedIsTold
  <2>3. UNCHANGED <<open, failed, app>> /\ sent' = [sent EXCEPT ![c] = None]
    BY <1>2, <1>7, <2>2 DEF Answer, Closed, Closes
  <2>4. \A d \in Callers : sent'[d] = sent[d] \/ sent'[d] = None
    BY <2>3 DEF TypeOK
  <2> QED
    BY <1>2, <2>3, <2>4
<1>8. ASSUME NEW c \in Callers,
             Connect(c) \/ Checked(c) \/ \E op \in Ops : Call(c, op)
      PROVE  UNCHANGED <<app, open, sent, failed>>
  BY <1>8 DEF Connect, Checked, Call
<1> QED
  BY <1>1, <1>3, <1>4, <1>5, <1>6, <1>7, <1>8 DEF Next, Step, vars

-----------------------------------------------------------------------------
(* What one caller after the other can rely on. *)

AloneInv == /\ TypeOK /\ Scripts /\ OneAtATime /\ Connected
            /\ NoneForgotten /\ ToBeChecked /\ StillOpen /\ HealthyConnection

LEMMA AloneInit == Init => AloneInv
<1> SUFFICES ASSUME Init PROVE AloneInv
  OBVIOUS
<1>1. \A c \in Callers : todo[c] = <<>> /\ sent[c] = None
  BY DEF Init
<1>2. app = None /\ open = {} /\ made = 0 /\ failed = {}
  BY DEF Init
<1>3. OneAtATime /\ Connected
  BY <1>1 DEF OneAtATime, Connected
<1>4. NoneForgotten /\ ToBeChecked /\ StillOpen /\ HealthyConnection
  BY <1>1, <1>2 DEF NoneForgotten, ToBeChecked, StillOpen, HealthyConnection
<1> QED
  BY <1>3, <1>4, TypeInit DEF AloneInv

LEMMA AloneStep == AloneInv /\ [Next]_vars => AloneInv'
  BY TypeStep, ScriptsStep, OneAtATimeStep, ConnectedStep, NoneForgottenStep,
     ToBeCheckedStep, StillOpenStep, HealthyStep DEF AloneInv

\* OneTransport: connect() takes it that a connection made once is well; one
\* caller after the other never makes a second transport, unless testDevice()
\* has thrown the first one away.
THEOREM OneTransportAlone == Spec => []OneTransport
<1>1. AloneInv => OneTransport
  BY DEF AloneInv, NoneForgotten, OneTransport
<1> QED
  BY <1>1, AloneInit, AloneStep, PTL DEF Spec

\* CheckedUnlessTold: connect() remembers the connection before isReady()
\* has looked at the device, and an error closes it without forgetting it;
\* when the caller has nothing left to do, the connection has passed the check
\* and is open, or an operation has thrown with it.
THEOREM CheckedOrTold == Spec => []CheckedUnlessTold
<1>1. AloneInv => CheckedUnlessTold
  <2> SUFFICES ASSUME AloneInv, Alone, Busy = {}, app # None, app \notin failed
               PROVE  app \in passed /\ (app \in open \/ "disconnect" \in uses)
    BY DEF CheckedUnlessTold
  <2>1. ASSUME app \notin passed PROVE FALSE
    <3>1. PICK c \in Callers : \E i \in DOMAIN todo[c] : todo[c][i] = "checked"
      BY <2>1 DEF AloneInv, ToBeChecked
    <3>2. todo[c] = <<>>
      BY DEF Busy
    <3> QED
      BY <3>1, <3>2
  <2> QED
    BY <2>1 DEF AloneInv, StillOpen
<1> QED
  BY <1>1, AloneInit, AloneStep, PTL DEF Spec

\* HealthyDeviceServes: with the right app open and nobody meddling, one
\* caller after the other, no operation throws once it has its connection, and
\* what keeps one from connecting is a transport that testDevice() left open.
THEOREM HealthyServes == Spec => []HealthyDeviceServes
<1>1. AloneInv => HealthyDeviceServes
  BY DEF AloneInv, HealthyConnection, Healthy, HealthyDeviceServes
<1> QED
  BY <1>1, AloneInit, AloneStep, PTL DEF Spec
=============================================================================
