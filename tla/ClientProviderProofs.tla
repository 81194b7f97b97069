------------------------ MODULE ClientProviderProofs ------------------------
(***************************************************************************)
(* Theorems about ClientProvider: whatever the callers do, a client is     *)
(* created once, by one of them at a time.  A getter that has got past its *)
(* mutex keeps it, and the field stays empty, until it is left; a caller is *)
(* never twice in the same getter, because getters call each other along   *)
(* Needs only.                                                             *)
(***************************************************************************)
EXTENDS ClientProvider, SequenceTheorems, FiniteSetTheorems, TLAPS

Rank(x) == IF x = "tm" THEN 0 ELSE IF x = "gasFee" THEN 2 ELSE 1

\* The getters c is in and has the mutex of.
Owns(c, i) == \/ i < Len(frames[c])
              \/ i = Len(frames[c]) /\ step[c] \in {"creating", "failing"}

FramesDescend ==
  \A c \in Callers : \A i, j \in DOMAIN frames[c] :
    i < j => Rank(frames[c][i]) > Rank(frames[c][j])

OwnersHold ==
  \A c \in Callers : \A i \in DOMAIN frames[c] :
    Owns(c, i) => LET x == frames[c][i]
                  IN  line[x] # <<>> /\ Head(line[x]) = c /\ cached[x] = None

MadeIfCached == \A x \in Clients : made[x] = IF cached[x] = None THEN 0 ELSE 1

Inv == TypeOK /\ FramesDescend /\ OwnersHold /\ MadeIfCached

LEMMA EmptyIffNoLength ==
  ASSUME NEW S PROVE \A q \in Seq(S) : q = <<>> <=> Len(q) = 0
  OBVIOUS

LEMMA RankIsNatural == \A x : Rank(x) \in Nat
  BY DEF Rank

LEMMA NeedsDescends ==
  \A x \in Clients : Needs(x) # None =>
    Needs(x) \in Clients /\ Rank(Needs(x)) < Rank(x)
<1> SUFFICES ASSUME NEW x \in Clients, Needs(x) # None
             PROVE  Needs(x) \in Clients /\ Rank(Needs(x)) < Rank(x)
  OBVIOUS
<1>1. CASE x = "tm"
  BY <1>1 DEF Needs
<1>2. CASE x \in {"stargate", "query"}
  <2>1. Needs(x) = "tm"
    BY <1>2 DEF Needs
  <2> QED
    BY <1>2, <2>1 DEF Rank, Clients
<1>3. CASE x = "gasFee"
  <2>1. Needs(x) = "query"
    BY <1>3 DEF Needs
  <2> QED
    BY <1>3, <2>1 DEF Rank, Clients
<1> QED
  BY <1>1, <1>2, <1>3 DEF Clients

\* Calling the getter of x, for the application or from a getter that has
\* its own mutex and found its field empty.
LEMMA EnterKeepsInv ==
  ASSUME Inv, NEW c \in Callers, NEW x \in Clients, Enter(c, x),
         UNCHANGED cached,
         \/ frames[c] = <<>>
         \/ /\ frames[c] # <<>> /\ Rank(x) < Rank(Inner(c))
            /\ line[Inner(c)] # <<>> /\ Head(line[Inner(c)]) = c
            /\ cached[Inner(c)] = None
  PROVE  /\ line' \in [Clients -> Seq(Callers)]
         /\ frames' \in [Callers -> Seq(Clients)]
         /\ step' = [step EXCEPT ![c] = "locking"]
         /\ frames'[c] # <<>>
         /\ \A d \in Callers : d # c => frames'[d] = frames[d]
         /\ FramesDescend' /\ OwnersHold'
<1>t. /\ line \in [Clients -> Seq(Callers)] /\ frames \in [Callers -> Seq(Clients)]
      /\ step \in [Callers -> {"idle", "locking", "creating", "failing"}]
  BY DEF Inv, TypeOK
<1>1. /\ frames' = [frames EXCEPT ![c] = Append(@, x)]
      /\ line' = [line EXCEPT ![x] = Append(@, c)]
      /\ step' = [step EXCEPT ![c] = "locking"]
  BY DEF Enter, Is
<1>2. /\ line' \in [Clients -> Seq(Callers)] /\ frames' \in [Callers -> Seq(Clients)]
      /\ frames'[c] # <<>>
      /\ \A d \in Callers : d # c => frames'[d] = frames[d]
  BY <1>1, <1>t
<1>3. /\ Len(frames'[c]) = Len(frames[c]) + 1
      /\ frames'[c][Len(frames[c]) + 1] = x
      /\ \A i \in 1 .. Len(frames[c]) : frames'[c][i] = frames[c][i]
      /\ DOMAIN frames'[c] = 1 .. Len(frames[c]) + 1
      /\ DOMAIN frames[c] = 1 .. Len(frames[c]) /\ Len(frames[c]) \in Nat
  BY <1>1, <1>t
<1>4. \A y \in Clients : line[y] # <<>> =>
        line'[y] # <<>> /\ Head(line'[y]) = Head(line[y])
  <2> SUFFICES ASSUME NEW y \in Clients, line[y] # <<>>
               PROVE  line'[y] # <<>> /\ Head(line'[y]) = Head(line[y])
    OBVIOUS
  <2>1. line[y] \in Seq(Callers)
    BY <1>t
  <2>2. CASE y = x
    <3>1. line'[y] = Append(line[y], c)
      BY <2>2, <1>1, <1>t
    <3>2. Append(line[y], c)[1] = line[y][1] /\ Len(Append(line[y], c)) > 0
      BY <2>1
    <3> QED
      BY <3>1, <3>2, <2>1
  <2>3. CASE y # x
    BY <2>3, <1>1, <1>t
  <2> QED
    BY <2>2, <2>3
<1>5. \A i \in 1 .. Len(frames[c]) : Rank(x) < Rank(frames[c][i])
  <2>1. CASE frames[c] = <<>>
    BY <2>1, <1>3
  <2>2. CASE frames[c] # <<>> /\ Rank(x) < Rank(Inner(c))
    <3>1. Len(frames[c]) \in 1 .. Len(frames[c])
      BY <2>2, <1>3, <1>t
    <3>2. \A i \in 1 .. Len(frames[c]) : i < Len(frames[c]) =>
            Rank(frames[c][i]) > Rank(frames[c][Len(frames[c])])
      BY <3>1, <1>3 DEF Inv, FramesDescend
    <3> QED
      BY <2>2, <3>1, <3>2, <1>3, RankIsNatural DEF Inner
  <2> QED
    BY <2>1, <2>2
<1>6. FramesDescend'
  <2> SUFFICES ASSUME NEW d \in Callers, NEW i \in DOMAIN frames'[d],
                      NEW j \in DOMAIN frames'[d], i < j
               PROVE  Rank(frames'[d][i]) > Rank(frames'[d][j])
    BY DEF FramesDescend, Rank
  <2>1. CASE d # c
    BY <2>1, <1>2 DEF Inv, FramesDescend
  <2>2. CASE d = c /\ j = Len(frames[c]) + 1
    BY <2>2, <1>3, <1>5 DEF Rank
  <2>3. CASE d = c /\ j # Len(frames[c]) + 1
    BY <2>3, <1>3 DEF Inv, FramesDescend
  <2> QED
    BY <2>1, <2>2, <2>3
<1>7. OwnersHold'
  <2> SUFFICES ASSUME NEW d \in Callers, NEW i \in DOMAIN frames'[d], Owns(d, i)'
               PROVE  /\ line'[frames'[d][i]] # <<>>
                      /\ Head(line'[frames'[d][i]]) = d
                      /\ cached'[frames'[d][i]] = None
    BY DEF OwnersHold
  <2>1. CASE d # c
    <3>1. i \in DOMAIN frames[d] /\ Owns(d, i) /\ frames'[d][i] = frames[d][i]
      BY <2>1, <1>1, <1>2, <1>t DEF Owns
    <3>2. frames[d][i] \in Clients
      BY <3>1, <1>t
    <3> QED
      BY <3>1, <3>2, <1>4 DEF Inv, OwnersHold
  <2>2. CASE d = c
    <3>1. i \in 1 .. Len(frames[c]) /\ frames'[c][i] = frames[c][i]
      BY <2>2, <1>1, <1>3, <1>t DEF Owns
    <3>2. frames[c][i] \in Clients
      BY <3>1, <1>3, <1>t
    <3>3. /\ line[frames[c][i]] # <<>> /\ Head(line[frames[c][i]]) = c
          /\ cached[frames[c][i]] = None
      <4>1. CASE i < Len(frames[c])
        BY <4>1, <3>1, <1>3 DEF Inv, OwnersHold, Owns
      <4>2. CASE i = Len(frames[c])
        BY <4>2, <3>1, <1>3 DEF Inner
      <4> QED
        BY <4>1, <4>2, <3>1, <1>3
    <3> QED
      BY <2>2, <3>1, <3>2, <3>3, <1>4
  <2> QED
    BY <2>1, <2>2
<1> QED
  BY <1>1, <1>2, <1>6, <1>7

\* Leaving the innermost getter, that of x, whose mutex c has; if the field
\* changes, then only that of x.
LEMMA LeaveKeepsInv ==
  ASSUME Inv, NEW c \in Callers, NEW next, frames[c] # <<>>, Leave(c),
         line[Inner(c)] # <<>>, Head(line[Inner(c)]) = c,
         \A y \in Clients : y # Inner(c) => cached'[y] = cached[y],
         step' = [step EXCEPT ![c] = IF Len(frames[c]) = 1 THEN "idle" ELSE next],
         next \in {"creating", "failing"}
  PROVE  /\ line' \in [Clients -> Seq(Callers)]
         /\ frames' \in [Callers -> Seq(Clients)]
         /\ step' \in [Callers -> {"idle", "locking", "creating", "failing"}]
         /\ \A d \in Callers : step'[d] = "idle" <=> frames'[d] = <<>>
         /\ FramesDescend' /\ OwnersHold'
<1> DEFINE n == Len(frames[c])
           x == frames[c][n]
<1>t. /\ line \in [Clients -> Seq(Callers)] /\ frames \in [Callers -> Seq(Clients)]
      /\ step \in [Callers -> {"idle", "locking", "creating", "failing"}]
      /\ \A d \in Callers : step[d] = "idle" <=> frames[d] = <<>>
  BY DEF Inv, TypeOK
<1>n. n \in Nat \ {0} /\ n \in DOMAIN frames[c] /\ x \in Clients /\ Inner(c) = x
      /\ DOMAIN frames[c] = 1 .. n
  BY <1>t DEF Inner
<1>1. /\ frames' = [frames EXCEPT ![c] = SubSeq(@, 1, Len(@) - 1)]
      /\ line' = [line EXCEPT ![x] = Tail(@)]
  BY <1>n DEF Leave, Release
<1>2. /\ Len(frames'[c]) = n - 1 /\ DOMAIN frames'[c] = 1 .. n - 1
      /\ \A i \in 1 .. n - 1 : frames'[c][i] = frames[c][i]
      /\ frames'[c] \in Seq(Clients)
  BY <1>1, <1>t, <1>n
<1>3. \A d \in Callers : d # c => frames'[d] = frames[d] /\ step'[d] = step[d]
  BY <1>1, <1>t
<1>4. frames' \in [Callers -> Seq(Clients)]
  BY <1>1, <1>2, <1>t
<1>5. line' \in [Clients -> Seq(Callers)]
  BY <1>1, <1>t, <1>n
<1>6. /\ step' \in [Callers -> {"idle", "locking", "creating", "failing"}]
      /\ \A d \in Callers : step'[d] = "idle" <=> frames'[d] = <<>>
  <2>1. step'[c] = IF n = 1 THEN "idle" ELSE next
    BY <1>t
  <2>2. frames'[c] = <<>> <=> Len(frames'[c]) = 0
    BY <1>2, EmptyIffNoLength
  <2>3. Len(frames'[c]) = n - 1 /\ n \in Nat
    BY <1>2, <1>n
  <2>4. Len(frames'[c]) = 0 <=> n = 1
    <3> HIDE DEF n
    <3> QED
      BY <2>3
  <2>5. frames'[c] = <<>> <=> n = 1
    BY <2>2, <2>4
  <2> QED
    BY <2>1, <2>5, <1>3, <1>t
<1>7. FramesDescend'
  <2> SUFFICES ASSUME NEW d \in Callers, NEW i \in DOMAIN frames'[d],
                      NEW j \in DOMAIN frames'[d], i < j
               PROVE  Rank(frames'[d][i]) > Rank(frames'[d][j])
    BY DEF FramesDescend, Rank
  <2>1. CASE d # c
    BY <2>1, <1>3 DEF Inv, FramesDescend
  <2>2. CASE d = c
    BY <2>2, <1>2, <1>n DEF Inv, FramesDescend
  <2> QED
    BY <2>1, <2>2
<1>8. \A d \in Callers : \A i \in DOMAIN frames'[d] : Owns(d, i)' =>
        /\ i \in DOMAIN frames[d] /\ frames'[d][i] = frames[d][i]
        /\ Owns(d, i)
        /\ frames[d][i] # x
  <2> SUFFICES ASSUME NEW d \in Callers, NEW i \in DOMAIN frames'[d], Owns(d, i)'
               PROVE  /\ i \in DOMAIN frames[d] /\ frames'[d][i] = frames[d][i]
                      /\ Owns(d, i) /\ frames[d][i] # x
    OBVIOUS
  <2>1. CASE d # c
    <3>1. i \in DOMAIN frames[d] /\ frames'[d][i] = frames[d][i] /\ Owns(d, i)
      BY <2>1, <1>3 DEF Owns
    <3>2. Head(line[frames[d][i]]) = d
      BY <3>1 DEF Inv, OwnersHold
    <3> QED
      BY <3>1, <3>2, <2>1, <1>n
  <2>2. CASE d = c
    <3>1. i \in DOMAIN frames[c] /\ frames'[c][i] = frames[c][i] /\ i < n
      BY <2>2, <1>2, <1>n
    <3>2. Rank(frames[c][i]) > Rank(x)
      BY <3>1, <1>n DEF Inv, FramesDescend
    <3>3. frames[c][i] # x
      BY <3>2, RankIsNatural
    <3> QED
      BY <2>2, <3>1, <3>3 DEF Owns
  <2> QED
    BY <2>1, <2>2
<1>9. OwnersHold'
  <2> SUFFICES ASSUME NEW d \in Callers, NEW i \in DOMAIN frames'[d], Owns(d, i)'
               PROVE  /\ line'[frames'[d][i]] # <<>>
                      /\ Head(line'[frames'[d][i]]) = d
                      /\ cached'[frames'[d][i]] = None
    BY DEF OwnersHold
  <2>1. /\ i \in DOMAIN frames[d] /\ frames'[d][i] = frames[d][i]
        /\ Owns(d, i) /\ frames[d][i] # x
    BY <1>8
  <2>2. frames[d][i] \in Clients
    BY <2>1, <1>t
  <2>3. line'[frames[d][i]] = line[frames[d][i]]
    BY <2>1, <2>2, <1>1, <1>t
  <2> QED
    BY <2>1, <2>2, <2>3, <1>n DEF Inv, OwnersHold
<1> QED
  BY <1>4, <1>5, <1>6, <1>7, <1>9

LEMMA InitIsInv == Init => Inv
<1> SUFFICES ASSUME Init PROVE Inv
  OBVIOUS
<1>1. TypeOK
  BY ClientProviderAssumption DEF Init, TypeOK
<1>2. FramesDescend /\ OwnersHold
  BY DEF Init, FramesDescend, OwnersHold
<1>3. MadeIfCached
  BY ClientProviderAssumption DEF Init, MadeIfCached
<1> QED
  BY <1>1, <1>2, <1>3 DEF Inv

LEMMA CallKeepsInv ==
  ASSUME Inv, NEW c \in Callers, NEW x \in Clients, Call(c, x)
  PROVE  Inv'
<1>1. /\ step[c] = "idle" /\ frames[c] = <<>> /\ Enter(c, x)
      /\ calls < MaxCalls /\ calls' = calls + 1 /\ UNCHANGED <<cached, made, failures>>
  BY DEF Call, Inv, TypeOK
<1>2. /\ line' \in [Clients -> Seq(Callers)] /\ frames' \in [Callers -> Seq(Clients)]
      /\ step' = [step EXCEPT ![c] = "locking"] /\ frames'[c] # <<>>
      /\ \A d \in Callers : d # c => frames'[d] = frames[d]
      /\ FramesDescend' /\ OwnersHold'
  BY <1>1, EnterKeepsInv
<1>t. step \in [Callers -> {"idle", "locking", "creating", "failing"}]
  BY DEF Inv, TypeOK
<1>3. TypeOK'
  <2>1. calls' \in 0 .. MaxCalls
    BY <1>1, ClientProviderAssumption DEF Inv, TypeOK
  <2>2. \A d \in Callers : step'[d] = "idle" <=> frames'[d] = <<>>
    BY <1>1, <1>2, <1>t DEF Inv, TypeOK
  <2>3. step' \in [Callers -> {"idle", "locking", "creating", "failing"}]
    BY <1>2, <1>t
  <2> QED
    BY <1>1, <1>2, <2>1, <2>2, <2>3 DEF Inv, TypeOK
<1>4. MadeIfCached'
  BY <1>1 DEF Inv, MadeIfCached
<1> QED
  BY <1>2, <1>3, <1>4 DEF Inv

LEMMA LockedKeepsInv ==
  ASSUME Inv, NEW c \in Callers, Locked(c)
  PROVE  Inv'
<1> DEFINE x == Inner(c)
<1>1. /\ step[c] = "locking" /\ line[x] # <<>> /\ Head(line[x]) = c
      /\ UNCHANGED <<cached, made, calls, failures>>
  BY DEF Locked, HasLock
<1>t. /\ line \in [Clients -> Seq(Callers)] /\ frames \in [Callers -> Seq(Clients)]
      /\ step \in [Callers -> {"idle", "locking", "creating", "failing"}]
      /\ \A d \in Callers : step[d] = "idle" <=> frames[d] = <<>>
  BY DEF Inv, TypeOK
<1>2. frames[c] # <<>> /\ x \in Clients
  BY <1>1, <1>t DEF Inner
<1>3. MadeIfCached'
  BY <1>1 DEF Inv, MadeIfCached
<1>4. CASE Available(x) /\ Returns(c)
  <2>1. /\ Leave(c)
        /\ step' = [step EXCEPT ![c] = IF Len(frames[c]) = 1 THEN "idle" ELSE "creating"]
    BY <1>4 DEF Returns, Is
  <2>2. /\ line' \in [Clients -> Seq(Callers)] /\ frames' \in [Callers -> Seq(Clients)]
        /\ step' \in [Callers -> {"idle", "locking", "creating", "failing"}]
        /\ \A d \in Callers : step'[d] = "idle" <=> frames'[d] = <<>>
        /\ FramesDescend' /\ OwnersHold'
    BY <2>1, <1>1, <1>2, LeaveKeepsInv
  <2>3. TypeOK'
    BY <2>2, <1>1 DEF Inv, TypeOK
  <2> QED
    BY <2>2, <2>3, <1>3 DEF Inv
<1>5. CASE ~Available(x) /\ Needs(x) = None
  <2>1. step' = [step EXCEPT ![c] = "creating"] /\ UNCHANGED <<line, frames>>
    BY <1>5 DEF Locked, Is
  <2>2. TypeOK'
    BY <2>1, <1>1, <1>2, <1>t DEF Inv, TypeOK
  <2>3. FramesDescend'
    BY <2>1 DEF Inv, FramesDescend
  <2>4. OwnersHold'
    <3> SUFFICES ASSUME NEW d \in Callers, NEW i \in DOMAIN frames[d], Owns(d, i)'
                 PROVE  /\ line[frames[d][i]] # <<>> /\ Head(line[frames[d][i]]) = d
                        /\ cached[frames[d][i]] = None
      BY <2>1, <1>1 DEF OwnersHold
    <3>1. CASE d = c /\ i = Len(frames[c])
      BY <3>1, <1>1, <1>5 DEF Inner, Available
    <3>2. CASE d # c \/ i # Len(frames[c])
      <4>1. Owns(d, i)
        BY <3>2, <2>1, <1>t DEF Owns
      <4> QED
        BY <4>1 DEF Inv, OwnersHold
    <3> QED
      BY <3>1, <3>2
  <2> QED
    BY <2>2, <2>3, <2>4, <1>3 DEF Inv
<1>6. CASE ~Available(x) /\ Needs(x) # None
  <2>1. Enter(c, Needs(x)) /\ cached[x] = None
    BY <1>6 DEF Locked, Available
  <2>2. Needs(x) \in Clients /\ Rank(Needs(x)) < Rank(x)
    BY <1>2, <1>6, NeedsDescends
  <2>3. /\ line' \in [Clients -> Seq(Callers)] /\ frames' \in [Callers -> Seq(Clients)]
        /\ step' = [step EXCEPT ![c] = "locking"] /\ frames'[c] # <<>>
        /\ \A d \in Callers : d # c => frames'[d] = frames[d]
        /\ FramesDescend' /\ OwnersHold'
    BY <2>1, <2>2, <1>1, <1>2, EnterKeepsInv
  <2>4. TypeOK'
    BY <2>3, <1>1 DEF Inv, TypeOK
  <2> QED
    BY <2>3, <2>4, <1>3 DEF Inv
<1> QED
  BY <1>4, <1>5, <1>6 DEF Locked

\* A getter at work in its own right has its mutex and an empty field.
LEMMA WorkerOwns ==
  ASSUME Inv, NEW c \in Callers, step[c] \in {"creating", "failing"}
  PROVE  /\ frames[c] # <<>> /\ Inner(c) \in Clients
         /\ line[Inner(c)] # <<>> /\ Head(line[Inner(c)]) = c
         /\ cached[Inner(c)] = None
<1>1. frames[c] # <<>> /\ frames[c] \in Seq(Clients)
  BY DEF Inv, TypeOK
<1>2. Len(frames[c]) \in DOMAIN frames[c] /\ Inner(c) \in Clients
  BY <1>1 DEF Inner
<1>3. Owns(c, Len(frames[c]))
  BY DEF Owns
<1> QED
  BY <1>1, <1>2, <1>3 DEF Inv, OwnersHold, Inner

LEMMA CreatedKeepsInv ==
  ASSUME Inv, NEW c \in Callers, Created(c)
  PROVE  Inv'
<1> DEFINE x == Inner(c)
<1>1. /\ step[c] = "creating" /\ made' = [made EXCEPT ![x] = @ + 1]
      /\ cached' = [cached EXCEPT ![x] = made[x] + 1]
      /\ Leave(c) /\ UNCHANGED <<calls, failures>>
      /\ step' = [step EXCEPT ![c] = IF Len(frames[c]) = 1 THEN "idle" ELSE "creating"]
  BY DEF Created, Returns, Is
<1>2. /\ frames[c] # <<>> /\ x \in Clients /\ line[x] # <<>> /\ Head(line[x]) = c
      /\ cached[x] = None
  BY <1>1, WorkerOwns
<1>t. /\ cached \in [Clients -> Nat \cup {None}] /\ made \in [Clients -> Nat]
  BY DEF Inv, TypeOK
<1>3. /\ line' \in [Clients -> Seq(Callers)] /\ frames' \in [Callers -> Seq(Clients)]
      /\ step' \in [Callers -> {"idle", "locking", "creating", "failing"}]
      /\ \A d \in Callers : step'[d] = "idle" <=> frames'[d] = <<>>
      /\ FramesDescend' /\ OwnersHold'
  BY <1>1, <1>2, <1>t, LeaveKeepsInv
<1>4. TypeOK'
  <2>1. cached' \in [Clients -> Nat \cup {None}] /\ made' \in [Clients -> Nat]
    BY <1>1, <1>2, <1>t
  <2> QED
    BY <2>1, <1>1, <1>3 DEF Inv, TypeOK
<1>5. MadeIfCached'
  BY <1>1, <1>2, <1>t, ClientProviderAssumption DEF Inv, MadeIfCached
<1> QED
  BY <1>3, <1>4, <1>5 DEF Inv

LEMMA FailsKeepsInv ==
  ASSUME Inv, NEW c \in Callers, Fails(c)
  PROVE  Inv'
<1>1. /\ step[c] \in {"creating", "failing"} /\ Leave(c)
      /\ step' = [step EXCEPT ![c] = IF Len(frames[c]) = 1 THEN "idle" ELSE "failing"]
      /\ UNCHANGED <<cached, made, calls>>
      /\ \/ failures' = failures
         \/ failures < MaxFailures /\ failures' = failures + 1
  BY DEF Fails, Is
<1>2. /\ frames[c] # <<>> /\ Inner(c) \in Clients
      /\ line[Inner(c)] # <<>> /\ Head(line[Inner(c)]) = c
  BY <1>1, WorkerOwns
<1>3. /\ line' \in [Clients -> Seq(Callers)] /\ frames' \in [Callers -> Seq(Clients)]
      /\ step' \in [Callers -> {"idle", "locking", "creating", "failing"}]
      /\ \A d \in Callers : step'[d] = "idle" <=> frames'[d] = <<>>
      /\ FramesDescend' /\ OwnersHold'
  BY <1>1, <1>2, LeaveKeepsInv
<1>4. TypeOK'
  BY <1>1, <1>3, ClientProviderAssumption DEF Inv, TypeOK
<1>5. MadeIfCached'
  BY <1>1 DEF Inv, MadeIfCached
<1> QED
  BY <1>3, <1>4, <1>5 DEF Inv

(* The invariant behind the theorems: mutexes and empty fields belong to   *)
(* the callers that are past them (provider.ts, lines 35-66).              *)
THEOREM Invariance == Spec => []Inv
<1>1. Inv /\ [Next]_vars => Inv'
  <2> SUFFICES ASSUME Inv, [Next]_vars PROVE Inv'
    OBVIOUS
  <2>1. CASE UNCHANGED vars
    BY <2>1 DEF vars, Inv, TypeOK, FramesDescend, OwnersHold, Owns, MadeIfCached
  <2>2. CASE Next
    BY <2>2, CallKeepsInv, LockedKeepsInv, CreatedKeepsInv, FailsKeepsInv
    DEF Next, Work
  <2> QED
    BY <2>1, <2>2
<1> QED
  BY <1>1, InitIsInv, PTL DEF Spec

(* The fields of a ClientProvider keep their types, and a caller is idle   *)
(* exactly when it is in no getter.                                        *)
THEOREM TypeCorrect == Spec => []TypeOK
<1>1. Inv => TypeOK
  BY DEF Inv
<1> QED
  BY <1>1, Invariance, PTL

(* However many callers there are and whichever attempts fail, no client   *)
(* is created a second time (provider.ts, lines 37-43).                    *)
THEOREM NeverCreatedTwice == Spec => []CreatedOnce
<1>1. Inv => CreatedOnce
  BY DEF Inv, MadeIfCached, CreatedOnce
<1> QED
  BY <1>1, Invariance, PTL

(* No two callers are ever creating the same client.                       *)
THEOREM CreatorIsAlone == Spec => []OneCreator
<1>1. Inv => OneCreator
  <2> SUFFICES ASSUME Inv, NEW c \in Callers, NEW d \in Callers,
                      step[c] = "creating", step[d] = "creating",
                      Inner(c) = Inner(d)
               PROVE  c = d
    BY DEF OneCreator
  <2>1. Head(line[Inner(c)]) = c
    BY WorkerOwns
  <2>2. Head(line[Inner(d)]) = d
    BY WorkerOwns
  <2> QED
    BY <2>1, <2>2
<1> QED
  BY <1>1, Invariance, PTL

-----------------------------------------------------------------------------
(* The mutexes a caller keeps. *)

Among(q, e) == \E i \in DOMAIN q : q[i] = e
EachOnce(q) == \A i, j \in DOMAIN q : q[i] = q[j] => i = j

\* Nobody is twice in a line, nor twice in a getter, and a caller stands in
\* the line of a client exactly while it is in the client's getter.
LinesMatch ==
  /\ \A x \in Clients : EachOnce(line[x])
  /\ \A c \in Callers, x \in Clients : Among(line[x], c) <=> Among(frames[c], x)

LEMMA AmongAppend ==
  ASSUME NEW S, NEW q \in Seq(S), NEW r \in S
  PROVE  /\ \A x : Among(Append(q, r), x) <=> Among(q, x) \/ x = r
         /\ EachOnce(q) /\ ~Among(q, r) => EachOnce(Append(q, r))
<1>1. /\ DOMAIN q = 1 .. Len(q) /\ Len(q) \in Nat
      /\ DOMAIN Append(q, r) = 1 .. Len(q) + 1
      /\ \A i \in 1 .. Len(q) : Append(q, r)[i] = q[i]
      /\ Append(q, r)[Len(q) + 1] = r
  BY AppendProperties, LenProperties
<1>2. \A x : Among(Append(q, r), x) <=> Among(q, x) \/ x = r
  BY <1>1 DEF Among
<1>3. EachOnce(q) /\ ~Among(q, r) => EachOnce(Append(q, r))
  BY <1>1 DEF Among, EachOnce
<1> QED
  BY <1>2, <1>3

\* The end of a sequence that goes: the first element of a line, or the
\* last one of the frames.
LEMMA AmongTail ==
  ASSUME NEW S, NEW q \in Seq(S), q # <<>>, EachOnce(q)
  PROVE  /\ \A x : Among(Tail(q), x) <=> Among(q, x) /\ x # Head(q)
         /\ EachOnce(Tail(q)) /\ Among(q, Head(q))
<1>1. /\ Head(q) = q[1] /\ DOMAIN q = 1 .. Len(q) /\ Len(q) \in Nat /\ Len(q) >= 1
      /\ DOMAIN Tail(q) = 1 .. Len(q) - 1
      /\ \A i \in 1 .. Len(q) - 1 : Tail(q)[i] = q[i + 1]
  BY LenProperties
<1>2. \A x : Among(Tail(q), x) => Among(q, x) /\ x # Head(q)
  BY <1>1 DEF Among, EachOnce
<1>3. \A x : Among(q, x) /\ x # Head(q) => Among(Tail(q), x)
  <2> SUFFICES ASSUME NEW i \in DOMAIN q, q[i] # Head(q)
               PROVE  Among(Tail(q), q[i])
    BY DEF Among
  <2>1. i - 1 \in DOMAIN Tail(q) /\ Tail(q)[i - 1] = q[i]
    BY <1>1
  <2> QED
    BY <2>1 DEF Among
<1>4. EachOnce(Tail(q)) /\ Among(q, Head(q))
  BY <1>1 DEF Among, EachOnce
<1> QED
  BY <1>2, <1>3, <1>4

LEMMA AmongFront ==
  ASSUME NEW S, NEW q \in Seq(S), q # <<>>, EachOnce(q)
  PROVE  \A x : Among(SubSeq(q, 1, Len(q) - 1), x) <=> Among(q, x) /\ x # q[Len(q)]
<1> DEFINE f == SubSeq(q, 1, Len(q) - 1)
<1>1. /\ DOMAIN q = 1 .. Len(q) /\ Len(q) \in Nat /\ Len(q) >= 1
      /\ DOMAIN f = 1 .. Len(q) - 1
      /\ \A i \in 1 .. Len(q) - 1 : f[i] = q[i]
  BY SubSeqProperties, LenProperties
<1> HIDE DEF f
<1>2. \A x : Among(f, x) => Among(q, x) /\ x # q[Len(q)]
  <2> SUFFICES ASSUME NEW i \in DOMAIN f
               PROVE  Among(q, f[i]) /\ f[i] # q[Len(q)]
    BY DEF Among
  <2>1. i \in DOMAIN q /\ i # Len(q) /\ f[i] = q[i] /\ Len(q) \in DOMAIN q
    BY <1>1
  <2> QED
    BY <2>1 DEF Among, EachOnce
<1>3. \A x : Among(q, x) /\ x # q[Len(q)] => Among(f, x)
  <2> SUFFICES ASSUME NEW i \in DOMAIN q, q[i] # q[Len(q)]
               PROVE  Among(f, q[i])
    BY DEF Among
  <2>1. i \in DOMAIN f /\ f[i] = q[i]
    BY <1>1
  <2> QED
    BY <2>1 DEF Among
<1> QED
  BY <1>2, <1>3 DEF f

LEMMA FramesOnce ==
  ASSUME Inv, NEW c \in Callers
  PROVE  EachOnce(frames[c])
<1> SUFFICES ASSUME NEW i \in DOMAIN frames[c], NEW j \in DOMAIN frames[c],
                    frames[c][i] = frames[c][j], i # j
             PROVE  FALSE
  BY DEF EachOnce
<1>1. i < j \/ j < i
  BY DEF Inv, TypeOK
<1>2. Rank(frames[c][i]) > Rank(frames[c][j]) \/ Rank(frames[c][j]) > Rank(frames[c][i])
  BY <1>1 DEF Inv, FramesDescend
<1> QED
  BY <1>2, RankIsNatural

LEMMA EnterKeepsLines ==
  ASSUME Inv, LinesMatch, NEW c \in Callers, NEW x \in Clients, Enter(c, x),
         frames[c] = <<>> \/ (frames[c] # <<>> /\ Rank(x) < Rank(Inner(c)))
  PROVE  LinesMatch'
<1>1. /\ frames \in [Callers -> Seq(Clients)] /\ line \in [Clients -> Seq(Callers)]
      /\ frames' = [frames EXCEPT ![c] = Append(@, x)]
      /\ line' = [line EXCEPT ![x] = Append(@, c)]
  BY DEF Enter, Inv, TypeOK
<1>2. ~Among(frames[c], x)
  <2> SUFFICES ASSUME NEW i \in DOMAIN frames[c], frames[c][i] = x
               PROVE  FALSE
    BY DEF Among
  <2>1. /\ DOMAIN frames[c] = 1 .. Len(frames[c]) /\ Len(frames[c]) \in Nat
        /\ frames[c] # <<>> /\ Len(frames[c]) \in DOMAIN frames[c]
    BY <1>1
  <2>2. CASE i = Len(frames[c])
    BY <2>1, <2>2, RankIsNatural DEF Inner
  <2>3. CASE i < Len(frames[c])
    BY <2>1, <2>3, RankIsNatural DEF Inner, Inv, FramesDescend
  <2> QED
    BY <2>1, <2>2, <2>3
<1>3. ~Among(line[x], c)
  BY <1>2 DEF LinesMatch
<1>4. /\ \A d : Among(line'[x], d) <=> Among(line[x], d) \/ d = c
      /\ EachOnce(line'[x])
  BY <1>1, <1>3, AmongAppend DEF LinesMatch
<1>5. \A y : Among(frames'[c], y) <=> Among(frames[c], y) \/ y = x
  BY <1>1, AmongAppend
<1>6. /\ \A y \in Clients : y # x => line'[y] = line[y]
      /\ \A d \in Callers : d # c => frames'[d] = frames[d]
  BY <1>1
<1>7. \A y \in Clients : EachOnce(line'[y])
  BY <1>4, <1>6 DEF LinesMatch
<1>8. \A d \in Callers, y \in Clients : Among(line'[y], d) <=> Among(frames'[d], y)
  BY <1>4, <1>5, <1>6 DEF LinesMatch
<1> QED
  BY <1>7, <1>8 DEF LinesMatch

LEMMA LeaveKeepsLines ==
  ASSUME Inv, LinesMatch, NEW c \in Callers, frames[c] # <<>>, Leave(c),
         line[Inner(c)] # <<>>, Head(line[Inner(c)]) = c
  PROVE  LinesMatch'
<1> DEFINE x == Inner(c)
<1>1. /\ frames \in [Callers -> Seq(Clients)] /\ line \in [Clients -> Seq(Callers)]
      /\ frames' = [frames EXCEPT ![c] = SubSeq(@, 1, Len(@) - 1)]
      /\ line' = [line EXCEPT ![x] = Tail(@)]
      /\ x = frames[c][Len(frames[c])] /\ x \in Clients
  BY DEF Leave, Release, Inner, Inv, TypeOK
<1> HIDE DEF x
<1>2. EachOnce(frames[c]) /\ EachOnce(line[x])
  BY <1>1, FramesOnce DEF LinesMatch
<1>3. /\ \A d : Among(line'[x], d) <=> Among(line[x], d) /\ d # c
      /\ EachOnce(line'[x])
  <2>1. line[x] # <<>> /\ Head(line[x]) = c /\ line[x] \in Seq(Callers)
    BY <1>1 DEF x
  <2>2. line'[x] = Tail(line[x])
    BY <1>1
  <2> QED
    BY <1>2, <2>1, <2>2, AmongTail
<1>4. \A y : Among(frames'[c], y) <=> Among(frames[c], y) /\ y # x
  <2>1. frames'[c] = SubSeq(frames[c], 1, Len(frames[c]) - 1) /\ frames[c] \in Seq(Clients)
    BY <1>1
  <2> QED
    BY <1>1, <1>2, <2>1, AmongFront
<1>5. /\ \A y \in Clients : y # x => line'[y] = line[y]
      /\ \A d \in Callers : d # c => frames'[d] = frames[d]
  BY <1>1
<1>6. \A y \in Clients : EachOnce(line'[y])
  BY <1>3, <1>5 DEF LinesMatch
<1>7. \A d \in Callers, y \in Clients : Among(line'[y], d) <=> Among(frames'[d], y)
  BY <1>3, <1>4, <1>5 DEF LinesMatch
<1> QED
  BY <1>6, <1>7 DEF LinesMatch

LEMMA LinesStep == Inv /\ LinesMatch /\ [Next]_vars => LinesMatch'
<1> SUFFICES ASSUME Inv, LinesMatch, [Next]_vars PROVE LinesMatch'
  OBVIOUS
<1>0. /\ frames \in [Callers -> Seq(Clients)]
      /\ \A d \in Callers : step[d] = "idle" <=> frames[d] = <<>>
  BY DEF Inv, TypeOK
<1>1. CASE UNCHANGED <<line, frames>>
  BY <1>1 DEF LinesMatch
<1>2. ASSUME NEW c \in Callers, NEW x \in Clients, Call(c, x) PROVE LinesMatch'
  BY <1>0, <1>2, EnterKeepsLines DEF Call
<1>3. ASSUME NEW c \in Callers, Locked(c) PROVE LinesMatch'
  <2>1. /\ step[c] = "locking" /\ line[Inner(c)] # <<>> /\ Head(line[Inner(c)]) = c
    BY <1>3 DEF Locked, HasLock
  <2>2. frames[c] # <<>> /\ Inner(c) \in Clients
    BY <1>0, <2>1 DEF Inner
  <2>3. CASE Returns(c)
    BY <2>1, <2>2, <2>3, LeaveKeepsLines DEF Returns
  <2>4. CASE UNCHANGED <<line, frames>>
    BY <1>1, <2>4
  <2>5. CASE Needs(Inner(c)) # None /\ Enter(c, Needs(Inner(c)))
    BY <2>2, <2>5, NeedsDescends, EnterKeepsLines
  <2> QED
    BY <1>3, <2>3, <2>4, <2>5 DEF Locked
<1>4. ASSUME NEW c \in Callers, Created(c) \/ Fails(c) PROVE LinesMatch'
  <2>1. step[c] \in {"creating", "failing"} /\ Leave(c)
    BY <1>4 DEF Created, Fails, Returns
  <2> QED
    BY <2>1, WorkerOwns, LeaveKeepsLines
<1> QED
  BY <1>1, <1>2, <1>3, <1>4 DEF Next, Work, vars

LEMMA CountOnce ==
  ASSUME NEW q, EachOnce(q), NEW e
  PROVE  Cardinality({i \in DOMAIN q : q[i] = e}) = IF Among(q, e) THEN 1 ELSE 0
<1>1. CASE Among(q, e)
  <2>1. PICK i \in DOMAIN q : q[i] = e
    BY <1>1 DEF Among
  <2>2. {j \in DOMAIN q : q[j] = e} = {i}
    BY <2>1 DEF EachOnce
  <2> QED
    BY <1>1, <2>2, FS_Singleton
<1>2. CASE ~Among(q, e)
  <2>1. {j \in DOMAIN q : q[j] = e} = {}
    BY <1>2 DEF Among
  <2> QED
    BY <1>2, <2>1, FS_EmptySet
<1> QED
  BY <1>1, <1>2

(* LocksMatchFrames: the finally blocks release every mutex that was taken, *)
(* and no other, on whichever way a getter is left (provider.ts, lines     *)
(* 35-66).                                                                 *)
THEOREM LocksAreFrames == Spec => []LocksMatchFrames
<1>1. Init => LinesMatch
  BY DEF Init, LinesMatch, Among, EachOnce
<1>2. Inv /\ LinesMatch => LocksMatchFrames
  BY FramesOnce, CountOnce DEF LinesMatch, LocksMatchFrames
<1> QED
  BY <1>1, <1>2, LinesStep, Invariance, PTL DEF Spec
=============================================================================
