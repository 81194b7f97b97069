---------------------------- MODULE Eip712Proofs ----------------------------
(* What the typed data of a transaction describes, and what becomes of the  *)
(* transaction, for every set of messages.                                  *)
EXTENDS Eip712, FiniteSetTheorems, SequenceTheorems, NaturalsInduction,
        WellFoundedInduction, TLAPS

LEMMA SetInduction ==
  ASSUME NEW S \in SUBSET Nat, 0 \in S, \A n \in S : n + 1 \in S
  PROVE  S = Nat
<1> SUFFICES ASSUME Nat \ S # {} PROVE FALSE
  OBVIOUS
<1> DEFINE R == {p \in Nat \X Nat : p[1] < p[2]}
<1>1. R = OpToRel(<, Nat)
  BY Zenon DEF OpToRel
<1>2. IsWellFoundedOn(R, Nat)
  BY <1>1, NatLessThanWellFounded, Zenon
<1>3. \A x, y \in Nat : y < x => <<y, x>> \in R
  OBVIOUS
<1> HIDE DEF R
<1>4. PICK x \in Nat \ S : \A y \in Nat \ S : ~ (<<y, x>> \in R)
  BY <1>2, WFMin
<1>5. x # 0 /\ x - 1 \in Nat /\ x = (x - 1) + 1
  BY <1>4
<1>6. x - 1 \in S
  <2>1. <<x - 1, x>> \in R
    BY <1>3, <1>5
  <2> QED
    BY <1>4, <1>5, <2>1
<1> QED
  BY <1>4, <1>5, <1>6

-----------------------------------------------------------------------------
(* Names and paths *)

Words == {"Value"} \cup FieldNames

LEMMA NameOfPath ==
  ASSUME NEW p \in Seq(Steps)
  PROVE  /\ NameOf(p) \in Seq(Words) /\ Len(NameOf(p)) = Len(p) + 1
         /\ NameOf(p)[1] = "Value"
         /\ \A i \in 1 .. Len(p) : NameOf(p)[i + 1] = p[i].field
<1> DEFINE fields == [i \in DOMAIN p |-> p[i].field]
<1>1. DOMAIN p = 1 .. Len(p) /\ Len(p) \in Nat /\ \A i \in 1 .. Len(p) : p[i] \in Steps
  OBVIOUS
<1>2. fields \in Seq(Words) /\ Len(fields) = Len(p)
  BY <1>1 DEF Steps, Words
<1>3. <<"Value">> \in Seq(Words) /\ Len(<<"Value">>) = 1 /\ <<"Value">>[1] = "Value"
  BY DEF Words
<1>4. NameOf(p) = <<"Value">> \o fields
  BY DEF NameOf
<1>5. \A i \in 1 .. Len(p) : fields[i] = p[i].field
  BY <1>1
<1> HIDE DEF fields
<1>. QED BY <1>1, <1>2, <1>3, <1>4, <1>5, ConcatProperties

LEMMA SameNames ==
  ASSUME NEW p \in Seq(Steps), NEW q \in Seq(Steps)
  PROVE  NameOf(p) = NameOf(q) <=>
           Len(p) = Len(q) /\ \A i \in 1 .. Len(p) : p[i].field = q[i].field
<1>1. ASSUME NameOf(p) = NameOf(q)
      PROVE Len(p) = Len(q) /\ \A i \in 1 .. Len(p) : p[i].field = q[i].field
  BY <1>1, NameOfPath
<1>2. ASSUME Len(p) = Len(q), \A i \in 1 .. Len(p) : p[i].field = q[i].field
      PROVE NameOf(p) = NameOf(q)
  <2>1. Len(NameOf(p)) = Len(NameOf(q)) /\ Len(p) \in Nat
    BY <1>2, NameOfPath
  <2>2. ASSUME NEW i \in 1 .. Len(NameOf(p)) PROVE NameOf(p)[i] = NameOf(q)[i]
    <3>1. i = 1 \/ (i - 1 \in 1 .. Len(p) /\ i = (i - 1) + 1)
      BY <2>1, NameOfPath
    <3>. QED BY <1>2, <3>1, NameOfPath
  <2>. QED BY <2>1, <2>2, NameOfPath, SeqEqual
<1>. QED BY <1>1, <1>2

\* The path to the fields of a value.
LEMMA ContentsPath ==
  ASSUME NEW v, IsTree(v), NEW p \in DOMAIN v
  PROVE  LET c == Contents(v, p) IN
         /\ p \in Seq(Steps) /\ c \in Seq(Steps) /\ Len(c) = Len(p)
         /\ \A i \in 1 .. Len(p) : c[i].field = p[i].field
         /\ \A i \in 1 .. Len(p) : i < Len(p) => c[i] = p[i]
         /\ v[p] # ItemList => c = p
         /\ v[p] = ItemList => Len(p) > 0 /\ c[Len(p)].item = 1
<1>1. p \in Seq(Steps)
  BY DEF IsTree
<1>2. CASE v[p] # ItemList
  BY <1>1, <1>2 DEF Contents
<1>3. CASE v[p] = ItemList
  <2>1. p # <<>> /\ Len(p) > 0 /\ Len(p) \in 1 .. Len(p)
    <3>1. v[<<>>] = Structure /\ Structure # ItemList
      BY DEF IsTree, Structure, ItemList, Node
    <3>. QED BY <1>1, <1>3, <3>1
  <2>2. Contents(v, p) = [p EXCEPT ![Len(p)].item = 1]
    BY <1>3 DEF Contents, Item
  <2>3. p[Len(p)] \in Steps
    BY <1>1, <2>1
  <2>4. PICK s : s = [p[Len(p)] EXCEPT !.item = 1]
    OBVIOUS
  <2>5. s \in Steps /\ s.field = p[Len(p)].field /\ s.item = 1
    BY <2>3, <2>4 DEF Steps
  <2>6. Contents(v, p) = [p EXCEPT ![Len(p)] = s]
    BY <2>2, <2>4
  <2>7. [p EXCEPT ![Len(p)] = s] \in Seq(Steps) /\ Len([p EXCEPT ![Len(p)] = s]) = Len(p)
    BY <1>1, <2>1, <2>5, ExceptSeq
  <2>8. \A i \in 1 .. Len(p) : Contents(v, p)[i] = IF i = Len(p) THEN s ELSE p[i]
    BY <1>1, <2>1, <2>6
  <2>9. Contents(v, p) \in Seq(Steps) /\ Len(Contents(v, p)) = Len(p)
    BY <2>6, <2>7
  <2>10. \A i \in 1 .. Len(p) : Contents(v, p)[i].field = p[i].field
    BY <2>5, <2>8
  <2>11. \A i \in 1 .. Len(p) : i < Len(p) => Contents(v, p)[i] = p[i]
    BY <2>8
  <2>12. Contents(v, p)[Len(p)].item = 1
    BY <2>1, <2>5, <2>8
  <2>. QED BY <1>1, <1>3, <2>1, <2>9, <2>10, <2>11, <2>12
<1>. QED BY <1>2, <1>3

LEMMA ChildPath ==
  ASSUME NEW v, IsTree(v), NEW p \in DOMAIN v, NEW f \in FieldNames
  PROVE  LET c == Child(v, p, f) IN
         /\ c \in Seq(Steps) /\ Len(c) = Len(p) + 1 /\ c[Len(p) + 1] = At(f)
         /\ \A i \in 1 .. Len(p) : c[i] = Contents(v, p)[i]
         /\ At(f).field = f /\ At(f).item = 0
<1>1. At(f) \in Steps /\ At(f).field = f /\ At(f).item = 0
  BY DEF At, Steps
<1>2. Contents(v, p) \in Seq(Steps) /\ Len(Contents(v, p)) = Len(p) /\ p \in Seq(Steps)
  BY ContentsPath
<1>. QED BY <1>1, <1>2, AppendProperties DEF Child

\* The name of a field is that of the value with the field's added.
LEMMA ChildNames ==
  ASSUME NEW v, IsTree(v), NEW p \in DOMAIN v, NEW f \in FieldNames,
         NEW w, IsTree(w), NEW q \in DOMAIN w, NEW g \in FieldNames
  PROVE  NameOf(Child(v, p, f)) = NameOf(Child(w, q, g)) <=> NameOf(p) = NameOf(q) /\ f = g
<1> DEFINE c == Child(v, p, f)
           d == Child(w, q, g)
<1>1. /\ c \in Seq(Steps) /\ Len(c) = Len(p) + 1 /\ c[Len(p) + 1].field = f
      /\ d \in Seq(Steps) /\ Len(d) = Len(q) + 1 /\ d[Len(q) + 1].field = g
      /\ p \in Seq(Steps) /\ q \in Seq(Steps) /\ Len(p) \in Nat /\ Len(q) \in Nat
  BY ChildPath, ContentsPath
<1>2. /\ \A i \in 1 .. Len(p) : c[i].field = p[i].field
      /\ \A i \in 1 .. Len(q) : d[i].field = q[i].field
  BY ChildPath, ContentsPath
<1> HIDE DEF c, d
<1>3. NameOf(c) = NameOf(d) <=>
        Len(c) = Len(d) /\ \A i \in 1 .. Len(c) : c[i].field = d[i].field
  BY <1>1, SameNames
<1>4. NameOf(p) = NameOf(q) <=>
        Len(p) = Len(q) /\ \A i \in 1 .. Len(p) : p[i].field = q[i].field
  BY <1>1, SameNames
<1>5. ASSUME NameOf(c) = NameOf(d) PROVE NameOf(p) = NameOf(q) /\ f = g
  <2>1. Len(p) = Len(q) /\ Len(p) + 1 \in 1 .. Len(c)
    BY <1>1, <1>3, <1>5
  <2>2. \A i \in 1 .. Len(p) : i \in 1 .. Len(c)
    BY <1>1
  <2>. QED BY <1>1, <1>2, <1>3, <1>4, <1>5, <2>1, <2>2
<1>6. ASSUME NameOf(p) = NameOf(q), f = g PROVE NameOf(c) = NameOf(d)
  <2>1. Len(p) = Len(q) /\ Len(c) = Len(d)
    BY <1>1, <1>4, <1>6
  <2>2. ASSUME NEW i \in 1 .. Len(c) PROVE c[i].field = d[i].field
    <3>1. i \in 1 .. Len(p) \/ i = Len(p) + 1
      BY <1>1
    <3>. QED BY <1>1, <1>2, <1>4, <1>6, <2>1, <3>1
  <2>. QED BY <1>3, <2>1, <2>2
<1>. QED BY <1>5, <1>6 DEF c, d

-----------------------------------------------------------------------------
(* The structures a value's types are of *)

LEMMA NodeKinds ==
  /\ Structure # ItemList /\ ~IsLeaf(Structure) /\ ~IsLeaf(ItemList)
  /\ \A x : Falsy(x) => IsLeaf(x)
  /\ \A x : Zero(x) => IsLeaf(x)
BY DEF IsLeaf, Falsy, Zero, Structure, ItemList, Empty, Missing, Null, ZeroDec, Node

LEMMA RootDisplayed ==
  ASSUME NEW v, IsTree(v)
  PROVE  <<>> \in Displayed(v) /\ IsNested(v, <<>>) /\ NameOf(<<>>) = <<"Value">>
<1>1. <<>> \in DOMAIN v /\ v[<<>>] = Structure
  BY DEF IsTree
<1>2. IsNested(v, <<>>)
  BY <1>1, NodeKinds DEF IsNested, IsEmptyList
<1>3. <<>> \in Seq(Steps) /\ Len(<<>>) = 0 /\ DOMAIN <<>> = {}
  OBVIOUS
<1>4. NameOf(<<>>) \in Seq(Words) /\ Len(NameOf(<<>>)) = 1 /\ NameOf(<<>>)[1] = "Value"
  <2> PICK e : e = <<>>
    OBVIOUS
  <2>1. e \in Seq(Steps) /\ Len(e) = 0
    BY <1>3
  <2>2. NameOf(e) \in Seq(Words) /\ Len(NameOf(e)) = Len(e) + 1 /\ NameOf(e)[1] = "Value"
    BY <2>1, NameOfPath
  <2>. QED BY <2>1, <2>2
<1>5. <<"Value">> \in Seq(Words) /\ Len(<<"Value">>) = 1 /\ <<"Value">>[1] = "Value"
  BY DEF Words
<1>6. NameOf(<<>>) = <<"Value">>
  BY <1>4, <1>5, SeqEqual
<1>. QED BY <1>1, <1>2, <1>3, <1>6 DEF Displayed

LEMMA ChildDisplayed ==
  ASSUME NEW v, IsTree(v), NEW p \in Displayed(v), NEW f \in Present(v, p),
         IsNested(v, Child(v, p, f))
  PROVE  Child(v, p, f) \in Displayed(v)
<1> DEFINE c == Child(v, p, f)
<1>1. p \in DOMAIN v /\ f \in FieldNames /\ c \in DOMAIN v
  BY DEF Displayed, Present
<1>2. /\ c \in Seq(Steps) /\ Len(c) = Len(p) + 1 /\ c[Len(p) + 1].item = 0
      /\ \A i \in 1 .. Len(p) : c[i] = Contents(v, p)[i]
      /\ p \in Seq(Steps) /\ Len(p) \in Nat
  BY <1>1, ChildPath, ContentsPath
<1>3. \A i \in 1 .. Len(p) : p[i].item <= IF i = Len(p) THEN 0 ELSE 1
  BY <1>2 DEF Displayed
<1>4. \A i \in 1 .. Len(p) : p[i].item \in Nat
  <2>1. \A i \in 1 .. Len(p) : p[i] \in Steps
    BY <1>2
  <2>. QED BY <2>1 DEF Steps
<1>5. ASSUME NEW i \in 1 .. Len(p) PROVE Contents(v, p)[i].item <= 1
  <2>1. CASE i < Len(p)
    BY <1>1, <1>3, <2>1, ContentsPath
  <2>2. CASE i = Len(p) /\ v[p] = ItemList
    BY <1>1, <2>2, ContentsPath
  <2>3. CASE i = Len(p) /\ v[p] # ItemList
    <3>1. Contents(v, p)[i].item = p[i].item
      BY <1>1, <2>3, ContentsPath
    <3>. QED BY <1>3, <1>4, <2>3, <3>1
  <2>. QED BY <1>2, <2>1, <2>2, <2>3
<1> HIDE DEF c
<1>6. ASSUME NEW i \in DOMAIN c PROVE c[i].item <= IF i = Len(c) THEN 0 ELSE 1
  <2>1. i \in 1 .. Len(p) \/ i = Len(p) + 1
    BY <1>2
  <2>. QED BY <1>2, <1>5, <2>1
<1>7. c \in Displayed(v)
  <2>1. c \in DOMAIN v /\ IsNested(v, c)
    BY <1>1 DEF c
  <2>. QED BY <1>6, <2>1 DEF Displayed
<1>. QED BY <1>7 DEF c

LEMMA ParentDisplayed ==
  ASSUME NEW v, IsTree(v), NEW p \in Displayed(v), p # <<>>
  PROVE  \E q \in Displayed(v) : \E f \in Populated(v, q) : p = Child(v, q, f)
<1>0. PICK n : n = Len(p)
  OBVIOUS
<1>r. PICK r : r = SubSeq(p, 1, n - 1)
  OBVIOUS
<1> DEFINE f == p[n].field
<1>1. p \in DOMAIN v /\ p \in Seq(Steps) /\ n \in Nat \ {0} /\ n \in DOMAIN p /\ Len(p) = n
  BY <1>0 DEF Displayed, IsTree
<1>2. /\ r \in DOMAIN v /\ v[r] = Structure
      /\ r # <<>> /\ r[Len(r)].item > 0 =>
           Item(r, 0) \in DOMAIN v /\ v[Item(r, 0)] = ItemList
  <2>1. r \in DOMAIN v /\ v[r] = Structure
    BY <1>0, <1>r, <1>1 DEF IsTree
  <2>. QED BY <2>1 DEF IsTree
<1>3. r \in Seq(Steps) /\ Len(r) = n - 1 /\ \A i \in 1 .. n - 1 : r[i] = p[i]
  <2>1. n - 1 \in 0 .. n /\ 1 \in 1 .. n
    BY <1>1
  <2>2. /\ SubSeq(p, 1, n - 1) \in Seq(Steps)
        /\ Len(SubSeq(p, 1, n - 1)) = IF 1 <= n - 1 THEN n - 1 - 1 + 1 ELSE 0
        /\ \A i \in 1 .. n - 1 - 1 + 1 : SubSeq(p, 1, n - 1)[i] = p[1 + i - 1]
    BY <1>1, <2>1, SubSeqProperties
  <2>3. \A i \in 1 .. n - 1 : i \in 1 .. n - 1 - 1 + 1 /\ p[1 + i - 1] = p[i]
    BY <1>1
  <2>. QED BY <1>1, <1>r, <2>2, <2>3
<1>4. \A i \in 1 .. n : p[i] \in Steps /\ p[i].item <= IF i = n THEN 0 ELSE 1
  BY <1>1 DEF Displayed
<1>5. f \in FieldNames /\ p[n] = At(f)
  <2>1. p[n] \in Steps /\ p[n].item <= 0
    BY <1>1, <1>4
  <2>2. p[n] \in [field : FieldNames, item : Nat] /\ p[n].item = 0
    BY <2>1 DEF Steps
  <2>3. p[n] = [field |-> p[n].field, item |-> p[n].item]
    BY <2>2
  <2>. QED BY <2>2, <2>3 DEF At
<1>6. p = Append(r, At(f))
  <2>1. Append(r, At(f)) \in Seq(Steps) /\ Len(Append(r, At(f))) = n
    BY <1>1, <1>3, <1>4, <1>5, AppendProperties
  <2>2. ASSUME NEW i \in 1 .. n PROVE Append(r, At(f))[i] = p[i]
    <3>1. i \in 1 .. n - 1 \/ i = n
      BY <1>1
    <3>2. At(f) \in Steps
      BY <1>1, <1>4, <1>5
    <3>. QED BY <1>1, <1>3, <1>5, <3>1, <3>2, AppendProperties
  <2> HIDE DEF f
  <2>. QED BY <1>1, <2>1, <2>2, SeqEqual
<1>7. ASSUME NEW q \in DOMAIN v, IsNested(v, q), Contents(v, q) = r,
             \A i \in DOMAIN q : q[i].item <= IF i = Len(q) THEN 0 ELSE 1
      PROVE  q \in Displayed(v) /\ f \in Populated(v, q) /\ p = Child(v, q, f)
  <2>1. q \in Displayed(v)
    BY <1>7 DEF Displayed
  <2>2. p = Child(v, q, f)
    BY <1>6, <1>7 DEF Child
  <2>3. IsNested(v, p)
    BY DEF Displayed
  <2>4. f \in Present(v, q) /\ ~Falsy(v[p])
    BY <1>1, <1>5, <2>2, <2>3, NodeKinds DEF Present, IsNested
  <2>. QED BY <2>1, <2>2, <2>4 DEF Populated
<1> HIDE DEF f
<1>8. CASE r = <<>> \/ (r # <<>> /\ r[n - 1].item = 0)
  <2>1. IsNested(v, r) /\ Contents(v, r) = r
    BY <1>2, NodeKinds DEF IsNested, IsEmptyList, Contents
  <2>2. ASSUME NEW i \in DOMAIN r PROVE r[i].item <= IF i = Len(r) THEN 0 ELSE 1
    <3>1. i \in 1 .. n - 1 /\ r[i] = p[i] /\ i \in 1 .. n /\ i # n
      BY <1>1, <1>3
    <3>2. r # <<>>
      BY <1>3
    <3>. QED BY <1>3, <1>4, <1>8, <3>1, <3>2
  <2>. QED BY <1>2, <1>7, <2>1, <2>2
<1>9. CASE r # <<>> /\ r[n - 1].item # 0
  <2>1. n - 1 \in 1 .. n - 1 /\ n - 1 \in 1 .. n /\ Len(r) = n - 1 /\ n - 1 # n
    BY <1>1, <1>3, <1>9
  <2>2. r[n - 1] \in Steps /\ r[n - 1].item <= 1
    BY <1>3, <1>4, <2>1
  <2>3. r[n - 1].item = 1
    BY <1>9, <2>2 DEF Steps
  <2>4. PICK q : q = Item(r, 0)
    OBVIOUS
  <2>5. q \in DOMAIN v /\ v[q] = ItemList
    BY <1>2, <1>9, <2>1, <2>3, <2>4
  <2>6. PICK s : s = [r[n - 1] EXCEPT !.item = 0]
    OBVIOUS
  <2>7. s \in Steps /\ s.field = r[n - 1].field /\ s.item = 0
    BY <2>2, <2>6 DEF Steps
  <2>8. q = [r EXCEPT ![n - 1] = s]
    BY <2>1, <2>4, <2>6 DEF Item
  <2>9. q \in Seq(Steps) /\ Len(q) = n - 1
    BY <1>3, <2>1, <2>7, <2>8, ExceptSeq
  <2>10. \A i \in 1 .. n - 1 : q[i] = IF i = n - 1 THEN s ELSE p[i]
    BY <1>3, <2>1, <2>8
  <2>11. Contents(v, q) = r
    <3>1. Contents(v, q) = [q EXCEPT ![n - 1].item = 1]
      BY <2>5, <2>9 DEF Contents, Item
    <3>2. [s EXCEPT !.item = 1] = r[n - 1]
      <4>1. s \in [field : FieldNames, item : Nat] /\ r[n - 1] \in [field : FieldNames, item : Nat]
        BY <2>2, <2>7 DEF Steps
      <4>. QED BY <2>3, <2>7, <4>1
    <3>3. q[n - 1] = s
      BY <2>1, <2>10
    <3>4. Contents(v, q) = [q EXCEPT ![n - 1] = r[n - 1]]
      BY <3>1, <3>2, <3>3
    <3>5. [q EXCEPT ![n - 1] = r[n - 1]] = r
      <4>1. \A i \in 1 .. n - 1 : [q EXCEPT ![n - 1] = r[n - 1]][i] = r[i]
        BY <1>3, <2>1, <2>9, <2>10
      <4>2. /\ [q EXCEPT ![n - 1] = r[n - 1]] \in Seq(Steps)
            /\ Len([q EXCEPT ![n - 1] = r[n - 1]]) = n - 1
        BY <2>1, <2>2, <2>9, ExceptSeq
      <4>. QED BY <1>3, <4>1, <4>2, SeqEqual
    <3>. QED BY <3>4, <3>5
  <2>12. IsNested(v, q)
    <3>1. Item(q, 1) = r
      BY <2>5, <2>11 DEF Contents
    <3>. QED BY <1>2, <2>5, <3>1, NodeKinds DEF IsNested, IsEmptyList
  <2>13. ASSUME NEW i \in DOMAIN q PROVE q[i].item <= IF i = Len(q) THEN 0 ELSE 1
    <3>1. i \in 1 .. n - 1 /\ i \in 1 .. n /\ i # n
      BY <1>1, <2>9
    <3>. QED BY <1>4, <2>7, <2>9, <2>10, <3>1
  <2>. QED BY <1>7, <2>5, <2>11, <2>12, <2>13
<1>10. \/ r = <<>> \/ (r # <<>> /\ r[n - 1].item = 0)
       \/ r # <<>> /\ r[n - 1].item # 0
  OBVIOUS
<1>. QED BY <1>8, <1>9, <1>10, Zenon

\* Of the structures of a value no two have one name.
LEMMA NamesDiffer ==
  ASSUME NEW v, IsTree(v), NEW p \in Displayed(v), NEW q \in Displayed(v), NameOf(p) = NameOf(q)
  PROVE  p = q
<1> DEFINE S == {n \in Nat : \A a, b \in Displayed(v) :
                               Len(a) = n /\ NameOf(a) = NameOf(b) => a = b}
<1>1. \A a \in Displayed(v) : a \in Seq(Steps) /\ Len(a) \in Nat /\ a \in DOMAIN v
  BY DEF Displayed, IsTree
<1>2. \A a, b \in Displayed(v) : NameOf(a) = NameOf(b) => Len(a) = Len(b)
  BY <1>1, SameNames
<1>3. 0 \in S
  BY <1>1, <1>2
<1>4. ASSUME NEW n \in S PROVE n + 1 \in S
  <2> SUFFICES ASSUME NEW a \in Displayed(v), NEW b \in Displayed(v),
                      Len(a) = n + 1, NameOf(a) = NameOf(b)
               PROVE  a = b
    OBVIOUS
  <2>1. n \in Nat /\ a # <<>> /\ b # <<>>
    BY <1>2
  <2>2. PICK c \in Displayed(v) : \E h \in Populated(v, c) : a = Child(v, c, h)
    BY <2>1, ParentDisplayed
  <2>3. PICK d \in Displayed(v) : \E h \in Populated(v, d) : b = Child(v, d, h)
    BY <2>1, ParentDisplayed
  <2>20. PICK f \in Populated(v, c) : a = Child(v, c, f)
    BY <2>2
  <2>30. PICK g \in Populated(v, d) : b = Child(v, d, g)
    BY <2>3
  <2>4. f \in FieldNames /\ g \in FieldNames /\ c \in DOMAIN v /\ d \in DOMAIN v
    BY <1>1 DEF Populated, Present
  <2>5. NameOf(c) = NameOf(d) /\ f = g
    BY <2>20, <2>30, <2>4, ChildNames
  <2>6. Len(c) = n
    BY <1>1, <2>1, <2>20, <2>4, ChildPath
  <2>7. c = d
    BY <1>4, <2>5, <2>6
  <2>. QED BY <2>20, <2>30, <2>5, <2>7
<1>5. S = Nat
  <2> HIDE DEF S
  <2>1. S \in SUBSET Nat
    BY DEF S
  <2>. QED BY <1>3, <1>4, <2>1, SetInduction
<1>. QED BY <1>1, <1>5

-----------------------------------------------------------------------------
(* Recursion: a function is defined by what it is at a point, given what it *)
(* is at points of a lower rank.                                            *)
Recursive(D, S, rank, n, F) ==
  /\ rank \in [D -> Nat] /\ n \in Nat /\ \A d \in D : rank[d] <= n
  /\ F \in [[D -> S] -> [D -> S]] /\ [D -> S] # {}
  /\ \A g, h \in [D -> S] : \A d \in D :
       (\A e \in D : rank[e] < rank[d] => g[e] = h[e]) => F[g][d] = F[h][d]

LEMMA Recursion ==
  ASSUME NEW D, NEW S, NEW rank, NEW n, NEW F, Recursive(D, S, rank, n, F)
  PROVE  \E g \in [D -> S] : g = F[g]
<1> USE DEF Recursive
<1> DEFINE T == {m \in Nat : \E g \in [D -> S] : \A d \in D : rank[d] < m => g[d] = F[g][d]}
<1>1. 0 \in T
  <2>1. PICK g : g \in [D -> S]
    OBVIOUS
  <2>2. \A d \in D : ~(rank[d] < 0)
    OBVIOUS
  <2>. QED BY <2>1, <2>2
<1>2. ASSUME NEW m \in T PROVE m + 1 \in T
  <2>1. m \in Nat
    OBVIOUS
  <2>2. PICK g \in [D -> S] : \A d \in D : rank[d] < m => g[d] = F[g][d]
    OBVIOUS
  <2>3. PICK h : h = F[g]
    OBVIOUS
  <2>4. h \in [D -> S]
    BY <2>3
  <2>5. ASSUME NEW d \in D, rank[d] < m + 1 PROVE h[d] = F[h][d]
    <3>1. \A e \in D : rank[e] < rank[d] => g[e] = h[e]
      <4>1. \A e \in D : rank[e] < rank[d] => rank[e] < m
        BY <2>1, <2>5
      <4>. QED BY <2>2, <2>3, <4>1
    <3>2. F[g][d] = F[h][d]
      BY <2>4, <3>1
    <3>. QED BY <2>3, <3>2
  <2>. QED BY <2>1, <2>4, <2>5
<1>3. T = Nat
  <2> HIDE DEF T
  <2>1. T \in SUBSET Nat
    BY DEF T
  <2>. QED BY <1>1, <1>2, <2>1, SetInduction
<1>4. n + 1 \in T
  <2> HIDE DEF T
  <2>. QED BY <1>3
<1>5. PICK g \in [D -> S] : \A d \in D : rank[d] < n + 1 => g[d] = F[g][d]
  BY <1>4
<1>6. \A d \in D : g[d] = F[g][d]
  <2>1. \A d \in D : rank[d] < n + 1
    OBVIOUS
  <2>. QED BY <1>5, <2>1
<1>7. F[g] \in [D -> S]
  OBVIOUS
<1>8. g = F[g]
  BY <1>5, <1>6, <1>7
<1>. QED BY <1>5, <1>8

LEMMA Greatest ==
  ASSUME NEW n \in Nat, NEW S \in SUBSET (1 .. n), S # {}
  PROVE  \E x \in S : \A y \in S : y <= x
<1> DEFINE T == {m \in Nat : \A R \in SUBSET (1 .. m) :
                               R # {} => \E x \in R : \A y \in R : y <= x}
<1>1. 0 \in T
  <2>1. 1 .. 0 = {}
    OBVIOUS
  <2>2. \A R \in SUBSET (1 .. 0) : R = {}
    BY <2>1
  <2>. QED BY <2>2
<1>2. ASSUME NEW m \in T PROVE m + 1 \in T
  <2> SUFFICES ASSUME NEW R \in SUBSET (1 .. m + 1), R # {}
               PROVE  \E x \in R : \A y \in R : y <= x
    OBVIOUS
  <2>1. CASE m + 1 \in R
    BY <2>1
  <2>2. CASE m + 1 \notin R
    <3>1. m \in Nat /\ R \in SUBSET (1 .. m)
      BY <2>2
    <3>. QED BY <3>1
  <2>. QED BY <2>1, <2>2
<1>3. T = Nat
  <2> HIDE DEF T
  <2>1. T \in SUBSET Nat
    BY DEF T
  <2>. QED BY <1>1, <1>2, <2>1, SetInduction
<1>. QED BY <1>3

LEMMA FiniteBounded ==
  ASSUME NEW L \in SUBSET Nat, IsFiniteSet(L)
  PROVE  \E n \in Nat : \A l \in L : l <= n
<1> DEFINE T == {m \in Nat : \A R \in SUBSET L :
                    Cardinality(R) = m => \E n \in Nat : \A l \in R : l <= n}
<1>0. \A R \in SUBSET L : IsFiniteSet(R)
  BY FS_Subset
<1>1. 0 \in T
  <2>1. \A R \in SUBSET L : Cardinality(R) = 0 => R = {}
    BY <1>0, FS_EmptySet
  <2>. QED BY <2>1
<1>2. ASSUME NEW m \in T PROVE m + 1 \in T
  <2>0. m \in Nat /\ m + 1 \in Nat /\ m + 1 # 0 /\ (m + 1) - 1 = m
    OBVIOUS
  <2>1. ASSUME NEW R \in SUBSET L, Cardinality(R) = m + 1
        PROVE  \E n \in Nat : \A l \in R : l <= n
    <3>1. IsFiniteSet(R) /\ R # {}
      BY <1>0, <2>0, <2>1, FS_EmptySet
    <3>2. PICK x \in R : TRUE
      BY <3>1
    <3>3. Cardinality(R \ {x}) = Cardinality(R) - 1
      BY <3>1, <3>2, FS_RemoveElement
    <3>4. Cardinality(R \ {x}) = m /\ R \ {x} \in SUBSET L
      BY <2>0, <2>1, <3>3
    <3>5. PICK n \in Nat : \A l \in R \ {x} : l <= n
      BY <3>4
    <3>6. x \in Nat
      OBVIOUS
    <3>7. CASE x <= n
      BY <3>5, <3>7
    <3>8. CASE n < x
      <4>1. \A l \in R : l <= x
        BY <3>5, <3>6, <3>8
      <4>. QED BY <3>6, <4>1
    <3>. QED BY <3>6, <3>7, <3>8
  <2>. QED BY <2>0, <2>1
<1>3. T = Nat
  <2> HIDE DEF T
  <2>1. T \in SUBSET Nat
    BY DEF T
  <2>. QED BY <1>1, <1>2, <2>1, SetInduction
<1>4. Cardinality(L) \in T
  <2> HIDE DEF T
  <2>. QED BY <1>3, FS_CardinalityType
<1>. QED BY <1>4

\* The height of what is below a path.
LEMMA PathsBounded ==
  ASSUME NEW v, IsTree(v)
  PROVE  \E n \in Nat : \A p \in DOMAIN v : Len(p) <= n
<1> DEFINE lens == [p \in DOMAIN v |-> Len(p)]
           L == {lens[p] : p \in DOMAIN v}
<1>1. IsFiniteSet(DOMAIN v) /\ DOMAIN v \subseteq Seq(Steps)
  BY DEF IsTree
<1>2. \A p \in DOMAIN v : Len(p) \in Nat
  BY <1>1
<1>3. IsFiniteSet(L)
  <2>1. lens \in Surjection(DOMAIN v, L)
    BY DEF Surjection
  <2>. QED BY <1>1, <2>1, FS_Surjection
<1>4. L \in SUBSET Nat
  BY <1>2
<1>5. PICK n \in Nat : \A l \in L : l <= n
  <2> HIDE DEF L
  <2>. QED BY <1>3, <1>4, FiniteBounded
<1>6. \A p \in DOMAIN v : Len(p) \in L
  OBVIOUS
<1>. QED BY <1>5, <1>6

-----------------------------------------------------------------------------
(* compareValues(), unfolded *)

Answers == {"match", "differs", "throws"}

Stops(v, p, k) == DOMAIN types[k] \ Populated(v, p)
Nested(k) == {f \in DOMAIN types[k] : Key(types[k][f]) \in DOMAIN types}
LastOf(k) == CHOOSE f \in Nested(k) : \A g \in Nested(k) : Rank(g) <= Rank(f)

\* The answer at a path and a type, given the answers below.
AnswerAt(v, p, k, answer) ==
  IF DOMAIN types[k] = {} THEN "match"
  ELSE IF IsEmptyList(v, p) THEN "throws"
  ELSE IF Cardinality(Present(v, p)) > Cardinality(DOMAIN types[k]) THEN "differs"
  ELSE IF \E f \in Nested(k) \ Stops(v, p, k) :
            /\ answer[Child(v, p, f)][Key(types[k][f])] = "throws"
            /\ \A g \in Stops(v, p, k) : Rank(f) < Rank(g) THEN "throws"
  ELSE IF Stops(v, p, k) # {} THEN "differs"
  ELSE IF Nested(k) = {} THEN "match"
  ELSE answer[Child(v, p, LastOf(k))][Key(types[k][LastOf(k)])]

Compared(v, answer) == [p \in DOMAIN v |-> [k \in DOMAIN types |-> AnswerAt(v, p, k, answer)]]

LEMMA CompareChosen ==
  ASSUME NEW v, NEW key
  PROVE  CompareValues(v, key) = (CHOOSE answer : answer = Compared(v, answer))[<<>>][key]
BY DEF CompareValues, Compared, AnswerAt, Stops, Nested, LastOf

\* What the wallet displays, unfolded in the same way.
DescribedAt(v, p, k, described) ==
  /\ DOMAIN types[k] = Populated(v, p)
  /\ \A f \in DOMAIN types[k] :
       IF IsNested(v, Child(v, p, f))
       THEN Key(types[k][f]) \in DOMAIN types /\ described[Child(v, p, f)][Key(types[k][f])]
       ELSE types[k][f].of = <<>> \/ IsEmptyList(v, Child(v, p, f))

Described(v, described) ==
  [p \in DOMAIN v |-> [k \in DOMAIN types |-> DescribedAt(v, p, k, described)]]

LEMMA DescribedChosen ==
  ASSUME NEW v, NEW key
  PROVE  DescribedBy(v, key) = (CHOOSE d : d = Described(v, d))[<<>>][key]
BY DEF DescribedBy, Described, DescribedAt

LEMMA RankOfField ==
  ASSUME NEW f \in FieldNames
  PROVE  Rank(f) \in 1 .. Len(Fields) /\ Fields[Rank(f)] = f
<1>1. DOMAIN Fields = 1 .. Len(Fields)
  BY AminoAssumption
<1>2. \E i \in DOMAIN Fields : Fields[i] = f
  BY DEF FieldNames
<1>. QED BY <1>1, <1>2 DEF Rank

\* The last structure of a type is there, and the answers asked for are in range.
LEMMA LastIsNested ==
  ASSUME NEW v, NEW p, NEW k, Stops(v, p, k) = {}, Nested(k) # {}
  PROVE  LastOf(k) \in Nested(k) \ Stops(v, p, k)
<1>1. Nested(k) \subseteq FieldNames
  BY DEF Stops, Nested, Populated, Present
<1>2. PICK ranks : ranks = {Rank(f) : f \in Nested(k)}
  OBVIOUS
<1>3. ranks \in SUBSET (1 .. Len(Fields)) /\ ranks # {} /\ Len(Fields) \in Nat
  BY <1>1, <1>2, RankOfField, AminoAssumption
<1>4. PICK x \in ranks : \A y \in ranks : y <= x
  BY <1>3, Greatest
<1>5. \E f \in Nested(k) : \A g \in Nested(k) : Rank(g) <= Rank(f)
  BY <1>2, <1>4
<1>. QED BY <1>5 DEF LastOf

LEMMA BelowInside ==
  ASSUME NEW v, IsTree(v), NEW p \in DOMAIN v, NEW k \in DOMAIN types,
         NEW f \in Nested(k) \ Stops(v, p, k)
  PROVE  /\ Child(v, p, f) \in DOMAIN v /\ Key(types[k][f]) \in DOMAIN types
         /\ Len(Child(v, p, f)) = Len(p) + 1
<1>1. f \in Populated(v, p) /\ Key(types[k][f]) \in DOMAIN types
  BY DEF Nested, Stops
<1>2. f \in FieldNames /\ Child(v, p, f) \in DOMAIN v
  BY <1>1 DEF Populated, Present
<1>. QED BY <1>1, <1>2, ChildPath

LEMMA AnswerInRange ==
  ASSUME NEW v, IsTree(v), NEW p \in DOMAIN v, NEW k \in DOMAIN types,
         NEW g \in [DOMAIN v -> [DOMAIN types -> Answers]]
  PROVE  AnswerAt(v, p, k, g) \in Answers
<1>1. ASSUME Stops(v, p, k) = {}, Nested(k) # {}
      PROVE g[Child(v, p, LastOf(k))][Key(types[k][LastOf(k)])] \in Answers
  <2>1. LastOf(k) \in Nested(k) \ Stops(v, p, k)
    BY <1>1, LastIsNested
  <2>2. PICK f : f = LastOf(k)
    OBVIOUS
  <2>3. Child(v, p, f) \in DOMAIN v /\ Key(types[k][f]) \in DOMAIN types
    BY <2>1, <2>2, BelowInside
  <2>. QED BY <2>2, <2>3
<1>2. "match" \in Answers /\ "differs" \in Answers /\ "throws" \in Answers
  BY DEF Answers
<1>. QED BY <1>1, <1>2 DEF AnswerAt

LEMMA AnswerFromBelow ==
  ASSUME NEW v, IsTree(v), NEW p \in DOMAIN v, NEW k \in DOMAIN types, NEW g, NEW h,
         \A q \in DOMAIN v : Len(q) = Len(p) + 1 => g[q] = h[q]
  PROVE  AnswerAt(v, p, k, g) = AnswerAt(v, p, k, h)
<1>1. ASSUME NEW f \in Nested(k) \ Stops(v, p, k)
      PROVE g[Child(v, p, f)][Key(types[k][f])] = h[Child(v, p, f)][Key(types[k][f])]
  BY BelowInside
<1>2. (\E f \in Nested(k) \ Stops(v, p, k) :
         /\ g[Child(v, p, f)][Key(types[k][f])] = "throws"
         /\ \A e \in Stops(v, p, k) : Rank(f) < Rank(e)) <=>
      (\E f \in Nested(k) \ Stops(v, p, k) :
         /\ h[Child(v, p, f)][Key(types[k][f])] = "throws"
         /\ \A e \in Stops(v, p, k) : Rank(f) < Rank(e))
  BY <1>1
<1>3. ASSUME Stops(v, p, k) = {}, Nested(k) # {}
      PROVE g[Child(v, p, LastOf(k))][Key(types[k][LastOf(k)])]
              = h[Child(v, p, LastOf(k))][Key(types[k][LastOf(k)])]
  BY <1>1, <1>3, LastIsNested
<1>. QED BY <1>2, <1>3 DEF AnswerAt

LEMMA CompareUnfolds ==
  ASSUME NEW v, IsTree(v)
  PROVE  \E answer :
           /\ \A key : CompareValues(v, key) = answer[<<>>][key]
           /\ \A p \in DOMAIN v, k \in DOMAIN types :
                answer[p][k] = AnswerAt(v, p, k, answer)
<1>1. PICK n \in Nat : \A p \in DOMAIN v : Len(p) <= n
  BY PathsBounded
<1>2. \A p \in DOMAIN v : Len(p) \in Nat
  BY DEF IsTree
<1> DEFINE D == DOMAIN v
           S == [DOMAIN types -> Answers]
           rank == [p \in D |-> n - Len(p)]
           F == [g \in [D -> S] |-> Compared(v, g)]
<1>3. rank \in [D -> Nat] /\ \A p \in D : rank[p] <= n
  BY <1>1, <1>2
<1>4. ASSUME NEW g \in [D -> S] PROVE Compared(v, g) \in [D -> S]
  BY AnswerInRange DEF Compared
<1>5. F \in [[D -> S] -> [D -> S]]
  BY <1>4
<1>6. [D -> S] # {}
  <2>1. [p \in D |-> [k \in DOMAIN types |-> "match"]] \in [D -> S]
    BY DEF Answers
  <2>. QED BY <2>1
<1>7. ASSUME NEW g \in [D -> S], NEW h \in [D -> S], NEW p \in D,
             \A q \in D : rank[q] < rank[p] => g[q] = h[q]
      PROVE  F[g][p] = F[h][p]
  <2>1. ASSUME NEW q \in D, Len(q) = Len(p) + 1 PROVE g[q] = h[q]
    <3>1. rank[q] < rank[p]
      BY <1>2, <2>1
    <3>. QED BY <1>7, <3>1
  <2>2. ASSUME NEW k \in DOMAIN types PROVE AnswerAt(v, p, k, g) = AnswerAt(v, p, k, h)
    BY <2>1, AnswerFromBelow
  <2>3. Compared(v, g)[p] = Compared(v, h)[p]
    BY <2>2 DEF Compared
  <2>. QED BY <2>3
<1>8. \E g \in [D -> S] : g = F[g]
  <2> HIDE DEF D, S, rank, F
  <2>1. \A g, h \in [D -> S] : \A p \in D :
          (\A q \in D : rank[q] < rank[p] => g[q] = h[q]) => F[g][p] = F[h][p]
    BY <1>7
  <2>2. n \in Nat
    OBVIOUS
  <2>3. rank \in [D -> Nat] /\ (\A p \in D : rank[p] <= n)
    BY <1>3
  <2>4. Recursive(D, S, rank, n, F)
    BY <1>5, <1>6, <2>1, <2>2, <2>3 DEF Recursive
  <2>. QED BY <2>4, Recursion
<1>9. \E g : g = Compared(v, g)
  BY <1>8
<1>10. PICK answer : answer = CHOOSE g : g = Compared(v, g)
  OBVIOUS
<1>11. answer = Compared(v, answer)
  BY <1>9, <1>10
<1>12. \A key : CompareValues(v, key) = answer[<<>>][key]
  BY <1>10, CompareChosen
<1>13. Compared(v, answer)
         = [p \in DOMAIN v |-> [k \in DOMAIN types |-> AnswerAt(v, p, k, answer)]]
  BY DEF Compared
<1>14. \A p \in DOMAIN v, k \in DOMAIN types : answer[p][k] = AnswerAt(v, p, k, answer)
  BY <1>11, <1>13
<1>. QED BY <1>12, <1>14

LEMMA DescribedFromBelow ==
  ASSUME NEW v, IsTree(v), NEW p \in DOMAIN v, NEW k \in DOMAIN types, NEW g, NEW h,
         \A q \in DOMAIN v : Len(q) = Len(p) + 1 => g[q] = h[q]
  PROVE  DescribedAt(v, p, k, g) = DescribedAt(v, p, k, h)
<1>1. CASE DOMAIN types[k] # Populated(v, p)
  BY <1>1, Zenon DEF DescribedAt
<1>2. CASE DOMAIN types[k] = Populated(v, p)
  <2>1. ASSUME NEW f \in DOMAIN types[k] PROVE g[Child(v, p, f)] = h[Child(v, p, f)]
    <3>1. f \in FieldNames /\ Child(v, p, f) \in DOMAIN v
      BY <1>2 DEF Populated, Present
    <3>2. Len(Child(v, p, f)) = Len(p) + 1
      BY <3>1, ChildPath
    <3>. QED BY <3>1, <3>2
  <2>2. DescribedAt(v, p, k, g) <=> DescribedAt(v, p, k, h)
    BY <2>1, Zenon DEF DescribedAt
  <2>. QED BY <2>2, Zenon DEF DescribedAt
<1>. QED BY <1>1, <1>2

LEMMA DescribedUnfolds ==
  ASSUME NEW v, IsTree(v)
  PROVE  \E d :
           /\ \A key : DescribedBy(v, key) = d[<<>>][key]
           /\ \A p \in DOMAIN v, k \in DOMAIN types : d[p][k] = DescribedAt(v, p, k, d)
<1>1. PICK n \in Nat : \A p \in DOMAIN v : Len(p) <= n
  BY PathsBounded
<1>2. \A p \in DOMAIN v : Len(p) \in Nat
  BY DEF IsTree
<1> DEFINE D == DOMAIN v
           S == [DOMAIN types -> BOOLEAN]
           rank == [p \in D |-> n - Len(p)]
           F == [g \in [D -> S] |-> Described(v, g)]
<1>3. rank \in [D -> Nat] /\ \A p \in D : rank[p] <= n
  BY <1>1, <1>2
<1>4. ASSUME NEW g \in [D -> S] PROVE Described(v, g) \in [D -> S]
  <2>1. \A p \in DOMAIN v, k \in DOMAIN types : DescribedAt(v, p, k, g) \in BOOLEAN
    BY Zenon DEF DescribedAt
  <2>. QED BY <2>1, Zenon DEF Described
<1>5. F \in [[D -> S] -> [D -> S]]
  BY <1>4, Zenon
<1>6. [D -> S] # {}
  <2>1. [p \in D |-> [k \in DOMAIN types |-> TRUE]] \in [D -> S]
    BY Zenon
  <2>. QED BY <2>1
<1>7. ASSUME NEW g \in [D -> S], NEW h \in [D -> S], NEW p \in D,
             \A q \in D : rank[q] < rank[p] => g[q] = h[q]
      PROVE  F[g][p] = F[h][p]
  <2>1. ASSUME NEW q \in D, Len(q) = Len(p) + 1 PROVE g[q] = h[q]
    <3>1. rank[q] < rank[p]
      BY <1>2, <2>1
    <3>. QED BY <1>7, <3>1
  <2>2. ASSUME NEW k \in DOMAIN types PROVE DescribedAt(v, p, k, g) = DescribedAt(v, p, k, h)
    BY <2>1, DescribedFromBelow
  <2>3. Described(v, g)[p] = Described(v, h)[p]
    BY <2>2, Zenon DEF Described
  <2>4. F[g] = Described(v, g) /\ F[h] = Described(v, h)
    BY Zenon
  <2>. QED BY <2>3, <2>4
<1>8. \E g \in [D -> S] : g = F[g]
  <2> HIDE DEF D, S, rank, F
  <2>1. \A g, h \in [D -> S] : \A p \in D :
          (\A q \in D : rank[q] < rank[p] => g[q] = h[q]) => F[g][p] = F[h][p]
    BY <1>7
  <2>2. n \in Nat
    OBVIOUS
  <2>3. rank \in [D -> Nat] /\ (\A p \in D : rank[p] <= n)
    BY <1>3
  <2>4. Recursive(D, S, rank, n, F)
    BY <1>5, <1>6, <2>1, <2>2, <2>3 DEF Recursive
  <2>. QED BY <2>4, Recursion
<1>9. \E g : g = Described(v, g)
  <2>1. PICK g \in [D -> S] : g = F[g]
    BY <1>8
  <2>2. F[g] = Described(v, g)
    BY Zenon
  <2>. QED BY <2>1, <2>2
<1>10. PICK d : d = CHOOSE g : g = Described(v, g)
  OBVIOUS
<1>11. d = Described(v, d)
  BY <1>9, <1>10
<1>12. \A key : DescribedBy(v, key) = d[<<>>][key]
  BY <1>10, DescribedChosen
<1>13. Described(v, d)
         = [p \in DOMAIN v |-> [k \in DOMAIN types |-> DescribedAt(v, p, k, d)]]
  BY DEF Described
<1>14. ASSUME NEW p \in DOMAIN v, NEW k \in DOMAIN types PROVE d[p][k] = DescribedAt(v, p, k, d)
  <2>1. Described(v, d)[p] = [l \in DOMAIN types |-> DescribedAt(v, p, l, d)]
    BY <1>13, Zenon
  <2>2. d[p] = Described(v, d)[p]
    BY <1>11, Zenon
  <2>. QED BY <2>1, <2>2, Zenon
<1>. QED BY <1>12, <1>14

-----------------------------------------------------------------------------
(* A value and the types of its structures *)

\* Every structure of the value has a type, which describes its fields.
TypesOf(defs, as, v, key) ==
  /\ as \in [Displayed(v) -> DOMAIN defs] /\ as[<<>>] = key
  /\ \A p \in Displayed(v) :
       /\ DOMAIN defs[as[p]] = Populated(v, p)
       /\ \A f \in Populated(v, p) :
            IF IsNested(v, Child(v, p, f)) THEN Key(defs[as[p]][f]) = as[Child(v, p, f)]
            ELSE defs[as[p]][f].of = <<>>

SameKinds(v, w) ==
  \A p \in DOMAIN v, q \in DOMAIN w :
    NameOf(p) = NameOf(q) /\ ~Falsy(v[p]) /\ ~Falsy(w[q]) => (IsLeaf(v[p]) <=> IsLeaf(w[q]))

LEMMA TypedIsDescribed ==
  ASSUME NEW v, IsTree(v), NEW key, NEW as, TypesOf(types, as, v, key)
  PROVE  DescribedBy(v, key)
<1>1. PICK d :
        /\ \A k : DescribedBy(v, k) = d[<<>>][k]
        /\ \A p \in DOMAIN v, k \in DOMAIN types : d[p][k] = DescribedAt(v, p, k, d)
  BY DescribedUnfolds
<1>2. PICK n \in Nat : \A p \in DOMAIN v : Len(p) <= n
  BY PathsBounded
<1>3. \A p \in Displayed(v) : p \in DOMAIN v /\ Len(p) \in Nat
  BY DEF Displayed, IsTree
<1>4. \A p \in Displayed(v) : as[p] \in DOMAIN types
  BY DEF TypesOf
<1> DEFINE T == {m \in Nat : \A p \in Displayed(v) : n - Len(p) < m => d[p][as[p]] = TRUE}
<1>5. 0 \in T
  <2>1. \A p \in Displayed(v) : ~(n - Len(p) < 0)
    BY <1>2, <1>3
  <2>. QED BY <2>1
<1>6. ASSUME NEW m \in T PROVE m + 1 \in T
  <2> SUFFICES ASSUME NEW p \in Displayed(v), n - Len(p) < m + 1 PROVE d[p][as[p]] = TRUE
    <3>1. m + 1 \in Nat
      OBVIOUS
    <3>. QED BY <3>1
  <2>1. PICK k : k = as[p]
    OBVIOUS
  <2>2. DOMAIN types[k] = Populated(v, p)
    BY <2>1 DEF TypesOf
  <2>3. ASSUME NEW f \in DOMAIN types[k], IsNested(v, Child(v, p, f))
        PROVE  Key(types[k][f]) \in DOMAIN types /\ d[Child(v, p, f)][Key(types[k][f])]
    <3>1. f \in Populated(v, p) /\ f \in Present(v, p) /\ f \in FieldNames /\ p \in DOMAIN v
      BY <1>3, <2>2 DEF Populated, Present
    <3>2. PICK c : c = Child(v, p, f)
      OBVIOUS
    <3>3. c \in Displayed(v) /\ Len(c) = Len(p) + 1
      BY <2>3, <3>1, <3>2, ChildDisplayed, ChildPath
    <3>4. Key(types[k][f]) = as[c]
      BY <2>1, <2>3, <3>1, <3>2 DEF TypesOf
    <3>5. n - Len(c) < m /\ m \in Nat
      BY <1>3, <3>3
    <3>6. d[c][as[c]] = TRUE
      BY <3>3, <3>5
    <3>7. as[c] \in DOMAIN types
      BY <1>4, <3>3
    <3>. QED BY <3>2, <3>4, <3>6, <3>7, Zenon
  <2>4. ASSUME NEW f \in DOMAIN types[k], ~IsNested(v, Child(v, p, f))
        PROVE  types[k][f].of = <<>>
    BY <2>1, <2>2, <2>4 DEF TypesOf
  <2>5. DescribedAt(v, p, k, d)
    BY <2>2, <2>3, <2>4, Zenon DEF DescribedAt
  <2>6. d[p][k] = DescribedAt(v, p, k, d)
    BY <1>1, <1>3, <1>4, <2>1
  <2>7. DescribedAt(v, p, k, d) = TRUE
    BY <2>5, Zenon DEF DescribedAt
  <2>. QED BY <2>1, <2>6, <2>7
<1>7. T = Nat
  <2> HIDE DEF T
  <2>1. T \in SUBSET Nat
    BY DEF T
  <2>. QED BY <1>5, <1>6, <2>1, SetInduction
<1>8. <<>> \in Displayed(v) /\ as[<<>>] = key
  BY RootDisplayed DEF TypesOf
<1>9. n + 1 \in T
  <2> HIDE DEF T
  <2>. QED BY <1>7
<1>10. d[<<>>][key] = TRUE
  <2>1. n - Len(<<>>) < n + 1
    OBVIOUS
  <2>. QED BY <1>8, <1>9, <2>1
<1>. QED BY <1>1, <1>10

LEMMA FieldsFinite == IsFiniteSet(FieldNames)
<1> DEFINE f == [i \in 1 .. Len(Fields) |-> Fields[i]]
<1>1. DOMAIN Fields = 1 .. Len(Fields) /\ Len(Fields) \in Nat
  BY AminoAssumption
<1>2. f \in Surjection(1 .. Len(Fields), FieldNames)
  BY <1>1 DEF FieldNames, Surjection
<1>3. IsFiniteSet(1 .. Len(Fields))
  BY <1>1, FS_Interval
<1> HIDE DEF f
<1>. QED BY <1>2, <1>3, FS_Surjection

\* No definition has the name of a primitive type.
TypesNamed == \A k \in DOMAIN types : k.of # <<>>

Matches(answer) == answer \notin {"differs", "throws"}

\* Where compareValues() finds the fields of a plain value to match a type made
\* for another plain value, both have the same fields, and the structure among
\* them matches as well.
LEMMA MatchedFields ==
  ASSUME NEW v, IsTree(v), NEW w, IsTree(w), Plain(v), Plain(w), SameKinds(v, w), TypesNamed,
         NEW key, NEW as, TypesOf(types, as, w, key), NEW answer,
         NEW p \in Displayed(v), NEW q \in Displayed(w), NameOf(p) = NameOf(q),
         answer[p][as[q]] = AnswerAt(v, p, as[q], answer), Matches(answer[p][as[q]])
  PROVE  /\ Populated(v, p) = Populated(w, q) /\ Present(v, p) = Populated(v, p)
         /\ \A f \in Populated(v, p) :
              /\ IsNested(v, Child(v, p, f)) <=> IsNested(w, Child(w, q, f))
              /\ IsNested(w, Child(w, q, f)) =>
                   Matches(answer[Child(v, p, f)][as[Child(w, q, f)]])
<1> DEFINE k == as[q]
<1>1. k \in DOMAIN types /\ DOMAIN types[k] = Populated(w, q) /\ Populated(w, q) # {}
  BY DEF TypesOf, Plain
<1>2. p \in DOMAIN v /\ q \in DOMAIN w /\ IsNested(v, p)
  BY DEF Displayed
<1> HIDE DEF k
<1>3. /\ ~IsEmptyList(v, p)
      /\ ~(Cardinality(Present(v, p)) > Cardinality(DOMAIN types[k]))
      /\ Stops(v, p, k) = {}
      /\ Nested(k) # {} =>
           Matches(answer[Child(v, p, LastOf(k))][Key(types[k][LastOf(k)])])
  <2>1. Matches(AnswerAt(v, p, k, answer))
    BY DEF k
  <2>. QED BY <1>1, <2>1 DEF AnswerAt, Matches
<1>4. Populated(w, q) \subseteq Populated(v, p) /\ Populated(v, p) \subseteq Present(v, p)
  BY <1>1, <1>3 DEF Stops, Populated
<1>5. Populated(w, q) = Present(v, p)
  <2>1. IsFiniteSet(Present(v, p))
    BY FieldsFinite, FS_Subset DEF Present
  <2>2. Populated(w, q) \in SUBSET Present(v, p)
    BY <1>4
  <2>3. /\ Cardinality(Populated(w, q)) \in Nat /\ Cardinality(Present(v, p)) \in Nat
        /\ Cardinality(Populated(w, q)) <= Cardinality(Present(v, p))
    BY <2>1, <2>2, FS_Subset, FS_CardinalityType
  <2>4. Cardinality(Populated(w, q)) = Cardinality(Present(v, p))
    BY <1>1, <1>3, <2>3
  <2>. QED BY <2>1, <2>2, <2>4, FS_Subset
<1>6. Populated(v, p) = Populated(w, q) /\ Present(v, p) = Populated(v, p)
  BY <1>4, <1>5
<1>7. ASSUME NEW f \in Populated(v, p)
      PROVE  /\ f \in FieldNames /\ f \in Present(v, p) /\ f \in Present(w, q)
             /\ IsNested(v, Child(v, p, f)) <=> IsNested(w, Child(w, q, f))
             /\ IsNested(v, Child(v, p, f)) <=> ~IsLeaf(v[Child(v, p, f)])
  <2> DEFINE c == Child(v, p, f)
             d == Child(w, q, f)
  <2>1. /\ f \in FieldNames /\ f \in Present(v, p) /\ f \in Present(w, q)
        /\ c \in DOMAIN v /\ d \in DOMAIN w /\ ~Falsy(v[c]) /\ ~Falsy(w[d])
    BY <1>6 DEF Populated, Present
  <2>2. NameOf(c) = NameOf(d)
    BY <1>2, <2>1, ChildNames
  <2>3. ~IsLeaf(v[c]) => IsNested(v, c)
    BY <2>1, Zenon DEF Plain
  <2>4. ~IsLeaf(w[d]) => IsNested(w, d)
    BY <2>1, Zenon DEF Plain
  <2>5. IsLeaf(v[c]) <=> IsLeaf(w[d])
    <3> HIDE DEF c, d
    <3>. QED BY <2>1, <2>2 DEF SameKinds
  <2>6. IsNested(v, c) => ~IsLeaf(v[c])
    BY Zenon DEF IsNested
  <2>7. IsNested(w, d) => ~IsLeaf(w[d])
    BY Zenon DEF IsNested
  <2> HIDE DEF c, d
  <2>8. (IsNested(v, c) <=> IsNested(w, d)) /\ (IsNested(v, c) <=> ~IsLeaf(v[c]))
    BY <2>3, <2>4, <2>5, <2>6, <2>7, Zenon
  <2>. QED BY <2>1, <2>8 DEF c, d
<1>8. ASSUME NEW f \in Populated(v, p), IsNested(w, Child(w, q, f))
      PROVE  Matches(answer[Child(v, p, f)][as[Child(w, q, f)]])
  <2>1. /\ Child(w, q, f) \in Displayed(w) /\ f \in Populated(w, q) /\ f \in Present(w, q)
        /\ ~IsLeaf(w[Child(w, q, f)])
    BY <1>6, <1>7, <1>8, ChildDisplayed DEF IsNested
  <2>2. Key(types[k][f]) = as[Child(w, q, f)]
    BY <1>8, <2>1 DEF TypesOf, k
  <2>3. as[Child(w, q, f)] \in DOMAIN types
    BY <2>1 DEF TypesOf
  <2>4. f \in Nested(k)
    BY <1>1, <2>1, <2>2, <2>3 DEF Nested
  <2>5. ASSUME NEW g \in Nested(k) PROVE g = f
    <3>1. g \in Populated(w, q) /\ Key(types[k][g]) \in DOMAIN types
      BY <1>1 DEF Nested
    <3>2. types[k][g].of # <<>>
      BY <3>1 DEF TypesNamed, Key
    <3>3. IsNested(w, Child(w, q, g))
      BY <3>1, <3>2 DEF TypesOf, k
    <3>4. g \in Present(w, q) /\ ~IsLeaf(w[Child(w, q, g)])
      BY <3>1, <3>3 DEF Populated, IsNested
    <3>. QED BY <2>1, <3>4, Zenon DEF Plain
  <2>6. LastOf(k) = f
    <3>1. LastOf(k) \in Nested(k)
      BY <1>3, <2>4, LastIsNested
    <3>. QED BY <2>5, <3>1
  <2>. QED BY <1>3, <2>2, <2>4, <2>6
<1>. QED BY <1>6, <1>7, <1>8

\* A type compareValues() finds to match describes the value.
LEMMA MatchedIsTyped ==
  ASSUME NEW v, IsTree(v), NEW w, IsTree(w), Plain(v), Plain(w), SameKinds(v, w), TypesNamed,
         NEW key, NEW as, TypesOf(types, as, w, key), Matches(CompareValues(v, key))
  PROVE  \E at : TypesOf(types, at, v, key)
<1>1. PICK answer :
        /\ \A k : CompareValues(v, k) = answer[<<>>][k]
        /\ \A p \in DOMAIN v, k \in DOMAIN types : answer[p][k] = AnswerAt(v, p, k, answer)
  BY CompareUnfolds
<1>2. \A p \in Displayed(v) : p \in DOMAIN v /\ p \in Seq(Steps) /\ Len(p) \in Nat
  BY DEF Displayed, IsTree
<1>3. \A q \in Displayed(w) : as[q] \in DOMAIN types
  BY DEF TypesOf
<1> DEFINE Meets(p, q) == NameOf(p) = NameOf(q) /\ Matches(answer[p][as[q]])
<1>4. ASSUME NEW p \in Displayed(v), NEW q \in Displayed(w), Meets(p, q)
      PROVE  /\ Populated(v, p) = Populated(w, q)
             /\ \A f \in Populated(v, p) :
                  /\ IsNested(v, Child(v, p, f)) <=> IsNested(w, Child(w, q, f))
                  /\ IsNested(w, Child(w, q, f)) =>
                       Matches(answer[Child(v, p, f)][as[Child(w, q, f)]])
  <2>1. answer[p][as[q]] = AnswerAt(v, p, as[q], answer)
    BY <1>1, <1>2, <1>3
  <2>. QED BY <1>4, <2>1, MatchedFields
<1>5. ASSUME NEW p \in Displayed(v), NEW q \in Displayed(w), Meets(p, q),
             NEW f \in Populated(v, p), IsNested(v, Child(v, p, f))
      PROVE  /\ Child(w, q, f) \in Displayed(w) /\ Child(v, p, f) \in Displayed(v)
             /\ Meets(Child(v, p, f), Child(w, q, f))
  <2>1. f \in Populated(w, q) /\ IsNested(w, Child(w, q, f))
    BY <1>4, <1>5
  <2>2. f \in Present(v, p) /\ f \in Present(w, q) /\ f \in FieldNames
    BY <2>1 DEF Populated, Present
  <2>3. Child(w, q, f) \in Displayed(w) /\ Child(v, p, f) \in Displayed(v)
    BY <1>5, <2>1, <2>2, ChildDisplayed
  <2>4. p \in DOMAIN v /\ q \in DOMAIN w
    BY DEF Displayed
  <2>5. NameOf(Child(v, p, f)) = NameOf(Child(w, q, f))
    BY <1>5, <2>2, <2>4, ChildNames
  <2>6. Matches(answer[Child(v, p, f)][as[Child(w, q, f)]])
    BY <1>4, <1>5, <2>1
  <2>. QED BY <2>3, <2>5, <2>6
<1> DEFINE T == {m \in Nat : \A p \in Displayed(v) :
                    Len(p) = m => \E q \in Displayed(w) : Meets(p, q)}
<1>6. 0 \in T
  <2>1. <<>> \in Displayed(w) /\ as[<<>>] = key
    BY RootDisplayed DEF TypesOf
  <2>2. Meets(<<>>, <<>>)
    BY <1>1, <2>1
  <2>3. \A p \in Displayed(v) : Len(p) = 0 => p = <<>>
    BY <1>2
  <2> HIDE DEF Meets
  <2>. QED BY <2>1, <2>2, <2>3
<1>7. ASSUME NEW m \in T PROVE m + 1 \in T
  <2> HIDE DEF Meets
  <2>1. ASSUME NEW p \in Displayed(v), Len(p) = m + 1
        PROVE \E q \in Displayed(w) : Meets(p, q)
    <3>1. m \in Nat /\ p # <<>>
      BY <2>1
    <3>2. PICK c \in Displayed(v) : \E f \in Populated(v, c) : p = Child(v, c, f)
      BY <3>1, ParentDisplayed
    <3>3. PICK f \in Populated(v, c) : p = Child(v, c, f)
      BY <3>2
    <3>4. f \in FieldNames
      BY DEF Populated, Present
    <3>5. Len(c) = m
      <4>1. Len(p) = Len(c) + 1
        BY <1>2, <3>3, <3>4, ChildPath
      <4>. QED BY <1>2, <2>1, <3>1, <4>1
    <3>6. PICK q \in Displayed(w) : Meets(c, q)
      BY <3>5
    <3>7. IsNested(v, p)
      BY DEF Displayed
    <3>. QED BY <1>5, <3>3, <3>6, <3>7
  <2>2. m + 1 \in Nat
    OBVIOUS
  <2>. QED BY <2>1, <2>2
<1>8. T = Nat
  <2> HIDE DEF T
  <2>1. T \in SUBSET Nat
    BY DEF T
  <2>. QED BY <1>6, <1>7, <2>1, SetInduction
<1>9. \A p \in Displayed(v) : \E q \in Displayed(w) : Meets(p, q)
  <2> HIDE DEF Meets
  <2>. QED BY <1>2, <1>8
<1> DEFINE twin == [p \in Displayed(v) |-> CHOOSE q \in Displayed(w) : Meets(p, q)]
           at == [p \in Displayed(v) |-> as[twin[p]]]
<1>10. ASSUME NEW p \in Displayed(v)
       PROVE  twin[p] \in Displayed(w) /\ Meets(p, twin[p]) /\ at[p] = as[twin[p]]
  <2> HIDE DEF Meets
  <2>. QED BY <1>9
\* A structure of the one has one of that name in the other, and no more.
<1>11. ASSUME NEW p \in Displayed(v), NEW q \in Displayed(w), Meets(p, q) PROVE twin[p] = q
  <2>1. NameOf(twin[p]) = NameOf(q) /\ twin[p] \in Displayed(w)
    BY <1>10, <1>11
  <2> HIDE DEF twin
  <2>. QED BY <2>1, NamesDiffer
<1> HIDE DEF Meets, twin
<1>12. at \in [Displayed(v) -> DOMAIN types]
  BY <1>3, <1>10
<1>13. <<>> \in Displayed(v) /\ at[<<>>] = key
  <2>1. <<>> \in Displayed(w) /\ as[<<>>] = key /\ <<>> \in Displayed(v)
    BY RootDisplayed DEF TypesOf
  <2>2. Meets(<<>>, <<>>)
    BY <1>1, <2>1 DEF Meets
  <2>3. twin[<<>>] = <<>>
    BY <1>11, <2>1, <2>2
  <2>. QED BY <1>10, <2>1, <2>3
<1>14. ASSUME NEW p \in Displayed(v)
       PROVE /\ DOMAIN types[at[p]] = Populated(v, p)
             /\ \A f \in Populated(v, p) :
                  IF IsNested(v, Child(v, p, f)) THEN Key(types[at[p]][f]) = at[Child(v, p, f)]
                  ELSE types[at[p]][f].of = <<>>
  <2>1. PICK q \in Displayed(w) : q = twin[p] /\ Meets(p, q) /\ at[p] = as[q]
    BY <1>10
  <2> HIDE DEF at
  <2>2. /\ Populated(v, p) = Populated(w, q)
        /\ \A f \in Populated(v, p) :
             IsNested(v, Child(v, p, f)) <=> IsNested(w, Child(w, q, f))
    BY <1>4, <2>1
  <2>3. DOMAIN types[at[p]] = Populated(v, p)
    BY <2>1, <2>2 DEF TypesOf
  <2>4. ASSUME NEW f \in Populated(v, p), IsNested(v, Child(v, p, f))
        PROVE  Key(types[at[p]][f]) = at[Child(v, p, f)]
    <3>1. PICK c : c = Child(v, p, f)
      OBVIOUS
    <3>2. PICK d : d = Child(w, q, f)
      OBVIOUS
    <3>3. d \in Displayed(w) /\ c \in Displayed(v) /\ Meets(c, d)
      BY <1>5, <2>1, <2>4, <3>1, <3>2
    <3>4. at[c] = as[d]
      BY <1>10, <1>11, <3>3
    <3>5. Key(types[as[q]][f]) = as[d]
      BY <2>2, <2>4, <3>2 DEF TypesOf
    <3>. QED BY <2>1, <3>1, <3>4, <3>5
  <2>5. ASSUME NEW f \in Populated(v, p), ~IsNested(v, Child(v, p, f))
        PROVE  types[at[p]][f].of = <<>>
    BY <2>1, <2>2, <2>5 DEF TypesOf
  <2>. QED BY <2>3, <2>4, <2>5
<1> HIDE DEF at
<1>15. TypesOf(types, at, v, key)
  BY <1>12, <1>13, <1>14 DEF TypesOf
<1>. QED BY <1>15

-----------------------------------------------------------------------------
(* Values in amino *)

LEMMA ToAminoKinds ==
  ASSUME NEW x
  PROVE  LET y == ToAminoParam(x) IN
         /\ y = ItemList <=> x = ItemList
         /\ y = Structure <=> x = Structure
         /\ y \in {Missing, Null} => x \in {Missing, Null, ZeroDec}
         /\ y = Missing <=> x = Missing
         /\ Falsy(y) <=> Zero(x)
         /\ y # ZeroDec /\ y # Date /\ y.kind # "duration"
<1>1. /\ \A n : Nanos(n).kind = "nanos" /\ Fraction.kind = "fraction"
      /\ Structure.kind = "structure" /\ ItemList.kind = "list" /\ Empty.kind = "empty"
      /\ Missing.kind = "missing" /\ ZeroDec.kind = "zeroDec" /\ Null.kind = "null"
      /\ Date.kind = "date" /\ DateText.kind = "dateText"
  BY DEF Nanos, Fraction, Structure, ItemList, Empty, Missing, ZeroDec, Null, Date, DateText, Node
<1>2. \A n : Shifted(n).kind \in {"nanos", "fraction"}
  BY <1>1 DEF Shifted
<1>3. CASE x = ZeroDec
  BY <1>1, <1>3 DEF ToAminoParam, Falsy, Zero
<1>4. CASE x = Date
  BY <1>1, <1>4 DEF ToAminoParam, Falsy, Zero
<1>5. CASE x # ZeroDec /\ x # Date /\ x.kind = "duration"
  <2>1. ToAminoParam(x) = Shifted(x.number)
    BY <1>5 DEF ToAminoParam
  <2>. QED BY <1>1, <1>2, <1>5, <2>1 DEF Falsy, Zero
<1>6. CASE x # ZeroDec /\ x # Date /\ x.kind # "duration"
  <2>1. ToAminoParam(x) = x
    BY <1>6 DEF ToAminoParam
  <2>. QED BY <1>1, <1>6, <2>1 DEF Falsy, Zero
<1>. QED BY <1>3, <1>4, <1>5, <1>6

LEMMA ToAminoTyped ==
  ASSUME NEW x, x \in Nodes \cup Numbers(x.number), x.number \in Nat
  PROVE  LET y == ToAminoParam(x) IN y \in Nodes \cup Numbers(y.number) /\ y.number \in Nat
<1>1. CASE x = ZeroDec
  <2>1. ToAminoParam(x) = Null
    BY <1>1 DEF ToAminoParam, ZeroDec, Date, Node
  <2>. QED BY <2>1 DEF Nodes, Null, Node
<1>2. CASE x = Date
  <2>1. ToAminoParam(x) = DateText
    BY <1>2 DEF ToAminoParam, Date, ZeroDec, Node
  <2>. QED BY <2>1 DEF Nodes, DateText, Node
<1>3. CASE x # ZeroDec /\ x # Date /\ x.kind = "duration"
  <2>1. ToAminoParam(x) = Shifted(x.number)
    BY <1>3 DEF ToAminoParam
  <2>2. PICK n : n = (x.number \div Second) * Second + (x.number % Second) \div Millisecond
    OBVIOUS
  <2>3. n \in Nat
    BY <2>2 DEF Second, Millisecond
  <2>4. ToAminoParam(x) \in {Fraction, Nanos(n)}
    BY <2>1, <2>2 DEF Shifted
  <2>5. /\ Fraction \in Nodes /\ Fraction.number \in Nat
        /\ Nanos(n).number = n /\ Nanos(n) \in Numbers(n)
    BY DEF Nodes, Fraction, Node, Nanos, Numbers
  <2>. QED BY <2>3, <2>4, <2>5
<1>4. CASE x # ZeroDec /\ x # Date /\ x.kind # "duration"
  <2>1. ToAminoParam(x) = x
    BY <1>4 DEF ToAminoParam
  <2>. QED BY <2>1
<1>. QED BY <1>1, <1>2, <1>3, <1>4

LEMMA AminoNodes ==
  ASSUME NEW v, IsTree(v)
  PROVE  LET w == ToAmino(v) IN
         /\ DOMAIN w = {p \in DOMAIN v : Len(p) = 1 => ~Zero(v[p])}
         /\ w = [p \in DOMAIN w |-> w[p]]
         /\ \A p \in DOMAIN w : w[p] = ToAminoParam(v[p])
<1> DEFINE K == {p \in DOMAIN v : Len(p) = 1 => ~Zero(v[p])}
           u == [p \in K |-> v[p]]
<1>1. ToAmino(v) = MapEachIndiv(u, TRUE)
  BY Zenon DEF ToAmino
<1>2. DOMAIN u = K /\ \A p \in K : u[p] = v[p]
  OBVIOUS
<1> HIDE DEF u
<1>3. ToAmino(v) = [p \in K |-> ParamConverter(u[p], TRUE)]
  BY <1>1, <1>2 DEF MapEachIndiv
<1>4. \A p \in K : ParamConverter(u[p], TRUE) = ToAminoParam(v[p])
  BY <1>2 DEF ParamConverter
<1>. QED BY <1>3, <1>4

LEMMA AminoKinds ==
  ASSUME NEW v, IsTree(v), NEW p \in DOMAIN ToAmino(v)
  PROVE  LET w == ToAmino(v) IN
         /\ p \in DOMAIN v
         /\ w[p] = ItemList <=> v[p] = ItemList
         /\ w[p] = Structure <=> v[p] = Structure
         /\ IsLeaf(w[p]) <=> IsLeaf(v[p])
         /\ ~Falsy(w[p]) => ~Zero(v[p])
         /\ w[p] # ZeroDec /\ w[p] # Date
<1>1. p \in DOMAIN v /\ ToAmino(v)[p] = ToAminoParam(v[p])
  BY AminoNodes
<1>2. PICK y : y = ToAminoParam(v[p])
  OBVIOUS
<1>3. /\ y = ItemList <=> v[p] = ItemList
      /\ y = Structure <=> v[p] = Structure
      /\ Falsy(y) <=> Zero(v[p])
      /\ y # ZeroDec /\ y # Date
  BY <1>2, ToAminoKinds
<1>. QED BY <1>1, <1>2, <1>3 DEF IsLeaf

LEMMA AminoTree ==
  ASSUME NEW v, IsTree(v)
  PROVE  IsTree(ToAmino(v))
<1>0. PICK w : w = ToAmino(v)
  OBVIOUS
<1>1. /\ DOMAIN w \subseteq DOMAIN v
      /\ \A p \in DOMAIN v : v[p] \in {Structure, ItemList} => p \in DOMAIN w
      /\ w = [p \in DOMAIN w |-> w[p]]
      /\ \A p \in DOMAIN w : w[p] = ToAminoParam(v[p])
  <2>1. \A x \in {Structure, ItemList} : ~Zero(x)
    BY NodeKinds
  <2>. QED BY <1>0, <2>1, AminoNodes
<1>2. \A p \in DOMAIN w : /\ w[p] = ItemList <=> v[p] = ItemList
                          /\ w[p] = Structure <=> v[p] = Structure
  BY <1>0, AminoKinds
<1>3. IsFiniteSet(DOMAIN w) /\ DOMAIN w \subseteq Seq(Steps)
  BY <1>1, FS_Subset DEF IsTree
<1>4. ASSUME NEW p \in DOMAIN w
      PROVE  w[p] \in Nodes \cup Numbers(w[p].number) /\ w[p].number \in Nat
  <2>1. v[p] \in Nodes \cup Numbers(v[p].number) /\ v[p].number \in Nat
    BY <1>1 DEF IsTree
  <2>. QED BY <1>1, <2>1, ToAminoTyped
<1>5. <<>> \in DOMAIN w /\ w[<<>>] = Structure
  BY <1>1, <1>2 DEF IsTree
<1>6. ASSUME NEW p \in DOMAIN w, p # <<>>
      PROVE  /\ SubSeq(p, 1, Len(p) - 1) \in DOMAIN w /\ w[SubSeq(p, 1, Len(p) - 1)] = Structure
             /\ p[Len(p)].item > 0 => /\ w[p] = Structure
                                      /\ Item(p, 0) \in DOMAIN w /\ w[Item(p, 0)] = ItemList
  <2>1. PICK r : r = SubSeq(p, 1, Len(p) - 1)
    OBVIOUS
  <2>2. r \in DOMAIN v /\ v[r] = Structure
    BY <1>1, <1>6, <2>1 DEF IsTree
  <2>3. r \in DOMAIN w /\ w[r] = Structure
    BY <1>1, <1>2, <2>2
  <2>4. ASSUME p[Len(p)].item > 0
        PROVE  w[p] = Structure /\ Item(p, 0) \in DOMAIN w /\ w[Item(p, 0)] = ItemList
    <3>1. v[p] = Structure /\ Item(p, 0) \in DOMAIN v /\ v[Item(p, 0)] = ItemList
      BY <1>1, <1>6, <2>4 DEF IsTree
    <3>. QED BY <1>1, <1>2, <3>1
  <2>. QED BY <2>1, <2>3, <2>4
<1>7. IsTree(w)
  BY <1>1, <1>3, <1>4, <1>5, <1>6 DEF IsTree
<1>. QED BY <1>0, <1>7

-----------------------------------------------------------------------------
(* Messages *)

AminoOf(m) == [type |-> m.type, value |-> ToAmino(m.value)]
AminoMessages == {AminoOf(m) : m \in Messages}

LEMMA MessageFacts ==
  ASSUME NEW m \in Messages
  PROVE  /\ m = [type |-> m.type, value |-> m.value]
         /\ IsTree(m.value) /\ IsTree(ToAmino(m.value))
         /\ m.type.name \in Seq(Range(m.type.name)) /\ m.type.name # <<>>
         /\ m.type.name[1] # "Value"
         /\ Includes(m.type.name, m.type.name)
<1>1. /\ m = [type |-> m.type, value |-> m.value] /\ IsTree(m.value)
      /\ m.type.name \in Seq(Range(m.type.name)) /\ m.type.name # <<>>
      /\ Head(m.type.name) # "Value"
  BY Eip712Assumption
<1>2. PICK s : s = m.type.name
  OBVIOUS
<1>3. PICK S : s \in Seq(S)
  BY <1>1, <1>2
<1>4. s # <<>> /\ 1 \in DOMAIN s /\ Head(s) = s[1] /\ SubSeq(s, 1, Len(s)) = s /\ Len(s) \in Nat
  BY <1>1, <1>2, <1>3, SubSeqFull
<1>5. IsPrefix(s, SubSeq(s, 1, Len(s)))
  BY <1>4 DEF IsPrefix
<1>6. Includes(s, s)
  BY <1>4, <1>5 DEF Includes
<1>. QED BY <1>1, <1>2, <1>4, <1>6, AminoTree

LEMMA KindsOfNames ==
  ASSUME NEW l \in Messages, NEW m \in Messages, Includes(l.type.name, m.type.name)
  PROVE  SameKinds(ToAmino(m.value), ToAmino(l.value))
<1> SUFFICES ASSUME NEW p \in DOMAIN ToAmino(m.value), NEW q \in DOMAIN ToAmino(l.value),
                    NameOf(p) = NameOf(q),
                    ~Falsy(ToAmino(m.value)[p]), ~Falsy(ToAmino(l.value)[q])
             PROVE  IsLeaf(ToAmino(m.value)[p]) <=> IsLeaf(ToAmino(l.value)[q])
  BY DEF SameKinds
<1>1. /\ p \in DOMAIN m.value /\ ~Zero(m.value[p])
      /\ IsLeaf(ToAmino(m.value)[p]) <=> IsLeaf(m.value[p])
  BY MessageFacts, AminoKinds
<1>2. /\ q \in DOMAIN l.value /\ ~Zero(l.value[q])
      /\ IsLeaf(ToAmino(l.value)[q]) <=> IsLeaf(l.value[q])
  BY MessageFacts, AminoKinds
<1>3. IsLeaf(l.value[q]) <=> IsLeaf(m.value[p])
  BY <1>1, <1>2, Eip712Assumption
<1>. QED BY <1>1, <1>2, <1>3

-----------------------------------------------------------------------------
(* Numbering *)

Counted(D, of) == Cardinality({k \in D : IsPrefix(of, k.of)})

LEMMA CountedGrows ==
  ASSUME NEW D, NEW E, IsFiniteSet(E), D \subseteq E, NEW of
  PROVE  /\ Counted(D, of) \in Nat /\ Counted(E, of) \in Nat
         /\ Counted(D, of) <= Counted(E, of)
         /\ \A k \in E \ D : IsPrefix(of, k.of) => Counted(D, of) < Counted(E, of)
<1> DEFINE S == {k \in D : IsPrefix(of, k.of)}
           T == {k \in E : IsPrefix(of, k.of)}
<1>1. IsFiniteSet(T) /\ S \in SUBSET T
  <2>1. T \in SUBSET E
    OBVIOUS
  <2>2. IsFiniteSet(T)
    <3> HIDE DEF T
    <3>. QED BY <2>1, FS_Subset
  <2>. QED BY <2>2
<1>2. Counted(D, of) = Cardinality(S) /\ Counted(E, of) = Cardinality(T)
  BY Zenon DEF Counted
<1>3. \A k \in E \ D : IsPrefix(of, k.of) => k \in T /\ k \notin S
  OBVIOUS
<1> HIDE DEF S, T
<1>4. IsFiniteSet(S) /\ Cardinality(S) <= Cardinality(T) /\ (Cardinality(S) = Cardinality(T) => S = T)
  BY <1>1, FS_Subset
<1>5. Cardinality(S) \in Nat /\ Cardinality(T) \in Nat
  BY <1>1, <1>4, FS_CardinalityType
<1>. QED BY <1>2, <1>3, <1>4, <1>5

LEMMA OwnPrefix ==
  ASSUME NEW S, NEW s \in Seq(S)
  PROVE  IsPrefix(s, s)
BY DEF IsPrefix

\* The names of values are told from those of messages, and that of the whole from the rest.
LEMMA ValueNames ==
  ASSUME NEW v, IsTree(v), NEW p \in Displayed(v)
  PROVE  /\ NameOf(p) # <<>> /\ NameOf(p)[1] = "Value" /\ IsPrefix(NameOf(p), NameOf(p))
         /\ NameOf(p) = <<"Value">> <=> p = <<>>
<1>1. p \in Seq(Steps)
  BY DEF Displayed, IsTree
<1>2. NameOf(p) \in Seq(Words) /\ Len(NameOf(p)) = Len(p) + 1 /\ NameOf(p)[1] = "Value"
  BY <1>1, NameOfPath
<1>3. NameOf(p) # <<>> /\ IsPrefix(NameOf(p), NameOf(p))
  <2>1. PICK s \in Seq(Words) : s = NameOf(p)
    BY <1>2
  <2>2. s # <<>> /\ IsPrefix(s, s)
    BY <1>1, <1>2, <2>1, OwnPrefix
  <2>. QED BY <2>1, <2>2
<1>4. NameOf(p) = <<"Value">> => p = <<>>
  <2>1. Len(<<"Value">>) = 1
    OBVIOUS
  <2>. QED BY <1>1, <1>2, <2>1
<1>. QED BY <1>2, <1>3, <1>4, RootDisplayed

LEMMA KeyOfStructure ==
  ASSUME NEW p
  PROVE  /\ TypeKey(p).of = NameOf(p)
         /\ TypeKey(p).n = IF p = <<>> THEN Len(messageTypes) ELSE Counted(DOMAIN types, NameOf(p))
BY DEF TypeKey, LatestIndex, Counted

\* getMsgValueType() gives every structure a type, which refers to those of the structures in it.
LEMMA StructuresTyped ==
  ASSUME NEW v, IsTree(v)
  PROVE  /\ DOMAIN ValueTypes(v) = {TypeKey(p) : p \in Displayed(v)}
         /\ IsFiniteSet(DOMAIN ValueTypes(v))
         /\ \A p \in Displayed(v) :
              /\ DOMAIN ValueTypes(v)[TypeKey(p)] = Populated(v, p)
              /\ \A f \in Populated(v, p) :
                   IF IsNested(v, Child(v, p, f))
                   THEN /\ Child(v, p, f) \in Displayed(v)
                        /\ Key(ValueTypes(v)[TypeKey(p)][f]) = TypeKey(Child(v, p, f))
                   ELSE ValueTypes(v)[TypeKey(p)][f].of = <<>>
<1> DEFINE fields(p) == [f \in Populated(v, p) |-> FieldType(v, Child(v, p, f))]
           K == {TypeKey(p) : p \in Displayed(v)}
<1>1. DOMAIN ValueTypes(v) = K
  BY Zenon DEF ValueTypes
<1>2. IsFiniteSet(K)
  <2> DEFINE g == [p \in Displayed(v) |-> TypeKey(p)]
  <2>1. IsFiniteSet(Displayed(v))
    BY FS_Subset DEF Displayed, IsTree
  <2>2. g \in Surjection(Displayed(v), K)
    BY DEF Surjection
  <2> HIDE DEF g, K
  <2>. QED BY <2>1, <2>2, FS_Surjection
<1>3. ASSUME NEW p \in Displayed(v) PROVE ValueTypes(v)[TypeKey(p)] = fields(p)
  <2>1. PICK k : k = TypeKey(p)
    OBVIOUS
  <2>2. k \in K
    BY <2>1
  <2>3. PICK q : q = CHOOSE c \in Displayed(v) : TypeKey(c) = k
    OBVIOUS
  <2>4. q \in Displayed(v) /\ TypeKey(q) = k
    BY <2>1, <2>3, Zenon
  <2>5. NameOf(q) = NameOf(p)
    BY <2>1, <2>4, KeyOfStructure
  <2>6. q = p
    BY <2>4, <2>5, NamesDiffer
  <2>7. ValueTypes(v)[k] = fields(q)
    BY <2>2, <2>3, Zenon DEF ValueTypes
  <2>. QED BY <2>1, <2>6, <2>7, Zenon
<1>4. ASSUME NEW p \in Displayed(v), NEW f \in Populated(v, p)
      PROVE  IF IsNested(v, Child(v, p, f))
             THEN /\ Child(v, p, f) \in Displayed(v)
                  /\ Key(ValueTypes(v)[TypeKey(p)][f]) = TypeKey(Child(v, p, f))
             ELSE ValueTypes(v)[TypeKey(p)][f].of = <<>>
  <2>1. PICK c : c = Child(v, p, f)
    OBVIOUS
  <2>2. PICK t : t = FieldType(v, c)
    OBVIOUS
  <2>3. ValueTypes(v)[TypeKey(p)][f] = t
    BY <1>3, <2>1, <2>2, Zenon
  <2>4. p \in DOMAIN v /\ f \in Present(v, p) /\ f \in FieldNames
    BY DEF Displayed, Populated, Present
  <2>5. CASE IsNested(v, c)
    <3>1. c \in Displayed(v)
      BY <2>1, <2>4, <2>5, ChildDisplayed
    <3>2. c # <<>>
      <4>1. Len(c) = Len(p) + 1 /\ Len(p) \in Nat
        BY <2>1, <2>4, ChildPath, ContentsPath
      <4>. QED BY <4>1
    <3>3. t.of = NameOf(c) /\ t.n = LatestIndex(NameOf(c))
      BY <2>2, <2>5 DEF FieldType
    <3>4. Key(t) = TypeKey(c)
      BY <3>2, <3>3 DEF Key, TypeKey
    <3>. QED BY <2>1, <2>3, <2>5, <3>1, <3>4
  <2>6. CASE ~IsNested(v, c)
    <3>1. t = Primitive \/ t = Strings
      BY <2>2, <2>6 DEF FieldType
    <3>2. t.of = <<>>
      BY <3>1 DEF Primitive, Strings
    <3>. QED BY <2>1, <2>3, <2>6, <3>2
  <2>. QED BY <2>5, <2>6
<1>5. ASSUME NEW p \in Displayed(v) PROVE DOMAIN ValueTypes(v)[TypeKey(p)] = Populated(v, p)
  BY <1>3, <1>5, Zenon
<1> HIDE DEF K
<1>. QED BY <1>1, <1>2, <1>4, <1>5 DEF K

\* Definitions that take these in describe the value.
LEMMA TypedByDefinition ==
  ASSUME NEW v, IsTree(v), NEW defs, DOMAIN ValueTypes(v) \subseteq DOMAIN defs,
         \A k \in DOMAIN ValueTypes(v) : defs[k] = ValueTypes(v)[k]
  PROVE  \E as : TypesOf(defs, as, v, TypeKey(<<>>))
<1>1. PICK as : as = [p \in Displayed(v) |-> TypeKey(p)]
  OBVIOUS
<1>2. \A p \in Displayed(v) : /\ TypeKey(p) \in DOMAIN ValueTypes(v) /\ TypeKey(p) \in DOMAIN defs
                              /\ defs[TypeKey(p)] = ValueTypes(v)[TypeKey(p)]
                              /\ as[p] = TypeKey(p)
  BY <1>1, StructuresTyped
<1>3. as \in [Displayed(v) -> DOMAIN defs]
  BY <1>1, <1>2
<1>4. <<>> \in Displayed(v) /\ as[<<>>] = TypeKey(<<>>)
  BY <1>2, RootDisplayed
<1>5. ASSUME NEW p \in Displayed(v) PROVE DOMAIN defs[as[p]] = Populated(v, p)
  BY <1>2, StructuresTyped
<1>6. ASSUME NEW p \in Displayed(v), NEW f \in Populated(v, p)
      PROVE  IF IsNested(v, Child(v, p, f)) THEN Key(defs[as[p]][f]) = as[Child(v, p, f)]
             ELSE defs[as[p]][f].of = <<>>
  <2>1. defs[as[p]][f] = ValueTypes(v)[TypeKey(p)][f]
    BY <1>2
  <2>2. CASE IsNested(v, Child(v, p, f))
    <3>1. Child(v, p, f) \in Displayed(v) /\
          Key(ValueTypes(v)[TypeKey(p)][f]) = TypeKey(Child(v, p, f))
      BY <2>2, StructuresTyped
    <3>2. as[Child(v, p, f)] = TypeKey(Child(v, p, f))
      BY <1>2, <3>1
    <3>. QED BY <2>1, <2>2, <3>1, <3>2, Zenon
  <2>3. CASE ~IsNested(v, Child(v, p, f))
    <3>1. ValueTypes(v)[TypeKey(p)][f].of = <<>>
      BY <2>3, StructuresTyped
    <3>. QED BY <2>1, <2>3, <3>1
  <2>. QED BY <2>2, <2>3
<1>. QED BY <1>3, <1>4, <1>5, <1>6 DEF TypesOf

\* A value keeps its types when others are defined.
LEMMA TypesOfKept ==
  ASSUME NEW old, NEW new, NEW v, IsTree(v), NEW as, NEW key, TypesOf(old, as, v, key),
         \A k \in DOMAIN old : k \in DOMAIN new /\ new[k] = old[k]
  PROVE  TypesOf(new, as, v, key)
<1>1. \A p \in Displayed(v) : as[p] \in DOMAIN old /\ new[as[p]] = old[as[p]] /\ as[p] \in DOMAIN new
  BY DEF TypesOf
<1>2. as \in [Displayed(v) -> DOMAIN new] /\ as[<<>>] = key
  BY <1>1 DEF TypesOf
<1>3. ASSUME NEW p \in Displayed(v)
      PROVE  /\ DOMAIN new[as[p]] = Populated(v, p)
             /\ \A f \in Populated(v, p) :
                  IF IsNested(v, Child(v, p, f)) THEN Key(new[as[p]][f]) = as[Child(v, p, f)]
                  ELSE new[as[p]][f].of = <<>>
  <2>1. PICK fields : fields = new[as[p]]
    OBVIOUS
  <2>2. fields = old[as[p]]
    BY <1>1, <2>1
  <2>3. /\ DOMAIN fields = Populated(v, p)
        /\ \A f \in Populated(v, p) :
             IF IsNested(v, Child(v, p, f)) THEN Key(fields[f]) = as[Child(v, p, f)]
             ELSE fields[f].of = <<>>
    BY <2>2, Zenon DEF TypesOf
  <2>. QED BY <2>1, <2>3, Zenon
<1>. QED BY <1>2, <1>3, Zenon DEF TypesOf

LEMMA KeyOfDefinition ==
  ASSUME NEW v, IsTree(v), NEW k, k \in DOMAIN ValueTypes(v)
  PROVE  \E p \in Displayed(v) :
           /\ k = TypeKey(p) /\ k.of = NameOf(p) /\ k.of # <<>> /\ k.of[1] = "Value"
           /\ IsPrefix(k.of, k.of)
           /\ k.of = <<"Value">> => k.n = Len(messageTypes)
           /\ k.of # <<"Value">> => k.n = Counted(DOMAIN types, k.of)
<1>1. DOMAIN ValueTypes(v) = {TypeKey(p) : p \in Displayed(v)}
  BY StructuresTyped
<1>2. PICK p \in Displayed(v) : k = TypeKey(p)
  BY <1>1
<1>3. k.of = NameOf(p) /\ k.n = IF p = <<>> THEN Len(messageTypes) ELSE Counted(DOMAIN types, k.of)
  BY <1>2, KeyOfStructure
<1>4. /\ NameOf(p) # <<>> /\ NameOf(p)[1] = "Value" /\ IsPrefix(NameOf(p), NameOf(p))
      /\ NameOf(p) = <<"Value">> <=> p = <<>>
  BY ValueNames
<1>. QED BY <1>2, <1>3, <1>4

LEMMA DefinitionOfKey ==
  ASSUME NEW v, IsTree(v), NEW p \in Displayed(v)
  PROVE  TypeKey(p) \in DOMAIN ValueTypes(v)
<1>1. DOMAIN ValueTypes(v) = {TypeKey(q) : q \in Displayed(v)}
  BY StructuresTyped
<1>. QED BY <1>1

-----------------------------------------------------------------------------
(* The way back *)

LEMMA BackNodes ==
  ASSUME NEW w
  PROVE  LET u == FromAmino(w) IN
         /\ DOMAIN u = DOMAIN w
         /\ \A p \in DOMAIN w : ~(Len(p) = 1 /\ IsEmptyList(w, p)) => u[p] = FromAminoParam(w[p])
<1>1. PICK f : f = [p \in DOMAIN w |-> IF Len(p) = 1 /\ IsEmptyList(w, p) THEN Structure ELSE w[p]]
  OBVIOUS
<1>2. FromAmino(w) = MapEachIndiv(f, FALSE)
  BY <1>1, Zenon DEF FromAmino
<1>3. DOMAIN f = DOMAIN w
  BY <1>1
<1>4. FromAmino(w) = [p \in DOMAIN w |-> ParamConverter(f[p], FALSE)]
  BY <1>2, <1>3, Zenon DEF MapEachIndiv
<1>5. \A p \in DOMAIN w : ~(Len(p) = 1 /\ IsEmptyList(w, p)) => f[p] = w[p]
  BY <1>1
<1>. QED BY <1>4, <1>5 DEF ParamConverter

\* On the way to amino a list does not become empty.
LEMMA ListsKeepItems ==
  ASSUME NEW v, IsTree(v), NEW p \in DOMAIN ToAmino(v), IsEmptyList(ToAmino(v), p)
  PROVE  IsEmptyList(v, p)
<1>1. v[p] = ItemList /\ p \in DOMAIN v
  BY AminoKinds DEF IsEmptyList
<1>2. ASSUME Item(p, 1) \in DOMAIN v PROVE FALSE
  <2>1. PICK c : c = Item(p, 1)
    OBVIOUS
  <2>2. c = Contents(v, p)
    BY <1>1, <2>1 DEF Contents
  <2>3. c \in Seq(Steps) /\ Len(c) = Len(p) /\ Len(p) > 0 /\ c[Len(c)].item = 1
    BY <1>1, <2>2, ContentsPath
  <2>4. c # <<>> /\ c[Len(c)].item > 0
    BY <2>3
  <2>5. v[c] = Structure
    BY <1>2, <2>1, <2>4 DEF IsTree
  <2>6. c \in DOMAIN ToAmino(v)
    <3>1. ~Zero(v[c])
      BY <2>5, NodeKinds
    <3>. QED BY <1>2, <2>1, <3>1, AminoNodes
  <2>. QED BY <2>1, <2>6 DEF IsEmptyList
<1>. QED BY <1>1, <1>2 DEF IsEmptyList

LEMMA LowWords == \A n \in Nat : LowWord(n) \in Nat /\ LowWord(LowWord(n)) = LowWord(n)
<1>1. Word \in Nat /\ Word > 0
  BY AminoAssumption
<1>2. \A n \in Nat : n % Word \in 0 .. Word - 1
  BY <1>1
<1>3. \A n \in 0 .. Word - 1 : n % Word = n
  BY <1>1
<1>. QED BY <1>1, <1>2, <1>3 DEF LowWord

\* A duration of whole seconds comes back as it was, any other one as another of its kind.
LEMMA DurationBack ==
  ASSUME NEW n \in Nat
  PROVE  /\ n % Second = 0 => Shifted(n) = Nanos(n)
         /\ n % Second # 0 => \/ Shifted(n) = Fraction
                              \/ \E k \in Nat : k % Second # 0 /\ Shifted(n) = Nanos(k)
<1> DEFINE s == n \div Second
           r == n % Second
<1>1. s \in Nat /\ r \in Nat /\ r < Second /\ n = s * Second + r
  BY DEF Second
<1>2. CASE r = 0
  <2>1. r % Millisecond = 0 /\ r \div Millisecond = 0
    BY <1>2 DEF Millisecond
  <2>2. s * Second + r \div Millisecond = n
    BY <1>1, <1>2, <2>1 DEF Second
  <2>. QED BY <1>2, <2>1, <2>2 DEF Shifted
<1>3. CASE r # 0 /\ r % Millisecond # 0
  BY <1>3 DEF Shifted
<1>4. CASE r # 0 /\ r % Millisecond = 0
  <2>1. PICK d : d = r \div Millisecond
    OBVIOUS
  <2>2. d \in Nat /\ r = d * Millisecond
    BY <1>1, <1>4, <2>1 DEF Millisecond
  <2>3. 0 < d /\ d < Second
    BY <1>1, <1>4, <2>2 DEF Millisecond, Second
  <2>4. s * Second + d \in Nat /\ (s * Second + d) % Second = d
    BY <1>1, <2>2, <2>3 DEF Second
  <2>5. Shifted(n) = Nanos(s * Second + d)
    BY <1>4, <2>1 DEF Shifted
  <2>. QED BY <1>4, <2>3, <2>4, <2>5
<1>. QED BY <1>2, <1>3, <1>4

\* What a leaf that is not zero says when it is back.
LEMMA LeafBack ==
  ASSUME NEW x, x \in Nodes \cup Numbers(x.number), x.number \in Nat,
         ~Made(x), ~Zero(x), x # Date
  PROVE  LET y == FromAminoParam(ToAminoParam(x)) IN ~Zero(y) /\ Said(y) = Said(x)
<1> DEFINE y == FromAminoParam(ToAminoParam(x))
<1>0. /\ \A n : /\ Nanos(n).kind = "nanos" /\ Nanos(n).number = n
                /\ Long(n).kind = "long" /\ Long(n).number = n
                /\ Duration(n).kind = "duration" /\ Duration(n).number = n
      /\ Fraction.kind = "fraction" /\ Misread.kind = "misread" /\ Empty.kind = "empty"
      /\ Missing.kind = "missing" /\ ZeroDec.kind = "zeroDec" /\ Null.kind = "null"
  BY DEF Nanos, Long, Duration, Fraction, Misread, Empty, Missing, ZeroDec, Null, Node
<1>1. x # ZeroDec /\ \A z : z.kind \in {"long", "duration", "misread"} => ~Zero(z)
  BY <1>0 DEF Zero, Falsy
<1>2. CASE x.kind = "long"
  <2>1. y = Long(LowWord(x.number))
    BY <1>0, <1>1, <1>2 DEF ToAminoParam, FromAminoParam
  <2>2. Said(y) = Long(LowWord(x.number) % Word) /\ Said(x) = Long(x.number % Word)
    BY <1>0, <1>2, <2>1 DEF Said
  <2>3. LowWord(x.number) % Word = x.number % Word
    BY LowWords DEF LowWord
  <2>. QED BY <1>0, <1>1, <2>1, <2>2, <2>3
<1>3. CASE x.kind = "duration"
  <2>1. ToAminoParam(x) = Shifted(x.number)
    BY <1>1, <1>3 DEF ToAminoParam
  <2>2. x = Duration(x.number)
    BY <1>0, <1>3 DEF Nodes, Numbers, Structure, ItemList, Text, Empty, Missing, ZeroDec, Null, Date,
                      DateText, Fraction, Node
  <2>3. \A n : FromAminoParam(Nanos(n)) = Duration(n)
    BY <1>0 DEF FromAminoParam
  <2>4. FromAminoParam(Fraction) = Misread
    BY <1>0 DEF FromAminoParam
  <2>5. Said(Misread) = Misread /\ \A n : n % Second # 0 => Said(Duration(n)) = Misread
    BY <1>0 DEF Said
  <2>6. CASE x.number % Second = 0
    <3>1. y = x
      BY <2>1, <2>2, <2>3, <2>6, DurationBack
    <3>. QED BY <3>1
  <2>7. CASE x.number % Second # 0
    <3>1. y = Misread \/ \E k \in Nat : k % Second # 0 /\ y = Duration(k)
      BY <2>1, <2>3, <2>4, <2>7, DurationBack
    <3>2. Said(x) = Misread
      BY <2>2, <2>5, <2>7
    <3>3. Said(y) = Misread /\ ~Zero(y)
      BY <1>0, <1>1, <2>5, <3>1
    <3>. QED BY <3>2, <3>3
  <2>. QED BY <2>6, <2>7
<1>4. CASE x.kind \notin {"long", "duration"}
  <2>1. ToAminoParam(x) = x
    BY <1>1, <1>4 DEF ToAminoParam
  <2>2. FromAminoParam(x) = x
    BY <1>1, <1>4 DEF FromAminoParam, Made
  <2>. QED BY <2>1, <2>2
<1>. QED BY <1>2, <1>3, <1>4

\* What comes back has the meaning of what was sent, unless a list has become a structure
\* or a date a text.
LEMMA RoundTrip ==
  ASSUME NEW v, IsTree(v), \A p \in DOMAIN v : ~Made(v[p]),
         NEW u, u = FromAmino(ToAmino(v)),
         \A p \in DOMAIN u : v[p] = ItemList => u[p] = ItemList,
         \A p \in DOMAIN u : v[p] # Date
  PROVE  Meaning(u) = Meaning(v)
<1>0. PICK w : w = ToAmino(v)
  OBVIOUS
<1>1. DOMAIN u = DOMAIN w /\ DOMAIN w = {p \in DOMAIN v : Len(p) = 1 => ~Zero(v[p])}
  BY <1>0, BackNodes, AminoNodes
<1>2. /\ FromAminoParam(ItemList) = ItemList
      /\ \A x : Falsy(x) => FromAminoParam(x) = x
  BY DEF FromAminoParam, ItemList, ZeroDec, Fraction, Falsy, Empty, Missing, Null, Node
\* A list that comes back as a structure is none.
<1>3. ASSUME NEW p \in DOMAIN u PROVE u[p] = FromAminoParam(w[p])
  <2>1. CASE Len(p) = 1 /\ IsEmptyList(w, p)
    <3>1. w[p] = ItemList /\ v[p] = ItemList
      BY <1>0, <1>1, <2>1, AminoKinds DEF IsEmptyList
    <3>. QED BY <1>2, <1>3, <3>1
  <2>2. CASE ~(Len(p) = 1 /\ IsEmptyList(w, p))
    BY <1>0, <1>1, <2>2, BackNodes
  <2>. QED BY <2>1, <2>2
<1>4. ASSUME NEW p \in DOMAIN u PROVE p \in DOMAIN v /\ u[p] = FromAminoParam(ToAminoParam(v[p]))
  <2>1. p \in DOMAIN v /\ w[p] = ToAminoParam(v[p])
    BY <1>0, <1>1, AminoNodes
  <2>. QED BY <1>3, <2>1
<1>5. ASSUME NEW p \in DOMAIN v, ~Zero(v[p])
      PROVE  p \in DOMAIN u /\ ~Zero(u[p]) /\ Said(u[p]) = Said(v[p])
  <2>1. p \in DOMAIN u
    BY <1>1, <1>5
  <2>2. PICK x : x = v[p]
    OBVIOUS
  <2>3. /\ x \in Nodes \cup Numbers(x.number) /\ x.number \in Nat
        /\ ~Made(x) /\ ~Zero(x) /\ x # Date
    BY <1>5, <2>1, <2>2 DEF IsTree
  <2>4. LET y == FromAminoParam(ToAminoParam(x)) IN ~Zero(y) /\ Said(y) = Said(x)
    BY <2>3, LeafBack
  <2>. QED BY <1>4, <2>1, <2>2, <2>4
<1>6. ASSUME NEW p \in DOMAIN u, ~Zero(u[p]) PROVE p \in DOMAIN v /\ ~Zero(v[p])
  <2>1. p \in DOMAIN v /\ w[p] = ToAminoParam(v[p]) /\ u[p] = FromAminoParam(w[p])
    BY <1>0, <1>1, <1>3, AminoNodes
  <2>2. ~Falsy(w[p])
    BY <1>2, <1>6, <2>1 DEF Zero
  <2>. QED BY <2>1, <2>2, ToAminoKinds
<1>7. PICK D : D = {p \in DOMAIN v : ~Zero(v[p])}
  OBVIOUS
<1>8. {p \in DOMAIN u : ~Zero(u[p])} = D
  BY <1>5, <1>6, <1>7
<1>9. Meaning(u) = [p \in D |-> Said(u[p])]
  BY <1>8 DEF Meaning
<1>10. Meaning(v) = [p \in D |-> Said(v[p])]
  BY <1>7 DEF Meaning
<1>. QED BY <1>5, <1>7, <1>9, <1>10

-----------------------------------------------------------------------------
(* The inductive invariant *)

\* The type of a message describes its value, and of every structure in it there is a type.
Typed(defs, v, key) == \E as \in [Displayed(v) -> DOMAIN defs] : TypesOf(defs, as, v, key)

PlainNames(ams, name) ==
  \A j \in DOMAIN ams : Includes(ams[j].type.name, name) => Plain(ams[j].value)

BackOf(m) == [type |-> m.type, value |-> FromAmino(m.value)]

\* What is true of the messages at every stage.
MessagesInv ==
  /\ phase \in {"converting", "typing", "signed", "done", "failed", "lost"}
  /\ msgs \in Asked
  /\ amino \in Seq(AminoMessages) /\ Len(amino) <= Len(msgs)
  /\ \A i \in 1 .. Len(amino) : amino[i] = AminoOf(msgs[i]) /\ ~Throws(msgs[i].value)
  /\ phase = "converting" => assigned = <<>>
  /\ phase \in {"typing", "signed", "done", "lost"} \/ assigned # <<>> => Len(amino) = Len(msgs)
  /\ Len(assigned) <= Len(amino)
  /\ \A i \in 1 .. Len(assigned) : ~Throws(amino[i].value)
  /\ phase \in {"signed", "done", "lost"} => Len(assigned) = Len(amino)

\* The numbers given out lie below the next one of their name.
Numbered(defs, mts) ==
  /\ IsFiniteSet(DOMAIN defs)
  /\ \A k \in DOMAIN defs :
       /\ k.of # <<>> /\ k.n \in Nat
       /\ k.n < (IF k.of = <<"Value">> THEN Len(mts) ELSE Counted(DOMAIN defs, k.of))

\* The type definitions are complete.
Complete(defs, mts, asg) ==
  /\ mts \in Seq(DOMAIN defs) /\ asg \in Seq(DOMAIN defs)
  /\ Len(mts) <= Len(asg) /\ Range(asg) = Range(mts)
  /\ \A k \in DOMAIN defs :
       /\ DOMAIN defs[k] \subseteq FieldNames \cup {"value", "type"}
       /\ \A f \in DOMAIN defs[k] : defs[k][f].of # <<>> => Key(defs[k][f]) \in DOMAIN defs

\* Every type of a message was made for one, which it describes.
Originated(defs, ams, mts, asg) ==
  \A i \in 1 .. Len(mts) : \E j \in 1 .. Len(asg) :
    ams[j].type.name = mts[i].of /\ Typed(defs, ams[j].value, Key(defs[mts[i]].value))

\* Plain messages have types that describe them.
Displays(defs, ams, asg) ==
  \A i \in 1 .. Len(asg) :
    PlainNames(ams, ams[i].type.name) => Typed(defs, ams[i].value, Key(defs[asg[i]].value))

TypesInv ==
  /\ Numbered(types, messageTypes)
  /\ Complete(types, messageTypes, assigned)
  /\ Originated(types, amino, messageTypes, assigned)
  /\ Displays(types, amino, assigned)

\* The body is what the user was asked for, or what was signed converted back.
BodyInv ==
  /\ \/ phase = "done" /\ body = msgs
     \/ /\ body \in Seq({BackOf(m) : m \in AminoMessages}) /\ Len(body) <= Len(amino)
        /\ \A i \in 1 .. Len(body) : body[i] = BackOf(amino[i])
        /\ phase = "done" => Len(body) = Len(amino) /\ \A i \in 1 .. Len(body) : Encodes(i)
  /\ LostOnlyForListsOrDates

IInv == MessagesInv /\ TypesInv /\ BodyInv

-----------------------------------------------------------------------------
(* New definitions *)

LEMMA RangeOfAppend ==
  ASSUME NEW S, NEW s \in Seq(S), NEW e \in S
  PROVE  Range(Append(s, e)) = Range(s) \cup {e}
<1>1. PICK t : t = Append(s, e)
  OBVIOUS
<1>2. /\ DOMAIN t = 1 .. Len(s) + 1 /\ DOMAIN s = 1 .. Len(s) /\ Len(s) \in Nat
      /\ t[Len(s) + 1] = e /\ \A i \in 1 .. Len(s) : t[i] = s[i]
  BY <1>1, AppendProperties
<1>3. \A i \in DOMAIN t : t[i] \in Range(s) \cup {e}
  <2>1. \A i \in 1 .. Len(s) + 1 : i \in 1 .. Len(s) \/ i = Len(s) + 1
    BY <1>2
  <2>. QED BY <1>2, <2>1 DEF Range
<1>4. \A x \in Range(s) \cup {e} : \E i \in DOMAIN t : x = t[i]
  <2>1. Len(s) + 1 \in DOMAIN t /\ \A i \in 1 .. Len(s) : i \in DOMAIN t
    BY <1>2
  <2>. QED BY <1>2, <2>1 DEF Range
<1>5. Range(t) = Range(s) \cup {e}
  BY <1>3, <1>4 DEF Range
<1>. QED BY <1>1, <1>5

\* Numbers in use are below the next one, so that no definition is replaced.
LEMMA DefinesAdds ==
  ASSUME Numbered(types, messageTypes), NEW l \in Messages, NEW m, m = AminoOf(l), Defines(m)
  PROVE  \E key, values :
           /\ key.of = m.type.name /\ key.n = Counted(DOMAIN types, m.type.name)
           /\ values = ValueTypes(m.value)
           /\ DOMAIN types' = DOMAIN values \cup {key} \cup DOMAIN types
           /\ (DOMAIN values \cup {key}) \cap DOMAIN types = {}
           /\ \A k \in DOMAIN types : types'[k] = types[k]
           /\ \A k \in DOMAIN values : types'[k] = values[k]
           /\ DOMAIN types'[key] = {"value", "type"} /\ types'[key].type.of = <<>>
           /\ Key(types'[key].value) = TypeKey(<<>>)
           /\ messageTypes' = Append(messageTypes, key)
           /\ assigned' = Append(assigned, key)
<1>1. PICK key : key = [of |-> m.type.name, n |-> LatestIndex(m.type.name)]
  OBVIOUS
<1>2. PICK values : values = ValueTypes(m.value)
  OBVIOUS
<1>3. PICK whole : whole = [value |-> [of |-> NameOf(<<>>), n |-> Len(messageTypes), many |-> FALSE],
                            type |-> Primitive]
  OBVIOUS
<1>4. /\ types' = [k \in DOMAIN values \cup {key} \cup DOMAIN types |->
                     IF k \in DOMAIN values THEN values[k] ELSE IF k = key THEN whole ELSE types[k]]
      /\ messageTypes' = Append(messageTypes, key) /\ assigned' = Append(assigned, key)
  BY <1>1, <1>2, <1>3, Zenon DEF Defines
<1>5. /\ m.type.name = l.type.name /\ m.type.name # <<>> /\ m.type.name[1] # "Value"
      /\ IsTree(m.value)
  BY MessageFacts DEF AminoOf
<1>6. key.of = m.type.name /\ key.n = Counted(DOMAIN types, m.type.name)
  BY <1>1 DEF LatestIndex, Counted
<1>7. <<"Value">>[1] = "Value"
  OBVIOUS
<1>8. key \notin DOMAIN types
  <2>1. ASSUME key \in DOMAIN types PROVE FALSE
    <3>1. key.of # <<"Value">>
      BY <1>5, <1>6, <1>7
    <3>2. key.n \in Nat /\ key.n < Counted(DOMAIN types, key.of)
      BY <2>1, <3>1 DEF Numbered
    <3>. QED BY <1>6, <3>2
  <2>. QED BY <2>1
<1>9. ASSUME NEW k \in DOMAIN values PROVE k \notin DOMAIN types /\ k # key
  <2>1. PICK v : v = m.value
    OBVIOUS
  <2>2. /\ k.of[1] = "Value"
        /\ k.of = <<"Value">> => k.n = Len(messageTypes)
        /\ k.of # <<"Value">> => k.n = Counted(DOMAIN types, k.of)
    <3>1. IsTree(v) /\ k \in DOMAIN ValueTypes(v)
      BY <1>2, <1>5, <2>1
    <3>. QED BY <3>1, KeyOfDefinition
  <2>3. ASSUME k \in DOMAIN types PROVE FALSE
    <3>1. /\ k.n \in Nat
          /\ k.of = <<"Value">> => k.n < Len(messageTypes)
          /\ k.of # <<"Value">> => k.n < Counted(DOMAIN types, k.of)
      BY <2>3 DEF Numbered
    <3>. QED BY <2>2, <3>1
  <2>. QED BY <1>5, <1>6, <2>2, <2>3
<1>10. DOMAIN types' = DOMAIN values \cup {key} \cup DOMAIN types
  BY <1>4
<1>11. ASSUME NEW k \in DOMAIN types PROVE types'[k] = types[k]
  BY <1>4, <1>8, <1>9
<1>12. ASSUME NEW k \in DOMAIN values PROVE types'[k] = values[k]
  BY <1>4
<1>13. types'[key] = whole
  BY <1>4, <1>9
<1>14. whole.type.of = <<>> /\ DOMAIN whole = {"value", "type"}
  BY <1>3 DEF Primitive
<1>15. Key(whole.value) = TypeKey(<<>>)
  BY <1>3 DEF Key, TypeKey
<1>16. DOMAIN types'[key] = {"value", "type"} /\ types'[key].type.of = <<>>
       /\ Key(types'[key].value) = TypeKey(<<>>)
  BY <1>13, <1>14, <1>15
<1>17. (DOMAIN values \cup {key}) \cap DOMAIN types = {}
  BY <1>8, <1>9
<1>. QED BY <1>2, <1>4, <1>6, <1>10, <1>11, <1>12, <1>16, <1>17, Zenon

LEMMA DefinesNumbers ==
  ASSUME Numbered(types, messageTypes), messageTypes \in Seq(DOMAIN types),
         NEW l \in Messages, NEW m, m = AminoOf(l), Defines(m)
  PROVE  Numbered(types', messageTypes')
<1>1. PICK key, values :
        /\ key.of = m.type.name /\ key.n = Counted(DOMAIN types, m.type.name)
        /\ values = ValueTypes(m.value)
        /\ DOMAIN types' = DOMAIN values \cup {key} \cup DOMAIN types
        /\ (DOMAIN values \cup {key}) \cap DOMAIN types = {}
        /\ messageTypes' = Append(messageTypes, key)
  BY DefinesAdds, Zenon
<1>2. PICK D : D = DOMAIN types
  OBVIOUS
<1>3. PICK E : E = DOMAIN types'
  OBVIOUS
<1>4. /\ IsTree(m.value) /\ key.of # <<>> /\ key.of[1] # "Value"
      /\ IsPrefix(key.of, key.of)
  <2>1. IsTree(m.value) /\ m.type.name = l.type.name
    BY MessageFacts DEF AminoOf
  <2>2. PICK s : s = l.type.name
    OBVIOUS
  <2>3. s \in Seq(Range(s)) /\ s # <<>> /\ s[1] # "Value"
    BY <2>2, MessageFacts
  <2>4. IsPrefix(s, s)
    BY <2>3, OwnPrefix
  <2>. QED BY <1>1, <2>1, <2>2, <2>3, <2>4
<1>5. IsFiniteSet(D) /\ IsFiniteSet(E) /\ D \subseteq E
  <2>1. IsFiniteSet(DOMAIN values)
    BY <1>1, <1>4, StructuresTyped
  <2>2. IsFiniteSet(D)
    BY <1>2 DEF Numbered
  <2>3. IsFiniteSet({key})
    BY FS_Singleton
  <2>4. E = (DOMAIN values \cup {key}) \cup D
    BY <1>1, <1>2, <1>3
  <2>5. IsFiniteSet(DOMAIN values \cup {key})
    BY <2>1, <2>3, FS_Union
  <2>. QED BY <2>2, <2>4, <2>5, FS_Union
<1>6. Len(messageTypes') = Len(messageTypes) + 1 /\ Len(messageTypes) \in Nat
  <2>1. PICK S : S = DOMAIN types \cup {key}
    OBVIOUS
  <2>2. messageTypes \in Seq(S) /\ key \in S
    BY <2>1, SeqMonotonic
  <2>. QED BY <1>1, <2>2, AppendProperties
<1>7. ASSUME NEW k \in E
      PROVE  /\ k.of # <<>> /\ k.n \in Nat
             /\ k.n < (IF k.of = <<"Value">> THEN Len(messageTypes') ELSE Counted(E, k.of))
  <2>0. /\ Counted(D, k.of) \in Nat /\ Counted(E, k.of) \in Nat /\ Counted(D, k.of) <= Counted(E, k.of)
        /\ \A x \in E \ D : IsPrefix(k.of, x.of) => Counted(D, k.of) < Counted(E, k.of)
    BY <1>5, CountedGrows
  <2>1. CASE k \in D
    <3>1. /\ k.of # <<>> /\ k.n \in Nat
          /\ k.n < (IF k.of = <<"Value">> THEN Len(messageTypes) ELSE Counted(D, k.of))
      BY <1>2, <2>1 DEF Numbered
    <3>. QED BY <1>6, <2>0, <3>1
  <2>2. CASE k = key
    <3>1. k.of # <<"Value">>
      <4>1. <<"Value">>[1] = "Value"
        OBVIOUS
      <4>. QED BY <1>4, <2>2, <4>1
    <3>2. k \in E \ D /\ IsPrefix(k.of, k.of) /\ k.n = Counted(D, k.of)
      BY <1>1, <1>2, <1>3, <1>4, <2>2
    <3>. QED BY <1>4, <2>0, <2>2, <3>1, <3>2
  <2>3. CASE k \in DOMAIN values
    <3>1. PICK v : v = m.value
      OBVIOUS
    <3>2. /\ k.of # <<>> /\ IsPrefix(k.of, k.of)
          /\ k.of = <<"Value">> => k.n = Len(messageTypes)
          /\ k.of # <<"Value">> => k.n = Counted(D, k.of)
      <4>1. IsTree(v) /\ k \in DOMAIN ValueTypes(v)
        BY <1>1, <1>4, <2>3, <3>1
      <4>. QED BY <1>2, <4>1, KeyOfDefinition
    <3>3. k \in E \ D
      BY <1>1, <1>2, <1>3, <2>3
    <3>. QED BY <1>6, <2>0, <3>2, <3>3
  <2>. QED BY <1>1, <1>2, <1>3, <2>1, <2>2, <2>3
<1>. QED BY <1>3, <1>5, <1>7 DEF Numbered

LEMMA DefinesCompletes ==
  ASSUME Numbered(types, messageTypes), Complete(types, messageTypes, assigned),
         NEW l \in Messages, NEW m, m = AminoOf(l), Defines(m)
  PROVE  Complete(types', messageTypes', assigned')
<1>0. PICK v : v = m.value
  OBVIOUS
<1>1. PICK key, values :
        /\ values = ValueTypes(m.value)
        /\ DOMAIN types' = DOMAIN values \cup {key} \cup DOMAIN types
        /\ \A k \in DOMAIN types : types'[k] = types[k]
        /\ \A k \in DOMAIN values : types'[k] = values[k]
        /\ DOMAIN types'[key] = {"value", "type"} /\ types'[key].type.of = <<>>
        /\ Key(types'[key].value) = TypeKey(<<>>)
        /\ messageTypes' = Append(messageTypes, key)
        /\ assigned' = Append(assigned, key)
  BY DefinesAdds, Zenon
<1>2. IsTree(v) /\ values = ValueTypes(v)
  <2>1. IsTree(m.value)
    BY MessageFacts DEF AminoOf
  <2>. QED BY <1>0, <1>1, <2>1
<1>3. PICK new : new = types'
  OBVIOUS
<1>4. PICK E : E = DOMAIN types'
  OBVIOUS
<1>5. messageTypes \in Seq(E) /\ assigned \in Seq(E) /\ key \in E
  <2>1. DOMAIN types \subseteq E /\ key \in E
    BY <1>1, <1>4
  <2>2. messageTypes \in Seq(DOMAIN types) /\ assigned \in Seq(DOMAIN types)
    BY DEF Complete
  <2>. QED BY <2>1, <2>2, SeqMonotonic
<1>6. /\ messageTypes' \in Seq(E) /\ Len(messageTypes') = Len(messageTypes) + 1
      /\ assigned' \in Seq(E) /\ Len(assigned') = Len(assigned) + 1
      /\ Len(messageTypes) \in Nat /\ Len(assigned) \in Nat
  BY <1>1, <1>5, AppendProperties
<1>7. Len(messageTypes') <= Len(assigned')
  <2>1. Len(messageTypes) <= Len(assigned)
    BY DEF Complete
  <2>. QED BY <1>6, <2>1
<1>8. Range(assigned') = Range(messageTypes')
  <2>1. Range(messageTypes') = Range(messageTypes) \cup {key}
    BY <1>1, <1>5, RangeOfAppend
  <2>2. Range(assigned') = Range(assigned) \cup {key}
    BY <1>1, <1>5, RangeOfAppend
  <2>3. Range(assigned) = Range(messageTypes)
    BY DEF Complete
  <2>. QED BY <2>1, <2>2, <2>3
<1>9. TypeKey(<<>>) \in DOMAIN values
  BY <1>2, RootDisplayed, DefinitionOfKey
<1>10. ASSUME NEW k \in E
       PROVE  /\ DOMAIN new[k] \subseteq FieldNames \cup {"value", "type"}
              /\ \A f \in DOMAIN new[k] : new[k][f].of # <<>> => Key(new[k][f]) \in E
  <2>1. CASE k \in DOMAIN types
    <3>1. new[k] = types[k] /\ DOMAIN types \subseteq E
      BY <1>1, <1>3, <1>4, <2>1
    <3>2. /\ DOMAIN types[k] \subseteq FieldNames \cup {"value", "type"}
          /\ \A f \in DOMAIN types[k] : types[k][f].of # <<>> => Key(types[k][f]) \in DOMAIN types
      BY <2>1 DEF Complete
    <3>. QED BY <3>1, <3>2
  <2>2. CASE k = key
    <3>1. DOMAIN new[k] = {"value", "type"} /\ new[k].type.of = <<>>
          /\ Key(new[k].value) = TypeKey(<<>>)
      BY <1>1, <1>3, <2>2
    <3>2. Key(new[k].value) \in E
      BY <1>1, <1>4, <1>9, <3>1
    <3>3. new[k].type = new[k]["type"] /\ new[k].value = new[k]["value"]
      OBVIOUS
    <3>4. ASSUME NEW f \in DOMAIN new[k], new[k][f].of # <<>> PROVE Key(new[k][f]) \in E
      <4>1. f = "value"
        BY <3>1, <3>3, <3>4
      <4>. QED BY <3>2, <3>3, <4>1
    <3>. QED BY <3>1, <3>4
  <2>3. CASE k \in DOMAIN values
    <3>1. PICK p \in Displayed(v) : k = TypeKey(p)
      BY <1>2, <2>3, KeyOfDefinition
    <3>2. new[k] = ValueTypes(v)[TypeKey(p)] /\ DOMAIN values \subseteq E
      BY <1>1, <1>2, <1>3, <1>4, <2>3, <3>1
    <3>3. DOMAIN new[k] = Populated(v, p)
      BY <1>2, <3>2, StructuresTyped
    <3>4. Populated(v, p) \subseteq FieldNames
      BY DEF Populated, Present
    <3>5. ASSUME NEW f \in Populated(v, p), new[k][f].of # <<>> PROVE Key(new[k][f]) \in E
      <4>1. PICK c : c = Child(v, p, f)
        OBVIOUS
      <4>2. IF IsNested(v, c)
            THEN c \in Displayed(v) /\ Key(ValueTypes(v)[TypeKey(p)][f]) = TypeKey(c)
            ELSE ValueTypes(v)[TypeKey(p)][f].of = <<>>
        BY <1>2, <4>1, StructuresTyped, Zenon
      <4>3. c \in Displayed(v) /\ Key(new[k][f]) = TypeKey(c)
        BY <3>2, <3>5, <4>2
      <4>4. TypeKey(c) \in DOMAIN values
        BY <1>2, <4>3, DefinitionOfKey
      <4>. QED BY <3>2, <4>3, <4>4
    <3>. QED BY <3>3, <3>4, <3>5
  <2>. QED BY <1>1, <1>4, <2>1, <2>2, <2>3
<1>. QED BY <1>3, <1>4, <1>6, <1>7, <1>8, <1>10 DEF Complete

LEMMA TypedKept ==
  ASSUME NEW old, NEW new, NEW v, IsTree(v), NEW key, Typed(old, v, key),
         \A k \in DOMAIN old : k \in DOMAIN new /\ new[k] = old[k]
  PROVE  Typed(new, v, key)
<1>1. PICK as : TypesOf(old, as, v, key)
  BY DEF Typed
<1>2. TypesOf(new, as, v, key)
  BY <1>1, TypesOfKept
<1>3. as \in [Displayed(v) -> DOMAIN new]
  BY <1>2 DEF TypesOf
<1>. QED BY <1>2, <1>3 DEF Typed

\* A message for which a type is made is described by it, and the others stay so.
LEMMA DefinesDescribes ==
  ASSUME Numbered(types, messageTypes), Complete(types, messageTypes, assigned),
         NEW ams, \A i \in 1 .. Len(assigned) : IsTree(ams[i].value),
         Originated(types, ams, messageTypes, assigned), Displays(types, ams, assigned),
         NEW l \in Messages, NEW m, m = AminoOf(l), ams[Len(assigned) + 1] = m, Defines(m)
  PROVE  /\ Originated(types', ams, messageTypes', assigned')
         /\ Displays(types', ams, assigned')
<1>0. PICK v : v = m.value
  OBVIOUS
<1>1. PICK key, values :
        /\ key.of = m.type.name
        /\ values = ValueTypes(m.value)
        /\ DOMAIN types' = DOMAIN values \cup {key} \cup DOMAIN types
        /\ \A k \in DOMAIN types : types'[k] = types[k]
        /\ \A k \in DOMAIN values : types'[k] = values[k]
        /\ Key(types'[key].value) = TypeKey(<<>>)
        /\ messageTypes' = Append(messageTypes, key)
        /\ assigned' = Append(assigned, key)
  BY DefinesAdds, Zenon
<1>2. IsTree(v) /\ values = ValueTypes(v)
  <2>1. IsTree(m.value)
    BY MessageFacts DEF AminoOf
  <2>. QED BY <1>0, <1>1, <2>1
<1>3. PICK new : new = types'
  OBVIOUS
<1>4. Typed(new, v, Key(new[key].value))
  <2>1. DOMAIN ValueTypes(v) \subseteq DOMAIN new /\ \A k \in DOMAIN ValueTypes(v) : new[k] = ValueTypes(v)[k]
    BY <1>1, <1>2, <1>3
  <2>2. PICK as : TypesOf(new, as, v, TypeKey(<<>>))
    BY <1>2, <2>1, TypedByDefinition
  <2>3. as \in [Displayed(v) -> DOMAIN new]
    BY <2>2 DEF TypesOf
  <2>4. Key(new[key].value) = TypeKey(<<>>)
    BY <1>1, <1>3
  <2>. QED BY <2>2, <2>3, <2>4 DEF Typed
<1>5. \A k \in DOMAIN types : k \in DOMAIN new /\ new[k] = types[k]
  BY <1>1, <1>3
<1>6. /\ messageTypes \in Seq(DOMAIN types \cup {key}) /\ assigned \in Seq(DOMAIN types \cup {key})
      /\ messageTypes \in Seq(DOMAIN types) /\ assigned \in Seq(DOMAIN types)
  BY SeqMonotonic DEF Complete
<1>7. PICK mts : mts = messageTypes'
  OBVIOUS
<1>8. PICK asg : asg = assigned'
  OBVIOUS
<1>9. /\ Len(mts) = Len(messageTypes) + 1 /\ Len(messageTypes) \in Nat
      /\ mts[Len(messageTypes) + 1] = key
      /\ \A i \in 1 .. Len(messageTypes) : mts[i] = messageTypes[i] /\ messageTypes[i] \in DOMAIN types
  BY <1>1, <1>6, <1>7, AppendProperties, ElementOfSeq
<1>10. /\ Len(asg) = Len(assigned) + 1 /\ Len(assigned) \in Nat
       /\ asg[Len(assigned) + 1] = key
       /\ \A i \in 1 .. Len(assigned) : asg[i] = assigned[i] /\ assigned[i] \in DOMAIN types
  BY <1>1, <1>6, <1>8, AppendProperties, ElementOfSeq
<1>11. ASSUME NEW i \in 1 .. Len(mts)
       PROVE  \E j \in 1 .. Len(asg) :
                ams[j].type.name = mts[i].of /\ Typed(new, ams[j].value, Key(new[mts[i]].value))
  <2>1. CASE i \in 1 .. Len(messageTypes)
    <3>1. PICK j \in 1 .. Len(assigned) :
            /\ ams[j].type.name = messageTypes[i].of
            /\ Typed(types, ams[j].value, Key(types[messageTypes[i]].value))
      BY <2>1 DEF Originated
    <3>2. PICK k : k = messageTypes[i]
      OBVIOUS
    <3>3. mts[i] = k /\ k \in DOMAIN types /\ new[k] = types[k]
      BY <1>5, <1>9, <2>1, <3>2
    <3>4. PICK x : x = ams[j].value
      OBVIOUS
    <3>5. IsTree(x) /\ Typed(types, x, Key(types[k].value))
      BY <3>1, <3>2, <3>4
    <3>6. PICK t : t = Key(types[k].value)
      OBVIOUS
    <3>7. Typed(new, x, t)
      BY <1>5, <3>5, <3>6, TypedKept
    <3>8. j \in 1 .. Len(asg)
      BY <1>10
    <3>. QED BY <3>1, <3>2, <3>3, <3>4, <3>6, <3>7, <3>8
  <2>2. CASE i = Len(messageTypes) + 1
    <3>1. PICK j : j = Len(assigned) + 1
      OBVIOUS
    <3>2. j \in 1 .. Len(asg) /\ ams[j] = m /\ mts[i] = key
      BY <1>9, <1>10, <2>2, <3>1
    <3>. QED BY <1>0, <1>1, <1>4, <3>2
  <2>. QED BY <1>9, <2>1, <2>2
<1>12. ASSUME NEW i \in 1 .. Len(asg), PlainNames(ams, ams[i].type.name)
       PROVE  Typed(new, ams[i].value, Key(new[asg[i]].value))
  <2>1. CASE i \in 1 .. Len(assigned)
    <3>1. PICK x : x = ams[i].value
      OBVIOUS
    <3>2. PICK k : k = assigned[i]
      OBVIOUS
    <3>3. asg[i] = k /\ new[k] = types[k]
      BY <1>5, <1>10, <2>1, <3>2
    <3>4. IsTree(x) /\ Typed(types, x, Key(types[k].value))
      BY <1>12, <2>1, <3>1, <3>2 DEF Displays
    <3>5. PICK t : t = Key(types[k].value)
      OBVIOUS
    <3>6. Typed(new, x, t)
      BY <1>5, <3>4, <3>5, TypedKept
    <3>. QED BY <3>1, <3>3, <3>5, <3>6
  <2>2. CASE i = Len(assigned) + 1
    <3>1. asg[i] = key /\ ams[i] = m
      BY <1>10, <2>2
    <3>. QED BY <1>0, <1>4, <3>1
  <2>. QED BY <1>10, <2>1, <2>2
<1>13. Originated(new, ams, mts, asg)
  BY <1>11 DEF Originated
<1>14. Displays(new, ams, asg)
  BY <1>12 DEF Displays
<1>. QED BY <1>3, <1>7, <1>8, <1>13, <1>14

-----------------------------------------------------------------------------
(* Types that are used again *)

LEMMA FirstFit ==
  ASSUME messageTypes \in Seq(DOMAIN types), NEW m, Fits(m) # {}
  PROVE  Min(Fits(m)) \in Fits(m) /\ Min(Fits(m)) \in 1 .. Len(messageTypes)
<1>1. PICK S : S = Fits(m)
  OBVIOUS
<1>2. PICK n : n = Len(messageTypes)
  OBVIOUS
<1>3. n \in Nat /\ S \in SUBSET (1 .. n) /\ S # {}
  BY <1>1, <1>2 DEF Fits
<1>4. PICK R : R = {n + 1 - x : x \in S}
  OBVIOUS
<1>5. R \in SUBSET (1 .. n) /\ R # {}
  <2>1. \A x \in S : x \in 1 .. n /\ n + 1 - x \in 1 .. n
    BY <1>3
  <2>2. ASSUME NEW z \in R PROVE z \in 1 .. n
    <3>1. \E x \in S : z = n + 1 - x
      BY <1>4
    <3>. QED BY <2>1, <3>1
  <2>3. R # {}
    <3>1. PICK x \in S : TRUE
      BY <1>3
    <3>2. n + 1 - x \in R
      BY <1>4
    <3>. QED BY <3>2
  <2>. QED BY <2>2, <2>3
<1>6. PICK x \in S : \A z \in R : z <= n + 1 - x
  <2>1. PICK g \in R : \A z \in R : z <= g
    BY <1>3, <1>5, Greatest
  <2>2. \E x \in S : g = n + 1 - x
    BY <1>4
  <2>. QED BY <2>1, <2>2
<1>7. \A y \in S : x <= y
  <2>1. \A y \in S : n + 1 - y <= n + 1 - x
    BY <1>4, <1>6
  <2>. QED BY <1>3, <2>1
<1>8. Min(S) = CHOOSE y \in S : \A z \in S : y <= z
  BY Zenon DEF Min
<1>9. Min(S) \in S
  BY <1>7, <1>8
<1>. QED BY <1>1, <1>2, <1>3, <1>9

\* A plain message that is assigned a type made for another is described by it.
LEMMA MatchDescribes ==
  ASSUME Numbered(types, messageTypes), Complete(types, messageTypes, assigned),
         NEW ams, NEW n \in Nat,
         \A i \in 1 .. n : \E l \in Messages : ams[i] = AminoOf(l),
         DOMAIN ams = 1 .. n, Len(assigned) < n,
         Originated(types, ams, messageTypes, assigned), Displays(types, ams, assigned),
         NEW m, ams[Len(assigned) + 1] = m, NEW i \in Fits(m), i \in 1 .. Len(messageTypes),
         CompareValues(m.value, ValueKey(messageTypes[i])) # "throws",
         assigned' = Append(assigned, messageTypes[i])
  PROVE  Displays(types, ams, assigned')
<1>1. PICK asg : asg = assigned'
  OBVIOUS
<1>2. PICK k : k = messageTypes[i]
  OBVIOUS
<1>3. /\ k \in DOMAIN types /\ assigned \in Seq(DOMAIN types)
  BY <1>2, ElementOfSeq DEF Complete
<1>4. /\ Len(asg) = Len(assigned) + 1 /\ Len(assigned) \in Nat
      /\ asg[Len(assigned) + 1] = k
      /\ \A j \in 1 .. Len(assigned) : asg[j] = assigned[j]
  BY <1>1, <1>2, <1>3, AppendProperties
<1>5. PICK j \in 1 .. Len(assigned) :
        ams[j].type.name = k.of /\ Typed(types, ams[j].value, Key(types[k].value))
  BY <1>2 DEF Originated
<1>6. j \in 1 .. n /\ Len(assigned) + 1 \in 1 .. n
  BY <1>4
<1>7. PICK l \in Messages : ams[j] = AminoOf(l)
  BY <1>6
<1>8. PICK o \in Messages : m = AminoOf(o)
  BY <1>6
<1>9. PICK v : v = m.value
  OBVIOUS
<1>10. PICK w : w = ams[j].value
  OBVIOUS
<1>11. v = ToAmino(o.value) /\ w = ToAmino(l.value) /\ m.type = o.type /\ ams[j].type = l.type
  BY <1>7, <1>8, <1>9, <1>10 DEF AminoOf
<1>12. IsTree(v) /\ IsTree(w)
  BY <1>11, MessageFacts
<1>13. Includes(l.type.name, o.type.name)
  <2>1. Includes(messageTypes[i].of, m.type.name)
    BY DEF Fits
  <2>. QED BY <1>2, <1>5, <1>11, <2>1
<1>14. ASSUME PlainNames(ams, m.type.name) PROVE Typed(types, v, Key(types[k].value))
  <2>1. Plain(w)
    BY <1>6, <1>10, <1>11, <1>13, <1>14 DEF PlainNames
  <2>2. Plain(v)
    <3>1. Includes(m.type.name, m.type.name)
      BY <1>11, MessageFacts
    <3>2. Includes(ams[Len(assigned) + 1].type.name, m.type.name)
      BY <3>1
    <3>. QED BY <1>6, <1>9, <1>14, <3>2 DEF PlainNames
  <2>3. SameKinds(v, w)
    BY <1>11, <1>13, KindsOfNames
  <2>4. TypesNamed
    BY DEF TypesNamed, Numbered
  <2>5. PICK key : key = Key(types[k].value)
    OBVIOUS
  <2>6. Matches(CompareValues(v, key))
    <3>1. key = ValueKey(messageTypes[i])
      BY <1>2, <2>5 DEF ValueKey
    <3>2. CompareValues(v, key) # "differs"
      BY <1>9, <3>1 DEF Fits
    <3>3. CompareValues(v, key) # "throws"
      BY <1>9, <3>1
    <3>. QED BY <3>2, <3>3 DEF Matches
  <2>7. PICK as : TypesOf(types, as, w, key)
    BY <1>5, <1>10, <2>5 DEF Typed
  <2>8. PICK at : TypesOf(types, at, v, key)
    BY <1>12, <2>1, <2>2, <2>3, <2>4, <2>6, <2>7, MatchedIsTyped
  <2>9. at \in [Displayed(v) -> DOMAIN types]
    BY <2>8 DEF TypesOf
  <2>. QED BY <2>5, <2>8, <2>9 DEF Typed
<1>15. ASSUME NEW h \in 1 .. Len(asg), PlainNames(ams, ams[h].type.name)
       PROVE  Typed(types, ams[h].value, Key(types[asg[h]].value))
  <2>1. CASE h \in 1 .. Len(assigned)
    BY <1>4, <1>15, <2>1 DEF Displays
  <2>2. CASE h = Len(assigned) + 1
    BY <1>4, <1>9, <1>14, <1>15, <2>2
  <2>. QED BY <1>4, <2>1, <2>2
<1>16. Displays(types, ams, asg)
  BY <1>15 DEF Displays
<1>. QED BY <1>1, <1>16

-----------------------------------------------------------------------------
(* Steps *)

LEMMA AskedMessages ==
  ASSUME MessagesInv
  PROVE  /\ msgs \in Seq(Messages) /\ \A i \in 1 .. Len(msgs) : msgs[i] \in Messages
         /\ DOMAIN amino = 1 .. Len(amino) /\ Len(amino) \in Nat /\ Len(msgs) \in Nat
         /\ \A i \in 1 .. Len(amino) :
              /\ i \in 1 .. Len(msgs) /\ amino[i] = AminoOf(msgs[i])
              /\ \E l \in Messages : amino[i] = AminoOf(l)
              /\ IsTree(amino[i].value)
<1>1. msgs \in Seq(Messages)
  BY Eip712Assumption DEF MessagesInv
<1>2. \A i \in 1 .. Len(msgs) : msgs[i] \in Messages
  BY <1>1, ElementOfSeq
<1>3. /\ DOMAIN amino = 1 .. Len(amino) /\ Len(amino) \in Nat /\ Len(msgs) \in Nat
      /\ Len(amino) <= Len(msgs)
  BY <1>1 DEF MessagesInv
<1>4. ASSUME NEW i \in 1 .. Len(amino)
      PROVE  /\ i \in 1 .. Len(msgs) /\ amino[i] = AminoOf(msgs[i])
             /\ \E l \in Messages : amino[i] = AminoOf(l)
             /\ IsTree(amino[i].value)
  <2>1. i \in 1 .. Len(msgs) /\ amino[i] = AminoOf(msgs[i])
    BY <1>3 DEF MessagesInv
  <2>2. PICK l \in Messages : amino[i] = AminoOf(l)
    BY <1>2, <2>1
  <2>3. IsTree(ToAmino(l.value)) /\ amino[i].value = ToAmino(l.value)
    BY <2>2, MessageFacts DEF AminoOf
  <2>. QED BY <2>1, <2>2, <2>3
<1>. QED BY <1>1, <1>2, <1>3, <1>4

\* What getTypes() does with a message: it gives up, defines a type or uses one again.
LEMMA TypeNextCases ==
  ASSUME messageTypes \in Seq(DOMAIN types), TypeNext
  PROVE  /\ phase = "typing" /\ Len(assigned) < Len(amino) /\ UNCHANGED <<msgs, amino, body>>
         /\ \E m :
              /\ m = amino[Len(assigned) + 1]
              /\ \/ phase' = "failed" /\ UNCHANGED <<types, messageTypes, assigned>>
                 \/ ~Throws(m.value) /\ Defines(m)
                 \/ /\ ~Throws(m.value) /\ UNCHANGED <<phase, types, messageTypes>>
                    /\ \E i \in Fits(m) :
                         /\ i \in 1 .. Len(messageTypes)
                         /\ CompareValues(m.value, ValueKey(messageTypes[i])) # "throws"
                         /\ assigned' = Append(assigned, messageTypes[i])
<1>1. PICK m : m = amino[Len(assigned) + 1]
  OBVIOUS
<1>2. /\ phase = "typing" /\ Len(assigned) < Len(amino) /\ UNCHANGED <<msgs, amino, body>>
      /\ TypeFirst(m) \/ TypeMatched(m) \/ TypeAgain(m) \/ TypeFails(m)
  BY <1>1, Zenon DEF TypeNext
<1>3. CASE TypeFirst(m) \/ TypeAgain(m)
  <2>1. ~Throws(m.value) /\ Defines(m)
    BY <1>3, Zenon DEF TypeFirst, TypeAgain, UrlThrows
  <2>. QED BY <1>1, <1>2, <2>1, Zenon
<1>4. CASE TypeFails(m)
  <2>1. phase' = "failed" /\ UNCHANGED <<types, messageTypes, assigned>>
    BY <1>4, Zenon DEF TypeFails, GivesUp
  <2>. QED BY <1>1, <1>2, <2>1, Zenon
<1>5. CASE TypeMatched(m)
  <2>1. PICK i : i = Min(Fits(m))
    OBVIOUS
  <2>2. i \in Fits(m) /\ i \in 1 .. Len(messageTypes)
    BY <1>5, <2>1, FirstFit DEF TypeMatched
  <2>3. /\ ~Throws(m.value)
        /\ IF CompareValues(m.value, ValueKey(messageTypes[i])) = "throws" THEN GivesUp
           ELSE assigned' = Append(assigned, messageTypes[i]) /\ UNCHANGED <<phase, types, messageTypes>>
    BY <1>5, <2>1, Zenon DEF TypeMatched, UrlThrows
  <2>4. CASE CompareValues(m.value, ValueKey(messageTypes[i])) = "throws"
    <3>1. phase' = "failed" /\ UNCHANGED <<types, messageTypes, assigned>>
      BY <2>3, <2>4, Zenon DEF GivesUp
    <3>. QED BY <1>1, <1>2, <3>1, Zenon
  <2>5. CASE CompareValues(m.value, ValueKey(messageTypes[i])) # "throws"
    <3>1. /\ ~Throws(m.value) /\ UNCHANGED <<phase, types, messageTypes>>
          /\ assigned' = Append(assigned, messageTypes[i])
      BY <2>3, <2>5, Zenon
    <3>. QED BY <1>1, <1>2, <2>2, <2>5, <3>1, Zenon
  <2>. QED BY <2>4, <2>5, Zenon
<1>. QED BY <1>2, <1>3, <1>4, <1>5, Zenon

\* A message more is assigned a type, or none.
LEMMA TypeNextAssigns ==
  ASSUME Complete(types, messageTypes, assigned), TypeNext
  PROVE  \/ assigned' = assigned /\ phase' = "failed"
         \/ /\ phase' = phase /\ Len(assigned) \in Nat /\ Len(assigned') = Len(assigned) + 1
            /\ ~Throws(amino[Len(assigned) + 1].value)
<1>1. messageTypes \in Seq(DOMAIN types) /\ assigned \in Seq(DOMAIN types)
  BY DEF Complete
<1>2. PICK m :
        /\ m = amino[Len(assigned) + 1]
        /\ \/ phase' = "failed" /\ UNCHANGED <<types, messageTypes, assigned>>
           \/ ~Throws(m.value) /\ Defines(m)
           \/ /\ ~Throws(m.value) /\ UNCHANGED <<phase, types, messageTypes>>
              /\ \E i \in Fits(m) :
                   /\ i \in 1 .. Len(messageTypes)
                   /\ CompareValues(m.value, ValueKey(messageTypes[i])) # "throws"
                   /\ assigned' = Append(assigned, messageTypes[i])
  BY <1>1, TypeNextCases, Zenon
<1>3. ASSUME NEW x PROVE Len(Append(assigned, x)) = Len(assigned) + 1 /\ Len(assigned) \in Nat
  <2>1. assigned \in Seq(DOMAIN types \cup {x})
    BY <1>1, SeqMonotonic
  <2>. QED BY <2>1, AppendProperties
<1>4. CASE phase' = "failed" /\ UNCHANGED <<types, messageTypes, assigned>>
  BY <1>4
<1>5. CASE ~Throws(m.value) /\ Defines(m)
  <2>1. phase' = phase /\ \E x : assigned' = Append(assigned, x)
    BY <1>5, Zenon DEF Defines
  <2>. QED BY <1>2, <1>3, <1>5, <2>1
<1>6. CASE /\ ~Throws(m.value) /\ UNCHANGED <<phase, types, messageTypes>>
           /\ \E i \in Fits(m) :
                /\ i \in 1 .. Len(messageTypes)
                /\ CompareValues(m.value, ValueKey(messageTypes[i])) # "throws"
                /\ assigned' = Append(assigned, messageTypes[i])
  <2>1. phase' = phase /\ \E x : assigned' = Append(assigned, x)
    BY <1>6, Zenon
  <2>. QED BY <1>2, <1>3, <1>6, <2>1
<1>. QED BY <1>2, <1>4, <1>5, <1>6, Zenon

LEMMA InitInv == Init => IInv
<1> SUFFICES ASSUME Init PROVE IInv
  OBVIOUS
<1>1. Len(<<>>) = 0 /\ DOMAIN <<>> = {} /\ \A S : <<>> \in Seq(S)
  BY EmptySeq
<1>2. Len(msgs) \in Nat
  BY Eip712Assumption DEF Init
<1>3. MessagesInv
  BY <1>1, <1>2 DEF Init, MessagesInv
<1>4. Numbered(types, messageTypes)
  BY <1>1, FS_EmptySet DEF Init, Numbered
<1>5. Complete(types, messageTypes, assigned)
  BY <1>1 DEF Init, Complete
<1>6. Originated(types, amino, messageTypes, assigned) /\ Displays(types, amino, assigned)
  BY <1>1 DEF Init, Originated, Displays
<1>7. BodyInv
  BY <1>1 DEF Init, BodyInv, LostOnlyForListsOrDates
<1>. QED BY <1>3, <1>4, <1>5, <1>6, <1>7 DEF IInv, TypesInv

LEMMA MessagesStep ==
  ASSUME MessagesInv, Complete(types, messageTypes, assigned), Next
  PROVE  MessagesInv'
<1>0. Len(assigned) \in Nat /\ Len(<<>>) = 0
  BY DEF Complete
<1>1. CASE Convert
  <2>1. PICK m : m = msgs[Len(amino) + 1]
    OBVIOUS
  <2>2. /\ phase = "converting" /\ Len(amino) < Len(msgs) /\ assigned = <<>>
        /\ UNCHANGED <<msgs, types, messageTypes, assigned, body>>
        /\ IF Throws(m.value) THEN phase' = "failed" /\ UNCHANGED amino
           ELSE amino' = Append(amino, [m EXCEPT !.value = ToAmino(@)]) /\ UNCHANGED phase
    BY <1>1, <2>1 DEF Convert, MessagesInv
  <2>3. CASE Throws(m.value)
    BY <1>0, <2>2, <2>3 DEF MessagesInv
  <2>4. CASE ~Throws(m.value)
    <3>1. m \in Messages /\ Len(amino) \in Nat /\ Len(msgs) \in Nat
      BY <2>1, <2>2, AskedMessages
    <3>2. [m EXCEPT !.value = ToAmino(@)] = AminoOf(m)
      <4>1. m = [type |-> m.type, value |-> m.value]
        BY <3>1, MessageFacts
      <4>. QED BY <4>1 DEF AminoOf
    <3>3. AminoOf(m) \in AminoMessages /\ amino \in Seq(AminoMessages)
      BY <3>1 DEF AminoMessages, MessagesInv
    <3>4. amino' = Append(amino, AminoOf(m)) /\ phase' = phase
      BY <2>2, <2>4, <3>2
    <3>5. /\ amino' \in Seq(AminoMessages) /\ Len(amino') = Len(amino) + 1
          /\ \A i \in 1 .. Len(amino) : amino'[i] = amino[i]
          /\ amino'[Len(amino) + 1] = AminoOf(m)
      BY <3>3, <3>4, AppendProperties
    <3>6. ASSUME NEW i \in 1 .. Len(amino') PROVE amino'[i] = AminoOf(msgs[i]) /\ ~Throws(msgs[i].value)
      <4>1. i \in 1 .. Len(amino) \/ i = Len(amino) + 1
        BY <3>1, <3>5
      <4>. QED BY <2>1, <2>4, <3>5, <4>1 DEF MessagesInv
    <3>. QED BY <1>0, <2>2, <3>1, <3>4, <3>5, <3>6 DEF MessagesInv
  <2>. QED BY <2>3, <2>4
<1>2. CASE Converted
  BY <1>2 DEF Converted, MessagesInv
<1>3. CASE TypeNext
  <2>1. phase = "typing" /\ Len(assigned) < Len(amino) /\ UNCHANGED <<msgs, amino, body>>
    BY <1>3 DEF TypeNext
  <2>2. CASE assigned' = assigned /\ phase' = "failed"
    BY <2>1, <2>2 DEF MessagesInv
  <2>3. CASE /\ phase' = phase /\ Len(assigned') = Len(assigned) + 1
             /\ ~Throws(amino[Len(assigned) + 1].value)
    <3>1. Len(amino) \in Nat
      BY AskedMessages
    <3>2. ASSUME NEW i \in 1 .. Len(assigned') PROVE ~Throws(amino[i].value)
      <4>1. i \in 1 .. Len(assigned) \/ i = Len(assigned) + 1
        BY <1>0, <2>3
      <4>. QED BY <2>3, <4>1 DEF MessagesInv
    <3>. QED BY <1>0, <2>1, <2>3, <3>1, <3>2 DEF MessagesInv
  <2>. QED BY <1>3, <2>2, <2>3, TypeNextAssigns
<1>4. CASE Decides
  BY <1>4 DEF Decides, MessagesInv
<1>5. CASE KeepsBody
  BY <1>5 DEF KeepsBody, MessagesInv
<1>6. CASE ConvertBack
  <2>1. phase = "signed" /\ phase' \in {"signed", "lost"}
        /\ UNCHANGED <<msgs, amino, types, messageTypes, assigned>>
    BY <1>6, Zenon DEF ConvertBack
  <2>. QED BY <2>1 DEF MessagesInv
<1>7. CASE Encode
  <2>1. phase = "signed" /\ phase' \in {"done", "lost"}
        /\ UNCHANGED <<msgs, amino, types, messageTypes, assigned, body>>
    BY <1>7, Zenon DEF Encode
  <2>. QED BY <2>1 DEF MessagesInv
<1>. QED BY <1>1, <1>2, <1>3, <1>4, <1>5, <1>6, <1>7 DEF Next

\* Definitions stay what they are, and every message assigned a type keeps it.
LEMMA TypesStep ==
  ASSUME MessagesInv, TypesInv, Next
  PROVE  TypesInv' /\ \A k \in DOMAIN types : k \in DOMAIN types' /\ types'[k] = types[k]
<1>0. /\ Numbered(types, messageTypes) /\ Complete(types, messageTypes, assigned)
      /\ Originated(types, amino, messageTypes, assigned) /\ Displays(types, amino, assigned)
      /\ messageTypes \in Seq(DOMAIN types) /\ Len(assigned) \in Nat
  BY DEF TypesInv, Complete
<1>1. ASSUME UNCHANGED <<amino, types, messageTypes, assigned>>
      PROVE TypesInv' /\ \A k \in DOMAIN types : k \in DOMAIN types' /\ types'[k] = types[k]
  BY <1>0, <1>1 DEF TypesInv
<1>2. CASE Convert
  <2>1. assigned = <<>> /\ UNCHANGED <<types, messageTypes, assigned>>
    BY <1>2 DEF Convert, MessagesInv
  <2>2. PICK ams : ams = amino'
    OBVIOUS
  <2>3. Len(assigned) = 0 /\ Len(messageTypes) \in Nat /\ Len(messageTypes) <= 0
    BY <1>0, <2>1 DEF Complete
  <2>4. Originated(types, ams, messageTypes, assigned) /\ Displays(types, ams, assigned)
    BY <2>3 DEF Originated, Displays
  <2>. QED BY <1>0, <2>1, <2>2, <2>4 DEF TypesInv
<1>3. CASE TypeNext
  <2>1. PICK m :
          /\ m = amino[Len(assigned) + 1] /\ Len(assigned) < Len(amino)
          /\ UNCHANGED <<msgs, amino, body>>
          /\ \/ phase' = "failed" /\ UNCHANGED <<types, messageTypes, assigned>>
             \/ ~Throws(m.value) /\ Defines(m)
             \/ /\ ~Throws(m.value) /\ UNCHANGED <<phase, types, messageTypes>>
                /\ \E i \in Fits(m) :
                     /\ i \in 1 .. Len(messageTypes)
                     /\ CompareValues(m.value, ValueKey(messageTypes[i])) # "throws"
                     /\ assigned' = Append(assigned, messageTypes[i])
    BY <1>0, <1>3, TypeNextCases, Zenon
  <2>2. /\ DOMAIN amino = 1 .. Len(amino) /\ Len(amino) \in Nat
        /\ \A i \in 1 .. Len(amino) :
             IsTree(amino[i].value) /\ \E l \in Messages : amino[i] = AminoOf(l)
    BY AskedMessages
  <2>3. /\ \A i \in 1 .. Len(assigned) : IsTree(amino[i].value)
        /\ \E l \in Messages : m = AminoOf(l)
    <3>1. Len(assigned) + 1 \in 1 .. Len(amino) /\ \A i \in 1 .. Len(assigned) : i \in 1 .. Len(amino)
      BY <1>0, <2>1, <2>2
    <3>. QED BY <2>1, <2>2, <3>1
  <2>4. CASE phase' = "failed" /\ UNCHANGED <<types, messageTypes, assigned>>
    BY <1>1, <2>1, <2>4
  <2>5. CASE Defines(m)
    <3>1. PICK l \in Messages : m = AminoOf(l)
      BY <2>3
    <3>2. Numbered(types', messageTypes')
      BY <1>0, <2>5, <3>1, DefinesNumbers
    <3>3. Complete(types', messageTypes', assigned')
      BY <1>0, <2>5, <3>1, DefinesCompletes
    <3>4. PICK ams : ams = amino
      OBVIOUS
    <3>5. /\ Originated(types, ams, messageTypes, assigned) /\ Displays(types, ams, assigned)
          /\ \A i \in 1 .. Len(assigned) : IsTree(ams[i].value)
          /\ ams[Len(assigned) + 1] = m
      BY <1>0, <2>1, <2>3, <3>4
    <3>6. Originated(types', ams, messageTypes', assigned') /\ Displays(types', ams, assigned')
      BY <1>0, <2>5, <3>1, <3>5, DefinesDescribes
    <3>7. \E key, values :
            /\ DOMAIN types' = DOMAIN values \cup {key} \cup DOMAIN types
            /\ \A k \in DOMAIN types : types'[k] = types[k]
      <4>1. \E key, values :
              /\ key.of = m.type.name /\ key.n = Counted(DOMAIN types, m.type.name)
              /\ values = ValueTypes(m.value)
              /\ DOMAIN types' = DOMAIN values \cup {key} \cup DOMAIN types
              /\ (DOMAIN values \cup {key}) \cap DOMAIN types = {}
              /\ \A k \in DOMAIN types : types'[k] = types[k]
        BY <1>0, <2>5, <3>1, DefinesAdds, Zenon
      <4>. QED BY <4>1, Zenon
    <3>8. \A k \in DOMAIN types : k \in DOMAIN types' /\ types'[k] = types[k]
      BY <3>7
    <3>9. amino' = ams
      BY <2>1, <3>4
    <3>. QED BY <3>2, <3>3, <3>6, <3>8, <3>9 DEF TypesInv
  <2>6. CASE /\ UNCHANGED <<phase, types, messageTypes>>
             /\ \E i \in Fits(m) :
                  /\ i \in 1 .. Len(messageTypes)
                  /\ CompareValues(m.value, ValueKey(messageTypes[i])) # "throws"
                  /\ assigned' = Append(assigned, messageTypes[i])
    <3>1. PICK i \in Fits(m) :
            /\ i \in 1 .. Len(messageTypes)
            /\ CompareValues(m.value, ValueKey(messageTypes[i])) # "throws"
            /\ assigned' = Append(assigned, messageTypes[i])
      BY <2>6
    <3>2. PICK ams : ams = amino
      OBVIOUS
    <3>3. PICK n : n = Len(amino)
      OBVIOUS
    <3>4. /\ n \in Nat
          /\ \A j \in 1 .. n : \E l \in Messages : ams[j] = AminoOf(l)
          /\ DOMAIN ams = 1 .. n /\ Len(assigned) < n /\ ams[Len(assigned) + 1] = m
          /\ Originated(types, ams, messageTypes, assigned) /\ Displays(types, ams, assigned)
      BY <1>0, <2>1, <2>2, <3>2, <3>3
    <3>5. Displays(types, ams, assigned')
      BY <1>0, <3>1, <3>4, MatchDescribes
    <3>6. PICK k : k = messageTypes[i]
      OBVIOUS
    <3>7. assigned \in Seq(DOMAIN types) /\ k \in DOMAIN types /\ assigned' = Append(assigned, k)
      BY <1>0, <3>1, <3>6, ElementOfSeq DEF Complete
    <3>8. PICK asg : asg = assigned'
      OBVIOUS
    <3>9. /\ asg \in Seq(DOMAIN types) /\ Len(asg) = Len(assigned) + 1
          /\ Range(asg) = Range(assigned) \cup {k}
      BY <3>7, <3>8, AppendProperties, RangeOfAppend
    <3>10. k \in Range(messageTypes)
      BY <1>0, <3>1, <3>6 DEF Range
    <3>11. Complete(types, messageTypes, asg)
      <4>1. Range(asg) = Range(messageTypes)
        BY <1>0, <3>9, <3>10 DEF Complete
      <4>2. Len(messageTypes) <= Len(asg)
        BY <1>0, <3>9 DEF Complete
      <4>. QED BY <1>0, <3>9, <4>1, <4>2 DEF Complete
    <3>12. Originated(types, ams, messageTypes, asg)
      <4>1. \A j \in 1 .. Len(assigned) : j \in 1 .. Len(asg)
        BY <1>0, <3>9
      <4>. QED BY <3>4, <4>1 DEF Originated
    <3>13. amino' = ams /\ types' = types /\ messageTypes' = messageTypes
      BY <2>1, <2>6, <3>2
    <3>. QED BY <1>0, <3>5, <3>8, <3>11, <3>12, <3>13 DEF TypesInv
  <2>. QED BY <2>1, <2>4, <2>5, <2>6, Zenon
<1>4. CASE Converted \/ Decides \/ KeepsBody \/ ConvertBack \/ Encode
  <2>1. UNCHANGED <<amino, types, messageTypes, assigned>>
    BY <1>4, Zenon DEF Converted, Decides, KeepsBody, ConvertBack, Encode
  <2>. QED BY <1>1, <2>1
<1>. QED BY <1>2, <1>3, <1>4 DEF Next

\* A list that comes back as something else was empty.
LEMMA LostList ==
  ASSUME NEW v, IsTree(v), NEW u, u = FromAmino(ToAmino(v)),
         NEW p \in DOMAIN u, v[p] = ItemList, u[p] # ItemList
  PROVE  p \in DOMAIN v /\ Len(p) = 1 /\ IsEmptyList(v, p)
<1>1. PICK w : w = ToAmino(v)
  OBVIOUS
<1>2. DOMAIN u = DOMAIN w
  BY <1>1, BackNodes
<1>3. p \in DOMAIN w /\ p \in DOMAIN v /\ w[p] = ItemList
  BY <1>1, <1>2, AminoKinds
<1>4. FromAminoParam(ItemList) = ItemList
  BY DEF FromAminoParam, ItemList, ZeroDec, Fraction, Node
<1>5. Len(p) = 1 /\ IsEmptyList(w, p)
  <2>1. ~(Len(p) = 1 /\ IsEmptyList(w, p)) => u[p] = FromAminoParam(w[p])
    BY <1>1, <1>3, BackNodes
  <2>. QED BY <1>3, <1>4, <2>1
<1>. QED BY <1>1, <1>3, <1>5, ListsKeepItems

\* A date comes back as the text it has become.
LEMMA DatesAreLost ==
  ASSUME NEW v, IsTree(v), NEW u, u = FromAmino(ToAmino(v)),
         NEW p \in DOMAIN u, v[p] = Date
  PROVE  u[p] # Date
<1>1. PICK w : w = ToAmino(v)
  OBVIOUS
<1>2. p \in DOMAIN w /\ w[p] = ToAminoParam(v[p])
  BY <1>1, BackNodes, AminoNodes
<1>3. w[p] = DateText /\ FromAminoParam(DateText) = DateText /\ DateText \notin {Date, ItemList}
  BY <1>2 DEF ToAminoParam, FromAminoParam, Date, DateText, ZeroDec, Fraction, ItemList, Node
<1>4. ~IsEmptyList(w, p)
  BY <1>3 DEF IsEmptyList
<1>. QED BY <1>1, <1>2, <1>3, <1>4, BackNodes

LEMMA BodyStep ==
  ASSUME MessagesInv, BodyInv, Next
  PROVE  BodyInv'
<1> DEFINE Backs == {BackOf(m) : m \in AminoMessages}
           Converting == /\ body \in Seq(Backs) /\ Len(body) <= Len(amino)
                         /\ \A i \in 1 .. Len(body) : body[i] = BackOf(amino[i])
<1>0. Len(amino) \in Nat /\ \A i \in 1 .. Len(amino) : amino[i] \in AminoMessages
  BY AskedMessages DEF AminoMessages
<1>1. phase # "done" => Converting
  BY DEF BodyInv
<1> HIDE DEF Backs
\* Nothing but the steps after signing touches the body.
<1>2. CASE Convert
  <2>1. /\ phase = "converting" /\ phase' \in {"converting", "failed"} /\ body' = body
        /\ msgs' = msgs
        /\ amino' = amino \/ \E x : amino' = Append(amino, x)
    BY <1>2, Zenon DEF Convert
  <2>2. Len(amino') >= Len(amino) /\ \A i \in 1 .. Len(amino) : amino'[i] = amino[i]
    <3>1. ASSUME NEW x, amino' = Append(amino, x)
          PROVE Len(amino') >= Len(amino) /\ \A i \in 1 .. Len(amino) : amino'[i] = amino[i]
      <4>1. PICK s : s = amino
        OBVIOUS
      <4>2. s \in Seq(AminoMessages \cup {x})
        BY <4>1, SeqMonotonic DEF MessagesInv
      <4>3. /\ Len(Append(s, x)) = Len(s) + 1 /\ Len(s) \in Nat
            /\ \A i \in 1 .. Len(s) : Append(s, x)[i] = s[i]
        BY <4>2, AppendProperties
      <4>. QED BY <3>1, <4>1, <4>3
    <3>. QED BY <1>0, <2>1, <3>1
  <2>3. Converting'
    <3>1. Len(body) \in Nat /\ Len(body) <= Len(amino') /\ \A i \in 1 .. Len(body) : i \in 1 .. Len(amino)
      BY <1>0, <1>1, <2>1, <2>2
    <3>2. PICK ams : ams = amino'
      OBVIOUS
    <3>3. \A i \in 1 .. Len(body) : body[i] = BackOf(ams[i])
      BY <1>1, <2>1, <2>2, <3>1, <3>2
    <3>4. body \in Seq(Backs) /\ Len(body) <= Len(ams)
      BY <1>1, <2>1, <3>1, <3>2
    <3>. QED BY <2>1, <3>2, <3>3, <3>4
  <2>. QED BY <2>1, <2>3 DEF BodyInv, LostOnlyForListsOrDates, Backs
<1>3. CASE Converted \/ TypeNext \/ Decides
  <2>1. /\ phase # "done" /\ UNCHANGED <<msgs, amino, body>> /\ phase' \notin {"done", "lost"}
    <3>1. CASE Converted
      BY <3>1 DEF Converted
    <3>2. CASE Decides
      BY <3>2 DEF Decides
    <3>3. CASE TypeNext
      <4>1. phase = "typing" /\ UNCHANGED <<msgs, amino, body>>
        BY <3>3, Zenon DEF TypeNext
      <4>2. phase' = phase \/ phase' = "failed"
        BY <3>3, Zenon DEF TypeNext, TypeFirst, TypeMatched, TypeAgain, TypeFails, Defines, GivesUp
      <4>. QED BY <4>1, <4>2
    <3>. QED BY <1>3, <3>1, <3>2, <3>3
  <2>. QED BY <1>1, <2>1 DEF BodyInv, LostOnlyForListsOrDates, Backs
<1>4. CASE KeepsBody
  BY <1>4 DEF KeepsBody, BodyInv, LostOnlyForListsOrDates
<1>5. CASE ConvertBack
  <2>1. PICK m : m = amino[Len(body) + 1]
    OBVIOUS
  <2>2. /\ phase = "signed" /\ Len(body) < Len(amino)
        /\ UNCHANGED <<msgs, amino, types, messageTypes, assigned>>
        /\ IF Throws(m.value) THEN phase' = "lost" /\ UNCHANGED body
           ELSE body' = Append(body, [m EXCEPT !.value = FromAmino(@)]) /\ UNCHANGED phase
    BY <1>5, <2>1, Zenon DEF ConvertBack
  <2>3. Converting /\ Len(body) \in Nat
    BY <1>1, <2>2
  <2>4. Len(body) + 1 \in 1 .. Len(amino)
    BY <1>0, <2>2, <2>3
\* Every message signed was converted without an error before.
  <2>5. ~Throws(m.value)
    <3>1. Len(assigned) = Len(amino)
      BY <2>2 DEF MessagesInv
    <3>. QED BY <2>1, <2>4, <3>1 DEF MessagesInv
  <2>6. m \in AminoMessages /\ [m EXCEPT !.value = FromAmino(@)] = BackOf(m)
    <3>1. m \in AminoMessages
      BY <1>0, <2>1, <2>4
    <3>2. m = [type |-> m.type, value |-> m.value]
      BY <3>1 DEF AminoMessages, AminoOf
    <3>. QED BY <3>1, <3>2 DEF BackOf
  <2>7. body' = Append(body, BackOf(m)) /\ phase' = "signed" /\ BackOf(m) \in Backs
    BY <2>2, <2>5, <2>6 DEF Backs
  <2>8. /\ body' \in Seq(Backs) /\ Len(body') = Len(body) + 1
        /\ \A i \in 1 .. Len(body) : body'[i] = body[i]
        /\ body'[Len(body) + 1] = BackOf(m)
    BY <2>3, <2>7, AppendProperties
  <2>9. ASSUME NEW i \in 1 .. Len(body') PROVE body'[i] = BackOf(amino[i])
    <3>1. i \in 1 .. Len(body) \/ i = Len(body) + 1
      BY <2>3, <2>8
    <3>. QED BY <2>1, <2>3, <2>8, <3>1
  <2>10. Len(body') <= Len(amino)
    BY <1>0, <2>2, <2>3, <2>8
  <2>11. Converting'
    BY <2>2, <2>8, <2>9, <2>10
  <2>. QED BY <2>2, <2>7, <2>11 DEF BodyInv, LostOnlyForListsOrDates, Backs
<1>6. CASE Encode
  <2>1. /\ phase = "signed" /\ Len(body) = Len(amino)
        /\ UNCHANGED <<msgs, amino, types, messageTypes, assigned, body>>
        /\ phase' = IF \A i \in DOMAIN body : Encodes(i) THEN "done" ELSE "lost"
    BY <1>6, Zenon DEF Encode
  <2>2. Converting /\ DOMAIN body = 1 .. Len(body)
    BY <1>1, <2>1
  <2>3. CASE \A i \in DOMAIN body : Encodes(i)
    <3>1. phase' = "done" /\ \A i \in 1 .. Len(body) : Encodes(i)
      BY <2>1, <2>2, <2>3
    <3>2. \A i \in 1 .. Len(body) : Encodes(i)'
      BY <2>1, <3>1 DEF Encodes
    <3>. QED BY <2>1, <2>2, <3>1, <3>2 DEF BodyInv, LostOnlyForListsOrDates, Backs
  <2>4. CASE ~ \A i \in DOMAIN body : Encodes(i)
    <3>1. PICK i \in 1 .. Len(body) : ~Encodes(i)
      BY <2>2, <2>4
    <3>2. PICK p \in DOMAIN body[i].value :
            \/ msgs[i].value[p] = ItemList /\ body[i].value[p] # ItemList
            \/ msgs[i].value[p] = Date
      BY <3>1 DEF Encodes
    <3>3. PICK v : v = msgs[i].value
      OBVIOUS
    <3>4. PICK u : u = body[i].value
      OBVIOUS
    <3>5. /\ i \in 1 .. Len(amino) /\ i \in DOMAIN msgs /\ msgs[i] \in Messages
          /\ amino[i] = AminoOf(msgs[i])
      <4>1. i \in 1 .. Len(amino)
        BY <2>1
      <4>2. i \in 1 .. Len(msgs) /\ amino[i] = AminoOf(msgs[i]) /\ msgs \in Seq(Messages)
        BY <4>1, AskedMessages
      <4>. QED BY <4>1, <4>2, ElementOfSeq
    <3>6. u = FromAmino(ToAmino(v)) /\ IsTree(v)
      <4>1. body[i] = BackOf(amino[i])
        BY <2>2
      <4>2. body[i].value = FromAmino(amino[i].value) /\ amino[i].value = ToAmino(msgs[i].value)
        BY <3>5, <4>1 DEF BackOf, AminoOf
      <4>. QED BY <3>3, <3>4, <3>5, <4>2, MessageFacts
    <3>7. p \in DOMAIN v /\ ((Len(p) = 1 /\ IsEmptyList(v, p)) \/ v[p] = Date)
      <4>1. p \in DOMAIN u /\ p \in DOMAIN v
        BY <3>2, <3>4, <3>6, BackNodes, AminoNodes
      <4>2. CASE v[p] = ItemList /\ u[p] # ItemList
        BY <3>6, <4>1, <4>2, LostList
      <4>3. CASE v[p] = Date
        BY <4>1, <4>3
      <4>. QED BY <3>2, <3>3, <3>4, <4>2, <4>3
    <3>8. LostOnlyForListsOrDates'
      BY <2>1, <3>3, <3>5, <3>7 DEF LostOnlyForListsOrDates
    <3>9. phase' = "lost"
      BY <2>1, <2>4
    <3>. QED BY <2>1, <2>2, <3>8, <3>9 DEF BodyInv, Backs
  <2>. QED BY <2>3, <2>4
<1>. QED BY <1>2, <1>3, <1>4, <1>5, <1>6 DEF Next

-----------------------------------------------------------------------------
(* Theorems *)

LEMMA Inductive == Spec => []IInv
<1>1. IInv /\ [Next]_vars => IInv'
  <2> SUFFICES ASSUME IInv, [Next]_vars PROVE IInv'
    OBVIOUS
  <2>1. MessagesInv /\ TypesInv /\ BodyInv /\ Complete(types, messageTypes, assigned)
    BY DEF IInv, TypesInv
  <2>2. CASE Next
    <3>1. MessagesInv' /\ TypesInv' /\ BodyInv'
      BY <2>1, <2>2, MessagesStep, TypesStep, BodyStep
    <3>. QED BY <3>1 DEF IInv
  <2>3. CASE UNCHANGED vars
    <3>1. MessagesInv'
      BY <2>1, <2>3 DEF MessagesInv, vars
    <3>2. TypesInv'
      BY <2>1, <2>3 DEF TypesInv, vars
    <3>3. BodyInv'
      BY <2>1, <2>3 DEF BodyInv, LostOnlyForListsOrDates, Encodes, vars
    <3>. QED BY <3>1, <3>2, <3>3 DEF IInv
  <2>. QED BY <2>2, <2>3
<1>. QED BY <1>1, InitInv, PTL DEF Spec

(* The fields keep their types, and each stage handles every message before *)
(* the next one begins (the awaits and loops of signAminoEIP712()).         *)
THEOREM TypesCorrect == Spec => []TypeOK
<1>1. IInv => TypeOK
  <2> SUFFICES ASSUME IInv PROVE TypeOK
    OBVIOUS
  <2>1. MessagesInv /\ Numbered(types, messageTypes) /\ Complete(types, messageTypes, assigned)
    BY DEF IInv, TypesInv
  <2>2. \A i \in DOMAIN amino :
          /\ amino[i].type = msgs[i].type
          /\ \A p \in DOMAIN amino[i].value : amino[i].value[p] \notin {Missing, ZeroDec, Date}
    <3> SUFFICES ASSUME NEW i \in DOMAIN amino
                 PROVE  /\ amino[i].type = msgs[i].type
                        /\ \A p \in DOMAIN amino[i].value :
                             amino[i].value[p] \notin {Missing, ZeroDec, Date}
      OBVIOUS
    <3>1. PICK v : v = msgs[i].value
      OBVIOUS
    <3>2. /\ i \in 1 .. Len(amino) /\ amino[i] = AminoOf(msgs[i]) /\ msgs[i] \in Messages
      BY <2>1, AskedMessages
    <3>3. /\ amino[i].type = msgs[i].type /\ amino[i].value = ToAmino(v)
          /\ IsTree(v) /\ ~Throws(v)
      BY <2>1, <3>1, <3>2, MessageFacts DEF AminoOf, MessagesInv
    <3>4. ASSUME NEW p \in DOMAIN ToAmino(v), ToAmino(v)[p] \in {Missing, ZeroDec, Date} PROVE FALSE
      <4>1. /\ p \in DOMAIN v /\ (Len(p) = 1 => ~Zero(v[p]))
            /\ ToAmino(v)[p] = ToAminoParam(v[p])
        BY <3>3, AminoNodes
      <4>2. ToAmino(v)[p] # ZeroDec /\ ToAmino(v)[p] # Date
        BY <3>3, AminoKinds
      <4>3. v[p] = Missing
        BY <3>4, <4>1, <4>2, ToAminoKinds
      <4>4. p \in Seq(Steps) /\ v[<<>>] = Structure /\ Missing # Structure
        BY <3>3, <4>1 DEF IsTree, Missing, Structure, Node
      <4>5. Len(p) \in Nat /\ Len(p) # 0
        BY <4>3, <4>4
      <4>6. Len(p) # 1
        BY <4>1, <4>3 DEF Zero, Falsy
      <4>7. Len(p) > 1
        <5>1. PICK n : n = Len(p)
          OBVIOUS
        <5>2. n \in Nat /\ n # 0 /\ n # 1
          BY <4>5, <4>6, <5>1
        <5>3. n > 1
          BY <5>2
        <5>. QED BY <5>1, <5>3
      <4>8. \E q \in DOMAIN v : Len(q) > 1 /\ v[q] \in {Missing, Null}
        BY <4>1, <4>3, <4>7
      <4>. QED BY <3>3, <4>8, Zenon DEF Throws
    <3>. QED BY <3>3, <3>4
  <2>3. \A k \in DOMAIN types : k.n \in Nat /\ DOMAIN types[k] \subseteq FieldNames \cup {"value", "type"}
    BY <2>1 DEF Numbered, Complete
  <2>4. Len(messageTypes) <= Len(assigned) /\ Range(assigned) = Range(messageTypes)
    BY <2>1 DEF Complete
  <2>. QED BY <2>1, <2>2, <2>3, <2>4 DEF MessagesInv, TypeOK
<1>. QED BY <1>1, Inductive, PTL

(* Numbering by inclusion (getLatestMsgTypeIndex()) never gives a name that *)
(* is taken: a definition stays what it was when a message was assigned it. *)
THEOREM DefinitionsStay == Spec => TypesNeverRedefined
<1>1. IInv /\ [Next]_vars =>
        [\A k \in DOMAIN types : k \in DOMAIN types' /\ types'[k] = types[k]]_vars
  <2> SUFFICES ASSUME IInv, Next
               PROVE  \A k \in DOMAIN types : k \in DOMAIN types' /\ types'[k] = types[k]
    OBVIOUS
  <2>. QED BY TypesStep DEF IInv
<1>. QED BY <1>1, Inductive, PTL DEF Spec, TypesNeverRedefined

(* The typed data refers to no type it does not define, although the names  *)
(* of a structure's type are computed where the field is described and      *)
(* again where the structure is (getMsgValueType()).                        *)
THEOREM ReferencesDefined == Spec => []EveryTypeDefined
<1>1. IInv => EveryTypeDefined
  <2> SUFFICES ASSUME IInv PROVE EveryTypeDefined
    OBVIOUS
  <2>1. Complete(types, messageTypes, assigned)
    BY DEF IInv, TypesInv
  <2>2. Range(assigned) \subseteq DOMAIN types
    BY <2>1, ElementOfSeq DEF Complete, Range
  <2>. QED BY <2>1, <2>2 DEF Complete, EveryTypeDefined
<1>. QED BY <1>1, Inductive, PTL

(* Messages with at most one structure at every level are displayed in full *)
(* by the wallet (the comment on matchingType()), if the messages whose     *)
(* names include theirs are of that kind too.                               *)
THEOREM PlainDisplayed == Spec => []PlainMessagesDisplayed
<1>1. IInv => PlainMessagesDisplayed
  <2> SUFFICES ASSUME IInv, NEW i \in DOMAIN assigned,
                      \A j \in DOMAIN amino :
                        Includes(amino[j].type.name, amino[i].type.name) => Plain(amino[j].value)
               PROVE  DescribedBy(amino[i].value, ValueKey(assigned[i]))
    BY DEF PlainMessagesDisplayed
  <2>1. /\ MessagesInv /\ Displays(types, amino, assigned)
        /\ assigned \in Seq(DOMAIN types) /\ Len(assigned) <= Len(amino)
    BY DEF IInv, TypesInv, Complete, MessagesInv
  <2>2. i \in 1 .. Len(assigned) /\ i \in 1 .. Len(amino)
    BY <2>1, AskedMessages
  <2>3. PICK v : v = amino[i].value
    OBVIOUS
  <2>4. PICK key : key = ValueKey(assigned[i])
    OBVIOUS
  <2>5. Typed(types, v, key)
    <3>1. PlainNames(amino, amino[i].type.name)
      BY DEF PlainNames
    <3>. QED BY <2>1, <2>2, <2>3, <2>4, <3>1 DEF Displays, ValueKey
  <2>6. IsTree(v)
    BY <2>1, <2>2, <2>3, AskedMessages
  <2>7. PICK as : TypesOf(types, as, v, key)
    BY <2>5 DEF Typed
  <2>8. DescribedBy(v, key)
    BY <2>6, <2>7, TypedIsDescribed
  <2>. QED BY <2>3, <2>4, <2>8
<1>. QED BY <1>1, Inductive, PTL

(* The body that is broadcast says what the caller asked for, though it was *)
(* converted to amino, signed and converted back (toAmino(), fromAmino()):  *)
(* nothing changes but values at their zero, integers of more than a word   *)
(* and durations that are not of whole seconds.                             *)
THEOREM BodyAsAsked == Spec => []BodyIsAsAsked
<1>1. IInv => BodyIsAsAsked
  <2> SUFFICES ASSUME IInv, phase = "done"
               PROVE  /\ Len(body) = Len(msgs)
                      /\ \A i \in DOMAIN body : /\ body[i].type = msgs[i].type
                                                /\ Meaning(body[i].value) = Meaning(msgs[i].value)
    BY DEF BodyIsAsAsked
  <2>1. MessagesInv /\ BodyInv /\ Len(amino) = Len(msgs)
    BY DEF IInv, MessagesInv
  <2>2. CASE body = msgs
    BY <2>2
  <2>3. CASE /\ body \in Seq({BackOf(m) : m \in AminoMessages})
             /\ \A i \in 1 .. Len(body) : body[i] = BackOf(amino[i])
             /\ Len(body) = Len(amino) /\ \A i \in 1 .. Len(body) : Encodes(i)
    <3>1. ASSUME NEW i \in DOMAIN body
          PROVE  body[i].type = msgs[i].type /\ Meaning(body[i].value) = Meaning(msgs[i].value)
      <4>1. i \in 1 .. Len(body) /\ i \in 1 .. Len(amino)
        BY <2>3
      <4>2. amino[i] = AminoOf(msgs[i]) /\ msgs[i] \in Messages
        BY <2>1, <4>1, AskedMessages
      <4>3. PICK v : v = msgs[i].value
        OBVIOUS
      <4>4. PICK u : u = body[i].value
        OBVIOUS
      <4>5. /\ body[i].type = msgs[i].type
            /\ u = FromAmino(ToAmino(v)) /\ IsTree(v)
        <5>1. body[i] = BackOf(amino[i]) /\ IsTree(msgs[i].value)
          BY <2>3, <4>1, <4>2, MessageFacts
        <5>2. amino[i].type = msgs[i].type /\ amino[i].value = ToAmino(v)
          BY <4>2, <4>3 DEF AminoOf
        <5>3. body[i].type = amino[i].type /\ u = FromAmino(amino[i].value)
          BY <4>4, <5>1 DEF BackOf
        <5>. QED BY <4>3, <5>1, <5>2, <5>3
      <4>6. \A p \in DOMAIN u : /\ v[p] = ItemList => u[p] = ItemList
                                /\ v[p] = Date => u[p] = Date
        BY <2>3, <4>1, <4>3, <4>4 DEF Encodes
      <4>7. ASSUME NEW p \in DOMAIN u, v[p] = Date PROVE FALSE
        <5>1. u[p] = Date
          BY <4>6, <4>7
        <5>2. u[p] # Date
          BY <4>5, <4>7, DatesAreLost
        <5>. QED BY <5>1, <5>2
      <4>a. \A p \in DOMAIN u : v[p] = ItemList => u[p] = ItemList
        BY <4>6
      <4>8. \A p \in DOMAIN v : ~Made(v[p])
        BY <4>2, <4>3, Eip712Assumption
      <4>9. Meaning(u) = Meaning(v)
        BY <4>5, <4>7, <4>8, <4>a, RoundTrip
      <4>. QED BY <4>3, <4>4, <4>5, <4>9
    <3>. QED BY <2>1, <2>3, <3>1
  <2>. QED BY <2>1, <2>2, <2>3 DEF BodyInv
<1>. QED BY <1>1, Inductive, PTL

(* A transaction the user has approved is lost only for an empty list among *)
(* the fields of a message or a date that no value map names: getTypes()    *)
(* found whatever else fromAmino() cannot convert before the wallet was     *)
(* asked.                                                                   *)
THEOREM OnlyListsOrDatesLost == Spec => []LostOnlyForListsOrDates
<1>1. IInv => LostOnlyForListsOrDates
  BY DEF IInv, BodyInv
<1>. QED BY <1>1, Inductive, PTL

=============================================================================
