------------------------------ MODULE Amino ------------------------------
(* The conversion of a message's value to amino and back, as the converters *)
(* of generateAminoType() in amino-types/src/utils.ts do it.  A value is a  *)
(* tree: a function from paths to what stands there, a structure, a list of *)
(* structures or a leaf.  The kind of a leaf says which conversion the      *)
(* value map prescribes for it; for the items of a nested list that is the  *)
(* map of the structure the list is in.  A text stands for everything that  *)
(* comes back as the value it was: what has no conversion, decimals other   *)
(* than zero, those of ConvertEncType.DecOrZero, whose zero is "0", dates   *)
(* of ConvertEncType.Date and numbers of ConvertEncType.NumToStr, and lists *)
(* of strings, which are never fields of the top level.  LongToNum and      *)
(* DateToNum are in no value map.  The renaming of fields between camel and *)
(* snake case is one to one on the names in use and left out.               *)
EXTENDS Naturals, Sequences, FiniteSets

CONSTANTS Word,     \* what the low half of a Long can hold
          Fields    \* the names of all fields, in descending order

ASSUME AminoAssumption ==
  /\ Word \in Nat \ {0, 1}
  /\ Fields \in Seq({Fields[i] : i \in DOMAIN Fields})
  /\ \A i, j \in DOMAIN Fields : Fields[i] = Fields[j] => i = j

FieldNames == {Fields[i] : i \in DOMAIN Fields}

Node(kind) == [kind |-> kind, number |-> 0]
Structure == Node("structure")
ItemList == Node("list")
Text == Node("text")
Empty == Node("empty")         \* "", 0 or false
Missing == Node("missing")     \* undefined, what fromPartial() leaves of an optional field
ZeroDec == Node("zeroDec")     \* a decimal number, converted as ConvertEncType.Dec
Null == Node("null")           \* what becomes of it
Date == Node("date")           \* a date below the top level that no map names
DateText == Node("dateText")   \* what becomes of it
Long(n) == [kind |-> "long", number |-> n]
Duration(n) == [kind |-> "duration", number |-> n]   \* seconds and nanos, in nanoseconds
Nanos(n) == [kind |-> "nanos", number |-> n]         \* the text of a whole number
Fraction == Node("fraction")   \* the text of a number that is not whole
Misread == Node("misread")     \* the duration Long.fromString() makes of that

IsLeaf(x) == x \notin {Structure, ItemList}
Falsy(x) == x \in {Empty, Missing, Null}
Zero(x) == Falsy(x) \/ x = ZeroDec

(* A step leads to a field and, with an item that is not 0, on to that item *)
(* of the list the field is.                                                *)
Steps == [field : FieldNames, item : Nat]
At(f) == [field |-> f, item |-> 0]
Item(p, i) == [p EXCEPT ![Len(p)].item = i]

(* What only the conversions make. *)
Made(x) == x \in {DateText, Fraction, Misread} \/ x.kind = "nanos"

IsEmptyList(v, p) == v[p] = ItemList /\ Item(p, 1) \notin DOMAIN v

Nodes == {Structure, ItemList, Text, Empty, Missing, ZeroDec, Null, Date, DateText, Fraction}
Numbers(n) == {Long(n), Duration(n), Nanos(n)}

(* What JavaScript objects are as trees: the root is a structure, fields    *)
(* are those of structures, and items, all structures, those of lists.      *)
IsTree(v) ==
  /\ v = [p \in DOMAIN v |-> v[p]]
  /\ IsFiniteSet(DOMAIN v) /\ DOMAIN v \subseteq Seq(Steps)
  /\ \A p \in DOMAIN v : v[p] \in Nodes \cup Numbers(v[p].number) /\ v[p].number \in Nat
  /\ <<>> \in DOMAIN v /\ v[<<>>] = Structure
  /\ \A p \in DOMAIN v : p # <<>> =>
       LET n == Len(p) IN
       /\ SubSeq(p, 1, n - 1) \in DOMAIN v /\ v[SubSeq(p, 1, n - 1)] = Structure
       /\ p[n].item > 0 => /\ v[p] = Structure
                           /\ Item(p, 0) \in DOMAIN v /\ v[Item(p, 0)] = ItemList

(* Variant: integers come back as their low word read with a sign. *)
SignedWord(n) == n % (Word \div 2)

(* new Long(Number(value)) has the low word of an integer. *)
LowWord(n) == n % Word

Second == 1000000000
Millisecond == 1000000

(* The nanos of a duration are shifted by six places before its seconds are *)
(* added to them, all as nanoseconds.                                       *)
Shifted(n) == IF (n % Second) % Millisecond # 0 THEN Fraction
              ELSE Nanos((n \div Second) * Second + (n % Second) \div Millisecond)

ToAminoParam(leaf) ==
  CASE leaf = ZeroDec           -> Null
    [] leaf = Date              -> DateText
    [] leaf.kind = "duration"   -> Shifted(leaf.number)
    [] OTHER                    -> leaf

(* A date that no map names stays the text it has become. *)
FromAminoParam(leaf) ==
  CASE leaf = ZeroDec           -> Null
    [] leaf.kind = "long"       -> Long(LowWord(leaf.number))
    [] leaf.kind = "nanos"      -> Duration(leaf.number)
    [] leaf = Fraction          -> Misread
    [] OTHER                    -> leaf

ParamConverter(leaf, toAmino) == IF toAmino THEN ToAminoParam(leaf) ELSE FromAminoParam(leaf)

(* Structures and lists are converted leaf by leaf. *)
MapEachIndiv(v, toAmino) == [p \in DOMAIN v |-> ParamConverter(v[p], toAmino)]

(* typeCheck() looks for the field "seconds" of every value below the top  *)
(* level, which null and undefined do not have.                            *)
Throws(v) == \E p \in DOMAIN v : Len(p) > 1 /\ v[p] \in {Missing, Null}

(* Of the fields of a message those that are falsy, and decimals that are  *)
(* zero, are left out; below them every field is kept.                     *)
ToAmino(v) ==
  MapEachIndiv([p \in {q \in DOMAIN v : Len(q) = 1 => ~Zero(v[q])} |-> v[p]], TRUE)

(* On the way back an empty list of the top level is taken for a structure. *)
FromAmino(v) ==
  MapEachIndiv([p \in DOMAIN v |-> IF Len(p) = 1 /\ IsEmptyList(v, p) THEN Structure ELSE v[p]],
               FALSE)

-----------------------------------------------------------------------------
(* What the chain makes of a value: fields at their zero are not encoded,  *)
(* and of integers only the low word is compared here, of durations those   *)
(* of whole seconds.                                                        *)
Said(leaf) ==
  CASE leaf.kind = "long"                                  -> Long(leaf.number % Word)
    [] leaf.kind = "duration" /\ leaf.number % Second # 0 -> Misread
    [] OTHER                                               -> leaf

Meaning(v) == [p \in {q \in DOMAIN v : ~Zero(v[q])} |-> Said(v[p])]

=============================================================================
