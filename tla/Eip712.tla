------------------------------ MODULE Eip712 ------------------------------
(* Signing a transaction with an EIP-712 wallet: DemexEIP712SigningClient  *)
(* converts the messages to amino, the signer derives from them the types  *)
(* of the typed data the wallet displays (getTypes() in wallet/src/        *)
(* eip712.ts, one message after the other), the user approves, and what    *)
(* was signed is converted back and encoded into the body to broadcast.    *)
(* One step handles one message.                                           *)
EXTENDS Amino, FiniteSetsExt, SequencesExt

CONSTANTS
  Messages,   \* the messages there are: [type, value], types being [module, name]
  Asked,      \* the transactions asked for: sequences of messages
  LibTypes,   \* message types of the cosmos, ibc and alliance packages
  Clashing    \* message types whose amino type another one has as well

(* The type of a message has a module and a name, TypeValueFeeTier0 is the  *)
(* name of a value.  Names are sequences of words here, <<"AddFeeTier">> and *)
(* <<"Value", "FeeTier">>, and their numbers are kept apart from them.       *)
Includes(name, of) == \E i \in DOMAIN name : IsPrefix(of, SubSeq(name, i, Len(name)))

(* The name of the value at a path, or in it. *)
NameOf(p) == <<"Value">> \o [i \in DOMAIN p |-> p[i].field]

(* No amino type is named Value, the name getTypes() gives to values.  And  *)
(* in the table EIP712Types the messages whose names include one another    *)
(* agree on which fields are structures.  A date that is a field of the     *)
(* message itself has its conversion in every value map.                    *)
ASSUME Eip712Assumption ==
  /\ Asked \subseteq Seq(Messages)
  /\ \A m \in Messages : /\ m = [type |-> m.type, value |-> m.value] /\ IsTree(m.value)
                         /\ m.type.name \in Seq(Range(m.type.name)) \ {<<>>}
                         /\ Head(m.type.name) # "Value"
                         /\ \A p \in DOMAIN m.value : /\ ~Made(m.value[p])
                                                      /\ m.value[p] = Date => Len(p) > 1
  /\ \A l, m \in Messages : Includes(l.type.name, m.type.name) =>
       \A p \in DOMAIN l.value, q \in DOMAIN m.value :
         NameOf(p) = NameOf(q) /\ ~Zero(l.value[p]) /\ ~Zero(m.value[q]) =>
           (IsLeaf(l.value[p]) <=> IsLeaf(m.value[q]))

VARIABLES
  phase, msgs,
  amino,        \* messages converted to amino
  types,        \* the type definitions: [of, n] |-> the type of every field
  messageTypes, \* the types of whole messages, in the order of definition
  assigned,     \* the type each message has in the type Tx
  body          \* messages of the transaction's body, after signing

vars == <<phase, msgs, amino, types, messageTypes, assigned, body>>

(* The type of a field: a name and its number, many marks that of a list.   *)
Key(t) == [of |-> t.of, n |-> t.n]
Primitive == [of |-> <<>>, n |-> 0, many |-> FALSE]
Strings == [Primitive EXCEPT !.many = TRUE]

Direct == \E i \in DOMAIN msgs : msgs[i].type \in LibTypes

(* The fields a type is derived from: of a list those of its first item. *)
Contents(v, p) == IF v[p] = ItemList THEN Item(p, 1) ELSE p
Child(v, p, f) == Append(Contents(v, p), At(f))

Present(v, p) == {f \in FieldNames : Child(v, p, f) \in DOMAIN v}
Populated(v, p) == {f \in Present(v, p) : ~Falsy(v[Child(v, p, f)])}

IsNested(v, p) == ~IsLeaf(v[p]) /\ ~IsEmptyList(v, p)

Init ==
  /\ phase = "converting" /\ msgs \in Asked
  /\ amino = <<>> /\ types = <<>> /\ messageTypes = <<>> /\ assigned = <<>> /\ body = <<>>

-----------------------------------------------------------------------------
(* DemexEIP712SigningClient, up to the signer *)

Convert ==
  LET m == msgs[Len(amino) + 1] IN
  /\ phase = "converting" /\ Len(amino) < Len(msgs)
  /\ IF Throws(m.value)
     THEN phase' = "failed" /\ UNCHANGED amino
     ELSE amino' = Append(amino, [m EXCEPT !.value = ToAmino(@)]) /\ UNCHANGED phase
  /\ UNCHANGED <<msgs, types, messageTypes, assigned, body>>

Converted ==
  /\ phase = "converting" /\ Len(amino) = Len(msgs)
  /\ phase' = "typing"
  /\ UNCHANGED <<msgs, amino, types, messageTypes, assigned, body>>

-----------------------------------------------------------------------------
(* getTypes() *)

(* Variant: structures are not compared, only whether the fields are set. *)
LooksOnTop(v, key) ==
  IF DOMAIN types[key] # {} /\ DOMAIN types[key] # Populated(v, <<>>) THEN "differs" ELSE "match"

(* Variant: names are not numbered. *)
NotNumbered(of) == 0

(* getLatestMsgTypeIndex(): how many names include this one. *)
LatestIndex(of) == Cardinality({k \in DOMAIN types : IsPrefix(of, k.of)})

(* Variant: the name is counted itself by the time its number is taken. *)
NextIndex(v, p) ==
  IF ~IsNested(v, p) THEN IF IsLeaf(v[p]) THEN Primitive ELSE Strings
  ELSE [of |-> NameOf(p), n |-> LatestIndex(NameOf(p)) + 1, many |-> v[p] = ItemList]

FieldType(v, p) ==
  IF ~IsNested(v, p) THEN IF IsLeaf(v[p]) THEN Primitive ELSE Strings
  ELSE [of |-> NameOf(p), n |-> LatestIndex(NameOf(p)), many |-> v[p] = ItemList]

(* getMsgValueType(): the type of a value, numbered by the values before it, *)
(* and those of the structures that are reached from it by way of first      *)
(* items.                                                                    *)
Displayed(v) ==
  {p \in DOMAIN v : /\ IsNested(v, p)
                    /\ \A i \in DOMAIN p : p[i].item <= IF i = Len(p) THEN 0 ELSE 1}

TypeKey(p) == [of |-> NameOf(p),
               n |-> IF p = <<>> THEN Len(messageTypes) ELSE LatestIndex(NameOf(p))]

ValueTypes(v) ==
  [k \in {TypeKey(p) : p \in Displayed(v)} |->
     LET p == CHOOSE q \in Displayed(v) : TypeKey(q) = k
     IN  [f \in Populated(v, p) |-> FieldType(v, Child(v, p, f))]]

Rank(f) == CHOOSE i \in DOMAIN Fields : Fields[i] = f

(* compareValues() goes through a type's fields in their order, and takes   *)
(* for its answer that of the last structure among them.  It throws where   *)
(* a list whose items have a type is empty.                                 *)
CompareValues(v, key) ==
  LET answer[p \in DOMAIN v] == [k \in DOMAIN types |->
        LET fields == DOMAIN types[k]
            stops == fields \ Populated(v, p)
            nested == {f \in fields : Key(types[k][f]) \in DOMAIN types}
            below(f) == answer[Child(v, p, f)][Key(types[k][f])]
        IN IF fields = {} THEN "match"
           ELSE IF IsEmptyList(v, p) THEN "throws"
           ELSE IF Cardinality(Present(v, p)) > Cardinality(fields) THEN "differs"
           ELSE IF \E f \in nested \ stops :
                     below(f) = "throws" /\ \A g \in stops : Rank(f) < Rank(g) THEN "throws"
           ELSE IF stops # {} THEN "differs"
           ELSE IF nested = {} THEN "match"
           ELSE below(CHOOSE f \in nested : \A g \in nested : Rank(g) <= Rank(f))]
  IN answer[<<>>][key]

ValueKey(k) == Key(types[k].value)

(* matchingType(): the types of the same name that the message fits, or     *)
(* that make compareValues() throw; the first of them is taken.             *)
Fits(m) == {i \in DOMAIN messageTypes :
              /\ Includes(messageTypes[i].of, m.type.name)
              /\ CompareValues(m.value, ValueKey(messageTypes[i])) # "differs"}

IsIncluded(m) == \E i \in DOMAIN assigned : amino[i].type = m.type

Defines(m) ==
  LET key == [of |-> m.type.name, n |-> LatestIndex(m.type.name)]
      whole == [value |-> [of |-> NameOf(<<>>), n |-> Len(messageTypes), many |-> FALSE],
                type |-> Primitive]
      values == ValueTypes(m.value)
  IN /\ types' = [k \in DOMAIN values \cup {key} \cup DOMAIN types |->
                   IF k \in DOMAIN values THEN values[k] ELSE IF k = key THEN whole ELSE types[k]]
     /\ messageTypes' = Append(messageTypes, key)
     /\ assigned' = Append(assigned, key)
     /\ UNCHANGED phase

GivesUp == phase' = "failed" /\ UNCHANGED <<types, messageTypes, assigned>>

(* Variant: the url is found without converting the message. *)
NeverThrows(m) == FALSE

(* fromAmino() is called for the type's url alone, and throws as well.  Two *)
(* messages with one amino type cannot be told apart.                       *)
UrlThrows(m) == m.type \in Clashing \/ Throws(m.value)

TypeFirst(m) ==
  /\ ~UrlThrows(m) /\ ~IsIncluded(m)
  /\ Defines(m)

TypeMatched(m) ==
  /\ ~UrlThrows(m) /\ IsIncluded(m) /\ Fits(m) # {}
  /\ LET key == messageTypes[Min(Fits(m))] IN
     IF CompareValues(m.value, ValueKey(key)) = "throws" THEN GivesUp
     ELSE assigned' = Append(assigned, key) /\ UNCHANGED <<phase, types, messageTypes>>

TypeAgain(m) ==
  /\ ~UrlThrows(m) /\ IsIncluded(m) /\ Fits(m) = {}
  /\ Defines(m)

TypeFails(m) == UrlThrows(m) /\ GivesUp

TypeNext ==
  /\ phase = "typing" /\ Len(assigned) < Len(amino)
  /\ LET m == amino[Len(assigned) + 1] IN
     TypeFirst(m) \/ TypeMatched(m) \/ TypeAgain(m) \/ TypeFails(m)
  /\ UNCHANGED <<msgs, amino, body>>

-----------------------------------------------------------------------------
(* The user, and the way to the body *)

Decides ==
  /\ phase = "typing" /\ Len(assigned) = Len(amino)
  /\ phase' \in {"signed", "failed"}
  /\ UNCHANGED <<msgs, amino, types, messageTypes, assigned, body>>

KeepsBody ==
  /\ phase = "signed" /\ Direct
  /\ body' = msgs /\ phase' = "done"
  /\ UNCHANGED <<msgs, amino, types, messageTypes, assigned>>

ConvertBack ==
  LET m == amino[Len(body) + 1] IN
  /\ phase = "signed" /\ ~Direct /\ Len(body) < Len(amino)
  /\ IF Throws(m.value)
     THEN phase' = "lost" /\ UNCHANGED body
     ELSE body' = Append(body, [m EXCEPT !.value = FromAmino(@)]) /\ UNCHANGED phase
  /\ UNCHANGED <<msgs, amino, types, messageTypes, assigned>>

(* The codec of a message takes no structure where it has a list, and no   *)
(* text where it has a date.                                               *)
Encodes(i) ==
  \A p \in DOMAIN body[i].value :
    /\ msgs[i].value[p] = ItemList => body[i].value[p] = ItemList
    /\ msgs[i].value[p] = Date => body[i].value[p] = Date

Encode ==
  /\ phase = "signed" /\ ~Direct /\ Len(body) = Len(amino)
  /\ phase' = IF \A i \in DOMAIN body : Encodes(i) THEN "done" ELSE "lost"
  /\ UNCHANGED <<msgs, amino, types, messageTypes, assigned, body>>

Next == Convert \/ Converted \/ TypeNext \/ Decides \/ KeepsBody \/ ConvertBack \/ Encode

Spec == Init /\ [][Next]_vars

-----------------------------------------------------------------------------
(* Properties *)

(* The fields keep their types, and each stage has handled every message    *)
(* before the next one begins (the awaits and loops of signAminoEIP712()).  *)
TypeOK ==
  /\ phase \in {"converting", "typing", "signed", "done", "failed", "lost"}
  /\ msgs \in Asked
  /\ Len(amino) <= Len(msgs)
  /\ \A i \in DOMAIN amino :
       /\ amino[i].type = msgs[i].type
       /\ \A p \in DOMAIN amino[i].value : amino[i].value[p] \notin {Missing, ZeroDec, Date}
  /\ \A k \in DOMAIN types : k.n \in Nat /\ DOMAIN types[k] \subseteq FieldNames \cup {"value", "type"}
  /\ Len(messageTypes) <= Len(assigned) /\ Range(assigned) = Range(messageTypes)
  /\ assigned # <<>> => Len(amino) = Len(msgs)
  /\ phase \in {"signed", "done", "lost"} => Len(assigned) = Len(msgs)

(* Numbering by inclusion (getLatestMsgTypeIndex()) never gives a name that *)
(* is taken: a definition stays what it was when a message was assigned it. *)
TypesNeverRedefined ==
  [][\A k \in DOMAIN types : k \in DOMAIN types' /\ types'[k] = types[k]]_vars

(* getMsgValueType() computes the name of a structure's type where the field *)
(* is described and again where the structure is: they are the same, so that *)
(* the typed data refers to no type it does not define.                      *)
EveryTypeDefined ==
  /\ Range(assigned) \subseteq DOMAIN types
  /\ \A k \in DOMAIN types : \A f \in DOMAIN types[k] :
       types[k][f].of # <<>> => Key(types[k][f]) \in DOMAIN types

DescribedBy(v, key) ==
  LET described[p \in DOMAIN v] == [k \in DOMAIN types |->
        /\ DOMAIN types[k] = Populated(v, p)
        /\ \A f \in DOMAIN types[k] :
             LET q == Child(v, p, f)
                 t == types[k][f]
             IN IF IsNested(v, q) THEN Key(t) \in DOMAIN types /\ described[q][Key(t)]
                ELSE t.of = <<>> \/ IsEmptyList(v, q)]
  IN described[<<>>][key]

(* What the comment on matchingType() (eip712.ts:159) says: a message with   *)
(* other fields populated has a type of its own, so that the wallet displays  *)
(* and hashes every populated field (of a list, those of its first item).    *)
DisplayedInFull ==
  \A i \in DOMAIN assigned : DescribedBy(amino[i].value, ValueKey(assigned[i]))

Plain(v) ==
  \A p \in Displayed(v) :
    /\ Populated(v, p) # {}
    /\ \A f, g \in Present(v, p) :
         ~IsLeaf(v[Child(v, p, f)]) =>
           /\ IsNested(v, Child(v, p, f))
           /\ IsLeaf(v[Child(v, p, g)]) \/ f = g

(* Messages with at most one structure at every level, none of them empty,   *)
(* are displayed in full, whichever of their fields are populated: there     *)
(* getTypes() reuses a type only for messages it describes.  The same must   *)
(* be said of the messages whose names include theirs, as matchingType()     *)
(* takes the types of those for theirs.                                      *)
PlainMessagesDisplayed ==
  \A i \in DOMAIN assigned :
    (\A j \in DOMAIN amino :
       Includes(amino[j].type.name, amino[i].type.name) => Plain(amino[j].value))
      => DescribedBy(amino[i].value, ValueKey(assigned[i]))

(* The body that is broadcast says what the caller asked for, though it was  *)
(* converted to amino, signed and converted back (toAmino(), fromAmino()).   *)
(* Values at their zero are lost, of integers the high word, and a duration  *)
(* that is not of whole seconds comes back as another one that is not, or as *)
(* any: nothing else.  The node checks the signature against this body.      *)
BodyIsAsAsked ==
  phase = "done" =>
    /\ Len(body) = Len(msgs)
    /\ \A i \in DOMAIN body : /\ body[i].type = msgs[i].type
                              /\ Meaning(body[i].value) = Meaning(msgs[i].value)

(* A transaction the user has approved is lost only for an empty list among  *)
(* the fields of a message, or for a date that no value map names: whatever  *)
(* else fromAmino() cannot convert was found by getTypes() before the wallet *)
(* was asked.                                                                *)
LostOnlyForListsOrDates ==
  phase = "lost" =>
    \E i \in DOMAIN msgs : \E p \in DOMAIN msgs[i].value :
      \/ Len(p) = 1 /\ IsEmptyList(msgs[i].value, p)
      \/ msgs[i].value[p] = Date
=============================================================================
