--------------------------- MODULE CanonicalIdentity ---------------------------
(***************************************************************************)
(* The canonical form of a message: what is emitted to be hashed, and what *)
(* measuring it against the limits counts.  Clients write one message in   *)
(* many ways, and a request over a limit leaves no mark in the ledger; so  *)
(* the limits must not tell apart what the digest does not.                *)
(*                                                                         *)
(* A value is a record with a field "is": string, number, null, array or   *)
(* object.  A string is the sequence of its parts, of which JoinedText may *)
(* have many; an object is the sequence of its fields as written.  What is *)
(* emitted is a sequence of symbols, each of one byte: a mark, a letter as *)
(* it is escaped, a number or a key.                                       *)
(***************************************************************************)
EXTENDS Integers, Sequences, Stepwise

CONSTANTS
  Letters,       \* the letters of texts
  KeyOrder,      \* the keys of objects, in the order of compareCanonicalKeys
  Deepest,       \* bound: how deep values are nested
  MessageFields, \* what messages are made of
  Limits,        \* the limits a message is measured against
  NodeScratch,   \* bytes reserved while a value is walked,
  StringScratch, \* while a string is written,
  FieldScratch   \* and per field of an object

Keys == {KeyOrder[i] : i \in DOMAIN KeyOrder}

Null == [is |-> "null"]

Number(n) == [is |-> "number", n |-> n]

JoinedText(parts) == [is |-> "string", parts |-> parts]

String(text) == JoinedText(<<text>>)

Array(items) == [is |-> "array", items |-> items]

Object(fields) == [is |-> "object", fields |-> fields]

Field(key, value) == [key |-> key, value |-> value]

Leaves ==
  {Null} \cup [is : {"number"}, n : Nat] \cup [is : {"string"}, parts : Seq(Seq(Letters))]

(* No key stands twice in an object. *)
FieldsOver(values) ==
  {fields \in Seq([key : Keys, value : values]) :
     \A i, j \in DOMAIN fields : fields[i].key = fields[j].key => i = j}

Level(below) ==
  Leaves \cup [is : {"array"}, items : Seq(below)] \cup [is : {"object"}, fields : FieldsOver(below)]

(* The values nested at most d deep. *)
Nested[d \in 0..Deepest] == IF d = 0 THEN {} ELSE Level(Nested[d - 1])

ASSUME CanonicalAssumption ==
  /\ KeyOrder \in Seq(Keys)
  /\ \A i, j \in DOMAIN KeyOrder : KeyOrder[i] = KeyOrder[j] => i = j
  /\ "content" \in Keys
  /\ Deepest \in Nat /\ Deepest >= 2
  /\ MessageFields \subseteq [key : Keys, value : Nested[Deepest - 1]]
  /\ NodeScratch \in Nat /\ StringScratch \in Nat /\ FieldScratch \in Nat

KeysOf(object) == {object.fields[i].key : i \in DOMAIN object.fields}

ValueOf(object, key) ==
  object.fields[CHOOSE i \in DOMAIN object.fields : object.fields[i].key = key].value

Text(value) == Flattened(Letters, value.parts)

Says(value, text) == value.is = "string" /\ Text(value) = text

-----------------------------------------------------------------------------
(* canonicalShape.ts: the projection, which the code makes as it walks.    *)

IsExactTextPart(value) ==
  /\ value.is = "object"
  /\ KeysOf(value) = {"type", "text"}
  /\ Says(ValueOf(value, "type"), <<"text">>)
  /\ ValueOf(value, "text").is = "string"

NormalizedContent(content) ==
  IF content = Null THEN JoinedText(<<>>)
  ELSE IF content.is = "array" /\ \A i \in DOMAIN content.items : IsExactTextPart(content.items[i])
  THEN JoinedText([i \in DOMAIN content.items |-> Text(ValueOf(content.items[i], "text"))])
  ELSE content

IsAssistant(message) == "role" \in KeysOf(message) /\ Says(ValueOf(message, "role"), <<"assistant">>)

FieldSet(fields) == {fields[i] : i \in DOMAIN fields}

Omitting(fields, omitted) == Dropping(FieldSet(fields), fields, omitted)

(* The index of a call says nothing when it is its position. *)
ProjectedCall(call, at) ==
  IF call.is = "object" THEN Object(Omitting(call.fields, {Field("index", Number(at))})) ELSE call

ProjectedCalls(calls) ==
  IF calls.is = "array"
  THEN Array([i \in DOMAIN calls.items |-> ProjectedCall(calls.items[i], i - 1)]) ELSE calls

ProjectedField(field) ==
  CASE field.key = "content"    -> Field("content", NormalizedContent(field.value))
    [] field.key = "tool_calls" -> Field("tool_calls", ProjectedCalls(field.value))
    [] OTHER                    -> field

(* canonicalEntries of an assistant's message, in the mode envelope. *)
CanonicalEntries(message) ==
  LET kept == Omitting(message.fields, {Field("tool_calls", Array(<<>>))})
  IN [i \in DOMAIN kept |-> ProjectedField(kept[i])]
     \o IF "content" \in KeysOf(message) THEN <<>> ELSE <<Field("content", JoinedText(<<>>))>>

Projected(message) ==
  IF IsAssistant(message) THEN Object(CanonicalEntries(message)) ELSE message

-----------------------------------------------------------------------------
(* emitCanonical: what is hashed.                                          *)

Mark(m) == <<"mark", m>>

Symbols ==
  {Mark(m) : m \in {"quote", "null", "[", "]", "{", "}", ",", ":"}}
  \cup ({"letter"} \X Letters) \cup ({"number"} \X Nat) \cup ({"key"} \X Keys)

KeysAsWritten(object) == [i \in DOMAIN object.fields |-> object.fields[i].key]

KeysInOrder(object) == Dropping(Keys, KeyOrder, Keys \ KeysOf(object))

Quoted(text) ==
  <<Mark("quote")>> \o [i \in DOMAIN text |-> <<"letter", text[i]>>] \o <<Mark("quote")>>

Named(key) == <<Mark("quote"), <<"key", key>>, Mark("quote"), Mark(":")>>

Listed(pieces) ==
  Flattened(Symbols, [i \in DOMAIN pieces |-> IF i = 1 THEN pieces[i] ELSE <<Mark(",")>> \o pieces[i]])

(* below gives what is emitted of the values within. *)
Emission(below, value) ==
  CASE value.is = "string" -> Quoted(Text(value))
    [] value.is = "null"   -> <<Mark("null")>>
    [] value.is = "number" -> <<<<"number", value.n>>>>
    [] value.is = "array"  ->
         <<Mark("[")>> \o Listed([i \in DOMAIN value.items |-> below[value.items[i]]]) \o <<Mark("]")>>
    [] value.is = "object" ->
         LET keys == KeysInOrder(value)
         IN <<Mark("{")>>
            \o Listed([i \in DOMAIN keys |-> Named(keys[i]) \o below[ValueOf(value, keys[i])]])
            \o <<Mark("}")>>

EmitCanonical[d \in 0..Deepest] ==
  [value \in Nested[d] |-> Emission(EmitCanonical[d - 1], value)]

Emitted(message) == EmitCanonical[Deepest][Projected(message)]

-----------------------------------------------------------------------------
(* measureCanonical: what is counted, in the order as written.  A message  *)
(* is refused once a count is over its limit; so of nodes and scratch,     *)
(* which are also foreseen or released, the most there ever was is kept.   *)

Budget ==
  {budget \in [bytes : Nat, nodes : Nat, mostNodes : Nat, depth : Nat, scratch : Int, mostScratch : Int] :
     budget.nodes <= budget.mostNodes /\ budget.scratch <= budget.mostScratch}

Unused == [bytes |-> 0, nodes |-> 0, mostNodes |-> 0, depth |-> 0, scratch |-> 0, mostScratch |-> 0]

Greater(m, n) == IF m < n THEN n ELSE m

AddBytes(budget, count) == [budget EXCEPT !.bytes = @ + count]

(* An array or object that cannot fit is refused before it is walked. *)
Foresee(budget, count) == [budget EXCEPT !.mostNodes = Greater(@, budget.nodes + count)]

Node(budget, depth) ==
  [Foresee(budget, 1) EXCEPT !.nodes = @ + 1, !.depth = Greater(@, depth)]

Reserve(budget, bytes) ==
  [budget EXCEPT !.scratch = @ + bytes, !.mostScratch = Greater(@, budget.scratch + bytes)]

Release(budget, bytes) == [budget EXCEPT !.scratch = @ - bytes]

Refused(budget, limits) ==
  \/ budget.bytes > limits.maxBytes
  \/ budget.mostNodes > limits.maxNodes
  \/ budget.depth > limits.maxDepth
  \/ budget.mostScratch > limits.maxScratchBytes

BytesOfParts(value) == Len(Text(value)) + 2 * Len(value.parts)

BytesOfText(value) == Len(Text(value)) + 2

WriteString(budget, bytes) ==
  Release(AddBytes(Reserve(budget, StringScratch), bytes), StringScratch)

Comma(budget, i) == IF i > 1 THEN AddBytes(budget, 1) ELSE budget

(* The items of an array, below being the walk of what is within. *)
WalkItems(below, items, opened) ==
  Through([i \in DOMAIN items |-> [budget \in Budget |-> below[items[i]][Comma(budget, i)]]],
          Foresee(opened, Len(items)), UpTo(Len(items)))

WalkNames(count, opened) ==
  Through([i \in 1..count |-> [budget \in Budget |->
             AddBytes(WriteString(Foresee(Comma(Reserve(budget, FieldScratch), i), i), 3), 1)]],
          opened, UpTo(count))

WalkFields(below, fields, opened) ==
  Release(Through([i \in DOMAIN fields |-> below[fields[i].value]],
                  WalkNames(Len(fields), opened), UpTo(Len(fields))),
          Len(fields) * FieldScratch)

Walking(below, value, budget, depth) ==
  LET entered == Reserve(Node(budget, depth), NodeScratch)
      opened  == AddBytes(entered, 2)
      walked  ==
        CASE value.is = "string"             -> WriteString(entered, BytesOfText(value))
          [] value.is \in {"null", "number"} -> AddBytes(entered, 1)
          [] value.is = "array"              -> WalkItems(below, value.items, opened)
          [] value.is = "object"             -> WalkFields(below, value.fields, opened)
  IN Release(walked, NodeScratch)

Walk[d \in 0..Deepest] ==
  [value \in Nested[d] |-> [budget \in Budget |->
     Walking(Walk[d - 1], value, budget, Deepest + 1 - d)]]

Measured(message) == Walk[Deepest][Projected(message)][Unused]

-----------------------------------------------------------------------------
(* The reference: what a message means, whatever way it is written.        *)

Plain(text) == [is |-> "string", text |-> text]

MeaningOf(below, value) ==
  CASE value.is = "object" ->
         [is |-> "object", fields |-> {<<field.key, below[field.value]>> : field \in FieldSet(value.fields)}]
    [] value.is = "array"  -> [is |-> "array", items |-> [i \in DOMAIN value.items |-> below[value.items[i]]]]
    [] value.is = "string" -> Plain(Text(value))
    [] OTHER               -> value

Meaning[d \in 0..Deepest] == [value \in Nested[d] |-> MeaningOf(Meaning[d - 1], value)]

(* These are about meanings.                                               *)

IsPlainText(part) ==
  /\ part.is = "object"
  /\ \E field \in part.fields : /\ field[1] = "text" /\ field[2].is = "string"
                                /\ part.fields = {<<"type", Plain(<<"text">>)>>, field}

TextOfPart(part) == (CHOOSE field \in part.fields : field[1] = "text")[2].text

(* No content is empty content, and plain text may come in pieces. *)
Said(content) ==
  IF content = Null THEN Plain(<<>>)
  ELSE IF content.is = "array" /\ \A i \in DOMAIN content.items : IsPlainText(content.items[i])
  THEN Plain(Flattened(Letters, [i \in DOMAIN content.items |-> TextOfPart(content.items[i])]))
  ELSE content

(* A call that says where it stands says nothing new. *)
CalledAt(call, at) ==
  IF call.is = "object" THEN [call EXCEPT !.fields = @ \ {<<"index", Number(at)>>}] ELSE call

Called(calls) ==
  IF calls.is = "array"
  THEN [calls EXCEPT !.items = [i \in DOMAIN @ |-> CalledAt(@[i], i - 1)]] ELSE calls

SaidByAssistant(fields) ==
  LET said == {Said(field[2]) : field \in {f \in fields : f[1] = "content"}}
  IN {field \in fields : field[1] \notin {"content", "tool_calls"}}
     \cup {<<"content", content>> : content \in IF said = {} THEN {Said(Null)} ELSE said}
     \cup {<<"tool_calls", Called(field[2])>> :
             field \in {f \in fields : f[1] = "tool_calls" /\ f[2] # Array(<<>>)}}

Understood(meaning) ==
  IF <<"role", Plain(<<"assistant">>)>> \in meaning.fields
  THEN [meaning EXCEPT !.fields = SaidByAssistant(@)] ELSE meaning

MeaningOfMessage(message) == Understood(Meaning[Deepest][message])

-----------------------------------------------------------------------------
(* Two ways of writing a message, each grown a field at a time.            *)

VARIABLES left, right

Adding(message, field) == Object(Append(message.fields, field))

WriteLeft(field) ==
  /\ field.key \notin KeysOf(left)
  /\ left' = Adding(left, field)
  /\ UNCHANGED right

WriteRight(field) ==
  /\ field.key \notin KeysOf(right)
  /\ right' = Adding(right, field)
  /\ UNCHANGED left

InitMessages == left = Object(<<>>) /\ right = Object(<<>>)

NextField == \E field \in MessageFields : WriteLeft(field) \/ WriteRight(field)

Messages == InitMessages /\ [][NextField]_<<left, right>>

-----------------------------------------------------------------------------
(* Properties.                                                             *)

(* Messages that mean the same, and only those, are hashed alike: another  *)
(* order of fields, text in parts, no content, the index of a call.        *)
HashedAsMeant ==
  (Emitted(left) = Emitted(right)) <=> (MeaningOfMessage(left) = MeaningOfMessage(right))

(* The frame that is hashed ahead is the length of what is emitted, and a  *)
(* limit refuses a message in every way of writing it or in none: else the *)
(* turn a client sends back in another form would find what went unmarked. *)
LimitsMeetTheIdentity ==
  Emitted(left) = Emitted(right) =>
    LET counted == Measured(left)
        again   == Measured(right)
    IN /\ counted.bytes = Len(Emitted(left))
       /\ \A limits \in Limits : Refused(counted, limits) = Refused(again, limits)

(* The messages are values whose fields are values. *)
WrittenOK == {left, right} \subseteq [is : {"object"}, fields : FieldsOver(Nested[Deepest - 1])]

=============================================================================
