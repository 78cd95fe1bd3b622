------------------------- MODULE OutputCapture_proofs -------------------------
(***************************************************************************)
(* Proofs about OutputCapture: for any number of items, positions, events  *)
(* and models, a verdict speaks of what the client was shown.              *)
(***************************************************************************)
EXTENDS OutputCapture, DataInduction, SequenceTheorems

(* What TypeOK says of a capture.                                          *)
Sound(c) ==
    /\ c \in Capture
    /\ c.exhausted =>
         /\ c.message = EmptyMessage /\ c.final = None
         /\ c.done = NothingAt /\ c.added = NothingAt

(* The frames the converter writes.                                        *)
Writes(frame) ==
    /\ frame.model \in Models \cup {None}
    /\ \/ frame.part = "role"
       \/ frame.part \in {"content", "refusal"} /\ frame.value \in Pieces
       \/ /\ frame.part = "tool" /\ frame.value.index \in Nat
          /\ frame.value.id \in Seq(STRING) /\ frame.value.args \in Seq(Pieces)
       \/ frame.part = "finish" /\ frame.value \in {"stop", "tool_calls"}

-----------------------------------------------------------------------------
(* What the operators return.                                              *)

LEMMA OneElement ==
  ASSUME NEW S, NEW x \in S
  PROVE  <<x>> \in Seq(S)
OBVIOUS

(* A call id is at most one fragment.                                      *)
LEMMA CallIdTyped ==
  ASSUME NEW item \in Items
  PROVE  CallId(item) \in Seq(STRING)
<1>1. item.call \in STRING \cup {None}
  BY OutputCaptureAssumption
<1>2. CASE item.call \in {None, ""}
  <2>1. CallId(item) = <<>>
    BY <1>2 DEF CallId
  <2> QED
    BY <2>1, EmptySeq
<1>3. CASE item.call \notin {None, ""}
  <2>1. CallId(item) = <<item.call>> /\ item.call \in STRING
    BY <1>1, <1>3 DEF CallId
  <2> QED
    BY <2>1, OneElement
<1> QED
  BY <1>2, <1>3

(* The bodies of an output join to a text.                                 *)
LEMMA BodiesTyped ==
  ASSUME NEW output \in Seq(Items), NEW kind
  PROVE  Bodies(output, kind) \in Seq(Pieces)
<1> DEFINE S == Seq(Pieces)
           last == Len(output)
           step == [i \in 1 .. last |-> [text \in S |->
                      IF output[i].kind = kind THEN text \o output[i].body ELSE text]]
           Text(f) == f = [i \in 0 .. Len(output) |->
              IF i = 0 THEN <<>>
              ELSE IF output[i].kind = kind THEN f[i - 1] \o output[i].body ELSE f[i - 1]]
<1>1. last \in Nat /\ <<>> \in S
  OBVIOUS
<1>2. \A i \in 1 .. last : output[i] \in Items /\ output[i].body \in S
  BY OutputCaptureAssumption
<1>3. step \in [1 .. last -> [S -> S]]
  <2>1. \A i \in 1 .. last, text \in S : text \o output[i].body \in S
    BY <1>2, ConcatProperties
  <2> QED
    BY <2>1
<1>4. PICK f \in [0 .. last -> S] : Iterates(f, <<>>, step, last)
  <2> HIDE DEF S, last, step
  <2> QED
    BY <1>1, <1>3, RecursiveFunctionExists
<1>5. Text(f)
  <2>1. \A i \in 0 .. last : i # 0 => i \in 1 .. last /\ i - 1 \in 0 .. last
    BY <1>1
  <2>2. \A i \in 1 .. last : f[i] = step[i][f[i - 1]] /\ f[i - 1] \in S
    <3> HIDE DEF step, S
    <3> QED
      BY <1>4, <2>1 DEF Iterates
  <2>3. f[0] = <<>>
    BY <1>4 DEF Iterates
  <2>4. \A i \in 1 .. last : f[i] = IF output[i].kind = kind THEN f[i - 1] \o output[i].body ELSE f[i - 1]
    BY <2>2
  <2> HIDE DEF step
  <2> QED
    BY <1>4, <1>1, <2>1, <2>3, <2>4
<1> DEFINE g == CHOOSE h : Text(h)
<1>6. Text(g)
  <2> HIDE DEF Text
  <2> QED
    BY <1>5, Zenon
<1> HIDE DEF g
<1>7. g[last] \in S
  <2> DEFINE T == {n \in Nat : n <= last => g[n] \in S}
  <2>1. 0 \in T
    <3>1. g[0] = <<>>
      BY <1>6, <1>1
    <3> QED
      BY <3>1, <1>1
  <2>2. ASSUME NEW n \in Nat, n \in T PROVE n + 1 \in T
    <3> SUFFICES ASSUME n + 1 <= last PROVE g[n + 1] \in S
      OBVIOUS
    <3>1. g[n + 1] = IF output[n + 1].kind = kind THEN g[n] \o output[n + 1].body ELSE g[n]
      <4>1. n + 1 \in 0 .. last /\ n + 1 # 0 /\ (n + 1) - 1 = n
        BY <1>1
      <4> QED
        BY <1>6, <4>1
    <3>2. g[n] \in S /\ n + 1 \in 1 .. last
      BY <2>2, <1>1
    <3>3. g[n] \o output[n + 1].body \in S
      BY <3>2, <1>2, ConcatProperties
    <3> QED
      BY <3>1, <3>2, <3>3
  <2>3. last \in T
    <3> HIDE DEF T
    <3> QED
      BY <1>1, <2>1, <2>2, EveryNumber
  <2> QED
    BY <2>3, <1>1
<1>8. Bodies(output, kind) = g[last]
  BY DEF Bodies, g
<1> QED
  BY <1>7, <1>8

(* The calls of an output are tools.                                       *)
LEMMA CallsTyped ==
  ASSUME NEW output \in Seq(Items)
  PROVE  Calls(output) \in Seq(Tool)
<1> DEFINE S == Seq(Tool)
           last == Len(output)
           tool(i) == [id |-> CallId(output[i]), args |-> output[i].body]
           step == [i \in 1 .. last |-> [calls \in S |->
                      IF output[i].kind = "call" THEN Append(calls, tool(i)) ELSE calls]]
           Text(f) == f = [i \in 0 .. Len(output) |->
              IF i = 0 THEN <<>>
              ELSE IF output[i].kind = "call" THEN Append(f[i - 1], tool(i)) ELSE f[i - 1]]
<1>1. last \in Nat /\ <<>> \in S
  OBVIOUS
<1>2. \A i \in 1 .. last : tool(i) \in Tool
  BY CallIdTyped, OutputCaptureAssumption DEF Tool
<1>3. step \in [1 .. last -> [S -> S]]
  <2>1. \A i \in 1 .. last, calls \in S : Append(calls, tool(i)) \in S
    BY <1>2
  <2> QED
    BY <2>1
<1>4. PICK f \in [0 .. last -> S] : Iterates(f, <<>>, step, last)
  <2> HIDE DEF S, last, step
  <2> QED
    BY <1>1, <1>3, RecursiveFunctionExists
<1>5. Text(f)
  <2>1. \A i \in 0 .. last : i # 0 => i \in 1 .. last /\ i - 1 \in 0 .. last
    BY <1>1
  <2>2. \A i \in 1 .. last : f[i] = step[i][f[i - 1]] /\ f[i - 1] \in S
    <3> HIDE DEF step, S
    <3> QED
      BY <1>4, <2>1 DEF Iterates
  <2>3. f[0] = <<>>
    BY <1>4 DEF Iterates
  <2>4. \A i \in 1 .. last : f[i] = IF output[i].kind = "call" THEN Append(f[i - 1], tool(i)) ELSE f[i - 1]
    BY <2>2
  <2> HIDE DEF step
  <2> QED
    BY <1>4, <1>1, <2>1, <2>3, <2>4
<1> DEFINE g == CHOOSE h : Text(h)
<1>6. Text(g)
  <2> HIDE DEF Text
  <2> QED
    BY <1>5, Zenon
<1> HIDE DEF g
<1>7. g[last] \in S
  <2> DEFINE T == {n \in Nat : n <= last => g[n] \in S}
  <2>1. 0 \in T
    <3>1. g[0] = <<>>
      BY <1>6, <1>1
    <3> QED
      BY <3>1, <1>1
  <2>2. ASSUME NEW n \in Nat, n \in T PROVE n + 1 \in T
    <3> SUFFICES ASSUME n + 1 <= last PROVE g[n + 1] \in S
      OBVIOUS
    <3>1. g[n + 1] = IF output[n + 1].kind = "call" THEN Append(g[n], tool(n + 1)) ELSE g[n]
      <4>1. n + 1 \in 0 .. last /\ n + 1 # 0 /\ (n + 1) - 1 = n
        BY <1>1
      <4> QED
        BY <1>6, <4>1
    <3>2. g[n] \in S /\ n + 1 \in 1 .. last
      BY <2>2, <1>1
    <3>3. Append(g[n], tool(n + 1)) \in S
      BY <3>2, <1>2
    <3> QED
      BY <3>1, <3>2, <3>3
  <2>3. last \in T
    <3> HIDE DEF T
    <3> QED
      BY <1>1, <2>1, <2>2, EveryNumber
  <2> QED
    BY <2>3, <1>1
<1>8. Calls(output) = g[last]
  BY DEF Calls, g
<1> QED
  BY <1>7, <1>8

(* Fragments lengthen a tool or begin one.                                 *)
LEMMA AddFragmentsTyped ==
  ASSUME NEW tools \in Seq(Tool), NEW index \in Nat,
         NEW ids \in Seq(STRING), NEW args \in Seq(Pieces)
  PROVE  AddFragments(tools, index, ids, args) \in Seq(Tool)
<1>1. CASE index < Len(tools)
  <2> DEFINE old == tools[index + 1]
             new == [id |-> old.id \o ids, args |-> old.args \o args]
  <2>1. index + 1 \in 1 .. Len(tools) /\ old \in Tool
    BY <1>1
  <2>2. old.id \o ids \in Seq(STRING) /\ old.args \o args \in Seq(Pieces)
    <3>1. old.id \in Seq(STRING) /\ old.args \in Seq(Pieces)
      BY <2>1 DEF Tool
    <3> HIDE DEF old
    <3> QED
      BY <3>1, ConcatProperties
  <2>3. new \in Tool
    BY <2>2 DEF Tool
  <2>4. AddFragments(tools, index, ids, args) = [tools EXCEPT ![index + 1] = new]
    BY <1>1, <2>1 DEF AddFragments
  <2> HIDE DEF new
  <2> QED
    BY <2>1, <2>3, <2>4, ExceptSeq
<1>2. CASE ~(index < Len(tools))
  <2>1. [id |-> ids, args |-> args] \in Tool
    BY DEF Tool
  <2> QED
    BY <1>2, <2>1 DEF AddFragments
<1> QED
  BY <1>1, <1>2

(* A message stays one under the frames the converter writes.              *)
LEMMA ConsumeTyped ==
  ASSUME NEW message \in Message, NEW frame, Writes(frame)
  PROVE  Consume(message, frame) \in Message
<1> DEFINE m == [message EXCEPT !.models = @ \cup {frame.model}]
           v == frame.value
<1>1. m \in Message
  BY DEF Message, Writes
<1>2. CASE frame.part = "role"
  <2>1. Consume(message, frame) = [m EXCEPT !.role = TRUE]
    BY <1>2 DEF Consume
  <2> QED
    BY <1>1, <2>1 DEF Message
<1>3. CASE frame.part = "content"
  <2>1. Consume(message, frame) = [m EXCEPT !.content = Append(@, v)]
    BY <1>3 DEF Consume
  <2>2. v \in Pieces /\ Append(m.content, v) \in Seq(Pieces)
    <3>1. v \in Pieces /\ m.content \in Seq(Pieces)
      BY <1>1, <1>3 DEF Message, Writes
    <3> HIDE DEF m, v
    <3> QED
      BY <3>1
  <2> HIDE DEF m, v
  <2> QED
    BY <1>1, <2>1, <2>2 DEF Message
<1>4. CASE frame.part = "refusal"
  <2>1. Consume(message, frame) = [m EXCEPT !.refusal = Append(@, v)]
    BY <1>4 DEF Consume
  <2>2. v \in Pieces /\ Append(m.refusal, v) \in Seq(Pieces)
    <3>1. v \in Pieces /\ m.refusal \in Seq(Pieces)
      BY <1>1, <1>4 DEF Message, Writes
    <3> HIDE DEF m, v
    <3> QED
      BY <3>1
  <2> HIDE DEF m, v
  <2> QED
    BY <1>1, <2>1, <2>2 DEF Message
<1>5. CASE frame.part = "tool"
  <2> DEFINE tools == AddFragments(m.tools, v.index, v.id, v.args)
  <2>1. Consume(message, frame) = [m EXCEPT !.tools = tools]
    BY <1>5 DEF Consume
  <2>2. tools \in Seq(Tool)
    <3>1. /\ m.tools \in Seq(Tool) /\ v.index \in Nat
          /\ v.id \in Seq(STRING) /\ v.args \in Seq(Pieces)
      BY <1>1, <1>5 DEF Message, Writes
    <3> HIDE DEF m, v
    <3> QED
      BY <3>1, AddFragmentsTyped
  <2> HIDE DEF m, v, tools
  <2> QED
    BY <1>1, <2>1, <2>2 DEF Message
<1>6. CASE frame.part = "finish"
  <2>1. Consume(message, frame) = [m EXCEPT !.finish = v] /\ v \in {"stop", "tool_calls"}
    BY <1>6 DEF Consume, Writes
  <2> HIDE DEF m, v
  <2> QED
    BY <1>1, <2>1 DEF Message
<1> QED
  BY <1>2, <1>3, <1>4, <1>5, <1>6 DEF Writes

(* So is a response that is not a stream.                                  *)
LEMMA ChatCompletionTyped ==
  ASSUME NEW response \in Responses
  PROVE  ChatCompletion(response) \in Message
<1> DEFINE output == IF response.output = None THEN <<>> ELSE response.output
<1>1. output \in Seq(Items) /\ response.model \in Models \cup {None}
  <2>1. response.output \in Outputs \cup {None} /\ response.model \in Models \cup {None}
    BY DEF Responses
  <2> QED
    BY <2>1, EmptySeq, OutputCaptureAssumption
<1> HIDE DEF output
<1>2. /\ Bodies(output, "message") \in Seq(Pieces) /\ Bodies(output, "refusal") \in Seq(Pieces)
      /\ Calls(output) \in Seq(Tool)
  BY <1>1, BodiesTyped, CallsTyped
<1> QED
  BY <1>1, <1>2 DEF ChatCompletion, Message, output

-----------------------------------------------------------------------------
(* What one observation leaves.                                            *)

(* Nothing has been said of an empty capture.                              *)
LEMMA EmptySound == Sound(EmptyCapture) /\ EmptyMessage \in Message
<1>1. EmptyMessage \in Message
  BY EmptySeq DEF EmptyMessage, Message
<1> QED
  BY <1>1 DEF Sound, EmptyCapture, Capture, NothingAt

LEMMA ReleasedSound ==
  ASSUME NEW c
  PROVE  Sound(Released(c)) /\ Released(c).exhausted
BY EmptySound DEF Released, Sound, EmptyCapture, Capture

(* A capture either runs out or takes what it observes.                    *)
LEMMA ObserveSound ==
  ASSUME NEW c, NEW next, Sound(c), c.exhausted \/ Sound(next), NEW d \in Observe(c, next)
  PROVE  /\ Sound(d)
         /\ ~d.exhausted => ~c.exhausted /\ d = next
BY ReleasedSound DEF Observe

(* c is what an event makes of the capture before anything is shown.       *)
Follow(c) ==
    /\ capture.exhausted \/ Sound(c)
    /\ c.exhausted = capture.exhausted /\ c.message = capture.message

(* The capture has taken it, and the message shown, or has run out.        *)
Moved(c) ==
    /\ Sound(capture')
    /\ ~capture'.exhausted =>
         /\ ~capture.exhausted /\ capture'.message = client'
         /\ capture' = [c EXCEPT !.message = client']

(* Everything said of an item is what c remembers.                         *)
Recalls(c, entries) ==
    \A entry \in entries :
       /\ entry[2] \in Positions /\ entry[3] \in Items
       /\ \/ entry[1] = "done" /\ c.done[entry[2]] = entry[3]
          \/ entry[1] = "added" /\ c.added[entry[2]] = entry[3]

(* A frame is observed after the event it comes from, and what has not run *)
(* out holds what the client has been shown.                               *)
LEMMA ShowsSound ==
  ASSUME IInv, NEW c, Follow(c), NEW frame, Writes(frame), Shows(c, frame)
  PROVE  Moved(c)
<1>1. Sound(capture)
  BY DEF IInv, TypeOK, Sound
<1>2. PICK noted \in Observe(capture, c) :
        capture' \in Observe(noted, [noted EXCEPT !.message = Consume(@, frame)])
  BY DEF Shows
<1>3. Sound(noted) /\ (~noted.exhausted => ~capture.exhausted /\ noted = c)
  BY <1>1, <1>2, ObserveSound DEF Follow
<1>4. ASSUME ~noted.exhausted
      PROVE  /\ Sound([noted EXCEPT !.message = Consume(@, frame)])
             /\ [noted EXCEPT !.message = Consume(@, frame)] = [c EXCEPT !.message = client']
             /\ [c EXCEPT !.message = client'].message = client'
  <2>1. noted = c /\ c.message = client /\ c \in Capture /\ ~c.exhausted
    BY <1>3, <1>4 DEF IInv, Follows, Sound, Follow
  <2>2. client' = Consume(client, frame)
    BY DEF Shows
  <2>3. client \in Message
    BY <2>1 DEF Capture
  <2>4. client' \in Message
    BY <2>2, <2>3, ConsumeTyped
  <2>5. [c EXCEPT !.message = client'] \in Capture
    BY <2>1, <2>4 DEF Capture
  <2>6. ~[c EXCEPT !.message = client'].exhausted /\ [c EXCEPT !.message = client'].message = client'
    BY <2>1 DEF Capture
  <2> QED
    BY <2>1, <2>2, <2>5, <2>6 DEF Sound
<1>5. Sound(capture') /\ (~capture'.exhausted => ~noted.exhausted
        /\ capture' = [noted EXCEPT !.message = Consume(@, frame)])
  BY <1>2, <1>3, <1>4, ObserveSound
<1> QED
  BY <1>3, <1>4, <1>5 DEF Moved

(* So it is when an event shows nothing.                                   *)
LEMMA ObservesSound ==
  ASSUME IInv, NEW c, Follow(c), capture' \in Observe(capture, c), UNCHANGED client
  PROVE  Moved(c)
<1>1. Sound(capture)
  BY DEF IInv, TypeOK, Sound
<1>2. Sound(capture') /\ (~capture'.exhausted => ~capture.exhausted /\ capture' = c)
  BY <1>1, ObserveSound DEF Follow
<1>3. ASSUME ~capture'.exhausted
      PROVE  capture'.message = client' /\ capture' = [c EXCEPT !.message = client']
  <2>1. c.message = client' /\ c \in Capture
    BY <1>2, <1>3 DEF Follow, IInv, Follows, Sound
  <2> QED
    BY <1>2, <1>3, <2>1 DEF Capture
<1> QED
  BY <1>2, <1>3 DEF Moved

-----------------------------------------------------------------------------
(* What each event leaves.                                                 *)

(* What the capture remembers stays what was said.                         *)
LEMMA MovedFollows ==
  ASSUME IInv, NEW c, Follow(c), Moved(c),
         ~capture.exhausted /\ ~c.invalid => Recalls(c, said')
  PROVE  Follows'
<1> SUFFICES ASSUME ~capture'.exhausted PROVE Follows'
  BY DEF Follows
<1>1. capture'.invalid = c.invalid /\ capture'.done = c.done /\ capture'.added = c.added
  BY DEF Sound, Capture, Moved
<1>2. ~capture.exhausted /\ capture'.message = client'
  BY DEF Moved
<1>3. ASSUME ~capture'.invalid PROVE Recalls(c, said')
  BY <1>1, <1>2, <1>3
<1>4. ASSUME ~capture'.invalid, NEW entry \in said'
      PROVE  /\ entry[2] \in Positions /\ entry[3] \in Items
             /\ \/ entry[1] = "done" /\ capture'.done[entry[2]] = entry[3]
                \/ entry[1] = "added" /\ capture'.added[entry[2]] = entry[3]
  <2>1. /\ entry[2] \in Positions /\ entry[3] \in Items
        /\ \/ entry[1] = "done" /\ c.done[entry[2]] = entry[3]
           \/ entry[1] = "added" /\ c.added[entry[2]] = entry[3]
    BY <1>3, <1>4, Zenon DEF Recalls
  <2> QED
    BY <1>1, <2>1, Zenon
<1> QED
  BY <1>2, <1>4, Zenon DEF Follows

(* An event that ends nothing.                                             *)
LEMMA ReadingInvariant ==
  ASSUME IInv, Reading, NEW c, Follow(c), Moved(c), Numbers',
         ~capture.exhausted /\ ~c.invalid => Recalls(c, said')
  PROVE  IInv'
<1>1. verdict = None /\ verdict' = None /\ events' # 0 /\ events' \in Nat
  BY DEF Reading, IInv, Judged, Fresh
<1>2. TypeOK'
  BY <1>1 DEF Moved, Sound, TypeOK
<1>3. Judged' /\ Fresh'
  BY <1>1 DEF Judged, Fresh
<1>4. Follows'
  BY MovedFollows
<1> QED
  BY <1>2, <1>3, <1>4 DEF IInv

(* An event that says nothing of an item leaves what was said.             *)
LEMMA SameFollow ==
  ASSUME IInv
  PROVE  /\ Follow(capture)
         /\ ~capture.exhausted /\ ~capture.invalid => Recalls(capture, said)
<1>1. Follow(capture)
  BY DEF Follow, IInv, TypeOK, Sound
<1> QED
  BY <1>1, Zenon DEF IInv, Follows, Recalls

LEMMA ResponseCreatedInvariant ==
  ASSUME IInv, NEW model \in Models, ResponseCreated(model)
  PROVE  IInv'
<1>1. Writes(Frame(model, "role", None))
  BY DEF Writes, Frame
<1>2. Moved(capture)
  BY <1>1, SameFollow, ShowsSound DEF ResponseCreated
<1>3. Numbers'
  BY DEF IInv, Numbers, ResponseCreated
<1> QED
  BY <1>2, <1>3, SameFollow, ReadingInvariant DEF ResponseCreated

LEMMA DeltaInvariant ==
  ASSUME IInv, NEW piece \in Pieces, TextDelta(piece) \/ RefusalDelta(piece)
  PROVE  IInv'
<1>1. /\ Writes(Frame(converter.model, "content", piece))
      /\ Writes(Frame(converter.model, "refusal", piece))
  BY DEF Writes, Frame, IInv, Numbers
<1>2. Moved(capture)
  BY <1>1, SameFollow, ShowsSound DEF TextDelta, RefusalDelta
<1>3. Numbers' /\ Reading /\ said' = said
  BY DEF IInv, Numbers, TextDelta, RefusalDelta
<1> QED
  BY <1>2, <1>3, SameFollow, ReadingInvariant

LEMMA ArgumentsInvariant ==
  ASSUME IInv, NEW id \in DOMAIN converter.index, NEW piece \in Pieces,
         ArgumentsDelta(id, piece)
  PROVE  IInv'
<1> DEFINE tool == [index |-> converter.index[id], id |-> <<>>, args |-> <<piece>>]
<1>1. Writes(Frame(converter.model, "tool", tool))
  <2>1. tool.index \in Nat /\ tool.id \in Seq(STRING) /\ tool.args \in Seq(Pieces)
    BY EmptySeq, OneElement DEF IInv, Numbers
  <2> QED
    BY <2>1 DEF Writes, Frame, IInv, Numbers
<1>2. Moved(capture)
  BY <1>1, SameFollow, ShowsSound DEF ArgumentsDelta
<1>3. Numbers' /\ Reading /\ said' = said
  BY DEF IInv, Numbers, ArgumentsDelta
<1> QED
  BY <1>2, <1>3, SameFollow, ReadingInvariant

(* A report of an item joins what was said, or contradicts it.             *)
LEMMA NoteItemRecalls ==
  ASSUME IInv, NEW p \in Positions, NEW item \in Items, NEW field \in {"done", "added"}
  PROVE  LET c == NoteItem(capture, field, p, item)
         IN  /\ Follow(c)
             /\ ~capture.exhausted /\ ~c.invalid => Recalls(c, said \cup {<<field, p, item>>})
<1> DEFINE c == NoteItem(capture, field, p, item)
<1>1. capture \in Capture
  BY DEF IInv, TypeOK
<1>2. CASE field = "done"
  <2>1. c = [capture EXCEPT !.done[p] = item,
                            !.invalid = @ \/ capture.done[p] \notin {None, item}]
    BY <1>2 DEF NoteItem
  <2>2. /\ c \in Capture /\ c.exhausted = capture.exhausted /\ c.message = capture.message
        /\ c.done = [capture.done EXCEPT ![p] = item] /\ c.added = capture.added
        /\ c.invalid = (capture.invalid \/ capture.done[p] \notin {None, item})
    <3> HIDE DEF c
    <3> QED
      BY <1>1, <2>1 DEF Capture
  <2>3. Follow(c)
    BY <2>2 DEF Follow, Sound
  <2>4. ASSUME ~capture.exhausted, ~c.invalid, NEW entry \in said \cup {<<field, p, item>>}
        PROVE  /\ entry[2] \in Positions /\ entry[3] \in Items
               /\ \/ entry[1] = "done" /\ c.done[entry[2]] = entry[3]
                  \/ entry[1] = "added" /\ c.added[entry[2]] = entry[3]
    <3>1. capture.done \in [Positions -> Items \cup {None}] /\ ~capture.invalid
          /\ capture.done[p] \in {None, item}
      BY <1>1, <2>2, <2>4 DEF Capture
    <3>2. CASE entry = <<field, p, item>>
      BY <1>2, <2>2, <3>1, <3>2
    <3>3. CASE entry \in said
      <4>1. /\ entry[2] \in Positions /\ entry[3] \in Items
            /\ \/ entry[1] = "done" /\ capture.done[entry[2]] = entry[3]
               \/ entry[1] = "added" /\ capture.added[entry[2]] = entry[3]
        BY <2>4, <3>1, <3>3, SameFollow, Zenon DEF Recalls
      <4>2. CASE entry[1] = "done" /\ capture.done[entry[2]] = entry[3]
        <5>1. entry[2] = p => entry[3] = item
          BY <3>1, <4>1, <4>2, OutputCaptureAssumption
        <5> QED
          BY <2>2, <3>1, <4>1, <4>2, <5>1
      <4>3. CASE entry[1] = "added" /\ capture.added[entry[2]] = entry[3]
        BY <2>2, <4>1, <4>3
      <4> QED
        BY <4>1, <4>2, <4>3
    <3> QED
      BY <2>4, <3>2, <3>3
  <2>5. Follow(c) /\ (~capture.exhausted /\ ~c.invalid => Recalls(c, said \cup {<<field, p, item>>}))
    <3> HIDE DEF c
    <3> QED
      BY <2>3, <2>4, Zenon DEF Recalls
  <2> QED
    BY <2>5
<1>3. CASE field = "added"
  <2>1. c = [capture EXCEPT !.added[p] = item,
                            !.invalid = @ \/ capture.added[p] \notin {None, item}]
    BY <1>3 DEF NoteItem
  <2>2. /\ c \in Capture /\ c.exhausted = capture.exhausted /\ c.message = capture.message
        /\ c.added = [capture.added EXCEPT ![p] = item] /\ c.done = capture.done
        /\ c.invalid = (capture.invalid \/ capture.added[p] \notin {None, item})
    <3> HIDE DEF c
    <3> QED
      BY <1>1, <2>1 DEF Capture
  <2>3. Follow(c)
    BY <2>2 DEF Follow, Sound
  <2>4. ASSUME ~capture.exhausted, ~c.invalid, NEW entry \in said \cup {<<field, p, item>>}
        PROVE  /\ entry[2] \in Positions /\ entry[3] \in Items
               /\ \/ entry[1] = "done" /\ c.done[entry[2]] = entry[3]
                  \/ entry[1] = "added" /\ c.added[entry[2]] = entry[3]
    <3>1. capture.added \in [Positions -> Items \cup {None}] /\ ~capture.invalid
          /\ capture.added[p] \in {None, item}
      BY <1>1, <2>2, <2>4 DEF Capture
    <3>2. CASE entry = <<field, p, item>>
      BY <1>3, <2>2, <3>1, <3>2
    <3>3. CASE entry \in said
      <4>1. /\ entry[2] \in Positions /\ entry[3] \in Items
            /\ \/ entry[1] = "done" /\ capture.done[entry[2]] = entry[3]
               \/ entry[1] = "added" /\ capture.added[entry[2]] = entry[3]
        BY <2>4, <3>1, <3>3, SameFollow, Zenon DEF Recalls
      <4>2. CASE entry[1] = "added" /\ capture.added[entry[2]] = entry[3]
        <5>1. entry[2] = p => entry[3] = item
          BY <3>1, <4>1, <4>2, OutputCaptureAssumption
        <5> QED
          BY <2>2, <3>1, <4>1, <4>2, <5>1
      <4>3. CASE entry[1] = "done" /\ capture.done[entry[2]] = entry[3]
        BY <2>2, <4>1, <4>3
      <4> QED
        BY <4>1, <4>2, <4>3
    <3> QED
      BY <2>4, <3>2, <3>3
  <2>5. Follow(c) /\ (~capture.exhausted /\ ~c.invalid => Recalls(c, said \cup {<<field, p, item>>}))
    <3> HIDE DEF c
    <3> QED
      BY <2>3, <2>4, Zenon DEF Recalls
  <2> QED
    BY <2>5
<1> QED
  BY <1>2, <1>3

(* A call begins a tool and is numbered; any other item only reports.      *)
LEMMA ItemAddedInvariant ==
  ASSUME IInv, NEW p \in Positions, NEW item \in Items, ItemAdded(p, item)
  PROVE  IInv'
<1> DEFINE noted == NoteItem(capture, "added", p, item)
           index == Cardinality(DOMAIN converter.index)
           tool  == [index |-> index, id |-> CallId(item), args |-> <<>>]
<1>1. Follow(noted) /\ (~capture.exhausted /\ ~noted.invalid => Recalls(noted, said'))
  BY NoteItemRecalls DEF ItemAdded
<1>2. Moved(noted) /\ Numbers'
  <2>1. CASE item.kind = "call" /\ item.id # ""
    <3>1. converter' = [converter EXCEPT !.index =
                          [id \in DOMAIN @ \cup {item.id} |-> IF id = item.id THEN index ELSE @[id]]]
          /\ Shows(noted, Frame(converter.model, "tool", tool))
      BY <2>1, Zenon DEF ItemAdded
    <3>2. index \in Nat
      BY FS_CardinalityType DEF IInv, Numbers
    <3>3. Writes(Frame(converter.model, "tool", tool))
      <4>1. tool.index \in Nat /\ tool.id \in Seq(STRING) /\ tool.args \in Seq(Pieces)
        BY <3>2, EmptySeq, CallIdTyped
      <4> HIDE DEF tool
      <4> QED
        BY <4>1 DEF Writes, Frame, IInv, Numbers
    <3>4. Moved(noted)
      <4> HIDE DEF noted, tool
      <4> QED
        BY <1>1, <3>1, <3>3, ShowsSound
    <3>5. Numbers'
      <4> DEFINE old == converter.index
                 new == [id \in DOMAIN old \cup {item.id} |-> IF id = item.id THEN index ELSE old[id]]
      <4>1. /\ DOMAIN new = DOMAIN old \cup {item.id}
            /\ \A id \in DOMAIN new : new[id] = index \/ (id \in DOMAIN old /\ new[id] = old[id])
        OBVIOUS
      <4>2. /\ IsFiniteSet(DOMAIN old) /\ converter.model \in Models \cup {None}
            /\ \A id \in DOMAIN old : old[id] \in Nat
        BY DEF IInv, Numbers
      <4>3. IsFiniteSet(DOMAIN new) /\ \A id \in DOMAIN new : new[id] \in Nat
        <5> HIDE DEF old, new, index
        <5> QED
          BY <3>2, <4>1, <4>2, FS_AddElement
      <4>4. converter'.index = new /\ converter'.model = converter.model
        BY <3>1
      <4> HIDE DEF new
      <4> QED
        BY <4>2, <4>3, <4>4 DEF Numbers
    <3> QED
      BY <3>4, <3>5
  <2>2. CASE ~(item.kind = "call" /\ item.id # "")
    <3>1. capture' \in Observe(capture, noted) /\ UNCHANGED <<converter, client>>
      BY <2>2, Zenon DEF ItemAdded
    <3>2. Moved(noted)
      <4> HIDE DEF noted
      <4> QED
        BY <1>1, <3>1, ObservesSound
    <3>3. Numbers'
      BY <3>1 DEF IInv, Numbers
    <3> QED
      BY <3>2, <3>3
  <2> QED
    BY <2>1, <2>2
<1> HIDE DEF noted
<1> QED
  BY <1>1, <1>2, ReadingInvariant DEF ItemAdded

LEMMA ItemDoneInvariant ==
  ASSUME IInv, NEW p \in Positions, NEW item \in Items, ItemDone(p, item)
  PROVE  IInv'
<1> DEFINE noted == NoteItem(capture, "done", p, item)
<1>1. Follow(noted) /\ (~capture.exhausted /\ ~noted.invalid => Recalls(noted, said'))
  BY NoteItemRecalls DEF ItemDone
<1>2. capture' \in Observe(capture, noted) /\ UNCHANGED <<converter, client>> /\ Reading
  BY DEF ItemDone
<1> HIDE DEF noted
<1>3. Moved(noted) /\ Numbers'
  BY <1>1, <1>2, ObservesSound DEF IInv, Numbers
<1> QED
  BY <1>1, <1>2, <1>3, ReadingInvariant

-----------------------------------------------------------------------------
(* How a generation ends.                                                  *)

(* The verdict on the capture as it ends.                                  *)
LEMMA EndInvariant ==
  ASSUME IInv, ~over, over', Sound(capture'), Numbers', Follows', events' = events,
         verdict' = None \/ verdict' = Verdict(capture')
  PROVE  IInv'
<1>1. verdict' # None => verdict' = Verdict(capture')
  OBVIOUS
<1>2. capture'.exhausted => Verdict(capture') = NoVerdict
  BY DEF Verdict
<1>3. TypeOK'
  BY <1>2 DEF TypeOK, Sound
<1>4. Judged'
  BY <1>1 DEF Judged
<1>5. Fresh'
  BY DEF IInv, Fresh
<1> QED
  BY <1>3, <1>4, <1>5 DEF IInv

LEMMA SetResponseSound ==
  ASSUME NEW c, Sound(c), ~c.exhausted, NEW response \in Responses, NEW done \in BOOLEAN
  PROVE  LET d == [SetResponse(c, response) EXCEPT !.completed = done]
         IN  /\ Sound(d) /\ d.exhausted = c.exhausted /\ d.message = c.message
             /\ d.done = c.done /\ d.added = c.added /\ (c.invalid => d.invalid)
BY DEF Sound, SetResponse, Capture

(* The terminal event keeps what is remembered of the items.               *)
LEMMA NoteCompletedFollows ==
  ASSUME IInv, NEW response \in Responses \cup {None}
  PROVE  LET c == NoteCompleted(capture, response)
         IN  /\ Follow(c)
             /\ ~capture.exhausted /\ ~c.invalid => Recalls(c, said)
<1> DEFINE c == NoteCompleted(capture, response)
<1>1. capture \in Capture /\ Sound(capture)
  BY DEF IInv, TypeOK, Sound
<1>2. CASE capture.exhausted
  <2>1. c.exhausted = capture.exhausted /\ c.message = capture.message
    BY <1>1 DEF NoteCompleted, SetResponse, Capture
  <2> HIDE DEF c
  <2>2. Follow(c)
    BY <1>2, <2>1 DEF Follow
  <2> QED
    BY <1>2, <2>2 DEF c
<1>3. CASE ~capture.exhausted
  <2>1. /\ Sound(c) /\ c.exhausted = capture.exhausted /\ c.message = capture.message
        /\ c.done = capture.done /\ c.added = capture.added /\ (capture.invalid => c.invalid)
    <3>1. CASE response = None
      <4>1. c = [capture EXCEPT !.completed = TRUE, !.invalid = TRUE]
        BY <3>1 DEF NoteCompleted
      <4> QED
        BY <1>1, <1>3, <4>1 DEF Sound, Capture
    <3>2. CASE response # None
      <4> DEFINE d == [SetResponse(capture, response) EXCEPT !.completed = TRUE]
      <4>1. c = d
        BY <3>2 DEF NoteCompleted
      <4>2. /\ Sound(d) /\ d.exhausted = capture.exhausted /\ d.message = capture.message
            /\ d.done = capture.done /\ d.added = capture.added /\ (capture.invalid => d.invalid)
        BY <1>1, <1>3, <3>2, SetResponseSound
      <4> HIDE DEF c, d
      <4> QED
        BY <4>1, <4>2
    <3> QED
      BY <3>1, <3>2
  <2>2. Follow(c)
    <3> HIDE DEF c
    <3> QED
      BY <1>3, <2>1 DEF Follow
  <2>3. ~c.invalid => Recalls(c, said)
    BY <1>3, <2>1, SameFollow, Zenon DEF Recalls
  <2> QED
    BY <2>2, <2>3
<1> QED
  BY <1>2, <1>3

LEMMA CompletedInvariant ==
  ASSUME IInv, NEW response \in Responses \cup {None}, Completed(response)
  PROVE  IInv'
<1> DEFINE noted == NoteCompleted(capture, response)
           reason == IF DOMAIN converter.index # {} THEN "tool_calls" ELSE "stop"
           frame == Frame(converter.model, "finish", reason)
<1>1. Follow(noted) /\ (~capture.exhausted /\ ~noted.invalid => Recalls(noted, said'))
  BY NoteCompletedFollows DEF Completed
<1>2. Shows(noted, frame)
  BY DEF Completed
<1>3. Writes(frame)
  BY DEF Writes, Frame, IInv, Numbers
<1>4. Numbers'
  BY DEF IInv, Numbers, Completed
<1> HIDE DEF noted, frame
<1>5. Moved(noted)
  BY <1>1, <1>2, <1>3, ShowsSound
<1>6. Follows'
  BY <1>1, <1>5, MovedFollows
<1> QED
  BY <1>4, <1>5, <1>6, EndInvariant DEF Completed, Moved

LEMMA FailsInvariant ==
  ASSUME IInv, Fails
  PROVE  IInv'
<1> DEFINE noted == [capture EXCEPT !.invalid = TRUE]
<1>1. Follow(noted) /\ noted.invalid
  BY DEF Follow, IInv, TypeOK, Sound, Capture
<1>2. capture' \in Observe(capture, noted) /\ UNCHANGED client
  BY DEF Fails
<1>3. Numbers'
  BY DEF IInv, Numbers, Fails
<1>4. verdict = None
  BY DEF IInv, Judged, Fails
<1> HIDE DEF noted
<1>5. Moved(noted)
  BY <1>1, <1>2, ObservesSound
<1>6. Follows'
  BY <1>1, <1>5, MovedFollows
<1> QED
  BY <1>3, <1>4, <1>5, <1>6, EndInvariant DEF Fails, Moved

LEMMA WholeResponseInvariant ==
  ASSUME IInv, NEW response \in Responses, WholeResponse(response)
  PROVE  IInv'
<1> DEFINE shown == [capture EXCEPT !.message = client']
           ended == [SetResponse(shown, response)
                       EXCEPT !.completed = response.status = "completed"]
<1>1. capture = EmptyCapture /\ said' = {} /\ client' \in Message
  BY ChatCompletionTyped DEF WholeResponse, IInv, Fresh
<1>2. Sound(shown) /\ ~shown.exhausted /\ shown.message = client'
  <2>1. capture \in Capture /\ ~capture.exhausted
    BY <1>1 DEF IInv, TypeOK, EmptyCapture
  <2> QED
    BY <1>1, <2>1 DEF Sound, Capture
<1>3. Sound(ended) /\ ~ended.exhausted /\ ended.message = client'
  <2> HIDE DEF shown
  <2>1. (response.status = "completed") \in BOOLEAN
    OBVIOUS
  <2>2. Sound(ended) /\ ended.exhausted = shown.exhausted /\ ended.message = shown.message
    BY <1>2, <2>1, SetResponseSound
  <2> HIDE DEF ended
  <2> QED
    BY <1>2, <2>2
<1>4. capture' \in Observe(shown, ended) /\ verdict' = Verdict(capture')
  BY DEF WholeResponse
<1> HIDE DEF shown, ended
<1>5. Sound(capture') /\ (~capture'.exhausted => capture' = ended)
  BY <1>2, <1>3, <1>4, ObserveSound
<1>6. Follows'
  BY <1>1, <1>3, <1>5 DEF Follows
<1>7. Numbers'
  BY DEF IInv, Numbers, WholeResponse
<1> QED
  BY <1>4, <1>5, <1>6, <1>7, EndInvariant DEF WholeResponse

-----------------------------------------------------------------------------

LEMMA InitInvariant == Init => IInv
<1> SUFFICES ASSUME Init PROVE IInv
  OBVIOUS
<1>1. TypeOK
  BY EmptySound DEF Init, TypeOK, Sound, EmptyCapture
<1>2. Numbers
  <2>1. DOMAIN converter.index = {}
    BY DEF Init
  <2> QED
    BY <2>1, FS_EmptySet DEF Init, Numbers
<1>3. Follows /\ Judged /\ Fresh
  BY DEF Init, Follows, Judged, Fresh, EmptyCapture
<1> QED
  BY <1>1, <1>2, <1>3 DEF IInv

LEMMA NextInvariant == IInv /\ [Next]_vars => IInv'
<1> SUFFICES ASSUME IInv, [Next]_vars PROVE IInv'
  OBVIOUS
<1>1. CASE Next
  <2>1. CASE \E model \in Models : ResponseCreated(model)
    BY <2>1, ResponseCreatedInvariant
  <2>2. CASE \E piece \in Pieces : TextDelta(piece) \/ RefusalDelta(piece)
    BY <2>2, DeltaInvariant
  <2>3. CASE \E p \in Positions, item \in Items : ItemAdded(p, item) \/ ItemDone(p, item)
    BY <2>3, ItemAddedInvariant, ItemDoneInvariant
  <2>4. CASE \E id \in DOMAIN converter.index, piece \in Pieces : ArgumentsDelta(id, piece)
    BY <2>4, ArgumentsInvariant
  <2>5. CASE \E response \in Responses \cup {None} : Completed(response)
    BY <2>5, CompletedInvariant
  <2>6. CASE Fails
    BY <2>6, FailsInvariant
  <2>7. CASE \E response \in Responses : WholeResponse(response)
    BY <2>7, WholeResponseInvariant
  <2> QED
    BY <1>1, <2>1, <2>2, <2>3, <2>4, <2>5, <2>6, <2>7 DEF Next
<1>2. CASE UNCHANGED vars
  BY <1>2 DEF vars, IInv, TypeOK, Numbers, Follows, Judged, Fresh
<1> QED
  BY <1>1, <1>2

(* The capture follows the generation, and the verdict is on the capture.  *)
THEOREM Inductive == Spec => []IInv
  BY InitInvariant, NextInvariant, PTL DEF Spec

(* A capture that ran out of its budget keeps nothing of the generation    *)
(* and never reaches a positive verdict, whatever ran it out.              *)
THEOREM ReleasesWhatRunsOut == Spec => []TypeOK
<1>1. IInv => TypeOK
  BY DEF IInv
<1> QED
  BY <1>1, Inductive, PTL

(* A complete verdict is on a capture that did not run out, which holds    *)
(* the message the client was shown.                                       *)
LEMMA CompleteShown ==
  ASSUME IInv, verdict # None, verdict.complete
  PROVE  /\ capture.message = client /\ ~capture.exhausted /\ Complete(capture)
         /\ verdict.envelope = Envelope(Visible(client))
         /\ verdict.output = Output(capture)
         /\ verdict.admissible = Admissible(capture)
<1>1. verdict = Verdict(capture)
  BY DEF IInv, Judged
<1>2. ~capture.exhausted
  BY <1>1 DEF Verdict, NoVerdict
<1>3. verdict = [envelope |-> Envelope(Visible(capture.message)), output |-> Output(capture),
                 complete |-> Complete(capture), admissible |-> Admissible(capture)]
  BY <1>1, <1>2 DEF Verdict
<1>4. capture.message = client
  BY <1>2 DEF IInv, Follows
<1> QED
  BY <1>2, <1>3, <1>4

(* The envelope of a complete generation is the message the client was     *)
(* shown, through any budget and any order of events.                      *)
THEOREM EnvelopeOfWhatIsShown == Spec => []EnvelopeIsShown
<1>1. IInv => EnvelopeIsShown
  BY CompleteShown DEF EnvelopeIsShown
<1> QED
  BY <1>1, Inductive, PTL

(* What may be replayed is what the client was shown, no more and no less. *)
THEOREM AdmitsWhatIsShown == Spec => []AdmissibleIsShown
<1>1. ASSUME IInv PROVE AdmissibleIsShown
  <2> SUFFICES ASSUME verdict # None, verdict.admissible
               PROVE  /\ verdict.complete /\ client.refusal = <<>>
                      /\ Visible(client) = Project(verdict.output)
                      /\ HasReasoning(verdict.output)
                      /\ client.finish = IF Calls(verdict.output) # <<>> THEN "tool_calls" ELSE "stop"
    BY DEF AdmissibleIsShown
  <2>1. verdict.complete
    <3>1. verdict = Verdict(capture)
      BY <1>1 DEF IInv, Judged
    <3> QED
      BY <3>1 DEF Verdict, NoVerdict, Admissible
  <2>2. /\ capture.message = client /\ Admissible(capture) /\ Complete(capture)
        /\ verdict.output = Output(capture)
    BY <1>1, <2>1, CompleteShown
  <2> DEFINE output == verdict.output
  <2>3. /\ client.refusal = <<>> /\ Project(output) # None /\ HasReasoning(output)
        /\ Visible(client) = Project(output) /\ FinishAgrees(client)
    BY <2>2 DEF Admissible, Complete
  <2> HIDE DEF output
  <2>4. Project(output) = [content |-> Bodies(output, "message"), refusal |-> <<>>,
                           calls |-> Calls(output)]
    BY <2>3 DEF Project
  <2>5. Visible(client) = [content |-> client.content, refusal |-> client.refusal,
                           calls |-> client.tools]
    BY <2>3 DEF Visible
  <2>6. client.tools = Calls(output)
    BY <2>3, <2>4, <2>5
  <2> QED
    BY <2>1, <2>3, <2>6 DEF FinishAgrees, output
<1> QED
  BY <1>1, Inductive, PTL

(* A complete output contradicts nothing that was reported on the way.     *)
THEOREM CompleteContradictsNothing == Spec => []CompleteAgrees
<1>1. ASSUME IInv PROVE CompleteAgrees
  <2> SUFFICES ASSUME verdict # None, verdict.complete, NEW entry \in said
               PROVE  \/ entry[1] = "done" /\ Agrees(verdict.output, entry[2], entry[3])
                      \/ entry[1] = "added" /\ Announces(verdict.output, entry[2], entry[3])
    BY DEF CompleteAgrees
  <2> DEFINE output == verdict.output
  <2>1. /\ ~capture.exhausted /\ ~capture.invalid
        /\ Reconcile(capture, output)
    BY <1>1, CompleteShown DEF Complete
  <2>2. /\ entry[2] \in Positions /\ entry[3] \in Items /\ entry[3] # None
        /\ \/ entry[1] = "done" /\ capture.done[entry[2]] = entry[3]
           \/ entry[1] = "added" /\ capture.added[entry[2]] = entry[3]
    <3>1. /\ entry[2] \in Positions /\ entry[3] \in Items
          /\ \/ entry[1] = "done" /\ capture.done[entry[2]] = entry[3]
             \/ entry[1] = "added" /\ capture.added[entry[2]] = entry[3]
      BY <1>1, <2>1, SameFollow, Zenon DEF Recalls
    <3> QED
      BY <3>1, OutputCaptureAssumption, Zenon
  <2> HIDE DEF output
  <2> QED
    BY <2>1, <2>2, Zenon DEF Reconcile, output
<1> QED
  BY <1>1, Inductive, PTL
=============================================================================
