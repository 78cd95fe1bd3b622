------------------------------ MODULE MCAlgorithms ------------------------------
(***************************************************************************)
(* A stream for SseReader, or else two ways of writing a message for       *)
(* CanonicalIdentity.                                                      *)
(***************************************************************************)
EXTENDS SseReader, CanonicalIdentity

(* A text of line ends, prefixes and one character more.                   *)
MCCharacters == {"CR", "LF", "data:", "event:", "x"}

MCLetters == {"a", "text", "assistant", "user"}

MCKeyOrder == <<"content", "index", "name", "note", "role", "text", "tool_calls", "type">>

A == <<"a">>

TextPart(text) == Object(<<Field("type", String(<<"text">>)), Field("text", String(text))>>)

NotedPart(text) == Object(<<Field("text", String(text)), Field("note", Null), Field("type", String(<<"text">>))>>)

Contents ==
  {Null, String(<<>>), String(A \o A), Array(<<>>), Array(<<TextPart(A), TextPart(A)>>), Array(<<NotedPart(A)>>)}

Call(fields) == Array(<<Object(<<Field("name", String(A))>>), Object(fields)>>)

ToolCalls ==
  {Array(<<>>), Call(<<Field("name", String(A))>>), Call(<<Field("index", Number(1)), Field("name", String(A))>>),
   Call(<<Field("name", String(A)), Field("index", Number(0))>>)}

MCMessageFields ==
  {Field("role", String(<<role>>)) : role \in {"assistant", "user"}}
  \cup {Field("content", content) : content \in Contents}
  \cup {Field("tool_calls", calls) : calls \in ToolCalls}

Unlimited == [maxBytes |-> 1000, maxNodes |-> 1000, maxDepth |-> 1000, maxScratchBytes |-> 1000]

(* One limit at a time, at every place a message can meet it. *)
MCLimits ==
  {Unlimited} \cup {[Unlimited EXCEPT !.maxBytes = n] : n \in 0..90}
             \cup {[Unlimited EXCEPT !.maxNodes = n] : n \in 0..16}
             \cup {[Unlimited EXCEPT !.maxDepth = n] : n \in 0..5}
             \cup {[Unlimited EXCEPT !.maxScratchBytes = n] : n \in 0..30}

MCInit == Init /\ InitMessages

(* The reader reads only where there is no message to compare.             *)
Reads == left.fields = <<>> /\ right.fields = <<>> /\ Next /\ UNCHANGED <<left, right>>

Rank(key) == CHOOSE i \in DOMAIN KeyOrder : KeyOrder[i] = key

(* The left message is written in one order of its fields; every message   *)
(* has a twin that is.                                                     *)
Writes(field) ==
  /\ received = <<>> /\ status = "reading"
  /\ \/ WriteRight(field)
     \/ /\ right.fields = <<>>
        /\ \A key \in KeysOf(left) : Rank(key) < Rank(field.key)
        /\ WriteLeft(field)
  /\ UNCHANGED vars

MCNext == Reads \/ \E field \in MessageFields : Writes(field)

MCSpec == MCInit /\ [][MCNext]_<<vars, left, right>>

=============================================================================
