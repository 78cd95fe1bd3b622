---------------------------- MODULE OutputCapture ----------------------------
(***************************************************************************)
(* The verdict on one generation, src/reasoning/capture.ts, composed with  *)
(* the two converters that feed it.  Upstream sends events or one          *)
(* response; a converter turns them into what the client is shown; the     *)
(* capture observes both sides under a memory budget and says at the end   *)
(* whether the generation is complete, and whether its output may be       *)
(* replayed.  Nothing upstream claims is trusted: items may be announced   *)
(* twice, differ from the final output or never be shown.                  *)
(*                                                                         *)
(* A text is the sequence of its Pieces, so that joining fragments is      *)
(* concatenation.  The frames are exactly those the converter writes: the  *)
(* shapes consumeChat refuses, which it never writes, are left out, and so *)
(* is the wording of a frame.                                              *)
(***************************************************************************)
EXTENDS Naturals, Sequences, FiniteSets

CONSTANTS
    Items,        \* output items: [kind, id, call, body, enc, status]
    Pieces,       \* fragments of text or of tool arguments
    Spaces,       \* the pieces that JSON.stringify(JSON.parse(...)) drops
    Arguments,    \* the argument texts, without spaces, that parse losslessly
    Models,       \* model snapshots
    Outputs,      \* the outputs a final response may carry
    MaxPosition,  \* bound: output_index is 0 .. MaxPosition
    MaxEvents,    \* bound on the events before the terminal one
    None

ASSUME OutputCaptureAssumption ==
    /\ Items \subseteq [kind : {"reasoning", "message", "refusal", "call"},
                        id : STRING, call : STRING \cup {None}, body : Seq(Pieces),
                        enc : STRING \cup {None}, status : {"completed", "incomplete"}]
    /\ Outputs \subseteq Seq(Items)
    /\ Spaces \subseteq Pieces
    /\ None \notin Items
    /\ MaxPosition \in Nat /\ MaxEvents \in Nat

VARIABLES
    converter,  \* createResponsesToChatStreamConverter: [model, index]
    capture,    \* the OutputCapture of the session
    verdict,    \* what finish returned, or None
    over,       \* a terminal event or a whole response has been handled
    events,     \* how many events have been read
    client,     \* history: the message the client has been shown
    said        \* history: every <<added or done, position, item>> upstream sent

vars == <<converter, capture, verdict, over, events, client, said>>

Positions == 0 .. MaxPosition
Statuses  == {"completed", "incomplete"}  \* none at all is refused like "incomplete"
Responses ==
    [model : Models \cup {None}, status : Statuses, output : Outputs \cup {None}]

-----------------------------------------------------------------------------
(* Frames and the message they add up to.  toolCallIndexByItemId numbers   *)
(* tools from 0 without gaps, so the Map of fragments is a sequence.       *)

EmptyMessage == [role |-> FALSE, content |-> <<>>, refusal |-> <<>>, tools |-> <<>>,
                 finish |-> None, models |-> {}]

Frame(model, part, value) == [model |-> model, part |-> part, value |-> value]

\* consumeTool: fragments of the tool at an index, which the first one creates
AddFragments(tools, index, ids, args) ==
    IF index < Len(tools)
    THEN [tools EXCEPT ![index + 1] = [id |-> @.id \o ids, args |-> @.args \o args]]
    ELSE Append(tools, [id |-> ids, args |-> args])

\* consumeChat on a chunk; the models are kept as the set of those seen
Consume(message, frame) ==
    LET m == [message EXCEPT !.models = @ \cup {frame.model}]
        v == frame.value
        tools == AddFragments(m.tools, v.index, v.id, v.args)
    IN  CASE frame.part = "role"    -> [m EXCEPT !.role = TRUE]
          [] frame.part = "content" -> [m EXCEPT !.content = Append(@, v)]
          [] frame.part = "refusal" -> [m EXCEPT !.refusal = Append(@, v)]
          [] frame.part = "tool"    -> [m EXCEPT !.tools = tools]
          [] frame.part = "finish"  -> [m EXCEPT !.finish = v]

\* join: a call_id that is missing or empty adds nothing to a tool's id
CallId(item) == IF item.call \in {None, ""} THEN <<>> ELSE <<item.call>>

\* the bodies of one kind of item, and the calls, up to the i-th item
Bodies(output, kind) ==
    LET text[i \in 0 .. Len(output)] ==
            IF i = 0 THEN <<>>
            ELSE IF output[i].kind = kind THEN text[i - 1] \o output[i].body ELSE text[i - 1]
    IN  text[Len(output)]
Calls(output) ==
    LET calls[i \in 0 .. Len(output)] ==
            IF i = 0 THEN <<>>
            ELSE IF output[i].kind = "call"
                 THEN Append(calls[i - 1], [id |-> CallId(output[i]), args |-> output[i].body])
                 ELSE calls[i - 1]
    IN  calls[Len(output)]

\* toChatCompletion, and consumeChat on its single message
ChatCompletion(response) ==
    LET output == IF response.output = None THEN <<>> ELSE response.output
    IN  [role |-> TRUE, content |-> Bodies(output, "message"),
         refusal |-> Bodies(output, "refusal"), tools |-> Calls(output),
         finish |-> IF Calls(output) # <<>> THEN "tool_calls" ELSE "stop",
         models |-> {response.model}]

-----------------------------------------------------------------------------
(* The capture.                                                            *)

NothingAt == [p \in Positions |-> None]

EmptyCapture ==
    [exhausted |-> FALSE, invalid |-> FALSE, completed |-> FALSE, final |-> None,
     done |-> NothingAt, added |-> NothingAt, message |-> EmptyMessage]

\* Mutant of Released: the text and the calls are kept.
ReleasedInPart(c) == [EmptyCapture EXCEPT !.exhausted = TRUE, !.invalid = TRUE,
                                          !.message = c.message]

\* the catch of observe: everything retained is released, for good (and the
\* flags it leaves as they are, which an exhausted capture never reads, reset)
Released(c) == [EmptyCapture EXCEPT !.exhausted = TRUE, !.invalid = TRUE]

\* Mutant of Observe: what does not fit the budget is skipped.
ObserveWhatFits(c, next) == {c, next}

\* observe(action): any step of an action may find the budget spent
Observe(c, next) == IF c.exhausted THEN {c} ELSE {next, Released(c)}

\* Mutant of NoteItem: the last report of a position wins.
NoteLastItem(c, field, p, item) == [c EXCEPT ![field][p] = item]

\* addEvent on output_item.added and output_item.done
NoteItem(c, field, p, item) ==
    [c EXCEPT ![field][p] = item,
              !.invalid = @ \/ c[field][p] \notin {None, item}]

\* setResponse, for the one response a generation ends with
SetResponse(c, response) ==
    [c EXCEPT !.final = response, !.invalid = @ \/ response.status # "completed"]

\* addEvent on response.completed, response being None when it carries none
NoteCompleted(c, response) ==
    IF response = None THEN [c EXCEPT !.completed = TRUE, !.invalid = TRUE]
    ELSE [SetResponse(c, response) EXCEPT !.completed = TRUE]

-----------------------------------------------------------------------------
(* finish: the verdict.                                                    *)

NoVerdict ==
    [envelope |-> None, output |-> None, complete |-> FALSE, admissible |-> FALSE]

Distinct(ids) == \A i, j \in DOMAIN ids : ids[i] = ids[j] => i = j

Visible(message) ==
    IF /\ message.role
       /\ Distinct([i \in DOMAIN message.tools |-> message.tools[i].id])
       /\ \A i \in DOMAIN message.tools : message.tools[i].id # <<>>
    THEN [content |-> message.content, refusal |-> message.refusal,
          calls |-> message.tools]
    ELSE None

\* output(): the final response's, or the done items when none is missing
Output(c) ==
    LET reported == {p \in Positions : c.done[p] # None}
        count    == Cardinality(reported)
    IN  IF c.final # None /\ c.final.output # None THEN c.final.output
        ELSE IF count > 0 /\ reported = 0 .. (count - 1)
             THEN [i \in 1 .. count |-> c.done[i - 1]]
             ELSE None

\* live streams may encrypt an otherwise identical reasoning item again
ReEncrypted(final, item) ==
    /\ final.kind = "reasoning" /\ item.kind = "reasoning"
    /\ final.enc # None /\ item.enc # None
    /\ [final EXCEPT !.enc = item.enc] = item

Agrees(output, p, item) ==
    /\ p < Len(output)
    /\ output[p + 1] = item \/ ReEncrypted(output[p + 1], item)

Announces(output, p, item) ==
    /\ p < Len(output)
    /\ \A key \in {"kind", "id", "call"} : item[key] \in {None, output[p + 1][key]}

Reconcile(c, output) ==
    \A p \in Positions : /\ c.done[p] = None \/ Agrees(output, p, c.done[p])
                         /\ c.added[p] = None \/ Announces(output, p, c.added[p])

\* project: what a client shown exactly this output would have seen
Project(output) ==
    IF /\ \A i \in DOMAIN output : /\ output[i].status = "completed"
                                   /\ output[i].kind # "refusal" /\ output[i].id # ""
                                   /\ output[i].kind = "call" => CallId(output[i]) # <<>>
       /\ Distinct([i \in DOMAIN output |-> output[i].id])
    THEN [content |-> Bodies(output, "message"), refusal |-> <<>>,
          calls |-> Calls(output)]
    ELSE None

HasReasoning(output) ==
    \E i \in DOMAIN output : output[i].kind = "reasoning" /\ output[i].enc # None

\* normalizedArguments
Normalized(args) ==
    LET text == SelectSeq(args, LAMBDA piece : piece \notin Spaces)
    IN  IF text \in Arguments THEN text ELSE None

Envelope(visible) ==
    IF \/ visible = None
       \/ visible.content = <<>> /\ visible.refusal = <<>> /\ visible.calls = <<>>
       \/ \E i \in DOMAIN visible.calls : Normalized(visible.calls[i].args) = None
    THEN None
    ELSE [visible EXCEPT !.calls =
            [i \in DOMAIN @ |-> [@[i] EXCEPT !.args = Normalized(@)]]]

\* a tool_calls finish needs calls that visible() could assemble
FinishAgrees(message) ==
    message.finish = IF Visible(message) # None /\ message.tools # <<>>
                     THEN "tool_calls" ELSE "stop"

Complete(c) ==
    /\ ~c.invalid /\ c.completed
    /\ c.message.role /\ FinishAgrees(c.message)
    /\ c.final.model # None /\ c.message.models = {c.final.model}
    /\ Output(c) # None /\ Reconcile(c, Output(c))

\* Mutant of Admissible: the final response is taken at its word.
AdmissibleAsClaimed(c) ==
    /\ Complete(c)
    /\ c.message.refusal = <<>>
    /\ Envelope(Visible(c.message)) # None
    /\ Project(Output(c)) # None /\ HasReasoning(Output(c))

Admissible(c) ==
    /\ Complete(c)
    /\ c.message.refusal = <<>>
    /\ Envelope(Visible(c.message)) # None
    /\ Project(Output(c)) # None /\ HasReasoning(Output(c))
    /\ Visible(c.message) = Project(Output(c))

Verdict(c) ==
    IF c.exhausted THEN NoVerdict
    ELSE [envelope |-> Envelope(Visible(c.message)), output |-> Output(c),
          complete |-> Complete(c), admissible |-> Admissible(c)]

-----------------------------------------------------------------------------
(* streamConverted, one event at a time, and sendConvertedJson.            *)

Init ==
    /\ converter = [model |-> None, index |-> << >>]
    /\ capture = EmptyCapture
    /\ verdict = None /\ over = FALSE /\ events = 0
    /\ client = EmptyMessage
    /\ said = {}

Reading ==
    /\ ~over /\ events < MaxEvents
    /\ events' = events + 1
    /\ UNCHANGED <<verdict, over>>

\* session.event, convert, session.frame and the write of the one frame
Shows(c, frame) ==
    /\ \E noted \in Observe(capture, c) :
         capture' \in Observe(noted, [noted EXCEPT !.message = Consume(@, frame)])
    /\ client' = Consume(client, frame)

ResponseCreated(model) ==
    /\ Reading
    /\ converter' = [converter EXCEPT !.model = model]
    /\ Shows(capture, Frame(model, "role", None))
    /\ UNCHANGED said

TextDelta(piece) ==
    /\ Reading
    /\ Shows(capture, Frame(converter.model, "content", piece))
    /\ UNCHANGED <<converter, said>>

RefusalDelta(piece) ==
    /\ Reading
    /\ Shows(capture, Frame(converter.model, "refusal", piece))
    /\ UNCHANGED <<converter, said>>

\* a call gets the next index, the size of the Map, even when its item id already has one
ItemAdded(p, item) ==
    /\ Reading
    /\ LET noted == NoteItem(capture, "added", p, item)
           index == Cardinality(DOMAIN converter.index)
           tool  == [index |-> index, id |-> CallId(item), args |-> <<>>]
       IN  IF item.kind = "call" /\ item.id # ""
           THEN /\ converter' = [converter EXCEPT !.index =
                      [id \in DOMAIN @ \cup {item.id} |-> IF id = item.id THEN index ELSE @[id]]]
                /\ Shows(noted, Frame(converter.model, "tool", tool))
           ELSE /\ capture' \in Observe(capture, noted)
                /\ UNCHANGED <<converter, client>>
    /\ said' = said \cup {<<"added", p, item>>}

ArgumentsDelta(id, piece) ==
    /\ Reading
    /\ id \in DOMAIN converter.index
    /\ LET tool == [index |-> converter.index[id], id |-> <<>>, args |-> <<piece>>]
       IN  Shows(capture, Frame(converter.model, "tool", tool))
    /\ UNCHANGED <<converter, said>>

ItemDone(p, item) ==
    /\ Reading
    /\ capture' \in Observe(capture, NoteItem(capture, "done", p, item))
    /\ said' = said \cup {<<"done", p, item>>}
    /\ UNCHANGED <<converter, client>>

\* the terminal frames are captured before complete(), then written
Completed(response) ==
    /\ ~over
    /\ over' = TRUE
    /\ LET reason == IF DOMAIN converter.index # {} THEN "tool_calls" ELSE "stop"
           frame  == Frame(converter.model, "finish", reason)
           noted  == NoteCompleted(capture, response)
       IN  Shows(noted, frame)
    /\ verdict' = Verdict(capture')
    /\ UNCHANGED <<converter, events, said>>

\* response.incomplete, response.failed or error: finishWithoutCapture, so that
\* neither the response nor the frames it still causes can reach a verdict
Fails ==
    /\ ~over
    /\ over' = TRUE
    /\ capture' \in Observe(capture, [capture EXCEPT !.invalid = TRUE])
    /\ UNCHANGED <<converter, verdict, events, client, said>>

\* a response that is not a stream; any other status is an error before it
WholeResponse(response) ==
    /\ ~over /\ events = 0
    /\ over' = TRUE
    /\ client' = ChatCompletion(response)
    /\ LET shown == [capture EXCEPT !.message = client']
           ended == [SetResponse(shown, response)
                       EXCEPT !.completed = response.status = "completed"]
       IN  capture' \in Observe(shown, ended) /\ verdict' = Verdict(capture')
    /\ UNCHANGED <<converter, events, said>>

Next ==
    \/ \E model \in Models : ResponseCreated(model)
    \/ \E piece \in Pieces : TextDelta(piece) \/ RefusalDelta(piece)
    \/ \E p \in Positions, item \in Items : ItemAdded(p, item) \/ ItemDone(p, item)
    \/ \E id \in DOMAIN converter.index, piece \in Pieces : ArgumentsDelta(id, piece)
    \/ \E response \in Responses \cup {None} : Completed(response)
    \/ Fails
    \/ \E response \in Responses : WholeResponse(response)

Spec == Init /\ [][Next]_vars

-----------------------------------------------------------------------------
(* Properties.                                                             *)

Tool == [id : Seq(STRING), args : Seq(Pieces)]
Message == [role : BOOLEAN, content : Seq(Pieces), refusal : Seq(Pieces),
            tools : Seq(Tool), finish : {None, "stop", "tool_calls"},
            models : SUBSET (Models \cup {None})]
Capture == [exhausted : BOOLEAN, invalid : BOOLEAN, completed : BOOLEAN,
            final : Responses \cup {None}, done : [Positions -> Items \cup {None}],
            added : [Positions -> Items \cup {None}], message : Message]

\* An exhausted capture retains nothing of the generation, encrypted content
\* included, and never reaches a positive verdict (the catch of observe).
TypeOK ==
    /\ capture \in Capture
    /\ capture.exhausted =>
         /\ capture.message = EmptyMessage /\ capture.final = None
         /\ capture.done = NothingAt /\ capture.added = NothingAt
         /\ verdict \in {None, NoVerdict}

\* The envelope a complete generation is recorded under, which the next request
\* is recognised by, is exactly the assistant message the client was shown: no
\* budget running out in the middle of the stream leaves a shorter one.
EnvelopeIsShown ==
    (verdict # None /\ verdict.complete) => verdict.envelope = Envelope(Visible(client))

\* Output admitted for replay says no more and no less than what the client was
\* shown: a call or a text that upstream put only in its final response, or only
\* in the stream, a refusal and a generation without encrypted reasoning are
\* never admitted (finish against project and visible).
AdmissibleIsShown ==
    (verdict # None /\ verdict.admissible) =>
        /\ verdict.complete /\ client.refusal = <<>>
        /\ Visible(client) = Project(verdict.output)
        /\ HasReasoning(verdict.output)
        /\ client.finish = IF Calls(verdict.output) # <<>> THEN "tool_calls" ELSE "stop"

\* A complete output contradicts nothing upstream said on the way: every item
\* ever reported done is in it at its position, up to encrypting a reasoning
\* item again, and every item added has kept its identity there (addEvent,
\* reconcile), however often a position was reported.
CompleteAgrees ==
    (verdict # None /\ verdict.complete) =>
        \A entry \in said :
            \/ entry[1] = "done" /\ Agrees(verdict.output, entry[2], entry[3])
            \/ entry[1] = "added" /\ Announces(verdict.output, entry[2], entry[3])

-----------------------------------------------------------------------------
(* Why they hold.                                                          *)

\* the converter numbers the calls of the generation
Numbers ==
    /\ converter.model \in Models \cup {None}
    /\ IsFiniteSet(DOMAIN converter.index)
    /\ \A id \in DOMAIN converter.index : converter.index[id] \in Nat

\* a capture that has not run out holds what the client was shown, and unless
\* upstream has contradicted itself, each position what was last said of it
Follows ==
    /\ ~capture.exhausted => capture.message = client
    /\ ~capture.exhausted /\ ~capture.invalid =>
         \A entry \in said :
            /\ entry[2] \in Positions /\ entry[3] \in Items
            /\ \/ entry[1] = "done" /\ capture.done[entry[2]] = entry[3]
               \/ entry[1] = "added" /\ capture.added[entry[2]] = entry[3]

\* the verdict is that of the capture as it ended
Judged == verdict # None => over /\ verdict = Verdict(capture)

\* nothing was captured before the first event
Fresh == events \in Nat /\ (~over /\ events = 0 => capture = EmptyCapture /\ said = {})

IInv == TypeOK /\ Numbers /\ Follows /\ Judged /\ Fresh
=============================================================================
