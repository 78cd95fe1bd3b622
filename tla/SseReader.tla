------------------------------- MODULE SseReader -------------------------------
(***************************************************************************)
(* readSseEvents: the events of a stream that arrives in chunks, with line *)
(* ends of any kind.  A text is a sequence of characters, of which the     *)
(* prefixes data: and event: of a line are one each, and each counts once  *)
(* towards the limit.  The decoder never hands out half a character, but   *)
(* may hand out nothing.  A chunk longer than what the decoder is given at *)
(* once is more than one here.                                             *)
(*                                                                         *)
(* Where chunks end makes a difference in one case, see CutAtItsEnd.       *)
(***************************************************************************)
EXTENDS Integers, SequencesExt, Stepwise

CONSTANTS
  CR, LF,      \* the characters of a line end
  Characters,  \* all characters
  Replacement, \* the one the decoder puts for half a character at the end
  MaxEvent,    \* maxEventBytes
  MaxText      \* bound: characters of a stream

ASSUME SseReaderAssumption ==
  /\ {CR, LF, Replacement} \subseteq Characters
  /\ CR # LF /\ Replacement \notin {CR, LF}
  /\ MaxEvent \in Nat /\ MaxText \in Nat

VARIABLES
  buffer,                \* what is not yet part of a yielded event
  pendingCarriageReturn, \* the last character was a carriage return
  events,                \* the events yielded
  status,                \* reading, ended, or failed at the limit
  received,              \* history: every character received, also after it failed
  parted                 \* history: a block of MaxEvent was received but for its last line end

vars == <<buffer, pendingCarriageReturn, events, status, received, parted>>

Texts  == Seq(Characters)
Lines  == Seq(Texts)
Events == Seq([event : Lines, data : Lines])

-----------------------------------------------------------------------------
(* Lines, and the event they make.                                         *)

Splits ==
  [c \in Characters |-> [lines \in Lines |->
     IF c = LF THEN Append(lines, <<>>)
     ELSE [lines EXCEPT ![Len(lines)] = Append(@, c)]]]

(* split: one part more than there are separators. *)
Split(text) == Through(Splits, <<<<>>>>, text)

StartingWith(prefix, lines) ==
  Through([line \in Texts |-> [kept \in Lines |->
             IF line # <<>> /\ Head(line) = prefix THEN Append(kept, Tail(line)) ELSE kept]],
          <<>>, lines)

(* parseEvent: the first event line names the event, every data line       *)
(* contributes, and without one there is no event.                         *)
EventOf(lines) ==
  LET names == StartingWith("event:", lines)
      data  == StartingWith("data:", lines)
  IN IF data = <<>> THEN <<>>
     ELSE <<[event |-> IF names = <<>> THEN <<>> ELSE <<Head(names)>>, data |-> data]>>

ParseEvent(block) == EventOf(Split(block))

-----------------------------------------------------------------------------
(* Line ends.                                                              *)

EndsInCR(text) == text # <<>> /\ Last(text) = CR

Unifies ==
  [c \in Characters |-> [unified \in [text : Texts, afterCR : BOOLEAN] |->
     [text |-> IF c = CR THEN Append(unified.text, LF)
               ELSE IF c = LF /\ unified.afterCR THEN unified.text
               ELSE Append(unified.text, c),
      afterCR |-> c = CR]]]

(* Every line end becomes one LF. *)
Unified(text) == Through(Unifies, [text |-> <<>>, afterCR |-> FALSE], text).text

-----------------------------------------------------------------------------
(* The reference knows no chunks: it takes the whole text a character at a *)
(* time.  A blank line ends an event, unless it is the event's first line. *)
(* The size of a block counts all of it that was taken, when it has ended  *)
(* without the line end before the blank line.                             *)

Begun(sizes, before) == [lines |-> <<<<>>>>, size |-> 0, sizes |-> sizes, events |-> before]

Takes ==
  [c \in Characters |-> [sent \in [lines : Lines, size : Nat, sizes : SUBSET Int, events : Events] |->
     LET n == Len(sent.lines)
     IN IF c = LF /\ n > 1 /\ sent.lines[n] = <<>>
        THEN Begun(sent.sizes \cup {sent.size - 1}, sent.events \o EventOf(SubSeq(sent.lines, 1, n - 1)))
        ELSE [sent EXCEPT !.lines = Splits[c][@], !.size = @ + 1]]]

Sent == Through(Takes, Begun({}, <<>>), Unified(received))

(* What the block that has not ended comes to without a line end at its    *)
(* end, as if the next were to end it.                                     *)
Reached(sent) ==
  IF Len(sent.lines) > 1 /\ sent.lines[Len(sent.lines)] = <<>> THEN sent.size - 1 ELSE sent.size

TooLong(sent) == \E size \in sent.sizes \cup {Reached(sent)} : size > MaxEvent

(* A block that is not over the limit, but is if its first line end counts. *)
CutAtItsEnd(sent) == Reached(sent) = MaxEvent /\ sent.size > MaxEvent

-----------------------------------------------------------------------------
(* The reader.                                                             *)

(* What append takes of a text: not the rest of a line end. *)
Rest(text) ==
  IF pendingCarriageReturn /\ text # <<>> /\ Head(text) = LF THEN Tail(text) ELSE text

EndsInCRNow(text) == EndsInCR(Rest(text))

(* append ignores an empty text: a carriage return stays pending. *)
StaysPending(text) == IF text = <<>> THEN pendingCarriageReturn ELSE EndsInCR(Rest(text))

BlankLines(text) == {i \in 1..Len(text) - 1 : text[i] = LF /\ text[i + 1] = LF}

Over(block) == Len(block) > MaxEvent

(* One turn of the loop takes the first block that is complete. *)
Turn ==
  [reader \in [buffer : Texts, events : Events, over : BOOLEAN] |->
     LET ends  == BlankLines(reader.buffer)
         index == Min(ends)
         block == SubSeq(reader.buffer, 1, index - 1)
     IN IF reader.over \/ ends = {} THEN reader
        ELSE IF Over(block) THEN [reader EXCEPT !.over = TRUE]
        ELSE [reader EXCEPT !.buffer = SubSeq(@, index + 2, Len(@)),
                            !.events = @ \o ParseEvent(block)]]

(* The loop is over before it has turned once for every character. *)
Drained(text) ==
  Through([c \in Characters |-> Turn], [buffer |-> text, events |-> events, over |-> FALSE], text)

Receive(chunk) ==
  /\ status = "reading"
  /\ received' = received \o chunk
  /\ pendingCarriageReturn' = StaysPending(chunk)
  /\ LET drained == Drained(buffer \o Unified(Rest(chunk)))
     IN /\ buffer' = drained.buffer
        /\ events' = drained.events
        /\ status' = IF drained.over \/ Len(drained.buffer) > MaxEvent THEN "failed" ELSE "reading"
  /\ parted' = (parted \/ CutAtItsEnd(Sent'))

(* The end of the stream completes what is left, half a character too. *)
End(flushed) ==
  /\ status = "reading"
  /\ status' = "ended"
  /\ received' = received \o flushed
  /\ pendingCarriageReturn' = StaysPending(flushed)
  /\ buffer' = buffer \o flushed
  /\ events' = events \o ParseEvent(buffer \o flushed)
  /\ UNCHANGED parted

(* External: the rest of the stream, once the reader has failed.           *)
Unread(chunk) ==
  /\ status = "failed"
  /\ received' = received \o chunk
  /\ UNCHANGED <<buffer, pendingCarriageReturn, events, status, parted>>

Init ==
  /\ buffer = <<>> /\ pendingCarriageReturn = FALSE
  /\ events = <<>> /\ status = "reading"
  /\ received = <<>> /\ parted = FALSE

Next ==
  \/ \E chunk \in BoundedSeq(Characters, MaxText - Len(received)) : Receive(chunk) \/ Unread(chunk)
  \/ \E flushed \in {<<>>, <<Replacement>>} : End(flushed)

Spec == Init /\ [][Next]_vars

-----------------------------------------------------------------------------

(* The events read are those of the text, all of them or, if the reader    *)
(* gave up, the first.                                                     *)
ReadsWhatWasSent ==
  CASE status = "reading" -> events = Sent.events
    [] status = "ended"   -> events = Sent.events \o EventOf(Sent.lines)
    [] status = "failed"  -> IsPrefix(events, Sent.events)

(* The reader gives up when a block of the text, complete or not, is over  *)
(* the limit, and otherwise only on a block of just the limit, if a chunk  *)
(* ended amid the line ends that end it: the first one counts then.  What  *)
(* the end of the stream adds is not limited.                              *)
GivesUpAtTheLimit ==
  CASE status = "reading" -> ~TooLong(Sent) /\ ~parted
    [] status = "ended"   -> (\A size \in Sent.sizes : size <= MaxEvent) /\ ~parted
    [] status = "failed"  -> TooLong(Sent) \/ parted

(* However a text is cut into chunks, amid a line end too, readSseEvents   *)
(* yields the same events; it gives up on every text that has a block over *)
(* the limit, however cut, and on no other, except one cut at the end of a *)
(* block that is just as long as the limit.                                *)
ChunksMatterAtTheLimitOnly == ReadsWhatWasSent /\ GivesUpAtTheLimit

-----------------------------------------------------------------------------
(* The inductive invariant: what is held has no blank line and is what the *)
(* reference has taken of the text since the last event it ended.          *)

TypeOK ==
  /\ buffer \in Texts /\ received \in Texts
  /\ pendingCarriageReturn \in BOOLEAN
  /\ events \in Events
  /\ status \in {"reading", "ended", "failed"}
  /\ parted \in BOOLEAN

Holds ==
  status = "reading" =>
    /\ pendingCarriageReturn = EndsInCR(received)
    /\ BlankLines(buffer) = {}
    /\ Sent = [lines |-> Split(buffer), size |-> Len(buffer), sizes |-> Sent.sizes, events |-> events]
    /\ \A size \in Sent.sizes \cup {Sent.size} : size <= MaxEvent
    /\ ~parted

IInv == TypeOK /\ Holds /\ ReadsWhatWasSent /\ GivesUpAtTheLimit

=============================================================================
