---------------------------- MODULE ReplayContract ----------------------------
(***************************************************************************)
(* What the reasoning cache promises, with no ledger in it.  Requests are  *)
(* sent upstream, each may carry replayed blocks in place of the visible   *)
(* assistant messages they stand for, and each is answered in a way the    *)
(* cache may or may not get to see.  A block may be replayed only if it is *)
(* the one thing the upstream ever produced behind that visible message,   *)
(* and only if no traffic escaped the cache's notice since it was learnt.  *)
(***************************************************************************)
EXTENDS FiniteSets

CONSTANTS Ids, Ends, Payloads

Block == [end : Ends, payload : Payloads]

VARIABLES
  produced,     \* every block the upstream produced at a derived position
  suspectEnds,  \* ends unobserved traffic may have duplicated
  replayed      \* the blocks replayed by each request in progress

vars == <<produced, suspectEnds, replayed>>

Unambiguous(block) ==
  /\ block \in produced
  /\ \A other \in produced : other.end = block.end => other = block

Trusted(block) == block.end \notin suspectEnds

(* A later request can make a dispatched block ambiguous: what was sent    *)
(* cannot be recalled, so the promise is made for the moment of dispatch.  *)
Dispatch(i, blocks, answer) ==
  /\ replayed[i] = {}
  /\ \A block \in blocks : Unambiguous(block) /\ Trusted(block)
  /\ replayed' = [replayed EXCEPT ![i] = blocks]
  /\ produced' = produced \cup {answer}
  /\ UNCHANGED suspectEnds

ForwardWithoutReplay(answer) ==
  /\ produced' = produced \cup {answer}
  /\ UNCHANGED <<suspectEnds, replayed>>

Conclude(ids) ==
  /\ replayed' = [i \in Ids |-> IF i \in ids THEN {} ELSE replayed[i]]
  /\ UNCHANGED <<produced, suspectEnds>>

EscapeNotice(ends) ==
  /\ suspectEnds' = suspectEnds \cup ends
  /\ UNCHANGED <<produced, replayed>>

Learn(e) ==
  /\ suspectEnds' = suspectEnds \ {e}
  /\ UNCHANGED <<produced, replayed>>

Init ==
  /\ produced = {}
  /\ suspectEnds = {}
  /\ replayed = [i \in Ids |-> {}]

Next ==
  \/ \E i \in Ids, blocks \in SUBSET produced, answer \in Block :
       Dispatch(i, blocks, answer)
  \/ \E answer \in Block : ForwardWithoutReplay(answer)
  \/ \E ids \in SUBSET Ids : Conclude(ids)
  \/ \E ends \in SUBSET Ends : EscapeNotice(ends)
  \/ \E e \in Ends : Learn(e)

Spec == Init /\ [][Next]_vars

=============================================================================
