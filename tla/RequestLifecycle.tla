--------------------------- MODULE RequestLifecycle ---------------------------
(***************************************************************************)
(* The life of concurrent requests: the request handler, the response it   *)
(* writes to, its transport watchdog, and the replay session that answers  *)
(* to the ledger for one dispatched generation.  The handler is a          *)
(* coroutine: between two awaits nothing interleaves, at each await        *)
(* timers, socket events, the other requests and a shutdown may.  An       *)
(* abort reaches the handler late: what had already arrived when the       *)
(* signal fired may still be processed.                                    *)
(*                                                                         *)
(* The ledger itself is ReplayStore; here its calls succeed or throw, and  *)
(* only what becomes of the request's own intent is kept.                  *)
(***************************************************************************)
EXTENDS Naturals, FiniteSets, Functions

CONSTANTS
  Requests,      \* requests whose body is being read
  MaxConcurrent, \* cache.maxConcurrent
  Available,     \* admission bytes left beside the shared workspace
  BaseCost,      \* bytes a lease costs without replay
  ReplayCosts    \* what the payloads selected for replay may add to it

ASSUME CostAssumption ==
  /\ IsFiniteSet(Requests)
  /\ MaxConcurrent \in Nat /\ Available \in Nat
  /\ BaseCost \in Nat \ {0}
  /\ ReplayCosts \subseteq Nat

VARIABLES
  request,   \* what is known of each request, see Request
  closed,    \* ReplayRuntime.closed: no further preparation
  stopping,  \* close() of the relay was called
  store      \* the ledger: open, failed or closed

vars == <<request, closed, stopping, store>>

Request ==
  [handler   : {"reading",     \* awaits the request body or a log write
                "awaiting",    \* awaits the upstream's headers
                "relaying",    \* awaits the upstream's body
                "replying",    \* awaits the writes of the terminal frames
                "flushing",    \* the reply is ended, awaits log writes
                "unwinding",   \* an exception awaits the log writes
                "done"},
   response  : {"open", "ended", "finished",
                "dropped",     \* its connection is gone, it does not know yet
                "destroyed",   \* destroyed here, the close event is to come
                "closed"},
   transport : {"generation", "delivery", "disposed"},
   cut       : BOOLEAN,        \* the signal the upstream call listens to fired
   session   : {"none", "generation", "delivery", "resolved"},
   abandoned : BOOLEAN,        \* observationAbandoned
   ended     : BOOLEAN,        \* requestEnded
   lease     : Nat,            \* bytes held of the admission, 0 if none
   intent    : {"none", "dispatch", "delivery", "resolved", "poisoned"},
   threw     : BOOLEAN,        \* history: a ledger call for this request threw
   replied   : BOOLEAN]        \* history: a whole reply was handed to the socket

-----------------------------------------------------------------------------
(* Admission.  Each lease is given back once: its closure ignores further  *)
(* calls.                                                                  *)

Leased == {r \in Requests : request[r].lease > 0}

Retained == SumFunction([r \in Requests |-> request[r].lease])

AdmitsByCount(bytes) == Cardinality(Leased) < MaxConcurrent

Admits(bytes) ==
  /\ Cardinality(Leased) < MaxConcurrent
  /\ bytes <= Available - Retained

(* A call to the ledger returns (ok) or throws.  A throw may be the one    *)
(* that fails it for good, and it always throws unless it is open.         *)
StoreCall(ok) ==
  /\ ok => store = "open"
  /\ store' \in IF ~ok /\ store = "open" THEN {"open", "failed"} ELSE {store}

-----------------------------------------------------------------------------
(* What the code does to one request; q is the request.                    *)

Destroyed(q) ==
  IF q.response \in {"open", "ended", "dropped"}
  THEN [q EXCEPT !.response = "destroyed"] ELSE q

Dropped(q) ==
  IF q.response \in {"open", "ended"} THEN [q EXCEPT !.response = "dropped"] ELSE q

(* The session calls the ledger when it ends, unless it did so before. *)
Calls(q) == q.session \in {"generation", "delivery"} /\ ~q.abandoned

CallIfAny(q, ok) == IF Calls(q) THEN StoreCall(ok) ELSE ok /\ UNCHANGED store

(* Nothing is released before the handler is finished with the request.    *)
ReleasedWhenResolved(q) ==
  IF q.session = "resolved" THEN [q EXCEPT !.lease = 0] ELSE q

ReleasedIfFinished(q) ==
  IF q.session = "resolved" /\ q.ended THEN [q EXCEPT !.lease = 0] ELSE q

LiveOnceBegun(q) == q.session # "none"

Live(q) == q.session \in {"generation", "delivery"}

Throwing(q, ok) == [q EXCEPT !.threw = @ \/ ~ok]

IntentKept(q, ok) == q

PoisonedIntent(q, ok) ==
  IF ok THEN [q EXCEPT !.intent = "poisoned"] ELSE Throwing(q, ok)

(* ReplaySession.abort: cancel the upstream call, poison, dispose. *)
Aborted(q, ok) ==
  IF ~Live(q) THEN q
  ELSE LET p == IF q.abandoned THEN q ELSE PoisonedIntent(q, ok)
       IN  ReleasedIfFinished([p EXCEPT !.cut = TRUE, !.session = "resolved"])

(* ReplaySession.resolve, on the finish event of a reply in delivery. *)
Resolved(q, ok) ==
  LET p == IF q.abandoned THEN q
           ELSE IF ok THEN [q EXCEPT !.intent = "resolved"] ELSE Throwing(q, ok)
  IN  ReleasedIfFinished([p EXCEPT !.session = "resolved"])

EnsureCompleted(q, ok) == IF q.session = "generation" THEN Aborted(q, ok) ELSE q

TransportAborted(q) == [q EXCEPT !.cut = TRUE, !.transport = "disposed"]

InDelivery(q) ==
  IF q.transport = "disposed" THEN q ELSE [q EXCEPT !.transport = "delivery"]

FinishedWithoutRelease(q, ok) ==
  [EnsureCompleted(q, ok) EXCEPT !.handler = "done", !.ended = TRUE]

(* The handler's finally block: requestFinished. *)
Finished(q, ok) ==
  ReleasedIfFinished([EnsureCompleted(q, ok) EXCEPT !.handler = "done", !.ended = TRUE])

(* An exception leaves the handler: its catch and finally blocks, then the *)
(* server's own catch, which answers with an error or, if headers were     *)
(* sent, destroys the response.                                            *)
Rejected(q, ok, headersSent) ==
  LET p == Finished(Aborted(TransportAborted(q), ok), ok)
  IN  IF headersSent THEN Destroyed(p)
      ELSE IF p.response = "open" THEN [p EXCEPT !.response = "ended"] ELSE p

-----------------------------------------------------------------------------
(* The handler's steps.                                                    *)

At(r, place) == request[r].handler = place

Set(r, q) ==
  /\ request' = [request EXCEPT ![r] = q]
  /\ UNCHANGED <<closed, stopping>>

(* The body cannot be read or is refused, the client is gone, or the       *)
(* runtime is closed.                                                      *)
RejectEarly(r) ==
  /\ At(r, "reading")
  /\ Set(r, Rejected(request[r], TRUE, FALSE))
  /\ UNCHANGED store

PreparingWhenClosed(r) == At(r, "reading") /\ ~request[r].cut

Preparing(r) == At(r, "reading") /\ ~request[r].cut /\ ~closed

(* Nothing to observe (not a generation), or nothing that can be: the      *)
(* scope is fenced if the request could not be keyed at all.               *)
ForwardUnkeyed(r) ==
  /\ Preparing(r)
  /\ Set(r, [request[r] EXCEPT !.handler = "awaiting"])
  /\ UNCHANGED store

(* Admission refuses, at first sight or when the selected replay is        *)
(* priced; the position is poisoned before the request goes on.            *)
Bypass(r) ==
  /\ Preparing(r)
  /\ \E cost \in ReplayCosts \cup {0} : ~Admits(BaseCost + cost)
  /\ StoreCall(TRUE)
  /\ Set(r, [request[r] EXCEPT !.handler = "awaiting", !.intent = "poisoned"])

(* Plan, price and begin, bind the response and call the upstream, in one  *)
(* turn.  A response destroyed before would have cut the request already.  *)
Dispatch(r, cost) ==
  /\ Preparing(r)
  /\ Admits(BaseCost) /\ Admits(BaseCost + cost)
  /\ StoreCall(TRUE)
  /\ Set(r, [request[r] EXCEPT !.handler = "awaiting", !.session = "generation",
                               !.intent = "dispatch", !.lease = BaseCost + cost])

(* A ledger call of the preparation throws.  If the intent was committed   *)
(* already it is poisoned, or left to recovery if that throws too.         *)
PrepareThrows(r, intent) ==
  /\ Preparing(r)
  /\ intent # "none" => store = "open"
  /\ StoreCall(FALSE)
  /\ Set(r, Rejected([request[r] EXCEPT !.intent = intent, !.threw = TRUE], TRUE, FALSE))

(* The replayed blocks of a request the upstream refuses are given up in   *)
(* the ledger, which leaves the intent as it is.                           *)
HeadersArrive(r) ==
  /\ At(r, "awaiting")
  /\ Set(r, [request[r] EXCEPT !.handler = "relaying"])
  /\ UNCHANGED store

Replying(q) == InDelivery([q EXCEPT !.handler = "replying"])

(* The deadline had passed when delivery was to begin. *)
Expired(q, ok) == Destroyed(Aborted(q, ok))

(* The upstream's end is in, and is published before any terminal byte is  *)
(* written: ReplaySession.complete with a complete capture ...             *)
Publish(r, late, ok) ==
  LET observed == [request[r] EXCEPT !.intent = "delivery", !.session = "delivery"]
  IN  /\ At(r, "relaying")
      /\ request[r].session = "generation"
      /\ store = "open"
      /\ IF late THEN StoreCall(ok) /\ Set(r, Replying(Expired(observed, ok)))
                 ELSE ok /\ StoreCall(TRUE) /\ Set(r, Replying(observed))

DeliveredUnpoisoned(q) == [q EXCEPT !.abandoned = TRUE, !.session = "delivery"]

Abandoned(q) == [q EXCEPT !.intent = "poisoned", !.abandoned = TRUE, !.session = "delivery"]

(* ... or finishWithoutCapture: the capture was refused, or the upstream   *)
(* ended in an error.                                                      *)
FinishWithoutCapture(r, late) ==
  /\ At(r, "relaying")
  /\ request[r].session = "generation"
  /\ StoreCall(TRUE)
  /\ LET delivering == Abandoned(request[r])
     IN  Set(r, Replying(IF late THEN Expired(delivering, TRUE) ELSE delivering))

(* The end of a reply no live session watches.  A completed reply of an    *)
(* aborted session throws instead, see Fail.                               *)
ReplyUnwatched(r) ==
  /\ At(r, "relaying")
  /\ ~Live(request[r])
  /\ Set(r, Replying(request[r]))
  /\ UNCHANGED store

(* What is written to a lost connection goes nowhere. *)
EndReply(r) ==
  /\ At(r, "replying")
  /\ LET q == [request[r] EXCEPT !.handler = "flushing"]
     IN  Set(r, IF q.response = "open"
                THEN [q EXCEPT !.response = "ended", !.replied = TRUE] ELSE q)
  /\ UNCHANGED store

(* The upstream call, a protocol check, a ledger call or a client write    *)
(* throws.                                                                 *)
Fail(r, ok) ==
  /\ request[r].handler \in {"awaiting", "relaying", "replying"}
  /\ CallIfAny(request[r], ok)
  /\ Set(r, [Aborted(request[r], ok) EXCEPT !.handler = "unwinding"])

Return(r) ==
  /\ At(r, "flushing")
  /\ Set(r, Finished(request[r], TRUE))
  /\ UNCHANGED store

Unwind(r) ==
  /\ At(r, "unwinding")
  /\ \E headersSent \in BOOLEAN : Set(r, Rejected(request[r], TRUE, headersSent))
  /\ UNCHANGED store

-----------------------------------------------------------------------------
(* Events.                                                                 *)

(* The last byte of the response left the process. *)
OnFinish(q, ok) == IF q.session = "delivery" THEN Resolved(q, ok) ELSE Aborted(q, ok)

FinishEvent(r, ok) ==
  /\ request[r].response = "ended"
  /\ CallIfAny(request[r], ok)
  /\ Set(r, [OnFinish(request[r], ok) EXCEPT !.response = "finished", !.transport = "disposed"])

(* External: the client goes away, or its socket fails. *)
SocketDies(r) ==
  /\ request[r].response \in {"open", "ended"}
  /\ Set(r, Dropped(request[r]))
  /\ UNCHANGED store

OnCloseResolving(q, ok) ==
  IF q.session = "delivery" THEN Resolved(q, ok) ELSE Aborted(q, ok)

OnClose(q, ok) == Aborted(q, ok)

CloseEvent(r, ok) ==
  /\ request[r].response \in {"dropped", "destroyed"}
  /\ CallIfAny(request[r], ok)
  /\ LET q == request[r]
         p == IF q.transport = "disposed" THEN q ELSE TransportAborted(q)
     IN  Set(r, [OnClose(p, ok) EXCEPT !.response = "closed"])

(* The close event finds the ended response flushed, its finish event is   *)
(* lost: the session is left to its deadline.                              *)
CloseWhenFlushed(r) ==
  /\ request[r].response \in {"dropped", "destroyed"}
  /\ request[r].handler \in {"flushing", "done"}
  /\ Set(r, [request[r] EXCEPT !.response = "closed", !.transport = "disposed"])
  /\ UNCHANGED store

(* The session's deadline, of generation or of delivery. *)
SessionTimer(r, ok) ==
  /\ Live(request[r])
  /\ CallIfAny(request[r], ok)
  /\ Set(r, Expired(request[r], ok))

TransportTimer(r) ==
  /\ request[r].transport # "disposed"
  /\ Set(r, Destroyed(TransportAborted(request[r])))
  /\ UNCHANGED store

(* A keepalive between two frames cannot be written, which may be found    *)
(* out only when the terminal frames already wait for it.                  *)
KeepaliveFails(r, ok) ==
  /\ request[r].handler \in {"relaying", "replying", "unwinding"}
  /\ CallIfAny(request[r], ok)
  /\ Set(r, Destroyed(Aborted(TransportAborted(request[r]), ok)))

-----------------------------------------------------------------------------
(* The runtime.                                                            *)

MaintenanceFails ==
  /\ ~closed
  /\ StoreCall(FALSE)
  /\ closed' = TRUE
  /\ UNCHANGED <<request, stopping>>

(* close: stop admits no further preparation, aborts every session and      *)
(* drops the connections.  Poisoning may throw for some of the sessions.   *)
Stopped(q, ok) == Dropped(Aborted(q, ok))

Stop(lost) ==
  /\ ~stopping
  /\ lost \subseteq {r \in Requests : Calls(request[r])}
  /\ store # "open" => lost = {r \in Requests : Calls(request[r])}
  /\ store' \in IF lost # {} /\ store = "open" THEN {"open", "failed"} ELSE {store}
  /\ stopping' = TRUE
  /\ closed' = TRUE
  /\ request' = [r \in Requests |-> Stopped(request[r], r \notin lost)]

(* The ledger is closed after all connections are gone, whatever events    *)
(* are still to come and whatever the handlers are still doing.            *)
CloseStore ==
  /\ stopping
  /\ \A r \in Requests : request[r].response \notin {"open", "ended"}
  /\ store # "closed"
  /\ store' = "closed"
  /\ UNCHANGED <<request, closed, stopping>>

-----------------------------------------------------------------------------

Init ==
  /\ request = [r \in Requests |->
       [handler |-> "reading", response |-> "open", transport |-> "generation",
        cut |-> FALSE, session |-> "none", abandoned |-> FALSE, ended |-> FALSE,
        lease |-> 0, intent |-> "none", threw |-> FALSE, replied |-> FALSE]]
  /\ closed = FALSE
  /\ stopping = FALSE
  /\ store = "open"

Prepare(r) ==
  \/ RejectEarly(r)
  \/ ForwardUnkeyed(r)
  \/ Bypass(r)
  \/ \E cost \in ReplayCosts \cup {0} : Dispatch(r, cost)
  \/ \E intent \in {"none", "poisoned", "dispatch"} : PrepareThrows(r, intent)

Relay(r) ==
  \/ HeadersArrive(r)
  \/ ReplyUnwatched(r)
  \/ EndReply(r)
  \/ Return(r)
  \/ Unwind(r)
  \/ \E ok \in BOOLEAN : Fail(r, ok)
  \/ \E late \in BOOLEAN : \/ FinishWithoutCapture(r, late)
                           \/ \E ok \in BOOLEAN : Publish(r, late, ok)

Event(r) ==
  \/ SocketDies(r)
  \/ TransportTimer(r)
  \/ CloseWhenFlushed(r)
  \/ \E ok \in BOOLEAN : \/ FinishEvent(r, ok)
                         \/ CloseEvent(r, ok)
                         \/ SessionTimer(r, ok)
                         \/ KeepaliveFails(r, ok)

Shutdown ==
  \/ MaintenanceFails
  \/ \E lost \in SUBSET Requests : Stop(lost)
  \/ CloseStore

Next == (\E r \in Requests : Prepare(r) \/ Relay(r) \/ Event(r)) \/ Shutdown

Spec == Init /\ [][Next]_vars

(* What the runtime of the program guarantees: timers that are armed fire, *)
(* an awaited call whose signal fired throws, writes complete or time out, *)
(* log writes end (they are capped) and coroutines go on.  The upstream    *)
(* and the client owe nothing, except that a generation does not stay      *)
(* active for ever: each chunk of it renews the deadline.                  *)
Fairness ==
  \A r \in Requests :
    /\ WF_vars(\E ok \in BOOLEAN : SessionTimer(r, ok))
    /\ WF_vars(request[r].cut /\ \E ok \in BOOLEAN : Fail(r, ok))
    /\ WF_vars(EndReply(r))
    /\ WF_vars(Return(r))
    /\ WF_vars(Unwind(r))

FairSpec == Spec /\ Fairness

-----------------------------------------------------------------------------
(* Properties.                                                             *)

(* Requests are of their type, and the leases respect both admission       *)
(* limits, repricing and early ends included (admission.ts).               *)
TypeOK ==
  /\ request \in [Requests -> Request]
  /\ closed \in BOOLEAN /\ stopping \in BOOLEAN
  /\ store \in {"open", "failed", "closed"}
  /\ Cardinality(Leased) <= MaxConcurrent
  /\ Retained <= Available

Sessions == {r \in Requests : request[r].session # "none"}

(* Publication comes first: when the last byte of a whole reply is handed  *)
(* to the client's socket, the ledger already holds its observation or has *)
(* poisoned the position, whatever failed and was cancelled on the way.    *)
ReplyIsPublished ==
  \A r \in Sessions : request[r].replied => request[r].intent # "dispatch"

(* An intent is closed without a mark only for a reply that was handed     *)
(* over completely and left the process: a client that went away, a        *)
(* timeout or a shutdown in between never leaves the position clean.       *)
ResolvedWasDelivered ==
  \A r \in Sessions : request[r].intent = "resolved" =>
    request[r].replied /\ request[r].response = "finished"

(* No intent is left behind by a request that is over, unless a ledger     *)
(* call threw, in which case restart recovers it.                          *)
IntentSettled ==
  \A r \in Sessions : request[r].session = "resolved" /\ ~request[r].threw =>
    request[r].intent \in {"resolved", "poisoned"}

(* Admission is held exactly as long as the request can hold its memory:   *)
(* until its session is resolved and its handler has returned.             *)
LeaseCoversWork ==
  \A r \in Sessions : request[r].lease = 0 <=>
    request[r].session = "resolved" /\ request[r].handler = "done"

(* From a stop on no session is left that could call the ledger, and no    *)
(* new one can begin, though handlers may still be running: the ledger is  *)
(* never used after it was closed.                                         *)
QuietAfterStop ==
  stopping => closed /\ \A r \in Sessions : request[r].session = "resolved"

(* The ledger may rely on this order of calls for each intent: it is       *)
(* observed at most once and before it is resolved, and a settled intent   *)
(* is never touched again.                                                 *)
IntentDiscipline ==
  [][\A r \in Sessions :
       \/ request'[r].intent = request[r].intent
       \/ /\ request[r].intent = "dispatch"
          /\ request'[r].intent \in {"delivery", "poisoned"}
       \/ /\ request[r].intent = "delivery"
          /\ request'[r].intent \in {"resolved", "poisoned"}]_vars

(* What the phases of one request say of each other.  A reply is handed    *)
(* over at the end of the handler, so a session that was cancelled before  *)
(* has no open response left but to an exception; a response that ended    *)
(* under a session in delivery is a whole reply.                           *)
Coherent(q) ==
  /\ q.ended <=> q.handler = "done"
  /\ q.lease = 0 <=> q.session = "none" \/ (q.session = "resolved" /\ q.ended)
  /\ q.replied => q.handler \in {"flushing", "done"}
  /\ q.handler \in {"flushing", "done"} => q.response # "open"
  /\ q.response \in {"ended", "finished"} => q.handler \in {"flushing", "done"}
  /\ q.session = "none" => ~q.abandoned
  /\ q.session = "generation" => /\ q.handler \in {"awaiting", "relaying"}
                                 /\ q.intent = "dispatch"
                                 /\ ~q.abandoned
  /\ q.session = "delivery" => /\ q.handler \in {"replying", "flushing", "done"}
                               /\ q.intent = IF q.abandoned THEN "poisoned" ELSE "delivery"
                               /\ q.response = "ended" => q.replied
  /\ q.session = "resolved" => /\ q.handler # "reading"
                               /\ q.response = "open" => q.handler = "unwinding"
                               /\ q.replied => q.intent # "dispatch"
                               /\ ~q.threw => q.intent \in {"resolved", "poisoned"}
                               /\ q.intent = "resolved" => q.replied /\ q.response = "finished"

(* Inductive. *)
IInv ==
  /\ TypeOK
  /\ \A r \in Requests : Coherent(request[r])
  /\ QuietAfterStop

(* Every lease comes back, whatever the upstream, the client, the ledger   *)
(* or a shutdown does: admission cannot be used up for good.               *)
LeaseReturned == \A r \in Requests : request[r].lease > 0 ~> request[r].lease = 0

=============================================================================
