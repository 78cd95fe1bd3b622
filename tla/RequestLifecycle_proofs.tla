----------------------- MODULE RequestLifecycle_proofs -----------------------
(* Proofs about RequestLifecycle for any number of requests, any admission *)
(* limits and any costs.  Each action changes one request, except a stop;  *)
(* so the argument is about what may become of one request, and two lemmas *)
(* carry it over to the state.                                             *)
EXTENDS RequestLifecycle, DataInduction

(* The order of the ledger's calls for one request. *)
InOrder(q, p) ==
  \/ p.intent = q.intent
  \/ q.intent = "dispatch" /\ p.intent \in {"delivery", "poisoned"}
  \/ q.intent = "delivery" /\ p.intent \in {"resolved", "poisoned"}

(* What a step other than a preparation may make of a request. *)
MayBecome(q, p) ==
  /\ p \in Request
  /\ Coherent(p)
  /\ p.lease \in {0, q.lease}
  /\ ~Live(q) => p.session = q.session
  /\ q.session # "none" => InOrder(q, p)

-----------------------------------------------------------------------------
(* What the operations on one request do to its fields.                    *)

(* A session's end changes the session and the signal only. *)
LEMMA CutFields ==
  ASSUME NEW p \in Request, NEW s, s = [p EXCEPT !.cut = TRUE, !.session = "resolved"]
  PROVE  /\ s \in Request
         /\ s.handler = p.handler /\ s.response = p.response
         /\ s.ended = p.ended /\ s.lease = p.lease /\ s.replied = p.replied
         /\ s.intent = p.intent /\ s.threw = p.threw /\ s.session = "resolved"
BY DEF Request

(* Aborting a live session resolves it, and poisons its intent unless the  *)
(* ledger's call throws. *)
LEMMA AbortedFields ==
  ASSUME NEW q \in Request, NEW ok \in BOOLEAN, Live(q)
  PROVE  /\ Aborted(q, ok) \in Request
         /\ Aborted(q, ok).handler = q.handler
         /\ Aborted(q, ok).response = q.response
         /\ Aborted(q, ok).session = "resolved"
         /\ Aborted(q, ok).ended <=> q.ended
         /\ Aborted(q, ok).lease = IF q.ended THEN 0 ELSE q.lease
         /\ Aborted(q, ok).replied <=> q.replied
         /\ Aborted(q, ok).intent = IF q.abandoned \/ ~ok THEN q.intent ELSE "poisoned"
         /\ ~q.abandoned /\ ~ok => Aborted(q, ok).threw
<1> DEFINE p == IF q.abandoned THEN q ELSE PoisonedIntent(q, ok)
           s == [p EXCEPT !.cut = TRUE, !.session = "resolved"]
<1>1. /\ p \in Request
      /\ p.handler = q.handler /\ p.response = q.response
      /\ p.ended = q.ended /\ p.lease = q.lease /\ p.replied = q.replied
      /\ p.intent = IF q.abandoned \/ ~ok THEN q.intent ELSE "poisoned"
      /\ ~q.abandoned /\ ~ok => p.threw
  <2>1. CASE q.abandoned
    BY <2>1
  <2>2. CASE ~q.abandoned /\ ok
    BY <2>2 DEF Request, PoisonedIntent
  <2>3. CASE ~q.abandoned /\ ~ok
    BY <2>3 DEF Request, PoisonedIntent, Throwing
  <2> QED
    BY <2>1, <2>2, <2>3
<1> HIDE DEF p
<1>2. /\ s \in Request
      /\ s.handler = p.handler /\ s.response = p.response
      /\ s.ended = p.ended /\ s.lease = p.lease /\ s.replied = p.replied
      /\ s.intent = p.intent /\ s.threw = p.threw /\ s.session = "resolved"
  BY <1>1, CutFields
<1>3. Aborted(q, ok) = IF s.ended THEN [s EXCEPT !.lease = 0] ELSE s
  BY <1>2 DEF Aborted, ReleasedIfFinished, p
<1> HIDE DEF s
<1> QED
  BY <1>1, <1>2, <1>3 DEF Request

(* A request whose session has not begun or is over is not touched. *)
LEMMA AbortedIdle ==
  ASSUME NEW q, NEW ok, ~Live(q)
  PROVE  Aborted(q, ok) = q
BY DEF Aborted

(* Dropping or destroying a response changes nothing else. *)
LEMMA ResponseLost ==
  ASSUME NEW q \in Request, NEW p, p \in {Destroyed(q), Dropped(q)}
  PROVE  /\ p \in Request
         /\ p.handler = q.handler /\ p.session = q.session
         /\ p.ended = q.ended /\ p.lease = q.lease /\ p.replied = q.replied
         /\ p.intent = q.intent /\ p.threw = q.threw /\ p.abandoned = q.abandoned
         /\ \/ p.response = q.response /\ q.response \notin {"open", "ended"}
            \/ p.response \in {"dropped", "destroyed"} /\ q.response \in {"open", "ended", "dropped"}
BY DEF Request, Destroyed, Dropped

(* Neither the watchdog's switch to delivery nor its end changes more than *)
(* the watchdog and the signal. *)
LEMMA WatchdogMoved ==
  ASSUME NEW q \in Request, NEW p, p \in {InDelivery(q), TransportAborted(q)}
  PROVE  /\ p \in Request
         /\ p.handler = q.handler /\ p.response = q.response /\ p.session = q.session
         /\ p.ended = q.ended /\ p.lease = q.lease /\ p.replied = q.replied
         /\ p.intent = q.intent /\ p.threw = q.threw /\ p.abandoned = q.abandoned
<1>1. CASE p = TransportAborted(q)
  BY <1>1 DEF Request, TransportAborted
<1>2. CASE p = q
  BY <1>2 DEF Request
<1>3. CASE p = [q EXCEPT !.transport = "delivery"]
  BY <1>3 DEF Request
<1> QED
  BY <1>1, <1>2, <1>3 DEF InDelivery

(* An aborted request is coherent, wherever its handler is, once no whole  *)
(* reply may end any more. *)
LEMMA AbortedMayBecome ==
  ASSUME NEW q \in Request, NEW ok \in BOOLEAN, NEW p \in Request,
         Coherent(q), Live(q),
         p.handler = Aborted(q, ok).handler \/ (p.handler = "unwinding" /\ ~q.ended /\ q.handler \notin {"flushing", "done"}),
         p.response = "open" => p.handler = "unwinding",
         p.response \in {"ended", "finished"} =>
           q.response = "ended" \/ (q.response = p.response /\ p.handler = q.handler),
         p.session = "resolved", p.ended = Aborted(q, ok).ended,
         p.lease = Aborted(q, ok).lease, p.replied = Aborted(q, ok).replied,
         p.intent = Aborted(q, ok).intent, p.threw = Aborted(q, ok).threw
  PROVE  MayBecome(q, p)
<1>0. /\ q.ended \in BOOLEAN /\ q.replied \in BOOLEAN /\ q.threw \in BOOLEAN
      /\ q.abandoned \in BOOLEAN /\ p.ended \in BOOLEAN /\ p.replied \in BOOLEAN /\ p.threw \in BOOLEAN
  BY DEF Request
<1>1. /\ p.ended <=> q.ended
      /\ p.replied <=> q.replied
      /\ p.lease = IF q.ended THEN 0 ELSE q.lease
      /\ p.intent = IF q.abandoned \/ ~ok THEN q.intent ELSE "poisoned"
      /\ ~q.abandoned /\ ~ok => p.threw
      /\ p.handler = q.handler \/ (p.handler = "unwinding" /\ ~q.ended /\ q.handler \notin {"flushing", "done"})
  BY <1>0, AbortedFields
<1>2. q.intent = IF q.abandoned THEN "poisoned" ELSE IF q.session = "generation" THEN "dispatch" ELSE "delivery"
  BY DEF Coherent, Live
<1>3. InOrder(q, p)
  BY <1>0, <1>1, <1>2 DEF InOrder
<1>4. Coherent(p)
  BY <1>0, <1>1, <1>2 DEF Coherent, Live
<1>5. p.lease \in {0, q.lease}
  BY <1>1
<1> QED
  BY <1>3, <1>4, <1>5 DEF MayBecome

-----------------------------------------------------------------------------
(* What each operation may make of a request.                              *)

(* Changes of the handler alone, before the reply is handed over. *)
LEMMA MovedMayBecome ==
  ASSUME NEW q \in Request, Coherent(q), NEW place \in {"awaiting", "relaying", "replying", "unwinding"},
         q.handler \in {"reading", "awaiting", "relaying", "replying"},
         Live(q) => q.session = "generation" /\ place = "relaying",
         q.session = "resolved" => q.handler # "reading" /\ (q.response = "open" => place = "unwinding")
  PROVE  MayBecome(q, [q EXCEPT !.handler = place])
<1> DEFINE p == [q EXCEPT !.handler = place]
<1>1. /\ p \in Request /\ p.handler = place
      /\ p.response = q.response /\ p.session = q.session /\ p.abandoned = q.abandoned
      /\ p.ended = q.ended /\ p.lease = q.lease /\ p.replied = q.replied
      /\ p.intent = q.intent /\ p.threw = q.threw
  BY DEF Request
<1> HIDE DEF p
<1>2. MayBecome(q, p)
  BY <1>1 DEF MayBecome, InOrder, Coherent, Live
<1> QED
  BY <1>2 DEF p

(* An exception that reaches the server ends the handler of a request      *)
(* whose session is not live: its lease goes, and its response ends.       *)
LEMMA RejectedMayBecome ==
  ASSUME NEW q \in Request, NEW headersSent \in BOOLEAN,
         Coherent(q), q.handler \in {"reading", "unwinding"}
  PROVE  MayBecome(q, Rejected(q, TRUE, headersSent))
<1> DEFINE a == TransportAborted(q)
           e == [a EXCEPT !.handler = "done", !.ended = TRUE]
           p == ReleasedIfFinished(e)
           w == Rejected(q, TRUE, headersSent)
<1>1. ~Live(q) /\ q.session \in {"none", "resolved"}
  BY DEF Coherent, Live, Request
<1>2. /\ a \in Request
      /\ a.response = q.response /\ a.session = q.session
      /\ a.ended = q.ended /\ a.lease = q.lease /\ a.replied = q.replied
      /\ a.intent = q.intent /\ a.threw = q.threw /\ a.abandoned = q.abandoned
  BY WatchdogMoved
<1>3. ~Live(a) /\ a.session # "generation"
  BY <1>1, <1>2 DEF Live
<1>4. Finished(Aborted(a, TRUE), TRUE) = p
  BY <1>3, AbortedIdle DEF Finished, EnsureCompleted
<1> HIDE DEF a
<1>5. /\ e \in Request /\ e.handler = "done" /\ e.ended
      /\ e.response = a.response /\ e.session = a.session /\ e.lease = a.lease
      /\ e.replied = a.replied /\ e.intent = a.intent /\ e.threw = a.threw /\ e.abandoned = a.abandoned
  BY <1>2 DEF Request
<1> HIDE DEF e
<1>6. /\ p \in Request /\ p.handler = "done" /\ p.ended
      /\ p.response = q.response /\ p.session = q.session
      /\ p.lease = IF q.session = "resolved" THEN 0 ELSE q.lease
      /\ p.replied = q.replied /\ p.intent = q.intent /\ p.threw = q.threw /\ p.abandoned = q.abandoned
  <2>1. CASE e.session = "resolved"
    BY <1>2, <1>5, <2>1 DEF ReleasedIfFinished, Request
  <2>2. CASE e.session # "resolved"
    BY <1>2, <1>5, <2>2 DEF ReleasedIfFinished, Request
  <2> QED
    BY <2>1, <2>2
<1> HIDE DEF p
<1>7. /\ w \in Request /\ w.handler = "done" /\ w.ended
      /\ w.response # "open" /\ (q.response = "finished" => w.response = "finished")
      /\ w.session = p.session /\ w.lease = p.lease
      /\ w.replied = p.replied /\ w.intent = p.intent /\ w.threw = p.threw /\ w.abandoned = p.abandoned
  <2>1. w = IF headersSent THEN Destroyed(p)
            ELSE IF p.response = "open" THEN [p EXCEPT !.response = "ended"] ELSE p
    BY <1>4 DEF Rejected, a
  <2> HIDE DEF w
  <2>2. CASE headersSent
    <3>1. w.handler = p.handler
      BY <2>1, <2>2, <1>6 DEF Destroyed, Request
    <3> QED
      BY <3>1, <1>6, <2>1, <2>2, ResponseLost
  <2>3. CASE ~headersSent /\ p.response = "open"
    BY <1>6, <2>1, <2>3 DEF Request
  <2>4. CASE ~headersSent /\ p.response # "open"
    BY <1>6, <2>1, <2>4
  <2> QED
    BY <2>2, <2>3, <2>4
<1> HIDE DEF w
<1>8. q.replied \in BOOLEAN /\ q.threw \in BOOLEAN /\ q.ended \in BOOLEAN
  BY DEF Request
<1>9. ~q.replied /\ ~q.ended
  BY <1>8 DEF Coherent
<1>10. w.session = q.session /\ w.intent = q.intent /\ w.abandoned = q.abandoned
  BY <1>6, <1>7
<1>11. Coherent(w)
  BY <1>1, <1>6, <1>7, <1>8, <1>9, <1>10 DEF Coherent
<1>12. w.lease \in {0, q.lease}
  BY <1>6, <1>7
<1>13. MayBecome(q, w)
  BY <1>7, <1>10, <1>11, <1>12 DEF MayBecome, InOrder
<1> QED
  BY <1>13 DEF w

(* The handler returns: what is resolved gives its lease back, a reply     *)
(* still in delivery keeps it. *)
LEMMA ReturnedMayBecome ==
  ASSUME NEW q \in Request, Coherent(q), q.handler = "flushing"
  PROVE  MayBecome(q, Finished(q, TRUE))
<1> DEFINE e == [q EXCEPT !.handler = "done", !.ended = TRUE]
           w == Finished(q, TRUE)
<1>1. q.session # "generation"
  BY DEF Coherent
<1>2. w = IF e.session = "resolved" /\ e.ended THEN [e EXCEPT !.lease = 0] ELSE e
  BY <1>1 DEF Finished, EnsureCompleted, ReleasedIfFinished
<1>3. /\ e \in Request /\ e.handler = "done" /\ e.ended /\ e.abandoned = q.abandoned
      /\ e.response = q.response /\ e.session = q.session /\ e.lease = q.lease
      /\ e.replied = q.replied /\ e.intent = q.intent /\ e.threw = q.threw
  BY DEF Request
<1> HIDE DEF e, w
<1>4. /\ w \in Request /\ w.handler = "done" /\ w.ended /\ w.abandoned = q.abandoned
      /\ w.response = q.response /\ w.session = q.session
      /\ w.lease = IF q.session = "resolved" THEN 0 ELSE q.lease
      /\ w.replied = q.replied /\ w.intent = q.intent /\ w.threw = q.threw
  <2>1. CASE e.session = "resolved"
    BY <1>2, <1>3, <2>1 DEF Request
  <2>2. CASE e.session # "resolved"
    BY <1>2, <1>3, <2>2 DEF Request
  <2> QED
    BY <2>1, <2>2
<1>5. q.replied \in BOOLEAN /\ q.threw \in BOOLEAN /\ q.ended \in BOOLEAN /\ q.abandoned \in BOOLEAN
  BY DEF Request
<1>6. ~q.ended /\ q.session \in {"none", "delivery", "resolved"}
  BY <1>1, <1>5 DEF Coherent, Request
<1>7. Coherent(w)
  BY <1>4, <1>5, <1>6 DEF Coherent
<1>8. MayBecome(q, w)
  BY <1>4, <1>7 DEF MayBecome, InOrder
<1> QED
  BY <1>8 DEF w

(* A deadline ends a live session and its response. *)
LEMMA ExpiredMayBecome ==
  ASSUME NEW q \in Request, NEW ok \in BOOLEAN, Coherent(q), Live(q)
  PROVE  MayBecome(q, Expired(q, ok))
<1> DEFINE a == Aborted(q, ok)
           p == Expired(q, ok)
<1>1. a \in Request
  BY AbortedFields
<1> HIDE DEF a
<1>2. /\ p \in Request
      /\ p.handler = a.handler /\ p.session = a.session
      /\ p.ended = a.ended /\ p.lease = a.lease /\ p.replied = a.replied
      /\ p.intent = a.intent /\ p.threw = a.threw
      /\ p.response \notin {"open", "ended"} /\ (p.response = "finished" => a.response = "finished")
  BY <1>1, ResponseLost DEF Expired, a
<1> HIDE DEF p
<1>3. a.response = q.response /\ a.handler = q.handler /\ a.session = "resolved"
  BY AbortedFields DEF a
<1>4. MayBecome(q, p)
  BY <1>2, <1>3, AbortedMayBecome DEF a
<1> QED
  BY <1>4 DEF p

(* An exception on the way: the session is aborted, the handler unwinds. *)
LEMMA FailedMayBecome ==
  ASSUME NEW q \in Request, NEW ok \in BOOLEAN, Coherent(q),
         q.handler \in {"awaiting", "relaying", "replying"}
  PROVE  MayBecome(q, [Aborted(q, ok) EXCEPT !.handler = "unwinding"])
<1> DEFINE a == Aborted(q, ok)
           p == [a EXCEPT !.handler = "unwinding"]
<1>1. CASE ~Live(q)
  <2>1. q.session # "generation" /\ q.session # "delivery"
    BY <1>1 DEF Live
  <2> QED
    BY <1>1, <2>1, AbortedIdle, MovedMayBecome
<1>2. CASE Live(q)
  <2>1. a \in Request
    BY <1>2, AbortedFields
  <2> HIDE DEF a
  <2>2. /\ p \in Request /\ p.handler = "unwinding"
        /\ p.session = a.session /\ p.ended = a.ended /\ p.lease = a.lease
        /\ p.replied = a.replied /\ p.intent = a.intent /\ p.threw = a.threw
        /\ p.response = a.response
    BY <2>1 DEF Request
  <2> HIDE DEF p
  <2>3. ~q.ended /\ q.response \notin {"ended", "finished"}
    BY DEF Coherent, Request
  <2>4. a.response = q.response /\ a.session = "resolved"
    BY <1>2, AbortedFields DEF a
  <2>5. MayBecome(q, p)
    BY <1>2, <2>2, <2>3, <2>4, AbortedMayBecome DEF a
  <2> QED
    BY <2>5 DEF p, a
<1> QED
  BY <1>1, <1>2

(* A lost response or a watchdog that gives up leaves the rest alone. *)
LEMMA LostMayBecome ==
  ASSUME NEW q \in Request, Coherent(q), NEW p \in Request,
         p.handler = q.handler, p.session = q.session,
         p.ended = q.ended, p.lease = q.lease, p.replied = q.replied,
         p.intent = q.intent, p.threw = q.threw, p.abandoned = q.abandoned,
         \/ p.response = q.response
         \/ p.response \in {"dropped", "destroyed", "closed"} /\ q.response \in {"open", "ended", "dropped", "destroyed"}
  PROVE  MayBecome(q, p)
BY DEF MayBecome, InOrder, Coherent, Live

(* A keepalive that fails aborts watchdog, session and response. *)
LEMMA KeepaliveMayBecome ==
  ASSUME NEW q \in Request, NEW ok \in BOOLEAN, Coherent(q)
  PROVE  MayBecome(q, Destroyed(Aborted(TransportAborted(q), ok)))
<1> DEFINE t == TransportAborted(q)
           a == Aborted(t, ok)
           p == Destroyed(a)
<1>1. /\ t \in Request
      /\ t.handler = q.handler /\ t.response = q.response /\ t.session = q.session
      /\ t.ended = q.ended /\ t.lease = q.lease /\ t.replied = q.replied
      /\ t.intent = q.intent /\ t.threw = q.threw /\ t.abandoned = q.abandoned
  BY WatchdogMoved
<1> HIDE DEF t
<1>2. Coherent(t)
  BY <1>1 DEF Coherent
<1>3. CASE Live(t)
  <2>1. MayBecome(t, Expired(t, ok))
    BY <1>1, <1>2, <1>3, ExpiredMayBecome
  <2>2. p = Expired(t, ok)
    BY DEF Expired
  <2> QED
    BY <1>1, <2>1, <2>2 DEF MayBecome, InOrder, Live, t
<1>4. CASE ~Live(t)
  <2>1. p = Destroyed(t)
    BY <1>4, AbortedIdle
  <2> HIDE DEF p
  <2>2. MayBecome(q, p)
    BY <1>1, <2>1, ResponseLost, LostMayBecome
  <2> QED
    BY <2>2 DEF p, a, t
<1> QED
  BY <1>3, <1>4

(* Resolving a session in delivery closes its intent without a mark, so    *)
(* the reply must have left. *)
LEMMA ResolvedFields ==
  ASSUME NEW q \in Request, NEW ok \in BOOLEAN
  PROVE  /\ Resolved(q, ok) \in Request
         /\ Resolved(q, ok).handler = q.handler
         /\ Resolved(q, ok).response = q.response
         /\ Resolved(q, ok).session = "resolved"
         /\ Resolved(q, ok).ended <=> q.ended
         /\ Resolved(q, ok).lease = IF q.ended THEN 0 ELSE q.lease
         /\ Resolved(q, ok).replied <=> q.replied
         /\ Resolved(q, ok).intent = IF q.abandoned \/ ~ok THEN q.intent ELSE "resolved"
         /\ ~q.abandoned /\ ~ok => Resolved(q, ok).threw
<1> DEFINE p == IF q.abandoned THEN q
                ELSE IF ok THEN [q EXCEPT !.intent = "resolved"] ELSE Throwing(q, ok)
           s == [p EXCEPT !.session = "resolved"]
<1>1. /\ p \in Request
      /\ p.handler = q.handler /\ p.response = q.response
      /\ p.ended = q.ended /\ p.lease = q.lease /\ p.replied = q.replied
      /\ p.intent = IF q.abandoned \/ ~ok THEN q.intent ELSE "resolved"
      /\ ~q.abandoned /\ ~ok => p.threw
  <2>1. CASE q.abandoned
    BY <2>1
  <2>2. CASE ~q.abandoned /\ ok
    BY <2>2 DEF Request
  <2>3. CASE ~q.abandoned /\ ~ok
    BY <2>3 DEF Request, Throwing
  <2> QED
    BY <2>1, <2>2, <2>3
<1>2. /\ s \in Request
      /\ s.handler = p.handler /\ s.response = p.response
      /\ s.ended = p.ended /\ s.lease = p.lease /\ s.replied = p.replied
      /\ s.intent = p.intent /\ s.threw = p.threw /\ s.session = "resolved"
  BY <1>1 DEF Request
<1>3. Resolved(q, ok) = IF s.ended THEN [s EXCEPT !.lease = 0] ELSE s
  BY <1>2 DEF Resolved, ReleasedIfFinished
<1> HIDE DEF p, s
<1> QED
  BY <1>1, <1>2, <1>3 DEF Request

(* The finish event resolves a session in delivery, and aborts one that is *)
(* not there yet. *)
LEMMA FinishedMayBecome ==
  ASSUME NEW q \in Request, NEW ok \in BOOLEAN, Coherent(q), q.response = "ended"
  PROVE  MayBecome(q, [OnFinish(q, ok) EXCEPT !.response = "finished", !.transport = "disposed"])
<1> DEFINE o == OnFinish(q, ok)
           p == [o EXCEPT !.response = "finished", !.transport = "disposed"]
<1>0. o \in Request => /\ p \in Request
                       /\ p.handler = o.handler /\ p.response = "finished" /\ p.session = o.session
                       /\ p.ended = o.ended /\ p.lease = o.lease /\ p.replied = o.replied
                       /\ p.intent = o.intent /\ p.threw = o.threw /\ p.abandoned = o.abandoned
  BY DEF Request
<1> HIDE DEF p
<1>1. CASE q.session = "delivery"
  <2>1. /\ o \in Request /\ o.handler = q.handler /\ o.session = "resolved"
        /\ o.ended <=> q.ended
        /\ o.lease = IF q.ended THEN 0 ELSE q.lease
        /\ o.replied <=> q.replied
        /\ o.intent = IF q.abandoned \/ ~ok THEN q.intent ELSE "resolved"
        /\ ~q.abandoned /\ ~ok => o.threw
    BY <1>1, ResolvedFields DEF OnFinish
  <2> HIDE DEF o
  <2>2. /\ q.ended \in BOOLEAN /\ q.replied \in BOOLEAN /\ q.threw \in BOOLEAN /\ q.abandoned \in BOOLEAN
        /\ p.ended \in BOOLEAN /\ p.replied \in BOOLEAN /\ p.threw \in BOOLEAN
    BY <1>0, <2>1 DEF Request
  <2>3. /\ q.replied
        /\ q.handler \in {"replying", "flushing", "done"}
        /\ q.intent = IF q.abandoned THEN "poisoned" ELSE "delivery"
        /\ q.lease # 0
    BY <1>1, <2>2 DEF Coherent
  <2>4. InOrder(q, p)
    BY <1>0, <2>1, <2>2, <2>3 DEF InOrder
  <2>5. p.ended <=> p.handler = "done"
    BY <1>0, <2>1, <2>2 DEF Coherent
  <2>6. p.replied => p.handler \in {"flushing", "done"}
    BY <1>0, <2>1, <2>2 DEF Coherent
  <2>7. ~p.threw => p.intent \in {"resolved", "poisoned"}
    BY <1>0, <2>1, <2>2, <2>3
  <2>8. p.replied /\ p.intent # "dispatch"
    BY <1>0, <2>1, <2>2, <2>3
  <2>9. Coherent(p)
    BY <1>0, <2>1, <2>2, <2>3, <2>5, <2>6, <2>7, <2>8 DEF Coherent
  <2>10. MayBecome(q, p)
    BY <1>0, <1>1, <2>1, <2>4, <2>9 DEF MayBecome, Live
  <2> QED
    BY <2>10 DEF p, o
<1>2. CASE q.session = "generation"
  <2>1. Live(q) /\ o = Aborted(q, ok)
    BY <1>2 DEF Live, OnFinish
  <2>2. o \in Request
    BY <2>1, AbortedFields
  <2> HIDE DEF o
  <2>3. MayBecome(q, p)
    BY <1>0, <2>1, <2>2, AbortedFields, AbortedMayBecome
  <2> QED
    BY <2>3 DEF p, o
<1>3. CASE q.session \notin {"generation", "delivery"}
  <2>1. o = q
    BY <1>3, AbortedIdle DEF OnFinish, Live
  <2> HIDE DEF o
  <2>2. MayBecome(q, p)
    BY <1>0, <1>3, <2>1 DEF MayBecome, InOrder, Coherent, Live
  <2> QED
    BY <2>2 DEF p, o
<1> QED
  BY <1>1, <1>2, <1>3

(* The close event of a lost response aborts what is still live. *)
LEMMA ClosedMayBecome ==
  ASSUME NEW q \in Request, NEW ok \in BOOLEAN, Coherent(q), q.response \in {"dropped", "destroyed"}
  PROVE  LET t == IF q.transport = "disposed" THEN q ELSE TransportAborted(q)
         IN  MayBecome(q, [OnClose(t, ok) EXCEPT !.response = "closed"])
<1> DEFINE t == IF q.transport = "disposed" THEN q ELSE TransportAborted(q)
           a == Aborted(t, ok)
           p == [a EXCEPT !.response = "closed"]
<1>1. /\ t \in Request
      /\ t.handler = q.handler /\ t.response = q.response /\ t.session = q.session
      /\ t.ended = q.ended /\ t.lease = q.lease /\ t.replied = q.replied
      /\ t.intent = q.intent /\ t.threw = q.threw /\ t.abandoned = q.abandoned
  BY WatchdogMoved
<1> HIDE DEF t
<1>2. Coherent(t)
  BY <1>1 DEF Coherent
<1>3. a \in Request
  BY <1>1, AbortedFields, AbortedIdle
<1> HIDE DEF a
<1>4. /\ p \in Request
      /\ p.handler = a.handler /\ p.response = "closed" /\ p.session = a.session
      /\ p.ended = a.ended /\ p.lease = a.lease /\ p.replied = a.replied
      /\ p.intent = a.intent /\ p.threw = a.threw /\ p.abandoned = a.abandoned
  BY <1>3 DEF Request
<1> HIDE DEF p
<1>5. MayBecome(t, p)
  <2>1. CASE Live(t)
    BY <1>1, <1>2, <1>4, <2>1, AbortedFields, AbortedMayBecome DEF a
  <2>2. CASE ~Live(t)
    BY <1>1, <1>2, <1>4, <2>2, AbortedIdle, LostMayBecome DEF a
  <2> QED
    BY <2>1, <2>2
<1>6. MayBecome(q, p)
  BY <1>1, <1>5 DEF MayBecome, InOrder, Live
<1> QED
  BY <1>6 DEF p, a, t, OnClose

(* A stop aborts the session and drops the connection. *)
LEMMA StoppedMayBecome ==
  ASSUME NEW q \in Request, NEW ok \in BOOLEAN, Coherent(q)
  PROVE  MayBecome(q, Stopped(q, ok)) /\ ~Live(Stopped(q, ok))
<1> DEFINE a == Aborted(q, ok)
           p == Stopped(q, ok)
<1>1. a \in Request /\ ~Live(a)
  BY AbortedFields, AbortedIdle DEF Live
<1> HIDE DEF a
<1>2. /\ p \in Request
      /\ p.handler = a.handler /\ p.session = a.session
      /\ p.ended = a.ended /\ p.lease = a.lease /\ p.replied = a.replied
      /\ p.intent = a.intent /\ p.threw = a.threw /\ p.abandoned = a.abandoned
      /\ \/ p.response = a.response /\ a.response \notin {"open", "ended"}
         \/ p.response \in {"dropped", "destroyed"} /\ a.response \in {"open", "ended", "dropped"}
  BY <1>1, ResponseLost DEF Stopped, a
<1> HIDE DEF p
<1>3. Live(q) => MayBecome(q, p)
  <2> SUFFICES ASSUME Live(q) PROVE MayBecome(q, p)
    OBVIOUS
  <2>1. p.response # "open"
    BY <1>2
  <2> QED
    BY <1>2, <2>1, AbortedFields, AbortedMayBecome DEF a
<1>4. ~Live(q) => MayBecome(q, p)
  BY <1>2, AbortedIdle, LostMayBecome DEF a
<1>5. MayBecome(q, p) /\ ~Live(p)
  BY <1>1, <1>2, <1>3, <1>4 DEF Live
<1> QED
  BY <1>5 DEF p

(* An observed generation enters delivery, before a byte of its end is     *)
(* written ... *)
LEMMA ObservedMayBecome ==
  ASSUME NEW q \in Request, NEW p \in Request, Coherent(q),
         q.session = "generation", q.handler = "relaying",
         p.session = "delivery",
         p.intent = IF p.abandoned THEN "poisoned" ELSE "delivery",
         p.handler \in {"relaying", "replying"}, p.response = q.response,
         p.ended = q.ended, p.lease = q.lease, p.replied = q.replied, p.threw = q.threw
  PROVE  /\ p.handler = "replying" => MayBecome(q, p)
         /\ p.lease # 0 /\ ~p.ended /\ ~p.replied
<1>1. /\ q.ended \in BOOLEAN /\ q.replied \in BOOLEAN /\ p.ended \in BOOLEAN
      /\ p.replied \in BOOLEAN /\ p.abandoned \in BOOLEAN
  BY DEF Request
<1>2. q.intent = "dispatch" /\ q.lease # 0 /\ ~q.ended /\ ~q.replied
  BY <1>1 DEF Coherent
<1>3. p.lease # 0 /\ ~p.ended /\ ~p.replied
  BY <1>1, <1>2
<1>4. ASSUME p.handler = "replying" PROVE Coherent(p)
  <2>1. p.response = q.response /\ p.handler \notin {"flushing", "done"}
    BY <1>4
  <2>2. p.response # "ended" \/ p.replied
    BY DEF Coherent
  <2> QED
    BY <1>1, <1>3, <1>4, <2>1, <2>2 DEF Coherent
<1>5. ASSUME p.handler = "replying" PROVE MayBecome(q, p)
  BY <1>2, <1>4, <1>5 DEF MayBecome, InOrder, Live
<1> QED
  BY <1>3, <1>5

(* ... unless its deadline had passed, which aborts it at once. *)
LEMMA LateMayBecome ==
  ASSUME NEW q \in Request, NEW p \in Request, NEW ok \in BOOLEAN, Coherent(q),
         q.session = "generation", q.handler = "relaying",
         p.session = "delivery",
         p.intent = IF p.abandoned THEN "poisoned" ELSE "delivery",
         p.handler = "relaying", p.response = q.response,
         p.ended = q.ended, p.lease = q.lease, p.replied = q.replied, p.threw = q.threw
  PROVE  MayBecome(q, Replying(Expired(p, ok)))
<1> DEFINE a == Aborted(p, ok)
           e == Expired(p, ok)
           h == [e EXCEPT !.handler = "replying"]
           w == Replying(Expired(p, ok))
<1>1. /\ a \in Request /\ a.handler = "relaying" /\ a.session = "resolved"
      /\ a.response = q.response
      /\ a.ended <=> p.ended
      /\ a.lease = IF p.ended THEN 0 ELSE p.lease
      /\ a.replied <=> p.replied
      /\ a.intent = IF p.abandoned \/ ~ok THEN p.intent ELSE "poisoned"
      /\ ~p.abandoned /\ ~ok => a.threw
  BY AbortedFields DEF Live
<1> HIDE DEF a
<1>2. /\ e \in Request /\ e.session = a.session
      /\ e.ended = a.ended /\ e.lease = a.lease /\ e.replied = a.replied
      /\ e.intent = a.intent /\ e.threw = a.threw
      /\ e.response \notin {"open", "ended"} /\ (e.response = "finished" => a.response = "finished")
  BY <1>1, ResponseLost DEF Expired, a
<1> HIDE DEF e
<1>3. /\ h \in Request /\ h.handler = "replying" /\ h.session = e.session
      /\ h.ended = e.ended /\ h.lease = e.lease /\ h.replied = e.replied
      /\ h.intent = e.intent /\ h.threw = e.threw /\ h.response = e.response
  BY <1>2 DEF Request
<1>4. w = InDelivery(h)
  BY DEF Replying, e
<1> HIDE DEF h
<1>5. /\ w \in Request /\ w.handler = "replying" /\ w.session = "resolved"
      /\ w.ended = a.ended /\ w.lease = a.lease /\ w.replied = a.replied
      /\ w.intent = a.intent /\ w.threw = a.threw /\ w.response = e.response
  BY <1>4, <1>1, <1>2, <1>3, WatchdogMoved
<1> HIDE DEF w
<1>6. p.lease # 0 /\ ~p.ended /\ ~p.replied
  BY ObservedMayBecome
<1>7. p.abandoned \in BOOLEAN /\ w.ended \in BOOLEAN /\ w.replied \in BOOLEAN /\ w.threw \in BOOLEAN
  BY <1>5 DEF Request
<1>8. w.lease # 0 /\ ~w.ended /\ ~w.replied /\ w.intent \in {"delivery", "poisoned"}
  BY <1>1, <1>5, <1>6, <1>7
<1>9. ~w.threw => w.intent = "poisoned"
  BY <1>1, <1>5, <1>7
<1>10. w.response \notin {"open", "ended", "finished"}
  BY <1>1, <1>2, <1>5 DEF Coherent
<1>11. Coherent(w)
  BY <1>5, <1>7, <1>8, <1>9, <1>10 DEF Coherent
<1>12. q.intent = "dispatch"
  BY DEF Coherent
<1>13. w.lease \in {0, q.lease}
  BY <1>1, <1>5
<1>14. MayBecome(q, w)
  BY <1>5, <1>8, <1>11, <1>12, <1>13 DEF MayBecome, InOrder, Live
<1> QED
  BY <1>14 DEF w

(* Publication, whether the upstream's end came in time or not. *)
LEMMA PublishedMayBecome ==
  ASSUME NEW q \in Request, NEW ok \in BOOLEAN, Coherent(q),
         q.session = "generation", q.handler = "relaying"
  PROVE  LET p == [q EXCEPT !.intent = "delivery", !.session = "delivery"]
         IN  MayBecome(q, Replying(p)) /\ MayBecome(q, Replying(Expired(p, ok)))
<1> DEFINE p == [q EXCEPT !.intent = "delivery", !.session = "delivery"]
           h == [p EXCEPT !.handler = "replying"]
           w == Replying(p)
<1>1. /\ p \in Request /\ p.session = "delivery" /\ p.intent = "delivery" /\ p.abandoned = q.abandoned
      /\ p.handler = "relaying" /\ p.response = q.response
      /\ p.ended = q.ended /\ p.lease = q.lease /\ p.replied = q.replied /\ p.threw = q.threw
  BY DEF Request
<1> HIDE DEF p
<1>2. ~q.abandoned
  BY DEF Coherent
<1>3. MayBecome(q, Replying(Expired(p, ok)))
  BY <1>1, <1>2, LateMayBecome
<1>4. /\ h \in Request /\ h.session = "delivery" /\ h.intent = "delivery" /\ h.abandoned = q.abandoned
      /\ h.handler = "replying" /\ h.response = q.response
      /\ h.ended = q.ended /\ h.lease = q.lease /\ h.replied = q.replied /\ h.threw = q.threw
  BY <1>1 DEF Request
<1> HIDE DEF h
<1>5. /\ w \in Request /\ w.session = "delivery" /\ w.intent = "delivery" /\ w.abandoned = q.abandoned
      /\ w.handler = "replying" /\ w.response = q.response
      /\ w.ended = q.ended /\ w.lease = q.lease /\ w.replied = q.replied /\ w.threw = q.threw
  BY <1>4, WatchdogMoved DEF Replying, h
<1> HIDE DEF w
<1>6. MayBecome(q, w)
  BY <1>2, <1>5, ObservedMayBecome
<1> QED
  BY <1>3, <1>6 DEF w, p

(* The end of a reply without a complete capture. *)
LEMMA AbandonedMayBecome ==
  ASSUME NEW q \in Request, Coherent(q),
         q.session = "generation", q.handler = "relaying"
  PROVE  MayBecome(q, Replying(Abandoned(q))) /\ MayBecome(q, Replying(Expired(Abandoned(q), TRUE)))
<1> DEFINE p == Abandoned(q)
           h == [p EXCEPT !.handler = "replying"]
           w == Replying(p)
<1>1. /\ p \in Request /\ p.session = "delivery" /\ p.intent = "poisoned" /\ p.abandoned
      /\ p.handler = "relaying" /\ p.response = q.response
      /\ p.ended = q.ended /\ p.lease = q.lease /\ p.replied = q.replied /\ p.threw = q.threw
  BY DEF Request, Abandoned
<1> HIDE DEF p
<1>2. MayBecome(q, Replying(Expired(p, TRUE)))
  BY <1>1, LateMayBecome
<1>3. /\ h \in Request /\ h.session = "delivery" /\ h.intent = "poisoned" /\ h.abandoned
      /\ h.handler = "replying" /\ h.response = q.response
      /\ h.ended = q.ended /\ h.lease = q.lease /\ h.replied = q.replied /\ h.threw = q.threw
  BY <1>1 DEF Request
<1> HIDE DEF h
<1>4. /\ w \in Request /\ w.session = "delivery" /\ w.intent = "poisoned" /\ w.abandoned
      /\ w.handler = "replying" /\ w.response = q.response
      /\ w.ended = q.ended /\ w.lease = q.lease /\ w.replied = q.replied /\ w.threw = q.threw
  <2>1. w = InDelivery(h)
    BY DEF Replying, h
  <2> HIDE DEF w
  <2> QED
    BY <1>3, <2>1, WatchdogMoved
<1> HIDE DEF w
<1>5. MayBecome(q, w)
  BY <1>4, ObservedMayBecome
<1> QED
  BY <1>2, <1>5 DEF w, p

(* The end of a reply no session watches. *)
LEMMA UnwatchedMayBecome ==
  ASSUME NEW q \in Request, Coherent(q), ~Live(q), q.handler = "relaying"
  PROVE  MayBecome(q, Replying(q))
<1> DEFINE h == [q EXCEPT !.handler = "replying"]
           w == Replying(q)
<1>1. MayBecome(q, h)
  BY MovedMayBecome DEF Coherent, Live
<1>2. /\ h \in Request /\ h.session = q.session /\ h.intent = q.intent /\ Coherent(h)
  BY <1>1 DEF MayBecome, Request
<1> HIDE DEF h
<1>3. /\ w \in Request /\ w.session = h.session /\ w.intent = h.intent /\ w.abandoned = h.abandoned
      /\ w.handler = h.handler /\ w.response = h.response
      /\ w.ended = h.ended /\ w.lease = h.lease /\ w.replied = h.replied /\ w.threw = h.threw
  BY <1>2, WatchdogMoved DEF Replying, h
<1> HIDE DEF w
<1>4. w.lease = q.lease
  BY <1>3 DEF h, Request
<1>5. MayBecome(q, w)
  BY <1>2, <1>3, <1>4 DEF MayBecome, InOrder, Coherent
<1> QED
  BY <1>5 DEF w

(* The last frame is handed over, or goes nowhere. *)
LEMMA EndedMayBecome ==
  ASSUME NEW q \in Request, Coherent(q), q.handler = "replying"
  PROVE  LET p == [q EXCEPT !.handler = "flushing"]
         IN  MayBecome(q, IF p.response = "open"
                          THEN [p EXCEPT !.response = "ended", !.replied = TRUE] ELSE p)
<1> DEFINE p == [q EXCEPT !.handler = "flushing"]
           w == IF p.response = "open" THEN [p EXCEPT !.response = "ended", !.replied = TRUE] ELSE p
<1>1. /\ p \in Request /\ p.handler = "flushing" /\ p.session = q.session /\ p.intent = q.intent
      /\ p.abandoned = q.abandoned /\ p.response = q.response
      /\ p.ended = q.ended /\ p.lease = q.lease /\ p.replied = q.replied /\ p.threw = q.threw
  BY DEF Request
<1> HIDE DEF p
<1>2. /\ w \in Request /\ w.handler = "flushing" /\ w.session = q.session /\ w.intent = q.intent
      /\ w.abandoned = q.abandoned
      /\ w.ended = q.ended /\ w.lease = q.lease /\ w.threw = q.threw
      /\ \/ q.response # "open" /\ w.response = q.response /\ w.replied = q.replied
         \/ q.response = "open" /\ w.response = "ended" /\ w.replied
  <2>1. CASE q.response = "open"
    BY <1>1, <2>1 DEF Request
  <2>2. CASE q.response # "open"
    BY <1>1, <2>2 DEF Request
  <2> QED
    BY <2>1, <2>2
<1> HIDE DEF w
<1>3. MayBecome(q, w)
  <2>1. CASE q.response = "open"
    BY <1>2, <2>1 DEF MayBecome, InOrder, Coherent, Live
  <2>2. CASE q.response # "open"
    BY <1>2, <2>2 DEF MayBecome, InOrder, Coherent, Live
  <2> QED
    BY <2>1, <2>2
<1> QED
  BY <1>3 DEF w, p

(* Refusing or forwarding without a session, with or without an intent. *)
LEMMA UnobservedMayBecome ==
  ASSUME NEW q \in Request, Coherent(q), q.handler = "reading",
         NEW intent \in {"none", "dispatch", "poisoned"}
  PROVE  /\ q.session = "none"
         /\ MayBecome(q, [q EXCEPT !.handler = "awaiting", !.intent = intent])
         /\ MayBecome(q, Rejected([q EXCEPT !.intent = intent, !.threw = TRUE], TRUE, FALSE))
<1> DEFINE p == [q EXCEPT !.handler = "awaiting", !.intent = intent]
           t == [q EXCEPT !.intent = intent, !.threw = TRUE]
<1>1. q.session = "none"
  BY DEF Coherent, Request
<1>2. /\ p \in Request /\ p.handler = "awaiting" /\ p.session = q.session
      /\ p.response = q.response /\ p.abandoned = q.abandoned
      /\ p.ended = q.ended /\ p.lease = q.lease /\ p.replied = q.replied
  BY DEF Request
<1> HIDE DEF p
<1>3. MayBecome(q, p)
  BY <1>1, <1>2 DEF MayBecome, Coherent, Live
<1>4. /\ t \in Request /\ t.handler = "reading" /\ t.session = q.session
      /\ t.response = q.response /\ t.abandoned = q.abandoned
      /\ t.ended = q.ended /\ t.lease = q.lease /\ t.replied = q.replied
  BY DEF Request
<1> HIDE DEF t
<1>5. Coherent(t)
  BY <1>1, <1>4 DEF Coherent
<1>6. MayBecome(t, Rejected(t, TRUE, FALSE))
  BY <1>4, <1>5, RejectedMayBecome
<1>7. MayBecome(q, Rejected(t, TRUE, FALSE))
  BY <1>1, <1>4, <1>6 DEF MayBecome, Live
<1> QED
  BY <1>1, <1>3, <1>7 DEF p, t

-----------------------------------------------------------------------------
(* From one request to the state.                                          *)

(* What IntentDiscipline asks of a step. *)
Disciplined == \A r \in Sessions : InOrder(request[r], request'[r])

(* The ledger's state after a call. *)
LEMMA StoreTyped ==
  ASSUME IInv, NEW q, NEW ok \in BOOLEAN, StoreCall(ok) \/ CallIfAny(q, ok)
  PROVE  store' \in {"open", "failed", "closed"}
BY DEF IInv, TypeOK, StoreCall, CallIfAny

(* Leases that stay or are given back stay within the limits.              *)
LEMMA AdmissionKept ==
  ASSUME TypeOK, request' \in [Requests -> Request],
         \A r \in Requests : request'[r].lease \in {0, request[r].lease}
  PROVE  (Cardinality(Leased) <= MaxConcurrent /\ Retained <= Available)'
<1> DEFINE f == [r \in Requests |-> request[r].lease]
           g == [r \in Requests |-> request'[r].lease]
<1>1. f \in [Requests -> Nat] /\ g \in [Requests -> Nat] /\ \A r \in Requests : g[r] <= f[r]
  BY DEF TypeOK, Request
<1>2. SumFunction(g) <= SumFunction(f) /\ SumFunction(f) \in Nat /\ SumFunction(g) \in Nat
  <2> HIDE DEF f, g
  <2> QED
    BY <1>1, CostAssumption, SumShrinks, SumIsNumber
<1>3. Retained' <= Available
  BY <1>2, CostAssumption DEF Retained, TypeOK
<1>4. IsFiniteSet(Leased) /\ Leased' \in SUBSET Leased
  <2>1. Leased' \in SUBSET Leased
    BY DEF Leased, TypeOK
  <2>2. IsFiniteSet(Leased)
    BY CostAssumption, FS_Subset DEF Leased
  <2> QED
    BY <2>1, <2>2
<1>5. Cardinality(Leased') <= Cardinality(Leased) /\ Cardinality(Leased') \in Nat /\ Cardinality(Leased) \in Nat
  BY <1>4, FS_Subset, FS_CardinalityType
<1>6. Cardinality(Leased') <= MaxConcurrent
  BY <1>5, CostAssumption DEF TypeOK
<1> QED
  BY <1>3, <1>6

(* So does a lease that is granted.                                        *)
LEMMA AdmissionGranted ==
  ASSUME TypeOK, request' \in [Requests -> Request], NEW r \in Requests, NEW bytes \in Nat,
         Admits(bytes), request[r].lease = 0, request'[r].lease = bytes,
         \A s \in Requests : s # r => request'[s] = request[s]
  PROVE  (Cardinality(Leased) <= MaxConcurrent /\ Retained <= Available)'
<1> DEFINE f == [s \in Requests |-> request[s].lease]
           g == [s \in Requests |-> request'[s].lease]
<1>1. /\ f \in [Requests -> Nat] /\ g \in [Requests -> Nat]
      /\ f[r] = 0 /\ g[r] = bytes /\ \A s \in Requests \ {r} : g[s] = f[s]
  BY DEF TypeOK, Request
<1>2. /\ SumFunction(g) + f[r] = SumFunction(f) + g[r]
      /\ SumFunction(f) \in Nat /\ SumFunction(g) \in Nat
  <2> HIDE DEF f, g
  <2> QED
    BY <1>1, CostAssumption, SumChanges, SumIsNumber
<1>3. Retained' = Retained + bytes /\ Retained \in Nat
  BY <1>1, <1>2 DEF Retained
<1>4. Retained' <= Available
  BY <1>3, CostAssumption DEF Admits
<1>5. IsFiniteSet(Leased) /\ Leased' \in SUBSET (Leased \cup {r})
  <2>1. Leased' \in SUBSET (Leased \cup {r})
    BY DEF Leased
  <2>2. IsFiniteSet(Leased)
    BY CostAssumption, FS_Subset DEF Leased
  <2> QED
    BY <2>1, <2>2
<1>6. /\ Cardinality(Leased) \in Nat
      /\ IsFiniteSet(Leased \cup {r}) /\ Cardinality(Leased \cup {r}) <= Cardinality(Leased) + 1
  BY <1>5, FS_AddElement, FS_CardinalityType
<1>7. Cardinality(Leased') <= Cardinality(Leased \cup {r})
  BY <1>5, <1>6, FS_Subset
<1>8. Cardinality(Leased') \in Nat /\ Cardinality(Leased \cup {r}) \in Nat
  BY <1>5, <1>6, FS_Subset, FS_CardinalityType
<1>9. Cardinality(Leased') <= MaxConcurrent
  BY <1>6, <1>7, <1>8, CostAssumption DEF Admits
<1> QED
  BY <1>4, <1>9

(* A step that changes one request as it may keeps the invariant. *)
LEMMA SetInvariant ==
  ASSUME IInv, NEW r \in Requests, NEW p, Set(r, p), MayBecome(request[r], p),
         store' \in {"open", "failed", "closed"}
  PROVE  IInv' /\ Disciplined
<1>1. request[r] \in Request /\ Coherent(request[r])
  BY DEF IInv, TypeOK
<1>2. /\ request' \in [Requests -> Request]
      /\ request'[r] = p
      /\ \A s \in Requests : s # r => request'[s] = request[s]
  BY <1>1 DEF IInv, TypeOK, Set, MayBecome
<1>3. \A s \in Requests : Coherent(request'[s])
  BY <1>2 DEF IInv, TypeOK, MayBecome
<1>4. closed' = closed /\ stopping' = stopping
  BY DEF Set
<1>5. QuietAfterStop'
  <2> SUFFICES ASSUME stopping'
               PROVE  closed' /\ \A s \in Requests : request'[s].session \in {"none", "resolved"}
    BY DEF QuietAfterStop, Sessions
  <2>1. closed /\ \A s \in Requests : request[s].session \in {"none", "resolved"}
    BY <1>4 DEF IInv, TypeOK, QuietAfterStop, Sessions
  <2>2. \A s \in Requests : request'[s].session = request[s].session
    BY <1>2, <2>1 DEF MayBecome, Live
  <2> QED
    BY <1>4, <2>1, <2>2
<1>6. Disciplined
  BY <1>2 DEF Disciplined, Sessions, MayBecome, InOrder
<1>7. (Cardinality(Leased) <= MaxConcurrent /\ Retained <= Available)'
  <2>1. \A s \in Requests : request'[s].lease \in {0, request[s].lease}
    BY <1>2 DEF MayBecome
  <2> QED
    BY <1>2, <2>1, AdmissionKept DEF IInv
<1>8. TypeOK'
  BY <1>2, <1>4, <1>7 DEF IInv, TypeOK
<1>9. IInv'
  BY <1>3, <1>5, <1>8 DEF IInv, Coherent
<1> QED
  BY <1>6, <1>9

(* Dispatch begins the session, which no stop has ruled out, and takes a   *)
(* lease of a size that shows. *)
LEMMA DispatchInvariant ==
  ASSUME IInv, NEW r \in Requests, NEW cost \in ReplayCosts \cup {0}, Dispatch(r, cost)
  PROVE  IInv' /\ Disciplined
<1> DEFINE q == request[r]
           p == [q EXCEPT !.handler = "awaiting", !.session = "generation",
                          !.intent = "dispatch", !.lease = BaseCost + cost]
<1>1. q \in Request /\ Coherent(q) /\ q.handler = "reading" /\ ~closed
  BY DEF IInv, TypeOK, Dispatch, Preparing, At
<1>2. BaseCost + cost \in Nat /\ BaseCost + cost # 0
  BY CostAssumption
<1>3. q.session = "none"
  BY <1>1 DEF Coherent, Request
<1>4. /\ request' = [request EXCEPT ![r] = p] /\ closed' = closed /\ stopping' = stopping
  BY DEF Dispatch, Set
<1> HIDE DEF q
<1>5. /\ p \in Request /\ p.handler = "awaiting" /\ p.session = "generation"
      /\ p.intent = "dispatch" /\ p.lease # 0 /\ p.response = q.response
      /\ p.abandoned = q.abandoned /\ p.ended = q.ended /\ p.replied = q.replied
  BY <1>1, <1>2 DEF Request
<1> HIDE DEF p
<1>6. ~q.abandoned
  BY <1>1, <1>3 DEF Coherent
<1>7. Coherent(p)
  BY <1>1, <1>3, <1>5, <1>6 DEF Coherent
<1>8. /\ request' \in [Requests -> Request]
      /\ request'[r] = p
      /\ \A s \in Requests : s # r => request'[s] = request[s]
  BY <1>4, <1>5 DEF IInv, TypeOK
<1>9. ~stopping
  BY <1>1 DEF IInv, TypeOK, QuietAfterStop
<1>10. Disciplined
  BY <1>3, <1>8 DEF Disciplined, Sessions, InOrder, q
<1>11. store' \in {"open", "failed", "closed"}
  BY DEF IInv, TypeOK, Dispatch, StoreCall
<1>12. \A s \in Requests : Coherent(request'[s])
  BY <1>7, <1>8 DEF IInv, TypeOK
<1>13. QuietAfterStop'
  BY <1>4, <1>9 DEF QuietAfterStop
<1>14. (Cardinality(Leased) <= MaxConcurrent /\ Retained <= Available)'
  <2>1. request[r].lease = 0
    BY <1>1, <1>3 DEF Coherent, q
  <2>2. request'[r].lease = BaseCost + cost
    BY <1>1, <1>2, <1>8 DEF p, Request
  <2>3. Admits(BaseCost + cost)
    BY DEF Dispatch
  <2> QED
    BY <1>2, <1>8, <2>1, <2>2, <2>3, AdmissionGranted DEF IInv
<1>15. TypeOK'
  BY <1>4, <1>8, <1>11, <1>14 DEF IInv, TypeOK
<1>16. IInv'
  BY <1>12, <1>13, <1>15 DEF IInv, Coherent
<1> QED
  BY <1>10, <1>16

(* The handler until it awaits the upstream. *)
LEMMA PrepareInvariant ==
  ASSUME IInv, NEW r \in Requests, Prepare(r)
  PROVE  IInv' /\ Disciplined
<1>1. request[r] \in Request /\ Coherent(request[r])
  BY DEF IInv, TypeOK
<1>2. CASE RejectEarly(r)
  <2>1. MayBecome(request[r], Rejected(request[r], TRUE, FALSE))
    BY <1>1, <1>2, RejectedMayBecome DEF RejectEarly, At
  <2> QED
    BY <1>2, <2>1, SetInvariant DEF RejectEarly, IInv, TypeOK
<1>3. CASE ForwardUnkeyed(r)
  <2>1. MayBecome(request[r], [request[r] EXCEPT !.handler = "awaiting"])
    BY <1>1, <1>3, MovedMayBecome DEF ForwardUnkeyed, Preparing, At, Coherent, Live
  <2> QED
    BY <1>3, <2>1, SetInvariant DEF ForwardUnkeyed, IInv, TypeOK
<1>4. CASE Bypass(r)
  <2>1. MayBecome(request[r], [request[r] EXCEPT !.handler = "awaiting", !.intent = "poisoned"])
    BY <1>1, <1>4, UnobservedMayBecome DEF Bypass, Preparing, At
  <2>2. store' \in {"open", "failed", "closed"}
    BY <1>4, StoreTyped DEF Bypass
  <2> QED
    BY <1>4, <2>1, <2>2, SetInvariant DEF Bypass
<1>5. ASSUME NEW cost \in ReplayCosts \cup {0}, Dispatch(r, cost) PROVE IInv' /\ Disciplined
  BY <1>5, DispatchInvariant
<1>6. ASSUME NEW intent \in {"none", "poisoned", "dispatch"}, PrepareThrows(r, intent) PROVE IInv' /\ Disciplined
  <2>1. MayBecome(request[r], Rejected([request[r] EXCEPT !.intent = intent, !.threw = TRUE], TRUE, FALSE))
    BY <1>1, <1>6, UnobservedMayBecome DEF PrepareThrows, Preparing, At
  <2>2. store' \in {"open", "failed", "closed"}
    BY <1>6, StoreTyped DEF PrepareThrows
  <2> QED
    BY <1>6, <2>1, <2>2, SetInvariant DEF PrepareThrows
<1> QED
  BY <1>2, <1>3, <1>4, <1>5, <1>6 DEF Prepare

(* The handler from the upstream's headers on. *)
LEMMA RelayInvariant ==
  ASSUME IInv, NEW r \in Requests, Relay(r)
  PROVE  IInv' /\ Disciplined
<1>1. request[r] \in Request /\ Coherent(request[r])
  BY DEF IInv, TypeOK
<1>2. CASE HeadersArrive(r)
  <2>1. MayBecome(request[r], [request[r] EXCEPT !.handler = "relaying"])
    BY <1>1, <1>2, MovedMayBecome DEF HeadersArrive, At, Coherent, Live
  <2> QED
    BY <1>2, <2>1, SetInvariant DEF HeadersArrive, IInv, TypeOK
<1>3. CASE ReplyUnwatched(r)
  <2>1. MayBecome(request[r], Replying(request[r]))
    BY <1>1, <1>3, UnwatchedMayBecome DEF ReplyUnwatched, At
  <2> QED
    BY <1>3, <2>1, SetInvariant DEF ReplyUnwatched, IInv, TypeOK
<1>4. CASE EndReply(r)
  <2> DEFINE p == [request[r] EXCEPT !.handler = "flushing"]
             w == IF p.response = "open" THEN [p EXCEPT !.response = "ended", !.replied = TRUE] ELSE p
  <2>1. MayBecome(request[r], w)
    BY <1>1, <1>4, EndedMayBecome DEF EndReply, At
  <2>2. Set(r, w)
    BY <1>4 DEF EndReply
  <2> HIDE DEF w
  <2> QED
    BY <1>4, <2>1, <2>2, SetInvariant DEF EndReply, IInv, TypeOK
<1>5. CASE Return(r)
  <2>1. MayBecome(request[r], Finished(request[r], TRUE))
    BY <1>1, <1>5, ReturnedMayBecome DEF Return, At
  <2> QED
    BY <1>5, <2>1, SetInvariant DEF Return, IInv, TypeOK
<1>6. CASE Unwind(r)
  <2>1. PICK headersSent \in BOOLEAN : Set(r, Rejected(request[r], TRUE, headersSent))
    BY <1>6 DEF Unwind
  <2>2. MayBecome(request[r], Rejected(request[r], TRUE, headersSent))
    BY <1>1, <1>6, RejectedMayBecome DEF Unwind, At
  <2> QED
    BY <1>6, <2>1, <2>2, SetInvariant DEF Unwind, IInv, TypeOK
<1>7. ASSUME NEW ok \in BOOLEAN, Fail(r, ok) PROVE IInv' /\ Disciplined
  <2>1. MayBecome(request[r], [Aborted(request[r], ok) EXCEPT !.handler = "unwinding"])
    BY <1>1, <1>7, FailedMayBecome DEF Fail
  <2>2. store' \in {"open", "failed", "closed"}
    BY <1>7, StoreTyped DEF Fail
  <2> QED
    BY <1>7, <2>1, <2>2, SetInvariant DEF Fail
<1>8. ASSUME NEW late \in BOOLEAN, FinishWithoutCapture(r, late) PROVE IInv' /\ Disciplined
  <2> DEFINE p == Replying(IF late THEN Expired(Abandoned(request[r]), TRUE) ELSE Abandoned(request[r]))
  <2>1. MayBecome(request[r], p)
    BY <1>1, <1>8, AbandonedMayBecome DEF FinishWithoutCapture, At
  <2>2. store' \in {"open", "failed", "closed"}
    BY <1>8, StoreTyped DEF FinishWithoutCapture
  <2>3. Set(r, p)
    BY <1>8 DEF FinishWithoutCapture
  <2> HIDE DEF p
  <2> QED
    BY <2>1, <2>2, <2>3, SetInvariant
<1>9. ASSUME NEW late \in BOOLEAN, NEW ok \in BOOLEAN, Publish(r, late, ok) PROVE IInv' /\ Disciplined
  <2> DEFINE o == [request[r] EXCEPT !.intent = "delivery", !.session = "delivery"]
             p == Replying(IF late THEN Expired(o, ok) ELSE o)
  <2>1. MayBecome(request[r], p)
    BY <1>1, <1>9, PublishedMayBecome DEF Publish, At
  <2>2. store' \in {"open", "failed", "closed"}
    BY <1>9, StoreTyped DEF Publish
  <2>3. Set(r, p)
    BY <1>9 DEF Publish
  <2> HIDE DEF p
  <2> QED
    BY <2>1, <2>2, <2>3, SetInvariant
<1> QED
  BY <1>2, <1>3, <1>4, <1>5, <1>6, <1>7, <1>8, <1>9 DEF Relay

(* Events. *)
LEMMA EventInvariant ==
  ASSUME IInv, NEW r \in Requests, Event(r)
  PROVE  IInv' /\ Disciplined
<1>1. request[r] \in Request /\ Coherent(request[r])
  BY DEF IInv, TypeOK
<1>2. CASE SocketDies(r)
  <2>1. MayBecome(request[r], Dropped(request[r]))
    BY <1>1, ResponseLost, LostMayBecome
  <2> QED
    BY <1>2, <2>1, SetInvariant DEF SocketDies, IInv, TypeOK
<1>3. CASE TransportTimer(r)
  <2> DEFINE t == TransportAborted(request[r])
             p == Destroyed(t)
  <2>1. /\ t \in Request
        /\ t.handler = request[r].handler /\ t.response = request[r].response
        /\ t.session = request[r].session
        /\ t.ended = request[r].ended /\ t.lease = request[r].lease
        /\ t.replied = request[r].replied /\ t.intent = request[r].intent
        /\ t.threw = request[r].threw /\ t.abandoned = request[r].abandoned
    BY <1>1, WatchdogMoved
  <2>2. Set(r, p)
    BY <1>3 DEF TransportTimer
  <2> HIDE DEF t
  <2>3. MayBecome(request[r], p)
    BY <1>1, <2>1, ResponseLost, LostMayBecome
  <2> HIDE DEF p
  <2> QED
    BY <1>3, <2>2, <2>3, SetInvariant DEF TransportTimer, IInv, TypeOK
<1>4. CASE CloseWhenFlushed(r)
  <2> DEFINE p == [request[r] EXCEPT !.response = "closed", !.transport = "disposed"]
  <2>1. /\ p \in Request /\ p.response = "closed"
        /\ p.handler = request[r].handler /\ p.session = request[r].session
        /\ p.ended = request[r].ended /\ p.lease = request[r].lease
        /\ p.replied = request[r].replied /\ p.intent = request[r].intent
        /\ p.threw = request[r].threw /\ p.abandoned = request[r].abandoned
    BY <1>1 DEF Request
  <2>2. Set(r, p) /\ request[r].response \in {"dropped", "destroyed"}
    BY <1>4 DEF CloseWhenFlushed
  <2> HIDE DEF p
  <2>3. MayBecome(request[r], p)
    BY <1>1, <2>1, <2>2, LostMayBecome
  <2> QED
    BY <1>4, <2>2, <2>3, SetInvariant DEF CloseWhenFlushed, IInv, TypeOK
<1>5. ASSUME NEW ok \in BOOLEAN, FinishEvent(r, ok) PROVE IInv' /\ Disciplined
  <2>1. MayBecome(request[r], [OnFinish(request[r], ok) EXCEPT !.response = "finished", !.transport = "disposed"])
    BY <1>1, <1>5, FinishedMayBecome DEF FinishEvent
  <2>2. store' \in {"open", "failed", "closed"}
    BY <1>5, StoreTyped DEF FinishEvent
  <2> QED
    BY <1>5, <2>1, <2>2, SetInvariant DEF FinishEvent
<1>6. ASSUME NEW ok \in BOOLEAN, CloseEvent(r, ok) PROVE IInv' /\ Disciplined
  <2> DEFINE t == IF request[r].transport = "disposed" THEN request[r] ELSE TransportAborted(request[r])
             p == [OnClose(t, ok) EXCEPT !.response = "closed"]
  <2>1. MayBecome(request[r], p)
    BY <1>1, <1>6, ClosedMayBecome DEF CloseEvent
  <2>2. store' \in {"open", "failed", "closed"}
    BY <1>6, StoreTyped DEF CloseEvent
  <2>3. Set(r, p)
    BY <1>6 DEF CloseEvent
  <2> HIDE DEF p
  <2> QED
    BY <2>1, <2>2, <2>3, SetInvariant
<1>7. ASSUME NEW ok \in BOOLEAN, SessionTimer(r, ok) PROVE IInv' /\ Disciplined
  <2>1. MayBecome(request[r], Expired(request[r], ok))
    BY <1>1, <1>7, ExpiredMayBecome DEF SessionTimer
  <2>2. store' \in {"open", "failed", "closed"}
    BY <1>7, StoreTyped DEF SessionTimer
  <2> QED
    BY <1>7, <2>1, <2>2, SetInvariant DEF SessionTimer
<1>8. ASSUME NEW ok \in BOOLEAN, KeepaliveFails(r, ok) PROVE IInv' /\ Disciplined
  <2>1. MayBecome(request[r], Destroyed(Aborted(TransportAborted(request[r]), ok)))
    BY <1>1, KeepaliveMayBecome
  <2>2. store' \in {"open", "failed", "closed"}
    BY <1>8, StoreTyped DEF KeepaliveFails
  <2> QED
    BY <1>8, <2>1, <2>2, SetInvariant DEF KeepaliveFails
<1> QED
  BY <1>2, <1>3, <1>4, <1>5, <1>6, <1>7, <1>8 DEF Event

(* What the runtime does of its own leaves the leases where they are.      *)
LEMMA AdmissionUntouched ==
  ASSUME IInv, request' = request
  PROVE  (Cardinality(Leased) <= MaxConcurrent /\ Retained <= Available)'
<1>1. Leased' = Leased /\ Retained' = Retained
  BY DEF Leased, Retained
<1> QED
  BY <1>1 DEF IInv, TypeOK

(* The runtime's own steps: a stop changes every request at once. *)
LEMMA ShutdownInvariant ==
  ASSUME IInv, Shutdown
  PROVE  IInv' /\ Disciplined
<1>1. CASE MaintenanceFails
  <2>1. store' \in {"open", "failed", "closed"}
    BY <1>1, StoreTyped DEF MaintenanceFails
  <2> QED
    BY <1>1, <2>1, AdmissionUntouched DEF MaintenanceFails, IInv, TypeOK, QuietAfterStop, Sessions, Disciplined, InOrder, Coherent
<1>2. ASSUME NEW lost \in SUBSET Requests, Stop(lost) PROVE IInv' /\ Disciplined
  <2>1. /\ request' = [r \in Requests |-> Stopped(request[r], r \notin lost)]
        /\ closed' = TRUE /\ stopping' = TRUE
    BY <1>2 DEF Stop
  <2>2. store' \in {"open", "failed", "closed"}
    BY <1>2 DEF Stop, IInv, TypeOK
  <2>3. \A r \in Requests : MayBecome(request[r], request'[r]) /\ ~Live(request'[r])
    BY <2>1, StoppedMayBecome DEF IInv, TypeOK
  <2>4. request' \in [Requests -> Request]
    BY <2>1, <2>3 DEF MayBecome
  <2>5. \A r \in Requests : Coherent(request'[r])
    BY <2>3 DEF MayBecome
  <2>6. QuietAfterStop'
    BY <2>1, <2>3, <2>4 DEF QuietAfterStop, Sessions, Live, Request
  <2>7. Disciplined
    BY <2>3 DEF Disciplined, Sessions, MayBecome
  <2>8. (Cardinality(Leased) <= MaxConcurrent /\ Retained <= Available)'
    BY <2>3, <2>4, AdmissionKept DEF IInv, MayBecome
  <2>9. IInv'
    BY <2>1, <2>2, <2>4, <2>5, <2>6, <2>8 DEF IInv, TypeOK, Coherent
  <2> QED
    BY <2>7, <2>9
<1>3. CASE CloseStore
  BY <1>3, AdmissionUntouched DEF CloseStore, IInv, TypeOK, QuietAfterStop, Sessions, Disciplined, InOrder, Coherent
<1> QED
  BY <1>1, <1>2, <1>3 DEF Shutdown

-----------------------------------------------------------------------------

(* Every request begins as it should. *)
LEMMA InitInvariant == Init => IInv
<1> SUFFICES ASSUME Init PROVE IInv
  OBVIOUS
<1>1. request \in [Requests -> Request]
  BY DEF Init, Request
<1>2. \A r \in Requests : Coherent(request[r])
  BY DEF Init, Coherent
<1>3. Cardinality(Leased) <= MaxConcurrent
  <2>1. Leased = {}
    BY DEF Init, Leased
  <2> QED
    BY <2>1, CostAssumption, FS_EmptySet
<1>4. Retained <= Available
  <2> DEFINE f == [r \in Requests |-> request[r].lease]
  <2>1. f \in [Requests -> Nat] /\ \A r \in Requests : f[r] = 0
    BY DEF Init
  <2>2. SumFunction(f) = 0
    <3> HIDE DEF f
    <3> QED
      BY <2>1, CostAssumption, SumVanishes
  <2> QED
    BY <2>2, CostAssumption DEF Retained
<1> QED
  BY <1>1, <1>2, <1>3, <1>4 DEF Init, IInv, TypeOK, QuietAfterStop

(* Every step keeps the invariant and the order of the ledger's calls. *)
LEMMA NextInvariant == IInv /\ [Next]_vars => IInv' /\ [Disciplined]_vars
<1> SUFFICES ASSUME IInv, [Next]_vars PROVE IInv' /\ [Disciplined]_vars
  OBVIOUS
<1>1. CASE Next
  <2>1. CASE Shutdown
    BY <2>1, ShutdownInvariant
  <2>2. CASE \E r \in Requests : Prepare(r) \/ Relay(r) \/ Event(r)
    BY <2>2, PrepareInvariant, RelayInvariant, EventInvariant
  <2> QED
    BY <1>1, <2>1, <2>2 DEF Next
<1>2. CASE UNCHANGED vars
  BY <1>2, AdmissionUntouched DEF vars, IInv, TypeOK, QuietAfterStop, Sessions, Coherent
<1> QED
  BY <1>1, <1>2

(* The phases of each request fit, and no session outlives a stop.         *)
THEOREM Inductive == Spec => []IInv
  BY InitInvariant, NextInvariant, PTL DEF Spec

(* The leases never exceed the number of sessions nor the bytes admission  *)
(* was configured with, whatever is priced, refused and given back.        *)
THEOREM AdmissionIsLimited == Spec => []TypeOK
<1>1. IInv => TypeOK
  BY DEF IInv
<1> QED
  BY <1>1, Inductive, PTL

(* When a whole reply is handed to the socket, the ledger already holds    *)
(* its observation or has poisoned the position.                           *)
THEOREM PublishesFirst == Spec => []ReplyIsPublished
<1>1. IInv => ReplyIsPublished
  BY DEF IInv, TypeOK, ReplyIsPublished, Sessions, Coherent, Request
<1> QED
  BY <1>1, Inductive, PTL

(* An intent is closed without a mark only for a reply that left whole.    *)
THEOREM ResolvesDelivered == Spec => []ResolvedWasDelivered
<1>1. IInv => ResolvedWasDelivered
  BY DEF IInv, TypeOK, ResolvedWasDelivered, Sessions, Coherent, Request
<1> QED
  BY <1>1, Inductive, PTL

(* A request that is over leaves its intent settled, unless a ledger call  *)
(* threw.                                                                  *)
THEOREM SettlesIntents == Spec => []IntentSettled
<1>1. IInv => IntentSettled
  BY DEF IInv, TypeOK, IntentSettled, Sessions, Coherent
<1> QED
  BY <1>1, Inductive, PTL

(* Admission is held exactly as long as the request may use its memory.    *)
THEOREM HoldsAdmission == Spec => []LeaseCoversWork
<1>1. IInv => LeaseCoversWork
  BY DEF IInv, TypeOK, LeaseCoversWork, Sessions, Coherent
<1> QED
  BY <1>1, Inductive, PTL

(* From a stop on no session is left that could call the ledger.           *)
THEOREM QuietOnceStopped == Spec => []QuietAfterStop
<1>1. IInv => QuietAfterStop
  BY DEF IInv, TypeOK
<1> QED
  BY <1>1, Inductive, PTL

(* Each intent is observed at most once, before it is resolved, and a      *)
(* settled one is never touched again.                                     *)
THEOREM KeepsOrder == Spec => IntentDiscipline
<1>1. IInv /\ [Next]_vars => [\A r \in Sessions :
        \/ request'[r].intent = request[r].intent
        \/ /\ request[r].intent = "dispatch"
           /\ request'[r].intent \in {"delivery", "poisoned"}
        \/ /\ request[r].intent = "delivery"
           /\ request'[r].intent \in {"resolved", "poisoned"}]_vars
  BY NextInvariant DEF Disciplined, InOrder
<1> QED
  BY <1>1, Inductive, PTL DEF Spec, IntentDiscipline

=============================================================================
