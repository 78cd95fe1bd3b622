------------------------------- MODULE SseWriter -------------------------------
(***************************************************************************)
(* The writer of one event stream.  Its owner writes the frames of the     *)
(* reply one by one and awaits each; a timer writes keepalives in between, *)
(* until the owner stops it before the terminal frames.  A write that      *)
(* fills the socket's buffer is awaited until the socket drains, closes,   *)
(* fails or a timeout destroys the response.                               *)
(*                                                                         *)
(* A write the socket takes at once is over within the turn it started in. *)
(***************************************************************************)
EXTENDS Naturals

CONSTANT Frames \* bound: frames the owner has to write, the last is terminal

ASSUME FramesAssumption == Frames \in Nat \ {0}

VARIABLES
  frames,    \* frames the owner has still to write
  main,      \* the owner's write: none, waiting for a heartbeat, blocked, failed
  heartbeat, \* the keepalive: none or blocked
  stopped,
  timer,     \* the keepalive timer is armed
  failure,   \* failure is set
  reports,   \* how often onError was called
  response,  \* clogged: the last write awaits a drain; destroyed: it is not yet
             \* known to its listeners; ended by its owner, or closed
  last       \* history: what was submitted to the socket last

swVars == <<frames, main, heartbeat, stopped, timer, failure, reports, response, last>>

-----------------------------------------------------------------------------

Disconnected == response \in {"destroyed", "ended", "closed"}

Stopped == stopped' = TRUE /\ timer' = FALSE

(* fail is called once or several times for the same cause.  The first     *)
(* call stops the keepalives and reports the error, which aborts the       *)
(* request and destroys the response.                                      *)
ReportsEach(calls) == reports + calls

Reports(calls) == IF failure THEN reports ELSE reports + 1

Fail(calls) ==
  /\ failure' = TRUE
  /\ Stopped
  /\ reports' = Reports(calls)

Destroyed == response' = IF response = "closed" THEN response ELSE "destroyed"

BeatScheduledAlways == timer' = TRUE

BeatScheduled == timer' = ~stopped

(* publish: the next keepalive is scheduled before the frame is submitted; *)
(* the socket takes it, or clogs.                                          *)
Submit(what, clogs) ==
  /\ last' = what
  /\ BeatScheduled
  /\ response' = IF clogs THEN "clogged" ELSE "flowing"
  /\ UNCHANGED <<stopped, failure, reports>>

(* The owner's write of a frame, its wait for a heartbeat behind it. *)
Publish(clogs) ==
  IF Disconnected
  THEN Fail(1) /\ Destroyed /\ main' = "failed" /\ UNCHANGED <<frames, last>>
  ELSE /\ Submit("frame", clogs)
       /\ main' = IF clogs THEN "blocked" ELSE "none"
       /\ frames' = frames - 1

-----------------------------------------------------------------------------
(* The owner, streamConverted.                                             *)

WriteWithoutWaiting(clogs) ==
  /\ main = "none" /\ frames > 0
  /\ frames = 1 => stopped
  /\ IF failure
     THEN main' = "failed" /\ UNCHANGED <<frames, stopped, timer, failure, reports, response, last>>
     ELSE Publish(clogs)
  /\ UNCHANGED heartbeat

Write(clogs) ==
  /\ main = "none" /\ frames > 0
  /\ frames = 1 => stopped
  /\ IF failure
     THEN main' = "failed" /\ UNCHANGED <<frames, stopped, timer, failure, reports, response, last>>
     ELSE IF heartbeat = "blocked"
     THEN main' = "waiting" /\ UNCHANGED <<frames, stopped, timer, failure, reports, response, last>>
     ELSE Publish(clogs)
  /\ UNCHANGED heartbeat

(* Before the terminal frames, or when the upstream fails. *)
OwnerStops ==
  /\ main = "none"
  /\ ~stopped
  /\ Stopped
  /\ UNCHANGED <<frames, main, heartbeat, failure, reports, response, last>>

(* The reply is complete. *)
End ==
  /\ main = "none" /\ frames = 0 /\ response = "flowing"
  /\ response' = "ended"
  /\ UNCHANGED <<frames, main, heartbeat, stopped, timer, failure, reports, last>>

-----------------------------------------------------------------------------
(* The keepalive timer.  It is armed anew, and nothing else happens, while *)
(* a write is under way, bytes are buffered, or the stream is not yet idle *)
(* for long enough.                                                        *)

TickFindsEnd ==
  /\ timer
  /\ Disconnected
  /\ Stopped
  /\ UNCHANGED <<frames, main, heartbeat, failure, reports, response, last>>

Beat(clogs) ==
  /\ timer
  /\ main = "none" /\ heartbeat = "none"
  /\ response = "flowing"
  /\ Submit("keepalive", clogs)
  /\ heartbeat' = IF clogs THEN "blocked" ELSE "none"
  /\ UNCHANGED <<frames, main>>

-----------------------------------------------------------------------------
(* The socket.                                                             *)

(* A write that waited for the heartbeat goes on in the same turn, and may *)
(* clog the socket again.                                                  *)
Drain(clogs) ==
  /\ response = "clogged"
  /\ heartbeat' = "none"
  /\ IF main = "waiting" THEN Publish(clogs)
     ELSE /\ main' = "none"
          /\ response' = "flowing"
          /\ UNCHANGED <<frames, stopped, timer, failure, reports, last>>

Blocked == main = "blocked" \/ heartbeat = "blocked"

(* A blocked write rejects.  Its own catch and that of a write that waits  *)
(* behind it both fail the writer.                                         *)
RejectsBlocked ==
  /\ heartbeat' = "none"
  /\ main' = IF main = "blocked" THEN "failed" ELSE main
  /\ UNCHANGED <<frames, last>>

Rejected ==
  /\ heartbeat' = "none"
  /\ main' = IF main \in {"waiting", "blocked"} THEN "failed" ELSE main
  /\ UNCHANGED <<frames, last>>

Rejections == (IF Blocked THEN 1 ELSE 0) + (IF main = "waiting" THEN 1 ELSE 0)

WriteTimesOut ==
  /\ Blocked
  /\ Fail(Rejections)
  /\ Destroyed
  /\ Rejected

(* A watchdog of the request destroys the response; the close event is     *)
(* still to come.                                                          *)
Destroy ==
  /\ response \in {"flowing", "clogged", "ended"}
  /\ response' = "destroyed"
  /\ UNCHANGED <<frames, main, heartbeat, stopped, timer, failure, reports, last>>

(* The client goes away: the listeners of the response stop the keepalives *)
(* and reject the blocked write.                                           *)
ResponseCloses ==
  /\ response # "closed"
  /\ IF Blocked THEN Fail(Rejections) ELSE Stopped /\ UNCHANGED <<failure, reports>>
  /\ response' = "closed"
  /\ Rejected

(* The socket fails: an error event, unless the writer no longer listens. *)
SocketError ==
  /\ response \notin {"destroyed", "closed"}
  /\ ~stopped \/ Blocked
  /\ Fail(Rejections + IF stopped THEN 0 ELSE 1)
  /\ Destroyed
  /\ Rejected

SWInit ==
  /\ frames = Frames
  /\ main = "none" /\ heartbeat = "none"
  /\ stopped = FALSE /\ timer = TRUE
  /\ failure = FALSE /\ reports = 0
  /\ response = "flowing"
  /\ last = "none"

SWNext ==
  \/ \E clogs \in BOOLEAN : Write(clogs) \/ Beat(clogs) \/ Drain(clogs)
  \/ OwnerStops \/ End
  \/ TickFindsEnd
  \/ WriteTimesOut \/ Destroy \/ ResponseCloses \/ SocketError

SWSpec == SWInit /\ [][SWNext]_swVars

(* A blocked write is given up by its timer, the peer owes nothing. *)
SWFairSpec == SWSpec /\ WF_swVars(WriteTimesOut)

-----------------------------------------------------------------------------

(* Types, and an error is reported at most once, however many writes and   *)
(* events fail because of it.                                              *)
SWTypeOK ==
  /\ frames \in 0..Frames
  /\ main \in {"none", "waiting", "blocked", "failed"}
  /\ heartbeat \in {"none", "blocked"}
  /\ stopped \in BOOLEAN /\ timer \in BOOLEAN /\ failure \in BOOLEAN
  /\ reports \in 0..1
  /\ response \in {"flowing", "clogged", "ended", "destroyed", "closed"}
  /\ last \in {"none", "frame", "keepalive"}

(* One write at a time: a keepalive and a frame of the reply never wait    *)
(* for the same drain, and nothing is written into a clogged socket.       *)
OneWriteAtATime ==
  /\ ~(main = "blocked" /\ heartbeat = "blocked")
  /\ response = "clogged" => Blocked
  /\ response = "flowing" => ~Blocked

(* Nothing is submitted after a failure, and no keepalive after a stop:    *)
(* the terminal frames are the last thing a client reads.                  *)
NothingAfterTheEnd ==
  [][(failure => UNCHANGED last) /\ (stopped => last' = last \/ last' # "keepalive")]_swVars

(* Inductive: the timer is armed until the writer is stopped, a failure    *)
(* stops it and is reported once, and a frame waits only behind a blocked  *)
(* keepalive.                                                              *)
SWInv ==
  /\ SWTypeOK
  /\ OneWriteAtATime
  /\ timer <=> ~stopped
  /\ reports = 1 <=> failure
  /\ failure => stopped /\ main # "waiting"
  /\ main = "waiting" => heartbeat = "blocked" /\ frames > 0

(* The owner never hangs in a write: a silent client cannot hold it.       *)
WriteSettles == main \in {"waiting", "blocked"} ~> main \in {"none", "failed"}

=============================================================================
