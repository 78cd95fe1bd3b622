--------------------------- MODULE ProgressDeadline ---------------------------
(***************************************************************************)
(* The watchdog of one dispatched generation: an idle deadline that the    *)
(* upstream's progress renews, then one fixed deadline for the delivery of *)
(* the reply.  Time is counted relative to the present: the deadline and   *)
(* the armed timer come nearer with every tick of the monotonic clock.     *)
(* Timers are not exact.  They may run early, because the clock that       *)
(* schedules them is not the one the deadline is read from, and late,      *)
(* because the event loop is busy; progress may arrive in between.         *)
(*                                                                         *)
(* Each new revision cancels the armed timer, and a cancelled timer never  *)
(* runs: the armed timer always carries the current revision.              *)
(***************************************************************************)
EXTENDS Integers

CONSTANTS
  IdleTimeout,     \* idleTimeoutMs
  DeliveryTimeout, \* deliveryTimeoutMs
  Early,           \* a timer may run this long before it is due
  Late             \* bound: a timer runs at most this long after it is due

ASSUME DurationAssumption ==
  /\ IdleTimeout \in Nat \ {0} /\ DeliveryTimeout \in Nat \ {0}
  /\ Early \in Nat /\ Late \in Nat

VARIABLES
  phase,     \* currentPhase
  active,
  remaining, \* expiresAt minus the present time
  armed,     \* handle is set
  due,       \* time until the armed timer is due
  elapsed,   \* history: time since the constructor or the last renewal
  expired    \* history: how often onExpire was called

vars == <<phase, active, remaining, armed, due, elapsed, expired>>

-----------------------------------------------------------------------------

Scheduled(ms) ==
  /\ armed' = TRUE
  /\ due' = ms

(* The callback is invoked after the watchdog was disposed of, so that an  *)
(* abort it causes finds nothing left to dispose of.                       *)
Expire ==
  /\ active' = FALSE
  /\ armed' = FALSE
  /\ expired' = expired + 1
  /\ UNCHANGED <<phase, remaining, due, elapsed>>

CheckOnce ==
  IF remaining > 0
  THEN /\ armed' = FALSE
       /\ UNCHANGED <<phase, active, remaining, due, elapsed, expired>>
  ELSE Expire

CheckTrustingTimer == Expire

Check ==
  IF remaining > 0
  THEN /\ Scheduled(remaining)
       /\ UNCHANGED <<phase, active, remaining, elapsed, expired>>
  ELSE Expire

Renew(ms) ==
  /\ Scheduled(ms)
  /\ remaining' = ms
  /\ elapsed' = 0
  /\ UNCHANGED <<active, expired>>

(* Progress, or the end of the generation, that is noticed when its        *)
(* deadline has passed expires it although the timer has not run yet.      *)
ProgressInAnyPhase ==
  /\ active
  /\ IF remaining <= 0 THEN Check ELSE Renew(IdleTimeout) /\ UNCHANGED phase

Progress ==
  /\ active /\ phase = "generation"
  /\ IF remaining <= 0 THEN Check ELSE Renew(IdleTimeout) /\ UNCHANGED phase

BeginDelivery ==
  /\ active /\ phase = "generation"
  /\ IF remaining <= 0 THEN Check ELSE Renew(DeliveryTimeout) /\ phase' = "delivery"

Dispose ==
  /\ active
  /\ active' = FALSE
  /\ armed' = FALSE
  /\ UNCHANGED <<phase, remaining, due, elapsed, expired>>

Fire ==
  /\ armed /\ due <= Early
  /\ Check

(* One tick of the clock.  A timer waits no longer than Late. *)
Tick ==
  /\ active
  /\ armed => due > -Late
  /\ remaining' = remaining - 1
  /\ due' = due - 1
  /\ elapsed' = elapsed + 1
  /\ UNCHANGED <<phase, active, armed, expired>>

Init ==
  /\ phase = "generation"
  /\ active = TRUE
  /\ remaining = IdleTimeout /\ due = IdleTimeout
  /\ armed = TRUE
  /\ elapsed = 0
  /\ expired = 0

Next == Progress \/ BeginDelivery \/ Dispose \/ Fire \/ Tick

Spec == Init /\ [][Next]_vars

(* Time passes and timers run; nobody has to make progress. *)
FairSpec == Spec /\ WF_vars(Tick) /\ WF_vars(Fire)

-----------------------------------------------------------------------------

Limit == IF phase = "generation" THEN IdleTimeout ELSE DeliveryTimeout

(* Types, and the watchdog expires at most once: its owner's abort and the *)
(* client's connection are not torn down a second time.                    *)
TypeOK ==
  /\ phase \in {"generation", "delivery"}
  /\ active \in BOOLEAN /\ armed \in BOOLEAN
  /\ remaining \in Int /\ due \in Int
  /\ elapsed \in Nat
  /\ expired \in 0..1

(* No generation is aborted early: it expires only after a full idle       *)
(* timeout without progress, or a full delivery timeout after its end,     *)
(* however early the timer ran.                                            *)
NeverEarly == expired > 0 => elapsed >= Limit

(* No generation is forgotten: one that neither ends nor makes progress    *)
(* outlives its deadline by no more than the lateness of one timer,        *)
(* whatever renewals and early timers came before.                         *)
NeverForgotten == active => elapsed <= Limit + Late

(* Once delivery began nothing postpones its deadline, late progress of    *)
(* the upstream included.                                                  *)
DeliveryIsFixed == [][phase = "delivery" => phase' = phase /\ remaining' <= remaining]_vars

(* Delivery ends: by its finish, by an abort, or by the deadline. *)
DeliveryEnds == phase = "delivery" ~> ~active

=============================================================================
