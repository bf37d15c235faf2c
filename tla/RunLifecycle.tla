---------------------------- MODULE RunLifecycle ----------------------------
(***************************************************************************)
(* What the recorded life of one order promises an operator, whatever is   *)
(* delivered and in whatever order: a held run stays held until it is      *)
(* resumed or closed, a cause of closure is fixed once and nothing is      *)
(* decided or done after it, and the run closes under that cause.          *)
(* OrderSupervisor is shown to implement this module.                      *)
(***************************************************************************)
EXTENDS Naturals

VARIABLES status,   \* RunStatus
          cause,    \* why the run closes, once it is known
          effects   \* business actions on record

vars == <<status, cause, effects>>

Closes == [delivered |-> "completed", manually_terminated |-> "terminated",
           maximum_age_reached |-> "expired"]

Init == status = "starting" /\ cause = "none" /\ effects = 0

Move(from, to) ==
    /\ cause = "none"
    /\ status \in from
    /\ status' = to
    /\ UNCHANGED cause

Start == Move({"starting"}, "evaluating") /\ UNCHANGED effects

Review == Move({"sleeping"}, "evaluating") /\ UNCHANGED effects

Sleep == Move({"evaluating"}, "sleeping") /\ effects' \in {effects, effects + 1}

Hold == Move({"evaluating", "sleeping", "awaiting_recovery"}, "paused") /\ UNCHANGED effects

Resume == Move({"paused", "awaiting_recovery"}, "evaluating") /\ UNCHANGED effects

Fail == Move({"evaluating"}, "awaiting_recovery") /\ UNCHANGED effects

(* An approved message leaves a run that is neither held nor closing.       *)
Release ==
    /\ cause = "none"
    /\ status \in {"evaluating", "sleeping"}
    /\ effects' = effects + 1
    /\ UNCHANGED <<status, cause>>

Latch(reason) == cause = "none" /\ cause' = reason /\ UNCHANGED <<status, effects>>

Finalize ==
    /\ cause # "none"
    /\ status \in {"evaluating", "sleeping", "paused", "awaiting_recovery"}
    /\ status' = "finalizing"
    /\ UNCHANGED <<cause, effects>>

Close ==
    /\ status = "finalizing"
    /\ status' = Closes[cause]
    /\ UNCHANGED <<cause, effects>>

Next ==
    \/ Start \/ Review \/ Sleep \/ Hold \/ Resume \/ Fail \/ Release
    \/ \E reason \in DOMAIN Closes : Latch(reason)
    \/ Finalize \/ Close

Spec == Init /\ [][Next]_vars
=============================================================================
