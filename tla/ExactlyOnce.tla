---------------------------- MODULE ExactlyOnce ----------------------------
(***************************************************************************)
(* What the write boundary promises the workflow, with no database in it:  *)
(* operations 1, 2, 3, ... are recorded in that order, each exactly once,  *)
(* and the next one starts only after the workflow holds the receipt of    *)
(* the last.  TransitionLog is shown to implement this module.             *)
(***************************************************************************)
EXTENDS Naturals, Sequences

VARIABLES recorded,   \* the operations recorded so far, with their outcomes
          confirmed   \* how many of them the workflow holds a receipt for

Outcomes == {"applied", "duplicate"}

Init == recorded = <<>> /\ confirmed = 0

Record(outcome) ==
    /\ Len(recorded) = confirmed
    /\ recorded' = Append(recorded, [operation |-> confirmed + 1, outcome |-> outcome])
    /\ UNCHANGED confirmed

Confirm ==
    /\ confirmed < Len(recorded)
    /\ confirmed' = confirmed + 1
    /\ UNCHANGED recorded

Next == Confirm \/ \E outcome \in Outcomes : Record(outcome)

Spec == Init /\ [][Next]_<<recorded, confirmed>>
=============================================================================
