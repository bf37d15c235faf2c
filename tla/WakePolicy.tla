---------------------------- MODULE WakePolicy ----------------------------
(***************************************************************************)
(* When the agent is woken: domain/policy.py (which event wakes it),       *)
(* domain/guidance.py (what the agent may teach that choice) and           *)
(* domain/lifecycle.py (when the next review is due).  No state.           *)
(*                                                                         *)
(* Times and intervals are whole ticks; an interval of 0 is an absent one. *)
(***************************************************************************)
EXTENDS EventRules, Sequences

CONSTANTS Minimum, Default, Maximum,  \* wake_profile
          PrioritizeSpeed, EscalateDelays, CustomerReview,  \* the template's defaults
          MaximumAge                  \* maximum_age_at

ASSUME ProfileAssumption ==
    /\ {Minimum, Default, Maximum, MaximumAge} \subseteq Nat \ {0}
    /\ Minimum <= Default /\ Default <= Maximum

ASSUME TemplateAssumption == {PrioritizeSpeed, EscalateDelays, CustomerReview} \subseteq BOOLEAN

(* PolicyChanges of an instruction.  One that carries none, and one that    *)
(* carries only unset controls, are the same to effective_policy.           *)
Stances == {"unset", "on", "off"}

Instruction == [speed : Stances, escalate : Stances, review : Stances]

Policy == [prioritize_speed : BOOLEAN, escalate_shipment_delays : BOOLEAN,
           require_customer_review : BOOLEAN]

(* Where the instructions in force state the control, in order.             *)
Stated(instructions, control) ==
    {i \in DOMAIN instructions : instructions[i][control] # "unset"}

LastStated(instructions, control, template) ==
    LET stated == Stated(instructions, control) IN
    IF stated = {} THEN template ELSE instructions[Largest(stated)][control] = "on"

(* Mutant of effective_policy: silence about the customer is permission.    *)
effective_policy_literal(instructions) ==
    [prioritize_speed |-> LastStated(instructions, "speed", PrioritizeSpeed),
     escalate_shipment_delays |-> LastStated(instructions, "escalate", EscalateDelays),
     require_customer_review |-> LastStated(instructions, "review", CustomerReview)]

(* An instruction that says nothing about customer contact asks for review  *)
(* until some instruction in force says otherwise.                          *)
effective_policy(instructions) ==
    [prioritize_speed |-> LastStated(instructions, "speed", PrioritizeSpeed),
     escalate_shipment_delays |-> LastStated(instructions, "escalate", EscalateDelays),
     require_customer_review |->
         \/ LastStated(instructions, "review", CustomerReview)
         \/ (instructions # <<>> /\ Stated(instructions, "review") = {})]

---------------------------------------------------------------------------
(* WakeHint: watch_for_progress and shorten_review name an issue, the first *)
(* with an event type and the second with an interval; defer_routine names  *)
(* an event type alone.                                                     *)
NoIssue == "no issue"

WakeHint == [kind : {"watch_for_progress", "shorten_review", "defer_routine"},
             expires_at : Moments, issue : IssueIds \cup {NoIssue},
             event_type : KnownTypes \cup {NoReference}, after : Nat]

WakeGuidance == [epoch : Nat, hints : SUBSET WakeHint]

NoGuidance == [epoch |-> 0, hints |-> {}]

DEFERRABLE_EVENTS == {"shipment_created", "payment_confirmed"}

ServesOpenIssue(hint, facts) == hint.issue = NoIssue \/ has_issue(facts, hint.issue)

(* guidance.check for one hint.  A mandatory event is not a deferrable one, *)
(* so the two other refusals of defer_routine add nothing; and the context  *)
(* of the hints is never another one than the decision's, from which the    *)
(* activity fills it in.                                                    *)
Acceptable(hint, facts, now) ==
    /\ now < hint.expires_at
    /\ hint.expires_at <= MaximumAge
    /\ ServesOpenIssue(hint, facts)
    /\ hint.kind = "shorten_review" => hint.after \in Minimum..Maximum
    /\ hint.kind = "defer_routine" => hint.event_type \in DEFERRABLE_EVENTS

check(hints, facts, now) == {h \in hints : Acceptable(h, facts, now)}

(* Mutant of active: a hint outlives its moment.                            *)
active_for_good(guidance, facts, epoch, now) ==
    IF guidance.epoch # epoch THEN {}
    ELSE {h \in guidance.hints : ServesOpenIssue(h, facts)}

(* Reconsidered rather than remembered.                                     *)
active(guidance, facts, epoch, now) ==
    IF guidance.epoch # epoch THEN {}
    ELSE {h \in guidance.hints : now < h.expires_at /\ ServesOpenIssue(h, facts)}

Hinted(hints, kind, type) == \E h \in hints : h.kind = kind /\ h.event_type = type

---------------------------------------------------------------------------
Verdicts == {"wake_now", "deferred", "review_required"}

Verdict(outcome, wake) == [outcome |-> outcome, wake |-> wake]

(* classify: what is not open to influence first, then the agent's hints.   *)
classify(outcome, instructions, type, hints) ==
    IF outcome.terminal THEN Verdict("wake_now", FALSE)
    ELSE IF outcome.review_required THEN Verdict("review_required", TRUE)
    ELSE IF \/ /\ type = "shipment_delayed"
               /\ effective_policy(instructions).escalate_shipment_delays
            \/ Hinted(hints, "watch_for_progress", type)
    THEN Verdict("wake_now", TRUE)
    ELSE IF outcome.facts.issues = <<>> /\ Hinted(hints, "defer_routine", type)
    THEN Verdict("deferred", FALSE)
    ELSE IF outcome.important THEN Verdict("wake_now", TRUE)
    ELSE Verdict("deferred", FALSE)

---------------------------------------------------------------------------
Smaller(a, b) == IF a <= b THEN a ELSE b

Larger(a, b) == IF a <= b THEN b ELSE a

(* shortened_review: the intervals that live hints ask for.                 *)
Shortenings(hints) == {h.after : h \in {i \in hints : i.kind = "shorten_review"}}

Shortest(hints, horizon) ==
    CHOOSE n \in Shortenings(hints) \cup {horizon} :
        \A m \in Shortenings(hints) \cup {horizon} : n <= m

(* Mutant of Ceiling: an instruction's haste is forgotten.                  *)
CeilingUnhurried(policy, hints) == Shortest(hints, Maximum)

Ceiling(policy, hints) ==
    Shortest(hints, IF policy.prioritize_speed THEN Default ELSE Maximum)

(* What stands in for a request out of range.                               *)
Fallback(policy, hints) ==
    LET usual == IF policy.prioritize_speed THEN Larger(Minimum, Default \div 2) ELSE Default
    IN  Smaller(usual, Larger(Shortest(hints, Maximum), Minimum))

(* Mutant of effective_wake: the age deadline is forgotten.                 *)
effective_wake_ageless(requested, policy, hints, now) ==
    now + (IF requested \in Minimum..Ceiling(policy, hints)
           THEN requested ELSE Fallback(policy, hints))

(* The next review: as requested when that is in range, never past the age. *)
effective_wake(requested, policy, hints, now) ==
    LET interval == IF requested \in Minimum..Ceiling(policy, hints)
                    THEN requested ELSE Fallback(policy, hints)
    IN  Smaller(now + interval, MaximumAge)
=============================================================================
