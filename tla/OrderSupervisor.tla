-------------------------- MODULE OrderSupervisor --------------------------
(***************************************************************************)
(* The Temporal workflow of one order: workflows/order.py.                 *)
(*                                                                         *)
(* The workflow is one coroutine.  A step of this module runs it from one  *)
(* await to the next, or over part of that way; signals arrive and time    *)
(* passes only while it is suspended.  Every change of the recorded        *)
(* snapshot goes through _commit: the candidate is sent, and it becomes    *)
(* the snapshot when the receipt says it was applied.  TransitionLog is    *)
(* what happens between the two; here a receipt is one step.               *)
(***************************************************************************)
EXTENDS Naturals, Sequences, FiniteSets

CONSTANTS Commands,         \* what the API may signal: [id, kind, about]
          MaxCopies,        \* bound: deliveries of one command
          MaxDeliveries,    \* bound: deliveries in all
          MaxScheduled,     \* bound: no scheduled review after this many reviews
          MaxRollovers,     \* bound: continuations of the workflow's history
          MaxAttempts,      \* MAX_DECISION_ATTEMPTS
          MaxStaleDiscards, \* MAX_STALE_DISCARDS
          MaxLateRounds,    \* MAX_LATE_DRAIN_ROUNDS
          LateBatch         \* commands answered per late round

(* An important event is material and wakes a review, progress is material  *)
(* only, routine is neither, delivered is material and ends the run.        *)
EventKinds == {"important", "progress", "routine", "delivered"}

Holds == {"pause", "terminate"}

(* Approve with other content than the draft's is "edited".                 *)
ReviewKinds == {"approve", "reject", "edited"}

Kinds == EventKinds \cup Holds \cup ReviewKinds \cup {"instruction", "resume"}

(* "about" is the event's identity, or the number of the draft under review *)
ASSUME CommandsAssumption ==
    /\ IsFiniteSet(Commands)
    /\ Commands \subseteq [id : Nat, kind : Kinds, about : Nat]
    /\ \A c, d \in Commands : c.id = d.id => c = d

ASSUME BoundsAssumption ==
    /\ {MaxCopies, MaxDeliveries, MaxScheduled, MaxRollovers} \subseteq Nat
    /\ {MaxAttempts, MaxStaleDiscards, MaxLateRounds, LateBatch} \subseteq Nat \ {0}

Reasons == {"delivered", "manually_terminated", "maximum_age_reached"}

CLOSED_STATUS == [r \in Reasons |->
    CASE r = "delivered" -> "completed"
      [] r = "manually_terminated" -> "terminated"
      [] r = "maximum_age_reached" -> "expired"]

Statuses == {"starting", "evaluating", "sleeping", "paused", "awaiting_recovery",
             "finalizing", "completed", "terminated", "expired"}

(* The part of RunSnapshot that steers the workflow.                        *)
Draft == [number : Nat, decision : Nat, context : Nat,
          status : {"none", "pending", "approved", "rejected", "outdated"}]

NoDraft == [number |-> 0, decision |-> 0, context |-> 0, status |-> "none"]

Snapshot == [status : Statuses, pending_control : BOOLEAN, context_version : Nat,
             control_epoch : Nat, pending_review : Draft, execution_generation : Nat]

(* Business identities an entry may claim, see transition._claim.           *)
Identities(c) ==
    {<<"command", c.id>>} \cup
    (IF c.kind \in EventKinds THEN {<<"event", c.about>>} ELSE {})

CreationEvent == <<"event", 0>>

Proposals == {"wait", "act", "draft"}

Operations == {"none", "start", "generation", "event", "instruction", "record", "pausing",
               "pause", "resume", "terminate", "approve", "reject", "outdate", "send",
               "evaluate", "discard", "stale", "recover", "decide", "memory", "sleep",
               "prepare", "finalize", "close", "late"}

Draining == {"drain", "redrain", "handover"}

Suspended == {"boot", "commit", "evidence", "thinking", "report", "wait"}

Points == Draining \cup Suspended \cup
    {"loop", "hold", "draft", "gate", "judge", "recover", "memory", "settle", "roll",
     "finalize", "late", "done"}

VARIABLES pc,               \* where the coroutine stands
          inbox,            \* _inbox
          latches,          \* _latches: none, held, or held during an effect
          terminal_pending, \* _terminal_pending
          trigger,          \* _trigger is set
          closure,          \* _closure's reason
          counters,         \* _decisions, _drafts, _stale_discards and late rounds
          review,           \* the review under way: its stamp, attempt and proposal
          pending,          \* _pending_operation and what follows its receipt
          snapshot,         \* _snapshot, equal to the recorded one
          claimed,          \* identities the log has recorded
          clock,            \* which deadlines have passed
          carry,            \* what continue_as_new hands to the next execution
          history           \* what happened, for the properties only

signals == <<inbox, latches, terminal_pending>>
memory == <<trigger, closure, counters, review, carry>>
record == <<snapshot, claimed, history>>

vars == <<pc, signals, memory, pending, record, clock>>

---------------------------------------------------------------------------
NoHolds == [c \in Commands |-> "none"]

Fresh == [status |-> "starting", pending_control |-> FALSE, context_version |-> 0,
          control_epoch |-> 0, pending_review |-> NoDraft, execution_generation |-> 0]

Nothing == [op |-> "none", candidate |-> Fresh, keys |-> {}, answers |-> <<>>,
            next |-> "loop"]

NoReview == [context |-> 0, epoch |-> 0, attempt |-> 0, proposal |-> "wait"]

Latched == \E c \in Commands : latches[c] # "none"

(* _can_decide, on the snapshot a receipt leaves, and _can_act.             *)
CanDecide(s) ==
    /\ closure = "none"
    /\ ~Latched
    /\ s.status \notin {"paused", "awaiting_recovery", "finalizing"}

CanAct == CanDecide(snapshot) /\ ~snapshot.pending_control

(* What _await_decision waits for besides the decision.                     *)
Interrupted == Latched \/ terminal_pending \/ clock.aged

(* Mutant of Stale: a draft is good in any context.                         *)
NeverStale(draft) == FALSE

Stale(draft) == draft.context # snapshot.context_version

LiveDraft(draft) == draft.status \in {"pending", "approved"}

(* _observe_age and _latch_closure: the first cause fixes the reason.       *)
Observed == IF closure = "none" /\ clock.aged THEN "maximum_age_reached" ELSE closure

Init ==
    /\ pc = "boot"
    /\ inbox = <<>>
    /\ latches = NoHolds
    /\ terminal_pending = FALSE
    /\ trigger = FALSE
    /\ closure = "none"
    /\ counters = [decisions |-> 0, drafts |-> 0, stale_discards |-> 0, late_rounds |-> 0]
    /\ review = NoReview
    /\ pending = Nothing
    /\ snapshot = Fresh
    /\ claimed = {}
    /\ clock = [aged |-> FALSE, wake |-> FALSE]
    /\ carry = [inbox |-> <<>>, latches |-> NoHolds, terminal_pending |-> FALSE]
    /\ history = [delivered |-> [c \in Commands |-> 0], answered |-> [c \in Commands |-> 0],
                  arrivals |-> 0, approved |-> {}, messages |-> <<>>, effects |-> 0]

---------------------------------------------------------------------------
(* While the coroutine is suspended: signals and time.  A client that got   *)
(* no answer sends the same command again.                                  *)

Deliver(c) ==
    /\ pc \in Suspended
    /\ history.delivered[c] < MaxCopies
    /\ history.arrivals < MaxDeliveries
    /\ inbox' = Append(inbox, c)
    /\ latches' = IF c.kind \notin Holds THEN latches
                  ELSE [latches EXCEPT ![c] = IF pc = "commit" THEN "during" ELSE "held"]
    /\ terminal_pending' = (terminal_pending \/ c.kind = "delivered")
    /\ history' = [history EXCEPT !.delivered[c] = @ + 1, !.arrivals = @ + 1]
    /\ UNCHANGED <<pc, memory, pending, snapshot, claimed, clock>>

Age ==
    /\ pc \in Suspended
    /\ ~clock.aged
    /\ clock' = [clock EXCEPT !.aged = TRUE]
    /\ UNCHANGED <<pc, signals, memory, pending, record>>

(* The deadline of the next review passes; it is read only while sleeping.  *)
ReviewFallsDue ==
    /\ pc \in Suspended
    /\ snapshot.status = "sleeping"
    /\ ~clock.wake
    /\ counters.decisions < MaxScheduled
    /\ clock' = [clock EXCEPT !.wake = TRUE]
    /\ UNCHANGED <<pc, signals, memory, pending, record>>

---------------------------------------------------------------------------
(* _commit.                                                                 *)

Commit(op, candidate, keys, answers, next) ==
    /\ pc' = "commit"
    /\ pending' = [op |-> op, candidate |-> candidate, keys |-> keys,
                   answers |-> answers, next |-> next]

(* A commit that changes nothing else on its way out.                       *)
Record(op, candidate, keys, next) ==
    /\ Commit(op, candidate, keys, <<>>, next)
    /\ UNCHANGED <<signals, memory, record, clock>>

(* Only a receipt marked applied promotes the candidate.                    *)
Applied == pending.keys \cap claimed = {}

Promoted == IF Applied THEN pending.candidate ELSE snapshot

(* What the awaiting handler does with its receipt: events and instructions *)
(* heed "applied", the holds, resume and terminate do not.                  *)
TriggerAfter ==
    CASE pending.op \in {"start", "resume"} -> TRUE
      [] pending.op \in {"pause", "terminate"} -> FALSE
      [] pending.op = "event" /\ Applied /\ pending.answers[1].kind = "important" -> TRUE
      [] pending.op = "instruction" /\ Applied /\ CanDecide(Promoted) -> TRUE
      [] pending.op = "stale" /\ counters.stale_discards < MaxStaleDiscards ->
            trigger \/ CanDecide(Promoted)
      [] OTHER -> trigger

ClosureAfter ==
    IF closure # "none" THEN closure
    ELSE IF pending.op = "terminate" THEN "manually_terminated"
    ELSE IF pending.op = "event" /\ Applied /\ pending.answers[1].kind = "delivered"
    THEN "delivered"
    ELSE closure

ExhaustedByStaleness ==
    pending.op = "stale" /\ counters.stale_discards >= MaxStaleDiscards

HistoryAfter ==
    [history EXCEPT
        !.answered = [c \in Commands |-> @[c] +
            (IF pending.op = "pausing" THEN 0
             ELSE Cardinality({i \in 1..Len(pending.answers) : pending.answers[i] = c}))],
        !.approved = @ \cup (IF pending.op = "approve" /\ Applied
                             THEN {snapshot.pending_review.number} ELSE {}),
        !.messages = IF pending.op = "send" /\ Applied
                     THEN Append(@, [draft |-> snapshot.pending_review.number,
                                     written |-> snapshot.pending_review.context,
                                     sent |-> snapshot.context_version])
                     ELSE @,
        !.effects = @ + (IF \/ pending.op = "send" /\ Applied
                            \/ pending.op = "decide" /\ Applied /\ review.proposal = "act"
                         THEN 1 ELSE 0)]

Receipt ==
    /\ pc = "commit"
    /\ snapshot' = Promoted
    /\ claimed' = claimed \cup pending.keys
    /\ trigger' = TriggerAfter
    /\ closure' = ClosureAfter
    /\ history' = HistoryAfter
    /\ review' = IF pending.op # "evaluate" THEN review
                 ELSE [review EXCEPT !.context = Promoted.context_version,
                                     !.epoch = Promoted.control_epoch]
    /\ clock' = IF pending.op \in {"decide", "sleep"} THEN [clock EXCEPT !.wake = FALSE] ELSE clock
    /\ counters' = IF ExhaustedByStaleness THEN [counters EXCEPT !.stale_discards = 0] ELSE counters
    /\ pc' = CASE pending.op = "pausing" -> "hold"
               [] ExhaustedByStaleness -> "recover"
               [] OTHER -> pending.next
    /\ pending' = IF pending.op = "pausing" THEN pending ELSE Nothing
    /\ UNCHANGED <<signals, carry>>

---------------------------------------------------------------------------
(* The beginning of an execution.  Signals that came before its first task  *)
(* are already in the inbox when run() starts.                              *)

Initialize ==
    /\ pc = "boot"
    /\ snapshot.status = "starting"
    /\ Record("start", [snapshot EXCEPT !.status = "evaluating"], {CreationEvent}, "loop")

(* Mutant of Restore: the counters start again.                             *)
RestoreRecounting ==
    /\ pc = "boot"
    /\ snapshot.status # "starting"
    /\ inbox' = carry.inbox
    /\ latches' = carry.latches
    /\ terminal_pending' = carry.terminal_pending
    /\ counters' = [counters EXCEPT !.decisions = 0]
    /\ LET generation == snapshot.execution_generation + 1 IN
       Commit("generation", [snapshot EXCEPT !.execution_generation = generation],
              {<<"generation", generation>>}, <<>>, "loop")
    /\ UNCHANGED <<trigger, closure, review, carry, record, clock>>

(* _restore overwrites the inbox and the latches, _record_generation says   *)
(* which execution this is.                                                 *)
Restore ==
    /\ pc = "boot"
    /\ snapshot.status # "starting"
    /\ inbox' = carry.inbox
    /\ latches' = carry.latches
    /\ terminal_pending' = carry.terminal_pending
    /\ LET generation == snapshot.execution_generation + 1 IN
       Commit("generation", [snapshot EXCEPT !.execution_generation = generation],
              {<<"generation", generation>>}, <<>>, "loop")
    /\ UNCHANGED <<memory, record, clock>>

(* The loop begins again; what _run_decision held is out of scope.          *)
ObserveAge ==
    /\ pc = "loop"
    /\ closure' = Observed
    /\ review' = NoReview
    /\ pc' = "drain"
    /\ UNCHANGED <<signals, trigger, counters, carry, pending, record, clock>>

---------------------------------------------------------------------------
(* _drain_inbox: one queued command after the other, each with its commit.  *)

(* Mutant of Queued: the drain goes on after a closure.                     *)
QueuedAfterClosure(c) ==
    /\ pc \in Draining
    /\ inbox # <<>>
    /\ c = Head(inbox)

Queued(c) ==
    /\ pc \in Draining
    /\ closure = "none"
    /\ inbox # <<>>
    /\ c = Head(inbox)

Take(c, op, candidate, keys) ==
    /\ inbox' = Tail(inbox)
    /\ Commit(op, candidate, keys, <<c>>, pc)
    /\ UNCHANGED <<terminal_pending, memory, record, clock>>

(* _record_only claims no identity, so a redelivery is judged afresh.       *)
RecordOnly(c) == Take(c, "record", snapshot, {})

(* Event rules, policy and the facts they change are one step of the        *)
(* context version: material or not.                                        *)
ApplyEvent(c) ==
    /\ Queued(c)
    /\ c.kind \in EventKinds
    /\ Take(c, "event",
            [snapshot EXCEPT !.context_version = IF c.kind = "routine" THEN @ ELSE @ + 1],
            Identities(c))
    /\ UNCHANGED latches

(* An instruction may name an unknown one or exceed the text capacity.      *)
ApplyInstruction(c) ==
    /\ Queued(c)
    /\ c.kind = "instruction"
    /\ \/ Take(c, "instruction", [snapshot EXCEPT !.context_version = @ + 1], Identities(c))
       \/ RecordOnly(c)
    /\ UNCHANGED latches

Paused == [snapshot EXCEPT !.status = "paused", !.pending_control = FALSE, !.control_epoch = @ + 1]

(* Mutant of ApplyHold: the latch is not retired.                           *)
HoldKeepingLatch(c) ==
    /\ Queued(c)
    /\ c.kind = "pause"
    /\ IF snapshot.status = "paused" THEN RecordOnly(c)
       ELSE Take(c, "pause", Paused, Identities(c))
    /\ UNCHANGED latches

(* A pause that arrived while a transaction was in flight shows as pending  *)
(* first.  Interrupt is handled the same way.                               *)
ApplyHold(c) ==
    /\ Queued(c)
    /\ c.kind = "pause"
    /\ latches' = [latches EXCEPT ![c] = "none"]
    /\ IF snapshot.status = "paused" THEN RecordOnly(c)
       ELSE IF latches[c] = "during"
            THEN Take(c, "pausing", [snapshot EXCEPT !.pending_control = TRUE], {})
            ELSE Take(c, "pause", Paused, Identities(c))

FinishHold ==
    /\ pc = "hold"
    /\ Commit("pause", Paused, Identities(pending.answers[1]), pending.answers, pending.next)
    /\ UNCHANGED <<signals, memory, record, clock>>

ApplyResume(c) ==
    /\ Queued(c)
    /\ c.kind = "resume"
    /\ IF snapshot.status \in {"paused", "awaiting_recovery"}
       THEN Take(c, "resume",
                 [snapshot EXCEPT !.status = "evaluating", !.pending_control = FALSE,
                                  !.control_epoch = @ + 1],
                 Identities(c))
       ELSE RecordOnly(c)
    /\ UNCHANGED latches

ApplyTerminate(c) ==
    /\ Queued(c)
    /\ c.kind = "terminate"
    /\ latches' = [latches EXCEPT ![c] = "none"]
    /\ Take(c, "terminate", [snapshot EXCEPT !.pending_control = FALSE, !.control_epoch = @ + 1],
            Identities(c))

WithDraft(status) == [snapshot EXCEPT !.pending_review.status = status]

(* One exact draft, in the context it was written for.                      *)
ApplyReview(c) ==
    LET draft == snapshot.pending_review
        waiting == /\ draft.status = "pending"
                   /\ draft.number = c.about
                   /\ c.kind # "edited"
    IN  /\ Queued(c)
        /\ c.kind \in ReviewKinds
        /\ IF ~waiting THEN Take(c, "record", snapshot, Identities(c))
           ELSE IF Stale(draft) THEN Take(c, "outdate", WithDraft("outdated"), Identities(c))
           ELSE IF c.kind = "approve" THEN Take(c, "approve", WithDraft("approved"), Identities(c))
           ELSE Take(c, "reject", WithDraft("rejected"), Identities(c))
        /\ UNCHANGED latches

Drained == pc \in Draining /\ (inbox = <<>> \/ closure # "none")

(* Mutant of EndDrain: a closure does not lead to finalization.             *)
EndDrainOpen ==
    /\ Drained
    /\ pc \in {"drain", "redrain"}
    /\ closure' = Observed
    /\ pc' = IF pc = "redrain" THEN "judge" ELSE "draft"
    /\ UNCHANGED <<signals, trigger, counters, review, carry, pending, record, clock>>

(* The age is looked at again after each drain.                             *)
EndDrain ==
    /\ Drained
    /\ pc \in {"drain", "redrain"}
    /\ closure' = Observed
    /\ pc' = IF pc = "redrain" THEN "judge"
             ELSE IF closure' # "none" THEN "finalize" ELSE "draft"
    /\ UNCHANGED <<signals, trigger, counters, review, carry, pending, record, clock>>

---------------------------------------------------------------------------
(* _settle_draft: release an approved draft or let go of an outdated one.   *)

(* Mutant of SettleDraft: approvals are only looked at during a review.     *)
SettleDraftInReview ==
    /\ pc = "draft"
    /\ IF LiveDraft(snapshot.pending_review) /\ Stale(snapshot.pending_review)
       THEN Record("outdate", WithDraft("outdated"), {}, "gate")
       ELSE pc' = "gate" /\ UNCHANGED <<signals, memory, pending, record, clock>>

SettleDraft ==
    LET draft == snapshot.pending_review
        releasable == draft.status = "approved" /\ CanAct
    IN  /\ pc = "draft"
        /\ IF LiveDraft(draft) /\ Stale(draft)
           THEN Record("outdate", WithDraft("outdated"), {}, "gate")
           ELSE IF LiveDraft(draft) /\ releasable
           THEN Record("send",
                       [snapshot EXCEPT !.pending_review = NoDraft, !.context_version = @ + 1],
                       {<<"action", draft.decision>>}, "gate")
           ELSE pc' = "gate" /\ UNCHANGED <<signals, memory, pending, record, clock>>

---------------------------------------------------------------------------
(* _run_decision.                                                           *)

BeginReview ==
    /\ pc = "gate"
    /\ trigger /\ CanDecide(snapshot)
    /\ trigger' = FALSE
    /\ counters' = [counters EXCEPT !.decisions = @ + 1]
    /\ Commit("evaluate", [snapshot EXCEPT !.status = "evaluating"], {}, <<>>, "evidence")
    /\ UNCHANGED <<signals, closure, review, carry, record, clock>>

Discard == Record("discard", snapshot, {}, "loop")

(* _await_decision lets go at once of an attempt that begins interrupted.   *)
Attempt(n) ==
    IF Interrupted THEN Discard
    ELSE /\ pc' = "thinking"
         /\ review' = [review EXCEPT !.attempt = n]
         /\ UNCHANGED <<signals, trigger, closure, counters, carry, pending, record, clock>>

GiveUpReview ==
    /\ pc' = "recover"
    /\ UNCHANGED <<signals, memory, pending, record, clock>>

EvidenceArrives == pc = "evidence" /\ Attempt(1)

EvidenceTooLarge == pc = "evidence" /\ GiveUpReview

(* Mutant of DecisionArrives: judged before the queue is settled.           *)
JudgeUndrained(proposal) ==
    /\ pc = "thinking"
    /\ pc' = "judge"
    /\ review' = [review EXCEPT !.proposal = proposal]
    /\ UNCHANGED <<signals, trigger, closure, counters, carry, pending, record, clock>>

DecisionArrives(proposal) ==
    /\ pc = "thinking"
    /\ pc' = "redrain"
    /\ review' = [review EXCEPT !.proposal = proposal]
    /\ UNCHANGED <<signals, trigger, closure, counters, carry, pending, record, clock>>

(* Mutant of DecisionFails: one attempt too many.                           *)
DecisionFailsOnceMore ==
    /\ pc = "thinking"
    /\ IF review.attempt <= MaxAttempts THEN Attempt(review.attempt + 1) ELSE GiveUpReview

DecisionFails ==
    /\ pc = "thinking"
    /\ IF review.attempt < MaxAttempts THEN Attempt(review.attempt + 1) ELSE GiveUpReview

AbandonReview == pc = "thinking" /\ Interrupted /\ Discard

(* authorize, in the order it looks at things.                              *)
Unauthorized == closure # "none" \/ ~CanAct

ContextMoved ==
    \/ snapshot.context_version # review.context
    \/ snapshot.control_epoch # review.epoch

RefuseDecision ==
    /\ pc = "judge"
    /\ Unauthorized
    /\ counters' = [counters EXCEPT !.stale_discards = 0]
    /\ Commit("discard", snapshot, {}, <<>>, "loop")
    /\ UNCHANGED <<signals, trigger, closure, review, carry, record, clock>>

DiscardStale ==
    /\ pc = "judge"
    /\ ~Unauthorized
    /\ ContextMoved
    /\ counters' = [counters EXCEPT !.stale_discards = @ + 1]
    /\ Commit("stale", snapshot, {}, <<>>, "loop")
    /\ UNCHANGED <<signals, trigger, closure, review, carry, record, clock>>

(* The whole episode is one transition: the conclusions, an action that     *)
(* needs no review, or a draft if none occupies the slot.                   *)
RecordDecision ==
    LET drafts == review.proposal = "draft" /\ ~LiveDraft(snapshot.pending_review)
        acts == review.proposal = "act"
        context == snapshot.context_version + (IF drafts \/ acts THEN 1 ELSE 0)
        number == counters.drafts + 1
        draft == IF drafts
                 THEN [number |-> number, decision |-> counters.decisions,
                       context |-> context, status |-> "pending"]
                 ELSE snapshot.pending_review
    IN  /\ pc = "judge"
        /\ ~Unauthorized
        /\ ~ContextMoved
        /\ counters' = [counters EXCEPT !.stale_discards = 0,
                                        !.drafts = IF drafts THEN number ELSE @]
        /\ Commit("decide",
                  [snapshot EXCEPT !.status = "sleeping", !.context_version = context,
                                   !.pending_review = draft],
                  IF acts THEN {<<"action", counters.decisions>>} ELSE {}, <<>>, "loop")
        /\ UNCHANGED <<signals, trigger, closure, review, carry, record, clock>>

EnterRecovery ==
    /\ pc = "recover"
    /\ Record("recover", [snapshot EXCEPT !.status = "awaiting_recovery"], {}, "loop")

---------------------------------------------------------------------------
(* Nothing to decide: compact the memory when due, record the waiting state *)
(* before waiting, hand over a long history.                                *)

Pass(from, to) ==
    /\ pc = from
    /\ pc' = to
    /\ UNCHANGED <<signals, memory, pending, record, clock>>

SkipReview == ~(trigger /\ CanDecide(snapshot)) /\ Pass("gate", "memory")

SettleMemory == \/ pc = "memory" /\ Record("memory", snapshot, {}, "settle")
                \/ Pass("memory", "settle")

(* Mutant of SettleWaitingState: the waiting state is not recorded.         *)
WaitUnsettled == Pass("settle", "roll")

SettleWaitingState ==
    IF snapshot.status = "evaluating"
    THEN pc = "settle" /\ Record("sleep", [snapshot EXCEPT !.status = "sleeping"], {}, "roll")
    ELSE Pass("settle", "roll")

PrepareRollOver ==
    /\ pc = "roll"
    /\ snapshot.execution_generation < MaxRollovers
    /\ inbox = <<>> /\ ~Latched
    /\ snapshot.status \notin {"evaluating", "finalizing"}
    /\ Record("prepare", snapshot, {}, "handover")

SkipRollOver == Pass("roll", "wait")

(* A closure observed while preparing sends the run back to its loop, and   *)
(* the loop to its wait.                                                    *)
AbandonRollOver ==
    /\ pc = "handover"
    /\ Drained
    /\ closure' = Observed
    /\ closure' # "none"
    /\ pc' = "wait"
    /\ UNCHANGED <<signals, trigger, counters, review, carry, pending, record, clock>>

(* The snapshot, the counters, the trigger and the closure travel as they   *)
(* are; the signals start from what _restore will make of the carry.        *)
ContinueAsNew ==
    /\ pc = "handover"
    /\ Drained
    /\ Observed = "none"
    /\ carry' = [inbox |-> inbox, latches |-> latches, terminal_pending |-> terminal_pending]
    /\ inbox' = <<>>
    /\ latches' = NoHolds
    /\ terminal_pending' = FALSE
    /\ pc' = "boot"
    /\ UNCHANGED <<trigger, closure, counters, review, pending, record, clock>>

ReviewDue == snapshot.status = "sleeping" /\ clock.wake

(* Mutant of WakeUp: the age deadline is not among those waited for.        *)
WakeUpAgeless ==
    /\ pc = "wait"
    /\ inbox # <<>> \/ Latched \/ ReviewDue
    /\ pc' = "loop"
    /\ trigger' = (trigger \/ ReviewDue)
    /\ UNCHANGED <<signals, closure, counters, review, carry, pending, record, clock>>

WakeUp ==
    /\ pc = "wait"
    /\ inbox # <<>> \/ Latched \/ clock.aged \/ ReviewDue
    /\ pc' = "loop"
    /\ trigger' = (trigger \/ ReviewDue)
    /\ UNCHANGED <<signals, closure, counters, review, carry, pending, record, clock>>

---------------------------------------------------------------------------
(* _finalize.                                                               *)

Finalize ==
    /\ pc = "finalize"
    /\ Record("finalize", [snapshot EXCEPT !.status = "finalizing", !.pending_control = FALSE,
                                           !.pending_review = NoDraft], {}, "report")

(* The evidence and the narrative are read with a fallback for each.        *)
Close ==
    /\ pc = "report"
    /\ Record("close", [snapshot EXCEPT !.status = CLOSED_STATUS[closure]], {}, "late")

(* Mutant of DisposeLate: the queue is answered but not emptied.            *)
DisposeKeeping ==
    /\ pc = "late"
    /\ inbox # <<>>
    /\ counters.late_rounds < MaxLateRounds
    /\ counters' = [counters EXCEPT !.late_rounds = @ + 1]
    /\ Commit("late", snapshot, {},
              SubSeq(inbox, 1, IF Len(inbox) < LateBatch THEN Len(inbox) ELSE LateBatch), "late")
    /\ UNCHANGED <<signals, trigger, closure, review, carry, record, clock>>

DisposeLate ==
    /\ pc = "late"
    /\ inbox # <<>>
    /\ counters.late_rounds < MaxLateRounds
    /\ inbox' = <<>>
    /\ counters' = [counters EXCEPT !.late_rounds = @ + 1]
    /\ Commit("late", snapshot, {},
              SubSeq(inbox, 1, IF Len(inbox) < LateBatch THEN Len(inbox) ELSE LateBatch), "late")
    /\ UNCHANGED <<latches, terminal_pending, trigger, closure, review, carry, record, clock>>

Return ==
    /\ inbox = <<>> \/ counters.late_rounds = MaxLateRounds
    /\ Pass("late", "done")

---------------------------------------------------------------------------
Apply(c) ==
    \/ ApplyEvent(c) \/ ApplyInstruction(c) \/ ApplyHold(c) \/ ApplyResume(c)
    \/ ApplyTerminate(c) \/ ApplyReview(c)

Workflow ==
    \/ Receipt \/ Initialize \/ Restore \/ ObserveAge
    \/ \E c \in Commands : Apply(c)
    \/ FinishHold \/ EndDrain \/ SettleDraft
    \/ BeginReview \/ EvidenceArrives \/ EvidenceTooLarge
    \/ \E proposal \in Proposals : DecisionArrives(proposal)
    \/ DecisionFails \/ AbandonReview
    \/ RefuseDecision \/ DiscardStale \/ RecordDecision \/ EnterRecovery
    \/ SkipReview \/ SettleMemory \/ SettleWaitingState
    \/ PrepareRollOver \/ SkipRollOver \/ AbandonRollOver \/ ContinueAsNew \/ WakeUp
    \/ Finalize \/ Close \/ DisposeLate \/ Return

Next == Workflow \/ Age \/ ReviewFallsDue \/ \E c \in Commands : Deliver(c)

Spec == Init /\ [][Next]_vars

(* Activities answer or time out and the worker runs what is ready: the     *)
(* workflow goes on whenever it can.  Nothing forces a signal or a deadline. *)
FairSpec == Spec /\ WF_vars(Workflow)

---------------------------------------------------------------------------
Operation == [op : Operations, candidate : Snapshot,
              keys : SUBSET ({"command", "event", "action", "generation"} \X Nat),
              answers : Seq(Commands), next : Points]

TypeOK ==
    /\ pc \in Points
    /\ inbox \in Seq(Commands)
    /\ latches \in [Commands -> {"none", "held", "during"}]
    /\ terminal_pending \in BOOLEAN
    /\ trigger \in BOOLEAN
    /\ closure \in Reasons \cup {"none"}
    /\ counters \in [decisions : Nat, drafts : Nat, stale_discards : 0..MaxStaleDiscards,
                     late_rounds : 0..MaxLateRounds]
    /\ review \in [context : Nat, epoch : Nat, attempt : 0..MaxAttempts, proposal : Proposals]
    /\ pending \in Operation
    /\ snapshot \in Snapshot
    /\ claimed \subseteq {"command", "event", "action", "generation"} \X Nat
    /\ clock \in [aged : BOOLEAN, wake : BOOLEAN]
    /\ carry \in [inbox : Seq(Commands), latches : [Commands -> {"none", "held", "during"}],
                  terminal_pending : BOOLEAN]
    /\ history \in [delivered : [Commands -> Nat], answered : [Commands -> Nat],
                    arrivals : Nat, approved : SUBSET Nat, effects : Nat,
                    messages : Seq([draft : Nat, written : Nat, sent : Nat])]

(* An effect, an admitted action or an approved message, is only sent to the *)
(* write boundary when every command the API has signalled is answered: one  *)
(* that is still queued, or was taken by the drain of a review, could be the *)
(* hold or the fact that withdraws its authority (the latches of control(),  *)
(* the drain before authorize, _settle_draft after the drain).               *)
Dispatches == pc # "commit" /\ pc' = "commit"

Effectful(p) ==
    \/ p.op = "send"
    \/ p.op = "decide" /\ p.candidate.context_version # snapshot.context_version

EffectsAfterAnswers ==
    [][Dispatches /\ Effectful(pending') => history.delivered = history.answered]_vars

(* Every message on record is a draft an operator approved, recorded once,   *)
(* and in the very context it was written for: a fact, an instruction or an  *)
(* effect that came between voids it (_draft_stale, _settle_draft).          *)
MessagesAsApproved ==
    \A i \in 1..Len(history.messages) :
        LET message == history.messages[i] IN
        /\ message.draft \in history.approved
        /\ message.sent = message.written
        /\ \A j \in 1..Len(history.messages) :
               history.messages[j].draft = message.draft => j = i

(* The identities the workflow mints itself are new at the log when they are *)
(* used, in every continued execution: a reused one would have its receipt   *)
(* taken for a redelivery and the episode silently lost (_carry's counters). *)
Minted == {"start", "generation", "send", "decide"}

MintedOnce == pending.op \in Minted => Applied

(* A latch outlives its command's stay in the queue only until it is taken:  *)
(* a leaked one would stop every decision and every rollover for good.       *)
LatchBacked ==
    closure = "none" =>
        \A c \in Commands : latches[c] # "none" => \E i \in 1..Len(inbox) : inbox[i] = c

(* A run that waits with an empty queue owes nothing: no review it could     *)
(* make, no state that claims work in progress, no draft it could release or *)
(* should have let go of (steps 5 to 9 of the loop).                         *)
WaitsSettled ==
    pc = "wait" /\ inbox = <<>> /\ closure = "none" =>
        LET draft == snapshot.pending_review IN
        /\ ~(trigger /\ CanDecide(snapshot))
        /\ snapshot.status \in {"sleeping", "paused", "awaiting_recovery"}
        /\ ~(LiveDraft(draft) /\ Stale(draft))
        /\ ~(draft.status = "approved" /\ CanAct)

Copies(c, s) == Cardinality({i \in 1..Len(s) : s[i] = c})

(* No delivered command is lost or answered twice: each is queued, with its  *)
(* handler, or on record once, and none is left when the workflow returns.   *)
(* "Accepting work and then dropping it at an internal boundary the operator *)
(* never asked for would be the worst kind of bug" (_restore); "give known   *)
(* queued commands a visible disposition before the workflow returns"        *)
(* (_dispose_late_commands).                                                 *)
CommandsConserved ==
    \A c \in Commands :
        LET open == Copies(c, inbox) + Copies(c, pending.answers) IN
        /\ history.delivered[c] = history.answered[c] + open
        /\ pc = "done" => open = 0

(* Nor is any answered twice where a handover or the last rounds may lose    *)
(* some: an answer is taken off the queue with its command, in whichever     *)
(* execution it is given.                                                    *)
AnsweredOnce ==
    \A c \in Commands :
        history.answered[c] + Copies(c, inbox) + Copies(c, pending.answers)
            <= history.delivered[c]

(* The workflow implements the lifecycle an operator reads in the record.    *)
Lifecycle == INSTANCE RunLifecycle WITH
    status <- snapshot.status, cause <- closure, effects <- history.effects

KeepsLifecycle == Lifecycle!Spec

(* A lifecycle deadline outranks everything: an aged run closes, whatever is *)
(* queued, held or under review.                                             *)
AgeCloses == clock.aged ~> pc = "done"

(* So does a run that was told to terminate or that its order arrived.       *)
StopCloses ==
    (\E c \in Commands : c.kind \in {"terminate", "delivered"} /\ history.delivered[c] > 0)
        ~> pc = "done"

(* An approval is used or let go of unless the run is held: it never lingers *)
(* on a run that goes on working.                                            *)
ApprovalSettles ==
    snapshot.pending_review.status = "approved" ~>
        \/ snapshot.pending_review.status # "approved"
        \/ snapshot.status \in {"paused", "awaiting_recovery"}
        \/ snapshot.pending_control

(* "A terminal command that won in the meantime closes the run instead of    *)
(* continuing it" (_roll_over_if_due): it does not go to sleep on it.        *)
ClosureNeverWaits ==
    pc = "wait" /\ inbox = <<>> /\ ~Latched /\ ~clock.aged /\ ~ReviewDue => closure = "none"

(* "Show Pausing until that transaction's receipt settled; only then is the  *)
(* run paused" (_apply_hold): Pausing is not a state the run stays in.       *)
PausingPasses == snapshot.pending_control => pc \in {"commit", "hold"}
=============================================================================
