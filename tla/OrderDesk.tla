----------------------------- MODULE OrderDesk -----------------------------
(***************************************************************************)
(* What the workflow of one order concludes and keeps: the rules of        *)
(* EventRules, WakePolicy and ReviewRules at work on the documents of the  *)
(* snapshot, in the handlers of workflows/order.py that fill these in.     *)
(*                                                                         *)
(* OrderSupervisor has the other half of those handlers: signals, holds,   *)
(* identities, commits and rollovers.  Here a command is handled in one    *)
(* step, at any time, and a review takes two, with time and commands in    *)
(* between.  Commands that only record a refusal are left out, and a hold  *)
(* with its resumption is one step, for in between this module's documents *)
(* change as they always do.                                               *)
(***************************************************************************)
EXTENDS ReviewRules

CONSTANTS Events,               \* what the API may signal, each admitted once
          Instructions,         \* stances an operator's instruction may take
          Proposals,            \* what the agent may answer
          Narratives,           \* what a closing narrative may claim
          InstructionCapacity,  \* bound: instructions in force
          LedgerRecords,        \* ACTION_LEDGER
          MaxInputs,            \* bound: events, instructions, holds, failures and
                                \* terminations in all
          MaxReviews            \* bound: reviews begun

Claims == [says : SUBSET {"paid", "delivered", "settled", "impossible"},
           told : SUBSET Audiences]

ASSUME InputsAssumption ==
    /\ Events \subseteq Event
    /\ Instructions \subseteq Instruction
    /\ Proposals \subseteq Proposal
    /\ \A p \in Proposals : bounded_proposal(p) /\ IsFiniteSet(p.hints)
    /\ Narratives \subseteq Claims

ASSUME DeskBoundsAssumption ==
    {InstructionCapacity, LedgerRecords, MaxInputs, MaxReviews} \subseteq Nat

StartedAt == 1

Closures == {"none", "delivered", "manually_terminated", "maximum_age_reached"}

Draft == [status : {"none", "pending", "approved", "rejected", "outdated"},
          issue : IssueIds \cup {NoIssue}, context : Nat, decision : Nat]

NoDraft == [status |-> "none", issue |-> NoIssue, context |-> 0, decision |-> 0]

(* A decision under way: its stamp and the evidence it was given.           *)
Review == [at : {"idle", "thinking"}, context : Nat, epoch : Nat, through : Nat,
           read : SUBSET Nat]

NoReview == [at |-> "idle", context |-> 0, epoch |-> 0, through |-> 0,
             read |-> {}]

(* A committed action of the activity log.                                  *)
Message == [sequence : Nat, audience : Audiences, issue : IssueIds \cup {NoIssue},
            evidence : Nat, at : Nat, decision : Nat, approved : BOOLEAN]

NoReport == [narrative |-> "none", claims |-> [says |-> {}, told |-> {}],
             committed |-> {}, unresolved |-> {}]

VARIABLES facts,          \* facts and open issues
          instructions,   \* in force, oldest first
          context,        \* context_version
          epoch,          \* control_epoch
          guidance,       \* wake_guidance
          draft,          \* pending_review
          deferred,       \* deferred_evidence
          recent,         \* recent_evidence
          boundary,       \* last_decision_through_sequence
          summary,        \* memory
          last_sequence,  \* entries of the activity log, the receipts of commits left out
          messages,       \* the log's committed actions
          status,         \* evaluating, sleeping or closed
          next_wake_at,
          trigger,        \* _trigger is set
          closure,        \* _closure's reason
          review,         \* the review under way
          decisions,      \* _decisions
          now,            \* the clock
          received,       \* events admitted so far
          taken,          \* inputs taken so far, for the bound
          report          \* final_output

situation == <<facts, instructions, context, epoch>>
evidence == <<deferred, recent, boundary>>
effects == <<messages, draft>>
learned == <<guidance, summary>>
control == <<status, next_wake_at, trigger, closure, review, decisions>>
inputs == <<now, received, taken>>

vars == <<situation, evidence, effects, learned, control, inputs, last_sequence, report>>

(* _initialize: the reservation is entry 1, and the creation event and the  *)
(* opening summary are entries 2 and 3.  Here and below the entries are     *)
(* those that the handlers write.  The receipt that every commit adds after *)
(* its own takes a number too; left out, the numbers keep their order, and  *)
(* the memory's refresh falls due a few entries later.                      *)
Init ==
    /\ facts = InitialFacts(StartedAt)
    /\ instructions = <<>>
    /\ context = 0 /\ epoch = 0
    /\ guidance = NoGuidance
    /\ draft = NoDraft
    /\ deferred = {} /\ recent = {2} /\ boundary = 0
    /\ summary = [through |-> 1, version |-> 1, provenance |-> "deterministic"]
    /\ last_sequence = 3
    /\ messages = {}
    /\ status = "evaluating" /\ next_wake_at = Never
    /\ trigger = TRUE /\ closure = "none"
    /\ review = NoReview /\ decisions = 0
    /\ now = StartedAt /\ received = {} /\ taken = 0
    /\ report = NoReport

Open == closure = "none"

Idle == review.at = "idle"

Hints == active(guidance, facts, epoch, now)

LiveDraft == draft.status \in {"pending", "approved"}

DraftStale == draft.context # context

---------------------------------------------------------------------------
Input == taken < MaxInputs /\ taken' = taken + 1

(* _apply_event: the event and its policy record are two entries of one     *)
(* commit.                                                                  *)
ApplyEvent(e) ==
    LET sequence == last_sequence + 1
        outcome == interpret(facts, e, sequence, now)
        verdict == classify(outcome, instructions, e.type, Hints)
    IN
    /\ Open
    /\ e \notin received
    /\ received' = received \cup {e}
    /\ Input
    /\ facts' = outcome.facts
    /\ context' = IF outcome.material THEN context + 1 ELSE context
    /\ deferred' = IF verdict.outcome # "deferred" THEN deferred
                   ELSE Newest(deferred \cup {sequence}, EvidenceReferences)
    /\ recent' = Newest(recent \cup {sequence}, RecentRecords)
    /\ last_sequence' = last_sequence + 2
    /\ closure' = IF outcome.terminal THEN "delivered" ELSE closure
    /\ trigger' = (trigger \/ verdict.wake)
    /\ UNCHANGED <<instructions, epoch, boundary, effects, learned, status, next_wake_at,
                   review, decisions, now, report>>

Without(k) == SubSeq(instructions, 1, k - 1) \o SubSeq(instructions, k + 1, Len(instructions))

(* The instructions an operation asks for; k is the one it names.           *)
Requested(operation, k, i) ==
    CASE operation = "add" -> Append(instructions, i)
      [] operation = "supersede" -> Append(Without(k), i)
      [] operation = "remove" -> Without(k)

(* _apply_instruction, of an instruction that is in force where one is      *)
(* named, and within the capacity; any other is refused.                    *)
ApplyInstruction(operation, k, i) ==
    /\ Open
    /\ Input
    /\ operation = "add" \/ k \in DOMAIN instructions
    /\ Len(Requested(operation, k, i)) <= InstructionCapacity
    /\ instructions' = Requested(operation, k, i)
    /\ context' = context + 1
    /\ trigger' = TRUE
    /\ last_sequence' = last_sequence + 1
    /\ UNCHANGED <<facts, epoch, evidence, effects, learned, status, next_wake_at, closure,
                   review, decisions, now, received, report>>

ApplySomeInstruction ==
    \E i \in Instructions :
        \/ ApplyInstruction("add", 0, i)
        \/ \E k \in 1..InstructionCapacity :
               ApplyInstruction("supersede", k, i) \/ ApplyInstruction("remove", k, i)

(* _settle_memory, on "reached" entries.                                    *)
Refreshed(reached) == deterministic(summary, reached, reached + 1)

(* _apply_hold and _apply_resume.  The run that waits in between may have   *)
(* its memory to settle, and the resume asks for a reassessment.            *)
HoldAndResume(waited) ==
    LET settles == waited /\ refresh_due(summary, last_sequence + 1) IN
    /\ Open
    /\ Input
    /\ epoch' = epoch + 2
    /\ status' = "evaluating"
    /\ trigger' = TRUE
    /\ summary' = IF settles THEN Refreshed(last_sequence + 1) ELSE summary
    /\ last_sequence' = last_sequence + (IF settles THEN 3 ELSE 2)
    /\ UNCHANGED <<facts, instructions, context, evidence, effects, guidance, next_wake_at,
                   closure, review, decisions, now, received, report>>

(* _apply_terminate.                                                        *)
Terminate ==
    /\ Open
    /\ Input
    /\ closure' = "manually_terminated"
    /\ epoch' = epoch + 1
    /\ trigger' = FALSE
    /\ last_sequence' = last_sequence + 1
    /\ UNCHANGED <<facts, instructions, context, evidence, effects, learned, status,
                   next_wake_at, review, decisions, now, received, report>>

(* _observe_age.                                                            *)
Age ==
    /\ Open
    /\ now >= MaximumAge
    /\ closure' = "maximum_age_reached"
    /\ UNCHANGED <<situation, evidence, effects, learned, status, next_wake_at, trigger,
                   review, decisions, inputs, last_sequence, report>>

Tick ==
    /\ Open
    /\ now < MaximumAge
    /\ now' = now + 1
    /\ UNCHANGED <<situation, evidence, effects, learned, control, received, taken,
                   last_sequence, report>>

---------------------------------------------------------------------------
(* _apply_review, for the draft that is pending and unedited.               *)
ApplyReview(decision) ==
    /\ Open
    /\ draft.status = "pending"
    /\ draft' = [draft EXCEPT !.status = IF DraftStale THEN "outdated" ELSE decision]
    /\ last_sequence' = last_sequence + 1
    /\ UNCHANGED <<situation, evidence, messages, learned, control, inputs, report>>

Receipt(p, sequence, decision, approved) ==
    [sequence |-> sequence, audience |-> audience_of(p), issue |-> p.issue,
     evidence |-> IF has_issue(facts, p.issue)
                  THEN issue_evidence_sequence(facts.issues[p.issue]) ELSE 0,
     at |-> now, decision |-> decision, approved |-> approved]

DraftedMessage == [action |-> "message_customer", issue |-> draft.issue, complete |-> TRUE]

(* _settle_draft and _commit_approved_draft, before the next review.        *)
ReleaseDraft ==
    /\ Open /\ Idle
    /\ draft.status = "approved" /\ ~DraftStale
    /\ messages' = messages \cup {Receipt(DraftedMessage, last_sequence + 1, draft.decision, TRUE)}
    /\ facts' = Contacted(facts, {DraftedMessage}, now)
    /\ draft' = NoDraft
    /\ context' = context + 1
    /\ last_sequence' = last_sequence + 2
    /\ UNCHANGED <<instructions, epoch, evidence, learned, control, inputs, report>>

OutdateDraft ==
    /\ Open /\ Idle
    /\ LiveDraft /\ DraftStale
    /\ draft' = [draft EXCEPT !.status = "outdated"]
    /\ last_sequence' = last_sequence + 1
    /\ UNCHANGED <<situation, evidence, messages, learned, control, inputs, report>>

DraftSettled == LiveDraft => draft.status = "pending" /\ ~DraftStale

---------------------------------------------------------------------------
(* _wait_for_work: the scheduled review has come.                           *)
Due == status = "sleeping" /\ next_wake_at <= now

(* _run_decision up to the model's answer: the start of the review is one   *)
(* entry, the stamp is taken after it, and the evidence is read then.       *)
BeginReview ==
    /\ Open /\ Idle /\ DraftSettled
    /\ now < MaximumAge
    /\ decisions < MaxReviews
    /\ trigger \/ Due
    /\ decisions' = decisions + 1
    /\ status' = "evaluating"
    /\ trigger' = FALSE
    /\ last_sequence' = last_sequence + 1
    /\ review' = [at |-> "thinking", context |-> context, epoch |-> epoch,
                  through |-> last_sequence + 1,
                  read |-> plan(deferred, facts, recent, boundary)]
    /\ UNCHANGED <<situation, evidence, effects, learned, next_wake_at, closure, inputs, report>>

(* The stamp, against the situation that the drain after the answer left.   *)
Stale == review.context # context \/ review.epoch # epoch

(* What the scripted agent answers: nothing that it reads has moved, or the *)
(* review is stale.                                                         *)
Scripted ==
    scripted(facts, effective_policy(instructions),
             IF refresh_due(summary, review.through) THEN review.through ELSE 0)

Answers == Proposals \cup Scripted

(* Mutant of DiscardReview: whatever asked for the review is forgotten.     *)
DiscardReviewForGood ==
    /\ ~Idle
    /\ ~Open \/ now >= MaximumAge \/ Stale
    /\ \E p \in Answers : last_sequence' = last_sequence + 1 + Len(p.actions)
    /\ closure' = IF Open /\ now >= MaximumAge THEN "maximum_age_reached" ELSE closure
    /\ review' = NoReview
    /\ UNCHANGED <<situation, evidence, effects, learned, status, next_wake_at, trigger,
                   decisions, inputs, report>>

(* _discard_decision and _discard_stale: each proposal is refused on the    *)
(* record, and a stale review is asked for again.  That the second in a row *)
(* asks for the operator is OrderSupervisor's.                              *)
DiscardReview ==
    /\ ~Idle
    /\ ~Open \/ now >= MaximumAge \/ Stale
    /\ \E p \in Answers : last_sequence' = last_sequence + 1 + Len(p.actions)
    /\ closure' = IF Open /\ now >= MaximumAge THEN "maximum_age_reached" ELSE closure
    /\ trigger' = (trigger \/ closure' = "none")
    /\ review' = NoReview
    /\ UNCHANGED <<situation, evidence, effects, learned, status, next_wake_at,
                   decisions, inputs, report>>

(* _enter_recovery, when the review failed or its context is too large, and *)
(* the operator's resume.                                                   *)
FailAndResume ==
    /\ Open /\ ~Idle
    /\ Input
    /\ epoch' = epoch + 1
    /\ status' = "evaluating"
    /\ trigger' = TRUE
    /\ review' = NoReview
    /\ last_sequence' = last_sequence + 2
    /\ UNCHANGED <<facts, instructions, context, evidence, effects, learned, next_wake_at,
                   closure, decisions, now, received, report>>

(* _absorb_memory: what is offered is taken or refused, and a refusal falls *)
(* back on the renderer when that is due.  "entries" is what the decision   *)
(* has recorded so far.                                                     *)
Absorbed(offered, entries) ==
    LET usable == offered > 0 /\ Usable(summary, offered, review.through)
        refused == offered > 0 /\ ~usable
        recorded == IF refused THEN entries + 1 ELSE entries
    IN  IF usable
        THEN [summary |-> from_proposal(summary, offered), entries |-> entries + 1]
        ELSE IF refresh_due(summary, last_sequence)
        THEN [summary |-> deterministic(summary, last_sequence, last_sequence + recorded + 1),
              entries |-> recorded + 1]
        ELSE [summary |-> summary, entries |-> recorded]

(* The entries of the decision itself, its proposals and its guidance.      *)
Recorded(p, accepted) ==
    1 + Len(p.actions) + Cardinality(p.hints \ accepted) + (IF accepted = {} THEN 0 ELSE 1)

(* The admitted effects follow the decision's own entry, in order.          *)
Placed(k, admitted) == last_sequence + 1 + Cardinality({j \in admitted : j <= k})

(* Mutant of Considered: all that is on record by now counts.               *)
ConsideredByNow == last_sequence

(* What a decision covers ends where its own input did.                     *)
Considered == review.through

(* _record_decision: conclusions, effects, draft, guidance, memory and the  *)
(* next review in one transaction.                                          *)
RecordDecision(p) ==
    LET policy == effective_policy(instructions)
        verdict == authorize(p.actions, facts, policy, LiveDraft, now)
        sent == {p.actions[k] : k \in verdict.admitted}
        changed == verdict.admitted \cup verdict.draft # {}
        accepted == check(p.hints, facts, now)
        memory == Absorbed(p.refresh, Recorded(p, accepted))
    IN
    /\ Open /\ ~Idle /\ ~Stale /\ now < MaximumAge
    /\ context' = IF changed THEN context + 1 ELSE context
    /\ facts' = Contacted(facts, sent, now)
    /\ messages' = messages \cup
           {Receipt(p.actions[k], Placed(k, verdict.admitted), decisions, FALSE) :
               k \in verdict.admitted}
    /\ draft' = IF verdict.draft = {} THEN draft
                ELSE [status |-> "pending", context |-> context', decision |-> decisions,
                      issue |-> p.actions[CHOOSE k \in verdict.draft : TRUE].issue]
    /\ boundary' = Considered
    /\ deferred' = still_pending(deferred, Considered)
    /\ guidance' = IF accepted = {} THEN guidance ELSE [epoch |-> epoch, hints |-> accepted]
    /\ summary' = memory.summary
    /\ last_sequence' = last_sequence + memory.entries + 1
    /\ status' = "sleeping"
    /\ next_wake_at' = effective_wake(p.sleep, policy, Hints, now)
    /\ review' = NoReview
    /\ UNCHANGED <<instructions, epoch, recent, trigger, closure, decisions, inputs, report>>

---------------------------------------------------------------------------
(* _settle_memory, when nothing is going to reason.                         *)
SettleMemory ==
    /\ Open /\ Idle /\ DraftSettled
    /\ ~trigger
    /\ refresh_due(summary, last_sequence)
    /\ summary' = Refreshed(last_sequence)
    /\ last_sequence' = last_sequence + 1
    /\ UNCHANGED <<situation, evidence, effects, guidance, control, inputs, report>>

(* committed_actions: the receipts that the snapshot itself still holds.    *)
Ledger ==
    {m \in messages : m.sequence \in Newest({n.sequence : n \in messages}, LedgerRecords)}

(* Mutant of contradictions: contacts are taken on trust.                   *)
contradictions_of_facts(claims, committed) ==
    \/ "impossible" \in claims.says
    \/ "paid" \in claims.says /\ facts.payment # "confirmed"
    \/ "delivered" \in claims.says /\ facts.shipment # "delivered"
    \/ "settled" \in claims.says /\ facts.issues # <<>>

(* Claims are those the gate recognises in the text.                        *)
contradictions(claims, committed) ==
    \/ "impossible" \in claims.says
    \/ "paid" \in claims.says /\ facts.payment # "confirmed"
    \/ "delivered" \in claims.says /\ facts.shipment # "delivered"
    \/ "settled" \in claims.says /\ facts.issues # <<>>
    \/ \E a \in claims.told : ~\E m \in committed : m.audience = a

(* _finalize.  The receipts come from the log or, when it cannot be read,   *)
(* from the snapshot; the factual text stays unless a model was asked and   *)
(* its narrative passes.  The closing entries are not counted.              *)
Finalize(claims, asked, readable) ==
    LET committed == IF readable THEN messages ELSE Ledger
        adopted == asked /\ ~contradictions(claims, committed)
    IN
    /\ ~Open /\ Idle /\ status # "closed"
    /\ status' = "closed"
    /\ next_wake_at' = Never
    /\ draft' = NoDraft
    /\ report' = [narrative |-> IF adopted THEN "model_assisted" ELSE "factual_fallback",
                  claims |-> IF adopted THEN claims ELSE NoReport.claims,
                  committed |-> committed, unresolved |-> DOMAIN facts.issues]
    /\ UNCHANGED <<situation, evidence, messages, learned, trigger, closure, review,
                   decisions, inputs, last_sequence>>

---------------------------------------------------------------------------
Next ==
    \/ \E e \in Events : ApplyEvent(e)
    \/ ApplySomeInstruction
    \/ \E waited \in BOOLEAN : HoldAndResume(waited)
    \/ Terminate
    \/ Age
    \/ Tick
    \/ \E decision \in {"approved", "rejected"} : ApplyReview(decision)
    \/ ReleaseDraft
    \/ OutdateDraft
    \/ BeginReview
    \/ DiscardReview
    \/ FailAndResume
    \/ \E p \in Answers : RecordDecision(p)
    \/ SettleMemory
    \/ \E claims \in Narratives, asked, readable \in BOOLEAN : Finalize(claims, asked, readable)

Spec == Init /\ [][Next]_vars

---------------------------------------------------------------------------
(* Issues and facts whose evidence is among the first entries of the log.   *)
IssuesUpTo(issues, sequence) ==
    /\ DOMAIN issues \subseteq IssueIds
    /\ issues \in [DOMAIN issues -> OpenIssue]
    /\ \A id \in DOMAIN issues :
           /\ issues[id].evidence \in (SUBSET (1..sequence)) \ {{}}
           /\ Cardinality(issues[id].evidence) <= MaxEvidence

FactsUpTo(known, sequence) ==
    /\ known \in [payment : {"unknown", "confirmed", "failed"},
                  attempt : References \cup {NoReference}, payment_at : Nat,
                  shipment : {"unknown", "in_transit", "delayed", "delivered"},
                  reference : References \cup {NoReference}, shipment_at : Nat,
                  progress_at : Nat, issues : {known.issues}]
    /\ IssuesUpTo(known.issues, sequence)

TypeOK ==
    /\ FactsUpTo(facts, last_sequence)
    /\ instructions \in Seq(Instructions) /\ Len(instructions) <= InstructionCapacity
    /\ {context, epoch, boundary, last_sequence, decisions} \subseteq Nat
    /\ guidance.epoch \in 0..epoch /\ guidance.hints \subseteq WakeHint
    /\ draft \in Draft
    /\ deferred \cup recent \subseteq 1..last_sequence
    /\ summary \in MemorySummary
    /\ messages \subseteq Message
    /\ status \in {"evaluating", "sleeping", "closed"}
    /\ next_wake_at \in 0..MaximumAge /\ now \in StartedAt..MaximumAge
    /\ trigger \in BOOLEAN /\ closure \in Closures
    /\ review \in [at : {"idle", "thinking"}, context : 0..context, epoch : 0..epoch,
                   through : 0..last_sequence, read : SUBSET (1..last_sequence)]
    /\ received \subseteq Events /\ taken \in 0..MaxInputs
    /\ report.claims \in Narratives \cup {NoReport.claims}

(* The concerns on file are those the facts call for, in whatever order the *)
(* evidence came: a failed payment and its concern are open together, a     *)
(* delay is, and nothing that a delivery settles outlives it.               *)
ConcernsMatchFacts ==
    /\ facts.payment = "failed" <=> has_issue(facts, "payment")
    /\ facts.shipment = "delayed" => has_issue(facts, "shipment-delay")
    /\ facts.shipment = "delivered" => DELIVERY_RESOLVES \cap DOMAIN facts.issues = {}

(* A confirmed payment is undone only by evidence of its own attempt that   *)
(* is not older than the confirmation, and then there is a concern; a       *)
(* delivery is never undone.                                                *)
ConfirmationsStand ==
    [][/\ facts.payment = "confirmed" /\ facts'.payment # "confirmed" =>
              /\ has_issue(facts', "payment")
              /\ \E e \in received' \ received :
                     /\ e.type = "payment_failed"
                     /\ e.reference = facts.attempt /\ e.reference # NoReference
                     /\ e.at >= facts.payment_at
       /\ facts.shipment = "delivered" => facts'.shipment = "delivered"]_vars

(* Whoever was told of a concern is told again by a later review only after *)
(* the follow-up interval, or of evidence that came since; whichever review *)
(* it is, and also when one of the two waited for an approval.              *)
NoEarlyRepeat ==
    \A m, n \in messages :
        /\ m.issue = n.issue /\ m.issue # NoIssue
        /\ m.audience = n.audience
        /\ m.sequence < n.sequence /\ m.decision # n.decision
        /\ n.evidence <= m.evidence
        => n.at >= m.at + follow_up_interval

(* No concern is slept on: while one has evidence that no decision covered, *)
(* a review is asked for or under way, whatever was discarded, deferred,    *)
(* resumed or recorded in between.                                          *)
ConcernsAwaited ==
    Open /\ (\E s \in unresolved_evidence(facts) : s > boundary) => trigger \/ ~Idle

(* Anything that arrived while the model was thinking is still waiting for  *)
(* a look (order.py:1185): what waits when a decision is recorded and came  *)
(* after the decision's input waits after it, whatever the decision covers. *)
ArrivalsWait ==
    [][boundary' # boundary =>
           \A s \in Pending(deferred, facts, boundary) :
               s > review.through => s \in Pending(deferred', facts', boundary')]_vars

(* The review a decision schedules is ahead, no further than the age, the   *)
(* profile, the haste an instruction asks for and every interval the agent  *)
(* asked for about a concern that is still open.                            *)
ReviewsInRange ==
    [][status' = "sleeping" /\ status # "sleeping" =>
           /\ next_wake_at' <= MaximumAge
           /\ next_wake_at' >= Smaller(now + Minimum, MaximumAge)
           /\ next_wake_at' <= now + Maximum
           /\ effective_policy(instructions).prioritize_speed => next_wake_at' <= now + Default
           /\ \A h \in guidance.hints :
                  /\ h.kind = "shorten_review" /\ guidance.epoch = epoch /\ now < h.expires_at
                  /\ h.issue \in DOMAIN facts.issues
                  => next_wake_at' <= now + h.after]_vars

(* The summary claims to cover nothing that is not on record, and one that  *)
(* the agent wrote nothing that no decision was given.                      *)
CoverageHonest ==
    /\ summary.through <= last_sequence
    /\ summary.provenance = "model" => summary.through <= boundary

(* What a summary covers, the next one covers too: an answer prepared       *)
(* before the memory was last settled does not take it back.                *)
CoverageGrows == [][summary'.through >= summary.through]_vars

(* A customer message without an approval is recorded only while an         *)
(* instruction in force, or the template alone, releases it: instructions   *)
(* that say nothing of customers keep the operator in between.              *)
CustomerGated ==
    [][\A m \in messages' \ messages :
           m.audience = "customer" /\ ~m.approved =>
               \/ instructions = <<>> /\ ~CustomerReview
               \/ \E k \in DOMAIN instructions :
                      /\ instructions[k].review = "off"
                      /\ \A j \in k + 1..Len(instructions) : instructions[j].review # "on"]_vars

(* Good news about a concern, which would wake the agent, is put off only   *)
(* by a hint that is still valid: adopted since the operator last stepped   *)
(* in, and not expired.                                                     *)
GuidanceLapses ==
    [][\A e \in received' \ received :
           /\ e.type = "payment_confirmed" /\ has_issue(facts, "payment")
           /\ ~has_issue(facts', "payment") /\ ~trigger'
           => \E h \in guidance.hints :
                  /\ h.kind = "defer_routine" /\ h.event_type = e.type
                  /\ guidance.epoch = epoch /\ now < h.expires_at]_vars

(* A closing narrative that was adopted says nothing the run's history does *)
(* not bear out: payment and delivery were reported, whoever it says was    *)
(* told was told, nothing is called settled that is listed as unresolved.   *)
ReportTrue ==
    LET Says(claim) == claim \in report.claims.says
        Received(type) == \E e \in received : e.type = type
    IN  /\ Says("paid") => Received("payment_confirmed")
        /\ Says("delivered") => Received("delivered")
        /\ Says("settled") => report.unresolved = {}
        /\ \A a \in report.claims.told : \E m \in messages : m.audience = a

(* What assembly.py:5 promises: evidence that was recorded but never        *)
(* reasoned over stays visible until a decision genuinely covers it, and    *)
(* nothing is dropped silently.  A decision marks as covered, of what is    *)
(* waiting, only what it was given to read.                                 *)
EvidenceRead ==
    [][boundary' # boundary =>
           {s \in Pending(deferred, facts, boundary) : s <= boundary'} \subseteq review.read]_vars

(* What events.py:6 and events.py:176 promise: once a confirmation is on    *)
(* record, no payment failure that is newer than every confirmation passes  *)
(* without a concern.                                                       *)
NewerStands ==
    facts.payment = "confirmed" =>
        \A f \in received :
            f.type = "payment_failed" =>
                \/ has_issue(facts, "payment-evidence")
                \/ \E c \in received : c.type = "payment_confirmed" /\ c.at >= f.at
=============================================================================
