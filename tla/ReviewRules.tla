---------------------------- MODULE ReviewRules ----------------------------
(***************************************************************************)
(* What a review reads, may do and leaves behind: domain/assembly.py,      *)
(* domain/authorization.py with the registry of domain/actions.py, and     *)
(* domain/memory.py.  No state.                                            *)
(*                                                                         *)
(* The texts of a message are left out; whether its subject and category   *)
(* suit the action is its field "complete".                                *)
(***************************************************************************)
EXTENDS WakePolicy

CONSTANTS AllowedActions,     \* of the template
          FollowUpIntervals,  \* FOLLOW_UP_INTERVALS
          DeferredLimit,      \* DEFERRED_EVIDENCE_LIMIT
          RecentRecords,      \* RECENT_RECORDS
          CompactionRecords   \* compaction_threshold

REGISTRY == [message_fulfillment_team |-> "fulfillment_team",
             message_payments_team |-> "payments_team",
             message_logistics_team |-> "logistics_team",
             message_customer |-> "customer",
             create_internal_note |-> "internal"]

ASSUME ReviewAssumption ==
    /\ AllowedActions \subseteq DOMAIN REGISTRY
    /\ {FollowUpIntervals, DeferredLimit, RecentRecords, CompactionRecords} \subseteq Nat \ {0}

ActionProposal == [action : DOMAIN REGISTRY, issue : IssueIds \cup {NoIssue},
                   complete : BOOLEAN]

audience_of(p) == REGISTRY[p.action]

invalid_arguments(p) ==
    ~p.complete \/ (p.action # "create_internal_note" /\ p.issue = NoIssue)

follow_up_interval == Default * FollowUpIntervals

issue_evidence_sequence(issue) == Largest(issue.evidence)

(* Mutant of repeated_contact: any audience's news reopens the window.      *)
repeated_contact_once(issue, audience, now) ==
    /\ issue_evidence_sequence(issue) < issue.contacts[audience].evidence
    /\ now < issue.contacts[audience].follow_up_at

(* Nothing new about this issue since this audience was told of it, and the *)
(* follow-up is not due.                                                    *)
repeated_contact(issue, audience, now) ==
    /\ issue_evidence_sequence(issue) <= issue.contacts[audience].evidence
    /\ now < issue.contacts[audience].follow_up_at

Refused(p, facts, now) ==
    \/ p.action \notin AllowedActions
    \/ invalid_arguments(p)
    \/ ~ServesOpenIssue(p, facts)
    \/ /\ has_issue(facts, p.issue)
       /\ repeated_contact(facts.issues[p.issue], audience_of(p), now)

(* What becomes of a batch, by its ordinals, once the gates on closure,     *)
(* hold and context are passed.  Each proposal is judged against the issues *)
(* as they were before the batch; only the draft slot is shared.            *)
authorize(actions, facts, policy, waiting, now) ==
    LET clear == {k \in DOMAIN actions : ~Refused(actions[k], facts, now)}
        gated == {k \in clear : /\ actions[k].action = "message_customer"
                                /\ policy.require_customer_review}
        first == {k \in gated : \A j \in gated : k <= j}
        draft == IF waiting THEN {} ELSE first
    IN  [admitted |-> clear \ gated, draft |-> draft,
         blocked |-> (DOMAIN actions \ clear) \cup (gated \ draft)]

(* The contacts that _absorb_action leaves on the issues of a batch.        *)
Contacted(facts, messages, now) ==
    LET Told(id, a) == \E p \in messages : p.issue = id /\ audience_of(p) = a
        Entry(id) == [evidence |-> issue_evidence_sequence(facts.issues[id]),
                      follow_up_at |-> now + follow_up_interval]
        Contacts(id) == [a \in Audiences |->
            IF Told(id, a) THEN Entry(id) ELSE facts.issues[id].contacts[a]]
    IN  [facts EXCEPT !.issues =
            [id \in DOMAIN @ |-> [@[id] EXCEPT !.contacts = Contacts(id)]]]

---------------------------------------------------------------------------
(* _unresolved_evidence, without its cut at EVIDENCE_REFERENCES.            *)
unresolved_evidence(facts) == UNION {facts.issues[id].evidence : id \in DOMAIN facts.issues}

Pending(deferred, facts, boundary) ==
    {s \in deferred \cup unresolved_evidence(facts) : s > boundary}

(* What is read: the newest of what no decision has covered, and the recent *)
(* records that are not among it.                                           *)
plan(deferred, facts, recent, boundary) ==
    LET pending == Pending(deferred, facts, boundary) IN
    Newest(pending, DeferredLimit) \cup (Newest(recent, RecentRecords) \ pending)

still_pending(deferred, cutoff) == {s \in deferred : s > cutoff}

---------------------------------------------------------------------------
(* The summary's evidence cutoff, version and author.                       *)
MemorySummary == [through : Nat, version : Nat, provenance : {"deterministic", "model"}]

refresh_due(summary, last_sequence) == last_sequence >= summary.through + CompactionRecords

deterministic(summary, last_sequence, through) ==
    [through |-> Larger(through, last_sequence), version |-> summary.version + 1,
     provenance |-> "deterministic"]

(* Mutant of Usable: a summary may cover less than the last one did.        *)
UsableAtAll(summary, through, cutoff) == through <= cutoff

(* Mutant of Usable: a summary may cover what its author was not given.     *)
UsableAhead(summary, through, cutoff) == through >= summary.through

(* from_proposal: neither beyond what the decision received, nor back.      *)
Usable(summary, through, cutoff) == through <= cutoff /\ through >= summary.through

from_proposal(summary, through) ==
    [through |-> through, version |-> summary.version + 1, provenance |-> "model"]

---------------------------------------------------------------------------
(* DecisionProposal: the actions in order, the interval asked for, hints,   *)
(* and how far an offered summary reaches; 0 stands for what is not there.  *)
(* A batch holds one customer message at most.                              *)
Proposal == [actions : Seq(ActionProposal), sleep : Nat, hints : SUBSET WakeHint,
             refresh : Nat]

bounded_proposal(p) ==
    \A j, k \in DOMAIN p.actions :
        p.actions[j].action = "message_customer" /\ p.actions[k].action = "message_customer"
            => j = k

About(action, issue) == [action |-> action, issue |-> issue, complete |-> TRUE]

(* Which concern each team is the right audience for.                       *)
ISSUE_ACTIONS ==
    <<About("message_payments_team", "payment"),
      About("message_logistics_team", "shipment-delay"),
      About("message_fulfillment_team", "stalled")>>

Flagged(facts) == {id \in DOMAIN facts.issues : facts.issues[id].review_required}

(* _scripted: the stand-in for a model writes to the owner of every open    *)
(* concern and leaves one note on a flagged one, the first; as the order of *)
(* the issues is left out here, on any.                                     *)
scripted(facts, policy, refresh) ==
    LET Owned(p) == IF has_issue(facts, p.issue) /\ p.action \in AllowedActions
                    THEN <<p>> ELSE <<>>
        messages == Owned(ISSUE_ACTIONS[1]) \o Owned(ISSUE_ACTIONS[2]) \o Owned(ISSUE_ACTIONS[3])
        notes == IF "create_internal_note" \in AllowedActions
                 THEN {About("create_internal_note", id) : id \in Flagged(facts)} ELSE {}
        batches == IF notes = {} THEN {messages} ELSE {Append(messages, n) : n \in notes}
        sleep == IF facts.issues # <<>> \/ policy.prioritize_speed
                 THEN Larger(Minimum, Default \div 2) ELSE Default
    IN  {[actions |-> b, sleep |-> sleep, hints |-> {}, refresh |-> refresh] : b \in batches}
=============================================================================
