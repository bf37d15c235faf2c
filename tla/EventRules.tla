---------------------------- MODULE EventRules ----------------------------
(***************************************************************************)
(* What an order event means, given what is known: domain/events.py, over  *)
(* the facts and concerns of contracts/run.py.  No state: interpret is a   *)
(* function of the facts, the event, the place its record will have in the *)
(* activity log and the time.                                              *)
(*                                                                         *)
(* Texts are left out, and so are expected_at, delivered_at and the        *)
(* delivery's evidence reference, which no rule reads.  "reference" is the *)
(* event's own: a payment attempt's, for want of one the payment's that a  *)
(* confirmation may give, or a shipment's.                                 *)
(***************************************************************************)
EXTENDS Naturals, FiniteSets

CONSTANTS References, NoReference,
          UnknownTypes,        \* event types the code has no rule for
          EvidenceReferences,  \* EVIDENCE_REFERENCES, open issues a run holds
          MaxEvidence          \* references one issue keeps

ASSUME NoReferenceAssumption == NoReference \notin References

ASSUME IssueBoundsAssumption == EvidenceReferences \in Nat \ {0} /\ MaxEvidence \in Nat \ {0}

(* A moment that is null; all others are later.                             *)
Never == 0

Moments == Nat \ {Never}

KnownTypes == {"order_created", "payment_confirmed", "payment_failed", "shipment_created",
               "shipment_delayed", "delivered", "refund_requested",
               "customer_message_received", "no_update_for_n_hours"}

EventTypes == KnownTypes \cup UnknownTypes

Event == [type : EventTypes, at : Moments, reference : References \cup {NoReference},
          hours : Nat]

KnownIssues == {"payment", "payment-evidence", "shipment-delay", "shipment-evidence",
                "stalled", "refund", "customer"}

(* unknown_issue_id is injective and prefixed, so the type stands for it.   *)
IssueIds == KnownIssues \cup UnknownTypes

ASSUME UnknownTypesAssumption == UnknownTypes \cap (KnownTypes \cup KnownIssues) = {}

DELIVERY_RESOLVES == {"shipment-delay", "shipment-evidence", "stalled"}

Audiences == {"fulfillment_team", "payments_team", "logistics_team", "customer", "internal"}

(* The last contact of an audience about an issue.  No evidence has sequence *)
(* 0, so the absent contact never stands in the way of a first one.         *)
Contact == [evidence : Nat, follow_up_at : Nat]

NoContact == [evidence |-> 0, follow_up_at |-> Never]

(* Evidence is named by its sequence in the activity log.                   *)
OpenIssue == [evidence : SUBSET (Nat \ {0}), review_required : BOOLEAN,
              contacts : [Audiences -> Contact]]

OrderFacts ==
    [payment : {"unknown", "confirmed", "failed"},
     attempt : References \cup {NoReference}, payment_at : Nat,
     shipment : {"unknown", "in_transit", "delayed", "delivered"},
     reference : References \cup {NoReference}, shipment_at : Nat,
     progress_at : Nat,
     issues : UNION {[ids -> OpenIssue] : ids \in SUBSET IssueIds}]

(* The facts _initialize records.                                           *)
InitialFacts(started_at) ==
    [payment |-> "unknown", attempt |-> NoReference, payment_at |-> Never,
     shipment |-> "unknown", reference |-> NoReference, shipment_at |-> Never,
     progress_at |-> started_at, issues |-> <<>>]

---------------------------------------------------------------------------
(* The n largest of a set of numbers: the last n of what is only appended.  *)
Newest(S, n) == {x \in S : Cardinality({y \in S : y > x}) < n}

Largest(S) == IF S = {} THEN 0 ELSE CHOOSE x \in S : \A y \in S : y <= x

has_issue(facts, id) == id \in DOMAIN facts.issues

NewIssue(sequence, review_required) ==
    [evidence |-> {sequence}, review_required |-> review_required,
     contacts |-> [a \in Audiences |-> NoContact]]

(* At the limit a new issue is dropped and an open one is still updated.    *)
open_issue(facts, id, sequence, review_required) ==
    IF has_issue(facts, id)
    THEN [facts EXCEPT !.issues[id].review_required = @ \/ review_required,
                       !.issues[id].evidence = Newest(@ \cup {sequence}, MaxEvidence)]
    ELSE IF Cardinality(DOMAIN facts.issues) >= EvidenceReferences THEN facts
    ELSE [facts EXCEPT !.issues = [i \in DOMAIN @ \cup {id} |->
              IF i = id THEN NewIssue(sequence, review_required) ELSE @[i]]]

resolve_issues(facts, ids) ==
    [facts EXCEPT !.issues = [id \in DOMAIN @ \ ids |-> @[id]]]

older_than(moment, recorded) == moment < recorded

Either(given, recorded) == IF given # NoReference THEN given ELSE recorded

---------------------------------------------------------------------------
(* EventOutcome.                                                            *)
Immaterial(facts) ==
    [facts |-> facts, important |-> FALSE, material |-> FALSE,
     review_required |-> FALSE, terminal |-> FALSE]

Material(facts, important) ==
    [Immaterial(facts) EXCEPT !.important = important, !.material = TRUE]

Concern(facts) == Material(facts, TRUE)

NeedsReview(facts) == [Concern(facts) EXCEPT !.review_required = TRUE]

PaymentObserved(facts, e, payment) ==
    [facts EXCEPT !.payment = payment, !.attempt = Either(e.reference, @),
                  !.payment_at = e.at, !.progress_at = e.at]

(* Mutant of payment_confirmed: the failure's concern is left open.         *)
payment_confirmed_only(facts, e) ==
    IF facts.payment = "confirmed" \/ older_than(e.at, facts.payment_at)
    THEN Immaterial(facts)
    ELSE Material(PaymentObserved(facts, e, "confirmed"), has_issue(facts, "payment"))

payment_confirmed(facts, e) ==
    IF facts.payment = "confirmed" \/ older_than(e.at, facts.payment_at)
    THEN Immaterial(facts)
    ELSE Material(PaymentObserved(resolve_issues(facts, {"payment"}), e, "confirmed"),
                  has_issue(facts, "payment"))

SameAttempt(facts, e) == e.reference # NoReference /\ e.reference = facts.attempt

(* Mutant of payment_failed: any failure of a confirmed payment undoes it.  *)
payment_failed_always(facts, e, sequence) ==
    IF facts.payment = "confirmed" /\ SameAttempt(facts, e) /\ older_than(e.at, facts.payment_at)
    THEN Immaterial(facts)
    ELSE Concern(PaymentObserved(open_issue(facts, "payment", sequence, FALSE), e, "failed"))

(* A confirmation is undone only by a failure of its own attempt that is    *)
(* not older; a failure that cannot be matched is a concern of its own.     *)
payment_failed(facts, e, sequence) ==
    IF facts.payment = "confirmed" /\ SameAttempt(facts, e) /\ older_than(e.at, facts.payment_at)
    THEN Immaterial(facts)
    ELSE IF facts.payment = "confirmed" /\ ~SameAttempt(facts, e)
    THEN NeedsReview(open_issue(facts, "payment-evidence", sequence, TRUE))
    ELSE Concern(PaymentObserved(open_issue(facts, "payment", sequence, FALSE), e, "failed"))

ShipmentObserved(facts, e, shipment) ==
    [facts EXCEPT !.shipment = shipment, !.reference = Either(e.reference, @),
                  !.shipment_at = e.at, !.progress_at = e.at]

shipment_created(facts, e) ==
    IF facts.shipment = "delivered" \/ older_than(e.at, facts.shipment_at)
    THEN Immaterial(facts)
    ELSE Material(ShipmentObserved(resolve_issues(facts, {"stalled"}), e, "in_transit"),
                  has_issue(facts, "stalled"))

OtherShipment(facts, e) ==
    /\ e.reference # NoReference
    /\ facts.reference # NoReference
    /\ e.reference # facts.reference

(* Unlike the others, a delay is not compared with what was observed last.  *)
shipment_delayed(facts, e, sequence) ==
    IF facts.shipment = "delivered" THEN Immaterial(facts)
    ELSE IF OtherShipment(facts, e)
    THEN NeedsReview(open_issue(facts, "shipment-evidence", sequence, TRUE))
    ELSE Concern(ShipmentObserved(open_issue(facts, "shipment-delay", sequence, FALSE),
                                  e, "delayed"))

delivered(facts, e) ==
    LET arrived == [resolve_issues(facts, DELIVERY_RESOLVES) EXCEPT
                        !.shipment = "delivered", !.shipment_at = e.at, !.progress_at = e.at]
    IN  [Concern(arrived) EXCEPT !.terminal = TRUE]

(* Measured against recorded progress, which _initialize sets first.        *)
no_update(facts, e, sequence, now) ==
    IF now < facts.progress_at + e.hours THEN Immaterial(facts)
    ELSE Concern(open_issue(facts, "stalled", sequence, FALSE))

interpret(facts, e, sequence, now) ==
    CASE e.type = "order_created" -> Immaterial(facts)
      [] e.type = "payment_confirmed" -> payment_confirmed(facts, e)
      [] e.type = "payment_failed" -> payment_failed(facts, e, sequence)
      [] e.type = "shipment_created" -> shipment_created(facts, e)
      [] e.type = "shipment_delayed" -> shipment_delayed(facts, e, sequence)
      [] e.type = "delivered" -> delivered(facts, e)
      [] e.type = "refund_requested" ->
             Concern(open_issue(facts, "refund", sequence, FALSE))
      [] e.type = "customer_message_received" ->
             Concern(open_issue(facts, "customer", sequence, FALSE))
      [] e.type = "no_update_for_n_hours" -> no_update(facts, e, sequence, now)
      [] e.type \in UnknownTypes -> NeedsReview(open_issue(facts, e.type, sequence, TRUE))
=============================================================================
