-------------------------- MODULE OrderDeskProofs --------------------------
(***************************************************************************)
(* What holds of OrderDesk for every profile, every set of events,         *)
(* instructions and answers, and every bound of its constants.  IInv is    *)
(* the inductive invariant; the rules it rests on are in OrderDeskRules.   *)
(***************************************************************************)
EXTENDS OrderDeskRules

(* A review under way: what it covers is on record, and as long as its       *)
(* context stands, nothing open came after it began.                        *)
ReviewKnown ==
    /\ boundary <= last_sequence
    /\ ~Idle =>
           /\ boundary <= review.through
           /\ review.context = context =>
                  \A s \in unresolved_evidence(facts) : s <= review.through

GuidanceKnown ==
    \A h \in guidance.hints : h.kind = "shorten_review" => h.after \in Minimum..Maximum

(* Nobody was told of more than there is.                                   *)
ContactsKnown ==
    \A id \in DOMAIN facts.issues, who \in Audiences :
        facts.issues[id].contacts[who].evidence <= issue_evidence_sequence(facts.issues[id])

(* An open issue has moved on since a message about it, or still bears the   *)
(* contact that message left or a later one.                                *)
Remembered(m) ==
    LET issue == facts.issues[m.issue]
        contact == issue.contacts[m.audience]
    IN  \/ m.evidence < issue_evidence_sequence(issue)
        \/ /\ contact.evidence >= m.evidence
           /\ contact.follow_up_at >= m.at + follow_up_interval

MessagesKnown ==
    \A m \in messages :
        /\ m.sequence <= last_sequence /\ m.evidence <= last_sequence /\ m.at <= now
        /\ m.issue \in DOMAIN facts.issues => Remembered(m)

(* While its context stands, a draft would still pass the gates.            *)
DraftKnown ==
    /\ draft.context <= context
    /\ LiveDraft /\ ~DraftStale =>
           /\ draft.issue \in DOMAIN facts.issues
           /\ ~repeated_contact(facts.issues[draft.issue], "customer", now)

FactsBacked ==
    /\ facts.payment = "confirmed" => \E e \in received : e.type = "payment_confirmed"
    /\ facts.shipment = "delivered" => \E e \in received : e.type = "delivered"

IInv ==
    /\ TypeOK
    /\ ReviewKnown
    /\ GuidanceKnown
    /\ ContactsKnown
    /\ MessagesKnown
    /\ DraftKnown
    /\ FactsBacked
    /\ CoverageHonest
    /\ ConcernsAwaited
    /\ NoEarlyRepeat
    /\ ReportTrue

---------------------------------------------------------------------------
(* Types of what the actions are given.                                     *)
LEMMA AnswersTyped ==
    ASSUME TypeOK, NEW p \in Answers
    PROVE  /\ p.actions \in Seq(ActionProposal)
           /\ bounded_proposal(p)
           /\ p.sleep \in Nat /\ p.refresh \in Nat
           /\ p.hints \in SUBSET WakeHint /\ IsFiniteSet(p.hints)
  <1>1. CASE p \in Proposals
    BY <1>1, InputsAssumption DEF Proposal
  <1>2. CASE p \in Scripted
    <2>. DEFINE refresh == IF refresh_due(summary, review.through) THEN review.through ELSE 0
    <2>1. refresh \in Nat
      BY DEF TypeOK
    <2>2. DOMAIN facts.issues \subseteq IssueIds
      BY DEF TypeOK, FactsUpTo, IssuesUpTo
    <2>3. p \in scripted(facts, effective_policy(instructions), refresh)
      BY <1>2 DEF Scripted
    <2>. HIDE DEF refresh
    <2>4. /\ p.actions \in Seq(ActionProposal)
          /\ \A k \in DOMAIN p.actions : p.actions[k].action # "message_customer"
          /\ p.sleep \in Nat /\ p.hints = {} /\ p.refresh = refresh
      BY <2>1, <2>2, <2>3, ScriptedAnswers
    <2>. QED  BY <2>1, <2>4, FS_EmptySet DEF bounded_proposal
  <1>. QED  BY <1>1, <1>2 DEF Answers

(* The parts of a decision that is recorded.                                *)
Judged(p) == authorize(p.actions, facts, effective_policy(instructions), LiveDraft, now)

LEMMA DecisionTyped ==
    ASSUME TypeOK, NEW p \in Answers
    PROVE  /\ Judged(p).admitted \subseteq DOMAIN p.actions
           /\ Judged(p).draft \subseteq DOMAIN p.actions
           /\ \A k \in DOMAIN p.actions : p.actions[k] \in ActionProposal
           /\ check(p.hints, facts, now) \in SUBSET p.hints
           /\ Recorded(p, check(p.hints, facts, now)) \in Nat \ {0}
           /\ \A k \in DOMAIN p.actions : Placed(k, Judged(p).admitted) \in Nat
           /\ \A k \in DOMAIN p.actions : Placed(k, Judged(p).admitted) > last_sequence
           /\ \A k \in DOMAIN p.actions :
                  Placed(k, Judged(p).admitted)
                      <= last_sequence + Recorded(p, check(p.hints, facts, now))
  <1>. DEFINE accepted == check(p.hints, facts, now)
              admitted == Judged(p).admitted
              Before(k) == {j \in admitted : j <= k}
  <1>1. p.actions \in Seq(ActionProposal) /\ IsFiniteSet(p.hints)
    BY AnswersTyped
  <1>2. admitted \subseteq DOMAIN p.actions /\ Judged(p).draft \subseteq DOMAIN p.actions
    BY <1>1, Authorization DEF Judged
  <1>3. accepted \in SUBSET p.hints
    BY DEF check
  <1>4. /\ Len(p.actions) \in Nat /\ DOMAIN p.actions = 1..Len(p.actions)
        /\ \A k \in DOMAIN p.actions : p.actions[k] \in ActionProposal
    BY <1>1
  <1>. HIDE DEF accepted, admitted
  <1>5. Cardinality(p.hints \ accepted) \in Nat
    BY <1>1, FS_Difference, FS_CardinalityType
  <1>6. Recorded(p, accepted) \in Nat \ {0} /\ Recorded(p, accepted) >= 1 + Len(p.actions)
    BY <1>4, <1>5 DEF Recorded
  <1>7. \A k \in DOMAIN p.actions :
            Cardinality(Before(k)) \in Nat /\ Cardinality(Before(k)) <= Len(p.actions)
    <2>1. IsFiniteSet(1..Len(p.actions)) /\ Cardinality(1..Len(p.actions)) = Len(p.actions)
      BY <1>4, FS_Interval
    <2>2. \A k \in DOMAIN p.actions : Before(k) \in SUBSET (1..Len(p.actions))
      BY <1>2, <1>4 DEF admitted
    <2>. HIDE DEF Before
    <2>. QED  BY <2>1, <2>2, FS_Subset, FS_CardinalityType
  <1>8. \A k \in DOMAIN p.actions : Placed(k, admitted) = last_sequence + 1 + Cardinality(Before(k))
    BY DEF Placed
  <1>. HIDE DEF Before
  <1>9. last_sequence \in Nat
    BY DEF TypeOK
  <1>. QED  BY <1>2, <1>3, <1>4, <1>6, <1>7, <1>8, <1>9 DEF admitted, accepted

(* _settle_memory and _absorb_memory.                                       *)
LEMMA Deterministic ==
    ASSUME summary \in MemorySummary, NEW n \in Nat, NEW m \in Nat, n <= m,
           summary.through <= n
    PROVE  LET s == deterministic(summary, n, m) IN
           /\ s \in MemorySummary /\ s.through = m /\ s.provenance = "deterministic"
           /\ s.through >= summary.through
  BY DEF deterministic, MemorySummary, Larger

LEMMA Absorbing ==
    ASSUME TypeOK, CoverageHonest, NEW offered \in Nat, NEW entries \in Nat
    PROVE  LET kept == Absorbed(offered, entries) IN
           /\ kept.summary \in MemorySummary
           /\ kept.entries \in Nat /\ kept.entries >= entries
           /\ kept.summary.through >= summary.through
           /\ kept.summary.through <= last_sequence + kept.entries
           /\ kept.summary.provenance = "model" =>
                  kept.summary = summary \/ kept.summary.through <= review.through
  <1>. DEFINE usable == offered > 0 /\ Usable(summary, offered, review.through)
              refused == offered > 0 /\ ~usable
              recorded == IF refused THEN entries + 1 ELSE entries
              fallen == deterministic(summary, last_sequence, last_sequence + recorded + 1)
              kept == Absorbed(offered, entries)
  <1>1. /\ summary \in MemorySummary /\ last_sequence \in Nat /\ summary.through <= last_sequence
        /\ review.through \in 0..last_sequence /\ summary.through \in Nat
        /\ summary.version \in Nat
    BY DEF TypeOK, CoverageHonest, MemorySummary
  <1>2. recorded \in Nat /\ recorded >= entries
    OBVIOUS
  <1>3. CASE usable
    <2>1. kept = [summary |-> from_proposal(summary, offered), entries |-> entries + 1]
      BY <1>3 DEF Absorbed
    <2>2. offered <= review.through /\ offered >= summary.through
      BY <1>3 DEF Usable
    <2>3. /\ from_proposal(summary, offered) \in MemorySummary
          /\ from_proposal(summary, offered).through = offered
      BY <1>1 DEF from_proposal, MemorySummary
    <2>. HIDE DEF kept
    <2>4. kept.summary = from_proposal(summary, offered) /\ kept.entries = entries + 1
      BY <2>1
    <2>5. kept.summary.through <= last_sequence + kept.entries
      BY <1>1, <2>2, <2>3, <2>4
    <2>6. kept.entries \in Nat /\ kept.entries >= entries
      BY <2>4
    <2>. QED  BY <2>2, <2>3, <2>4, <2>5, <2>6 DEF kept
  <1>4. CASE ~usable /\ refresh_due(summary, last_sequence)
    <2>1. kept = [summary |-> fallen, entries |-> recorded + 1]
      BY <1>4 DEF Absorbed
    <2>. HIDE DEF recorded
    <2>2. /\ fallen \in MemorySummary /\ fallen.through = last_sequence + recorded + 1
          /\ fallen.provenance = "deterministic" /\ fallen.through >= summary.through
      BY <1>1, <1>2, Deterministic
    <2>. HIDE DEF kept, fallen
    <2>3. kept.summary = fallen /\ kept.entries = recorded + 1
      BY <2>1
    <2>4. kept.summary.through <= last_sequence + kept.entries
      BY <1>1, <1>2, <2>2, <2>3
    <2>5. kept.entries \in Nat /\ kept.entries >= entries
      BY <1>2, <2>3
    <2>. QED  BY <2>2, <2>3, <2>4, <2>5 DEF kept
  <1>5. CASE ~usable /\ ~refresh_due(summary, last_sequence)
    <2>1. kept = [summary |-> summary, entries |-> recorded]
      BY <1>5 DEF Absorbed
    <2>. HIDE DEF recorded, kept
    <2>2. kept.summary = summary /\ kept.entries = recorded
      BY <2>1
    <2>3. kept.summary.through <= last_sequence + kept.entries
      BY <1>1, <1>2, <2>2
    <2>4. kept.summary.through >= summary.through
      BY <1>1, <2>2
    <2>. QED  BY <1>1, <1>2, <2>2, <2>3, <2>4 DEF kept
  <1>. QED  BY <1>3, <1>4, <1>5

---------------------------------------------------------------------------
(* Types.                                                                   *)
LEMMA InitTyped == Init => TypeOK
  <1>. SUFFICES ASSUME Init PROVE TypeOK
    OBVIOUS
  <1>1. FactsUpTo(facts, last_sequence)
    <2>1. facts.issues = <<>> /\ DOMAIN facts.issues = {}
      BY DEF Init, InitialFacts
    <2>2. facts.issues \in [DOMAIN facts.issues -> OpenIssue]
      BY <2>1
    <2>3. IssuesUpTo(facts.issues, last_sequence)
      BY <2>1, <2>2 DEF IssuesUpTo
    <2>. QED  BY <2>3 DEF Init, InitialFacts, FactsUpTo, Never, StartedAt
  <1>2. instructions \in Seq(Instructions) /\ Len(instructions) <= InstructionCapacity
    BY DeskBoundsAssumption DEF Init
  <1>3. StartedAt \in StartedAt..MaximumAge /\ 0 \in 0..MaximumAge
    BY ProfileAssumption DEF StartedAt
  <1>4. draft \in Draft /\ guidance.epoch \in 0..epoch /\ guidance.hints \subseteq WakeHint
    BY DEF Init, Draft, NoDraft, NoGuidance
  <1>5. review \in [at : {"idle", "thinking"}, context : 0..context, epoch : 0..epoch,
                    through : 0..last_sequence, read : SUBSET (1..last_sequence)]
    BY DEF Init, NoReview
  <1>6. summary \in MemorySummary
    BY DEF Init, MemorySummary
  <1>7. taken \in 0..MaxInputs
    BY DeskBoundsAssumption DEF Init
  <1>8. deferred \cup recent \subseteq 1..last_sequence
    BY DEF Init
  <1>. QED
    BY <1>1, <1>2, <1>3, <1>4, <1>5, <1>6, <1>7, <1>8 DEF TypeOK, Init, Never, Closures

(* The log grows, and what was within it stays within it.                   *)
LEMMA LogGrows ==
    ASSUME TypeOK, last_sequence' \in Nat, last_sequence' >= last_sequence, context' \in Nat,
           context' >= context, epoch' \in Nat, epoch' >= epoch
    PROVE  /\ FactsUpTo(facts, last_sequence')
           /\ deferred \cup recent \subseteq 1..last_sequence'
           /\ guidance.epoch \in 0..epoch'
           /\ review \in [at : {"idle", "thinking"}, context : 0..context', epoch : 0..epoch',
                          through : 0..last_sequence', read : SUBSET (1..last_sequence')]
           /\ NoReview \in [at : {"idle", "thinking"}, context : 0..context', epoch : 0..epoch',
                            through : 0..last_sequence', read : SUBSET (1..last_sequence')]
  <1>1. last_sequence \in Nat /\ context \in Nat /\ epoch \in Nat
    BY DEF TypeOK
  <1>2. FactsUpTo(facts, last_sequence')
    BY <1>1, UpToLater DEF TypeOK
  <1>3. 0..context \subseteq 0..context' /\ 0..epoch \subseteq 0..epoch'
        /\ 0..last_sequence \subseteq 0..last_sequence' /\ 1..last_sequence \subseteq 1..last_sequence'
    BY <1>1
  <1>4. SUBSET (1..last_sequence) \subseteq SUBSET (1..last_sequence')
    BY <1>3
  <1>5. review \in [at : {"idle", "thinking"}, context : 0..context', epoch : 0..epoch',
                    through : 0..last_sequence', read : SUBSET (1..last_sequence')]
    BY <1>3, <1>4 DEF TypeOK
  <1>6. NoReview \in [at : {"idle", "thinking"}, context : 0..context', epoch : 0..epoch',
                      through : 0..last_sequence', read : SUBSET (1..last_sequence')]
    BY DEF NoReview
  <1>. QED  BY <1>2, <1>3, <1>5, <1>6 DEF TypeOK

LEMMA NewestWithin ==
    ASSUME NEW S, NEW n \in Nat, NEW m
    PROVE  S \subseteq 1..n => Newest(S, m) \subseteq 1..n
  BY DEF Newest

LEMMA Counted ==
    ASSUME TypeOK
    PROVE  /\ last_sequence \in Nat /\ context \in Nat /\ epoch \in Nat
           /\ now \in Nat /\ now >= StartedAt /\ now <= MaximumAge
           /\ taken \in 0..MaxInputs
  <1>1. {context, epoch, last_sequence} \subseteq Nat /\ now \in StartedAt..MaximumAge
        /\ taken \in 0..MaxInputs
    BY DEF TypeOK
  <1>2. now \in Nat /\ now >= StartedAt /\ now <= MaximumAge
    BY <1>1 DEF StartedAt
  <1>. QED  BY <1>1, <1>2

LEMMA InputTaken ==
    ASSUME TypeOK, Input
    PROVE  taken' \in 0..MaxInputs
  <1>1. taken \in 0..MaxInputs /\ taken < MaxInputs /\ taken' = taken + 1
    BY Counted DEF Input
  <1>. QED  BY <1>1, DeskBoundsAssumption

LEMMA EventTyped ==
    ASSUME TypeOK, NEW e \in Events, ApplyEvent(e)
    PROVE  TypeOK'
  <1>. DEFINE sequence == last_sequence + 1
              outcome == interpret(facts, e, sequence, now)
  <1>1. /\ last_sequence \in Nat /\ sequence \in Nat /\ sequence > last_sequence /\ now \in Nat
        /\ last_sequence' = last_sequence + 2 /\ context \in Nat
    <2>1. last_sequence' = last_sequence + 2
      BY DEF ApplyEvent
    <2>. QED  BY <2>1, Counted
  <1>2. Outcome(facts, outcome, sequence)
    <2>1. e \in Event
      BY InputsAssumption
    <2>. QED  BY <1>1, <2>1, Interpretation DEF TypeOK, Interpreted
  <1>3. facts' = outcome.facts /\ context' \in {context, context + 1}
    BY DEF ApplyEvent
  <1>. HIDE DEF outcome
  <1>4. FactsUpTo(facts', last_sequence')
    BY <1>1, <1>2, <1>3, UpToLater DEF Outcome
  <1>5. /\ last_sequence' \in Nat /\ last_sequence' >= last_sequence
        /\ context' \in Nat /\ context' >= context /\ epoch' = epoch /\ epoch \in Nat
    BY <1>1, <1>3 DEF ApplyEvent, situation, TypeOK
  <1>6. /\ deferred \cup recent \subseteq 1..last_sequence'
        /\ sequence \in 1..last_sequence'
    BY <1>1, <1>5, LogGrows
  <1>7. deferred' \subseteq 1..last_sequence' /\ recent' \subseteq 1..last_sequence'
    <2>1. deferred \cup {sequence} \subseteq 1..last_sequence'
          /\ recent \cup {sequence} \subseteq 1..last_sequence'
      BY <1>6
    <2>2. /\ Newest(deferred \cup {sequence}, EvidenceReferences) \subseteq 1..last_sequence'
          /\ Newest(recent \cup {sequence}, RecentRecords) \subseteq 1..last_sequence'
      BY <1>5, <2>1, NewestWithin
    <2>3. /\ deferred' \in {deferred, Newest(deferred \cup {sequence}, EvidenceReferences)}
          /\ recent' = Newest(recent \cup {sequence}, RecentRecords)
      BY DEF ApplyEvent
    <2>. QED  BY <1>6, <2>2, <2>3
  <1>8. review' \in [at : {"idle", "thinking"}, context : 0..context', epoch : 0..epoch',
                     through : 0..last_sequence', read : SUBSET (1..last_sequence')]
        /\ guidance'.epoch \in 0..epoch'
    BY <1>5, LogGrows DEF ApplyEvent, control, learned
  <1>9. trigger' \in BOOLEAN /\ closure' \in Closures /\ taken' \in 0..MaxInputs
        /\ received' \subseteq Events
    <2>1. trigger' \in BOOLEAN
      BY DEF ApplyEvent, TypeOK
    <2>2. closure' \in Closures
      BY DEF ApplyEvent, TypeOK, Closures
    <2>3. taken' \in 0..MaxInputs
      BY DeskBoundsAssumption DEF ApplyEvent, TypeOK, Input
    <2>4. received' \subseteq Events
      BY DEF ApplyEvent, TypeOK
    <2>. QED  BY <2>1, <2>2, <2>3, <2>4
  <1>10. UNCHANGED <<instructions, epoch, boundary, effects, learned, status, next_wake_at,
                     review, decisions, now, report>>
    BY DEF ApplyEvent
  <1>. QED
    BY <1>4, <1>5, <1>7, <1>8, <1>9, <1>10 DEF TypeOK, effects, learned

LEMMA InstructionTyped ==
    ASSUME TypeOK, ApplySomeInstruction
    PROVE  /\ TypeOK'
           /\ UNCHANGED <<facts, epoch, evidence, effects, learned, status, next_wake_at,
                          closure, review, decisions, now, received, report>>
           /\ context' = context + 1 /\ last_sequence' = last_sequence + 1 /\ trigger' = TRUE
           /\ Open
  <1>1. PICK i \in Instructions, operation \in {"add", "supersede", "remove"},
             k \in 0..InstructionCapacity : ApplyInstruction(operation, k, i)
    BY DeskBoundsAssumption DEF ApplySomeInstruction
  <1>2. Requested(operation, k, i) \in Seq(Instructions)
    <2>1. instructions \in Seq(Instructions)
      BY DEF TypeOK
    <2>2. CASE operation = "add"
      BY <2>1, <2>2 DEF Requested
    <2>3. CASE operation # "add"
      <3>1. k \in DOMAIN instructions
        BY <1>1, <2>3 DEF ApplyInstruction
      <3>2. /\ Len(instructions) \in Nat /\ k \in 1..Len(instructions)
            /\ \A j \in 1..Len(instructions) : instructions[j] \in Instructions
        BY <2>1, <3>1
      <3>3. SubSeq(instructions, 1, k - 1) \in Seq(Instructions)
        BY <2>1, <3>2
      <3>4. SubSeq(instructions, k + 1, Len(instructions)) \in Seq(Instructions)
        BY <2>1, <3>2
      <3>5. Without(k) \in Seq(Instructions)
        BY <3>3, <3>4 DEF Without
      <3>. QED  BY <3>5, <2>3 DEF Requested
    <2>. QED  BY <2>2, <2>3
  <1>3. /\ instructions' \in Seq(Instructions) /\ Len(instructions') <= InstructionCapacity
        /\ UNCHANGED <<facts, epoch, evidence, effects, learned, status, next_wake_at,
                       closure, review, decisions, now, received, report>>
        /\ context' = context + 1 /\ last_sequence' = last_sequence + 1 /\ trigger' = TRUE
        /\ Open
    BY <1>1, <1>2 DEF ApplyInstruction
  <1>4. taken' \in 0..MaxInputs
    <2>1. Input
      BY <1>1 DEF ApplyInstruction
    <2>. QED  BY <2>1, InputTaken
  <1>5. /\ last_sequence' \in Nat /\ last_sequence' >= last_sequence
        /\ context' \in Nat /\ context' >= context /\ epoch' \in Nat /\ epoch' >= epoch
    BY <1>3, Counted
  <1>6. TypeOK'
    BY <1>3, <1>4, <1>5, LogGrows DEF TypeOK, evidence, effects, learned
  <1>. QED  BY <1>3, <1>6

LEMMA HoldTyped ==
    ASSUME TypeOK, CoverageHonest, NEW waited \in BOOLEAN, HoldAndResume(waited)
    PROVE  /\ TypeOK'
           /\ summary'.through >= summary.through /\ summary'.through <= last_sequence'
           /\ summary'.provenance = "model" => summary' = summary
  <1>1. summary \in MemorySummary /\ summary.through <= last_sequence /\ last_sequence \in Nat
        /\ epoch \in Nat /\ summary.through \in Nat
    BY DEF TypeOK, CoverageHonest, MemorySummary
  <1>2. /\ last_sequence' \in Nat /\ last_sequence' >= last_sequence + 2
        /\ context' = context /\ epoch' = epoch + 2
    BY <1>1 DEF HoldAndResume
  <1>3. /\ summary' \in MemorySummary /\ summary'.through >= summary.through
        /\ summary'.through <= last_sequence'
        /\ summary'.provenance = "model" => summary' = summary
    <2>1. CASE summary' = summary
      BY <1>1, <1>2, <2>1
    <2>2. CASE summary' = deterministic(summary, last_sequence + 1, last_sequence + 2)
               /\ last_sequence' = last_sequence + 3
      BY <1>1, <2>2, Deterministic
    <2>. QED  BY <2>1, <2>2, <1>1 DEF HoldAndResume, Refreshed
  <1>4. taken' \in 0..MaxInputs
    BY InputTaken DEF HoldAndResume
  <1>5. /\ last_sequence' >= last_sequence /\ context' \in Nat /\ context' >= context
        /\ epoch' \in Nat /\ epoch' >= epoch
    <2>1. context \in Nat
      BY DEF TypeOK
    <2>2. last_sequence' >= last_sequence
      BY <1>1, <1>2
    <2>3. context' \in Nat /\ context' >= context
      BY <1>2, <2>1
    <2>. QED  BY <1>1, <1>2, <2>2, <2>3
  <1>6. TypeOK'
    BY <1>1, <1>2, <1>3, <1>4, <1>5, LogGrows DEF TypeOK, HoldAndResume, evidence, effects
  <1>. QED  BY <1>3, <1>6

LEMMA ControlTyped ==
    ASSUME TypeOK, Terminate \/ Age \/ Tick \/ FailAndResume
    PROVE  TypeOK'
  <1>1. /\ last_sequence' \in Nat /\ last_sequence' >= last_sequence
        /\ context' \in Nat /\ context' >= context /\ epoch' \in Nat /\ epoch' >= epoch
    <2>1. context' = context /\ epoch' \in {epoch, epoch + 1}
      BY DEF Terminate, Age, Tick, FailAndResume, situation
    <2>2. last_sequence' \in {last_sequence, last_sequence + 1, last_sequence + 2}
      BY DEF Terminate, Age, Tick, FailAndResume
    <2>. QED  BY <2>1, <2>2, Counted
  <1>2. taken' \in 0..MaxInputs
    <2>1. CASE Terminate \/ FailAndResume
      BY <2>1, InputTaken DEF Terminate, FailAndResume
    <2>2. CASE Age \/ Tick
      BY <2>2, Counted DEF Age, Tick, inputs
    <2>. QED  BY <2>1, <2>2
  <1>3. CASE Terminate
    BY <1>1, <1>2, <1>3, LogGrows DEF TypeOK, Terminate, evidence, effects, learned, Closures
  <1>4. CASE Age
    BY <1>1, <1>2, <1>4, LogGrows
    DEF TypeOK, Age, situation, evidence, effects, learned, inputs, Closures
  <1>5. CASE Tick
    <2>1. now' \in StartedAt..MaximumAge
      <3>1. now' = now + 1 /\ now < MaximumAge
        BY <1>5 DEF Tick
      <3>. QED  BY <3>1, Counted, ProfileAssumption DEF StartedAt
    <2>. QED
      BY <1>1, <1>2, <1>5, <2>1, LogGrows
      DEF TypeOK, Tick, situation, evidence, effects, learned, control
  <1>6. CASE FailAndResume
    BY <1>1, <1>2, <1>6, LogGrows DEF TypeOK, FailAndResume, evidence, effects, learned
  <1>. QED  BY <1>3, <1>4, <1>5, <1>6

LEMMA BeginTyped ==
    ASSUME TypeOK, BeginReview
    PROVE  /\ TypeOK'
           /\ review'.context = context /\ review'.through = last_sequence'
           /\ review'.read = plan(deferred, facts, recent, boundary)
  <1>1. /\ last_sequence' \in Nat /\ last_sequence' >= last_sequence
        /\ context' = context /\ context \in Nat /\ epoch' = epoch /\ epoch \in Nat
    BY DEF TypeOK, BeginReview, situation
  <1>2. plan(deferred, facts, recent, boundary) \subseteq 1..last_sequence'
    <2>1. deferred \cup recent \subseteq 1..last_sequence'
      BY <1>1, LogGrows
    <2>2. unresolved_evidence(facts) \subseteq 1..last_sequence'
      <3>1. FactsUpTo(facts, last_sequence')
        BY <1>1, LogGrows
      <3>. QED  BY <3>1 DEF unresolved_evidence, FactsUpTo, IssuesUpTo
    <2>3. Pending(deferred, facts, boundary) \subseteq 1..last_sequence'
      BY <2>1, <2>2 DEF Pending
    <2>. QED  BY <2>1, <2>3 DEF plan, Newest
  <1>3. /\ review' = [at |-> "thinking", context |-> context, epoch |-> epoch,
                      through |-> last_sequence + 1,
                      read |-> plan(deferred, facts, recent, boundary)]
        /\ last_sequence' = last_sequence + 1 /\ decisions' = decisions + 1
    BY DEF BeginReview
  <1>4. review' \in [at : {"idle", "thinking"}, context : 0..context', epoch : 0..epoch',
                     through : 0..last_sequence', read : SUBSET (1..last_sequence')]
    BY <1>1, <1>2, <1>3
  <1>5. /\ FactsUpTo(facts, last_sequence') /\ deferred \cup recent \subseteq 1..last_sequence'
        /\ guidance.epoch \in 0..epoch'
    BY <1>1, LogGrows
  <1>6. /\ last_sequence' \in Nat /\ decisions' \in Nat /\ trigger' = FALSE
        /\ status' = "evaluating"
    BY <1>1, <1>3 DEF TypeOK, BeginReview
  <1>7. UNCHANGED <<facts, instructions, context, epoch, deferred, recent, boundary, messages,
                    draft, guidance, summary, next_wake_at, closure, now, received, taken,
                    report>>
    BY DEF BeginReview, situation, evidence, effects, learned, inputs
  <1>8. TypeOK'
    BY <1>4, <1>5, <1>6, <1>7 DEF TypeOK
  <1>. QED  BY <1>3, <1>8

LEMMA DiscardTyped ==
    ASSUME TypeOK, DiscardReview
    PROVE  TypeOK' /\ last_sequence' \in Nat /\ last_sequence' > last_sequence
  <1>1. PICK p \in Answers : last_sequence' = last_sequence + 1 + Len(p.actions)
    BY DEF DiscardReview
  <1>2. /\ last_sequence' \in Nat /\ last_sequence' > last_sequence /\ last_sequence \in Nat
        /\ context' = context /\ context \in Nat /\ epoch' = epoch /\ epoch \in Nat
    <2>1. p.actions \in Seq(ActionProposal)
      BY AnswersTyped
    <2>2. Len(p.actions) \in Nat
      BY <2>1
    <2>3. context' = context /\ epoch' = epoch
      BY DEF DiscardReview, situation
    <2>4. last_sequence \in Nat /\ context \in Nat /\ epoch \in Nat
      BY DEF TypeOK
    <2>5. last_sequence' \in Nat /\ last_sequence' > last_sequence
      <3>1. PICK k \in Nat : last_sequence' = last_sequence + 1 + k
        BY <1>1, <2>2
      <3>. QED  BY <3>1, <2>4
    <2>. QED  BY <2>3, <2>4, <2>5
  <1>3. closure' \in Closures /\ trigger' \in BOOLEAN
    BY DEF DiscardReview, TypeOK, Closures
  <1>4. /\ FactsUpTo(facts, last_sequence') /\ deferred \cup recent \subseteq 1..last_sequence'
        /\ guidance.epoch \in 0..epoch'
        /\ NoReview \in [at : {"idle", "thinking"}, context : 0..context', epoch : 0..epoch',
                         through : 0..last_sequence', read : SUBSET (1..last_sequence')]
    <2>1. last_sequence' >= last_sequence /\ context' \in Nat /\ context' >= context
          /\ epoch' \in Nat /\ epoch' >= epoch
      BY <1>2
    <2>. QED  BY <1>2, <2>1, LogGrows
  <1>5. UNCHANGED <<facts, instructions, context, epoch, deferred, recent, boundary, messages,
                    draft, guidance, summary, status, next_wake_at, decisions, now, received,
                    taken, report>>
        /\ review' = NoReview
    BY DEF DiscardReview, situation, evidence, effects, learned, inputs
  <1>6. TypeOK'
    BY <1>2, <1>3, <1>4, <1>5 DEF TypeOK
  <1>. QED  BY <1>2, <1>6

LEMMA SettleTyped ==
    ASSUME TypeOK, CoverageHonest, SettleMemory
    PROVE  /\ TypeOK'
           /\ summary'.through >= summary.through /\ summary'.through <= last_sequence'
           /\ summary'.provenance # "model"
  <1>1. summary \in MemorySummary /\ summary.through <= last_sequence /\ last_sequence \in Nat
    BY DEF TypeOK, CoverageHonest
  <1>2. /\ last_sequence' = last_sequence + 1
        /\ summary' = deterministic(summary, last_sequence, last_sequence + 1)
    BY DEF SettleMemory, Refreshed
  <1>3. /\ summary' \in MemorySummary /\ summary'.through >= summary.through
        /\ summary'.through <= last_sequence' /\ summary'.provenance = "deterministic"
    BY <1>1, <1>2, Deterministic
  <1>4. /\ last_sequence' \in Nat /\ last_sequence' >= last_sequence
        /\ context' = context /\ context \in Nat /\ epoch' = epoch /\ epoch \in Nat
    <2>1. context' = context /\ epoch' = epoch
      BY DEF SettleMemory, situation
    <2>. QED  BY <1>1, <1>2, <2>1, Counted
  <1>5. TypeOK'
    <2>1. /\ UNCHANGED <<facts, instructions, context, epoch, deferred, recent, boundary,
                         messages, draft, guidance, status, next_wake_at, trigger, closure,
                         review, decisions, now, received, taken, report>>
      BY DEF SettleMemory, situation, evidence, effects, control, inputs
    <2>2. /\ FactsUpTo(facts, last_sequence') /\ deferred \cup recent \subseteq 1..last_sequence'
          /\ guidance.epoch \in 0..epoch'
          /\ review \in [at : {"idle", "thinking"}, context : 0..context', epoch : 0..epoch',
                         through : 0..last_sequence', read : SUBSET (1..last_sequence')]
      <3>1. last_sequence' >= last_sequence /\ context' \in Nat /\ context' >= context
            /\ epoch' \in Nat /\ epoch' >= epoch
        BY <1>4
      <3>. QED  BY <1>4, <3>1, LogGrows
    <2>. QED  BY <1>3, <1>4, <2>1, <2>2 DEF TypeOK
  <1>. QED  BY <1>3, <1>5

(* What is recorded of a message.                                           *)
LEMMA ReceiptTyped ==
    ASSUME TypeOK, NEW p \in ActionProposal, NEW s \in Nat, NEW d \in Nat, NEW b \in BOOLEAN
    PROVE  LET m == Receipt(p, s, d, b) IN
           /\ m \in Message
           /\ m.sequence = s /\ m.audience = audience_of(p) /\ m.issue = p.issue
           /\ m.at = now /\ m.decision = d /\ m.approved = b
           /\ m.evidence \in Nat /\ m.evidence <= last_sequence
           /\ has_issue(facts, p.issue) =>
                  m.evidence = issue_evidence_sequence(facts.issues[p.issue])
  <1>. DEFINE known == IF has_issue(facts, p.issue)
                       THEN issue_evidence_sequence(facts.issues[p.issue]) ELSE 0
              m == Receipt(p, s, d, b)
  <1>1. last_sequence \in Nat /\ now \in Nat
    BY DEF TypeOK, StartedAt
  <1>2. known \in 0..last_sequence
    <2>1. CASE has_issue(facts, p.issue)
      <3>1. facts.issues[p.issue].evidence \in SUBSET (1..last_sequence)
        BY <2>1 DEF TypeOK, FactsUpTo, IssuesUpTo, has_issue
      <3>2. facts.issues[p.issue].evidence \in SUBSET (0..last_sequence)
        BY <1>1, <3>1
      <3>. QED  BY <1>1, <2>1, <3>2, LargestIsEntry DEF issue_evidence_sequence
    <2>2. CASE ~has_issue(facts, p.issue)
      BY <1>1, <2>2
    <2>. QED  BY <2>1, <2>2
  <1>3. audience_of(p) \in Audiences /\ p.issue \in IssueIds \cup {NoIssue}
    BY AudienceTyped DEF ActionProposal
  <1>4. m = [sequence |-> s, audience |-> audience_of(p), issue |-> p.issue, evidence |-> known,
             at |-> now, decision |-> d, approved |-> b]
    BY DEF Receipt
  <1>. HIDE DEF known, m
  <1>5. m \in Message
    BY <1>1, <1>2, <1>3, <1>4 DEF Message
  <1>6. /\ m.sequence = s /\ m.audience = audience_of(p) /\ m.issue = p.issue
        /\ m.at = now /\ m.decision = d /\ m.approved = b /\ m.evidence = known
    BY <1>4
  <1>7. m.evidence \in Nat /\ m.evidence <= last_sequence
    BY <1>1, <1>2, <1>6
  <1>. QED  BY <1>5, <1>6, <1>7 DEF m, known

DraftedMessageTyped ==
    /\ DraftedMessage \in ActionProposal /\ audience_of(DraftedMessage) = "customer"
    /\ DraftedMessage.issue = draft.issue

LEMMA DraftedTyped == TypeOK => DraftedMessageTyped
  <1>. SUFFICES ASSUME TypeOK PROVE DraftedMessageTyped
    OBVIOUS
  <1>1. draft.issue \in IssueIds \cup {NoIssue}
    BY DEF TypeOK, Draft
  <1>2. DraftedMessage \in ActionProposal
    BY <1>1 DEF DraftedMessage, ActionProposal, REGISTRY
  <1>. QED  BY <1>2 DEF DraftedMessageTyped, DraftedMessage, audience_of, REGISTRY

LEMMA DraftTyped ==
    ASSUME TypeOK,
           (\E decision \in {"approved", "rejected"} : ApplyReview(decision)) \/ OutdateDraft
    PROVE  /\ TypeOK'
           /\ last_sequence' = last_sequence + 1 /\ Open
           /\ draft'.issue = draft.issue /\ draft'.context = draft.context
           /\ draft'.status \in {"approved", "rejected", "outdated"}
           /\ draft'.decision = draft.decision
           /\ draft'.status = "approved" => draft.status = "pending"
           /\ UNCHANGED <<situation, evidence, messages, learned, control, inputs, report>>
  <1>1. /\ UNCHANGED <<situation, evidence, messages, learned, control, inputs, report>>
        /\ last_sequence' = last_sequence + 1 /\ Open
    BY DEF ApplyReview, OutdateDraft
  <1>2. draft \in Draft
    BY DEF TypeOK
  <1>3. PICK s \in {"approved", "rejected", "outdated"} :
            draft' = [draft EXCEPT !.status = s] /\ (s = "approved" => draft.status = "pending")
    BY DEF ApplyReview, OutdateDraft
  <1>4. /\ draft'.issue = draft.issue /\ draft'.context = draft.context
        /\ draft'.status = s /\ draft'.decision = draft.decision /\ draft' \in Draft
    BY <1>2, <1>3 DEF Draft
  <1>5. /\ last_sequence' \in Nat /\ last_sequence' >= last_sequence
        /\ context' \in Nat /\ context' >= context /\ epoch' \in Nat /\ epoch' >= epoch
    BY <1>1 DEF TypeOK, situation
  <1>6. TypeOK'
    BY <1>1, <1>4, <1>5, LogGrows
    DEF TypeOK, situation, evidence, learned, control, inputs
  <1>. QED  BY <1>1, <1>3, <1>4, <1>6

LEMMA ReleaseTyped ==
    ASSUME TypeOK, ReleaseDraft
    PROVE  TypeOK'
  <1>. DEFINE m == Receipt(DraftedMessage, last_sequence + 1, draft.decision, TRUE)
  <1>1. /\ last_sequence' = last_sequence + 2 /\ context' = context + 1 /\ epoch' = epoch
        /\ last_sequence \in Nat /\ context \in Nat /\ epoch \in Nat /\ now \in Nat
    BY DEF TypeOK, ReleaseDraft, StartedAt
  <1>2. /\ last_sequence' \in Nat /\ last_sequence' >= last_sequence
        /\ context' \in Nat /\ context' >= context /\ epoch' \in Nat /\ epoch' >= epoch
    BY <1>1
  <1>3. FactsUpTo(facts', last_sequence')
    <2>1. FactsUpTo(Contacted(facts, {DraftedMessage}, now), last_sequence)
      BY <1>1, Contacting DEF TypeOK
    <2>. QED  BY <1>1, <1>2, <2>1, UpToLater DEF ReleaseDraft
  <1>4. messages' \subseteq Message
    <2>1. draft.decision \in Nat
      BY DEF TypeOK, Draft
    <2>. DEFINE s == last_sequence + 1
                b == TRUE
    <2>4. s \in Nat /\ b \in BOOLEAN /\ DraftedMessage \in ActionProposal
      BY <1>1, DraftedTyped DEF DraftedMessageTyped
    <2>5. m = Receipt(DraftedMessage, s, draft.decision, b)
      OBVIOUS
    <2>. HIDE DEF s, b, m
    <2>2. m \in Message
      BY <2>1, <2>4, <2>5, ReceiptTyped
    <2>3. messages' = messages \cup {m}
      BY DEF ReleaseDraft, m
    <2>. QED  BY <2>2, <2>3 DEF TypeOK
  <1>5. draft' \in Draft
    BY DEF ReleaseDraft, Draft, NoDraft
  <1>6. UNCHANGED <<instructions, epoch, evidence, learned, control, inputs, report>>
    BY DEF ReleaseDraft
  <1>. QED
    BY <1>2, <1>3, <1>4, <1>5, <1>6, LogGrows DEF TypeOK, evidence, learned, control, inputs

---------------------------------------------------------------------------
(* A decision that is recorded, and its parts.                              *)
Sent(p) == {p.actions[k] : k \in Judged(p).admitted}

Receipts(p) ==
    {Receipt(p.actions[k], Placed(k, Judged(p).admitted), decisions, FALSE) :
        k \in Judged(p).admitted}

Accepted(p) == check(p.hints, facts, now)

Kept(p) == Absorbed(p.refresh, Recorded(p, Accepted(p)))

Wake(p) == effective_wake(p.sleep, effective_policy(instructions), Hints, now)

LEMMA Recording ==
    ASSUME TypeOK, CoverageHonest, NEW p \in Answers, RecordDecision(p)
    PROVE  /\ Open /\ ~Idle /\ ~Stale
           /\ context' = IF Judged(p).admitted \cup Judged(p).draft # {} THEN context + 1
                         ELSE context
           /\ facts' = Contacted(facts, Sent(p), now)
           /\ messages' = messages \cup Receipts(p)
           /\ Judged(p).draft = {} => draft' = draft
           /\ Judged(p).draft # {} =>
                  \E k \in Judged(p).draft :
                      draft' = [status |-> "pending", context |-> context',
                                decision |-> decisions, issue |-> p.actions[k].issue]
           /\ boundary' = review.through
           /\ deferred' = still_pending(deferred, review.through)
           /\ guidance' = IF Accepted(p) = {} THEN guidance
                          ELSE [epoch |-> epoch, hints |-> Accepted(p)]
           /\ summary' = Kept(p).summary
           /\ last_sequence' = last_sequence + Kept(p).entries + 1
           /\ status' = "sleeping" /\ next_wake_at' = Wake(p) /\ review' = NoReview
           /\ UNCHANGED <<instructions, epoch, recent, trigger, closure, decisions, inputs,
                          report>>
  <1>1. Judged(p).draft # {} =>
            \E k \in Judged(p).draft :
                draft' = [status |-> "pending", context |-> context',
                          decision |-> decisions, issue |-> p.actions[k].issue]
    BY DEF RecordDecision, Judged
  <1>2. boundary' = review.through /\ deferred' = still_pending(deferred, review.through)
    BY DEF RecordDecision, Considered
  <1>3. messages' = messages \cup Receipts(p) /\ facts' = Contacted(facts, Sent(p), now)
    BY DEF RecordDecision, Receipts, Sent, Judged
  <1>4. /\ summary' = Kept(p).summary /\ last_sequence' = last_sequence + Kept(p).entries + 1
        /\ guidance' = IF Accepted(p) = {} THEN guidance
                       ELSE [epoch |-> epoch, hints |-> Accepted(p)]
    BY DEF RecordDecision, Kept, Accepted
  <1>5. /\ Open /\ ~Idle /\ ~Stale
        /\ context' = IF Judged(p).admitted \cup Judged(p).draft # {} THEN context + 1
                      ELSE context
        /\ Judged(p).draft = {} => draft' = draft
        /\ status' = "sleeping" /\ review' = NoReview
        /\ UNCHANGED <<instructions, epoch, recent, trigger, closure, decisions, inputs, report>>
    BY DEF RecordDecision, Judged
  <1>6. next_wake_at' = Wake(p)
    BY DEF RecordDecision, Wake
  <1>. QED  BY <1>1, <1>2, <1>3, <1>4, <1>5, <1>6

(* The log of a decision.                                                   *)
LEMMA RecordingLog ==
    ASSUME TypeOK, CoverageHonest, NEW p \in Answers, RecordDecision(p)
    PROVE  /\ last_sequence' \in Nat /\ last_sequence' > last_sequence
           /\ context' \in Nat /\ context' >= context /\ epoch' = epoch
           /\ summary' \in MemorySummary /\ summary'.through >= summary.through
           /\ summary'.through <= last_sequence'
           /\ summary'.provenance = "model" =>
                  summary' = summary \/ summary'.through <= boundary'
           /\ \A m \in Receipts(p) :
                  /\ m \in Message /\ ~m.approved
                  /\ m.decision = decisions /\ m.at = now
                  /\ m.sequence > last_sequence /\ m.sequence <= last_sequence'
                  /\ m.evidence <= last_sequence
                  /\ \E k \in Judged(p).admitted :
                         /\ m.audience = audience_of(p.actions[k])
                         /\ m.issue = p.actions[k].issue
                  /\ m.issue \in DOMAIN facts.issues =>
                         m.evidence = issue_evidence_sequence(facts.issues[m.issue])
  <1>1. /\ Recorded(p, Accepted(p)) \in Nat /\ p.refresh \in Nat /\ last_sequence \in Nat
        /\ decisions \in Nat /\ context \in Nat /\ epoch \in Nat
    BY DecisionTyped, AnswersTyped DEF Accepted, TypeOK
  <1>. DEFINE kept == Kept(p)
  <1>2. /\ kept.summary \in MemorySummary
        /\ kept.entries \in Nat /\ kept.entries >= Recorded(p, Accepted(p))
        /\ kept.summary.through >= summary.through
        /\ kept.summary.through <= last_sequence + kept.entries
        /\ kept.summary.provenance = "model" =>
               kept.summary = summary \/ kept.summary.through <= review.through
    BY <1>1, Absorbing DEF Kept
  <1>3. /\ last_sequence' = last_sequence + kept.entries + 1 /\ summary' = kept.summary
        /\ boundary' = review.through /\ epoch' = epoch /\ context' \in {context, context + 1}
    BY Recording
  <1>. HIDE DEF kept
  <1>4. /\ last_sequence' \in Nat /\ last_sequence' > last_sequence
        /\ last_sequence' > last_sequence + Recorded(p, Accepted(p))
    BY <1>1, <1>2, <1>3
  <1>5. context' \in Nat /\ context' >= context
    BY <1>1, <1>3
  <1>6. /\ summary' \in MemorySummary /\ summary'.through >= summary.through
        /\ summary'.through <= last_sequence'
        /\ summary'.provenance = "model" => summary' = summary \/ summary'.through <= boundary'
    <2>1. summary'.through \in Nat
      BY <1>2, <1>3 DEF MemorySummary
    <2>. QED  BY <1>1, <1>2, <1>3, <2>1
  <1>7. ASSUME NEW m \in Receipts(p)
        PROVE  /\ m \in Message /\ ~m.approved
               /\ m.decision = decisions /\ m.at = now
               /\ m.sequence > last_sequence /\ m.sequence <= last_sequence'
               /\ m.evidence <= last_sequence
               /\ \E k \in Judged(p).admitted :
                      m.audience = audience_of(p.actions[k]) /\ m.issue = p.actions[k].issue
               /\ m.issue \in DOMAIN facts.issues =>
                      m.evidence = issue_evidence_sequence(facts.issues[m.issue])
    <2>1. PICK k \in Judged(p).admitted :
              m = Receipt(p.actions[k], Placed(k, Judged(p).admitted), decisions, FALSE)
      BY DEF Receipts
    <2>. DEFINE place == Placed(k, Judged(p).admitted)
    <2>2. /\ place \in Nat /\ place > last_sequence
          /\ place <= last_sequence + Recorded(p, Accepted(p))
          /\ p.actions[k] \in ActionProposal
      BY DecisionTyped DEF Accepted
    <2>. DEFINE b == FALSE
    <2>5. m = Receipt(p.actions[k], place, decisions, b) /\ b \in BOOLEAN /\ b = FALSE
      BY <2>1
    <2>. HIDE DEF place, b
    <2>3. /\ m \in Message /\ ~m.approved /\ m.sequence = place
          /\ m.decision = decisions /\ m.at = now /\ m.evidence <= last_sequence
          /\ m.audience = audience_of(p.actions[k]) /\ m.issue = p.actions[k].issue
          /\ m.issue \in DOMAIN facts.issues =>
                 m.evidence = issue_evidence_sequence(facts.issues[m.issue])
      BY <1>1, <2>2, <2>5, ReceiptTyped DEF has_issue
    <2>4. m.sequence <= last_sequence'
      BY <1>1, <1>4, <2>2, <2>3
    <2>. QED  BY <2>2, <2>3, <2>4
  <1>. QED  BY <1>3, <1>4, <1>5, <1>6, <1>7

LEMMA RecordTyped ==
    ASSUME TypeOK, CoverageHonest, GuidanceKnown, NEW p \in Answers, RecordDecision(p)
    PROVE  TypeOK'
  <1>1. /\ last_sequence' \in Nat /\ last_sequence' > last_sequence /\ last_sequence \in Nat
        /\ context' \in Nat /\ context' >= context /\ epoch' = epoch /\ epoch \in Nat
        /\ now \in Nat
    BY RecordingLog DEF TypeOK, StartedAt
  <1>2. FactsUpTo(facts', last_sequence')
    <2>1. FactsUpTo(Contacted(facts, Sent(p), now), last_sequence)
      BY <1>1, Contacting DEF TypeOK
    <2>. QED  BY <1>1, <2>1, Recording, UpToLater
  <1>3. messages' \subseteq Message
    <2>1. messages' = messages \cup Receipts(p)
      BY Recording
    <2>. QED  BY <2>1, RecordingLog DEF TypeOK
  <1>4. draft' \in Draft
    <2>1. CASE Judged(p).draft = {}
      BY <2>1, Recording DEF TypeOK
    <2>2. CASE Judged(p).draft # {}
      <3>1. PICK k \in Judged(p).draft :
                draft' = [status |-> "pending", context |-> context',
                          decision |-> decisions, issue |-> p.actions[k].issue]
        BY <2>2, Recording
      <3>2. p.actions[k].issue \in IssueIds \cup {NoIssue}
        BY DecisionTyped DEF ActionProposal
      <3>. QED  BY <1>1, <3>1, <3>2 DEF Draft, TypeOK
    <2>. QED  BY <2>1, <2>2
  <1>5. /\ deferred \cup recent \subseteq 1..last_sequence'
        /\ NoReview \in [at : {"idle", "thinking"}, context : 0..context', epoch : 0..epoch',
                         through : 0..last_sequence', read : SUBSET (1..last_sequence')]
    <2>1. last_sequence' >= last_sequence /\ epoch' \in Nat /\ epoch' >= epoch
      BY <1>1
    <2>. QED  BY <1>1, <2>1, LogGrows
  <1>6. deferred' \cup recent' \subseteq 1..last_sequence'
    <2>1. deferred' = still_pending(deferred, review.through) /\ recent' = recent
      BY Recording
    <2>. QED  BY <1>5, <2>1 DEF still_pending
  <1>7. guidance'.epoch \in 0..epoch' /\ guidance'.hints \subseteq WakeHint
    <2>1. guidance' \in {guidance, [epoch |-> epoch, hints |-> Accepted(p)]}
      BY Recording
    <2>2. Accepted(p) \subseteq WakeHint
      BY DecisionTyped, AnswersTyped DEF Accepted
    <2>. QED  BY <1>1, <2>1, <2>2 DEF TypeOK
  <1>8. next_wake_at' \in 0..MaximumAge
    <2>1. effective_policy(instructions).prioritize_speed \in BOOLEAN
      BY PolicyTyped
    <2>2. Hints \in SUBSET WakeHint
      BY DEF Hints, active, TypeOK
    <2>3. \A h \in Hints : h.kind = "shorten_review" => Minimum <= h.after
      BY DEF Hints, active, GuidanceKnown
    <2>4. p.sleep \in Nat
      BY AnswersTyped
    <2>5. PICK interval \in Minimum..Maximum : Wake(p) = Smaller(now + interval, MaximumAge)
      BY <1>1, <2>1, <2>2, <2>3, <2>4, IntervalInRange DEF Wake
    <2>6. Wake(p) \in 0..MaximumAge
      BY <1>1, <2>5, ProfileAssumption DEF Smaller
    <2>. QED  BY <2>6, Recording
  <1>9. /\ boundary' \in Nat /\ summary' \in MemorySummary /\ status' = "sleeping"
        /\ review' = NoReview
    <2>1. review.through \in 0..last_sequence
      BY DEF TypeOK
    <2>. QED  BY <1>1, <2>1, Recording, RecordingLog
  <1>10. UNCHANGED <<instructions, epoch, recent, trigger, closure, decisions, now, received,
                     taken, report>>
    BY Recording DEF inputs
  <1>. QED
    BY <1>1, <1>2, <1>3, <1>4, <1>5, <1>6, <1>7, <1>8, <1>9, <1>10 DEF TypeOK

LEMMA FinalizeTyped ==
    ASSUME TypeOK, NEW claims \in Narratives, NEW asked \in BOOLEAN, NEW readable \in BOOLEAN,
           Finalize(claims, asked, readable)
    PROVE  TypeOK'
  <1>1. UNCHANGED <<situation, evidence, messages, learned, trigger, closure, review,
                    decisions, inputs, last_sequence>>
    BY DEF Finalize
  <1>2. draft' \in Draft /\ status' = "closed" /\ next_wake_at' \in 0..MaximumAge
    BY ProfileAssumption DEF Finalize, Draft, NoDraft, Never
  <1>3. report'.claims \in Narratives \cup {NoReport.claims}
    BY DEF Finalize
  <1>. QED  BY <1>1, <1>2, <1>3 DEF TypeOK, situation, evidence, learned, inputs

LEMMA StutterTyped ==
    ASSUME TypeOK, UNCHANGED vars
    PROVE  TypeOK'
  BY DEF vars, situation, evidence, effects, learned, control, inputs, TypeOK

LEMMA NextTyped ==
    ASSUME TypeOK, CoverageHonest, GuidanceKnown, [Next]_vars
    PROVE  TypeOK'
  <1>1. CASE \E e \in Events : ApplyEvent(e)
    BY <1>1, EventTyped
  <1>2. CASE ApplySomeInstruction
    BY <1>2, InstructionTyped
  <1>3. CASE \E waited \in BOOLEAN : HoldAndResume(waited)
    BY <1>3, HoldTyped
  <1>4. CASE Terminate \/ Age \/ Tick \/ FailAndResume
    BY <1>4, ControlTyped
  <1>5. CASE (\E decision \in {"approved", "rejected"} : ApplyReview(decision)) \/ OutdateDraft
    BY <1>5, DraftTyped
  <1>6. CASE ReleaseDraft
    BY <1>6, ReleaseTyped
  <1>7. CASE BeginReview
    BY <1>7, BeginTyped
  <1>8. CASE DiscardReview
    BY <1>8, DiscardTyped
  <1>9. CASE \E p \in Answers : RecordDecision(p)
    BY <1>9, RecordTyped
  <1>10. CASE SettleMemory
    BY <1>10, SettleTyped
  <1>11. CASE \E claims \in Narratives, asked, readable \in BOOLEAN :
                  Finalize(claims, asked, readable)
    BY <1>11, FinalizeTyped
  <1>12. CASE UNCHANGED vars
    BY <1>12, StutterTyped
  <1>. QED
    BY <1>1, <1>2, <1>3, <1>4, <1>5, <1>6, <1>7, <1>8, <1>9, <1>10, <1>11, <1>12 DEF Next

---------------------------------------------------------------------------
(* What a step does to the documents the invariants speak of: an event, a    *)
(* release and a decision change them, and no other step.                   *)
Reading(e) == interpret(facts, e, last_sequence + 1, now)

Woken(e) == classify(Reading(e), instructions, e.type, Hints)

LEMMA Applying ==
    ASSUME TypeOK, NEW e \in Events, ApplyEvent(e)
    PROVE  /\ Open /\ Interpreted(facts, e, Reading(e), last_sequence + 1)
           /\ e \in Event /\ e \notin received /\ received' = received \cup {e}
           /\ facts' = Reading(e).facts
           /\ context' = IF Reading(e).material THEN context + 1 ELSE context
           /\ last_sequence' = last_sequence + 2
           /\ closure' = IF Reading(e).terminal THEN "delivered" ELSE closure
           /\ trigger' = (trigger \/ Woken(e).wake)
           /\ deferred' = IF Woken(e).outcome # "deferred" THEN deferred
                          ELSE Newest(deferred \cup {last_sequence + 1}, EvidenceReferences)
           /\ Input
           /\ UNCHANGED <<messages, draft, guidance, summary, boundary, review, now, report,
                          status, next_wake_at>>
  <1>1. last_sequence \in Nat /\ last_sequence + 1 \in Nat /\ last_sequence + 1 > last_sequence
        /\ now \in Nat /\ e \in Event /\ FactsUpTo(facts, last_sequence)
    BY InputsAssumption DEF TypeOK, StartedAt
  <1>2. Interpreted(facts, e, Reading(e), last_sequence + 1)
    BY <1>1, Interpretation DEF Reading
  <1>3. /\ Open /\ e \notin received /\ received' = received \cup {e}
        /\ facts' = Reading(e).facts
        /\ context' = IF Reading(e).material THEN context + 1 ELSE context
        /\ last_sequence' = last_sequence + 2
        /\ closure' = IF Reading(e).terminal THEN "delivered" ELSE closure
        /\ trigger' = (trigger \/ Woken(e).wake)
        /\ deferred' = IF Woken(e).outcome # "deferred" THEN deferred
                       ELSE Newest(deferred \cup {last_sequence + 1}, EvidenceReferences)
        /\ Input
        /\ UNCHANGED <<messages, draft, guidance, summary, boundary, review, now, report,
                       status, next_wake_at>>
    BY DEF ApplyEvent, Reading, Woken, effects, learned
  <1>. QED  BY <1>1, <1>2, <1>3

LEMMA Releasing ==
    ASSUME TypeOK, ReleaseDraft
    PROVE  /\ Open /\ Idle /\ draft.status = "approved" /\ ~DraftStale
           /\ facts' = Contacted(facts, {DraftedMessage}, now)
           /\ last_sequence' = last_sequence + 2 /\ context' = context + 1
           /\ draft' = NoDraft
           /\ \E m \in Message :
                  /\ messages' = messages \cup {m}
                  /\ m.sequence = last_sequence + 1 /\ m.audience = "customer" /\ m.approved
                  /\ m.issue = draft.issue /\ m.at = now /\ m.evidence <= last_sequence
                  /\ m.issue \in DOMAIN facts.issues =>
                         m.evidence = issue_evidence_sequence(facts.issues[m.issue])
           /\ UNCHANGED <<instructions, epoch, evidence, learned, control, inputs, report>>
  <1>. DEFINE s == last_sequence + 1
              b == TRUE
              m == Receipt(DraftedMessage, s, draft.decision, b)
  <1>1. /\ s \in Nat /\ b \in BOOLEAN /\ b = TRUE /\ draft.decision \in Nat
        /\ DraftedMessageTyped
    <2>1. draft.decision \in Nat
      BY DEF TypeOK, Draft
    <2>. QED  BY <2>1, DraftedTyped, Counted
  <1>2. messages' = messages \cup {m}
    BY DEF ReleaseDraft
  <1>. HIDE DEF b, m, s
  <1>3. m = Receipt(DraftedMessage, s, draft.decision, b)
    BY DEF m
  <1>4. /\ m \in Message /\ m.sequence = s /\ m.approved
        /\ m.audience = "customer" /\ m.issue = draft.issue /\ m.at = now
        /\ m.evidence <= last_sequence
        /\ m.issue \in DOMAIN facts.issues =>
               m.evidence = issue_evidence_sequence(facts.issues[m.issue])
    <2>1. /\ DraftedMessage \in ActionProposal /\ audience_of(DraftedMessage) = "customer"
          /\ DraftedMessage.issue = draft.issue
      BY <1>1 DEF DraftedMessageTyped
    <2>3. m \in Message
      BY <1>1, <1>3, <2>1, ReceiptTyped
    <2>4. /\ m.sequence = s /\ m.at = now /\ m.approved
          /\ m.audience = "customer" /\ m.issue = draft.issue
          /\ m.issue \in DOMAIN facts.issues =>
                 m.evidence = issue_evidence_sequence(facts.issues[m.issue])
      BY <1>1, <1>3, <2>1 DEF Receipt, has_issue
    <2>5. m.evidence <= last_sequence
      BY <1>1, <1>3, <2>1, ReceiptTyped
    <2>. QED  BY <2>3, <2>4, <2>5
  <1>. QED  BY <1>1, <1>2, <1>4 DEF ReleaseDraft, s

(* What every other step leaves alone.                                      *)
Elsewhere ==
    /\ UNCHANGED <<facts, messages, received, guidance, boundary, deferred>>
    /\ last_sequence' >= last_sequence /\ now' >= now
    /\ context' >= context /\ draft'.context <= context
    /\ LiveDraft' => LiveDraft /\ draft'.issue = draft.issue /\ draft'.context = draft.context
    /\ Open' => Open

LEMMA StepsElsewhere ==
    ASSUME TypeOK, CoverageHonest, DraftKnown, [Next]_vars,
           ~ \E e \in Events : ApplyEvent(e),
           ~ ReleaseDraft,
           ~ \E p \in Answers : RecordDecision(p)
    PROVE  Elsewhere
  <1>1. /\ last_sequence \in Nat /\ context \in Nat /\ now \in Nat
        /\ draft.context <= context /\ draft.context \in Nat
    BY DEF TypeOK, DraftKnown, StartedAt, Draft
  <1>2. CASE ApplySomeInstruction
    BY <1>1, <1>2, InstructionTyped DEF Elsewhere, effects, learned, evidence, LiveDraft, Open
  <1>3. CASE \E waited \in BOOLEAN : HoldAndResume(waited)
    BY <1>1, <1>3 DEF HoldAndResume, Elsewhere, effects, evidence, LiveDraft, Open
  <1>4. CASE Terminate \/ FailAndResume
    BY <1>1, <1>4 DEF Terminate, FailAndResume, Elsewhere, effects, learned, evidence,
                      LiveDraft, Open
  <1>5. CASE Age \/ Tick
    BY <1>1, <1>5 DEF Age, Tick, Elsewhere, situation, effects, learned, evidence, inputs, control,
                      LiveDraft, Open
  <1>6. CASE (\E decision \in {"approved", "rejected"} : ApplyReview(decision)) \/ OutdateDraft
    <2>1. /\ last_sequence' = last_sequence + 1 /\ Open
          /\ draft'.issue = draft.issue /\ draft'.context = draft.context
          /\ draft'.status \in {"approved", "rejected", "outdated"}
          /\ draft'.status = "approved" => draft.status = "pending"
          /\ UNCHANGED <<situation, evidence, messages, learned, control, inputs, report>>
      BY <1>6, DraftTyped
    <2>. QED
      BY <1>1, <2>1 DEF Elsewhere, situation, evidence, learned, inputs, control, LiveDraft, Open
  <1>7. CASE BeginReview
    BY <1>1, <1>7 DEF BeginReview, Elsewhere, situation, effects, learned, evidence, inputs,
                      LiveDraft, Open
  <1>8. CASE DiscardReview
    <2>1. last_sequence' > last_sequence /\ last_sequence' \in Nat
      BY <1>8, DiscardTyped
    <2>2. UNCHANGED <<facts, context, messages, draft, guidance, deferred, boundary, now,
                      received>>
      BY <1>8 DEF DiscardReview, situation, effects, learned, evidence, inputs
    <2>3. closure' = "none" => closure = "none"
      BY <1>8 DEF DiscardReview
    <2>. QED  BY <1>1, <2>1, <2>2, <2>3 DEF Elsewhere, LiveDraft, Open
  <1>9. CASE SettleMemory
    BY <1>1, <1>9 DEF SettleMemory, Elsewhere, situation, effects, evidence, inputs, control,
                      LiveDraft, Open
  <1>10. CASE \E claims \in Narratives, asked, readable \in BOOLEAN :
                  Finalize(claims, asked, readable)
    BY <1>1, <1>10 DEF Finalize, Elsewhere, situation, evidence, learned, inputs, LiveDraft, Open,
                       NoDraft
  <1>11. CASE UNCHANGED vars
    BY <1>1, <1>11 DEF vars, Elsewhere, situation, effects, learned, evidence, inputs, control,
                       LiveDraft, Open
  <1>. QED
    BY <1>2, <1>3, <1>4, <1>5, <1>6, <1>7, <1>8, <1>9, <1>10, <1>11 DEF Next

---------------------------------------------------------------------------
(* The concerns of a run, and the reviews that answer them.                 *)
LEMMA EvidenceOnRecord ==
    ASSUME NEW n \in Nat, NEW f, FactsUpTo(f, n)
    PROVE  unresolved_evidence(f) \subseteq 1..n
  BY DEF FactsUpTo, IssuesUpTo, unresolved_evidence

LEMMA EvidenceKept ==
    ASSUME NEW f, NEW g, Left(f.issues, g.issues)
    PROVE  unresolved_evidence(g) \subseteq unresolved_evidence(f)
  BY DEF Left, unresolved_evidence

LEMMA ContactKeepsEvidence ==
    ASSUME NEW n \in Nat, NEW f, FactsUpTo(f, n), NEW sent, NEW moment \in Nat
    PROVE  unresolved_evidence(Contacted(f, sent, moment)) = unresolved_evidence(f)
  <1>. DEFINE g == Contacted(f, sent, moment)
  <1>1. /\ DOMAIN g.issues = DOMAIN f.issues
        /\ \A id \in DOMAIN f.issues : g.issues[id].evidence = f.issues[id].evidence
    BY Contacting DEF Informed
  <1>. HIDE DEF g
  <1>2. unresolved_evidence(g) = unresolved_evidence(f)
    BY <1>1 DEF unresolved_evidence
  <1>. QED  BY <1>2 DEF g

(* An event that is a concern asks for a review, and any other opens none.   *)
LEMMA EventAwaited ==
    ASSUME TypeOK, ConcernsAwaited, NEW e \in Events, ApplyEvent(e)
    PROVE  ConcernsAwaited'
  <1>. DEFINE o == Reading(e)
  <1>1. /\ Outcome(facts, o, last_sequence + 1) /\ facts' = o.facts /\ boundary' = boundary
        /\ closure' = (IF o.terminal THEN "delivered" ELSE closure)
        /\ trigger' = (trigger \/ Woken(e).wake) /\ review' = review /\ Open
    BY Applying DEF Interpreted
  <1>. HIDE DEF o
  <1>2. CASE o.terminal
    BY <1>1, <1>2 DEF ConcernsAwaited, Open
  <1>3. CASE ~o.terminal /\ o.important
    <2>1. CASE Woken(e).wake
      BY <1>1, <2>1 DEF ConcernsAwaited
    <2>2. CASE ~Woken(e).wake
      <3>1. o.facts.issues = <<>>
        BY <1>3, <2>2, ImportantWakes DEF Woken, o
      <3>2. unresolved_evidence(facts') = {}
        BY <1>1, <3>1 DEF unresolved_evidence
      <3>. QED  BY <3>2 DEF ConcernsAwaited
    <2>. QED  BY <2>1, <2>2
  <1>4. CASE ~o.terminal /\ ~o.important
    <2>1. unresolved_evidence(facts') \subseteq unresolved_evidence(facts)
      BY <1>1, <1>4, EvidenceKept DEF Outcome
    <2>2. ~Idle' <=> ~Idle
      BY <1>1 DEF Idle
    <2>. QED  BY <1>1, <2>1, <2>2 DEF ConcernsAwaited
  <1>. QED  BY <1>2, <1>3, <1>4

LEMMA EventReviewed ==
    ASSUME TypeOK, ReviewKnown, NEW e \in Events, ApplyEvent(e)
    PROVE  ReviewKnown'
  <1>. DEFINE o == Reading(e)
  <1>1. /\ Outcome(facts, o, last_sequence + 1) /\ facts' = o.facts /\ boundary' = boundary
        /\ context' = (IF o.material THEN context + 1 ELSE context)
        /\ review' = review /\ last_sequence' = last_sequence + 2
    BY Applying DEF Interpreted
  <1>. HIDE DEF o
  <1>2. /\ last_sequence \in Nat /\ context \in Nat /\ boundary \in Nat
        /\ review.context \in Nat /\ review.context <= context
    BY DEF TypeOK
  <1>3. boundary' <= last_sequence' /\ (~Idle' <=> ~Idle)
    BY <1>1, <1>2 DEF ReviewKnown, Idle
  <1>4. CASE o.material
    <2>1. review'.context # context'
      BY <1>1, <1>2, <1>4
    <2>. QED  BY <1>1, <1>3, <2>1 DEF ReviewKnown
  <1>5. CASE ~o.material
    <2>1. facts' = facts /\ context' = context
      BY <1>1, <1>5 DEF Outcome
    <2>. QED  BY <1>1, <1>3, <2>1 DEF ReviewKnown
  <1>. QED  BY <1>4, <1>5

LEMMA ReviewStep ==
    ASSUME TypeOK, CoverageHonest, GuidanceKnown, DraftKnown, ReviewKnown, [Next]_vars
    PROVE  ReviewKnown'
  <1>1. /\ last_sequence \in Nat /\ context \in Nat /\ boundary \in Nat
        /\ review.context \in Nat /\ review.context <= context
        /\ review.through \in Nat /\ review.through <= last_sequence
        /\ FactsUpTo(facts, last_sequence) /\ now \in Nat
    BY DEF TypeOK, StartedAt
  <1>2. CASE \E e \in Events : ApplyEvent(e)
    BY <1>2, EventReviewed
  <1>3. CASE ReleaseDraft
    BY <1>1, <1>3 DEF ReleaseDraft, ReviewKnown, evidence, control, Idle
  <1>4. CASE \E p \in Answers : RecordDecision(p)
    <2>1. PICK p \in Answers : RecordDecision(p)
      BY <1>4
    <2>2. review' = NoReview /\ boundary' = review.through
      BY <2>1, Recording
    <2>3. last_sequence' > last_sequence /\ last_sequence' \in Nat
      BY <2>1, RecordingLog
    <2>. QED  BY <1>1, <2>2, <2>3 DEF ReviewKnown, Idle, NoReview
  <1>5. CASE BeginReview
    <2>1. /\ review'.through = last_sequence' /\ last_sequence' = last_sequence + 1
          /\ facts' = facts /\ boundary' = boundary
      BY <1>5, BeginTyped DEF BeginReview, situation, evidence
    <2>2. unresolved_evidence(facts) \subseteq 1..last_sequence
      BY <1>1, EvidenceOnRecord
    <2>. QED  BY <1>1, <2>1, <2>2 DEF ReviewKnown
  <1>6. CASE DiscardReview \/ FailAndResume
    <2>1. review' = NoReview
      BY <1>6 DEF DiscardReview, FailAndResume
    <2>2. boundary' = boundary /\ last_sequence' >= last_sequence /\ last_sequence' \in Nat
      <3>1. CASE DiscardReview
        <4>1. last_sequence' \in Nat /\ last_sequence' > last_sequence
          BY <3>1, DiscardTyped
        <4>2. boundary' = boundary
          BY <3>1 DEF DiscardReview, evidence
        <4>. QED  BY <1>1, <4>1, <4>2
      <3>2. CASE FailAndResume
        BY <1>1, <3>2 DEF FailAndResume, evidence
      <3>. QED  BY <1>6, <3>1, <3>2
    <2>. QED  BY <1>1, <2>1, <2>2 DEF ReviewKnown, Idle, NoReview
  <1>7. CASE ApplySomeInstruction
    <2>1. review' = review /\ context' = context + 1 /\ boundary' = boundary
          /\ last_sequence' = last_sequence + 1
      BY <1>7, InstructionTyped DEF evidence
    <2>. QED  BY <1>1, <2>1 DEF ReviewKnown, Idle
  <1>8. ASSUME UNCHANGED <<facts, context, boundary, review>>, last_sequence' \in Nat,
               last_sequence' >= last_sequence
        PROVE  ReviewKnown'
    BY <1>1, <1>8 DEF ReviewKnown, Idle
  <1>9. CASE \E waited \in BOOLEAN : HoldAndResume(waited)
    BY <1>1, <1>8, <1>9 DEF HoldAndResume, evidence
  <1>10. CASE Terminate \/ Age \/ Tick
    BY <1>1, <1>8, <1>10 DEF Terminate, Age, Tick, evidence, situation, control
  <1>11. CASE (\E decision \in {"approved", "rejected"} : ApplyReview(decision)) \/ OutdateDraft
    BY <1>1, <1>8, <1>11 DEF ApplyReview, OutdateDraft, situation, evidence, control
  <1>12. CASE SettleMemory
    BY <1>1, <1>8, <1>12 DEF SettleMemory, situation, evidence, control
  <1>13. CASE \E claims \in Narratives, asked, readable \in BOOLEAN :
                  Finalize(claims, asked, readable)
    BY <1>1, <1>8, <1>13 DEF Finalize, situation, evidence
  <1>14. CASE UNCHANGED vars
    BY <1>1, <1>8, <1>14 DEF vars, situation, evidence, control
  <1>. QED
    BY <1>2, <1>3, <1>4, <1>5, <1>6, <1>7, <1>9, <1>10, <1>11, <1>12, <1>13, <1>14 DEF Next

LEMMA AwaitedStep ==
    ASSUME TypeOK, CoverageHonest, GuidanceKnown, DraftKnown, ReviewKnown, ConcernsAwaited,
           [Next]_vars
    PROVE  ConcernsAwaited'
  <1>1. /\ last_sequence \in Nat /\ FactsUpTo(facts, last_sequence) /\ now \in Nat
    BY DEF TypeOK, StartedAt
  <1>2. CASE \E e \in Events : ApplyEvent(e)
    BY <1>2, EventAwaited
  <1>3. CASE ReleaseDraft
    <2>1. unresolved_evidence(facts') = unresolved_evidence(facts)
      BY <1>1, <1>3, ContactKeepsEvidence DEF ReleaseDraft
    <2>. QED  BY <1>3, <2>1 DEF ReleaseDraft, evidence, control, ConcernsAwaited, Open, Idle
  <1>4. CASE \E p \in Answers : RecordDecision(p)
    <2>1. PICK p \in Answers : RecordDecision(p)
      BY <1>4
    <2>2. /\ boundary' = review.through /\ ~Stale /\ ~Idle
          /\ facts' = Contacted(facts, Sent(p), now)
      BY <2>1, Recording
    <2>3. unresolved_evidence(facts') = unresolved_evidence(facts)
      BY <1>1, <2>2, ContactKeepsEvidence
    <2>4. \A s \in unresolved_evidence(facts) : s <= review.through
      BY <2>2 DEF ReviewKnown, Stale
    <2>5. unresolved_evidence(facts) \subseteq Nat /\ review.through \in Nat
      BY <1>1, EvidenceOnRecord DEF TypeOK
    <2>6. ~ \E s \in unresolved_evidence(facts') : s > boundary'
      BY <2>2, <2>3, <2>4, <2>5
    <2>. QED  BY <2>6 DEF ConcernsAwaited
  <1>5. CASE BeginReview
    BY <1>5 DEF BeginReview, ConcernsAwaited, Idle
  <1>6. CASE DiscardReview
    <2>1. Open' => trigger'
      BY <1>6 DEF DiscardReview, Open
    <2>. QED  BY <2>1 DEF ConcernsAwaited
  <1>7. CASE FailAndResume \/ ApplySomeInstruction \/ \E waited \in BOOLEAN : HoldAndResume(waited)
    <2>1. trigger' = TRUE
      BY <1>7, InstructionTyped DEF FailAndResume, HoldAndResume
    <2>. QED  BY <2>1 DEF ConcernsAwaited
  <1>8. CASE Terminate \/ Age
    BY <1>8 DEF Terminate, Age, ConcernsAwaited, Open
  <1>9. ASSUME UNCHANGED <<facts, boundary, review, trigger, closure>>
        PROVE  ConcernsAwaited'
    BY <1>9 DEF ConcernsAwaited, Idle, Open
  <1>10. CASE Tick \/ SettleMemory
    BY <1>9, <1>10 DEF Tick, SettleMemory, evidence, situation, control
  <1>11. CASE (\E decision \in {"approved", "rejected"} : ApplyReview(decision)) \/ OutdateDraft
    BY <1>9, <1>11 DEF ApplyReview, OutdateDraft, situation, evidence, control
  <1>12. CASE \E claims \in Narratives, asked, readable \in BOOLEAN :
                  Finalize(claims, asked, readable)
    BY <1>9, <1>12 DEF Finalize, situation, evidence
  <1>13. CASE UNCHANGED vars
    BY <1>9, <1>13 DEF vars, situation, evidence, control
  <1>. QED
    BY <1>2, <1>3, <1>4, <1>5, <1>6, <1>7, <1>8, <1>10, <1>11, <1>12, <1>13 DEF Next

---------------------------------------------------------------------------
(* Memory.                                                                  *)
LEMMA CoverageStep ==
    ASSUME TypeOK, CoverageHonest, GuidanceKnown, DraftKnown, ReviewKnown, [Next]_vars
    PROVE  CoverageHonest' /\ summary'.through >= summary.through
  <1>1. /\ last_sequence \in Nat /\ summary.through \in Nat /\ summary.through <= last_sequence
        /\ boundary \in Nat
        /\ summary.provenance = "model" => summary.through <= boundary
    BY DEF TypeOK, CoverageHonest, MemorySummary
  <1>2. ASSUME summary' = summary, boundary' = boundary, last_sequence' >= last_sequence,
               last_sequence' \in Nat
        PROVE  CoverageHonest' /\ summary'.through >= summary.through
    BY <1>1, <1>2 DEF CoverageHonest
  <1>3. TypeOK'
    BY NextTyped
  <1>4. last_sequence' \in Nat
    BY <1>3 DEF TypeOK
  <1>5. CASE \E p \in Answers : RecordDecision(p)
    <2>1. PICK p \in Answers : RecordDecision(p)
      BY <1>5
    <2>2. /\ boundary' = review.through /\ ~Idle /\ review.through \in Nat
          /\ boundary <= review.through
      BY <2>1, Recording DEF TypeOK, ReviewKnown
    <2>3. /\ summary'.through >= summary.through /\ summary'.through <= last_sequence'
          /\ summary'.provenance = "model" => summary' = summary \/ summary'.through <= boundary'
      BY <2>1, RecordingLog
    <2>. QED  BY <1>1, <2>2, <2>3 DEF CoverageHonest
  <1>6. CASE \E waited \in BOOLEAN : HoldAndResume(waited)
    <2>1. /\ summary'.through >= summary.through /\ summary'.through <= last_sequence'
          /\ summary'.provenance = "model" => summary' = summary
      BY <1>6, HoldTyped
    <2>2. boundary' = boundary
      BY <1>6 DEF HoldAndResume, evidence
    <2>. QED  BY <1>1, <2>1, <2>2 DEF CoverageHonest
  <1>7. CASE SettleMemory
    BY <1>7, SettleTyped DEF CoverageHonest
  <1>8. CASE \E e \in Events : ApplyEvent(e)
    BY <1>1, <1>2, <1>4, <1>8, Applying
  <1>9. CASE ReleaseDraft
    BY <1>1, <1>2, <1>4, <1>9, Releasing DEF evidence, learned
  <1>10. CASE ~ \/ \E e \in Events : ApplyEvent(e)
                \/ ReleaseDraft
                \/ \E p \in Answers : RecordDecision(p)
                \/ \E waited \in BOOLEAN : HoldAndResume(waited)
                \/ SettleMemory
    <2>1. last_sequence' >= last_sequence /\ boundary' = boundary
      BY <1>10, StepsElsewhere DEF Elsewhere
    <2>2. summary' = summary
      <3>1. CASE ApplySomeInstruction
        BY <3>1, InstructionTyped DEF learned
      <3>2. CASE Terminate \/ Age \/ Tick \/ BeginReview \/ DiscardReview \/ FailAndResume
        BY <3>2 DEF Terminate, Age, Tick, BeginReview, DiscardReview, FailAndResume, learned
      <3>3. CASE (\E decision \in {"approved", "rejected"} : ApplyReview(decision)) \/ OutdateDraft
        BY <3>3 DEF ApplyReview, OutdateDraft, learned
      <3>4. CASE \E claims \in Narratives, asked, readable \in BOOLEAN :
                     Finalize(claims, asked, readable)
        BY <3>4 DEF Finalize, learned
      <3>5. CASE UNCHANGED vars
        BY <3>5 DEF vars, learned
      <3>. QED  BY <1>10, <3>1, <3>2, <3>3, <3>4, <3>5 DEF Next
    <2>. QED  BY <1>2, <1>4, <2>1, <2>2
  <1>. QED  BY <1>5, <1>6, <1>7, <1>8, <1>9, <1>10

LEMMA GuidanceStep ==
    ASSUME TypeOK, CoverageHonest, GuidanceKnown, DraftKnown, [Next]_vars
    PROVE  GuidanceKnown'
  <1>1. CASE \E p \in Answers : RecordDecision(p)
    <2>1. PICK p \in Answers : RecordDecision(p)
      BY <1>1
    <2>2. guidance' = guidance \/ guidance'.hints = Accepted(p)
      BY <2>1, Recording
    <2>. QED  BY <2>2 DEF GuidanceKnown, Accepted, check, Acceptable
  <1>2. CASE ~ \E p \in Answers : RecordDecision(p)
    <2>1. guidance' = guidance
      BY <1>2, StepsElsewhere, Applying, Releasing DEF Elsewhere, learned
    <2>. QED  BY <2>1 DEF GuidanceKnown
  <1>. QED  BY <1>1, <1>2

---------------------------------------------------------------------------
(* Contacts.                                                                *)
LEMMA IssueRead ==
    ASSUME NEW n \in Nat, NEW f, FactsUpTo(f, n), NEW id \in DOMAIN f.issues
    PROVE  /\ issue_evidence_sequence(f.issues[id]) \in 0..n
           /\ id \in IssueIds
           /\ \A who \in Audiences :
                  /\ f.issues[id].contacts[who] \in Contact
                  /\ f.issues[id].contacts[who].evidence \in Nat
                  /\ f.issues[id].contacts[who].follow_up_at \in Nat
  <1>1. f.issues[id] \in OpenIssue /\ f.issues[id].evidence \in SUBSET (1..n) /\ id \in IssueIds
    BY DEF FactsUpTo, IssuesUpTo
  <1>2. f.issues[id].evidence \in SUBSET (0..n)
    BY <1>1
  <1>3. issue_evidence_sequence(f.issues[id]) \in 0..n
    BY <1>2, LargestIsEntry DEF issue_evidence_sequence
  <1>. QED  BY <1>1, <1>3 DEF OpenIssue, Contact

(* An issue that a new entry touched is as recent as that entry.            *)
EnteredAt(f, g, id, sequence) ==
    /\ issue_evidence_sequence(g.issues[id]) = sequence
    /\ \/ id \in DOMAIN f.issues /\ g.issues[id].contacts = f.issues[id].contacts
       \/ \A who \in Audiences : g.issues[id].contacts[who] = NoContact

LEMMA IssueEntered ==
    ASSUME NEW n \in Nat, NEW f, FactsUpTo(f, n), NEW g, Refiled(f.issues, g.issues, n + 1),
           NEW id \in DOMAIN g.issues
    PROVE  \/ id \in DOMAIN f.issues /\ g.issues[id] = f.issues[id]
           \/ EnteredAt(f, g, id, n + 1)
  <1>. DEFINE m == n + 1
  <1>0. m \in Nat /\ m > n
    OBVIOUS
  <1>. HIDE DEF m
  <1>1. CASE id \in DOMAIN f.issues /\ g.issues[id] = f.issues[id]
    BY <1>1
  <1>2. CASE id \in DOMAIN f.issues /\ Entered(f.issues[id], g.issues[id], m)
    <2>1. f.issues[id].evidence \in SUBSET (1..n)
      BY <1>2 DEF FactsUpTo, IssuesUpTo
    <2>. DEFINE S == Newest(f.issues[id].evidence \cup {m}, MaxEvidence)
    <2>2. S \in SUBSET (1..m) /\ m \in S
      BY <1>0, <2>1, EvidenceEntered
    <2>3. g.issues[id].evidence = S /\ g.issues[id].contacts = f.issues[id].contacts
      BY <1>2 DEF Entered
    <2>. HIDE DEF S
    <2>4. S \in SUBSET (0..m) /\ S # {}
      BY <1>0, <2>2
    <2>5. Largest(S) \in S /\ \A y \in S : y <= Largest(S)
      BY <1>0, <2>4, LargestOfEntries
    <2>6. Largest(S) = m
      <3>1. Largest(S) \in 1..m /\ m <= Largest(S)
        BY <2>2, <2>5
      <3>. QED  BY <1>0, <3>1
    <2>. QED  BY <1>2, <2>3, <2>6 DEF issue_evidence_sequence, EnteredAt, m
  <1>3. CASE id \notin DOMAIN f.issues /\ \E r \in BOOLEAN : g.issues[id] = NewIssue(m, r)
    <2>1. /\ g.issues[id].evidence = {m}
          /\ \A who \in Audiences : g.issues[id].contacts[who] = NoContact
      BY <1>3 DEF NewIssue
    <2>. DEFINE S == {m}
    <2>2. S \in SUBSET (0..m) /\ S # {}
      BY <1>0
    <2>3. Largest(S) \in S
      BY <1>0, <2>2, LargestOfEntries
    <2>. QED  BY <2>1, <2>3 DEF issue_evidence_sequence, EnteredAt, m
  <1>. QED  BY <1>1, <1>2, <1>3 DEF Refiled, m

LEMMA MessageTyped ==
    ASSUME TypeOK, NEW m \in messages
    PROVE  /\ m.sequence \in Nat /\ m.evidence \in Nat /\ m.at \in Nat /\ m.decision \in Nat
           /\ m.audience \in Audiences
  BY DEF TypeOK, Message

LEMMA EventContacts ==
    ASSUME TypeOK, ContactsKnown, MessagesKnown, NEW e \in Events, ApplyEvent(e)
    PROVE  ContactsKnown' /\ MessagesKnown'
  <1>. DEFINE f == facts
              g == Reading(e).facts
              n == last_sequence
  <1>1. /\ Refiled(f.issues, g.issues, n + 1) /\ facts' = g /\ FactsUpTo(f, n) /\ n \in Nat
        /\ last_sequence' = n + 2 /\ messages' = messages /\ now' = now
    BY Applying DEF Interpreted, Outcome, TypeOK
  <1>. HIDE DEF g
  <1>2. ASSUME NEW id \in DOMAIN g.issues
        PROVE  \/ id \in DOMAIN f.issues /\ g.issues[id] = f.issues[id]
               \/ /\ issue_evidence_sequence(g.issues[id]) = n + 1
                  /\ \/ id \in DOMAIN f.issues /\ g.issues[id].contacts = f.issues[id].contacts
                     \/ \A who \in Audiences : g.issues[id].contacts[who] = NoContact
    <2>1. \/ id \in DOMAIN f.issues /\ g.issues[id] = f.issues[id]
          \/ EnteredAt(f, g, id, n + 1)
      BY <1>1, <1>2, IssueEntered
    <2>. QED  BY <2>1 DEF EnteredAt
  <1>3. ASSUME NEW id \in DOMAIN f.issues
        PROVE  issue_evidence_sequence(f.issues[id]) \in 0..n
    BY <1>1, <1>3, IssueRead
  <1>4. ASSUME NEW id \in DOMAIN g.issues, NEW who \in Audiences
        PROVE  g.issues[id].contacts[who].evidence <= issue_evidence_sequence(g.issues[id])
    <2>1. CASE id \in DOMAIN f.issues /\ g.issues[id] = f.issues[id]
      BY <2>1 DEF ContactsKnown
    <2>2. CASE /\ issue_evidence_sequence(g.issues[id]) = n + 1
               /\ id \in DOMAIN f.issues /\ g.issues[id].contacts = f.issues[id].contacts
      <3>1. /\ f.issues[id].contacts[who].evidence <= issue_evidence_sequence(f.issues[id])
            /\ issue_evidence_sequence(f.issues[id]) \in 0..n
        BY <1>3, <2>2 DEF ContactsKnown
      <3>2. f.issues[id].contacts[who].evidence \in Nat
        BY <1>1, <2>2, IssueRead
      <3>. QED  BY <1>1, <2>2, <3>1, <3>2
    <2>3. CASE /\ issue_evidence_sequence(g.issues[id]) = n + 1
               /\ \A a \in Audiences : g.issues[id].contacts[a] = NoContact
      BY <1>1, <2>3 DEF NoContact
    <2>. QED  BY <1>2, <2>1, <2>2, <2>3
  <1>5. ContactsKnown'
    BY <1>1, <1>4 DEF ContactsKnown
  <1>6. ASSUME NEW m \in messages
        PROVE  /\ m.sequence <= last_sequence' /\ m.evidence <= last_sequence' /\ m.at <= now
               /\ m.issue \in DOMAIN g.issues => Remembered(m)'
    <2>1. /\ m.sequence <= n /\ m.evidence <= n /\ m.at <= now
          /\ m.issue \in DOMAIN f.issues => Remembered(m)
      BY DEF MessagesKnown
    <2>2. m.sequence \in Nat /\ m.evidence \in Nat
      BY MessageTyped
    <2>3. m.sequence <= last_sequence' /\ m.evidence <= last_sequence'
      BY <1>1, <2>1, <2>2
    <2>4. ASSUME m.issue \in DOMAIN g.issues PROVE Remembered(m)'
      <3>1. CASE m.issue \in DOMAIN f.issues /\ g.issues[m.issue] = f.issues[m.issue]
        BY <1>1, <2>1, <3>1 DEF Remembered
      <3>2. CASE issue_evidence_sequence(g.issues[m.issue]) = n + 1
        <4>1. m.evidence < issue_evidence_sequence(g.issues[m.issue])
          BY <1>1, <2>1, <2>2, <3>2
        <4>. QED  BY <1>1, <4>1 DEF Remembered
      <3>. QED  BY <1>2, <2>4, <3>1, <3>2
    <2>. QED  BY <2>1, <2>3, <2>4
  <1>7. MessagesKnown'
    BY <1>1, <1>6 DEF MessagesKnown
  <1>. QED  BY <1>5, <1>7

(* Messages recorded with the contacts they leave.                          *)
LEMMA MessagesRemembered ==
    ASSUME TypeOK, ContactsKnown, MessagesKnown, NEW sent, NEW M \in SUBSET Message,
           facts' = Contacted(facts, sent, now), messages' = messages \cup M, now' = now,
           last_sequence' \in Nat, last_sequence' >= last_sequence,
           \A m \in M : /\ m.at = now /\ m.sequence <= last_sequence'
                        /\ m.evidence <= last_sequence
                        /\ Heard(sent, m.issue, m.audience)
                        /\ m.issue \in DOMAIN facts.issues =>
                               m.evidence = issue_evidence_sequence(facts.issues[m.issue])
    PROVE  ContactsKnown' /\ MessagesKnown'
  <1>. DEFINE f == facts
              g == Contacted(facts, sent, now)
              n == last_sequence
              told == now + follow_up_interval
  <1>1. /\ FactsUpTo(f, n) /\ n \in Nat /\ now \in Nat /\ told \in Nat
        /\ follow_up_interval \in Nat
    BY FollowUpTyped DEF TypeOK, StartedAt
  <1>2. Informed(f, g, sent, now)
    BY <1>1, Contacting
  <1>. HIDE DEF g
  <1>3. /\ DOMAIN g.issues = DOMAIN f.issues /\ facts' = g
        /\ \A id \in DOMAIN f.issues :
               issue_evidence_sequence(g.issues[id]) = issue_evidence_sequence(f.issues[id])
    BY <1>2 DEF Informed, issue_evidence_sequence, g
  <1>4. ASSUME NEW id \in DOMAIN f.issues, NEW who \in Audiences
        PROVE  \/ /\ g.issues[id].contacts[who].evidence = issue_evidence_sequence(f.issues[id])
                  /\ g.issues[id].contacts[who].follow_up_at = told
               \/ /\ g.issues[id].contacts[who] = f.issues[id].contacts[who]
                  /\ ~Heard(sent, id, who)
    <2>1. g.issues[id].contacts[who] = IF Heard(sent, id, who) THEN ContactNow(f.issues[id], now)
                                       ELSE f.issues[id].contacts[who]
      BY <1>2 DEF Informed
    <2>. QED  BY <2>1 DEF ContactNow
  <1>5. ASSUME NEW id \in DOMAIN f.issues, NEW who \in Audiences
        PROVE  /\ f.issues[id].contacts[who].evidence \in Nat
               /\ f.issues[id].contacts[who].follow_up_at \in Nat
               /\ issue_evidence_sequence(f.issues[id]) \in Nat
               /\ f.issues[id].contacts[who].evidence <= issue_evidence_sequence(f.issues[id])
    BY <1>1, <1>5, IssueRead DEF ContactsKnown
  <1>. HIDE DEF told
  <1>6. ContactsKnown'
    <2>1. \A id \in DOMAIN f.issues, who \in Audiences :
              g.issues[id].contacts[who].evidence <= issue_evidence_sequence(g.issues[id])
      BY <1>3, <1>4, <1>5
    <2>. QED  BY <1>3, <2>1 DEF ContactsKnown
  <1>7. ASSUME NEW m \in messages \cup M
        PROVE  /\ m.sequence <= last_sequence' /\ m.evidence <= last_sequence' /\ m.at <= now
               /\ m.issue \in DOMAIN g.issues => Remembered(m)'
    <2>0. /\ m.sequence \in Nat /\ m.evidence \in Nat /\ m.at \in Nat /\ m.audience \in Audiences
      BY DEF TypeOK, Message
    <2>1. CASE m \in M
      <3>1. /\ m.sequence <= last_sequence' /\ m.evidence <= last_sequence' /\ m.at <= now
        BY <1>1, <2>0, <2>1
      <3>2. ASSUME m.issue \in DOMAIN g.issues PROVE Remembered(m)'
        <4>1. /\ g.issues[m.issue].contacts[m.audience].evidence
                     = issue_evidence_sequence(f.issues[m.issue])
              /\ g.issues[m.issue].contacts[m.audience].follow_up_at = told
          BY <1>3, <1>4, <2>0, <2>1, <3>2
        <4>2. m.evidence = issue_evidence_sequence(f.issues[m.issue]) /\ m.at = now
          BY <1>3, <2>1, <3>2
        <4>3. told >= m.at + follow_up_interval
          BY <1>1, <4>2 DEF told
        <4>. QED  BY <1>3, <2>0, <4>1, <4>2, <4>3 DEF Remembered
      <3>. QED  BY <3>1, <3>2
    <2>2. CASE m \in messages
      <3>1. /\ m.sequence <= n /\ m.evidence <= n /\ m.at <= now
            /\ m.issue \in DOMAIN f.issues => Remembered(m)
        BY <2>2 DEF MessagesKnown
      <3>2. m.sequence <= last_sequence' /\ m.evidence <= last_sequence'
        BY <1>1, <2>0, <3>1
      <3>3. ASSUME m.issue \in DOMAIN g.issues PROVE Remembered(m)'
        <4>. DEFINE seen == issue_evidence_sequence(f.issues[m.issue])
                    old == f.issues[m.issue].contacts[m.audience]
                    new == g.issues[m.issue].contacts[m.audience]
        <4>1. /\ seen \in Nat /\ old.evidence \in Nat /\ old.follow_up_at \in Nat
              /\ old.evidence <= seen
              /\ issue_evidence_sequence(g.issues[m.issue]) = seen
          BY <1>3, <1>5, <2>0, <3>3
        <4>2. \/ m.evidence < seen
              \/ old.evidence >= m.evidence /\ old.follow_up_at >= m.at + follow_up_interval
          BY <1>3, <3>1, <3>3 DEF Remembered
        <4>3. \/ new.evidence = seen /\ new.follow_up_at = told
              \/ new = old
          BY <1>3, <1>4, <2>0, <3>3
        <4>4. told >= m.at + follow_up_interval
          BY <1>1, <2>0, <3>1 DEF told
        <4>5. \/ m.evidence < seen
              \/ new.evidence >= m.evidence /\ new.follow_up_at >= m.at + follow_up_interval
          <5>. HIDE DEF seen, old, new
          <5>. QED  BY <2>0, <4>1, <4>2, <4>3, <4>4
        <4>. QED  BY <1>3, <4>1, <4>5 DEF Remembered
      <3>. QED  BY <3>1, <3>2, <3>3
    <2>. QED  BY <2>1, <2>2
  <1>8. MessagesKnown'
    BY <1>3, <1>7 DEF MessagesKnown
  <1>. QED  BY <1>6, <1>8

(* Messages that the gates let pass repeat none that is on record.          *)
LEMMA NothingRepeated ==
    ASSUME TypeOK, MessagesKnown, NoEarlyRepeat, NEW M \in SUBSET Message,
           messages' = messages \cup M,
           \A m \in M :
               /\ m.at = now /\ m.sequence > last_sequence
               /\ m.issue # NoIssue =>
                      /\ m.issue \in DOMAIN facts.issues
                      /\ m.evidence = issue_evidence_sequence(facts.issues[m.issue])
                      /\ ~repeated_contact(facts.issues[m.issue], m.audience, now),
           \A m, n \in M : m.sequence < n.sequence => m.decision = n.decision
    PROVE  NoEarlyRepeat'
  <1>1. SUFFICES ASSUME NEW m \in messages \cup M, NEW n \in messages \cup M,
                        m.issue = n.issue, m.issue # NoIssue, m.audience = n.audience,
                        m.sequence < n.sequence, m.decision # n.decision,
                        n.evidence <= m.evidence
                 PROVE  n.at >= m.at + follow_up_interval
    BY DEF NoEarlyRepeat
  <1>0. m \in Message /\ n \in Message
    BY DEF TypeOK
  <1>2. /\ m.sequence \in Nat /\ m.evidence \in Nat /\ m.at \in Nat
        /\ n.sequence \in Nat /\ n.evidence \in Nat /\ n.at \in Nat
        /\ m.audience \in Audiences
        /\ last_sequence \in Nat /\ FactsUpTo(facts, last_sequence) /\ now \in Nat
        /\ follow_up_interval \in Nat
    BY <1>0, FollowUpTyped DEF TypeOK, Message, StartedAt
  <1>3. CASE n \in messages
    <2>1. n.sequence <= last_sequence
      BY <1>3 DEF MessagesKnown
    <2>2. m \in messages
      BY <1>1, <1>2, <2>1
    <2>. QED  BY <1>1, <1>3, <2>2 DEF NoEarlyRepeat
  <1>4. CASE n \in M
    <2>1. m \in messages
      BY <1>1, <1>4
    <2>. DEFINE issue == facts.issues[m.issue]
                seen == issue_evidence_sequence(issue)
                old == issue.contacts[m.audience]
    <2>2. /\ m.issue \in DOMAIN facts.issues /\ n.evidence = seen /\ n.at = now
          /\ ~repeated_contact(issue, m.audience, now)
      BY <1>1, <1>4
    <2>3. Remembered(m)
      BY <2>1, <2>2 DEF MessagesKnown
    <2>4. seen \in Nat /\ old.evidence \in Nat /\ old.follow_up_at \in Nat
      BY <1>2, <2>2, IssueRead
    <2>5. \/ m.evidence < seen
          \/ old.evidence >= m.evidence /\ old.follow_up_at >= m.at + follow_up_interval
      BY <2>3 DEF Remembered
    <2>6. ~(seen <= old.evidence /\ now < old.follow_up_at)
      BY <2>2 DEF repeated_contact
    <2>. HIDE DEF seen, old
    <2>. QED  BY <1>1, <1>2, <2>2, <2>4, <2>5, <2>6
  <1>. QED  BY <1>3, <1>4

(* What the gates let pass is about an open issue, or none, and nothing that *)
(* was told already.                                                        *)
LEMMA Passing ==
    ASSUME TypeOK, NEW p \in Answers, NEW k \in Judged(p).admitted \cup Judged(p).draft
    PROVE  LET q == p.actions[k] IN
           /\ q \in ActionProposal
           /\ q.issue # NoIssue =>
                  /\ q.issue \in DOMAIN facts.issues
                  /\ ~repeated_contact(facts.issues[q.issue], audience_of(q), now)
           /\ q.action = "message_customer" => q.issue # NoIssue
  <1>. DEFINE q == p.actions[k]
  <1>1. p.actions \in Seq(ActionProposal)
    BY AnswersTyped
  <1>2. ~Refused(q, facts, now)
    BY <1>1, Authorization DEF Judged
  <1>3. q \in ActionProposal
    BY DecisionTyped
  <1>4. q.issue # NoIssue =>
            /\ q.issue \in DOMAIN facts.issues
            /\ ~repeated_contact(facts.issues[q.issue], audience_of(q), now)
    BY <1>2 DEF Refused, ServesOpenIssue, has_issue
  <1>5. q.action = "message_customer" => q.issue # NoIssue
    BY <1>2 DEF Refused, invalid_arguments
  <1>. QED  BY <1>3, <1>4, <1>5

LEMMA ReceiptsHeard ==
    ASSUME TypeOK, CoverageHonest, NEW p \in Answers, RecordDecision(p), NEW m \in Receipts(p)
    PROVE  /\ Heard(Sent(p), m.issue, m.audience)
           /\ m.issue # NoIssue =>
                  /\ m.issue \in DOMAIN facts.issues
                  /\ ~repeated_contact(facts.issues[m.issue], m.audience, now)
  <1>1. PICK k \in Judged(p).admitted :
            m.audience = audience_of(p.actions[k]) /\ m.issue = p.actions[k].issue
    BY RecordingLog
  <1>2. p.actions[k] \in Sent(p)
    BY DEF Sent
  <1>3. m.issue # NoIssue =>
            /\ m.issue \in DOMAIN facts.issues
            /\ ~repeated_contact(facts.issues[m.issue], m.audience, now)
    BY <1>1, Passing
  <1>. QED  BY <1>1, <1>2, <1>3 DEF Heard

LEMMA RecordContacts ==
    ASSUME TypeOK, CoverageHonest, ContactsKnown, MessagesKnown, NoEarlyRepeat,
           NEW p \in Answers, RecordDecision(p)
    PROVE  ContactsKnown' /\ MessagesKnown' /\ NoEarlyRepeat'
  <1>. DEFINE M == Receipts(p)
  <1>1. /\ facts' = Contacted(facts, Sent(p), now) /\ messages' = messages \cup M /\ now' = now
    BY Recording DEF inputs
  <1>2. /\ last_sequence' \in Nat /\ last_sequence' >= last_sequence
        /\ M \in SUBSET Message
    BY RecordingLog DEF TypeOK
  <1>3. ASSUME NEW m \in M
        PROVE  /\ m.at = now /\ m.sequence <= last_sequence' /\ m.sequence > last_sequence
               /\ m.evidence <= last_sequence /\ m.decision = decisions
               /\ Heard(Sent(p), m.issue, m.audience)
               /\ m.issue \in DOMAIN facts.issues =>
                      m.evidence = issue_evidence_sequence(facts.issues[m.issue])
               /\ m.issue # NoIssue =>
                      /\ m.issue \in DOMAIN facts.issues
                      /\ ~repeated_contact(facts.issues[m.issue], m.audience, now)
    BY <1>3, RecordingLog, ReceiptsHeard
  <1>. HIDE DEF M
  <1>4. ContactsKnown' /\ MessagesKnown'
    BY <1>1, <1>2, <1>3, MessagesRemembered
  <1>5. NoEarlyRepeat'
    BY <1>1, <1>2, <1>3, NothingRepeated
  <1>. QED  BY <1>4, <1>5

LEMMA ReleaseContacts ==
    ASSUME TypeOK, ContactsKnown, MessagesKnown, NoEarlyRepeat, DraftKnown, ReleaseDraft
    PROVE  ContactsKnown' /\ MessagesKnown' /\ NoEarlyRepeat'
  <1>1. PICK m \in Message :
            /\ messages' = messages \cup {m}
            /\ m.sequence = last_sequence + 1 /\ m.audience = "customer"
            /\ m.issue = draft.issue /\ m.at = now /\ m.evidence <= last_sequence
            /\ m.issue \in DOMAIN facts.issues =>
                   m.evidence = issue_evidence_sequence(facts.issues[m.issue])
    BY Releasing
  <1>2. /\ facts' = Contacted(facts, {DraftedMessage}, now) /\ now' = now
        /\ last_sequence' = last_sequence + 2 /\ last_sequence \in Nat
        /\ draft.status = "approved" /\ ~DraftStale
    BY Releasing DEF inputs, TypeOK
  <1>3. Heard({DraftedMessage}, m.issue, m.audience)
    BY <1>1, DraftedTyped DEF Heard, DraftedMessageTyped
  <1>4. /\ m.issue \in DOMAIN facts.issues
        /\ ~repeated_contact(facts.issues[m.issue], m.audience, now)
    BY <1>1, <1>2 DEF DraftKnown, LiveDraft
  <1>. DEFINE M == {m}
              sent == {DraftedMessage}
  <1>5. \A x \in M : /\ x.at = now /\ x.sequence <= last_sequence'
                     /\ x.sequence > last_sequence
                     /\ x.evidence <= last_sequence
                     /\ Heard(sent, x.issue, x.audience)
                     /\ x.issue \in DOMAIN facts.issues
                     /\ x.evidence = issue_evidence_sequence(facts.issues[x.issue])
                     /\ ~repeated_contact(facts.issues[x.issue], x.audience, now)
    BY <1>1, <1>2, <1>3, <1>4
  <1>6. \A x, y \in M : x = y
    OBVIOUS
  <1>7. /\ M \in SUBSET Message /\ messages' = messages \cup M
        /\ facts' = Contacted(facts, sent, now) /\ now' = now
        /\ last_sequence' \in Nat /\ last_sequence' >= last_sequence
    BY <1>1, <1>2
  <1>. HIDE DEF M, sent
  <1>8. ContactsKnown' /\ MessagesKnown'
    BY <1>5, <1>7, MessagesRemembered
  <1>9. NoEarlyRepeat'
    BY <1>5, <1>6, <1>7, NothingRepeated
  <1>. QED  BY <1>8, <1>9

LEMMA ContactsStep ==
    ASSUME TypeOK, CoverageHonest, ContactsKnown, MessagesKnown, NoEarlyRepeat, DraftKnown,
           GuidanceKnown, [Next]_vars
    PROVE  ContactsKnown' /\ MessagesKnown' /\ NoEarlyRepeat'
  <1>1. CASE \E e \in Events : ApplyEvent(e)
    <2>1. messages' = messages
      BY <1>1, Applying
    <2>. QED  BY <1>1, <2>1, EventContacts DEF NoEarlyRepeat
  <1>2. CASE ReleaseDraft
    BY <1>2, ReleaseContacts
  <1>3. CASE \E p \in Answers : RecordDecision(p)
    BY <1>3, RecordContacts
  <1>4. CASE ~ \/ \E e \in Events : ApplyEvent(e)
               \/ ReleaseDraft
               \/ \E p \in Answers : RecordDecision(p)
    <2>1. /\ facts' = facts /\ messages' = messages
          /\ last_sequence' >= last_sequence /\ now' >= now
      BY <1>4, StepsElsewhere DEF Elsewhere
    <2>2. ASSUME NEW m \in messages
          PROVE  m.sequence <= last_sequence' /\ m.evidence <= last_sequence' /\ m.at <= now'
      <3>1. m.sequence <= last_sequence /\ m.evidence <= last_sequence /\ m.at <= now
        BY DEF MessagesKnown
      <3>2. /\ m.sequence \in Nat /\ m.evidence \in Nat /\ m.at \in Nat
            /\ last_sequence \in Nat /\ now \in Nat
        BY MessageTyped DEF TypeOK, StartedAt
      <3>3. last_sequence' \in Nat /\ now' \in Nat
        <4>1. TypeOK'
          BY NextTyped
        <4>. QED  BY <4>1 DEF TypeOK, StartedAt
      <3>. QED  BY <2>1, <3>1, <3>2, <3>3
    <2>3. ContactsKnown'
      BY <2>1 DEF ContactsKnown
    <2>4. MessagesKnown'
      BY <2>1, <2>2 DEF MessagesKnown, Remembered
    <2>. QED  BY <2>1, <2>3, <2>4 DEF NoEarlyRepeat
  <1>. QED  BY <1>1, <1>2, <1>3, <1>4

(* Time only lets more pass.                                                *)
LEMMA RepeatLapses ==
    ASSUME TypeOK, NEW id \in DOMAIN facts.issues, NEW later \in Nat, later >= now,
           ~repeated_contact(facts.issues[id], "customer", now)
    PROVE  ~repeated_contact(facts.issues[id], "customer", later)
  <1>1. "customer" \in Audiences
    BY DEF Audiences
  <1>2. /\ last_sequence \in Nat /\ FactsUpTo(facts, last_sequence) /\ now \in Nat
    BY DEF TypeOK, StartedAt
  <1>3. facts.issues[id].contacts["customer"].follow_up_at \in Nat
    BY <1>1, <1>2, IssueRead
  <1>. QED  BY <1>2, <1>3 DEF repeated_contact

(* The customer message that waits is not sent by the batch it came in.      *)
LEMMA DraftUnsent ==
    ASSUME TypeOK, NEW p \in Answers, NEW k \in Judged(p).draft
    PROVE  /\ p.actions[k].action = "message_customer" /\ ~LiveDraft
           /\ \A id : ~Heard(Sent(p), id, "customer")
  <1>1. p.actions \in Seq(ActionProposal) /\ bounded_proposal(p)
    BY AnswersTyped
  <1>2. /\ p.actions[k].action = "message_customer" /\ ~LiveDraft
        /\ k \notin Judged(p).admitted
    BY <1>1, Authorization DEF Judged
  <1>3. /\ Judged(p).admitted \subseteq DOMAIN p.actions /\ k \in DOMAIN p.actions
        /\ \A j \in DOMAIN p.actions : p.actions[j] \in ActionProposal
    BY DecisionTyped
  <1>4. ASSUME NEW id, Heard(Sent(p), id, "customer") PROVE FALSE
    <2>1. PICK j \in Judged(p).admitted : audience_of(p.actions[j]) = "customer"
      BY <1>4 DEF Heard, Sent
    <2>2. p.actions[j].action = "message_customer"
      BY <1>3, <2>1, AudienceTyped
    <2>. QED  BY <1>1, <1>2, <1>3, <2>1, <2>2 DEF bounded_proposal
  <1>. QED  BY <1>2, <1>4

LEMMA RecordDraft ==
    ASSUME TypeOK, CoverageHonest, DraftKnown, NEW p \in Answers, RecordDecision(p)
    PROVE  DraftKnown'
  <1>1. /\ context \in Nat /\ draft.context \in Nat /\ draft.context <= context
        /\ last_sequence \in Nat /\ FactsUpTo(facts, last_sequence) /\ now \in Nat
    BY DEF TypeOK, Draft, DraftKnown, StartedAt
  <1>2. /\ context' = (IF Judged(p).admitted \cup Judged(p).draft # {} THEN context + 1
                       ELSE context)
        /\ facts' = Contacted(facts, Sent(p), now) /\ now' = now
    BY Recording DEF inputs
  <1>3. Informed(facts, facts', Sent(p), now)
    BY <1>1, <1>2, Contacting
  <1>4. CASE Judged(p).draft # {}
    <2>1. PICK k \in Judged(p).draft :
              draft' = [status |-> "pending", context |-> context',
                        decision |-> decisions, issue |-> p.actions[k].issue]
      BY <1>4, Recording
    <2>. DEFINE id == p.actions[k].issue
    <2>2. /\ p.actions[k].action = "message_customer" /\ ~Heard(Sent(p), id, "customer")
          /\ p.actions[k] \in ActionProposal
      BY DraftUnsent, DecisionTyped
    <2>3. /\ id \in DOMAIN facts.issues
          /\ ~repeated_contact(facts.issues[id], "customer", now)
      BY <2>2, Passing, AudienceTyped
    <2>4. "customer" \in Audiences
      BY DEF Audiences
    <2>. HIDE DEF id
    <2>5. /\ DOMAIN facts'.issues = DOMAIN facts.issues
          /\ facts'.issues[id].evidence = facts.issues[id].evidence
          /\ facts'.issues[id].contacts["customer"] = facts.issues[id].contacts["customer"]
      BY <1>3, <2>2, <2>3, <2>4 DEF Informed
    <2>6. ~repeated_contact(facts'.issues[id], "customer", now)
      BY <2>3, <2>5 DEF repeated_contact, issue_evidence_sequence
    <2>7. draft'.issue = id /\ draft'.context = context'
      BY <2>1 DEF id
    <2>8. context' \in Nat
      BY <1>1, <1>2
    <2>. QED  BY <1>2, <2>3, <2>5, <2>6, <2>7, <2>8 DEF DraftKnown
  <1>5. CASE Judged(p).draft = {} /\ Judged(p).admitted # {}
    <2>1. draft' = draft /\ context' = context + 1
      BY <1>2, <1>5, Recording
    <2>. QED  BY <1>1, <2>1 DEF DraftKnown, DraftStale
  <1>6. CASE Judged(p).draft = {} /\ Judged(p).admitted = {}
    <2>1. draft' = draft /\ context' = context
      BY <1>2, <1>6, Recording
    <2>2. facts' = facts
      BY <1>3, <1>6 DEF Informed, Sent
    <2>. QED  BY <1>2, <2>1, <2>2 DEF DraftKnown, DraftStale, LiveDraft
  <1>. QED  BY <1>4, <1>5, <1>6

LEMMA DraftStep ==
    ASSUME TypeOK, CoverageHonest, DraftKnown, GuidanceKnown, [Next]_vars
    PROVE  DraftKnown'
  <1>1. /\ context \in Nat /\ draft.context \in Nat /\ draft.context <= context
        /\ last_sequence \in Nat
    BY DEF TypeOK, Draft, DraftKnown
  <1>2. CASE \E e \in Events : ApplyEvent(e)
    <2>1. PICK e \in Events : ApplyEvent(e)
      BY <1>2
    <2>2. /\ draft' = draft /\ now' = now /\ facts' = Reading(e).facts
          /\ context' = (IF Reading(e).material THEN context + 1 ELSE context)
          /\ ~Reading(e).material => Reading(e).facts = facts
      BY <2>1, Applying DEF Interpreted, Outcome
    <2>3. CASE Reading(e).material
      BY <1>1, <2>2, <2>3 DEF DraftKnown, DraftStale
    <2>4. CASE ~Reading(e).material
      BY <2>2, <2>4 DEF DraftKnown, DraftStale, LiveDraft
    <2>. QED  BY <2>3, <2>4
  <1>3. CASE ReleaseDraft
    BY <1>1, <1>3, Releasing DEF DraftKnown, NoDraft, LiveDraft
  <1>4. CASE \E p \in Answers : RecordDecision(p)
    BY <1>4, RecordDraft
  <1>5. CASE ~ \/ \E e \in Events : ApplyEvent(e)
               \/ ReleaseDraft
               \/ \E p \in Answers : RecordDecision(p)
    <2>1. /\ facts' = facts /\ now' >= now /\ context' >= context /\ draft'.context <= context
          /\ LiveDraft' => LiveDraft /\ draft'.issue = draft.issue
                                     /\ draft'.context = draft.context
      BY <1>5, StepsElsewhere DEF Elsewhere
    <2>2. TypeOK'
      BY NextTyped
    <2>3. context' \in Nat /\ draft'.context \in Nat /\ now' \in Nat
      BY <2>2 DEF TypeOK, Draft, StartedAt
    <2>4. draft'.context <= context'
      BY <1>1, <2>1, <2>3
    <2>5. ASSUME LiveDraft', ~DraftStale'
          PROVE  /\ draft'.issue \in DOMAIN facts.issues
                 /\ ~repeated_contact(facts.issues[draft'.issue], "customer", now')
      <3>1. LiveDraft /\ draft'.issue = draft.issue /\ draft'.context = draft.context
        BY <2>1, <2>5
      <3>2. draft.context = context
        BY <1>1, <2>1, <2>3, <2>5, <3>1 DEF DraftStale
      <3>3. /\ draft.issue \in DOMAIN facts.issues
            /\ ~repeated_contact(facts.issues[draft.issue], "customer", now)
        BY <3>1, <3>2 DEF DraftKnown, DraftStale
      <3>. QED  BY <2>1, <2>3, <3>1, <3>3, RepeatLapses
    <2>. QED  BY <2>1, <2>4, <2>5 DEF DraftKnown
  <1>. QED  BY <1>2, <1>3, <1>4, <1>5

---------------------------------------------------------------------------
(* What is reported.                                                        *)
LEMMA FactsStep ==
    ASSUME TypeOK, CoverageHonest, DraftKnown, FactsBacked, [Next]_vars
    PROVE  FactsBacked'
  <1>1. CASE \E e \in Events : ApplyEvent(e)
    <2>1. PICK e \in Events : ApplyEvent(e)
      BY <1>1
    <2>2. /\ PaymentMoves(facts, e, facts') /\ ShipmentMoves(facts, e, facts')
          /\ received' = received \cup {e}
      BY <2>1, Applying DEF Interpreted
    <2>. QED  BY <2>2 DEF FactsBacked, PaymentMoves, ShipmentMoves, SamePayment
  <1>2. ASSUME facts'.payment = facts.payment, facts'.shipment = facts.shipment,
               received' = received
        PROVE  FactsBacked'
    BY <1>2 DEF FactsBacked
  <1>3. ASSUME NEW sent, facts' = Contacted(facts, sent, now)
        PROVE  facts'.payment = facts.payment /\ facts'.shipment = facts.shipment
    <2>1. last_sequence \in Nat /\ FactsUpTo(facts, last_sequence) /\ now \in Nat
      BY DEF TypeOK, StartedAt
    <2>2. Informed(facts, facts', sent, now)
      BY <1>3, <2>1, Contacting
    <2>. QED  BY <2>2 DEF Informed, SamePayment
  <1>4. CASE ReleaseDraft
    BY <1>2, <1>3, <1>4, Releasing DEF inputs
  <1>5. CASE \E p \in Answers : RecordDecision(p)
    BY <1>2, <1>3, <1>5, Recording DEF inputs
  <1>6. CASE ~ \/ \E e \in Events : ApplyEvent(e)
               \/ ReleaseDraft
               \/ \E p \in Answers : RecordDecision(p)
    BY <1>2, <1>6, StepsElsewhere DEF Elsewhere
  <1>. QED  BY <1>1, <1>4, <1>5, <1>6

LEMMA HistoryGrows ==
    ASSUME TypeOK, CoverageHonest, DraftKnown, [Next]_vars
    PROVE  received \subseteq received' /\ messages \subseteq messages'
  <1>1. CASE \E e \in Events : ApplyEvent(e)
    BY <1>1, Applying
  <1>2. CASE ReleaseDraft
    BY <1>2, Releasing DEF inputs
  <1>3. CASE \E p \in Answers : RecordDecision(p)
    BY <1>3, Recording DEF inputs
  <1>4. CASE ~ \/ \E e \in Events : ApplyEvent(e)
               \/ ReleaseDraft
               \/ \E p \in Answers : RecordDecision(p)
    BY <1>4, StepsElsewhere DEF Elsewhere
  <1>. QED  BY <1>1, <1>2, <1>3, <1>4

LEMMA ReportStep ==
    ASSUME TypeOK, CoverageHonest, DraftKnown, FactsBacked, ReportTrue, [Next]_vars
    PROVE  ReportTrue'
  <1>1. CASE report' = report
    BY <1>1, HistoryGrows DEF ReportTrue
  <1>2. CASE \E claims \in Narratives, asked, readable \in BOOLEAN :
                 Finalize(claims, asked, readable)
    <2>1. PICK claims \in Narratives, asked \in BOOLEAN, readable \in BOOLEAN :
              Finalize(claims, asked, readable)
      BY <1>2
    <2>. DEFINE committed == IF readable THEN messages ELSE Ledger
                adopted == asked /\ ~contradictions(claims, committed)
    <2>2. /\ committed \subseteq messages
      BY DEF Ledger
    <2>3. /\ report'.claims = IF adopted THEN claims ELSE NoReport.claims
          /\ report'.unresolved = DOMAIN facts.issues
          /\ messages' = messages /\ received' = received
      BY <2>1 DEF Finalize, inputs
    <2>. HIDE DEF committed
    <2>4. CASE ~adopted
      <3>1. report'.claims.says = {} /\ report'.claims.told = {}
        BY <2>3, <2>4 DEF NoReport
      <3>. QED  BY <3>1 DEF ReportTrue
    <2>5. CASE adopted
      <3>1. /\ "paid" \in claims.says => facts.payment = "confirmed"
            /\ "delivered" \in claims.says => facts.shipment = "delivered"
            /\ "settled" \in claims.says => facts.issues = <<>>
            /\ \A a \in claims.told : \E m \in committed : m.audience = a
        BY <2>5 DEF contradictions
      <3>2. report'.claims = claims
        BY <2>3, <2>5
      <3>. QED  BY <2>2, <2>3, <3>1, <3>2 DEF ReportTrue, FactsBacked
    <2>. QED  BY <2>4, <2>5
  <1>3. CASE ~ \E claims \in Narratives, asked, readable \in BOOLEAN :
                  Finalize(claims, asked, readable)
    <2>1. report' = report
      <3>1. CASE (\E e \in Events : ApplyEvent(e)) \/ ReleaseDraft
        BY <3>1, Applying, Releasing
      <3>2. CASE \E p \in Answers : RecordDecision(p)
        BY <3>2, Recording
      <3>3. CASE ApplySomeInstruction
        BY <3>3, InstructionTyped
      <3>4. CASE Terminate \/ Age \/ Tick \/ BeginReview \/ FailAndResume \/ SettleMemory
        BY <3>4 DEF Terminate, Age, Tick, BeginReview, FailAndResume, SettleMemory
      <3>5. CASE (\E decision \in {"approved", "rejected"} : ApplyReview(decision)) \/ OutdateDraft
        BY <3>5 DEF ApplyReview, OutdateDraft
      <3>6. CASE \E waited \in BOOLEAN : HoldAndResume(waited)
        BY <3>6 DEF HoldAndResume
      <3>7. CASE DiscardReview
        BY <3>7 DEF DiscardReview
      <3>8. CASE UNCHANGED vars
        BY <3>8 DEF vars
      <3>. QED
        BY <1>3, <3>1, <3>2, <3>3, <3>4, <3>5, <3>6, <3>7, <3>8 DEF Next
    <2>. QED  BY <1>1, <2>1
  <1>. QED  BY <1>2, <1>3

---------------------------------------------------------------------------
LEMMA InitKnown == Init => IInv
  <1>. SUFFICES ASSUME Init PROVE IInv
    OBVIOUS
  <1>1. TypeOK
    BY InitTyped
  <1>2. /\ facts.issues = <<>> /\ DOMAIN facts.issues = {}
        /\ facts.payment = "unknown" /\ facts.shipment = "unknown"
    BY DEF Init, InitialFacts
  <1>3. ReviewKnown /\ GuidanceKnown
    BY DEF Init, ReviewKnown, GuidanceKnown, Idle, NoReview, NoGuidance
  <1>4. ContactsKnown /\ MessagesKnown /\ NoEarlyRepeat
    BY <1>2 DEF Init, ContactsKnown, MessagesKnown, NoEarlyRepeat
  <1>5. DraftKnown
    BY DEF Init, DraftKnown, NoDraft, LiveDraft
  <1>6. FactsBacked /\ ReportTrue
    BY <1>2 DEF Init, FactsBacked, ReportTrue, NoReport
  <1>7. CoverageHonest /\ ConcernsAwaited
    BY DEF Init, CoverageHonest, ConcernsAwaited
  <1>. QED  BY <1>1, <1>3, <1>4, <1>5, <1>6, <1>7 DEF IInv

LEMMA NextKnown == IInv /\ [Next]_vars => IInv'
  <1>. SUFFICES ASSUME IInv, [Next]_vars PROVE IInv'
    OBVIOUS
  <1>1. TypeOK' /\ GuidanceKnown' /\ DraftKnown'
    BY NextTyped, GuidanceStep, DraftStep DEF IInv
  <1>2. ReviewKnown' /\ ConcernsAwaited' /\ CoverageHonest'
    BY ReviewStep, AwaitedStep, CoverageStep DEF IInv
  <1>3. ContactsKnown' /\ MessagesKnown' /\ NoEarlyRepeat'
    BY ContactsStep DEF IInv
  <1>4. FactsBacked' /\ ReportTrue'
    BY FactsStep, ReportStep DEF IInv
  <1>. QED  BY <1>1, <1>2, <1>3, <1>4 DEF IInv

(* The inductive invariant holds in every state of the run.                 *)
THEOREM Invariance == Spec => []IInv
  BY InitKnown, NextKnown, PTL DEF Spec

(* Every variable keeps its type.                                           *)
THEOREM TypeCorrectness == Spec => []TypeOK
  <1>1. IInv => TypeOK
    BY DEF IInv
  <1>. QED  BY <1>1, Invariance, PTL

(* While there is an open concern that no decision covered, a review is      *)
(* asked for or under way.                                                  *)
THEOREM NoConcernSleptOn == Spec => []ConcernsAwaited
  <1>1. IInv => ConcernsAwaited
    BY DEF IInv
  <1>. QED  BY <1>1, Invariance, PTL

(* Nobody is told again of what they were told before the follow-up is due,  *)
(* by another decision or by an approved draft.                             *)
THEOREM ContactsSpaced == Spec => []NoEarlyRepeat
  <1>1. IInv => NoEarlyRepeat
    BY DEF IInv
  <1>. QED  BY <1>1, Invariance, PTL

(* A summary covers what is on record, and a model's what it was given.      *)
THEOREM SummaryHonest == Spec => []CoverageHonest
  <1>1. IInv => CoverageHonest
    BY DEF IInv
  <1>. QED  BY <1>1, Invariance, PTL

(* An adopted closing narrative is borne out by the run's history.          *)
THEOREM NarrativeTrue == Spec => []ReportTrue
  <1>1. IInv => ReportTrue
    BY DEF IInv
  <1>. QED  BY <1>1, Invariance, PTL

(* No summary covers less than the one before it.                           *)
THEOREM SummaryGrows == Spec => CoverageGrows
  <1>1. IInv /\ [Next]_vars => [summary'.through >= summary.through]_vars
    BY CoverageStep DEF IInv
  <1>. QED  BY <1>1, Invariance, PTL DEF Spec, CoverageGrows

---------------------------------------------------------------------------
LEMMA OnlyDecisionsSleep ==
    ASSUME TypeOK, [Next]_vars, status' = "sleeping", status # "sleeping"
    PROVE  \E p \in Answers : RecordDecision(p)
  <1>1. CASE \E e \in Events : ApplyEvent(e)
    BY <1>1, Applying
  <1>2. CASE ReleaseDraft
    BY <1>2, Releasing DEF control
  <1>3. CASE ApplySomeInstruction
    BY <1>3, InstructionTyped
  <1>4. CASE Terminate \/ Age \/ Tick \/ BeginReview \/ FailAndResume \/ SettleMemory
    BY <1>4 DEF Terminate, Age, Tick, BeginReview, FailAndResume, SettleMemory, control
  <1>5. CASE (\E decision \in {"approved", "rejected"} : ApplyReview(decision)) \/ OutdateDraft
    BY <1>5 DEF ApplyReview, OutdateDraft, control
  <1>6. CASE \E waited \in BOOLEAN : HoldAndResume(waited)
    BY <1>6 DEF HoldAndResume
  <1>7. CASE DiscardReview
    BY <1>7 DEF DiscardReview
  <1>8. CASE \E claims \in Narratives, asked, readable \in BOOLEAN :
                 Finalize(claims, asked, readable)
    BY <1>8 DEF Finalize
  <1>9. CASE UNCHANGED vars
    BY <1>9 DEF vars, control
  <1>. QED
    BY <1>1, <1>2, <1>3, <1>4, <1>5, <1>6, <1>7, <1>8, <1>9 DEF Next

(* What ReviewsInRange says of the step that schedules a review.            *)
InRange ==
    /\ next_wake_at' <= MaximumAge
    /\ next_wake_at' >= Smaller(now + Minimum, MaximumAge)
    /\ next_wake_at' <= now + Maximum
    /\ effective_policy(instructions).prioritize_speed => next_wake_at' <= now + Default
    /\ \A h \in guidance.hints :
           /\ h.kind = "shorten_review" /\ guidance.epoch = epoch /\ now < h.expires_at
           /\ h.issue \in DOMAIN facts.issues
           => next_wake_at' <= now + h.after

LEMMA ScheduleInRange ==
    ASSUME IInv, NEW p \in Answers, RecordDecision(p)
    PROVE  InRange
  <1>0. TypeOK /\ GuidanceKnown /\ CoverageHonest
    BY DEF IInv
  <1>1. /\ now \in Nat /\ guidance.hints \subseteq WakeHint /\ p.sleep \in Nat
        /\ next_wake_at' = Wake(p)
    BY <1>0, AnswersTyped, Recording DEF TypeOK, StartedAt
  <1>2. /\ effective_policy(instructions).prioritize_speed \in BOOLEAN
        /\ Hints \in SUBSET WakeHint
        /\ \A h \in Hints : h.kind = "shorten_review" => Minimum <= h.after
    BY <1>0, <1>1, PolicyTyped DEF Hints, active, GuidanceKnown
  <1>3. PICK interval \in Minimum..Maximum :
            /\ Wake(p) = Smaller(now + interval, MaximumAge)
            /\ effective_policy(instructions).prioritize_speed => interval <= Default
            /\ \A h \in Hints : h.kind = "shorten_review" => interval <= h.after
    BY <1>1, <1>2, IntervalInRange DEF Wake
  <1>4. /\ Minimum \in Nat /\ Maximum \in Nat /\ MaximumAge \in Nat /\ Default \in Nat
        /\ interval \in Nat /\ Minimum <= interval /\ interval <= Maximum
    BY ProfileAssumption
  <1>5. /\ next_wake_at' \in Nat /\ next_wake_at' <= MaximumAge
        /\ next_wake_at' <= now + interval
        /\ next_wake_at' >= Smaller(now + Minimum, MaximumAge)
        /\ next_wake_at' <= now + Maximum
    BY <1>1, <1>3, <1>4 DEF Smaller
  <1>6. effective_policy(instructions).prioritize_speed => next_wake_at' <= now + Default
    BY <1>1, <1>3, <1>4, <1>5
  <1>7. ASSUME NEW h \in guidance.hints,
               h.kind = "shorten_review", guidance.epoch = epoch, now < h.expires_at,
               h.issue \in DOMAIN facts.issues
        PROVE  next_wake_at' <= now + h.after
    <2>1. h \in Hints
      BY <1>7 DEF Hints, active, ServesOpenIssue, has_issue
    <2>2. interval <= h.after /\ h.after \in Nat
      BY <1>1, <1>3, <1>7, <2>1 DEF WakeHint
    <2>. QED  BY <1>1, <1>4, <1>5, <2>2
  <1>. QED  BY <1>5, <1>6, <1>7 DEF InRange

(* The review that a decision schedules is within the profile, the age, the  *)
(* instructions' haste and every interval asked for.                        *)
THEOREM ScheduleKept == Spec => ReviewsInRange
  <1>1. IInv /\ [Next]_vars => [status' = "sleeping" /\ status # "sleeping" => InRange]_vars
    <2>. SUFFICES ASSUME IInv, [Next]_vars, status' = "sleeping", status # "sleeping"
                  PROVE  InRange
      OBVIOUS
    <2>1. TypeOK
      BY DEF IInv
    <2>2. PICK p \in Answers : RecordDecision(p)
      BY <2>1, OnlyDecisionsSleep
    <2>. QED  BY <2>2, ScheduleInRange
  <1>2. [][status' = "sleeping" /\ status # "sleeping" => InRange]_vars => ReviewsInRange
    BY PTL DEF ReviewsInRange, InRange
  <1>. QED  BY <1>1, <1>2, Invariance, PTL DEF Spec

---------------------------------------------------------------------------
Released ==
    \/ instructions = <<>> /\ ~CustomerReview
    \/ \E k \in DOMAIN instructions :
           /\ instructions[k].review = "off"
           /\ \A j \in k + 1..Len(instructions) : instructions[j].review # "on"

LEMMA CustomersGated ==
    ASSUME IInv, [Next]_vars, NEW m \in messages' \ messages, m.audience = "customer",
           ~m.approved
    PROVE  Released
  <1>0. TypeOK /\ CoverageHonest /\ DraftKnown
    BY DEF IInv
  <1>1. CASE \E e \in Events : ApplyEvent(e)
    BY <1>0, <1>1, Applying
  <1>2. CASE ReleaseDraft
    BY <1>0, <1>2, Releasing
  <1>3. CASE \E p \in Answers : RecordDecision(p)
    <2>1. PICK p \in Answers : RecordDecision(p)
      BY <1>3
    <2>2. m \in Receipts(p)
      BY <1>0, <2>1, Recording
    <2>3. PICK k \in Judged(p).admitted : m.audience = audience_of(p.actions[k])
      BY <1>0, <2>1, <2>2, RecordingLog
    <2>4. p.actions[k] \in ActionProposal /\ p.actions \in Seq(ActionProposal)
      BY <1>0, DecisionTyped, AnswersTyped
    <2>5. p.actions[k].action = "message_customer"
      BY <2>3, <2>4, AudienceTyped
    <2>6. ~effective_policy(instructions).require_customer_review
      BY <2>4, <2>5, Authorization DEF Judged
    <2>7. instructions \in Seq(Instruction)
      BY <1>0, InputsAssumption DEF TypeOK
    <2>. QED  BY <2>6, <2>7, SilenceIsReview DEF Released
  <1>4. CASE ~ \/ \E e \in Events : ApplyEvent(e)
               \/ ReleaseDraft
               \/ \E p \in Answers : RecordDecision(p)
    BY <1>0, <1>4, StepsElsewhere DEF Elsewhere
  <1>. QED  BY <1>1, <1>2, <1>3, <1>4

(* No customer message goes out unapproved but by a template or an           *)
(* instruction that releases it.                                            *)
THEOREM CustomersReviewed == Spec => CustomerGated
  <1>1. IInv /\ [Next]_vars =>
            [\A m \in messages' \ messages :
                 m.audience = "customer" /\ ~m.approved => Released]_vars
    BY CustomersGated
  <1>2. [][\A m \in messages' \ messages :
               m.audience = "customer" /\ ~m.approved => Released]_vars => CustomerGated
    BY PTL DEF CustomerGated, Released
  <1>. QED  BY <1>1, <1>2, Invariance, PTL DEF Spec

LEMMA GoodNewsHeld ==
    ASSUME IInv, [Next]_vars, NEW e \in received' \ received,
           e.type = "payment_confirmed", has_issue(facts, "payment"),
           ~has_issue(facts', "payment"), ~trigger'
    PROVE  \E h \in guidance.hints :
               /\ h.kind = "defer_routine" /\ h.event_type = e.type
               /\ guidance.epoch = epoch /\ now < h.expires_at
  <1>0. TypeOK /\ CoverageHonest /\ DraftKnown
    BY DEF IInv
  <1>1. CASE \E x \in Events : ApplyEvent(x)
    <2>1. PICK x \in Events : ApplyEvent(x)
      BY <1>1
    <2>2. /\ Interpreted(facts, x, Reading(x), last_sequence + 1)
          /\ received' = received \cup {x} /\ facts' = Reading(x).facts
          /\ trigger' = (trigger \/ Woken(x).wake)
      BY <1>0, <2>1, Applying
    <2>3. x = e
      BY <2>2
    <2>4. /\ ~Reading(e).terminal /\ Reading(e).important
      BY <2>2, <2>3 DEF Interpreted
    <2>5. ~Woken(e).wake
      BY <2>2, <2>3
    <2>6. Hinted(Hints, "defer_routine", e.type)
      BY <2>4, <2>5, ImportantWakes DEF Woken
    <2>. QED  BY <2>6 DEF Hinted, Hints, active
  <1>2. CASE ~ \E x \in Events : ApplyEvent(x)
    <2>1. received' = received
      BY <1>0, <1>2, StepsElsewhere, Releasing, Recording DEF Elsewhere, inputs
    <2>. QED  BY <2>1
  <1>. QED  BY <1>1, <1>2

(* Good news about a concern is put off only by a hint that still holds.     *)
THEOREM GuidanceHolds == Spec => GuidanceLapses
  <1>1. IInv /\ [Next]_vars =>
            [\A e \in received' \ received :
                 /\ e.type = "payment_confirmed" /\ has_issue(facts, "payment")
                 /\ ~has_issue(facts', "payment") /\ ~trigger'
                 => \E h \in guidance.hints :
                        /\ h.kind = "defer_routine" /\ h.event_type = e.type
                        /\ guidance.epoch = epoch /\ now < h.expires_at]_vars
    BY GoodNewsHeld
  <1>. QED  BY <1>1, Invariance, PTL DEF Spec, GuidanceLapses

---------------------------------------------------------------------------
(* Concerns and facts, where the limit of open issues cannot be met: nothing *)
(* is applied after the delivery.                                           *)
Matched == ConcernsMatchFacts /\ (facts.shipment = "delivered" => ~Open)

LEMMA QuietFacts ==
    ASSUME TypeOK, CoverageHonest, DraftKnown, [Next]_vars, ~ \E e \in Events : ApplyEvent(e)
    PROVE  /\ SamePayment(facts, facts') /\ facts'.shipment = facts.shipment
           /\ DOMAIN facts'.issues = DOMAIN facts.issues
           /\ received' = received
           /\ Open' => Open
  <1>1. ASSUME NEW sent, facts' = Contacted(facts, sent, now)
        PROVE  /\ SamePayment(facts, facts') /\ facts'.shipment = facts.shipment
               /\ DOMAIN facts'.issues = DOMAIN facts.issues
    <2>1. last_sequence \in Nat /\ FactsUpTo(facts, last_sequence) /\ now \in Nat
      BY DEF TypeOK, StartedAt
    <2>2. Informed(facts, facts', sent, now)
      BY <1>1, <2>1, Contacting
    <2>. QED  BY <2>2 DEF Informed
  <1>2. CASE ReleaseDraft
    <2>1. facts' = Contacted(facts, {DraftedMessage}, now) /\ received' = received /\ Open
      BY <1>2, Releasing DEF inputs
    <2>. QED  BY <1>1, <2>1
  <1>3. CASE \E p \in Answers : RecordDecision(p)
    <2>1. PICK p \in Answers : RecordDecision(p)
      BY <1>3
    <2>2. facts' = Contacted(facts, Sent(p), now) /\ received' = received /\ Open
      BY <2>1, Recording DEF inputs
    <2>. QED  BY <1>1, <2>2
  <1>4. CASE ~ \/ ReleaseDraft
               \/ \E p \in Answers : RecordDecision(p)
    BY <1>4, StepsElsewhere DEF Elsewhere, SamePayment
  <1>. QED  BY <1>2, <1>3, <1>4

LEMMA EventMatched ==
    ASSUME Room, TypeOK, Matched, NEW e \in Events, ApplyEvent(e)
    PROVE  Matched'
  <1>1. /\ PaymentMoves(facts, e, facts') /\ ShipmentMoves(facts, e, facts')
        /\ e.type = "delivered" => closure' = "delivered"
        /\ Open
    BY Applying DEF Interpreted
  <1>2. facts.shipment # "delivered"
    BY <1>1 DEF Matched
  <1>3. facts'.payment = "failed" <=> has_issue(facts', "payment")
    BY <1>1 DEF Matched, ConcernsMatchFacts, PaymentMoves, SamePayment
  <1>4. facts'.shipment = "delayed" => has_issue(facts', "shipment-delay")
    BY <1>1 DEF Matched, ConcernsMatchFacts, ShipmentMoves
  <1>5. facts'.shipment = "delivered" =>
            ~Open' /\ DELIVERY_RESOLVES \cap DOMAIN facts'.issues = {}
    BY <1>1, <1>2 DEF ShipmentMoves, Open
  <1>. QED  BY <1>3, <1>4, <1>5 DEF Matched, ConcernsMatchFacts

LEMMA MatchedStep ==
    ASSUME Room, IInv, Matched, [Next]_vars
    PROVE  Matched'
  <1>0. TypeOK /\ CoverageHonest /\ DraftKnown
    BY DEF IInv
  <1>1. CASE \E e \in Events : ApplyEvent(e)
    BY <1>0, <1>1, EventMatched
  <1>2. CASE ~ \E e \in Events : ApplyEvent(e)
    BY <1>0, <1>2, QuietFacts DEF Matched, ConcernsMatchFacts, SamePayment, has_issue
  <1>. QED  BY <1>1, <1>2

LEMMA Matching == ASSUME Room PROVE Spec => []Matched
  <1>1. Init => Matched
    BY DEF Init, InitialFacts, Matched, ConcernsMatchFacts, has_issue
  <1>2. IInv /\ Matched /\ [Next]_vars => Matched'
    BY MatchedStep
  <1>. QED  BY <1>1, <1>2, Invariance, PTL DEF Spec

(* The concerns on file are those that the facts call for.                  *)
THEOREM ConcernsMatch == ASSUME Room PROVE Spec => []ConcernsMatchFacts
  <1>1. Matched => ConcernsMatchFacts
    BY DEF Matched
  <1>. QED  BY <1>1, Matching, PTL

Stand ==
    /\ facts.payment = "confirmed" /\ facts'.payment # "confirmed" =>
           /\ has_issue(facts', "payment")
           /\ \E e \in received' \ received :
                  /\ e.type = "payment_failed"
                  /\ e.reference = facts.attempt /\ e.reference # NoReference
                  /\ e.at >= facts.payment_at
    /\ facts.shipment = "delivered" => facts'.shipment = "delivered"

LEMMA FactsStand ==
    ASSUME Room, IInv, [Next]_vars
    PROVE  Stand
  <1>0. TypeOK /\ CoverageHonest /\ DraftKnown
    BY DEF IInv
  <1>1. CASE \E e \in Events : ApplyEvent(e)
    <2>1. PICK e \in Events : ApplyEvent(e)
      BY <1>1
    <2>2. /\ PaymentMoves(facts, e, facts') /\ ShipmentMoves(facts, e, facts')
          /\ e \in received' \ received /\ e.at \in Nat
      BY <1>0, <2>1, Applying DEF Interpreted, Event, Moments
    <2>3. facts.payment_at \in Nat
      BY <1>0 DEF TypeOK, FactsUpTo
    <2>4. facts.shipment = "delivered" => facts'.shipment = "delivered"
      BY <2>2 DEF ShipmentMoves
    <2>5. ASSUME facts.payment = "confirmed", facts'.payment # "confirmed"
          PROVE  /\ has_issue(facts', "payment")
                 /\ e.type = "payment_failed" /\ SameAttempt(facts, e)
                 /\ ~older_than(e.at, facts.payment_at)
      BY <2>2, <2>5 DEF PaymentMoves, SamePayment
    <2>6. ~older_than(e.at, facts.payment_at) => e.at >= facts.payment_at
      BY <2>2, <2>3 DEF older_than
    <2>. QED  BY <2>2, <2>4, <2>5, <2>6 DEF SameAttempt, Stand
  <1>2. CASE ~ \E e \in Events : ApplyEvent(e)
    BY <1>0, <1>2, QuietFacts DEF SamePayment, Stand
  <1>. QED  BY <1>1, <1>2

(* A confirmed payment is undone only by a failure of its own attempt that   *)
(* is not older, and with a concern; a delivery is never undone.            *)
THEOREM FactsKept == ASSUME Room PROVE Spec => ConfirmationsStand
  <1>1. IInv /\ [Next]_vars => [Stand]_vars
    BY FactsStand
  <1>2. [][Stand]_vars => ConfirmationsStand
    BY PTL DEF ConfirmationsStand, Stand
  <1>. QED  BY <1>1, <1>2, Invariance, PTL DEF Spec

---------------------------------------------------------------------------
(* What the review under way was given to read of what it will cover.       *)
ReadSoFar(cutoff) == {s \in Pending(deferred, facts, boundary) : s <= cutoff}

Current == ~Idle /\ review.context = context

(* It is fixed when the review begins: while the review stands, nothing     *)
(* that it will cover joins what waits.                                     *)
LEMMA EventLeavesReview ==
    ASSUME TypeOK, NEW e \in Events, ApplyEvent(e), Current'
    PROVE  /\ Current /\ review' = review
           /\ ReadSoFar(review.through)' \subseteq ReadSoFar(review.through)
  <1>1. /\ review' = review /\ boundary' = boundary /\ facts' = Reading(e).facts
        /\ context' = (IF Reading(e).material THEN context + 1 ELSE context)
        /\ ~Reading(e).material => Reading(e).facts = facts
        /\ deferred' = IF Woken(e).outcome # "deferred" THEN deferred
                       ELSE Newest(deferred \cup {last_sequence + 1}, EvidenceReferences)
    BY Applying DEF Interpreted, Outcome
  <1>2. /\ review.context \in Nat /\ review.context <= context /\ context \in Nat
        /\ review.through \in Nat /\ review.through <= last_sequence /\ last_sequence \in Nat
    BY DEF TypeOK
  <1>3. ~Reading(e).material
    BY <1>1, <1>2 DEF Current
  <1>4. facts' = facts /\ context' = context
    BY <1>1, <1>3
  <1>5. deferred' \subseteq deferred \cup {last_sequence + 1}
    BY <1>1 DEF Newest
  <1>6. ~(last_sequence + 1 <= review.through)
    BY <1>2
  <1>. QED  BY <1>1, <1>4, <1>5, <1>6 DEF Current, Idle, ReadSoFar, Pending

LEMMA ReviewStands ==
    ASSUME IInv, [Next]_vars, Current', ~BeginReview
    PROVE  /\ Current /\ review' = review
           /\ ReadSoFar(review.through)' \subseteq ReadSoFar(review.through)
  <1>0. TypeOK /\ CoverageHonest /\ DraftKnown
    BY DEF IInv
  <1>1. /\ context \in Nat /\ review.context \in Nat /\ review.context <= context
    BY <1>0 DEF TypeOK
  <1>2. CASE \E e \in Events : ApplyEvent(e)
    BY <1>0, <1>2, EventLeavesReview
  <1>3. CASE \E p \in Answers : RecordDecision(p)
    <2>1. review' = NoReview
      BY <1>0, <1>3, Recording
    <2>. QED  BY <2>1 DEF Current, Idle, NoReview
  <1>4. CASE ReleaseDraft
    <2>1. review' = review /\ context' = context + 1
      BY <1>0, <1>4, Releasing DEF control
    <2>. QED  BY <1>1, <2>1 DEF Current
  <1>5. CASE ~ \/ \E e \in Events : ApplyEvent(e)
               \/ \E p \in Answers : RecordDecision(p)
               \/ ReleaseDraft
    <2>1. deferred' = deferred /\ boundary' = boundary /\ facts' = facts /\ context' >= context
      BY <1>0, <1>5, StepsElsewhere DEF Elsewhere
    <2>2. review' = review \/ review' = NoReview
      <3>1. CASE DiscardReview \/ FailAndResume
        BY <3>1 DEF DiscardReview, FailAndResume
      <3>2. CASE Terminate \/ Age \/ Tick \/ SettleMemory \/ OutdateDraft
        BY <3>2 DEF Terminate, Age, Tick, SettleMemory, OutdateDraft, control
      <3>3. CASE \E waited \in BOOLEAN : HoldAndResume(waited)
        BY <3>3 DEF HoldAndResume
      <3>4. CASE ApplySomeInstruction
        BY <1>0, <3>4, InstructionTyped
      <3>5. CASE \E decision \in {"approved", "rejected"} : ApplyReview(decision)
        BY <3>5 DEF ApplyReview, control
      <3>6. CASE \E claims \in Narratives, asked, readable \in BOOLEAN :
                     Finalize(claims, asked, readable)
        BY <3>6 DEF Finalize
      <3>7. CASE UNCHANGED vars
        BY <3>7 DEF vars, control
      <3>. QED  BY <1>5, <3>1, <3>2, <3>3, <3>4, <3>5, <3>6, <3>7 DEF Next
    <2>3. review' = review
      BY <2>2 DEF Current, Idle, NoReview
    <2>4. context' \in Nat
      <3>1. TypeOK'
        BY NextKnown DEF IInv
      <3>. QED  BY <3>1 DEF TypeOK
    <2>5. context' = context
      BY <1>1, <2>1, <2>3, <2>4 DEF Current
    <2>. QED  BY <2>1, <2>3, <2>5 DEF Current, Idle, ReadSoFar
  <1>. QED  BY <1>2, <1>3, <1>4, <1>5

LEMMA BeginReads ==
    ASSUME TypeOK, BeginReview
    PROVE  /\ ReadSoFar(review.through)' = Pending(deferred, facts, boundary)
           /\ Newest(Pending(deferred, facts, boundary), DeferredLimit) \subseteq review'.read
           /\ Pending(deferred, facts, boundary) \in SUBSET (0..last_sequence)
  <1>1. /\ last_sequence \in Nat /\ FactsUpTo(facts, last_sequence)
        /\ deferred \subseteq 1..last_sequence
    BY DEF TypeOK
  <1>2. /\ review'.through = last_sequence + 1
        /\ review'.read = plan(deferred, facts, recent, boundary)
        /\ UNCHANGED <<deferred, facts, boundary>>
    BY BeginTyped DEF BeginReview, situation, evidence
  <1>3. Pending(deferred, facts, boundary) \subseteq 1..last_sequence
    BY <1>1, EvidenceOnRecord DEF Pending
  <1>4. ReadSoFar(review.through)' = Pending(deferred, facts, boundary)
    BY <1>1, <1>2, <1>3 DEF ReadSoFar
  <1>. QED  BY <1>1, <1>2, <1>3, <1>4 DEF plan

(* Only a decision moves the boundary, to the end of its own input.         *)
LEMMA BoundaryMoves ==
    ASSUME IInv, [Next]_vars, boundary' # boundary
    PROVE  /\ Current /\ boundary' = review.through
           /\ deferred' = still_pending(deferred, review.through)
           /\ unresolved_evidence(facts') = unresolved_evidence(facts)
  <1>0. TypeOK /\ CoverageHonest /\ DraftKnown
    BY DEF IInv
  <1>1. PICK p \in Answers : RecordDecision(p)
    BY <1>0, StepsElsewhere, Applying, Releasing DEF Elsewhere, evidence
  <1>2. /\ boundary' = review.through /\ deferred' = still_pending(deferred, review.through)
        /\ facts' = Contacted(facts, Sent(p), now) /\ ~Idle /\ review.context = context
    BY <1>0, <1>1, Recording DEF Stale
  <1>3. last_sequence \in Nat /\ now \in Nat /\ FactsUpTo(facts, last_sequence)
    BY <1>0 DEF TypeOK, StartedAt
  <1>. QED  BY <1>2, <1>3, ContactKeepsEvidence DEF Current

ArrivedWaits ==
    boundary' # boundary =>
        \A s \in Pending(deferred, facts, boundary) :
            s > review.through => s \in Pending(deferred', facts', boundary')

(* What arrived while a decision was being made waits after it.             *)
THEOREM LateEvidenceWaits == Spec => ArrivalsWait
  <1>1. ASSUME IInv, [Next]_vars PROVE ArrivedWaits
    <2>. SUFFICES ASSUME boundary' # boundary, NEW s \in Pending(deferred, facts, boundary),
                         s > review.through
                  PROVE  s \in Pending(deferred', facts', boundary')
      BY DEF ArrivedWaits
    <2>. QED  BY <1>1, BoundaryMoves DEF Pending, still_pending
  <1>2. [][ArrivedWaits]_vars => ArrivalsWait
    BY PTL DEF ArrivalsWait, ArrivedWaits
  <1>. QED  BY <1>1, <1>2, Invariance, PTL DEF Spec

---------------------------------------------------------------------------
(* What a decision covers without having been given it: only what is older  *)
(* than all it was given of what waited, as much as the limit allows.       *)
LEMMA NewestCuts ==
    ASSUME NEW n \in Nat, NEW S \in SUBSET (0..n), NEW k \in Nat, NEW s \in S,
           s \notin Newest(S, k)
    PROVE  /\ Cardinality(Newest(S, k)) = k
           /\ \A t \in Newest(S, k) : s < t
  <1>. DEFINE Later(x) == {y \in S : y > x}
              Cut == S \ Newest(S, k)
  <1>1. /\ S \in SUBSET Nat /\ IsFiniteSet(S)
        /\ \A x \in S : IsFiniteSet(Later(x)) /\ Cardinality(Later(x)) \in Nat
    <2>1. IsFiniteSet(0..n)
      BY FS_Interval
    <2>2. IsFiniteSet(S)
      BY <2>1, FS_Subset
    <2>3. ASSUME NEW x \in S
          PROVE  IsFiniteSet(Later(x)) /\ Cardinality(Later(x)) \in Nat
      BY <2>2, FS_Subset, FS_CardinalityType
    <2>. QED  BY <2>2, <2>3
  <1>2. \A x \in S : x \in Newest(S, k) <=> Cardinality(Later(x)) < k
    BY DEF Newest
  <1>3. ASSUME NEW t \in Newest(S, k) PROVE s < t
    <2>1. t \in S /\ s \in Nat /\ t \in Nat
      BY <1>1 DEF Newest
    <2>2. SUFFICES ASSUME t <= s PROVE FALSE
      BY <2>1
    <2>3. Later(s) \in SUBSET Later(t)
      <3>1. ASSUME NEW y \in S, y > s PROVE y > t
        <4>1. y \in Nat
          BY <1>1
        <4>. QED  BY <2>1, <2>2, <3>1, <4>1
      <3>. QED  BY <3>1
    <2>4. Cardinality(Later(s)) <= Cardinality(Later(t))
      <3>. HIDE DEF Later
      <3>. QED  BY <1>1, <2>1, <2>3, FS_Subset
    <2>5. Cardinality(Later(s)) \in Nat /\ Cardinality(Later(t)) \in Nat
      BY <1>1, <2>1
    <2>. HIDE DEF Later
    <2>. QED  BY <1>2, <2>1, <2>4, <2>5
  <1>4. PICK z \in Cut : \A y \in Cut : y <= z
    <2>1. Cut \in SUBSET (0..n) /\ Cut # {}
      OBVIOUS
    <2>. HIDE DEF Cut
    <2>. QED  BY <2>1, LargestExists
  <1>5. Later(z) \in SUBSET Newest(S, k)
    <2>1. ASSUME NEW y \in S, y > z PROVE y \notin Cut
      <3>1. y \in Nat /\ z \in Nat
        BY <1>1, <1>4
      <3>. QED  BY <1>4, <2>1, <3>1
    <2>. QED  BY <2>1
  <1>6. ~(Cardinality(Later(z)) < k) /\ Cardinality(Later(z)) \in Nat
    BY <1>1, <1>2, <1>4
  <1>7. /\ IsFiniteSet(Newest(S, k)) /\ Cardinality(Newest(S, k)) \in Nat
        /\ Cardinality(Newest(S, k)) <= k
    BY <1>1, NewestKeeps
  <1>8. Cardinality(Later(z)) <= Cardinality(Newest(S, k))
    <2>. HIDE DEF Later
    <2>. QED  BY <1>5, <1>7, FS_Subset
  <1>9. Cardinality(Newest(S, k)) = k
    BY <1>6, <1>7, <1>8
  <1>. QED  BY <1>3, <1>9

(* As many as the limit that were read are newer.                           *)
Outnumbered(s, read) ==
    \E given \in SUBSET read : Cardinality(given) = DeferredLimit /\ \A t \in given : s < t

ReadKnown ==
    Current => \A s \in ReadSoFar(review.through) : s \in review.read \/ Outnumbered(s, review.read)

LEMMA ReadStep ==
    ASSUME IInv, ReadKnown, [Next]_vars
    PROVE  ReadKnown'
  <1>1. CASE BeginReview
    <2>. DEFINE P == Pending(deferred, facts, boundary)
    <2>0. TypeOK /\ last_sequence \in Nat /\ DeferredLimit \in Nat
      BY ReviewAssumption DEF IInv, TypeOK
    <2>1. /\ ReadSoFar(review.through)' = P /\ Newest(P, DeferredLimit) \subseteq review'.read
          /\ P \in SUBSET (0..last_sequence)
      BY <1>1, <2>0, BeginReads
    <2>2. ASSUME NEW s \in P, s \notin review'.read PROVE Outnumbered(s, review'.read)
      <3>. DEFINE given == Newest(P, DeferredLimit)
      <3>1. given \in SUBSET review'.read /\ s \notin given
        BY <2>1, <2>2
      <3>. HIDE DEF P
      <3>2. Cardinality(given) = DeferredLimit /\ \A t \in given : s < t
        BY <2>0, <2>1, <2>2, <3>1, NewestCuts
      <3>. HIDE DEF given
      <3>. QED  BY <3>1, <3>2 DEF Outnumbered
    <2>. QED  BY <2>1, <2>2 DEF ReadKnown, Outnumbered
  <1>2. CASE ~BeginReview
    <2>. SUFFICES ASSUME Current'
                  PROVE  \A s \in ReadSoFar(review.through)' :
                             s \in review'.read \/ Outnumbered(s, review'.read)
      BY DEF ReadKnown, Outnumbered
    <2>1. /\ Current /\ review' = review
          /\ ReadSoFar(review.through)' \subseteq ReadSoFar(review.through)
      BY <1>2, ReviewStands
    <2>. QED  BY <2>1 DEF ReadKnown
  <1>. QED  BY <1>1, <1>2

SkippedOldest ==
    boundary' # boundary =>
        \A s \in Pending(deferred, facts, boundary) :
            s <= boundary' => s \in review.read \/ Outnumbered(s, review.read)

(* A decision covers nothing unread but what is older than a full measure   *)
(* of what it did read: the newest questions are never passed over.         *)
THEOREM OnlyOldestUnread == Spec => [][SkippedOldest]_vars
  <1>1. IInv /\ ReadKnown /\ [Next]_vars => ReadKnown'
    BY ReadStep
  <1>2. ASSUME IInv, ReadKnown, [Next]_vars PROVE SkippedOldest
    BY <1>2, BoundaryMoves DEF SkippedOldest, ReadKnown, ReadSoFar
  <1>3. Init => ReadKnown
    BY DEF Init, ReadKnown, Current, Idle, NoReview
  <1>. QED  BY <1>1, <1>2, <1>3, Invariance, PTL DEF Spec

---------------------------------------------------------------------------
(* What waits comes one entry an input at most, so that a run within the    *)
(* limit has it all read.                                                   *)
Waiting == deferred \cup unresolved_evidence(facts)

WaitingFew == IsFiniteSet(Waiting) /\ Cardinality(Waiting) <= taken

LEMMA EvidenceEnters ==
    ASSUME NEW f, NEW g, NEW m, Refiled(f.issues, g.issues, m)
    PROVE  unresolved_evidence(g) \subseteq unresolved_evidence(f) \cup {m}
  <1>. SUFFICES ASSUME NEW id \in DOMAIN g.issues, NEW s \in g.issues[id].evidence
                PROVE  s \in unresolved_evidence(f) \cup {m}
    BY DEF unresolved_evidence
  <1>1. CASE id \in DOMAIN f.issues /\ g.issues[id] = f.issues[id]
    BY <1>1 DEF unresolved_evidence
  <1>2. CASE id \in DOMAIN f.issues /\ Entered(f.issues[id], g.issues[id], m)
    <2>1. s \in f.issues[id].evidence \cup {m}
      BY <1>2 DEF Entered, Newest
    <2>. QED  BY <1>2, <2>1 DEF unresolved_evidence
  <1>3. CASE \E r \in BOOLEAN : g.issues[id] = NewIssue(m, r)
    BY <1>3 DEF NewIssue
  <1>. QED  BY <1>1, <1>2, <1>3 DEF Refiled

LEMMA InputsCounted ==
    ASSUME TypeOK, CoverageHonest, [Next]_vars, ~ \E e \in Events : ApplyEvent(e)
    PROVE  taken' >= taken
  <1>1. taken \in Nat
    BY DEF TypeOK
  <1>2. CASE ReleaseDraft
    BY <1>1, <1>2, Releasing DEF inputs
  <1>3. CASE \E p \in Answers : RecordDecision(p)
    BY <1>1, <1>3, Recording DEF inputs
  <1>4. CASE ApplySomeInstruction
    BY <1>1, <1>4 DEF ApplySomeInstruction, ApplyInstruction, Input
  <1>5. CASE Terminate \/ FailAndResume \/ \E waited \in BOOLEAN : HoldAndResume(waited)
    BY <1>1, <1>5 DEF Terminate, FailAndResume, HoldAndResume, Input
  <1>6. CASE Age \/ Tick \/ BeginReview \/ SettleMemory \/ OutdateDraft \/ DiscardReview
    BY <1>1, <1>6
    DEF Age, Tick, BeginReview, SettleMemory, OutdateDraft, DiscardReview, inputs
  <1>7. CASE \E decision \in {"approved", "rejected"} : ApplyReview(decision)
    BY <1>1, <1>7 DEF ApplyReview, inputs
  <1>8. CASE \E claims \in Narratives, asked, readable \in BOOLEAN :
                 Finalize(claims, asked, readable)
    BY <1>1, <1>8 DEF Finalize, inputs
  <1>9. CASE UNCHANGED vars
    BY <1>1, <1>9 DEF vars, inputs
  <1>. QED
    BY <1>2, <1>3, <1>4, <1>5, <1>6, <1>7, <1>8, <1>9 DEF Next

LEMMA WaitingStep ==
    ASSUME IInv, WaitingFew, [Next]_vars
    PROVE  WaitingFew'
  <1>0. TypeOK /\ CoverageHonest /\ DraftKnown /\ TypeOK'
    BY NextKnown DEF IInv
  <1>1. /\ last_sequence \in Nat /\ now \in Nat /\ FactsUpTo(facts, last_sequence)
        /\ taken \in Nat /\ taken' \in Nat
    BY <1>0 DEF TypeOK, StartedAt
  <1>2. IsFiniteSet(Waiting) /\ Cardinality(Waiting) \in Nat /\ Cardinality(Waiting) <= taken
    BY FS_CardinalityType DEF WaitingFew
  <1>3. CASE \E e \in Events : ApplyEvent(e)
    <2>. DEFINE S == Waiting \cup {last_sequence + 1}
    <2>1. PICK e \in Events : ApplyEvent(e)
      BY <1>3
    <2>2. /\ Refiled(facts.issues, facts'.issues, last_sequence + 1)
          /\ deferred' \subseteq deferred \cup {last_sequence + 1}
          /\ taken' = taken + 1
      BY <1>0, <2>1, Applying DEF Interpreted, Outcome, Newest, Input
    <2>3. Waiting' \in SUBSET S
      BY <2>2, EvidenceEnters DEF Waiting
    <2>4. IsFiniteSet(S) /\ Cardinality(S) \in Nat /\ Cardinality(S) <= Cardinality(Waiting) + 1
      <3>1. /\ IsFiniteSet(S)
            /\ \/ Cardinality(S) = Cardinality(Waiting)
               \/ Cardinality(S) = Cardinality(Waiting) + 1
        BY <1>2, FS_AddElement
      <3>. QED  BY <1>2, <3>1
    <2>5. /\ IsFiniteSet(Waiting') /\ Cardinality(Waiting') \in Nat
          /\ Cardinality(Waiting') <= Cardinality(S)
      <3>. HIDE DEF S
      <3>. QED  BY <2>3, <2>4, FS_Subset, FS_CardinalityType
    <2>. HIDE DEF S
    <2>. QED  BY <1>1, <1>2, <2>2, <2>4, <2>5 DEF WaitingFew
  <1>4. CASE ~ \E e \in Events : ApplyEvent(e)
    <2>1. taken' >= taken
      BY <1>0, <1>4, InputsCounted
    <2>2. Waiting' \in SUBSET Waiting
      <3>1. CASE \E p \in Answers : RecordDecision(p)
        <4>1. PICK p \in Answers : RecordDecision(p)
          BY <3>1
        <4>2. /\ deferred' \subseteq deferred
              /\ unresolved_evidence(facts') = unresolved_evidence(facts)
          BY <1>0, <1>1, <4>1, Recording, ContactKeepsEvidence DEF still_pending
        <4>. QED  BY <4>2 DEF Waiting
      <3>2. CASE ReleaseDraft
        <4>1. /\ deferred' = deferred
              /\ unresolved_evidence(facts') = unresolved_evidence(facts)
          BY <1>0, <1>1, <3>2, Releasing, ContactKeepsEvidence DEF evidence
        <4>. QED  BY <4>1 DEF Waiting
      <3>3. CASE ~ReleaseDraft /\ ~ \E p \in Answers : RecordDecision(p)
        BY <1>0, <1>4, <3>3, StepsElsewhere DEF Elsewhere, Waiting
      <3>. QED  BY <3>1, <3>2, <3>3
    <2>3. /\ IsFiniteSet(Waiting') /\ Cardinality(Waiting') \in Nat
          /\ Cardinality(Waiting') <= Cardinality(Waiting)
      BY <1>2, <2>2, FS_Subset, FS_CardinalityType
    <2>. QED  BY <1>1, <1>2, <2>1, <2>3 DEF WaitingFew
  <1>. QED  BY <1>3, <1>4

AllRead == Current => ReadSoFar(review.through) \subseteq review.read

LEMMA AllReadStep ==
    ASSUME MaxInputs <= DeferredLimit, IInv, WaitingFew, AllRead, [Next]_vars
    PROVE  AllRead'
  <1>1. CASE BeginReview
    <2>. DEFINE P == Pending(deferred, facts, boundary)
    <2>0. /\ TypeOK /\ last_sequence \in Nat /\ DeferredLimit \in Nat
          /\ taken \in Nat /\ taken <= MaxInputs /\ MaxInputs \in Nat
      <3>1. TypeOK
        BY DEF IInv
      <3>2. DeferredLimit \in Nat /\ MaxInputs \in Nat
        BY ReviewAssumption, DeskBoundsAssumption
      <3>3. last_sequence \in Nat /\ taken \in 0..MaxInputs
        BY <3>1 DEF TypeOK
      <3>. QED  BY <3>1, <3>2, <3>3
    <2>1. /\ ReadSoFar(review.through)' = P /\ Newest(P, DeferredLimit) \subseteq review'.read
          /\ P \in SUBSET (0..last_sequence)
      BY <1>1, <2>0, BeginReads
    <2>2. P \in SUBSET Waiting /\ P \in SUBSET Nat
      BY <2>1 DEF Pending, Waiting
    <2>. HIDE DEF P
    <2>3. /\ IsFiniteSet(Waiting) /\ Cardinality(Waiting) \in Nat
          /\ Cardinality(Waiting) <= taken
      BY FS_CardinalityType DEF WaitingFew
    <2>4. /\ IsFiniteSet(P) /\ Cardinality(P) \in Nat
          /\ Cardinality(P) <= Cardinality(Waiting)
      BY <2>2, <2>3, FS_Subset, FS_CardinalityType
    <2>5. Cardinality(P) <= DeferredLimit
      BY <2>0, <2>3, <2>4
    <2>6. Newest(P, DeferredLimit) = P
      BY <2>0, <2>2, <2>4, <2>5, NewestKeepsAll
    <2>. QED  BY <2>1, <2>6 DEF AllRead
  <1>2. CASE ~BeginReview
    <2>. SUFFICES ASSUME Current' PROVE ReadSoFar(review.through)' \subseteq review'.read
      BY DEF AllRead
    <2>1. /\ Current /\ review' = review
          /\ ReadSoFar(review.through)' \subseteq ReadSoFar(review.through)
      BY <1>2, ReviewStands
    <2>. QED  BY <2>1 DEF AllRead
  <1>. QED  BY <1>1, <1>2

Covered ==
    boundary' # boundary =>
        {s \in Pending(deferred, facts, boundary) : s <= boundary'} \subseteq review.read

(* In a run of no more inputs than a decision is given references, a        *)
(* decision marks as covered only what it was given to read.                *)
THEOREM CoveredWasRead == ASSUME MaxInputs <= DeferredLimit PROVE Spec => EvidenceRead
  <1>1. IInv /\ WaitingFew /\ [Next]_vars => WaitingFew'
    BY WaitingStep
  <1>2. IInv /\ WaitingFew /\ AllRead /\ [Next]_vars => AllRead'
    BY AllReadStep
  <1>3. ASSUME IInv, AllRead, [Next]_vars PROVE Covered
    BY <1>3, BoundaryMoves DEF Covered, AllRead, ReadSoFar
  <1>4. Init => WaitingFew /\ AllRead
    <2>. SUFFICES ASSUME Init PROVE WaitingFew /\ AllRead
      OBVIOUS
    <2>1. deferred = {} /\ taken = 0 /\ Idle /\ facts.issues = <<>>
      BY DEF Init, Idle, NoReview, InitialFacts
    <2>2. Waiting = {}
      BY <2>1 DEF Waiting, unresolved_evidence
    <2>. QED  BY <2>1, <2>2, FS_EmptySet DEF WaitingFew, AllRead, Current
  <1>5. [][Covered]_vars => EvidenceRead
    BY PTL DEF EvidenceRead, Covered
  <1>. QED  BY <1>1, <1>2, <1>3, <1>4, <1>5, Invariance, PTL DEF Spec
=============================================================================
