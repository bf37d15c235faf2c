----------------------- MODULE OrderSupervisorProofs -----------------------
(***************************************************************************)
(* What holds of OrderSupervisor for every set of commands and every bound *)
(* of its constants.  IInv is the inductive invariant: TypeOK and          *)
(* FlowKnown from OrderSupervisorFlow, and one conjunct for each matter    *)
(* the workflow keeps in order: identities, drafts, latches, waits, the    *)
(* queue and the commands it answers.  The theorems are at the end.        *)
(***************************************************************************)
EXTENDS OrderSupervisorFlow

(* Identities on record, against the numbers the next ones are made of.     *)
ClaimsKnown ==
    /\ snapshot.status = "starting" => claimed = {}
    /\ \A key \in claimed :
           /\ key[1] = "generation" => key[2] <= snapshot.execution_generation
           /\ key[1] = "action" => key[2] <= counters.decisions
           /\ key[1] = "action" /\ Reviewing => key[2] < counters.decisions
    /\ Waiting.decision <= counters.decisions
    /\ LiveDraft(Waiting) =>
           /\ <<"action", Waiting.decision>> \notin claimed
           /\ Reviewing => Waiting.decision < counters.decisions

(* A decision is being recorded that leaves a draft of its own.             *)
Drafting == Asking /\ pending.op = "decide" /\ pending.candidate.pending_review # Waiting

(* Drafts, the approvals of them and the messages made of them.             *)
DraftsKnown ==
    LET messages == history.messages IN
    /\ Waiting.number <= counters.drafts
    /\ Waiting.status = "approved" => Waiting.number \in history.approved
    /\ \A i \in 1..Len(messages) :
           /\ messages[i].draft <= counters.drafts
           /\ LiveDraft(Waiting) => messages[i].draft # Waiting.number
           /\ Drafting => messages[i].draft < counters.drafts
    /\ MessagesAsApproved

LatchesKnown ==
    /\ \A c \in Commands : latches[c] # "none" => c.kind \in Holds
    /\ carry.inbox = <<>> /\ carry.latches = NoHolds
    /\ LatchBacked

(* What a pass that found nothing to do has settled on its way to the wait, *)
(* as long as nothing arrives.                                              *)
DraftSettled == ~(LiveDraft(Waiting) /\ Stale(Waiting)) /\ ~(Waiting.status = "approved" /\ CanAct)

Settling == At \in {"memory", "settle", "roll", "wait"} \/ pc = "gate"

WaitsKnown ==
    inbox = <<>> /\ closure = "none" /\ Settling =>
        /\ DraftSettled
        /\ pc # "gate" => ~(trigger /\ CanDecide(snapshot))
        /\ pc \in {"roll", "wait"} => snapshot.status # "evaluating"

(* What is due next is judged on an empty queue.                            *)
DrainKnown == pc \in {"draft", "judge"} /\ closure = "none" => inbox = <<>>

(* Every late round takes at least one delivery, so what is queued and what *)
(* was taken in rounds are never more than what arrived; the workflow       *)
(* returns on an empty queue, or with its rounds used up.                   *)
ArrivalsKnown ==
    /\ history.arrivals <= MaxDeliveries
    /\ counters.late_rounds + Len(inbox) <= history.arrivals
    /\ pc = "done" => inbox = <<>> \/ counters.late_rounds = MaxLateRounds

(* No more commands than one late round answers, or than there are rounds.  *)
FewArrivals == MaxDeliveries <= LateBatch /\ MaxDeliveries <= MaxLateRounds

(* Every delivery is answered at most once, and within one execution none   *)
(* is lost before the run is closed, nor after it if only few arrive.       *)
Account(c) == history.answered[c] + Copies(c, inbox) + Copies(c, pending.answers)

Accounted ==
    \A c \in Commands :
        /\ Account(c) <= history.delivered[c]
        /\ MaxRollovers = 0 /\ (At \notin {"late", "done"} \/ FewArrivals)
               => Account(c) = history.delivered[c]

IInv ==
    /\ TypeOK
    /\ FlowKnown
    /\ ClaimsKnown
    /\ DraftsKnown
    /\ LatchesKnown
    /\ WaitsKnown
    /\ DrainKnown
    /\ ArrivalsKnown
    /\ Accounted

---------------------------------------------------------------------------
(* What the workflow mints is new at the log.                               *)
LEMMA Minting ==
    ASSUME TypeOK, FlowKnown, ClaimsKnown
    PROVE  MintedOnce
  <1>1. CASE ~Asking
    BY <1>1 DEF FlowKnown, MintedOnce, Minted, Nothing
  <1>2. CASE Asking
    <2>1. AskedKnown /\ DecideKnown
      BY <1>2 DEF FlowKnown
    <2>2. CASE pending.op = "start"
      BY <2>1, <2>2 DEF AskedKnown, ClaimsKnown, MintedOnce, Minted, Applied
    <2>3. CASE pending.op = "generation"
      <3>1. pending.keys = {<<"generation", snapshot.execution_generation + 1>>}
        BY <2>1, <2>3 DEF AskedKnown, Asked
      <3>2. snapshot.execution_generation \in Nat
        BY Fields DEF TypeOK
      <3>3. <<"generation", snapshot.execution_generation + 1>> \notin claimed
        BY <3>2 DEF ClaimsKnown
      <3>. QED  BY <3>1, <3>3 DEF MintedOnce, Applied
    <2>4. CASE pending.op = "send"
      <3>1. pending.keys = {<<"action", Waiting.decision>>} /\ LiveDraft(Waiting)
        BY <2>1, <2>4 DEF AskedKnown, Asked, LiveDraft
      <3>. QED  BY <3>1 DEF ClaimsKnown, MintedOnce, Applied
    <2>5. CASE pending.op = "decide"
      <3>1. pending.keys \subseteq {<<"action", counters.decisions>>} /\ Reviewing
        BY <1>2, <2>1, <2>5 DEF DecideKnown, Reviewing
      <3>2. counters.decisions \in Nat
        BY DEF TypeOK
      <3>3. <<"action", counters.decisions>> \notin claimed
        BY <3>1, <3>2 DEF ClaimsKnown
      <3>. QED  BY <3>1, <3>3 DEF MintedOnce, Applied
    <2>. QED  BY <2>2, <2>3, <2>4, <2>5 DEF MintedOnce, Minted
  <1>. QED  BY <1>1, <1>2

(* What a receipt makes of the record.                                      *)
LEMMA Recorded ==
    ASSUME TypeOK, FlowKnown, ClaimsKnown, Receipt
    PROVE  LET op == pending.op
               draft == Waiting'
           IN
           /\ snapshot'.status # "starting"
           /\ snapshot'.execution_generation = IF op = "generation"
                  THEN snapshot.execution_generation + 1 ELSE snapshot.execution_generation
           /\ \/ draft = Waiting
              \/ draft = NoDraft
              \/ /\ draft = [Waiting EXCEPT !.status = "approved"]
                 /\ op = "approve" /\ Applied /\ Waiting.status = "pending"
              \/ draft = [Waiting EXCEPT !.status = "rejected"]
              \/ draft = [Waiting EXCEPT !.status = "outdated"]
              \/ draft = Drafted /\ op = "decide" /\ pending.keys = {}
                 /\ pending.candidate.pending_review = draft
           /\ op \in {"send", "finalize"} => draft = NoDraft
           /\ op = "outdate" /\ pending.keys = {} =>
                  draft = [Waiting EXCEPT !.status = "outdated"]
  <1>. USE DEF Asking
  <1>1. pc = "commit" /\ snapshot' = Promoted /\ pending.op \in Operations \ {"none"}
    BY DEF Receipt, FlowKnown, TypeOK, Operation
  <1>2. HandledKnown /\ AskedKnown /\ DecideKnown /\ PlaceKnown /\ MintedOnce
    BY <1>1, Minting DEF FlowKnown
  <1>3. pending.keys = {} => snapshot' = pending.candidate
    BY <1>1 DEF Promoted, Applied
  <1>4. pending.op \in Minted => Applied /\ snapshot' = pending.candidate
    BY <1>1, <1>2 DEF Promoted, MintedOnce
  <1>5. snapshot.status = "starting" => pending.op = "start"
    BY <1>1, <1>2 DEF PlaceKnown
  <1>6. snapshot \in Snapshot /\ Waiting \in Draft
    BY Fields DEF TypeOK, Waiting
  <1>7. CASE ~Applied
    <2>1. snapshot' = snapshot /\ Waiting' = Waiting /\ pending.op \notin Minted /\ pending.keys # {}
      BY <1>1, <1>3, <1>4, <1>7 DEF Promoted, Waiting, Applied
    <2>2. pending.op \notin {"send", "finalize", "generation", "start", "close", "late"}
      BY <1>2, <2>1 DEF AskedKnown, Asked, Minted
    <2>. QED  BY <1>5, <2>1, <2>2
  <1>8. CASE Applied
    <2>1. snapshot' = pending.candidate
      BY <1>1, <1>8 DEF Promoted
    <2>2. CASE pending.op \in {"approve", "reject", "outdate"}
      <3>1. PICK status \in {"approved", "rejected", "outdated"} :
                /\ pending.candidate = WithDraft(status)
                /\ status = "approved" <=> pending.op = "approve"
                /\ status = "outdated" <=> pending.op = "outdate"
        BY <1>2, <2>2 DEF HandledKnown, AskedKnown
      <3>2. pending.op = "approve" => Waiting.status = "pending"
        BY <1>2 DEF HandledKnown
      <3>3. Waiting' = [Waiting EXCEPT !.status = status]
            /\ snapshot'.status = snapshot.status
            /\ snapshot'.execution_generation = snapshot.execution_generation
        BY <1>6, <2>1, <3>1 DEF WithDraft, Waiting, Snapshot
      <3>. QED  BY <1>5, <1>8, <2>2, <3>1, <3>2, <3>3
    <2>3. CASE pending.op \in HandledOperations \ {"approve", "reject"}
      <3>1. pending.candidate.pending_review = Waiting
            /\ pending.candidate.execution_generation = snapshot.execution_generation
            /\ pending.candidate.status \in {snapshot.status, "paused", "evaluating"}
        BY <1>1, <1>2, <1>6, <2>3 DEF HandledKnown, HandledOperations, Snapshot, Paused, Waiting
      <3>. QED  BY <1>5, <2>1, <2>3, <3>1 DEF Waiting, HandledOperations
    <2>4. CASE pending.op = "decide"
      <3>1. /\ pending.candidate.pending_review \in {Waiting, Drafted}
            /\ pending.candidate.execution_generation = snapshot.execution_generation
            /\ pending.candidate.status = "sleeping"
            /\ pending.candidate.pending_review # Waiting => pending.keys = {}
        BY <1>2, <1>6, <2>4 DEF DecideKnown, Asked, Snapshot
      <3>. QED  BY <2>1, <2>4, <3>1 DEF Waiting
    <2>5. CASE pending.op \in {"send", "finalize"}
      <3>1. pending.candidate.pending_review = NoDraft
            /\ pending.candidate.execution_generation = snapshot.execution_generation
            /\ pending.candidate.status \in {snapshot.status, "finalizing"}
        BY <1>2, <1>6, <2>5 DEF AskedKnown, Asked, Snapshot
      <3>. QED  BY <1>5, <2>1, <2>5, <3>1 DEF Waiting
    <2>6. CASE pending.op \in {"start", "generation", "evaluate", "discard", "stale", "recover",
                               "memory", "sleep", "prepare", "close", "late"}
      <3>1. /\ pending.candidate.pending_review = Waiting
            /\ pending.candidate.execution_generation = IF pending.op = "generation"
                  THEN snapshot.execution_generation + 1 ELSE snapshot.execution_generation
        BY <1>2, <1>6, <2>6 DEF AskedKnown, Asked, Snapshot, Waiting
      <3>2. pending.candidate.status # "starting"
        <4>1. CASE pending.op = "close"
          <5>1. closure \in Reasons /\ CLOSED_STATUS[closure] # "starting"
            BY <1>2, <4>1 DEF AskedKnown, TypeOK, CLOSED_STATUS, Reasons
          <5>. QED  BY <1>2, <1>6, <4>1, <5>1 DEF AskedKnown, Asked, Snapshot
        <4>2. CASE pending.op = "late"
          BY <1>2, <4>2 DEF AskedKnown, PlaceKnown
        <4>3. CASE pending.op \notin {"close", "late"}
          BY <1>2, <1>5, <1>6, <2>6, <4>3 DEF AskedKnown, Asked, Snapshot
        <4>. QED  BY <4>1, <4>2, <4>3
      <3>. QED  BY <2>1, <2>6, <3>1, <3>2 DEF Waiting
    <2>. QED  BY <1>1, <2>2, <2>3, <2>4, <2>5, <2>6 DEF Operations, HandledOperations
  <1>. QED  BY <1>7, <1>8

---------------------------------------------------------------------------
(* The identities on record stand while neither the record nor the numbers  *)
(* move and no decision begins.                                             *)
LEMMA ClaimsKept ==
    ASSUME ClaimsKnown, UNCHANGED <<snapshot, claimed>>, Reviewing' => Reviewing,
           counters'.decisions = counters.decisions
    PROVE  ClaimsKnown'
  BY DEF ClaimsKnown, Waiting

(* Where a review is under way before and after a step that sends nothing.  *)
LEMMA ArrivalClaims ==
    ASSUME ClaimsKnown
    PROVE  /\ \A c \in Commands : Deliver(c) => ClaimsKnown'
           /\ Age => ClaimsKnown'
           /\ ReviewFallsDue => ClaimsKnown'
  BY ClaimsKept DEF Deliver, Age, ReviewFallsDue, memory, record, Reviewing, At, Asking

(* A handler of a queued command leaves the identities as they are.         *)
LEMMA HandledClaims ==
    ASSUME TypeOK, ClaimsKnown, NEW c \in Commands, Apply(c)
    PROVE  ClaimsKnown'
  <1>1. ASSUME NEW op, NEW candidate, NEW keys, Queued(c), Take(c, op, candidate, keys),
               op # "decide"
        PROVE  ClaimsKnown'
    <2>1. Reviewing' => Reviewing
      BY <1>1 DEF Queued, Take, Commit, Reviewing, At, Asking, Draining
    <2>. QED  BY <1>1, <2>1, ClaimsKept DEF Take, memory, record
  <1>2. ASSUME RecordOnly(c), Queued(c) PROVE ClaimsKnown'
    BY <1>1, <1>2 DEF RecordOnly
  <1>. QED
    BY <1>1, <1>2 DEF Apply, ApplyEvent, ApplyInstruction, ApplyHold, ApplyResume,
       ApplyTerminate, ApplyReview

(* So does every other step that neither begins a decision nor receives a   *)
(* receipt.                                                                 *)
LEMMA WorkflowClaims ==
    ASSUME TypeOK, FlowKnown, ClaimsKnown, Workflow, ~Receipt, ~BeginReview
    PROVE  ClaimsKnown'
  <1>. USE DEF Reviewing, At, Asking, Draining
  <1>1. ASSUME NEW op, NEW candidate, NEW keys, NEW next, Record(op, candidate, keys, next),
               op # "decide", next \notin {"evidence", "thinking", "redrain", "judge"}
        PROVE  ClaimsKnown'
    BY <1>1, ClaimsKept DEF Record, Commit, record, memory
  <1>2. ASSUME NEW from, NEW to, Pass(from, to),
               to \notin {"commit", "hold", "evidence", "thinking", "redrain", "judge"}
        PROVE  ClaimsKnown'
    BY <1>2, ClaimsKept DEF Pass, record, memory
  <1>3. ASSUME NEW n, Attempt(n), pc \in {"evidence", "thinking"} PROVE ClaimsKnown'
    <2>1. CASE Interrupted
      BY <1>1, <1>3, <2>1 DEF Attempt, Discard
    <2>2. CASE ~Interrupted
      BY <1>3, <2>2, ClaimsKept DEF Attempt, record
    <2>. QED  BY <2>1, <2>2
  <1>4. ASSUME GiveUpReview PROVE ClaimsKnown'
    BY <1>4, ClaimsKept DEF GiveUpReview, record, memory
  <1>5. (Initialize => ClaimsKnown') /\ (Finalize => ClaimsKnown') /\ (Close => ClaimsKnown')
        /\ (PrepareRollOver => ClaimsKnown') /\ (EnterRecovery => ClaimsKnown')
    BY <1>1 DEF Initialize, Finalize, Close, PrepareRollOver, EnterRecovery
  <1>6. Restore => ClaimsKnown'
    BY ClaimsKept DEF Restore, Commit, record, memory
  <1>7. (ObserveAge => ClaimsKnown') /\ (AbandonRollOver => ClaimsKnown')
        /\ (ContinueAsNew => ClaimsKnown') /\ (WakeUp => ClaimsKnown')
    BY ClaimsKept DEF ObserveAge, AbandonRollOver, ContinueAsNew, WakeUp, record
  <1>8. (SkipReview => ClaimsKnown') /\ (SkipRollOver => ClaimsKnown') /\ (Return => ClaimsKnown')
    BY <1>2 DEF SkipReview, SkipRollOver, Return
  <1>9. ASSUME FinishHold PROVE ClaimsKnown'
    BY <1>9, ClaimsKept DEF FinishHold, Commit, memory, record
  <1>10. ASSUME EndDrain PROVE ClaimsKnown'
    BY <1>10, ClaimsKept DEF EndDrain, record
  <1>11. ASSUME SettleDraft PROVE ClaimsKnown'
    BY <1>1, <1>11, ClaimsKept DEF SettleDraft, record, memory
  <1>12. (EvidenceArrives => ClaimsKnown') /\ (EvidenceTooLarge => ClaimsKnown')
         /\ (DecisionFails => ClaimsKnown')
    BY <1>3, <1>4 DEF EvidenceArrives, EvidenceTooLarge, DecisionFails
  <1>13. AbandonReview => ClaimsKnown'
    BY <1>1 DEF AbandonReview, Discard
  <1>14. ASSUME NEW proposal \in Proposals, DecisionArrives(proposal) PROVE ClaimsKnown'
    BY <1>14, ClaimsKept DEF DecisionArrives, record
  <1>15. ASSUME RefuseDecision \/ DiscardStale \/ RecordDecision PROVE ClaimsKnown'
    <2>1. Reviewing /\ UNCHANGED <<snapshot, claimed>>
      BY <1>15 DEF RefuseDecision, DiscardStale, RecordDecision, record
    <2>2. counters'.decisions = counters.decisions
      BY <1>15 DEF TypeOK, RefuseDecision, DiscardStale, RecordDecision
    <2>. QED  BY <2>1, <2>2, ClaimsKept
  <1>16. (SettleMemory => ClaimsKnown') /\ (SettleWaitingState => ClaimsKnown')
    BY <1>1, <1>2 DEF SettleMemory, SettleWaitingState
  <1>17. ASSUME DisposeLate PROVE ClaimsKnown'
    <2>1. counters'.decisions = counters.decisions
      BY <1>17 DEF TypeOK, DisposeLate
    <2>2. ~Reviewing' /\ UNCHANGED <<snapshot, claimed>>
      BY <1>17 DEF DisposeLate, Commit, record
    <2>. QED  BY <2>1, <2>2, ClaimsKept
  <1>. QED
    BY <1>5, <1>6, <1>7, <1>8, <1>9, <1>10, <1>11, <1>12, <1>13, <1>14, <1>15, <1>16, <1>17,
       HandledClaims DEF Workflow

(* A new decision takes a new number.                                       *)
LEMMA BeginClaims ==
    ASSUME TypeOK, ClaimsKnown, BeginReview
    PROVE  ClaimsKnown'
  <1>1. counters'.decisions = counters.decisions + 1 /\ counters.decisions \in Nat
    BY DEF BeginReview, TypeOK
  <1>2. UNCHANGED <<snapshot, claimed>>
    BY DEF BeginReview, record
  <1>3. Waiting.decision \in Nat
    BY Fields DEF TypeOK, Waiting, Draft
  <1>4. \A key \in claimed : key[2] \in Nat
    BY DEF TypeOK
  <1>. QED  BY <1>1, <1>2, <1>3, <1>4 DEF ClaimsKnown, Waiting

(* A receipt records the identities of what was sent.                       *)
LEMMA ReceiptClaims ==
    ASSUME TypeOK, FlowKnown, ClaimsKnown, Receipt
    PROVE  ClaimsKnown'
  <1>. USE DEF Asking, At
  <1>. DEFINE op == pending.op
  <1>1. pc = "commit" /\ op \in Operations \ {"none"} /\ claimed' = claimed \cup pending.keys
        /\ counters'.decisions = counters.decisions
    BY DEF Receipt, FlowKnown, TypeOK, Operation
  <1>2. HandledKnown /\ AskedKnown /\ DecideKnown
    BY <1>1 DEF FlowKnown
  <1>3. counters.decisions \in Nat /\ Waiting \in Draft /\ snapshot.execution_generation \in Nat
    BY Fields DEF TypeOK, Waiting
  <1>4. Reviewing' => Reviewing /\ op # "decide"
    <2>1. CASE op = "pausing"
      BY <1>1, <2>1 DEF Receipt, Reviewing, ExhaustedByStaleness
    <2>2. CASE op # "pausing"
      <3>1. pc' \in {"recover", pending.next} /\ pending' = Nothing
        BY <1>1, <2>2 DEF Receipt
      <3>2. op = "decide" => pending.next = "loop"
        BY <1>2 DEF DecideKnown, Asked
      <3>3. pc' # "hold" /\ pc' # "commit"
        BY <1>1, <1>2, <2>2, <3>1
        DEF AskedKnown, DecideKnown, HandledKnown, Handled, Asked, Draining, Operations,
            HandledOperations
      <3>. QED  BY <1>1, <3>1, <3>2, <3>3 DEF Reviewing
    <2>. QED  BY <2>1, <2>2
  <1>5. \/ pending.keys \subseteq {"command", "event"} \X Nat
        \/ op = "generation" /\ pending.keys = {<<"generation", snapshot.execution_generation + 1>>}
        \/ op = "send" /\ pending.keys = {<<"action", Waiting.decision>>}
        \/ op = "decide" /\ pending.keys \subseteq {<<"action", counters.decisions>>}
    <2>1. ASSUME Handled PROVE pending.keys \subseteq {"command", "event"} \X Nat
      <3>1. pending.answers[1] \in Commands /\ pending.keys \subseteq Identities(pending.answers[1])
        BY <2>1 DEF Handled, TypeOK, Operation
      <3>. QED  BY <3>1, CommandsAssumption DEF Identities
    <2>2. CreationEvent \in {"command", "event"} \X Nat
      BY DEF CreationEvent
    <2>3. op \in HandledOperations => Handled
      BY <1>2 DEF HandledKnown
    <2>. QED
      BY <1>1, <1>2, <2>1, <2>2, <2>3 DEF AskedKnown, DecideKnown, Asked, Operations, HandledOperations
  <1>6. LET draft == Waiting' IN
        /\ draft.decision <= counters.decisions
        /\ LiveDraft(draft) =>
               /\ op \notin {"send", "finalize"}
               /\ \/ draft = Drafted /\ op = "decide" /\ pending.keys = {}
                  \/ draft.decision = Waiting.decision /\ LiveDraft(Waiting)
    BY <1>3, Recorded DEF ClaimsKnown, LiveDraft, Draft, NoDraft, Drafted
  <1>7. snapshot'.status # "starting" /\ snapshot'.execution_generation =
            IF op = "generation" THEN snapshot.execution_generation + 1
            ELSE snapshot.execution_generation
    BY Recorded
  <1>8. op = "decide" => Reviewing
    BY <1>1 DEF Reviewing
  <1>9. ASSUME NEW key \in claimed'
        PROVE  /\ key[1] = "generation" => key[2] <= snapshot'.execution_generation
               /\ key[1] = "action" => key[2] <= counters.decisions
               /\ key[1] = "action" /\ Reviewing' => key[2] < counters.decisions
    <2>1. CASE key \in claimed
      <3>1. key[2] \in Nat
        BY <2>1 DEF TypeOK
      <3>. QED  BY <1>3, <1>4, <1>7, <2>1, <3>1 DEF ClaimsKnown
    <2>2. CASE key \in pending.keys
      <3>1. op = "send" => Waiting.decision <= counters.decisions
                           /\ (Reviewing' => Waiting.decision < counters.decisions)
        BY <1>2, <1>4 DEF ClaimsKnown, AskedKnown, LiveDraft
      <3>. QED  BY <1>3, <1>4, <1>5, <1>7, <2>2, <3>1
    <2>. QED  BY <1>1, <2>1, <2>2
  <1>10. ASSUME LiveDraft(Waiting')
         PROVE  /\ <<"action", Waiting'.decision>> \notin claimed'
                /\ Reviewing' => Waiting'.decision < counters.decisions
    <2>1. CASE Waiting' = Drafted /\ op = "decide" /\ pending.keys = {}
      <3>1. Waiting'.decision = counters.decisions
        BY <2>1 DEF Drafted
      <3>2. <<"action", counters.decisions>> \notin claimed
        BY <1>3, <1>8, <2>1 DEF ClaimsKnown
      <3>. QED  BY <1>1, <1>4, <2>1, <3>1, <3>2
    <2>2. CASE Waiting'.decision = Waiting.decision /\ LiveDraft(Waiting)
      <3>1. <<"action", Waiting.decision>> \notin pending.keys
        BY <1>3, <1>5, <1>6, <1>8, <1>10, <2>2 DEF ClaimsKnown
      <3>. QED  BY <1>1, <1>4, <2>2, <3>1 DEF ClaimsKnown
    <2>. QED  BY <1>6, <1>10, <2>1, <2>2
  <1>. QED
    BY <1>1, <1>6, <1>7, <1>9, <1>10 DEF ClaimsKnown

---------------------------------------------------------------------------
(* Only a receipt changes the record, only a decision makes a draft.        *)
LEMMA Unrecorded ==
    ASSUME TypeOK, Workflow, ~Receipt
    PROVE  /\ UNCHANGED record
           /\ ~RecordDecision => ~Drafting' /\ counters'.drafts = counters.drafts
  <1>. DEFINE Quiet == /\ UNCHANGED record
                       /\ ~Drafting'
                       /\ counters'.drafts = counters.drafts
  <1>. USE DEF Drafting, Asking
  <1>1. ASSUME NEW op, NEW candidate, NEW keys, NEW next, Record(op, candidate, keys, next),
               op # "decide"
        PROVE  Quiet
    BY <1>1 DEF Record, Commit, memory
  <1>2. ASSUME NEW from, NEW to, Pass(from, to), to \notin {"commit", "hold"}
        PROVE  Quiet
    BY <1>2 DEF Pass, memory
  <1>3. ASSUME NEW n, Attempt(n) PROVE Quiet
    BY <1>1, <1>3 DEF Attempt, Discard
  <1>4. (EvidenceArrives => Quiet) /\ (EvidenceTooLarge => Quiet) /\ (DecisionFails => Quiet)
        /\ (AbandonReview => Quiet)
    BY <1>1, <1>3 DEF EvidenceArrives, EvidenceTooLarge, DecisionFails, AbandonReview, Discard,
       GiveUpReview, memory
  <1>5. (Initialize => Quiet) /\ (Finalize => Quiet) /\ (Close => Quiet)
        /\ (PrepareRollOver => Quiet) /\ (EnterRecovery => Quiet)
    BY <1>1 DEF Initialize, Finalize, Close, PrepareRollOver, EnterRecovery
  <1>6. (Restore => Quiet) /\ (FinishHold => Quiet)
    BY DEF Restore, FinishHold, Commit, memory
  <1>7. (ObserveAge => Quiet) /\ (AbandonRollOver => Quiet) /\ (ContinueAsNew => Quiet)
        /\ (WakeUp => Quiet) /\ (EndDrain => Quiet)
    BY DEF ObserveAge, AbandonRollOver, ContinueAsNew, WakeUp, EndDrain
  <1>8. (SkipReview => Quiet) /\ (SkipRollOver => Quiet) /\ (Return => Quiet)
    BY <1>2 DEF SkipReview, SkipRollOver, Return
  <1>9. (SettleMemory => Quiet) /\ (SettleWaitingState => Quiet)
    BY <1>1, <1>2 DEF SettleMemory, SettleWaitingState
  <1>10. SettleDraft => Quiet
    BY <1>1 DEF SettleDraft, memory
  <1>11. ASSUME NEW proposal \in Proposals, DecisionArrives(proposal) PROVE Quiet
    BY <1>11 DEF DecisionArrives
  <1>12. ASSUME RefuseDecision \/ DiscardStale \/ BeginReview \/ DisposeLate PROVE Quiet
    BY <1>12, Numbers
    DEF RefuseDecision, DiscardStale, BeginReview, DisposeLate, Commit, CountersType
  <1>13. ASSUME NEW c \in Commands, Apply(c) PROVE Quiet
    <2>1. ASSUME NEW op, NEW candidate, NEW keys, Take(c, op, candidate, keys), op # "decide"
          PROVE  Quiet
      BY <2>1 DEF Take, Commit, memory
    <2>. QED
      BY <1>13, <2>1 DEF Apply, ApplyEvent, ApplyInstruction, ApplyHold, ApplyResume,
         ApplyTerminate, ApplyReview, RecordOnly
  <1>14. RecordDecision => UNCHANGED record
    BY DEF RecordDecision
  <1>. QED
    BY <1>4, <1>5, <1>6, <1>7, <1>8, <1>9, <1>10, <1>11, <1>12, <1>13, <1>14 DEF Workflow

(* The drafts stand while neither the record nor their number moves and     *)
(* none is being made.                                                      *)
LEMMA DraftsKept ==
    ASSUME DraftsKnown, UNCHANGED snapshot, Drafting' => Drafting,
           counters'.drafts = counters.drafts,
           history'.approved = history.approved, history'.messages = history.messages
    PROVE  DraftsKnown'
  BY DEF DraftsKnown, MessagesAsApproved, Waiting

(* Signals and time leave the drafts as they are.                           *)
LEMMA ArrivalDrafts ==
    ASSUME TypeOK, DraftsKnown
    PROVE  /\ \A c \in Commands : Deliver(c) => DraftsKnown'
           /\ Age => DraftsKnown'
           /\ ReviewFallsDue => DraftsKnown'
  <1>. USE DEF Drafting, Asking, Waiting
  <1>1. ASSUME NEW c \in Commands, Deliver(c) PROVE DraftsKnown'
    <2>1. history'.approved = history.approved /\ history'.messages = history.messages
      BY <1>1 DEF Deliver, TypeOK
    <2>. QED  BY <1>1, <2>1, DraftsKept DEF Deliver, memory
  <1>2. Age \/ ReviewFallsDue => DraftsKnown'
    BY DraftsKept DEF Age, ReviewFallsDue, memory, record
  <1>. QED  BY <1>1, <1>2

(* The drafts of recorded messages are numbers.                             *)
LEMMA DraftNumbers ==
    ASSUME TypeOK
    PROVE  \A i \in 1..Len(history.messages) : history.messages[i].draft \in Nat
  <1>1. history.messages \in Seq([draft : Nat, written : Nat, sent : Nat])
    BY DEF TypeOK
  <1>2. ASSUME NEW i \in 1..Len(history.messages)
        PROVE  history.messages[i] \in [draft : Nat, written : Nat, sent : Nat]
    BY <1>1, ElementOfSeq
  <1>. QED  BY <1>2

(* A new draft has a number no message has.                                 *)
LEMMA DecisionDrafts ==
    ASSUME TypeOK, DraftsKnown, RecordDecision
    PROVE  DraftsKnown'
  <1>1. counters.drafts \in Nat /\ Waiting.number \in Nat
        /\ history.messages \in Seq([draft : Nat, written : Nat, sent : Nat])
    BY Fields DEF TypeOK, Waiting, Draft
  <1>2. \A i \in 1..Len(history.messages) : history.messages[i].draft \in Nat
    BY DraftNumbers
  <1>3. UNCHANGED <<snapshot, history>>
    BY DEF RecordDecision, record
  <1>. DEFINE drafts == review.proposal = "draft" /\ ~LiveDraft(snapshot.pending_review)
  <1>4. CASE drafts
    <2>1. counters'.drafts = counters.drafts + 1
      BY <1>4, Numbers DEF RecordDecision, CountersType
    <2>2. \A i \in 1..Len(history.messages) : history.messages[i].draft < counters'.drafts
      <3>1. \A i \in 1..Len(history.messages) : history.messages[i].draft <= counters.drafts
        BY DEF DraftsKnown
      <3>2. counters.drafts \in Nat
        BY <1>1
      <3>. QED  BY <1>2, <2>1, <3>1, <3>2
    <2>3. MessagesAsApproved'
      BY <1>3 DEF DraftsKnown, MessagesAsApproved
    <2>4. Waiting' = Waiting /\ Waiting.number <= counters'.drafts
      <3>1. Waiting' = Waiting
        BY <1>3 DEF Waiting
      <3>2. Waiting.number <= counters.drafts
        BY DEF DraftsKnown
      <3>3. counters.drafts \in Nat /\ Waiting.number \in Nat
        BY <1>1
      <3>4. Waiting.number <= counters.drafts + 1
        BY <3>2, <3>3
      <3>. QED  BY <2>1, <3>1, <3>4
    <2>. QED  BY SMTT(20), <1>1, <1>2, <1>3, <2>1, <2>2, <2>3, <2>4 DEF DraftsKnown
  <1>5. CASE ~drafts
    <2>1. counters'.drafts = counters.drafts
      BY <1>5, Numbers DEF RecordDecision, CountersType
    <2>2. ~Drafting'
      <3>1. pending'.candidate.pending_review = snapshot.pending_review
        BY <1>5 DEF RecordDecision, Commit, TypeOK, Snapshot
      <3>. QED  BY <1>3, <3>1 DEF Drafting, Waiting
    <2>. QED  BY <1>3, <2>1, <2>2, DraftsKept
  <1>. QED  BY <1>4, <1>5

(* A receipt approves a draft, sends one, or replaces it.                   *)
LEMMA ReceiptDrafts ==
    ASSUME TypeOK, FlowKnown, ClaimsKnown, DraftsKnown, Receipt
    PROVE  DraftsKnown'
  <1>. DEFINE op == pending.op
              messages == history.messages
  <1>1. pc = "commit" /\ op # "none" /\ HandledKnown /\ AskedKnown /\ DecideKnown
    BY DEF Receipt, FlowKnown, Asking
  <1>2. /\ counters.drafts \in Nat /\ Waiting \in Draft /\ Waiting.number \in Nat
        /\ messages \in Seq([draft : Nat, written : Nat, sent : Nat])
        /\ counters'.drafts = counters.drafts
    BY Fields DEF TypeOK, Waiting, Draft, Receipt
  <1>3. ~Drafting'
    <2>1. CASE op = "pausing"
      BY <2>1 DEF Receipt, Drafting
    <2>2. CASE op # "pausing"
      BY <2>2 DEF Receipt, Drafting, Nothing
    <2>. QED  BY <2>1, <2>2
  <1>4. /\ history'.approved = history.approved \cup
                  (IF op = "approve" /\ Applied THEN {Waiting.number} ELSE {})
        /\ history'.messages = IF op = "send" /\ Applied
                               THEN Append(messages, Message) ELSE messages
    BY HistoryKnown DEF Receipt
  <1>5. LET draft == Waiting' IN
        /\ draft.number <= counters.drafts
        /\ draft.status = "approved" => draft.number \in history'.approved
        /\ LiveDraft(draft) =>
               \A i \in 1..Len(messages) : messages[i].draft # draft.number
    <2>1. CASE Waiting' = Waiting
      BY <1>4, <2>1 DEF DraftsKnown
    <2>2. CASE Waiting' = NoDraft
      BY <1>2, <2>2 DEF NoDraft, LiveDraft
    <2>3. CASE /\ Waiting' = [Waiting EXCEPT !.status = "approved"]
               /\ op = "approve" /\ Applied /\ Waiting.status = "pending"
      BY <1>2, <1>4, <2>3 DEF DraftsKnown, LiveDraft, Draft
    <2>4. CASE \/ Waiting' = [Waiting EXCEPT !.status = "rejected"]
               \/ Waiting' = [Waiting EXCEPT !.status = "outdated"]
      BY <1>2, <2>4 DEF DraftsKnown, LiveDraft, Draft
    <2>5. CASE Waiting' = Drafted /\ op = "decide" /\ pending.candidate.pending_review = Waiting'
      <3>1. CASE Waiting' = Waiting
        BY <2>1, <3>1
      <3>2. CASE Waiting' # Waiting
        <4>1. Drafting
          BY <1>1, <2>5, <3>2 DEF Drafting, Asking
        <4>2. \A i \in 1..Len(messages) : messages[i].draft \in Nat
          BY DraftNumbers
        <4>. QED  BY <1>2, <2>5, <4>1, <4>2 DEF DraftsKnown, Drafted
      <3>. QED  BY <3>1, <3>2
    <2>. QED  BY <2>1, <2>2, <2>3, <2>4, <2>5, Recorded
  <1>6. CASE op = "send" /\ Applied
    <2>1. Waiting' = NoDraft /\ Waiting.status = "approved" /\ ~Stale(Waiting)
      BY <1>1, <1>6, Recorded DEF AskedKnown
    <2>2. /\ Message.draft = Waiting.number
          /\ Message.written = Message.sent
          /\ Message.draft <= counters.drafts
          /\ Message.draft \in history.approved
          /\ \A i \in 1..Len(messages) : messages[i].draft # Message.draft
      BY <2>1 DEF Message, Stale, DraftsKnown, LiveDraft
    <2>3. /\ history'.approved = history.approved
          /\ Len(history'.messages) = Len(messages) + 1 /\ Len(messages) \in Nat
          /\ \A i \in 1..Len(messages) : history'.messages[i] = messages[i]
          /\ history'.messages[Len(messages) + 1] = Message
      <3>1. Message \in [draft : Nat, written : Nat, sent : Nat]
        BY Fields DEF Message, Waiting, TypeOK, Draft
      <3>. QED  BY <1>2, <1>4, <1>6, <3>1, AppendProperties
    <2>4. \A i \in 1..Len(history'.messages) :
              \/ i \in 1..Len(messages) /\ history'.messages[i] = messages[i]
              \/ i = Len(messages) + 1 /\ history'.messages[i] = Message
      BY <2>3
    <2>5. MessagesAsApproved'
      <3>. SUFFICES ASSUME NEW i \in 1..Len(history'.messages)
                    PROVE  /\ history'.messages[i].draft \in history'.approved
                           /\ history'.messages[i].sent = history'.messages[i].written
                           /\ \A j \in 1..Len(history'.messages) :
                                  history'.messages[j].draft = history'.messages[i].draft => j = i
        BY DEF MessagesAsApproved
      <3>1. CASE i \in 1..Len(messages) /\ history'.messages[i] = messages[i]
        BY <2>2, <2>3, <2>4, <3>1 DEF DraftsKnown, MessagesAsApproved
      <3>2. CASE i = Len(messages) + 1 /\ history'.messages[i] = Message
        BY <2>2, <2>3, <2>4, <3>2
      <3>. QED  BY <2>4, <3>1, <3>2
    <2>6. ~LiveDraft(Waiting')
      BY <2>1 DEF NoDraft, LiveDraft
    <2>7. \A i \in 1..Len(history'.messages) : history'.messages[i].draft <= counters.drafts
      BY <2>2, <2>4 DEF DraftsKnown
    <2>. QED  BY <1>2, <1>3, <1>5, <2>5, <2>6, <2>7 DEF DraftsKnown
  <1>7. CASE ~(op = "send" /\ Applied)
    <2>1. history'.messages = messages /\ history.approved \subseteq history'.approved
      BY <1>4, <1>7
    <2>2. MessagesAsApproved'
      BY <2>1 DEF DraftsKnown, MessagesAsApproved
    <2>. QED  BY <1>2, <1>3, <1>5, <2>1, <2>2 DEF DraftsKnown
  <1>. QED  BY <1>6, <1>7

(* Every step of the workflow keeps the drafts in order.                    *)
LEMMA WorkflowDrafts ==
    ASSUME TypeOK, FlowKnown, ClaimsKnown, DraftsKnown, Workflow
    PROVE  DraftsKnown'
  <1>1. CASE Receipt
    BY <1>1, ReceiptDrafts
  <1>2. CASE RecordDecision
    BY <1>2, DecisionDrafts
  <1>3. CASE ~Receipt /\ ~RecordDecision
    BY <1>3, Unrecorded, DraftsKept DEF record
  <1>. QED  BY <1>1, <1>2, <1>3

---------------------------------------------------------------------------
(* Only the drains and the two ends of an execution change the queue.       *)
LEMMA Undisturbed ==
    ASSUME Workflow, ~(\E c \in Commands : Apply(c)), ~Restore, ~ContinueAsNew, ~DisposeLate
    PROVE  UNCHANGED <<inbox, latches, carry>> /\ (closure' = "none" => closure = "none")
  <1>. DEFINE Quiet == UNCHANGED <<inbox, latches, carry>>
                       /\ (closure' = "none" => closure = "none")
  <1>. USE DEF signals
  <1>1. ASSUME NEW op, NEW candidate, NEW keys, NEW next, Record(op, candidate, keys, next)
        PROVE  Quiet
    BY <1>1 DEF Record, memory
  <1>2. ASSUME NEW from, NEW to, Pass(from, to) PROVE Quiet
    BY <1>2 DEF Pass, memory
  <1>3. ASSUME NEW n, Attempt(n) PROVE Quiet
    BY <1>1, <1>3 DEF Attempt, Discard
  <1>4. (EvidenceArrives => Quiet) /\ (EvidenceTooLarge => Quiet) /\ (DecisionFails => Quiet)
        /\ (AbandonReview => Quiet)
    BY <1>1, <1>3 DEF EvidenceArrives, EvidenceTooLarge, DecisionFails, AbandonReview, Discard,
       GiveUpReview, memory
  <1>5. (Initialize => Quiet) /\ (Finalize => Quiet) /\ (Close => Quiet)
        /\ (PrepareRollOver => Quiet) /\ (EnterRecovery => Quiet)
    BY <1>1 DEF Initialize, Finalize, Close, PrepareRollOver, EnterRecovery
  <1>6. Receipt => Quiet
    BY DEF Receipt, ClosureAfter
  <1>7. (ObserveAge => Quiet) /\ (AbandonRollOver => Quiet) /\ (WakeUp => Quiet)
        /\ (EndDrain => Quiet) /\ (FinishHold => Quiet)
    BY DEF ObserveAge, AbandonRollOver, WakeUp, EndDrain, FinishHold, Observed, memory
  <1>8. (SkipReview => Quiet) /\ (SkipRollOver => Quiet) /\ (Return => Quiet)
    BY <1>2 DEF SkipReview, SkipRollOver, Return
  <1>9. (SettleMemory => Quiet) /\ (SettleWaitingState => Quiet)
    BY <1>1, <1>2 DEF SettleMemory, SettleWaitingState
  <1>10. SettleDraft => Quiet
    BY <1>1 DEF SettleDraft, memory
  <1>11. ASSUME NEW proposal \in Proposals, DecisionArrives(proposal) PROVE Quiet
    BY <1>11 DEF DecisionArrives
  <1>12. ASSUME RefuseDecision \/ DiscardStale \/ RecordDecision \/ BeginReview PROVE Quiet
    BY <1>12 DEF RefuseDecision, DiscardStale, RecordDecision, BeginReview
  <1>. QED
    BY <1>4, <1>5, <1>6, <1>7, <1>8, <1>9, <1>10, <1>11, <1>12 DEF Workflow

(* The command the drain takes is the only one that leaves the queue.       *)
LEMMA Taken ==
    ASSUME TypeOK, NEW c \in Commands, Apply(c)
    PROVE  /\ Queued(c)
           /\ inbox' = Tail(inbox) /\ pending'.answers = <<c>> /\ pending'.next = pc
           /\ pc' = "commit"
           /\ pending'.op \in HandledOperations \cup {"outdate"}
           /\ latches' = [latches EXCEPT ![c] = IF c.kind \in Holds THEN "none" ELSE @]
           /\ UNCHANGED <<closure, trigger, carry, snapshot, history, clock>>
  <1>. DEFINE Quiet == /\ inbox' = Tail(inbox) /\ pending'.answers = <<c>> /\ pending'.next = pc
                       /\ pc' = "commit"
                       /\ pending'.op \in HandledOperations \cup {"outdate"}
                       /\ UNCHANGED <<closure, trigger, carry, snapshot, history, clock>>
  <1>1. ASSUME NEW op \in HandledOperations \cup {"outdate"}, NEW candidate, NEW keys,
               Take(c, op, candidate, keys)
        PROVE  Quiet
    BY <1>1 DEF Take, Commit, memory, record
  <1>2. RecordOnly(c) => Quiet
    BY <1>1 DEF RecordOnly, HandledOperations
  <1>3. latches \in [Commands -> {"none", "held", "during"}]
    BY DEF TypeOK
  <1>4. CASE ApplyEvent(c)
    BY <1>1, <1>3, <1>4 DEF ApplyEvent, HandledOperations, EventKinds, Holds
  <1>5. CASE ApplyInstruction(c)
    BY <1>1, <1>2, <1>3, <1>5 DEF ApplyInstruction, HandledOperations, Holds
  <1>6. CASE ApplyHold(c)
    BY <1>1, <1>2, <1>3, <1>6 DEF ApplyHold, HandledOperations, Holds
  <1>7. CASE ApplyResume(c)
    BY <1>1, <1>2, <1>3, <1>7 DEF ApplyResume, HandledOperations, Holds
  <1>8. CASE ApplyTerminate(c)
    BY <1>1, <1>3, <1>8 DEF ApplyTerminate, HandledOperations, Holds
  <1>9. CASE ApplyReview(c)
    BY <1>1, <1>3, <1>9 DEF ApplyReview, HandledOperations, Holds, ReviewKinds
  <1>. QED  BY <1>4, <1>5, <1>6, <1>7, <1>8, <1>9 DEF Apply

(* A hold is latched with its place in the queue.                           *)
LEMMA ArrivalLatches ==
    ASSUME TypeOK, LatchesKnown
    PROVE  /\ \A c \in Commands : Deliver(c) => LatchesKnown'
           /\ Age => LatchesKnown'
           /\ ReviewFallsDue => LatchesKnown'
  <1>1. ASSUME NEW c \in Commands, Deliver(c) PROVE LatchesKnown'
    <2>1. /\ inbox' = Append(inbox, c) /\ UNCHANGED <<carry, closure>>
          /\ inbox \in Seq(Commands)
          /\ \A d \in Commands : d # c => latches'[d] = latches[d]
          /\ c.kind \notin Holds => latches'[c] = latches[c]
      BY <1>1 DEF Deliver, memory, TypeOK
    <2>2. /\ Len(inbox') = Len(inbox) + 1 /\ Len(inbox) \in Nat
          /\ \A i \in 1..Len(inbox) : inbox'[i] = inbox[i]
          /\ inbox'[Len(inbox) + 1] = c
      BY <2>1, AppendProperties
    <2>3. LatchBacked'
      <3>. SUFFICES ASSUME closure = "none", NEW d \in Commands, latches'[d] # "none"
                    PROVE  \E i \in 1..Len(inbox') : inbox'[i] = d
        BY <2>1 DEF LatchBacked
      <3>1. CASE d = c
        BY <2>2, <3>1
      <3>2. CASE d # c
        <4>1. PICK i \in 1..Len(inbox) : inbox[i] = d
          BY <2>1, <3>2 DEF LatchesKnown, LatchBacked
        <4>. QED  BY <2>2, <4>1
      <3>. QED  BY <3>1, <3>2
    <2>. QED  BY <2>1, <2>3 DEF LatchesKnown
  <1>2. Age \/ ReviewFallsDue => LatchesKnown'
    BY DEF Age, ReviewFallsDue, memory, signals, LatchesKnown, LatchBacked
  <1>. QED  BY <1>1, <1>2

(* A hold's latch is retired when its command is taken, and a handover      *)
(* carries none.                                                            *)
LEMMA WorkflowLatches ==
    ASSUME TypeOK, FlowKnown, LatchesKnown, Workflow
    PROVE  LatchesKnown'
  <1>1. CASE \E c \in Commands : Apply(c)
    <2>1. PICK c \in Commands : Apply(c)
      BY <1>1
    <2>2. /\ inbox # <<>> /\ c = Head(inbox) /\ inbox' = Tail(inbox) /\ UNCHANGED <<carry, closure>>
          /\ latches' = [latches EXCEPT ![c] = IF c.kind \in Holds THEN "none" ELSE @]
          /\ latches \in [Commands -> {"none", "held", "during"}] /\ inbox \in Seq(Commands)
      BY <2>1, Taken DEF Queued, TypeOK
    <2>3. /\ latches'[c] = "none"
          /\ \A d \in Commands : d # c => latches'[d] = latches[d]
      BY <2>2 DEF LatchesKnown
    <2>4. /\ Len(inbox) \in Nat /\ Len(inbox') = Len(inbox) - 1
          /\ \A i \in 1..Len(inbox') : inbox'[i] = inbox[i + 1]
          /\ inbox[1] = c
      BY <2>2
    <2>5. LatchBacked'
      <3>. SUFFICES ASSUME closure = "none", NEW d \in Commands, latches'[d] # "none"
                    PROVE  \E i \in 1..Len(inbox') : inbox'[i] = d
        BY <2>2 DEF LatchBacked
      <3>1. PICK i \in 1..Len(inbox) : inbox[i] = d
        BY <2>3 DEF LatchesKnown, LatchBacked
      <3>2. i # 1 /\ i - 1 \in 1..Len(inbox')
        BY <2>3, <2>4, <3>1
      <3>3. inbox'[i - 1] = d
        BY <2>4, <3>1, <3>2
      <3>. QED  BY <3>2, <3>3
    <2>. QED  BY <2>2, <2>3, <2>5 DEF LatchesKnown
  <1>2. CASE Restore
    BY <1>2 DEF Restore, LatchesKnown, LatchBacked, NoHolds, memory
  <1>3. CASE ContinueAsNew
    <2>1. closure = "none" /\ inbox = <<>>
      BY <1>3 DEF ContinueAsNew, Drained, Observed
    <2>2. latches = NoHolds
      BY <2>1 DEF LatchesKnown, LatchBacked, TypeOK, NoHolds
    <2>. QED  BY <1>3, <2>1, <2>2 DEF ContinueAsNew, LatchesKnown, LatchBacked, NoHolds
  <1>4. CASE DisposeLate
    <2>1. closure # "none"
      BY <1>4 DEF DisposeLate, FlowKnown, PlaceKnown, At, Asking
    <2>. QED  BY <1>4, <2>1 DEF DisposeLate, LatchesKnown, LatchBacked
  <1>5. CASE ~(\E c \in Commands : Apply(c)) /\ ~Restore /\ ~ContinueAsNew /\ ~DisposeLate
    BY <1>5, Undisturbed DEF LatchesKnown, LatchBacked
  <1>. QED  BY <1>1, <1>2, <1>3, <1>4, <1>5

---------------------------------------------------------------------------
(* A signal ends what a pass has settled, time does not disturb it.         *)
LEMMA ArrivalWaits ==
    ASSUME TypeOK, WaitsKnown, DrainKnown
    PROVE  /\ \A c \in Commands : Deliver(c) => WaitsKnown' /\ DrainKnown'
           /\ Age => WaitsKnown' /\ DrainKnown'
           /\ ReviewFallsDue => WaitsKnown' /\ DrainKnown'
  <1>1. ASSUME NEW c \in Commands, Deliver(c) PROVE WaitsKnown' /\ DrainKnown'
    <2>1. inbox' # <<>>
      <3>1. inbox \in Seq(Commands) /\ inbox' = Append(inbox, c)
        BY <1>1 DEF Deliver, TypeOK
      <3>2. Len(inbox') = Len(inbox) + 1 /\ Len(inbox) \in Nat
        BY <3>1, AppendProperties
      <3>. QED  BY <3>2
    <2>2. pc' \notin {"draft", "judge"}
      BY <1>1 DEF Deliver, Suspended
    <2>. QED  BY <2>1, <2>2 DEF WaitsKnown, DrainKnown
  <1>2. ASSUME Age \/ ReviewFallsDue PROVE WaitsKnown' /\ DrainKnown'
    <2>1. UNCHANGED <<pc, pending, inbox, latches, trigger, closure, snapshot>>
      BY <1>2 DEF Age, ReviewFallsDue, signals, memory, record
    <2>. QED
      BY <2>1 DEF WaitsKnown, DrainKnown, Settling, At, Asking, DraftSettled, Waiting, Stale,
         CanAct, CanDecide, Latched
  <1>. QED  BY <1>1, <1>2

(* A drain that goes on to the draft or the judgement of a decision has     *)
(* emptied the queue.                                                       *)
LEMMA WorkflowDrained ==
    ASSUME TypeOK, FlowKnown, DrainKnown, Workflow
    PROVE  DrainKnown'
  <1>1. CASE EndDrain
    BY <1>1 DEF EndDrain, Drained, Observed, signals, DrainKnown
  <1>2. CASE Receipt
    <2>1. pc = "commit" /\ HandledKnown /\ AskedKnown /\ DecideKnown /\ pending.op # "none"
          /\ pending.op \in Operations
      BY <1>2 DEF Receipt, FlowKnown, Asking, TypeOK, Operation
    <2>2. pending.next \notin {"draft", "judge"}
      BY <2>1 DEF HandledKnown, AskedKnown, DecideKnown, Handled, Asked, Draining, Operations,
         HandledOperations
    <2>. QED  BY <1>2, <2>2 DEF Receipt, DrainKnown
  <1>3. CASE \E c \in Commands : Apply(c)
    BY <1>3, Taken DEF DrainKnown
  <1>4. CASE ~EndDrain /\ ~Receipt /\ ~(\E c \in Commands : Apply(c))
    <2>1. pc' \notin {"draft", "judge"}
      BY <1>4 DEF Workflow, Initialize, Restore, ObserveAge, FinishHold, SettleDraft,
         BeginReview, EvidenceArrives, EvidenceTooLarge, DecisionArrives, DecisionFails,
         AbandonReview, RefuseDecision, DiscardStale, RecordDecision, EnterRecovery,
         SkipReview, SettleMemory, SettleWaitingState, PrepareRollOver, SkipRollOver,
         AbandonRollOver, ContinueAsNew, WakeUp, Finalize, Close, DisposeLate, Return,
         Record, Commit, Pass, Attempt, Discard, GiveUpReview
    <2>. QED  BY <2>1 DEF DrainKnown
  <1>. QED  BY <1>1, <1>2, <1>3, <1>4

(* A pass that goes on to its wait has settled what it found.               *)
LEMMA WorkflowWaits ==
    ASSUME TypeOK, FlowKnown, ClaimsKnown, WaitsKnown, Workflow
    PROVE  WaitsKnown'
  <1>. USE DEF Settling, At, Asking, Waiting
  <1>1. ASSUME UNCHANGED <<snapshot, closure, latches>>
        PROVE  CanDecide(snapshot)' <=> CanDecide(snapshot)
    BY <1>1 DEF CanDecide, Latched
  <1>2. ASSUME UNCHANGED <<snapshot, closure, latches>>
        PROVE  DraftSettled' <=> DraftSettled
    BY <1>1, <1>2 DEF DraftSettled, CanAct, CanDecide, Latched, Stale
  <1>3. CASE Receipt
    <2>. DEFINE op == pending.op
    <2>1. pc = "commit" /\ HandledKnown /\ AskedKnown /\ DecideKnown /\ op # "none"
          /\ op \in Operations /\ PlaceKnown
      BY <1>3 DEF Receipt, FlowKnown, TypeOK, Operation
    <2>2. CASE op = "outdate" /\ ~Handled
      <3>1. pending.keys = {} /\ pending.next = "gate"
        BY <2>1, <2>2 DEF AskedKnown, Asked
      <3>2. Waiting'.status = "outdated" /\ pc' = "gate"
        BY <1>3, <2>2, <3>1, Recorded, Fields
        DEF Receipt, ExhaustedByStaleness, TypeOK, Draft
      <3>. QED  BY <3>2 DEF WaitsKnown, DraftSettled, LiveDraft
    <2>3. CASE op = "send"
      <3>1. Waiting' = NoDraft /\ pc' = "gate"
        BY <1>3, <2>1, <2>3, Recorded DEF Receipt, ExhaustedByStaleness, AskedKnown, Asked
      <3>. QED  BY <3>1 DEF WaitsKnown, DraftSettled, LiveDraft, NoDraft
    <2>4. CASE op = "memory"
      <3>1. pc' = "settle" /\ pending.next = "settle" /\ pending.candidate = snapshot
        BY <1>3, <2>1, <2>4 DEF Receipt, ExhaustedByStaleness, AskedKnown, Asked
      <3>2. UNCHANGED <<snapshot, closure, latches, trigger, inbox>>
        BY <1>3, <2>4, <3>1 DEF Receipt, Promoted, ClosureAfter, TriggerAfter, signals
      <3>. QED  BY <1>1, <1>2, <2>1, <3>1, <3>2 DEF WaitsKnown
    <2>5. CASE op = "sleep"
      <3>1. /\ pc' = "roll" /\ pending.next = "roll" /\ closure = "none"
            /\ snapshot.status = "evaluating" /\ pending.keys = {}
            /\ pending.candidate = [snapshot EXCEPT !.status = "sleeping"]
        BY <1>3, <2>1, <2>5 DEF Receipt, ExhaustedByStaleness, AskedKnown, Asked
      <3>2. /\ UNCHANGED <<closure, latches, trigger, inbox>>
            /\ snapshot' = [snapshot EXCEPT !.status = "sleeping"]
        BY <1>3, <2>5, <3>1
        DEF Receipt, Promoted, Applied, ClosureAfter, TriggerAfter, signals
      <3>3. snapshot'.status = "sleeping" /\ snapshot'.pending_review = snapshot.pending_review
            /\ snapshot'.context_version = snapshot.context_version
            /\ snapshot'.pending_control = snapshot.pending_control
        BY <3>2 DEF TypeOK, Snapshot
      <3>4. CanDecide(snapshot)' <=> CanDecide(snapshot)
        BY <3>1, <3>2, <3>3 DEF CanDecide, Latched
      <3>5. DraftSettled' <=> DraftSettled
        BY <3>2, <3>3, <3>4 DEF DraftSettled, CanAct, Stale
      <3>. QED  BY <2>1, <3>1, <3>2, <3>3, <3>4, <3>5 DEF WaitsKnown
    <2>6. CASE op \notin {"send", "memory", "sleep"} /\ ~(op = "outdate" /\ ~Handled)
      <3>1. CASE op = "pausing"
        <4>1. pc' = "hold" /\ pending' = pending /\ pending.next \in Draining
          BY <1>3, <2>1, <3>1
          DEF Receipt, ExhaustedByStaleness, HandledKnown, Handled, HandledOperations
        <4>. QED  BY <4>1 DEF WaitsKnown, Draining
      <3>2. CASE op # "pausing"
        <4>1. pending.next \notin {"memory", "settle", "roll", "wait", "gate", "commit", "hold"}
          BY <2>1, <2>6, <3>2 DEF HandledKnown, AskedKnown, DecideKnown, Handled, Asked,
             Draining, Operations, HandledOperations
        <4>2. pc' \in {pending.next, "recover"}
          BY <1>3, <3>2 DEF Receipt
        <4>. QED  BY <4>1, <4>2 DEF WaitsKnown
      <3>. QED  BY <3>1, <3>2
    <2>. QED  BY <2>2, <2>3, <2>4, <2>5, <2>6
  <1>4. CASE \E c \in Commands : Apply(c)
    BY <1>4, Taken DEF WaitsKnown, Queued, Draining
  <1>5. CASE SettleDraft
    <2>1. CASE pc' = "commit"
      BY <1>5, <2>1 DEF SettleDraft, Record, Commit, WaitsKnown
    <2>2. CASE pc' # "commit"
      <3>1. pc' = "gate" /\ UNCHANGED <<snapshot, closure, latches>> /\ DraftSettled
        BY <1>5, <2>2 DEF SettleDraft, Record, Commit, DraftSettled, LiveDraft, memory, record,
           signals
      <3>. QED  BY <1>2, <3>1 DEF WaitsKnown
    <2>. QED  BY <2>1, <2>2
  <1>6. CASE SkipReview
    <2>1. pc = "gate" /\ pc' = "memory" /\ ~(trigger /\ CanDecide(snapshot))
          /\ UNCHANGED <<snapshot, closure, latches, trigger, inbox>>
      BY <1>6 DEF SkipReview, Pass, memory, record, signals
    <2>. QED  BY <1>1, <1>2, <2>1 DEF WaitsKnown
  <1>7. CASE SettleMemory \/ SkipRollOver \/ SettleWaitingState
    <2>1. /\ pc \in {"memory", "settle", "roll"}
          /\ UNCHANGED <<snapshot, closure, latches, trigger, inbox>>
          /\ pc' \in {"commit", "settle", "roll", "wait"}
          /\ pc' = "roll" => snapshot.status # "evaluating"
          /\ pc' = "wait" => pc = "roll"
      BY <1>7 DEF SettleMemory, SkipRollOver, SettleWaitingState, Record, Commit, Pass, memory,
         record, signals
    <2>. QED  BY <1>1, <1>2, <2>1 DEF WaitsKnown
  <1>8. CASE AbandonRollOver
    BY <1>8 DEF AbandonRollOver, WaitsKnown
  <1>9. CASE ~Receipt /\ ~(\E c \in Commands : Apply(c)) /\ ~SettleDraft /\ ~SkipReview
             /\ ~SettleMemory /\ ~SkipRollOver /\ ~SettleWaitingState /\ ~AbandonRollOver
    <2>1. CASE FinishHold
      <3>1. pc' = "commit" /\ pending'.next = pending.next /\ pending.next \in Draining
        BY <2>1 DEF FinishHold, Commit, FlowKnown, HandledKnown, Handled, HandledOperations
      <3>. QED  BY <3>1 DEF WaitsKnown, Draining
    <2>2. CASE ~FinishHold
      <3>1. \/ pc' \in {"loop", "drain", "redrain", "judge", "draft", "finalize", "thinking",
                        "recover", "boot", "done"}
            \/ pc' = "commit" /\ pending'.next \in {"loop", "evidence", "handover", "report", "late"}
        BY <1>9, <2>2 DEF Workflow, Initialize, Restore, ObserveAge, EndDrain,
           BeginReview, EvidenceArrives, EvidenceTooLarge, DecisionArrives, DecisionFails,
           AbandonReview, RefuseDecision, DiscardStale, RecordDecision, EnterRecovery,
           PrepareRollOver, ContinueAsNew, WakeUp, Finalize, Close, DisposeLate, Return,
           Record, Commit, Pass, Attempt, Discard, GiveUpReview
      <3>. QED  BY <3>1 DEF WaitsKnown
    <2>. QED  BY <2>1, <2>2
  <1>. QED  BY <1>3, <1>4, <1>5, <1>6, <1>7, <1>8, <1>9

---------------------------------------------------------------------------
(* Copies of a command in a queue, as the queue is worked on.               *)
LEMMA CopiesEmpty == \A c : Copies(c, <<>>) = 0
  <1>1. \A c : {i \in 1..Len(<<>>) : <<>>[i] = c} = {}
    OBVIOUS
  <1>. QED  BY <1>1, FS_EmptySet DEF Copies

(* One command alone.                                                       *)
LEMMA CopiesSingle ==
    ASSUME NEW c, NEW d
    PROVE  Copies(d, <<c>>) = IF d = c THEN 1 ELSE 0
  <1>1. {i \in 1..Len(<<c>>) : <<c>>[i] = d} = IF d = c THEN {1} ELSE {}
    OBVIOUS
  <1>. QED  BY <1>1, FS_EmptySet, FS_Singleton DEF Copies

(* A command that arrives.                                                  *)
LEMMA CopiesAppend ==
    ASSUME NEW s \in Seq(Commands), NEW c \in Commands, NEW d
    PROVE  Copies(d, Append(s, c)) = Copies(d, s) + (IF d = c THEN 1 ELSE 0)
  <1>. DEFINE places == {i \in 1..Len(s) : s[i] = d}
              end == Len(s) + 1
  <1>1. IsFiniteSet(places) /\ Cardinality(places) \in Nat
    BY CopiesCounted DEF Copies
  <1>2. /\ Len(Append(s, c)) = end /\ Len(s) \in Nat
        /\ \A i \in 1..Len(s) : Append(s, c)[i] = s[i]
        /\ Append(s, c)[end] = c
    BY AppendProperties
  <1>3. {i \in 1..Len(Append(s, c)) : Append(s, c)[i] = d} =
            IF d = c THEN places \cup {end} ELSE places
    BY <1>2
  <1>4. end \notin places
    BY <1>2
  <1>5. Cardinality(places \cup {end}) = Cardinality(places) + 1
    <2>. HIDE DEF places, end
    <2>. QED  BY <1>1, <1>4, FS_AddElement
  <1>6. Copies(d, s) = Cardinality(places)
        /\ Copies(d, Append(s, c)) = Cardinality(IF d = c THEN places \cup {end} ELSE places)
    BY <1>3 DEF Copies
  <1>. HIDE DEF places, end
  <1>. QED  BY <1>1, <1>5, <1>6

(* A command that is taken.                                                 *)
LEMMA CopiesTail ==
    ASSUME NEW s \in Seq(Commands), s # <<>>, NEW d
    PROVE  Copies(d, s) = Copies(d, Tail(s)) + (IF d = Head(s) THEN 1 ELSE 0)
  <1>. DEFINE places == {i \in 1..Len(s) : s[i] = d}
              rest == {i \in 1..Len(Tail(s)) : Tail(s)[i] = d}
              shift == [i \in rest |-> i + 1]
  <1>1. /\ Len(s) \in Nat \ {0} /\ Len(Tail(s)) = Len(s) - 1 /\ Head(s) = s[1]
        /\ \A i \in 1..Len(Tail(s)) : Tail(s)[i] = s[i + 1]
        /\ Tail(s) \in Seq(Commands)
    BY HeadTailProperties
  <1>2. IsFiniteSet(places) /\ IsFiniteSet(rest) /\ Cardinality(rest) \in Nat
        /\ Cardinality(places) \in Nat
    BY <1>1, CopiesCounted DEF Copies
  <1>3. Cardinality(places \ {1}) = Cardinality(rest)
    <2>1. shift \in [rest -> places \ {1}]
      BY <1>1
    <2>2. \A i, j \in rest : shift[i] = shift[j] => i = j
      BY <1>1
    <2>3. \A j \in places \ {1} : \E i \in rest : shift[i] = j
      <3>. SUFFICES ASSUME NEW j \in places \ {1} PROVE \E i \in rest : shift[i] = j
        OBVIOUS
      <3>1. j - 1 \in rest /\ shift[j - 1] = j
        BY <1>1
      <3>. QED  BY <3>1
    <2>4. shift \in Bijection(rest, places \ {1})
      BY <2>1, <2>2, <2>3, Fun_IsBij
    <2>. QED  BY <1>2, <2>4, FS_Bijection, Fun_ExistsBij
  <1>4. 1 \in places <=> d = Head(s)
    BY <1>1
  <1>5. Cardinality(places \ {1}) = IF 1 \in places THEN Cardinality(places) - 1
                                     ELSE Cardinality(places)
    <2>. HIDE DEF places
    <2>. QED  BY <1>2, FS_RemoveElement
  <1>6. Copies(d, s) = Cardinality(places) /\ Copies(d, Tail(s)) = Cardinality(rest)
    BY DEF Copies
  <1>. HIDE DEF places, rest
  <1>. QED  BY <1>2, <1>3, <1>4, <1>5, <1>6

(* A batch off the front.                                                   *)
LEMMA CopiesPrefix ==
    ASSUME NEW s \in Seq(Commands), NEW n \in 0..Len(s), NEW d
    PROVE  Copies(d, SubSeq(s, 1, n)) <= Copies(d, s)
  <1>1. /\ Len(SubSeq(s, 1, n)) = n /\ Len(s) \in Nat
        /\ \A i \in 1..n : SubSeq(s, 1, n)[i] = s[i]
    OBVIOUS
  <1>2. {i \in 1..Len(SubSeq(s, 1, n)) : SubSeq(s, 1, n)[i] = d} \in
            SUBSET {i \in 1..Len(s) : s[i] = d}
    BY <1>1
  <1>3. IsFiniteSet({i \in 1..Len(s) : s[i] = d})
    BY CopiesCounted
  <1>. QED  BY <1>2, <1>3, FS_Subset DEF Copies

---------------------------------------------------------------------------
(* The account of one command.                                              *)
LEMMA AccountTypes ==
    ASSUME TypeOK, NEW c \in Commands
    PROVE  /\ history.answered[c] \in Nat /\ history.delivered[c] \in Nat
           /\ Copies(c, inbox) \in Nat /\ Copies(c, pending.answers) \in Nat
           /\ inbox \in Seq(Commands) /\ pending.answers \in Seq(Commands)
           /\ Account(c) \in Nat
  <1>1. inbox \in Seq(Commands) /\ pending.answers \in Seq(Commands)
        /\ history.answered \in [Commands -> Nat] /\ history.delivered \in [Commands -> Nat]
    BY DEF TypeOK, Operation
  <1>2. Copies(c, inbox) \in Nat /\ Copies(c, pending.answers) \in Nat
    BY <1>1, CopiesCounted
  <1>. QED  BY <1>1, <1>2 DEF Account

(* A step that moves no command leaves the account as it is.                *)
LEMMA AccountKept ==
    ASSUME Accounted, UNCHANGED <<inbox, history>>, pending'.answers = pending.answers,
           At \in {"late", "done"} => At' \in {"late", "done"}
    PROVE  Accounted'
  BY DEF Accounted, Account

(* A delivery is entered in the account and in the queue.                   *)
LEMMA DeliveryAccounted ==
    ASSUME TypeOK, NEW c \in Commands, Deliver(c), NEW d \in Commands
    PROVE  /\ Account(d)' = Account(d) + (IF d = c THEN 1 ELSE 0)
           /\ history'.delivered[d] = history.delivered[d] + (IF d = c THEN 1 ELSE 0)
           /\ At' = At
  <1>1. /\ inbox' = Append(inbox, c) /\ UNCHANGED <<pc, pending>>
        /\ history'.answered = history.answered
        /\ history'.delivered = [history.delivered EXCEPT ![c] = @ + 1]
        /\ history.delivered \in [Commands -> Nat]
    BY DEF Deliver, TypeOK
  <1>2. At' = At
    BY <1>1 DEF At, Asking
  <1>3. /\ Copies(d, inbox') = Copies(d, inbox) + (IF d = c THEN 1 ELSE 0)
        /\ history'.delivered[d] = history.delivered[d] + (IF d = c THEN 1 ELSE 0)
    BY <1>1, AccountTypes, CopiesAppend
  <1>4. Account(d)' = history.answered[d] + (Copies(d, inbox) + (IF d = c THEN 1 ELSE 0))
                          + Copies(d, pending.answers)
    BY <1>1, <1>3 DEF Account
  <1>5. /\ history.answered[d] \in Nat /\ Copies(d, inbox) \in Nat
        /\ Copies(d, pending.answers) \in Nat
    BY AccountTypes
  <1>6. Account(d) = history.answered[d] + Copies(d, inbox) + Copies(d, pending.answers)
    BY DEF Account
  <1>. QED  BY <1>2, <1>3, <1>4, <1>5, <1>6

LEMMA ArrivalAccounted ==
    ASSUME TypeOK, Accounted
    PROVE  /\ \A c \in Commands : Deliver(c) => Accounted'
           /\ Age => Accounted'
           /\ ReviewFallsDue => Accounted'
  <1>1. ASSUME NEW c \in Commands, Deliver(c) PROVE Accounted'
    <2>1. ASSUME NEW d \in Commands
          PROVE  /\ Account(d) <= history.delivered[d] => Account(d)' <= history'.delivered[d]
                 /\ Account(d) = history.delivered[d] => Account(d)' = history'.delivered[d]
                 /\ At' = At
      <3>1. /\ history'.delivered[d] = history.delivered[d] + (IF d = c THEN 1 ELSE 0)
            /\ Account(d)' = Account(d) + (IF d = c THEN 1 ELSE 0)
            /\ At' = At
        BY <1>1, DeliveryAccounted
      <3>2. Account(d) \in Nat /\ history.delivered[d] \in Nat
        BY AccountTypes
      <3>. QED  BY <3>1, <3>2
    <2>. QED  BY <2>1 DEF Accounted
  <1>2. ASSUME Age \/ ReviewFallsDue PROVE Accounted'
    BY <1>2, AccountKept DEF Age, ReviewFallsDue, signals, record, At, Asking
  <1>. QED  BY <1>1, <1>2

(* What is lost of one command: neither answered, nor queued, nor with its  *)
(* handler. Only a handover with a command in the queue and a late round    *)
(* with more of them than it answers lose any.                              *)
Lost(c) == history.delivered[c] - Account(c)

Loses == \/ Restore /\ inbox # <<>>
         \/ DisposeLate /\ Len(inbox) > LateBatch

(* A taken command is with its handler, an answered one is on record.       *)
LEMMA MovesAccounted ==
    ASSUME TypeOK, FlowKnown, Workflow, ~Restore, ~ContinueAsNew, ~DisposeLate,
           NEW b \in Commands
    PROVE  Account(b)' = Account(b) /\ history'.delivered[b] = history.delivered[b]
  <1>1. CASE Receipt
    <2>1. pc = "commit" /\ inbox' = inbox /\ history' = HistoryAfter
          /\ pending' = IF pending.op = "pausing" THEN pending ELSE Nothing
      BY <1>1 DEF Receipt, signals
    <2>3. ASSUME NEW c \in Commands
          PROVE  /\ history'.delivered[c] = history.delivered[c]
                 /\ history'.answered[c] + Copies(c, pending'.answers) =
                        history.answered[c] + Copies(c, pending.answers)
      <3>1. CASE pending.op = "pausing"
        BY <2>1, <3>1, HistoryKnown, AccountTypes
      <3>2. CASE pending.op # "pausing"
        <4>1. pending'.answers = <<>>
          BY <2>1, <3>2 DEF Nothing
        <4>2. Copies(c, pending'.answers) = 0
          BY <4>1, CopiesEmpty
        <4>. QED  BY <2>1, <3>2, <4>2, HistoryKnown, AccountTypes
      <3>. QED  BY <3>1, <3>2
    <2>4. TypeOK'
      BY ReceiptTypes, <1>1
    <2>5. ASSUME NEW c \in Commands
          PROVE  /\ history'.answered[c] \in Nat /\ Copies(c, pending'.answers) \in Nat
      <3>1. history'.answered \in [Commands -> Nat] /\ pending'.answers \in Seq(Commands)
        BY <2>4 DEF TypeOK, Operation
      <3>. QED  BY <3>1, CopiesCounted
    <2>6. ASSUME NEW c \in Commands
          PROVE  Account(c)' = Account(c)
      <3>1. Account(c)' = history'.answered[c] + Copies(c, inbox) + Copies(c, pending'.answers)
        BY <2>1 DEF Account
      <3>2. history'.answered[c] \in Nat /\ Copies(c, pending'.answers) \in Nat
            /\ history'.answered[c] + Copies(c, pending'.answers) =
                   history.answered[c] + Copies(c, pending.answers)
        BY <2>3, <2>5
      <3>3. Account(c) = history.answered[c] + Copies(c, inbox) + Copies(c, pending.answers)
        BY DEF Account
      <3>4. /\ history.answered[c] \in Nat /\ Copies(c, inbox) \in Nat
            /\ Copies(c, pending.answers) \in Nat
        BY AccountTypes
      <3>. QED  BY <3>1, <3>2, <3>3, <3>4
    <2>. QED  BY <2>3, <2>6
  <1>2. CASE \E c \in Commands : Apply(c)
    <2>1. PICK c \in Commands : Apply(c)
      BY <1>2
    <2>2. /\ pc \in Draining /\ inbox # <<>> /\ c = Head(inbox) /\ inbox' = Tail(inbox)
          /\ pending'.answers = <<c>> /\ pending'.next = pc /\ pc' = "commit"
          /\ UNCHANGED history
      BY <2>1, Taken DEF Queued
    <2>3. pending.answers = <<>>
      BY <2>2 DEF FlowKnown, Asking, Nothing, Draining
    <2>4. ASSUME NEW d \in Commands
          PROVE  Copies(d, inbox') + Copies(d, pending'.answers) =
                     Copies(d, inbox) + Copies(d, pending.answers)
                 /\ Copies(d, inbox') \in Nat /\ Copies(d, pending'.answers) \in Nat
      <3>1. inbox \in Seq(Commands) /\ inbox' \in Seq(Commands)
        BY <2>2 DEF TypeOK
      <3>2. /\ Copies(d, inbox) = Copies(d, inbox') + (IF d = c THEN 1 ELSE 0)
            /\ Copies(d, pending'.answers) = IF d = c THEN 1 ELSE 0
            /\ Copies(d, pending.answers) = 0
            /\ Copies(d, inbox') \in Nat
        BY <2>2, <2>3, <3>1, CopiesTail, CopiesSingle, CopiesEmpty, CopiesCounted
      <3>. QED  BY <3>2
    <2>5. ASSUME NEW d \in Commands
          PROVE  Account(d)' = Account(d)
      <3>1. Account(d)' = history.answered[d] + Copies(d, inbox') + Copies(d, pending'.answers)
        BY <2>2 DEF Account
      <3>2. /\ Copies(d, inbox') + Copies(d, pending'.answers) =
                   Copies(d, inbox) + Copies(d, pending.answers)
            /\ Copies(d, inbox') \in Nat /\ Copies(d, pending'.answers) \in Nat
        BY <2>4
      <3>3. Account(d) = history.answered[d] + Copies(d, inbox) + Copies(d, pending.answers)
        BY DEF Account
      <3>4. /\ history.answered[d] \in Nat /\ Copies(d, inbox) \in Nat
            /\ Copies(d, pending.answers) \in Nat
        BY AccountTypes
      <3>5. \A m, n, p, q, r \in Nat : q + r = n + p => m + q + r = m + n + p
        OBVIOUS
      <3>6. history.answered[d] + Copies(d, inbox') + Copies(d, pending'.answers) =
            history.answered[d] + Copies(d, inbox) + Copies(d, pending.answers)
        BY <3>2, <3>4, <3>5
      <3>. QED  BY <3>1, <3>3, <3>6
    <2>. QED  BY <2>2, <2>5
  <1>3. CASE ~Receipt /\ ~(\E c \in Commands : Apply(c))
    <2>1. UNCHANGED <<inbox, history>>
      BY <1>3, Undisturbed, Unrecorded DEF record
    <2>2. CASE FinishHold \/ Return
      BY <2>1, <2>2 DEF FinishHold, Commit, Return, Pass, FlowKnown, Asking, Nothing, Account
    <2>3. CASE ~FinishHold /\ ~Return
      <3>1. /\ pc \notin {"commit", "hold"}
            /\ pending' = pending \/ pending'.answers = <<>>
        <4>1. ASSUME NEW op, NEW candidate, NEW keys, NEW next, Record(op, candidate, keys, next)
              PROVE  pending'.answers = <<>>
          BY <4>1 DEF Record, Commit
        <4>2. ASSUME NEW n, Attempt(n) PROVE pending' = pending \/ pending'.answers = <<>>
          BY <4>1, <4>2 DEF Attempt, Discard
        <4>. QED
          BY <1>3, <2>3, <4>1, <4>2 DEF Workflow, Initialize, ObserveAge, EndDrain, SettleDraft,
             Drained, Draining,
             BeginReview, EvidenceArrives, EvidenceTooLarge, DecisionArrives, DecisionFails,
             AbandonReview, RefuseDecision, DiscardStale, RecordDecision, EnterRecovery,
             SkipReview, SettleMemory, SettleWaitingState, PrepareRollOver, SkipRollOver,
             AbandonRollOver, WakeUp, Finalize, Close, Commit, Pass, Discard, GiveUpReview
      <3>2. pending'.answers = pending.answers
        BY <3>1 DEF FlowKnown, Asking, Nothing
      <3>. QED  BY <2>1, <3>2 DEF Account
    <2>. QED  BY <2>2, <2>3
  <1>. QED  BY <1>1, <1>2, <1>3

(* A handover loses what is queued when the next execution restores; it     *)
(* leaves the previous one with an empty queue.                             *)
LEMMA HandoverAccounted ==
    ASSUME TypeOK, FlowKnown, LatchesKnown, Restore \/ ContinueAsNew, NEW c \in Commands
    PROVE  /\ MaxRollovers > 0
           /\ history'.delivered[c] = history.delivered[c]
           /\ Account(c)' \in Nat /\ Account(c)' <= Account(c)
           /\ ~Loses => Account(c)' = Account(c)
  <1>1. /\ inbox' = <<>> /\ UNCHANGED history
        /\ pending'.answers = <<>> /\ pending.answers = <<>>
        /\ ContinueAsNew => inbox = <<>>
    <2>1. CASE Restore
      BY <2>1 DEF Restore, Commit, ContinueAsNew, LatchesKnown, FlowKnown, Asking, Nothing, record
    <2>2. CASE ContinueAsNew
      BY <2>2 DEF ContinueAsNew, Drained, Observed, FlowKnown, Asking, Nothing, record
    <2>. QED  BY <2>1, <2>2
  <1>2. MaxRollovers > 0
    BY DEF Restore, ContinueAsNew, FlowKnown, At, Asking
  <1>3. Account(c)' = history.answered[c] + Copies(c, inbox') + Copies(c, pending'.answers)
    BY <1>1 DEF Account
  <1>4. Copies(c, inbox') = 0 /\ Copies(c, pending'.answers) = 0 /\ Copies(c, pending.answers) = 0
    BY <1>1, CopiesEmpty
  <1>5. Account(c) = history.answered[c] + Copies(c, inbox) + Copies(c, pending.answers)
    BY DEF Account
  <1>6. history.answered[c] \in Nat /\ Copies(c, inbox) \in Nat
    BY AccountTypes
  <1>7. ASSUME ~Loses PROVE Copies(c, inbox) = 0
    BY <1>1, <1>7, CopiesEmpty DEF Loses
  <1>. QED  BY <1>1, <1>2, <1>3, <1>4, <1>5, <1>6, <1>7

(* A late round takes the whole queue and answers its first part.           *)
LEMMA DisposalAccounted ==
    ASSUME TypeOK, FlowKnown, DisposeLate, NEW c \in Commands
    PROVE  /\ At' = "late"
           /\ history'.delivered[c] = history.delivered[c]
           /\ Account(c)' \in Nat /\ Account(c)' <= Account(c)
           /\ Len(inbox) <= LateBatch => Account(c)' = Account(c)
  <1>. DEFINE n == IF Len(inbox) < LateBatch THEN Len(inbox) ELSE LateBatch
  <1>1. /\ pc = "late" /\ inbox' = <<>> /\ pending'.answers = SubSeq(inbox, 1, n)
        /\ pc' = "commit" /\ pending'.next = "late" /\ pending'.op = "late" /\ UNCHANGED history
    BY DEF DisposeLate, Commit, record
  <1>2. pending.answers = <<>> /\ At' = "late"
    BY <1>1 DEF FlowKnown, At, Asking, Nothing
  <1>3. /\ Len(inbox) \in Nat /\ LateBatch \in Nat
        /\ n \in 0..Len(inbox) /\ (Len(inbox) <= LateBatch => n = Len(inbox))
    BY Numbers, BoundsAssumption
  <1>. HIDE DEF n
  <1>4. /\ Copies(c, inbox') = 0 /\ Copies(c, pending.answers) = 0
        /\ Copies(c, pending'.answers) <= Copies(c, inbox)
        /\ Copies(c, pending'.answers) \in Nat
    <2>1. SubSeq(inbox, 1, n) \in Seq(Commands)
      BY <1>3 DEF TypeOK
    <2>. QED
      BY <1>1, <1>2, <1>3, <2>1, CopiesEmpty, CopiesPrefix, CopiesCounted, AccountTypes
  <1>5. Len(inbox) <= LateBatch => pending'.answers = inbox
    BY <1>1, <1>3, Numbers
  <1>6. Account(c)' = history.answered[c] + Copies(c, inbox') + Copies(c, pending'.answers)
    BY <1>1 DEF Account
  <1>7. Account(c) = history.answered[c] + Copies(c, inbox) + Copies(c, pending.answers)
    BY DEF Account
  <1>8. history.answered[c] \in Nat /\ Copies(c, inbox) \in Nat
    BY AccountTypes
  <1>9. Account(c)' = history.answered[c] + Copies(c, pending'.answers)
        /\ Account(c) = history.answered[c] + Copies(c, inbox)
    BY <1>4, <1>6, <1>7, <1>8
  <1>10. Account(c)' \in Nat /\ Account(c)' <= Account(c)
    BY <1>4, <1>8, <1>9
  <1>. QED  BY <1>1, <1>2, <1>5, <1>9, <1>10

(* A run that is closed stays in its late rounds until it returns.          *)
LEMMA LateStays ==
    ASSUME TypeOK, FlowKnown, Workflow, ~Restore, ~ContinueAsNew, ~DisposeLate,
           At \in {"late", "done"}
    PROVE  At' \in {"late", "done"}
  <1>1. CASE Receipt
    <2>1. pc = "commit" /\ pending' = IF pending.op = "pausing" THEN pending ELSE Nothing
      BY <1>1 DEF Receipt
    <2>2. CASE pending.op = "pausing"
      BY <1>1, <2>2 DEF Receipt, At, Asking, ExhaustedByStaleness
    <2>3. CASE ExhaustedByStaleness
      <3>1. pending.next = "loop"
        BY <2>1, <2>3 DEF ExhaustedByStaleness, FlowKnown, Asking, AskedKnown, Asked
      <3>. QED  BY <2>1, <3>1 DEF At, Asking
    <2>4. CASE pending.op # "pausing" /\ ~ExhaustedByStaleness
      BY <1>1, <2>1, <2>4 DEF Receipt, At, Asking
    <2>. QED  BY <2>2, <2>3, <2>4
  <1>2. CASE \E c \in Commands : Apply(c)
    <2>1. PICK c \in Commands : Apply(c)
      BY <1>2
    <2>. QED  BY <2>1, Taken DEF Queued, At, Asking, Draining
  <1>3. CASE ~Receipt /\ ~(\E c \in Commands : Apply(c))
    <2>. USE DEF At, Asking
    <2>1. CASE FinishHold \/ Return
      BY <2>1 DEF FinishHold, Return, Pass, Commit
    <2>2. CASE ~FinishHold /\ ~Return
      <3>1. pc \notin {"commit", "hold", "late", "done"}
        BY <1>3, <2>2 DEF Workflow, Initialize, ObserveAge, EndDrain, SettleDraft,
           Drained, Draining, Attempt, Record,
           BeginReview, EvidenceArrives, EvidenceTooLarge, DecisionArrives, DecisionFails,
           AbandonReview, RefuseDecision, DiscardStale, RecordDecision, EnterRecovery,
           SkipReview, SettleMemory, SettleWaitingState, PrepareRollOver, SkipRollOver,
           AbandonRollOver, WakeUp, Finalize, Close, Commit, Pass, Discard, GiveUpReview
      <3>. QED  BY <3>1
    <2>. QED  BY <2>1, <2>2
  <1>. QED  BY <1>1, <1>2, <1>3

(* Every step of the workflow keeps the account: a handover or the last     *)
(* rounds may only lose some.                                               *)
LEMMA WorkflowAccounted ==
    ASSUME TypeOK, FlowKnown, LatchesKnown, ArrivalsKnown, Accounted, Workflow
    PROVE  Accounted'
  <1>1. \A c \in Commands : Account(c) \in Nat /\ history.delivered[c] \in Nat
    BY AccountTypes
  <1>2. CASE Restore \/ ContinueAsNew
    <2>1. ASSUME NEW c \in Commands
          PROVE  /\ MaxRollovers > 0 /\ MaxRollovers # 0
                 /\ Account(c)' <= history'.delivered[c]
      <3>1. /\ MaxRollovers > 0
            /\ history'.delivered[c] = history.delivered[c]
            /\ Account(c)' \in Nat /\ Account(c)' <= Account(c)
        BY <1>2, HandoverAccounted
      <3>2. Account(c) <= history.delivered[c]
        BY DEF Accounted
      <3>. QED  BY <1>1, <3>1, <3>2
    <2>. QED  BY <2>1 DEF Accounted
  <1>3. CASE DisposeLate
    <2>1. At = "late"
      BY <1>3 DEF DisposeLate, At, Asking
    <2>2. ASSUME FewArrivals PROVE Len(inbox) <= LateBatch
      <3>1. Len(inbox) \in Nat /\ counters.late_rounds \in Nat /\ history.arrivals \in Nat
        BY Numbers DEF TypeOK
      <3>2. counters.late_rounds + Len(inbox) <= history.arrivals
            /\ history.arrivals <= MaxDeliveries
        BY DEF ArrivalsKnown
      <3>3. MaxDeliveries \in Nat /\ LateBatch \in Nat /\ MaxDeliveries <= LateBatch
        BY <2>2, BoundsAssumption DEF FewArrivals
      <3>. QED  BY <3>1, <3>2, <3>3
    <2>3. ASSUME NEW c \in Commands
          PROVE  /\ Account(c)' <= history'.delivered[c]
                 /\ FewArrivals /\ Account(c) = history.delivered[c]
                        => Account(c)' = history'.delivered[c]
                 /\ At' = "late"
      <3>1. /\ At' = "late"
            /\ history'.delivered[c] = history.delivered[c]
            /\ Account(c)' \in Nat /\ Account(c)' <= Account(c)
            /\ FewArrivals => Account(c)' = Account(c)
        BY <1>3, <2>2, DisposalAccounted
      <3>2. Account(c) <= history.delivered[c]
        BY DEF Accounted
      <3>. QED  BY <1>1, <3>1, <3>2
    <2>. QED  BY <2>1, <2>3 DEF Accounted
  <1>4. CASE ~Restore /\ ~ContinueAsNew /\ ~DisposeLate
    <2>1. \A c \in Commands : /\ Account(c)' = Account(c)
                              /\ history'.delivered[c] = history.delivered[c]
      BY <1>4, MovesAccounted
    <2>2. At \in {"late", "done"} => At' \in {"late", "done"}
      BY <1>4, LateStays
    <2>. QED  BY <2>1, <2>2 DEF Accounted
  <1>. QED  BY <1>2, <1>3, <1>4

(* Only the disposal of late commands begins a late round.                  *)
LEMMA RoundsKept ==
    ASSUME TypeOK, Workflow, ~DisposeLate
    PROVE  counters'.late_rounds = counters.late_rounds
  <1>. DEFINE Kept == counters'.late_rounds = counters.late_rounds
  <1>1. ASSUME NEW op, NEW candidate, NEW keys, NEW next, Record(op, candidate, keys, next)
        PROVE  Kept
    BY <1>1 DEF Record, memory
  <1>2. ASSUME NEW from, NEW to, Pass(from, to) PROVE Kept
    BY <1>2 DEF Pass, memory
  <1>3. ASSUME NEW n, Attempt(n) PROVE Kept
    BY <1>1, <1>3 DEF Attempt, Discard
  <1>4. (EvidenceArrives => Kept) /\ (EvidenceTooLarge => Kept) /\ (DecisionFails => Kept)
        /\ (AbandonReview => Kept)
    BY <1>1, <1>3 DEF EvidenceArrives, EvidenceTooLarge, DecisionFails, AbandonReview, Discard,
       GiveUpReview, memory
  <1>5. (Initialize => Kept) /\ (Finalize => Kept) /\ (Close => Kept)
        /\ (PrepareRollOver => Kept) /\ (EnterRecovery => Kept)
    BY <1>1 DEF Initialize, Finalize, Close, PrepareRollOver, EnterRecovery
  <1>6. (Restore => Kept) /\ (FinishHold => Kept)
    BY DEF Restore, FinishHold, memory
  <1>7. (ObserveAge => Kept) /\ (AbandonRollOver => Kept) /\ (ContinueAsNew => Kept)
        /\ (WakeUp => Kept) /\ (EndDrain => Kept)
    BY DEF ObserveAge, AbandonRollOver, ContinueAsNew, WakeUp, EndDrain
  <1>8. (SkipReview => Kept) /\ (SkipRollOver => Kept) /\ (Return => Kept)
        /\ (SettleMemory => Kept) /\ (SettleWaitingState => Kept)
    BY <1>1, <1>2 DEF SkipReview, SkipRollOver, Return, SettleMemory, SettleWaitingState
  <1>9. SettleDraft => Kept
    BY <1>1 DEF SettleDraft, memory
  <1>10. \A proposal \in Proposals : DecisionArrives(proposal) => Kept
    BY DEF DecisionArrives
  <1>11. (RefuseDecision => Kept) /\ (DiscardStale => Kept) /\ (BeginReview => Kept)
         /\ (RecordDecision => Kept) /\ (Receipt => Kept)
    BY Numbers DEF CountersType, RefuseDecision, DiscardStale, BeginReview, RecordDecision, Receipt
  <1>12. ASSUME NEW c \in Commands, Apply(c) PROVE Kept
    <2>1. ASSUME NEW op, NEW candidate, NEW keys, Take(c, op, candidate, keys) PROVE Kept
      BY <2>1 DEF Take, memory
    <2>. QED
      BY <1>12, <2>1 DEF Apply, ApplyEvent, ApplyInstruction, ApplyHold, ApplyResume,
         ApplyTerminate, ApplyReview, RecordOnly, memory
  <1>. QED
    BY <1>4, <1>5, <1>6, <1>7, <1>8, <1>9, <1>10, <1>11, <1>12 DEF Workflow

(* The workflow is done only by returning.                                  *)
LEMMA DoneByReturning ==
    ASSUME TypeOK, FlowKnown, Workflow, pc' = "done"
    PROVE  Return
  <1>1. ASSUME NEW op, NEW candidate, NEW keys, NEW answers, NEW next,
               Commit(op, candidate, keys, answers, next)
        PROVE  FALSE
    BY <1>1 DEF Commit
  <1>2. ASSUME NEW from, NEW to, Pass(from, to), to # "done" PROVE FALSE
    BY <1>2 DEF Pass
  <1>3. ~Receipt
    <2>. SUFFICES ASSUME Receipt PROVE FALSE
      OBVIOUS
    <2>1. pending.next = "done" /\ pc = "commit"
      BY DEF Receipt
    <2>2. HandledKnown /\ AskedKnown /\ DecideKnown /\ pending.op \in Operations
          /\ pending.op # "none"
      BY <2>1 DEF FlowKnown, Asking, TypeOK, Operation
    <2>3. CASE pending.op \in HandledOperations
      BY <2>1, <2>2, <2>3 DEF HandledKnown, Handled, Draining
    <2>4. CASE pending.op \in Operations \ HandledOperations
      BY <2>1, <2>2, <2>4 DEF AskedKnown, DecideKnown, Asked, Handled, Draining, Operations,
         HandledOperations
    <2>. QED  BY <2>2, <2>3, <2>4
  <1>4. \A c \in Commands : ~Apply(c)
    BY Taken
  <1>5. \A n : ~Attempt(n)
    BY <1>1 DEF Attempt, Discard, Record
  <1>. QED
    BY <1>1, <1>2, <1>3, <1>4, <1>5 DEF Workflow, Initialize, Restore, ObserveAge,
       FinishHold, EndDrain, SettleDraft, BeginReview, EvidenceArrives, EvidenceTooLarge,
       DecisionArrives, DecisionFails, AbandonReview, RefuseDecision, DiscardStale,
       RecordDecision, EnterRecovery, SkipReview, SettleMemory, SettleWaitingState,
       PrepareRollOver, SkipRollOver, AbandonRollOver, ContinueAsNew, WakeUp, Finalize, Close,
       DisposeLate, Record, Discard, GiveUpReview

(* What is queued and what was taken in late rounds stays within what       *)
(* arrived.                                                                 *)
LEMMA ArrivalsKept ==
    ASSUME ArrivalsKnown, UNCHANGED <<inbox, history, pc>>,
           counters'.late_rounds = counters.late_rounds
    PROVE  ArrivalsKnown'
  BY DEF ArrivalsKnown

LEMMA ArrivalsCounted ==
    ASSUME TypeOK, ArrivalsKnown
    PROVE  /\ \A c \in Commands : Deliver(c) => ArrivalsKnown'
           /\ Age => ArrivalsKnown'
           /\ ReviewFallsDue => ArrivalsKnown'
  <1>1. ASSUME NEW c \in Commands, Deliver(c) PROVE ArrivalsKnown'
    <2>1. /\ inbox' = Append(inbox, c) /\ pc' = pc /\ pc # "done" /\ counters' = counters
          /\ history.arrivals < MaxDeliveries /\ history'.arrivals = history.arrivals + 1
      BY <1>1 DEF Deliver, memory, Suspended, TypeOK
    <2>2. Len(inbox') = Len(inbox) + 1
      BY <2>1, Numbers
    <2>3. Len(inbox) \in Nat /\ counters.late_rounds \in Nat /\ history.arrivals \in Nat
          /\ MaxDeliveries \in Nat
      BY Numbers, BoundsAssumption DEF TypeOK
    <2>4. counters.late_rounds + Len(inbox) <= history.arrivals
      BY DEF ArrivalsKnown
    <2>. QED  BY <2>1, <2>2, <2>3, <2>4 DEF ArrivalsKnown
  <1>2. ASSUME Age \/ ReviewFallsDue PROVE ArrivalsKnown'
    BY <1>2, ArrivalsKept DEF Age, ReviewFallsDue, signals, memory, record
  <1>. QED  BY <1>1, <1>2

LEMMA WorkflowArrivals ==
    ASSUME TypeOK, FlowKnown, LatchesKnown, ArrivalsKnown, Workflow
    PROVE  ArrivalsKnown'
  <1>1. /\ Len(inbox) \in Nat /\ counters.late_rounds \in 0..MaxLateRounds
        /\ history.arrivals \in Nat /\ history'.arrivals = history.arrivals
        /\ inbox \in Seq(Commands) /\ MaxLateRounds \in Nat
    BY Numbers, Unrecorded, HistoryKnown, BoundsAssumption DEF TypeOK, record, Receipt
  <1>2. /\ history.arrivals <= MaxDeliveries
        /\ counters.late_rounds + Len(inbox) <= history.arrivals
    BY DEF ArrivalsKnown
  <1>3. ASSUME counters'.late_rounds = counters.late_rounds, Len(inbox') \in Nat,
               Len(inbox') <= Len(inbox), ~Return
        PROVE  ArrivalsKnown'
    <2>1. pc' # "done"
      BY <1>3, DoneByReturning
    <2>. QED  BY <1>1, <1>2, <1>3, <2>1 DEF ArrivalsKnown
  <1>4. CASE \E c \in Commands : Apply(c)
    <2>1. PICK c \in Commands : Apply(c)
      BY <1>4
    <2>2. inbox' = Tail(inbox) /\ inbox # <<>> /\ pc' = "commit"
      BY <2>1, Taken DEF Queued
    <2>3. Len(inbox') \in Nat /\ Len(inbox') <= Len(inbox)
      BY <1>1, <2>2
    <2>4. counters'.late_rounds = counters.late_rounds
      <3>1. pc \in Draining
        BY <2>1, Taken DEF Queued
      <3>. QED  BY <3>1, RoundsKept DEF DisposeLate, Draining
    <2>. QED  BY <1>1, <1>2, <2>2, <2>3, <2>4 DEF ArrivalsKnown
  <1>5. CASE (Restore \/ ContinueAsNew) /\ ~DisposeLate
    <2>1. inbox' = <<>> /\ ~Return
      BY <1>5 DEF Restore, ContinueAsNew, LatchesKnown, Return, Pass, Drained
    <2>. QED  BY <1>1, <1>3, <1>5, <2>1, RoundsKept
  <1>6. CASE DisposeLate
    <2>1. inbox' = <<>> /\ inbox # <<>> /\ pc' = "commit"
          /\ counters'.late_rounds = counters.late_rounds + 1
      BY <1>6, Numbers DEF DisposeLate, Commit, CountersType
    <2>2. Len(inbox) >= 1 /\ Len(inbox') = 0
      BY <1>1, <2>1
    <2>. QED  BY <1>1, <1>2, <2>1, <2>2 DEF ArrivalsKnown
  <1>7. CASE ~(\E c \in Commands : Apply(c)) /\ ~Restore /\ ~ContinueAsNew /\ ~DisposeLate
    <2>1. inbox' = inbox /\ counters'.late_rounds = counters.late_rounds
      BY <1>7, Undisturbed, RoundsKept
    <2>2. CASE Return
      BY <1>1, <1>2, <2>1, <2>2 DEF ArrivalsKnown, Return
    <2>3. CASE ~Return
      BY <1>1, <1>3, <2>1, <2>3
    <2>. QED  BY <2>2, <2>3
  <1>. QED  BY <1>4, <1>5, <1>6, <1>7

---------------------------------------------------------------------------
(* The inductive invariant.                                                 *)
LEMMA InitHolds == Init => IInv
  <1>. SUFFICES ASSUME Init PROVE IInv
    OBVIOUS
  <1>1. TypeOK
    BY InitTypes
  <1>2. pc = "boot" /\ pending = Nothing /\ snapshot = Fresh /\ claimed = {} /\ closure = "none"
    BY DEF Init
  <1>3. 0 < MaxStaleDiscards
    BY BoundsAssumption
  <1>4. FlowKnown
    <2>1. ~Asking /\ At = "boot" /\ counters.stale_discards = 0 /\ snapshot.status = "starting"
      BY <1>2 DEF Init, Asking, At, Fresh
    <2>2. PlaceKnown
      <3>1. pc = "boot" /\ closure = "none"
        BY <1>2
      <3>. QED  BY <2>1, <3>1 DEF PlaceKnown
    <2>. QED  BY <1>2, <1>3, <2>1, <2>2 DEF FlowKnown
  <1>5. ClaimsKnown
    BY <1>2 DEF Init, ClaimsKnown, Waiting, Fresh, NoDraft, LiveDraft
  <1>6. DraftsKnown
    BY <1>2 DEF Init, DraftsKnown, MessagesAsApproved, Waiting, Fresh, NoDraft, LiveDraft
  <1>7. LatchesKnown
    BY DEF Init, LatchesKnown, LatchBacked, NoHolds
  <1>8. WaitsKnown /\ DrainKnown
    BY <1>2 DEF WaitsKnown, DrainKnown, Settling, At, Asking
  <1>9. Accounted
    <2>1. ASSUME NEW c \in Commands PROVE Account(c) = 0 /\ history.delivered[c] = 0
      <3>1. history.answered[c] = 0 /\ history.delivered[c] = 0 /\ inbox = <<>>
            /\ pending.answers = <<>>
        BY DEF Init, Nothing
      <3>2. Copies(c, inbox) = 0 /\ Copies(c, pending.answers) = 0
        BY <3>1, CopiesEmpty
      <3>. QED  BY <3>1, <3>2 DEF Account
    <2>. QED  BY <2>1 DEF Accounted
  <1>10. ArrivalsKnown
    <2>1. counters.late_rounds = 0 /\ inbox = <<>> /\ history.arrivals = 0 /\ pc = "boot"
      BY DEF Init
    <2>. QED  BY <2>1, BoundsAssumption DEF ArrivalsKnown
  <1>. QED  BY <1>1, <1>4, <1>5, <1>6, <1>7, <1>8, <1>9, <1>10 DEF IInv

(* Every step keeps all of it.                                              *)
LEMMA NextHolds == IInv /\ [Next]_vars => IInv'
  <1>. SUFFICES ASSUME IInv, [Next]_vars PROVE IInv'
    OBVIOUS
  <1>. USE DEF IInv
  <1>1. CASE Workflow
    <2>1. snapshot.status = "starting" => claimed = {}
      BY DEF ClaimsKnown
    <2>2. TypeOK' /\ FlowKnown'
      BY <1>1, <2>1, WorkflowTypes, WorkflowFlow
    <2>3. ClaimsKnown'
      BY <1>1, WorkflowClaims, BeginClaims, ReceiptClaims
    <2>4. DraftsKnown'
      BY <1>1, WorkflowDrafts
    <2>5. LatchesKnown'
      BY <1>1, WorkflowLatches
    <2>6. WaitsKnown' /\ DrainKnown'
      BY <1>1, WorkflowWaits, WorkflowDrained
    <2>7. Accounted'
      BY <1>1, WorkflowAccounted
    <2>8. ArrivalsKnown'
      BY <1>1, WorkflowArrivals
    <2>. QED  BY <2>2, <2>3, <2>4, <2>5, <2>6, <2>7, <2>8
  <1>2. CASE Age \/ ReviewFallsDue \/ \E c \in Commands : Deliver(c)
    BY <1>2, ArrivalTypes, ArrivalFlow, ArrivalClaims, ArrivalDrafts, ArrivalLatches,
       ArrivalWaits, ArrivalAccounted, ArrivalsCounted
  <1>3. CASE UNCHANGED vars
    <2>. USE <1>3 DEF vars, signals, memory, record
    <2>1. TypeOK'
      BY DEF TypeOK
    <2>2. FlowKnown'
      BY FlowKept
    <2>3. ClaimsKnown'
      BY ClaimsKept DEF Reviewing, At, Asking
    <2>4. DraftsKnown'
      BY DraftsKept DEF Drafting, Asking, Waiting
    <2>5. LatchesKnown'
      BY DEF LatchesKnown, LatchBacked
    <2>6. WaitsKnown' /\ DrainKnown'
      BY DEF WaitsKnown, DrainKnown, Settling, At, Asking, DraftSettled, Waiting, Stale,
         CanAct, CanDecide, Latched
    <2>7. Accounted'
      BY AccountKept DEF At, Asking
    <2>8. ArrivalsKnown'
      BY ArrivalsKept
    <2>. QED  BY <2>1, <2>2, <2>3, <2>4, <2>5, <2>6, <2>7, <2>8
  <1>. QED  BY <1>1, <1>2, <1>3 DEF Next

(* The invariant all the theorems below rest on.                            *)
THEOREM Invariance == Spec => []IInv
  <1>. QED  BY InitHolds, NextHolds, PTL DEF Spec

(* Type correctness: see TypeOK.                                            *)
THEOREM TypeCorrectness == Spec => []TypeOK
  <1>1. IInv => TypeOK
    BY DEF IInv
  <1>. QED  BY <1>1, Invariance, PTL

(* MintedOnce: no identity the workflow mints for a start, a generation, an *)
(* action or a decision is on record when it is sent, in whichever          *)
(* execution (_carry's counters).                                           *)
THEOREM IdentitiesMintedOnce == Spec => []MintedOnce
  <1>1. IInv => MintedOnce
    BY Minting DEF IInv
  <1>. QED  BY <1>1, Invariance, PTL

(* MessagesAsApproved: a message on record is a draft that was approved,    *)
(* recorded once, in the context it was written for (_settle_draft,         *)
(* _draft_stale).                                                           *)
THEOREM MessagesStandApproved == Spec => []MessagesAsApproved
  <1>1. IInv => MessagesAsApproved
    BY DEF IInv, DraftsKnown
  <1>. QED  BY <1>1, Invariance, PTL

(* LatchBacked: a latch of control() lasts no longer than its command is    *)
(* queued.                                                                  *)
THEOREM LatchesBacked == Spec => []LatchBacked
  <1>1. IInv => LatchBacked
    BY DEF IInv, LatchesKnown
  <1>. QED  BY <1>1, Invariance, PTL

(* WaitsSettled: a run that waits with an empty queue owes no review, no    *)
(* state and no draft (steps 5 to 9 of the loop).                           *)
THEOREM WaitsStaySettled == Spec => []WaitsSettled
  <1>1. IInv => WaitsSettled
    <2>. SUFFICES ASSUME IInv, pc = "wait", inbox = <<>>, closure = "none" PROVE WaitsSettled
      BY DEF WaitsSettled
    <2>1. Settling /\ pc # "gate"
      BY DEF Settling, At, Asking
    <2>2. /\ ~(trigger /\ CanDecide(snapshot)) /\ DraftSettled
          /\ snapshot.status # "evaluating"
      BY <2>1 DEF IInv, WaitsKnown
    <2>3. snapshot.status \in Working
      BY DEF IInv, FlowKnown, PlaceKnown
    <2>. QED  BY <2>2, <2>3 DEF WaitsSettled, DraftSettled, Waiting, Working
  <1>. QED  BY <1>1, Invariance, PTL

(* AnsweredOnce: no delivery is answered twice, across handovers and late   *)
(* rounds as well (_drain_inbox, _restore, _dispose_late_commands).         *)
THEOREM AnsweredAtMostOnce == Spec => []AnsweredOnce
  <1>1. IInv => AnsweredOnce
    BY DEF IInv, Accounted, Account, AnsweredOnce
  <1>. QED  BY <1>1, Invariance, PTL

(* Within one execution nothing is lost either before the run is closed: a   *)
(* delivered command is queued, with its handler, or answered (_drain_inbox  *)
(* stops at a closure and leaves the rest where it is).                      *)
THEOREM NothingLostBeforeClose ==
    ASSUME MaxRollovers = 0
    PROVE  Spec => [](At \notin {"late", "done"} =>
                          \A c \in Commands : Account(c) = history.delivered[c])
  <1>1. IInv => (At \notin {"late", "done"} =>
                    \A c \in Commands : Account(c) = history.delivered[c])
    BY DEF IInv, Accounted
  <1>. QED  BY <1>1, Invariance, PTL

(* CommandsConserved: within one execution, while no more commands arrive   *)
(* than one late round answers and than there are rounds, every delivery is *)
(* answered, queued or with its handler, and none is left when the workflow *)
(* returns (_drain_inbox, _dispose_late_commands).  Past those limits the   *)
(* rest is dropped, and a handover loses what comes between the last drain  *)
(* and the next execution.                                                  *)
THEOREM NothingLost ==
    ASSUME MaxRollovers = 0, FewArrivals
    PROVE  Spec => []CommandsConserved
  <1>1. ASSUME IInv PROVE CommandsConserved
    <2>1. ASSUME NEW c \in Commands
          PROVE  history.delivered[c] =
                     history.answered[c] + (Copies(c, inbox) + Copies(c, pending.answers))
      <3>1. history.delivered[c] = Account(c)
        BY <1>1 DEF IInv, Accounted
      <3>2. /\ history.answered[c] \in Nat /\ Copies(c, inbox) \in Nat
            /\ Copies(c, pending.answers) \in Nat
        BY <1>1, AccountTypes DEF IInv
      <3>. QED  BY <3>1, <3>2 DEF Account
    <2>2. ASSUME pc = "done", NEW c \in Commands
          PROVE  Copies(c, inbox) + Copies(c, pending.answers) = 0
      <3>1. pending.answers = <<>>
        BY <1>1, <2>2 DEF IInv, FlowKnown, Asking, Nothing
      <3>2. inbox = <<>>
        <4>1. /\ Len(inbox) \in Nat /\ counters.late_rounds \in Nat /\ inbox \in Seq(Commands)
              /\ history.arrivals \in Nat
          BY <1>1, Numbers DEF IInv, TypeOK
        <4>2. /\ history.arrivals <= MaxDeliveries
              /\ counters.late_rounds + Len(inbox) <= history.arrivals
              /\ inbox = <<>> \/ counters.late_rounds = MaxLateRounds
          BY <1>1, <2>2 DEF IInv, ArrivalsKnown
        <4>3. MaxDeliveries \in Nat /\ MaxLateRounds \in Nat /\ MaxDeliveries <= MaxLateRounds
          BY BoundsAssumption DEF FewArrivals
        <4>4. inbox = <<>> \/ Len(inbox) = 0
          BY <4>1, <4>2, <4>3
        <4>. QED  BY <4>1, <4>4
      <3>. QED  BY <3>1, <3>2, CopiesEmpty
    <2>. QED  BY <2>1, <2>2 DEF CommandsConserved
  <1>. QED  BY <1>1, Invariance, PTL

(* With any number of commands and executions, only two steps lose any: the  *)
(* restore of a handover, with what arrived since the last execution drained  *)
(* its queue, and a late round, with what it does not answer (_restore,      *)
(* _dispose_late_commands). No step brings a lost command back.              *)
THEOREM LostOnlyByHandoverOrClose ==
    Spec => [][\A c \in Commands : Lost(c)' # Lost(c) => Loses /\ Lost(c)' > Lost(c)]_vars
  <1>1. ASSUME IInv, Next, NEW c \in Commands
        PROVE  \/ Lost(c)' = Lost(c)
               \/ Loses /\ Lost(c)' > Lost(c)
    <2>. USE <1>1 DEF IInv
    <2>1. Account(c) \in Nat /\ history.delivered[c] \in Nat
      BY AccountTypes
    <2>2. CASE Workflow /\ (Restore \/ ContinueAsNew)
      <3>1. /\ history'.delivered[c] = history.delivered[c]
            /\ Account(c)' \in Nat /\ Account(c)' <= Account(c)
            /\ ~Loses => Account(c)' = Account(c)
        BY <2>2, HandoverAccounted
      <3>. QED  BY <2>1, <3>1 DEF Lost
    <2>3. CASE Workflow /\ DisposeLate
      <3>1. /\ history'.delivered[c] = history.delivered[c]
            /\ Account(c)' \in Nat /\ Account(c)' <= Account(c)
            /\ Len(inbox) <= LateBatch => Account(c)' = Account(c)
        BY <2>3, DisposalAccounted
      <3>2. Len(inbox) <= LateBatch \/ Loses
        <4>1. Len(inbox) \in Nat /\ LateBatch \in Nat
          BY Numbers, BoundsAssumption DEF TypeOK
        <4>2. Len(inbox) <= LateBatch \/ Len(inbox) > LateBatch
          BY <4>1
        <4>. QED  BY <2>3, <4>2 DEF Loses
      <3>. QED  BY <2>1, <3>1, <3>2 DEF Lost
    <2>4. CASE Workflow /\ ~Restore /\ ~ContinueAsNew /\ ~DisposeLate
      <3>1. Account(c)' = Account(c) /\ history'.delivered[c] = history.delivered[c]
        BY <2>4, MovesAccounted
      <3>. QED  BY <3>1 DEF Lost
    <2>5. CASE Age \/ ReviewFallsDue
      BY <2>5 DEF Age, ReviewFallsDue, signals, record, Account, Lost
    <2>6. CASE \E d \in Commands : Deliver(d)
      <3>1. PICK d \in Commands : Deliver(d)
        BY <2>6
      <3>2. /\ Account(c)' = Account(c) + (IF c = d THEN 1 ELSE 0)
            /\ history'.delivered[c] = history.delivered[c] + (IF c = d THEN 1 ELSE 0)
        BY <3>1, DeliveryAccounted
      <3>. QED  BY <2>1, <3>2 DEF Lost
    <2>. QED  BY <2>2, <2>3, <2>4, <2>5, <2>6 DEF Next
  <1>2. IInv /\ [Next]_vars =>
            [\A c \in Commands : Lost(c)' # Lost(c) => Loses /\ Lost(c)' > Lost(c)]_vars
    BY <1>1
  <1>. QED  BY <1>2, Invariance, PTL DEF Spec

(* An effect is sent from an empty queue only.                              *)
LEMMA EffectsSettled ==
    ASSUME IInv, Next, Dispatches, Effectful(pending')
    PROVE  inbox = <<>> /\ At \notin {"late", "done"} /\ pending = Nothing
  <1>1. Workflow
    BY DEF Next, Deliver, Age, ReviewFallsDue, Dispatches
  <1>2. pc # "commit" /\ pc' = "commit" /\ pending'.op \in {"send", "decide"}
    BY DEF Dispatches, Effectful
  <1>3. SettleDraft \/ RecordDecision
    <2>1. ASSUME NEW op, NEW candidate, NEW keys, NEW next, Record(op, candidate, keys, next)
          PROVE  pending'.op = op
      BY <2>1 DEF Record, Commit
    <2>2. ASSUME NEW from, NEW to, Pass(from, to) PROVE pc' = to
      BY <2>2 DEF Pass
    <2>3. \A c \in Commands : ~Apply(c)
      BY <1>2, Taken DEF IInv, HandledOperations
    <2>4. ~Receipt
      BY <1>2 DEF Receipt
    <2>5. \A n : ~Attempt(n)
      BY <1>2, <2>1 DEF Attempt, Discard
    <2>. QED
      BY <1>1, <1>2, <2>1, <2>2, <2>3, <2>4, <2>5 DEF Workflow, Initialize, Restore, ObserveAge,
         FinishHold, EndDrain, BeginReview, EvidenceArrives, EvidenceTooLarge, DecisionArrives,
         DecisionFails, AbandonReview, RefuseDecision, DiscardStale, EnterRecovery,
         SkipReview, SettleMemory, SettleWaitingState, PrepareRollOver, SkipRollOver,
         AbandonRollOver, ContinueAsNew, WakeUp, Finalize, Close, DisposeLate, Return,
         Commit, Discard, GiveUpReview
  <1>4. pc \in {"draft", "judge"} /\ closure = "none"
    <2>1. CASE SettleDraft
      BY <2>1 DEF SettleDraft, IInv, FlowKnown, PlaceKnown, At, Asking
    <2>2. CASE RecordDecision
      BY <2>2 DEF RecordDecision, Unauthorized
    <2>. QED  BY <1>3, <2>1, <2>2
  <1>. QED  BY <1>4 DEF IInv, DrainKnown, FlowKnown, Asking, At

(* An action or a message is only sent to the write boundary while no       *)
(* command is queued or with its handler, in whichever execution (the drain *)
(* before authorize, _settle_draft after the drain).                        *)
THEOREM EffectsFromEmptyQueue ==
    Spec => [][Dispatches /\ Effectful(pending') => inbox = <<>> /\ pending.answers = <<>>]_vars
  <1>1. IInv /\ [Next]_vars =>
            [Dispatches /\ Effectful(pending') => inbox = <<>> /\ pending.answers = <<>>]_vars
    BY EffectsSettled DEF Nothing
  <1>. QED  BY <1>1, Invariance, PTL DEF Spec

(* EffectsAfterAnswers, within one execution: then an empty queue means     *)
(* that everything signalled is answered. A handover may lose what came     *)
(* between (HandoverLoses).                                                 *)
THEOREM EffectsWaitForAnswers ==
    ASSUME MaxRollovers = 0
    PROVE  Spec => EffectsAfterAnswers
  <1>1. ASSUME IInv, Next, Dispatches, Effectful(pending')
        PROVE  history.delivered = history.answered
    <2>1. inbox = <<>> /\ At \notin {"late", "done"} /\ pending.answers = <<>>
      BY <1>1, EffectsSettled DEF Nothing
    <2>2. ASSUME NEW c \in Commands PROVE history.delivered[c] = history.answered[c]
      <3>1. Copies(c, inbox) = 0 /\ Copies(c, pending.answers) = 0
        BY <2>1, CopiesEmpty
      <3>2. history.answered[c] \in Nat /\ Account(c) = history.delivered[c]
        BY <1>1, <2>1, AccountTypes DEF IInv, Accounted
      <3>. QED  BY <3>1, <3>2 DEF Account
    <2>3. history.delivered \in [Commands -> Nat] /\ history.answered \in [Commands -> Nat]
      BY <1>1 DEF IInv, TypeOK
    <2>. QED  BY <2>2, <2>3
  <1>2. IInv /\ [Next]_vars =>
            [Dispatches /\ Effectful(pending') => history.delivered = history.answered]_vars
    BY <1>1
  <1>. QED  BY <1>2, Invariance, PTL DEF Spec, EffectsAfterAnswers

---------------------------------------------------------------------------
(* The refinement: only a receipt changes the recorded state, only the age  *)
(* and a receipt fix the cause.                                             *)
LEMMA CauseFixed ==
    ASSUME Workflow, ~Receipt
    PROVE  closure' \in {closure, Observed}
  <1>. DEFINE Quiet == closure' \in {closure, Observed}
  <1>1. ASSUME NEW op, NEW candidate, NEW keys, NEW next, Record(op, candidate, keys, next)
        PROVE  Quiet
    BY <1>1 DEF Record, memory
  <1>2. ASSUME NEW from, NEW to, Pass(from, to) PROVE Quiet
    BY <1>2 DEF Pass, memory
  <1>3. ASSUME NEW n, Attempt(n) PROVE Quiet
    BY <1>1, <1>3 DEF Attempt, Discard
  <1>4. ASSUME NEW c \in Commands, NEW op, NEW candidate, NEW keys, Take(c, op, candidate, keys)
        PROVE  Quiet
    BY <1>4 DEF Take, memory
  <1>5. ASSUME NEW c \in Commands, Apply(c) PROVE Quiet
    BY <1>4, <1>5 DEF Apply, ApplyEvent, ApplyInstruction, ApplyHold, ApplyResume,
       ApplyTerminate, ApplyReview, RecordOnly
  <1>6. (EvidenceArrives => Quiet) /\ (EvidenceTooLarge => Quiet) /\ (DecisionFails => Quiet)
        /\ (AbandonReview => Quiet)
    BY <1>1, <1>3 DEF EvidenceArrives, EvidenceTooLarge, DecisionFails, AbandonReview, Discard,
       GiveUpReview, memory
  <1>7. (Initialize => Quiet) /\ (Finalize => Quiet) /\ (Close => Quiet)
        /\ (PrepareRollOver => Quiet) /\ (EnterRecovery => Quiet)
    BY <1>1 DEF Initialize, Finalize, Close, PrepareRollOver, EnterRecovery
  <1>8. (ObserveAge => Quiet) /\ (AbandonRollOver => Quiet) /\ (WakeUp => Quiet)
        /\ (EndDrain => Quiet) /\ (FinishHold => Quiet) /\ (Restore => Quiet)
        /\ (ContinueAsNew => Quiet) /\ (DisposeLate => Quiet)
    BY DEF ObserveAge, AbandonRollOver, WakeUp, EndDrain, FinishHold, Restore, ContinueAsNew,
       DisposeLate, memory
  <1>9. (SkipReview => Quiet) /\ (SkipRollOver => Quiet) /\ (Return => Quiet)
        /\ (SettleMemory => Quiet) /\ (SettleWaitingState => Quiet)
    BY <1>1, <1>2 DEF SkipReview, SkipRollOver, Return, SettleMemory, SettleWaitingState
  <1>10. SettleDraft => Quiet
    BY <1>1 DEF SettleDraft, memory
  <1>11. ASSUME NEW proposal \in Proposals, DecisionArrives(proposal) PROVE Quiet
    BY <1>11 DEF DecisionArrives
  <1>12. ASSUME RefuseDecision \/ DiscardStale \/ RecordDecision \/ BeginReview PROVE Quiet
    BY <1>12 DEF RefuseDecision, DiscardStale, RecordDecision, BeginReview
  <1>. QED
    BY <1>5, <1>6, <1>7, <1>8, <1>9, <1>10, <1>11, <1>12 DEF Workflow

(* A step that at most fixes the cause is one of the lifecycle.             *)
LEMMA LatchStep ==
    ASSUME UNCHANGED <<snapshot.status, history.effects>>,
           closure' # closure => closure = "none" /\ closure' \in Reasons
    PROVE  Lifecycle!Next \/ UNCHANGED Lifecycle!vars
  BY DEF Lifecycle!Next, Lifecycle!vars, Lifecycle!Latch, Lifecycle!Closes, Reasons

(* A receipt is a step of the lifecycle or changes nothing of it, operation *)
(* by operation.                                                            *)
LEMMA ReceiptStep ==
    ASSUME IInv, Receipt
    PROVE  Lifecycle!Next \/ UNCHANGED Lifecycle!vars
  <1>. DEFINE op == pending.op
              from == snapshot.status
              to == snapshot'.status
              made == history'.effects
  <1>. USE DEF Lifecycle!Next, Lifecycle!vars, Lifecycle!Move
  <1>1. /\ pc = "commit" /\ op \in Operations \ {"none"} /\ MintedOnce
        /\ HandledKnown /\ AskedKnown /\ DecideKnown /\ PlaceKnown
        /\ snapshot \in Snapshot /\ closure \in Reasons \cup {"none"}
    BY Minting DEF Receipt, IInv, FlowKnown, TypeOK, Operation, Asking
  <1>2. /\ snapshot' = Promoted /\ closure' = ClosureAfter
        /\ made = history.effects + (IF Effective THEN 1 ELSE 0)
        /\ history.effects \in Nat
    BY HistoryKnown DEF Receipt, IInv, TypeOK
  <1>3. op \notin {"send", "decide"} => made = history.effects
    BY <1>2 DEF Effective
  <1>4. op \notin {"event", "terminate"} => closure' = closure
    BY <1>2 DEF ClosureAfter
  <1>5. closure' # closure => closure = "none" /\ closure' \in Reasons
    BY <1>2 DEF ClosureAfter, Reasons
  <1>6. pending.keys = {} \/ op \in Minted => snapshot' = pending.candidate
    BY <1>1, <1>2 DEF Promoted, Applied, MintedOnce
  <1>7. snapshot' \in {snapshot, pending.candidate}
    BY <1>2 DEF Promoted
  <1>8. CASE op = "start"
    <2>1. from = "starting" /\ to = "evaluating" /\ closure = "none"
      BY <1>1, <1>6, <1>8 DEF AskedKnown, Asked, Minted, Snapshot
    <2>. QED  BY <1>3, <1>4, <1>8, <2>1 DEF Lifecycle!Start
  <1>9. CASE op = "pause"
    <2>1. closure = "none" /\ from \in Working \ {"paused"} /\ to \in {from, "paused"}
      BY <1>1, <1>7, <1>9 DEF HandledKnown, Handled, HandledOperations, PlaceKnown, Paused,
         Snapshot, Working
    <2>. QED  BY <1>3, <1>4, <1>9, <2>1 DEF Lifecycle!Hold, Working
  <1>10. CASE op = "resume"
    <2>1. closure = "none" /\ from \in {"paused", "awaiting_recovery"} /\ to \in {from, "evaluating"}
      BY <1>1, <1>7, <1>10 DEF HandledKnown, Handled, HandledOperations, Snapshot
    <2>. QED  BY <1>3, <1>4, <1>10, <2>1 DEF Lifecycle!Resume
  <1>11. CASE op = "evaluate"
    <2>1. closure = "none" /\ from \in {"evaluating", "sleeping"} /\ to = "evaluating"
      BY <1>1, <1>6, <1>11 DEF AskedKnown, Asked, Snapshot
    <2>. QED  BY <1>3, <1>4, <1>11, <2>1 DEF Lifecycle!Review
  <1>12. CASE op = "recover"
    <2>1. closure = "none" /\ from = "evaluating" /\ to = "awaiting_recovery"
      BY <1>1, <1>6, <1>12 DEF AskedKnown, Asked, Snapshot
    <2>. QED  BY <1>3, <1>4, <1>12, <2>1 DEF Lifecycle!Fail
  <1>13. CASE op = "sleep"
    <2>1. closure = "none" /\ from = "evaluating" /\ to = "sleeping"
      BY <1>1, <1>6, <1>13 DEF AskedKnown, Asked, Snapshot
    <2>. QED  BY <1>3, <1>4, <1>13, <2>1 DEF Lifecycle!Sleep
  <1>14. CASE op = "decide"
    <2>1. closure = "none" /\ from = "evaluating" /\ to = "sleeping"
      BY <1>1, <1>6, <1>14 DEF DecideKnown, Asked, Minted, Snapshot
    <2>2. made \in {history.effects, history.effects + 1}
      BY <1>2
    <2>. QED  BY <1>4, <1>14, <2>1, <2>2 DEF Lifecycle!Sleep
  <1>15. CASE op = "send"
    <2>1. closure = "none" /\ from \in {"evaluating", "sleeping"} /\ to = from
      BY <1>1, <1>6, <1>15 DEF AskedKnown, Asked, Minted, Snapshot
    <2>2. made = history.effects + 1
      BY <1>1, <1>2, <1>15 DEF Effective, MintedOnce, Minted
    <2>. QED  BY <1>4, <1>15, <2>1, <2>2 DEF Lifecycle!Release
  <1>16. CASE op = "finalize"
    <2>1. closure # "none" /\ from \in Working /\ to = "finalizing"
      BY <1>1, <1>6, <1>16 DEF AskedKnown, Asked, PlaceKnown, Snapshot
    <2>. QED  BY <1>3, <1>4, <1>16, <2>1 DEF Lifecycle!Finalize, Working
  <1>17. CASE op = "close"
    <2>1. closure \in Reasons /\ from = "finalizing" /\ to = CLOSED_STATUS[closure]
      BY <1>1, <1>6, <1>17 DEF AskedKnown, Asked, Snapshot
    <2>2. CLOSED_STATUS[closure] = Lifecycle!Closes[closure]
      BY <2>1 DEF CLOSED_STATUS, Lifecycle!Closes, Reasons
    <2>. QED  BY <1>3, <1>4, <1>17, <2>1, <2>2 DEF Lifecycle!Close
  <1>18. CASE op \in (HandledOperations \ {"pause", "resume"}) \cup
                     {"generation", "outdate", "discard", "stale", "memory", "prepare", "late"}
    <2>1. pending.candidate.status = from
      BY <1>1, <1>18 DEF HandledKnown, AskedKnown, Asked, HandledOperations, WithDraft, Snapshot
    <2>2. to = from
      BY <1>7, <2>1
    <2>3. made = history.effects
      BY <1>3, <1>18 DEF HandledOperations
    <2>. QED  BY <1>5, <2>2, <2>3, LatchStep
  <1>. QED
    BY <1>1, <1>8, <1>9, <1>10, <1>11, <1>12, <1>13, <1>14, <1>15, <1>16, <1>17, <1>18
    DEF Operations, HandledOperations

(* Every step of the workflow is a step of the lifecycle or changes nothing *)
(* of it.                                                                   *)
LEMMA LifecycleStep == IInv /\ [Next]_vars => [Lifecycle!Next]_Lifecycle!vars
  <1>. SUFFICES ASSUME IInv, [Next]_vars PROVE Lifecycle!Next \/ UNCHANGED Lifecycle!vars
    OBVIOUS
  <1>1. CASE Receipt
    BY <1>1, ReceiptStep
  <1>2. CASE Workflow /\ ~Receipt
    <2>1. UNCHANGED <<snapshot, history>>
      BY <1>2, Unrecorded DEF IInv, record
    <2>2. closure' \in {closure, Observed}
      BY <1>2, CauseFixed
    <2>. QED  BY <2>1, <2>2, LatchStep DEF Observed, Reasons
  <1>3. CASE Age \/ ReviewFallsDue \/ UNCHANGED vars
    BY <1>3, LatchStep DEF Age, ReviewFallsDue, vars, memory, record
  <1>4. ASSUME NEW c \in Commands, Deliver(c)
        PROVE  Lifecycle!Next \/ UNCHANGED Lifecycle!vars
    <2>1. history'.effects = history.effects
      BY <1>4 DEF Deliver, IInv, TypeOK
    <2>. QED  BY <1>4, <2>1, LatchStep DEF Deliver, memory
  <1>. QED  BY <1>1, <1>2, <1>3, <1>4 DEF Next

(* KeepsLifecycle: the workflow implements RunLifecycle.                    *)
THEOREM ImplementsLifecycle == Spec => KeepsLifecycle
  <1>1. Init => Lifecycle!Init
    BY DEF Init, Lifecycle!Init, Fresh
  <1>. QED  BY <1>1, LifecycleStep, Invariance, PTL DEF Spec, KeepsLifecycle, Lifecycle!Spec

(* What an operator may rely on once the run has a cause to close: it is the *)
(* only one, and nothing is decided or sent after it (_latch_closure).       *)
THEOREM CauseIsFinal ==
    Spec => [][closure # "none" => UNCHANGED <<closure, history.effects>>]_vars
  <1>1. [Lifecycle!Next]_Lifecycle!vars =>
            (closure # "none" => UNCHANGED <<closure, history.effects>>)
    BY DEF Lifecycle!Next, Lifecycle!vars, Lifecycle!Start, Lifecycle!Review, Lifecycle!Sleep,
       Lifecycle!Hold, Lifecycle!Resume, Lifecycle!Fail, Lifecycle!Release, Lifecycle!Move,
       Lifecycle!Latch, Lifecycle!Finalize, Lifecycle!Close
  <1>2. IInv /\ [Next]_vars =>
            [closure # "none" => UNCHANGED <<closure, history.effects>>]_vars
    BY <1>1, LifecycleStep
  <1>. QED  BY <1>2, Invariance, PTL DEF Spec

(* A closing run has a cause, a closed one reads as its cause says.          *)
ClosedAsCaused ==
    /\ snapshot.status = "finalizing" => closure # "none"
    /\ snapshot.status \in {"completed", "terminated", "expired"} =>
           closure # "none" /\ snapshot.status = CLOSED_STATUS[closure]

(* The status a run is closed under is that of the cause it was latched with *)
(* (CLOSED_STATUS), however long the report took and whatever came after.    *)
THEOREM ClosesUnderItsCause == Spec => []ClosedAsCaused
  <1>1. Init => ClosedAsCaused
    BY DEF Init, ClosedAsCaused, Fresh
  <1>2. ASSUME IInv, ClosedAsCaused, [Next]_vars PROVE ClosedAsCaused'
    <2>1. Lifecycle!Next \/ UNCHANGED Lifecycle!vars
      BY <1>2, LifecycleStep
    <2>2. closure \in Reasons \cup {"none"} /\ closure' \in Reasons \cup {"none"}
      BY <1>2, NextHolds DEF IInv, TypeOK
    <2>3. PlaceKnown
      BY <1>2 DEF IInv, FlowKnown
    <2>. USE DEF ClosedAsCaused, CLOSED_STATUS, Reasons, Lifecycle!Closes
    <2>4. CASE UNCHANGED Lifecycle!vars
      BY <1>2, <2>4 DEF Lifecycle!vars
    <2>5. CASE \E reason \in DOMAIN Lifecycle!Closes : Lifecycle!Latch(reason)
      BY <1>2, <2>2, <2>5 DEF Lifecycle!Latch
    <2>6. CASE Lifecycle!Finalize \/ Lifecycle!Release
      BY <1>2, <2>6 DEF Lifecycle!Finalize, Lifecycle!Release
    <2>7. CASE Lifecycle!Close
      BY <1>2, <2>2, <2>7 DEF Lifecycle!Close
    <2>8. CASE \/ Lifecycle!Start \/ Lifecycle!Review \/ Lifecycle!Sleep \/ Lifecycle!Hold
               \/ Lifecycle!Resume \/ Lifecycle!Fail
      BY <2>8 DEF Lifecycle!Start, Lifecycle!Review, Lifecycle!Sleep, Lifecycle!Hold,
         Lifecycle!Resume, Lifecycle!Fail, Lifecycle!Move
    <2>. QED  BY <2>1, <2>4, <2>5, <2>6, <2>7, <2>8 DEF Lifecycle!Next
  <1>. QED  BY <1>1, <1>2, Invariance, PTL DEF Spec
=============================================================================
