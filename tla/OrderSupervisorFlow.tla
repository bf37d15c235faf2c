------------------------ MODULE OrderSupervisorFlow ------------------------
(***************************************************************************)
(* Where the coroutine of OrderSupervisor can stand, and with what in its  *)
(* hands: which transaction it sends from where, what the candidate, the   *)
(* identities and the answers of each are, and where it goes on.  The code *)
(* never writes this down, every other argument about the workflow rests   *)
(* on it.  TypeOK and FlowKnown are shown to be kept by every step here,   *)
(* OrderSupervisorProofs does the rest.                                    *)
(***************************************************************************)
EXTENDS OrderSupervisor, SequenceTheorems, FunctionTheorems, FiniteSetTheorems, TLAPS

(* A transaction is under way, or the first of the two of a hold.           *)
Asking == pc \in {"commit", "hold"}

(* Where the coroutine is in its pass, commits seen through.                *)
At == IF Asking THEN pending.next ELSE pc

(* A decision number has been taken and what it is for is not recorded yet. *)
Reviewing ==
    \/ At \in {"evidence", "thinking", "redrain", "judge"}
    \/ Asking /\ pending.op = "decide"

(* The statuses of a run that is initialized and not closing.               *)
Working == {"evaluating", "sleeping", "paused", "awaiting_recovery"}

Waiting == snapshot.pending_review

(* What a handler of a queued command sent: _drain_inbox goes on after it.  *)
Handled ==
    /\ closure = "none"
    /\ pending.next \in Draining
    /\ Len(pending.answers) = 1
    /\ pending.keys \subseteq Identities(pending.answers[1])

HandledOperations == {"event", "instruction", "record", "pausing", "pause", "resume",
                      "terminate", "approve", "reject"}

(* What the loop sent on its own, and where it goes on.                     *)
Asked(candidate, keys, next) ==
    /\ pending.candidate = candidate
    /\ pending.keys = keys
    /\ pending.answers = <<>>
    /\ pending.next = next

HandledKnown ==
    LET op == pending.op
        candidate == pending.candidate
    IN
    /\ op \in HandledOperations => Handled
    /\ op = "event" =>
           candidate \in {snapshot, [snapshot EXCEPT !.context_version = @ + 1]}
    /\ op = "instruction" => candidate = [snapshot EXCEPT !.context_version = @ + 1]
    /\ op = "record" => candidate = snapshot
    /\ op = "pausing" =>
           /\ pc = "commit" => candidate = [snapshot EXCEPT !.pending_control = TRUE]
           /\ pending.keys = {}
           /\ snapshot.status # "paused"
    /\ op = "pause" => candidate = Paused /\ snapshot.status # "paused"
    /\ op = "resume" =>
           /\ candidate = [snapshot EXCEPT !.status = "evaluating", !.pending_control = FALSE,
                                           !.control_epoch = @ + 1]
           /\ snapshot.status \in {"paused", "awaiting_recovery"}
    /\ op = "terminate" =>
           candidate = [snapshot EXCEPT !.pending_control = FALSE, !.control_epoch = @ + 1]
    /\ op = "approve" => candidate = WithDraft("approved") /\ Waiting.status = "pending"
    /\ op = "reject" => candidate = WithDraft("rejected")

AskedKnown ==
    LET op == pending.op
        generation == snapshot.execution_generation + 1
    IN
    /\ op = "start" =>
           /\ Asked([snapshot EXCEPT !.status = "evaluating"], {CreationEvent}, "loop")
           /\ snapshot.status = "starting" /\ closure = "none"
    /\ op = "generation" =>
           /\ Asked([snapshot EXCEPT !.execution_generation = generation],
                    {<<"generation", generation>>}, "loop")
           /\ closure = "none"
    /\ op = "outdate" =>
           /\ pending.candidate = WithDraft("outdated")
           /\ \/ Handled
              \/ Asked(WithDraft("outdated"), {}, "gate") /\ closure = "none"
    /\ op = "send" =>
           /\ Asked([snapshot EXCEPT !.pending_review = NoDraft, !.context_version = @ + 1],
                    {<<"action", Waiting.decision>>}, "gate")
           /\ Waiting.status = "approved" /\ ~Stale(Waiting)
           /\ snapshot.status \in {"evaluating", "sleeping"} /\ closure = "none"
    /\ op = "evaluate" =>
           /\ Asked([snapshot EXCEPT !.status = "evaluating"], {}, "evidence")
           /\ snapshot.status \in {"evaluating", "sleeping"} /\ closure = "none"
    /\ op = "discard" => Asked(snapshot, {}, "loop")
    /\ op = "stale" =>
           /\ Asked(snapshot, {}, "loop")
           /\ snapshot.status = "evaluating" /\ closure = "none"
    /\ op = "recover" =>
           /\ Asked([snapshot EXCEPT !.status = "awaiting_recovery"], {}, "loop")
           /\ snapshot.status = "evaluating" /\ closure = "none"
    /\ op = "memory" => Asked(snapshot, {}, "settle") /\ closure = "none"
    /\ op = "sleep" =>
           /\ Asked([snapshot EXCEPT !.status = "sleeping"], {}, "roll")
           /\ snapshot.status = "evaluating" /\ closure = "none"
    /\ op = "prepare" => Asked(snapshot, {}, "handover") /\ closure = "none"
    /\ op = "finalize" =>
           /\ Asked([snapshot EXCEPT !.status = "finalizing", !.pending_control = FALSE,
                                     !.pending_review = NoDraft], {}, "report")
           /\ closure # "none"
    /\ op = "close" =>
           /\ closure # "none"
           /\ Asked([snapshot EXCEPT !.status = CLOSED_STATUS[closure]], {}, "late")
           /\ snapshot.status = "finalizing"
    /\ op = "late" =>
           /\ pending.candidate = snapshot /\ pending.keys = {} /\ pending.next = "late"
           /\ closure # "none"

(* The draft a decision leaves: the one that waits, or one of its own.      *)
Drafted ==
    [number |-> counters.drafts, decision |-> counters.decisions,
     context |-> pending.candidate.context_version, status |-> "pending"]

DecideKnown ==
    pending.op = "decide" =>
        /\ \E draft \in {Waiting, Drafted} :
               Asked([snapshot EXCEPT !.status = "sleeping",
                                      !.context_version = pending.candidate.context_version,
                                      !.pending_review = draft],
                     pending.keys, "loop")
        /\ pending.candidate.pending_review # Waiting => pending.keys = {}
        /\ pending.keys \subseteq {<<"action", counters.decisions>>}
        /\ snapshot.status = "evaluating" /\ closure = "none"

(* Whether the run is closing, and what its record says, at each place.     *)
PlaceKnown ==
    /\ At \in {"draft", "gate", "evidence", "thinking", "recover", "memory", "settle", "roll"}
           => closure = "none"
    /\ At \in {"finalize", "report", "late", "done"} => closure # "none"
    /\ pc = "boot" => closure = "none" /\ snapshot.status \in Working \cup {"starting"}
    /\ snapshot.status = "starting" => pc = "boot" \/ (pc = "commit" /\ pending.op = "start")
    /\ pc = "report" => snapshot.status = "finalizing"
    /\ pc \in {"evidence", "thinking", "recover"} => snapshot.status = "evaluating"
    /\ At \in {"redrain", "judge"} => snapshot.status \in {"evaluating", "paused"}
    /\ pc \notin {"boot", "report", "late", "done"}
       /\ (pc = "commit" => pending.op \notin {"start", "close", "late"})
           => snapshot.status \in Working

FlowKnown ==
    /\ pc = "hold" => pending.op = "pausing"
    /\ IF Asking
       THEN pending.op # "none" /\ HandledKnown /\ AskedKnown /\ DecideKnown
       ELSE pending = Nothing
    /\ PlaceKnown
    /\ (pc = "commit" => pending.op # "stale") => counters.stale_discards < MaxStaleDiscards
    /\ At = "handover" => MaxRollovers > 0
    /\ pc = "boot" /\ snapshot.status # "starting" => MaxRollovers > 0

---------------------------------------------------------------------------
(* Types.                                                                   *)
Keys == {"command", "event", "action", "generation"} \X Nat

(* The identities of a command are well formed.                             *)
LEMMA Identified == ASSUME NEW c \in Commands PROVE Identities(c) \in SUBSET Keys
  BY CommandsAssumption DEF Identities, Keys

(* Fields of a snapshot, and what may be added to them.                     *)
LEMMA Fields ==
    ASSUME NEW s \in Snapshot
    PROVE  /\ s.context_version \in Nat /\ s.context_version + 1 \in Nat
           /\ s.control_epoch \in Nat /\ s.control_epoch + 1 \in Nat
           /\ s.execution_generation \in Nat /\ s.execution_generation + 1 \in Nat
           /\ s.status \in Statuses
           /\ s.pending_review \in Draft
  BY DEF Snapshot

(* Every candidate a handler or the loop makes of the snapshot is a         *)
(* snapshot.                                                                *)
LEMMA Candidates ==
    ASSUME snapshot \in Snapshot
    PROVE  /\ \A status \in Statuses : [snapshot EXCEPT !.status = status] \in Snapshot
           /\ [snapshot EXCEPT !.pending_control = TRUE] \in Snapshot
           /\ Paused \in Snapshot
           /\ [snapshot EXCEPT !.status = "evaluating", !.pending_control = FALSE,
                               !.control_epoch = @ + 1] \in Snapshot
           /\ [snapshot EXCEPT !.pending_control = FALSE, !.control_epoch = @ + 1] \in Snapshot
           /\ \A status \in {"none", "pending", "approved", "rejected", "outdated"} :
                  WithDraft(status) \in Snapshot
           /\ [snapshot EXCEPT !.pending_review = NoDraft, !.context_version = @ + 1] \in Snapshot
           /\ [snapshot EXCEPT !.context_version = @ + 1] \in Snapshot
           /\ [snapshot EXCEPT !.execution_generation = snapshot.execution_generation + 1] \in Snapshot
           /\ [snapshot EXCEPT !.status = "finalizing", !.pending_control = FALSE,
                               !.pending_review = NoDraft] \in Snapshot
           /\ \A context \in Nat, draft \in Draft :
                  [snapshot EXCEPT !.status = "sleeping", !.context_version = context,
                                   !.pending_review = draft] \in Snapshot
  <1>. snapshot.control_epoch + 1 \in Nat /\ snapshot.context_version + 1 \in Nat
       /\ snapshot.execution_generation + 1 \in Nat
    BY Fields
  <1>. NoDraft \in Draft
    BY DEF NoDraft, Draft
  <1>1. \A status \in Statuses : [snapshot EXCEPT !.status = status] \in Snapshot
    BY DEF Snapshot
  <1>2. [snapshot EXCEPT !.pending_control = TRUE] \in Snapshot
    BY DEF Snapshot
  <1>3. Paused \in Snapshot
    BY DEF Snapshot, Paused, Statuses
  <1>4. [snapshot EXCEPT !.status = "evaluating", !.pending_control = FALSE,
                               !.control_epoch = @ + 1] \in Snapshot
    BY DEF Snapshot, Statuses
  <1>5. [snapshot EXCEPT !.pending_control = FALSE, !.control_epoch = @ + 1] \in Snapshot
    BY DEF Snapshot, Statuses
  <1>6. \A status \in {"none", "pending", "approved", "rejected", "outdated"} :
                  WithDraft(status) \in Snapshot
    BY DEF Snapshot, WithDraft, Draft
  <1>7. [snapshot EXCEPT !.pending_review = NoDraft, !.context_version = @ + 1] \in Snapshot
    BY DEF Snapshot
  <1>8. [snapshot EXCEPT !.context_version = @ + 1] \in Snapshot
    BY DEF Snapshot
  <1>9. [snapshot EXCEPT !.execution_generation = snapshot.execution_generation + 1] \in Snapshot
    BY DEF Snapshot
  <1>10. [snapshot EXCEPT !.status = "finalizing", !.pending_control = FALSE,
                               !.pending_review = NoDraft] \in Snapshot
    BY DEF Snapshot, Statuses
  <1>11. \A context \in Nat, draft \in Draft :
                  [snapshot EXCEPT !.status = "sleeping", !.context_version = context,
                                   !.pending_review = draft] \in Snapshot
    BY DEF Snapshot, Statuses
  <1>. QED
    BY <1>1, <1>2, <1>3, <1>4, <1>5, <1>6, <1>7, <1>8, <1>9, <1>10, <1>11

(* A commit keeps the place and the pending operation typed.                *)
LEMMA CommitTypes ==
    ASSUME NEW op \in Operations, NEW candidate \in Snapshot, NEW keys \in SUBSET Keys,
           NEW answers \in Seq(Commands), NEW next \in Points,
           Commit(op, candidate, keys, answers, next)
    PROVE  pc' \in Points /\ pending' \in Operation
  BY DEF Commit, Operation, Points, Suspended, Keys
(* Everything that is not being sent stays typed when it stays put.         *)
LEMMA TypesKept ==
    ASSUME TypeOK,
           pc' \in Points, pending' \in Operation,
           inbox' \in Seq(Commands),
           latches' \in [Commands -> {"none", "held", "during"}],
           terminal_pending' \in BOOLEAN,
           trigger' \in BOOLEAN,
           closure' \in Reasons \cup {"none"},
           counters' \in [decisions : Nat, drafts : Nat, stale_discards : 0..MaxStaleDiscards,
                          late_rounds : 0..MaxLateRounds],
           review' \in [context : Nat, epoch : Nat, attempt : 0..MaxAttempts,
                        proposal : Proposals],
           UNCHANGED <<carry, record, clock>>
    PROVE  TypeOK'
  BY DEF TypeOK, record

(* A commit that changes nothing else keeps the types.                      *)
LEMMA RecordTypes ==
    ASSUME TypeOK, NEW op \in Operations, NEW candidate \in Snapshot, NEW keys \in SUBSET Keys,
           NEW next \in Points, Record(op, candidate, keys, next)
    PROVE  TypeOK'
  <1>1. <<>> \in Seq(Commands)
    OBVIOUS
  <1>2. pc' \in Points /\ pending' \in Operation
    BY <1>1, CommitTypes DEF Record
  <1>. QED
    BY <1>2, TypesKept DEF Record, TypeOK, signals, memory

(* So does a command that is taken from the queue with its commit.          *)
LEMMA TakeTypes ==
    ASSUME TypeOK, NEW c \in Commands, NEW op \in Operations, NEW candidate \in Snapshot,
           NEW keys \in SUBSET Keys, Queued(c), Take(c, op, candidate, keys),
           latches' \in [Commands -> {"none", "held", "during"}]
    PROVE  TypeOK'
  <1>1. <<c>> \in Seq(Commands) /\ Tail(inbox) \in Seq(Commands)
    BY DEF TypeOK, Queued
  <1>2. pc' \in Points /\ pending' \in Operation
    BY <1>1, CommitTypes DEF Take, TypeOK
  <1>. QED
    BY <1>1, <1>2, TypesKept DEF Take, TypeOK, memory

(* And a pass from one place to the next.                                   *)
LEMMA PassTypes ==
    ASSUME TypeOK, NEW from, NEW to \in Points, Pass(from, to)
    PROVE  TypeOK'
  BY TypesKept DEF Pass, TypeOK, signals, memory

(* The first execution starts typed.                                        *)
LEMMA InitTypes == Init => TypeOK
  <1> SUFFICES ASSUME Init PROVE TypeOK
    OBVIOUS
  <1>1. Fresh \in Snapshot
    BY DEF Fresh, Snapshot, Statuses, NoDraft, Draft
  <1>2. Nothing \in Operation
    BY <1>1 DEF Nothing, Operation, Operations, Points
  <1>3. history \in [delivered : [Commands -> Nat], answered : [Commands -> Nat],
                    arrivals : Nat, approved : SUBSET Nat, effects : Nat,
                    messages : Seq([draft : Nat, written : Nat, sent : Nat])]
    BY DEF Init
  <1>4. carry \in [inbox : Seq(Commands), latches : [Commands -> {"none", "held", "during"}],
                  terminal_pending : BOOLEAN]
    BY DEF Init, NoHolds
  <1>5. 0 \in 0..MaxStaleDiscards /\ 0 \in 0..MaxLateRounds /\ 0 \in 0..MaxAttempts
    BY BoundsAssumption
  <1>6. counters \in [decisions : Nat, drafts : Nat, stale_discards : 0..MaxStaleDiscards,
                     late_rounds : 0..MaxLateRounds]
    BY <1>5 DEF Init
  <1>7. review \in [context : Nat, epoch : Nat, attempt : 0..MaxAttempts, proposal : Proposals]
    BY <1>5 DEF Init, NoReview, Proposals
  <1>. QED
    BY <1>1, <1>2, <1>3, <1>4, <1>6, <1>7 DEF Init, TypeOK, Points, Suspended, NoHolds

(* Signals and time keep the types.                                         *)
LEMMA ArrivalTypes ==
    ASSUME TypeOK
    PROVE  /\ \A c \in Commands : Deliver(c) => TypeOK'
           /\ Age => TypeOK'
           /\ ReviewFallsDue => TypeOK'
  <1>1. ASSUME NEW c \in Commands, Deliver(c) PROVE TypeOK'
    <2>. DEFINE Counted == [history.delivered EXCEPT ![c] = @ + 1]
    <2>1. Counted \in [Commands -> Nat]
      BY DEF TypeOK
    <2>2. history' = [history EXCEPT !.delivered = Counted, !.arrivals = history.arrivals + 1]
      BY <1>1 DEF Deliver
    <2>3. history' \in [delivered : [Commands -> Nat], answered : [Commands -> Nat],
                    arrivals : Nat, approved : SUBSET Nat, effects : Nat,
                    messages : Seq([draft : Nat, written : Nat, sent : Nat])]
      <3>1. history.arrivals + 1 \in Nat
        BY DEF TypeOK
      <3>. HIDE DEF Counted
      <3>. QED  BY <2>1, <2>2, <3>1 DEF TypeOK
    <2>4. inbox' \in Seq(Commands)
      BY <1>1 DEF Deliver, TypeOK
    <2>5. latches' \in [Commands -> {"none", "held", "during"}]
      BY <1>1 DEF Deliver, TypeOK
    <2>. QED
      BY <1>1, <2>3, <2>4, <2>5 DEF Deliver, TypeOK, memory
  <1>2. ASSUME Age PROVE TypeOK'
    BY <1>2 DEF Age, TypeOK, signals, memory, record
  <1>3. ASSUME ReviewFallsDue PROVE TypeOK'
    BY <1>3 DEF ReviewFallsDue, TypeOK, signals, memory, record
  <1>. QED
    BY <1>1, <1>2, <1>3

CountersType == [decisions : Nat, drafts : Nat, stale_discards : 0..MaxStaleDiscards,
                 late_rounds : 0..MaxLateRounds]

LEMMA Numbers ==
    ASSUME TypeOK
    PROVE  /\ counters \in CountersType
           /\ counters.decisions \in Nat /\ counters.drafts \in Nat
           /\ counters.stale_discards \in 0..MaxStaleDiscards
           /\ counters.late_rounds \in 0..MaxLateRounds
           /\ review.attempt \in 0..MaxAttempts
           /\ inbox \in Seq(Commands) /\ Len(inbox) \in Nat
           /\ \A n \in 0..MaxAttempts :
                  [review EXCEPT !.attempt = n] \in [context : Nat, epoch : Nat,
                                                    attempt : 0..MaxAttempts,
                                                    proposal : Proposals]
  <1>1. counters \in CountersType /\ inbox \in Seq(Commands)
        /\ review \in [context : Nat, epoch : Nat, attempt : 0..MaxAttempts,
                       proposal : Proposals]
    BY DEF TypeOK, CountersType
  <1>. QED  BY <1>1 DEF CountersType

(* Every handler of a queued command keeps the types.                       *)
LEMMA HandledTypes ==
    ASSUME TypeOK, NEW c \in Commands, Apply(c)
    PROVE  TypeOK'
  <1>1. snapshot \in Snapshot /\ latches \in [Commands -> {"none", "held", "during"}]
    BY DEF TypeOK
  <1>2. Identities(c) \in SUBSET Keys /\ {} \in SUBSET Keys
    BY Identified
  <1>3. {"event", "instruction", "record", "pausing", "pause", "resume", "terminate", "approve",
         "reject", "outdate"} \subseteq Operations
    BY DEF Operations
  <1>4. [latches EXCEPT ![c] = "none"] \in [Commands -> {"none", "held", "during"}]
    BY <1>1
  <1>5. CASE ApplyEvent(c)
    <2>. DEFINE moved == [snapshot EXCEPT !.context_version =
                              IF c.kind = "routine" THEN @ ELSE @ + 1]
    <2>1. moved \in Snapshot
      <3>1. CASE c.kind = "routine"
        BY <3>1, <1>1 DEF Snapshot
      <3>2. CASE c.kind # "routine"
        BY <3>2, <1>1, Fields DEF Snapshot
      <3>. QED  BY <3>1, <3>2
    <2>2. Queued(c) /\ Take(c, "event", moved, Identities(c)) /\ UNCHANGED latches
      BY <1>5 DEF ApplyEvent
    <2>. HIDE DEF moved
    <2>. QED  BY <1>1, <1>2, <1>3, <2>1, <2>2, TakeTypes
  <1>6. CASE ApplyInstruction(c)
    <2>. DEFINE moved == [snapshot EXCEPT !.context_version = @ + 1]
    <2>1. moved \in Snapshot
      BY <1>1, Candidates
    <2>2. /\ Queued(c) /\ UNCHANGED latches
          /\ \/ Take(c, "instruction", moved, Identities(c))
             \/ Take(c, "record", snapshot, {})
      BY <1>6 DEF ApplyInstruction, RecordOnly
    <2>. HIDE DEF moved
    <2>. QED  BY <1>1, <1>2, <1>3, <2>1, <2>2, TakeTypes
  <1>7. CASE ApplyHold(c)
    <2>. DEFINE showing == [snapshot EXCEPT !.pending_control = TRUE]
    <2>1. showing \in Snapshot /\ Paused \in Snapshot
      BY <1>1, Candidates
    <2>2. /\ Queued(c) /\ latches' \in [Commands -> {"none", "held", "during"}]
          /\ \/ Take(c, "record", snapshot, {})
             \/ Take(c, "pausing", showing, {})
             \/ Take(c, "pause", Paused, Identities(c))
      BY <1>4, <1>7 DEF ApplyHold, RecordOnly
    <2>. HIDE DEF showing
    <2>. QED  BY <1>1, <1>2, <1>3, <2>1, <2>2, TakeTypes
  <1>8. CASE ApplyResume(c)
    <2>. DEFINE resumed == [snapshot EXCEPT !.status = "evaluating", !.pending_control = FALSE,
                                            !.control_epoch = @ + 1]
    <2>1. resumed \in Snapshot
      BY <1>1, Candidates
    <2>2. /\ Queued(c) /\ UNCHANGED latches
          /\ \/ Take(c, "resume", resumed, Identities(c))
             \/ Take(c, "record", snapshot, {})
      BY <1>8 DEF ApplyResume, RecordOnly
    <2>. HIDE DEF resumed
    <2>. QED  BY <1>1, <1>2, <1>3, <2>1, <2>2, TakeTypes
  <1>9. CASE ApplyTerminate(c)
    <2>. DEFINE stopped == [snapshot EXCEPT !.pending_control = FALSE, !.control_epoch = @ + 1]
    <2>1. stopped \in Snapshot
      BY <1>1, Candidates
    <2>2. /\ Queued(c) /\ latches' \in [Commands -> {"none", "held", "during"}]
          /\ Take(c, "terminate", stopped, Identities(c))
      BY <1>4, <1>9 DEF ApplyTerminate
    <2>. HIDE DEF stopped
    <2>. QED  BY <1>1, <1>2, <1>3, <2>1, <2>2, TakeTypes
  <1>10. CASE ApplyReview(c)
    <2>1. /\ WithDraft("approved") \in Snapshot /\ WithDraft("rejected") \in Snapshot
          /\ WithDraft("outdated") \in Snapshot
      BY <1>1, Candidates
    <2>2. /\ Queued(c) /\ UNCHANGED latches
          /\ \/ Take(c, "record", snapshot, Identities(c))
             \/ Take(c, "outdate", WithDraft("outdated"), Identities(c))
             \/ Take(c, "approve", WithDraft("approved"), Identities(c))
             \/ Take(c, "reject", WithDraft("rejected"), Identities(c))
      BY <1>10 DEF ApplyReview
    <2>. QED  BY <1>1, <1>2, <1>3, <2>1, <2>2, TakeTypes
  <1>. QED
    BY <1>5, <1>6, <1>7, <1>8, <1>9, <1>10 DEF Apply

(* What the loop sends on its own.                                          *)
LEMMA AskedTypes ==
    ASSUME TypeOK, FlowKnown
    PROVE  /\ Initialize => TypeOK'
           /\ Restore => TypeOK'
           /\ FinishHold => TypeOK'
           /\ SettleDraft => TypeOK'
           /\ BeginReview => TypeOK'
           /\ EnterRecovery => TypeOK'
           /\ SettleMemory => TypeOK'
           /\ SettleWaitingState => TypeOK'
           /\ PrepareRollOver => TypeOK'
           /\ Finalize => TypeOK'
           /\ Close => TypeOK'
           /\ DisposeLate => TypeOK'
  <1>. {} \in SUBSET Keys /\ snapshot \in Snapshot /\ <<>> \in Seq(Commands)
    BY DEF TypeOK
  <1>. USE DEF Keys
  <1>1. ASSUME Initialize PROVE TypeOK'
    <2>. DEFINE started == [snapshot EXCEPT !.status = "evaluating"]
    <2>1. started \in Snapshot
      BY Candidates DEF Statuses
    <2>3. {CreationEvent} \in SUBSET Keys
      BY DEF CreationEvent
    <2>2. Record("start", started, {CreationEvent}, "loop")
      BY <1>1 DEF Initialize
    <2>. HIDE DEF started
    <2>. QED  BY <2>1, <2>2, <2>3, RecordTypes DEF Operations, Points
  <1>2. ASSUME Restore PROVE TypeOK'
    <2>. DEFINE generation == snapshot.execution_generation + 1
                continued == [snapshot EXCEPT !.execution_generation = generation]
    <2>4. generation \in Nat
      BY Fields
    <2>5. continued \in Snapshot
      BY Candidates
    <2>2. /\ Commit("generation", continued, {<<"generation", generation>>}, <<>>, "loop")
          /\ inbox' = carry.inbox /\ latches' = carry.latches
          /\ terminal_pending' = carry.terminal_pending
          /\ UNCHANGED <<memory, record, clock>>
      BY <1>2 DEF Restore
    <2>. HIDE DEF continued, generation
    <2>1. continued \in Snapshot /\ {<<"generation", generation>>} \in SUBSET Keys
      BY <2>4, <2>5
    <2>3. pc' \in Points /\ pending' \in Operation
      BY <2>1, <2>2, CommitTypes DEF Operations, Points
    <2>. QED  BY <2>2, <2>3, TypesKept DEF TypeOK, memory
  <1>3. ASSUME FinishHold PROVE TypeOK'
    <2>1. pc = "hold" /\ Handled /\ pending.answers \in Seq(Commands) /\ pending.next \in Points
      BY <1>3 DEF FinishHold, FlowKnown, HandledKnown, HandledOperations, Asking, TypeOK, Operation
    <2>2. pending.answers[1] \in Commands
      BY <2>1 DEF Handled
    <2>3. Identities(pending.answers[1]) \in SUBSET Keys /\ Paused \in Snapshot
      BY <2>2, Identified, Candidates
    <2>4. pc' \in Points /\ pending' \in Operation
      BY <1>3, <2>1, <2>3, CommitTypes DEF FinishHold, Operations
    <2>. QED  BY <1>3, <2>4, TypesKept DEF FinishHold, TypeOK, signals, memory
  <1>4. ASSUME SettleDraft PROVE TypeOK'
    <2>. DEFINE sent == [snapshot EXCEPT !.pending_review = NoDraft, !.context_version = @ + 1]
                key == <<"action", snapshot.pending_review.decision>>
    <2>4. sent \in Snapshot /\ WithDraft("outdated") \in Snapshot
      BY Candidates
    <2>5. snapshot.pending_review.decision \in Nat
      BY Fields DEF Draft
    <2>6. {key} \in SUBSET Keys
      BY <2>5
    <2>2. \/ Record("outdate", WithDraft("outdated"), {}, "gate")
          \/ Record("send", sent, {key}, "gate")
          \/ pc' = "gate" /\ UNCHANGED <<signals, memory, pending, record, clock>>
      BY <1>4 DEF SettleDraft
    <2>. HIDE DEF sent, key
    <2>3. CASE pc' = "gate" /\ UNCHANGED <<signals, memory, pending, record, clock>>
      BY <2>3, TypesKept DEF TypeOK, Points, signals, memory
    <2>. QED  BY <2>2, <2>3, <2>4, <2>6, RecordTypes DEF Operations, Points
  <1>5. ASSUME BeginReview PROVE TypeOK'
    <2>. DEFINE begun == [snapshot EXCEPT !.status = "evaluating"]
    <2>1. begun \in Snapshot
      BY Candidates DEF Statuses
    <2>2. /\ Commit("evaluate", begun, {}, <<>>, "evidence")
          /\ trigger' = FALSE
          /\ counters' = [counters EXCEPT !.decisions = counters.decisions + 1]
          /\ UNCHANGED <<signals, closure, review, carry, record, clock>>
      BY <1>5 DEF BeginReview
    <2>. HIDE DEF begun
    <2>3. pc' \in Points /\ pending' \in Operation
      BY <2>1, <2>2, CommitTypes DEF Operations, Points, Suspended
    <2>5. counters.decisions + 1 \in Nat
      BY DEF TypeOK
    <2>4. counters' \in CountersType
      BY <2>2, <2>5 DEF TypeOK, CountersType
    <2>. QED  BY <2>2, <2>3, <2>4, TypesKept DEF TypeOK, signals, CountersType
  <1>6. ASSUME EnterRecovery PROVE TypeOK'
    <2>. DEFINE failed == [snapshot EXCEPT !.status = "awaiting_recovery"]
    <2>1. failed \in Snapshot
      BY Candidates DEF Statuses
    <2>2. Record("recover", failed, {}, "loop")
      BY <1>6 DEF EnterRecovery
    <2>. HIDE DEF failed
    <2>. QED  BY <2>1, <2>2, RecordTypes DEF Operations, Points
  <1>7. ASSUME SettleMemory PROVE TypeOK'
    BY <1>7, RecordTypes, PassTypes DEF SettleMemory, Operations, Points
  <1>8. ASSUME SettleWaitingState PROVE TypeOK'
    <2>. DEFINE asleep == [snapshot EXCEPT !.status = "sleeping"]
    <2>1. asleep \in Snapshot
      BY Candidates DEF Statuses
    <2>2. Record("sleep", asleep, {}, "roll") \/ Pass("settle", "roll")
      BY <1>8 DEF SettleWaitingState
    <2>. HIDE DEF asleep
    <2>. QED  BY <2>1, <2>2, RecordTypes, PassTypes DEF Operations, Points
  <1>9. ASSUME PrepareRollOver PROVE TypeOK'
    BY <1>9, RecordTypes DEF PrepareRollOver, Operations, Points, Draining
  <1>10. ASSUME Finalize PROVE TypeOK'
    <2>. DEFINE closing == [snapshot EXCEPT !.status = "finalizing", !.pending_control = FALSE,
                                            !.pending_review = NoDraft]
    <2>1. closing \in Snapshot
      BY Candidates
    <2>2. Record("finalize", closing, {}, "report")
      BY <1>10 DEF Finalize
    <2>. HIDE DEF closing
    <2>. QED  BY <2>1, <2>2, RecordTypes DEF Operations, Points, Suspended
  <1>11. ASSUME Close PROVE TypeOK'
    <2>. DEFINE closed == [snapshot EXCEPT !.status = CLOSED_STATUS[closure]]
    <2>1. closure \in Reasons
      BY <1>11 DEF Close, FlowKnown, PlaceKnown, At, Asking, TypeOK
    <2>2. CLOSED_STATUS[closure] \in Statuses
      BY <2>1 DEF CLOSED_STATUS, Reasons, Statuses
    <2>3. closed \in Snapshot
      BY <2>2, Candidates
    <2>4. Record("close", closed, {}, "late")
      BY <1>11 DEF Close
    <2>. HIDE DEF closed
    <2>. QED  BY <2>3, <2>4, RecordTypes DEF Operations, Points
  <1>12. ASSUME DisposeLate PROVE TypeOK'
    <2>. DEFINE batch == SubSeq(inbox, 1, IF Len(inbox) < LateBatch THEN Len(inbox)
                                          ELSE LateBatch)
    <2>1. batch \in Seq(Commands)
      BY Numbers, BoundsAssumption
    <2>2. /\ Commit("late", snapshot, {}, batch, "late")
          /\ inbox' = <<>>
          /\ counters.late_rounds < MaxLateRounds
          /\ counters' = [counters EXCEPT !.late_rounds = counters.late_rounds + 1]
          /\ UNCHANGED <<latches, terminal_pending, trigger, closure, review, carry, record,
                         clock>>
      BY <1>12 DEF DisposeLate
    <2>. HIDE DEF batch
    <2>3. pc' \in Points /\ pending' \in Operation
      BY <2>1, <2>2, CommitTypes DEF Operations, Points
    <2>4. counters.late_rounds + 1 \in 0..MaxLateRounds
      BY <2>2, Numbers, BoundsAssumption
    <2>5. counters' \in CountersType
      BY <2>2, <2>4, Numbers DEF CountersType
    <2>. QED  BY <2>2, <2>3, <2>5, TypesKept DEF TypeOK, CountersType
  <1>. QED
    BY <1>1, <1>2, <1>3, <1>4, <1>5, <1>6, <1>7, <1>8, <1>9, <1>10, <1>11, <1>12

(* A review keeps the types, whatever becomes of it; the stale counter      *)
(* stays within its bound because of FlowKnown.                             *)
LEMMA ReviewTypes ==
    ASSUME TypeOK, FlowKnown
    PROVE  /\ EvidenceArrives => TypeOK'
           /\ EvidenceTooLarge => TypeOK'
           /\ \A proposal \in Proposals : DecisionArrives(proposal) => TypeOK'
           /\ DecisionFails => TypeOK'
           /\ AbandonReview => TypeOK'
           /\ RefuseDecision => TypeOK'
           /\ DiscardStale => TypeOK'
           /\ RecordDecision => TypeOK'
  <1>. {} \in SUBSET Keys /\ snapshot \in Snapshot /\ <<>> \in Seq(Commands)
    BY DEF TypeOK
  <1>1. ASSUME Discard PROVE TypeOK'
    BY <1>1, RecordTypes DEF Discard, Operations, Points
  <1>2. ASSUME NEW n \in 0..MaxAttempts, Attempt(n) PROVE TypeOK'
    <2>1. CASE Interrupted
      BY <1>1, <1>2, <2>1 DEF Attempt
    <2>2. CASE ~Interrupted
      <3>1. review' \in [context : Nat, epoch : Nat, attempt : 0..MaxAttempts,
                         proposal : Proposals]
        <4>1. review' = [review EXCEPT !.attempt = n]
          BY <1>2, <2>2 DEF Attempt
        <4>. QED  BY <4>1, Numbers
      <3>. QED
        BY <1>2, <2>2, <3>1, TypesKept DEF Attempt, TypeOK, Points, Suspended, signals
    <2>. QED  BY <2>1, <2>2
  <1>3. ASSUME GiveUpReview PROVE TypeOK'
    BY <1>3, TypesKept DEF GiveUpReview, TypeOK, Points, signals, memory
  <1>4. EvidenceArrives => TypeOK'
    <2>1. 1 \in 0..MaxAttempts
      BY BoundsAssumption
    <2>. QED  BY <1>2, <2>1 DEF EvidenceArrives
  <1>5. EvidenceTooLarge => TypeOK'
    BY <1>3 DEF EvidenceTooLarge
  <1>6. ASSUME NEW proposal \in Proposals, DecisionArrives(proposal) PROVE TypeOK'
    <2>1. review' \in [context : Nat, epoch : Nat, attempt : 0..MaxAttempts,
                       proposal : Proposals]
      BY <1>6 DEF DecisionArrives, TypeOK
    <2>. QED
      BY <1>6, <2>1, TypesKept DEF DecisionArrives, TypeOK, Points, Draining, signals
  <1>7. ASSUME DecisionFails PROVE TypeOK'
    <2>1. CASE review.attempt < MaxAttempts
      <3>1. review.attempt + 1 \in 0..MaxAttempts
        BY <2>1, Numbers, BoundsAssumption
      <3>. QED  BY <1>2, <1>7, <2>1, <3>1 DEF DecisionFails
    <2>2. CASE ~(review.attempt < MaxAttempts)
      BY <1>3, <1>7, <2>2 DEF DecisionFails
    <2>. QED  BY <2>1, <2>2
  <1>8. AbandonReview => TypeOK'
    BY <1>1 DEF AbandonReview
  <1>9. ASSUME RefuseDecision PROVE TypeOK'
    <2>1. pc' \in Points /\ pending' \in Operation
      BY <1>9, CommitTypes DEF RefuseDecision, Operations, Points
    <2>3. 0 \in 0..MaxStaleDiscards
      BY BoundsAssumption
    <2>2. counters' \in CountersType
      BY <1>9, <2>3 DEF RefuseDecision, TypeOK, CountersType
    <2>. QED
      BY <1>9, <2>1, <2>2, TypesKept DEF RefuseDecision, TypeOK, signals, CountersType
  <1>10. ASSUME DiscardStale PROVE TypeOK'
    <2>1. pc' \in Points /\ pending' \in Operation
      BY <1>10, CommitTypes DEF DiscardStale, Operations, Points
    <2>2. counters.stale_discards < MaxStaleDiscards
      BY <1>10 DEF DiscardStale, FlowKnown
    <2>3. counters.stale_discards + 1 \in 0..MaxStaleDiscards
      BY <2>2, Numbers, BoundsAssumption
    <2>4. counters' = [counters EXCEPT !.stale_discards = counters.stale_discards + 1]
      BY <1>10 DEF DiscardStale
    <2>5. counters' \in CountersType
      BY <2>3, <2>4 DEF TypeOK, CountersType
    <2>. QED
      BY <1>10, <2>1, <2>5, TypesKept DEF DiscardStale, TypeOK, signals, CountersType
  <1>11. ASSUME RecordDecision PROVE TypeOK'
    <2>. DEFINE drafts == review.proposal = "draft" /\ ~LiveDraft(snapshot.pending_review)
                acts == review.proposal = "act"
                context == snapshot.context_version + (IF drafts \/ acts THEN 1 ELSE 0)
                number == counters.drafts + 1
                draft == IF drafts
                         THEN [number |-> number, decision |-> counters.decisions,
                               context |-> context, status |-> "pending"]
                         ELSE snapshot.pending_review
                keys == IF acts THEN {<<"action", counters.decisions>>} ELSE {}
                decided == [snapshot EXCEPT !.status = "sleeping", !.context_version = context,
                                            !.pending_review = draft]
    <2>1. /\ counters' = [counters EXCEPT !.stale_discards = 0,
                                          !.drafts = IF drafts THEN number ELSE counters.drafts]
          /\ Commit("decide", decided, keys, <<>>, "loop")
          /\ UNCHANGED <<signals, trigger, closure, review, carry, record, clock>>
      BY <1>11 DEF RecordDecision
    <2>2. number \in Nat /\ context \in Nat /\ keys \in SUBSET Keys
      <3>1. number \in Nat /\ counters.decisions \in Nat
        BY Numbers
      <3>2. context \in Nat
        BY Fields
      <3>. QED  BY <3>1, <3>2 DEF Keys
    <2>3. draft \in Draft
      <3>1. CASE drafts
        <4>. HIDE DEF number, context
        <4>. QED  BY <2>2, <3>1 DEF Draft, TypeOK
      <3>2. CASE ~drafts
        BY <3>2, Fields
      <3>. QED  BY <3>1, <3>2
    <2>4. counters' \in CountersType
      <3>1. 0 \in 0..MaxStaleDiscards
        BY BoundsAssumption
      <3>2. (IF drafts THEN number ELSE counters.drafts) \in Nat
        BY <2>2 DEF TypeOK
      <3>. HIDE DEF number, drafts
      <3>. QED  BY <2>1, <3>1, <3>2 DEF TypeOK, CountersType
    <2>. HIDE DEF draft, context, keys, number, drafts, acts
    <2>5. decided \in Snapshot
      BY <2>2, <2>3, Candidates
    <2>. HIDE DEF decided
    <2>6. pc' \in Points /\ pending' \in Operation
      BY <2>1, <2>2, <2>5, CommitTypes DEF Operations, Points
    <2>. QED  BY <2>1, <2>4, <2>6, TypesKept DEF TypeOK, signals, CountersType
  <1>. QED
    BY <1>4, <1>5, <1>6, <1>7, <1>8, <1>9, <1>10, <1>11

(* Steps that commit nothing.                                               *)
LEMMA PassingTypes ==
    ASSUME TypeOK, FlowKnown
    PROVE  /\ ObserveAge => TypeOK'
           /\ EndDrain => TypeOK'
           /\ SkipReview => TypeOK'
           /\ SkipRollOver => TypeOK'
           /\ AbandonRollOver => TypeOK'
           /\ ContinueAsNew => TypeOK'
           /\ WakeUp => TypeOK'
           /\ Return => TypeOK'
  <1>1. Observed \in Reasons \cup {"none"}
    BY DEF Observed, TypeOK, Reasons
  <1>2. NoReview \in [context : Nat, epoch : Nat, attempt : 0..MaxAttempts, proposal : Proposals]
    BY BoundsAssumption DEF NoReview, Proposals
  <1>3. ASSUME ObserveAge PROVE TypeOK'
    BY <1>1, <1>2, <1>3, TypesKept DEF ObserveAge, TypeOK, Points, Draining, signals
  <1>4. ASSUME EndDrain PROVE TypeOK'
    BY <1>1, <1>4, TypesKept DEF EndDrain, TypeOK, Points, signals
  <1>5. SkipReview => TypeOK'
    BY PassTypes DEF SkipReview, Points
  <1>6. SkipRollOver => TypeOK'
    BY PassTypes DEF SkipRollOver, Points, Suspended
  <1>7. ASSUME AbandonRollOver PROVE TypeOK'
    BY <1>1, <1>7, TypesKept DEF AbandonRollOver, TypeOK, Points, Suspended, signals
  <1>8. ASSUME ContinueAsNew PROVE TypeOK'
    <2>1. carry' \in [inbox : Seq(Commands),
                      latches : [Commands -> {"none", "held", "during"}],
                      terminal_pending : BOOLEAN]
      BY <1>8 DEF ContinueAsNew, TypeOK
    <2>4. <<>> \in Seq(Commands) /\ NoHolds \in [Commands -> {"none", "held", "during"}]
      BY DEF NoHolds
    <2>2. /\ inbox' \in Seq(Commands) /\ terminal_pending' \in BOOLEAN
          /\ latches' \in [Commands -> {"none", "held", "during"}]
      BY <1>8, <2>4 DEF ContinueAsNew
    <2>3. pc' \in Points
      BY <1>8 DEF ContinueAsNew, Points, Suspended
    <2>. QED  BY <1>8, <2>1, <2>2, <2>3 DEF ContinueAsNew, TypeOK, record
  <1>9. ASSUME WakeUp PROVE TypeOK'
    BY <1>9, TypesKept DEF WakeUp, TypeOK, Points, signals, ReviewDue
  <1>10. Return => TypeOK'
    BY PassTypes DEF Return, Points
  <1>. QED
    BY <1>3, <1>4, <1>5, <1>6, <1>7, <1>8, <1>9, <1>10

(* Copies counts: the places of a command in a queue are finitely many.     *)
LEMMA CopiesCounted ==
    ASSUME NEW c, NEW s \in Seq(Commands)
    PROVE  IsFiniteSet({i \in 1..Len(s) : s[i] = c}) /\ Copies(c, s) \in Nat
  <1>1. IsFiniteSet(1..Len(s))
    BY FS_Interval
  <1>2. IsFiniteSet({i \in 1..Len(s) : s[i] = c})
    BY <1>1, FS_Subset
  <1>. QED
    BY <1>2, FS_CardinalityType DEF Copies

(* What the receipt adds to the history.                                    *)
Message == [draft |-> Waiting.number, written |-> Waiting.context,
            sent |-> snapshot.context_version]

Effective ==
    \/ pending.op = "send" /\ Applied
    \/ pending.op = "decide" /\ Applied /\ review.proposal = "act"

HistoryType == [delivered : [Commands -> Nat], answered : [Commands -> Nat],
                arrivals : Nat, approved : SUBSET Nat, effects : Nat,
                messages : Seq([draft : Nat, written : Nat, sent : Nat])]

(* The history a receipt leaves, component by component.                    *)
LEMMA HistoryKnown ==
    ASSUME TypeOK
    PROVE  /\ HistoryAfter \in HistoryType
           /\ HistoryAfter.delivered = history.delivered
           /\ HistoryAfter.arrivals = history.arrivals
           /\ \A c \in Commands : HistoryAfter.answered[c] = history.answered[c] +
                  (IF pending.op = "pausing" THEN 0 ELSE Copies(c, pending.answers))
           /\ HistoryAfter.approved = history.approved \cup
                  (IF pending.op = "approve" /\ Applied THEN {Waiting.number} ELSE {})
           /\ HistoryAfter.messages = IF pending.op = "send" /\ Applied
                                      THEN Append(history.messages, Message)
                                      ELSE history.messages
           /\ HistoryAfter.effects = history.effects + (IF Effective THEN 1 ELSE 0)
  <1>. DEFINE answered == [c \in Commands |-> history.answered[c] +
                  (IF pending.op = "pausing" THEN 0 ELSE Copies(c, pending.answers))]
              approved == history.approved \cup
                  (IF pending.op = "approve" /\ Applied THEN {Waiting.number} ELSE {})
              messages == IF pending.op = "send" /\ Applied
                          THEN Append(history.messages, Message) ELSE history.messages
              effects == history.effects + (IF Effective THEN 1 ELSE 0)
  <1>1. HistoryAfter = [history EXCEPT !.answered = answered, !.approved = approved,
                                       !.messages = messages, !.effects = effects]
    BY DEF HistoryAfter, Copies, Waiting, Message, Effective
  <1>2. answered \in [Commands -> Nat]
    <2>1. pending.answers \in Seq(Commands) /\ history.answered \in [Commands -> Nat]
      BY DEF TypeOK, Operation
    <2>2. \A c \in Commands : Copies(c, pending.answers) \in Nat
      BY <2>1, CopiesCounted
    <2>. QED  BY <2>1, <2>2
  <1>3. approved \in SUBSET Nat
    BY Fields DEF TypeOK, Waiting, Draft
  <1>4. messages \in Seq([draft : Nat, written : Nat, sent : Nat])
    <2>1. Message \in [draft : Nat, written : Nat, sent : Nat]
      BY Fields DEF Message, Waiting, TypeOK, Draft
    <2>2. history.messages \in Seq([draft : Nat, written : Nat, sent : Nat])
      BY DEF TypeOK
    <2>3. Append(history.messages, Message) \in Seq([draft : Nat, written : Nat, sent : Nat])
      BY <2>1, <2>2, AppendProperties
    <2>. QED  BY <2>2, <2>3
  <1>5. effects \in Nat
    BY DEF TypeOK
  <1>6. \A c \in Commands : answered[c] = history.answered[c] +
                  (IF pending.op = "pausing" THEN 0 ELSE Copies(c, pending.answers))
    OBVIOUS
  <1>. HIDE DEF answered, approved, messages, effects
  <1>7. history \in HistoryType
    BY DEF TypeOK, HistoryType
  <1>8. HistoryAfter \in HistoryType /\ HistoryAfter.delivered = history.delivered
        /\ HistoryAfter.arrivals = history.arrivals
        /\ HistoryAfter.answered = answered /\ HistoryAfter.approved = approved
        /\ HistoryAfter.messages = messages /\ HistoryAfter.effects = effects
    BY <1>1, <1>2, <1>3, <1>4, <1>5, <1>7 DEF HistoryType
  <1>. QED
    BY <1>6, <1>8 DEF approved, messages, effects

(* A receipt keeps the types.                                               *)
LEMMA ReceiptTypes ==
    ASSUME TypeOK, Receipt
    PROVE  TypeOK'
  <1>1. Promoted \in Snapshot
    BY DEF Promoted, TypeOK, Operation
  <1>2. snapshot' \in Snapshot
    BY <1>1 DEF Receipt
  <1>3. claimed' \subseteq Keys
    BY DEF Receipt, TypeOK, Operation, Keys
  <1>4. history' \in HistoryType
    BY HistoryKnown DEF Receipt
  <1>5. trigger' \in BOOLEAN
    <2>1. TriggerAfter \in BOOLEAN
      BY Zenon DEF TriggerAfter, TypeOK, CanDecide, Latched
    <2>. QED  BY <2>1 DEF Receipt
  <1>6. closure' \in Reasons \cup {"none"}
    BY DEF Receipt, ClosureAfter, TypeOK, Reasons
  <1>7. review' \in [context : Nat, epoch : Nat, attempt : 0..MaxAttempts, proposal : Proposals]
    <2>1. Promoted.context_version \in Nat /\ Promoted.control_epoch \in Nat
      BY <1>1, Fields
    <2>. QED  BY <2>1 DEF Receipt, TypeOK
  <1>8. clock' \in [aged : BOOLEAN, wake : BOOLEAN]
    BY DEF Receipt, TypeOK
  <1>9. counters' \in CountersType
    <2>1. 0 \in 0..MaxStaleDiscards
      BY BoundsAssumption
    <2>. QED  BY <2>1 DEF Receipt, TypeOK, CountersType
  <1>10. pc' \in Points
    BY DEF Receipt, TypeOK, Operation, Points
  <1>11. pending' \in Operation
    <2>1. Fresh \in Snapshot
      BY DEF Fresh, Snapshot, Statuses, NoDraft, Draft
    <2>2. Nothing \in Operation
      BY <2>1 DEF Nothing, Operation, Operations, Points
    <2>. QED  BY <2>2 DEF Receipt, TypeOK
  <1>. QED
    BY <1>2, <1>3, <1>4, <1>5, <1>6, <1>7, <1>8, <1>9, <1>10, <1>11
    DEF Receipt, TypeOK, signals, CountersType, HistoryType, Keys

(* Every step of the workflow keeps the types.                              *)
LEMMA WorkflowTypes ==
    ASSUME TypeOK, FlowKnown, Workflow
    PROVE  TypeOK'
  BY HandledTypes, AskedTypes, ReviewTypes, PassingTypes, ReceiptTypes DEF Workflow

---------------------------------------------------------------------------
(* The flow depends on nothing that arrives.                                *)
LEMMA FlowKept ==
    ASSUME FlowKnown, UNCHANGED <<pc, pending, snapshot, closure, counters>>
    PROVE  FlowKnown'
  BY DEF FlowKnown, HandledKnown, AskedKnown, DecideKnown, PlaceKnown, Handled, Asked, Asking,
         At, Waiting, Paused, WithDraft, Stale, Drafted

(* Where no transaction is under way, the flow is a matter of the place.    *)
LEMMA FlowAt ==
    ASSUME pc' \notin {"commit", "hold"}, pending' = Nothing, PlaceKnown',
           counters'.stale_discards < MaxStaleDiscards,
           pc' = "handover" => MaxRollovers > 0,
           pc' = "boot" /\ snapshot'.status # "starting" => MaxRollovers > 0
    PROVE  FlowKnown'
  BY DEF FlowKnown, Asking, At

(* Where nothing is recorded, a pass moves on.                              *)
LEMMA FlowMoved ==
    ASSUME FlowKnown, ~Asking, UNCHANGED <<pending, snapshot, counters>>,
           pc' \notin {"commit", "hold", "boot"}, PlaceKnown',
           pc' = "handover" => MaxRollovers > 0
    PROVE  FlowKnown'
  BY FlowAt DEF FlowKnown, Asking

(* Signals and time leave the flow as it is.                                *)
LEMMA ArrivalFlow ==
    ASSUME FlowKnown
    PROVE  /\ \A c \in Commands : Deliver(c) => FlowKnown'
           /\ Age => FlowKnown'
           /\ ReviewFallsDue => FlowKnown'
  BY FlowKept DEF Deliver, Age, ReviewFallsDue, memory, record

(* Steps that commit nothing keep the flow.                                 *)
LEMMA PassingFlow ==
    ASSUME TypeOK, FlowKnown
    PROVE  /\ ObserveAge => FlowKnown'
           /\ EndDrain => FlowKnown'
           /\ SkipReview => FlowKnown'
           /\ SkipRollOver => FlowKnown'
           /\ AbandonRollOver => FlowKnown'
           /\ ContinueAsNew => FlowKnown'
           /\ WakeUp => FlowKnown'
           /\ Return => FlowKnown'
           /\ EvidenceTooLarge => FlowKnown'
           /\ \A proposal \in Proposals : DecisionArrives(proposal) => FlowKnown'
  <1>. USE DEF Asking, At, PlaceKnown
  <1>1. ASSUME ObserveAge PROVE FlowKnown'
    BY <1>1, FlowMoved DEF ObserveAge, FlowKnown, record
  <1>2. ASSUME EndDrain PROVE FlowKnown'
    BY <1>2, FlowMoved DEF EndDrain, FlowKnown, record, Working
  <1>3. ASSUME SkipReview PROVE FlowKnown'
    BY <1>3, FlowMoved DEF SkipReview, Pass, FlowKnown, record, memory
  <1>4. ASSUME SkipRollOver PROVE FlowKnown'
    BY <1>4, FlowMoved DEF SkipRollOver, Pass, FlowKnown, record, memory
  <1>5. ASSUME AbandonRollOver PROVE FlowKnown'
    BY <1>5, FlowMoved DEF AbandonRollOver, FlowKnown, record
  <1>6. ASSUME ContinueAsNew PROVE FlowKnown'
    BY <1>6, FlowAt DEF ContinueAsNew, FlowKnown, record, Observed
  <1>7. ASSUME WakeUp PROVE FlowKnown'
    BY <1>7, FlowMoved DEF WakeUp, FlowKnown, record
  <1>8. ASSUME Return PROVE FlowKnown'
    BY <1>8, FlowMoved DEF Return, Pass, FlowKnown, record, memory
  <1>9. ASSUME EvidenceTooLarge PROVE FlowKnown'
    BY <1>9, FlowMoved DEF EvidenceTooLarge, GiveUpReview, FlowKnown, record, memory
  <1>10. ASSUME NEW proposal \in Proposals, DecisionArrives(proposal) PROVE FlowKnown'
    BY <1>10, FlowMoved DEF DecisionArrives, FlowKnown, record
  <1>. QED
    BY <1>1, <1>2, <1>3, <1>4, <1>5, <1>6, <1>7, <1>8, <1>9, <1>10

(* Where a transaction begins, the flow is what it was asked for.           *)
LEMMA FlowSent ==
    ASSUME pc' = "commit", pending'.op # "none", HandledKnown', AskedKnown', DecideKnown',
           PlaceKnown',
           pending'.op # "stale" => counters'.stale_discards < MaxStaleDiscards,
           pending'.next = "handover" => MaxRollovers > 0
    PROVE  FlowKnown'
  BY DEF FlowKnown, Asking, At

(* A command taken from the queue is its handler's.                         *)
LEMMA TakenHandled ==
    ASSUME TypeOK, NEW c \in Commands, NEW op, NEW candidate,
           NEW keys \in SUBSET Identities(c), Queued(c), Take(c, op, candidate, keys)
    PROVE  /\ Handled'
           /\ pc' = "commit" /\ pc \in Draining /\ closure = "none"
           /\ UNCHANGED <<snapshot, closure, counters>>
           /\ pending'.op = op /\ pending'.candidate = candidate /\ pending'.keys = keys
           /\ pending'.next = pc
  BY DEF Handled, Take, Queued, Commit, memory, record, Identities

(* Every handler of a queued command keeps the flow.                        *)
LEMMA HandledFlow ==
    ASSUME TypeOK, FlowKnown, NEW c \in Commands, Apply(c)
    PROVE  FlowKnown'
  <1>1. ASSUME NEW op \in HandledOperations \cup {"outdate"}, NEW candidate,
               NEW keys \in SUBSET Identities(c), Queued(c), Take(c, op, candidate, keys),
               op = "event" => candidate \in {snapshot, [snapshot EXCEPT !.context_version = @ + 1]},
               op = "instruction" => candidate = [snapshot EXCEPT !.context_version = @ + 1],
               op = "record" => candidate = snapshot,
               op = "pausing" => /\ candidate = [snapshot EXCEPT !.pending_control = TRUE]
                                 /\ keys = {} /\ snapshot.status # "paused",
               op = "pause" => candidate = Paused /\ snapshot.status # "paused",
               op = "resume" =>
                   /\ candidate = [snapshot EXCEPT !.status = "evaluating",
                                   !.pending_control = FALSE, !.control_epoch = @ + 1]
                   /\ snapshot.status \in {"paused", "awaiting_recovery"},
               op = "terminate" =>
                   candidate = [snapshot EXCEPT !.pending_control = FALSE, !.control_epoch = @ + 1],
               op = "approve" => candidate = WithDraft("approved")
                                 /\ snapshot.pending_review.status = "pending",
               op = "reject" => candidate = WithDraft("rejected"),
               op = "outdate" => candidate = WithDraft("outdated")
        PROVE  FlowKnown'
    <2>1. /\ Handled'
          /\ pc' = "commit" /\ pc \in Draining /\ closure = "none"
          /\ UNCHANGED <<snapshot, closure, counters>>
          /\ pending'.op = op /\ pending'.candidate = candidate /\ pending'.keys = keys
          /\ pending'.next = pc
      BY <1>1, TakenHandled
    <2>2. Paused' = Paused /\ \A status : WithDraft(status)' = WithDraft(status)
      BY <2>1 DEF Paused, WithDraft
    <2>3. HandledKnown'
      BY <1>1, <2>1, <2>2 DEF HandledKnown, Waiting, HandledOperations, Paused, WithDraft
    <2>4. AskedKnown'
      BY <1>1, <2>1, <2>2 DEF AskedKnown, HandledOperations, WithDraft
    <2>5. DecideKnown'
      BY <1>1, <2>1 DEF DecideKnown, HandledOperations
    <2>6. PlaceKnown'
      BY <1>1, <2>1 DEF PlaceKnown, FlowKnown, At, Asking, Draining
    <2>7. counters.stale_discards < MaxStaleDiscards /\ (pc = "handover" => MaxRollovers > 0)
      BY <2>1 DEF FlowKnown, At, Asking, Draining
    <2>. QED
      BY <1>1, <2>1, <2>3, <2>4, <2>5, <2>6, <2>7, FlowSent DEF HandledOperations
  <1>2. {} \in SUBSET Identities(c) /\ Identities(c) \in SUBSET Identities(c)
    OBVIOUS
  <1>3. ASSUME RecordOnly(c), Queued(c) PROVE FlowKnown'
    BY <1>1, <1>2, <1>3 DEF RecordOnly, HandledOperations
  <1>4. ASSUME ApplyEvent(c) PROVE FlowKnown'
    <2>. DEFINE candidate == [snapshot EXCEPT !.context_version =
                                  IF c.kind = "routine" THEN @ ELSE @ + 1]
    <2>1. candidate \in {snapshot, [snapshot EXCEPT !.context_version = @ + 1]}
      BY DEF TypeOK, Snapshot
    <2>2. Queued(c) /\ Take(c, "event", candidate, Identities(c))
      BY <1>4 DEF ApplyEvent
    <2>. HIDE DEF candidate
    <2>. QED
      BY <1>1, <1>2, <2>1, <2>2 DEF HandledOperations
  <1>5. ASSUME ApplyInstruction(c) PROVE FlowKnown'
    BY <1>1, <1>2, <1>3, <1>5 DEF ApplyInstruction, HandledOperations
  <1>6. ASSUME ApplyHold(c) PROVE FlowKnown'
    BY <1>1, <1>2, <1>3, <1>6 DEF ApplyHold, HandledOperations
  <1>7. ASSUME ApplyResume(c) PROVE FlowKnown'
    BY <1>1, <1>2, <1>3, <1>7 DEF ApplyResume, HandledOperations
  <1>8. ASSUME ApplyTerminate(c) PROVE FlowKnown'
    BY <1>1, <1>2, <1>8 DEF ApplyTerminate, HandledOperations
  <1>9. ASSUME ApplyReview(c) PROVE FlowKnown'
    BY <1>1, <1>2, <1>9 DEF ApplyReview, HandledOperations
  <1>. QED
    BY <1>4, <1>5, <1>6, <1>7, <1>8, <1>9 DEF Apply

(* What the loop sends on its own.                                          *)
LEMMA AskedFlow ==
    ASSUME TypeOK, FlowKnown
    PROVE  /\ Initialize => FlowKnown'
           /\ Restore => FlowKnown'
           /\ FinishHold => FlowKnown'
           /\ SettleDraft => FlowKnown'
           /\ BeginReview => FlowKnown'
           /\ EnterRecovery => FlowKnown'
           /\ SettleMemory => FlowKnown'
           /\ SettleWaitingState => FlowKnown'
           /\ PrepareRollOver => FlowKnown'
           /\ Finalize => FlowKnown'
           /\ Close => FlowKnown'
           /\ DisposeLate => FlowKnown'
  <1>. USE DEF Asking, At, HandledOperations, Working
  <1>1. ASSUME Initialize PROVE FlowKnown'
    <2>1. /\ pc = "boot" /\ snapshot.status = "starting"
          /\ pc' = "commit" /\ pending'.op = "start" /\ pending'.next = "loop"
          /\ pending'.candidate = [snapshot EXCEPT !.status = "evaluating"]
          /\ pending'.keys = {CreationEvent} /\ pending'.answers = <<>>
          /\ UNCHANGED <<snapshot, closure, counters>>
      BY <1>1 DEF Initialize, Record, Commit, record, memory
    <2>2. closure = "none" /\ counters.stale_discards < MaxStaleDiscards
      BY <2>1 DEF FlowKnown, PlaceKnown
    <2>3. HandledKnown' /\ DecideKnown'
      BY <2>1 DEF HandledKnown, DecideKnown
    <2>4. AskedKnown'
      BY <2>1, <2>2 DEF AskedKnown, Asked
    <2>5. PlaceKnown'
      BY <2>1, <2>2 DEF PlaceKnown
    <2>. QED  BY <2>1, <2>2, <2>3, <2>4, <2>5, FlowSent
  <1>2. ASSUME Restore PROVE FlowKnown'
    <2>1. /\ pc = "boot" /\ snapshot.status # "starting"
          /\ pc' = "commit" /\ pending'.op = "generation" /\ pending'.next = "loop"
          /\ pending'.candidate =
                 [snapshot EXCEPT !.execution_generation = snapshot.execution_generation + 1]
          /\ pending'.keys = {<<"generation", snapshot.execution_generation + 1>>}
          /\ pending'.answers = <<>>
          /\ UNCHANGED <<snapshot, closure, counters>>
      BY <1>2 DEF Restore, Commit, record, memory
    <2>2. closure = "none" /\ counters.stale_discards < MaxStaleDiscards
          /\ snapshot.status \in Working
      BY <2>1 DEF FlowKnown, PlaceKnown
    <2>3. HandledKnown' /\ DecideKnown'
      BY <2>1 DEF HandledKnown, DecideKnown
    <2>4. AskedKnown'
      BY <2>1, <2>2 DEF AskedKnown, Asked
    <2>5. PlaceKnown'
      BY <2>1, <2>2 DEF PlaceKnown
    <2>. QED  BY <2>1, <2>2, <2>3, <2>4, <2>5, FlowSent
  <1>3. ASSUME FinishHold PROVE FlowKnown'
    <2>1. pc = "hold" /\ pending.op = "pausing" /\ Handled /\ snapshot.status # "paused"
      BY <1>3 DEF FinishHold, FlowKnown, HandledKnown
    <2>2. /\ pc' = "commit" /\ pending'.op = "pause" /\ pending'.next = pending.next
          /\ pending'.candidate = Paused /\ pending'.answers = pending.answers
          /\ pending'.keys = Identities(pending.answers[1])
          /\ UNCHANGED <<snapshot, closure, counters>>
      BY <1>3 DEF FinishHold, Commit, record, memory
    <2>3. Handled' /\ Paused' = Paused
      BY <2>1, <2>2 DEF Handled, Paused, Identities
    <2>4. HandledKnown' /\ AskedKnown' /\ DecideKnown'
      BY <2>1, <2>2, <2>3 DEF HandledKnown, AskedKnown, DecideKnown
    <2>5. PlaceKnown'
      BY <2>1, <2>2 DEF PlaceKnown, FlowKnown
    <2>. QED  BY <2>1, <2>2, <2>4, <2>5, FlowSent DEF FlowKnown
  <1>4. ASSUME SettleDraft PROVE FlowKnown'
    <2>1. pc = "draft" /\ closure = "none" /\ snapshot.status \in Working
          /\ counters.stale_discards < MaxStaleDiscards
      BY <1>4 DEF SettleDraft, FlowKnown, PlaceKnown
    <2>2. CASE LiveDraft(Waiting) /\ Stale(Waiting)
      <3>1. /\ pc' = "commit" /\ pending'.op = "outdate" /\ pending'.next = "gate"
            /\ pending'.candidate = WithDraft("outdated") /\ pending'.answers = <<>>
            /\ pending'.keys = {} /\ UNCHANGED <<snapshot, closure, counters>>
        BY <1>4, <2>2 DEF SettleDraft, Record, Commit, record, memory, Waiting
      <3>2. HandledKnown' /\ AskedKnown' /\ DecideKnown'
        BY <2>1, <3>1 DEF HandledKnown, AskedKnown, DecideKnown, Asked, WithDraft
      <3>3. PlaceKnown'
        BY <2>1, <3>1 DEF PlaceKnown
      <3>. QED  BY <2>1, <3>1, <3>2, <3>3, FlowSent
    <2>3. CASE /\ ~(LiveDraft(Waiting) /\ Stale(Waiting))
               /\ LiveDraft(Waiting) /\ Waiting.status = "approved" /\ CanAct
      <3>1. /\ pc' = "commit" /\ pending'.op = "send" /\ pending'.next = "gate"
            /\ pending'.candidate =
                  [snapshot EXCEPT !.pending_review = NoDraft, !.context_version = @ + 1]
            /\ pending'.answers = <<>>
            /\ pending'.keys = {<<"action", Waiting.decision>>}
            /\ UNCHANGED <<snapshot, closure, counters>>
        BY <1>4, <2>3 DEF SettleDraft, Record, Commit, record, memory, Waiting
      <3>2. snapshot.status \in {"evaluating", "sleeping"}
        BY <2>1, <2>3 DEF CanAct, CanDecide
      <3>3. HandledKnown' /\ DecideKnown'
        BY <3>1 DEF HandledKnown, DecideKnown
      <3>4. AskedKnown'
        BY <2>1, <2>3, <3>1, <3>2 DEF AskedKnown, Asked, Waiting, Stale
      <3>5. PlaceKnown'
        BY <2>1, <3>1 DEF PlaceKnown
      <3>. QED  BY <2>1, <3>1, <3>3, <3>4, <3>5, FlowSent
    <2>4. CASE /\ ~(LiveDraft(Waiting) /\ Stale(Waiting))
               /\ ~(LiveDraft(Waiting) /\ Waiting.status = "approved" /\ CanAct)
      <3>1. pc' = "gate" /\ UNCHANGED <<pending, snapshot, closure, counters>>
        BY <1>4, <2>4 DEF SettleDraft, record, memory, Waiting
      <3>2. PlaceKnown'
        BY <2>1, <3>1 DEF PlaceKnown
      <3>. QED  BY <2>1, <3>1, <3>2, FlowMoved
    <2>. QED  BY <2>2, <2>3, <2>4
  <1>5. ASSUME BeginReview PROVE FlowKnown'
    <2>1. pc = "gate" /\ closure = "none" /\ snapshot.status \in {"evaluating", "sleeping"}
          /\ counters.stale_discards < MaxStaleDiscards
      BY <1>5 DEF BeginReview, FlowKnown, PlaceKnown, CanDecide
    <2>2. /\ pc' = "commit" /\ pending'.op = "evaluate" /\ pending'.next = "evidence"
          /\ pending'.candidate = [snapshot EXCEPT !.status = "evaluating"]
          /\ pending'.keys = {} /\ pending'.answers = <<>>
          /\ UNCHANGED <<snapshot, closure>>
          /\ counters'.stale_discards = counters.stale_discards
      BY <1>5 DEF BeginReview, Commit, record, TypeOK
    <2>3. HandledKnown' /\ AskedKnown' /\ DecideKnown'
      BY <2>1, <2>2 DEF HandledKnown, AskedKnown, DecideKnown, Asked
    <2>4. PlaceKnown'
      BY <2>1, <2>2 DEF PlaceKnown
    <2>. QED  BY <2>1, <2>2, <2>3, <2>4, FlowSent
  <1>6. ASSUME EnterRecovery PROVE FlowKnown'
    <2>1. pc = "recover" /\ closure = "none" /\ snapshot.status = "evaluating"
          /\ counters.stale_discards < MaxStaleDiscards
      BY <1>6 DEF EnterRecovery, FlowKnown, PlaceKnown
    <2>2. /\ pc' = "commit" /\ pending'.op = "recover" /\ pending'.next = "loop"
          /\ pending'.candidate = [snapshot EXCEPT !.status = "awaiting_recovery"]
          /\ pending'.keys = {} /\ pending'.answers = <<>>
          /\ UNCHANGED <<snapshot, closure, counters>>
      BY <1>6 DEF EnterRecovery, Record, Commit, record, memory
    <2>3. HandledKnown' /\ AskedKnown' /\ DecideKnown'
      BY <2>1, <2>2 DEF HandledKnown, AskedKnown, DecideKnown, Asked
    <2>4. PlaceKnown'
      BY <2>1, <2>2 DEF PlaceKnown
    <2>. QED  BY <2>1, <2>2, <2>3, <2>4, FlowSent
  <1>7. ASSUME SettleMemory PROVE FlowKnown'
    <2>1. pc = "memory" /\ closure = "none" /\ snapshot.status \in Working
          /\ counters.stale_discards < MaxStaleDiscards
      BY <1>7 DEF SettleMemory, Pass, FlowKnown, PlaceKnown
    <2>2. CASE Record("memory", snapshot, {}, "settle")
      <3>1. /\ pc' = "commit" /\ pending'.op = "memory" /\ pending'.next = "settle"
            /\ pending'.candidate = snapshot /\ pending'.keys = {} /\ pending'.answers = <<>>
            /\ UNCHANGED <<snapshot, closure, counters>>
        BY <2>2 DEF Record, Commit, record, memory
      <3>2. HandledKnown' /\ AskedKnown' /\ DecideKnown'
        BY <2>1, <3>1 DEF HandledKnown, AskedKnown, DecideKnown, Asked
      <3>3. PlaceKnown'
        BY <2>1, <3>1 DEF PlaceKnown
      <3>. QED  BY <2>1, <3>1, <3>2, <3>3, FlowSent
    <2>3. CASE Pass("memory", "settle")
      <3>1. PlaceKnown'
        BY <2>1, <2>3 DEF Pass, PlaceKnown, memory, record
      <3>. QED  BY <2>1, <2>3, <3>1, FlowMoved DEF Pass, memory, record
    <2>. QED  BY <1>7, <2>2, <2>3 DEF SettleMemory
  <1>8. ASSUME SettleWaitingState PROVE FlowKnown'
    <2>1. pc = "settle" /\ closure = "none" /\ snapshot.status \in Working
          /\ counters.stale_discards < MaxStaleDiscards
      BY <1>8 DEF SettleWaitingState, Pass, FlowKnown, PlaceKnown
    <2>2. CASE snapshot.status = "evaluating"
      <3>1. /\ pc' = "commit" /\ pending'.op = "sleep" /\ pending'.next = "roll"
            /\ pending'.candidate = [snapshot EXCEPT !.status = "sleeping"]
            /\ pending'.keys = {} /\ pending'.answers = <<>>
            /\ UNCHANGED <<snapshot, closure, counters>>
        BY <1>8, <2>2 DEF SettleWaitingState, Record, Commit, record, memory
      <3>2. HandledKnown' /\ AskedKnown' /\ DecideKnown'
        BY <2>1, <2>2, <3>1 DEF HandledKnown, AskedKnown, DecideKnown, Asked
      <3>3. PlaceKnown'
        BY <2>1, <3>1 DEF PlaceKnown
      <3>. QED  BY <2>1, <3>1, <3>2, <3>3, FlowSent
    <2>3. CASE snapshot.status # "evaluating"
      <3>1. pc' = "roll" /\ UNCHANGED <<pending, snapshot, closure, counters>>
        BY <1>8, <2>3 DEF SettleWaitingState, Pass, memory, record
      <3>2. PlaceKnown'
        BY <2>1, <3>1 DEF PlaceKnown
      <3>. QED  BY <2>1, <3>1, <3>2, FlowMoved
    <2>. QED  BY <2>2, <2>3
  <1>9. ASSUME PrepareRollOver PROVE FlowKnown'
    <2>1. pc = "roll" /\ closure = "none" /\ snapshot.status \in Working
          /\ counters.stale_discards < MaxStaleDiscards
          /\ snapshot.execution_generation < MaxRollovers
      BY <1>9 DEF PrepareRollOver, FlowKnown, PlaceKnown
    <2>2. /\ pc' = "commit" /\ pending'.op = "prepare" /\ pending'.next = "handover"
          /\ pending'.candidate = snapshot /\ pending'.keys = {} /\ pending'.answers = <<>>
          /\ UNCHANGED <<snapshot, closure, counters>>
      BY <1>9 DEF PrepareRollOver, Record, Commit, record, memory
    <2>3. HandledKnown' /\ AskedKnown' /\ DecideKnown'
      BY <2>1, <2>2 DEF HandledKnown, AskedKnown, DecideKnown, Asked
    <2>4. PlaceKnown'
      BY <2>1, <2>2 DEF PlaceKnown
    <2>5. MaxRollovers > 0
      <3>1. snapshot.execution_generation \in Nat
        BY Fields DEF TypeOK
      <3>2. MaxRollovers \in Nat
        BY BoundsAssumption
      <3>. QED  BY <2>1, <3>1, <3>2
    <2>. QED  BY <2>1, <2>2, <2>3, <2>4, <2>5, FlowSent
  <1>10. ASSUME Finalize PROVE FlowKnown'
    <2>1. pc = "finalize" /\ closure # "none" /\ snapshot.status \in Working
          /\ counters.stale_discards < MaxStaleDiscards
      BY <1>10 DEF Finalize, FlowKnown, PlaceKnown
    <2>2. /\ pc' = "commit" /\ pending'.op = "finalize" /\ pending'.next = "report"
          /\ pending'.candidate = [snapshot EXCEPT !.status = "finalizing",
                                     !.pending_control = FALSE, !.pending_review = NoDraft]
          /\ pending'.keys = {} /\ pending'.answers = <<>>
          /\ UNCHANGED <<snapshot, closure, counters>>
      BY <1>10 DEF Finalize, Record, Commit, record, memory
    <2>3. HandledKnown' /\ AskedKnown' /\ DecideKnown'
      BY <2>1, <2>2 DEF HandledKnown, AskedKnown, DecideKnown, Asked
    <2>4. PlaceKnown'
      BY <2>1, <2>2 DEF PlaceKnown
    <2>. QED  BY <2>1, <2>2, <2>3, <2>4, FlowSent
  <1>11. ASSUME Close PROVE FlowKnown'
    <2>1. pc = "report" /\ closure # "none" /\ snapshot.status = "finalizing"
          /\ counters.stale_discards < MaxStaleDiscards
      BY <1>11 DEF Close, FlowKnown, PlaceKnown
    <2>2. /\ pc' = "commit" /\ pending'.op = "close" /\ pending'.next = "late"
          /\ pending'.candidate = [snapshot EXCEPT !.status = CLOSED_STATUS[closure]]
          /\ pending'.keys = {} /\ pending'.answers = <<>>
          /\ UNCHANGED <<snapshot, closure, counters>>
      BY <1>11 DEF Close, Record, Commit, record, memory
    <2>3. HandledKnown' /\ AskedKnown' /\ DecideKnown'
      BY <2>1, <2>2 DEF HandledKnown, AskedKnown, DecideKnown, Asked
    <2>4. PlaceKnown'
      BY <2>1, <2>2 DEF PlaceKnown
    <2>. QED  BY <2>1, <2>2, <2>3, <2>4, FlowSent
  <1>12. ASSUME DisposeLate PROVE FlowKnown'
    <2>1. pc = "late" /\ closure # "none" /\ snapshot.status # "starting"
          /\ counters.stale_discards < MaxStaleDiscards
      BY <1>12 DEF DisposeLate, FlowKnown, PlaceKnown
    <2>2. /\ pc' = "commit" /\ pending'.op = "late" /\ pending'.next = "late"
          /\ pending'.candidate = snapshot /\ pending'.keys = {}
          /\ UNCHANGED <<snapshot, closure>>
          /\ counters'.stale_discards = counters.stale_discards
      BY <1>12 DEF DisposeLate, Commit, record, TypeOK
    <2>3. HandledKnown' /\ AskedKnown' /\ DecideKnown'
      BY <2>1, <2>2 DEF HandledKnown, AskedKnown, DecideKnown, Asked
    <2>4. PlaceKnown'
      BY <2>1, <2>2 DEF PlaceKnown
    <2>. QED  BY <2>1, <2>2, <2>3, <2>4, FlowSent
  <1>. QED
    BY <1>1, <1>2, <1>3, <1>4, <1>5, <1>6, <1>7, <1>8, <1>9, <1>10, <1>11, <1>12

(* A review that is let go of, given up, or settled on a decision.          *)
LEMMA ReviewFlow ==
    ASSUME TypeOK, FlowKnown
    PROVE  /\ EvidenceArrives => FlowKnown'
           /\ DecisionFails => FlowKnown'
           /\ AbandonReview => FlowKnown'
           /\ RefuseDecision => FlowKnown'
           /\ DiscardStale => FlowKnown'
           /\ RecordDecision => FlowKnown'
  <1>. USE DEF Asking, At, HandledOperations, Working
  <1>1. ASSUME pc \in {"evidence", "thinking"}, Discard PROVE FlowKnown'
    <2>1. closure = "none" /\ snapshot.status = "evaluating"
          /\ counters.stale_discards < MaxStaleDiscards
      BY <1>1 DEF FlowKnown, PlaceKnown
    <2>2. /\ pc' = "commit" /\ pending'.op = "discard" /\ pending'.next = "loop"
          /\ pending'.candidate = snapshot /\ pending'.keys = {} /\ pending'.answers = <<>>
          /\ UNCHANGED <<snapshot, closure, counters>>
      BY <1>1 DEF Discard, Record, Commit, record, memory
    <2>3. HandledKnown' /\ AskedKnown' /\ DecideKnown'
      BY <2>1, <2>2 DEF HandledKnown, AskedKnown, DecideKnown, Asked
    <2>4. PlaceKnown'
      BY <2>1, <2>2 DEF PlaceKnown
    <2>. QED  BY <2>1, <2>2, <2>3, <2>4, FlowSent
  <1>2. ASSUME pc \in {"evidence", "thinking"}, NEW n, Attempt(n) PROVE FlowKnown'
    <2>1. CASE Interrupted
      BY <1>1, <1>2, <2>1 DEF Attempt
    <2>2. CASE ~Interrupted
      <3>1. PlaceKnown'
        BY <1>2, <2>2 DEF Attempt, FlowKnown, PlaceKnown, record
      <3>. QED  BY <1>2, <2>2, <3>1, FlowMoved DEF Attempt, record
    <2>. QED  BY <2>1, <2>2
  <1>3. ASSUME EvidenceArrives PROVE FlowKnown'
    BY <1>2, <1>3 DEF EvidenceArrives
  <1>4. ASSUME DecisionFails PROVE FlowKnown'
    <2>1. CASE GiveUpReview
      <3>1. PlaceKnown'
        BY <1>4, <2>1 DEF DecisionFails, GiveUpReview, FlowKnown, PlaceKnown, record, memory
      <3>. QED
        BY <1>4, <2>1, <3>1, FlowMoved DEF DecisionFails, GiveUpReview, record, memory
    <2>. QED  BY <1>2, <1>4, <2>1 DEF DecisionFails
  <1>5. ASSUME AbandonReview PROVE FlowKnown'
    BY <1>1, <1>5 DEF AbandonReview
  <1>6. ASSUME pc = "judge" PROVE snapshot.status \in {"evaluating", "paused"}
    BY <1>6 DEF FlowKnown, PlaceKnown
  <1>7. ASSUME RefuseDecision PROVE FlowKnown'
    <2>1. /\ pc' = "commit" /\ pending'.op = "discard" /\ pending'.next = "loop"
          /\ pending'.candidate = snapshot /\ pending'.keys = {} /\ pending'.answers = <<>>
          /\ UNCHANGED <<snapshot, closure>>
          /\ counters'.stale_discards = 0
      BY <1>7 DEF RefuseDecision, Commit, record, TypeOK
    <2>2. HandledKnown' /\ AskedKnown' /\ DecideKnown'
      BY <2>1 DEF HandledKnown, AskedKnown, DecideKnown, Asked
    <2>3. PlaceKnown'
      BY <1>6, <1>7, <2>1 DEF PlaceKnown, RefuseDecision
    <2>4. 0 < MaxStaleDiscards
      BY BoundsAssumption
    <2>. QED  BY <2>1, <2>2, <2>3, <2>4, FlowSent
  <1>8. ASSUME pc = "judge", ~Unauthorized
        PROVE  snapshot.status = "evaluating" /\ closure = "none"
    BY <1>6, <1>8 DEF Unauthorized, CanAct, CanDecide
  <1>9. ASSUME DiscardStale PROVE FlowKnown'
    <2>1. /\ pc' = "commit" /\ pending'.op = "stale" /\ pending'.next = "loop"
          /\ pending'.candidate = snapshot /\ pending'.keys = {} /\ pending'.answers = <<>>
          /\ UNCHANGED <<snapshot, closure>>
      BY <1>9 DEF DiscardStale, Commit, record
    <2>2. snapshot.status = "evaluating" /\ closure = "none"
      BY <1>8, <1>9 DEF DiscardStale
    <2>3. HandledKnown' /\ AskedKnown' /\ DecideKnown'
      BY <2>1, <2>2 DEF HandledKnown, AskedKnown, DecideKnown, Asked
    <2>4. PlaceKnown'
      BY <2>1, <2>2 DEF PlaceKnown
    <2>. QED  BY <2>1, <2>3, <2>4, FlowSent
  <1>10. ASSUME RecordDecision PROVE FlowKnown'
    <2>. DEFINE drafts == review.proposal = "draft" /\ ~LiveDraft(snapshot.pending_review)
                acts == review.proposal = "act"
                context == snapshot.context_version + (IF drafts \/ acts THEN 1 ELSE 0)
                number == counters.drafts + 1
                draft == IF drafts
                         THEN [number |-> number, decision |-> counters.decisions,
                               context |-> context, status |-> "pending"]
                         ELSE snapshot.pending_review
                keys == IF acts THEN {<<"action", counters.decisions>>} ELSE {}
                candidate == [snapshot EXCEPT !.status = "sleeping",
                                  !.context_version = context, !.pending_review = draft]
    <2>1. snapshot.status = "evaluating" /\ closure = "none"
      BY <1>8, <1>10 DEF RecordDecision
    <2>2. /\ pc' = "commit" /\ pending'.op = "decide" /\ pending'.next = "loop"
          /\ pending'.candidate = candidate /\ pending'.keys = keys /\ pending'.answers = <<>>
          /\ UNCHANGED <<snapshot, closure>>
          /\ counters' = [counters EXCEPT !.stale_discards = 0,
                                          !.drafts = IF drafts THEN number ELSE @]
      BY <1>10 DEF RecordDecision, Commit, record
    <2>3. /\ counters'.decisions = counters.decisions
          /\ counters'.stale_discards = 0
          /\ drafts => counters'.drafts = number
      BY <2>2 DEF TypeOK
    <2>4. candidate.context_version = context
      BY DEF TypeOK, Snapshot
    <2>5. draft \in {Waiting', Drafted'}
      BY <2>2, <2>3, <2>4 DEF Drafted, Waiting
    <2>6. DecideKnown'
      <3>. HIDE DEF context, draft
      <3>1. pending'.candidate = [snapshot' EXCEPT !.status = "sleeping",
                    !.context_version = pending'.candidate.context_version,
                    !.pending_review = draft]
        BY <2>2, <2>4
      <3>2. pending'.candidate.pending_review = draft
        BY <2>2 DEF TypeOK, Snapshot
      <3>3. draft # Waiting' => keys = {}
        BY <2>2 DEF draft, Waiting
      <3>. QED  BY <2>1, <2>2, <2>3, <2>5, <3>1, <3>2, <3>3 DEF DecideKnown, Asked
    <2>7. HandledKnown' /\ AskedKnown'
      BY <2>2 DEF HandledKnown, AskedKnown
    <2>8. PlaceKnown'
      BY <2>1, <2>2 DEF PlaceKnown
    <2>9. 0 < MaxStaleDiscards
      BY BoundsAssumption
    <2>. QED  BY <2>2, <2>3, <2>6, <2>7, <2>8, <2>9, FlowSent
  <1>. QED
    BY <1>3, <1>4, <1>5, <1>7, <1>9, <1>10

(* Where the workflow goes on after a receipt.                              *)
LEMMA ReceiptFlow ==
    ASSUME TypeOK, FlowKnown, Receipt, snapshot.status = "starting" => claimed = {}
    PROVE  FlowKnown'
  <1>. USE DEF Asking, At, HandledOperations, Working
  <1>1. pc = "commit" /\ pending.op # "none" /\ pending.op \in Operations
    BY DEF Receipt, FlowKnown, TypeOK, Operation
  <1>2. /\ snapshot' = Promoted
        /\ closure' = ClosureAfter
        /\ counters' = IF ExhaustedByStaleness
                       THEN [counters EXCEPT !.stale_discards = 0] ELSE counters
        /\ closure # "none" => closure' = closure
    BY DEF Receipt, ClosureAfter
  <1>3. pending.keys = {} => Applied
    BY DEF Applied
  <1>4. CASE pending.op = "pausing"
    <2>1. /\ pc' = "hold" /\ pending' = pending /\ Handled /\ pending.keys = {}
          /\ pending.candidate = [snapshot EXCEPT !.pending_control = TRUE]
          /\ snapshot.status # "paused" /\ closure = "none"
      <3>1. HandledKnown
        BY <1>1 DEF FlowKnown
      <3>2. pc' = "hold" /\ pending' = pending
        BY <1>4 DEF Receipt, ExhaustedByStaleness
      <3>. QED  BY <1>1, <1>4, <3>1, <3>2 DEF HandledKnown, Handled
    <2>2. snapshot' = [snapshot EXCEPT !.pending_control = TRUE]
      BY <1>2, <1>3, <2>1 DEF Promoted
    <2>3. closure' = "none" /\ counters' = counters
      BY <1>2, <1>4, <2>1 DEF ClosureAfter, ExhaustedByStaleness
    <2>4. snapshot'.status = snapshot.status
      BY <2>2 DEF TypeOK, Snapshot
    <2>5. Handled'
      BY <2>1, <2>3 DEF Handled, Identities
    <2>6. HandledKnown' /\ AskedKnown' /\ DecideKnown'
      BY <1>4, <2>1, <2>4, <2>5 DEF HandledKnown, AskedKnown, DecideKnown
    <2>7. PlaceKnown'
      BY <1>1, <1>4, <2>1, <2>3, <2>4 DEF PlaceKnown, FlowKnown
    <2>. QED  BY <1>1, <1>4, <2>1, <2>3, <2>6, <2>7 DEF FlowKnown
  <1>5. CASE pending.op # "pausing"
    <2>1. pending' = Nothing /\ pc' = IF ExhaustedByStaleness THEN "recover" ELSE pending.next
      BY <1>5 DEF Receipt
    <2>2. counters'.stale_discards < MaxStaleDiscards
      <3>1. CASE ExhaustedByStaleness
        <4>1. counters'.stale_discards = 0
          BY <1>2, <3>1 DEF TypeOK
        <4>. QED  BY <4>1, BoundsAssumption
      <3>2. CASE ~ExhaustedByStaleness
        <4>1. \/ counters' = counters \/ counters'.stale_discards = 0
          BY <1>2
        <4>2. counters.stale_discards < MaxStaleDiscards \/ pending.op = "stale"
          BY <1>1 DEF FlowKnown
        <4>3. pending.op = "stale" => counters.stale_discards < MaxStaleDiscards
          BY <3>2, Numbers, BoundsAssumption DEF ExhaustedByStaleness
        <4>. QED  BY <4>1, <4>2, <4>3, BoundsAssumption
      <3>. QED  BY <3>1, <3>2
    <2>3. ASSUME ~ExhaustedByStaleness, PlaceKnown', pending.next \notin {"commit", "hold", "boot"}
          PROVE  FlowKnown'
      BY <1>1, <2>1, <2>2, <2>3, FlowAt DEF FlowKnown
    <2>4. CASE pending.op \in HandledOperations \cup {"outdate"} /\ Handled
      <3>1. pc' = pending.next /\ pending.next \in Draining /\ ~ExhaustedByStaleness
        BY <2>1, <2>4 DEF Handled, ExhaustedByStaleness
      <3>2. snapshot.status \in Working
            /\ (pending.next = "redrain" => snapshot.status \in {"evaluating", "paused"})
        BY <1>1, <2>4, <3>1 DEF FlowKnown, PlaceKnown
      <3>3. snapshot'.status \in {snapshot.status, "evaluating", "paused"}
        <4>1. pending.op = "outdate" => pending.candidate = WithDraft("outdated")
          BY <1>1 DEF FlowKnown, AskedKnown
        <4>2. pending.candidate.status \in {snapshot.status, "evaluating", "paused"}
          <5>1. snapshot \in Snapshot /\ HandledKnown
            BY <1>1 DEF FlowKnown, TypeOK
          <5>2. \A t \in {"outdated", "approved", "rejected"} :
                    WithDraft(t).status = snapshot.status
            BY <5>1 DEF WithDraft, Snapshot
          <5>. QED
            BY <1>5, <2>4, <4>1, <5>1, <5>2 DEF HandledKnown, Snapshot, Paused
        <4>. QED  BY <1>2, <4>2 DEF Promoted
      <3>4. PlaceKnown'
        BY <3>1, <3>2, <3>3, <2>1 DEF PlaceKnown, Draining
      <3>. QED  BY <2>3, <3>1, <3>4 DEF Draining
    <2>5. CASE pending.op \notin HandledOperations /\ ~(pending.op = "outdate" /\ Handled)
      <3>1. pending.op \in {"start", "generation", "outdate", "send", "evaluate", "discard",
                            "stale", "recover", "decide", "memory", "sleep", "prepare",
                            "finalize", "close", "late"}
        BY <1>1, <2>5 DEF Operations
      <3>2. AskedKnown /\ DecideKnown /\ PlaceKnown
        BY <1>1 DEF FlowKnown
      <3>3. closure' = closure
        BY <1>2, <3>1 DEF ClosureAfter
      <3>4. CASE pending.op = "start"
        <4>1. pending.keys = {CreationEvent} /\ claimed = {} /\ pending.next = "loop"
              /\ pending.candidate = [snapshot EXCEPT !.status = "evaluating"]
              /\ closure = "none"
          BY <3>2, <3>4 DEF AskedKnown, Asked
        <4>2. snapshot'.status = "evaluating"
          BY <1>2, <4>1 DEF Promoted, Applied, TypeOK, Snapshot
        <4>3. ~ExhaustedByStaleness
          BY <3>4 DEF ExhaustedByStaleness
        <4>4. PlaceKnown'
          BY <2>1, <3>3, <4>1, <4>2, <4>3 DEF PlaceKnown
        <4>. QED  BY <2>3, <4>1, <4>3, <4>4
      <3>5. CASE pending.op = "generation"
        <4>1. pending.next = "loop" /\ snapshot.status \in Working
              /\ pending.candidate.status = snapshot.status
          BY <1>1, <3>2, <3>5 DEF AskedKnown, Asked, PlaceKnown, TypeOK, Snapshot
        <4>2. ~ExhaustedByStaleness /\ snapshot'.status \in Working
          BY <1>2, <3>5, <4>1 DEF ExhaustedByStaleness, Promoted
        <4>4. PlaceKnown'
          BY <2>1, <4>1, <4>2 DEF PlaceKnown
        <4>. QED  BY <2>3, <4>1, <4>2, <4>4
      <3>6. CASE pending.op \in {"outdate", "send"}
        <4>1. pending.next = "gate" /\ closure = "none" /\ snapshot.status \in Working
              /\ pending.candidate.status = snapshot.status
          BY <1>1, <2>5, <3>2, <3>6
          DEF AskedKnown, Asked, PlaceKnown, TypeOK, Snapshot, WithDraft
        <4>2. ~ExhaustedByStaleness /\ snapshot'.status \in Working
          BY <1>2, <3>6, <4>1 DEF ExhaustedByStaleness, Promoted
        <4>4. PlaceKnown'
          BY <2>1, <3>3, <4>1, <4>2 DEF PlaceKnown
        <4>. QED  BY <2>3, <4>1, <4>2, <4>4
      <3>7. CASE pending.op \in {"discard", "memory", "prepare"}
        <4>1. pending.next \in {"loop", "settle", "handover"} /\ snapshot.status \in Working
              /\ pending.candidate = snapshot
              /\ (pending.next = "settle" => closure = "none")
          BY <1>1, <3>2, <3>7 DEF AskedKnown, Asked, PlaceKnown
        <4>2. ~ExhaustedByStaleness /\ snapshot' = snapshot
          BY <1>2, <3>7, <4>1 DEF ExhaustedByStaleness, Promoted
        <4>4. PlaceKnown'
          BY <2>1, <3>3, <4>1, <4>2 DEF PlaceKnown
        <4>. QED  BY <2>3, <4>1, <4>2, <4>4
      <3>8. CASE pending.op \in {"evaluate", "recover", "sleep", "decide"}
        <4>1. /\ closure = "none" /\ snapshot.status \in Working
              /\ pending.next = IF pending.op = "evaluate" THEN "evidence"
                                ELSE IF pending.op = "sleep" THEN "roll" ELSE "loop"
              /\ pending.candidate.status =
                     IF pending.op = "evaluate" THEN "evaluating"
                     ELSE IF pending.op = "recover" THEN "awaiting_recovery" ELSE "sleeping"
              /\ pending.op # "decide" => pending.keys = {}
          BY <1>1, <3>2, <3>8 DEF AskedKnown, DecideKnown, Asked, PlaceKnown, TypeOK, Snapshot
        <4>2. ~ExhaustedByStaleness /\ snapshot'.status \in Working
              /\ (pending.op = "evaluate" => snapshot'.status = "evaluating")
          BY <1>2, <1>3, <3>8, <4>1 DEF ExhaustedByStaleness, Promoted
        <4>4. PlaceKnown'
          BY <2>1, <3>3, <3>8, <4>1, <4>2 DEF PlaceKnown
        <4>. QED  BY <2>3, <4>1, <4>2, <4>4
      <3>9. CASE pending.op = "stale"
        <4>1. pending.next = "loop" /\ snapshot.status = "evaluating" /\ closure = "none"
              /\ pending.candidate = snapshot
          BY <3>2, <3>9 DEF AskedKnown, Asked
        <4>2. snapshot' = snapshot
          BY <1>2, <4>1 DEF Promoted
        <4>3. PlaceKnown'
          BY <2>1, <3>3, <4>1, <4>2 DEF PlaceKnown
        <4>. QED  BY <2>1, <2>2, <4>1, <4>3, FlowAt
      <3>10. CASE pending.op = "finalize"
        <4>1. pending.next = "report" /\ closure # "none" /\ pending.keys = {}
              /\ pending.candidate.status = "finalizing"
          BY <3>2, <3>10 DEF AskedKnown, Asked, TypeOK, Snapshot
        <4>2. ~ExhaustedByStaleness /\ snapshot'.status = "finalizing"
          BY <1>2, <1>3, <3>10, <4>1 DEF ExhaustedByStaleness, Promoted
        <4>4. PlaceKnown'
          BY <2>1, <3>3, <4>1, <4>2 DEF PlaceKnown
        <4>. QED  BY <2>3, <4>1, <4>2, <4>4
      <3>11. CASE pending.op \in {"close", "late"}
        <4>1. pending.next = "late" /\ closure # "none"
          BY <3>2, <3>11 DEF AskedKnown, Asked
        <4>2. ~ExhaustedByStaleness
          BY <3>11 DEF ExhaustedByStaleness
        <4>3. snapshot'.status # "starting"
          <5>1. snapshot.status # "starting"
            BY <1>1, <3>2, <3>11 DEF PlaceKnown
          <5>2. CLOSED_STATUS[closure] # "starting"
            BY <4>1 DEF TypeOK, CLOSED_STATUS, Reasons
          <5>3. pending.candidate.status # "starting"
            BY <3>2, <3>11, <5>1, <5>2 DEF AskedKnown, Asked, TypeOK, Snapshot
          <5>. QED  BY <1>2, <5>1, <5>3 DEF Promoted
        <4>4. PlaceKnown'
          BY <2>1, <3>3, <4>1, <4>2, <4>3 DEF PlaceKnown
        <4>. QED  BY <2>3, <4>1, <4>2, <4>4
      <3>. QED
        BY <3>1, <3>4, <3>5, <3>6, <3>7, <3>8, <3>9, <3>10, <3>11
    <2>6. pending.op \in HandledOperations => Handled
      BY <1>1 DEF FlowKnown, HandledKnown
    <2>. QED  BY <2>4, <2>5, <2>6
  <1>. QED  BY <1>4, <1>5

(* Every step of the workflow keeps the flow.                               *)
LEMMA WorkflowFlow ==
    ASSUME TypeOK, FlowKnown, snapshot.status = "starting" => claimed = {}, Workflow
    PROVE  FlowKnown'
  BY HandledFlow, AskedFlow, ReviewFlow, PassingFlow, ReceiptFlow DEF Workflow
=============================================================================
