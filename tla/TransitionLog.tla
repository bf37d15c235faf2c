--------------------------- MODULE TransitionLog ---------------------------
(***************************************************************************)
(* The write boundary of one supervised run: storage/transition.py behind  *)
(* the commit_transition activity, as the workflow's _commit drives it.    *)
(*                                                                         *)
(* The workflow serializes operations; Temporal retries each one.  An      *)
(* attempt is one database transaction: it looks for the operation's       *)
(* receipt, locks the run row, looks again, judges the expected revision   *)
(* and the business identities, and writes everything at once.  A worker   *)
(* may die in the middle, an answer may be lost, and an attempt Temporal   *)
(* has given up on may still be running when its successor starts.         *)
(***************************************************************************)
EXTENDS Naturals, Sequences, FiniteSets

CONSTANTS Keys,            \* business identities: event:..., command:..., action:...
          NoKey,           \* an entry that claims no identity
          Digests,         \* what an entry says, up to equality
          Requests,        \* the requests the workflow may make
          Reservation,     \* the entry that records the run's creation
          MaxAttempts,     \* maximum_attempts of the commit's retry policy
          MaxOperations,   \* bound: operations of one run
          Nobody           \* no transaction holds the run row

Entry == [key : Keys \cup {NoKey}, digest : Digests]

Request == {r \in [entries : SUBSET Entry, fallback : SUBSET Entry] :
               IsFiniteSet(r.entries) /\ IsFiniteSet(r.fallback)}

ASSUME RequestsAssumption == Requests \subseteq Request /\ Reservation \in Entry

ASSUME BoundsAssumption ==
    /\ MaxAttempts \in Nat \ {0}
    /\ MaxOperations \in Nat

Operations == 1..MaxOperations

Attempts == Operations \X (1..MaxAttempts)

ASSUME NobodyAssumption == Nobody \notin Attempts

(* One committed transaction: the entries it wrote, the block of sequence   *)
(* numbers they and the receipt took, and the revision it left behind.  The *)
(* caller's candidate snapshot stands from then on only if it was applied.  *)
Block == [operation : Nat, outcome : {"applied", "duplicate"}, entries : SUBSET Entry,
          first : Nat, last : Nat, revision : Nat]

Running == {"started", "unlocked", "locked", "judging", "resolving"}

Refusals == {"RevisionMismatch", "IdentityConflict", "ReceiptUnresolvable"}

Phases == Running \cup Refusals \cup {"none", "receipt", "dead"}

VARIABLES log,       \* committed transactions of the run, oldest first
          run,       \* the run row's recorded_revision and last_sequence
          lock,      \* the attempt that holds the run row FOR UPDATE
          stored,    \* the run row as each open transaction read it
          request,   \* what each operation asks for
          expected,  \* the revision each operation was prepared against
          phase,     \* where each attempt is
          worker     \* the workflow's side: operation in flight, attempt, receipt held

vars == <<log, run, lock, stored, request, expected, phase, worker>>

---------------------------------------------------------------------------
(* Lookups on the committed log.                                            *)

Recorded(op) == \E i \in 1..Len(log) : log[i].operation = op

ReceiptRevision(op) ==
    log[CHOOSE i \in 1..Len(log) : log[i].operation = op].revision

Written == UNION {log[i].entries : i \in 1..Len(log)}

Claimed(e) == e.key # NoKey /\ \E w \in Written : w.key = e.key

Clashes(e) == \E w \in Written : e.key # NoKey /\ w.key = e.key /\ w.digest # e.digest

Redelivered(r) == \E e \in r.entries : Claimed(e)

(* _writable raises on the first identity recorded with other content; the  *)
(* fallback is only looked at for a redelivery.                             *)
Conflict(r) ==
    \/ \E e \in r.entries : Clashes(e)
    \/ Redelivered(r) /\ \E e \in r.fallback : Clashes(e)

(* Mutant of ToWrite: the fallback is written again each time.              *)
RewriteFallback(r) == IF Redelivered(r) THEN r.fallback ELSE r.entries

(* A redelivery writes only the part of its fallback nobody recorded yet.   *)
ToWrite(r) ==
    IF Redelivered(r) THEN {e \in r.fallback : ~Claimed(e)} ELSE r.entries

Unread == [revision |-> 0, last |-> 0]

Init ==
    /\ log = <<[operation |-> 0, outcome |-> "applied", entries |-> {Reservation},
                first |-> 1, last |-> 1, revision |-> 1]>>
    /\ run = [revision |-> 1, last |-> 1]
    /\ lock = Nobody
    /\ stored = [a \in Attempts |-> Unread]
    /\ request = [op \in Operations |-> [entries |-> {}, fallback |-> {}]]
    /\ expected = [op \in Operations |-> 0]
    /\ phase = [a \in Attempts |-> "none"]
    /\ worker = [status |-> "idle", operation |-> 0, attempt |-> 0, revision |-> 1]

---------------------------------------------------------------------------
(* The workflow: _commit mints the next operation, expecting the revision   *)
(* of the receipt it holds, and Temporal starts its first attempt.          *)

Dispatch(r) ==
    LET op == worker.operation + 1 IN
    /\ worker.status = "idle"
    /\ op \in Operations
    /\ worker' = [worker EXCEPT !.status = "awaiting", !.operation = op, !.attempt = 1]
    /\ request' = [request EXCEPT ![op] = r]
    /\ expected' = [expected EXCEPT ![op] = worker.revision]
    /\ phase' = [phase EXCEPT ![<<op, 1>>] = "started"]
    /\ UNCHANGED <<log, run, lock, stored>>

Live == <<worker.operation, worker.attempt>>

AttemptFailed == worker.status = "awaiting" /\ phase[Live] = "dead"

(* Mutant of Retry: no limit on the attempts.                               *)
RetryWithoutLimit ==
    /\ worker.status = "awaiting"
    /\ worker' = [worker EXCEPT !.attempt = worker.attempt + 1]
    /\ phase' = [phase EXCEPT ![<<worker.operation, worker.attempt + 1>>] = "started"]
    /\ UNCHANGED <<log, run, lock, stored, request, expected>>

(* The attempt failed or its twenty seconds ran out: start another.  The    *)
(* old transaction is not chased; it may still be running.                  *)
Retry ==
    /\ worker.status = "awaiting"
    /\ worker.attempt < MaxAttempts
    /\ worker' = [worker EXCEPT !.attempt = worker.attempt + 1]
    /\ phase' = [phase EXCEPT ![<<worker.operation, worker.attempt + 1>>] = "started"]
    /\ UNCHANGED <<log, run, lock, stored, request, expected>>

(* No attempt is left: the ActivityError leaves _commit and, since nothing  *)
(* catches it, the workflow.                                                *)
GiveUp ==
    /\ worker.status = "awaiting"
    /\ worker.attempt = MaxAttempts
    /\ worker' = [worker EXCEPT !.status = "failed"]
    /\ UNCHANGED <<log, run, lock, stored, request, expected, phase>>

Acknowledge ==
    /\ worker.status = "awaiting"
    /\ phase[Live] = "receipt"
    /\ worker' = [worker EXCEPT !.status = "idle",
                                !.revision = ReceiptRevision(worker.operation)]
    /\ UNCHANGED <<log, run, lock, stored, request, expected, phase>>

(* A TransitionError reaches the workflow as a non-retryable failure.       *)
Refused ==
    /\ worker.status = "awaiting"
    /\ phase[Live] \in Refusals
    /\ worker' = [worker EXCEPT !.status = "failed"]
    /\ UNCHANGED <<log, run, lock, stored, request, expected, phase>>

---------------------------------------------------------------------------
(* One attempt, one transaction.                                            *)

Answer(a, p) == phase' = [phase EXCEPT ![a] = p]

(* Mutant of End: the row stays locked behind the transaction.              *)
EndWithoutUnlocking(a, p) ==
    /\ UNCHANGED lock
    /\ stored' = [stored EXCEPT ![a] = Unread]
    /\ Answer(a, p)

(* The transaction ends, committed or not.                                  *)
End(a, p) ==
    /\ lock' = IF lock = a THEN Nobody ELSE lock
    /\ stored' = [stored EXCEPT ![a] = Unread]
    /\ Answer(a, p)

(* 1. Receipt lookup precedes revision validation.                          *)
Lookup(a) ==
    /\ phase[a] = "started"
    /\ Answer(a, IF Recorded(a[1]) THEN "resolving" ELSE "unlocked")
    /\ UNCHANGED <<log, run, lock, stored, request, expected, worker>>

(* Mutant of Lock: the row is read, not locked.                             *)
ReadUnlocked(a) ==
    /\ phase[a] = "unlocked"
    /\ stored' = [stored EXCEPT ![a] = run]
    /\ Answer(a, "locked")
    /\ UNCHANGED <<log, run, lock, request, expected, worker>>

(* 2. Serialize on the run row ...                                          *)
Lock(a) ==
    /\ phase[a] = "unlocked"
    /\ lock = Nobody
    /\ lock' = a
    /\ stored' = [stored EXCEPT ![a] = run]
    /\ Answer(a, "locked")
    /\ UNCHANGED <<log, run, request, expected, worker>>

(* Mutant of Recheck: the receipt is looked for once, before the lock.      *)
JudgeUnchecked(a) ==
    /\ phase[a] = "locked"
    /\ Answer(a, "judging")
    /\ UNCHANGED <<log, run, lock, stored, request, expected, worker>>

(* ... then repeat the check: a slow original may have won meanwhile.       *)
Recheck(a) ==
    /\ phase[a] = "locked"
    /\ Answer(a, IF Recorded(a[1]) THEN "resolving" ELSE "judging")
    /\ UNCHANGED <<log, run, lock, stored, request, expected, worker>>

(* A receipt is good as long as the run still stands where it left it.      *)
Resolve(a) ==
    /\ phase[a] = "resolving"
    /\ End(a, IF run.revision = ReceiptRevision(a[1]) THEN "receipt" ELSE "ReceiptUnresolvable")
    /\ UNCHANGED <<log, run, request, expected, worker>>

(* 3. An unexplained revision is refused, never overwritten.                *)
Mismatched(a) == stored[a].revision # expected[a[1]]

(* 4. So is a repeated identity with other content.                         *)
Refuse(a) ==
    /\ phase[a] = "judging"
    /\ Mismatched(a) \/ Conflict(request[a[1]])
    /\ End(a, IF Mismatched(a) THEN "RevisionMismatch" ELSE "IdentityConflict")
    /\ UNCHANGED <<log, run, request, expected, worker>>

(* Mutant of Write: the receipt's own sequence number is not kept.          *)
WriteForgettingReceipt(a) ==
    LET r == request[a[1]]
        last == stored[a].last + Cardinality(ToWrite(r)) + 1
        revision == stored[a].revision + 1
    IN  /\ phase[a] = "judging"
        /\ ~Mismatched(a)
        /\ ~Conflict(r)
        /\ log' = Append(log,
                [operation |-> a[1],
                 outcome |-> IF Redelivered(r) THEN "duplicate" ELSE "applied",
                 entries |-> ToWrite(r),
                 first |-> stored[a].last + 1, last |-> last, revision |-> revision])
        /\ run' = [revision |-> revision, last |-> last - 1]
        /\ End(a, "receipt")
        /\ UNCHANGED <<request, expected, worker>>

(* 5/6. Allocate sequences from the locked row and write everything.  Only  *)
(* a first application promotes the caller's candidate.                     *)
Write(a) ==
    LET r == request[a[1]]
        last == stored[a].last + Cardinality(ToWrite(r)) + 1
        revision == stored[a].revision + 1
    IN  /\ phase[a] = "judging"
        /\ ~Mismatched(a)
        /\ ~Conflict(r)
        /\ log' = Append(log,
                [operation |-> a[1],
                 outcome |-> IF Redelivered(r) THEN "duplicate" ELSE "applied",
                 entries |-> ToWrite(r),
                 first |-> stored[a].last + 1, last |-> last, revision |-> revision])
        /\ run' = [revision |-> revision, last |-> last]
        /\ End(a, "receipt")
        /\ UNCHANGED <<request, expected, worker>>

(* The worker or its connection dies: an open transaction rolls back, and   *)
(* a committed one loses its answer.  An abandoned attempt that holds       *)
(* nothing and dies is one that takes no further step.                      *)
Crash(a) ==
    /\ phase[a] \in Running \cup {"receipt"}
    /\ a \in {Live, lock}
    /\ End(a, "dead")
    /\ UNCHANGED <<log, run, request, expected, worker>>

Transaction(a) ==
    \/ Lookup(a) \/ Lock(a) \/ Recheck(a) \/ Resolve(a) \/ Refuse(a) \/ Write(a)

Next ==
    \/ \E r \in Requests : Dispatch(r)
    \/ Retry \/ GiveUp \/ Acknowledge \/ Refused
    \/ \E a \in Attempts : Transaction(a) \/ Crash(a)

Spec == Init /\ [][Next]_vars

(* Transactions that are not cut off run on, answers that are not lost      *)
(* arrive, and Temporal retries an attempt it saw fail.  Nothing forces a   *)
(* crash or a timeout.                                                      *)
FairSpec ==
    /\ Spec
    /\ \A a \in Attempts : WF_vars(Transaction(a))
    /\ WF_vars(Acknowledge) /\ WF_vars(Refused)
    /\ WF_vars(AttemptFailed /\ (Retry \/ GiveUp))

---------------------------------------------------------------------------
TypeOK ==
    /\ log \in Seq(Block)
    /\ run \in [revision : Nat, last : Nat]
    /\ lock \in Attempts \cup {Nobody}
    /\ stored \in [Attempts -> [revision : Nat, last : Nat]]
    /\ request \in [Operations -> Request]
    /\ expected \in [Operations -> Nat]
    /\ phase \in [Attempts -> Phases]
    /\ worker \in [status : {"idle", "awaiting", "failed"}, operation : 0..MaxOperations,
                   attempt : 0..MaxAttempts, revision : Nat]

(* No business identity is ever recorded by two transactions: whatever is    *)
(* delivered again, and whichever attempt wins, its effect lands once        *)
(* (commit_transition step 4 and the partial unique index on dedupe_key).    *)
IdentityOnce ==
    \A i, j \in 1..Len(log) : i # j =>
        \A e \in log[i].entries, f \in log[j].entries : e.key # NoKey => e.key # f.key

(* Sequence numbers are allocated without gap or overlap across transactions *)
(* and the run row agrees with the log, although attempts race for it.       *)
SequencesGapFree ==
    /\ \A i \in 2..Len(log) : log[i].first = log[i - 1].last + 1
    /\ \A i \in 1..Len(log) : log[i].revision = i
    /\ run.revision = Len(log)
    /\ run.last = log[Len(log)].last

(* A lost acknowledgement or a slow original never turns into a refusal:     *)
(* the attempt Temporal is waiting for is not told that the revision moved   *)
(* or that its receipt no longer fits (the module docstring's ordering).     *)
RetryResolves ==
    worker.status # "idle" =>
        phase[Live] \notin {"RevisionMismatch", "ReceiptUnresolvable"}

(* The write boundary implements the abstract exactly-once log.              *)
Promise == INSTANCE ExactlyOnce WITH
    recorded <- [i \in 1..(Len(log) - 1) |->
                    [operation |-> log[i + 1].operation, outcome |-> log[i + 1].outcome]],
    confirmed <- worker.revision - 1

RecordsExactlyOnce == Promise!Spec

(* A dispatched operation always comes back to the workflow, with a receipt  *)
(* or with an error: no crash leaves the run row locked behind it.           *)
OperationSettles == worker.status = "awaiting" ~> worker.status # "awaiting"

(* "Each order gets one Temporal workflow that stays active until the order  *)
(* is delivered, manually terminated, or reaches its configured maximum      *)
(* age" (README.md): losing a commit is not among the ways it may end.       *)
SupervisionContinues == worker.status # "failed"
=============================================================================
