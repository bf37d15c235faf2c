------------------------ MODULE TransitionLogProofs ------------------------
(***************************************************************************)
(* Proofs about the write boundary, for any set of requests, any number of *)
(* operations and any number of attempts.                                  *)
(*                                                                         *)
(* The argument: operation n is the (n + 1)st transaction of the log, so   *)
(* the run's revision, the receipt an operation is owed and the revision   *)
(* the next one expects are all read off the log's length.  The row lock   *)
(* makes what a transaction read still true when it writes, and the second *)
(* lookup, under the lock, makes it write nothing that is already there.   *)
(***************************************************************************)
EXTENDS TransitionLog, SequenceTheorems, FiniteSetTheorems, TLAPS

LogInOrder ==
    /\ Len(log) >= 1
    /\ \A i \in 1..Len(log) : log[i].operation = i - 1 /\ log[i].revision = i
    /\ run.revision = Len(log)

LogContiguous ==
    /\ \A i \in 2..Len(log) : log[i].first = log[i - 1].last + 1
    /\ run.last = log[Len(log)].last

(* The workflow is at most one receipt behind the log.                      *)
WorkerFollows ==
    /\ \A op \in Operations : op <= worker.operation => expected[op] = op
    /\ worker.status = "idle" =>
          Len(log) = worker.operation + 1 /\ worker.revision = Len(log)
    /\ worker.status # "idle" =>
          /\ worker.operation \in Operations
          /\ worker.attempt \in 1..MaxAttempts
          /\ Len(log) \in {worker.operation, worker.operation + 1}
          /\ worker.revision = worker.operation

(* What the phase of an attempt says of the log.                            *)
AttemptKnows(a) ==
    /\ phase[a] # "none" => a[1] <= worker.operation
    /\ phase[a] \in {"locked", "judging"} => lock = a /\ stored[a] = run
    /\ phase[a] = "judging" => Len(log) <= a[1]
    /\ phase[a] \in {"resolving", "receipt"} => a[1] + 1 <= Len(log)
    /\ phase[a] # "RevisionMismatch"
    /\ phase[a] = "ReceiptUnresolvable" => a[1] + 1 < Len(log)

IInv ==
    /\ TypeOK
    /\ LogInOrder
    /\ LogContiguous
    /\ WorkerFollows
    /\ \A a \in Attempts : AttemptKnows(a)
    /\ IdentityOnce

---------------------------------------------------------------------------
(* Facts about the operators of the model.                                  *)

(* An operation is on record exactly when the log has grown past it.        *)
LEMMA RecordedIff ==
    ASSUME TypeOK, LogInOrder, NEW op \in Nat
    PROVE  Recorded(op) <=> op + 1 <= Len(log)
  <1>1. Len(log) \in Nat
    BY DEF TypeOK
  <1>2. ASSUME Recorded(op) PROVE op + 1 <= Len(log)
    <2>1. PICK i \in 1..Len(log) : log[i].operation = op
      BY <1>2 DEF Recorded
    <2> QED
      BY <2>1, <1>1 DEF LogInOrder
  <1>3. ASSUME op + 1 <= Len(log) PROVE Recorded(op)
    <2>1. op + 1 \in 1..Len(log)
      BY <1>3, <1>1
    <2>2. log[op + 1].operation = op
      BY <2>1 DEF LogInOrder
    <2> QED
      BY <2>1, <2>2 DEF Recorded
  <1> QED
    BY <1>2, <1>3

(* The receipt of an operation is the one transaction that recorded it.     *)
LEMMA ReceiptAt ==
    ASSUME TypeOK, LogInOrder, NEW op \in Nat, Recorded(op)
    PROVE  ReceiptRevision(op) = op + 1
  <1> DEFINE i == CHOOSE j \in 1..Len(log) : log[j].operation = op
  <1>1. i \in 1..Len(log) /\ log[i].operation = op
    BY DEF Recorded
  <1>2. i = op + 1 /\ log[i].revision = i
    BY <1>1 DEF LogInOrder, TypeOK
  <1> QED
    BY <1>2 DEF ReceiptRevision

(* What a transaction writes is finite, well typed, and claims no identity  *)
(* that is already on record.                                               *)
LEMMA ToWriteFresh ==
    ASSUME NEW r \in Request
    PROVE  /\ ToWrite(r) \in SUBSET Entry
           /\ Cardinality(ToWrite(r)) \in Nat
           /\ \A e \in ToWrite(r) : ~Claimed(e)
  <1>1. ToWrite(r) \subseteq r.entries \/ ToWrite(r) \subseteq r.fallback
    BY DEF ToWrite
  <1>2. r.entries \subseteq Entry /\ r.fallback \subseteq Entry
    BY DEF Request
  <1>3. IsFiniteSet(ToWrite(r))
    BY <1>1, FS_Subset DEF Request
  <1>4. Cardinality(ToWrite(r)) \in Nat
    BY <1>3, FS_CardinalityType
  <1>5. \A e \in ToWrite(r) : ~Claimed(e)
    BY DEF ToWrite, Redelivered
  <1> QED
    BY <1>1, <1>2, <1>4, <1>5

LEMMA InitIInv == Init => IInv
  <1> SUFFICES ASSUME Init PROVE IInv
    OBVIOUS
  <1> USE DEF Init
  <1>1. Len(log) = 1 /\ log[1] = [operation |-> 0, outcome |-> "applied",
            entries |-> {Reservation}, first |-> 1, last |-> 1, revision |-> 1]
    OBVIOUS
  <1>2. TypeOK
    <2>1. log \in Seq(Block)
      BY RequestsAssumption DEF Block
    <2>2. [entries |-> {}, fallback |-> {}] \in Request
      BY FS_EmptySet DEF Request
    <2>3. phase \in [Attempts -> Phases] /\ lock \in Attempts \cup {Nobody}
      BY DEF Phases
    <2>4. worker \in [status : {"idle", "awaiting", "failed"}, operation : 0..MaxOperations,
                      attempt : 0..MaxAttempts, revision : Nat]
      BY BoundsAssumption
    <2> QED
      BY <2>1, <2>2, <2>3, <2>4 DEF TypeOK, Unread
  <1>3. LogInOrder /\ LogContiguous
    BY <1>1 DEF LogInOrder, LogContiguous
  <1>4. WorkerFollows
    BY <1>1 DEF WorkerFollows, Operations
  <1>5. \A a \in Attempts : AttemptKnows(a)
    BY DEF AttemptKnows
  <1>6. IdentityOnce
    BY <1>1 DEF IdentityOnce
  <1> QED
    BY <1>2, <1>3, <1>4, <1>5, <1>6 DEF IInv

---------------------------------------------------------------------------
(* Every action preserves the invariant: first the workflow's side.         *)

LEMMA DispatchIInv ==
    ASSUME IInv, NEW r \in Requests, Dispatch(r)
    PROVE  IInv'
  <1> DEFINE op == worker.operation + 1
  <1> USE DEF IInv, Dispatch
  <1>1. op \in Operations /\ <<op, 1>> \in Attempts
    BY BoundsAssumption DEF Operations, Attempts
  <1>2. TypeOK'
    <2>1. request' \in [Operations -> Request] /\ expected' \in [Operations -> Nat]
      BY <1>1, RequestsAssumption DEF TypeOK
    <2>2. phase' \in [Attempts -> Phases]
      BY <1>1 DEF TypeOK, Phases, Running
    <2>3. worker' \in [status : {"idle", "awaiting", "failed"}, operation : 0..MaxOperations,
                       attempt : 0..MaxAttempts, revision : Nat]
      <3>1. op \in 0..MaxOperations /\ 1 \in 0..MaxAttempts
        BY <1>1, BoundsAssumption DEF Operations
      <3>2. worker' = [worker EXCEPT !.status = "awaiting", !.operation = op, !.attempt = 1]
        OBVIOUS
      <3> HIDE DEF op, IInv, Dispatch
      <3> QED
        BY <3>1, <3>2 DEF TypeOK, IInv
    <2> QED
      BY <2>1, <2>2, <2>3 DEF TypeOK
  <1>3. LogInOrder' /\ LogContiguous'
    BY DEF LogInOrder, LogContiguous
  <1>4. WorkerFollows'
    BY <1>1, BoundsAssumption DEF WorkerFollows, TypeOK, Operations
  <1>5. \A a \in Attempts : AttemptKnows(a)'
    BY <1>1 DEF AttemptKnows, TypeOK, Attempts, Operations
  <1>6. IdentityOnce'
    BY DEF IdentityOnce
  <1> QED
    BY <1>2, <1>3, <1>4, <1>5, <1>6

LEMMA RetryIInv ==
    ASSUME IInv, Retry
    PROVE  IInv'
  <1> DEFINE a == <<worker.operation, worker.attempt + 1>>
  <1> USE DEF IInv, Retry
  <1>1. a \in Attempts /\ worker.attempt + 1 \in 1..MaxAttempts
    BY BoundsAssumption DEF WorkerFollows, Attempts, TypeOK
  <1>2. TypeOK'
    <2>1. phase' \in [Attempts -> Phases]
      BY <1>1 DEF TypeOK, Phases, Running
    <2>2. worker' \in [status : {"idle", "awaiting", "failed"}, operation : 0..MaxOperations,
                       attempt : 0..MaxAttempts, revision : Nat]
      <3>1. worker.attempt + 1 \in 0..MaxAttempts
        BY <1>1, BoundsAssumption
      <3> QED
        BY <3>1 DEF TypeOK
    <2> QED
      BY <2>1, <2>2 DEF TypeOK
  <1>3. LogInOrder' /\ LogContiguous' /\ IdentityOnce'
    BY DEF LogInOrder, LogContiguous, IdentityOnce
  <1>4. WorkerFollows'
    BY <1>1 DEF WorkerFollows, TypeOK
  <1>5. \A b \in Attempts : AttemptKnows(b)'
    BY <1>1 DEF AttemptKnows, TypeOK, WorkerFollows, Operations
  <1> QED
    BY <1>2, <1>3, <1>4, <1>5

(* Giving up and being refused change nothing but the workflow's status.    *)
LEMMA FailureIInv ==
    ASSUME IInv, GiveUp \/ Refused
    PROVE  IInv'
  <1>1. /\ worker.status = "awaiting"
        /\ worker' = [worker EXCEPT !.status = "failed"]
        /\ UNCHANGED <<log, run, lock, stored, request, expected, phase>>
    BY DEF GiveUp, Refused
  <1>2. TypeOK'
    BY <1>1 DEF IInv, TypeOK
  <1>3. LogInOrder' /\ LogContiguous' /\ IdentityOnce'
    BY <1>1 DEF IInv, LogInOrder, LogContiguous, IdentityOnce
  <1>4. WorkerFollows'
    BY <1>1 DEF IInv, WorkerFollows, TypeOK
  <1>5. \A a \in Attempts : AttemptKnows(a)'
    BY <1>1 DEF IInv, AttemptKnows, TypeOK
  <1> QED
    BY <1>2, <1>3, <1>4, <1>5 DEF IInv

LEMMA LiveAttempt ==
    ASSUME IInv, worker.status # "idle"
    PROVE  Live \in Attempts /\ Live[1] = worker.operation
  BY DEF IInv, WorkerFollows, Live, Attempts

(* A receipt that reaches the workflow is the last transaction of the log.  *)
LEMMA AcknowledgedReceipt ==
    ASSUME IInv, Acknowledge
    PROVE  /\ Len(log) = worker.operation + 1
           /\ ReceiptRevision(worker.operation) = worker.operation + 1
  <1>1. Live \in Attempts /\ Live[1] = worker.operation
    BY LiveAttempt DEF Acknowledge
  <1>2. worker.operation + 1 <= Len(log)
    BY <1>1 DEF IInv, AttemptKnows, Acknowledge
  <1>3. worker.operation \in Nat /\ Len(log) \in {worker.operation, worker.operation + 1}
    BY DEF IInv, WorkerFollows, Acknowledge, Operations
  <1>4. Recorded(worker.operation)
    BY <1>2, <1>3, RecordedIff DEF IInv
  <1> QED
    BY <1>2, <1>3, <1>4, ReceiptAt DEF IInv

LEMMA AcknowledgeIInv ==
    ASSUME IInv, Acknowledge
    PROVE  IInv'
  <1>1. /\ Len(log) = worker.operation + 1
        /\ ReceiptRevision(worker.operation) = worker.operation + 1
    BY AcknowledgedReceipt
  <1> USE DEF IInv, Acknowledge
  <1>2. TypeOK'
    <2>1. ReceiptRevision(worker.operation) \in Nat
      BY <1>1, BoundsAssumption DEF TypeOK
    <2>2. worker' = [worker EXCEPT !.status = "idle",
                                   !.revision = ReceiptRevision(worker.operation)]
      OBVIOUS
    <2>3. UNCHANGED <<log, run, lock, stored, request, expected, phase>>
      OBVIOUS
    <2> QED
      BY <2>1, <2>2, <2>3 DEF TypeOK
  <1>3. LogInOrder' /\ LogContiguous' /\ IdentityOnce'
    BY DEF LogInOrder, LogContiguous, IdentityOnce
  <1>4. WorkerFollows'
    BY <1>1 DEF WorkerFollows, TypeOK
  <1>5. \A a \in Attempts : AttemptKnows(a)'
    BY DEF AttemptKnows, TypeOK
  <1> QED
    BY <1>2, <1>3, <1>4, <1>5

---------------------------------------------------------------------------
(* Then the transaction's side.                                             *)

LEMMA EndTyped ==
    ASSUME TypeOK, NEW a \in Attempts, NEW p \in Phases, End(a, p)
    PROVE  /\ lock' \in Attempts \cup {Nobody}
           /\ stored' \in [Attempts -> [revision : Nat, last : Nat]]
           /\ phase' \in [Attempts -> Phases]
  BY DEF TypeOK, End, Answer, Unread

LEMMA LogUntouched ==
    ASSUME IInv, UNCHANGED <<log, run, expected, worker>>
    PROVE  LogInOrder' /\ LogContiguous' /\ IdentityOnce' /\ WorkerFollows'
  BY DEF IInv, LogInOrder, LogContiguous, IdentityOnce, WorkerFollows

LEMMA LookupIInv ==
    ASSUME IInv, NEW a \in Attempts, Lookup(a)
    PROVE  IInv'
  <1> USE DEF IInv, Lookup, Answer
  <1>1. a[1] \in Nat
    BY DEF Attempts, Operations
  <1>2. TypeOK'
    BY DEF TypeOK, Phases, Running
  <1>3. LogInOrder' /\ LogContiguous' /\ IdentityOnce' /\ WorkerFollows'
    BY LogUntouched
  <1>4. phase[a] = "started" /\ a[1] <= worker.operation
    BY DEF AttemptKnows
  <1>5. Recorded(a[1]) => a[1] + 1 <= Len(log)
    BY <1>1, RecordedIff
  <1>6. \A b \in Attempts : AttemptKnows(b)'
    BY <1>4, <1>5 DEF AttemptKnows, TypeOK
  <1> QED
    BY <1>2, <1>3, <1>6

LEMMA LockIInv ==
    ASSUME IInv, NEW a \in Attempts, Lock(a)
    PROVE  IInv'
  <1> USE DEF IInv, Lock, Answer
  <1>1. TypeOK'
    BY DEF TypeOK, Phases, Running
  <1>2. LogInOrder' /\ LogContiguous' /\ IdentityOnce' /\ WorkerFollows'
    BY LogUntouched
  <1>3. \A b \in Attempts : AttemptKnows(b)'
    BY NobodyAssumption DEF AttemptKnows, TypeOK
  <1> QED
    BY <1>1, <1>2, <1>3

LEMMA RecheckIInv ==
    ASSUME IInv, NEW a \in Attempts, Recheck(a)
    PROVE  IInv'
  <1> USE DEF IInv, Recheck, Answer
  <1>1. a[1] \in Nat /\ Len(log) \in Nat
    BY DEF Attempts, Operations, TypeOK
  <1>2. TypeOK'
    BY DEF TypeOK, Phases, Running
  <1>3. LogInOrder' /\ LogContiguous' /\ IdentityOnce' /\ WorkerFollows'
    BY LogUntouched
  <1>4. Recorded(a[1]) <=> a[1] + 1 <= Len(log)
    BY <1>1, RecordedIff
  <1>5. \A b \in Attempts : AttemptKnows(b)'
    BY <1>1, <1>4 DEF AttemptKnows, TypeOK
  <1> QED
    BY <1>2, <1>3, <1>5

(* A receipt that no longer fits belongs to an operation the log has grown  *)
(* past.                                                                    *)
LEMMA ResolveIInv ==
    ASSUME IInv, NEW a \in Attempts, Resolve(a)
    PROVE  IInv'
  <1> USE DEF IInv, Resolve, End, Answer
  <1>1. a[1] \in Nat /\ Len(log) \in Nat
    BY DEF Attempts, Operations, TypeOK
  <1>2. TypeOK'
    <2>1. {"receipt", "ReceiptUnresolvable"} \subseteq Phases
      BY DEF Phases, Refusals
    <2>2. UNCHANGED <<log, run, request, expected, worker>>
      OBVIOUS
    <2> HIDE DEF End
    <2> QED
      BY <2>1, <2>2, EndTyped DEF TypeOK
  <1>3. LogInOrder' /\ LogContiguous' /\ IdentityOnce' /\ WorkerFollows'
    BY LogUntouched
  <1>4. a[1] + 1 <= Len(log) /\ a[1] <= worker.operation
    BY DEF AttemptKnows
  <1>5. ReceiptRevision(a[1]) = a[1] + 1
    BY <1>1, <1>4, RecordedIff, ReceiptAt
  <1>6. run.revision = Len(log)
    BY DEF LogInOrder
  <1>7. AttemptKnows(a)'
    BY <1>1, <1>4, <1>5, <1>6 DEF AttemptKnows, TypeOK
  <1>8. ASSUME NEW b \in Attempts, b # a PROVE AttemptKnows(b)'
    BY <1>8 DEF AttemptKnows, TypeOK
  <1> QED
    BY <1>2, <1>3, <1>7, <1>8

(* What is judged under the lock is the last operation, and its expectation *)
(* is met.                                                                  *)
LEMMA JudgedMatches ==
    ASSUME IInv, NEW a \in Attempts, phase[a] = "judging"
    PROVE  /\ lock = a /\ stored[a] = run
           /\ worker.status # "idle"
           /\ a[1] = worker.operation /\ Len(log) = a[1]
           /\ ~Mismatched(a)
  <1>1. a[1] \in Operations /\ a[1] \in Nat /\ Len(log) \in Nat
    BY DEF Attempts, Operations, IInv, TypeOK
  <1>2. /\ lock = a /\ stored[a] = run
        /\ a[1] <= worker.operation /\ Len(log) <= a[1]
    BY DEF IInv, AttemptKnows
  <1>3. worker.status # "idle" /\ a[1] = worker.operation /\ Len(log) = a[1]
    BY <1>1, <1>2, BoundsAssumption DEF IInv, WorkerFollows, TypeOK
  <1>4. expected[a[1]] = a[1] /\ run.revision = a[1]
    BY <1>1, <1>2, <1>3 DEF IInv, WorkerFollows, LogInOrder
  <1> QED
    BY <1>2, <1>3, <1>4 DEF Mismatched

LEMMA RefuseIInv ==
    ASSUME IInv, NEW a \in Attempts, Refuse(a)
    PROVE  IInv'
  <1>1. ~Mismatched(a)
    BY JudgedMatches DEF Refuse
  <1> USE DEF IInv, Refuse, End, Answer
  <1>2. TypeOK'
    <2>1. {"RevisionMismatch", "IdentityConflict"} \subseteq Phases
      BY DEF Phases, Refusals
    <2>2. UNCHANGED <<log, run, request, expected, worker>>
      OBVIOUS
    <2> HIDE DEF End
    <2> QED
      BY <2>1, <2>2, EndTyped DEF TypeOK
  <1>3. LogInOrder' /\ LogContiguous' /\ IdentityOnce' /\ WorkerFollows'
    BY LogUntouched
  <1>4. \A b \in Attempts : AttemptKnows(b)'
    BY <1>1 DEF AttemptKnows, TypeOK
  <1> QED
    BY <1>2, <1>3, <1>4

LEMMA CrashIInv ==
    ASSUME IInv, NEW a \in Attempts, Crash(a)
    PROVE  IInv'
  <1> USE DEF IInv, Crash, End, Answer
  <1>1. TypeOK'
    <2>1. UNCHANGED <<log, run, request, expected, worker>>
      OBVIOUS
    <2> HIDE DEF End
    <2> QED
      BY <2>1, EndTyped DEF TypeOK, Phases
  <1>2. LogInOrder' /\ LogContiguous' /\ IdentityOnce' /\ WorkerFollows'
    BY LogUntouched
  <1>3. phase[a] # "none"
    BY DEF Running
  <1>4. \A b \in Attempts : AttemptKnows(b)'
    BY <1>3 DEF AttemptKnows, TypeOK
  <1> QED
    BY <1>1, <1>2, <1>4

LEMMA WriteIInv ==
    ASSUME IInv, NEW a \in Attempts, Write(a)
    PROVE  IInv'
  <1> DEFINE r == request[a[1]]
             revision == stored[a].revision + 1
             last == stored[a].last + Cardinality(ToWrite(r)) + 1
             outcome == IF Redelivered(r) THEN "duplicate" ELSE "applied"
             block == [operation |-> a[1], outcome |-> outcome, entries |-> ToWrite(r),
                       first |-> stored[a].last + 1, last |-> last, revision |-> revision]
  <1>1. phase[a] = "judging"
    BY DEF Write
  <1>2. /\ lock = a /\ stored[a] = run
        /\ worker.status # "idle"
        /\ a[1] = worker.operation /\ Len(log) = a[1]
    BY <1>1, JudgedMatches
  <1>3. /\ log' = Append(log, block)
        /\ run' = [revision |-> revision, last |-> last]
        /\ End(a, "receipt")
        /\ UNCHANGED <<request, expected, worker>>
    BY DEF Write
  <1>4. /\ a[1] \in Nat /\ a[1] \in Operations
        /\ run.revision \in Nat /\ run.last \in Nat
        /\ log \in Seq(Block) /\ Len(log) \in Nat /\ Len(log) >= 1
    BY DEF Attempts, Operations, IInv, TypeOK, LogInOrder
  <1>5. r \in Request
    BY <1>4 DEF IInv, TypeOK
  <1>6. /\ ToWrite(r) \in SUBSET Entry
        /\ Cardinality(ToWrite(r)) \in Nat
        /\ \A e \in ToWrite(r) : ~Claimed(e)
    BY <1>5, ToWriteFresh
  <1>7. block \in Block
    <2>1. outcome \in {"applied", "duplicate"}
      OBVIOUS
    <2> HIDE DEF outcome, r
    <2> QED
      BY <1>2, <1>4, <1>6, <2>1, SMTT(20) DEF Block
  <1> HIDE DEF outcome, r
  <1>8. /\ Len(log') = Len(log) + 1
        /\ \A i \in 1..Len(log) : log'[i] = log[i]
        /\ log'[Len(log) + 1] = block
    BY <1>3, <1>4, <1>7
  <1>9. TypeOK'
    <2>1. log' \in Seq(Block)
      BY <1>3, <1>4, <1>7
    <2>2. run' \in [revision : Nat, last : Nat]
      BY <1>2, <1>3, <1>4, <1>6
    <2>3. "receipt" \in Phases
      BY DEF Phases
    <2>4. /\ lock' \in Attempts \cup {Nobody}
          /\ stored' \in [Attempts -> [revision : Nat, last : Nat]]
          /\ phase' \in [Attempts -> Phases]
      BY <1>3, <2>3, EndTyped DEF IInv
    <2> QED
      BY <1>3, <2>1, <2>2, <2>4 DEF IInv, TypeOK
  <1>10. LogInOrder'
    <2>1. run.revision = Len(log)
      BY DEF IInv, LogInOrder
    <2>2. block.operation = Len(log) /\ block.revision = Len(log) + 1 /\ run'.revision = Len(log) + 1
      BY <1>2, <1>3, <2>1
    <2> QED
      BY <1>4, <1>8, <2>2 DEF IInv, LogInOrder
  <1>11. LogContiguous'
    <2>1. run.last = log[Len(log)].last
      BY DEF IInv, LogContiguous
    <2>2. block.first = log[Len(log)].last + 1 /\ run'.last = block.last
      BY <1>2, <1>3, <2>1
    <2> QED
      BY <1>4, <1>8, <2>2, SMTT(20) DEF IInv, LogContiguous
  <1>12. WorkerFollows'
    BY <1>2, <1>3, <1>4, <1>8 DEF IInv, WorkerFollows
  <1>13. \A b \in Attempts : AttemptKnows(b)'
    <2>1. phase' = [phase EXCEPT ![a] = "receipt"] /\ stored' = [stored EXCEPT ![a] = Unread]
      BY <1>3 DEF End, Answer
    <2>2. AttemptKnows(a)'
      BY <1>2, <1>3, <1>4, <1>8, <2>1 DEF IInv, TypeOK, AttemptKnows
    <2>3. ASSUME NEW b \in Attempts, b # a PROVE AttemptKnows(b)'
      <3>1. phase'[b] = phase[b] /\ phase[b] \notin {"locked", "judging"}
        BY <1>2, <2>1, <2>3 DEF IInv, TypeOK, AttemptKnows
      <3>2. b[1] \in Nat
        BY DEF Attempts, Operations
      <3> QED
        BY <1>3, <1>4, <1>8, <3>1, <3>2 DEF IInv, AttemptKnows
    <2> QED
      BY <2>2, <2>3
  <1>14. IdentityOnce'
    <2>1. ASSUME NEW i \in 1..Len(log), NEW e \in log[i].entries, NEW f \in ToWrite(r),
                 e.key # NoKey
          PROVE  e.key # f.key
      <3>1. e \in Written
        BY <2>1 DEF Written
      <3> QED
        BY <1>6, <2>1, <3>1 DEF Claimed
    <2>2. block.entries = ToWrite(r)
      OBVIOUS
    <2>3. ASSUME NEW i \in 1..Len(log'), NEW j \in 1..Len(log'), i # j,
                 NEW e \in log'[i].entries, NEW f \in log'[j].entries, e.key # NoKey
          PROVE  e.key # f.key
      <3>1. CASE i \in 1..Len(log) /\ j \in 1..Len(log)
        BY <1>8, <2>3, <3>1 DEF IInv, IdentityOnce
      <3>2. CASE i \in 1..Len(log) /\ j = Len(log) + 1
        BY <1>8, <2>1, <2>2, <2>3, <3>2
      <3>3. CASE i = Len(log) + 1 /\ j \in 1..Len(log)
        BY <1>8, <2>1, <2>2, <2>3, <3>3
      <3> QED
        BY <1>4, <1>8, <2>3, <3>1, <3>2, <3>3
    <2> QED
      BY <2>3 DEF IdentityOnce
  <1> QED
    BY <1>9, <1>10, <1>11, <1>12, <1>13, <1>14 DEF IInv

---------------------------------------------------------------------------
LEMMA StutterIInv ==
    ASSUME IInv, UNCHANGED vars
    PROVE  IInv'
  BY DEF IInv, vars, TypeOK, LogInOrder, LogContiguous, WorkerFollows, AttemptKnows, IdentityOnce

LEMMA NextIInv == IInv /\ [Next]_vars => IInv'
  <1> SUFFICES ASSUME IInv, [Next]_vars PROVE IInv'
    OBVIOUS
  <1>1. CASE \E r \in Requests : Dispatch(r)
    BY <1>1, DispatchIInv
  <1>2. CASE Retry
    BY <1>2, RetryIInv
  <1>3. CASE GiveUp \/ Refused
    BY <1>3, FailureIInv
  <1>4. CASE Acknowledge
    BY <1>4, AcknowledgeIInv
  <1>5. CASE \E a \in Attempts : Transaction(a)
    BY <1>5, LookupIInv, LockIInv, RecheckIInv, ResolveIInv, RefuseIInv, WriteIInv
       DEF Transaction
  <1>6. CASE \E a \in Attempts : Crash(a)
    BY <1>6, CrashIInv
  <1>7. CASE UNCHANGED vars
    BY <1>7, StutterIInv
  <1> QED
    BY <1>1, <1>2, <1>3, <1>4, <1>5, <1>6, <1>7 DEF Next

THEOREM Invariance == Spec => []IInv
  BY InitIInv, NextIInv, PTL DEF Spec

(* The variables stay in their types.                                       *)
THEOREM TypeCorrectness == Spec => []TypeOK
  BY Invariance, PTL DEF IInv

(* No business identity is recorded twice, whichever attempt wins: a second *)
(* transaction only adds entries whose identity nobody claimed.             *)
THEOREM IdentitiesOnce == Spec => []IdentityOnce
  BY Invariance, PTL DEF IInv

(* The log numbers its transactions and its entries without gap or overlap, *)
(* and the run row agrees with it.                                          *)
THEOREM GapFree == Spec => []SequencesGapFree
  <1>1. IInv => SequencesGapFree
    BY DEF IInv, LogInOrder, LogContiguous, SequencesGapFree
  <1> QED
    BY <1>1, Invariance, PTL

(* The attempt the workflow waits for is never refused over its revision.   *)
THEOREM RetriesResolve == Spec => []RetryResolves
  <1>1. IInv => RetryResolves
    <2> SUFFICES ASSUME IInv, worker.status # "idle"
                 PROVE  phase[Live] \notin {"RevisionMismatch", "ReceiptUnresolvable"}
      BY DEF RetryResolves
    <2>1. Live \in Attempts /\ Live[1] = worker.operation
      BY LiveAttempt
    <2>2. AttemptKnows(Live)
      BY <2>1 DEF IInv
    <2>3. Len(log) \in {worker.operation, worker.operation + 1} /\ worker.operation \in Nat
      BY DEF IInv, WorkerFollows, Operations
    <2> QED
      BY <2>1, <2>2, <2>3 DEF AttemptKnows
  <1> QED
    BY <1>1, Invariance, PTL

---------------------------------------------------------------------------
(* The write boundary implements the exactly-once log.                      *)

Records == [operation : Nat, outcome : {"applied", "duplicate"}]

Kept(block) == [operation |-> block.operation, outcome |-> block.outcome]

(* The log without the entry of the run's creation, seen through the mapping. *)
Bar(l) ==
    [i \in 1..(Len(l) - 1) |->
        [operation |-> l[i + 1].operation, outcome |-> l[i + 1].outcome]]

RecordedBar == Bar(log)

ConfirmedBar == worker.revision - 1

LEMMA KeptTyped ==
    ASSUME NEW block \in Block
    PROVE  Kept(block) \in Records
  BY DEF Block, Kept, Records

LEMMA BarTyped ==
    ASSUME NEW l \in Seq(Block), Len(l) >= 1
    PROVE  /\ Bar(l) \in Seq(Records)
           /\ Len(Bar(l)) = Len(l) - 1
           /\ \A i \in 1..(Len(l) - 1) : Bar(l)[i] = Kept(l[i + 1])
  <1>1. ASSUME NEW i \in 1..(Len(l) - 1)
        PROVE  Kept(l[i + 1]) \in Records
    BY KeptTyped
  <1>2. Bar(l) \in [1..(Len(l) - 1) -> Records]
    BY <1>1 DEF Bar, Kept
  <1>3. Len(l) - 1 \in Nat
    OBVIOUS
  <1>4. \A i \in 1..(Len(l) - 1) : Bar(l)[i] = Kept(l[i + 1])
    BY DEF Bar, Kept
  <1> QED
    BY <1>2, <1>3, <1>4

(* A transaction appended to the log is one appended behind the mapping.    *)
LEMMA BarAppend ==
    ASSUME NEW l \in Seq(Block), Len(l) >= 1, NEW block \in Block
    PROVE  Bar(Append(l, block)) = Append(Bar(l), Kept(block))
  <1> DEFINE m == Append(l, block)
             left == Bar(m)
             right == Append(Bar(l), Kept(block))
  <1>1. /\ m \in Seq(Block) /\ Len(m) = Len(l) + 1
        /\ \A i \in 1..Len(l) : m[i] = l[i]
        /\ m[Len(l) + 1] = block
    OBVIOUS
  <1> HIDE DEF m
  <1>2. /\ left \in Seq(Records) /\ Len(left) = Len(l)
        /\ \A i \in 1..Len(l) : left[i] = Kept(m[i + 1])
    <2>1. Len(m) >= 1 /\ Len(m) - 1 = Len(l)
      BY <1>1
    <2>2. /\ left \in Seq(Records)
          /\ Len(left) = Len(m) - 1
          /\ \A i \in 1..(Len(m) - 1) : left[i] = Kept(m[i + 1])
      BY <1>1, <2>1, BarTyped
    <2> QED
      BY <2>1, <2>2
  <1>3. /\ Bar(l) \in Seq(Records) /\ Len(Bar(l)) = Len(l) - 1
        /\ \A i \in 1..(Len(l) - 1) : Bar(l)[i] = Kept(l[i + 1])
    BY BarTyped
  <1>4. Kept(block) \in Records
    BY KeptTyped
  <1>5. /\ right \in Seq(Records) /\ Len(right) = Len(l)
        /\ \A i \in 1..(Len(l) - 1) : right[i] = Bar(l)[i]
        /\ right[Len(l)] = Kept(block)
    BY <1>3, <1>4
  <1> HIDE DEF left, right
  <1>6. ASSUME NEW i \in 1..Len(left)
        PROVE  left[i] = right[i]
    <2>1. /\ i \in 1..Len(l) /\ Len(l) \in Nat
          /\ left[i] = Kept(m[i + 1])
      BY <1>2, <1>6
    <2>2. CASE i = Len(l)
      BY <1>1, <1>5, <2>1, <2>2
    <2>3. CASE i # Len(l)
      <3>1. i \in 1..(Len(l) - 1) /\ i + 1 \in 1..Len(l)
        BY <2>1, <2>3
      <3>2. m[i + 1] = l[i + 1]
        BY <1>1, <3>1
      <3>3. right[i] = Kept(l[i + 1])
        BY <1>3, <1>5, <3>1
      <3> QED
        BY <2>1, <3>2, <3>3
    <2> QED
      BY <2>2, <2>3
  <1> QED
    <2>1. left = right
      BY <1>2, <1>5, <1>6, SeqEqual
    <2> QED
      BY <2>1 DEF left, right, m

LEMMA LogTyped ==
    ASSUME IInv
    PROVE  log \in Seq(Block) /\ Len(log) \in Nat /\ Len(log) >= 1
  BY DEF IInv, TypeOK, LogInOrder

LEMMA InitPromise == Init => Promise!Init
  <1> SUFFICES ASSUME Init PROVE Promise!Init
    OBVIOUS
  <1>1. Len(log) = 1 /\ worker.revision = 1
    BY DEF Init
  <1>2. RecordedBar \in Seq(Records) /\ Len(RecordedBar) = 0
    <2>1. log \in Seq(Block) /\ Len(log) >= 1
      BY InitIInv, LogTyped
    <2>2. Bar(log) \in Seq(Records) /\ Len(Bar(log)) = Len(log) - 1
      BY <2>1, BarTyped
    <2> QED
      BY <1>1, <2>2 DEF RecordedBar
  <1>3. RecordedBar = <<>>
    BY <1>2
  <1> QED
    BY <1>1, <1>3 DEF Promise!Init, RecordedBar, Bar

LEMMA WritePromise ==
    ASSUME IInv, NEW a \in Attempts, Write(a)
    PROVE  Promise!Record("applied") \/ Promise!Record("duplicate")
  <1>1. /\ worker.status # "idle"
        /\ a[1] = worker.operation /\ Len(log) = a[1]
    BY JudgedMatches DEF Write
  <1>2. worker.revision = a[1] /\ a[1] \in Nat
    BY <1>1 DEF IInv, WorkerFollows, Attempts, Operations
  <1>3. log \in Seq(Block) /\ Len(log) \in Nat /\ Len(log) >= 1
    BY LogTyped
  <1>4. PICK block : /\ log' = Append(log, block)
                     /\ block.operation = a[1]
                     /\ block.outcome \in {"applied", "duplicate"}
    BY DEF Write
  <1>5. block \in Block
    <2>1. log' \in Seq(Block)
      BY WriteIInv DEF IInv, TypeOK
    <2>2. block = log'[Len(log) + 1] /\ Len(log') = Len(log) + 1
      BY <1>3, <1>4
    <2> QED
      BY <1>3, <2>1, <2>2
  <1>6. RecordedBar' = Append(RecordedBar, Kept(block))
    BY <1>3, <1>4, <1>5, BarAppend DEF RecordedBar
  <1>7. Len(RecordedBar) = ConfirmedBar
    BY <1>1, <1>2, <1>3, BarTyped DEF RecordedBar, ConfirmedBar
  <1>8. Kept(block) = [operation |-> ConfirmedBar + 1, outcome |-> block.outcome]
    BY <1>2, <1>4 DEF Kept, ConfirmedBar
  <1>9. ConfirmedBar' = ConfirmedBar
    BY DEF Write, ConfirmedBar
  <1>10. Promise!Record(block.outcome)
    BY <1>6, <1>7, <1>8, <1>9 DEF Promise!Record, RecordedBar, Bar, ConfirmedBar
  <1>11. CASE block.outcome = "applied"
    BY <1>10, <1>11 DEF Promise!Record
  <1>12. CASE block.outcome = "duplicate"
    BY <1>10, <1>12 DEF Promise!Record
  <1> QED
    BY <1>4, <1>11, <1>12

LEMMA AcknowledgePromise ==
    ASSUME IInv, Acknowledge
    PROVE  Promise!Confirm
  <1>1. /\ Len(log) = worker.operation + 1
        /\ ReceiptRevision(worker.operation) = worker.operation + 1
    BY AcknowledgedReceipt
  <1>2. worker.revision = worker.operation /\ worker.operation \in Nat
    BY DEF IInv, WorkerFollows, Acknowledge, Operations
  <1>3. worker'.revision = worker.operation + 1 /\ log' = log
    BY <1>1 DEF Acknowledge, IInv, TypeOK
  <1>4. Len(RecordedBar) = Len(log) - 1
    BY LogTyped, BarTyped DEF RecordedBar
  <1> QED
    BY <1>1, <1>2, <1>3, <1>4 DEF Promise!Confirm, RecordedBar, Bar

(* Every step of the write boundary is a step of the abstract log, a receipt *)
(* confirmed or a transaction recorded, or leaves it as it is.              *)
THEOREM ImplementsExactlyOnce == Spec => RecordsExactlyOnce
  <1> DEFINE bar == <<RecordedBar, ConfirmedBar>>
  <1>1. ASSUME IInv, [Next]_vars
        PROVE  Promise!Next \/ UNCHANGED bar
    <2>1. CASE \E a \in Attempts : Write(a)
      BY <1>1, <2>1, WritePromise DEF Promise!Next, Promise!Outcomes
    <2>2. CASE Acknowledge
      BY <1>1, <2>2, AcknowledgePromise DEF Promise!Next
    <2>3. ASSUME log' = log, worker'.revision = worker.revision
          PROVE  UNCHANGED bar
      BY <2>3 DEF RecordedBar, ConfirmedBar
    <2>4. CASE \/ \E r \in Requests : Dispatch(r)
               \/ Retry \/ GiveUp \/ Refused
               \/ UNCHANGED vars
      BY <1>1, <2>3, <2>4 DEF Dispatch, Retry, GiveUp, Refused, vars, IInv, TypeOK
    <2>5. CASE \E a \in Attempts : Lookup(a) \/ Lock(a) \/ Recheck(a) \/ Resolve(a)
                                   \/ Refuse(a) \/ Crash(a)
      BY <2>3, <2>5 DEF Lookup, Lock, Recheck, Resolve, Refuse, Crash
    <2> QED
      BY <1>1, <2>1, <2>2, <2>4, <2>5 DEF Next, Transaction
  <1>2. UNCHANGED bar => UNCHANGED <<[i \in 1..(Len(log) - 1) |->
            [operation |-> log[i + 1].operation, outcome |-> log[i + 1].outcome]],
            worker.revision - 1>>
    BY DEF RecordedBar, Bar, ConfirmedBar
  <1> QED
    BY <1>1, <1>2, InitPromise, Invariance, PTL
       DEF Spec, RecordsExactlyOnce, Promise!Spec
=============================================================================
