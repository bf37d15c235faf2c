# Order Supervisor: verification

TLA+ models of the Order Supervisor (`src/backend/app`), the TLC runs that check them and the
TLAPS proofs about them. `PROJECT.json` ties every definition to the lines it models, every
property to a run, and every run's property to a plausible bug that breaks it.

## 1. The system

One Temporal workflow supervises one order. A FastAPI process validates commands and either
reserves a run in PostgreSQL and starts its workflow, or signals the workflow that exists. A
worker process runs the workflow and its activities: one that writes (`commit_transition`), and
several that read or call a model. PostgreSQL holds the recorded view: one row per run, and an
append-only activity log. The console only talks to the API and reads what was recorded.

| Component | Source (`src/backend/app/`) | State | Operations | Interacts |
|---|---|---|---|---|
| Supervision workflow | `workflows/order.py`, `workflows/state.py` | inbox, latches, trigger, closure, counters, confirmed snapshot | four signals, the loop of `run()`, one handler per command, review, recovery, rollover, finalization | signals from the API; activities; continue-as-new to itself |
| Write boundary | `storage/transition.py`, `activities/persistence.py` | `runs` row, `activity_log` | `commit_transition` | called by the workflow under a retry policy; row lock against itself |
| Authorization | `domain/authorization.py`, `domain/actions.py` | none (ledger and issues of the snapshot) | `authorize` | called by a review after its drain |
| Event rules | `domain/events.py` | facts and issues of the snapshot | `interpret` | called per event |
| Wake policy and lifecycle | `domain/policy.py`, `domain/lifecycle.py` | instructions, wake profile | `effective_policy`, `classify`, `effective_wake` | called per event and per review |
| Guidance | `domain/guidance.py` | the learned hint | `check`, `active`, `shortened_review` | read by policy and lifecycle |
| Evidence | `domain/assembly.py`, `activities/evidence.py` | evidence references | `plan`, `split`, `still_pending` | before each review |
| Memory | `domain/memory.py` | summary, coverage, version | `refresh_due`, `deterministic`, `from_proposal` | with a decision or before a wait |
| Report | `domain/reporting.py`, `activities/report.py` | final output | `factual`, `contradictions`, `adopt` | finalization |
| Model call | `activities/decision.py`, `agent/` | none | `decide` | one bounded call per attempt |
| Reservation, start | `storage/runs.py`, `api/runs.py`, `api/transport.py` | the first run row and log entry | create, repeat, start by workflow id | API to PostgreSQL, then Temporal, with no shared transaction |
| Command transport | `api/commands.py`, `api/dependencies.py` | none | look up, check open, signal | API to Temporal |
| Templates | `storage/supervisors.py` | versioned configuration | create, update, seed | copied into a run at reservation |
| Worker, migrations, analytics, console | `worker.py`, `storage/migrations.py`, `storage/analytics.py`, `src/frontend` | - | wiring, schema, reads, UI | - |

What is hard here:

- **Signals interleave with every await.** Between the model's question and its answer the
  operator may pause, the facts may move and the order may be delivered.
- **The record and the workflow are two stores.** A commit whose answer is lost has happened; an
  attempt that timed out may still be running when its successor starts.
- **Every command may come twice**, under its own identity or under another command's, before or
  after its effect was undone by a later one.
- **History is handed over** to a fresh execution that must neither repeat nor drop anything.
- **Closure has three causes** that may be due at the same time, and must be reached from a hold,
  from recovery, and from the middle of a review.

What makes each component correct: the write boundary records each operation once, in order, and
never strands the workflow; the workflow keeps the lifecycle it shows (held means held, closed
means closed, one cause), acts only on judged and current conclusions, sends a message only as
approved, loses no command, does not sleep on work and closes when it must; authorization never
repeats a contact too early; event rules never let an older event undo a newer one; the wake
policy never schedules behind the age; evidence is not counted as considered unread; memory
versions cover a growing prefix; one order has one run whatever is repeated. The list of hazards,
each at its line and with the properties that cover it, is in `PROJECT.json`.

## 2. Modules

| Module | Models |
|---|---|
| `ExactlyOnce` | abstract: operations 1, 2, 3, ... recorded once each, the next after the receipt of the last |
| `TransitionLog` | the write boundary, implements `ExactlyOnce` |
| `TransitionLogProofs` | its inductive invariant, the safety theorems, the refinement |
| `RunLifecycle` | abstract: status, cause of closure and effects as an operator reads them |
| `OrderSupervisor` | the workflow, implements `RunLifecycle` |
| `OrderSupervisorFlow` | where the coroutine stands and with what in its hands: each step keeps this and the types |
| `OrderSupervisorProofs` | its inductive invariant, the safety theorems, the refinement |
| `OrderRegistry` | abstract: an order is taken once, by one command, and its workflow starts at most once |
| `OrderIntake` | the API over PostgreSQL and Temporal, with the template's edits, implements `OrderRegistry` |
| `OrderIntakeProofs` | its inductive invariant, the safety theorems, the refinement |
| `EventRules` | what an event means for facts and concerns (no state) |
| `WakePolicy` | which event wakes the agent, what it may teach, when the next review is due (no state) |
| `ReviewRules` | what a review reads, may do and leaves behind (no state) |
| `OrderDesk` | the documents of one order under these rules, event by event and review by review |
| `OrderDeskRules` | lemmas about what the three rule modules return, for any facts, issues and answers |
| `OrderDeskProofs` | its inductive invariant and the safety theorems |
| `MCTransitionLog`, `MCOrderSupervisor`, `MCOrderIntake`, `MCOrderDesk` | the small instances TLC checks |

The first two models meet at `_commit`. `TransitionLog` is what happens between the workflow sending a
request and holding its receipt, with its crashes and retries. `OrderSupervisor` takes a receipt
as one step (`Receipt`), which is what `ImplementsExactlyOnce` justifies: the log behind the
workflow only ever grows by the operation it waits for, applied or duplicate. `OrderIntake` stands
before both: it ends where a workflow is started or a signal recorded, which is where
`OrderSupervisor` begins (`Init`, `Deliver`). That a workflow starts from a row that is still
`starting`, and only once, is what `StartsFresh` and `KeepsRegistry` give to its `Init`.

`OrderSupervisor` and `OrderDesk` are the two halves of the workflow. The first has its control:
signals, awaits, holds, identities, commits, rollover; the content of a document is free there.
The second has its documents: facts, concerns, instructions, guidance, evidence, memory, receipts
and report; control is coarse there. A command is one step, a review is two with time and commands
in between, and a hold with its resume is one step that moves `control_epoch` twice. Together they
would multiply: neither half's properties need what the other leaves out.

### TransitionLog

`log` is the sequence of committed transactions (the entries of one operation and its
`operation_receipt`, with the block of sequence numbers they took); `run` is the row's
`recorded_revision` and `last_sequence`; `lock` is who holds the row `FOR UPDATE`; `stored` is the
row as an open transaction read it; `phase` is where each attempt stands. `worker` is `_commit`'s
side. Each step of the docstring of `transition.py` is an action: `Lookup`, `Lock`, `Recheck`,
`Resolve`, `Refuse`, `Write`. `Retry` may start the next attempt at any moment, since a timeout
needs no failure; nothing stops the old attempt. `Crash` rolls back what is open or loses the
answer of what is committed. An entry is an identity and a digest; texts, ids and snapshots are
left out, since the workflow's candidate only matters through `outcome`. `RunNotFound` and
`OperationConflict` are left out: no code deletes a run, and the attempts of an operation carry
one request. An `IdentityConflict` is modelled and ends the workflow, as in the code.

### OrderSupervisor

`pc` names the await, or the stretch between two, at which the one coroutine stands. Signals and
time may only intervene in `Suspended` states; everything else is a stretch the SDK runs without
yielding, cut into steps for readability. One pass of `run()` is
`loop`, `drain`, `draft`, `gate`, then either a review (`evidence`, `thinking`, `redrain`,
`judge`) or `memory`, `settle`, `roll`, `wait`; `finalize`, `report`, `late`, `done` is the way
out. The variables carry the names of the fields (`inbox` for `_inbox`, and so on); `snapshot`
is the part of `RunSnapshot` that steers control, `claimed` the identities on record, `history`
is read by properties only (and by the bounds on deliveries).

`_commit` is two steps: a handler sends a candidate (`Commit`), and `Receipt` promotes it if none
of its identities was claimed, then does what the handler does after its await. The handlers that
look at `receipt.applied` and those that do not are told apart in `TriggerAfter` and
`ClosureAfter`.

Abstractions, each a superset of the code's behaviour unless stated:

- a command is `[id, kind, about]`; an event's kind is the verdict the rules and the policy reach;
- interrupt is a pause (the code treats them alike);
- a review's proposal is "wait", "act" (one admitted effect that needs no approval) or "draft";
- whether memory is due, whether a rollover is due, and whether the evidence fits are free;
- the review deadline may pass at any time while sleeping, since it is read nowhere else;
- the read of the report's evidence and the narrative are one await, because each has a fallback;
- when a decision and an interruption are ready at once, either may be taken first: the code
  prefers the decision, and both orders are runs of the code one activation apart;
- failure of a commit or of the evidence read is left out here; `TransitionLog` has it;
- an event identity with other content is left out here; `TransitionLog` has it.

### OrderIntake

`calls` are the requests being served, each at the query or remote call it will make next, with
what it has read so far; `runs` is the table, a run's id being its place in it (ids are minted at
random in the code, so a fresh one is all that matters); `executions` and `signalled` are what
Temporal has recorded; `answers` is what clients were told. `reserve_run` is `LookUpCommand`,
`LookUpOrder` and `Insert`, three statements with no transaction around them; the insert and its
log entry are one transaction, and its two unique indexes are the guard `Unique`. A lost race
goes back to the first lookup once. `StartConfirmed` also stands for the answer that the workflow
exists, since the code treats it so; `StartUnconfirmed` and `SignalUnconfirmed` may or may not
have been carried out. The workflow appears as `Advance` and `End`: it alone moves the status on,
and it may end without closing the run, by failing.

`templates` is the template's history: version 1 is there at the start and `templates[v]` is the
edit that made version `v + 1`. `Update` is the one statement that compares the version and
writes, `Reload` the read after it that tells a conflict. A create request reads the template
before it looks for its reservation (`ReadTemplate`), so what it read may be older or newer than
what the row holds; `Found` takes the row's.

A command's body and the refusals that read and change nothing (unknown supervisor, demo timing,
wrong kind or draft) are left out, and Temporal's retention, after which a finished id could be
started again.

### EventRules, WakePolicy, ReviewRules and OrderDesk

The first three translate the functions of `domain/` under their own names. `OrderDesk` holds the
parts of `RunSnapshot` they read and write (`facts`, `instructions`, `context` and `epoch` for the
two versions, `guidance`, `draft`, `deferred` and `recent`, `boundary` for
`last_decision_through_sequence`, `summary`, `next_wake_at`), and its actions are the handlers that
fill these in. `last_sequence` counts the entries that the handlers write, because evidence, coverage
and the memory's threshold are sequence numbers. The receipt that each commit adds after its own
entries (`transition.py:190`, modelled in `TransitionLog`) is not counted: the numbers are lower than
the code's in the same order, and the memory's refresh falls due a few entries later. `BeginReview` takes the stamp and reads the evidence;
`RecordDecision` is everything that one decision's transaction changes, and `DiscardReview` and
`FailAndResume` are the ways a review comes to nothing.

Abstractions:

- moments and intervals are whole ticks, the profile's and the age's too;
- texts are left out; whether a message's subject and category suit its action is one field, and
  the kinds of claim the report gate recognises stand for the phrases it looks for;
- the references of payments and shipments are names from one set;
- an answer of the model is any of `Proposals`, or what the scripted agent would say of the facts
  (`scripted`); a closing narrative is any of `Narratives`;
- commands that only leave a refusal on record, and the entries written after closure, are left
  out, as is the count of discarded reviews, which `OrderSupervisor` has.

## 3. Runs

| Run | Instance | Distinct states | Shows |
|---|---|---|---|
| `transition_log` | 2 operations, 3 attempts each (the code's limit), 4 requests | 925 thousand | the log is exactly-once and gap-free; operations come back |
| `supervisor_safety` | important event, pause, resume, approve, terminate; any 3 deliveries with repeats; 2 scheduled reviews; 1 rollover | 2.9 million | messages, identities, latches, waiting, answers, lifecycle |
| `supervisor_progress` | all 12 commands, any 2 deliveries; 1 scheduled review; no rollover | 165 thousand | conservation, effects after answers, liveness |
| `order_intake` | 2 calls at once, 4 requests, 3 creation requests over 2 orders and 2 commands, a control command, 2 edits of the template | 2.8 million | one order, one command, one run, one workflow, one configuration; no edit lost; true answers |
| `order_desk` | 3 inputs out of 7 events, an instruction, holds, failures and a termination; 2 reviews; 4 ticks to the age | 4.4 million | facts, concerns, contacts, evidence, memory, schedule, guidance, report |
| `run_abandoned`, `rollover_sleeps`, `pausing_stuck`, `oldest_unread`, `handover_loses`, `repeat_refused`, `older_reverses` | as above | - | the disagreements of section 6 |

Bounds. Two operations are what a redelivery needs: one that claims an identity, one that meets
it; three attempts are the code's own limit and let two abandoned ones race the third. The
workflow's own constants have the code's values (`MaxAttempts` 2, `MaxStaleDiscards` 2,
`MaxLateRounds` 8, `LateBatch` 32). Three deliveries are what the replayed controls need (pause,
resume, pause again) and what a released message needs with a fact against it (a scheduled review
drafts, approve, event). The properties of `supervisor_progress` are about pairs: the command that
must take effect and one that gets in its way. One rollover carries every kind of pending state;
a second one adds only another generation number. `MaxCopies` is 2: a command that is on record
is on record for the third copy as for the second. In `order_intake` the three creation requests
are the ways two can clash: same order, same command, and the same request again; two calls at
once are what a race needs, and two more requests let a retry and a command follow it.

Two deliveries stay below `LateBatch`, so `supervisor_progress` does not meet the cut of a late
round, with which the code loses commands (section 6).

In `order_desk` the limits are small, so that they are met: one unconsidered reference to a
decision (`DeferredLimit`, 12 in the code), two recent ones (`RecentRecords`, 12), two references
to an issue (`MaxEvidence`, 12), one receipt in the snapshot (`LedgerRecords`, 32), a summary
after eight entries (`CompactionRecords`, 20 or 12). `EvidenceReferences` is 8 (128), above the
issues the events can open: what happens at that limit is not checked. Three inputs are what an
out-of-order history needs to open, settle and reopen a concern, and two reviews what a repeated
contact, a deferred reference or an outlived hint needs. `oldest_unread` has `DeferredLimit` 2:
with the code's 12 the shortest counterexample takes 13 events, more than TLC gets through.

Properties worth an explanation:

- `RetryResolves`: the attempt being waited for never sees `RevisionMismatch` or
  `ReceiptUnresolvable`. It holds because the receipt is looked for again behind the lock.
- `EffectsAfterAnswers`: when an effect is sent to the record, every command signalled so far has
  been answered. A review that did not drain before it is judged breaks it.
- `MessagesAsApproved`: a recorded message was approved, is recorded once, and its context is the
  one it was written in.
- `MintedOnce`: the identities the workflow mints meet no earlier claim, over rollovers too.
- `WaitsSettled`: what a waiting run with an empty queue may still owe: nothing.
- `CommandsConserved`: delivered = answered + queued or in a handler, per command, and nothing is
  left at the return. `AnsweredOnce` is the half of it that a rollover cannot break: whatever is
  handed over or disposed of late, nothing is answered more often than it was delivered.
- `StartsFresh`: a call may hold a snapshot for long before it starts the workflow; it is never
  a stale one that is used, because a run only moves on once its workflow id is taken.
- `NeverRaises`: `reserve_run` would let a second unique violation through; there is none, since
  a row that won the race is there for the second look and rows are never deleted.
- `KeepsRegistry`: `OrderIntake` implements `OrderRegistry`.
- `EditsKept`, `StartsFrozen`: an edit answered as saved is the version after the one its author
  saw, for good; a workflow starts with the configuration of its reservation, whatever the request
  that starts it has read.
- `ConcernsMatchFacts`, `ConfirmationsStand`: a failed payment and its concern come and go
  together, a delivery leaves none of the concerns it settles; a confirmation is undone only by
  evidence of its own attempt that is not older.
- `ConcernsAwaited`: a concern no decision covered has a review asked for or under way, although
  `BeginReview` took the trigger and the review may be discarded, fail or be overtaken.
- `ArrivalsWait`: what waits when a decision is recorded, and came after that decision's input,
  waits after it. What the decision covers of the rest is not always what it read: see (d).
- `NoEarlyRepeat`: compares any two recorded messages of different decisions, also where one was
  drafted, approved and released later.
- `ReviewsInRange`: the next review is ahead, within profile and age, and as soon as an
  instruction or a valid hint asks. `GuidanceLapses`: a hint that would keep the agent asleep does
  so only while valid. `CustomerGated`: who must have released an unapproved customer message.
- `CoverageHonest`, `CoverageGrows`: a summary covers what its author was given, and never less
  than the one before it. `ReportTrue`: an adopted narrative is borne out by the history itself,
  although it was judged by the snapshot or by a bounded ledger.
- `KeepsLifecycle`: `OrderSupervisor` implements `RunLifecycle`; no hold is left by anything but
  resume or closure, and no effect is recorded on a held or closing run.

Deadlock checking is off in every run: the workflow returns, the
write boundary's bounds end, and clients may send nothing more.

### Fairness

`TransitionLog!FairSpec`: a transaction that is not cut off takes its next step; an answer that
is not lost arrives; a dead attempt is retried or given up. The row lock needs only weak fairness
because a holder either ends or crashes. Crashes and timeouts are never forced.

`OrderSupervisor!FairSpec` is `WF(Workflow)`: the worker runs the coroutine while it can go on.
This is what the task queue, the start-to-close timeout on every activity and the retry policies
give; commits that fail for good are outside this model. No signal and no deadline is forced. The
liveness run has no rollover because finding (b) below stops a closing run at one, and
`ApprovalSettles` exempts a run that shows Pausing because of finding (c).

## 4. Proofs

`TransitionLogProofs` proves, for any identities, digests and requests with finite entry sets, any
number of attempts and any number of operations (`RequestsAssumption`, `BoundsAssumption`,
`NobodyAssumption`):

- `TypeCorrectness`, `IdentitiesOnce`, `GapFree`, `RetriesResolve`: `Spec => []P`;
- `ImplementsExactlyOnce`: `Spec => RecordsExactlyOnce`, the refinement of `ExactlyOnce`.

None of these is inductive. The log's order depends on what an attempt that is past its checks
still knows when it writes, so `IInv` adds, to types and to the properties themselves:

- `LogInOrder`, `LogContiguous`: the i-th transaction is operation i - 1 with revision i, its block
  follows its predecessor's, and the run row equals the last one;
- `WorkerFollows`: the log holds every operation up to the one in flight, which it may or may not
  hold, and the revision the workflow holds is that of its last receipt;
- `AttemptKnows(a)`: what attempt `a` may conclude from its phase. An attempt that judges holds the
  lock, read the row that still stands, and belongs to the operation in flight, which is not on
  record; an attempt that answered or resolves finds its operation recorded; only an abandoned
  attempt of an older operation can have been refused over a revision.

There is one lemma per action and per conjunct it can disturb, `NextIInv` combines them, and the
refinement maps `Write` to `Record`, `Acknowledge` to `Confirm` and everything else to a stutter.
`IInv` was checked with TLC first.

`OrderIntakeProofs` proves, for any requests, any number of calls at once and of repetitions
(`RequestsAssumption`, `DigestAssumption`: a digest covers the order it is taken of,
`BoundsAssumption`, `NamesAssumption`), every invariant of `order_intake` and, as
`ImplementsRegistry`, `Spec => KeepsRegistry`. Its `IInv` adds what each call may conclude from
the place it has reached (`CallKnows`: for one, a request that lost a race finds its command or
its order when it looks again), what each answer claims (`AnswerHolds`), that rows are unique by
order and by command, that a row moves on only once Temporal knows its workflow, and that it knows
it once. The table, the executions, the templates and the signals only grow, so what is read or
told stays true: that is stated once (`Grown`), and `CallFrame` and `AnswerFrame` carry it to
whatever an action leaves alone. The refinement has `RegisterStep` for an insert, `StartStep` for
a first start, and `UnseenStep` for the rest.

`OrderSupervisorFlow` and `OrderSupervisorProofs` prove, for any finite set of commands and any
bounds (`CommandsAssumption`: an id is one command's; `BoundsAssumption`: attempts, stale discards,
late rounds and the batch are not zero), every invariant of the two supervisor runs and
`Spec => KeepsLifecycle`. A property of the queue, the drafts or the identities is never inductive
here, because a transaction is prepared at one await and takes effect at another. `IInv` is

- `FlowKnown`: for each place of the coroutine whether the run is closing and what status it may
  show, and for each operation in flight what its candidate changes, which identities and which
  command it carries, and where it goes on. Every other conjunct rests on it;
- `ClaimsKnown`: identities on record against the counters the next ones are made of, with one
  number taken and not yet used while a review is under way. It gives `MintedOnce`;
- `DraftsKnown`: no message has the number of a live draft or of one that is about to be recorded,
  and an approved draft is among those approved. It gives `MessagesAsApproved`;
- `LatchesKnown`: latches belong to holds, and what a rollover carries is empty;
- `WaitsKnown`: what a pass has settled when it stands at `memory`, `settle`, `roll` or `wait` with
  nothing queued. It gives `WaitsSettled`;
- `DrainKnown`: what is due next is judged on an empty queue;
- `ArrivalsKnown`: late rounds and what is queued are together no more than what arrived, since
  every round takes at least one;
- `Accounted`: per command, answered + queued + with its handler is at most what was delivered, and
  equal to it within one execution until the run closes, or to the end if few commands arrive.

Theorems, beside types: `IdentitiesMintedOnce`, `MessagesStandApproved`, `LatchesBacked`,
`WaitsStaySettled` and `AnsweredAtMostOnce` for every bound. `EffectsFromEmptyQueue`: an effect is
sent only while nothing is queued or with a handler, in every execution. The code does not give
more over a rollover, where it can lose a command (finding e), so `EffectsWaitForAnswers` and
`NothingLostBeforeClose` say `MaxRollovers = 0`. `NothingLost` states `CommandsConserved` to the
return: there the code drops what is behind the 32nd command of a round and what comes after the
8th round, so it also says that no more commands arrive than one round answers and than there are
rounds. `LostOnlyByHandoverOrClose` needs no such bound: whatever arrives, and in whichever
execution, a command is lost only by the restore of a handover and by a late round with more than it
answers, and what is lost stays lost. `ImplementsLifecycle` maps `Receipt`, which promotes a candidate, to the
abstract step of its operation, the steps that fix the cause to `Latch`, and the rest to a stutter;
with it, `CauseIsFinal` (the cause of closure and the effects stand once it is fixed) and
`ClosesUnderItsCause` (a closed run shows the status of its cause).

`OrderDeskProofs`, with the lemmas of `OrderDeskRules`, proves every property of `order_desk`, for
any profile, template, references, events, instructions, model answers and narratives, and any of
the limits (`InputsAssumption`: answers have the contract's shape and finitely many hints;
`UnknownTypesAssumption`: an issue of an unknown type has a name of its own, which the prefix
`unknown:` of `events.py:104` gives it; `ProfileAssumption`, `TemplateAssumption`,
`ReviewAssumption`, `IssueBoundsAssumption`, `DeskBoundsAssumption`, `NoReferenceAssumption`).
`IInv` is `TypeOK`, the four invariants that are inductive together, and what they need:

- `ReviewKnown`: as long as the context stands a review is stamped with, nothing open came after it
  began, so recording its decision leaves no concern behind (`ConcernsAwaited`), and what it covers
  is on record (`CoverageHonest`);
- `ContactsKnown`, `MessagesKnown`: nobody was told of more than there is; an issue about which
  there is a message has moved on since, or bears that contact or a later one. A resolved issue
  that opens again does so with newer evidence. They give `NoEarlyRepeat`;
- `DraftKnown`: while its context stands a waiting draft would still pass the gate, since the clock
  only moves a follow-up closer. It carries `NoEarlyRepeat` over an approval;
- `GuidanceKnown`: a hint that shortens reviews lies within the profile (`ReviewsInRange`);
- `FactsBacked`: what is confirmed or delivered was reported (`ReportTrue`).

Theorems: `TypeCorrectness`, `NoConcernSleptOn`, `ContactsSpaced`, `SummaryHonest`, `SummaryGrows`,
`ScheduleKept`, `CustomersReviewed`, `GuidanceHolds`, `NarrativeTrue` and `LateEvidenceWaits` without
more. Two need a hypothesis, and the code is the reason:

- `ConcernsMatch` and `FactsKept` say `Room`: no more kinds of issue than an order may have open. At
  the limit `open_issue` drops the issue (`events.py:82`), and a failed payment has no concern.

How far disagreement (d) goes is proved too. What a review will cover is fixed when it begins
(`ReviewStands`): while the context stands, nothing joins it. So `OnlyOldestUnread`, for any limits:
whatever a decision covers without having been given it is older than `DeferredLimit` references
that it was given. And `CoveredWasRead`: in a run of at most `DeferredLimit` inputs a decision covers
only what it was given, because what waits grows by one entry an input at most (`WaitingFew`). The
hypothesis cannot be dropped, as `oldest_unread` shows.

The proofs about sets of sequence numbers (`Newest`, `Largest`) rest on every non-empty set of
numbers having a smallest element (`SmallestExists`), which comes from the library's theorem that
strict inclusion is well-founded on finite sets. Every `IInv` was checked with TLC on the instances
of section 3 before it was proved.

Only model-checked: liveness (`OperationSettles`, `AgeCloses`, `StopCloses`, `ApprovalSettles`),
since fairness and `ENABLED` are beyond the prover, and the disagreements of section 6.

## 5. Not modelled

- Prompts, model output schemas and providers: one I/O call whose answer is any proposal. A
  rotation over `PROVIDER_KEYS_PER_ATTEMPT` keys of `PROVIDER_TIMEOUT_SECONDS` each may outlast
  `DECIDE_TIMEOUT` (90 s against 45 s); the workflow then sees a failed attempt, which it has.
- Texts: explanations, subjects, message bodies, and the wording the report gate looks for.
- The context budget in bytes (whether evidence fits is free in `OrderSupervisor`), counters, the
  report's list limits, and the 128th issue.
- Creating and seeding templates, one insert each behind an id nobody else has.
- SQL read views and analytics, migrations, pool and configuration: no state changes of a run.
- The console, a separate program that reads and sends commands.

`PROJECT.json` lists each component with its status; "partly" says in its note what is left out.

## 6. Where the code and its documents disagree

- (a) `run_abandoned`: a commit that fails for good fails the workflow; nothing catches the error,
  and the run stays open with no supervisor. `README.md` promises supervision until delivery,
  termination or maximum age.
- (b) `rollover_sleeps`: a terminate that arrives while the rollover is prepared is recorded, and
  then the run waits for an unrelated signal, the next review or its age before it closes
  (`order.py:390-396`). The comment there says it closes the run.
- (c) `pausing_stuck`: a redelivered pause handled after the resume, having arrived during a
  transaction, leaves `pending_control` set on a run that is not paused (`order.py:664-683`).
- (d) `oldest_unread`: a decision is given the newest 12 pending references (`assembly.py:58`), and its
  boundary passes all of them (`order.py:1183`), so that the oldest are marked as covered unread.
  `assembly.py:5-10` says that evidence never reasoned over stays visible until a decision genuinely
  covers it, and that nothing is dropped silently.
- (e) `handover_loses`: signals handled with the first task of a continued execution, before
  `run()` starts, are overwritten by `_restore` (`order.py:270-277`).
- (f) `repeat_refused`: of two identical creation requests served at once, the second may look its
  command up before the first inserts and its order up after that; it is refused with
  `order_already_supervised` for its own reservation (`storage/runs.py:107`). The docstring of
  `reserve_run` promises that a repeated request resolves to the same reservation.
- (g) `older_reverses`: an older payment failure moves the recorded moment back, and a confirmation
  older than the newest failure then passes as newer (`events.py:231`). `events.py:6` and
  `events.py:176` say that the newer state stands.

Four more, without a run of their own:

- `_dispose_late_commands` takes the whole queue and answers its first 32 (`order.py:1818`); the rest
  is lost. Its docstring (`order.py:1807`) promises known queued commands a visible disposition before
  the workflow returns. With `LateBatch = 1` in `SupervisorProgress.cfg`, TLC finds
  `CommandsConserved` violated.
- A redelivered pause that is recorded as a duplicate still drops the trigger (`order.py:704`), and a
  redelivered resume sets one (`order.py:742`). `ARCHITECTURE_NOTE.md:55` says that a duplicate
  delivery reapplies nothing. `TriggerAfter` has it.
- The proposals of one batch are judged against the issues as they were before it
  (`authorization.py:226`), so two of them may tell one team of one concern.
  `ARCHITECTURE_NOTE.md:109` says that such a repeat is refused; `NoEarlyRepeat` holds of messages of
  different decisions only.
- The promise that (d) breaks is broken between decisions too. An issue keeps its last 12 references,
  considered or not (`events.py:80`), and the deferred ones are cut at 128 (`order.py:495`).

Met while modelling, and not a disagreement with any document:

- `_terminal_pending` is set by any delivered event, applied or not, and never cleared
  (`order.py:152`).
- A `defer_routine` hint may name `payment_confirmed`, and then puts off good news about a concern.
- A report whose receipts came from the snapshot keeps no sign of it (`order.py:1801`).

## 7. Plan

Done: `ExactlyOnce`, `TransitionLog`, `TransitionLogProofs`, `RunLifecycle`, `OrderSupervisor`,
`OrderSupervisorFlow`, `OrderSupervisorProofs`, `OrderRegistry`, `OrderIntake`,
`OrderIntakeProofs`, `EventRules`, `WakePolicy`, `ReviewRules`, `OrderDesk`, `OrderDeskRules`,
`OrderDeskProofs`. Every safety property of the passing runs has its theorem.

Next, most important first:

1. The console's two loops: how `use-command` keeps a command's identity over retries, and how
   `use-run` merges the pages it polls, also after the run has closed.
