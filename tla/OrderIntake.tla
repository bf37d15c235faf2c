---------------------------- MODULE OrderIntake ----------------------------
(***************************************************************************)
(* The API: creating a run (api/runs.py, storage/runs.py), forwarding a    *)
(* command to it (api/commands.py) and editing the template that runs are  *)
(* created from (api/supervisors.py, storage/supervisors.py), over         *)
(* PostgreSQL and Temporal, which share no transaction (api/transport.py). *)
(*                                                                         *)
(* Every request is served by a call of its own; calls interleave at every *)
(* query and at every remote call.  A client that got no answer, or was    *)
(* told to retry, sends the same request again, so any request may come    *)
(* again at any time.                                                      *)
(***************************************************************************)
EXTENDS Naturals, Sequences, FiniteSets

CONSTANTS Orders, CreateCommands, Digests, Commands,
          Creates,    \* the creation requests clients send
          Edits,      \* contents of the template that operators save
          Calls,      \* requests the API serves at the same time
          MaxRuns,    \* bound: run numbers a command may name
          MaxVersions, \* bound: version numbers an edit may name
          MaxSends,   \* bound: requests sent in all
          NoOne, None

Create == [command : CreateCommands, order : Orders, digest : Digests]

ASSUME RequestsAssumption == Creates \subseteq Create /\ CreateCommands \cap Commands = {}

(* digest_of covers the order.                                              *)
ASSUME DigestAssumption == \A r, s \in Creates : r.digest = s.digest => r.order = s.order

ASSUME BoundsAssumption == {MaxRuns, MaxVersions, MaxSends} \subseteq Nat

ASSUME NamesAssumption == NoOne \notin CreateCommands /\ None \notin Create

Forward == [command : Commands, run : 1..MaxRuns]

(* SupervisorUpdate: an edit of the version its author was looking at.      *)
Edit == [edit : Edits, expected_version : 1..MaxVersions]

Statuses == {"starting", "open", "closed"}

Row == [order : Orders, command : CreateCommands, digest : Digests, status : Statuses,
        template : Nat]

CreatePoints == {"template", "by_command", "by_order", "insert", "start"}

ForwardPoints == {"load", "signal"}

EditPoints == {"update", "reload"}

Answers == {"started", "retry_required", "creation_command_conflict",
            "order_already_supervised", "raised", "accepted", "unconfirmed",
            "run_not_found", "run_closed", "run_not_accepting_commands",
            "saved", "supervisor_version_conflict"}

VARIABLES runs,        \* the runs table; a run's id is its place in it
          templates,   \* the edits of the template, its version 1 not counted
          executions,  \* workflow executions Temporal has started, oldest first
          signalled,   \* signals Temporal has recorded: run and command
          calls,       \* where each call is and what it has read
          answers,     \* what clients were told
          sends        \* requests sent, for the bound

vars == <<runs, templates, executions, signalled, calls, answers, sends>>

Idle == [at |-> "idle", request |-> None, retried |-> FALSE, run |-> 0, status |-> "starting",
         template |-> 0]

Version == Len(templates) + 1

Ids == 1..Len(runs)

ByCommand(c) == {i \in Ids : runs[i].command = c}

ByOrder(o) == {i \in Ids : runs[i].order = o}

(* Temporal refuses an id it knows, running or finished (REJECT_DUPLICATE). *)
Known(run) == \E i \in 1..Len(executions) : executions[i].run = run

Running(run) == \E i \in 1..Len(executions) : executions[i].run = run /\ executions[i].running

Init ==
    /\ runs = <<>>
    /\ templates = <<>>
    /\ executions = <<>>
    /\ signalled = {}
    /\ calls = [c \in Calls |-> Idle]
    /\ answers = {}
    /\ sends = 0

---------------------------------------------------------------------------
Send(c, request, at) ==
    /\ calls[c].at = "idle"
    /\ sends < MaxSends
    /\ sends' = sends + 1
    /\ calls' = [calls EXCEPT ![c] = [Idle EXCEPT !.at = at, !.request = request]]
    /\ UNCHANGED <<runs, templates, executions, signalled, answers>>

SendSomething(c) ==
    \/ \E request \in Creates : Send(c, request, "template")
    \/ \E request \in Forward : Send(c, request, "load")
    \/ \E request \in Edit : Send(c, request, "update")

Request(c) == calls[c].request

Goto(c, at) == calls' = [calls EXCEPT ![c].at = at]

(* Mutant of Found: the configuration that was just read is used.           *)
FoundUnfrozen(c, run, at) ==
    calls' = [calls EXCEPT ![c].at = at, ![c].run = run, ![c].status = runs[run].status]

Found(c, run, at) ==
    calls' = [calls EXCEPT ![c].at = at, ![c].run = run, ![c].status = runs[run].status,
                           ![c].template = runs[run].template]

(* The client may or may not see the answer; the call is over.              *)
Tell(c, answer, run) ==
    /\ answers' = answers \cup {[request |-> Request(c), answer |-> answer, run |-> run]}
    /\ calls' = [calls EXCEPT ![c] = Idle]

---------------------------------------------------------------------------
(* create_run reads the template before it looks for the reservation.       *)
ReadTemplate(c) ==
    /\ calls[c].at = "template"
    /\ calls' = [calls EXCEPT ![c].at = "by_command", ![c].template = Version]
    /\ UNCHANGED <<runs, templates, executions, signalled, answers, sends>>

(* Mutant of Update: the version is written and not compared.               *)
UpdateBlindly(c) ==
    /\ calls[c].at = "update"
    /\ Request(c).expected_version <= Version
    /\ templates' = Append(SubSeq(templates, 1, Request(c).expected_version - 1),
                           Request(c).edit)
    /\ Tell(c, "saved", 0)
    /\ UNCHANGED <<runs, executions, signalled, sends>>

(* update_supervisor: one statement compares and writes; when it found      *)
(* nothing to write, the template is read once more, for the answer.        *)
Update(c) ==
    /\ calls[c].at = "update"
    /\ IF Request(c).expected_version = Version
       THEN templates' = Append(templates, Request(c).edit) /\ Tell(c, "saved", 0)
       ELSE Goto(c, "reload") /\ UNCHANGED <<templates, answers>>
    /\ UNCHANGED <<runs, executions, signalled, sends>>

Reload(c) ==
    /\ calls[c].at = "reload"
    /\ Tell(c, "supervisor_version_conflict", 0)
    /\ UNCHANGED <<runs, templates, executions, signalled, sends>>

---------------------------------------------------------------------------
(* reserve_run: two lookups and an insert, each a statement of its own.     *)

(* Mutant of LookUpCommand: the content of the request is not compared.     *)
LookUpCommandOnly(c) ==
    /\ calls[c].at = "by_command"
    /\ IF ByCommand(Request(c).command) = {} THEN Goto(c, "by_order") /\ UNCHANGED answers
       ELSE \E i \in ByCommand(Request(c).command) : Found(c, i, "start") /\ UNCHANGED answers
    /\ UNCHANGED <<runs, templates, executions, signalled, sends>>

(* _existing_for_command: a repeated request resolves to its reservation.   *)
LookUpCommand(c) ==
    /\ calls[c].at = "by_command"
    /\ IF ByCommand(Request(c).command) = {} THEN Goto(c, "by_order") /\ UNCHANGED answers
       ELSE \E i \in ByCommand(Request(c).command) :
                IF runs[i].digest = Request(c).digest
                THEN Found(c, i, "start") /\ UNCHANGED answers
                ELSE Tell(c, "creation_command_conflict", 0)
    /\ UNCHANGED <<runs, templates, executions, signalled, sends>>

LookUpOrder(c) ==
    /\ calls[c].at = "by_order"
    /\ IF ByOrder(Request(c).order) = {} THEN Goto(c, "insert") /\ UNCHANGED answers
       ELSE \E i \in ByOrder(Request(c).order) : Tell(c, "order_already_supervised", i)
    /\ UNCHANGED <<runs, templates, executions, signalled, sends>>

Reserved(c) ==
    [order |-> Request(c).order, command |-> Request(c).command,
     digest |-> Request(c).digest, status |-> "starting", template |-> calls[c].template]

Resolved(c) ==
    [calls EXCEPT ![c].at = "start", ![c].run = Len(runs) + 1, ![c].status = "starting"]

Unique(c) == ByOrder(Request(c).order) = {} /\ ByCommand(Request(c).command) = {}

(* Mutant of Insert: a lost race is ignored and the minted id used anyway.  *)
InsertOrIgnore(c) ==
    /\ calls[c].at = "insert"
    /\ runs' = IF Unique(c) THEN Append(runs, Reserved(c)) ELSE runs
    /\ calls' = Resolved(c)
    /\ UNCHANGED <<templates, executions, signalled, answers, sends>>

(* Mutant of Insert: the second attempt does not look again.                *)
InsertBlindly(c) ==
    /\ calls[c].at = "insert"
    /\ \/ /\ Unique(c)
          /\ runs' = Append(runs, Reserved(c))
          /\ calls' = Resolved(c)
          /\ UNCHANGED answers
       \/ /\ ~Unique(c) /\ ~calls[c].retried
          /\ calls' = [calls EXCEPT ![c].retried = TRUE]
          /\ UNCHANGED <<runs, answers>>
       \/ /\ ~Unique(c) /\ calls[c].retried
          /\ Tell(c, "raised", 0)
          /\ UNCHANGED runs
    /\ UNCHANGED <<templates, executions, signalled, sends>>

(* Mutant of Insert: only the command is unique, the order is not.          *)
InsertByCommand(c) ==
    /\ calls[c].at = "insert"
    /\ ByCommand(Request(c).command) = {}
    /\ runs' = Append(runs, Reserved(c))
    /\ calls' = Resolved(c)
    /\ UNCHANGED <<templates, executions, signalled, answers, sends>>

(* Both unique indexes speak only now.  The loser of a race looks once more *)
(* and would raise if it lost again.                                        *)
Insert(c) ==
    /\ calls[c].at = "insert"
    /\ \/ /\ Unique(c)
          /\ runs' = Append(runs, Reserved(c))
          /\ calls' = Resolved(c)
          /\ UNCHANGED answers
       \/ /\ ~Unique(c) /\ ~calls[c].retried
          /\ calls' = [calls EXCEPT ![c].at = "by_command", ![c].retried = TRUE]
          /\ UNCHANGED <<runs, answers>>
       \/ /\ ~Unique(c) /\ calls[c].retried
          /\ Tell(c, "raised", 0)
          /\ UNCHANGED runs
    /\ UNCHANGED <<templates, executions, signalled, sends>>

---------------------------------------------------------------------------
(* start_supervisor and signal_run: the remote call may be carried out and  *)
(* its answer lost, or not be carried out at all.                           *)

Execution(c) ==
    [run |-> calls[c].run, input |-> calls[c].status, template |-> calls[c].template,
     running |-> TRUE]

(* Mutant of StartConfirmed: a finished workflow's id may be used again.    *)
StartAgain(c) ==
    /\ calls[c].at = "start"
    /\ executions' = IF Running(calls[c].run) THEN executions ELSE Append(executions, Execution(c))
    /\ Tell(c, "started", calls[c].run)
    /\ UNCHANGED <<runs, templates, signalled, sends>>

(* Also when the workflow exists: this reservation's own, never another.    *)
StartConfirmed(c) ==
    /\ calls[c].at = "start"
    /\ executions' = IF Known(calls[c].run) THEN executions ELSE Append(executions, Execution(c))
    /\ Tell(c, "started", calls[c].run)
    /\ UNCHANGED <<runs, templates, signalled, sends>>

StartUnconfirmed(c) ==
    /\ calls[c].at = "start"
    /\ \/ ~Known(calls[c].run) /\ executions' = Append(executions, Execution(c))
       \/ UNCHANGED executions
    /\ Tell(c, "retry_required", calls[c].run)
    /\ UNCHANGED <<runs, templates, signalled, sends>>

(* load_run and require_open, from the recorded view.                       *)
Load(c) ==
    LET run == Request(c).run IN
    /\ calls[c].at = "load"
    /\ IF run \notin Ids THEN Tell(c, "run_not_found", 0)
       ELSE IF runs[run].status = "closed" THEN Tell(c, "run_closed", run)
       ELSE Found(c, run, "signal") /\ UNCHANGED answers
    /\ UNCHANGED <<runs, templates, executions, signalled, sends>>

(* Mutant of SignalUnconfirmed: no answer is taken for acceptance.          *)
SignalAssumed(c) ==
    /\ calls[c].at = "signal"
    /\ \/ /\ Running(calls[c].run)
          /\ signalled' = signalled \cup {<<calls[c].run, Request(c).command>>}
       \/ UNCHANGED signalled
    /\ Tell(c, "accepted", calls[c].run)
    /\ UNCHANGED <<runs, templates, executions, sends>>

SignalAccepted(c) ==
    /\ calls[c].at = "signal"
    /\ Running(calls[c].run)
    /\ signalled' = signalled \cup {<<calls[c].run, Request(c).command>>}
    /\ Tell(c, "accepted", calls[c].run)
    /\ UNCHANGED <<runs, templates, executions, sends>>

SignalRefused(c) ==
    /\ calls[c].at = "signal"
    /\ ~Running(calls[c].run)
    /\ Tell(c, "run_not_accepting_commands", calls[c].run)
    /\ UNCHANGED <<runs, templates, executions, signalled, sends>>

SignalUnconfirmed(c) ==
    /\ calls[c].at = "signal"
    /\ \/ /\ Running(calls[c].run)
          /\ signalled' = signalled \cup {<<calls[c].run, Request(c).command>>}
       \/ UNCHANGED signalled
    /\ Tell(c, "unconfirmed", calls[c].run)
    /\ UNCHANGED <<runs, templates, executions, sends>>

Serve(c) ==
    \/ ReadTemplate(c) \/ Update(c) \/ Reload(c)
    \/ LookUpCommand(c) \/ LookUpOrder(c) \/ Insert(c)
    \/ StartConfirmed(c) \/ StartUnconfirmed(c)
    \/ Load(c) \/ SignalAccepted(c) \/ SignalRefused(c) \/ SignalUnconfirmed(c)

---------------------------------------------------------------------------
(* The workflow, as far as the API can tell: it alone moves the recorded    *)
(* status on, and it ends after closing the run or by failing.              *)

Advance(i) ==
    /\ executions[i].running
    /\ LET run == executions[i].run IN
       /\ runs[run].status # "closed"
       /\ runs' = [runs EXCEPT ![run].status =
                      IF @ = "starting" THEN "open" ELSE "closed"]
    /\ UNCHANGED <<templates, executions, signalled, calls, answers, sends>>

End(i) ==
    /\ executions[i].running
    /\ executions' = [executions EXCEPT ![i].running = FALSE]
    /\ UNCHANGED <<runs, templates, signalled, calls, answers, sends>>

Next ==
    \/ \E c \in Calls : SendSomething(c) \/ Serve(c)
    \/ \E i \in 1..Len(executions) : Advance(i) \/ End(i)

Spec == Init /\ [][Next]_vars

---------------------------------------------------------------------------
Call == [at : {"idle"} \cup CreatePoints \cup ForwardPoints \cup EditPoints,
         request : Create \cup Forward \cup Edit \cup {None}, retried : BOOLEAN,
         run : {0} \cup Ids, status : Statuses, template : 0..Version]

TypeOK ==
    /\ runs \in Seq(Row)
    /\ templates \in Seq(Edits)
    /\ executions \in Seq([run : Ids, input : Statuses, template : 1..Version,
                           running : BOOLEAN])
    /\ signalled \subseteq Ids \X Commands
    /\ calls \in [Calls -> Call]
    /\ answers \subseteq [request : Create \cup Forward \cup Edit, answer : Answers, run : {0} \cup Ids]
    /\ sends \in 0..MaxSends

CreateAnswers == {a \in answers : a.request \in Create}

(* Whoever creates, in whatever order the calls interleave, is told of the   *)
(* run of the order it named, and a command is only ever told of one run     *)
(* as its own (reserve_run: "never mint a second identity").                 *)
OneIdentity ==
    \A a, b \in CreateAnswers :
        /\ a.run # 0 => runs[a.run].order = a.request.order
        /\ {a.answer, b.answer} \subseteq {"started", "retry_required"}
              /\ a.request.command = b.request.command => a.run = b.run

(* The insert that lost a race finds the winner when it looks again: no      *)
(* call ends in the unique violation that reserve_run would let through.     *)
NeverRaises == \A a \in answers : a.answer # "raised"

(* The snapshot a call read before its remote call is never stale when it    *)
(* becomes a workflow's input: every execution starts from a run that is     *)
(* still "starting", so it initializes the order, and does so once.          *)
StartsFresh == \A i \in 1..Len(executions) : executions[i].input = "starting"

(* What the API confirms has happened: "a signal that is not confirmed is    *)
(* never reported as accepted" (transport.py), and no start is claimed for   *)
(* a workflow Temporal does not have.                                        *)
AnswersTrue ==
    \A a \in answers :
        /\ a.answer = "started" => Known(a.run)
        /\ a.answer = "accepted" => <<a.run, a.request.command>> \in signalled

(* An edit that was answered as saved is, for good, the version that follows *)
(* the one its author saw: nobody else's edit of that version replaced it    *)
(* (StaleConfiguration).                                                     *)
EditsKept ==
    \A a \in answers :
        a.answer = "saved" =>
            /\ a.request.expected_version <= Len(templates)
            /\ templates[a.request.expected_version] = a.request.edit

(* "Active runs keep their frozen snapshot" (update_supervisor): a run is    *)
(* started with the configuration of its reservation, also by a repeated     *)
(* request that has read a later one.                                        *)
StartsFrozen ==
    \A i \in 1..Len(executions) :
        executions[i].template = runs[executions[i].run].template

(* Rows and executions implement the abstract registry of orders.            *)
Registry == INSTANCE OrderRegistry WITH
    owner <- [o \in Orders |-> IF ByOrder(o) = {} THEN NoOne
                               ELSE runs[CHOOSE i \in ByOrder(o) : TRUE].command],
    starts <- [o \in Orders |->
                  Cardinality({i \in 1..Len(executions) : runs[executions[i].run].order = o})]

KeepsRegistry == Registry!Spec

(* "Resolve the same reservation for a repeated request" (reserve_run): a    *)
(* request that holds the order is not told that somebody else does.         *)
RepeatResolves ==
    \A a \in CreateAnswers :
        a.answer = "order_already_supervised" => runs[a.run].command # a.request.command
=============================================================================
