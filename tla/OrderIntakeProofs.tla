------------------------- MODULE OrderIntakeProofs -------------------------
(***************************************************************************)
(* Proofs about the API over the database and Temporal, for any requests,  *)
(* any number of calls at once and any number of repetitions.              *)
(*                                                                         *)
(* The argument: a row keeps its order, command, digest and template for   *)
(* ever, an execution, a template version and a signal are never taken     *)
(* back, and a row moves on only once Temporal knows its workflow.  So     *)
(* what a call has read, and what a client was told, stays true.           *)
(***************************************************************************)
EXTENDS OrderIntake, SequenceTheorems, FiniteSetTheorems, TLAPS

RowsUnique ==
    \A i, j \in Ids :
        runs[i].order = runs[j].order \/ runs[i].command = runs[j].command => i = j

RowsAsked ==
    \A i \in Ids :
        /\ runs[i].template \in 1..Version
        /\ \E r \in Creates : r.order = runs[i].order /\ r.digest = runs[i].digest

StartedOnce ==
    \A i, j \in 1..Len(executions) : executions[i].run = executions[j].run => i = j

MovesOnceStarted == \A i \in Ids : runs[i].status # "starting" => Known(i)

Own(run, request) ==
    /\ run \in Ids
    /\ runs[run].order = request.order
    /\ runs[run].command = request.command

(* What the place of a call says of what it has read.                       *)
CallKnows(c) ==
    LET k == calls[c] IN
    /\ k.at \in CreatePoints => k.request \in Creates
    /\ k.at \in ForwardPoints => k.request \in Forward
    /\ k.at \in EditPoints => k.request \in Edit
    /\ k.at \in {"by_command", "by_order", "insert", "start"} => k.template # 0
    /\ k.at = "by_command" /\ k.retried => ~Unique(c)
    /\ k.at = "by_order" /\ k.retried => ByOrder(k.request.order) # {}
    /\ k.at \in {"template", "insert"} => ~k.retried
    /\ k.at = "start" =>
           /\ Own(k.run, k.request)
           /\ k.template = runs[k.run].template
           /\ k.status = "starting" \/ Known(k.run)
    /\ k.at = "signal" => k.run \in Ids

AnswerHolds(a) ==
    /\ a.answer # "raised"
    /\ a.answer \in {"started", "retry_required"} => Own(a.run, a.request)
    /\ a.request \in Create /\ a.run # 0 => runs[a.run].order = a.request.order
    /\ a.answer = "started" => Known(a.run)
    /\ a.answer = "accepted" => <<a.run, a.request.command>> \in signalled
    /\ a.answer = "saved" =>
           /\ a.request \in Edit
           /\ a.request.expected_version <= Len(templates)
           /\ templates[a.request.expected_version] = a.request.edit

IInv ==
    /\ TypeOK
    /\ RowsUnique
    /\ RowsAsked
    /\ StartedOnce
    /\ MovesOnceStarted
    /\ StartsFresh
    /\ StartsFrozen
    /\ \A c \in Calls : CallKnows(c)
    /\ \A a \in answers : AnswerHolds(a)

---------------------------------------------------------------------------
(* What no step takes back.                                                 *)
Grown ==
    /\ Len(runs) <= Len(runs')
    /\ \A i \in Ids :
           /\ runs'[i].order = runs[i].order
           /\ runs'[i].command = runs[i].command
           /\ runs'[i].template = runs[i].template
           /\ Known(i) => Known(i)'
    /\ Len(templates) <= Len(templates')
    /\ \A v \in 1..Len(templates) : templates'[v] = templates[v]
    /\ signalled \subseteq signalled'

LEMMA SeqFacts ==
    ASSUME NEW S, NEW s \in Seq(S)
    PROVE  Len(s) \in Nat /\ \A i \in 1..Len(s) : s[i] \in S
  OBVIOUS

LEMMA SeqTyped ==
    ASSUME NEW S, NEW T, NEW s \in Seq(S), \A i \in 1..Len(s) : s[i] \in T
    PROVE  s \in Seq(T)
  OBVIOUS

LEMMA SeqAppend ==
    ASSUME NEW S, NEW s \in Seq(S), NEW x
    PROVE  /\ Len(Append(s, x)) = Len(s) + 1
           /\ \A i \in 1..Len(s) : Append(s, x)[i] = s[i]
           /\ Append(s, x)[Len(s) + 1] = x
  OBVIOUS

LEMMA Lengths ==
    ASSUME TypeOK
    PROVE  /\ Len(runs) \in Nat /\ Len(templates) \in Nat /\ Len(executions) \in Nat
           /\ Version \in Nat /\ Version # 0
           /\ \A i \in Ids : runs[i] \in Row
           /\ \A i \in 1..Len(executions) :
                  executions[i] \in [run : Ids, input : Statuses, template : 1..Version,
                                     running : BOOLEAN]
  <1>1. Len(runs) \in Nat /\ \A i \in Ids : runs[i] \in Row
    BY DEF TypeOK, Ids
  <1>2. Len(templates) \in Nat /\ Version \in Nat /\ Version # 0
    BY DEF TypeOK, Version
  <1>3. /\ Len(executions) \in Nat
        /\ \A i \in 1..Len(executions) :
               executions[i] \in [run : Ids, input : Statuses, template : 1..Version,
                                  running : BOOLEAN]
    BY SeqFacts DEF TypeOK
  <1> QED
    BY <1>1, <1>2, <1>3

LEMMA GrownIds ==
    ASSUME TypeOK, TypeOK', Grown
    PROVE  /\ Ids \subseteq Ids'
           /\ \A o : ByOrder(o) \subseteq ByOrder(o)'
           /\ \A n : ByCommand(n) \subseteq ByCommand(n)'
  <1>1. Len(runs) \in Nat /\ Len(runs') \in Nat
    BY DEF TypeOK
  <1>2. Ids \subseteq Ids'
    BY <1>1 DEF Grown, Ids
  <1> QED
    BY <1>2 DEF Grown, ByOrder, ByCommand

(* A call that does not move knows what it knew.                            *)
LEMMA CallFrame ==
    ASSUME IInv, TypeOK', Grown, NEW c \in Calls, calls'[c] = calls[c]
    PROVE  CallKnows(c)'
  <1>1. CallKnows(c)
    BY DEF IInv
  <1>2. /\ Ids \subseteq Ids'
        /\ \A o : ByOrder(o) \subseteq ByOrder(o)'
        /\ \A n : ByCommand(n) \subseteq ByCommand(n)'
    BY GrownIds DEF IInv
  <1>3. calls[c].at = "by_command" /\ calls[c].retried => ~Unique(c)'
    BY <1>1, <1>2 DEF CallKnows, Unique, Request
  <1>4. calls[c].at = "by_order" /\ calls[c].retried => ByOrder(calls[c].request.order)' # {}
    BY <1>1, <1>2 DEF CallKnows
  <1>5. calls[c].at = "start" =>
            /\ Own(calls[c].run, calls[c].request)'
            /\ calls[c].template = runs'[calls[c].run].template
            /\ calls[c].status = "starting" \/ Known(calls[c].run)'
    <2> SUFFICES ASSUME calls[c].at = "start"
                 PROVE  /\ Own(calls[c].run, calls[c].request)'
                        /\ calls[c].template = runs'[calls[c].run].template
                        /\ calls[c].status = "starting" \/ Known(calls[c].run)'
      OBVIOUS
    <2>1. /\ calls[c].run \in Ids
          /\ runs[calls[c].run].order = calls[c].request.order
          /\ runs[calls[c].run].command = calls[c].request.command
          /\ calls[c].template = runs[calls[c].run].template
          /\ calls[c].status = "starting" \/ Known(calls[c].run)
      BY <1>1 DEF CallKnows, Own
    <2> QED
      BY <1>2, <2>1 DEF Grown, Own
  <1>6. calls[c].at = "signal" => calls[c].run \in Ids'
    BY <1>1, <1>2 DEF CallKnows
  <1> QED
    BY <1>1, <1>3, <1>4, <1>5, <1>6 DEF CallKnows

(* What was answered stays true.                                            *)
LEMMA AnswerFrame ==
    ASSUME IInv, TypeOK', Grown, NEW a \in answers
    PROVE  AnswerHolds(a)'
  <1>1. AnswerHolds(a) /\ a.run \in {0} \cup Ids
    BY DEF IInv, TypeOK
  <1>2. Ids \subseteq Ids'
    BY GrownIds DEF IInv
  <1>3. a.answer \in {"started", "retry_required"} => Own(a.run, a.request)'
    BY <1>1, <1>2 DEF AnswerHolds, Own, Grown
  <1>4. a.request \in Create /\ a.run # 0 => runs'[a.run].order = a.request.order
    BY <1>1 DEF AnswerHolds, Grown
  <1>5. a.answer = "started" => Known(a.run)'
    BY <1>1 DEF AnswerHolds, Own, Grown
  <1>6. a.answer = "accepted" => <<a.run, a.request.command>> \in signalled'
    BY <1>1 DEF AnswerHolds, Grown
  <1>7. a.answer = "saved" =>
            /\ a.request \in Edit
            /\ a.request.expected_version <= Len(templates')
            /\ templates'[a.request.expected_version] = a.request.edit
    <2> SUFFICES ASSUME a.answer = "saved"
                 PROVE  /\ a.request \in Edit
                        /\ a.request.expected_version <= Len(templates')
                        /\ templates'[a.request.expected_version] = a.request.edit
      OBVIOUS
    <2>1. /\ a.request \in Edit
          /\ a.request.expected_version <= Len(templates)
          /\ templates[a.request.expected_version] = a.request.edit
      BY <1>1 DEF AnswerHolds
    <2>2. a.request.expected_version \in 1..Len(templates)
      BY <2>1, BoundsAssumption DEF Edit
    <2>3. Len(templates) \in Nat /\ Len(templates') \in Nat
      BY DEF IInv, TypeOK
    <2> QED
      BY <2>1, <2>2, <2>3 DEF Grown
  <1> QED
    BY <1>1, <1>3, <1>4, <1>5, <1>6, <1>7 DEF AnswerHolds

---------------------------------------------------------------------------
(* A step of one call that leaves rows, versions and executions alone.      *)
LEMMA QuietStep ==
    ASSUME IInv, UNCHANGED <<runs, templates, executions>>,
           signalled \subseteq signalled', signalled' \subseteq Ids \X Commands,
           sends' \in 0..MaxSends,
           NEW c \in Calls, calls' \in [Calls -> Call],
           \A d \in Calls \ {c} : calls'[d] = calls[d],
           CallKnows(c)',
           answers' \subseteq [request : Create \cup Forward \cup Edit, answer : Answers,
                               run : {0} \cup Ids],
           \A a \in answers' : a \in answers \/ AnswerHolds(a)'
    PROVE  IInv'
  <1>1. /\ Ids' = Ids /\ Version' = Version /\ Call' = Call
        /\ Len(runs) \in Nat /\ Len(templates) \in Nat
    BY DEF Ids, Version, Call, IInv, TypeOK
  <1>2. TypeOK'
    BY <1>1 DEF IInv, TypeOK
  <1>3. Grown
    BY <1>1 DEF Grown, Known
  <1>4. RowsUnique' /\ RowsAsked' /\ StartedOnce' /\ MovesOnceStarted' /\ StartsFresh' /\ StartsFrozen'
    BY <1>1 DEF IInv, RowsUnique, RowsAsked, StartedOnce, MovesOnceStarted, StartsFresh,
                StartsFrozen, Known
  <1>5. \A d \in Calls : CallKnows(d)'
    BY <1>2, <1>3, CallFrame
  <1>6. \A a \in answers' : AnswerHolds(a)'
    BY <1>2, <1>3, AnswerFrame
  <1> QED
    BY <1>2, <1>4, <1>5, <1>6 DEF IInv

(* A call that is over knows nothing.                                       *)
LEMMA IdleKnows ==
    ASSUME NEW c \in Calls, calls'[c] = Idle
    PROVE  CallKnows(c)'
  BY DEF CallKnows, Idle, CreatePoints, ForwardPoints, EditPoints

LEMMA IdleTyped == Idle \in Call
  BY DEF Idle, Call, Statuses, Version

(* A call that only tells its client something true.                        *)
LEMMA QuietTell ==
    ASSUME IInv, UNCHANGED <<runs, templates, executions, sends>>,
           signalled \subseteq signalled', signalled' \subseteq Ids \X Commands,
           NEW c \in Calls, NEW STATE answer, NEW STATE run, answer \in Answers, run \in {0} \cup Ids,
           Tell(c, answer, run),
           Request(c) \in Create \cup Forward \cup Edit,
           \A a : a = [request |-> Request(c), answer |-> answer, run |-> run] => AnswerHolds(a)'
    PROVE  IInv'
  <1>1. calls' \in [Calls -> Call] /\ calls'[c] = Idle /\ \A d \in Calls \ {c} : calls'[d] = calls[d]
    BY IdleTyped DEF IInv, TypeOK, Tell
  <1>2. CallKnows(c)'
    BY <1>1, IdleKnows
  <1>3. answers' \subseteq [request : Create \cup Forward \cup Edit, answer : Answers,
                            run : {0} \cup Ids]
    BY DEF IInv, TypeOK, Tell
  <1>4. \A a \in answers' : a \in answers \/ AnswerHolds(a)'
    BY DEF Tell
  <1>5. sends' \in 0..MaxSends
    BY DEF IInv, TypeOK
  <1> QED
    BY <1>1, <1>2, <1>3, <1>4, <1>5, QuietStep

(* A call that only goes on.                                                *)
LEMMA QuietGo ==
    ASSUME IInv, UNCHANGED <<runs, templates, executions, signalled, answers>>,
           sends' \in 0..MaxSends,
           NEW c \in Calls, NEW STATE k, k \in Call, calls' = [calls EXCEPT ![c] = k],
           CallKnows(c)'
    PROVE  IInv'
  <1>1. calls' \in [Calls -> Call] /\ \A d \in Calls \ {c} : calls'[d] = calls[d]
    BY DEF IInv, TypeOK
  <1>2. /\ signalled' \subseteq Ids \X Commands /\ signalled \subseteq signalled'
        /\ answers' \subseteq [request : Create \cup Forward \cup Edit, answer : Answers,
                               run : {0} \cup Ids]
    BY DEF IInv, TypeOK
  <1> QED
    BY <1>1, <1>2, QuietStep

---------------------------------------------------------------------------
(* Every action preserves the invariant.                                    *)

LEMMA SendIInv ==
    ASSUME IInv, NEW c \in Calls, SendSomething(c)
    PROVE  IInv'
  <1>1. PICK request \in Create \cup Forward \cup Edit, at \in {"template", "load", "update"} :
            /\ Send(c, request, at)
            /\ at = "template" => request \in Creates
            /\ at = "load" => request \in Forward
            /\ at = "update" => request \in Edit
    BY RequestsAssumption DEF SendSomething
  <1> DEFINE k == [Idle EXCEPT !.at = at, !.request = request]
  <1>2. k \in Call /\ k.at = at /\ k.request = request /\ ~k.retried
    BY IdleTyped DEF Idle, Call, CreatePoints, ForwardPoints, EditPoints
  <1>3. calls' = [calls EXCEPT ![c] = k] /\ calls'[c] = k
    BY <1>1 DEF Send, IInv, TypeOK
  <1> HIDE DEF k
  <1>4. CallKnows(c)'
    BY <1>1, <1>2, <1>3 DEF CallKnows, CreatePoints, ForwardPoints, EditPoints
  <1>5. sends' \in 0..MaxSends
    BY <1>1, BoundsAssumption DEF Send, IInv, TypeOK
  <1> QED
    BY <1>1, <1>2, <1>3, <1>4, <1>5, QuietGo DEF Send

LEMMA ReadTemplateIInv ==
    ASSUME IInv, NEW c \in Calls, ReadTemplate(c)
    PROVE  IInv'
  <1> DEFINE k == [calls[c] EXCEPT !.at = "by_command", !.template = Version]
  <1>1. calls[c] \in Call /\ CallKnows(c) /\ Version \in 0..Version /\ Version # 0
    BY Lengths DEF IInv, TypeOK
  <1>2. /\ k \in Call /\ k.at = "by_command" /\ k.template # 0
        /\ k.request = calls[c].request /\ k.retried = calls[c].retried
    BY <1>1 DEF Call, CreatePoints
  <1>3. calls' = [calls EXCEPT ![c] = k] /\ calls'[c] = k
    BY DEF ReadTemplate, IInv, TypeOK
  <1> HIDE DEF k
  <1>4. k.request \in Creates /\ ~k.retried
    BY <1>1, <1>2 DEF ReadTemplate, CallKnows, CreatePoints
  <1>5. CallKnows(c)'
    BY <1>2, <1>3, <1>4 DEF CallKnows, ForwardPoints, EditPoints
  <1>6. sends' \in 0..MaxSends
    BY DEF IInv, TypeOK, ReadTemplate
  <1> QED
    BY <1>2, <1>3, <1>5, <1>6, QuietGo DEF ReadTemplate

LEMMA ReloadIInv ==
    ASSUME IInv, NEW c \in Calls, Reload(c)
    PROVE  IInv'
  <1>1. Request(c) \in Edit
    BY DEF IInv, CallKnows, Reload, EditPoints, Request
  <1>2. \A a : a = [request |-> Request(c), answer |-> "supervisor_version_conflict", run |-> 0]
               => AnswerHolds(a)'
    BY DEF AnswerHolds
  <1>3. /\ "supervisor_version_conflict" \in Answers
        /\ signalled \subseteq signalled' /\ signalled' \subseteq Ids \X Commands
    BY DEF Answers, Reload, IInv, TypeOK
  <1> QED
    BY <1>1, <1>2, <1>3, QuietTell DEF Reload

(* A call that found a row goes on with what the row says.                  *)
LEMMA FoundCall ==
    ASSUME IInv, NEW c \in Calls, NEW i \in Ids, NEW at \in {"start", "signal"},
           Found(c, i, at)
    PROVE  \E k \in Call :
               /\ calls' = [calls EXCEPT ![c] = k] /\ calls'[c] = k
               /\ k.at = at /\ k.run = i /\ k.status = runs[i].status
               /\ k.template = runs[i].template /\ k.template # 0
               /\ k.request = calls[c].request
  <1> DEFINE k == [calls[c] EXCEPT !.at = at, !.run = i, !.status = runs[i].status,
                                   !.template = runs[i].template]
  <1>1. /\ calls[c] \in Call /\ runs[i] \in Row
        /\ runs[i].template \in 0..Version /\ runs[i].template # 0
    BY Lengths DEF IInv, TypeOK, RowsAsked
  <1>2. /\ k \in Call /\ k.at = at /\ k.run = i /\ k.status = runs[i].status
        /\ k.template = runs[i].template /\ k.request = calls[c].request
    BY <1>1 DEF Call, Row, CreatePoints, ForwardPoints
  <1>3. calls' = [calls EXCEPT ![c] = k] /\ calls'[c] = k
    BY DEF Found, IInv, TypeOK
  <1> QED
    BY <1>1, <1>2, <1>3

LEMMA FoundStart ==
    ASSUME IInv, NEW c \in Calls, NEW i \in Ids, Found(c, i, "start"),
           calls[c].at \in CreatePoints, Own(i, Request(c)),
           UNCHANGED <<runs, templates, executions, signalled, answers, sends>>
    PROVE  IInv'
  <1>1. PICK k \in Call :
            /\ calls' = [calls EXCEPT ![c] = k] /\ calls'[c] = k
            /\ k.at = "start" /\ k.run = i /\ k.status = runs[i].status
            /\ k.template = runs[i].template /\ k.template # 0
            /\ k.request = calls[c].request
    BY FoundCall
  <1>2. k.request \in Creates /\ Own(i, k.request) /\ (k.status = "starting" \/ Known(i))
    BY <1>1 DEF IInv, CallKnows, MovesOnceStarted, Request
  <1>3. Own(i, k.request)' /\ (Known(i) => Known(i)')
    BY <1>2 DEF Own, Known, Ids
  <1>4. CallKnows(c)'
    BY <1>1, <1>2, <1>3 DEF CallKnows, ForwardPoints, EditPoints
  <1>5. sends' \in 0..MaxSends
    BY DEF IInv, TypeOK
  <1> QED
    BY <1>1, <1>4, <1>5, QuietGo

LEMMA LookUpCommandIInv ==
    ASSUME IInv, NEW c \in Calls, LookUpCommand(c)
    PROVE  IInv'
  <1>1. /\ Request(c) \in Creates /\ Request(c) \in Create
        /\ CallKnows(c) /\ calls[c] \in Call /\ calls[c].at = "by_command"
    BY RequestsAssumption DEF IInv, TypeOK, CallKnows, LookUpCommand, CreatePoints, Request
  <1>2. CASE ByCommand(Request(c).command) = {}
    <2>0. PICK k : k = [calls[c] EXCEPT !.at = "by_order"]
      OBVIOUS
    <2>1. /\ k \in Call /\ k.at = "by_order" /\ k.request = Request(c)
          /\ k.template = calls[c].template /\ k.retried = calls[c].retried
      BY <1>1, <2>0 DEF Call, CreatePoints, Request
    <2>2. calls' = [calls EXCEPT ![c] = k] /\ calls'[c] = k
      BY <1>2, <2>0 DEF LookUpCommand, Goto, IInv, TypeOK
    <2>3. k.retried => ByOrder(k.request.order)' # {}
      BY <1>1, <1>2, <2>1 DEF CallKnows, Unique, LookUpCommand, ByOrder, Ids
    <2>4. CallKnows(c)'
      BY <1>1, <2>1, <2>2, <2>3 DEF CallKnows, ForwardPoints, EditPoints
    <2>5. UNCHANGED <<runs, templates, executions, signalled, answers>> /\ sends' \in 0..MaxSends
      BY <1>2 DEF LookUpCommand, IInv, TypeOK
    <2> QED
      BY <2>1, <2>2, <2>4, <2>5, QuietGo
  <1>3. ASSUME NEW i \in ByCommand(Request(c).command),
               runs[i].digest = Request(c).digest, Found(c, i, "start"), UNCHANGED answers
        PROVE  IInv'
    <2>1. i \in Ids /\ runs[i].command = Request(c).command
      BY DEF ByCommand
    <2>2. runs[i].order = Request(c).order
      BY <1>1, <1>3, <2>1, DigestAssumption DEF IInv, RowsAsked
    <2>3. calls[c].at \in CreatePoints
      BY <1>1 DEF CreatePoints
    <2> QED
      BY <1>3, <2>1, <2>2, <2>3, FoundStart DEF LookUpCommand, Own
  <1>4. CASE Tell(c, "creation_command_conflict", 0)
    <2>1. \A a : a = [request |-> Request(c), answer |-> "creation_command_conflict", run |-> 0]
               => AnswerHolds(a)'
      BY DEF AnswerHolds
    <2>2. /\ "creation_command_conflict" \in Answers
          /\ signalled \subseteq signalled' /\ signalled' \subseteq Ids \X Commands
      BY DEF Answers, LookUpCommand, IInv, TypeOK
    <2> QED
      BY <1>1, <1>4, <2>1, <2>2, QuietTell DEF LookUpCommand
  <1> QED
    BY <1>2, <1>3, <1>4 DEF LookUpCommand

LEMMA LookUpOrderIInv ==
    ASSUME IInv, NEW c \in Calls, LookUpOrder(c)
    PROVE  IInv'
  <1>1. /\ Request(c) \in Creates /\ Request(c) \in Create
        /\ CallKnows(c) /\ calls[c] \in Call /\ calls[c].at = "by_order"
    BY RequestsAssumption DEF IInv, TypeOK, CallKnows, LookUpOrder, CreatePoints, Request
  <1>2. CASE ByOrder(Request(c).order) = {}
    <2>0. PICK k : k = [calls[c] EXCEPT !.at = "insert"]
      OBVIOUS
    <2>1. /\ k \in Call /\ k.at = "insert" /\ k.request = Request(c)
          /\ k.template = calls[c].template /\ k.retried = calls[c].retried
      BY <1>1, <2>0 DEF Call, CreatePoints, Request
    <2>2. calls' = [calls EXCEPT ![c] = k] /\ calls'[c] = k
      BY <1>2, <2>0 DEF LookUpOrder, Goto, IInv, TypeOK
    <2>3. ~k.retried
      BY <1>1, <1>2, <2>1 DEF CallKnows, Request
    <2>4. CallKnows(c)'
      BY <1>1, <2>1, <2>2, <2>3 DEF CallKnows, ForwardPoints, EditPoints
    <2>5. UNCHANGED <<runs, templates, executions, signalled, answers>> /\ sends' \in 0..MaxSends
      BY <1>2 DEF LookUpOrder, IInv, TypeOK
    <2> QED
      BY <2>1, <2>2, <2>4, <2>5, QuietGo
  <1>3. ASSUME NEW i \in ByOrder(Request(c).order), Tell(c, "order_already_supervised", i)
        PROVE  IInv'
    <2>1. i \in Ids /\ runs[i].order = Request(c).order
      BY DEF ByOrder
    <2>2. \A a : a = [request |-> Request(c), answer |-> "order_already_supervised", run |-> i]
               => AnswerHolds(a)'
      BY <2>1 DEF AnswerHolds, LookUpOrder
    <2>3. /\ "order_already_supervised" \in Answers
          /\ signalled \subseteq signalled' /\ signalled' \subseteq Ids \X Commands
      BY DEF Answers, LookUpOrder, IInv, TypeOK
    <2> QED
      BY <1>1, <1>3, <2>1, <2>2, <2>3, QuietTell DEF LookUpOrder
  <1> QED
    BY <1>2, <1>3 DEF LookUpOrder

LEMMA LoadIInv ==
    ASSUME IInv, NEW c \in Calls, Load(c)
    PROVE  IInv'
  <1>1. /\ Request(c) \in Forward /\ Request(c) \notin Create
        /\ signalled \subseteq signalled' /\ signalled' \subseteq Ids \X Commands
        /\ UNCHANGED <<runs, templates, executions, signalled, sends>>
    BY RequestsAssumption
       DEF IInv, TypeOK, CallKnows, Load, ForwardPoints, Request, Forward, Create
  <1>2. CASE Tell(c, "run_not_found", 0)
    <2>1. \A a : a = [request |-> Request(c), answer |-> "run_not_found", run |-> 0]
                 => AnswerHolds(a)'
      BY DEF AnswerHolds
    <2>2. "run_not_found" \in Answers
      BY DEF Answers
    <2> QED
      BY <1>1, <1>2, <2>1, <2>2, QuietTell
  <1>3. ASSUME NEW run \in Ids, Tell(c, "run_closed", run)
        PROVE  IInv'
    <2>1. \A a : a = [request |-> Request(c), answer |-> "run_closed", run |-> run]
                 => AnswerHolds(a)'
      BY <1>1 DEF AnswerHolds, Load
    <2>2. "run_closed" \in Answers
      BY DEF Answers
    <2> QED
      BY <1>1, <1>3, <2>1, <2>2, QuietTell
  <1>4. ASSUME NEW run \in Ids, Found(c, run, "signal"), UNCHANGED answers
        PROVE  IInv'
    <2>1. PICK k \in Call :
              /\ calls' = [calls EXCEPT ![c] = k] /\ calls'[c] = k
              /\ k.at = "signal" /\ k.run = run /\ k.request = calls[c].request
      BY <1>4, FoundCall
    <2>2. run \in Ids'
      BY <1>1 DEF Ids
    <2>3. CallKnows(c)'
      BY <1>1, <2>1, <2>2 DEF CallKnows, CreatePoints, EditPoints, Request
    <2>4. sends' \in 0..MaxSends
      BY <1>1 DEF IInv, TypeOK
    <2> QED
      BY <1>1, <1>4, <2>1, <2>3, <2>4, QuietGo
  <1> QED
    BY <1>2, <1>3, <1>4 DEF Load

LEMMA SignalIInv ==
    ASSUME IInv, NEW c \in Calls, SignalAccepted(c) \/ SignalRefused(c) \/ SignalUnconfirmed(c)
    PROVE  IInv'
  <1>1. /\ calls[c].run \in Ids /\ calls[c].at = "signal"
        /\ Request(c) \in Forward /\ Request(c) \notin Create
    BY RequestsAssumption
       DEF IInv, TypeOK, CallKnows, SignalAccepted, SignalRefused, SignalUnconfirmed,
           ForwardPoints, Request, Forward, Create
  <1>2. PICK answer \in Answers, run \in Ids :
            /\ run = calls[c].run
            /\ Tell(c, answer, run)
            /\ answer \in {"accepted", "run_not_accepting_commands", "unconfirmed"}
            /\ answer = "accepted" => <<run, Request(c).command>> \in signalled'
    BY <1>1 DEF SignalAccepted, SignalRefused, SignalUnconfirmed, Answers
  <1>3. signalled \subseteq signalled' /\ signalled' \subseteq Ids \X Commands
    BY <1>1 DEF SignalAccepted, SignalRefused, SignalUnconfirmed, IInv, TypeOK, Forward
  <1>4. \A a : a = [request |-> Request(c), answer |-> answer, run |-> run] => AnswerHolds(a)'
    BY <1>1, <1>2 DEF AnswerHolds
  <1>5. UNCHANGED <<runs, templates, executions, sends>>
    BY DEF SignalAccepted, SignalRefused, SignalUnconfirmed
  <1> QED
    BY <1>1, <1>2, <1>3, <1>4, <1>5, QuietTell

---------------------------------------------------------------------------
(* The steps that write a row, a version or an execution.                   *)

LEMMA TypesGrow ==
    ASSUME IInv, Grown, runs' \in Seq(Row), templates' \in Seq(Edits)
    PROVE  /\ Ids \subseteq Ids' /\ 0..Version \subseteq 0..Version' /\ 1..Version \subseteq 1..Version'
           /\ calls \in [Calls -> Call']
           /\ executions \in Seq([run : Ids', input : Statuses, template : 1..Version',
                                  running : BOOLEAN])
           /\ signalled \subseteq Ids' \X Commands
           /\ answers \subseteq [request : Create \cup Forward \cup Edit, answer : Answers,
                                 run : {0} \cup Ids']
  <1>1. /\ Len(runs) \in Nat /\ Len(runs') \in Nat
        /\ Len(templates) \in Nat /\ Len(templates') \in Nat
    BY DEF IInv, TypeOK
  <1>2. Ids \subseteq Ids' /\ 0..Version \subseteq 0..Version' /\ 1..Version \subseteq 1..Version'
    BY <1>1 DEF Grown, Ids, Version
  <1>3. Call \subseteq Call'
    BY <1>2 DEF Call
  <1>4. executions \in Seq([run : Ids', input : Statuses, template : 1..Version',
                            running : BOOLEAN])
    <2>1. \A i \in 1..Len(executions) :
              executions[i] \in [run : Ids', input : Statuses, template : 1..Version',
                                 running : BOOLEAN]
      BY <1>2, Lengths DEF IInv
    <2> QED
      BY <2>1, SeqTyped DEF IInv, TypeOK
  <1>5. /\ signalled \subseteq Ids' \X Commands
        /\ answers \subseteq [request : Create \cup Forward \cup Edit, answer : Answers,
                              run : {0} \cup Ids']
    BY <1>2 DEF IInv, TypeOK
  <1>6. calls \in [Calls -> Call']
    BY <1>3 DEF IInv, TypeOK
  <1> QED
    BY <1>2, <1>4, <1>5, <1>6

(* What a step of call c has to show of the calls and the answers.          *)
LEMMA CallsAndAnswers ==
    ASSUME IInv, TypeOK', Grown, NEW c \in Calls,
           \A d \in Calls \ {c} : calls'[d] = calls[d],
           CallKnows(c)',
           \A a \in answers' : a \in answers \/ AnswerHolds(a)'
    PROVE  /\ \A d \in Calls : CallKnows(d)'
           /\ \A a \in answers' : AnswerHolds(a)'
  BY CallFrame, AnswerFrame

LEMMA UpdateIInv ==
    ASSUME IInv, NEW c \in Calls, Update(c)
    PROVE  IInv'
  <1>1. /\ Request(c) \in Edit /\ calls[c] \in Call /\ CallKnows(c) /\ calls[c].at = "update"
        /\ UNCHANGED <<runs, executions, signalled, sends>>
    BY DEF IInv, TypeOK, CallKnows, Update, EditPoints, Request
  <1>2. CASE Goto(c, "reload") /\ UNCHANGED <<templates, answers>>
    <2>1. PICK k : k = [calls[c] EXCEPT !.at = "reload"]
      OBVIOUS
    <2>2. k \in Call /\ k.at = "reload" /\ k.request = Request(c)
      BY <1>1, <2>1 DEF Call, EditPoints, Request
    <2>3. calls' = [calls EXCEPT ![c] = k] /\ calls'[c] = k
      BY <1>2, <2>1 DEF Goto, IInv, TypeOK
    <2>4. CallKnows(c)'
      BY <1>1, <2>2, <2>3 DEF CallKnows, CreatePoints, ForwardPoints
    <2>5. sends' \in 0..MaxSends
      BY <1>1 DEF IInv, TypeOK
    <2> QED
      BY <1>1, <1>2, <2>2, <2>3, <2>4, <2>5, QuietGo
  <1>3. CASE /\ Request(c).expected_version = Version
             /\ templates' = Append(templates, Request(c).edit)
             /\ Tell(c, "saved", 0)
    <2>1. /\ templates \in Seq(Edits) /\ Len(templates) \in Nat
          /\ templates' \in Seq(Edits) /\ Len(templates') = Len(templates) + 1
          /\ \A v \in 1..Len(templates) : templates'[v] = templates[v]
          /\ templates'[Version] = Request(c).edit
      BY <1>1, <1>3, SeqAppend DEF IInv, TypeOK, Edit, Version
    <2>2. Grown
      BY <1>1, <2>1 DEF Grown, Known, IInv, TypeOK
    <2>3. runs' \in Seq(Row)
      BY <1>1 DEF IInv, TypeOK
    <2>4. /\ calls'[c] = Idle
          /\ \A d \in Calls \ {c} : calls'[d] = calls[d]
          /\ calls' \in [Calls -> Call']
      <3>1. calls \in [Calls -> Call'] /\ Idle \in Call'
        BY <2>1, <2>2, <2>3, TypesGrow, IdleTyped DEF Call, Idle, Version, Statuses
      <3> QED
        BY <1>3, <3>1 DEF Tell
    <2>5. answers' \subseteq [request : Create \cup Forward \cup Edit, answer : Answers,
                              run : {0} \cup Ids']
      <3>1. [request |-> Request(c), answer |-> "saved", run |-> 0] \in
                [request : Create \cup Forward \cup Edit, answer : Answers, run : {0} \cup Ids']
        BY <1>1 DEF Answers
      <3> QED
        BY <1>3, <2>1, <2>2, <2>3, <3>1, TypesGrow DEF Tell
    <2>6. TypeOK'
      BY <1>1, <2>1, <2>2, <2>3, <2>4, <2>5, TypesGrow DEF TypeOK, IInv
    <2>7. CallKnows(c)'
      BY <2>4, IdleKnows
    <2>8. \A a \in answers' : a \in answers \/ AnswerHolds(a)'
      BY <1>1, <1>3, <2>1 DEF AnswerHolds, Tell, Version
    <2>9. Ids' = Ids /\ 1..Version \subseteq 1..Version'
      BY <1>1, <2>1, <2>2, <2>3, TypesGrow DEF Ids
    <2>10. /\ RowsUnique' /\ RowsAsked' /\ StartedOnce' /\ MovesOnceStarted'
           /\ StartsFresh' /\ StartsFrozen'
      BY <1>1, <2>9 DEF IInv, RowsUnique, RowsAsked, StartedOnce, MovesOnceStarted, StartsFresh,
                        StartsFrozen, Known
    <2> QED
      BY <2>2, <2>4, <2>6, <2>7, <2>8, <2>10, CallsAndAnswers DEF IInv
  <1> QED
    BY <1>2, <1>3 DEF Update

(* What an unknown workflow's start leaves.                                 *)
LEMMA Appended ==
    ASSUME IInv, NEW c \in Calls, calls[c].at = "start", ~Known(calls[c].run),
           executions' = Append(executions, Execution(c)), UNCHANGED <<runs, templates>>
    PROVE  /\ Len(executions') = Len(executions) + 1 /\ Len(executions) \in Nat
           /\ \A i \in 1..Len(executions) : executions'[i] = executions[i]
           /\ executions'[Len(executions) + 1] = Execution(c)
           /\ executions' \in Seq([run : Ids, input : Statuses, template : 1..Version,
                                   running : BOOLEAN])
           /\ Execution(c).input = "starting"
           /\ Execution(c).template = runs[Execution(c).run].template
           /\ Execution(c).run = calls[c].run
           /\ calls[c].run \in Ids
  <1>1. /\ Own(calls[c].run, calls[c].request) /\ calls[c] \in Call
        /\ calls[c].template = runs[calls[c].run].template
        /\ calls[c].status = "starting"
    BY DEF IInv, TypeOK, CallKnows
  <1>2. calls[c].run \in Ids /\ calls[c].template \in 1..Version
    BY <1>1 DEF Own, IInv, RowsAsked
  <1>3. Execution(c) \in [run : Ids, input : Statuses, template : 1..Version, running : BOOLEAN]
    BY <1>1, <1>2 DEF Execution, Statuses
  <1>4. /\ Len(executions') = Len(executions) + 1 /\ Len(executions) \in Nat
        /\ \A i \in 1..Len(executions) : executions'[i] = executions[i]
        /\ executions'[Len(executions) + 1] = Execution(c)
    BY SeqAppend, SeqFacts DEF IInv, TypeOK
  <1>5. executions' \in Seq([run : Ids, input : Statuses, template : 1..Version,
                             running : BOOLEAN])
    BY <1>3, AppendProperties DEF IInv, TypeOK
  <1> QED
    BY <1>1, <1>2, <1>4, <1>5 DEF Execution

LEMMA StartedIInv ==
    ASSUME IInv, NEW c \in Calls, calls[c].at = "start", ~Known(calls[c].run),
           executions' = Append(executions, Execution(c)),
           UNCHANGED <<runs, templates, signalled, sends>>,
           NEW answer \in {"started", "retry_required"}, Tell(c, answer, calls[c].run)
    PROVE  IInv'
  <1>1. /\ Len(executions') = Len(executions) + 1 /\ Len(executions) \in Nat
        /\ \A i \in 1..Len(executions) : executions'[i] = executions[i]
        /\ executions'[Len(executions) + 1] = Execution(c)
        /\ executions' \in Seq([run : Ids, input : Statuses, template : 1..Version,
                                running : BOOLEAN])
        /\ Execution(c).input = "starting"
        /\ Execution(c).template = runs[Execution(c).run].template
        /\ Execution(c).run = calls[c].run
        /\ calls[c].run \in Ids
    BY Appended
  <1>2. PICK new \in Nat, run \in Ids : new = Len(executions) + 1 /\ run = calls[c].run
    BY <1>1
  <1>3. /\ new \in 1..Len(executions')
        /\ \A i \in 1..Len(executions') : i = new \/ i \in 1..Len(executions)
    BY <1>1, <1>2
  <1>4. /\ Ids' = Ids /\ Version' = Version /\ Call' = Call /\ Known(run)'
        /\ \A i \in Ids : Known(i) => Known(i)'
    BY <1>1, <1>2, <1>3 DEF Ids, Version, Call, Known
  <1>5. Grown
    BY <1>4, Lengths DEF Grown, IInv
  <1>6. /\ calls' \in [Calls -> Call] /\ calls'[c] = Idle
        /\ \A d \in Calls \ {c} : calls'[d] = calls[d]
    BY IdleTyped DEF IInv, TypeOK, Tell
  <1>7. /\ Request(c) \in Creates /\ Request(c) \in Create /\ Own(run, Request(c))
    BY <1>2, RequestsAssumption DEF IInv, CallKnows, CreatePoints, Request
  <1>8. TypeOK'
    <2>1. [request |-> Request(c), answer |-> answer, run |-> calls[c].run] \in
              [request : Create \cup Forward \cup Edit, answer : Answers, run : {0} \cup Ids]
      BY <1>1, <1>7 DEF Answers
    <2> QED
      BY <1>1, <1>4, <1>6, <2>1 DEF IInv, TypeOK, Tell
  <1>9. CallKnows(c)'
    BY <1>6, IdleKnows
  <1>10. \A a \in answers' : a \in answers \/ AnswerHolds(a)'
    <2> SUFFICES ASSUME NEW a, a = [request |-> Request(c), answer |-> answer, run |-> run]
                 PROVE  AnswerHolds(a)'
      BY <1>2 DEF Tell
    <2>1. Own(a.run, a.request)' /\ runs'[a.run].order = a.request.order /\ Known(a.run)'
      BY <1>4, <1>7 DEF Own
    <2> QED
      BY <2>1 DEF AnswerHolds
  <1>11. StartedOnce'
    BY <1>1, <1>2, <1>3 DEF StartedOnce, IInv, Known
  <1>12. StartsFresh' /\ StartsFrozen'
    BY <1>1, <1>2, <1>3 DEF StartsFresh, StartsFrozen, IInv
  <1>13. RowsUnique' /\ RowsAsked' /\ MovesOnceStarted'
    BY <1>4 DEF IInv, RowsUnique, RowsAsked, MovesOnceStarted
  <1> QED
    BY <1>5, <1>6, <1>8, <1>9, <1>10, <1>11, <1>12, <1>13, CallsAndAnswers DEF IInv

LEMMA StartIInv ==
    ASSUME IInv, NEW c \in Calls, StartConfirmed(c) \/ StartUnconfirmed(c)
    PROVE  IInv'
  <1>1. /\ calls[c].at = "start"
        /\ UNCHANGED <<runs, templates, signalled, sends>>
    BY DEF StartConfirmed, StartUnconfirmed
  <1>2. PICK answer \in {"started", "retry_required"} :
            /\ Tell(c, answer, calls[c].run)
            /\ \/ ~Known(calls[c].run) /\ executions' = Append(executions, Execution(c))
               \/ UNCHANGED executions
            /\ answer = "started" /\ UNCHANGED executions => Known(calls[c].run)
    <2>1. /\ executions \in Seq([run : Ids, input : Statuses, template : 1..Version,
                                 running : BOOLEAN])
          /\ Append(executions, Execution(c)) # executions
      BY SeqAppend, SeqFacts DEF IInv, TypeOK
    <2> QED
      BY <2>1 DEF StartConfirmed, StartUnconfirmed
  <1>3. CASE ~Known(calls[c].run) /\ executions' = Append(executions, Execution(c))
    BY <1>1, <1>2, <1>3, StartedIInv
  <1>4. CASE UNCHANGED executions
    <2>1. PICK run \in Ids : run = calls[c].run /\ Own(run, Request(c))
      BY <1>1 DEF IInv, CallKnows, Own, Request
    <2>2. Request(c) \in Create
      BY <1>1, RequestsAssumption DEF IInv, CallKnows, CreatePoints, Request
    <2>3. \A a : a = [request |-> Request(c), answer |-> answer, run |-> run] => AnswerHolds(a)'
      <3> SUFFICES ASSUME NEW a, a = [request |-> Request(c), answer |-> answer, run |-> run]
                   PROVE  AnswerHolds(a)'
        OBVIOUS
      <3>1. /\ Own(a.run, a.request)' /\ runs'[a.run].order = a.request.order
            /\ a.answer = "started" => Known(a.run)'
        BY <1>1, <1>2, <1>4, <2>1 DEF Own, Ids, Known
      <3> QED
        BY <1>2, <3>1 DEF AnswerHolds
    <2>4. /\ answer \in Answers
          /\ signalled \subseteq signalled' /\ signalled' \subseteq Ids \X Commands
      BY <1>1 DEF Answers, IInv, TypeOK
    <2> QED
      BY <1>1, <1>2, <1>4, <2>1, <2>2, <2>3, <2>4, QuietTell
  <1> QED
    BY <1>2, <1>3, <1>4

LEMMA ReservedIInv ==
    ASSUME IInv, NEW c \in Calls, calls[c].at = "insert", Unique(c),
           runs' = Append(runs, Reserved(c)), calls' = Resolved(c),
           UNCHANGED <<templates, executions, signalled, answers, sends>>
    PROVE  IInv'
  <1>1. /\ Request(c) \in Creates /\ Request(c) \in Create
        /\ calls[c] \in Call /\ CallKnows(c)
        /\ calls[c].template \in 1..Version /\ calls[c].template \in Nat
    BY RequestsAssumption, Lengths DEF IInv, TypeOK, CallKnows, CreatePoints, Request, Call
  <1>2. PICK new \in Nat, row \in Row :
            /\ new = Len(runs) + 1 /\ row = Reserved(c)
            /\ row.order = Request(c).order /\ row.command = Request(c).command
            /\ row.digest = Request(c).digest /\ row.status = "starting"
            /\ row.template = calls[c].template
    BY <1>1, Lengths DEF IInv, Reserved, Row, Create, Statuses, Request
  <1>3. /\ runs' \in Seq(Row) /\ runs \in Seq(Row)
        /\ Len(runs) \in Nat /\ Len(runs') = new
        /\ \A i \in Ids : runs'[i] = runs[i]
        /\ runs'[new] = row
    BY <1>2, SeqAppend, AppendProperties DEF IInv, TypeOK, Ids
  <1>4. /\ new \in Ids' /\ new \notin Ids /\ Ids \subseteq Ids'
        /\ \A i \in Ids' : i = new \/ i \in Ids
        /\ Version' = Version
    BY <1>2, <1>3 DEF Ids, Version
  <1>5. Grown
    <2>1. \A i : Known(i)' <=> Known(i)
      BY DEF Known
    <2>2. Len(runs) <= Len(runs')
      BY <1>2, <1>3
    <2>3. Len(templates) <= Len(templates') /\ \A v \in 1..Len(templates) : templates'[v] = templates[v]
      BY Lengths DEF IInv
    <2>4. \A i \in Ids :
              /\ runs'[i].order = runs[i].order
              /\ runs'[i].command = runs[i].command
              /\ runs'[i].template = runs[i].template
      BY <1>3
    <2>5. signalled \subseteq signalled'
      OBVIOUS
    <2> QED
      BY <2>1, <2>2, <2>3, <2>4, <2>5 DEF Grown
  <1>6. PICK k : k = [calls[c] EXCEPT !.at = "start", !.run = new, !.status = "starting"]
    OBVIOUS
  <1>7. /\ k \in Call' /\ k.at = "start" /\ k.run = new /\ k.status = "starting"
        /\ k.request = calls[c].request /\ k.template = calls[c].template
    BY <1>1, <1>4, <1>6 DEF Call, CreatePoints, Statuses
  <1>8. /\ calls'[c] = k /\ \A d \in Calls \ {c} : calls'[d] = calls[d]
        /\ calls' \in [Calls -> Call']
    <2>1. calls' = [calls EXCEPT ![c] = k]
      BY <1>2, <1>6 DEF Resolved, IInv, TypeOK
    <2>2. calls \in [Calls -> Call']
      BY <1>3, <1>5, TypesGrow DEF IInv, TypeOK
    <2> QED
      BY <1>7, <2>1, <2>2
  <1>9. TypeOK'
    BY <1>3, <1>5, <1>8, TypesGrow DEF IInv, TypeOK
  <1>10. CallKnows(c)'
    BY <1>1, <1>2, <1>3, <1>4, <1>7, <1>8
       DEF CallKnows, Own, CreatePoints, ForwardPoints, EditPoints, Request
  <1>11. RowsUnique'
    <2>1. \A i \in Ids : runs[i].order # row.order /\ runs[i].command # row.command
      BY <1>2 DEF Unique, ByOrder, ByCommand
    <2>2. ASSUME NEW i \in Ids', NEW j \in Ids',
                 runs'[i].order = runs'[j].order \/ runs'[i].command = runs'[j].command
          PROVE  i = j
      <3>1. CASE i \in Ids /\ j \in Ids
        BY <1>3, <2>2, <3>1 DEF RowsUnique, IInv
      <3>2. CASE i = new /\ j \in Ids
        BY <1>3, <2>1, <2>2, <3>2
      <3>3. CASE i \in Ids /\ j = new
        BY <1>3, <2>1, <2>2, <3>3
      <3> QED
        BY <1>4, <2>2, <3>1, <3>2, <3>3
    <2> QED
      BY <2>2 DEF RowsUnique
  <1>12. RowsAsked' /\ MovesOnceStarted'
    <2>1. ASSUME NEW i \in Ids'
          PROVE  /\ runs'[i].template \in 1..Version
                 /\ \E r \in Creates : r.order = runs'[i].order /\ r.digest = runs'[i].digest
                 /\ runs'[i].status # "starting" => Known(i)
      <3>1. CASE i \in Ids
        BY <1>3, <3>1 DEF IInv, RowsAsked, MovesOnceStarted
      <3>2. CASE i = new
        BY <1>1, <1>2, <1>3, <3>2
      <3> QED
        BY <1>4, <3>1, <3>2
    <2>2. \A i : Known(i)' <=> Known(i)
      BY DEF Known
    <2> QED
      BY <1>4, <2>1, <2>2 DEF RowsAsked, MovesOnceStarted
  <1>13. StartedOnce' /\ StartsFresh' /\ StartsFrozen'
    BY <1>3, Lengths DEF IInv, StartedOnce, StartsFresh, StartsFrozen
  <1> QED
    BY <1>5, <1>8, <1>9, <1>10, <1>11, <1>12, <1>13, CallsAndAnswers DEF IInv

LEMMA InsertIInv ==
    ASSUME IInv, NEW c \in Calls, Insert(c)
    PROVE  IInv'
  <1>1. CASE Unique(c) /\ runs' = Append(runs, Reserved(c)) /\ calls' = Resolved(c) /\ UNCHANGED answers
    BY <1>1, ReservedIInv DEF Insert
  <1>2. CASE /\ ~Unique(c)
             /\ calls' = [calls EXCEPT ![c].at = "by_command", ![c].retried = TRUE]
             /\ UNCHANGED <<runs, answers>>
    <2>1. calls[c] \in Call /\ CallKnows(c) /\ calls[c].at = "insert"
      BY DEF Insert, IInv, TypeOK
    <2>2. PICK k : k = [calls[c] EXCEPT !.at = "by_command", !.retried = TRUE]
      OBVIOUS
    <2>3. /\ k \in Call /\ k.at = "by_command" /\ k.request = Request(c)
          /\ k.template = calls[c].template
      BY <2>1, <2>2 DEF Call, CreatePoints, Request
    <2>4. calls' = [calls EXCEPT ![c] = k] /\ calls'[c] = k
      BY <1>2, <2>2 DEF IInv, TypeOK
    <2>5. ~Unique(c)'
      BY <1>2, <2>3, <2>4 DEF Unique, Request, ByOrder, ByCommand, Ids
    <2>6. CallKnows(c)'
      BY <2>1, <2>3, <2>4, <2>5 DEF CallKnows, CreatePoints, ForwardPoints, EditPoints, Request
    <2>7. UNCHANGED <<runs, templates, executions, signalled, answers>> /\ sends' \in 0..MaxSends
      BY <1>2 DEF Insert, IInv, TypeOK
    <2> QED
      BY <2>3, <2>4, <2>6, <2>7, QuietGo
  <1>3. CASE calls[c].retried
    BY <1>3 DEF Insert, IInv, CallKnows
  <1> QED
    BY <1>1, <1>2, <1>3 DEF Insert

LEMMA AdvanceIInv ==
    ASSUME IInv, NEW i \in 1..Len(executions), Advance(i)
    PROVE  IInv'
  <1>1. PICK run \in Ids : run = executions[i].run
    BY Lengths DEF IInv
  <1>2. PICK status \in Statuses :
            runs' = [runs EXCEPT ![run].status = status]
    BY <1>1 DEF Advance, Statuses
  <1>3. /\ runs \in Seq(Row) /\ runs' \in Seq(Row) /\ Len(runs') = Len(runs) /\ Ids' = Ids
        /\ \A j \in Ids :
               /\ runs'[j].order = runs[j].order /\ runs'[j].command = runs[j].command
               /\ runs'[j].digest = runs[j].digest /\ runs'[j].template = runs[j].template
               /\ j # run => runs'[j] = runs[j]
    <2>1. runs \in Seq(Row) /\ runs[run] \in Row /\ Len(runs) \in Nat
      BY Lengths DEF IInv, TypeOK
    <2>2. PICK row : row = [runs[run] EXCEPT !.status = status]
      OBVIOUS
    <2>3. /\ row \in Row /\ row.order = runs[run].order /\ row.command = runs[run].command
          /\ row.digest = runs[run].digest /\ row.template = runs[run].template
      BY <2>1, <2>2 DEF Row
    <2>4. runs' = [runs EXCEPT ![run] = row]
      BY <1>2, <2>2
    <2>5. runs' \in Seq(Row) /\ Len(runs') = Len(runs)
      BY <2>1, <2>3, <2>4 DEF Ids
    <2> QED
      BY <2>1, <2>3, <2>4, <2>5 DEF Ids
  <1>4. /\ UNCHANGED <<templates, executions, signalled, calls, answers, sends>>
        /\ Known(run)
    BY <1>1 DEF Advance, Known
  <1>5. Grown
    BY <1>3, <1>4, Lengths DEF Grown, Known, IInv
  <1>6. TypeOK'
    BY <1>3, <1>4 DEF IInv, TypeOK, Version, Call
  <1>7. \A c \in Calls : CallKnows(c)'
    BY <1>4, <1>5, <1>6, CallFrame
  <1>8. \A a \in answers' : AnswerHolds(a)'
    BY <1>4, <1>5, <1>6, AnswerFrame
  <1>9. RowsUnique' /\ RowsAsked' /\ MovesOnceStarted'
    BY <1>3, <1>4, SMTT(20) DEF IInv, RowsUnique, RowsAsked, MovesOnceStarted, Known, Version
  <1>10. StartedOnce' /\ StartsFresh' /\ StartsFrozen'
    BY <1>3, <1>4, Lengths DEF IInv, StartedOnce, StartsFresh, StartsFrozen
  <1> QED
    BY <1>6, <1>7, <1>8, <1>9, <1>10 DEF IInv

LEMMA EndIInv ==
    ASSUME IInv, NEW i \in 1..Len(executions), End(i)
    PROVE  IInv'
  <1>1. UNCHANGED <<runs, templates, signalled, calls, answers, sends>>
    BY DEF End
  <1>2. /\ Len(executions') = Len(executions)
        /\ executions' \in Seq([run : Ids, input : Statuses, template : 1..Version,
                                running : BOOLEAN])
        /\ \A j \in 1..Len(executions) :
               /\ executions'[j].run = executions[j].run
               /\ executions'[j].input = executions[j].input
               /\ executions'[j].template = executions[j].template
    <2>1. PICK S : /\ S = [run : Ids, input : Statuses, template : 1..Version, running : BOOLEAN]
                   /\ executions \in Seq(S)
      BY DEF IInv, TypeOK
    <2>2. PICK e : e = [executions[i] EXCEPT !.running = FALSE]
      OBVIOUS
    <2>3. executions[i] \in S
      BY <2>1, SeqFacts
    <2>4. /\ e \in S /\ e.run = executions[i].run /\ e.input = executions[i].input
          /\ e.template = executions[i].template
      BY <2>1, <2>2, <2>3
    <2>5. executions' = [executions EXCEPT ![i] = e]
      BY <2>2 DEF End
    <2>6. executions' \in Seq(S) /\ Len(executions') = Len(executions)
      <3> HIDE <2>1
      <3>1. executions \in Seq(S)
        BY <2>1
      <3> QED
        BY <2>4, <2>5, <3>1
    <2>7. \A j \in 1..Len(executions) : executions'[j] = IF j = i THEN e ELSE executions[j]
      BY <2>1, <2>5
    <2> QED
      BY <2>1, <2>4, <2>6, <2>7
  <1>3. Ids' = Ids /\ Version' = Version /\ \A j : Known(j)' = Known(j)
    BY <1>1, <1>2 DEF Ids, Version, Known
  <1>4. Grown
    BY <1>1, <1>3, Lengths DEF Grown, IInv
  <1>5. TypeOK'
    BY <1>1, <1>2, <1>3 DEF IInv, TypeOK, Call
  <1>6. \A c \in Calls : CallKnows(c)'
    BY <1>1, <1>4, <1>5, CallFrame
  <1>7. \A a \in answers' : AnswerHolds(a)'
    BY <1>1, <1>4, <1>5, AnswerFrame
  <1>8. RowsUnique' /\ RowsAsked' /\ MovesOnceStarted'
    BY <1>1, <1>3 DEF IInv, RowsUnique, RowsAsked, MovesOnceStarted
  <1>9. StartedOnce' /\ StartsFresh' /\ StartsFrozen'
    BY <1>1, <1>2 DEF IInv, StartedOnce, StartsFresh, StartsFrozen
  <1> QED
    BY <1>5, <1>6, <1>7, <1>8, <1>9 DEF IInv

LEMMA InitIInv == Init => IInv
  <1> SUFFICES ASSUME Init PROVE IInv
    OBVIOUS
  <1>1. /\ Len(runs) = 0 /\ Len(executions) = 0 /\ Len(templates) = 0 /\ answers = {}
        /\ Ids = {} /\ \A c \in Calls : calls[c] = Idle
    BY DEF Init, Ids
  <1>2. TypeOK
    BY IdleTyped, BoundsAssumption DEF Init, TypeOK
  <1>3. \A c \in Calls : CallKnows(c)
    BY <1>1 DEF CallKnows, Idle, CreatePoints, ForwardPoints, EditPoints
  <1>4. RowsUnique /\ RowsAsked /\ StartedOnce /\ MovesOnceStarted /\ StartsFresh /\ StartsFrozen
    BY <1>1 DEF RowsUnique, RowsAsked, StartedOnce, MovesOnceStarted, StartsFresh, StartsFrozen
  <1> QED
    BY <1>1, <1>2, <1>3, <1>4 DEF IInv

LEMMA NextIInv == IInv /\ [Next]_vars => IInv'
  <1> SUFFICES ASSUME IInv, [Next]_vars PROVE IInv'
    OBVIOUS
  <1>1. CASE \E c \in Calls : SendSomething(c)
    BY <1>1, SendIInv
  <1>2. CASE \E c \in Calls : Serve(c)
    BY <1>2, ReadTemplateIInv, UpdateIInv, ReloadIInv, LookUpCommandIInv, LookUpOrderIInv,
       InsertIInv, StartIInv, LoadIInv, SignalIInv DEF Serve
  <1>3. CASE \E i \in 1..Len(executions) : Advance(i)
    BY <1>3, AdvanceIInv
  <1>4. CASE \E i \in 1..Len(executions) : End(i)
    BY <1>4, EndIInv
  <1>5. CASE UNCHANGED vars
    <2>1. UNCHANGED <<runs, templates, executions, signalled, calls, answers, sends>>
      BY <1>5 DEF vars
    <2>2. Ids' = Ids /\ Version' = Version /\ Call' = Call
      BY <2>1 DEF Ids, Version, Call
    <2>3. TypeOK' /\ Grown
      BY <2>1, <2>2, Lengths DEF IInv, TypeOK, Grown, Known
    <2>4. /\ \A c \in Calls : CallKnows(c)'
          /\ \A a \in answers' : AnswerHolds(a)'
      BY <2>1, <2>3, CallFrame, AnswerFrame
    <2> QED
      BY <2>1, <2>2, <2>3, <2>4
         DEF IInv, RowsUnique, RowsAsked, StartedOnce, MovesOnceStarted, StartsFresh,
             StartsFrozen, Known
  <1> QED
    BY <1>1, <1>2, <1>3, <1>4, <1>5 DEF Next

THEOREM Invariance == Spec => []IInv
  BY InitIInv, NextIInv, PTL DEF Spec

(* The variables stay in their types.                                       *)
THEOREM TypeCorrectness == Spec => []TypeOK
  BY Invariance, PTL DEF IInv

(* Whoever creates is told of the run of the order it named, and a command  *)
(* of one run only: the rows are unique in both, and what a call carries to *)
(* its remote call is a row of its own request.                             *)
THEOREM IdentitiesStand == Spec => []OneIdentity
  <1>1. IInv => OneIdentity
    <2> SUFFICES ASSUME IInv, NEW a \in CreateAnswers, NEW b \in CreateAnswers
                 PROVE  /\ a.run # 0 => runs[a.run].order = a.request.order
                        /\ {a.answer, b.answer} \subseteq {"started", "retry_required"}
                              /\ a.request.command = b.request.command => a.run = b.run
      BY DEF OneIdentity
    <2>1. AnswerHolds(a) /\ AnswerHolds(b) /\ a.request \in Create
      BY DEF IInv, CreateAnswers
    <2>2. a.run # 0 => runs[a.run].order = a.request.order
      BY <2>1 DEF AnswerHolds
    <2>3. ASSUME {a.answer, b.answer} \subseteq {"started", "retry_required"},
                 a.request.command = b.request.command
          PROVE  a.run = b.run
      <3>1. Own(a.run, a.request) /\ Own(b.run, b.request)
        BY <2>1, <2>3 DEF AnswerHolds
      <3> QED
        BY <2>3, <3>1 DEF Own, IInv, RowsUnique
    <2> QED
      BY <2>2, <2>3
  <1> QED
    BY <1>1, Invariance, PTL

(* No insert loses a second time: a call that looks again after a lost race *)
(* finds the row it lost to, for rows are never deleted.                    *)
THEOREM NobodyRaises == Spec => []NeverRaises
  <1>1. IInv => NeverRaises
    BY DEF IInv, AnswerHolds, NeverRaises
  <1> QED
    BY <1>1, Invariance, PTL

(* A workflow is never started from a snapshot that is out of date.         *)
THEOREM StartsStayFresh == Spec => []StartsFresh
  BY Invariance, PTL DEF IInv

(* Nothing is confirmed that has not happened.                              *)
THEOREM AnswersStayTrue == Spec => []AnswersTrue
  <1>1. IInv => AnswersTrue
    BY DEF IInv, AnswerHolds, AnswersTrue
  <1> QED
    BY <1>1, Invariance, PTL

(* No saved edit of the template is ever replaced by another of its version. *)
THEOREM EditsStay == Spec => []EditsKept
  <1>1. IInv => EditsKept
    BY DEF IInv, AnswerHolds, EditsKept
  <1> QED
    BY <1>1, Invariance, PTL

(* A run is started with the configuration it was reserved with.            *)
THEOREM StartsStayFrozen == Spec => []StartsFrozen
  BY Invariance, PTL DEF IInv

---------------------------------------------------------------------------
(* Rows and executions implement the registry.                              *)

OwnerBar ==
    [o \in Orders |-> IF ByOrder(o) = {} THEN NoOne
                      ELSE runs[CHOOSE i \in ByOrder(o) : TRUE].command]

StartedFor(o) == {i \in 1..Len(executions) : runs[executions[i].run].order = o}

StartsBar ==
    [o \in Orders |->
        Cardinality({i \in 1..Len(executions) : runs[executions[i].run].order = o})]

OwnersRead == \A o \in Orders : \A i \in ByOrder(o) : OwnerBar[o] = runs[i].command

LEMMA OwnerIs == IInv => OwnersRead
  <1> SUFFICES ASSUME IInv, NEW o \in Orders, NEW i \in ByOrder(o)
               PROVE  OwnerBar[o] = runs[i].command
    BY DEF OwnersRead
  <1>1. \A j \in ByOrder(o) : j = i
    BY DEF IInv, RowsUnique, ByOrder
  <1>2. (CHOOSE j \in ByOrder(o) : TRUE) = i
    BY <1>1
  <1> QED
    BY <1>2 DEF OwnerBar

LEMMA OwnerIsNext == IInv' => OwnersRead'
  BY OwnerIs, PTL

LEMMA OwnerIsNone ==
    ASSUME NEW o \in Orders, ByOrder(o) = {}
    PROVE  OwnerBar[o] = NoOne
  BY DEF OwnerBar

(* The steps that the registry does not see.                                *)
SameRows ==
    /\ Ids' = Ids
    /\ \A i \in Ids : runs'[i].order = runs[i].order /\ runs'[i].command = runs[i].command

SameStarts ==
    /\ Len(executions') = Len(executions)
    /\ \A i \in 1..Len(executions) : executions'[i].run = executions[i].run

LEMMA RowsUnseen ==
    ASSUME IInv, IInv', SameRows
    PROVE  OwnerBar' = OwnerBar
  <1>1. \A o \in Orders : ByOrder(o)' = ByOrder(o)
    BY DEF SameRows, ByOrder
  <1>2. \A o \in Orders : OwnerBar'[o] = OwnerBar[o]
    <2> SUFFICES ASSUME NEW o \in Orders PROVE OwnerBar'[o] = OwnerBar[o]
      OBVIOUS
    <2>1. CASE ByOrder(o) = {}
      BY <1>1, <2>1 DEF OwnerBar
    <2>2. CASE ByOrder(o) # {}
      <3>1. PICK i \in ByOrder(o) : TRUE
        BY <2>2
      <3>2. OwnerBar[o] = runs[i].command
        BY <3>1, OwnerIs DEF OwnersRead
      <3>3. OwnerBar'[o] = runs'[i].command
        BY <1>1, <3>1, OwnerIsNext DEF OwnersRead
      <3> QED
        BY <3>1, <3>2, <3>3 DEF SameRows, ByOrder
    <2> QED
      BY <2>1, <2>2
  <1> QED
    BY <1>2 DEF OwnerBar

LEMMA StartsUnseen ==
    ASSUME IInv, SameStarts, \A i \in Ids : runs'[i].order = runs[i].order
    PROVE  StartsBar' = StartsBar
  <1>1. \A i \in 1..Len(executions) : executions[i].run \in Ids
    BY Lengths DEF IInv
  <1>2. \A o \in Orders :
            {i \in 1..Len(executions') : runs'[executions'[i].run].order = o}
                = {i \in 1..Len(executions) : runs[executions[i].run].order = o}
    BY <1>1 DEF SameStarts
  <1> QED
    BY <1>2 DEF StartsBar

LEMMA RegisterStep ==
    ASSUME IInv, IInv', NEW c \in Calls, calls[c].at = "insert", Unique(c),
           runs' = Append(runs, Reserved(c)), UNCHANGED executions
    PROVE  Registry!Next
  <1>1. PICK o \in Orders, n \in CreateCommands : o = Request(c).order /\ n = Request(c).command
    <2>1. Request(c) \in Create
      BY RequestsAssumption DEF IInv, CallKnows, CreatePoints, Request
    <2> QED
      BY <2>1 DEF Create
  <1>2. PICK new : new = Len(runs) + 1
    OBVIOUS
  <1>3. /\ new \in Ids' /\ new \notin Ids
        /\ \A i \in Ids' : i = new \/ i \in Ids
        /\ Ids \subseteq Ids'
        /\ \A i \in Ids : runs'[i] = runs[i]
        /\ runs'[new].order = o /\ runs'[new].command = n
    <2>1. /\ Len(runs) \in Nat /\ Len(runs') = Len(runs) + 1
          /\ \A i \in 1..Len(runs) : runs'[i] = runs[i]
          /\ runs'[new] = Reserved(c)
      BY <1>2, SeqAppend, SeqFacts DEF IInv, TypeOK
    <2> QED
      BY <1>1, <1>2, <2>1 DEF Ids, Reserved
  <1>4. ByOrder(o) = {} /\ \A i \in Ids : runs[i].command # n
    BY <1>1 DEF Unique, ByCommand
  <1>5. OwnerBar[o] = NoOne
    BY <1>4, OwnerIsNone
  <1>6. \A p \in Orders : OwnerBar[p] # n
    <2> SUFFICES ASSUME NEW p \in Orders PROVE OwnerBar[p] # n
      OBVIOUS
    <2>1. CASE ByOrder(p) = {}
      BY <2>1, OwnerIsNone, NamesAssumption
    <2>2. CASE ByOrder(p) # {}
      <3>1. PICK i \in ByOrder(p) : TRUE
        BY <2>2
      <3> QED
        BY <1>4, <3>1, OwnerIs DEF ByOrder, OwnersRead
    <2> QED
      BY <2>1, <2>2
  <1>7. \A p \in Orders : OwnerBar'[p] = IF p = o THEN n ELSE OwnerBar[p]
    <2> SUFFICES ASSUME NEW p \in Orders PROVE OwnerBar'[p] = IF p = o THEN n ELSE OwnerBar[p]
      OBVIOUS
    <2>1. CASE p = o
      <3>1. new \in ByOrder(o)'
        BY <1>3 DEF ByOrder
      <3>2. OwnerBar'[o] = runs'[new].command
        BY <3>1, OwnerIsNext DEF OwnersRead
      <3> QED
        BY <1>3, <2>1, <3>2
    <2>2. CASE p # o /\ ByOrder(p) = {}
      <3>1. ByOrder(p)' = {}
        BY <1>3, <2>2 DEF ByOrder
      <3> QED
        BY <2>2, <3>1 DEF OwnerBar
    <2>3. CASE p # o /\ ByOrder(p) # {}
      <3>1. PICK i \in ByOrder(p) : TRUE
        BY <2>3
      <3>2. i \in ByOrder(p)' /\ runs'[i].command = runs[i].command
        BY <1>3, <3>1 DEF ByOrder
      <3>3. OwnerBar[p] = runs[i].command /\ OwnerBar'[p] = runs'[i].command
        BY <3>1, <3>2, OwnerIs, OwnerIsNext DEF OwnersRead
      <3> QED
        BY <2>3, <3>2, <3>3
    <2> QED
      BY <2>1, <2>2, <2>3
  <1>8. OwnerBar' = [OwnerBar EXCEPT ![o] = n]
    BY <1>7 DEF OwnerBar
  <1>9. StartsBar' = StartsBar
    BY <1>3, StartsUnseen DEF SameStarts
  <1>10. Registry!Register(o, n)
    BY <1>5, <1>6, <1>8, <1>9 DEF Registry!Register, OwnerBar, StartsBar
  <1> QED
    BY <1>10 DEF Registry!Next

LEMMA StartStep ==
    ASSUME IInv, NEW c \in Calls, calls[c].at = "start", ~Known(calls[c].run),
           executions' = Append(executions, Execution(c)), UNCHANGED <<runs, templates>>, IInv'
    PROVE  Registry!Next
  <1>1. /\ Len(executions') = Len(executions) + 1 /\ Len(executions) \in Nat
        /\ \A i \in 1..Len(executions) : executions'[i] = executions[i]
        /\ executions'[Len(executions) + 1] = Execution(c)
        /\ Execution(c).run = calls[c].run
        /\ calls[c].run \in Ids
    BY Appended
  <1>2. PICK run \in Ids, o \in Orders, new \in Nat :
            run = calls[c].run /\ o = runs[run].order /\ new = Len(executions) + 1
    BY <1>1, Lengths DEF IInv, Row
  <1>3. /\ \A i \in 1..Len(executions) : executions[i].run # run /\ executions[i].run \in Ids
        /\ executions'[new].run = run
    BY <1>1, <1>2, Lengths DEF Known, IInv
  <1>4. StartedFor(o) = {} /\ StartedFor(o)' = {new}
    <2>1. \A i \in 1..Len(executions) : runs[executions[i].run].order # o
      BY <1>2, <1>3 DEF IInv, RowsUnique
    <2> QED
      BY <1>1, <1>2, <1>3, <2>1 DEF StartedFor
  <1>5. \A p \in Orders \ {o} : StartedFor(p)' = StartedFor(p)
    BY <1>1, <1>2, <1>3 DEF StartedFor
  <1>6. StartsBar[o] = 0 /\ StartsBar' = [StartsBar EXCEPT ![o] = 1]
    <2>1. Cardinality(StartedFor(o)) = 0 /\ Cardinality(StartedFor(o)') = 1
      BY <1>4, FS_EmptySet, FS_Singleton
    <2>2. \A p \in Orders : /\ StartsBar[p] = Cardinality(StartedFor(p))
                            /\ StartsBar'[p] = Cardinality(StartedFor(p)')
      BY DEF StartsBar, StartedFor
    <2>3. \A p \in Orders : StartsBar'[p] = IF p = o THEN 1 ELSE StartsBar[p]
      BY <1>5, <2>1, <2>2
    <2> QED
      BY <2>1, <2>2, <2>3 DEF StartsBar
  <1>7. OwnerBar[o] # NoOne
    <2>1. run \in ByOrder(o) /\ runs[run].command \in CreateCommands
      BY <1>2, Lengths DEF ByOrder, IInv, Row
    <2> QED
      BY <2>1, OwnerIs, NamesAssumption DEF OwnersRead
  <1>8. OwnerBar' = OwnerBar
    BY RowsUnseen DEF SameRows, Ids
  <1>9. Registry!Start(o)
    BY <1>6, <1>7, <1>8 DEF Registry!Start, OwnerBar, StartsBar
  <1> QED
    BY <1>9 DEF Registry!Next

LEMMA UnseenStep ==
    ASSUME IInv, IInv', SameRows, SameStarts
    PROVE  UNCHANGED Registry!vars
  <1>1. OwnerBar' = OwnerBar /\ StartsBar' = StartsBar
    BY RowsUnseen, StartsUnseen DEF SameRows
  <1> QED
    BY <1>1 DEF Registry!vars, OwnerBar, StartsBar

(* Only an insert that wins and a start of an unknown workflow are seen.    *)
LEMMA RegistryStep == IInv /\ [Next]_vars => [Registry!Next]_(Registry!vars)
  <1> SUFFICES ASSUME IInv, [Next]_vars PROVE Registry!Next \/ UNCHANGED Registry!vars
    OBVIOUS
  <1>1. IInv'
    BY NextIInv
  <1>2. ASSUME UNCHANGED <<runs, executions>> PROVE UNCHANGED Registry!vars
    BY <1>1, <1>2, UnseenStep DEF SameRows, SameStarts, Ids
  <1>3. CASE \E c \in Calls : SendSomething(c) \/ Serve(c)
    <2>1. PICK c \in Calls : SendSomething(c) \/ Serve(c)
      BY <1>3
    <2>2. CASE SendSomething(c) \/ ReadTemplate(c) \/ Update(c) \/ Reload(c)
               \/ LookUpCommand(c) \/ LookUpOrder(c) \/ Load(c)
               \/ SignalAccepted(c) \/ SignalRefused(c) \/ SignalUnconfirmed(c)
      <3>1. UNCHANGED <<runs, executions>>
        BY <2>2 DEF SendSomething, Send, ReadTemplate, Update, Reload, LookUpCommand, LookUpOrder,
                    Load, SignalAccepted, SignalRefused, SignalUnconfirmed
      <3> QED
        BY <1>2, <3>1
    <2>3. CASE Insert(c)
      <3>1. CASE Unique(c) /\ runs' = Append(runs, Reserved(c))
        BY <1>1, <2>3, <3>1, RegisterStep DEF Insert
      <3>2. CASE UNCHANGED runs
        BY <1>2, <2>3, <3>2 DEF Insert
      <3> QED
        BY <2>3, <3>1, <3>2 DEF Insert
    <2>4. CASE StartConfirmed(c) \/ StartUnconfirmed(c)
      <3>1. CASE ~Known(calls[c].run) /\ executions' = Append(executions, Execution(c))
        BY <1>1, <2>4, <3>1, StartStep DEF StartConfirmed, StartUnconfirmed
      <3>2. CASE UNCHANGED executions
        BY <1>2, <2>4, <3>2 DEF StartConfirmed, StartUnconfirmed
      <3> QED
        BY <2>4, <3>1, <3>2 DEF StartConfirmed, StartUnconfirmed
    <2> QED
      BY <2>1, <2>2, <2>3, <2>4 DEF Serve
  <1>4. ASSUME NEW i \in 1..Len(executions), Advance(i)
        PROVE  UNCHANGED Registry!vars
    <2>1. runs \in Seq(Row) /\ Len(runs) \in Nat /\ executions[i].run \in Ids
      BY Lengths DEF IInv, TypeOK
    <2>2. SameRows
      BY <1>4, <2>1 DEF Advance, SameRows, Ids
    <2>3. SameStarts
      BY <1>4 DEF Advance, SameStarts
    <2> QED
      BY <1>1, <2>2, <2>3, UnseenStep
  <1>5. ASSUME NEW i \in 1..Len(executions), End(i)
        PROVE  UNCHANGED Registry!vars
    <2>1. SameStarts
      <3>1. PICK S : S = [run : Ids, input : Statuses, template : 1..Version, running : BOOLEAN]
                     /\ executions \in Seq(S)
        BY DEF IInv, TypeOK
      <3> QED
        BY <1>5, <3>1 DEF End, SameStarts
    <2>2. SameRows
      BY <1>5 DEF End, SameRows, Ids
    <2> QED
      BY <1>1, <2>1, <2>2, UnseenStep
  <1>6. CASE UNCHANGED vars
    BY <1>2, <1>6 DEF vars
  <1> QED
    BY <1>3, <1>4, <1>5, <1>6 DEF Next

(* An order is taken once, by one command, and its workflow is started at   *)
(* most once, however many clients ask for it and however often.            *)
THEOREM ImplementsRegistry == Spec => KeepsRegistry
  <1>1. Init => Registry!Init
    <2> SUFFICES ASSUME Init PROVE Registry!Init
      OBVIOUS
    <2>1. Ids = {} /\ Len(executions) = 0
      BY DEF Init, Ids
    <2>2. \A o \in Orders : ByOrder(o) = {} /\ StartedFor(o) = {}
      BY <2>1 DEF ByOrder, StartedFor
    <2>3. OwnerBar = [o \in Orders |-> NoOne]
      BY <2>2 DEF OwnerBar
    <2>4. StartsBar = [o \in Orders |-> 0]
      BY <2>2, FS_EmptySet DEF StartsBar, StartedFor
    <2> QED
      BY <2>3, <2>4 DEF Registry!Init, OwnerBar, StartsBar
  <1> QED
    BY <1>1, RegistryStep, Invariance, PTL DEF Spec, KeepsRegistry, Registry!Spec
=============================================================================
