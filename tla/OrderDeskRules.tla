--------------------------- MODULE OrderDeskRules ---------------------------
(***************************************************************************)
(* What the rules that OrderDesk is built from return, for every order:    *)
(* the numbers of the activity log, the issues and facts of EventRules,    *)
(* the wake-ups of WakePolicy and the gates of ReviewRules.                *)
(***************************************************************************)
EXTENDS OrderDesk, TLAPS, FiniteSetTheorems, WellFoundedInduction

---------------------------------------------------------------------------
(* Numbers of the activity log, in sets.                                    *)
LEMMA SmallestExists ==
    ASSUME NEW S \in SUBSET Nat, S # {}
    PROVE  \E x \in S : \A y \in S : x <= y
  <1>. DEFINE F == {1..x : x \in S}
  <1>1. F \subseteq FiniteSubsetsOf(Nat)
    <2>1. \A x \in Nat : 1..x \subseteq Nat /\ IsFiniteSet(1..x)
      BY FS_Interval
    <2>. QED  BY <2>1 DEF FiniteSubsetsOf
  <1>2. F # {}
    <2>1. PICK x \in S : TRUE
      OBVIOUS
    <2>2. 1..x \in F
      OBVIOUS
    <2>. QED  BY <2>2
  <1>3. PICK T \in F : \A U \in F : ~(<<U, T>> \in StrictSubsetOrdering(Nat))
    <2>. HIDE DEF F
    <2>. QED  BY <1>1, <1>2, FS_StrictSubsetOrderingWellFounded, WFMin
  <1>4. PICK x \in S : T = 1..x
    OBVIOUS
  <1>5. ASSUME NEW y \in S, y < x PROVE FALSE
    <2>1. 1..y \in F /\ 1..y \subseteq 1..x /\ x \in 1..x /\ x \notin 1..y
      BY <1>5
    <2>2. <<1..y, T>> \in StrictSubsetOrdering(Nat)
      BY <2>1, <1>4 DEF StrictSubsetOrdering
    <2>. QED  BY <1>3, <2>1, <2>2
  <1>. QED  BY <1>5

LEMMA LargestExists ==
    ASSUME NEW n \in Nat, NEW S \in SUBSET (0..n), S # {}
    PROVE  \E x \in S : \A y \in S : y <= x
  <1>. DEFINE T == {n - x : x \in S}
  <1>1. T \in SUBSET Nat
    OBVIOUS
  <1>2. T # {}
    <2>1. PICK z \in S : TRUE
      OBVIOUS
    <2>2. n - z \in T
      OBVIOUS
    <2>. QED  BY <2>2
  <1>3. PICK t \in T : \A u \in T : t <= u
    <2>. HIDE DEF T
    <2>. QED BY <1>1, <1>2, SmallestExists
  <1>4. PICK x \in S : t = n - x
    OBVIOUS
  <1>5. ASSUME NEW y \in S PROVE y <= x
    <2>1. n - y \in T
      OBVIOUS
    <2>2. n - x <= n - y
      BY <2>1, <1>3, <1>4
    <2>. QED  BY <2>2
  <1>. QED  BY <1>5

(* Largest is the maximum of a set of entries.                              *)
LEMMA LargestOfEntries ==
    ASSUME NEW n \in Nat, NEW S \in SUBSET (0..n), S # {}
    PROVE  Largest(S) \in S /\ \A y \in S : y <= Largest(S)
  BY LargestExists DEF Largest

LEMMA LargestIsEntry ==
    ASSUME NEW n \in Nat, NEW S \in SUBSET (0..n)
    PROVE  Largest(S) \in 0..n
  <1>1. CASE S = {}
    BY <1>1 DEF Largest
  <1>2. CASE S # {}
    BY <1>2, LargestOfEntries
  <1>. QED  BY <1>1, <1>2

(* What Newest keeps: at most n, among them the last.                       *)
LEMMA NewestKeeps ==
    ASSUME NEW n \in Nat, NEW S \in SUBSET Nat, IsFiniteSet(S)
    PROVE  /\ Newest(S, n) \subseteq S
           /\ IsFiniteSet(Newest(S, n))
           /\ Cardinality(Newest(S, n)) \in Nat
           /\ Cardinality(Newest(S, n)) <= n
  <1>1. Newest(S, n) \subseteq S
    BY DEF Newest
  <1>2. IsFiniteSet(Newest(S, n)) /\ Cardinality(Newest(S, n)) \in Nat
    BY <1>1, FS_Subset, FS_CardinalityType
  <1>3. ASSUME Newest(S, n) # {} PROVE Cardinality(Newest(S, n)) <= n
    <2>1. PICK x \in Newest(S, n) : \A y \in Newest(S, n) : x <= y
      BY <1>1, <1>3, SmallestExists
    <2>. DEFINE Later == {y \in S : y > x}
    <2>2. Newest(S, n) \ {x} \in SUBSET Later
      <3>1. ASSUME NEW y \in Newest(S, n), y # x PROVE y \in S /\ y > x
        <4>1. x <= y /\ y \in S /\ x \in Nat /\ y \in Nat
          BY <1>1, <2>1
        <4>. QED  BY <4>1, <3>1
      <3>. QED  BY <3>1
    <2>3. IsFiniteSet(Later) /\ Cardinality(Later) \in Nat
      BY FS_Subset, FS_CardinalityType
    <2>4. Cardinality(Newest(S, n) \ {x}) <= Cardinality(Later)
      <3>. HIDE DEF Later
      <3>. QED  BY <2>2, <2>3, FS_Subset
    <2>5. Cardinality(Later) < n
      BY <2>1 DEF Newest
    <2>6. Cardinality(Newest(S, n) \ {x}) = Cardinality(Newest(S, n)) - 1
      BY <1>2, FS_RemoveElement
    <2>. QED  BY <1>2, <2>3, <2>4, <2>5, <2>6
  <1>4. CASE Newest(S, n) = {}
    BY <1>4, <1>1, <1>2, FS_EmptySet
  <1>. QED  BY <1>1, <1>2, <1>3, <1>4

LEMMA NewestKeepsLast ==
    ASSUME NEW n \in Nat \ {0}, NEW S \in SUBSET Nat, NEW m \in S, \A x \in S : x <= m
    PROVE  m \in Newest(S, n)
  <1>1. {y \in S : y > m} = {}
    <2>1. ASSUME NEW y \in S PROVE ~(y > m)
      OBVIOUS
    <2>. QED  BY <2>1
  <1>. QED  BY <1>1, FS_EmptySet DEF Newest

(* Nothing is cut that fits.                                                *)
LEMMA NewestKeepsAll ==
    ASSUME NEW n \in Nat, NEW S \in SUBSET Nat, IsFiniteSet(S), Cardinality(S) <= n
    PROVE  Newest(S, n) = S
  <1>1. ASSUME NEW x \in S PROVE x \in Newest(S, n)
    <2>. DEFINE Later == {y \in S : y > x}
    <2>1. Later \in SUBSET (S \ {x})
      OBVIOUS
    <2>2. IsFiniteSet(S \ {x}) /\ Cardinality(S \ {x}) = Cardinality(S) - 1
      BY FS_RemoveElement
    <2>3. IsFiniteSet(Later) /\ Cardinality(Later) <= Cardinality(S \ {x})
      <3>. HIDE DEF Later
      <3>. QED  BY <2>1, <2>2, FS_Subset
    <2>4. Cardinality(Later) \in Nat /\ Cardinality(S) \in Nat
      BY <2>3, FS_CardinalityType
    <2>5. Cardinality(Later) < n
      BY <2>2, <2>3, <2>4
    <2>. QED  BY <2>5 DEF Newest
  <1>. QED  BY <1>1 DEF Newest

---------------------------------------------------------------------------
(* Issues and facts: domain/events.py.                                      *)

(* What recording one entry may do to the issues on file: leave one, add    *)
(* the entry to it, or open one on it.                                      *)
Entered(i, j, sequence) ==
    /\ j.evidence = Newest(i.evidence \cup {sequence}, MaxEvidence)
    /\ j.contacts = i.contacts

Refiled(old, new, sequence) ==
    \A id \in DOMAIN new :
        \/ id \in DOMAIN old /\ new[id] = old[id]
        \/ id \in DOMAIN old /\ Entered(old[id], new[id], sequence)
        \/ id \notin DOMAIN old /\ \E r \in BOOLEAN : new[id] = NewIssue(sequence, r)

Left(old, new) == \A id \in DOMAIN new : id \in DOMAIN old /\ new[id] = old[id]

LEMMA EvidenceEntered ==
    ASSUME NEW n \in Nat, NEW S \in SUBSET (1..n), NEW m \in Nat, m > n
    PROVE  /\ Newest(S \cup {m}, MaxEvidence) \in (SUBSET (1..m)) \ {{}}
           /\ m \in Newest(S \cup {m}, MaxEvidence)
           /\ Cardinality(Newest(S \cup {m}, MaxEvidence)) <= MaxEvidence
  <1>1. S \cup {m} \in SUBSET (1..m) /\ S \cup {m} \in SUBSET Nat
    OBVIOUS
  <1>2. IsFiniteSet(S \cup {m})
    <2>1. IsFiniteSet(1..m)
      BY FS_Interval
    <2>. QED  BY <1>1, <2>1, FS_Subset
  <1>3. m \in Newest(S \cup {m}, MaxEvidence)
    <2>1. m \in S \cup {m} /\ \A x \in S \cup {m} : x <= m
      OBVIOUS
    <2>. QED  BY <1>1, <2>1, NewestKeepsLast, IssueBoundsAssumption
  <1>. QED  BY <1>1, <1>2, <1>3, NewestKeeps, IssueBoundsAssumption

LEMMA NewIssueTyped ==
    ASSUME NEW m \in Nat \ {0}, NEW r \in BOOLEAN
    PROVE  /\ NewIssue(m, r) \in OpenIssue
           /\ NewIssue(m, r).evidence \in (SUBSET (1..m)) \ {{}}
           /\ Cardinality(NewIssue(m, r).evidence) <= MaxEvidence
  <1>1. [a \in Audiences |-> NoContact] \in [Audiences -> Contact]
    BY DEF NoContact, Contact, Never
  <1>2. Cardinality({m}) <= MaxEvidence
    <2>1. Cardinality({m}) = 1
      BY FS_Singleton, Zenon
    <2>. QED  BY <2>1, IssueBoundsAssumption
  <1>. QED  BY <1>1, <1>2 DEF NewIssue, OpenIssue

LEMMA UpToLater ==
    ASSUME NEW n \in Nat, NEW m \in Nat, n <= m, NEW f, FactsUpTo(f, n)
    PROVE  FactsUpTo(f, m)
  <1>1. SUBSET (1..n) \subseteq SUBSET (1..m)
    OBVIOUS
  <1>. QED  BY <1>1 DEF FactsUpTo, IssuesUpTo

(* Where the limit of open issues cannot be met.                            *)
Room == IsFiniteSet(IssueIds) /\ Cardinality(IssueIds) <= EvidenceReferences

LEMMA RoomForOneMore ==
    ASSUME Room, NEW ids \in SUBSET IssueIds, NEW id \in IssueIds, id \notin ids
    PROVE  ~(Cardinality(ids) >= EvidenceReferences)
  <1>2. IsFiniteSet(IssueIds) /\ Cardinality(IssueIds) \in Nat
    BY FS_CardinalityType DEF Room
  <1>3. IsFiniteSet(ids) /\ Cardinality(ids) \in Nat
    BY <1>2, FS_Subset, FS_CardinalityType
  <1>4. Cardinality(ids \cup {id}) = Cardinality(ids) + 1
    BY <1>3, FS_AddElement
  <1>5. Cardinality(ids \cup {id}) <= Cardinality(IssueIds)
    BY <1>2, FS_Subset
  <1>. QED  BY <1>2, <1>3, <1>4, <1>5, IssueBoundsAssumption DEF Room

(* open_issue and resolve_issues.                                           *)
LEMMA IssueOpened ==
    ASSUME NEW n \in Nat, NEW m \in Nat, m > n, NEW f, FactsUpTo(f, n),
           NEW id \in IssueIds, NEW r \in BOOLEAN
    PROVE  LET g == open_issue(f, id, m, r) IN
           /\ g = [f EXCEPT !.issues = g.issues]
           /\ IssuesUpTo(g.issues, m)
           /\ Refiled(f.issues, g.issues, m)
           /\ DOMAIN f.issues \subseteq DOMAIN g.issues
           /\ DOMAIN g.issues \subseteq DOMAIN f.issues \cup {id}
           /\ Room => id \in DOMAIN g.issues
  <1>. DEFINE g == open_issue(f, id, m, r)
  <1>1. FactsUpTo(f, m) /\ DOMAIN f.issues \subseteq IssueIds
    BY UpToLater DEF FactsUpTo, IssuesUpTo
  <1>2. CASE id \in DOMAIN f.issues
    <2>. DEFINE i == f.issues[id]
                j == [i EXCEPT !.review_required = @ \/ r,
                               !.evidence = Newest(@ \cup {m}, MaxEvidence)]
    <2>1. i \in OpenIssue /\ i.evidence \in SUBSET (1..n)
      BY <1>2 DEF FactsUpTo, IssuesUpTo
    <2>2. /\ j.evidence \in (SUBSET (1..m)) \ {{}} /\ Cardinality(j.evidence) <= MaxEvidence
          /\ j \in OpenIssue /\ j.contacts = i.contacts
          /\ j.evidence = Newest(i.evidence \cup {m}, MaxEvidence)
      <3>1. j.evidence = Newest(i.evidence \cup {m}, MaxEvidence) /\ j.contacts = i.contacts
        BY <2>1 DEF OpenIssue
      <3>2. j.evidence \in (SUBSET (1..m)) \ {{}} /\ Cardinality(j.evidence) <= MaxEvidence
        <4>. HIDE DEF i, j
        <4>1. /\ Newest(i.evidence \cup {m}, MaxEvidence) \in (SUBSET (1..m)) \ {{}}
              /\ Cardinality(Newest(i.evidence \cup {m}, MaxEvidence)) <= MaxEvidence
          BY <2>1, EvidenceEntered
        <4>. QED  BY <3>1, <4>1
      <3>3. j.evidence \in SUBSET (Nat \ {0})
        BY <3>2
      <3>. QED  BY <2>1, <3>1, <3>2, <3>3 DEF OpenIssue
    <2>3. g = [f EXCEPT !.issues = [f.issues EXCEPT ![id] = j]]
      BY <1>2 DEF open_issue, has_issue, FactsUpTo
    <2>4. g.issues = [f.issues EXCEPT ![id] = j]
      BY <2>3 DEF FactsUpTo
    <2>. HIDE DEF g, j
    <2>5. f.issues \in [DOMAIN f.issues -> OpenIssue]
      BY DEF FactsUpTo, IssuesUpTo
    <2>6. /\ DOMAIN g.issues = DOMAIN f.issues
          /\ g.issues[id] = j
          /\ \A k \in DOMAIN f.issues : k # id => g.issues[k] = f.issues[k]
      BY <2>4, <2>5, <1>2
    <2>7. IssuesUpTo(g.issues, m)
      BY <1>1, <2>2, <2>4, <2>5, <2>6 DEF FactsUpTo, IssuesUpTo
    <2>8. Refiled(f.issues, g.issues, m)
      BY <1>2, <2>2, <2>6 DEF Refiled, Entered
    <2>. QED  BY <1>2, <2>3, <2>4, <2>6, <2>7, <2>8 DEF g
  <1>3. CASE id \notin DOMAIN f.issues /\ Cardinality(DOMAIN f.issues) >= EvidenceReferences
    <2>1. g = f
      BY <1>3 DEF open_issue, has_issue
    <2>2. f = [f EXCEPT !.issues = f.issues]
      BY DEF FactsUpTo
    <2>3. ~Room
      <3>1. SUFFICES ASSUME Room PROVE FALSE
        OBVIOUS
      <3>2. ~(Cardinality(DOMAIN f.issues) >= EvidenceReferences)
        BY <1>1, <1>3, <3>1, RoomForOneMore
      <3>. QED  BY <1>3, <3>2
    <2>. QED  BY <1>1, <2>1, <2>2, <2>3 DEF FactsUpTo, Refiled
  <1>4. CASE id \notin DOMAIN f.issues /\ ~(Cardinality(DOMAIN f.issues) >= EvidenceReferences)
    <2>. DEFINE X == [i \in DOMAIN f.issues \cup {id} |->
                         IF i = id THEN NewIssue(m, r) ELSE f.issues[i]]
    <2>1. g = [f EXCEPT !.issues = X]
      BY <1>4 DEF open_issue, has_issue, FactsUpTo
    <2>2. g.issues = X
      BY <2>1 DEF FactsUpTo
    <2>3. /\ DOMAIN X = DOMAIN f.issues \cup {id}
          /\ X[id] = NewIssue(m, r)
          /\ \A k \in DOMAIN f.issues : X[k] = f.issues[k]
      BY <1>4
    <2>4. m \in Nat \ {0}
      OBVIOUS
    <2>5. X \in [DOMAIN X -> OpenIssue]
      <3>1. \A k \in DOMAIN X : X[k] \in OpenIssue
        BY <1>1, <2>3, <2>4, NewIssueTyped DEF FactsUpTo, IssuesUpTo
      <3>. QED  BY <3>1
    <2>. HIDE DEF g, X
    <2>6. IssuesUpTo(X, m)
      BY <1>1, <2>3, <2>4, <2>5, NewIssueTyped DEF FactsUpTo, IssuesUpTo
    <2>7. Refiled(f.issues, X, m)
      BY <1>4, <2>3 DEF Refiled
    <2>. QED  BY <2>1, <2>2, <2>3, <2>6, <2>7 DEF g
  <1>. QED  BY <1>2, <1>3, <1>4

LEMMA IssuesResolved ==
    ASSUME NEW n \in Nat, NEW f, FactsUpTo(f, n), NEW ids
    PROVE  LET g == resolve_issues(f, ids) IN
           /\ g = [f EXCEPT !.issues = g.issues]
           /\ IssuesUpTo(g.issues, n)
           /\ DOMAIN g.issues = DOMAIN f.issues \ ids
           /\ Left(f.issues, g.issues)
  <1>. DEFINE X == [id \in DOMAIN f.issues \ ids |-> f.issues[id]]
              g == resolve_issues(f, ids)
  <1>1. g = [f EXCEPT !.issues = X] /\ g.issues = X
    BY DEF resolve_issues, FactsUpTo
  <1>2. DOMAIN X = DOMAIN f.issues \ ids /\ \A id \in DOMAIN X : X[id] = f.issues[id]
    OBVIOUS
  <1>3. X \in [DOMAIN X -> OpenIssue]
    <2>1. \A id \in DOMAIN X : X[id] \in OpenIssue
      BY <1>2 DEF FactsUpTo, IssuesUpTo
    <2>. QED  BY <2>1
  <1>. HIDE DEF X, g
  <1>4. IssuesUpTo(X, n)
    BY <1>2, <1>3 DEF FactsUpTo, IssuesUpTo
  <1>5. Left(f.issues, X)
    BY <1>2 DEF Left
  <1>. QED  BY <1>1, <1>2, <1>4, <1>5 DEF g

(* What an observation leaves of the facts.                                 *)
LEMMA Observations ==
    ASSUME NEW n \in Nat, NEW f, FactsUpTo(f, n), NEW e \in Event
    PROVE  /\ \A p \in {"confirmed", "failed"} :
                  LET g == PaymentObserved(f, e, p) IN
                  /\ FactsUpTo(g, n) /\ g.issues = f.issues
                  /\ g.payment = p /\ g.attempt = Either(e.reference, f.attempt)
                  /\ g.payment_at = e.at /\ g.shipment = f.shipment
           /\ \A s \in {"in_transit", "delayed"} :
                  LET g == ShipmentObserved(f, e, s) IN
                  /\ FactsUpTo(g, n) /\ g.issues = f.issues
                  /\ g.shipment = s /\ g.payment = f.payment
                  /\ g.payment_at = f.payment_at /\ g.attempt = f.attempt
  <1>1. /\ e.at \in Nat
        /\ \A r \in References \cup {NoReference} :
               Either(e.reference, r) \in References \cup {NoReference}
    BY DEF Event, Moments, Either
  <1>2. ASSUME NEW p \in {"confirmed", "failed"}
        PROVE  LET g == PaymentObserved(f, e, p) IN
               /\ FactsUpTo(g, n) /\ g.issues = f.issues
               /\ g.payment = p /\ g.attempt = Either(e.reference, f.attempt)
               /\ g.payment_at = e.at /\ g.shipment = f.shipment
    BY <1>1 DEF PaymentObserved, FactsUpTo
  <1>3. ASSUME NEW s \in {"in_transit", "delayed"}
        PROVE  LET g == ShipmentObserved(f, e, s) IN
               /\ FactsUpTo(g, n) /\ g.issues = f.issues
               /\ g.shipment = s /\ g.payment = f.payment
               /\ g.payment_at = f.payment_at /\ g.attempt = f.attempt
    BY <1>1 DEF ShipmentObserved, FactsUpTo
  <1>. QED  BY <1>2, <1>3

LEMMA WithIssues ==
    ASSUME NEW n \in Nat, NEW m \in Nat, NEW f, FactsUpTo(f, n), NEW X, IssuesUpTo(X, m)
    PROVE  LET g == [f EXCEPT !.issues = X] IN
           /\ FactsUpTo(g, m) /\ g.issues = X
           /\ g.payment = f.payment /\ g.attempt = f.attempt /\ g.payment_at = f.payment_at
           /\ g.shipment = f.shipment /\ g.reference = f.reference
  BY DEF FactsUpTo

(* What an outcome says of the facts it leaves.                             *)
Outcome(f, o, sequence) ==
    /\ FactsUpTo(o.facts, sequence)
    /\ o.important \in BOOLEAN /\ o.material \in BOOLEAN
    /\ o.review_required \in BOOLEAN /\ o.terminal \in BOOLEAN
    /\ ~o.material => o.facts = f
    /\ Refiled(f.issues, o.facts.issues, sequence)
    /\ o.terminal \/ o.important \/ Left(f.issues, o.facts.issues)

Reads(o, known, important, material, review_required, terminal) ==
    /\ o.facts = known /\ o.important = important /\ o.material = material
    /\ o.review_required = review_required /\ o.terminal = terminal

LEMMA OutcomeFields ==
    ASSUME NEW f, NEW important
    PROVE  /\ Reads(Immaterial(f), f, FALSE, FALSE, FALSE, FALSE)
           /\ Reads(Material(f, important), f, important, TRUE, FALSE, FALSE)
           /\ Reads(Concern(f), f, TRUE, TRUE, FALSE, FALSE)
           /\ Reads(NeedsReview(f), f, TRUE, TRUE, TRUE, FALSE)
  <1>1. Reads(Immaterial(f), f, FALSE, FALSE, FALSE, FALSE)
    BY DEF Immaterial, Reads
  <1>2. Reads(Material(f, important), f, important, TRUE, FALSE, FALSE)
    BY DEF Immaterial, Material, Reads
  <1>3. Reads(Concern(f), f, TRUE, TRUE, FALSE, FALSE)
    BY DEF Immaterial, Material, Concern, Reads
  <1>4. Reads(NeedsReview(f), f, TRUE, TRUE, TRUE, FALSE)
    BY DEF Immaterial, Material, Concern, NeedsReview, Reads
  <1>. QED  BY <1>1, <1>2, <1>3, <1>4

LEMMA ImmaterialOutcome ==
    ASSUME NEW n \in Nat, NEW m \in Nat, m > n, NEW f, FactsUpTo(f, n)
    PROVE  Outcome(f, Immaterial(f), m)
  <1>1. FactsUpTo(f, m)
    BY UpToLater
  <1>. QED  BY <1>1, OutcomeFields DEF Reads, Outcome, Refiled, Left

LEMMA ConcernOutcome ==
    ASSUME NEW m \in Nat, NEW f, NEW g, FactsUpTo(g, m), Refiled(f.issues, g.issues, m)
    PROVE  Outcome(f, Concern(g), m) /\ Outcome(f, NeedsReview(g), m)
  BY OutcomeFields DEF Reads, Outcome

LEMMA MaterialOutcome ==
    ASSUME NEW n \in Nat, NEW m \in Nat, m > n, NEW f, NEW g, FactsUpTo(g, n),
           Left(f.issues, g.issues), NEW important \in BOOLEAN
    PROVE  Outcome(f, Material(g, important), m)
  <1>1. FactsUpTo(g, m)
    BY UpToLater
  <1>2. Refiled(f.issues, g.issues, m)
    BY DEF Left, Refiled
  <1>. DEFINE o == Material(g, important)
  <1>3. Reads(o, g, important, TRUE, FALSE, FALSE)
    BY OutcomeFields
  <1>. HIDE DEF o
  <1>4. Outcome(f, o, m)
    BY <1>1, <1>2, <1>3 DEF Outcome, Reads
  <1>. QED  BY <1>4 DEF o

(* Facts with an issue opened or with issues resolved, and all else as it    *)
(* was.                                                                     *)
SamePayment(f, g) ==
    g.payment = f.payment /\ g.attempt = f.attempt /\ g.payment_at = f.payment_at

Opened(f, g, id, sequence) ==
    /\ FactsUpTo(g, sequence)
    /\ SamePayment(f, g) /\ g.shipment = f.shipment
    /\ Refiled(f.issues, g.issues, sequence)
    /\ DOMAIN f.issues \subseteq DOMAIN g.issues
    /\ DOMAIN g.issues \subseteq DOMAIN f.issues \cup {id}
    /\ Room => id \in DOMAIN g.issues

Resolved(f, g, ids, sequence) ==
    /\ FactsUpTo(g, sequence)
    /\ SamePayment(f, g) /\ g.shipment = f.shipment
    /\ Left(f.issues, g.issues)
    /\ DOMAIN g.issues = DOMAIN f.issues \ ids

LEMMA OpenIssueOpens ==
    ASSUME NEW n \in Nat, NEW m \in Nat, m > n, NEW f, FactsUpTo(f, n),
           NEW id \in IssueIds, NEW r \in BOOLEAN
    PROVE  Opened(f, open_issue(f, id, m, r), id, m)
  <1>. DEFINE g == open_issue(f, id, m, r)
  <1>1. /\ g = [f EXCEPT !.issues = g.issues] /\ IssuesUpTo(g.issues, m)
        /\ Refiled(f.issues, g.issues, m) /\ DOMAIN f.issues \subseteq DOMAIN g.issues
        /\ DOMAIN g.issues \subseteq DOMAIN f.issues \cup {id}
        /\ Room => id \in DOMAIN g.issues
    BY IssueOpened
  <1>. DEFINE h == [f EXCEPT !.issues = g.issues]
  <1>. HIDE DEF g
  <1>2. FactsUpTo(h, m) /\ SamePayment(f, h) /\ h.shipment = f.shipment
    BY <1>1, WithIssues DEF SamePayment
  <1>. HIDE DEF h
  <1>3. g = h
    BY <1>1 DEF h
  <1>4. Opened(f, g, id, m)
    BY <1>1, <1>2, <1>3 DEF Opened
  <1>. QED  BY <1>4 DEF g

LEMMA ResolveIssuesCloses ==
    ASSUME NEW n \in Nat, NEW f, FactsUpTo(f, n), NEW ids
    PROVE  Resolved(f, resolve_issues(f, ids), ids, n)
  <1>. DEFINE g == resolve_issues(f, ids)
  <1>1. /\ g = [f EXCEPT !.issues = g.issues] /\ IssuesUpTo(g.issues, n)
        /\ DOMAIN g.issues = DOMAIN f.issues \ ids /\ Left(f.issues, g.issues)
    BY IssuesResolved
  <1>. DEFINE h == [f EXCEPT !.issues = g.issues]
  <1>. HIDE DEF g
  <1>2. FactsUpTo(h, n) /\ SamePayment(f, h) /\ h.shipment = f.shipment
    BY <1>1, WithIssues DEF SamePayment
  <1>. HIDE DEF h
  <1>3. g = h
    BY <1>1 DEF h
  <1>4. Resolved(f, g, ids, n)
    BY <1>1, <1>2, <1>3 DEF Resolved
  <1>. QED  BY <1>4 DEF g

(* The handlers of interpret, each with what else it leaves of the payment   *)
(* and the shipment.                                                        *)
LEMMA PaymentConfirmed ==
    ASSUME NEW n \in Nat, NEW m \in Nat, m > n, NEW f, FactsUpTo(f, n), NEW e \in Event
    PROVE  LET o == payment_confirmed(f, e) IN
           /\ Outcome(f, o, m) /\ ~o.terminal /\ ~o.review_required
           /\ o.facts.shipment = f.shipment
           /\ \/ o.facts = f
              \/ /\ o.facts.payment = "confirmed"
                 /\ DOMAIN o.facts.issues = DOMAIN f.issues \ {"payment"}
                 /\ has_issue(f, "payment") => o.important
  <1>1. CASE f.payment = "confirmed" \/ older_than(e.at, f.payment_at)
    BY <1>1, ImmaterialOutcome, OutcomeFields DEF payment_confirmed, Reads
  <1>2. CASE ~(f.payment = "confirmed" \/ older_than(e.at, f.payment_at))
    <2>. DEFINE r == resolve_issues(f, {"payment"})
                g == PaymentObserved(r, e, "confirmed")
                o == Material(g, has_issue(f, "payment"))
    <2>1. /\ FactsUpTo(r, n) /\ DOMAIN r.issues = DOMAIN f.issues \ {"payment"}
          /\ Left(f.issues, r.issues) /\ r.shipment = f.shipment
      BY ResolveIssuesCloses DEF Resolved
    <2>2. /\ FactsUpTo(g, n) /\ g.issues = r.issues /\ g.payment = "confirmed"
          /\ g.shipment = f.shipment
      <3>. HIDE DEF r
      <3>. QED  BY <2>1, Observations
    <2>3. payment_confirmed(f, e) = o
      BY <1>2 DEF payment_confirmed
    <2>4. has_issue(f, "payment") \in BOOLEAN
      BY DEF has_issue
    <2>. HIDE DEF g
    <2>5. Outcome(f, o, m)
      BY <2>1, <2>2, <2>4, MaterialOutcome
    <2>6. Reads(o, g, has_issue(f, "payment"), TRUE, FALSE, FALSE)
      BY OutcomeFields
    <2>. QED  BY <2>1, <2>2, <2>3, <2>5, <2>6 DEF Reads
  <1>. QED  BY <1>1, <1>2

LEMMA PaymentFailed ==
    ASSUME NEW n \in Nat, NEW m \in Nat, m > n, NEW f, FactsUpTo(f, n), NEW e \in Event
    PROVE  LET o == payment_failed(f, e, m) IN
           /\ Outcome(f, o, m) /\ ~o.terminal
           /\ o.facts.shipment = f.shipment
           /\ DOMAIN f.issues \subseteq DOMAIN o.facts.issues
           /\ DOMAIN o.facts.issues \subseteq DOMAIN f.issues \cup {"payment", "payment-evidence"}
           /\ \/ /\ SamePayment(f, o.facts)
                 /\ has_issue(o.facts, "payment") => has_issue(f, "payment")
              \/ /\ o.facts.payment = "failed"
                 /\ f.payment = "confirmed" =>
                        SameAttempt(f, e) /\ ~older_than(e.at, f.payment_at)
                 /\ Room => has_issue(o.facts, "payment")
  <1>1. CASE f.payment = "confirmed" /\ SameAttempt(f, e) /\ older_than(e.at, f.payment_at)
    <2>1. payment_failed(f, e, m) = Immaterial(f)
      BY <1>1 DEF payment_failed
    <2>2. Outcome(f, Immaterial(f), m) /\ Reads(Immaterial(f), f, FALSE, FALSE, FALSE, FALSE)
      BY ImmaterialOutcome, OutcomeFields
    <2>. QED  BY <2>1, <2>2 DEF Reads, SamePayment
  <1>2. CASE f.payment = "confirmed" /\ ~SameAttempt(f, e)
    <2>. DEFINE g == open_issue(f, "payment-evidence", m, TRUE)
    <2>1. Opened(f, g, "payment-evidence", m)
      BY OpenIssueOpens DEF IssueIds, KnownIssues
    <2>2. payment_failed(f, e, m) = NeedsReview(g)
      BY <1>2 DEF payment_failed
    <2>. HIDE DEF g
    <2>3. Outcome(f, NeedsReview(g), m) /\ Reads(NeedsReview(g), g, TRUE, TRUE, TRUE, FALSE)
      BY <2>1, ConcernOutcome, OutcomeFields DEF Opened
    <2>. QED  BY <2>1, <2>2, <2>3 DEF Reads, has_issue, Opened
  <1>3. CASE ~(f.payment = "confirmed" /\ SameAttempt(f, e) /\ older_than(e.at, f.payment_at))
             /\ ~(f.payment = "confirmed" /\ ~SameAttempt(f, e))
    <2>. DEFINE h == open_issue(f, "payment", m, FALSE)
                g == PaymentObserved(h, e, "failed")
    <2>1. Opened(f, h, "payment", m)
      BY OpenIssueOpens DEF IssueIds, KnownIssues
    <2>. HIDE DEF h
    <2>2. /\ FactsUpTo(g, m) /\ g.issues = h.issues /\ g.payment = "failed"
          /\ g.shipment = f.shipment
      BY <2>1, Observations DEF Opened
    <2>3. payment_failed(f, e, m) = Concern(g)
      BY <1>3 DEF payment_failed, h
    <2>. HIDE DEF g
    <2>4. Outcome(f, Concern(g), m) /\ Reads(Concern(g), g, TRUE, TRUE, FALSE, FALSE)
      BY <2>1, <2>2, ConcernOutcome, OutcomeFields DEF Opened
    <2>. QED  BY <1>3, <2>1, <2>2, <2>3, <2>4 DEF Reads, has_issue, Opened
  <1>. QED  BY <1>1, <1>2, <1>3

LEMMA ShipmentCreated ==
    ASSUME NEW n \in Nat, NEW m \in Nat, m > n, NEW f, FactsUpTo(f, n), NEW e \in Event
    PROVE  LET o == shipment_created(f, e) IN
           /\ Outcome(f, o, m) /\ ~o.terminal
           /\ SamePayment(f, o.facts)
           /\ \/ o.facts = f
              \/ /\ f.shipment # "delivered" /\ o.facts.shipment = "in_transit"
                 /\ DOMAIN o.facts.issues = DOMAIN f.issues \ {"stalled"}
  <1>1. CASE f.shipment = "delivered" \/ older_than(e.at, f.shipment_at)
    BY <1>1, ImmaterialOutcome, OutcomeFields DEF shipment_created, Reads, SamePayment
  <1>2. CASE ~(f.shipment = "delivered" \/ older_than(e.at, f.shipment_at))
    <2>. DEFINE r == resolve_issues(f, {"stalled"})
                g == ShipmentObserved(r, e, "in_transit")
                o == Material(g, has_issue(f, "stalled"))
    <2>1. Resolved(f, r, {"stalled"}, n)
      BY ResolveIssuesCloses
    <2>. HIDE DEF r
    <2>2. /\ FactsUpTo(g, n) /\ g.issues = r.issues /\ g.shipment = "in_transit"
          /\ SamePayment(f, g)
      BY <2>1, Observations DEF Resolved, SamePayment
    <2>3. shipment_created(f, e) = o
      BY <1>2 DEF shipment_created, r
    <2>4. has_issue(f, "stalled") \in BOOLEAN
      BY DEF has_issue
    <2>. HIDE DEF g
    <2>5. Outcome(f, o, m)
      BY <2>1, <2>2, <2>4, MaterialOutcome DEF Resolved
    <2>6. Reads(o, g, has_issue(f, "stalled"), TRUE, FALSE, FALSE)
      BY OutcomeFields
    <2>. QED  BY <1>2, <2>1, <2>2, <2>3, <2>5, <2>6 DEF Reads, Resolved
  <1>. QED  BY <1>1, <1>2

LEMMA ShipmentDelayed ==
    ASSUME NEW n \in Nat, NEW m \in Nat, m > n, NEW f, FactsUpTo(f, n), NEW e \in Event
    PROVE  LET o == shipment_delayed(f, e, m) IN
           /\ Outcome(f, o, m) /\ ~o.terminal
           /\ SamePayment(f, o.facts)
           /\ DOMAIN f.issues \subseteq DOMAIN o.facts.issues
           /\ DOMAIN o.facts.issues
                  \subseteq DOMAIN f.issues \cup {"shipment-evidence", "shipment-delay"}
           /\ \/ o.facts.shipment = f.shipment
              \/ /\ f.shipment # "delivered" /\ o.facts.shipment = "delayed"
                 /\ Room => has_issue(o.facts, "shipment-delay")
  <1>1. CASE f.shipment = "delivered"
    BY <1>1, ImmaterialOutcome, OutcomeFields DEF shipment_delayed, Reads, SamePayment
  <1>2. CASE f.shipment # "delivered" /\ OtherShipment(f, e)
    <2>. DEFINE g == open_issue(f, "shipment-evidence", m, TRUE)
    <2>1. Opened(f, g, "shipment-evidence", m)
      BY OpenIssueOpens DEF IssueIds, KnownIssues
    <2>2. shipment_delayed(f, e, m) = NeedsReview(g)
      BY <1>2 DEF shipment_delayed
    <2>. HIDE DEF g
    <2>3. Outcome(f, NeedsReview(g), m) /\ Reads(NeedsReview(g), g, TRUE, TRUE, TRUE, FALSE)
      BY <2>1, ConcernOutcome, OutcomeFields DEF Opened
    <2>. QED  BY <2>1, <2>2, <2>3 DEF Reads, Opened
  <1>3. CASE f.shipment # "delivered" /\ ~OtherShipment(f, e)
    <2>. DEFINE h == open_issue(f, "shipment-delay", m, FALSE)
                g == ShipmentObserved(h, e, "delayed")
    <2>1. Opened(f, h, "shipment-delay", m)
      BY OpenIssueOpens DEF IssueIds, KnownIssues
    <2>. HIDE DEF h
    <2>2. /\ FactsUpTo(g, m) /\ g.issues = h.issues /\ g.shipment = "delayed"
          /\ SamePayment(f, g)
      BY <2>1, Observations DEF Opened, SamePayment
    <2>3. shipment_delayed(f, e, m) = Concern(g)
      BY <1>3 DEF shipment_delayed, h
    <2>. HIDE DEF g
    <2>4. Outcome(f, Concern(g), m) /\ Reads(Concern(g), g, TRUE, TRUE, FALSE, FALSE)
      BY <2>1, <2>2, ConcernOutcome, OutcomeFields DEF Opened
    <2>. QED  BY <1>3, <2>1, <2>2, <2>3, <2>4 DEF Reads, has_issue, Opened
  <1>. QED  BY <1>1, <1>2, <1>3

LEMMA Delivered ==
    ASSUME NEW n \in Nat, NEW m \in Nat, m > n, NEW f, FactsUpTo(f, n), NEW e \in Event
    PROVE  LET o == delivered(f, e) IN
           /\ Outcome(f, o, m) /\ o.terminal
           /\ SamePayment(f, o.facts) /\ o.facts.shipment = "delivered"
           /\ DOMAIN o.facts.issues = DOMAIN f.issues \ DELIVERY_RESOLVES
  <1>. DEFINE r == resolve_issues(f, DELIVERY_RESOLVES)
              g == [r EXCEPT !.shipment = "delivered", !.shipment_at = e.at, !.progress_at = e.at]
              o == [Concern(g) EXCEPT !.terminal = TRUE]
  <1>1. Resolved(f, r, DELIVERY_RESOLVES, n)
    BY ResolveIssuesCloses
  <1>2. o = delivered(f, e)
    BY DEF delivered
  <1>. HIDE DEF r
  <1>3. FactsUpTo(g, n) /\ g.issues = r.issues /\ g.shipment = "delivered" /\ SamePayment(f, g)
    BY <1>1 DEF Resolved, FactsUpTo, SamePayment, Event, Moments
  <1>. HIDE DEF g
  <1>4. Reads(o, g, TRUE, TRUE, FALSE, TRUE)
    BY DEF Concern, Material, Immaterial, Reads
  <1>. HIDE DEF o
  <1>5. FactsUpTo(g, m) /\ Refiled(f.issues, g.issues, m)
    BY <1>1, <1>3, UpToLater DEF Resolved, Left, Refiled
  <1>6. Outcome(f, o, m)
    BY <1>4, <1>5 DEF Reads, Outcome
  <1>. QED  BY <1>1, <1>2, <1>3, <1>4, <1>6 DEF Resolved, Reads

(* An event that at most opens one issue, which is none of the payment's or  *)
(* the shipment's.                                                          *)
Aside(f, o, sequence) ==
    /\ Outcome(f, o, sequence) /\ ~o.terminal
    /\ SamePayment(f, o.facts) /\ o.facts.shipment = f.shipment
    /\ DOMAIN f.issues \subseteq DOMAIN o.facts.issues
    /\ has_issue(o.facts, "payment") => has_issue(f, "payment")

LEMMA OpeningAside ==
    ASSUME NEW n \in Nat, NEW m \in Nat, m > n, NEW f, FactsUpTo(f, n),
           NEW id \in IssueIds, id # "payment", NEW r \in BOOLEAN
    PROVE  /\ Aside(f, Concern(open_issue(f, id, m, r)), m)
           /\ Aside(f, NeedsReview(open_issue(f, id, m, r)), m)
  <1>. DEFINE g == open_issue(f, id, m, r)
  <1>1. Opened(f, g, id, m)
    BY OpenIssueOpens
  <1>. HIDE DEF g
  <1>2. /\ Outcome(f, Concern(g), m) /\ Reads(Concern(g), g, TRUE, TRUE, FALSE, FALSE)
        /\ Outcome(f, NeedsReview(g), m) /\ Reads(NeedsReview(g), g, TRUE, TRUE, TRUE, FALSE)
    BY <1>1, ConcernOutcome, OutcomeFields DEF Opened
  <1>3. Aside(f, Concern(g), m) /\ Aside(f, NeedsReview(g), m)
    BY <1>1, <1>2 DEF Aside, Reads, Opened, has_issue
  <1>. QED  BY <1>3 DEF g

LEMMA NothingAside ==
    ASSUME NEW n \in Nat, NEW m \in Nat, m > n, NEW f, FactsUpTo(f, n)
    PROVE  Aside(f, Immaterial(f), m)
  BY ImmaterialOutcome, OutcomeFields DEF Aside, Reads, SamePayment

(* What interpret makes of any event.                                       *)
PaymentMoves(f, e, g) ==
    \/ SamePayment(f, g) /\ (has_issue(g, "payment") <=> has_issue(f, "payment"))
    \/ /\ e.type = "payment_confirmed" /\ g.payment = "confirmed"
       /\ ~has_issue(g, "payment")
    \/ /\ e.type = "payment_failed" /\ g.payment = "failed"
       /\ f.payment = "confirmed" => SameAttempt(f, e) /\ ~older_than(e.at, f.payment_at)
       /\ Room => has_issue(g, "payment")

ShipmentMoves(f, e, g) ==
    \/ g.shipment = f.shipment /\ (has_issue(f, "shipment-delay") => has_issue(g, "shipment-delay"))
    \/ g.shipment = "in_transit" /\ f.shipment # "delivered"
    \/ /\ g.shipment = "delayed" /\ f.shipment # "delivered"
       /\ Room => has_issue(g, "shipment-delay")
    \/ /\ g.shipment = "delivered" /\ e.type = "delivered"
       /\ DELIVERY_RESOLVES \cap DOMAIN g.issues = {}

Interpreted(f, e, o, sequence) ==
    /\ Outcome(f, o, sequence)
    /\ o.terminal <=> e.type = "delivered"
    /\ PaymentMoves(f, e, o.facts)
    /\ ShipmentMoves(f, e, o.facts)
    /\ e.type = "payment_confirmed" =>
           /\ ~o.review_required
           /\ has_issue(f, "payment") /\ ~has_issue(o.facts, "payment") => o.important

LEMMA Interpretation ==
    ASSUME NEW n \in Nat, NEW m \in Nat, m > n, NEW f, FactsUpTo(f, n), NEW e \in Event,
           NEW moment \in Nat
    PROVE  Interpreted(f, e, interpret(f, e, m, moment), m)
  <1>. DEFINE o == interpret(f, e, m, moment)
  <1>. USE DEF PaymentMoves, ShipmentMoves, Interpreted
  <1>1. CASE e.type = "payment_confirmed"
    <2>1. o = payment_confirmed(f, e)
      BY <1>1, UnknownTypesAssumption DEF interpret, KnownTypes
    <2>. HIDE DEF o
    <2>2. PaymentMoves(f, e, o.facts)
      BY <1>1, <2>1, PaymentConfirmed DEF has_issue, SamePayment
    <2>3. ShipmentMoves(f, e, o.facts)
      BY <2>1, PaymentConfirmed DEF has_issue
    <2>4. Interpreted(f, e, o, m)
      BY <1>1, <2>1, <2>2, <2>3, PaymentConfirmed
    <2>. QED  BY <2>4 DEF o
  <1>2. CASE e.type = "payment_failed"
    <2>1. o = payment_failed(f, e, m)
      BY <1>2, UnknownTypesAssumption DEF interpret, KnownTypes
    <2>. HIDE DEF o
    <2>2. PaymentMoves(f, e, o.facts)
      BY <1>2, <2>1, PaymentFailed DEF has_issue
    <2>3. ShipmentMoves(f, e, o.facts)
      BY <2>1, PaymentFailed DEF has_issue
    <2>4. Interpreted(f, e, o, m)
      BY <1>2, <2>1, <2>2, <2>3, PaymentFailed
    <2>. QED  BY <2>4 DEF o
  <1>3. CASE e.type = "shipment_created"
    <2>1. o = shipment_created(f, e)
      BY <1>3, UnknownTypesAssumption DEF interpret, KnownTypes
    <2>. HIDE DEF o
    <2>2. Interpreted(f, e, o, m)
      BY <1>3, <2>1, ShipmentCreated DEF has_issue
    <2>. QED  BY <2>2 DEF o
  <1>4. CASE e.type = "shipment_delayed"
    <2>1. o = shipment_delayed(f, e, m)
      BY <1>4, UnknownTypesAssumption DEF interpret, KnownTypes
    <2>. HIDE DEF o
    <2>2. Interpreted(f, e, o, m)
      BY <1>4, <2>1, ShipmentDelayed DEF has_issue
    <2>. QED  BY <2>2 DEF o
  <1>5. CASE e.type = "delivered"
    <2>1. o = delivered(f, e)
      BY <1>5, UnknownTypesAssumption DEF interpret, KnownTypes
    <2>. HIDE DEF o
    <2>2. Interpreted(f, e, o, m)
      BY <1>5, <2>1, Delivered DEF has_issue, DELIVERY_RESOLVES
    <2>. QED  BY <2>2 DEF o
  <1>6. CASE e.type \in {"order_created", "refund_requested", "customer_message_received",
                         "no_update_for_n_hours"} \cup UnknownTypes
    <2>1. Aside(f, o, m)
      <3>1. CASE e.type = "order_created"
        BY <3>1, NothingAside, UnknownTypesAssumption DEF interpret, KnownTypes
      <3>2. CASE e.type = "refund_requested"
        BY <3>2, OpeningAside, UnknownTypesAssumption DEF interpret, KnownTypes, IssueIds,
           KnownIssues
      <3>3. CASE e.type = "customer_message_received"
        BY <3>3, OpeningAside, UnknownTypesAssumption DEF interpret, KnownTypes, IssueIds,
           KnownIssues
      <3>4. CASE e.type = "no_update_for_n_hours"
        <4>1. o = no_update(f, e, m, moment)
          BY <3>4, UnknownTypesAssumption DEF interpret, KnownTypes
        <4>. QED  BY <4>1, NothingAside, OpeningAside DEF no_update, IssueIds, KnownIssues
      <3>5. CASE e.type \in UnknownTypes
        BY <3>5, OpeningAside, UnknownTypesAssumption DEF interpret, KnownTypes, IssueIds,
           KnownIssues
      <3>. QED  BY <1>6, <3>1, <3>2, <3>3, <3>4, <3>5
    <2>. HIDE DEF o
    <2>2. e.type \notin {"payment_confirmed", "delivered"}
      BY <1>6, UnknownTypesAssumption DEF KnownTypes
    <2>3. Interpreted(f, e, o, m)
      BY <2>1, <2>2 DEF Aside, has_issue
    <2>. QED  BY <2>3 DEF o
  <1>7. e.type \in KnownTypes \cup UnknownTypes
    BY DEF Event, EventTypes
  <1>. QED  BY <1>1, <1>2, <1>3, <1>4, <1>5, <1>6, <1>7 DEF KnownTypes

---------------------------------------------------------------------------
(* When the agent is woken: domain/policy.py, guidance.py and lifecycle.py. *)
LEMMA ImportantWakes ==
    ASSUME NEW o, NEW given, NEW type, NEW hints
    PROVE  LET verdict == classify(o, given, type, hints) IN
           /\ verdict.wake \in BOOLEAN
           /\ ~o.terminal /\ o.important /\ ~verdict.wake =>
                  /\ ~o.review_required
                  /\ o.facts.issues = <<>>
                  /\ Hinted(hints, "defer_routine", type)
  BY DEF classify, Verdict

LEMMA ShortestIsLeast ==
    ASSUME NEW hints \in SUBSET WakeHint, NEW horizon \in Nat
    PROVE  LET s == Shortest(hints, horizon) IN
           /\ s \in Nat /\ s <= horizon
           /\ \A h \in hints : h.kind = "shorten_review" => s <= h.after
           /\ s = horizon \/ \E h \in hints : h.kind = "shorten_review" /\ s = h.after
  <1>. DEFINE S == Shortenings(hints) \cup {horizon}
  <1>1. Shortenings(hints) \subseteq Nat
    BY DEF Shortenings, WakeHint
  <1>2. S \in SUBSET Nat /\ S # {}
    BY <1>1
  <1>3. \E n \in S : \A m \in S : n <= m
    <2>. HIDE DEF S
    <2>. QED  BY <1>2, SmallestExists
  <1>4. Shortest(hints, horizon) \in S /\ \A m \in S : Shortest(hints, horizon) <= m
    BY <1>3 DEF Shortest
  <1>5. \A h \in hints : h.kind = "shorten_review" => h.after \in S
    BY DEF Shortenings
  <1>6. \A s \in S : s = horizon \/ \E h \in hints : h.kind = "shorten_review" /\ s = h.after
    BY DEF Shortenings
  <1>. HIDE DEF S
  <1>7. horizon \in S
    BY DEF S
  <1>. QED  BY <1>2, <1>4, <1>5, <1>6, <1>7

(* The interval to the next review, whatever the agent asked for.           *)
LEMMA IntervalInRange ==
    ASSUME NEW requested \in Nat, NEW policy, policy.prioritize_speed \in BOOLEAN,
           NEW hints \in SUBSET WakeHint, NEW moment \in Nat,
           \A h \in hints : h.kind = "shorten_review" => Minimum <= h.after
    PROVE  \E interval \in Minimum..Maximum :
               /\ effective_wake(requested, policy, hints, moment)
                      = Smaller(moment + interval, MaximumAge)
               /\ policy.prioritize_speed => interval <= Default
               /\ \A h \in hints : h.kind = "shorten_review" => interval <= h.after
  <1>. DEFINE ceiling == Ceiling(policy, hints)
              fallback == Fallback(policy, hints)
              interval == IF requested \in Minimum..ceiling THEN requested ELSE fallback
  <1>1. /\ Minimum \in Nat /\ Default \in Nat /\ Maximum \in Nat
        /\ Minimum <= Default /\ Default <= Maximum
    BY ProfileAssumption
  <1>2. /\ ceiling \in Nat /\ ceiling <= Maximum
        /\ policy.prioritize_speed => ceiling <= Default
        /\ \A h \in hints : h.kind = "shorten_review" => ceiling <= h.after
    <2>1. CASE policy.prioritize_speed
      BY <1>1, <2>1, ShortestIsLeast DEF Ceiling
    <2>2. CASE ~policy.prioritize_speed
      BY <1>1, <2>2, ShortestIsLeast DEF Ceiling
    <2>. QED  BY <2>1, <2>2
  <1>3. /\ fallback \in Minimum..Maximum
        /\ policy.prioritize_speed => fallback <= Default
        /\ \A h \in hints : h.kind = "shorten_review" => fallback <= h.after
    <2>. DEFINE usual == IF policy.prioritize_speed THEN Larger(Minimum, Default \div 2) ELSE Default
                least == Shortest(hints, Maximum)
    <2>1. usual \in Minimum..Default
      BY <1>1 DEF Larger
    <2>2. /\ least \in Nat /\ least <= Maximum
          /\ \A h \in hints : h.kind = "shorten_review" => least <= h.after
      BY <1>1, ShortestIsLeast
    <2>3. fallback = Smaller(usual, Larger(least, Minimum))
      BY DEF Fallback
    <2>4. \A h \in hints : h.after \in Nat
      BY DEF WakeHint
    <2>. HIDE DEF usual, least, fallback
    <2>5. Larger(least, Minimum) \in Minimum..Maximum
      BY <1>1, <2>2 DEF Larger
    <2>6. \A h \in hints : h.kind = "shorten_review" => Larger(least, Minimum) <= h.after
      BY <1>1, <2>2, <2>4 DEF Larger
    <2>7. /\ Smaller(usual, Larger(least, Minimum)) \in Minimum..Maximum
          /\ Smaller(usual, Larger(least, Minimum)) <= Default
          /\ Smaller(usual, Larger(least, Minimum)) <= Larger(least, Minimum)
      BY <1>1, <2>1, <2>5 DEF Smaller
    <2>8. \A h \in hints : h.kind = "shorten_review" => fallback <= h.after
      <3>1. SUFFICES ASSUME NEW h \in hints, h.kind = "shorten_review" PROVE fallback <= h.after
        OBVIOUS
      <3>. QED  BY <1>1, <2>3, <2>4, <2>5, <2>6, <2>7, <3>1
    <2>. QED  BY <2>3, <2>7, <2>8
  <1>4. \A h \in hints : h.after \in Nat
    BY DEF WakeHint
  <1>5. effective_wake(requested, policy, hints, moment) = Smaller(moment + interval, MaximumAge)
    BY DEF effective_wake
  <1>. HIDE DEF ceiling, fallback
  <1>6. /\ interval \in Minimum..Maximum
        /\ policy.prioritize_speed => interval <= Default
        /\ \A h \in hints : h.kind = "shorten_review" => interval <= h.after
    BY <1>1, <1>2, <1>3, <1>4
  <1>. HIDE DEF interval
  <1>. QED  BY <1>5, <1>6

LEMMA PolicyTyped ==
    ASSUME NEW given
    PROVE  /\ effective_policy(given).prioritize_speed = LastStated(given, "speed", PrioritizeSpeed)
           /\ effective_policy(given).prioritize_speed \in BOOLEAN
           /\ effective_policy(given).require_customer_review \in BOOLEAN
           /\ effective_policy(given).require_customer_review <=>
                  \/ LastStated(given, "review", CustomerReview)
                  \/ (given # <<>> /\ Stated(given, "review") = {})
  BY TemplateAssumption DEF effective_policy, LastStated

(* Customer messages go out unseen only where somebody said so last.        *)
LEMMA SilenceIsReview ==
    ASSUME NEW given \in Seq(Instruction), ~effective_policy(given).require_customer_review
    PROVE  \/ given = <<>> /\ ~CustomerReview
           \/ \E k \in DOMAIN given :
                  /\ given[k].review = "off"
                  /\ \A j \in k + 1..Len(given) : given[j].review # "on"
  <1>. DEFINE stated == Stated(given, "review")
  <1>1. ~LastStated(given, "review", CustomerReview) /\ ~(given # <<>> /\ stated = {})
    BY PolicyTyped
  <1>2. CASE stated = {}
    BY <1>1, <1>2 DEF LastStated
  <1>3. CASE stated # {}
    <2>1. Len(given) \in Nat /\ DOMAIN given = 1..Len(given)
      OBVIOUS
    <2>2. stated \in SUBSET (0..Len(given))
      BY <2>1 DEF Stated
    <2>. DEFINE k == Largest(stated)
    <2>3. k \in stated /\ \A j \in stated : j <= k
      BY <1>3, <2>1, <2>2, LargestOfEntries
    <2>4. given[k]["review"] # "on"
      BY <1>1, <1>3 DEF LastStated
    <2>. HIDE DEF k
    <2>5. k \in DOMAIN given /\ given[k]["review"] # "unset"
      BY <2>3 DEF Stated
    <2>6. given[k].review = "off"
      <3>1. given[k] \in Instruction
        BY <2>5
      <3>2. given[k].review \in {"unset", "on", "off"}
        BY <3>1 DEF Instruction, Stances
      <3>. QED  BY <2>4, <2>5, <3>2
    <2>7. ASSUME NEW j \in k + 1..Len(given) PROVE given[j].review # "on"
      <3>1. j \in DOMAIN given /\ ~(j <= k)
        BY <2>1, <2>5
      <3>. QED  BY <2>3, <3>1 DEF Stated
    <2>. QED  BY <2>5, <2>6, <2>7
  <1>. QED  BY <1>2, <1>3

---------------------------------------------------------------------------
(* What a review reads, may do and leaves: domain/authorization.py.         *)
LEMMA AudienceTyped ==
    ASSUME NEW p \in ActionProposal
    PROVE  /\ audience_of(p) \in Audiences
           /\ audience_of(p) = "customer" <=> p.action = "message_customer"
  BY DEF audience_of, ActionProposal, REGISTRY, Audiences

LEMMA Authorization ==
    ASSUME NEW actions \in Seq(ActionProposal), NEW f, NEW policy, NEW waiting, NEW moment
    PROVE  LET verdict == authorize(actions, f, policy, waiting, moment) IN
           /\ verdict.admitted \subseteq DOMAIN actions
           /\ verdict.draft \subseteq DOMAIN actions
           /\ \A k \in verdict.admitted \cup verdict.draft : ~Refused(actions[k], f, moment)
           /\ \A k \in verdict.admitted :
                  actions[k].action = "message_customer" => ~policy.require_customer_review
           /\ \A k \in verdict.draft :
                  /\ actions[k].action = "message_customer" /\ ~waiting
                  /\ k \notin verdict.admitted
  BY DEF authorize

LEMMA FollowUpTyped == follow_up_interval \in Nat
  <1>1. Default \in Nat /\ FollowUpIntervals \in Nat
    BY ProfileAssumption, ReviewAssumption
  <1>. QED  BY <1>1 DEF follow_up_interval

(* Contacted changes contacts alone, and those of the issues and audiences   *)
(* it is given.                                                             *)
Heard(sent, id, a) == \E p \in sent : p.issue = id /\ audience_of(p) = a

ContactNow(issue, moment) ==
    [evidence |-> issue_evidence_sequence(issue), follow_up_at |-> moment + follow_up_interval]

Informed(f, g, sent, moment) ==
    /\ SamePayment(f, g) /\ g.shipment = f.shipment
    /\ DOMAIN g.issues = DOMAIN f.issues
    /\ \A id \in DOMAIN f.issues :
           /\ g.issues[id].evidence = f.issues[id].evidence
           /\ \A a \in Audiences :
                  g.issues[id].contacts[a] = IF Heard(sent, id, a)
                                             THEN ContactNow(f.issues[id], moment)
                                             ELSE f.issues[id].contacts[a]
    /\ sent = {} => g = f

LEMMA Contacting ==
    ASSUME NEW n \in Nat, NEW f, FactsUpTo(f, n), NEW sent, NEW moment \in Nat
    PROVE  /\ FactsUpTo(Contacted(f, sent, moment), n)
           /\ Informed(f, Contacted(f, sent, moment), sent, moment)
  <1>. DEFINE Told(id, a) == \E p \in sent : p.issue = id /\ audience_of(p) = a
              Entry(id) == [evidence |-> issue_evidence_sequence(f.issues[id]),
                            follow_up_at |-> moment + follow_up_interval]
              Contacts(id) == [a \in Audiences |->
                                  IF Told(id, a) THEN Entry(id) ELSE f.issues[id].contacts[a]]
              X == [id \in DOMAIN f.issues |-> [f.issues[id] EXCEPT !.contacts = Contacts(id)]]
              g == [f EXCEPT !.issues = X]
  <1>1. \A id \in DOMAIN f.issues :
            /\ f.issues[id] \in OpenIssue
            /\ f.issues[id].evidence \in SUBSET (0..n)
            /\ f.issues[id].contacts \in [Audiences -> Contact]
    BY DEF FactsUpTo, IssuesUpTo, OpenIssue
  <1>2. \A id \in DOMAIN f.issues : Contacts(id) \in [Audiences -> Contact]
    <2>1. \A id \in DOMAIN f.issues : Entry(id) \in Contact
      <3>1. \A id \in DOMAIN f.issues : issue_evidence_sequence(f.issues[id]) \in Nat
        BY <1>1, LargestIsEntry DEF issue_evidence_sequence
      <3>. QED  BY <3>1, FollowUpTyped DEF Contact
    <2>. HIDE DEF Entry, Told
    <2>. QED  BY <1>1, <2>1
  <1>3. Contacted(f, sent, moment) = g
    BY DEF Contacted, FactsUpTo
  <1>. HIDE DEF Entry, Told
  <1>4. \A id \in DOMAIN f.issues :
            /\ X[id] \in OpenIssue /\ X[id].evidence = f.issues[id].evidence
            /\ X[id].contacts = Contacts(id)
    <2>. HIDE DEF Contacts
    <2>. QED  BY <1>1, <1>2 DEF OpenIssue
  <1>5. DOMAIN X = DOMAIN f.issues
    OBVIOUS
  <1>6. X \in [DOMAIN X -> OpenIssue]
    <2>. HIDE DEF X
    <2>1. \A id \in DOMAIN X : X[id] \in OpenIssue
      BY <1>4, <1>5
    <2>. QED  BY <2>1 DEF X
  <1>7. IssuesUpTo(X, n)
    <2>. HIDE DEF X
    <2>. QED  BY <1>4, <1>5, <1>6 DEF FactsUpTo, IssuesUpTo
  <1>8. FactsUpTo(g, n) /\ SamePayment(f, g) /\ g.shipment = f.shipment /\ g.issues = X
    <2>. HIDE DEF X
    <2>. QED  BY <1>7, WithIssues DEF SamePayment
  <1>9. \A id \in DOMAIN f.issues, a \in Audiences :
            X[id].contacts[a] = IF Told(id, a) THEN Entry(id) ELSE f.issues[id].contacts[a]
    <2>. HIDE DEF X
    <2>. QED  BY <1>4
  <1>10. sent = {} => g = f
    <2>1. SUFFICES ASSUME sent = {} PROVE g = f
      OBVIOUS
    <2>2. \A id \in DOMAIN f.issues : Contacts(id) = f.issues[id].contacts
      BY <1>1, <2>1 DEF Told
    <2>3. \A id \in DOMAIN f.issues : X[id] = f.issues[id]
      <3>. HIDE DEF Contacts
      <3>. QED  BY <1>1, <2>2 DEF OpenIssue
    <2>4. X = f.issues
      <3>1. f.issues = [id \in DOMAIN f.issues |-> f.issues[id]]
        BY DEF FactsUpTo, IssuesUpTo
      <3>. HIDE DEF Contacts
      <3>. QED  BY <2>3, <3>1
    <2>. HIDE DEF X
    <2>. QED  BY <2>4 DEF FactsUpTo
  <1>. HIDE DEF X, g
  <1>11. g.issues = X
    BY <1>8
  <1>12. Informed(f, g, sent, moment)
    <2>1. \A id \in DOMAIN f.issues, a \in Audiences :
              g.issues[id].contacts[a] = IF Heard(sent, id, a)
                                         THEN ContactNow(f.issues[id], moment)
                                         ELSE f.issues[id].contacts[a]
      BY <1>9, <1>11 DEF Told, Entry, Heard, ContactNow
    <2>2. /\ DOMAIN g.issues = DOMAIN f.issues
          /\ \A id \in DOMAIN f.issues : g.issues[id].evidence = f.issues[id].evidence
      BY <1>4, <1>5, <1>11
    <2>. QED  BY <1>8, <1>10, <2>1, <2>2 DEF Informed
  <1>. QED  BY <1>3, <1>8, <1>12

(* Answers: what the scripted agent says is a proposal without a customer    *)
(* message.                                                                 *)
LEMMA ScriptedAnswers ==
    ASSUME NEW f, NEW policy, NEW refresh \in Nat, DOMAIN f.issues \subseteq IssueIds,
           NEW p \in scripted(f, policy, refresh)
    PROVE  /\ p.actions \in Seq(ActionProposal)
           /\ \A k \in DOMAIN p.actions : p.actions[k].action # "message_customer"
           /\ p.sleep \in Nat /\ p.hints = {} /\ p.refresh = refresh
  <1>. DEFINE Teams == {q \in ActionProposal : q.action # "message_customer"}
              Owned(q) == IF has_issue(f, q.issue) /\ q.action \in AllowedActions
                          THEN <<q>> ELSE <<>>
              sent == Owned(ISSUE_ACTIONS[1]) \o Owned(ISSUE_ACTIONS[2])
                               \o Owned(ISSUE_ACTIONS[3])
              notes == IF "create_internal_note" \in AllowedActions
                       THEN {About("create_internal_note", id) : id \in Flagged(f)} ELSE {}
              batches == IF notes = {} THEN {sent} ELSE {Append(sent, q) : q \in notes}
              sleep == IF f.issues # <<>> \/ policy.prioritize_speed
                       THEN Larger(Minimum, Default \div 2) ELSE Default
  <1>1. p \in {[actions |-> b, sleep |-> sleep, hints |-> {}, refresh |-> refresh] : b \in batches}
    BY DEF scripted
  <1>2. ISSUE_ACTIONS[1] \in Teams /\ ISSUE_ACTIONS[2] \in Teams /\ ISSUE_ACTIONS[3] \in Teams
    BY DEF ISSUE_ACTIONS, About, ActionProposal, REGISTRY, IssueIds, KnownIssues
  <1>3. sent \in Seq(Teams)
    <2>1. \A q \in Teams : Owned(q) \in Seq(Teams)
      <3>. HIDE DEF Teams
      <3>. QED  OBVIOUS
    <2>. HIDE DEF Owned, Teams
    <2>. QED  BY <1>2, <2>1
  <1>4. notes \subseteq Teams
    <2>1. \A id \in Flagged(f) : About("create_internal_note", id) \in Teams
      BY DEF About, ActionProposal, REGISTRY, Flagged
    <2>. QED  BY <2>1
  <1>5. batches \subseteq Seq(Teams)
    <2>. HIDE DEF Teams, notes, sent
    <2>. QED  BY <1>3, <1>4
  <1>6. sleep \in Nat
    BY ProfileAssumption DEF Larger
  <1>. HIDE DEF batches, sleep
  <1>7. PICK b \in batches :
            p = [actions |-> b, sleep |-> sleep, hints |-> {}, refresh |-> refresh]
    BY <1>1
  <1>8. b \in Seq(Teams)
    BY <1>5
  <1>9. b \in Seq(ActionProposal) /\ \A k \in DOMAIN b : b[k].action # "message_customer"
    BY <1>8
  <1>. QED  BY <1>6, <1>7, <1>9
=============================================================================
