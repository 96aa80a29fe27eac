------------------------ MODULE TechLeadRouting_proofs ------------------------
(***************************************************************************)
(* Proofs about the TechLead's routing: however commands interleave, fail  *)
(* or die, a result is lost only by the two steps that lose one, a reset   *)
(* is decided on only where the log justifies it, and a derivation that    *)
(* lets automation go on has missed no report.                             *)
(***************************************************************************)
EXTENDS TechLeadRouting, SequenceTheorems, WellFoundedInduction, TLAPS

-----------------------------------------------------------------------------
(* Sequences as queues. *)

(* A queue holds what is at its places.                                    *)
LEMMA InQueue ==
  ASSUME NEW S, NEW s \in Seq(S)
  PROVE  ToSet(s) \subseteq S /\ \A x : x \in ToSet(s) <=> \E i \in 1..Len(s) : s[i] = x
BY DEF ToSet

LEMMA AppendHolds ==
  ASSUME NEW S, NEW s \in Seq(S), NEW x \in S
  PROVE  Append(s, x) \in Seq(S) /\ ToSet(Append(s, x)) = ToSet(s) \cup {x}
<1> DEFINE t == Append(s, x)
<1>1. /\ t \in Seq(S) /\ Len(t) = Len(s) + 1 /\ Len(s) \in Nat
      /\ \A i \in 1..(Len(s) + 1) : t[i] = IF i = Len(s) + 1 THEN x ELSE s[i]
  OBVIOUS
<1> HIDE DEF t
<1>2. /\ \A y : y \in ToSet(s) <=> \E i \in 1..Len(s) : s[i] = y
      /\ \A y : y \in ToSet(t) <=> \E i \in 1..Len(t) : t[i] = y
  BY <1>1, InQueue
<1>3. ASSUME NEW y \in ToSet(t) PROVE y \in ToSet(s) \cup {x}
  <2>1. PICK i \in 1..(Len(s) + 1) : t[i] = y
    BY <1>1, <1>2
  <2>2. i = Len(s) + 1 \/ i \in 1..Len(s)
    BY <1>1
  <2>3. QED
    BY <1>1, <1>2, <2>1, <2>2
<1>4. ASSUME NEW y \in ToSet(s) PROVE y \in ToSet(t)
  <2>1. PICK i \in 1..Len(s) : s[i] = y
    BY <1>2
  <2>2. i \in 1..Len(t) /\ t[i] = y
    BY <1>1, <2>1
  <2>3. QED
    BY <1>2, <2>2
<1>5. x \in ToSet(t)
  <2>1. Len(s) + 1 \in 1..Len(t) /\ t[Len(s) + 1] = x
    BY <1>1
  <2>2. QED
    BY <1>2, <2>1
<1>6. t \in Seq(S) /\ ToSet(t) = ToSet(s) \cup {x}
  BY <1>1, <1>3, <1>4, <1>5
<1>7. QED
  BY <1>6 DEF t

LEMMA TailHolds ==
  ASSUME NEW S, NEW s \in Seq(S), s # <<>>
  PROVE  /\ Tail(s) \in Seq(S) /\ Head(s) \in S /\ Head(s) \in ToSet(s)
         /\ ToSet(s) = ToSet(Tail(s)) \cup {Head(s)}
<1> DEFINE t == Tail(s)
<1> DEFINE h == Head(s)
<1>1. /\ Len(s) \in Nat \ {0} /\ h = s[1] /\ h \in S
      /\ t \in Seq(S) /\ Len(t) = Len(s) - 1
      /\ \A i \in 1..Len(t) : t[i] = s[i + 1]
  BY EmptySeq, HeadTailProperties
<1> HIDE DEF t, h
<1>2. /\ \A y : y \in ToSet(s) <=> \E i \in 1..Len(s) : s[i] = y
      /\ \A y : y \in ToSet(t) <=> \E i \in 1..Len(t) : t[i] = y
  BY <1>1, InQueue
<1>3. h \in ToSet(s)
  BY <1>1, <1>2
<1>4. ASSUME NEW y \in ToSet(t) PROVE y \in ToSet(s)
  <2>1. PICK i \in 1..Len(t) : t[i] = y
    BY <1>2
  <2>2. i + 1 \in 1..Len(s) /\ s[i + 1] = y
    BY <1>1, <2>1
  <2>3. QED
    BY <1>2, <2>2
<1>5. ASSUME NEW y \in ToSet(s), y # h PROVE y \in ToSet(t)
  <2>1. PICK i \in 1..Len(s) : s[i] = y
    BY <1>2
  <2>2. i # 1
    BY <1>1, <1>5, <2>1
  <2>3. i - 1 \in 1..Len(t) /\ (i - 1) + 1 = i
    BY <1>1, <2>2
  <2>4. t[i - 1] = y
    BY <1>1, <2>1, <2>3
  <2>5. QED
    BY <1>2, <2>3, <2>4
<1>6. t \in Seq(S) /\ h \in S /\ h \in ToSet(s) /\ ToSet(s) = ToSet(t) \cup {h}
  BY <1>1, <1>3, <1>4, <1>5
<1>7. QED
  BY <1>6 DEF t, h

(* A bounded set of numbers has a greatest one.                            *)
LEMMA NewestIs ==
  ASSUME NEW n \in Nat, NEW S \in SUBSET (1..n)
  PROVE  /\ S = {} => Newest(S) = 0
         /\ S # {} => Newest(S) \in S
         /\ Newest(S) \in 0..n
         /\ \A i \in S : i <= Newest(S)
<1>1. CASE S = {}
  BY <1>1 DEF Newest
<1>2. CASE S # {}
  <2>1. \E x \in S : \A y \in S : x >= y
    <3> DEFINE D == {n - x : x \in S}
    <3>1. D \subseteq Nat /\ D # {}
      <4>1. \A x \in S : n - x \in Nat
        OBVIOUS
      <4>2. QED
        BY <1>2, <4>1
    <3>2. PICK d \in D : \A e \in D : <<e, d>> \notin OpToRel(<, Nat)
      BY <3>1, WFMin, NatLessThanWellFounded, Zenon
    <3>3. \A e \in D : ~ (e < d)
      BY <3>1, <3>2, Zenon DEF OpToRel
    <3>4. PICK x \in S : d = n - x
      OBVIOUS
    <3>5. ASSUME NEW y \in S PROVE x >= y
      <4>1. n - y \in D
        OBVIOUS
      <4>2. ~ (n - y < n - x)
        BY <3>3, <3>4, <4>1
      <4>3. QED
        BY <4>2
    <3>6. QED
      BY <3>5
  <2>2. Newest(S) = Max(S) /\ Max(S) \in S /\ \A y \in S : Max(S) >= y
    BY <1>2, <2>1 DEF Newest, Max
  <2>3. Newest(S) \in 1..n /\ \A i \in S : i \in 1..n
    BY <2>2
  <2>4. QED
    BY <1>2, <2>2, <2>3
<1>3. QED
  BY <1>1, <1>2

-----------------------------------------------------------------------------
(* The log and what may stand in it. *)

LogTyped == log \in Seq(Facts(0 .. MaxFacts)) /\ Len(log) <= MaxFacts

ResultKinds == {"worker_result", "slice_result", "delivery_review"}

LEMMA FactKinds ==
  ASSUME NEW N, NEW f \in Facts(N)
  PROVE  /\ f.kind = "assignment" => f.says \in Roles /\ f.source \in N
         /\ f.kind = "verification" => f.says \in Verdicts
BY DEF Facts, Comments

LEMMA TimesIs ==
  ASSUME LogTyped
  PROVE  /\ Len(log) \in Nat
         /\ \A k : Times(k) \subseteq 1..Len(log)
         /\ Results \subseteq 1..Len(log)
         /\ \A k, i : i \in Times(k) <=> i \in 1..Len(log) /\ log[i].kind = k
         /\ \A i : i \in Results <=> i \in 1..Len(log) /\ log[i].kind \in ResultKinds
         /\ \A i \in 1..Len(log) : log[i] \in Facts(0..MaxFacts)
<1>1. Len(log) \in Nat /\ DOMAIN log = 1..Len(log) /\ \A i \in 1..Len(log) : log[i] \in Facts(0..MaxFacts)
  BY LenProperties, ElementOfSeq DEF LogTyped
<1>2. \A k, i : i \in Times(k) <=> i \in 1..Len(log) /\ log[i].kind = k
  BY <1>1 DEF Times
<1>3. \A i : i \in Results <=> i \in 1..Len(log) /\ log[i].kind \in ResultKinds
  BY <1>2 DEF Results, ResultKinds
<1>4. QED
  BY <1>1, <1>2, <1>3

(* What a longer log does not change.                                      *)
Older ==
  /\ LogTyped' /\ Len(log) <= Len(log') /\ Len(log') \in Nat
  /\ \A i \in 1..Len(log) : log'[i] = log[i]
  /\ \A k : Times(k) \subseteq Times(k)'
  /\ \A p : Answered(p) => Answered(p)'
  /\ Results \subseteq Results'
  /\ \A p \in 0..Len(log) : p \in Results' => p \in Results

LEMMA SameOlder ==
  ASSUME LogTyped, UNCHANGED log
  PROVE  Older /\ Results' = Results /\ \A k : Times(k)' = Times(k)
<1>1. LogTyped' /\ Len(log) \in Nat
  BY TimesIs DEF LogTyped
<1>2. (\A k : Times(k)' = Times(k)) /\ Results' = Results /\ \A p : Answered(p)' <=> Answered(p)
  BY DEF Times, Results, Answered
<1>3. QED
  BY <1>1, <1>2 DEF Older

(* A rework that failed before n failed before any later time, and in any  *)
(* longer log.                                                             *)
LEMMA FailureStays ==
  ASSUME LogTyped, Older, NEW n \in 0..Len(log) + 1, NEW m \in Nat, n <= m, ReworkFailedBefore(n)
  PROVE  ReworkFailedBefore(m)'
<1>1. PICK r1, u, c, v, r2 \in 1..n - 1 :
        /\ r1 < u /\ u < c /\ u < v /\ v < r2
        /\ log[r1].kind = "rejection" /\ log[u].kind = "update"
        /\ log[c].kind = "qa_review" /\ log[c].says = "needs_human_review"
        /\ log[v].kind = "verification" /\ log[r2].kind = "rejection"
  BY DEF ReworkFailedBefore
<1>2. Len(log) \in Nat /\ \A i \in 1..n - 1 : i \in 1..Len(log) /\ i \in 1..m - 1
  BY TimesIs
<1>3. \A i \in 1..n - 1 : log'[i] = log[i]
  BY <1>2 DEF Older
<1>4. r1 \in 1..m - 1 /\ u \in 1..m - 1 /\ c \in 1..m - 1 /\ v \in 1..m - 1 /\ r2 \in 1..m - 1
  BY <1>2
<1>5. /\ log'[r1].kind = "rejection" /\ log'[u].kind = "update"
      /\ log'[c].kind = "qa_review" /\ log'[c].says = "needs_human_review"
      /\ log'[v].kind = "verification" /\ log'[r2].kind = "rejection"
  BY <1>1, <1>3
<1>6. QED
  BY <1>1, <1>4, <1>5 DEF ReworkFailedBefore

LEMMA PostIs ==
  ASSUME LogTyped, NEW f \in Facts(0..MaxFacts), Room, Post(f)
  PROVE  /\ Older /\ Len(log') = Len(log) + 1
         /\ \A k : f.kind = k => Len(log) + 1 \in Times(k)'
         /\ f.kind = "assignment" => Answered(f.source)'
         /\ f.kind # "decision" => Times("decision")' = Times("decision")
         /\ \A d \in Times("decision")' : d \in Times("decision") \/ d = Len(log) + 1
         /\ Results' = IF f.kind \in ResultKinds THEN Results \cup {Len(log) + 1} ELSE Results
<1>1. /\ log' \in Seq(Facts(0..MaxFacts)) /\ Len(log') = Len(log) + 1 /\ Len(log) \in Nat
      /\ DOMAIN log = 1..Len(log) /\ DOMAIN log' = 1..Len(log')
      /\ log'[Len(log) + 1] = f /\ \A i \in 1..Len(log) : log'[i] = log[i]
  BY DEF LogTyped, Post
<1>2. LogTyped'
  BY <1>1, RoutingAssumption DEF LogTyped, Room
<1>3. \A k : Times(k)' = Times(k) \cup (IF f.kind = k THEN {Len(log) + 1} ELSE {})
  <2>1. ASSUME NEW k, NEW i \in Times(k)' PROVE i \in Times(k) \/ (f.kind = k /\ i = Len(log) + 1)
    <3>1. i \in 1..(Len(log) + 1) /\ log'[i].kind = k
      BY <1>1, <2>1 DEF Times
    <3>2. CASE i = Len(log) + 1
      BY <1>1, <3>1, <3>2
    <3>3. CASE i \in 1..Len(log)
      BY <1>1, <3>1, <3>3 DEF Times
    <3>4. QED
      BY <1>1, <3>1, <3>2, <3>3
  <2>2. ASSUME NEW k, NEW i \in Times(k) PROVE i \in Times(k)'
    BY <1>1, <2>2 DEF Times
  <2>3. ASSUME NEW k, f.kind = k PROVE Len(log) + 1 \in Times(k)'
    BY <1>1, <2>3 DEF Times
  <2>4. QED
    BY <2>1, <2>2, <2>3
<1>4. \A p : Answered(p) => Answered(p)'
  <2>1. Times("assignment") \subseteq Times("assignment")' /\ Times("assignment") \subseteq 1..Len(log)
    BY <1>3, TimesIs
  <2>2. QED
    BY <1>1, <2>1 DEF Answered
<1>5. f.kind = "assignment" => Answered(f.source)'
  BY <1>1, <1>3 DEF Answered
<1>6. Results' = IF f.kind \in ResultKinds THEN Results \cup {Len(log) + 1} ELSE Results
  BY <1>3 DEF Results, ResultKinds
<1>7. Older
  BY <1>1, <1>2, <1>3, <1>4, <1>6 DEF Older
<1>8. /\ f.kind # "decision" => Times("decision")' = Times("decision")
      /\ \A d \in Times("decision")' : d \in Times("decision") \/ d = Len(log) + 1
  BY <1>3
<1>9. QED
  BY <1>1, <1>3, <1>5, <1>6, <1>7, <1>8

-----------------------------------------------------------------------------
(* What derive_workflow can return. *)

LEMMA DerivedIs ==
  ASSUME NEW read
  PROVE
  /\ read.newest # 0 =>
       DeriveWorkflow(read)[1] \in
         {"techlead_decision_recorded", "techlead_assignment_issued", "techlead_qa_review_pending",
          "techlead_delivery_review_pending", "techlead_dev_review_pending"}
  /\ read.newest = 0 /\ "TechLead" \in read.busy => DeriveWorkflow(read)[1] = "ready_for_acceptance"
  /\ read.newest = 0 /\ "TechLead" \notin read.busy /\ ReportDecides(read.report) =>
       /\ DeriveWorkflow(read)[1] \in
            {"qa_pending", "dev_reset_required", "dev_rework_required", "techlead_qa_review_pending"}
       /\ DeriveWorkflow(read)[1] = "dev_reset_required" => RejectedReport(read.report) /\ FailedRework
  /\ read.newest = 0 /\ "TechLead" \notin read.busy /\ ~ ReportDecides(read.report) =>
       DeriveWorkflow(read)[1] \in {"architect_authorized", "dev_in_progress"}
<1>1. \A p : PacketStage(p)[1] \in {"techlead_decision_recorded", "techlead_assignment_issued",
        "techlead_qa_review_pending", "techlead_delivery_review_pending", "techlead_dev_review_pending"}
  BY DEF PacketStage, IssuedStage, ReviewStage
<1>2. \A v :
      /\ ReportStage(v)[1] \in {"qa_pending", "dev_reset_required", "dev_rework_required", "techlead_qa_review_pending"}
      /\ ReportStage(v)[1] = "dev_reset_required" => RejectedReport(v) /\ FailedRework
  BY DEF ReportStage
<1>3. \A busy : QuietStage(busy)[1] \in {"architect_authorized", "dev_in_progress"}
  BY DEF QuietStage
<1>4. QED
  BY <1>1, <1>2, <1>3 DEF DeriveWorkflow

LEMMA StageKnown ==
  ASSUME NEW read
  PROVE  Stage(read) \in Stages
<1>1. DeriveWorkflow(read)[1] \in Stages
  BY DerivedIs DEF Stages
<1>2. QED
  BY <1>1 DEF Stage, Stages

(* The newest time of a kind.                                              *)
LEMMA LatestIs ==
  ASSUME LogTyped, NEW k
  PROVE  /\ LatestOf(k) \in 0..Len(log)
         /\ LatestOf(k) # 0 => LatestOf(k) \in Times(k)
         /\ \A i \in Times(k) : i <= LatestOf(k)
<1>1. Len(log) \in Nat /\ Times(k) \in SUBSET (1..Len(log))
  BY TimesIs
<1>2. QED
  BY <1>1, NewestIs DEF LatestOf

(* A stage that supports a reset follows a rework that failed.             *)
LEMMA ResetNeedsRepeatedFailure ==
  ASSUME LogTyped, NEW read, read.report \in {0} \cup Times("verification"), ResetSupported(Stage(read))
  PROVE  ReworkFailedBefore(Len(log) + 1)
<1>0. PICK w : w = read.report
  OBVIOUS
<1>1. DeriveWorkflow(read)[1] = "dev_reset_required"
  BY DEF ResetSupported, Stage
<1>2. RejectedReport(w) /\ FailedRework
  BY <1>0, <1>1, DerivedIs
<1>3. Len(log) \in Nat /\ \A k, i : i \in Times(k) <=> i \in 1..Len(log) /\ log[i].kind = k
  BY TimesIs
<1>4. PICK r \in Times("rejection") : r < LatestOf("update")
  BY <1>2 DEF FailedRework
<1>5. w # 0 /\ LatestOf("rejection") > w /\ ~ (LatestOf("update") > w) /\ LatestOf("qa_review") > LatestOf("update")
  BY <1>2 DEF FailedRework, RejectedReport, SupersededReport
<1>6. w \in Times("verification")
  BY <1>0, <1>5
<1>7. /\ LatestOf("update") \in 0..Len(log) /\ LatestOf("qa_review") \in 0..Len(log)
      /\ LatestOf("rejection") \in 0..Len(log) /\ r \in 1..Len(log) /\ w \in 1..Len(log)
  BY <1>3, <1>4, <1>6, LatestIs
<1>8. LatestOf("update") # 0 /\ LatestOf("qa_review") # 0 /\ LatestOf("rejection") # 0
  BY <1>4, <1>5, <1>7
<1>9. /\ LatestOf("update") \in Times("update") /\ LatestOf("qa_review") \in Times("qa_review")
      /\ LatestOf("rejection") \in Times("rejection")
  BY <1>8, LatestIs
<1>10. PICK u, c, r2 : u = LatestOf("update") /\ c = LatestOf("qa_review") /\ r2 = LatestOf("rejection")
  OBVIOUS
<1>11. /\ log[r].kind = "rejection" /\ log[u].kind = "update" /\ log[c].kind = "qa_review"
       /\ log[w].kind = "verification" /\ log[r2].kind = "rejection"
       /\ u \in 1..Len(log) /\ c \in 1..Len(log) /\ r2 \in 1..Len(log)
  BY <1>3, <1>4, <1>6, <1>9, <1>10
<1>12. u # w
  BY <1>11
<1>13. r < u /\ u < c /\ u < w /\ w < r2
  BY <1>3, <1>4, <1>5, <1>7, <1>10, <1>11, <1>12
<1>14. log[c].says = "needs_human_review"
  BY <1>2, <1>10 DEF FailedRework
<1>15. (Len(log) + 1) - 1 = Len(log)
  BY <1>3
<1>16. QED
  BY <1>7, <1>11, <1>13, <1>14, <1>15 DEF ReworkFailedBefore

(* A derivation that ends unattended while the slice is open has seen every*)
(* report v that its own report w is no older than.                        *)
LEMMA UnattendedMissesNone ==
  ASSUME LogTyped, NEW read, read.report \in {0} \cup Times("verification"),
         Open, UnattendedSafe(read), ~ Overridden(read),
         NEW v \in Times("verification"), v <= read.report, AwaitsTechLead(v)
  PROVE  \E i \in DOMAIN log : i > v /\ log[i].kind \in {"verification", "handoff", "update"}
<1>0. PICK w : w = read.report
  OBVIOUS
<1>1. Len(log) \in Nat /\ DOMAIN log = 1..Len(log) /\ \A k, i : i \in Times(k) <=> i \in 1..Len(log) /\ log[i].kind = k
  BY TimesIs, LenProperties DEF LogTyped
<1>2. v \in 1..Len(log) /\ w \in Times("verification") /\ w \in 1..Len(log) /\ log[w].kind = "verification"
  <2>1. v \in 1..Len(log) /\ v <= w
    BY <1>0, <1>1
  <2>2. w # 0
    BY <1>1, <2>1
  <2>3. w \in Times("verification")
    BY <1>0, <2>2
  <2>4. QED
    BY <1>1, <2>1, <2>3
<1>3. CASE v # w
  BY <1>0, <1>1, <1>2, <1>3
<1>4. CASE v = w
  <2>1. DeriveWorkflow(read)[1] \in {"architect_authorized", "dev_in_progress"}
    BY DEF UnattendedSafe
  <2>2. ~ ReportDecides(w)
    BY <1>0, <2>1, DerivedIs
  <2>3. w # 0
    BY <1>1, <1>2
  <2>4. SupersededReport(w)
    <3>1. CASE log[w].says \in {"pass", "needs_human_review"}
      BY <2>2, <2>3, <3>1 DEF ReportDecides
    <3>2. CASE \E t \in Times("rejection") : t > w
      <4>1. PICK t \in Times("rejection") : t > w
        BY <3>2
      <4>2. t <= LatestOf("rejection") /\ LatestOf("rejection") \in 0..Len(log) /\ t \in 1..Len(log)
        BY <1>1, LatestIs
      <4>3. LatestOf("rejection") > w
        BY <1>1, <1>2, <4>1, <4>2
      <4>4. QED
        BY <2>2, <2>3, <4>3 DEF ReportDecides, RejectedReport
    <3>3. QED
      BY <1>4, <3>1, <3>2 DEF AwaitsTechLead
  <2>5. PICK k \in {"handoff", "update"} : LatestOf(k) > w
    BY <2>4 DEF SupersededReport
  <2>6. LatestOf(k) \in 0..Len(log) /\ LatestOf(k) # 0
    BY <1>1, <1>2, <2>5, LatestIs
  <2>7. LatestOf(k) \in Times(k)
    BY <2>6, LatestIs
  <2>8. LatestOf(k) \in DOMAIN log /\ log[LatestOf(k)].kind = k
    BY <1>1, <2>7
  <2>9. QED
    BY <1>4, <2>5, <2>8
<1>5. QED
  BY <1>3, <1>4

-----------------------------------------------------------------------------
(* The queues. *)

QueuesTyped == queue \in [Queues -> Seq(0 .. Len(log))]
CommandsTyped == pc \in [Operator -> Labels] /\ job \in [Operator -> Jobs(Len(log))]
SightTyped(b) == seen[b] \in Sights(Len(log)) /\ seen[b].report \in {0} \cup Times("verification")
SightsTyped == seen \in [Viewer -> Sights(Len(log))] /\ \A b \in Viewer : SightTyped(b)
SliceTyped ==
  /\ held \subseteq 0 .. Len(log) /\ working \subseteq Times("assignment")
  /\ pr \in {"none", "OPEN", "MERGED"} /\ issue \in {"OPEN", "CLOSED"}
  /\ closed \in Decisions
  /\ failures \in 0 .. MaxFailures

LEMMA WaitingIs ==
  /\ \A p : p \in Waiting <=> p # 0 /\ \E q \in Queues : p \in ToSet(queue[q])
  /\ \A p : p \in Waiting' <=> p # 0 /\ \E q \in Queues : p \in ToSet(queue'[q])
BY DEF Waiting

LEMMA Widened ==
  ASSUME Len(log) \in Nat, Len(log') \in Nat, Len(log) <= Len(log')
  PROVE  /\ QueuesTyped => queue \in [Queues -> Seq(0 .. Len(log'))]
         /\ Jobs(Len(log)) \subseteq Jobs(Len(log'))
         /\ Sights(Len(log)) \subseteq Sights(Len(log'))
<1>1. 0..Len(log) \subseteq 0..Len(log')
  OBVIOUS
<1>2. Jobs(Len(log)) \subseteq Jobs(Len(log')) /\ Sights(Len(log)) \subseteq Sights(Len(log'))
  BY <1>1 DEF Jobs, Sights
<1>3. ASSUME QueuesTyped PROVE queue \in [Queues -> Seq(0 .. Len(log'))]
  <2>1. \A q \in Queues : queue[q] \in Seq(0..Len(log'))
    BY <1>1, <1>3, SeqMonotonic DEF QueuesTyped
  <2>2. QED
    BY <1>3, <2>1 DEF QueuesTyped
<1>4. QED
  BY <1>2, <1>3

(* What a packet put on a queue, or taken from its head, changes.          *)
LEMMA PushIs ==
  ASSUME LogTyped, Older, QueuesTyped, NEW q \in Queues, NEW p \in 0..Len(log'), Push(q, p)
  PROVE  /\ QueuesTyped'
         /\ ToSet(queue'[q]) = ToSet(queue[q]) \cup {p}
         /\ \A x \in Queues \ {q} : queue'[x] = queue[x]
         /\ Waiting \subseteq Waiting' /\ (p # 0 => p \in Waiting')
<1>1. queue \in [Queues -> Seq(0 .. Len(log'))]
  BY Widened, TimesIs DEF Older
<1>2. queue' = [queue EXCEPT ![q] = Append(queue[q], p)] /\ queue[q] \in Seq(0..Len(log'))
  BY <1>1 DEF Push
<1>3. Append(queue[q], p) \in Seq(0..Len(log')) /\ ToSet(Append(queue[q], p)) = ToSet(queue[q]) \cup {p}
  BY <1>2, AppendHolds
<1>4. /\ queue' \in [Queues -> Seq(0..Len(log'))] /\ queue'[q] = Append(queue[q], p)
      /\ \A x \in Queues \ {q} : queue'[x] = queue[x]
  BY <1>1, <1>2, <1>3
<1>5. ToSet(queue'[q]) = ToSet(queue[q]) \cup {p}
  BY <1>3, <1>4
<1>6. \A x \in Queues : ToSet(queue[x]) \subseteq ToSet(queue'[x])
  BY <1>4, <1>5
<1>7. Waiting \subseteq Waiting' /\ (p # 0 => p \in Waiting')
  BY <1>5, <1>6, WaitingIs
<1>8. QED
  BY <1>4, <1>5, <1>7 DEF QueuesTyped

LEMMA PopIs ==
  ASSUME LogTyped, UNCHANGED log, QueuesTyped, NEW q \in Queues, queue[q] # <<>>,
         queue' = [queue EXCEPT ![q] = Tail(@)]
  PROVE  /\ QueuesTyped' /\ Head(queue[q]) \in 0..Len(log)
         /\ ToSet(queue[q]) = ToSet(queue'[q]) \cup {Head(queue[q])}
         /\ \A x \in Queues \ {q} : queue'[x] = queue[x]
         /\ Waiting \subseteq Waiting' \cup {Head(queue[q])}
<1>1. queue[q] \in Seq(0..Len(log))
  BY DEF QueuesTyped
<1>2. /\ Tail(queue[q]) \in Seq(0..Len(log)) /\ Head(queue[q]) \in 0..Len(log)
      /\ ToSet(queue[q]) = ToSet(Tail(queue[q])) \cup {Head(queue[q])}
  BY <1>1, TailHolds
<1>3. /\ queue' \in [Queues -> Seq(0..Len(log))] /\ queue'[q] = Tail(queue[q])
      /\ \A x \in Queues \ {q} : queue'[x] = queue[x]
  BY <1>2 DEF QueuesTyped
<1>4. ToSet(queue[q]) = ToSet(queue'[q]) \cup {Head(queue[q])}
  BY <1>2, <1>3
<1>5. \A x \in Queues : ToSet(queue[x]) \subseteq ToSet(queue'[x]) \cup {Head(queue[q])}
  BY <1>3, <1>4
<1>6. Waiting \subseteq Waiting' \cup {Head(queue[q])}
  BY <1>5, WaitingIs
<1>7. QED
  BY <1>2, <1>3, <1>4, <1>6 DEF QueuesTyped

-----------------------------------------------------------------------------
(* The invariant by its parts. *)

RoutingTyped == LogTyped /\ QueuesTyped /\ CommandsTyped /\ SightsTyped /\ SliceTyped
RolesHoldNoResult == \A r \in Roles : ToSet(queue[r]) \cap Results = {}
CommandOK(o) ==
  /\ pc[o] \in {"claim", "compare"} /\ job[o].from # "TechLead" => job[o].got \notin Results
  /\ pc[o] \in {"close", "claim", "compare"} => Answered(job[o].source)
CommandsOK == \A o \in Operator : CommandOK(o)
ReworkFailed == ReworkFailedBefore(Len(log) + 1)
SightHolds(b) ==
  /\ seen[b].step = "github" => \A v \in Times("verification") : v <= seen[b].began => v <= seen[b].report
  /\ seen[b].step = "decide" => ReworkFailed

LEMMA RoutingParts ==
  RoutingInv <=>
    RoutingTyped /\ RolesHoldNoResult /\ CommandsOK /\ SightsHold /\ ResetFollowsRepeatedFailure
<1>1. CommandsOK /\ RolesHoldNoResult <=> ResultsForTechLead /\ ClosesAnswered
  BY DEF CommandsOK, CommandOK, RolesHoldNoResult, ResultsForTechLead, ClosesAnswered
<1>2. RoutingTyped <=> RoutingTypeOK /\ RoutingLocals
  <2>1. ASSUME RoutingTyped PROVE RoutingTypeOK /\ RoutingLocals
    <3>1. \A q \in Queues : ToSet(queue[q]) \subseteq 0..Len(log)
      BY <2>1, InQueue DEF RoutingTyped, QueuesTyped
    <3>2. \A o \in Operator : job[o].source \in 0..Len(log) /\ pc[o] \in Labels
      BY <2>1 DEF RoutingTyped, CommandsTyped, Jobs
    <3>3. \A b \in Viewer : seen[b].step \in Steps /\ seen[b].report \in {0} \cup Times("verification")
      BY <2>1 DEF RoutingTyped, SightsTyped, SightTyped, Sights
    <3>4. \A b \in Viewer : Stage(seen[b]) \in Stages
      BY StageKnown
    <3>5. QED
      BY <2>1, <3>1, <3>2, <3>3, <3>4
      DEF RoutingTyped, LogTyped, QueuesTyped, CommandsTyped, SightsTyped, SliceTyped, RoutingTypeOK, RoutingLocals
  <2>2. ASSUME RoutingTypeOK, RoutingLocals PROVE RoutingTyped
    BY <2>2
    DEF RoutingTyped, LogTyped, QueuesTyped, CommandsTyped, SightsTyped, SightTyped, SliceTyped, RoutingTypeOK,
        RoutingLocals
  <2>3. QED
    BY <2>1, <2>2
<1>3. QED
  BY <1>1, <1>2 DEF RoutingInv

RoutingParted ==
  RoutingTyped /\ RolesHoldNoResult /\ CommandsOK /\ SightsHold /\ ResetFollowsRepeatedFailure

(* What a step of the emissions or the team leaves of the derivations.     *)
SightsOK == SightsTyped /\ SightsHold /\ ResetFollowsRepeatedFailure

(* A derivation that does not move still knows what it knew.               *)
LEMMA SightKept ==
  ASSUME RoutingParted, Older, NEW b \in Viewer, seen'[b] = seen[b]
  PROVE  SightTyped(b)' /\ SightHolds(b)'
<1>1. /\ LogTyped /\ SightTyped(b) /\ SightHolds(b) /\ Len(log) \in Nat
      /\ \A k, i : i \in Times(k) <=> i \in 1..Len(log) /\ log[i].kind = k
  BY TimesIs DEF RoutingParted, RoutingTyped, SightsTyped, SightsHold, SightHolds, ReworkFailed
<1>2. SightTyped(b)'
  BY <1>1, Widened DEF SightTyped, Older
<1>3. ASSUME seen[b].step = "github", NEW v \in Times("verification")', v <= seen[b].began PROVE v <= seen[b].report
  <2>1. v \in 1..Len(log') /\ log'[v].kind = "verification"
    BY <1>3 DEF Older, LogTyped, Times
  <2>2. seen[b].began \in 0..Len(log)
    BY <1>1 DEF SightTyped, Sights
  <2>3. v \in 1..Len(log)
    BY <1>1, <1>3, <2>1, <2>2 DEF Older
  <2>4. v \in Times("verification")
    BY <1>1, <2>1, <2>3 DEF Older
  <2>5. QED
    BY <1>1, <1>3, <2>4 DEF SightHolds
<1>4. ASSUME seen[b].step = "decide" PROVE ReworkFailed'
  <2>1. PICK m \in Nat : m = Len(log') + 1
    BY DEF Older
  <2>2. PICK n \in 0..Len(log) + 1 : n = Len(log) + 1
    BY <1>1
  <2>3. n <= m /\ ReworkFailedBefore(n)
    BY <1>1, <1>4, <2>1, <2>2 DEF Older, SightHolds, ReworkFailed
  <2>4. QED
    BY <1>1, <2>1, <2>3, FailureStays DEF ReworkFailed
<1>5. QED
  BY <1>2, <1>3, <1>4 DEF SightHolds

(* A decision stays justified.                                             *)
LEMMA DecisionKept ==
  ASSUME RoutingParted, Older, NEW d \in Times("decision")
  PROVE  ReworkFailedBefore(d)'
<1>1. LogTyped /\ Len(log) \in Nat /\ d \in 1..Len(log) /\ ReworkFailedBefore(d)
  BY TimesIs DEF RoutingParted, RoutingTyped, ResetFollowsRepeatedFailure
<1>2. d \in 0..Len(log) + 1 /\ d \in Nat /\ d <= d
  BY <1>1
<1>3. QED
  BY <1>1, <1>2, FailureStays

LEMMA DecisionsKept ==
  ASSUME RoutingParted, Older, Times("decision")' = Times("decision")
  PROVE  ResetFollowsRepeatedFailure'
BY DecisionKept DEF ResetFollowsRepeatedFailure

LEMMA SightsKept ==
  ASSUME RoutingParted, Older, UNCHANGED seen, Times("decision")' = Times("decision")
  PROVE  SightsOK'
<1>1. \A b \in Viewer : SightTyped(b)' /\ SightHolds(b)'
  BY SightKept
<1>2. seen' \in [Viewer -> Sights(Len(log'))]
  BY <1>1 DEF RoutingParted, RoutingTyped, SightsTyped, SightTyped
<1>3. ResetFollowsRepeatedFailure'
  BY DecisionsKept
<1>4. QED
  BY <1>1, <1>2, <1>3 DEF SightsOK, SightsTyped, SightsHold, SightHolds, ReworkFailed

(* A command that does not move knows what it knew.                        *)
LEMMA OthersKnow ==
  ASSUME RoutingParted, Older, NEW o \in Operator, pc'[o] = pc[o], job'[o] = job[o]
  PROVE  CommandOK(o)' /\ job'[o] \in Jobs(Len(log')) /\ pc'[o] \in Labels
<1>1. pc[o] \in Labels /\ job[o] \in Jobs(Len(log)) /\ job[o].got \in 0..Len(log)
  BY DEF RoutingParted, RoutingTyped, CommandsTyped, Jobs
<1>2. job[o] \in Jobs(Len(log'))
  BY <1>1, Widened, TimesIs DEF Older, RoutingParted, RoutingTyped
<1>3. CommandOK(o)
  BY DEF RoutingParted, CommandsOK
<1>4. CommandOK(o)'
  BY <1>1, <1>3 DEF CommandOK, Older
<1>5. QED
  BY <1>1, <1>2, <1>4

(* A step of the team moves no command.                                    *)
LEMMA TeamKeepsCommands ==
  ASSUME RoutingParted, Older, UNCHANGED commands, Times("decision")' = Times("decision")
  PROVE  CommandsTyped' /\ CommandsOK' /\ failures' \in 0..MaxFailures /\ SightsOK'
<1>1. pc \in [Operator -> Labels] /\ job \in [Operator -> Jobs(Len(log))] /\ failures \in 0..MaxFailures
  BY DEF RoutingParted, RoutingTyped, CommandsTyped, SliceTyped
<1>2. ASSUME NEW o \in Operator PROVE CommandOK(o)' /\ job'[o] \in Jobs(Len(log')) /\ pc'[o] \in Labels
  BY OthersKnow DEF commands
<1>3. SightsOK'
  BY SightsKept DEF commands
<1>4. QED
  BY <1>1, <1>2, <1>3 DEF CommandsTyped, CommandsOK, commands

OthersStay(o) == \A x \in Operator \ {o} : pc'[x] = pc[x] /\ job'[x] = job[x]

(* A step of command o moves no other.                                     *)
LEMMA CommandKeepsOthers ==
  ASSUME RoutingParted, Older, NEW o \in Operator, NEW label \in Labels, NEW j \in Jobs(Len(log')),
         pc' = [pc EXCEPT ![o] = label], job' = [job EXCEPT ![o] = j],
         label \in {"claim", "compare"} /\ j.from # "TechLead" => j.got \notin Results',
         label \in {"close", "claim", "compare"} => Answered(j.source)'
  PROVE  CommandsTyped' /\ CommandsOK' /\ OthersStay(o)
<1>1. pc \in [Operator -> Labels] /\ job \in [Operator -> Jobs(Len(log))]
  BY DEF RoutingParted, RoutingTyped, CommandsTyped
<1>2. pc'[o] = label /\ job'[o] = j /\ \A x \in Operator \ {o} : pc'[x] = pc[x] /\ job'[x] = job[x]
  BY <1>1
<1>3. ASSUME NEW x \in Operator PROVE CommandOK(x)' /\ job'[x] \in Jobs(Len(log')) /\ pc'[x] \in Labels
  <2>1. CASE x # o
    BY <1>2, <2>1, OthersKnow
  <2>2. CASE x = o
    BY <1>2, <2>2 DEF CommandOK
  <2>3. QED
    BY <2>1, <2>2
<1>4. pc' \in [Operator -> Labels] /\ job' \in [Operator -> Jobs(Len(log'))]
  BY <1>1, <1>3
<1>5. QED
  BY <1>2, <1>3, <1>4 DEF CommandsTyped, CommandsOK, OthersStay

LEMMA FinishIs ==
  ASSUME RoutingParted, Older, NEW o \in Operator, Finish(o)
  PROVE  CommandsTyped' /\ CommandsOK' /\ OthersStay(o)
<1>1. NoJob \in Jobs(Len(log'))
  BY DEF NoJob, Jobs, Roles, Older
<1>2. pc' = [pc EXCEPT ![o] = "idle"] /\ job' = [job EXCEPT ![o] = NoJob]
  BY DEF Finish, Goto
<1>3. QED
  BY <1>1, <1>2, CommandKeepsOthers DEF Labels

(* A step keeps every result that was kept, or is one that loses it.       *)
NoneLost == \A p \in Results : Kept(p) => Kept(p)' \/ LossStep(p)

(* A step of command o, which holds nothing in its hand, or of the team.   *)
LEMMA CommandLosesNone ==
  ASSUME Older, NEW o \in Operator, OthersStay(o), pc[o] # "claim",
         \A p \in Results : p \in Waiting \cup held => Kept(p)' \/ LossStep(p)
  PROVE  NoneLost
<1>1. ASSUME NEW p \in Results, InHand(p) PROVE InHand(p)'
  BY <1>1 DEF InHand, OthersStay
<1>2. QED
  BY <1>1 DEF NoneLost, Kept, Older

LEMMA TeamLosesNone ==
  ASSUME Older, UNCHANGED <<pc, job>>,
         \A p \in Results : p \in Waiting \cup held => p \in Waiting' \cup held'
  PROVE  NoneLost
BY DEF NoneLost, Kept, InHand, Older

-----------------------------------------------------------------------------
(* The steps of a command. *)

LEMMA WaitingForIs ==
  ASSUME LogTyped, NEW k
  PROVE  WaitingFor(k) \in 0..Len(log)
<1>1. Len(log) \in Nat /\ Waiting \cap Times(k) \in SUBSET (1..Len(log))
  BY TimesIs
<1>2. QED
  BY <1>1, NewestIs DEF WaitingFor

LEMMA StartOfRange ==
  ASSUME NEW n \in Nat
  PROVE  0 \in 0..n
OBVIOUS

LEMMA JobTyped ==
  ASSUME NEW n \in Nat, NEW r \in Roles, NEW s \in 0..n, NEW q \in {"TechLead", "Delivery Architect"}
  PROVE  [role |-> r, source |-> s, from |-> q, got |-> 0] \in Jobs(n)
<1>1. 0 \in 0..n
  BY StartOfRange
<1>2. QED
  BY <1>1 DEF Jobs

LEMMA AssignmentsTyped ==
  ASSUME LogTyped
  PROVE  NextAssignments \cup ExplicitAssignments \subseteq Jobs(Len(log))
<1>1. Len(log) \in Nat /\ 0 \in 0..Len(log)
  BY TimesIs
<1>2. NextAssignments \subseteq Jobs(Len(log))
  <2>1. ReviewedWork \subseteq Jobs(Len(log))
    BY <1>1, WaitingForIs, JobTyped DEF ReviewedWork, Roles
  <2>2. ReviewedDelivery \subseteq Jobs(Len(log))
    BY <1>1, WaitingForIs, JobTyped DEF ReviewedDelivery, Roles
  <2>3. QED
    BY <2>1, <2>2 DEF NextAssignments
<1>3. ExplicitAssignments \subseteq Jobs(Len(log))
  <2>1. ASSUME NEW x \in ExplicitAssignments PROVE x \in Jobs(Len(log))
    <3>1. PICK r \in {"Dev", "Delivery Architect"} : x = [role |-> r, source |-> 0, from |-> "TechLead", got |-> 0]
      BY <2>1 DEF ExplicitAssignments
    <3>2. QED
      BY <1>1, <3>1, JobTyped DEF Roles
  <2>2. QED
    BY <2>1
<1>4. QED
  BY <1>2, <1>3

(* The facts of the slice that a step leaves alone keep their type.        *)
LEMMA SliceKept ==
  ASSUME RoutingParted, Older
  PROVE  /\ held \subseteq 0 .. Len(log') /\ working \subseteq Times("assignment")'
         /\ UNCHANGED <<pr, issue>> =>
              pr' \in {"none", "OPEN", "MERGED"} /\ issue' \in {"OPEN", "CLOSED"}
         /\ UNCHANGED closed => closed' \in Decisions
<1>1. SliceTyped /\ LogTyped
  BY DEF RoutingParted, RoutingTyped
<1>2. Len(log) \in Nat
  BY <1>1, TimesIs
<1>3. QED
  BY <1>1, <1>2 DEF SliceTyped, Older

(* A step that leaves log and queues alone.                                *)
LEMMA QueuesKept ==
  ASSUME RoutingParted, UNCHANGED <<log, queue>>
  PROVE  /\ Older /\ LogTyped' /\ QueuesTyped' /\ RolesHoldNoResult' /\ Waiting' = Waiting
         /\ Results' = Results /\ Times("decision")' = Times("decision")
<1>1. LogTyped /\ QueuesTyped /\ RolesHoldNoResult
  BY DEF RoutingParted, RoutingTyped
<1>2. Older /\ Results' = Results /\ Times("decision")' = Times("decision")
  BY <1>1, SameOlder
<1>3. QED
  BY <1>1, <1>2 DEF Older, QueuesTyped, RolesHoldNoResult, Waiting

LEMMA BeginKeeps ==
  ASSUME RoutingParted, NEW o \in Operator, Begin(o)
  PROVE  RoutingParted' /\ NoneLost
<1>1. /\ Older /\ LogTyped' /\ QueuesTyped' /\ RolesHoldNoResult' /\ Waiting' = Waiting
      /\ Results' = Results /\ Times("decision")' = Times("decision")
  BY QueuesKept DEF Begin
<1>2. PICK j \in NextAssignments \cup ExplicitAssignments : job' = [job EXCEPT ![o] = j]
  BY DEF Begin
<1>3. j \in Jobs(Len(log'))
  BY <1>2, AssignmentsTyped DEF Begin, RoutingParted, RoutingTyped
<1>4. pc' = [pc EXCEPT ![o] = "send"]
  BY DEF Begin, Goto
<1>5. CommandsTyped' /\ CommandsOK' /\ OthersStay(o)
  BY <1>1, <1>2, <1>3, <1>4, CommandKeepsOthers DEF Labels
<1>6. SliceTyped'
  BY <1>1, SliceKept DEF Begin, SliceTyped, RoutingParted, RoutingTyped, github
<1>7. NoneLost
  BY <1>1, <1>5, CommandLosesNone DEF Begin, Kept
<1>8. SightsOK'
  BY <1>1, SightsKept DEF Begin
<1>9. QED
  BY <1>1, <1>5, <1>6, <1>7, <1>8 DEF RoutingParted, RoutingTyped, SightsOK

LEMMA SendKeeps ==
  ASSUME RoutingParted, NEW o \in Operator, Send(o)
  PROVE  RoutingParted' /\ NoneLost
<1>0. PICK j : j = job[o]
  OBVIOUS
<1> DEFINE f == Fact("assignment", j.role, j.source)
<1>1. /\ LogTyped /\ QueuesTyped /\ Len(log) \in Nat /\ Results \subseteq 1..Len(log)
      /\ j \in Jobs(Len(log)) /\ j.role \in Roles /\ j.source \in 0..Len(log)
  BY <1>0, TimesIs DEF RoutingParted, RoutingTyped, CommandsTyped, Jobs
<1>2. f \in Facts(0..MaxFacts) /\ f.kind = "assignment" /\ f.source = j.source
  <2>1. j.source \in 0..MaxFacts
    BY <1>1, RoutingAssumption DEF LogTyped
  <2>2. QED
    BY <1>1, <2>1 DEF Fact, Facts
<1>3. Post(f) /\ Room /\ Push(j.role, Len(log) + 1)
  BY <1>0 DEF Send
<1> HIDE DEF f
<1>4. /\ Older /\ Len(log') = Len(log) + 1 /\ Answered(j.source)' /\ Results' = Results
      /\ Times("decision")' = Times("decision")
  BY <1>1, <1>2, <1>3, PostIs DEF ResultKinds
<1>5. /\ QueuesTyped' /\ Waiting \subseteq Waiting'
      /\ ToSet(queue'[j.role]) = ToSet(queue[j.role]) \cup {Len(log) + 1}
      /\ \A x \in Queues \ {j.role} : queue'[x] = queue[x]
  <2>1. j.role \in Queues /\ Len(log) + 1 \in 0..Len(log')
    BY <1>1, <1>4 DEF Queues
  <2>2. QED
    BY <1>1, <1>3, <1>4, <2>1, PushIs
<1>6. RolesHoldNoResult'
  <2>1. ASSUME NEW r \in Roles PROVE ToSet(queue'[r]) \subseteq ToSet(queue[r]) \cup {Len(log) + 1}
    BY <1>5 DEF Queues
  <2>2. Len(log) + 1 \notin Results
    BY <1>1
  <2>3. RolesHoldNoResult
    BY DEF RoutingParted
  <2>4. QED
    BY <1>4, <2>1, <2>2, <2>3 DEF RolesHoldNoResult
<1>7. CommandsTyped' /\ CommandsOK' /\ OthersStay(o)
  <2>1. CASE j.source = 0
    BY <1>0, <1>4, <2>1, FinishIs DEF Send
  <2>2. CASE j.source # 0
    <3>1. pc' = [pc EXCEPT ![o] = "close"] /\ job' = job
      BY <1>0, <2>2 DEF Send, Goto
    <3>2. job' = [job EXCEPT ![o] = j] /\ j \in Jobs(Len(log'))
      BY <1>0, <1>1, <1>4, <3>1, Widened DEF RoutingParted, RoutingTyped, CommandsTyped, Older
    <3>3. QED
      BY <1>4, <3>1, <3>2, CommandKeepsOthers DEF Labels
  <2>3. QED
    BY <2>1, <2>2
<1>8. SliceTyped'
  BY <1>4, SliceKept DEF Send, SliceTyped, RoutingParted, RoutingTyped, github
<1>9. NoneLost
  BY <1>4, <1>5, <1>7, CommandLosesNone DEF Send, Kept
<1>10. SightsOK'
  BY <1>4, SightsKept DEF Send
<1>11. QED
  BY <1>4, <1>5, <1>6, <1>7, <1>8, <1>9, <1>10 DEF RoutingParted, RoutingTyped, SightsOK, Older

LEMMA FailingKeeps ==
  ASSUME RoutingParted, NEW o \in Operator, SendFails(o) \/ RequeueUnrouted(o) \/ Dies(o)
  PROVE  RoutingParted' /\ NoneLost
<1>0. /\ UNCHANGED <<log, queue, working, github, closed, seen>> /\ Finish(o)
      /\ failures' = failures + 1 /\ MayFail /\ held' \subseteq held
  BY DEF SendFails, RequeueUnrouted, Dies
<1>1. /\ Older /\ LogTyped' /\ QueuesTyped' /\ RolesHoldNoResult' /\ Waiting' = Waiting
      /\ Results' = Results /\ Times("decision")' = Times("decision")
  BY <1>0, QueuesKept
<1>2. CommandsTyped' /\ CommandsOK' /\ OthersStay(o)
  BY <1>0, <1>1, FinishIs
<1>3. failures' \in 0..MaxFailures
  BY <1>0, RoutingAssumption DEF MayFail, RoutingParted, RoutingTyped, SliceTyped
<1>4. SliceTyped'
  BY <1>0, <1>1, <1>3, SliceKept DEF SliceTyped, github
<1>5. NoneLost
  <2>1. ASSUME NEW p \in Results, p \in Waiting \cup held PROVE Kept(p)' \/ LossStep(p)
    <3>1. CASE p \in Waiting
      BY <1>1, <3>1 DEF Kept
    <3>2. CASE p \in held /\ UNCHANGED held
      BY <3>2 DEF Kept
    <3>3. CASE p \in held /\ RequeueUnrouted(o)
      BY <3>3 DEF Kept, LossStep, RequeueUnrouted
    <3>4. QED
      BY <2>1, <3>1, <3>2, <3>3 DEF SendFails, Dies
  <2>2. CASE pc[o] # "claim"
    BY <1>1, <1>2, <2>1, <2>2, CommandLosesNone
  <2>3. CASE pc[o] = "claim"
    <3>1. Dies(o)
      BY <2>3 DEF SendFails, RequeueUnrouted
    <3>2. ASSUME NEW p \in Results, InHand(p) PROVE InHand(p)' \/ LossStep(p)
      <4>1. PICK x \in Operator : pc[x] = "claim" /\ job[x].got = p
        BY <3>2 DEF InHand
      <4>2. CASE x = o
        BY <3>1, <4>1, <4>2 DEF LossStep
      <4>3. CASE x # o
        BY <1>2, <4>1, <4>3 DEF InHand, OthersStay
      <4>4. QED
        BY <4>2, <4>3
    <3>3. QED
      BY <1>1, <2>1, <3>2 DEF NoneLost, Kept, Older
  <2>4. QED
    BY <2>2, <2>3
<1>6. SightsOK'
  BY <1>0, <1>1, SightsKept
<1>7. QED
  BY <1>1, <1>2, <1>4, <1>5, <1>6 DEF RoutingParted, RoutingTyped, SightsOK

LEMMA CloseClaimedKeeps ==
  ASSUME RoutingParted, NEW o \in Operator, CloseClaimed(o)
  PROVE  RoutingParted' /\ NoneLost
<1>1. /\ Older /\ LogTyped' /\ QueuesTyped' /\ RolesHoldNoResult' /\ Waiting' = Waiting
      /\ Results' = Results /\ Times("decision")' = Times("decision")
  BY QueuesKept DEF CloseClaimed
<1>2. CommandsTyped' /\ CommandsOK' /\ OthersStay(o)
  BY <1>1, FinishIs DEF CloseClaimed
<1>3. SliceTyped'
  BY <1>1, SliceKept DEF CloseClaimed, SliceTyped, RoutingParted, RoutingTyped, github
<1>4. Answered(job[o].source)
  BY DEF CloseClaimed, RoutingParted, CommandsOK, CommandOK
<1>5. NoneLost
  <2>1. ASSUME NEW p \in Results, p \in Waiting \cup held PROVE Kept(p)'
    <3>1. CASE p = job[o].source
      BY <1>1, <1>4, <3>1 DEF Kept, Older
    <3>2. CASE p # job[o].source
      BY <1>1, <2>1, <3>2 DEF CloseClaimed, Kept
    <3>3. QED
      BY <3>1, <3>2
  <2>2. QED
    BY <1>1, <1>2, <2>1, CommandLosesNone DEF CloseClaimed
<1>6. SightsOK'
  BY <1>1, SightsKept DEF CloseClaimed
<1>7. QED
  BY <1>1, <1>2, <1>3, <1>5, <1>6 DEF RoutingParted, RoutingTyped, SightsOK

LEMMA GetHeadKeeps ==
  ASSUME RoutingParted, NEW o \in Operator, GetHead(o)
  PROVE  RoutingParted' /\ NoneLost
<1> DEFINE q == job[o].from
<1>1. CASE queue[q] = <<>>
  <2>0. UNCHANGED <<log, queue, held, working, github, closed, seen, failures>> /\ Finish(o) /\ pc[o] = "close"
    BY <1>1 DEF GetHead
  <2>1. /\ Older /\ LogTyped' /\ QueuesTyped' /\ RolesHoldNoResult' /\ Waiting' = Waiting
        /\ Results' = Results /\ Times("decision")' = Times("decision")
    BY <2>0, QueuesKept
  <2>2. CommandsTyped' /\ CommandsOK' /\ OthersStay(o)
    BY <2>0, <2>1, FinishIs
  <2>3. SliceTyped'
    BY <2>0, <2>1, SliceKept DEF SliceTyped, RoutingParted, RoutingTyped, github
  <2>4. NoneLost
    BY <2>0, <2>1, <2>2, CommandLosesNone DEF Kept
  <2>5. SightsOK'
    BY <2>0, <2>1, SightsKept
  <2>6. QED
    BY <2>1, <2>2, <2>3, <2>4, <2>5 DEF RoutingParted, RoutingTyped, SightsOK
<1>2. CASE queue[q] # <<>>
  <2>0. /\ UNCHANGED <<log, held, working, github, closed, seen, failures>> /\ pc[o] = "close"
        /\ queue' = [queue EXCEPT ![q] = Tail(@)]
        /\ job' = [job EXCEPT ![o].got = Head(queue[q])] /\ pc' = [pc EXCEPT ![o] = "claim"]
    BY <1>2 DEF GetHead, Goto
  <2>1. /\ LogTyped /\ QueuesTyped /\ RolesHoldNoResult /\ CommandOK(o) /\ Older /\ Results' = Results
        /\ Times("decision")' = Times("decision")
        /\ job[o] \in Jobs(Len(log)) /\ q \in {"TechLead", "Delivery Architect"} /\ q \in Queues
        /\ job \in [Operator -> Jobs(Len(log))]
    BY <2>0, SameOlder DEF RoutingParted, RoutingTyped, CommandsTyped, CommandsOK, Jobs, Queues, Roles
  <2>2. /\ QueuesTyped' /\ Head(queue[q]) \in 0..Len(log)
        /\ ToSet(queue[q]) = ToSet(queue'[q]) \cup {Head(queue[q])}
        /\ \A x \in Queues \ {q} : queue'[x] = queue[x]
        /\ Waiting \subseteq Waiting' \cup {Head(queue[q])}
    BY <1>2, <2>0, <2>1, PopIs
  <2>3. RolesHoldNoResult'
    <3>1. \A r \in Roles : ToSet(queue'[r]) \subseteq ToSet(queue[r])
      BY <2>2 DEF Queues
    <3>2. QED
      BY <2>1, <3>1 DEF RolesHoldNoResult
  <2>4. CommandsTyped' /\ CommandsOK' /\ OthersStay(o)
    <3>0. PICK j : j = [job[o] EXCEPT !.got = Head(queue[q])]
      OBVIOUS
    <3>1. j \in Jobs(Len(log')) /\ j.from = q /\ j.got = Head(queue[q]) /\ j.source = job[o].source
      BY <2>0, <2>1, <2>2, <3>0 DEF Jobs
    <3>2. job' = [job EXCEPT ![o] = j]
      BY <2>0, <3>0
    <3>3. j.from # "TechLead" => j.got \notin Results'
      <4>1. SUFFICES ASSUME q # "TechLead" PROVE Head(queue[q]) \notin Results'
        BY <3>1
      <4>2. q \in Roles /\ Head(queue[q]) \in ToSet(queue[q])
        BY <2>1, <2>2, <4>1 DEF Roles
      <4>3. QED
        BY <2>1, <4>2 DEF RolesHoldNoResult
    <3>4. Answered(j.source)'
      BY <2>0, <2>1, <3>1 DEF CommandOK, Older
    <3>5. QED
      BY <2>0, <2>1, <3>1, <3>2, <3>3, <3>4, CommandKeepsOthers DEF Labels
  <2>5. SliceTyped'
    BY <2>0, <2>1, SliceKept DEF SliceTyped, RoutingParted, RoutingTyped, github
  <2>6. NoneLost
    <3>1. pc'[o] = "claim" /\ job'[o].got = Head(queue[q])
      BY <2>0, <2>1 DEF RoutingParted, RoutingTyped, CommandsTyped, Jobs
    <3>2. ASSUME NEW p \in Results, p \in Waiting \cup held PROVE Kept(p)'
      <4>1. CASE p = Head(queue[q])
        BY <3>1, <4>1 DEF Kept, InHand
      <4>2. CASE p # Head(queue[q])
        BY <2>0, <2>2, <3>2, <4>2 DEF Kept
      <4>3. QED
        BY <4>1, <4>2
    <3>3. QED
      BY <2>0, <2>1, <2>4, <3>2, CommandLosesNone
  <2>7. SightsOK'
    BY <2>0, <2>1, SightsKept
  <2>8. QED
    BY <2>1, <2>2, <2>3, <2>4, <2>5, <2>6, <2>7 DEF RoutingParted, RoutingTyped, SightsOK, Older
<1>3. QED
  BY <1>1, <1>2

LEMMA ClaimKeeps ==
  ASSUME RoutingParted, NEW o \in Operator, Claim(o)
  PROVE  RoutingParted' /\ NoneLost
<1>0. PICK j : j = job[o]
  OBVIOUS
<1>1. /\ UNCHANGED <<log, queue, working, github, closed, job, seen, failures>> /\ pc[o] = "claim"
      /\ held' = held \cup {j.got} /\ pc' = [pc EXCEPT ![o] = "compare"]
  BY <1>0 DEF Claim, Goto
<1>2. /\ Older /\ LogTyped' /\ QueuesTyped' /\ RolesHoldNoResult' /\ Waiting' = Waiting
      /\ Results' = Results /\ Times("decision")' = Times("decision")
  BY <1>1, QueuesKept
<1>3. /\ j \in Jobs(Len(log)) /\ j.got \in 0..Len(log) /\ Answered(j.source)
      /\ j.from # "TechLead" => j.got \notin Results
  BY <1>0, <1>1 DEF RoutingParted, RoutingTyped, CommandsTyped, CommandsOK, CommandOK, Jobs
<1>4. CommandsTyped' /\ CommandsOK' /\ OthersStay(o)
  <2>1. j \in Jobs(Len(log')) /\ job' = [job EXCEPT ![o] = j]
    BY <1>0, <1>1, <1>3 DEF RoutingParted, RoutingTyped, CommandsTyped
  <2>2. Answered(j.source)' /\ (j.from # "TechLead" => j.got \notin Results')
    BY <1>2, <1>3 DEF Older
  <2>3. QED
    BY <1>1, <1>2, <2>1, <2>2, CommandKeepsOthers DEF Labels
<1>5. SliceTyped'
  <2>1. held' \subseteq 0..Len(log')
    BY <1>1, <1>2, <1>3, SliceKept
  <2>2. QED
    BY <1>1, <1>2, <2>1, SliceKept DEF SliceTyped, RoutingParted, RoutingTyped, github
<1>6. NoneLost
  <2>1. ASSUME NEW p \in Results, InHand(p) PROVE p \in held' \/ InHand(p)'
    <3>1. PICK x \in Operator : pc[x] = "claim" /\ job[x].got = p
      BY <2>1 DEF InHand
    <3>2. CASE x = o
      BY <1>0, <1>1, <3>1, <3>2
    <3>3. CASE x # o
      BY <1>4, <3>1, <3>3 DEF InHand, OthersStay
    <3>4. QED
      BY <3>2, <3>3
  <2>2. QED
    BY <1>1, <1>2, <2>1 DEF NoneLost, Kept, Older
<1>7. SightsOK'
  BY <1>1, <1>2, SightsKept
<1>8. QED
  BY <1>2, <1>4, <1>5, <1>6, <1>7 DEF RoutingParted, RoutingTyped, SightsOK

LEMMA CompareKeeps ==
  ASSUME RoutingParted, NEW o \in Operator, Compare(o)
  PROVE  RoutingParted' /\ NoneLost
<1>0. /\ UNCHANGED <<log, working, github, closed, seen, failures>> /\ pc[o] = "compare"
      /\ held' = held \ {job[o].got} /\ Finish(o)
      /\ IF job[o].got = job[o].source THEN UNCHANGED queue ELSE Push(job[o].from, job[o].got)
  BY DEF Compare
<1>1. /\ LogTyped /\ QueuesTyped /\ RolesHoldNoResult /\ Older /\ Results' = Results
      /\ Times("decision")' = Times("decision")
      /\ job[o].from \in {"TechLead", "Delivery Architect"} /\ job[o].from \in Queues
      /\ job[o].got \in 0..Len(log')
  BY <1>0, SameOlder DEF RoutingParted, RoutingTyped, CommandsTyped, Jobs, Queues, Roles
<1>2. Answered(job[o].source) /\ (job[o].from # "TechLead" => job[o].got \notin Results)
  BY <1>0 DEF RoutingParted, CommandsOK, CommandOK
<1>3. CommandsTyped' /\ CommandsOK' /\ OthersStay(o) /\ SightsOK'
  BY <1>0, <1>1, FinishIs, SightsKept
<1>4. SliceTyped'
  BY <1>0, <1>1, SliceKept DEF SliceTyped, RoutingParted, RoutingTyped, github
<1>5. CASE job[o].got = job[o].source
  <2>1. /\ Older /\ LogTyped' /\ QueuesTyped' /\ RolesHoldNoResult' /\ Waiting' = Waiting
    BY <1>0, <1>5, QueuesKept
  <2>2. NoneLost
    <3>1. ASSUME NEW p \in Results, p \in Waiting \cup held PROVE Kept(p)'
      <4>1. CASE p = job[o].got
        BY <1>1, <1>2, <1>5, <4>1 DEF Kept, Older
      <4>2. CASE p # job[o].got
        BY <1>0, <2>1, <3>1, <4>2 DEF Kept
      <4>3. QED
        BY <4>1, <4>2
    <3>2. QED
      BY <1>0, <1>1, <1>3, <3>1, CommandLosesNone
  <2>3. QED
    BY <1>3, <1>4, <2>1, <2>2 DEF RoutingParted, RoutingTyped, SightsOK
<1>6. CASE job[o].got # job[o].source
  <2>1. Push(job[o].from, job[o].got)
    BY <1>0, <1>6
  <2>2. /\ QueuesTyped' /\ Waiting \subseteq Waiting' /\ (job[o].got # 0 => job[o].got \in Waiting')
        /\ ToSet(queue'[job[o].from]) = ToSet(queue[job[o].from]) \cup {job[o].got}
        /\ \A x \in Queues \ {job[o].from} : queue'[x] = queue[x]
    BY <1>1, <2>1, PushIs
  <2>3. RolesHoldNoResult'
    <3>1. ASSUME NEW r \in Roles PROVE ToSet(queue'[r]) \cap Results = {}
      <4>1. r \in Queues /\ r # "TechLead" /\ ToSet(queue[r]) \cap Results = {}
        BY <1>1 DEF RolesHoldNoResult, Queues, Roles
      <4>2. CASE r = job[o].from
        BY <1>2, <2>2, <4>1, <4>2
      <4>3. CASE r # job[o].from
        BY <2>2, <4>1, <4>3
      <4>4. QED
        BY <4>2, <4>3
    <3>2. QED
      BY <1>1, <3>1 DEF RolesHoldNoResult
  <2>4. 0 \notin Results
    <3>1. Results \subseteq 1..Len(log) /\ Len(log) \in Nat
      BY <1>1, TimesIs
    <3>2. QED
      BY <3>1
  <2>5. NoneLost
    <3>1. ASSUME NEW p \in Results, p \in Waiting \cup held PROVE p \in Waiting' \cup held'
      BY <1>0, <2>2, <2>4, <3>1
    <3>2. QED
      BY <1>0, <1>1, <1>3, <3>1, CommandLosesNone DEF Kept
  <2>6. QED
    BY <1>1, <1>3, <1>4, <2>2, <2>3, <2>5 DEF RoutingParted, RoutingTyped, SightsOK, Older
<1>7. QED
  BY <1>5, <1>6

-----------------------------------------------------------------------------
(* The steps of the team. *)

LEMMA TakesKeeps ==
  ASSUME RoutingParted, NEW r \in Roles, Takes(r)
  PROVE  RoutingParted' /\ NoneLost
<1>0. UNCHANGED log /\ queue[r] # <<>> /\ queue' = [queue EXCEPT ![r] = Tail(@)]
      /\ UNCHANGED <<held, github, closed, commands>>
  BY DEF Takes
<1>1. LogTyped /\ QueuesTyped /\ RolesHoldNoResult /\ Older /\ Results' = Results /\ r \in Queues
      /\ Times("decision")' = Times("decision")
  BY <1>0, SameOlder DEF RoutingParted, RoutingTyped, Queues
<1>2. /\ QueuesTyped' /\ Head(queue[r]) \in 0..Len(log)
      /\ ToSet(queue[r]) = ToSet(queue'[r]) \cup {Head(queue[r])}
      /\ \A x \in Queues \ {r} : queue'[x] = queue[x]
      /\ Waiting \subseteq Waiting' \cup {Head(queue[r])}
  BY <1>0, <1>1, PopIs
<1>3. RolesHoldNoResult'
  <2>1. \A x \in Roles : ToSet(queue'[x]) \subseteq ToSet(queue[x])
    BY <1>2 DEF Queues
  <2>2. QED
    BY <1>1, <2>1 DEF RolesHoldNoResult
<1>4. CommandsTyped' /\ CommandsOK' /\ failures' \in 0..MaxFailures /\ SightsOK'
  BY <1>0, <1>1, TeamKeepsCommands
<1>5. SliceTyped'
  <2>1. working' \subseteq Times("assignment")'
    BY <1>0, <1>1, SliceKept DEF Takes, Older
  <2>2. QED
    BY <1>0, <1>1, <1>4, <2>1, SliceKept DEF SliceTyped, github
<1>6. Head(queue[r]) \notin Results
  BY <1>1, <1>2 DEF RolesHoldNoResult
<1>7. NoneLost
  <2>1. \A p \in Results : p \in Waiting \cup held => p \in Waiting' \cup held'
    BY <1>0, <1>2, <1>6
  <2>2. QED
    BY <1>0, <1>1, <2>1, TeamLosesNone DEF commands
<1>8. QED
  BY <1>1, <1>2, <1>3, <1>4, <1>5, <1>7 DEF RoutingParted, RoutingTyped, SightsOK, Older

(* A packet is posted to a queue: a result to the TechLead's only.         *)
LEMMA PostedKeeps ==
  ASSUME RoutingParted, NEW f \in Facts(0..MaxFacts), Room, Post(f), NEW q \in Queues,
         Push(q, Len(log) + 1), f.kind \in ResultKinds => q = "TechLead", f.kind # "decision",
         working' \subseteq working, UNCHANGED <<held, github, closed, commands>>
  PROVE  RoutingParted' /\ NoneLost
<1>1. /\ LogTyped /\ QueuesTyped /\ RolesHoldNoResult /\ Len(log) \in Nat /\ Results \subseteq 1..Len(log)
      /\ \A x \in Queues : ToSet(queue[x]) \subseteq 0..Len(log)
  BY TimesIs, InQueue DEF RoutingParted, RoutingTyped, QueuesTyped
<1>2. /\ Older /\ Len(log') = Len(log) + 1 /\ Times("decision")' = Times("decision")
      /\ Results' = IF f.kind \in ResultKinds THEN Results \cup {Len(log) + 1} ELSE Results
  BY <1>1, PostIs
<1>3. /\ QueuesTyped' /\ Waiting \subseteq Waiting' /\ Len(log) + 1 \in Waiting'
      /\ ToSet(queue'[q]) = ToSet(queue[q]) \cup {Len(log) + 1}
      /\ \A x \in Queues \ {q} : queue'[x] = queue[x]
  BY <1>1, <1>2, PushIs
<1>4. RolesHoldNoResult'
  <2>1. ASSUME NEW r \in Roles PROVE ToSet(queue'[r]) \cap Results' = {}
    <3>0. r \in Queues /\ r # "TechLead" /\ ToSet(queue[r]) \cap Results = {}
      BY <1>1 DEF RolesHoldNoResult, Queues, Roles
    <3>1. r \in Queues /\ r # "TechLead" /\ ToSet(queue[r]) \cap Results = {} /\ Len(log) + 1 \notin ToSet(queue[r])
      BY <1>1, <3>0
    <3>2. CASE r = q
      BY <1>1, <1>2, <1>3, <3>1, <3>2
    <3>3. CASE r # q
      BY <1>2, <1>3, <3>1, <3>3
    <3>4. QED
      BY <3>2, <3>3
  <2>2. QED
    BY <2>1 DEF RolesHoldNoResult
<1>5. CommandsTyped' /\ CommandsOK' /\ failures' \in 0..MaxFailures /\ SightsOK'
  BY <1>2, TeamKeepsCommands
<1>6. SliceTyped'
  BY <1>2, <1>5, SliceKept DEF SliceTyped, github
<1>7. NoneLost
  BY <1>2, <1>3, TeamLosesNone DEF commands
<1>8. QED
  BY <1>2, <1>3, <1>4, <1>5, <1>6, <1>7 DEF RoutingParted, RoutingTyped, SightsOK, Older

LEMMA ResultsAreFacts ==
  ASSUME NEW r \in Roles, NEW f \in ResultsOf(r)
  PROVE  f \in Facts(0..MaxFacts) /\ f.kind # "decision"
<1>1. CASE r = "Dev"
  <2>1. PICK k \in {"worker_result", "slice_result"}, v \in WorkResults : f = Fact(k, v, 0)
    BY <1>1 DEF ResultsOf
  <2>2. QED
    BY <2>1 DEF Fact, Facts
<1>2. CASE r = "QA"
  <2>1. PICK v \in Verdicts : f = Fact("verification", v, 0)
    BY <1>2 DEF ResultsOf
  <2>2. QED
    BY <2>1 DEF Fact, Facts
<1>3. CASE r = "Delivery Architect"
  <2>1. PICK v \in Reviews : f = Fact("delivery_review", v, 0)
    <3>1. r # "Dev" /\ r # "QA"
      BY <1>3
    <3>2. ResultsOf(r) = {Fact("delivery_review", v, 0) : v \in Reviews}
      BY <3>1 DEF ResultsOf
    <3>3. QED
      BY <3>2
  <2>2. QED
    BY <2>1 DEF Fact, Facts
<1>4. QED
  BY <1>1, <1>2, <1>3 DEF Roles

LEMMA PostingKeeps ==
  ASSUME RoutingParted, (\E a \in working : Returns(a)) \/ Verifies
  PROVE  RoutingParted' /\ NoneLost
<1>0. "TechLead" \in Queues /\ "Dev" \in Queues /\ LogTyped
  BY DEF Queues, Roles, RoutingParted, RoutingTyped
<1>1. ASSUME NEW a \in working, Returns(a) PROVE RoutingParted' /\ NoneLost
  <2>1. a \in Times("assignment")
    BY <1>1 DEF RoutingParted, RoutingTyped, SliceTyped
  <2>2. log[a].says \in Roles
    BY <1>0, <2>1, TimesIs, FactKinds
  <2>3. PICK f \in ResultsOf(log[a].says) : Post(f)
    BY <1>1 DEF Returns
  <2>4. f \in Facts(0..MaxFacts) /\ f.kind # "decision"
    BY <2>2, <2>3, ResultsAreFacts
  <2>5. /\ Room /\ Push("TechLead", Len(log) + 1) /\ working' \subseteq working
        /\ UNCHANGED <<held, github, closed, commands>>
    BY <1>1 DEF Returns
  <2>6. QED
    BY <1>0, <2>3, <2>4, <2>5, PostedKeeps
<1>2. CASE Verifies
  <2>1. PICK f \in ResultsOf("QA") : Post(f)
    BY <1>2 DEF Verifies
  <2>2. f \in Facts(0..MaxFacts) /\ f.kind # "decision"
    BY <2>1, ResultsAreFacts DEF Roles
  <2>3. /\ Room /\ Push("TechLead", Len(log) + 1) /\ working' \subseteq working
        /\ UNCHANGED <<held, github, closed, commands>>
    BY <1>2 DEF Verifies
  <2>4. QED
    BY <1>0, <2>1, <2>2, <2>3, PostedKeeps
<1>3. QED
  BY <1>1, <1>2

LEMMA CommentsAreFacts ==
  ASSUME NEW f, (\E kind \in Comments : f = Fact(kind, "-", 0)) \/ (\E v \in Verdicts : f = Fact("qa_review", v, 0))
  PROVE  f \in Facts(0..MaxFacts) /\ f.kind \notin ResultKinds /\ f.kind # "decision"
<1>1. CASE \E kind \in Comments : f = Fact(kind, "-", 0)
  <2>1. PICK kind \in Comments : f = Fact(kind, "-", 0)
    BY <1>1
  <2>2. f \in [kind : Comments, says : {"-"}, source : {0}] /\ f.kind = kind
    BY <2>1 DEF Fact
  <2>3. QED
    BY <2>2 DEF Facts, Comments, ResultKinds
<1>2. CASE \E v \in Verdicts : f = Fact("qa_review", v, 0)
  <2>1. PICK v \in Verdicts : f = Fact("qa_review", v, 0)
    BY <1>2
  <2>2. f \in [kind : {"qa_review"}, says : Verdicts, source : {0}] /\ f.kind = "qa_review"
    BY <2>1 DEF Fact
  <2>3. QED
    BY <2>2 DEF Facts, ResultKinds
<1>3. QED
  BY <1>1, <1>2

LEMMA CommentedKeeps ==
  ASSUME RoutingParted, (\E kind \in Comments : Commented(kind)) \/ CommentsReview
  PROVE  RoutingParted' /\ NoneLost
<1>0. PICK f : /\ (\E kind \in Comments : f = Fact(kind, "-", 0)) \/ (\E v \in Verdicts : f = Fact("qa_review", v, 0))
               /\ Post(f) /\ Room /\ UNCHANGED <<queue, held, working, github, closed, commands>>
  BY DEF Commented, CommentsReview
<1>1. /\ f \in Facts(0..MaxFacts) /\ f.kind \notin ResultKinds /\ f.kind # "decision"
      /\ LogTyped /\ QueuesTyped /\ RolesHoldNoResult
  BY <1>0, CommentsAreFacts DEF RoutingParted, RoutingTyped
<1>2. Older /\ Results' = Results /\ Times("decision")' = Times("decision")
  BY <1>0, <1>1, PostIs
<1>3. QueuesTyped' /\ RolesHoldNoResult' /\ Waiting' = Waiting
  <2>1. queue \in [Queues -> Seq(0 .. Len(log'))]
    BY <1>1, <1>2, Widened, TimesIs DEF Older
  <2>2. QED
    BY <1>0, <1>1, <1>2, <2>1 DEF QueuesTyped, RolesHoldNoResult, Waiting
<1>4. CommandsTyped' /\ CommandsOK' /\ failures' \in 0..MaxFailures /\ SightsOK'
  BY <1>0, <1>2, TeamKeepsCommands
<1>5. SliceTyped'
  BY <1>0, <1>2, <1>4, SliceKept DEF SliceTyped, github
<1>6. NoneLost
  BY <1>0, <1>2, <1>3, TeamLosesNone DEF commands
<1>7. QED
  BY <1>2, <1>3, <1>4, <1>5, <1>6 DEF RoutingParted, RoutingTyped, SightsOK, Older

LEMMA SettlesKeeps ==
  ASSUME RoutingParted, Settles
  PROVE  RoutingParted' /\ NoneLost
<1> DEFINE q == "TechLead"
<1>0. /\ UNCHANGED log /\ queue[q] # <<>> /\ queue' = [queue EXCEPT ![q] = Tail(@)]
      /\ UNCHANGED <<held, working, github, closed, commands>>
      /\ Head(queue[q]) \in {0} \cup Times("verification")
  BY DEF Settles
<1>1. LogTyped /\ QueuesTyped /\ RolesHoldNoResult /\ Older /\ Results' = Results /\ q \in Queues
      /\ Times("decision")' = Times("decision")
  BY <1>0, SameOlder DEF RoutingParted, RoutingTyped, Queues
<1>2. /\ QueuesTyped'
      /\ \A x \in Queues \ {q} : queue'[x] = queue[x]
      /\ Waiting \subseteq Waiting' \cup {Head(queue[q])}
  BY <1>0, <1>1, PopIs
<1>3. RolesHoldNoResult'
  BY <1>1, <1>2 DEF RolesHoldNoResult, Queues, Roles
<1>4. CommandsTyped' /\ CommandsOK' /\ failures' \in 0..MaxFailures /\ SightsOK'
  BY <1>0, <1>1, TeamKeepsCommands
<1>5. SliceTyped'
  BY <1>0, <1>1, <1>4, SliceKept DEF SliceTyped, github
<1>6. Head(queue[q]) \notin Results
  <2>1. Results \subseteq 1..Len(log) /\ Len(log) \in Nat
    BY <1>1, TimesIs
  <2>2. CASE Head(queue[q]) = 0
    BY <2>1, <2>2
  <2>3. CASE Head(queue[q]) \in Times("verification")
    BY <1>1, <2>3, TimesIs DEF ResultKinds
  <2>4. QED
    BY <1>0, <2>2, <2>3
<1>7. NoneLost
  <2>1. \A p \in Results : p \in Waiting \cup held => p \in Waiting' \cup held'
    BY <1>0, <1>2, <1>6
  <2>2. QED
    BY <1>0, <1>1, <2>1, TeamLosesNone DEF commands
<1>8. QED
  BY <1>1, <1>2, <1>3, <1>4, <1>5, <1>7 DEF RoutingParted, RoutingTyped, SightsOK, Older

LEMMA GithubKeeps ==
  ASSUME RoutingParted, OpensPullRequest \/ Accepts \/ Closes
  PROVE  RoutingParted' /\ NoneLost
<1>0. /\ UNCHANGED <<log, queue, held, working, commands>>
      /\ pr' \in {"none", "OPEN", "MERGED"} /\ issue' \in {"OPEN", "CLOSED"}
      /\ closed' \in Decisions
  BY DEF Decisions, OpensPullRequest, Accepts, Closes, RoutingParted, RoutingTyped, SliceTyped
<1>1. /\ Older /\ LogTyped' /\ QueuesTyped' /\ RolesHoldNoResult' /\ Waiting' = Waiting
      /\ Results' = Results /\ Times("decision")' = Times("decision")
  BY <1>0, QueuesKept
<1>2. CommandsTyped' /\ CommandsOK' /\ failures' \in 0..MaxFailures /\ SightsOK'
  BY <1>0, <1>1, TeamKeepsCommands
<1>3. SliceTyped'
  BY <1>0, <1>1, <1>2, SliceKept DEF SliceTyped
<1>4. NoneLost
  BY <1>0, <1>1, TeamLosesNone DEF commands
<1>5. QED
  BY <1>1, <1>2, <1>3, <1>4 DEF RoutingParted, RoutingTyped, SightsOK

-----------------------------------------------------------------------------
(* The steps of a derivation. *)

(* What derivation b has come to know, beside what the others still know.  *)
LEMMA SightMoves ==
  ASSUME RoutingParted, Older, NEW b \in Viewer, NEW read, Sees(b, read),
         read \in Sights(Len(log')), read.report \in {0} \cup Times("verification")',
         read.step = "github" => \A v \in Times("verification")' : v <= read.began => v <= read.report,
         read.step = "decide" => ReworkFailed'
  PROVE  SightsTyped' /\ SightsHold'
<1>1. seen \in [Viewer -> Sights(Len(log))]
  BY DEF RoutingParted, RoutingTyped, SightsTyped
<1>2. /\ seen'[b] = read /\ seen' = [seen EXCEPT ![b] = read]
      /\ \A x \in Viewer \ {b} : seen'[x] = seen[x]
  BY <1>1 DEF Sees
<1>3. ASSUME NEW x \in Viewer PROVE SightTyped(x)' /\ SightHolds(x)'
  <2>1. CASE x # b
    BY <1>2, <2>1, SightKept
  <2>2. CASE x = b
    BY <1>2, <2>2 DEF SightTyped, SightHolds
  <2>3. QED
    BY <2>1, <2>2
<1>4. seen' \in [Viewer -> Sights(Len(log'))]
  BY <1>1, <1>2, <1>3 DEF SightTyped
<1>5. QED
  BY <1>3, <1>4 DEF SightsTyped, SightsHold, SightHolds, ReworkFailed

LEMMA NothingTyped ==
  ASSUME NEW n \in Nat
  PROVE  Nothing \in Sights(n) /\ Nothing.report = 0 /\ Nothing.step = "idle"
<1>1. 0 \in 0..n /\ {} \in SUBSET Queues
  OBVIOUS
<1>2. QED
  BY <1>1 DEF Nothing, Sights, Steps, Decisions

(* A derivation that only reads moves nothing but itself.                  *)
LEMMA OnlySeesKeeps ==
  ASSUME RoutingParted, OnlySees, SightsTyped', SightsHold'
  PROVE  RoutingParted' /\ NoneLost
<1>0. UNCHANGED <<log, queue, held, working, github, closed, pc, job, failures>>
  BY DEF OnlySees, emissions
<1>1. /\ Older /\ LogTyped' /\ QueuesTyped' /\ RolesHoldNoResult' /\ Waiting' = Waiting
      /\ Results' = Results /\ Times("decision")' = Times("decision")
  BY <1>0, QueuesKept
<1>2. CommandsTyped' /\ CommandsOK'
  <2>1. \A o \in Operator : CommandOK(o)' /\ job'[o] \in Jobs(Len(log')) /\ pc'[o] \in Labels
    BY <1>0, <1>1, OthersKnow
  <2>2. QED
    BY <1>0, <2>1 DEF CommandsTyped, CommandsOK, RoutingParted, RoutingTyped
<1>3. SliceTyped'
  BY <1>0, <1>1, SliceKept DEF SliceTyped, RoutingParted, RoutingTyped, github
<1>4. NoneLost
  BY <1>0, <1>1, TeamLosesNone
<1>5. ResetFollowsRepeatedFailure'
  BY <1>1, DecisionsKept
<1>6. QED
  BY <1>1, <1>2, <1>3, <1>4, <1>5 DEF RoutingParted, RoutingTyped

LEMMA LooksKeeps ==
  ASSUME RoutingParted, NEW b \in Viewer,
         LooksAtQueues(b) \/ LooksAtDecision(b) \/ LooksAtReport(b) \/ Derives(b)
  PROVE  RoutingParted' /\ NoneLost
<1>0. PICK s : s = seen[b]
  OBVIOUS
<1>1. OnlySees
  BY DEF LooksAtQueues, LooksAtDecision, LooksAtReport, Derives
<1>2. /\ LogTyped /\ Older /\ Len(log) \in Nat /\ log' = log /\ LatestOf("verification") \in 0..Len(log)
      /\ s \in Sights(Len(log)) /\ s.report \in {0} \cup Times("verification")
      /\ Times("verification")' = Times("verification")
      /\ LatestOf("verification") # 0 => LatestOf("verification") \in Times("verification")
      /\ \A v \in Times("verification") : v <= LatestOf("verification")
  BY <1>0, <1>1, SameOlder, TimesIs, LatestIs DEF OnlySees, RoutingParted, RoutingTyped, SightsTyped, SightTyped
<1>3. Nothing \in Sights(Len(log)) /\ Nothing.report = 0 /\ Nothing.step = "idle"
  BY <1>2, NothingTyped
<1>4. CASE LooksAtQueues(b)
  <2>1. PICK read : read = [Nothing EXCEPT !.step = "decision", !.busy = Busy, !.began = LatestOf("verification")]
    OBVIOUS
  <2>2. read \in Sights(Len(log')) /\ read.report = 0 /\ read.step = "decision"
    BY <1>2, <1>3, <2>1 DEF Sights, Steps, Busy
  <2>3. Sees(b, read)
    BY <1>4, <2>1 DEF LooksAtQueues
  <2>4. QED
    BY <1>1, <1>2, <2>2, <2>3, SightMoves, OnlySeesKeeps
<1>5. CASE LooksAtDecision(b)
  <2>1. PICK read : read = [s EXCEPT !.step = "report", !.closed = closed]
    OBVIOUS
  <2>2. closed \in Decisions
    BY DEF RoutingParted, RoutingTyped, SliceTyped
  <2>3. read \in Sights(Len(log')) /\ read.report = s.report /\ read.step = "report"
    BY <1>2, <2>1, <2>2 DEF Sights, Steps
  <2>4. Sees(b, read)
    BY <1>0, <1>5, <2>1 DEF LooksAtDecision
  <2>5. QED
    BY <1>1, <1>2, <2>3, <2>4, SightMoves, OnlySeesKeeps
<1>6. CASE LooksAtReport(b)
  <2>1. PICK read : read = [s EXCEPT !.step = "github", !.report = LatestOf("verification")]
    OBVIOUS
  <2>2. read \in Sights(Len(log')) /\ read.report = LatestOf("verification") /\ read.step = "github"
    BY <1>2, <2>1 DEF Sights, Steps
  <2>3. Sees(b, read)
    BY <1>0, <1>6, <2>1 DEF LooksAtReport
  <2>4. QED
    BY <1>1, <1>2, <2>2, <2>3, SightMoves, OnlySeesKeeps
<1>7. CASE Derives(b)
  <2>1. CASE ResetSupported(Stage(s))
    <3>1. PICK read : read = [Nothing EXCEPT !.step = "decide"]
      OBVIOUS
    <3>2. read \in Sights(Len(log')) /\ read.report = 0 /\ read.step = "decide"
      BY <1>2, <1>3, <3>1 DEF Sights, Steps
    <3>3. ReworkFailedBefore(Len(log) + 1)
      BY <1>2, <2>1, ResetNeedsRepeatedFailure
    <3>4. ReworkFailed'
      BY <1>2, <3>3 DEF ReworkFailed, ReworkFailedBefore
    <3>5. Sees(b, read)
      BY <1>0, <1>7, <2>1, <3>1 DEF Derives
    <3>6. QED
      BY <1>1, <1>2, <3>2, <3>4, <3>5, SightMoves, OnlySeesKeeps
  <2>2. CASE ~ ResetSupported(Stage(s))
    <3>1. Sees(b, Nothing)
      BY <1>0, <1>7, <2>2 DEF Derives
    <3>2. QED
      BY <1>1, <1>2, <1>3, <3>1, SightMoves, OnlySeesKeeps
  <2>3. QED
    BY <2>1, <2>2
<1>8. QED
  BY <1>4, <1>5, <1>6, <1>7

LEMMA DecidesKeeps ==
  ASSUME RoutingParted, NEW b \in Viewer, DecidesReset(b)
  PROVE  RoutingParted' /\ NoneLost
<1> DEFINE f == Fact("decision", "Dev", 0)
<1>0. /\ Post(f) /\ Room /\ Push("Dev", Len(log) + 1) /\ Sees(b, Nothing) /\ seen[b].step = "decide"
      /\ UNCHANGED <<held, working, github, closed, pc, job, failures>>
  BY DEF DecidesReset, emissions
<1>1. /\ LogTyped /\ QueuesTyped /\ RolesHoldNoResult /\ Len(log) \in Nat /\ Results \subseteq 1..Len(log)
      /\ "Dev" \in Queues /\ ReworkFailedBefore(Len(log) + 1)
  BY <1>0, TimesIs DEF RoutingParted, RoutingTyped, SightsHold, Queues, Roles
<1>2. f \in Facts(0..MaxFacts) /\ f.kind = "decision"
  <2>1. 0 \in 0..MaxFacts /\ "Dev" \in Roles
    BY RoutingAssumption DEF Roles
  <2>2. QED
    BY <2>1 DEF Fact, Facts
<1> HIDE DEF f
<1>3. /\ Older /\ Len(log') = Len(log) + 1 /\ Results' = Results
      /\ \A d \in Times("decision")' : d \in Times("decision") \/ d = Len(log) + 1
  BY <1>0, <1>1, <1>2, PostIs DEF ResultKinds
<1>4. /\ QueuesTyped' /\ Waiting \subseteq Waiting'
      /\ ToSet(queue'["Dev"]) = ToSet(queue["Dev"]) \cup {Len(log) + 1}
      /\ \A x \in Queues \ {"Dev"} : queue'[x] = queue[x]
  <2>1. Len(log) + 1 \in 0..Len(log')
    BY <1>1, <1>3
  <2>2. QED
    BY <1>0, <1>1, <1>3, <2>1, PushIs
<1>5. RolesHoldNoResult'
  <2>1. \A r \in Roles : ToSet(queue'[r]) \subseteq ToSet(queue[r]) \cup {Len(log) + 1}
    BY <1>4 DEF Queues
  <2>2. Len(log) + 1 \notin Results
    BY <1>1
  <2>3. QED
    BY <1>1, <1>3, <2>1, <2>2 DEF RolesHoldNoResult
<1>6. CommandsTyped' /\ CommandsOK'
  <2>1. \A o \in Operator : CommandOK(o)' /\ job'[o] \in Jobs(Len(log')) /\ pc'[o] \in Labels
    BY <1>0, <1>3, OthersKnow
  <2>2. QED
    BY <1>0, <2>1 DEF CommandsTyped, CommandsOK, RoutingParted, RoutingTyped
<1>7. SliceTyped'
  BY <1>0, <1>3, SliceKept DEF SliceTyped, RoutingParted, RoutingTyped, github
<1>8. NoneLost
  BY <1>0, <1>3, <1>4, TeamLosesNone
<1>9. SightsTyped' /\ SightsHold'
  <2>1. Nothing \in Sights(Len(log')) /\ Nothing.report = 0 /\ Nothing.step = "idle"
    BY <1>3, NothingTyped DEF Older
  <2>2. QED
    BY <1>0, <1>3, <2>1, SightMoves
<1>10. ResetFollowsRepeatedFailure'
  <2>1. PICK n \in 0..Len(log) + 1 : n = Len(log) + 1
    BY <1>1
  <2>2. n \in Nat /\ n <= n /\ ReworkFailedBefore(n)
    BY <1>1, <2>1
  <2>3. ReworkFailedBefore(n)'
    BY <1>1, <1>3, <2>2, FailureStays
  <2>4. ASSUME NEW d \in Times("decision")' PROVE ReworkFailedBefore(d)'
    <3>1. CASE d \in Times("decision")
      BY <1>3, <3>1, DecisionKept
    <3>2. CASE d = n
      BY <2>3, <3>2
    <3>3. QED
      BY <1>3, <2>1, <3>1, <3>2
  <2>5. QED
    BY <2>4 DEF ResetFollowsRepeatedFailure
<1>11. QED
  BY <1>3, <1>4, <1>5, <1>6, <1>7, <1>8, <1>9, <1>10 DEF RoutingParted, RoutingTyped, Older

-----------------------------------------------------------------------------
(* The theorems. *)

LEMMA RoutingStarts ==
  ASSUME Init
  PROVE  RoutingParted
<1>1. LogTyped
  BY RoutingAssumption DEF Init, LogTyped
<1>2. PICK foreign \in SUBSET {"TechLead", "Dev"} :
        queue = [q \in Queues |-> IF q \in foreign THEN <<0>> ELSE <<>>]
  BY DEF Init
<1>3. Len(log) \in Nat /\ 0 \in 0..Len(log) /\ 0 \notin Results
  BY <1>1, TimesIs
<1>4. <<0>> \in Seq(0..Len(log)) /\ <<>> \in Seq(0..Len(log)) /\ ToSet(<<0>>) = {0} /\ ToSet(<<>>) = {}
  BY <1>3 DEF ToSet
<1>5. QueuesTyped /\ \A q \in Queues : ToSet(queue[q]) \subseteq {0}
  BY <1>2, <1>4 DEF QueuesTyped
<1>6. CommandsTyped /\ CommandsOK
  <2>1. NoJob \in Jobs(Len(log))
    BY <1>3 DEF NoJob, Jobs, Roles
  <2>2. QED
    BY <2>1 DEF Init, CommandsTyped, CommandsOK, CommandOK, Labels
<1>7. SliceTyped
  BY RoutingAssumption DEF Init, SliceTyped, Decisions, Times
<1>8. RolesHoldNoResult
  BY <1>3, <1>5 DEF RolesHoldNoResult, Queues
<1>9. Times("decision") = {} /\ ResetFollowsRepeatedFailure
  <2>1. \A p \in DOMAIN log : log[p].kind # "decision"
    BY SettledHistories DEF Init
  <2>2. QED
    BY <2>1 DEF ResetFollowsRepeatedFailure, Times
<1>10. SightsTyped /\ SightsHold
  <2>1. Nothing \in Sights(Len(log)) /\ Nothing.report = 0 /\ Nothing.step = "idle"
    BY <1>3, NothingTyped
  <2>2. \A b \in Viewer : seen[b] = Nothing
    BY DEF Init
  <2>3. seen \in [Viewer -> Sights(Len(log))]
    BY <2>1 DEF Init
  <2>4. QED
    BY <2>1, <2>2, <2>3 DEF SightsTyped, SightTyped, SightsHold
<1>11. QED
  BY <1>1, <1>5, <1>6, <1>7, <1>8, <1>9, <1>10 DEF RoutingParted, RoutingTyped

(* Every step keeps the invariant, and loses a result only as it says.     *)
LEMMA StepKeeps ==
  ASSUME RoutingParted, Next
  PROVE  RoutingParted' /\ NoneLost
<1>1. CASE \E o \in Operator : Emits(o)
  BY <1>1, BeginKeeps, SendKeeps, FailingKeeps, CloseClaimedKeeps, GetHeadKeeps, ClaimKeeps, CompareKeeps
  DEF Emits
<1>2. CASE \E b \in Viewer : Views(b)
  BY <1>2, LooksKeeps, DecidesKeeps DEF Views
<1>3. CASE Team
  BY <1>3, TakesKeeps, PostingKeeps, CommentedKeeps, SettlesKeeps, GithubKeeps DEF Team
<1>4. QED
  BY <1>1, <1>2, <1>3 DEF Next

LEMMA StutterKeeps ==
  ASSUME RoutingParted, UNCHANGED vars
  PROVE  RoutingParted' /\ NoneLost
<1>1. UNCHANGED <<log, queue, held, working, github, closed, commands, pr, issue, pc, job>>
  BY DEF vars, github, commands
<1>2. /\ Older /\ LogTyped' /\ QueuesTyped' /\ RolesHoldNoResult' /\ Waiting' = Waiting
      /\ Results' = Results /\ Times("decision")' = Times("decision")
  BY <1>1, QueuesKept
<1>3. CommandsTyped' /\ CommandsOK' /\ failures' \in 0..MaxFailures /\ SightsOK'
  BY <1>1, <1>2, TeamKeepsCommands
<1>4. SliceTyped'
  BY <1>1, <1>2, <1>3, SliceKept DEF SliceTyped
<1>5. NoneLost
  BY <1>1, <1>2, TeamLosesNone
<1>6. QED
  BY <1>2, <1>3, <1>4, <1>5 DEF RoutingParted, RoutingTyped, SightsOK

(* However commands, derivations, roles and operators interleave, fail or  *)
(* die, the inductive invariant of the routing holds, from any settled     *)
(* history.                                                                *)
THEOREM RoutingInvariance == Spec => []RoutingInv
<1>1. Init => RoutingParted
  BY RoutingStarts
<1>2. RoutingParted /\ [Next]_vars => RoutingParted'
  BY StepKeeps, StutterKeeps
<1>3. RoutingParted => RoutingInv
  BY RoutingParts DEF RoutingParted
<1>4. QED
  BY <1>1, <1>2, <1>3, PTL DEF Spec

(* Log, queues, claims and the commands' locals are well-typed, and the    *)
(* derived stage is always one the TechLead knows.                         *)
THEOREM RoutingTypeCorrect == Spec => []RoutingTypeOK
<1>1. RoutingInv => RoutingTypeOK
  BY DEF RoutingInv
<1>2. QED
  BY <1>1, RoutingInvariance, PTL

(* A work result or delivery review that waits, is claimed, in a command's *)
(* hand or answered stays so, for any number of commands, derivations,     *)
(* facts and failures, but at a death between a get and its claim file and *)
(* at a requeue that is not routed.                                        *)
THEOREM ResultsAreLostOnlyByLossSteps == Spec => ResultsLostOnlyByLossSteps
<1>1. RoutingInv /\ [Next]_vars => [\A p \in Results : Kept(p) => Kept(p)' \/ LossStep(p)]_vars
  BY RoutingParts, StepKeeps, StutterKeeps DEF RoutingParted, NoneLost
<1>2. QED
  BY <1>1, RoutingInvariance, PTL DEF Spec, ResultsLostOnlyByLossSteps

(* A reset decision is sent only for a slice that was rejected, updated,   *)
(* escalated by a QA review comment, verified and rejected again, whatever *)
(* is written between the reads of a derivation and its decision.          *)
THEOREM ResetsFollowRepeatedFailure == Spec => []ResetFollowsRepeatedFailure
<1>1. RoutingInv => ResetFollowsRepeatedFailure
  BY DEF RoutingInv
<1>2. QED
  BY <1>1, RoutingInvariance, PTL

(* A derivation that lets automation go on, other than by the override of  *)
(* a closed local decision, leaves no report of the open slice that was    *)
(* there when it began without an answer, whatever is written between its  *)
(* reads.                                                                  *)
THEOREM UnattendedRunsHideNoReport == Spec => UnattendedHidesNoReport
<1> DEFINE Hidden(b) ==
      Derives(b) /\ Open /\ UnattendedSafe(seen[b]) /\ ~ Overridden(seen[b]) =>
        \A v \in Times("verification") :
          v <= seen[b].began /\ AwaitsTechLead(v) =>
            \E i \in DOMAIN log : i > v /\ log[i].kind \in {"verification", "handoff", "update"}
<1>1. RoutingInv => \A b \in Viewer : Hidden(b)
  <2>1. SUFFICES ASSUME RoutingInv, NEW b \in Viewer, Derives(b), Open, UnattendedSafe(seen[b]),
                        ~ Overridden(seen[b]), NEW v \in Times("verification"), v <= seen[b].began,
                        AwaitsTechLead(v)
                 PROVE  \E i \in DOMAIN log : i > v /\ log[i].kind \in {"verification", "handoff", "update"}
    OBVIOUS
  <2>2. /\ LogTyped /\ SightsHold /\ seen[b].report \in {0} \cup Times("verification")
        /\ seen[b].step = "github"
    BY <2>1, RoutingParts DEF RoutingTyped, SightsTyped, SightTyped, Derives
  <2>3. v <= seen[b].report
    BY <2>1, <2>2 DEF SightsHold
  <2>4. QED
    BY <2>1, <2>2, <2>3, UnattendedMissesNone
<1>2. RoutingInv /\ [Next]_vars => [\A b \in Viewer : Hidden(b)]_vars
  BY <1>1
<1>3. QED
  BY <1>2, RoutingInvariance, PTL DEF Spec, UnattendedHidesNoReport

=============================================================================
