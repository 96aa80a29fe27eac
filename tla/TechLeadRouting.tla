--------------------------- MODULE TechLeadRouting ---------------------------
(***************************************************************************)
(* How the TechLead decides where a slice stands and what to assign next.  *)
(* Nothing stores the stage: workflow.py derives it, at each call, from    *)
(* the packets that still wait on the queues, the comments on the issue    *)
(* and the pull request, the last QA report and GitHub's state, which it   *)
(* reads one after the other.  assignment_context.py turns the stage into  *)
(* the next assignment, which assignment.py sends before it closes the     *)
(* packet it answers; lineage.py shows the stage and whether automation    *)
(* may go on unattended; decision.py sends the decision that the stage     *)
(* calls for.  Roles and operators act on the same queues in the meantime. *)
(***************************************************************************)
EXTENDS Naturals, Sequences, SequencesExt, FiniteSetsExt

CONSTANTS
  Operator,     \* the commands that emit assignments at the same time
  Viewer,       \* the commands that derive the stage to show it or to decide
  Histories,    \* what may have happened on the slice before the model starts
  MaxFacts,     \* bound: packets and comments of the slice
  MaxFailures   \* bound: failed sends and commands that die

Roles == {"Dev", "QA", "Delivery Architect"}
Queues == Roles \cup {"TechLead"}
Comments == {"handoff", "update", "rejection"}
Verdicts == {"pass", "needs_human_review", "fail"}
WorkResults == {"implemented_ready_for_qa", "blocked"}
Reviews == {"ready_for_dev", "narrow_scope"}
Stages == {"techlead_decision_recorded", "techlead_assignment_issued", "techlead_qa_review_pending",
           "techlead_delivery_review_pending", "techlead_dev_review_pending", "ready_for_acceptance",
           "qa_pending", "dev_reset_required", "dev_rework_required", "architect_authorized",
           "dev_in_progress", "proof_only_closed"}

(* A fact is a packet or a comment; its place in the log is its time and,  *)
(* for a packet, its message id.  An assignment names its target role and  *)
(* the packet it answers; a decision its target role.                      *)
Fact(kind, says, source) == [kind |-> kind, says |-> says, source |-> source]
Facts(N) ==
  [kind : Comments, says : {"-"}, source : {0}]
    \cup [kind : {"qa_review"}, says : Verdicts, source : {0}]
    \cup [kind : {"worker_result", "slice_result"}, says : WorkResults, source : {0}]
    \cup [kind : {"delivery_review"}, says : Reviews, source : {0}]
    \cup [kind : {"verification"}, says : Verdicts, source : {0}]
    \cup [kind : {"assignment", "decision"}, says : Roles, source : N]

ASSUME RoutingAssumption ==
  /\ MaxFacts \in Nat /\ MaxFailures \in Nat
  /\ \A h \in Histories : h \in Seq(Facts(0 .. MaxFacts)) /\ Len(h) <= MaxFacts

(* The model starts where no packet waits and nothing has been decided: a  *)
(* result in the history has been answered.                                *)
ASSUME SettledHistories ==
  \A h \in Histories : \A p \in DOMAIN h :
    /\ h[p].kind # "decision"
    /\ h[p].kind \in {"worker_result", "slice_result", "delivery_review"} =>
         \E a \in DOMAIN h : h[a].kind = "assignment" /\ h[a].source = p

VARIABLES
  log,       \* the packets and comments of the slice, in order of time
  queue,     \* the messages of each role's queue; 0 is a packet of another slice
  held,      \* TechLead-queue packets under an open claim
  working,   \* assignments that a role has claimed
  pr, issue, \* GitHub
  closed,    \* the newest closed decision in the reports directory
  pc, job,   \* the step of each command and what it is sending
  seen,      \* the step of each derivation and what it has read
  failures   \* number of things that went wrong so far

vars == <<log, queue, held, working, pr, issue, closed, pc, job, seen, failures>>
github == <<pr, issue>>
emissions == <<pc, job, failures>>
commands == <<pc, job, seen, failures>>

NoJob == [role |-> "Dev", source |-> 0, from |-> "TechLead", got |-> 0]
(* What a derivation holds: the newest packet that waited for the slice,   *)
(* the queues that held a packet and the newest report there was when it   *)
(* read them; the decision and the report it read later.                   *)
Nothing == [step |-> "idle", newest |-> 0, busy |-> {}, began |-> 0, closed |-> "none", report |-> 0]

Init ==
  /\ log \in Histories
  /\ \E foreign \in SUBSET {"TechLead", "Dev"} :
       queue = [q \in Queues |-> IF q \in foreign THEN <<0>> ELSE <<>>]
  /\ held = {} /\ working \in SUBSET {a \in DOMAIN log : log[a].kind = "assignment"}
  /\ pr \in {"none", "OPEN"} /\ issue = "OPEN"
  /\ (\E i \in DOMAIN log : log[i].kind # "handoff") => pr = "OPEN"
  /\ closed = "none"
  /\ pc = [o \in Operator |-> "idle"]
  /\ job = [o \in Operator |-> NoJob]
  /\ seen = [b \in Viewer |-> Nothing]
  /\ failures = 0

-----------------------------------------------------------------------------
(* What the derivation reads *)

Newest(S) == IF S = {} THEN 0 ELSE Max(S)
Times(kind) == {i \in DOMAIN log : log[i].kind = kind}
LatestOf(kind) == Newest(Times(kind))
Waiting == (UNION {ToSet(queue[q]) : q \in Queues}) \ {0}
WaitingFor(kind) == Newest(Waiting \cap Times(kind))

Busy == {q \in Queues : queue[q] # <<>>}
Open == pr = "OPEN" /\ issue = "OPEN"

(* All of it read in the state at hand. *)
Now == [newest |-> Newest(Waiting), busy |-> Busy, closed |-> closed, report |-> LatestOf("verification")]

(* A newer handoff or update supersedes the QA report v; otherwise a newer *)
(* rejection by the Architect answers it.                                  *)
SupersededReport(v) == v # 0 /\ (LatestOf("handoff") > v \/ LatestOf("update") > v)
RejectedReport(v) == v # 0 /\ LatestOf("rejection") > v /\ ~SupersededReport(v)

(* The rework that answered a rejection failed too: the newest QA review   *)
(* comment, not the report, came after the update and asks for a human.    *)
FailedRework ==
  /\ \E r \in Times("rejection") : r < LatestOf("update")
  /\ LatestOf("qa_review") > LatestOf("update")
  /\ log[LatestOf("qa_review")].says = "needs_human_review"

-----------------------------------------------------------------------------
(* derive_workflow: stage and owner *)

(* A decision leaves the slice with the TechLead, an assignment with its   *)
(* target; every result waits for the TechLead's review of its kind.       *)
IssuedStage(p) ==
  IF log[p].kind = "decision" THEN <<"techlead_decision_recorded", "TechLead">>
  ELSE <<"techlead_assignment_issued", log[p].says>>

ReviewStage(p) ==
  CASE log[p].kind = "verification"    -> "techlead_qa_review_pending"
    [] log[p].kind = "delivery_review" -> "techlead_delivery_review_pending"
    [] OTHER                           -> "techlead_dev_review_pending"

(* The newest waiting packet of the slice decides the stage by its kind.   *)
PacketStage(p) ==
  IF log[p].kind \in {"decision", "assignment"} THEN IssuedStage(p)
  ELSE <<ReviewStage(p), "TechLead">>

(* Mutant: a failed rework is looked at before the rejection. *)
ReportStageResetFirst(v) ==
  IF SupersededReport(v) THEN <<"qa_pending", "QA">>
  ELSE IF FailedRework THEN <<"dev_reset_required", "Dev">>
  ELSE IF RejectedReport(v) THEN <<"dev_rework_required", "Dev">>
  ELSE <<"techlead_qa_review_pending", "TechLead">>

(* A report no packet waits for any more still counts while the slice is   *)
(* open: superseded, rejected by the Architect, or waiting for a decision. *)
ReportStage(v) ==
  IF SupersededReport(v) THEN <<"qa_pending", "QA">>
  ELSE IF RejectedReport(v)
    THEN <<IF FailedRework THEN "dev_reset_required" ELSE "dev_rework_required", "Dev">>
  ELSE <<"techlead_qa_review_pending", "TechLead">>

ReportDecides(v) ==
  /\ Open /\ v # 0
  /\ SupersededReport(v) \/ RejectedReport(v) \/ log[v].says \in {"pass", "needs_human_review"}

QuietStage(busy) == <<IF "Dev" \in busy THEN "architect_authorized" ELSE "dev_in_progress", "Dev">>

(* Mutant: a busy Dev queue is looked at before the report. *)
DeriveWorkflowDevFirst(read) ==
  IF read.newest # 0 THEN PacketStage(read.newest)
  ELSE IF "TechLead" \in read.busy THEN <<"ready_for_acceptance", "Architect">>
  ELSE IF "Dev" \in read.busy \/ ~ReportDecides(read.report) THEN QuietStage(read.busy)
  ELSE ReportStage(read.report)

DeriveWorkflow(read) ==
  IF read.newest # 0 THEN PacketStage(read.newest)
  ELSE IF "TechLead" \in read.busy THEN <<"ready_for_acceptance", "Architect">>
  ELSE IF ReportDecides(read.report) THEN ReportStage(read.report)
  ELSE QuietStage(read.busy)

Derived == DeriveWorkflow(Now)[1]

(* apply_terminal_lineage_override: a closed decision rules once every     *)
(* queue is empty, whatever else is open.                                  *)
Overridden(read) ==
  /\ read.busy = {}
  /\ read.closed = "proof_only" \/ (read.closed = "live" /\ pr = "MERGED" /\ issue = "CLOSED")

Stage(read) ==
  IF ~Overridden(read) THEN DeriveWorkflow(read)[1]
  ELSE IF read.closed = "proof_only" THEN "proof_only_closed" ELSE "techlead_decision_recorded"

UnattendedSafe(read) ==
  Overridden(read) \/ DeriveWorkflow(read)[1] \in {"architect_authorized", "dev_in_progress"}

-----------------------------------------------------------------------------
(* The decision services *)

(* TechLeadAcceptanceDecision: the report, not the packet, says the result. *)
AcceptanceAllowed ==
  Derived = "techlead_qa_review_pending" /\ log[LatestOf("verification")].says = "pass"

(* TechLeadResetRecoveryDecision. *)
ResetSupported(stage) == stage = "dev_reset_required"

(* TechLeadAssignmentDecision: a worker result goes before a slice result, *)
(* and either goes to QA; its result type is not looked at.                *)
ReviewedWork ==
  LET result == IF WaitingFor("worker_result") # 0 THEN WaitingFor("worker_result")
                                                   ELSE WaitingFor("slice_result")
  IN {[role |-> "QA", source |-> result, from |-> "TechLead", got |-> 0]}

(* TechLeadDeliveryReviewDecision: only a slice that is ready for Dev.  The *)
(* queue to close the review on is read from the path of the assignment    *)
(* that the review answers, and that one waited on the Architect's.        *)
ReviewedDelivery ==
  LET review == WaitingFor("delivery_review")
  IN IF log[review].says # "ready_for_dev" THEN {}
     ELSE {[role |-> "Dev", source |-> review, from |-> "Delivery Architect", got |-> 0]}

(* derive_next_assignment_context without a target role: what to send and  *)
(* the packet it answers.                                                  *)
NextAssignments ==
  IF pr = "none" THEN {}
  ELSE IF Derived = "techlead_dev_review_pending" THEN ReviewedWork
  ELSE IF Derived = "techlead_delivery_review_pending" THEN ReviewedDelivery
  ELSE {}

(* With an explicit target: no source, any stage. *)
ExplicitAssignments ==
  IF pr = "none" THEN {}
  ELSE {[role |-> r, source |-> 0, from |-> "TechLead", got |-> 0] : r \in {"Dev", "Delivery Architect"}}

-----------------------------------------------------------------------------
(* techlead emit-next-assignment (assignment.py) *)

Room == Len(log) < MaxFacts
MayFail == failures < MaxFailures
Goto(o, label) == pc' = [pc EXCEPT ![o] = label]
Finish(o) == Goto(o, "idle") /\ job' = [job EXCEPT ![o] = NoJob]
Push(q, p) == queue' = [queue EXCEPT ![q] = Append(@, p)]
Post(fact) == log' = Append(log, fact)

Begin(o) ==
  /\ pc[o] = "idle" /\ Room
  /\ \E j \in NextAssignments \cup ExplicitAssignments :
       job' = [job EXCEPT ![o] = j]
  /\ Goto(o, "send")
  /\ UNCHANGED <<log, queue, held, working, github, closed, seen, failures>>

(* The packet is sent; one without a source has nothing to close. *)
Send(o) ==
  LET j == job[o] IN
  /\ pc[o] = "send" /\ Room
  /\ Post(Fact("assignment", j.role, j.source))
  /\ Push(j.role, Len(log) + 1)
  /\ IF j.source = 0 THEN Finish(o) ELSE Goto(o, "close") /\ UNCHANGED job
  /\ UNCHANGED <<held, working, github, closed, seen, failures>>

SendFails(o) ==
  /\ pc[o] = "send" /\ MayFail
  /\ failures' = failures + 1
  /\ Finish(o)
  /\ UNCHANGED <<log, queue, held, working, github, closed, seen>>

(* acknowledge_source_assignment: an open claim on the source is           *)
(* acknowledged; else the head of the queue is claimed.  claim_next gets   *)
(* it off the queue first and writes the claim file then: a command that   *)
(* dies in between takes the packet with it.                               *)
CloseClaimed(o) ==
  /\ pc[o] = "close"
  /\ job[o].from = "TechLead" /\ job[o].source \in held
  /\ held' = held \ {job[o].source}
  /\ Finish(o)
  /\ UNCHANGED <<log, queue, working, github, closed, seen, failures>>

GetHead(o) ==
  LET q == job[o].from IN
  /\ pc[o] = "close"
  /\ ~(q = "TechLead" /\ job[o].source \in held)
  /\ IF queue[q] = <<>>
       THEN Finish(o) /\ UNCHANGED queue
       ELSE /\ queue' = [queue EXCEPT ![q] = Tail(@)]
            /\ job' = [job EXCEPT ![o].got = Head(queue[q])]
            /\ Goto(o, "claim")
  /\ UNCHANGED <<log, held, working, github, closed, seen, failures>>

Claim(o) ==
  /\ pc[o] = "claim"
  /\ held' = held \cup {job[o].got}
  /\ Goto(o, "compare")
  /\ UNCHANGED <<log, queue, working, github, closed, job, seen, failures>>

(* Mutant: the claimed packet is acknowledged without a comparison. *)
CompareSkipped(o) ==
  /\ pc[o] = "compare"
  /\ held' = held \ {job[o].got}
  /\ Finish(o)
  /\ UNCHANGED <<log, queue, working, github, closed, seen, failures>>

(* The source is acknowledged; any other packet goes back to the end of    *)
(* its queue and the command fails, its assignment sent.                   *)
Compare(o) ==
  LET j == job[o] IN
  /\ pc[o] = "compare"
  /\ held' = held \ {j.got}
  /\ IF j.got = j.source THEN UNCHANGED queue ELSE Push(j.from, j.got)
  /\ Finish(o)
  /\ UNCHANGED <<log, working, github, closed, seen, failures>>

(* The broker does not route the packet that goes back; the claim is marked*)
(* requeued all the same.                                                  *)
RequeueUnrouted(o) ==
  /\ pc[o] = "compare" /\ job[o].got # job[o].source /\ MayFail
  /\ failures' = failures + 1
  /\ held' = held \ {job[o].got}
  /\ Finish(o)
  /\ UNCHANGED <<log, queue, working, github, closed, seen>>

Dies(o) ==
  /\ pc[o] # "idle" /\ MayFail
  /\ failures' = failures + 1
  /\ Finish(o)
  /\ UNCHANGED <<log, queue, held, working, github, closed, seen>>

-----------------------------------------------------------------------------
(* The derivation as a command of its own (lineage.py): the queues first,  *)
(* then the local decision, then the QA report, GitHub's state last.  A    *)
(* packet that waits or a busy TechLead queue settles its answer (never    *)
(* unattended, never a reset), whatever it reads next: such a derivation   *)
(* only shows the stage and takes no step here.                            *)

Sees(b, read) == seen' = [seen EXCEPT ![b] = read]
OnlySees == UNCHANGED <<log, queue, held, working, github, closed, emissions>>

LooksAtQueues(b) ==
  /\ seen[b].step = "idle"
  /\ Waiting = {} /\ "TechLead" \notin Busy
  /\ Sees(b, [Nothing EXCEPT !.step = "decision", !.busy = Busy, !.began = LatestOf("verification")])
  /\ OnlySees

LooksAtDecision(b) ==
  /\ seen[b].step = "decision"
  /\ Sees(b, [seen[b] EXCEPT !.step = "report", !.closed = closed])
  /\ OnlySees

LooksAtReport(b) ==
  /\ seen[b].step = "report"
  /\ Sees(b, [seen[b] EXCEPT !.step = "github", !.report = LatestOf("verification")])
  /\ OnlySees

(* A stage that supports a reset is decided on; any other is shown.        *)
Derives(b) ==
  /\ seen[b].step = "github"
  /\ Sees(b, IF ResetSupported(Stage(seen[b])) THEN [Nothing EXCEPT !.step = "decide"] ELSE Nothing)
  /\ OnlySees

(* emit_decision: the reset decision goes to the Dev queue. *)
DecidesReset(b) ==
  /\ seen[b].step = "decide" /\ Room
  /\ Post(Fact("decision", "Dev", 0))
  /\ Push("Dev", Len(log) + 1)
  /\ Sees(b, Nothing)
  /\ UNCHANGED <<held, working, github, closed, emissions>>

-----------------------------------------------------------------------------
(* The roles (hosts and bridges): a role claims the head of its queue and  *)
(* returns a result to the TechLead.                                       *)

Takes(r) ==
  /\ queue[r] # <<>>
  /\ queue' = [queue EXCEPT ![r] = Tail(@)]
  /\ working' = IF Head(queue[r]) \in Times("assignment")
                  THEN working \cup {Head(queue[r])} ELSE working
  /\ UNCHANGED <<log, held, github, closed, commands>>

ResultsOf(r) ==
  CASE r = "Dev" -> {Fact(k, v, 0) : k \in {"worker_result", "slice_result"}, v \in WorkResults}
    [] r = "QA"  -> {Fact("verification", v, 0) : v \in Verdicts}
    [] OTHER     -> {Fact("delivery_review", v, 0) : v \in Reviews}

Returns(a) ==
  /\ a \in working /\ Room
  /\ \E result \in ResultsOf(log[a].says) : Post(result)
  /\ Push("TechLead", Len(log) + 1)
  /\ working' = working \ {a}
  /\ UNCHANGED <<held, github, closed, commands>>

(* QA follows a status that names it. *)
Verifies ==
  /\ Derived = "qa_pending" /\ Room
  /\ \E result \in ResultsOf("QA") : Post(result)
  /\ Push("TechLead", Len(log) + 1)
  /\ UNCHANGED <<held, working, github, closed, commands>>

(* The Architect rejects what the pull request holds; the Dev team hands work over    *)
(* and, after a rejection, posts an update.                                *)
Commented(kind) ==
  /\ Room
  /\ kind = "rejection" => pr = "OPEN"
  /\ kind = "update" => LatestOf("rejection") > LatestOf("update")
  /\ Post(Fact(kind, "-", 0))
  /\ UNCHANGED <<queue, held, working, github, closed, commands>>

(* QA posts a review comment of its own, beside its packets. *)
CommentsReview ==
  /\ Room
  /\ \E v \in Verdicts : Post(Fact("qa_review", v, 0))
  /\ UNCHANGED <<queue, held, working, github, closed, commands>>

(* The TechLead is done with a QA packet, a decision or another slice's    *)
(* packet at the head of its queue.                                        *)
Settles ==
  LET q == queue["TechLead"] IN
  /\ q # <<>>
  /\ Head(q) \in {0} \cup Times("verification")
  /\ queue' = [queue EXCEPT !["TechLead"] = Tail(@)]
  /\ UNCHANGED <<log, held, working, github, closed, commands>>

OpensPullRequest ==
  /\ pr = "none"
  /\ pr' = "OPEN"
  /\ UNCHANGED <<log, queue, held, working, issue, closed, commands>>

(* The closeout of an accepted slice, step by step. *)
Accepts ==
  /\ AcceptanceAllowed /\ pr = "OPEN"
  /\ \/ pr' = "MERGED" /\ UNCHANGED closed
     \/ closed' = "proof_only" /\ UNCHANGED pr
  /\ UNCHANGED <<log, queue, held, working, issue, commands>>

Closes ==
  /\ pr = "MERGED"
  /\ \/ issue = "OPEN" /\ issue' = "CLOSED" /\ UNCHANGED closed
     \/ issue = "CLOSED" /\ closed # "live" /\ closed' = "live" /\ UNCHANGED issue
  /\ UNCHANGED <<log, queue, held, working, pr, commands>>

-----------------------------------------------------------------------------
Emits(o) ==
  \/ Begin(o) \/ Send(o) \/ SendFails(o) \/ CloseClaimed(o) \/ GetHead(o) \/ Claim(o)
  \/ Compare(o) \/ RequeueUnrouted(o) \/ Dies(o)

Views(b) == LooksAtQueues(b) \/ LooksAtDecision(b) \/ LooksAtReport(b) \/ Derives(b) \/ DecidesReset(b)

Team ==
  \/ \E r \in Roles : Takes(r)
  \/ \E a \in working : Returns(a)
  \/ Verifies \/ CommentsReview \/ Settles \/ OpensPullRequest \/ Accepts \/ Closes
  \/ \E kind \in Comments : Commented(kind)

Next == Team \/ (\E o \in Operator : Emits(o)) \/ (\E b \in Viewer : Views(b))

Spec == Init /\ [][Next]_vars

-----------------------------------------------------------------------------
Steps == {"idle", "decision", "report", "github", "decide"}
Labels == {"idle", "send", "close", "claim", "compare"}
Decisions == {"none", "proof_only", "live"}

(* Every variable keeps to its type (workflow.py, assignment.py). *)
RoutingTypeOK ==
  /\ log \in Seq(Facts(0 .. MaxFacts)) /\ Len(log) <= MaxFacts
  /\ \A q \in Queues : ToSet(queue[q]) \subseteq 0 .. Len(log)
  /\ held \subseteq 0 .. Len(log) /\ working \subseteq Times("assignment")
  /\ pr \in {"none", "OPEN", "MERGED"} /\ issue \in {"OPEN", "CLOSED"}
  /\ closed \in Decisions
  /\ \A o \in Operator : pc[o] \in Labels /\ job[o].source \in 0 .. Len(log)
  /\ \A b \in Viewer : seen[b].step \in Steps /\ seen[b].report \in {0} \cup Times("verification")
  /\ failures \in 0 .. MaxFailures
  /\ \A b \in Viewer : Stage(seen[b]) \in Stages

Results == Times("worker_result") \cup Times("slice_result") \cup Times("delivery_review")
Answered(p) == \E a \in Times("assignment") : log[a].source = p

InHand(p) == \E o \in Operator : pc[o] = "claim" /\ job[o].got = p
Kept(p) == p \in Waiting \cup held \/ InHand(p) \/ Answered(p)

LossStep(p) == \E o \in Operator : job[o].got = p /\ ((pc[o] = "claim" /\ Dies(o)) \/ RequeueUnrouted(o))

(* A work result or a delivery review that waits, is under a claim, in a   *)
(* command's hand or answered by a sent assignment stays one of these:     *)
(* assignment.py closes a packet only after it has sent the assignment that*)
(* answers it, and closes no other.  The two steps that lose one are a     *)
(* command that dies between getting a packet off its queue and writing    *)
(* the claim file, and a requeue that the broker does not route.           *)
ResultsLostOnlyByLossSteps ==
  [][\A p \in Results : Kept(p) => Kept(p)' \/ LossStep(p)]_vars

(* The slice was rejected, updated, escalated by a QA review comment,      *)
(* verified after the update and rejected again before time n.             *)
ReworkFailedBefore(n) ==
  \E r1, u, c, v, r2 \in 1 .. n - 1 :
    /\ r1 < u /\ u < c /\ u < v /\ v < r2
    /\ log[r1].kind = "rejection" /\ log[u].kind = "update"
    /\ log[c].kind = "qa_review" /\ log[c].says = "needs_human_review"
    /\ log[v].kind = "verification" /\ log[r2].kind = "rejection"

(* A reset decision, which throws the Dev's branch away, is sent only for a*)
(* slice whose rework of a first rejection failed: QA's review comment     *)
(* asked for a human and the Architect rejected again after QA's report    *)
(* (workflow.py, decision.py), however much the team writes between the    *)
(* reads of one derivation and before the decision goes out.               *)
ResetFollowsRepeatedFailure ==
  \A d \in Times("decision") : ReworkFailedBefore(d)

AwaitsTechLead(v) ==
  \/ log[v].says \in {"pass", "needs_human_review"}
  \/ \E t \in Times("rejection") : t > v

(* A derivation that ends with unattended_safe, other than by the override *)
(* of a closed local decision (workflow.py:756), which looks at no report, *)
(* leaves no report of an open slice without an answer: each one that was  *)
(* there when it began to read, and that passed, was escalated by QA or    *)
(* rejected by the Architect, has a newer report, handoff or update.       *)
(* Packets under a claim are on no queue and hide from it.                 *)
UnattendedHidesNoReport ==
  [][\A b \in Viewer :
       Derives(b) /\ Open /\ UnattendedSafe(seen[b]) /\ ~Overridden(seen[b]) =>
         \A v \in Times("verification") :
           v <= seen[b].began /\ AwaitsTechLead(v) =>
             \E i \in DOMAIN log : i > v /\ log[i].kind \in {"verification", "handoff", "update"}]_vars

-----------------------------------------------------------------------------
(* The inductive invariant behind them: a role's queue and a command that  *)
(* closes on one never hold a result; a command closes only a source that  *)
(* its assignment has answered; a derivation has read a report at least as *)
(* new as its start, and decides on a reset only after a failed rework.    *)

Jobs(n) == [role : Roles, source : 0 .. n, from : {"TechLead", "Delivery Architect"}, got : 0 .. n]
Sights(n) ==
  [step : Steps, newest : 0 .. n, busy : SUBSET Queues, began : 0 .. n, closed : Decisions, report : 0 .. n]

RoutingLocals ==
  /\ queue \in [Queues -> Seq(0 .. Len(log))]
  /\ pc \in [Operator -> Labels]
  /\ job \in [Operator -> Jobs(Len(log))]
  /\ seen \in [Viewer -> Sights(Len(log))]

ResultsForTechLead ==
  /\ \A r \in Roles : ToSet(queue[r]) \cap Results = {}
  /\ \A o \in Operator :
       pc[o] \in {"claim", "compare"} /\ job[o].from # "TechLead" => job[o].got \notin Results

ClosesAnswered == \A o \in Operator : pc[o] \in {"close", "claim", "compare"} => Answered(job[o].source)

SightsHold ==
  \A b \in Viewer :
    /\ seen[b].step = "github" =>
         \A v \in Times("verification") : v <= seen[b].began => v <= seen[b].report
    /\ seen[b].step = "decide" => ReworkFailedBefore(Len(log) + 1)

RoutingInv ==
  RoutingTypeOK /\ RoutingLocals /\ ResultsForTechLead /\ ClosesAnswered /\ SightsHold /\ ResetFollowsRepeatedFailure

=============================================================================
