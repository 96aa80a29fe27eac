------------------------- MODULE WorkflowLifecycle -------------------------
(***************************************************************************)
(* The workflow state of one work item: the paa.workflow_states row and    *)
(* its paa.workflow_transitions history, as the TechLead runtime moves     *)
(* them (runtime/workflow/workflow_lifecycle/default.py and the transition *)
(* adapter and run_once of runtime/hosts/techlead.py).  A flow is one      *)
(* TechLead loop: the supervisor's thread, or a loop an operator or an API *)
(* request runs beside it.  Every read and every write of the database is  *)
(* a statement, and a step, of its own: no transaction spans two of them.  *)
(***************************************************************************)
EXTENDS Naturals, Sequences, FiniteSets

CONSTANTS
  Flow,          \* TechLead loops
  Mode,          \* intake modes in use: a subset of {"claim_next", "preview"}
  Decision,      \* techlead_decision_packets of the work item
  TargetRole,    \* TargetRole[d]: the role a decision names
  Result,        \* message ids of worker results and QA verifications
  Assignment,    \* message ids of assignments
  MaxAnswers,    \* bound: results sent for one assignment
  MaxDeliveries, \* bound: times one packet is put on the TechLead queue
  MayCrash,      \* whether a loop may die between two steps
  NoMessage

ASSUME WorkflowAssumption ==
  /\ Mode \subseteq {"claim_next", "preview"}
  /\ TargetRole \in [Decision -> {"Dev", "Python Dev"}]
  /\ Decision \cap Result = {} /\ Decision \cap Assignment = {} /\ Result \cap Assignment = {}
  /\ MaxAnswers \in Nat /\ MaxDeliveries \in Nat
  /\ MayCrash \in BOOLEAN
  /\ NoMessage \notin Decision \cup Result \cup Assignment

VARIABLES
  stage,        \* workflow_states.workflow_stage
  active,       \* workflow_states.active_message_id_external
  history,      \* the workflow_transitions rows, in the order of insertion
  writes,       \* history variable: every move the state row was made to do
  cut,          \* history variable: a loop died between its two statements
  inbox,        \* packets on the TechLead queue
  delivered,    \* how often each packet was put there
  role,         \* role[a]: who assignment a was sent to, or "none"
  answers,      \* answers[r]: the assignment result r was sent for
  pc, mode, src, view, emitted, executed, lastPreview

stateVars == <<stage, active, history, writes, cut>>
queueVars == <<inbox, delivered, role, answers>>
flowVars == <<pc, mode, src, view, emitted, executed, lastPreview>>
workflowVars == <<stateVars, queueVars, flowVars>>

Source == Decision \cup Result
Role == {"Dev", "Python Dev", "QA"}

Stage ==
  {"techlead_delivery_review_pending", "worker_execution_in_progress",
   "techlead_worker_review_pending", "qa_execution_in_progress", "techlead_qa_review_pending"}

FlowPc ==
  {"idle", "handle", "evaluate", "reread", "upsert", "append", "publish",
   "record_read", "record_upsert", "record_append", "report", "dead"}

WorkflowInit ==
  /\ stage = "techlead_delivery_review_pending"
  /\ active = NoMessage
  /\ history = <<>>
  /\ writes = {}
  /\ cut = FALSE
  /\ inbox = {}
  /\ delivered = [s \in Source |-> 0]
  /\ role = [a \in Assignment |-> "none"]
  /\ answers = [r \in Result |-> NoMessage]
  /\ pc = [f \in Flow |-> "idle"]
  /\ mode = [f \in Flow |-> "none"]
  /\ src = [f \in Flow |-> NoMessage]
  /\ view = [f \in Flow |-> stage]
  /\ emitted = [f \in Flow |-> NoMessage]
  /\ executed = [f \in Flow |-> FALSE]
  /\ lastPreview = [f \in Flow |-> NoMessage]

-----------------------------------------------------------------------------
(* The transition of a returned packet: _from_stage_for_transition and     *)
(* _target_stage_for_transition of the schema the answering role sends.    *)

IsQAResult(r) == r \in Result /\ answers[r] # NoMessage /\ role[answers[r]] = "QA"

FromStage(r) == IF IsQAResult(r) THEN "qa_execution_in_progress" ELSE "worker_execution_in_progress"

(* Mutant: a QA verification has no target stage. *)
ReviewStageUnset(r) == IF IsQAResult(r) THEN "none" ELSE "techlead_worker_review_pending"

ReviewStage(r) == IF IsQAResult(r) THEN "techlead_qa_review_pending" ELSE "techlead_worker_review_pending"

(* Mutant: the two stages are swapped. *)
AssignedStageSwapped(r) == IF r = "Dev" THEN "qa_execution_in_progress" ELSE "worker_execution_in_progress"

(* record_assignment_emitted: any role but Dev counts as QA. *)
AssignedStage(r) == IF r = "Dev" THEN "worker_execution_in_progress" ELSE "qa_execution_in_progress"

Transition(from, to, source) == [from |-> from, to |-> to, source |-> source]

WriteState(to, message, source) ==
  /\ stage' = to
  /\ active' = message
  /\ writes' = writes \cup {[to |-> to, source |-> source]}
  /\ UNCHANGED <<history, cut>>

AppendHistory(from, to, source) ==
  /\ history' = Append(history, Transition(from, to, source))
  /\ UNCHANGED <<stage, active, writes, cut>>

Goto(f, label) == pc' = [pc EXCEPT ![f] = label]

-----------------------------------------------------------------------------
(* The rest of the system: decisions are sent, assignments are answered,   *)
(* and a packet already sent may be sent again under the same message id.  *)

Deliver(s) ==
  /\ s \notin inbox
  /\ delivered[s] < MaxDeliveries
  /\ inbox' = inbox \cup {s}
  /\ delivered' = [delivered EXCEPT ![s] = @ + 1]

SendDecision(d) == Deliver(d) /\ UNCHANGED <<stateVars, role, answers, flowVars>>

Answer(a, r) ==
  /\ role[a] # "none"
  /\ answers[r] = NoMessage
  /\ Cardinality({x \in Result : answers[x] = a}) < MaxAnswers
  /\ Deliver(r)
  /\ answers' = [answers EXCEPT ![r] = a]
  /\ UNCHANGED <<stateVars, role, flowVars>>

Resend(r) ==
  /\ answers[r] # NoMessage
  /\ Deliver(r)
  /\ UNCHANGED <<stateVars, role, answers, flowVars>>

-----------------------------------------------------------------------------
(* run_once. *)

(* Intake: claim_next removes the packet from the queue, preview does not. *)
Take(f, m, s) ==
  /\ pc[f] = "idle"
  /\ s \in inbox
  /\ inbox' = IF m = "claim_next" THEN inbox \ {s} ELSE inbox
  /\ Goto(f, "handle")
  /\ mode' = [mode EXCEPT ![f] = m]
  /\ src' = [src EXCEPT ![f] = s]
  /\ UNCHANGED <<stateVars, delivered, role, answers, view, emitted, executed, lastPreview>>

MayEmit(f) == mode[f] = "claim_next"

(* The packet is resolved and handled; a returned result goes on to the    *)
(* workflow transition whatever the intake mode is.                        *)
Handle(f) ==
  /\ pc[f] = "handle"
  /\ executed' = [executed EXCEPT ![f] = TRUE]
  /\ \/ Goto(f, "report")
     \/ src[f] \in Result /\ Goto(f, "evaluate")
     \/ src[f] \in Decision /\ MayEmit(f) /\ Goto(f, "publish")
  /\ UNCHANGED <<stateVars, queueVars, mode, src, view, emitted, lastPreview>>

(* Mutant: the current stage is not compared. *)
EvaluateUnchecked(f) ==
  /\ pc[f] = "evaluate"
  /\ Goto(f, "reread")
  /\ UNCHANGED <<stateVars, queueVars, mode, src, view, emitted, executed, lastPreview>>

(* evaluate_transition blocks when the current stage is not the from-stage. *)
Evaluate(f) ==
  /\ pc[f] = "evaluate"
  /\ Goto(f, IF stage = FromStage(src[f]) THEN "reread" ELSE "report")
  /\ UNCHANGED <<stateVars, queueVars, mode, src, view, emitted, executed, lastPreview>>

(* apply_workflow_transition reads the state again and does not look at it. *)
Reread(f) ==
  /\ pc[f] = "reread"
  /\ view' = [view EXCEPT ![f] = stage]
  /\ Goto(f, "upsert")
  /\ UNCHANGED <<stateVars, queueVars, mode, src, emitted, executed, lastPreview>>

(* Mutant: the transition row is written first, the state row after it. *)
UpsertLate(f) ==
  /\ pc[f] = "upsert"
  /\ AppendHistory(view[f], ReviewStage(src[f]), src[f])
  /\ Goto(f, "append")
  /\ UNCHANGED <<queueVars, mode, src, view, emitted, executed, lastPreview>>

Upsert(f) ==
  /\ pc[f] = "upsert"
  /\ WriteState(ReviewStage(src[f]), src[f], src[f])
  /\ Goto(f, "append")
  /\ UNCHANGED <<queueVars, mode, src, view, emitted, executed, lastPreview>>

(* A QA verification never leads to an assignment, a worker result may.    *)
AppendTransition(f) ==
  /\ pc[f] = "append"
  /\ AppendHistory(view[f], ReviewStage(src[f]), src[f])
  /\ \/ Goto(f, "report")
     \/ MayEmit(f) /\ ~IsQAResult(src[f]) /\ Goto(f, "publish")
  /\ UNCHANGED <<queueVars, mode, src, view, emitted, executed, lastPreview>>

(* publish_next_assignment: a worker result leads to QA, a decision to the *)
(* role it names.                                                          *)
PublishAssignment(f, a) ==
  /\ pc[f] = "publish"
  /\ role[a] = "none"
  /\ role' = [role EXCEPT ![a] = IF src[f] \in Decision THEN TargetRole[src[f]] ELSE "QA"]
  /\ emitted' = [emitted EXCEPT ![f] = a]
  /\ Goto(f, "record_read")
  /\ UNCHANGED <<stateVars, inbox, delivered, answers, mode, src, view, executed, lastPreview>>

PublishFails(f) ==
  /\ pc[f] = "publish"
  /\ Goto(f, "report")
  /\ UNCHANGED <<stateVars, queueVars, mode, src, view, emitted, executed, lastPreview>>

(* record_assignment_emitted: read, upsert, append. *)
RecordRead(f) ==
  /\ pc[f] = "record_read"
  /\ view' = [view EXCEPT ![f] = stage]
  /\ Goto(f, "record_upsert")
  /\ UNCHANGED <<stateVars, queueVars, mode, src, emitted, executed, lastPreview>>

RecordUpsert(f) ==
  /\ pc[f] = "record_upsert"
  /\ WriteState(AssignedStage(role[emitted[f]]), emitted[f], src[f])
  /\ Goto(f, "record_append")
  /\ UNCHANGED <<queueVars, mode, src, view, emitted, executed, lastPreview>>

(* Mutant: the from-stage is the one a worker result is reviewed in. *)
RecordAppendAssumed(f) ==
  /\ pc[f] = "record_append"
  /\ AppendHistory("techlead_worker_review_pending", AssignedStage(role[emitted[f]]), src[f])
  /\ Goto(f, "report")
  /\ UNCHANGED <<queueVars, mode, src, view, emitted, executed, lastPreview>>

RecordAppend(f) ==
  /\ pc[f] = "record_append"
  /\ AppendHistory(view[f], AssignedStage(role[emitted[f]]), src[f])
  /\ Goto(f, "report")
  /\ UNCHANGED <<queueVars, mode, src, view, emitted, executed, lastPreview>>

EndRun(f, label) ==
  /\ Goto(f, label)
  /\ mode' = [mode EXCEPT ![f] = "none"]
  /\ src' = [src EXCEPT ![f] = NoMessage]
  /\ emitted' = [emitted EXCEPT ![f] = NoMessage]
  /\ executed' = [executed EXCEPT ![f] = FALSE]

(* run_loop labels a preview of the same head duplicate_preview_head, after *)
(* run_once has returned.                                                   *)
IsDuplicatePreview(f) == mode[f] = "preview" /\ src[f] = lastPreview[f]

Report(f) ==
  /\ pc[f] = "report"
  /\ lastPreview' = [lastPreview EXCEPT ![f] = src[f]]
  /\ EndRun(f, "idle")
  /\ UNCHANGED <<stateVars, queueVars, view>>

(* The loop dies in the middle; a restarted one remembers nothing. *)
LoopDies(f) ==
  /\ MayCrash
  /\ pc[f] \notin {"idle", "dead"}
  /\ EndRun(f, "dead")
  /\ cut' = (cut \/ pc[f] \in {"append", "record_append"})
  /\ UNCHANGED <<stage, active, history, writes, queueVars, view, lastPreview>>

LoopStarts(f) ==
  /\ pc[f] = "dead"
  /\ Goto(f, "idle")
  /\ lastPreview' = [lastPreview EXCEPT ![f] = NoMessage]
  /\ UNCHANGED <<stateVars, queueVars, mode, src, view, emitted, executed>>

FlowStep(f) ==
  \/ \E m \in Mode, s \in Source : Take(f, m, s)
  \/ Handle(f) \/ Evaluate(f) \/ Reread(f) \/ Upsert(f) \/ AppendTransition(f)
  \/ \E a \in Assignment : PublishAssignment(f, a)
  \/ PublishFails(f) \/ RecordRead(f) \/ RecordUpsert(f) \/ RecordAppend(f)
  \/ Report(f) \/ LoopDies(f) \/ LoopStarts(f)

WorkflowNext ==
  \/ \E d \in Decision : SendDecision(d)
  \/ \E a \in Assignment, r \in Result : Answer(a, r)
  \/ \E r \in Result : Resend(r)
  \/ \E f \in Flow : FlowStep(f)

WorkflowSpec == WorkflowInit /\ [][WorkflowNext]_workflowVars

-----------------------------------------------------------------------------
(* Type invariant of the workflow state and of the loops' locals. *)
WorkflowTypeOK ==
  /\ stage \in Stage
  /\ active \in Result \cup Assignment \cup {NoMessage}
  /\ history \in Seq([from : Stage, to : Stage, source : Source])
  /\ writes \subseteq [to : Stage, source : Source]
  /\ cut \in BOOLEAN
  /\ inbox \subseteq Source
  /\ delivered \in [Source -> 0..MaxDeliveries]
  /\ role \in [Assignment -> Role \cup {"none"}]
  /\ answers \in [Result -> Assignment \cup {NoMessage}]
  /\ pc \in [Flow -> FlowPc]
  /\ mode \in [Flow -> Mode \cup {"none"}]
  /\ src \in [Flow -> Source \cup {NoMessage}]
  /\ view \in [Flow -> Stage]
  /\ emitted \in [Flow -> Assignment \cup {NoMessage}]
  /\ executed \in [Flow -> BOOLEAN]
  /\ lastPreview \in [Flow -> Source \cup {NoMessage}]

(* Illegal transitions must fail closed: a returned result moves the state *)
(* only out of the stage its transition starts from.  The check and the    *)
(* write are three statements apart.                                       *)
IllegalTransitionsFailClosed ==
  [][\A f \in Flow : pc[f] = "upsert" /\ pc'[f] = "append" => stage = FromStage(src[f])]_workflowVars

(* A row of the transition history stands for a move the state row really  *)
(* made, even if a loop dies between the two statements.                   *)
HistoryNeverInvents ==
  \A i \in 1..Len(history) : [to |-> history[i].to, source |-> history[i].source] \in writes

(* With one loop the history is the path the state took, each row starting *)
(* where the one before it ended and the last one ending where the state is *)
(* between two packets.  Only a death between the two statements of a       *)
(* transition breaks it: no other crash and no duplicate delivery does.     *)
HistoryTracksState ==
  ~cut =>
    /\ \A i \in 2..Len(history) : history[i].from = history[i - 1].to
    /\ (\A f \in Flow : pc[f] \in {"idle", "dead"}) /\ history # <<>>
         => history[Len(history)].to = stage

(* A result that answers the active assignment, and that the worker service *)
(* accepted, is not turned away by the stage check.                         *)
ActiveAssignmentsResultAccepted ==
  [][\A f \in Flow :
       pc[f] = "evaluate" /\ pc'[f] = "report" => answers[src[f]] # active]_workflowVars

-----------------------------------------------------------------------------
(* The inductive invariants behind the properties above.  The first one    *)
(* holds of any number of loops.                                           *)

(* Only an answered result is ever on the queue, and only an assignment     *)
(* that was sent is answered.                                               *)
QueueInv ==
  /\ \A r \in Result : r \in inbox => answers[r] # NoMessage
  /\ \A r \in Result : answers[r] # NoMessage => role[answers[r]] # "none"

(* The row that names an assignment as active is in that assignment's stage. *)
ActiveInv == active \in Assignment => role[active] # "none" /\ stage = AssignedStage(role[active])

Move(to, source) == [to |-> to, source |-> source]

(* What a loop holds in its locals at each of its steps. *)
FlowInv(f) ==
  /\ pc[f] \notin {"idle", "dead"} => src[f] \in Source
  /\ src[f] \in Result => answers[src[f]] # NoMessage
  /\ pc[f] \in {"evaluate", "reread", "upsert", "append"} => src[f] \in Result
  /\ pc[f] \in {"record_read", "record_upsert", "record_append"} =>
       emitted[f] \in Assignment /\ role[emitted[f]] # "none"
  /\ pc[f] = "append" => Move(ReviewStage(src[f]), src[f]) \in writes
  /\ pc[f] = "record_append" => Move(AssignedStage(role[emitted[f]]), src[f]) \in writes

WorkflowInv ==
  /\ WorkflowTypeOK
  /\ QueueInv
  /\ ActiveInv
  /\ HistoryNeverInvents
  /\ \A f \in Flow : FlowInv(f)

(* What else a loop knows while it is the only one: the stage it checked is *)
(* still there, the stage it read is still there, and the history ends      *)
(* where its half-made transition starts.                                   *)
WritesPending(f) == pc[f] \in {"append", "record_append"}

HistoryLinked == \A i \in 2..Len(history) : history[i].from = history[i - 1].to

OneLoopInv(f) ==
  /\ pc[f] \in {"reread", "upsert"} => stage = FromStage(src[f])
  /\ pc[f] \in {"upsert", "record_upsert"} => view[f] = stage
  /\ pc[f] = "append" => stage = ReviewStage(src[f])
  /\ pc[f] = "record_append" => stage = AssignedStage(role[emitted[f]])
  /\ ~cut =>
       /\ HistoryLinked
       /\ history # <<>> =>
            history[Len(history)].to = IF WritesPending(f) THEN view[f] ELSE stage

=============================================================================
