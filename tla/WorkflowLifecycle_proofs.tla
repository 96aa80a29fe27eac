----------------------- MODULE WorkflowLifecycle_proofs -----------------------
(***************************************************************************)
(* Proofs about WorkflowLifecycle, for every set of loops, decisions,      *)
(* results and assignments, and for every bound.  The first part is the    *)
(* invariant of any number of loops, the second what one loop alone adds.  *)
(***************************************************************************)
EXTENDS WorkflowLifecycle, SequenceTheorems, TLAPS

-----------------------------------------------------------------------------
(* The type invariant in three parts. *)

HistoryRow == [from : Stage, to : Stage, source : Source]

StateTypeOK ==
  /\ stage \in Stage
  /\ active \in Result \cup Assignment \cup {NoMessage}
  /\ history \in Seq(HistoryRow)
  /\ writes \subseteq [to : Stage, source : Source]
  /\ cut \in BOOLEAN

QueueTypeOK ==
  /\ inbox \subseteq Source
  /\ delivered \in [Source -> 0..MaxDeliveries]
  /\ role \in [Assignment -> Role \cup {"none"}]
  /\ answers \in [Result -> Assignment \cup {NoMessage}]

FlowTypeOK ==
  /\ pc \in [Flow -> FlowPc]
  /\ mode \in [Flow -> Mode \cup {"none"}]
  /\ src \in [Flow -> Source \cup {NoMessage}]
  /\ view \in [Flow -> Stage]
  /\ emitted \in [Flow -> Assignment \cup {NoMessage}]
  /\ executed \in [Flow -> BOOLEAN]
  /\ lastPreview \in [Flow -> Source \cup {NoMessage}]

(* The three parts are the type invariant, in a state and in the next one. *)
LEMMA TypeParts ==
  /\ WorkflowTypeOK <=> StateTypeOK /\ QueueTypeOK /\ FlowTypeOK
  /\ WorkflowTypeOK' <=> StateTypeOK' /\ QueueTypeOK' /\ FlowTypeOK'
BY DEF WorkflowTypeOK, StateTypeOK, QueueTypeOK, FlowTypeOK, HistoryRow

(* The stages a transition leads to are stages. *)
LEMMA StagesTyped ==
  /\ \A r : ReviewStage(r) \in Stage
  /\ \A x : AssignedStage(x) \in Stage
  /\ \A r : FromStage(r) \in Stage
BY DEF ReviewStage, AssignedStage, FromStage, Stage

-----------------------------------------------------------------------------
(* What never changes once it is there, and why that keeps a loop's view   *)
(* of its own packet true while the others move.                           *)

Grows ==
  /\ \A a \in Assignment : role[a] # "none" => role'[a] = role[a]
  /\ \A r \in Result : answers[r] # NoMessage => answers'[r] = answers[r]
  /\ writes \subseteq writes'

LocalsKept(f) == pc'[f] = pc[f] /\ src'[f] = src[f] /\ emitted'[f] = emitted[f]

(* The transition of a result that was sent never changes. *)
LEMMA TransitionFixed ==
  ASSUME QueueTypeOK, QueueInv, Grows, NEW r \in Result, answers[r] # NoMessage
  PROVE  /\ answers'[r] = answers[r]
         /\ IsQAResult(r)' = IsQAResult(r)
         /\ ReviewStage(r)' = ReviewStage(r)
         /\ FromStage(r)' = FromStage(r)
<1>1. answers'[r] = answers[r] /\ answers[r] \in Assignment
  BY DEF Grows, QueueTypeOK
<1>2. role'[answers[r]] = role[answers[r]]
  BY <1>1 DEF Grows, QueueInv
<1>3. IsQAResult(r)' = IsQAResult(r)
  BY <1>1, <1>2 DEF IsQAResult
<1>4. QED
  BY <1>1, <1>3 DEF ReviewStage, FromStage

(* A loop that does not move keeps its part of the invariant. *)
LEMMA FlowKept ==
  ASSUME QueueTypeOK, QueueInv, Grows, NEW f \in Flow, FlowInv(f), LocalsKept(f)
  PROVE  FlowInv(f)'
<1>1. (src[f] \in Result => answers[src[f]] # NoMessage)'
  BY DEF FlowInv, LocalsKept, Grows
<1>2. ASSUME pc[f] = "append"
      PROVE  /\ src[f] \in Result
             /\ answers'[src[f]] = answers[src[f]]
             /\ role'[answers[src[f]]] = role[answers[src[f]]]
  BY <1>2 DEF FlowInv, Grows, QueueInv, QueueTypeOK
<1>3. pc[f] = "append" => (Move(ReviewStage(src[f]), src[f]) \in writes)'
  BY <1>2 DEF LocalsKept, FlowInv, Move, ReviewStage, IsQAResult, Grows
<1>4. pc[f] \in {"record_read", "record_upsert", "record_append"} =>
        emitted[f] \in Assignment /\ role'[emitted[f]] = role[emitted[f]] /\ role[emitted[f]] # "none"
  BY DEF FlowInv, Grows
<1>5. pc[f] = "record_append" => (Move(AssignedStage(role[emitted[f]]), src[f]) \in writes)'
  BY <1>4 DEF FlowInv, LocalsKept, Grows, Move, AssignedStage
<1>6. QED
  BY <1>1, <1>3, <1>4, <1>5 DEF FlowInv, LocalsKept

(* The invariant, put together after a step of f. *)
LEMMA FlowMoves ==
  ASSUME WorkflowInv, Grows, NEW f \in Flow, \A g \in Flow \ {f} : LocalsKept(g),
         WorkflowTypeOK', QueueInv', ActiveInv', HistoryNeverInvents', FlowInv(f)'
  PROVE  WorkflowInv'
<1>1. ASSUME NEW g \in Flow \ {f}
      PROVE  FlowInv(g)'
  BY <1>1, FlowKept, TypeParts DEF WorkflowInv
<1>2. \A g \in Flow : FlowInv(g)'
  BY <1>1
<1>3. QED
  BY <1>2 DEF WorkflowInv

(* A step that leaves the state rows and the queue alone. *)
LEMMA StateKept ==
  ASSUME WorkflowInv, UNCHANGED <<stage, active, history, writes, queueVars>>
  PROVE  Grows /\ QueueInv' /\ ActiveInv' /\ HistoryNeverInvents'
<1>1. Grows
  BY DEF Grows, queueVars
<1>2. QueueInv'
  BY DEF WorkflowInv, QueueInv, queueVars
<1>3. ActiveInv'
  BY DEF WorkflowInv, ActiveInv, AssignedStage, queueVars
<1>4. HistoryNeverInvents'
  BY DEF WorkflowInv, HistoryNeverInvents
<1>5. QED
  BY <1>1, <1>2, <1>3, <1>4

(* A row appended for a move that was made. *)
LEMMA HistoryGrows ==
  ASSUME StateTypeOK, HistoryNeverInvents, NEW from \in Stage, NEW to \in Stage, NEW s \in Source,
         AppendHistory(from, to, s), Move(to, s) \in writes
  PROVE  StateTypeOK' /\ HistoryNeverInvents'
<1>1. Transition(from, to, s) \in HistoryRow
  BY DEF Transition, HistoryRow
<1>2. /\ history' \in Seq(HistoryRow)
      /\ Len(history') = Len(history) + 1
      /\ \A i \in 1..Len(history) : history'[i] = history[i]
      /\ history'[Len(history) + 1] = Transition(from, to, s)
  BY <1>1, AppendProperties DEF AppendHistory, StateTypeOK
<1>3. [to |-> history'[Len(history) + 1].to, source |-> history'[Len(history) + 1].source] \in writes'
  BY <1>2 DEF Transition, Move, AppendHistory
<1>4. Len(history) \in Nat
  BY DEF StateTypeOK
<1>5. ASSUME NEW i \in 1..Len(history')
      PROVE  [to |-> history'[i].to, source |-> history'[i].source] \in writes'
  <2>1. CASE i = Len(history) + 1
    BY <1>3, <2>1
  <2>2. CASE i \in 1..Len(history)
    BY <1>2, <2>2 DEF HistoryNeverInvents, AppendHistory
  <2>3. QED
    BY <1>2, <1>4, <1>5, <2>1, <2>2
<1>6. HistoryNeverInvents'
  BY <1>5 DEF HistoryNeverInvents
<1>7. QED
  BY <1>2, <1>6 DEF StateTypeOK, AppendHistory

(* A move of the state row. *)
LEMMA StateMoves ==
  ASSUME StateTypeOK, HistoryNeverInvents, NEW to \in Stage, NEW s \in Source,
         NEW m \in Result \cup Assignment, WriteState(to, m, s)
  PROVE  StateTypeOK' /\ HistoryNeverInvents' /\ Move(to, s) \in writes' /\ writes \subseteq writes'
<1>1. Move(to, s) \in writes' /\ writes \subseteq writes'
  BY DEF WriteState, Move
<1>2. HistoryNeverInvents'
  BY <1>1 DEF HistoryNeverInvents, WriteState
<1>3. QED
  BY <1>1, <1>2 DEF StateTypeOK, WriteState

-----------------------------------------------------------------------------
(* The rest of the system. *)

(* A packet put on the queue. *)
LEMMA DeliverEffect ==
  ASSUME QueueTypeOK, NEW s \in Source, Deliver(s)
  PROVE  /\ inbox' \subseteq Source
         /\ delivered' \in [Source -> 0..MaxDeliveries]
         /\ inbox' = inbox \cup {s}
<1>1. delivered[s] \in 0..MaxDeliveries /\ delivered[s] < MaxDeliveries /\ MaxDeliveries \in Nat
  BY WorkflowAssumption DEF QueueTypeOK, Deliver
<1>2. delivered[s] + 1 \in 0..MaxDeliveries
  BY <1>1
<1>3. QED
  BY <1>2 DEF QueueTypeOK, Deliver

(* Only the queue and the answers change, and no answer is taken back. *)
LEMMA QueueMoves ==
  ASSUME WorkflowInv, UNCHANGED <<stateVars, role, flowVars>>, QueueTypeOK', QueueInv',
         \A r \in Result : answers[r] # NoMessage => answers'[r] = answers[r]
  PROVE  WorkflowInv'
<1>1. Grows
  BY DEF Grows, stateVars
<1>2. WorkflowTypeOK'
  BY TypeParts DEF WorkflowInv, StateTypeOK, QueueTypeOK, FlowTypeOK, stateVars, flowVars
<1>3. ActiveInv' /\ HistoryNeverInvents'
  BY DEF WorkflowInv, ActiveInv, HistoryNeverInvents, AssignedStage, stateVars
<1>4. ASSUME NEW g \in Flow
      PROVE  FlowInv(g)'
  BY <1>1, <1>4, FlowKept, TypeParts DEF WorkflowInv, LocalsKept, flowVars
<1>5. QED
  BY <1>2, <1>3, <1>4 DEF WorkflowInv

(* A decision is sent. *)
LEMMA SendDecisionKeeps ==
  ASSUME WorkflowInv, NEW d \in Decision, SendDecision(d)
  PROVE  WorkflowInv'
<1>1. QueueTypeOK /\ d \in Source /\ d \notin Result
  BY TypeParts, WorkflowAssumption DEF WorkflowInv, Source
<1>2. QueueTypeOK'
  BY <1>1, DeliverEffect DEF SendDecision, QueueTypeOK
<1>3. QueueInv'
  BY <1>1, DeliverEffect DEF SendDecision, WorkflowInv, QueueInv
<1>4. QED
  BY <1>2, <1>3, QueueMoves DEF SendDecision

(* An assignment is answered. *)
LEMMA AnswerKeeps ==
  ASSUME WorkflowInv, NEW a \in Assignment, NEW r \in Result, Answer(a, r)
  PROVE  WorkflowInv'
<1>1. QueueTypeOK /\ r \in Source /\ a # NoMessage
  BY TypeParts, WorkflowAssumption DEF WorkflowInv, Source
<1>2. /\ answers' = [answers EXCEPT ![r] = a]
      /\ inbox' = inbox \cup {r}
  BY <1>1, DeliverEffect DEF Answer
<1>3. QueueTypeOK'
  BY <1>1, <1>2, DeliverEffect DEF Answer, QueueTypeOK
<1>4. \A x \in Result : answers[x] # NoMessage => answers'[x] = answers[x]
  BY <1>1, <1>2 DEF Answer, QueueTypeOK
<1>5. QueueInv'
  BY <1>1, <1>2, <1>4 DEF Answer, WorkflowInv, QueueInv, QueueTypeOK
<1>6. QED
  BY <1>3, <1>4, <1>5, QueueMoves DEF Answer

(* A result is sent again. *)
LEMMA ResendKeeps ==
  ASSUME WorkflowInv, NEW r \in Result, Resend(r)
  PROVE  WorkflowInv'
<1>1. QueueTypeOK /\ r \in Source
  BY TypeParts DEF WorkflowInv, Source
<1>2. QueueTypeOK'
  BY <1>1, DeliverEffect DEF Resend, QueueTypeOK
<1>3. QueueInv'
  BY <1>1, DeliverEffect DEF Resend, WorkflowInv, QueueInv
<1>4. QED
  BY <1>2, <1>3, QueueMoves DEF Resend

-----------------------------------------------------------------------------
(* The steps of a loop. *)

(* The worker handles the packet. *)
LEMMA HandleKeeps ==
  ASSUME WorkflowInv, NEW f \in Flow, Handle(f)
  PROVE  WorkflowInv'
<1>1. StateTypeOK /\ QueueTypeOK /\ FlowTypeOK /\ FlowInv(f)
  BY TypeParts DEF WorkflowInv
<1>2. WorkflowTypeOK'
  <2>1. StateTypeOK' /\ QueueTypeOK'
    BY <1>1 DEF Handle, StateTypeOK, QueueTypeOK, stateVars, queueVars
  <2>2. FlowTypeOK'
    BY <1>1, WorkflowAssumption DEF Handle, FlowTypeOK, FlowPc, Goto
  <2>3. QED
    BY <2>1, <2>2, TypeParts
<1>3. Grows /\ QueueInv' /\ ActiveInv' /\ HistoryNeverInvents'
  BY StateKept DEF Handle, stateVars, queueVars
<1>4. \A g \in Flow \ {f} : LocalsKept(g)
  BY <1>1 DEF Handle, FlowTypeOK, LocalsKept, Goto
<1>5. FlowInv(f)'
  BY <1>1, WorkflowAssumption DEF Handle, FlowInv, FlowTypeOK, queueVars, stateVars, Goto
<1>6. QED
  BY <1>2, <1>3, <1>4, <1>5, FlowMoves

(* The stage is compared. *)
LEMMA EvaluateKeeps ==
  ASSUME WorkflowInv, NEW f \in Flow, Evaluate(f)
  PROVE  WorkflowInv'
<1>1. StateTypeOK /\ QueueTypeOK /\ FlowTypeOK /\ FlowInv(f)
  BY TypeParts DEF WorkflowInv
<1>2. WorkflowTypeOK'
  <2>1. StateTypeOK' /\ QueueTypeOK'
    BY <1>1 DEF Evaluate, StateTypeOK, QueueTypeOK, stateVars, queueVars
  <2>2. FlowTypeOK'
    BY <1>1, WorkflowAssumption DEF Evaluate, FlowTypeOK, FlowPc, Goto
  <2>3. QED
    BY <2>1, <2>2, TypeParts
<1>3. Grows /\ QueueInv' /\ ActiveInv' /\ HistoryNeverInvents'
  BY StateKept DEF Evaluate, stateVars, queueVars
<1>4. \A g \in Flow \ {f} : LocalsKept(g)
  BY <1>1 DEF Evaluate, FlowTypeOK, LocalsKept, Goto
<1>5. FlowInv(f)'
  BY <1>1, WorkflowAssumption DEF Evaluate, FlowInv, FlowTypeOK, queueVars, stateVars, Goto
<1>6. QED
  BY <1>2, <1>3, <1>4, <1>5, FlowMoves

(* The state is read a second time. *)
LEMMA RereadKeeps ==
  ASSUME WorkflowInv, NEW f \in Flow, Reread(f)
  PROVE  WorkflowInv'
<1>1. StateTypeOK /\ QueueTypeOK /\ FlowTypeOK /\ FlowInv(f)
  BY TypeParts DEF WorkflowInv
<1>2. WorkflowTypeOK'
  <2>1. StateTypeOK' /\ QueueTypeOK'
    BY <1>1 DEF Reread, StateTypeOK, QueueTypeOK, stateVars, queueVars
  <2>2. FlowTypeOK'
    BY <1>1, WorkflowAssumption DEF Reread, FlowTypeOK, FlowPc, StateTypeOK, Goto
  <2>3. QED
    BY <2>1, <2>2, TypeParts
<1>3. Grows /\ QueueInv' /\ ActiveInv' /\ HistoryNeverInvents'
  BY StateKept DEF Reread, stateVars, queueVars
<1>4. \A g \in Flow \ {f} : LocalsKept(g)
  BY <1>1 DEF Reread, FlowTypeOK, LocalsKept, Goto
<1>5. FlowInv(f)'
  BY <1>1, WorkflowAssumption DEF Reread, FlowInv, FlowTypeOK, queueVars, stateVars, Goto
<1>6. QED
  BY <1>2, <1>3, <1>4, <1>5, FlowMoves

(* An assignment is not sent. *)
LEMMA PublishFailsKeeps ==
  ASSUME WorkflowInv, NEW f \in Flow, PublishFails(f)
  PROVE  WorkflowInv'
<1>1. StateTypeOK /\ QueueTypeOK /\ FlowTypeOK /\ FlowInv(f)
  BY TypeParts DEF WorkflowInv
<1>2. WorkflowTypeOK'
  <2>1. StateTypeOK' /\ QueueTypeOK'
    BY <1>1 DEF PublishFails, StateTypeOK, QueueTypeOK, stateVars, queueVars
  <2>2. FlowTypeOK'
    BY <1>1, WorkflowAssumption DEF PublishFails, FlowTypeOK, FlowPc, Goto
  <2>3. QED
    BY <2>1, <2>2, TypeParts
<1>3. Grows /\ QueueInv' /\ ActiveInv' /\ HistoryNeverInvents'
  BY StateKept DEF PublishFails, stateVars, queueVars
<1>4. \A g \in Flow \ {f} : LocalsKept(g)
  BY <1>1 DEF PublishFails, FlowTypeOK, LocalsKept, Goto
<1>5. FlowInv(f)'
  BY <1>1, WorkflowAssumption DEF PublishFails, FlowInv, FlowTypeOK, queueVars, stateVars, Goto
<1>6. QED
  BY <1>2, <1>3, <1>4, <1>5, FlowMoves

(* The state is read before the assignment is recorded. *)
LEMMA RecordReadKeeps ==
  ASSUME WorkflowInv, NEW f \in Flow, RecordRead(f)
  PROVE  WorkflowInv'
<1>1. StateTypeOK /\ QueueTypeOK /\ FlowTypeOK /\ FlowInv(f)
  BY TypeParts DEF WorkflowInv
<1>2. WorkflowTypeOK'
  <2>1. StateTypeOK' /\ QueueTypeOK'
    BY <1>1 DEF RecordRead, StateTypeOK, QueueTypeOK, stateVars, queueVars
  <2>2. FlowTypeOK'
    BY <1>1, WorkflowAssumption DEF RecordRead, FlowTypeOK, FlowPc, StateTypeOK, Goto
  <2>3. QED
    BY <2>1, <2>2, TypeParts
<1>3. Grows /\ QueueInv' /\ ActiveInv' /\ HistoryNeverInvents'
  BY StateKept DEF RecordRead, stateVars, queueVars
<1>4. \A g \in Flow \ {f} : LocalsKept(g)
  BY <1>1 DEF RecordRead, FlowTypeOK, LocalsKept, Goto
<1>5. FlowInv(f)'
  BY <1>1, WorkflowAssumption DEF RecordRead, FlowInv, FlowTypeOK, queueVars, stateVars, Goto
<1>6. QED
  BY <1>2, <1>3, <1>4, <1>5, FlowMoves

(* The run ends and is reported. *)
LEMMA ReportKeeps ==
  ASSUME WorkflowInv, NEW f \in Flow, Report(f)
  PROVE  WorkflowInv'
<1>1. StateTypeOK /\ QueueTypeOK /\ FlowTypeOK /\ FlowInv(f)
  BY TypeParts DEF WorkflowInv
<1>2. WorkflowTypeOK'
  <2>1. StateTypeOK' /\ QueueTypeOK'
    BY <1>1 DEF Report, StateTypeOK, QueueTypeOK, stateVars, queueVars
  <2>2. FlowTypeOK'
    BY <1>1, WorkflowAssumption DEF Report, FlowTypeOK, FlowPc, Goto, EndRun, Source
  <2>3. QED
    BY <2>1, <2>2, TypeParts
<1>3. Grows /\ QueueInv' /\ ActiveInv' /\ HistoryNeverInvents'
  BY StateKept DEF Report, stateVars, queueVars
<1>4. \A g \in Flow \ {f} : LocalsKept(g)
  BY <1>1 DEF Report, FlowTypeOK, LocalsKept, Goto, EndRun, Source
<1>5. FlowInv(f)'
  BY <1>1, WorkflowAssumption DEF Report, FlowInv, FlowTypeOK, queueVars, stateVars, Goto, EndRun, Source
<1>6. QED
  BY <1>2, <1>3, <1>4, <1>5, FlowMoves

(* The loop dies. *)
LEMMA LoopDiesKeeps ==
  ASSUME WorkflowInv, NEW f \in Flow, LoopDies(f)
  PROVE  WorkflowInv'
<1>1. StateTypeOK /\ QueueTypeOK /\ FlowTypeOK /\ FlowInv(f)
  BY TypeParts DEF WorkflowInv
<1>2. WorkflowTypeOK'
  <2>1. StateTypeOK' /\ QueueTypeOK'
    BY <1>1 DEF LoopDies, StateTypeOK, QueueTypeOK, stateVars, queueVars
  <2>2. FlowTypeOK'
    BY <1>1, WorkflowAssumption DEF LoopDies, FlowTypeOK, FlowPc, Goto, EndRun, Source
  <2>3. QED
    BY <2>1, <2>2, TypeParts
<1>3. Grows /\ QueueInv' /\ ActiveInv' /\ HistoryNeverInvents'
  BY StateKept DEF LoopDies, stateVars, queueVars
<1>4. \A g \in Flow \ {f} : LocalsKept(g)
  BY <1>1 DEF LoopDies, FlowTypeOK, LocalsKept, Goto, EndRun, Source
<1>5. FlowInv(f)'
  BY <1>1, WorkflowAssumption DEF LoopDies, FlowInv, FlowTypeOK, queueVars, stateVars, Goto, EndRun, Source
<1>6. QED
  BY <1>2, <1>3, <1>4, <1>5, FlowMoves

(* The loop is started again. *)
LEMMA LoopStartsKeeps ==
  ASSUME WorkflowInv, NEW f \in Flow, LoopStarts(f)
  PROVE  WorkflowInv'
<1>1. StateTypeOK /\ QueueTypeOK /\ FlowTypeOK /\ FlowInv(f)
  BY TypeParts DEF WorkflowInv
<1>2. WorkflowTypeOK'
  <2>1. StateTypeOK' /\ QueueTypeOK'
    BY <1>1 DEF LoopStarts, StateTypeOK, QueueTypeOK, stateVars, queueVars
  <2>2. FlowTypeOK'
    BY <1>1, WorkflowAssumption DEF LoopStarts, FlowTypeOK, FlowPc, Goto, Source
  <2>3. QED
    BY <2>1, <2>2, TypeParts
<1>3. Grows /\ QueueInv' /\ ActiveInv' /\ HistoryNeverInvents'
  BY StateKept DEF LoopStarts, stateVars, queueVars
<1>4. \A g \in Flow \ {f} : LocalsKept(g)
  BY <1>1 DEF LoopStarts, FlowTypeOK, LocalsKept, Goto, Source
<1>5. FlowInv(f)'
  BY <1>1, WorkflowAssumption DEF LoopStarts, FlowInv, FlowTypeOK, queueVars, stateVars, Goto, Source
<1>6. QED
  BY <1>2, <1>3, <1>4, <1>5, FlowMoves

(* A packet is taken from the queue, or looked at there. *)
LEMMA TakeKeeps ==
  ASSUME WorkflowInv, NEW f \in Flow, NEW m \in Mode, NEW s \in Source, Take(f, m, s)
  PROVE  WorkflowInv'
<1>1. StateTypeOK /\ QueueTypeOK /\ FlowTypeOK /\ QueueInv
  BY TypeParts DEF WorkflowInv
<1>2. inbox' \subseteq inbox /\ s \in inbox
  BY DEF Take
<1>3. WorkflowTypeOK'
  <2>1. StateTypeOK' /\ QueueTypeOK'
    BY <1>1, <1>2 DEF Take, StateTypeOK, QueueTypeOK, stateVars
  <2>2. FlowTypeOK'
    BY <1>1 DEF Take, FlowTypeOK, FlowPc, Goto
  <2>3. QED
    BY <2>1, <2>2, TypeParts
<1>4. Grows
  BY DEF Take, Grows, stateVars
<1>5. QueueInv' /\ ActiveInv' /\ HistoryNeverInvents'
  BY <1>1, <1>2 DEF Take, WorkflowInv, QueueInv, ActiveInv, HistoryNeverInvents, AssignedStage, stateVars
<1>6. \A g \in Flow \ {f} : LocalsKept(g)
  BY <1>1 DEF Take, FlowTypeOK, LocalsKept, Goto
<1>7. pc'[f] = "handle" /\ src'[f] = s /\ answers' = answers
  BY <1>1 DEF Take, FlowTypeOK, Goto
<1>8. FlowInv(f)'
  BY <1>1, <1>2, <1>7 DEF FlowInv, QueueInv
<1>9. QED
  BY <1>3, <1>4, <1>5, <1>6, <1>8, FlowMoves

(* The state row is moved by a returned result. *)
LEMMA UpsertKeeps ==
  ASSUME WorkflowInv, NEW f \in Flow, Upsert(f)
  PROVE  WorkflowInv'
<1>1. StateTypeOK /\ QueueTypeOK /\ FlowTypeOK /\ FlowInv(f) /\ HistoryNeverInvents
  BY TypeParts DEF WorkflowInv
<1>2. /\ src[f] \in Result /\ src[f] \in Source
      /\ WriteState(ReviewStage(src[f]), src[f], src[f])
      /\ pc' = [pc EXCEPT ![f] = "append"]
      /\ UNCHANGED <<queueVars, mode, src, view, emitted, executed, lastPreview>>
  BY <1>1 DEF Upsert, FlowInv, Source, Goto
<1>3. /\ StateTypeOK' /\ HistoryNeverInvents'
      /\ Move(ReviewStage(src[f]), src[f]) \in writes' /\ writes \subseteq writes'
  BY <1>1, <1>2, StagesTyped, StateMoves
<1>4. WorkflowTypeOK'
  <2>1. QueueTypeOK'
    BY <1>1, <1>2 DEF QueueTypeOK, queueVars
  <2>2. FlowTypeOK'
    BY <1>1, <1>2 DEF FlowTypeOK, FlowPc
  <2>3. QED
    BY <1>3, <2>1, <2>2, TypeParts
<1>5. Grows
  BY <1>2, <1>3 DEF Grows, queueVars
<1>6. QueueInv'
  BY <1>2 DEF WorkflowInv, QueueInv, queueVars
<1>7. ActiveInv'
  BY <1>2, WorkflowAssumption DEF ActiveInv, WriteState
<1>8. \A g \in Flow \ {f} : LocalsKept(g)
  BY <1>1, <1>2 DEF FlowTypeOK, LocalsKept
<1>9. FlowInv(f)'
  <2>1. pc'[f] = "append" /\ src'[f] = src[f]
    BY <1>1, <1>2 DEF FlowTypeOK
  <2>2. answers'[src[f]] # NoMessage
    BY <1>1, <1>2 DEF FlowInv, queueVars
  <2>3. ReviewStage(src[f])' = ReviewStage(src[f])
    BY <1>2 DEF ReviewStage, IsQAResult, queueVars
  <2>4. QED
    BY <1>2, <1>3, <2>1, <2>2, <2>3 DEF FlowInv, Move
<1>10. QED
  BY <1>3, <1>4, <1>5, <1>6, <1>7, <1>8, <1>9, FlowMoves

(* The state row is moved by an emitted assignment. *)
LEMMA RecordUpsertKeeps ==
  ASSUME WorkflowInv, NEW f \in Flow, RecordUpsert(f)
  PROVE  WorkflowInv'
<1>1. StateTypeOK /\ QueueTypeOK /\ FlowTypeOK /\ FlowInv(f) /\ HistoryNeverInvents
  BY TypeParts DEF WorkflowInv
<1>2. /\ src[f] \in Source
      /\ emitted[f] \in Assignment /\ role[emitted[f]] # "none"
      /\ WriteState(AssignedStage(role[emitted[f]]), emitted[f], src[f])
      /\ pc' = [pc EXCEPT ![f] = "record_append"]
      /\ UNCHANGED <<queueVars, mode, src, view, emitted, executed, lastPreview>>
  BY <1>1 DEF RecordUpsert, FlowInv, Goto
<1>3. /\ StateTypeOK' /\ HistoryNeverInvents'
      /\ Move(AssignedStage(role[emitted[f]]), src[f]) \in writes' /\ writes \subseteq writes'
  BY <1>1, <1>2, StagesTyped, StateMoves
<1>4. WorkflowTypeOK'
  <2>1. QueueTypeOK'
    BY <1>1, <1>2 DEF QueueTypeOK, queueVars
  <2>2. FlowTypeOK'
    BY <1>1, <1>2 DEF FlowTypeOK, FlowPc
  <2>3. QED
    BY <1>3, <2>1, <2>2, TypeParts
<1>5. Grows
  BY <1>2, <1>3 DEF Grows, queueVars
<1>6. QueueInv'
  BY <1>2 DEF WorkflowInv, QueueInv, queueVars
<1>7. ActiveInv'
  BY <1>2 DEF ActiveInv, WriteState, AssignedStage, queueVars
<1>8. \A g \in Flow \ {f} : LocalsKept(g)
  BY <1>1, <1>2 DEF FlowTypeOK, LocalsKept
<1>9. FlowInv(f)'
  <2>1. pc'[f] = "record_append" /\ src'[f] = src[f] /\ emitted'[f] = emitted[f] /\ role' = role
    BY <1>1, <1>2 DEF FlowTypeOK, queueVars
  <2>2. (src[f] \in Result => answers[src[f]] # NoMessage)'
    BY <1>1, <1>2 DEF FlowInv, queueVars
  <2>3. QED
    BY <1>2, <1>3, <2>1, <2>2 DEF FlowInv, Move, AssignedStage
<1>10. QED
  BY <1>3, <1>4, <1>5, <1>6, <1>7, <1>8, <1>9, FlowMoves

(* The transition of a returned result enters the history. *)
LEMMA AppendTransitionKeeps ==
  ASSUME WorkflowInv, NEW f \in Flow, AppendTransition(f)
  PROVE  WorkflowInv'
<1>1. StateTypeOK /\ QueueTypeOK /\ FlowTypeOK /\ FlowInv(f) /\ HistoryNeverInvents
  BY TypeParts DEF WorkflowInv
<1>2. /\ src[f] \in Source /\ src[f] \in Result
      /\ AppendHistory(view[f], ReviewStage(src[f]), src[f])
      /\ Move(ReviewStage(src[f]), src[f]) \in writes
      /\ pc' \in {[pc EXCEPT ![f] = l] : l \in {"report", "publish"}}
      /\ UNCHANGED <<queueVars, mode, src, view, emitted, executed, lastPreview>>
  BY <1>1 DEF AppendTransition, FlowInv, Goto
<1>3. StateTypeOK' /\ HistoryNeverInvents' /\ writes' = writes /\ stage' = stage /\ active' = active
  <2>1. view[f] \in Stage /\ ReviewStage(src[f]) \in Stage
    BY <1>1, StagesTyped DEF FlowTypeOK
  <2>2. QED
    BY <1>1, <1>2, <2>1, HistoryGrows DEF AppendHistory
<1>4. WorkflowTypeOK'
  <2>1. QueueTypeOK'
    BY <1>1, <1>2 DEF QueueTypeOK, queueVars
  <2>2. FlowTypeOK'
    BY <1>1, <1>2 DEF FlowTypeOK, FlowPc
  <2>3. QED
    BY <1>3, <2>1, <2>2, TypeParts
<1>5. Grows
  BY <1>2, <1>3 DEF Grows, queueVars
<1>6. QueueInv' /\ ActiveInv'
  BY <1>2, <1>3 DEF WorkflowInv, QueueInv, ActiveInv, AssignedStage, queueVars
<1>7. \A g \in Flow \ {f} : LocalsKept(g)
  BY <1>1, <1>2 DEF FlowTypeOK, LocalsKept
<1>8. FlowInv(f)'
  <2>1. pc'[f] \in {"report", "publish"} /\ src'[f] = src[f] /\ answers' = answers
    BY <1>1, <1>2 DEF FlowTypeOK, queueVars
  <2>2. QED
    BY <1>1, <1>2, <2>1 DEF FlowInv
<1>9. QED
  BY <1>3, <1>4, <1>5, <1>6, <1>7, <1>8, FlowMoves

(* The transition of an emitted assignment enters the history. *)
LEMMA RecordAppendKeeps ==
  ASSUME WorkflowInv, NEW f \in Flow, RecordAppend(f)
  PROVE  WorkflowInv'
<1>1. StateTypeOK /\ QueueTypeOK /\ FlowTypeOK /\ FlowInv(f) /\ HistoryNeverInvents
  BY TypeParts DEF WorkflowInv
<1>2. /\ src[f] \in Source /\ emitted[f] \in Assignment
      /\ AppendHistory(view[f], AssignedStage(role[emitted[f]]), src[f])
      /\ Move(AssignedStage(role[emitted[f]]), src[f]) \in writes
      /\ pc' \in {[pc EXCEPT ![f] = "report"]}
      /\ UNCHANGED <<queueVars, mode, src, view, emitted, executed, lastPreview>>
  BY <1>1 DEF RecordAppend, FlowInv, Goto
<1>3. StateTypeOK' /\ HistoryNeverInvents' /\ writes' = writes /\ stage' = stage /\ active' = active
  <2>1. view[f] \in Stage /\ AssignedStage(role[emitted[f]]) \in Stage
    BY <1>1, StagesTyped DEF FlowTypeOK
  <2>2. QED
    BY <1>1, <1>2, <2>1, HistoryGrows DEF AppendHistory
<1>4. WorkflowTypeOK'
  <2>1. QueueTypeOK'
    BY <1>1, <1>2 DEF QueueTypeOK, queueVars
  <2>2. FlowTypeOK'
    BY <1>1, <1>2 DEF FlowTypeOK, FlowPc
  <2>3. QED
    BY <1>3, <2>1, <2>2, TypeParts
<1>5. Grows
  BY <1>2, <1>3 DEF Grows, queueVars
<1>6. QueueInv' /\ ActiveInv'
  BY <1>2, <1>3 DEF WorkflowInv, QueueInv, ActiveInv, AssignedStage, queueVars
<1>7. \A g \in Flow \ {f} : LocalsKept(g)
  BY <1>1, <1>2 DEF FlowTypeOK, LocalsKept
<1>8. FlowInv(f)'
  <2>1. pc'[f] \in {"report", "publish"} /\ src'[f] = src[f] /\ answers' = answers
    BY <1>1, <1>2 DEF FlowTypeOK, queueVars
  <2>2. QED
    BY <1>1, <1>2, <2>1 DEF FlowInv
<1>9. QED
  BY <1>3, <1>4, <1>5, <1>6, <1>7, <1>8, FlowMoves

(* An assignment is sent. *)
LEMMA PublishAssignmentKeeps ==
  ASSUME WorkflowInv, NEW f \in Flow, NEW a \in Assignment, PublishAssignment(f, a)
  PROVE  WorkflowInv'
<1>1. StateTypeOK /\ QueueTypeOK /\ FlowTypeOK /\ FlowInv(f) /\ QueueInv
  BY TypeParts DEF WorkflowInv
<1>2. PICK x \in Role : role' = [role EXCEPT ![a] = x]
  <2>1. (IF src[f] \in Decision THEN TargetRole[src[f]] ELSE "QA") \in Role
    BY WorkflowAssumption DEF Role
  <2>2. QED
    BY <2>1 DEF PublishAssignment
<1>3. x # "none" /\ role[a] = "none"
  BY DEF Role, PublishAssignment
<1>4. WorkflowTypeOK'
  <2>1. StateTypeOK'
    BY <1>1 DEF PublishAssignment, StateTypeOK, stateVars
  <2>2. QueueTypeOK'
    BY <1>1, <1>2 DEF PublishAssignment, QueueTypeOK
  <2>3. FlowTypeOK'
    BY <1>1 DEF PublishAssignment, FlowTypeOK, FlowPc, Goto
  <2>4. QED
    BY <2>1, <2>2, <2>3, TypeParts
<1>5. Grows
  BY <1>1, <1>2, <1>3 DEF Grows, PublishAssignment, QueueTypeOK, stateVars
<1>6. QueueInv'
  BY <1>1, <1>2, <1>3 DEF PublishAssignment, QueueInv, QueueTypeOK
<1>7. ActiveInv'
  BY <1>1, <1>5 DEF PublishAssignment, WorkflowInv, ActiveInv, AssignedStage, Grows, stateVars
<1>8. HistoryNeverInvents'
  BY DEF PublishAssignment, WorkflowInv, HistoryNeverInvents, stateVars
<1>9. \A g \in Flow \ {f} : LocalsKept(g)
  BY <1>1 DEF PublishAssignment, FlowTypeOK, LocalsKept, Goto
<1>10. FlowInv(f)'
  <2>1. pc'[f] = "record_read" /\ emitted'[f] = a /\ src' = src /\ answers' = answers
    BY <1>1 DEF PublishAssignment, FlowTypeOK, Goto
  <2>2. role'[a] # "none"
    BY <1>1, <1>2, <1>3 DEF QueueTypeOK
  <2>3. src[f] \in Source
    BY <1>1 DEF PublishAssignment, FlowInv
  <2>4. QED
    BY <1>1, <2>1, <2>2, <2>3 DEF FlowInv
<1>11. QED
  BY <1>4, <1>5, <1>6, <1>7, <1>8, <1>9, <1>10, FlowMoves

-----------------------------------------------------------------------------
(* The invariant of any number of loops. *)

(* The initial states satisfy the invariant. *)
LEMMA InitHolds ==
  ASSUME WorkflowInit
  PROVE  WorkflowInv
<1>1. WorkflowTypeOK
  <2>1. StateTypeOK
    <3>1. history \in Seq(HistoryRow)
      BY DEF WorkflowInit
    <3>2. stage \in Stage /\ active = NoMessage /\ writes = {} /\ cut = FALSE
      BY DEF WorkflowInit, Stage
    <3>3. QED
      BY <3>1, <3>2 DEF StateTypeOK
  <2>2. QueueTypeOK
    <3>1. 0 \in 0..MaxDeliveries
      <4>1. MaxDeliveries \in Nat
        BY WorkflowAssumption
      <4>2. QED
        BY <4>1
    <3>2. QED
      BY <3>1 DEF WorkflowInit, QueueTypeOK
  <2>3. FlowTypeOK
    BY DEF WorkflowInit, FlowTypeOK, Stage, FlowPc
  <2>4. QED
    BY <2>1, <2>2, <2>3, TypeParts
<1>2. QueueInv /\ ActiveInv /\ HistoryNeverInvents
  <2>1. QueueInv
    BY DEF WorkflowInit, QueueInv
  <2>2. ActiveInv
    BY WorkflowAssumption DEF WorkflowInit, ActiveInv
  <2>3. HistoryNeverInvents
    BY DEF WorkflowInit, HistoryNeverInvents
  <2>4. QED
    BY <2>1, <2>2, <2>3
<1>3. \A f \in Flow : FlowInv(f)
  BY WorkflowAssumption DEF WorkflowInit, FlowInv
<1>4. QED
  BY <1>1, <1>2, <1>3 DEF WorkflowInv

(* Every step of a loop keeps it. *)
LEMMA FlowStepKeeps ==
  ASSUME WorkflowInv, NEW f \in Flow, FlowStep(f)
  PROVE  WorkflowInv'
<1>1. CASE \E m \in Mode, s \in Source : Take(f, m, s)
  BY <1>1, TakeKeeps
<1>2. CASE Handle(f) \/ Evaluate(f) \/ Reread(f)
  BY <1>2, HandleKeeps, EvaluateKeeps, RereadKeeps
<1>3. CASE Upsert(f) \/ AppendTransition(f)
  BY <1>3, UpsertKeeps, AppendTransitionKeeps
<1>4. CASE \E a \in Assignment : PublishAssignment(f, a)
  BY <1>4, PublishAssignmentKeeps
<1>5. CASE PublishFails(f) \/ RecordRead(f) \/ RecordUpsert(f) \/ RecordAppend(f)
  BY <1>5, PublishFailsKeeps, RecordReadKeeps, RecordUpsertKeeps, RecordAppendKeeps
<1>6. CASE Report(f) \/ LoopDies(f) \/ LoopStarts(f)
  BY <1>6, ReportKeeps, LoopDiesKeeps, LoopStartsKeeps
<1>7. QED
  BY <1>1, <1>2, <1>3, <1>4, <1>5, <1>6 DEF FlowStep

(* Every step keeps it, a stuttering one included. *)
LEMMA StepHolds ==
  ASSUME WorkflowInv, [WorkflowNext]_workflowVars
  PROVE  WorkflowInv'
<1>1. CASE \E d \in Decision : SendDecision(d)
  BY <1>1, SendDecisionKeeps
<1>2. CASE \E a \in Assignment, r \in Result : Answer(a, r)
  BY <1>2, AnswerKeeps
<1>3. CASE \E r \in Result : Resend(r)
  BY <1>3, ResendKeeps
<1>4. CASE \E f \in Flow : FlowStep(f)
  BY <1>4, FlowStepKeeps
<1>5. CASE UNCHANGED workflowVars
  <2>1. UNCHANGED <<stateVars, role, flowVars, inbox, delivered, answers>>
    BY <1>5 DEF workflowVars, queueVars
  <2>2. QueueTypeOK' /\ QueueInv'
    BY <2>1, TypeParts DEF WorkflowInv, QueueTypeOK, QueueInv
  <2>3. QED
    BY <2>1, <2>2, QueueMoves
<1>6. QED
  BY <1>1, <1>2, <1>3, <1>4, <1>5 DEF WorkflowNext

(* However many TechLead loops share the work item, every reachable state   *)
(* satisfies the invariant.                                                 *)
THEOREM WorkflowInvariance == WorkflowSpec => []WorkflowInv
<1>1. WorkflowInit => WorkflowInv
  BY InitHolds
<1>2. WorkflowInv /\ [WorkflowNext]_workflowVars => WorkflowInv'
  BY StepHolds
<1>3. QED
  BY <1>1, <1>2, PTL DEF WorkflowSpec

(* The workflow state, its history and the loops' locals are well-typed.    *)
THEOREM WorkflowTypeCorrect == WorkflowSpec => []WorkflowTypeOK
<1>1. WorkflowInv => WorkflowTypeOK
  BY DEF WorkflowInv
<1>2. QED
  BY <1>1, WorkflowInvariance, PTL

(* No crash and no number of loops puts a row into the transition history   *)
(* for a move the state row did not make.                                   *)
THEOREM HistoryIsHonest == WorkflowSpec => []HistoryNeverInvents
<1>1. WorkflowInv => HistoryNeverInvents
  BY DEF WorkflowInv
<1>2. QED
  BY <1>1, WorkflowInvariance, PTL

-----------------------------------------------------------------------------
(* The answer to the active assignment. *)

(* A step of one loop leaves the locals of the others alone. *)
LEMMA OthersKept ==
  ASSUME FlowTypeOK, NEW f \in Flow, FlowStep(f), NEW g \in Flow \ {f}
  PROVE  LocalsKept(g)
<1>1. CASE \E m \in Mode, s \in Source : Take(f, m, s)
  BY <1>1 DEF Take, Goto, FlowTypeOK, LocalsKept
<1>2. CASE Handle(f) \/ Evaluate(f) \/ Reread(f)
  BY <1>2 DEF Handle, Evaluate, Reread, Goto, FlowTypeOK, LocalsKept
<1>3. CASE Upsert(f) \/ AppendTransition(f)
  BY <1>3 DEF Upsert, AppendTransition, Goto, FlowTypeOK, LocalsKept
<1>4. CASE \E a \in Assignment : PublishAssignment(f, a)
  BY <1>4 DEF PublishAssignment, Goto, FlowTypeOK, LocalsKept
<1>5. CASE PublishFails(f) \/ RecordRead(f) \/ RecordUpsert(f) \/ RecordAppend(f)
  BY <1>5 DEF PublishFails, RecordRead, RecordUpsert, RecordAppend, Goto, FlowTypeOK, LocalsKept
<1>6. CASE Report(f) \/ LoopDies(f) \/ LoopStarts(f)
  BY <1>6 DEF Report, LoopDies, LoopStarts, EndRun, Goto, FlowTypeOK, LocalsKept
<1>7. QED
  BY <1>1, <1>2, <1>3, <1>4, <1>5, <1>6 DEF FlowStep

(* A loop turns a result away only because of its stage. *)
LEMMA TurnedAwayByStage ==
  ASSUME FlowTypeOK, NEW f \in Flow, FlowStep(f), pc[f] = "evaluate", pc'[f] = "report"
  PROVE  stage # FromStage(src[f])
<1>1. CASE Evaluate(f)
  BY <1>1 DEF Evaluate, Goto, FlowTypeOK
<1>2. CASE Handle(f) \/ Reread(f) \/ Upsert(f) \/ AppendTransition(f)
  BY <1>2 DEF Handle, Reread, Upsert, AppendTransition
<1>3. CASE (\E a \in Assignment : PublishAssignment(f, a)) \/ PublishFails(f)
  BY <1>3 DEF PublishAssignment, PublishFails
<1>4. CASE RecordRead(f) \/ RecordUpsert(f) \/ RecordAppend(f)
  BY <1>4 DEF RecordRead, RecordUpsert, RecordAppend
<1>5. CASE Report(f) \/ LoopStarts(f) \/ \E m \in Mode, s \in Source : Take(f, m, s)
  BY <1>5 DEF Report, LoopStarts, Take
<1>6. CASE LoopDies(f)
  BY <1>6 DEF LoopDies, EndRun, Goto, FlowTypeOK
<1>7. QED
  BY <1>1, <1>2, <1>3, <1>4, <1>5, <1>6 DEF FlowStep

(* While every decision names Dev, the two stage tables agree. *)
NoPythonDev == \A a \in Assignment : role[a] # "Python Dev"

(* In the stage of the active assignment its answer passes the check. *)
LEMMA ActiveAnswerStarts ==
  ASSUME WorkflowInv, NoPythonDev, NEW r \in Result, active # NoMessage, answers[r] = active
  PROVE  stage = FromStage(r)
<1>1. active \in Assignment /\ role[active] \in {"Dev", "QA"}
  BY DEF WorkflowInv, WorkflowTypeOK, ActiveInv, NoPythonDev, Role
<1>2. stage = AssignedStage(role[active])
  BY <1>1 DEF WorkflowInv, ActiveInv
<1>3. QED
  BY <1>1, <1>2 DEF AssignedStage, FromStage, IsQAResult

(* No step sends an assignment to Python Dev. *)
LEMMA NoPythonDevKept ==
  ASSUME WorkflowInv, NoPythonDev, \A d \in Decision : TargetRole[d] = "Dev",
         [WorkflowNext]_workflowVars
  PROVE  NoPythonDev'
<1>1. CASE \E f \in Flow, a \in Assignment : PublishAssignment(f, a)
  <2>1. PICK f \in Flow, a \in Assignment : PublishAssignment(f, a)
    BY <1>1
  <2>2. role' = [role EXCEPT ![a] = "Dev"] \/ role' = [role EXCEPT ![a] = "QA"]
    BY <2>1 DEF PublishAssignment
  <2>3. QED
    BY <2>2 DEF NoPythonDev, WorkflowInv, WorkflowTypeOK
<1>2. CASE UNCHANGED role
  BY <1>2 DEF NoPythonDev
<1>3. (\E f \in Flow, a \in Assignment : PublishAssignment(f, a)) \/ UNCHANGED role
  <2>1. CASE \E f \in Flow : FlowStep(f)
    <3>1. PICK f \in Flow : FlowStep(f)
      BY <2>1
    <3>2. CASE \E m \in Mode, s \in Source : Take(f, m, s)
      BY <3>2 DEF Take
    <3>3. CASE Handle(f) \/ Evaluate(f) \/ Reread(f) \/ Upsert(f) \/ AppendTransition(f)
      BY <3>3 DEF Handle, Evaluate, Reread, Upsert, AppendTransition, queueVars
    <3>4. CASE PublishFails(f) \/ RecordRead(f) \/ RecordUpsert(f) \/ RecordAppend(f)
      BY <3>4 DEF PublishFails, RecordRead, RecordUpsert, RecordAppend, queueVars
    <3>5. CASE Report(f) \/ LoopDies(f) \/ LoopStarts(f)
      BY <3>5 DEF Report, LoopDies, LoopStarts, queueVars
    <3>6. QED
      BY <3>1, <3>2, <3>3, <3>4, <3>5 DEF FlowStep
  <2>2. CASE \E d \in Decision : SendDecision(d)
    BY <2>2 DEF SendDecision
  <2>3. CASE \E a \in Assignment, r \in Result : Answer(a, r)
    BY <2>3 DEF Answer
  <2>4. CASE \E r \in Result : Resend(r)
    BY <2>4 DEF Resend
  <2>5. CASE UNCHANGED workflowVars
    BY <2>5 DEF workflowVars, queueVars
  <2>6. QED
    BY <2>1, <2>2, <2>3, <2>4, <2>5 DEF WorkflowNext
<1>4. QED
  BY <1>1, <1>2, <1>3

(* The answer to the active assignment is never turned away, however many   *)
(* loops there are and whatever dies, as long as decisions name Dev only.   *)
THEOREM ActiveAnswersPass ==
  ASSUME \A d \in Decision : TargetRole[d] = "Dev"
  PROVE  WorkflowSpec => ActiveAssignmentsResultAccepted
<1>1. WorkflowInit => NoPythonDev
  BY DEF WorkflowInit, NoPythonDev
<1>2. WorkflowInv /\ NoPythonDev /\ [WorkflowNext]_workflowVars => NoPythonDev'
  BY NoPythonDevKept
<1>3. ASSUME WorkflowInv, NoPythonDev, [WorkflowNext]_workflowVars,
             NEW f \in Flow, pc[f] = "evaluate", pc'[f] = "report"
      PROVE  answers[src[f]] # active
  <2>1. FlowTypeOK /\ src[f] \in Result /\ answers[src[f]] # NoMessage
    BY <1>3, TypeParts DEF WorkflowInv, FlowInv
  <2>2. ~ UNCHANGED pc
    BY <1>3
  <2>3. PICK g \in Flow : FlowStep(g)
    BY <1>3, <2>2 DEF WorkflowNext, SendDecision, Answer, Resend, workflowVars, flowVars
  <2>4. f = g
    BY <1>3, <2>1, <2>3, OthersKept DEF LocalsKept
  <2>5. stage # FromStage(src[f])
    BY <1>3, <2>1, <2>3, <2>4, TurnedAwayByStage
  <2>6. QED
    BY <1>3, <2>1, <2>5, ActiveAnswerStarts
<1>4. WorkflowInv /\ NoPythonDev /\ [WorkflowNext]_workflowVars
        => [\A f \in Flow : pc[f] = "evaluate" /\ pc'[f] = "report"
              => answers[src[f]] # active]_workflowVars
  BY <1>3
<1>5. QED
  BY <1>1, <1>2, <1>4, WorkflowInvariance, PTL DEF WorkflowSpec, ActiveAssignmentsResultAccepted

-----------------------------------------------------------------------------
(* One loop. *)

(* A history that ends where the new row starts stays linked. *)
LEMMA HistoryLinks ==
  ASSUME StateTypeOK, HistoryLinked, NEW from, NEW to \in Stage, NEW s \in Source, from \in Stage,
         history # <<>> => history[Len(history)].to = from,
         AppendHistory(from, to, s)
  PROVE  HistoryLinked' /\ history'[Len(history')].to = to
<1>1. Transition(from, to, s) \in HistoryRow
  BY DEF Transition, HistoryRow
<1>2. /\ Len(history') = Len(history) + 1
      /\ \A i \in 1..Len(history) : history'[i] = history[i]
      /\ history'[Len(history) + 1] = Transition(from, to, s)
  BY <1>1, AppendProperties DEF AppendHistory, StateTypeOK
<1>3. Len(history) \in Nat
  BY DEF StateTypeOK
<1>4. ASSUME NEW i \in 2..Len(history')
      PROVE  history'[i].from = history'[i - 1].to
  <2>1. CASE i = Len(history) + 1
    <3>1. Len(history) \in 1..Len(history) /\ i - 1 = Len(history) /\ history # <<>>
      BY <1>2, <1>3, <1>4, <2>1
    <3>2. history'[i - 1] = history[Len(history)]
      BY <1>2, <3>1
    <3>3. QED
      BY <1>2, <2>1, <3>1, <3>2 DEF Transition
  <2>2. CASE i \in 2..Len(history)
    <3>1. i \in 1..Len(history) /\ i - 1 \in 1..Len(history)
      BY <1>3, <2>2
    <3>2. QED
      BY <1>2, <2>2, <3>1 DEF HistoryLinked
  <2>3. QED
    BY <1>2, <1>3, <1>4, <2>1, <2>2
<1>5. QED
  BY <1>2, <1>4 DEF HistoryLinked, Transition

(* A step that leaves the state rows and the answers alone moves a loop     *)
(* only to steps whose stage it knows.                                      *)
LEMMA QuietOne ==
  ASSUME WorkflowInv, NEW f \in Flow, OneLoopInv(f),
         UNCHANGED <<stage, history>>,
         ~cut' => ~cut /\ ~WritesPending(f) /\ ~WritesPending(f)',
         pc'[f] \notin {"append", "record_append"},
         (pc[f] \in {"reread", "upsert"} => stage = FromStage(src[f]))',
         (pc[f] \in {"upsert", "record_upsert"} => view[f] = stage)'
  PROVE  OneLoopInv(f)'
<1>1. ~cut' => (HistoryLinked /\ (history # <<>> =>
                  history[Len(history)].to = IF WritesPending(f) THEN view[f] ELSE stage))'
  BY DEF OneLoopInv, HistoryLinked
<1>2. QED
  BY <1>1 DEF OneLoopInv

(* Handle when the loop is the only one. *)
LEMMA HandleOne ==
  ASSUME WorkflowInv, NEW f \in Flow, OneLoopInv(f), Handle(f)
  PROVE  OneLoopInv(f)'
<1>1. FlowTypeOK
  BY TypeParts DEF WorkflowInv
<1>2. UNCHANGED <<stage, history>>
  BY DEF Handle, stateVars
<1>3. pc'[f] \notin {"append", "record_append"} /\ (~cut' => ~cut /\ ~WritesPending(f) /\ ~WritesPending(f)')
  BY <1>1, <1>2 DEF Handle, FlowTypeOK, WritesPending, Goto, stateVars
<1>4. (pc[f] \in {"reread", "upsert"} => stage = FromStage(src[f]))'
  BY <1>1, <1>2 DEF Handle, OneLoopInv, FlowTypeOK, FromStage, IsQAResult, Goto, queueVars
<1>5. (pc[f] \in {"upsert", "record_upsert"} => view[f] = stage)'
  BY <1>1, <1>2 DEF Handle, FlowTypeOK, Goto
<1>6. QED
  BY <1>2, <1>3, <1>4, <1>5, QuietOne

(* Evaluate when the loop is the only one. *)
LEMMA EvaluateOne ==
  ASSUME WorkflowInv, NEW f \in Flow, OneLoopInv(f), Evaluate(f)
  PROVE  OneLoopInv(f)'
<1>1. FlowTypeOK
  BY TypeParts DEF WorkflowInv
<1>2. UNCHANGED <<stage, history>>
  BY DEF Evaluate, stateVars
<1>3. pc'[f] \notin {"append", "record_append"} /\ (~cut' => ~cut /\ ~WritesPending(f) /\ ~WritesPending(f)')
  BY <1>1, <1>2 DEF Evaluate, FlowTypeOK, WritesPending, Goto, stateVars
<1>4. (pc[f] \in {"reread", "upsert"} => stage = FromStage(src[f]))'
  BY <1>1, <1>2 DEF Evaluate, OneLoopInv, FlowTypeOK, FromStage, IsQAResult, Goto, queueVars
<1>5. (pc[f] \in {"upsert", "record_upsert"} => view[f] = stage)'
  BY <1>1, <1>2 DEF Evaluate, FlowTypeOK, Goto
<1>6. QED
  BY <1>2, <1>3, <1>4, <1>5, QuietOne

(* Reread when the loop is the only one. *)
LEMMA RereadOne ==
  ASSUME WorkflowInv, NEW f \in Flow, OneLoopInv(f), Reread(f)
  PROVE  OneLoopInv(f)'
<1>1. FlowTypeOK
  BY TypeParts DEF WorkflowInv
<1>2. UNCHANGED <<stage, history>>
  BY DEF Reread, stateVars
<1>3. pc'[f] \notin {"append", "record_append"} /\ (~cut' => ~cut /\ ~WritesPending(f) /\ ~WritesPending(f)')
  BY <1>1, <1>2 DEF Reread, FlowTypeOK, WritesPending, Goto, stateVars
<1>4. (pc[f] \in {"reread", "upsert"} => stage = FromStage(src[f]))'
  BY <1>1, <1>2 DEF Reread, OneLoopInv, FlowTypeOK, FromStage, IsQAResult, Goto, queueVars
<1>5. (pc[f] \in {"upsert", "record_upsert"} => view[f] = stage)'
  BY <1>1, <1>2 DEF Reread, FlowTypeOK, Goto
<1>6. QED
  BY <1>2, <1>3, <1>4, <1>5, QuietOne

(* PublishFails when the loop is the only one. *)
LEMMA PublishFailsOne ==
  ASSUME WorkflowInv, NEW f \in Flow, OneLoopInv(f), PublishFails(f)
  PROVE  OneLoopInv(f)'
<1>1. FlowTypeOK
  BY TypeParts DEF WorkflowInv
<1>2. UNCHANGED <<stage, history>>
  BY DEF PublishFails, stateVars
<1>3. pc'[f] \notin {"append", "record_append"} /\ (~cut' => ~cut /\ ~WritesPending(f) /\ ~WritesPending(f)')
  BY <1>1, <1>2 DEF PublishFails, FlowTypeOK, WritesPending, Goto, stateVars
<1>4. (pc[f] \in {"reread", "upsert"} => stage = FromStage(src[f]))'
  BY <1>1, <1>2 DEF PublishFails, OneLoopInv, FlowTypeOK, FromStage, IsQAResult, Goto, queueVars
<1>5. (pc[f] \in {"upsert", "record_upsert"} => view[f] = stage)'
  BY <1>1, <1>2 DEF PublishFails, FlowTypeOK, Goto
<1>6. QED
  BY <1>2, <1>3, <1>4, <1>5, QuietOne

(* RecordRead when the loop is the only one. *)
LEMMA RecordReadOne ==
  ASSUME WorkflowInv, NEW f \in Flow, OneLoopInv(f), RecordRead(f)
  PROVE  OneLoopInv(f)'
<1>1. FlowTypeOK
  BY TypeParts DEF WorkflowInv
<1>2. UNCHANGED <<stage, history>>
  BY DEF RecordRead, stateVars
<1>3. pc'[f] \notin {"append", "record_append"} /\ (~cut' => ~cut /\ ~WritesPending(f) /\ ~WritesPending(f)')
  BY <1>1, <1>2 DEF RecordRead, FlowTypeOK, WritesPending, Goto, stateVars
<1>4. (pc[f] \in {"reread", "upsert"} => stage = FromStage(src[f]))'
  BY <1>1, <1>2 DEF RecordRead, OneLoopInv, FlowTypeOK, FromStage, IsQAResult, Goto, queueVars
<1>5. (pc[f] \in {"upsert", "record_upsert"} => view[f] = stage)'
  BY <1>1, <1>2 DEF RecordRead, FlowTypeOK, Goto
<1>6. QED
  BY <1>2, <1>3, <1>4, <1>5, QuietOne

(* Report when the loop is the only one. *)
LEMMA ReportOne ==
  ASSUME WorkflowInv, NEW f \in Flow, OneLoopInv(f), Report(f)
  PROVE  OneLoopInv(f)'
<1>1. FlowTypeOK
  BY TypeParts DEF WorkflowInv
<1>2. UNCHANGED <<stage, history>>
  BY DEF Report, stateVars
<1>3. pc'[f] \notin {"append", "record_append"} /\ (~cut' => ~cut /\ ~WritesPending(f) /\ ~WritesPending(f)')
  BY <1>1, <1>2 DEF Report, FlowTypeOK, WritesPending, Goto, stateVars, EndRun
<1>4. (pc[f] \in {"reread", "upsert"} => stage = FromStage(src[f]))'
  BY <1>1, <1>2 DEF Report, OneLoopInv, FlowTypeOK, FromStage, IsQAResult, Goto, queueVars, EndRun
<1>5. (pc[f] \in {"upsert", "record_upsert"} => view[f] = stage)'
  BY <1>1, <1>2 DEF Report, FlowTypeOK, Goto, EndRun
<1>6. QED
  BY <1>2, <1>3, <1>4, <1>5, QuietOne

(* LoopDies when the loop is the only one. *)
LEMMA LoopDiesOne ==
  ASSUME WorkflowInv, NEW f \in Flow, OneLoopInv(f), LoopDies(f)
  PROVE  OneLoopInv(f)'
<1>1. FlowTypeOK
  BY TypeParts DEF WorkflowInv
<1>2. UNCHANGED <<stage, history>>
  BY DEF LoopDies, stateVars
<1>3. pc'[f] \notin {"append", "record_append"} /\ (~cut' => ~cut /\ ~WritesPending(f) /\ ~WritesPending(f)')
  BY <1>1, <1>2 DEF LoopDies, FlowTypeOK, WritesPending, Goto, stateVars, EndRun
<1>4. (pc[f] \in {"reread", "upsert"} => stage = FromStage(src[f]))'
  BY <1>1, <1>2 DEF LoopDies, OneLoopInv, FlowTypeOK, FromStage, IsQAResult, Goto, queueVars, EndRun
<1>5. (pc[f] \in {"upsert", "record_upsert"} => view[f] = stage)'
  BY <1>1, <1>2 DEF LoopDies, FlowTypeOK, Goto, EndRun
<1>6. QED
  BY <1>2, <1>3, <1>4, <1>5, QuietOne

(* LoopStarts when the loop is the only one. *)
LEMMA LoopStartsOne ==
  ASSUME WorkflowInv, NEW f \in Flow, OneLoopInv(f), LoopStarts(f)
  PROVE  OneLoopInv(f)'
<1>1. FlowTypeOK
  BY TypeParts DEF WorkflowInv
<1>2. UNCHANGED <<stage, history>>
  BY DEF LoopStarts, stateVars
<1>3. pc'[f] \notin {"append", "record_append"} /\ (~cut' => ~cut /\ ~WritesPending(f) /\ ~WritesPending(f)')
  BY <1>1, <1>2 DEF LoopStarts, FlowTypeOK, WritesPending, Goto, stateVars
<1>4. (pc[f] \in {"reread", "upsert"} => stage = FromStage(src[f]))'
  BY <1>1, <1>2 DEF LoopStarts, OneLoopInv, FlowTypeOK, FromStage, IsQAResult, Goto, queueVars
<1>5. (pc[f] \in {"upsert", "record_upsert"} => view[f] = stage)'
  BY <1>1, <1>2 DEF LoopStarts, FlowTypeOK, Goto
<1>6. QED
  BY <1>2, <1>3, <1>4, <1>5, QuietOne

(* Take when the loop is the only one. *)
LEMMA TakeOne ==
  ASSUME WorkflowInv, NEW f \in Flow, NEW m \in Mode, NEW s \in Source, OneLoopInv(f), Take(f, m, s)
  PROVE  OneLoopInv(f)'
<1>1. FlowTypeOK
  BY TypeParts DEF WorkflowInv
<1>2. UNCHANGED <<stage, history>>
  BY DEF Take, stateVars
<1>3. pc'[f] \notin {"append", "record_append"} /\ (~cut' => ~cut /\ ~WritesPending(f) /\ ~WritesPending(f)')
  BY <1>1, <1>2 DEF Take, FlowTypeOK, WritesPending, Goto, stateVars
<1>4. (pc[f] \in {"reread", "upsert"} => stage = FromStage(src[f]))'
  BY <1>1, <1>2 DEF Take, OneLoopInv, FlowTypeOK, FromStage, IsQAResult, Goto, queueVars
<1>5. (pc[f] \in {"upsert", "record_upsert"} => view[f] = stage)'
  BY <1>1, <1>2 DEF Take, FlowTypeOK, Goto
<1>6. QED
  BY <1>2, <1>3, <1>4, <1>5, QuietOne

(* PublishAssignment when the loop is the only one. *)
LEMMA PublishAssignmentOne ==
  ASSUME WorkflowInv, NEW f \in Flow, NEW a \in Assignment, OneLoopInv(f), PublishAssignment(f, a)
  PROVE  OneLoopInv(f)'
<1>1. FlowTypeOK
  BY TypeParts DEF WorkflowInv
<1>2. UNCHANGED <<stage, history>>
  BY DEF PublishAssignment, stateVars
<1>3. pc'[f] \notin {"append", "record_append"} /\ (~cut' => ~cut /\ ~WritesPending(f) /\ ~WritesPending(f)')
  BY <1>1, <1>2 DEF PublishAssignment, FlowTypeOK, WritesPending, Goto, stateVars
<1>4. (pc[f] \in {"reread", "upsert"} => stage = FromStage(src[f]))'
  BY <1>1, <1>2 DEF PublishAssignment, OneLoopInv, FlowTypeOK, FromStage, IsQAResult, Goto, queueVars
<1>5. (pc[f] \in {"upsert", "record_upsert"} => view[f] = stage)'
  BY <1>1, <1>2 DEF PublishAssignment, FlowTypeOK, Goto
<1>6. QED
  BY <1>2, <1>3, <1>4, <1>5, QuietOne

(* Upsert when the loop is the only one: the stage it read is still there. *)
LEMMA UpsertOne ==
  ASSUME WorkflowInv, NEW f \in Flow, OneLoopInv(f), Upsert(f)
  PROVE  OneLoopInv(f)'
<1>1. FlowTypeOK
  BY TypeParts DEF WorkflowInv
<1>2. pc'[f] = "append" /\ view[f] = stage /\ ~WritesPending(f) /\ WritesPending(f)'
  BY <1>1 DEF Upsert, FlowTypeOK, OneLoopInv, WritesPending, Goto
<1>3. /\ stage' = ReviewStage(src[f]) /\ history' = history /\ cut' = cut
      /\ src' = src /\ emitted' = emitted /\ view' = view /\ role' = role /\ answers' = answers
  BY DEF Upsert, WriteState, queueVars
<1>4. (stage = ReviewStage(src[f]))'
  BY <1>3 DEF ReviewStage, IsQAResult, AssignedStage
<1>5. ~cut' => (HistoryLinked /\ (history # <<>> => history[Len(history)].to = view[f]))'
  BY <1>2, <1>3 DEF OneLoopInv, HistoryLinked
<1>6. QED
  BY <1>2, <1>4, <1>5 DEF OneLoopInv

(* RecordUpsert when the loop is the only one: the stage it read is still there. *)
LEMMA RecordUpsertOne ==
  ASSUME WorkflowInv, NEW f \in Flow, OneLoopInv(f), RecordUpsert(f)
  PROVE  OneLoopInv(f)'
<1>1. FlowTypeOK
  BY TypeParts DEF WorkflowInv
<1>2. pc'[f] = "record_append" /\ view[f] = stage /\ ~WritesPending(f) /\ WritesPending(f)'
  BY <1>1 DEF RecordUpsert, FlowTypeOK, OneLoopInv, WritesPending, Goto
<1>3. /\ stage' = AssignedStage(role[emitted[f]]) /\ history' = history /\ cut' = cut
      /\ src' = src /\ emitted' = emitted /\ view' = view /\ role' = role /\ answers' = answers
  BY DEF RecordUpsert, WriteState, queueVars
<1>4. (stage = AssignedStage(role[emitted[f]]))'
  BY <1>3 DEF ReviewStage, IsQAResult, AssignedStage
<1>5. ~cut' => (HistoryLinked /\ (history # <<>> => history[Len(history)].to = view[f]))'
  BY <1>2, <1>3 DEF OneLoopInv, HistoryLinked
<1>6. QED
  BY <1>2, <1>4, <1>5 DEF OneLoopInv

(* AppendTransition when the loop is the only one: the new row links. *)
LEMMA AppendTransitionOne ==
  ASSUME WorkflowInv, NEW f \in Flow, OneLoopInv(f), AppendTransition(f)
  PROVE  OneLoopInv(f)'
<1>1. StateTypeOK /\ FlowTypeOK /\ src[f] \in Source /\ WritesPending(f)
  BY TypeParts DEF WorkflowInv, FlowInv, AppendTransition, WritesPending
<1>2. AppendHistory(view[f], ReviewStage(src[f]), src[f]) /\ stage = ReviewStage(src[f])
  BY DEF AppendTransition, OneLoopInv
<1>3. pc'[f] \in {"report", "publish"} /\ ~WritesPending(f)' /\ stage' = stage /\ cut' = cut
  BY <1>1 DEF AppendTransition, FlowTypeOK, WritesPending, Goto, AppendHistory
<1>4. ASSUME ~cut'
      PROVE  HistoryLinked' /\ history'[Len(history')].to = stage'
  <2>1. HistoryLinked /\ (history # <<>> => history[Len(history)].to = view[f])
    BY <1>1, <1>3, <1>4 DEF OneLoopInv
  <2>2. view[f] \in Stage /\ ReviewStage(src[f]) \in Stage
    BY <1>1, StagesTyped DEF FlowTypeOK
  <2>3. QED
    BY <1>1, <1>2, <1>3, <2>1, <2>2, HistoryLinks
<1>5. QED
  BY <1>3, <1>4 DEF OneLoopInv

(* RecordAppend when the loop is the only one: the new row links. *)
LEMMA RecordAppendOne ==
  ASSUME WorkflowInv, NEW f \in Flow, OneLoopInv(f), RecordAppend(f)
  PROVE  OneLoopInv(f)'
<1>1. StateTypeOK /\ FlowTypeOK /\ src[f] \in Source /\ WritesPending(f)
  BY TypeParts DEF WorkflowInv, FlowInv, RecordAppend, WritesPending
<1>2. AppendHistory(view[f], AssignedStage(role[emitted[f]]), src[f]) /\ stage = AssignedStage(role[emitted[f]])
  BY DEF RecordAppend, OneLoopInv
<1>3. pc'[f] \in {"report", "publish"} /\ ~WritesPending(f)' /\ stage' = stage /\ cut' = cut
  BY <1>1 DEF RecordAppend, FlowTypeOK, WritesPending, Goto, AppendHistory
<1>4. ASSUME ~cut'
      PROVE  HistoryLinked' /\ history'[Len(history')].to = stage'
  <2>1. HistoryLinked /\ (history # <<>> => history[Len(history)].to = view[f])
    BY <1>1, <1>3, <1>4 DEF OneLoopInv
  <2>2. view[f] \in Stage /\ AssignedStage(role[emitted[f]]) \in Stage
    BY <1>1, StagesTyped DEF FlowTypeOK
  <2>3. QED
    BY <1>1, <1>2, <1>3, <2>1, <2>2, HistoryLinks
<1>5. QED
  BY <1>3, <1>4 DEF OneLoopInv

(* A step of the queue leaves the loop what it knows. *)
LEMMA QueueOne ==
  ASSUME WorkflowInv, NEW f \in Flow, OneLoopInv(f), UNCHANGED <<stateVars, role, flowVars>>,
         \A r \in Result : answers[r] # NoMessage => answers'[r] = answers[r]
  PROVE  OneLoopInv(f)'
<1>1. /\ stage' = stage /\ history' = history /\ cut' = cut
      /\ pc' = pc /\ src' = src /\ emitted' = emitted /\ view' = view /\ role' = role
  BY DEF stateVars, flowVars
<1>2. pc[f] \in {"reread", "upsert", "append"} =>
        src[f] \in Result /\ answers'[src[f]] = answers[src[f]]
  BY DEF WorkflowInv, FlowInv
<1>3. (pc[f] \in {"reread", "upsert"} => stage = FromStage(src[f]))'
  BY <1>1, <1>2 DEF OneLoopInv, FromStage, IsQAResult
<1>4. (pc[f] = "append" => stage = ReviewStage(src[f]))'
  BY <1>1, <1>2 DEF OneLoopInv, ReviewStage, IsQAResult
<1>5. (pc[f] = "record_append" => stage = AssignedStage(role[emitted[f]]))'
  BY <1>1 DEF OneLoopInv, AssignedStage
<1>6. (~cut => HistoryLinked /\ (history # <<>> =>
         history[Len(history)].to = IF WritesPending(f) THEN view[f] ELSE stage))'
  BY <1>1 DEF OneLoopInv, HistoryLinked, WritesPending
<1>7. (pc[f] \in {"upsert", "record_upsert"} => view[f] = stage)'
  BY <1>1 DEF OneLoopInv
<1>8. QED
  BY <1>3, <1>4, <1>5, <1>6, <1>7 DEF OneLoopInv

(* Every step of the only loop keeps what it knows. *)
LEMMA FlowStepOne ==
  ASSUME WorkflowInv, NEW f \in Flow, OneLoopInv(f), FlowStep(f)
  PROVE  OneLoopInv(f)'
<1>1. CASE \E m \in Mode, s \in Source : Take(f, m, s)
  BY <1>1, TakeOne
<1>2. CASE Handle(f) \/ Evaluate(f) \/ Reread(f)
  BY <1>2, HandleOne, EvaluateOne, RereadOne
<1>3. CASE Upsert(f) \/ AppendTransition(f)
  BY <1>3, UpsertOne, AppendTransitionOne
<1>4. CASE \E a \in Assignment : PublishAssignment(f, a)
  BY <1>4, PublishAssignmentOne
<1>5. CASE PublishFails(f) \/ RecordRead(f) \/ RecordUpsert(f) \/ RecordAppend(f)
  BY <1>5, PublishFailsOne, RecordReadOne, RecordUpsertOne, RecordAppendOne
<1>6. CASE Report(f) \/ LoopDies(f) \/ LoopStarts(f)
  BY <1>6, ReportOne, LoopDiesOne, LoopStartsOne
<1>7. QED
  BY <1>1, <1>2, <1>3, <1>4, <1>5, <1>6 DEF FlowStep

(* Every step of a system with one loop keeps it. *)
LEMMA StepOne ==
  ASSUME NEW host, Flow = {host}, WorkflowInv, OneLoopInv(host), [WorkflowNext]_workflowVars
  PROVE  OneLoopInv(host)'
<1>1. CASE \E f \in Flow : FlowStep(f)
  BY <1>1, FlowStepOne
<1>2. CASE \E d \in Decision : SendDecision(d)
  BY <1>2, QueueOne DEF SendDecision
<1>3. CASE \E a \in Assignment, r \in Result : Answer(a, r)
  <2>1. PICK a \in Assignment, r \in Result : Answer(a, r)
    BY <1>3
  <2>2. \A x \in Result : answers[x] # NoMessage => answers'[x] = answers[x]
    BY <2>1 DEF Answer, WorkflowInv, WorkflowTypeOK
  <2>3. QED
    BY <2>1, <2>2, QueueOne DEF Answer
<1>4. CASE \E r \in Result : Resend(r)
  BY <1>4, QueueOne DEF Resend
<1>5. CASE UNCHANGED workflowVars
  BY <1>5, QueueOne DEF workflowVars, queueVars
<1>6. QED
  BY <1>1, <1>2, <1>3, <1>4, <1>5 DEF WorkflowNext

(* What the only loop knows holds in every reachable state. *)
THEOREM OneLoopInvariance ==
  ASSUME NEW host, Flow = {host}
  PROVE  WorkflowSpec => []OneLoopInv(host)
<1>1. WorkflowInit => OneLoopInv(host)
  BY DEF WorkflowInit, OneLoopInv, HistoryLinked
<1>2. WorkflowInv /\ OneLoopInv(host) /\ [WorkflowNext]_workflowVars => OneLoopInv(host)'
  BY StepOne
<1>3. QED
  BY <1>1, <1>2, WorkflowInvariance, PTL DEF WorkflowSpec

(* One TechLead loop never applies an illegal transition, with previews,    *)
(* deaths and duplicate deliveries, although it writes from a second read.  *)
THEOREM OneLoopFailsClosed ==
  ASSUME NEW host, Flow = {host}
  PROVE  WorkflowSpec => IllegalTransitionsFailClosed
<1>1. OneLoopInv(host) /\ [WorkflowNext]_workflowVars
        => [\A f \in Flow : pc[f] = "upsert" /\ pc'[f] = "append"
              => stage = FromStage(src[f])]_workflowVars
  BY DEF OneLoopInv
<1>2. QED
  BY <1>1, OneLoopInvariance, PTL DEF WorkflowSpec, IllegalTransitionsFailClosed

(* With one loop the history is the path of the state row, until a death    *)
(* cuts a transition in two.                                                *)
THEOREM OneLoopHistory ==
  ASSUME NEW host, Flow = {host}
  PROVE  WorkflowSpec => []HistoryTracksState
<1>1. OneLoopInv(host) => HistoryTracksState
  BY DEF OneLoopInv, HistoryLinked, HistoryTracksState, WritesPending
<1>2. QED
  BY <1>1, OneLoopInvariance, PTL

=============================================================================
