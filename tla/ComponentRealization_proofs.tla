-------------------- MODULE ComponentRealization_proofs --------------------
(***************************************************************************)
(* Proofs about the component-realization loop, for any component spec,    *)
(* any number of commands and any stale read: what a rewrite takes away is *)
(* put back, a completed plan is backed, the activity handed out is clear  *)
(* and the methodology execution keeps its implementation plan.            *)
(***************************************************************************)
EXTENDS ComponentRealization, FiniteSetTheorems, TLAPS

-----------------------------------------------------------------------------
(* What a command keeps in its locals. *)

JobsTyped == job \in [Call -> JobRecord] /\ pc \in [Call -> Pc]

(* Only command c moves. *)
OthersStay(c) == \A x \in Call \ {c} : pc'[x] = pc[x] /\ job'[x] = job[x]

OnlyJobOf(c) ==
  /\ job' \in [Call -> JobRecord] /\ job'[c].command = job[c].command
  /\ \A x \in Call \ {c} : job'[x] = job[x]

LEMMA NoJobTyped == NoJob \in JobRecord
BY DEF NoJob, JobRecord, PointerRecord, StateRecord, Nothing, Commands, Steps, Statuses, Authorities

LEMMA HoldsRow ==
  ASSUME NEW c \in Call, JobsTyped, NEW v \in PointerRecord,
         Holds(c, "row", v)
  PROVE  OnlyJobOf(c) /\ job'[c].row = v
BY DEF JobsTyped, Holds, JobRecord, OnlyJobOf

LEMMA HoldsLeft ==
  ASSUME NEW c \in Call, JobsTyped, NEW v \in SUBSET (Activity \cup Needs), Holds(c, "left", v)
  PROVE  OnlyJobOf(c) /\ job'[c].left = v
BY DEF JobsTyped, Holds, JobRecord, OnlyJobOf

LEMMA HoldsState ==
  ASSUME NEW c \in Call, JobsTyped, NEW v \in StateRecord, Holds(c, "state", v)
  PROVE  OnlyJobOf(c) /\ job'[c].state = v
BY DEF JobsTyped, Holds, JobRecord, OnlyJobOf

LEMMA HoldsNeeds ==
  ASSUME NEW c \in Call, JobsTyped, NEW v \in SUBSET Needs, Holds(c, "needs", v)
  PROVE  OnlyJobOf(c) /\ job'[c].needs = v /\ job'[c].state = job[c].state
BY DEF JobsTyped, Holds, JobRecord, OnlyJobOf

LEMMA KeepsNothing ==
  ASSUME NEW c \in Call, JobsTyped, Keeps(c, "left", {})
  PROVE  OnlyJobOf(c)
BY NoJobTyped DEF JobsTyped, Keeps, JobRecord, NoJob, OnlyJobOf

LEMMA KeepsStores ==
  ASSUME NEW c \in Call, JobsTyped, NEW v \in Authorities, Keeps(c, "stores", v)
  PROVE  OnlyJobOf(c) /\ job'[c].stores = v
BY NoJobTyped DEF JobsTyped, Keeps, JobRecord, NoJob, OnlyJobOf

LEMMA KeepsActivity ==
  ASSUME NEW c \in Call, JobsTyped, NEW v \in Activity, Keeps(c, "activity", v)
  PROVE  OnlyJobOf(c) /\ job'[c].activity = v
BY NoJobTyped DEF JobsTyped, Keeps, JobRecord, NoJob, OnlyJobOf

LEMMA KeepsFollow ==
  ASSUME NEW c \in Call, JobsTyped, Keeps(c, "follow", {"next"})
  PROVE  OnlyJobOf(c)
BY NoJobTyped DEF JobsTyped, Keeps, JobRecord, NoJob, OnlyJobOf

LEMMA Goes ==
  ASSUME NEW c \in Call, JobsTyped, NEW label \in Pc, Goto(c, label)
  PROVE  pc' \in [Call -> Pc] /\ pc'[c] = label /\ \A x \in Call \ {c} : pc'[x] = pc[x]
BY DEF JobsTyped, Goto

LEMMA Ends ==
  ASSUME NEW c \in Call, JobsTyped, Ended(c)
  PROVE  JobsTyped' /\ OthersStay(c) /\ OnlyJobOf(c) /\ pc'[c] = "done"
<1>1. pc' \in [Call -> Pc] /\ pc'[c] = "done" /\ \A x \in Call \ {c} : pc'[x] = pc[x]
  BY Goes DEF Ended, Pc
<1>2. OnlyJobOf(c)
  BY NoJobTyped DEF JobsTyped, Ended, JobRecord, NoJob, OnlyJobOf
<1>3. QED
  BY <1>1, <1>2 DEF JobsTyped, OnlyJobOf, OthersStay

LEMMA GoesOn ==
  ASSUME NEW c \in Call, JobsTyped, NEW label \in Pc, Goto(c, label), OnlyJobOf(c) \/ UNCHANGED job
  PROVE  JobsTyped' /\ OthersStay(c) /\ OnlyJobOf(c) /\ pc'[c] = label
<1>1. OnlyJobOf(c)
  BY DEF OnlyJobOf, JobsTyped
<1>2. QED
  BY <1>1, Goes DEF JobsTyped, OnlyJobOf, OthersStay

-----------------------------------------------------------------------------
(* What the progress service computes. *)

(* It stores one of the authority states the schema knows.                 *)
LEMMA AuthorityTyped ==
  ASSUME NEW s, NEW d, NEW f
  PROVE  AuthorityOf(s, d, f) \in Authorities
<1>1. Realization(s, d, f) \in {"blocked", "deferred", "not_started", "fully_realized", "partially_realized"}
  BY DEF Realization
<1>2. QED
  BY <1>1 DEF AuthorityOf, Authorities

(* The one next activity is an executable one.                             *)
LEMMA NextIsExecutable ==
  ASSUME NEW s, NEW d, NEW f, NextActivity(s, d, f) # NoActivity
  PROVE  NextActivity(s, d, f) \in Activity /\ NextActivity(s, d, f) \in Executable(s, d, f)
<1>1. Cardinality(Earliest(s, d, f)) = 1
  BY DEF NextActivity
<1>2. Earliest(s, d, f) # {}
  BY <1>1, FS_EmptySet
<1>3. Earliest(s, d, f) \subseteq Executable(s, d, f) /\ Executable(s, d, f) \subseteq Activity
  BY DEF Earliest, Executable, Class, Present
<1>4. \E a \in Activity : a \in Earliest(s, d, f)
  BY <1>2, <1>3
<1>5. NextActivity(s, d, f) = CHOOSE a \in Activity : a \in Earliest(s, d, f)
  BY <1>1 DEF NextActivity
<1>6. QED
  BY <1>3, <1>4, <1>5

(* An activity counts as completed only with no verification missing.      *)
LEMMA CompletedIsVerified ==
  ASSUME NEW s, NEW f, NEW a, Classified(s, f, a) = "completed"
  PROVE  s[a] = "completed" /\ f[a] # "missing"
BY DEF Classified

(* A plan with no activity absent or deferred is stored as completed only  *)
(* when every one of them is.                                              *)
LEMMA CompletedNeedsAll ==
  ASSUME NEW s, NEW d, NEW f, \A a \in Activity : s[a] \in {"open", "completed", "blocked"},
         AuthorityOf(s, d, f) = "completed"
  PROVE  \A a \in Activity : s[a] = "completed" /\ f[a] # "missing"
<1>1. Realization(s, d, f) = "fully_realized"
  <2>1. Realization(s, d, f) \in {"blocked", "deferred", "not_started", "fully_realized", "partially_realized"}
    BY DEF Realization
  <2>2. QED
    BY <2>1 DEF AuthorityOf
<1>2. Class(s, f, "open") = {} /\ Class(s, f, "blocked") = {}
  BY <1>1 DEF Realization
<1>3. ASSUME NEW a \in Activity PROVE Classified(s, f, a) = "completed"
  <2>1. Classified(s, f, a) \in {"open", "completed", "blocked"}
    BY DEF Classified
  <2>2. a \in Present(s)
    BY DEF Present
  <2>3. QED
    BY <1>2, <2>1, <2>2 DEF Class
<1>4. QED
  BY <1>3, CompletedIsVerified

-----------------------------------------------------------------------------
(* The steps. *)

CommandStep(c) ==
  \/ \E command \in Commands : Begin(c, command)
  \/ PreflightRow(c) \/ PreflightContext(c)
  \/ Lookup(c) \/ ClearDependencies(c) \/ ClearActivities(c) \/ UpsertPlan(c)
  \/ \E a \in Activity : UpsertActivity(c, a)
  \/ \E n \in Needs : UpsertDependency(c, n)
  \/ SetCompleted(c)
  \/ ReadActivities(c) \/ ReadDependencies(c) \/ ReadSurfaces(c)
  \/ WriteProgress(c) \/ Hand(c)
  \/ Resolve(c) \/ MovePointer(c) \/ AppendEvent(c)
  \/ DeleteBindings(c) \/ InsertBinding(c)

OutsideStep ==
  \/ \E c \in Call : Stops(c)
  \/ \E a \in Activity : \/ \E s \in States : SetState(a, s)
                         \/ Attach(a) \/ Verify(a)
  \/ \E p \in Positions, b \in BOOLEAN : OperatorMoves(p, b)

LEMMA NextIs == Next <=> (\E c \in Call : CommandStep(c)) \/ OutsideStep
BY DEF Next, CommandStep, OutsideStep

(* The invariant by its parts.                                             *)
PointerTyped == pointer \in PointerRecord

RowsTyped ==
  /\ state \in StateRecord
  /\ needs \subseteq {n \in Needs : {n[1], n[2]} \subseteq Present(state)}
  /\ surface \in [Activity -> Surfaces]
  /\ \A a \in Activity : state[a] = "absent" => surface[a] = "none"

LocalsKnow ==
  /\ \A c \in Call : pc[c] = "handed" => job[c].activity \in Activity
  /\ \A c \in Call : pc[c] = "move" => job[c].row.at = "reconcile"
  /\ \A c \in Call : /\ pc[c] = "idle" => job[c].command = "next"
                     /\ pc[c] \in MaterializePc => job[c].command = "materialize"

PlanTyped == planned \in BOOLEAN /\ authority \in Authorities

CountersTyped == events \in 0..Cardinality(Call) /\ bindings \in 0..(1 + Cardinality(Call))

TypedParts ==
  /\ JobsTyped /\ PointerTyped /\ RowsTyped /\ LocalsKnow /\ PlanTyped /\ CountersTyped
  /\ stopped \subseteq Call /\ changes \in [Kinds -> Nat]

LEMMA RealizationParts ==
  RealizationInv <=> TypedParts /\ CountersOK /\ RowsRestored /\ ProgressInv /\ ContextInv
BY Zenon DEF RealizationInv, RealizationTypeOK, JobsOK, JobsTyped, PointerTyped, RowsTyped, LocalsKnow,
             PlanTyped, CountersTyped, TypedParts

LEMMA RealizationPartsAfter ==
  RealizationInv' <=> TypedParts' /\ CountersOK' /\ RowsRestored' /\ ProgressInv' /\ ContextInv'
BY Zenon DEF RealizationInv, RealizationTypeOK, JobsOK, JobsTyped, PointerTyped, RowsTyped, LocalsKnow,
             PlanTyped, CountersTyped, TypedParts

-----------------------------------------------------------------------------
(* Where each step of a command leaves it. *)

Moved(c, labels) ==
  JobsTyped' /\ OthersStay(c) /\ OnlyJobOf(c) /\ pc'[c] \in labels

(* A step that ends the command or goes on.                                *)
LEMMA MovedOn ==
  ASSUME NEW c \in Call, JobsTyped, NEW label \in Pc,
         Ended(c) \/ (Goto(c, label) /\ (OnlyJobOf(c) \/ UNCHANGED job))
  PROVE  Moved(c, {"done", label})
BY Ends, GoesOn DEF Moved

LEMMA BeginMoves ==
  ASSUME JobsTyped, NEW c \in Call, NEW command \in Commands, Begin(c, command)
  PROVE  /\ JobsTyped' /\ OthersStay(c) /\ job'[c].command = command
         /\ pc'[c] \in {"row", "lookup", "set", "resolve", "read"}
         /\ command = "materialize" => pc'[c] \in {"row", "lookup"}
         /\ pc'[c] = "lookup" => command = "materialize"
<1>1. PICK a \in Activity \cup {NoActivity}, follow \in SUBSET {"reconcile", "next", "bind"} :
        job' = [job EXCEPT ![c] = [NoJob EXCEPT !.command = command, !.activity = a, !.follow = follow]]
  BY DEF Begin, Targets, Options
<1>2. [NoJob EXCEPT !.command = command, !.activity = a, !.follow = follow] \in JobRecord
  BY NoJobTyped DEF JobRecord
<1>3. /\ job' \in [Call -> JobRecord] /\ job'[c].command = command
      /\ \A x \in Call \ {c} : job'[x] = job[x]
  BY <1>1, <1>2 DEF JobsTyped, NoJob
<1>4. \E label \in {"row", "lookup", "set", "resolve", "read"} :
         /\ Goto(c, label)
         /\ command = "materialize" => label \in {"row", "lookup"}
         /\ label = "lookup" => command = "materialize"
  BY DEF Begin, First, Commands
<1>5. /\ pc' \in [Call -> Pc] /\ pc'[c] \in {"row", "lookup", "set", "resolve", "read"}
      /\ command = "materialize" => pc'[c] \in {"row", "lookup"}
      /\ pc'[c] = "lookup" => command = "materialize"
      /\ \A x \in Call \ {c} : pc'[x] = pc[x]
  BY <1>4, Goes DEF Pc
<1>6. QED
  BY <1>3, <1>5 DEF JobsTyped, OthersStay

LEMMA PreflightRowMoves ==
  ASSUME JobsTyped, PointerTyped, NEW c \in Call, PreflightRow(c)
  PROVE  Moved(c, {"context"})
BY HoldsRow, GoesOn DEF PreflightRow, PointerTyped, Moved, Pc

LEMMA PreflightContextMoves ==
  ASSUME JobsTyped, NEW c \in Call, PreflightContext(c)
  PROVE  /\ Moved(c, {"done", "lookup", "set", "resolve", "read"})
         /\ pc'[c] = "lookup" => job[c].command = "materialize"
<1>1. /\ First(job[c].command) \in {"lookup", "set", "resolve", "read"}
      /\ First(job[c].command) = "lookup" => job[c].command = "materialize"
  BY DEF First
<1>2. First(job[c].command) \in Pc
  BY <1>1 DEF Pc
<1>3. Moved(c, {"done", First(job[c].command)})
  BY <1>2, KeepsNothing, MovedOn DEF PreflightContext
<1>4. QED
  BY <1>1, <1>3 DEF Moved

LEMMA RewriteMoves ==
  ASSUME JobsTyped, NEW c \in Call
  PROVE  /\ Lookup(c) => Moved(c, {IF planned THEN "clear_dependencies" ELSE "plan"}) /\ UNCHANGED job
         /\ ClearDependencies(c) => Moved(c, {"clear_activities"}) /\ UNCHANGED job
         /\ ClearActivities(c) => Moved(c, {"plan"}) /\ UNCHANGED job
         /\ UpsertPlan(c) => Moved(c, {"activities"}) /\ job'[c].left = Activity
<1>1. "clear_dependencies" \in Pc /\ "plan" \in Pc /\ "clear_activities" \in Pc /\ "activities" \in Pc
  BY DEF Pc, Rewriting
<1>2. ASSUME Lookup(c) PROVE Moved(c, {IF planned THEN "clear_dependencies" ELSE "plan"}) /\ UNCHANGED job
  BY <1>1, <1>2, GoesOn DEF Lookup, Moved
<1>3. ASSUME ClearDependencies(c) PROVE Moved(c, {"clear_activities"}) /\ UNCHANGED job
  BY <1>1, <1>3, GoesOn DEF ClearDependencies, Moved
<1>4. ASSUME ClearActivities(c) PROVE Moved(c, {"plan"}) /\ UNCHANGED job
  BY <1>1, <1>4, GoesOn DEF ClearActivities, Moved
<1>5. ASSUME UpsertPlan(c) PROVE Moved(c, {"activities"}) /\ job'[c].left = Activity
  <2>1. OnlyJobOf(c) /\ job'[c].left = Activity
    BY <1>5, HoldsLeft DEF UpsertPlan
  <2>2. QED
    BY <1>1, <1>5, <2>1, GoesOn DEF UpsertPlan, Moved
<1>6. QED
  BY <1>2, <1>3, <1>4, <1>5

LEMMA UpsertActivityMoves ==
  ASSUME JobsTyped, NEW c \in Call, NEW a \in Activity, UpsertActivity(c, a)
  PROVE  /\ Moved(c, {"activities", "dependencies", "done"})
         /\ pc'[c] = "activities" => job'[c].left = job[c].left \ {a}
         /\ pc'[c] = "dependencies" => job'[c].left = Needs
         /\ pc'[c] # "activities" => job[c].left = {a}
         /\ pc'[c] = "done" => Needs = {}
<1>0. job[c].left \in SUBSET (Activity \cup Needs) /\ pc[c] = "activities" /\ {"activities", "dependencies"} \subseteq Pc
  BY DEF JobsTyped, JobRecord, UpsertActivity, At, Pc, Rewriting
<1>1. CASE job[c].left # {a}
  <2>1. Holds(c, "left", job[c].left \ {a}) /\ UNCHANGED pc
    BY <1>1 DEF UpsertActivity
  <2>2. job[c].left \ {a} \in SUBSET (Activity \cup Needs)
    BY <1>0
  <2>3. OnlyJobOf(c) /\ job'[c].left = job[c].left \ {a}
    BY <2>1, <2>2, HoldsLeft
  <2>4. QED
    BY <1>0, <2>1, <2>3 DEF Moved, OthersStay, OnlyJobOf, JobsTyped
<1>2. CASE job[c].left = {a} /\ Needs = {}
  BY <1>2, Ends DEF UpsertActivity, Moved
<1>3. CASE job[c].left = {a} /\ Needs # {}
  <2>1. Holds(c, "left", Needs) /\ Goto(c, "dependencies")
    BY <1>3 DEF UpsertActivity
  <2>2. OnlyJobOf(c) /\ job'[c].left = Needs
    BY <2>1, HoldsLeft
  <2>3. QED
    BY <1>0, <1>3, <2>1, <2>2, GoesOn DEF Moved
<1>4. QED
  BY <1>1, <1>2, <1>3

LEMMA UpsertDependencyMoves ==
  ASSUME JobsTyped, NEW c \in Call, NEW n \in Needs, UpsertDependency(c, n)
  PROVE  /\ Moved(c, {"dependencies", "done"})
         /\ pc'[c] = "dependencies" => job'[c].left = job[c].left \ {n}
         /\ pc'[c] = "done" => job[c].left = {n}
<1>0. job[c].left \in SUBSET (Activity \cup Needs) /\ pc[c] = "dependencies"
  BY DEF JobsTyped, JobRecord, UpsertDependency, At
<1>1. CASE job[c].left # {n}
  <2>1. Holds(c, "left", job[c].left \ {n}) /\ UNCHANGED pc
    BY <1>1 DEF UpsertDependency
  <2>2. job[c].left \ {n} \in SUBSET (Activity \cup Needs)
    BY <1>0
  <2>3. OnlyJobOf(c) /\ job'[c].left = job[c].left \ {n}
    BY <2>1, <2>2, HoldsLeft
  <2>4. QED
    BY <1>0, <2>1, <2>3 DEF Moved, OthersStay, OnlyJobOf, JobsTyped
<1>2. CASE job[c].left = {n}
  BY <1>2, Ends DEF UpsertDependency, Moved
<1>3. QED
  BY <1>1, <1>2

LEMMA ReadMoves ==
  ASSUME JobsTyped, RowsTyped, NEW c \in Call
  PROVE  /\ SetCompleted(c) => Moved(c, {"read", "done"})
         /\ ReadActivities(c) =>
              /\ Moved(c, {"read_dependencies", "done"})
              /\ pc'[c] = "read_dependencies" => planned /\ job'[c].state = state
         /\ ReadDependencies(c) =>
              /\ Moved(c, {"read_surfaces"})
              /\ job'[c].state = job[c].state /\ job'[c].needs = needs
         /\ ReadSurfaces(c) =>
              /\ Moved(c, {"write", "handed", "done"})
              /\ pc'[c] = "write" => job'[c].stores = AuthorityOf(job[c].state, job[c].needs, surface)
              /\ pc'[c] = "handed" => /\ job'[c].activity = NextActivity(job[c].state, job[c].needs, surface)
                                     /\ job'[c].activity # NoActivity
         /\ WriteProgress(c) => Moved(c, {"read", "done"})
         /\ Hand(c) => Moved(c, {"done"})
<1>0. {"read", "read_dependencies", "read_surfaces", "write", "handed"} \subseteq Pc
  BY DEF Pc
<1>1. ASSUME SetCompleted(c) PROVE Moved(c, {"read", "done"})
  BY <1>0, <1>1, KeepsNothing, Ends, GoesOn DEF SetCompleted, Moved
<1>2. ASSUME ReadActivities(c)
      PROVE  /\ Moved(c, {"read_dependencies", "done"})
             /\ pc'[c] = "read_dependencies" => planned /\ job'[c].state = state
  <2>1. CASE planned
    <3>1. OnlyJobOf(c) /\ job'[c].state = state
      BY <1>2, <2>1, HoldsState DEF ReadActivities, RowsTyped
    <3>2. QED
      BY <1>0, <1>2, <2>1, <3>1, GoesOn DEF ReadActivities, Moved
  <2>2. CASE ~ planned
    BY <1>2, <2>2, Ends DEF ReadActivities, Moved
  <2>3. QED
    BY <2>1, <2>2
<1>3. ASSUME ReadDependencies(c)
      PROVE  Moved(c, {"read_surfaces"}) /\ job'[c].state = job[c].state /\ job'[c].needs = needs
  <2>1. OnlyJobOf(c) /\ job'[c].state = job[c].state /\ job'[c].needs = needs
    BY <1>3, HoldsNeeds DEF ReadDependencies, RowsTyped
  <2>2. QED
    BY <1>0, <1>3, <2>1, GoesOn DEF ReadDependencies, Moved
<1>4. ASSUME ReadSurfaces(c)
      PROVE  /\ Moved(c, {"write", "handed", "done"})
             /\ pc'[c] = "write" => job'[c].stores = AuthorityOf(job[c].state, job[c].needs, surface)
             /\ pc'[c] = "handed" => /\ job'[c].activity = NextActivity(job[c].state, job[c].needs, surface)
                                    /\ job'[c].activity # NoActivity
  <2>1. CASE Reconciling(c)
    <3>1. OnlyJobOf(c) /\ job'[c].stores = AuthorityOf(job[c].state, job[c].needs, surface)
      BY <1>4, <2>1, KeepsStores, AuthorityTyped DEF ReadSurfaces
    <3>2. QED
      BY <1>0, <1>4, <2>1, <3>1, GoesOn DEF ReadSurfaces, Moved
  <2>2. CASE ~ Reconciling(c) /\ NextActivity(job[c].state, job[c].needs, surface) = NoActivity
    BY <1>4, <2>2, Ends DEF ReadSurfaces, Moved
  <2>3. CASE ~ Reconciling(c) /\ NextActivity(job[c].state, job[c].needs, surface) # NoActivity
    <3>1. OnlyJobOf(c) /\ job'[c].activity = NextActivity(job[c].state, job[c].needs, surface)
      BY <1>4, <2>3, KeepsActivity, NextIsExecutable DEF ReadSurfaces
    <3>2. QED
      BY <1>0, <1>4, <2>3, <3>1, GoesOn DEF ReadSurfaces, Moved
  <2>4. QED
    BY <2>1, <2>2, <2>3
<1>5. ASSUME WriteProgress(c) PROVE Moved(c, {"read", "done"})
  BY <1>0, <1>5, KeepsFollow, Ends, GoesOn DEF WriteProgress, Moved
<1>6. ASSUME Hand(c) PROVE Moved(c, {"done"})
  BY <1>6, Ends DEF Hand, Moved
<1>7. QED
  BY <1>1, <1>2, <1>3, <1>4, <1>5, <1>6

LEMMA TransitionMoves ==
  ASSUME JobsTyped, PointerTyped, NEW c \in Call
  PROVE  /\ Resolve(c) =>
              /\ Moved(c, {"move", "done"})
              /\ pc'[c] = "move" => job'[c].row = pointer /\ pointer.at = "reconcile"
         /\ MovePointer(c) => Moved(c, {"event"})
         /\ AppendEvent(c) => Moved(c, {"unbind", "done"})
         /\ DeleteBindings(c) => Moved(c, {"bind"}) /\ UNCHANGED job
         /\ InsertBinding(c) => Moved(c, {"done"})
<1>0. {"move", "event", "unbind", "bind"} \subseteq Pc
  BY DEF Pc
<1>1. ASSUME Resolve(c)
      PROVE  /\ Moved(c, {"move", "done"})
             /\ pc'[c] = "move" => job'[c].row = pointer /\ pointer.at = "reconcile"
  <2>1. CASE pointer.at = "reconcile" /\ pointer.status = "active"
    <3>1. OnlyJobOf(c) /\ job'[c].row = pointer
      BY <1>1, <2>1, HoldsRow DEF Resolve, PointerTyped
    <3>2. QED
      BY <1>0, <1>1, <2>1, <3>1, GoesOn DEF Resolve, Moved
  <2>2. CASE ~ (pointer.at = "reconcile" /\ pointer.status = "active")
    BY <1>1, <2>2, Ends DEF Resolve, Moved
  <2>3. QED
    BY <2>1, <2>2
<1>2. ASSUME MovePointer(c) PROVE Moved(c, {"event"})
  BY <1>0, <1>2, KeepsNothing, GoesOn DEF MovePointer, Moved
<1>3. ASSUME AppendEvent(c) PROVE Moved(c, {"unbind", "done"})
  BY <1>0, <1>3, Ends, GoesOn DEF AppendEvent, Moved
<1>4. ASSUME DeleteBindings(c) PROVE Moved(c, {"bind"}) /\ UNCHANGED job
  BY <1>0, <1>4, GoesOn DEF DeleteBindings, Moved
<1>5. ASSUME InsertBinding(c) PROVE Moved(c, {"done"})
  BY <1>5, Ends DEF InsertBinding, Moved
<1>6. QED
  BY <1>1, <1>2, <1>3, <1>4, <1>5

-----------------------------------------------------------------------------
(* The locals, whatever command moves. *)

Early(c) == job[c].command = "materialize" => pc[c] \in {"row", "context"}

LocalsOf(c) ==
  /\ pc[c] = "handed" => job[c].activity \in Activity
  /\ pc[c] = "move" => job[c].row.at = "reconcile"
  /\ pc[c] = "idle" => job[c].command = "next"
  /\ pc[c] \in MaterializePc => job[c].command = "materialize"

LEMMA LocalsOfAll ==
  ASSUME TypedParts, NEW c \in Call
  PROVE  LocalsOf(c)
<1>1. LocalsKnow
  BY DEF TypedParts
<1>2. QED
  BY <1>1 DEF LocalsKnow, LocalsOf

LEMMA LocalsOfAllAfter ==
  ASSUME \A c \in Call : LocalsOf(c)'
  PROVE  LocalsKnow'
BY DEF LocalsKnow, LocalsOf

(* What a step of command c does to the locals.                            *)
LocalStep(c) ==
  /\ JobsTyped' /\ OthersStay(c) /\ LocalsOf(c)'
  /\ pc[c] # "done" /\ pc'[c] # "idle"
  /\ Early(c)' => Early(c)

LEMMA BeginLocal ==
  ASSUME TypedParts, NEW c \in Call, NEW command \in Commands, Begin(c, command)
  PROVE  LocalStep(c)
<1>1. pc[c] = "idle" /\ job[c].command = "next"
  BY LocalsOfAll DEF Begin, LocalsOf
<1>2. JobsTyped
  BY DEF TypedParts
<1>3. /\ JobsTyped' /\ OthersStay(c) /\ job'[c].command = command
      /\ pc'[c] \in {"row", "lookup", "set", "resolve", "read"}
      /\ pc'[c] = "lookup" => command = "materialize"
  BY <1>2, BeginMoves
<1>4. QED
  BY <1>1, <1>3 DEF LocalStep, LocalsOf, Early, MaterializePc, Rewriting

LEMMA PreflightLocal ==
  ASSUME TypedParts, NEW c \in Call, PreflightRow(c) \/ PreflightContext(c)
  PROVE  LocalStep(c)
<1>1. JobsTyped /\ PointerTyped
  BY DEF TypedParts
<1>2. pc[c] \in {"row", "context"}
  BY DEF PreflightRow, PreflightContext, At
<1>3. /\ Moved(c, {"context", "done", "lookup", "set", "resolve", "read"})
      /\ pc'[c] = "lookup" => job[c].command = "materialize"
  BY <1>1, PreflightRowMoves, PreflightContextMoves DEF Moved
<1>4. QED
  BY <1>2, <1>3 DEF LocalStep, Moved, OnlyJobOf, LocalsOf, Early, MaterializePc, Rewriting

LEMMA RewriteLocal ==
  ASSUME TypedParts, NEW c \in Call,
         \/ Lookup(c) \/ ClearDependencies(c) \/ ClearActivities(c) \/ UpsertPlan(c)
         \/ \E a \in Activity : UpsertActivity(c, a)
         \/ \E n \in Needs : UpsertDependency(c, n)
  PROVE  LocalStep(c) /\ ~ Early(c) /\ pc[c] \in MaterializePc
<1>1. JobsTyped /\ PointerTyped
  BY DEF TypedParts
<1>2. pc[c] \in MaterializePc
  BY DEF Lookup, ClearDependencies, ClearActivities, UpsertPlan, UpsertActivity, UpsertDependency, At,
         MaterializePc, Rewriting
<1>3. job[c].command = "materialize"
  BY <1>2, LocalsOfAll DEF LocalsOf
<1>4. Moved(c, {"clear_dependencies", "plan", "clear_activities", "activities", "dependencies", "done"})
  BY <1>1, RewriteMoves, UpsertActivityMoves, UpsertDependencyMoves DEF Moved
<1>5. QED
  BY <1>2, <1>3, <1>4 DEF LocalStep, Moved, OnlyJobOf, LocalsOf, Early, MaterializePc, Rewriting

LEMMA ReadLocal ==
  ASSUME TypedParts, NEW c \in Call,
         \/ SetCompleted(c) \/ ReadActivities(c) \/ ReadDependencies(c) \/ ReadSurfaces(c)
         \/ WriteProgress(c) \/ Hand(c)
  PROVE  LocalStep(c)
<1>1. JobsTyped /\ RowsTyped
  BY DEF TypedParts
<1>2. pc[c] \in {"set", "read", "read_dependencies", "read_surfaces", "write", "handed"}
  BY DEF SetCompleted, ReadActivities, ReadDependencies, ReadSurfaces, WriteProgress, Hand, At
<1>3. Moved(c, {"read", "done", "read_dependencies", "read_surfaces", "write", "handed"})
  BY <1>1, ReadMoves DEF Moved
<1>4. pc'[c] = "handed" => job'[c].activity \in Activity
  BY <1>1, ReadMoves, NextIsExecutable DEF Moved
<1>5. QED
  BY <1>2, <1>3, <1>4 DEF LocalStep, Moved, OnlyJobOf, LocalsOf, Early, MaterializePc, Rewriting

LEMMA TransitionLocal ==
  ASSUME TypedParts, NEW c \in Call,
         Resolve(c) \/ MovePointer(c) \/ AppendEvent(c) \/ DeleteBindings(c) \/ InsertBinding(c)
  PROVE  LocalStep(c)
<1>1. JobsTyped /\ PointerTyped
  BY DEF TypedParts
<1>2. pc[c] \in {"resolve", "move", "event", "unbind", "bind"}
  BY DEF Resolve, MovePointer, AppendEvent, DeleteBindings, InsertBinding, At
<1>3. /\ Moved(c, {"move", "done", "event", "unbind", "bind"})
      /\ pc'[c] = "move" => job'[c].row.at = "reconcile"
  BY <1>1, TransitionMoves DEF Moved
<1>4. QED
  BY <1>2, <1>3 DEF LocalStep, Moved, OnlyJobOf, LocalsOf, Early, MaterializePc, Rewriting

LEMMA CommandLocals ==
  ASSUME TypedParts, NEW c \in Call, CommandStep(c)
  PROVE  LocalStep(c) /\ LocalsKnow' /\ UNCHANGED <<stopped, changes>>
<1>1. LocalStep(c)
  BY BeginLocal, PreflightLocal, RewriteLocal, ReadLocal, TransitionLocal DEF CommandStep
<1>2. ASSUME NEW x \in Call PROVE LocalsOf(x)'
  BY <1>1, LocalsOfAll DEF LocalStep, OthersStay, LocalsOf
<1>3. LocalsKnow'
  BY <1>2, LocalsOfAllAfter
<1>4. UNCHANGED <<stopped, changes>>
  <2>1. CASE \/ \E command \in Commands : Begin(c, command)
             \/ PreflightRow(c) \/ PreflightContext(c)
             \/ Lookup(c) \/ ClearDependencies(c) \/ ClearActivities(c) \/ UpsertPlan(c)
             \/ \E a \in Activity : UpsertActivity(c, a)
             \/ \E n \in Needs : UpsertDependency(c, n)
    BY <2>1 DEF Begin, PreflightRow, PreflightContext, Lookup, ClearDependencies, ClearActivities,
                UpsertPlan, UpsertActivity, UpsertDependency
  <2>2. CASE \/ SetCompleted(c) \/ ReadActivities(c) \/ ReadDependencies(c) \/ ReadSurfaces(c)
             \/ WriteProgress(c) \/ Hand(c) \/ Resolve(c) \/ MovePointer(c) \/ AppendEvent(c)
             \/ DeleteBindings(c) \/ InsertBinding(c)
    BY <2>2 DEF SetCompleted, ReadActivities, ReadDependencies, ReadSurfaces, WriteProgress, Hand,
                Resolve, MovePointer, AppendEvent, DeleteBindings, InsertBinding
  <2>3. QED
    BY <2>1, <2>2 DEF CommandStep
<1>5. QED
  BY <1>1, <1>3, <1>4

-----------------------------------------------------------------------------
(* What each step does to the methodology rows. *)

Elsewhere(c) ==
  \/ \E command \in Commands : Begin(c, command)
  \/ PreflightRow(c) \/ PreflightContext(c)
  \/ Lookup(c) \/ ClearDependencies(c) \/ ClearActivities(c) \/ UpsertPlan(c)
  \/ \E a \in Activity : UpsertActivity(c, a)
  \/ \E n \in Needs : UpsertDependency(c, n)
  \/ SetCompleted(c) \/ ReadActivities(c) \/ ReadDependencies(c) \/ ReadSurfaces(c)
  \/ WriteProgress(c) \/ Hand(c)

LEMMA ElsewhereLeaves ==
  ASSUME TypedParts, NEW c \in Call, Elsewhere(c)
  PROVE  /\ UNCHANGED methodology
         /\ pc[c] \notin {"resolve", "move", "event", "unbind", "bind", "done"} /\ pc'[c] \notin {"move", "bind"}
<1>0. JobsTyped /\ PointerTyped /\ RowsTyped
  BY DEF TypedParts
<1>1. CASE \E command \in Commands : Begin(c, command)
  BY <1>0, <1>1, BeginMoves DEF Begin
<1>2. CASE PreflightRow(c) \/ PreflightContext(c)
  BY <1>0, <1>2, PreflightRowMoves, PreflightContextMoves DEF PreflightRow, PreflightContext, At, Moved
<1>3. CASE Lookup(c) \/ ClearDependencies(c) \/ ClearActivities(c) \/ UpsertPlan(c)
  BY <1>0, <1>3, RewriteMoves DEF Lookup, ClearDependencies, ClearActivities, UpsertPlan, At, Moved
<1>4. CASE \E a \in Activity : UpsertActivity(c, a)
  BY <1>0, <1>4, UpsertActivityMoves DEF UpsertActivity, At, Moved
<1>5. CASE \E n \in Needs : UpsertDependency(c, n)
  BY <1>0, <1>5, UpsertDependencyMoves DEF UpsertDependency, At, Moved
<1>6. CASE SetCompleted(c) \/ ReadActivities(c) \/ ReadDependencies(c) \/ ReadSurfaces(c)
           \/ WriteProgress(c) \/ Hand(c)
  BY <1>0, <1>6, ReadMoves
  DEF SetCompleted, ReadActivities, ReadDependencies, ReadSurfaces, WriteProgress, Hand, At, Moved
<1>7. QED
  BY <1>1, <1>2, <1>3, <1>4, <1>5, <1>6 DEF Elsewhere

LEMMA CommandIs ==
  ASSUME NEW c \in Call, CommandStep(c)
  PROVE  \/ Elsewhere(c)
         \/ Resolve(c) \/ MovePointer(c) \/ AppendEvent(c) \/ DeleteBindings(c) \/ InsertBinding(c)
BY DEF CommandStep, Elsewhere

(* A change from outside is counted, and no count goes back.               *)
LEMMA CountsIs ==
  ASSUME changes \in [Kinds -> Nat], NEW k \in Kinds, Counts(k)
  PROVE  changes' \in [Kinds -> Nat] /\ changes'[k] > 0 /\ \A j \in Kinds : changes'[j] = 0 => changes[j] = 0
BY DEF Counts

LEMMA OutsideCounts ==
  ASSUME TypedParts, OutsideStep
  PROVE  /\ changes' \in [Kinds -> Nat] /\ \A j \in Kinds : changes'[j] = 0 => changes[j] = 0
         /\ UNCHANGED <<pc, job, bindings, events, planned, authority, needs>> /\ stopped' \subseteq Call
<1>0. changes \in [Kinds -> Nat] /\ stopped \subseteq Call
  BY DEF TypedParts
<1>1. CASE \E c \in Call : Stops(c)
  BY <1>0, <1>1, CountsIs DEF Stops, Kinds, methodology, plan, rows
<1>2. CASE \E a \in Activity, s \in States : SetState(a, s)
  <2>1. PICK a \in Activity, s \in States : SetState(a, s)
    BY <1>2
  <2>2. \E k \in Kinds : Counts(k)
    BY <2>1 DEF SetState, Kinds
  <2>3. QED
    BY <1>0, <2>1, <2>2, CountsIs DEF SetState, methodology
<1>3. CASE \E a \in Activity : Attach(a) \/ Verify(a)
  BY <1>0, <1>3, CountsIs DEF Attach, Verify, Kinds, methodology
<1>4. CASE \E p \in Positions, b \in BOOLEAN : OperatorMoves(p, b)
  BY <1>0, <1>4, CountsIs DEF OperatorMoves, Kinds, plan, rows
<1>5. QED
  BY <1>1, <1>2, <1>3, <1>4 DEF OutsideStep

(* What an outside step does to the rows and the pointer.                  *)
LEMMA OutsideIs ==
  ASSUME TypedParts, OutsideStep
  PROVE  \/ UNCHANGED <<pointer, state, surface>>
         \/ UNCHANGED <<pointer, surface>> /\ \E a \in Activity, s \in States : SetState(a, s)
         \/ UNCHANGED <<pointer, state>> /\ \E a \in Activity : Attach(a) \/ Verify(a)
         \/ UNCHANGED <<state, surface>> /\ \E p \in Positions, b \in BOOLEAN : OperatorMoves(p, b)
BY DEF OutsideStep, Stops, SetState, Attach, Verify, OperatorMoves, methodology, plan, rows

LEMMA PointerStays ==
  ASSUME TypedParts, (\E c \in Call : CommandStep(c)) \/ OutsideStep
  PROVE  PointerTyped'
<1>0. PointerTyped /\ job \in [Call -> JobRecord]
  BY DEF TypedParts, JobsTyped
<1>1. ASSUME NEW c \in Call, CommandStep(c) PROVE PointerTyped'
  <2>1. CASE Elsewhere(c)
    BY <1>0, <2>1, ElsewhereLeaves DEF PointerTyped, methodology
  <2>2. CASE MovePointer(c)
    <3>1. job[c].row \in PointerRecord
      BY <1>0 DEF JobRecord
    <3>2. pointer' = [job[c].row EXCEPT !.at = "derive", !.status = "ready"]
      BY <2>2 DEF MovePointer
    <3>3. pointer' \in PointerRecord
      BY <3>1, <3>2 DEF PointerRecord, Steps, Statuses
    <3>4. QED
      BY <3>3 DEF PointerTyped
  <2>3. CASE Resolve(c) \/ AppendEvent(c) \/ DeleteBindings(c) \/ InsertBinding(c)
    BY <1>0, <2>3 DEF Resolve, AppendEvent, DeleteBindings, InsertBinding, PointerTyped, methodology
  <2>4. QED
    BY <1>1, <2>1, <2>2, <2>3, CommandIs
<1>2. CASE OutsideStep
  <2>1. CASE pointer' = pointer
    BY <1>0, <2>1 DEF PointerTyped
  <2>2. CASE \E p \in Positions, b \in BOOLEAN : OperatorMoves(p, b)
    BY <2>2, RealizationAssumption DEF OperatorMoves, Row, PointerTyped, PointerRecord
  <2>3. QED
    BY <1>2, <2>1, <2>2, OutsideIs
<1>3. QED
  BY <1>1, <1>2

-----------------------------------------------------------------------------
(* Each command appends one event and one binding at most. *)

AppendedBy == {c \in Call : pc[c] \in {"unbind", "bind", "done"}}
OverBy == {c \in Call : pc[c] = "done"}

LEMMA Grows ==
  ASSUME NEW S, NEW T, S \subseteq T, T \subseteq Call
  PROVE  /\ Cardinality(S) \in Nat /\ Cardinality(T) \in Nat /\ Cardinality(S) <= Cardinality(T)
         /\ \A c \in T \ S : Cardinality(S) + 1 <= Cardinality(T)
<1>1. IsFiniteSet(T) /\ IsFiniteSet(S)
  BY RealizationAssumption, FS_Subset
<1>2. Cardinality(S) \in Nat /\ Cardinality(T) \in Nat /\ Cardinality(S) <= Cardinality(T)
  BY <1>1, FS_CardinalityType, FS_Subset
<1>3. ASSUME NEW c \in T \ S PROVE Cardinality(S) + 1 <= Cardinality(T)
  <2>1. Cardinality(S \cup {c}) = Cardinality(S) + 1
    BY <1>1, <1>3, FS_AddElement
  <2>2. Cardinality(S \cup {c}) <= Cardinality(T)
    BY <1>1, <1>3, FS_Subset
  <2>3. QED
    BY <2>1, <2>2
<1>4. QED
  BY <1>2, <1>3

LEMMA CountersBy ==
  /\ CountersOK <=> events <= Cardinality(AppendedBy) /\ bindings <= 1 + Cardinality(OverBy)
  /\ CountersOK' <=> events' <= Cardinality(AppendedBy') /\ bindings' <= 1 + Cardinality(OverBy')
BY DEF CountersOK, AppendedBy, OverBy

LEMMA CountersInRange ==
  ASSUME NEW e \in Nat, NEW b \in Nat, NEW A, NEW O, A \subseteq Call, O \subseteq Call,
         e <= Cardinality(A), b <= 1 + Cardinality(O)
  PROVE  e \in 0..Cardinality(Call) /\ b \in 0..(1 + Cardinality(Call))
BY Grows

LEMMA CountersStep ==
  ASSUME TypedParts, CountersOK, NEW c \in Call, CommandStep(c)
  PROVE  CountersOK' /\ CountersTyped'
<1>0. /\ JobsTyped /\ PointerTyped /\ RowsTyped /\ events \in Nat /\ bindings \in Nat
      /\ LocalStep(c)
  BY CommandLocals DEF TypedParts, CountersTyped
<1>1. /\ pc[c] \in {"unbind", "bind"} => pc'[c] \in {"bind", "done"}
      /\ events' = events \/ (events' = events + 1 /\ pc[c] = "event" /\ pc'[c] \in {"unbind", "done"})
      /\ bindings' \in {bindings, 0} \/ (bindings' = bindings + 1 /\ pc[c] = "bind" /\ pc'[c] = "done")
  <2>1. CASE Elsewhere(c)
    BY <2>1, ElsewhereLeaves DEF methodology
  <2>2. CASE Resolve(c) \/ MovePointer(c)
    BY <2>2 DEF Resolve, MovePointer, At, methodology
  <2>3. CASE AppendEvent(c)
    BY <1>0, <2>3, TransitionMoves DEF AppendEvent, At, Moved
  <2>4. CASE DeleteBindings(c)
    BY <1>0, <2>4, TransitionMoves DEF DeleteBindings, At, Moved
  <2>5. CASE InsertBinding(c)
    BY <1>0, <2>5, TransitionMoves DEF InsertBinding, At, Moved
  <2>6. QED
    BY <2>1, <2>2, <2>3, <2>4, <2>5, CommandIs
<1>2. AppendedBy \subseteq AppendedBy' /\ OverBy \subseteq OverBy' /\ AppendedBy' \subseteq Call /\ OverBy' \subseteq Call
  BY <1>0, <1>1 DEF AppendedBy, OverBy, LocalStep, OthersStay
<1>3. events' <= Cardinality(AppendedBy') /\ events' \in Nat
  <2>1. events <= Cardinality(AppendedBy)
    BY CountersBy
  <2>2. CASE events' = events
    BY <1>0, <1>2, <2>1, <2>2, Grows
  <2>3. CASE events' = events + 1 /\ pc[c] = "event" /\ pc'[c] \in {"unbind", "done"}
    <3>1. c \in AppendedBy' \ AppendedBy
      BY <2>3 DEF AppendedBy
    <3>2. QED
      BY <1>0, <1>2, <2>1, <2>3, <3>1, Grows
  <2>4. QED
    BY <1>1, <2>2, <2>3
<1>4. bindings' <= 1 + Cardinality(OverBy') /\ bindings' \in Nat
  <2>1. bindings <= 1 + Cardinality(OverBy)
    BY CountersBy
  <2>2. CASE bindings' \in {bindings, 0}
    BY <1>0, <1>2, <2>1, <2>2, Grows
  <2>3. CASE bindings' = bindings + 1 /\ pc[c] = "bind" /\ pc'[c] = "done"
    <3>1. c \in OverBy' \ OverBy
      BY <2>3 DEF OverBy
    <3>2. QED
      BY <1>0, <1>2, <2>1, <2>3, <3>1, Grows
  <2>4. QED
    BY <1>1, <2>2, <2>3
<1>5. CountersTyped'
  BY <1>2, <1>3, <1>4, CountersInRange DEF CountersTyped
<1>6. QED
  BY <1>3, <1>4, <1>5, CountersBy

-----------------------------------------------------------------------------
(* What a rewrite takes away is put back. *)

AbsentRestored == planned => \A a \in Activity : state[a] = "absent" => \E c \in Call : Restores(c, a)
MissingRelinked == planned => \A n \in Needs \ needs : \E c \in Call : Relinks(c, n)

LEMMA RestoredBy ==
  /\ RowsRestored <=> AbsentRestored /\ MissingRelinked
  /\ RowsRestored' <=> AbsentRestored' /\ MissingRelinked'
BY DEF RowsRestored, AbsentRestored, MissingRelinked

(* A command that does not move goes on owing what it owed.                *)
LEMMA OthersOwe ==
  ASSUME NEW c \in Call, OthersStay(c), NEW x \in Call \ {c}
  PROVE  /\ \A a \in Activity : Restores(x, a) => Restores(x, a)'
         /\ \A n \in Needs : Relinks(x, n) => Relinks(x, n)'
BY DEF OthersStay, Restores, Relinks

(* A step that takes no row away, of a command that owes none.             *)
LEMMA OwedByOthers ==
  ASSUME RowsRestored, NEW c \in Call, OthersStay(c), pc[c] \notin Rewriting, UNCHANGED planned,
         \A a \in Activity : state'[a] = "absent" => state[a] = "absent",
         Needs \ needs' \subseteq Needs \ needs
  PROVE  RowsRestored'
<1>1. ASSUME planned, NEW a \in Activity, state'[a] = "absent"
      PROVE  \E x \in Call : Restores(x, a)'
  <2>1. PICK x \in Call : Restores(x, a)
    BY <1>1, RestoredBy DEF AbsentRestored
  <2>2. x # c
    BY <2>1 DEF Restores, Rewriting
  <2>3. QED
    BY <2>1, <2>2, OthersOwe
<1>2. ASSUME planned, NEW n \in Needs \ needs'
      PROVE  \E x \in Call : Relinks(x, n)'
  <2>1. PICK x \in Call : Relinks(x, n)
    BY <1>2, RestoredBy DEF MissingRelinked
  <2>2. x # c
    BY <2>1 DEF Relinks, Rewriting
  <2>3. QED
    BY <2>1, <2>2, OthersOwe
<1>3. AbsentRestored'
  BY <1>1 DEF AbsentRestored
<1>4. MissingRelinked'
  BY <1>2 DEF MissingRelinked
<1>5. QED
  BY <1>3, <1>4, RestoredBy

(* A command at these statements owes all that is missing.                 *)
LEMMA OwesAll ==
  ASSUME NEW c \in Call
  PROVE  /\ pc'[c] = "plan" \/ (pc'[c] = "activities" /\ job'[c].left = Activity) => RowsRestored'
         /\ AbsentRestored' /\ pc'[c] = "clear_activities" => RowsRestored'
<1>1. ASSUME pc'[c] = "plan" \/ (pc'[c] = "activities" /\ job'[c].left = Activity) PROVE RowsRestored'
  <2>1. (\A a \in Activity : Restores(c, a)') /\ (\A n \in Needs : Relinks(c, n)')
    BY <1>1 DEF Restores, Relinks
  <2>2. AbsentRestored' /\ MissingRelinked'
    BY <2>1 DEF AbsentRestored, MissingRelinked
  <2>3. QED
    BY <2>2, RestoredBy
<1>2. ASSUME AbsentRestored', pc'[c] = "clear_activities" PROVE RowsRestored'
  <2>1. \A n \in Needs : Relinks(c, n)'
    BY <1>2 DEF Relinks
  <2>2. MissingRelinked'
    BY <2>1 DEF MissingRelinked
  <2>3. QED
    BY <1>2, <2>2, RestoredBy
<1>3. QED
  BY <1>1, <1>2

LEMMA ClearingOwes ==
  ASSUME TypedParts, RowsRestored, NEW c \in Call, ClearDependencies(c) \/ ClearActivities(c) \/ UpsertPlan(c)
  PROVE  RowsTyped' /\ RowsRestored'
<1>0. JobsTyped /\ RowsTyped
  BY DEF TypedParts
<1>1. CASE ClearDependencies(c)
  <2>1. pc'[c] = "clear_activities" /\ OthersStay(c) /\ pc[c] = "clear_dependencies"
    BY <1>0, <1>1, RewriteMoves DEF Moved, ClearDependencies, At
  <2>2. ASSUME planned, NEW a \in Activity, state[a] = "absent" PROVE \E x \in Call : Restores(x, a)'
    <3>1. PICK x \in Call : Restores(x, a)
      BY <2>2, RestoredBy DEF AbsentRestored
    <3>2. x # c
      BY <2>1, <3>1 DEF Restores
    <3>3. QED
      BY <2>1, <3>1, <3>2, OthersOwe
  <2>3. AbsentRestored'
    BY <1>1, <2>2 DEF AbsentRestored, ClearDependencies
  <2>4. RowsTyped'
    BY <1>0, <1>1 DEF RowsTyped, ClearDependencies
  <2>5. QED
    BY <2>1, <2>3, <2>4, OwesAll
<1>2. CASE ClearActivities(c)
  <2>1. pc'[c] = "plan"
    BY <1>0, <1>2, RewriteMoves DEF Moved
  <2>2. RowsTyped'
    BY <1>2 DEF RowsTyped, ClearActivities, Nothing, StateRecord, Surfaces
  <2>3. QED
    BY <2>1, <2>2, OwesAll
<1>3. CASE UpsertPlan(c)
  <2>1. pc'[c] = "activities" /\ job'[c].left = Activity
    BY <1>0, <1>3, RewriteMoves DEF Moved
  <2>2. RowsTyped'
    BY <1>0, <1>3 DEF RowsTyped, UpsertPlan, rows, Present
  <2>3. QED
    BY <2>1, <2>2, OwesAll
<1>4. QED
  BY <1>1, <1>2, <1>3

LEMMA UpsertActivityOwes ==
  ASSUME TypedParts, RowsRestored, NEW c \in Call, NEW a \in Activity, UpsertActivity(c, a)
  PROVE  RowsTyped' /\ RowsRestored'
<1>0. JobsTyped /\ RowsTyped /\ pc[c] = "activities"
  BY DEF TypedParts, UpsertActivity, At
<1>1. /\ Moved(c, {"activities", "dependencies", "done"})
      /\ pc'[c] = "activities" => job'[c].left = job[c].left \ {a}
      /\ pc'[c] = "dependencies" => job'[c].left = Needs
      /\ pc'[c] # "activities" => job[c].left = {a}
      /\ pc'[c] = "done" => Needs = {}
  BY <1>0, UpsertActivityMoves
<1>2. state' = [state EXCEPT ![a] = "open"] /\ UNCHANGED <<planned, needs, surface>>
  BY DEF UpsertActivity
<1>3. RowsTyped'
  BY <1>0, <1>2 DEF RowsTyped, StateRecord, States, Present
<1>4. ASSUME planned, NEW b \in Activity, state'[b] = "absent" PROVE \E x \in Call : Restores(x, b)'
  <2>1. b # a /\ state[b] = "absent"
    BY <1>0, <1>2, <1>4 DEF RowsTyped, StateRecord
  <2>2. PICK x \in Call : Restores(x, b)
    BY <1>4, <2>1, RestoredBy DEF AbsentRestored
  <2>3. CASE x # c
    BY <1>1, <2>2, <2>3, OthersOwe DEF Moved
  <2>4. CASE x = c
    <3>1. b \in job[c].left
      BY <1>0, <2>2, <2>4 DEF Restores
    <3>2. pc'[c] = "activities" /\ b \in job'[c].left
      BY <1>1, <2>1, <3>1
    <3>3. QED
      BY <3>2 DEF Restores
  <2>5. QED
    BY <2>3, <2>4
<1>5. ASSUME planned, NEW n \in Needs \ needs PROVE \E x \in Call : Relinks(x, n)'
  <2>1. PICK x \in Call : Relinks(x, n)
    BY <1>5, RestoredBy DEF MissingRelinked
  <2>2. CASE x # c
    BY <1>1, <2>1, <2>2, OthersOwe DEF Moved
  <2>3. CASE x = c
    <3>1. pc'[c] = "activities" \/ (pc'[c] = "dependencies" /\ n \in job'[c].left)
      BY <1>1, <1>5 DEF Moved
    <3>2. QED
      BY <3>1 DEF Relinks
  <2>4. QED
    BY <2>2, <2>3
<1>6. AbsentRestored'
  BY <1>2, <1>4 DEF AbsentRestored
<1>7. MissingRelinked'
  BY <1>2, <1>5 DEF MissingRelinked
<1>8. QED
  BY <1>3, <1>6, <1>7, RestoredBy

(* A dependency whose activities are not both there is not inserted, and   *)
(* then another rewrite, that owes the activity, owes the dependency too.  *)
LEMMA UpsertDependencyOwes ==
  ASSUME TypedParts, RowsRestored, NEW c \in Call, NEW n \in Needs, UpsertDependency(c, n)
  PROVE  RowsTyped' /\ RowsRestored'
<1>0. JobsTyped /\ RowsTyped /\ pc[c] = "dependencies"
  BY DEF TypedParts, UpsertDependency, At
<1>1. /\ Moved(c, {"dependencies", "done"})
      /\ pc'[c] = "dependencies" => job'[c].left = job[c].left \ {n}
      /\ pc'[c] = "done" => job[c].left = {n}
  BY <1>0, UpsertDependencyMoves
<1>2. /\ needs' = IF {n[1], n[2]} \subseteq Present(state) THEN needs \cup {n} ELSE needs
      /\ UNCHANGED <<planned, state, surface>>
  BY DEF UpsertDependency
<1>3. RowsTyped'
  BY <1>0, <1>2 DEF RowsTyped, Present
<1>4. ASSUME planned, NEW a \in Activity, state[a] = "absent" PROVE \E x \in Call \ {c} : Restores(x, a)
  <2>1. PICK x \in Call : Restores(x, a)
    BY <1>4, RestoredBy DEF AbsentRestored
  <2>2. x # c
    BY <1>0, <2>1 DEF Restores
  <2>3. QED
    BY <2>1, <2>2
<1>5. ASSUME planned, NEW m \in Needs \ needs' PROVE \E x \in Call : Relinks(x, m)'
  <2>1. m \in Needs \ needs
    BY <1>2, <1>5
  <2>2. PICK x \in Call : Relinks(x, m)
    BY <1>5, <2>1, RestoredBy DEF MissingRelinked
  <2>3. CASE x # c
    BY <1>1, <2>2, <2>3, OthersOwe DEF Moved
  <2>4. CASE x = c /\ m # n
    <3>1. m \in job[c].left
      BY <1>0, <2>2, <2>4 DEF Relinks
    <3>2. pc'[c] = "dependencies" /\ m \in job'[c].left
      BY <1>1, <2>4, <3>1 DEF Moved
    <3>3. QED
      BY <3>2 DEF Relinks
  <2>5. CASE m = n
    <3>1. PICK a \in Activity : state[a] = "absent"
      <4>1. n[1] \in Activity /\ n[2] \in Activity
        BY RealizationAssumption
      <4>2. ~ ({n[1], n[2]} \subseteq Present(state))
        BY <1>2, <1>5, <2>5
      <4>3. QED
        BY <4>1, <4>2 DEF Present
    <3>2. PICK y \in Call \ {c} : Restores(y, a)
      BY <1>4, <1>5, <3>1
    <3>3. Relinks(y, m)
      BY <3>2 DEF Restores, Relinks
    <3>4. QED
      BY <1>1, <3>2, <3>3, OthersOwe DEF Moved
  <2>6. QED
    BY <2>3, <2>4, <2>5
<1>6. AbsentRestored'
  <2>1. ASSUME planned, NEW a \in Activity, state[a] = "absent" PROVE \E x \in Call : Restores(x, a)'
    BY <1>1, <1>4, <2>1, OthersOwe DEF Moved
  <2>2. QED
    BY <1>2, <2>1 DEF AbsentRestored
<1>7. MissingRelinked'
  BY <1>2, <1>5 DEF MissingRelinked
<1>8. QED
  BY <1>3, <1>6, <1>7, RestoredBy

(* The remaining steps of a command rewrite nothing.                       *)
Plain(c) ==
  \/ \E command \in Commands : Begin(c, command)
  \/ PreflightRow(c) \/ PreflightContext(c) \/ Lookup(c) \/ Hand(c)
  \/ ReadActivities(c) \/ ReadDependencies(c) \/ ReadSurfaces(c) \/ WriteProgress(c)
  \/ Resolve(c) \/ MovePointer(c) \/ AppendEvent(c) \/ DeleteBindings(c) \/ InsertBinding(c)

LEMMA PlainLeavesRows ==
  ASSUME NEW c \in Call, Plain(c)
  PROVE  UNCHANGED <<planned, rows>> /\ pc[c] \notin Rewriting
<1>1. CASE \/ \E command \in Commands : Begin(c, command)
           \/ PreflightRow(c) \/ PreflightContext(c) \/ Lookup(c) \/ Hand(c)
  BY <1>1 DEF Begin, PreflightRow, PreflightContext, Lookup, Hand, At, plan, Rewriting
<1>2. CASE ReadActivities(c) \/ ReadDependencies(c) \/ ReadSurfaces(c) \/ WriteProgress(c)
  BY <1>2 DEF ReadActivities, ReadDependencies, ReadSurfaces, WriteProgress, At, plan, Rewriting
<1>3. CASE Resolve(c) \/ MovePointer(c) \/ AppendEvent(c) \/ DeleteBindings(c) \/ InsertBinding(c)
  BY <1>3 DEF Resolve, MovePointer, AppendEvent, DeleteBindings, InsertBinding, At, plan, Rewriting
<1>4. QED
  BY <1>1, <1>2, <1>3 DEF Plain

LEMMA RowsStep ==
  ASSUME TypedParts, RowsRestored, NEW c \in Call, CommandStep(c)
  PROVE  RowsTyped' /\ RowsRestored'
<1>0. LocalStep(c) /\ OthersStay(c) /\ RowsTyped
  BY CommandLocals DEF LocalStep, TypedParts
<1>1. CASE Plain(c)
  <2>1. UNCHANGED <<planned, state, needs, surface>> /\ pc[c] \notin Rewriting
    BY <1>1, PlainLeavesRows DEF rows
  <2>2. RowsTyped'
    BY <1>0, <2>1 DEF RowsTyped, Present
  <2>3. QED
    BY <1>0, <2>1, <2>2, OwedByOthers
<1>2. CASE SetCompleted(c)
  <2>1. /\ state' = [a \in Activity |->
                 IF a = job[c].activity /\ a \in Present(state) THEN "completed" ELSE state[a]]
        /\ UNCHANGED <<planned, needs, surface>> /\ pc[c] = "set"
    BY <1>2 DEF SetCompleted, At
  <2>2. /\ state' \in StateRecord /\ Present(state)' = Present(state)
        /\ \A a \in Activity : state'[a] = "absent" <=> state[a] = "absent"
    BY <1>0, <2>1 DEF RowsTyped, Present, StateRecord, States
  <2>3. RowsTyped'
    BY <1>0, <2>1, <2>2 DEF RowsTyped
  <2>4. pc[c] \notin Rewriting
    BY <2>1 DEF Rewriting
  <2>5. QED
    BY <1>0, <2>1, <2>2, <2>3, <2>4, OwedByOthers
<1>3. QED
  BY <1>1, <1>2, ClearingOwes, UpsertActivityOwes, UpsertDependencyOwes DEF CommandStep, Plain

LEMMA RowsOutside ==
  ASSUME TypedParts, RowsRestored, OutsideStep
  PROVE  RowsTyped' /\ RowsRestored'
<1>0. RowsTyped /\ UNCHANGED <<pc, job, planned, needs>>
  BY OutsideCounts DEF TypedParts
<1>1. RowsTyped' /\ \A a \in Activity : state'[a] = "absent" => state[a] = "absent"
  <2>1. CASE UNCHANGED <<state, surface>>
    BY <1>0, <2>1 DEF RowsTyped, Present
  <2>2. CASE UNCHANGED surface /\ \E a \in Activity, s \in States : SetState(a, s)
    <3>1. PICK a \in Activity, s \in States : a \in Present(state) /\ state' = [state EXCEPT ![a] = s]
      BY <2>2 DEF SetState
    <3>2. /\ state' \in StateRecord /\ Present(state)' = Present(state)
          /\ \A b \in Activity : state'[b] = "absent" <=> state[b] = "absent"
      BY <1>0, <3>1 DEF RowsTyped, Present, StateRecord, States
    <3>3. QED
      BY <1>0, <2>2, <3>2 DEF RowsTyped
  <2>3. CASE UNCHANGED state /\ \E a \in Activity : Attach(a) \/ Verify(a)
    <3>1. /\ surface' \in [Activity -> Surfaces]
          /\ \A a \in Activity : state[a] = "absent" => surface'[a] = "none"
      BY <1>0, <2>3 DEF RowsTyped, Attach, Verify, Present, Surfaces
    <3>2. QED
      BY <1>0, <2>3, <3>1 DEF RowsTyped, Present
  <2>4. QED
    BY <2>1, <2>2, <2>3, OutsideIs
<1>2. (\A c \in Call : \A a \in Activity : Restores(c, a) => Restores(c, a)')
      /\ (\A c \in Call : \A n \in Needs : Relinks(c, n) => Relinks(c, n)')
  BY <1>0 DEF Restores, Relinks
<1>3. AbsentRestored'
  BY <1>0, <1>1, <1>2, RestoredBy DEF AbsentRestored
<1>4. MissingRelinked'
  BY <1>0, <1>2, RestoredBy DEF MissingRelinked
<1>5. QED
  BY <1>1, <1>3, <1>4, RestoredBy

-----------------------------------------------------------------------------
(* While there is only progress, what was read is still true. *)

OnlyEarly == \A c \in Call : Early(c)

LEMMA ProgressIs ==
  /\ OnlyProgress <=> OnlyEarly /\ changes["withdraw"] = 0 /\ changes["attach"] = 0
  /\ OnlyProgress' <=> OnlyEarly' /\ changes'["withdraw"] = 0 /\ changes'["attach"] = 0
BY DEF OnlyProgress, OnlyEarly, Early

PlanComplete == planned => needs = Needs /\ \A a \in Activity : state[a] \in {"open", "completed", "blocked"}
AuthorityBacked == authority = "completed" => \A a \in Activity : Verified(a)

LEMMA ProgressParts ==
  /\ ProgressInv <=> (OnlyProgress => PlanComplete /\ AuthorityBacked /\ \A c \in Call : ReadStillTrue(c))
  /\ ProgressInv' <=> (OnlyProgress' => PlanComplete' /\ AuthorityBacked' /\ \A c \in Call : ReadStillTrue(c)')
BY DEF ProgressInv, PlanComplete, AuthorityBacked

(* Nothing that was completed or verified is taken back.                   *)
Advances ==
  /\ planned' = planned /\ needs' = needs
  /\ \A a \in Activity : /\ state[a] = "completed" => state'[a] = "completed"
                         /\ Verified(a) => Verified(a)'
                         /\ state[a] \in {"open", "completed", "blocked"} => state'[a] \in {"open", "completed", "blocked"}

LEMMA StaysTrue ==
  ASSUME Advances, NEW c \in Call, pc'[c] = pc[c], job'[c] = job[c], ReadStillTrue(c)
  PROVE  ReadStillTrue(c)'
<1>1. \A n \in Needs : n[1] \in Activity
  BY RealizationAssumption
<1>2. pc'[c] \in {"read_dependencies", "read_surfaces"} => planned'
  BY DEF ReadStillTrue, Advances
<1>3. pc'[c] \in {"read_dependencies", "read_surfaces"} =>
        \A a \in Activity : /\ job'[c].state[a] \in {"open", "completed", "blocked"}
                            /\ job'[c].state[a] = "completed" => state'[a] = "completed"
  BY DEF ReadStillTrue, Advances
<1>4. pc'[c] = "read_surfaces" => job'[c].needs = Needs
  BY DEF ReadStillTrue
<1>5. pc'[c] = "write" /\ job'[c].stores = "completed" => \A a \in Activity : Verified(a)'
  BY DEF ReadStillTrue, Advances
<1>6. pc'[c] = "handed" => \A n \in Needs : n[2] = job'[c].activity => Verified(n[1])'
  BY <1>1 DEF ReadStillTrue, Advances
<1>7. QED
  BY <1>2, <1>3, <1>4, <1>5, <1>6 DEF ReadStillTrue

(* A step that advances, of a command that reads nothing in it.            *)
LEMMA AdvancesKeep ==
  ASSUME Advances, PlanComplete, AuthorityBacked
  PROVE  PlanComplete' /\ (authority' = authority => AuthorityBacked')
<1>1. PlanComplete'
  BY DEF PlanComplete, Advances
<1>2. ASSUME authority' = authority PROVE AuthorityBacked'
  BY <1>2 DEF AuthorityBacked, Advances
<1>3. QED
  BY <1>1, <1>2

LEMMA UnchangedAdvances ==
  ASSUME UNCHANGED <<planned, needs, state, surface>>
  PROVE  Advances
BY DEF Advances, Verified

LEMMA OnlyProgressBack ==
  ASSUME TypedParts, NEW c \in Call, CommandStep(c), OnlyProgress'
  PROVE  OnlyProgress /\ Early(c)
<1>1. LocalStep(c) /\ UNCHANGED changes
  BY CommandLocals
<1>2. ASSUME NEW x \in Call PROVE Early(x)
  BY <1>1, ProgressIs DEF OnlyEarly, LocalStep, OthersStay, Early
<1>3. QED
  BY <1>1, <1>2, ProgressIs DEF OnlyEarly

Quiet(c) ==
  \/ \E command \in Commands : Begin(c, command)
  \/ PreflightRow(c) \/ PreflightContext(c) \/ Hand(c)
  \/ Resolve(c) \/ MovePointer(c) \/ AppendEvent(c) \/ DeleteBindings(c) \/ InsertBinding(c)

LEMMA QuietReads ==
  ASSUME TypedParts, NEW c \in Call, Quiet(c)
  PROVE  UNCHANGED plan /\ pc'[c] \notin {"read_dependencies", "read_surfaces", "write", "handed"}
<1>0. JobsTyped /\ PointerTyped /\ RowsTyped
  BY DEF TypedParts
<1>1. CASE \E command \in Commands : Begin(c, command)
  BY <1>0, <1>1, BeginMoves DEF Begin
<1>2. CASE PreflightRow(c) \/ PreflightContext(c)
  BY <1>0, <1>2, PreflightRowMoves, PreflightContextMoves DEF PreflightRow, PreflightContext, Moved
<1>3. CASE Hand(c)
  BY <1>0, <1>3, ReadMoves DEF Hand, Moved
<1>4. CASE Resolve(c) \/ MovePointer(c) \/ AppendEvent(c) \/ DeleteBindings(c) \/ InsertBinding(c)
  BY <1>0, <1>4, TransitionMoves
  DEF Resolve, MovePointer, AppendEvent, DeleteBindings, InsertBinding, Moved
<1>5. QED
  BY <1>1, <1>2, <1>3, <1>4 DEF Quiet

(* What a command reads, computes and stores.                              *)
LEMMA ReadingIsTrue ==
  ASSUME TypedParts, PlanComplete, AuthorityBacked, NEW c \in Call, ReadStillTrue(c),
         SetCompleted(c) \/ ReadActivities(c) \/ ReadDependencies(c) \/ ReadSurfaces(c) \/ WriteProgress(c)
  PROVE  Advances /\ AuthorityBacked' /\ ReadStillTrue(c)'
<1>0. JobsTyped /\ RowsTyped
  BY DEF TypedParts
<1>1. CASE SetCompleted(c)
  <2>1. /\ state' = [a \in Activity |->
                 IF a = job[c].activity /\ a \in Present(state) THEN "completed" ELSE state[a]]
        /\ UNCHANGED <<planned, authority, needs, surface>>
    BY <1>1 DEF SetCompleted
  <2>2. Advances
    BY <2>1 DEF Advances, Verified
  <2>3. pc'[c] \in {"read", "done"}
    BY <1>0, <1>1, ReadMoves DEF Moved
  <2>4. ReadStillTrue(c)'
    BY <2>3 DEF ReadStillTrue
  <2>5. QED
    BY <2>1, <2>2, <2>4, AdvancesKeep
<1>2. CASE ReadActivities(c)
  <2>1. UNCHANGED plan
    BY <1>2 DEF ReadActivities
  <2>2. Advances /\ AuthorityBacked'
    BY <2>1, UnchangedAdvances, AdvancesKeep DEF plan, rows
  <2>3. /\ pc'[c] \in {"read_dependencies", "done"}
        /\ pc'[c] = "read_dependencies" => planned /\ job'[c].state = state
    BY <1>0, <1>2, ReadMoves DEF Moved
  <2>4. ReadStillTrue(c)'
    BY <2>1, <2>3 DEF ReadStillTrue, PlanComplete, plan, rows
  <2>5. QED
    BY <2>2, <2>4
<1>3. CASE ReadDependencies(c)
  <2>1. UNCHANGED plan /\ pc[c] = "read_dependencies"
    BY <1>3 DEF ReadDependencies, At
  <2>2. Advances /\ AuthorityBacked'
    BY <2>1, UnchangedAdvances, AdvancesKeep DEF plan, rows
  <2>3. pc'[c] = "read_surfaces" /\ job'[c].state = job[c].state /\ job'[c].needs = needs
    BY <1>0, <1>3, ReadMoves DEF Moved
  <2>4. ReadStillTrue(c)'
    BY <2>1, <2>3 DEF ReadStillTrue, PlanComplete, plan, rows
  <2>5. QED
    BY <2>2, <2>4
<1>4. CASE ReadSurfaces(c)
  <2>1. UNCHANGED plan /\ pc[c] = "read_surfaces"
    BY <1>4 DEF ReadSurfaces, At
  <2>2. Advances /\ AuthorityBacked'
    BY <2>1, UnchangedAdvances, AdvancesKeep DEF plan, rows
  <2>3. /\ pc'[c] \in {"write", "handed", "done"}
        /\ pc'[c] = "write" => job'[c].stores = AuthorityOf(job[c].state, job[c].needs, surface)
        /\ pc'[c] = "handed" => /\ job'[c].activity = NextActivity(job[c].state, job[c].needs, surface)
                               /\ job'[c].activity # NoActivity
    BY <1>0, <1>4, ReadMoves DEF Moved
  <2>4. /\ \A a \in Activity : /\ job[c].state[a] \in {"open", "completed", "blocked"}
                               /\ job[c].state[a] = "completed" => state[a] = "completed"
        /\ job[c].needs = Needs
    BY <2>1 DEF ReadStillTrue
  <2>5. ASSUME pc'[c] = "write", job'[c].stores = "completed", NEW a \in Activity PROVE Verified(a)'
    <3>1. job[c].state[a] = "completed" /\ surface[a] # "missing"
      BY <2>3, <2>4, <2>5, CompletedNeedsAll
    <3>2. QED
      BY <2>1, <2>4, <3>1 DEF Verified, plan, rows
  <2>6. ASSUME pc'[c] = "handed", NEW n \in Needs, n[2] = job'[c].activity PROVE Verified(n[1])'
    <3>1. job'[c].activity \in Executable(job[c].state, job[c].needs, surface)
      BY <2>3, <2>6, NextIsExecutable
    <3>2. Classified(job[c].state, surface, n[1]) = "completed"
      BY <2>4, <2>6, <3>1 DEF Executable
    <3>3. job[c].state[n[1]] = "completed" /\ surface[n[1]] # "missing" /\ n[1] \in Activity
      BY <3>2, CompletedIsVerified, RealizationAssumption
    <3>4. QED
      BY <2>1, <2>4, <3>3 DEF Verified, plan, rows
  <2>7. ReadStillTrue(c)'
    BY <2>3, <2>5, <2>6 DEF ReadStillTrue
  <2>8. QED
    BY <2>2, <2>7
<1>5. CASE WriteProgress(c)
  <2>1. UNCHANGED <<planned, rows>> /\ pc[c] = "write" /\ authority' = job[c].stores
    BY <1>5 DEF WriteProgress, At
  <2>2. Advances
    BY <2>1, UnchangedAdvances DEF rows
  <2>3. AuthorityBacked'
    BY <2>1 DEF AuthorityBacked, ReadStillTrue, Verified, rows
  <2>4. pc'[c] \in {"read", "done"}
    BY <1>0, <1>5, ReadMoves DEF Moved
  <2>5. ReadStillTrue(c)'
    BY <2>4 DEF ReadStillTrue
  <2>6. QED
    BY <2>2, <2>3, <2>5
<1>6. QED
  BY <1>1, <1>2, <1>3, <1>4, <1>5

LEMMA ProgressStep ==
  ASSUME TypedParts, ProgressInv, NEW c \in Call, CommandStep(c)
  PROVE  ProgressInv'
<1>1. SUFFICES ASSUME OnlyProgress'
      PROVE  PlanComplete' /\ AuthorityBacked' /\ \A x \in Call : ReadStillTrue(x)'
  BY ProgressParts
<1>2. Early(c) /\ PlanComplete /\ AuthorityBacked /\ \A x \in Call : ReadStillTrue(x)
  BY <1>1, OnlyProgressBack, ProgressParts
<1>3. OthersStay(c)
  BY CommandLocals DEF LocalStep
<1>4. Advances /\ AuthorityBacked' /\ ReadStillTrue(c)'
  <2>1. CASE Quiet(c)
    <3>1. UNCHANGED plan /\ pc'[c] \notin {"read_dependencies", "read_surfaces", "write", "handed"}
      BY <2>1, QuietReads
    <3>2. Advances /\ AuthorityBacked'
      BY <1>2, <3>1, UnchangedAdvances, AdvancesKeep DEF plan, rows
    <3>3. ReadStillTrue(c)'
      BY <3>1 DEF ReadStillTrue
    <3>4. QED
      BY <3>2, <3>3
  <2>2. CASE SetCompleted(c) \/ ReadActivities(c) \/ ReadDependencies(c) \/ ReadSurfaces(c) \/ WriteProgress(c)
    BY <1>2, <2>2, ReadingIsTrue
  <2>3. QED
    BY <1>2, <2>1, <2>2, RewriteLocal DEF CommandStep, Quiet
<1>5. ASSUME NEW x \in Call PROVE ReadStillTrue(x)'
  BY <1>2, <1>3, <1>4, StaysTrue DEF OthersStay
<1>6. QED
  BY <1>2, <1>4, <1>5, AdvancesKeep

LEMMA ProgressOutside ==
  ASSUME TypedParts, ProgressInv, OutsideStep
  PROVE  ProgressInv'
<1>1. SUFFICES ASSUME OnlyProgress'
      PROVE  PlanComplete' /\ AuthorityBacked' /\ \A x \in Call : ReadStillTrue(x)'
  BY ProgressParts
<1>2. /\ UNCHANGED <<pc, job, planned, authority, needs>>
      /\ \A j \in Kinds : changes'[j] = 0 => changes[j] = 0
      /\ RowsTyped /\ changes \in [Kinds -> Nat] /\ {"withdraw", "attach", "set", "verify"} \subseteq Kinds
  BY OutsideCounts DEF TypedParts, Kinds
<1>3. OnlyProgress
  BY <1>1, <1>2, ProgressIs DEF OnlyEarly, Early
<1>4. PlanComplete /\ AuthorityBacked /\ \A x \in Call : ReadStillTrue(x)
  BY <1>3, ProgressParts
<1>5. changes'["withdraw"] = 0 /\ changes'["attach"] = 0
  BY <1>1, ProgressIs
<1>6. Advances
  <2>1. CASE UNCHANGED <<state, surface>>
    BY <1>2, <2>1, UnchangedAdvances
  <2>2. CASE UNCHANGED surface /\ \E a \in Activity, s \in States : SetState(a, s)
    <3>1. PICK a \in Activity, s \in States : SetState(a, s)
      BY <2>2
    <3>2. ~ (s = "deferred" \/ state[a] \in {"completed", "deferred"})
      <4>1. SUFFICES ASSUME s = "deferred" \/ state[a] \in {"completed", "deferred"} PROVE FALSE
        OBVIOUS
      <4>2. Counts("withdraw")
        BY <3>1, <4>1 DEF SetState
      <4>3. changes'["withdraw"] > 0
        BY <1>2, <4>2, CountsIs
      <4>4. QED
        BY <1>5, <4>3
    <3>3. state' = [state EXCEPT ![a] = s]
      BY <3>1 DEF SetState
    <3>4. \A b \in Activity : /\ state[b] = "completed" => state'[b] = "completed"
                              /\ state[b] \in {"open", "completed", "blocked"} =>
                                   state'[b] \in {"open", "completed", "blocked"}
      BY <1>2, <3>2, <3>3 DEF RowsTyped, StateRecord, States
    <3>5. QED
      BY <1>2, <2>2, <3>4 DEF Advances, Verified
  <2>3. CASE UNCHANGED state /\ \E a \in Activity : Verify(a)
    <3>1. PICK a \in Activity : surface' = [surface EXCEPT ![a] = "passed"]
      BY <2>3 DEF Verify
    <3>2. \A b \in Activity : surface[b] # "missing" => surface'[b] # "missing"
      BY <1>2, <3>1 DEF RowsTyped
    <3>3. QED
      BY <1>2, <2>3, <3>2 DEF Advances, Verified
  <2>4. ASSUME NEW a \in Activity, Attach(a) PROVE FALSE
    <3>1. Counts("attach")
      BY <2>4 DEF Attach
    <3>2. changes'["attach"] > 0
      BY <1>2, <3>1, CountsIs
    <3>3. QED
      BY <1>5, <3>2
  <2>5. QED
    BY <2>1, <2>2, <2>3, <2>4, OutsideIs
<1>7. PlanComplete' /\ AuthorityBacked'
  BY <1>2, <1>4, <1>6, AdvancesKeep
<1>8. QED
  BY <1>2, <1>4, <1>6, <1>7, StaysTrue

-----------------------------------------------------------------------------
(* The methodology execution keeps its implementation plan. *)

LEMMA ContextStep ==
  ASSUME TypedParts, ContextInv, NEW c \in Call, CommandStep(c)
  PROVE  ContextInv'
<1>0. JobsTyped /\ PointerTyped /\ bindings \in Nat /\ OthersStay(c) /\ pc \in [Call -> Pc]
  BY CommandLocals DEF TypedParts, CountersTyped, LocalStep, JobsTyped
<1>1. CASE Elsewhere(c)
  BY <1>0, <1>1, ElsewhereLeaves DEF ContextInv, methodology, OthersStay
<1>2. CASE Resolve(c)
  <2>1. /\ pc[c] = "resolve" /\ UNCHANGED methodology
        /\ pc'[c] = "move" => job'[c].row = pointer
    BY <1>0, <1>2, TransitionMoves DEF Resolve, At
  <2>2. QED
    BY <1>0, <2>1 DEF ContextInv, methodology, OthersStay
<1>3. CASE MovePointer(c)
  <2>1. /\ pc[c] = "move" /\ pc'[c] = "event" /\ UNCHANGED bindings
        /\ pointer' = [job[c].row EXCEPT !.at = "derive", !.status = "ready"]
    BY <1>0, <1>3, TransitionMoves DEF MovePointer, At, Moved
  <2>2. job[c].row \in PointerRecord
    BY <1>0 DEF JobsTyped, JobRecord
  <2>3. pointer'.plan = job[c].row.plan
    BY <2>1, <2>2 DEF PointerRecord
  <2>4. QED
    BY <1>0, <2>1, <2>3 DEF ContextInv, OthersStay
<1>4. CASE AppendEvent(c)
  <2>1. pc[c] = "event" /\ pc'[c] \in {"unbind", "done"} /\ UNCHANGED <<pointer, bindings>>
    BY <1>0, <1>4, TransitionMoves DEF AppendEvent, At, Moved
  <2>2. QED
    BY <1>0, <2>1 DEF ContextInv, OthersStay
<1>5. CASE DeleteBindings(c)
  <2>1. pc'[c] = "bind"
    BY <1>0, <1>5, TransitionMoves DEF Moved
  <2>2. QED
    BY <2>1 DEF ContextInv
<1>6. CASE InsertBinding(c)
  <2>1. bindings' > 0
    BY <1>0, <1>6 DEF InsertBinding
  <2>2. QED
    BY <2>1 DEF ContextInv
<1>7. QED
  BY <1>1, <1>2, <1>3, <1>4, <1>5, <1>6, CommandIs

LEMMA ContextOutside ==
  ASSUME TypedParts, ContextInv, OutsideStep
  PROVE  ContextInv'
<1>1. UNCHANGED <<pc, job, bindings>>
  BY OutsideCounts
<1>2. pointer.plan => pointer'.plan
  <2>1. CASE \E p \in Positions, b \in BOOLEAN : OperatorMoves(p, b)
    BY <2>1 DEF OperatorMoves, Row
  <2>2. QED
    BY <2>1, OutsideIs
<1>3. QED
  BY <1>1, <1>2 DEF ContextInv

-----------------------------------------------------------------------------
(* The theorems. *)

LEMMA AuthorityStays ==
  ASSUME TypedParts, (\E c \in Call : CommandStep(c)) \/ OutsideStep
  PROVE  PlanTyped'
<1>0. PlanTyped /\ job \in [Call -> JobRecord]
  BY DEF TypedParts, JobsTyped
<1>1. ASSUME NEW c \in Call, CommandStep(c) PROVE PlanTyped'
  <2>1. CASE Quiet(c)
    BY <1>0, <2>1, QuietReads DEF PlanTyped, plan
  <2>2. CASE \/ Lookup(c) \/ ClearDependencies(c) \/ ClearActivities(c) \/ UpsertPlan(c)
             \/ \E a \in Activity : UpsertActivity(c, a)
             \/ \E n \in Needs : UpsertDependency(c, n)
    BY <1>0, <2>2 DEF Lookup, ClearDependencies, ClearActivities, UpsertPlan, UpsertActivity, UpsertDependency,
                      PlanTyped, plan, Authorities
  <2>3. CASE SetCompleted(c) \/ ReadActivities(c) \/ ReadDependencies(c) \/ ReadSurfaces(c)
    BY <1>0, <2>3 DEF SetCompleted, ReadActivities, ReadDependencies, ReadSurfaces, PlanTyped, plan
  <2>4. CASE WriteProgress(c)
    <3>1. job[c].stores \in Authorities
      BY <1>0 DEF JobRecord
    <3>2. QED
      BY <1>0, <2>4, <3>1 DEF WriteProgress, PlanTyped
  <2>5. QED
    BY <1>1, <2>1, <2>2, <2>3, <2>4 DEF CommandStep, Quiet
<1>2. CASE OutsideStep
  BY <1>0, <1>2, OutsideCounts DEF PlanTyped
<1>3. QED
  BY <1>1, <1>2

LEMMA RealizationInit ==
  ASSUME Init
  PROVE  RealizationInv
<1>0. PICK p \in Positions, b \in BOOLEAN : pointer = Row(p, b)
  BY DEF Init
<1>1. PointerTyped
  BY <1>0, RealizationAssumption DEF PointerTyped, Row, PointerRecord
<1>2. pc = [c \in Call |-> "idle"] /\ job = [c \in Call |-> NoJob]
  BY DEF Init
<1>3. JobsTyped
  BY <1>2, NoJobTyped DEF JobsTyped, Pc
<1>4. RowsTyped /\ PlanTyped
  BY RealizationAssumption DEF RowsTyped, PlanTyped, Init, StateRecord, States, Surfaces, Authorities, Present
<1>5. LocalsKnow
  BY <1>2 DEF LocalsKnow, NoJob, MaterializePc, Rewriting
<1>6. bindings \in {0, 1} /\ events = 0 /\ stopped = {} /\ changes = [k \in Kinds |-> 0]
  BY DEF Init
<1>7. CountersOK
  <2>1. Cardinality(AppendedBy) \in Nat /\ Cardinality(OverBy) \in Nat
    BY Grows DEF AppendedBy, OverBy
  <2>2. QED
    BY <1>6, <2>1, CountersBy
<1>8. CountersTyped
  BY <1>6, <1>7, CountersBy, CountersInRange DEF CountersTyped, AppendedBy, OverBy
<1>9. TypedParts
  BY <1>1, <1>3, <1>4, <1>5, <1>6, <1>8 DEF TypedParts
<1>10. RowsRestored
  BY DEF Init, RowsRestored
<1>11. ProgressInv
  <2>1. PlanComplete /\ AuthorityBacked
    BY DEF Init, PlanComplete, AuthorityBacked
  <2>2. \A c \in Call : ReadStillTrue(c)
    BY <1>2 DEF ReadStillTrue
  <2>3. QED
    BY <2>1, <2>2, ProgressParts
<1>12. ContextInv
  BY <1>2 DEF Init, ContextInv
<1>13. QED
  BY <1>7, <1>9, <1>10, <1>11, <1>12, RealizationParts

LEMMA RealizationNext ==
  ASSUME RealizationInv, Next
  PROVE  RealizationInv'
<1>0. TypedParts /\ CountersOK /\ RowsRestored /\ ProgressInv /\ ContextInv
  BY RealizationParts
<1>1. PointerTyped' /\ PlanTyped'
  BY <1>0, NextIs, PointerStays, AuthorityStays
<1>2. CASE \E c \in Call : CommandStep(c)
  <2>1. PICK c \in Call : CommandStep(c)
    BY <1>2
  <2>2. JobsTyped' /\ LocalsKnow' /\ UNCHANGED <<stopped, changes>>
    BY <1>0, <2>1, CommandLocals DEF LocalStep
  <2>3. RowsTyped' /\ RowsRestored'
    BY <1>0, <2>1, RowsStep
  <2>4. CountersOK' /\ CountersTyped'
    BY <1>0, <2>1, CountersStep
  <2>5. ProgressInv' /\ ContextInv'
    BY <1>0, <2>1, ProgressStep, ContextStep
  <2>6. TypedParts'
    BY <1>0, <1>1, <2>2, <2>3, <2>4 DEF TypedParts
  <2>7. QED
    BY <2>3, <2>4, <2>5, <2>6, RealizationPartsAfter
<1>3. CASE OutsideStep
  <2>1. /\ changes' \in [Kinds -> Nat] /\ stopped' \subseteq Call
        /\ UNCHANGED <<pc, job, bindings, events>>
    BY <1>0, <1>3, OutsideCounts
  <2>2. RowsTyped' /\ RowsRestored'
    BY <1>0, <1>3, RowsOutside
  <2>3. JobsTyped' /\ LocalsKnow' /\ CountersTyped' /\ CountersOK'
    BY <1>0, <2>1 DEF TypedParts, JobsTyped, LocalsKnow, CountersTyped, CountersOK
  <2>4. ProgressInv' /\ ContextInv'
    BY <1>0, <1>3, ProgressOutside, ContextOutside
  <2>5. TypedParts'
    BY <1>1, <2>1, <2>2, <2>3 DEF TypedParts
  <2>6. QED
    BY <2>2, <2>3, <2>4, <2>5, RealizationPartsAfter
<1>4. QED
  BY <1>2, <1>3, NextIs

(* Whatever commands an operator runs, however they overlap and wherever   *)
(* they stop, the inductive invariant of the realization loop holds.       *)
THEOREM RealizationInvariance == Spec => []RealizationInv
<1>1. Init => RealizationInv
  BY RealizationInit
<1>2. RealizationInv /\ [Next]_vars => RealizationInv'
  <2>1. ASSUME RealizationInv, UNCHANGED vars PROVE RealizationInv'
    BY <2>1 DEF vars, methodology, rows, plan, RealizationInv, RealizationTypeOK, JobsOK, CountersOK, RowsRestored,
                Restores, Relinks, ProgressInv, OnlyProgress, ReadStillTrue, Verified, ContextInv, Present
  <2>2. QED
    BY <2>1, RealizationNext
<1>3. QED
  BY <1>1, <1>2, PTL DEF Spec

(* The rows and what the commands hold are well formed in every reachable  *)
(* state: the counters stay within one event and one binding per command.  *)
THEOREM RealizationTypeCorrect == Spec => []RealizationTypeOK
<1>1. RealizationInv => RealizationTypeOK
  BY DEF RealizationInv
<1>2. QED
  BY <1>1, RealizationInvariance, PTL

(* Once every rewrite has run to its end, a plan has every activity and    *)
(* every dependency of its component spec, however many rewrites           *)
(* overlapped.  A rewrite that died half-way is never at its end: for it   *)
(* see MissingRowsAreOwed.                                                 *)
THEOREM OverlappingRewritesLeaveThePlanWhole == Spec => []PlanRowsWhole
<1>1. RealizationInv => PlanRowsWhole
  <2>1. SUFFICES ASSUME RealizationInv, planned, \A c \in Call : pc[c] \notin Rewriting
        PROVE  Present(state) = Activity /\ needs = Needs
    BY DEF PlanRowsWhole
  <2>2. TypedParts /\ AbsentRestored /\ MissingRelinked
    BY <2>1, RealizationParts, RestoredBy
  <2>3. (\A c \in Call : \A a \in Activity : ~ Restores(c, a)) /\ (\A c \in Call : \A n \in Needs : ~ Relinks(c, n))
    BY <2>1 DEF Restores, Relinks, Rewriting
  <2>4. Present(state) = Activity
    BY <2>1, <2>2, <2>3 DEF AbsentRestored, Present
  <2>5. needs = Needs
    BY <2>1, <2>2, <2>3 DEF MissingRelinked, TypedParts, RowsTyped
  <2>6. QED
    BY <2>4, <2>5
<1>2. QED
  BY <1>1, RealizationInvariance, PTL

(* A rewrite that dies half-way takes with it only what it had still to    *)
(* insert: every activity and dependency that an existing plan lacks is    *)
(* among the rows a rewrite, under way or stopped, has not come to yet, so *)
(* no overlap of rewrites and deaths removes a row that nobody owes.       *)
THEOREM MissingRowsAreOwed == Spec => []RowsRestored
<1>1. RealizationInv => RowsRestored
  BY DEF RealizationInv
<1>2. QED
  BY <1>1, RealizationInvariance, PTL

(* A plan stored as completed has every activity completed and no required *)
(* verification missing, although the reconcile that stored it had read    *)
(* the activities and the surfaces at different times.                     *)
THEOREM StaleReconcilesNeverOverReport == Spec => []CompletedPlanIsBacked
<1>1. RealizationInv => CompletedPlanIsBacked
  BY RealizationParts, ProgressParts DEF CompletedPlanIsBacked, AuthorityBacked
<1>2. QED
  BY <1>1, RealizationInvariance, PTL

(* The activity a command hands out has every predecessor completed and    *)
(* verified, although it was computed from three separate reads.           *)
THEOREM HandedOutActivitiesAreClear == Spec => []NextActivityIsClear
<1>1. RealizationInv => NextActivityIsClear
  BY RealizationParts, ProgressParts DEF NextActivityIsClear, ReadStillTrue
<1>2. QED
  BY <1>1, RealizationInvariance, PTL

(* Unless a binding is being replaced, the methodology execution names an  *)
(* implementation plan in its row or in a binding, whatever stale row a    *)
(* transition writes back.                                                 *)
THEOREM TransitionsKeepTheComponentContext == Spec => []ComponentContextSurvives
<1>1. RealizationInv => ComponentContextSurvives
  <2>1. RealizationInv => bindings \in Nat /\ ContextInv
    BY RealizationParts DEF TypedParts, CountersTyped
  <2>2. QED
    BY <2>1 DEF ContextInv, ComponentContextSurvives, HasContext
<1>2. QED
  BY <1>1, RealizationInvariance, PTL

=============================================================================
