------------------------ MODULE ComponentRealization ------------------------
(***************************************************************************)
(* The operator's component-realization loop: materialize a component spec *)
(* as an implementation plan, hand out its next activity, complete it and  *)
(* reconcile the plan's progress, under a methodology pointer that the     *)
(* preflight consults and apply_transition moves.  Every command is a CLI  *)
(* process of its own and every statement a psql session of its own, so    *)
(* commands interleave between statements and may stop after any of them.  *)
(***************************************************************************)
EXTENDS Naturals, FiniteSets, Functions

CONSTANTS
  Call,         \* the commands an operator runs, each at most once
  Activity,     \* the activity keys of the component spec
  NoActivity,   \* "no next activity"
  Sequence,     \* their sequence numbers in the spec
  Needs,        \* the dependencies of the spec: <<predecessor, successor>>
  Positions,    \* the steps and statuses that operators put the pointer at
  MaxRunning,   \* bound: commands under way at one time
  MaxChanges    \* bound: changes from outside the commands

Steps == {"elsewhere", "materialize", "execute", "reconcile", "derive"}
Statuses == {"ready", "active", "blocked", "completed"}

ASSUME RealizationAssumption ==
  /\ IsFiniteSet(Call)
  /\ Sequence \in [Activity -> Nat]
  /\ Needs \subseteq Activity \X Activity
  /\ NoActivity \notin Activity
  /\ Positions \subseteq [at : Steps, status : Statuses]
  /\ MaxRunning \in Nat /\ MaxChanges \in Nat

VARIABLES
  pointer,    \* the methodology_executions row
  bindings,   \* number of its implementation_plan rows in methodology_execution_bindings
  events,     \* number of its rows in methodology_execution_events
  planned,    \* whether the implementation_plans row exists
  authority,  \* its authority_state
  state,      \* implementation_plan_activities: state of each key, or "absent"
  needs,      \* implementation_plan_activity_dependencies
  surface,    \* the required verification surface linked to each activity
  pc, job,    \* the statement a command is at and what it holds in memory
  stopped,    \* commands that failed or were killed where they are
  changes     \* number of changes of each kind from outside so far

vars == <<pointer, bindings, events, planned, authority, state, needs, surface,
          pc, job, stopped, changes>>
methodology == <<pointer, bindings, events>>
rows == <<state, needs, surface>>
plan == <<planned, authority, rows>>

States == {"open", "completed", "blocked", "deferred"}
Surfaces == {"none", "missing", "passed"}
Authorities == {"approved", "draft", "active", "partially_realized", "completed", "blocked", "deferred"}
Commands == {"materialize", "complete", "reconcile", "next", "transition"}
Kinds == {"set", "withdraw", "attach", "verify", "move", "stop"}
Rewriting == {"clear_activities", "plan", "activities", "dependencies"}
Pc == {"idle", "row", "context", "lookup", "clear_dependencies", "set", "read",
       "read_dependencies", "read_surfaces", "write", "handed", "resolve", "move",
       "event", "unbind", "bind", "done"} \cup Rewriting

PointerRecord == [at : Steps, status : Statuses, plan : BOOLEAN]
StateRecord == [Activity -> States \cup {"absent"}]

Nothing == [a \in Activity |-> "absent"]
NoJob == [command |-> "next", row |-> [at |-> "elsewhere", status |-> "ready", plan |-> FALSE],
          activity |-> NoActivity, left |-> {}, follow |-> {},
          state |-> Nothing, needs |-> {}, stores |-> "draft"]

Row(position, b) == [at |-> position.at, status |-> position.status, plan |-> b]
Present(s) == {a \in Activity : s[a] # "absent"}

Init ==
  /\ \E p \in Positions, b \in BOOLEAN : pointer = Row(p, b)
  /\ bindings \in {0, 1}
  /\ pointer.plan \/ bindings = 1
  /\ events = 0
  /\ planned \in BOOLEAN
  /\ authority = "approved"
  /\ state = [a \in Activity |-> IF planned THEN "open" ELSE "absent"]
  /\ needs = IF planned THEN Needs ELSE {}
  /\ \E f \in IF planned THEN {"none", "missing"} ELSE {"none"} : surface = [a \in Activity |-> f]
  /\ pc = [c \in Call |-> "idle"]
  /\ job = [c \in Call |-> NoJob]
  /\ stopped = {}
  /\ changes = [k \in Kinds |-> 0]

-----------------------------------------------------------------------------
(* What the progress service computes from the rows it has read.           *)

(* Mutant: the stored state alone decides. *)
ClassifiedByState(s, f, a) == s[a]

Classified(s, f, a) ==
  CASE s[a] = "completed" -> IF f[a] = "missing" THEN "blocked" ELSE "completed"
    [] OTHER -> s[a]
Class(s, f, class) == {a \in Present(s) : Classified(s, f, a) = class}

Executable(s, d, f) ==
  {a \in Class(s, f, "open") : \A n \in d : n[2] = a => Classified(s, f, n[1]) = "completed"}
Earliest(s, d, f) ==
  {a \in Executable(s, d, f) : \A b \in Executable(s, d, f) : Sequence[a] <= Sequence[b]}
Ambiguous(s, d, f) == Cardinality(Earliest(s, d, f)) > 1
NextActivity(s, d, f) ==
  IF Cardinality(Earliest(s, d, f)) = 1
  THEN CHOOSE a \in Activity : a \in Earliest(s, d, f)
  ELSE NoActivity

(* Mutant: blocked activities do not stand in the way of full realization. *)
RealizationDespiteBlocked(s, d, f) ==
  CASE Class(s, f, "open") = {} /\ Class(s, f, "completed") # {} -> "fully_realized"
    [] Class(s, f, "completed") = {} -> "not_started"
    [] OTHER -> "partially_realized"

Realization(s, d, f) ==
  LET blocked == Class(s, f, "blocked") # {} \/ Ambiguous(s, d, f)
      open == Class(s, f, "open") # {}
      deferred == Class(s, f, "deferred") # {}
      begun == Class(s, f, "completed") # {}
  IN CASE ~begun /\ blocked -> "blocked"
       [] ~begun /\ ~blocked /\ deferred /\ ~open -> "deferred"
       [] ~begun /\ ~blocked /\ (open \/ ~deferred) -> "not_started"
       [] begun /\ ~open /\ ~blocked -> "fully_realized"
       [] begun /\ open /\ blocked -> "blocked"
       [] begun /\ ~open /\ blocked /\ deferred -> "deferred"
       [] OTHER -> "partially_realized"

AuthorityOf(s, d, f) ==
  CASE Realization(s, d, f) = "fully_realized" -> "completed"
    [] Realization(s, d, f) = "not_started" -> IF Present(s) = {} THEN "draft" ELSE "active"
    [] OTHER -> Realization(s, d, f)

(* The preflight's rules: a command passes if its outcome is "allowed" or  *)
(* "warn"; a wrong lane redirects and everything else blocks.              *)
HasContext(row, n) == row.plan \/ n > 0
Passes(command, row, n) ==
  \/ /\ command = "materialize"
     /\ \/ row.at = "execute" /\ row.status = "active" /\ row.plan
        \/ row.at = "materialize" /\ row.status \in {"ready", "active"}
  \/ /\ command = "reconcile" /\ HasContext(row, n)
     /\ row.at \in {"reconcile", "execute"} /\ row.status \in {"ready", "active"}
  \/ /\ command = "next" /\ HasContext(row, n)
     /\ row.at \in {"derive", "reconcile"} /\ row.status \in {"ready", "active"}

-----------------------------------------------------------------------------
(* Commands: beginning, preflight, ending.                                 *)

Running == {c \in Call : pc[c] \notin {"idle", "done"}} \ stopped
At(c, p) == c \notin stopped /\ pc[c] = p
Goto(c, p) == pc' = [pc EXCEPT ![c] = p]
Holds(c, field, value) == job' = [job EXCEPT ![c] = [@ EXCEPT ![field] = value]]
(* What is no longer used is forgotten: a command keeps what it still has  *)
(* to do, and one that is over leaves only its name behind.                *)
Keeps(c, field, value) ==
  job' = [job EXCEPT ![c] = [NoJob EXCEPT !.command = job[c].command, !.follow = job[c].follow,
                                          ![field] = value]]
Ended(c) ==
  /\ Goto(c, "done")
  /\ job' = [job EXCEPT ![c] = [NoJob EXCEPT !.command = job[c].command]]

First(command) ==
  CASE command = "materialize" -> "lookup" [] command = "complete" -> "set"
    [] command = "transition" -> "resolve" [] OTHER -> "read"

(* The CLI passes "complete" no methodology anchors, and apply_transition  *)
(* is no preflighted command; the other commands take the anchors or not.  *)
Targets(command) == IF command = "complete" THEN Activity ELSE {NoActivity}
Options(command) ==
  CASE command = "complete" -> {"reconcile", "next"} [] command = "transition" -> {"bind"}
    [] OTHER -> {}

Begin(c, command) ==
  /\ pc[c] = "idle" /\ Cardinality(Running) < MaxRunning
  /\ \E a \in Targets(command), follow \in SUBSET Options(command) :
       job' = [job EXCEPT ![c] = [NoJob EXCEPT !.command = command, !.activity = a, !.follow = follow]]
  /\ \/ Goto(c, First(command))
     \/ command \in {"materialize", "reconcile", "next"} /\ Goto(c, "row")
  /\ UNCHANGED <<methodology, plan, stopped, changes>>

PreflightRow(c) ==
  /\ At(c, "row")
  /\ Goto(c, "context")
  /\ Holds(c, "row", pointer)
  /\ UNCHANGED <<methodology, plan, stopped, changes>>

PreflightContext(c) ==
  /\ At(c, "context")
  /\ \/ /\ Passes(job[c].command, job[c].row, bindings)
        /\ Goto(c, First(job[c].command))
        /\ Keeps(c, "left", {})
     \/ /\ ~Passes(job[c].command, job[c].row, bindings)
        /\ Ended(c)
  /\ UNCHANGED <<methodology, plan, stopped, changes>>

-----------------------------------------------------------------------------
(* component materialize: clear the rows of an existing plan, upsert the   *)
(* plan, its activities and their dependencies, one statement each.        *)

Lookup(c) ==
  /\ At(c, "lookup")
  /\ Goto(c, IF planned THEN "clear_dependencies" ELSE "plan")
  /\ UNCHANGED <<methodology, plan, job, stopped, changes>>

ClearDependencies(c) ==
  /\ At(c, "clear_dependencies")
  /\ needs' = {}
  /\ Goto(c, "clear_activities")
  /\ UNCHANGED <<methodology, planned, authority, state, surface, job, stopped, changes>>

(* The schema deletes an activity's dependencies with it and unlinks its   *)
(* verification surfaces.                                                  *)
ClearActivities(c) ==
  /\ At(c, "clear_activities")
  /\ state' = Nothing
  /\ needs' = {}
  /\ surface' = [a \in Activity |-> "none"]
  /\ Goto(c, "plan")
  /\ UNCHANGED <<methodology, planned, authority, job, stopped, changes>>

UpsertPlan(c) ==
  /\ At(c, "plan")
  /\ planned' = TRUE
  /\ authority' = "approved"
  /\ Goto(c, "activities")
  /\ Holds(c, "left", Activity)
  /\ UNCHANGED <<methodology, rows, stopped, changes>>

(* Mutant: the dependencies of an activity are inserted along with it. *)
UpsertActivityWithNeeds(c, a) ==
  /\ At(c, "activities") /\ a \in job[c].left
  /\ state' = [state EXCEPT ![a] = "open"]
  /\ needs' = needs \cup {n \in Needs : n[2] = a /\ n[1] \in Present(state)}
  /\ IF job[c].left # {a} THEN Holds(c, "left", job[c].left \ {a}) /\ UNCHANGED pc ELSE Ended(c)
  /\ UNCHANGED <<methodology, planned, authority, surface, stopped, changes>>

UpsertActivity(c, a) ==
  /\ At(c, "activities") /\ a \in job[c].left
  /\ state' = [state EXCEPT ![a] = "open"]
  /\ IF job[c].left # {a}
     THEN Holds(c, "left", job[c].left \ {a}) /\ UNCHANGED pc
     ELSE IF Needs = {} THEN Ended(c)
     ELSE Holds(c, "left", Needs) /\ Goto(c, "dependencies")
  /\ UNCHANGED <<methodology, planned, authority, needs, surface, stopped, changes>>

(* Mutant: the row is inserted without looking for the two activities. *)
UpsertDependencyUnjoined(c, n) ==
  /\ At(c, "dependencies") /\ n \in job[c].left
  /\ needs' = needs \cup {n}
  /\ IF job[c].left # {n} THEN Holds(c, "left", job[c].left \ {n}) /\ UNCHANGED pc ELSE Ended(c)
  /\ UNCHANGED <<methodology, planned, authority, state, surface, stopped, changes>>

(* INSERT ... SELECT over the two activities: no row if one is missing.    *)
UpsertDependency(c, n) ==
  /\ At(c, "dependencies") /\ n \in job[c].left
  /\ needs' = IF {n[1], n[2]} \subseteq Present(state) THEN needs \cup {n} ELSE needs
  /\ IF job[c].left # {n}
     THEN Holds(c, "left", job[c].left \ {n}) /\ UNCHANGED pc
     ELSE Ended(c)
  /\ UNCHANGED <<methodology, planned, authority, state, surface, stopped, changes>>

-----------------------------------------------------------------------------
(* component complete, reconcile and next.  "complete" checks nothing: it  *)
(* updates the row with the key, if there is one.                          *)

SetCompleted(c) ==
  /\ At(c, "set")
  /\ state' = [a \in Activity |->
                 IF a = job[c].activity /\ a \in Present(state) THEN "completed" ELSE state[a]]
  /\ IF "reconcile" \in job[c].follow THEN Goto(c, "read") /\ Keeps(c, "left", {}) ELSE Ended(c)
  /\ UNCHANGED <<methodology, planned, authority, needs, surface, stopped, changes>>

ReadActivities(c) ==
  /\ At(c, "read")
  /\ IF planned THEN Goto(c, "read_dependencies") /\ Holds(c, "state", state) ELSE Ended(c)
  /\ UNCHANGED <<methodology, plan, stopped, changes>>

ReadDependencies(c) ==
  /\ At(c, "read_dependencies")
  /\ Goto(c, "read_surfaces")
  /\ Holds(c, "needs", needs)
  /\ UNCHANGED <<methodology, plan, stopped, changes>>

(* The summary is a function of what has been read.  A reconcile stores    *)
(* the plan's authority in the row; "next" hands the activity out.         *)
Reconciling(c) ==
  \/ job[c].command = "reconcile"
  \/ job[c].command = "complete" /\ "reconcile" \in job[c].follow

ReadSurfaces(c) ==
  /\ At(c, "read_surfaces")
  /\ LET s == job[c].state  d == job[c].needs
     IN IF Reconciling(c)
        THEN Keeps(c, "stores", AuthorityOf(s, d, surface)) /\ Goto(c, "write")
        ELSE IF NextActivity(s, d, surface) = NoActivity THEN Ended(c)
        ELSE Keeps(c, "activity", NextActivity(s, d, surface)) /\ Goto(c, "handed")
  /\ UNCHANGED <<methodology, plan, stopped, changes>>

WriteProgress(c) ==
  /\ At(c, "write")
  /\ authority' = job[c].stores
  /\ IF "next" \in job[c].follow
     THEN Goto(c, "read") /\ Keeps(c, "follow", {"next"})
     ELSE Ended(c)
  /\ UNCHANGED <<methodology, planned, rows, stopped, changes>>

Hand(c) ==
  /\ At(c, "handed")
  /\ Ended(c)
  /\ UNCHANGED <<methodology, plan, stopped, changes>>

-----------------------------------------------------------------------------
(* apply_transition: the one supported transition, from the row it read,   *)
(* without a compare-and-swap; then the event and the bindings.            *)

Resolve(c) ==
  /\ At(c, "resolve")
  /\ IF pointer.at = "reconcile" /\ pointer.status = "active"
     THEN Holds(c, "row", pointer) /\ Goto(c, "move")
     ELSE Ended(c)
  /\ UNCHANGED <<methodology, plan, stopped, changes>>

(* Mutant: the row is rewritten without its implementation plan. *)
MovePointerWithoutPlan(c) ==
  /\ At(c, "move")
  /\ pointer' = [at |-> "derive", status |-> "ready", plan |-> FALSE]
  /\ Goto(c, "event")
  /\ Keeps(c, "left", {})
  /\ UNCHANGED <<bindings, events, plan, stopped, changes>>

MovePointer(c) ==
  /\ At(c, "move")
  /\ pointer' = [job[c].row EXCEPT !.at = "derive", !.status = "ready"]
  /\ Goto(c, "event")
  /\ Keeps(c, "left", {})
  /\ UNCHANGED <<bindings, events, plan, stopped, changes>>

AppendEvent(c) ==
  /\ At(c, "event")
  /\ events' = events + 1
  /\ IF "bind" \in job[c].follow THEN Goto(c, "unbind") /\ UNCHANGED job ELSE Ended(c)
  /\ UNCHANGED <<pointer, bindings, plan, stopped, changes>>

(* replace_kind: delete the rows of the kind, then insert the new one.     *)
DeleteBindings(c) ==
  /\ At(c, "unbind")
  /\ bindings' = 0
  /\ Goto(c, "bind")
  /\ UNCHANGED <<pointer, events, plan, job, stopped, changes>>

InsertBinding(c) ==
  /\ At(c, "bind")
  /\ bindings' = bindings + 1
  /\ Ended(c)
  /\ UNCHANGED <<pointer, events, plan, stopped, changes>>

-----------------------------------------------------------------------------
(* From outside: a statement fails or the process is killed; a producer    *)
(* sets an activity's state; surfaces are linked and verified; an operator *)
(* moves the pointer.                                                      *)

RoomForChange == FoldFunction(LAMBDA n, m : n + m, 0, changes) < MaxChanges

Counts(k) ==
  /\ RoomForChange
  /\ changes' = [changes EXCEPT ![k] = @ + 1]

Stops(c) ==
  /\ c \in Running /\ Counts("stop")
  /\ stopped' = stopped \cup {c}
  /\ UNCHANGED <<methodology, plan, pc, job>>

SetState(a, s) ==
  /\ a \in Present(state) /\ s # state[a]
  /\ Counts(IF s = "deferred" \/ state[a] \in {"completed", "deferred"} THEN "withdraw" ELSE "set")
  /\ state' = [state EXCEPT ![a] = s]
  /\ UNCHANGED <<methodology, planned, authority, needs, surface, pc, job, stopped>>

Attach(a) ==
  /\ a \in Present(state) /\ surface[a] = "none" /\ Counts("attach")
  /\ surface' = [surface EXCEPT ![a] = "missing"]
  /\ UNCHANGED <<methodology, planned, authority, state, needs, pc, job, stopped>>

Verify(a) ==
  /\ surface[a] = "missing" /\ Counts("verify")
  /\ surface' = [surface EXCEPT ![a] = "passed"]
  /\ UNCHANGED <<methodology, planned, authority, state, needs, pc, job, stopped>>

OperatorMoves(position, b) ==
  /\ pointer # Row(position, b) /\ (pointer.plan => b) /\ Counts("move")
  /\ pointer' = Row(position, b)
  /\ UNCHANGED <<bindings, events, plan, pc, job, stopped>>

Next ==
  \/ \E c \in Call :
       \/ \E command \in Commands : Begin(c, command)
       \/ PreflightRow(c) \/ PreflightContext(c)
       \/ Lookup(c) \/ ClearDependencies(c) \/ ClearActivities(c) \/ UpsertPlan(c)
       \/ \E a \in Activity : UpsertActivity(c, a)
       \/ \E n \in Needs : UpsertDependency(c, n)
       \/ SetCompleted(c)
       \/ ReadActivities(c) \/ ReadDependencies(c) \/ ReadSurfaces(c)
       \/ WriteProgress(c) \/ Hand(c)
       \/ Resolve(c) \/ MovePointer(c) \/ AppendEvent(c)
       \/ DeleteBindings(c) \/ InsertBinding(c)
       \/ Stops(c)
  \/ \E a \in Activity : \/ \E s \in States : SetState(a, s)
                         \/ Attach(a) \/ Verify(a)
  \/ \E p \in Positions, b \in BOOLEAN : OperatorMoves(p, b)

Spec == Init /\ [][Next]_vars

-----------------------------------------------------------------------------
(* The rows and what the commands hold are well formed: an activity that   *)
(* is not there has neither dependencies nor a linked surface, a command   *)
(* that hands out has an activity to hand out, and every event and every   *)
(* binding beyond the first is some command's.                             *)
RealizationTypeOK ==
  /\ pointer \in PointerRecord /\ planned \in BOOLEAN /\ authority \in Authorities
  /\ events \in 0..Cardinality(Call) /\ bindings \in 0..(1 + Cardinality(Call))
  /\ state \in StateRecord
  /\ needs \subseteq {n \in Needs : {n[1], n[2]} \subseteq Present(state)}
  /\ surface \in [Activity -> Surfaces]
  /\ \A a \in Activity : state[a] = "absent" => surface[a] = "none"
  /\ pc \in [Call -> Pc] /\ stopped \subseteq Call
  /\ \A c \in Call : pc[c] = "handed" => job[c].activity \in Activity
  /\ \A c \in Call : pc[c] = "move" => job[c].row.at = "reconcile"

(* Commands materialize the same plan at the same time, one clearing what  *)
(* the other has just written, and inserting a dependency between missing  *)
(* activities inserts nothing.  Still, once every rewrite has run to its   *)
(* end, the plan has all its activities and all its dependencies.  One     *)
(* that died half-way never does, and what it left out stays missing.      *)
PlanRowsWhole ==
  planned /\ (\A c \in Call : pc[c] \notin Rewriting)
    => Present(state) = Activity /\ needs = Needs

(* Nothing but commands that complete and reconcile: no plan was rewritten,*)
(* no activity deferred or reopened and no surface linked.                 *)
OnlyProgress ==
  /\ \A c \in Call : job[c].command = "materialize" => pc[c] \in {"row", "context"}
  /\ changes["withdraw"] = 0 /\ changes["attach"] = 0
Verified(a) == state[a] = "completed" /\ surface[a] # "missing"

(* However reconciles overlap with completions, and wherever they stop,    *)
(* a plan row that says completed_plan has no activity left to do and no   *)
(* required verification missing: stale reads under-report, never over.    *)
CompletedPlanIsBacked ==
  OnlyProgress /\ authority = "completed" => \A a \in Activity : Verified(a)

(* The activity that "next" hands out from three separate reads has every  *)
(* predecessor of the spec completed and verified when it is handed out,   *)
(* whatever was set, completed or verified in between.                     *)
NextActivityIsClear ==
  \A c \in Call : OnlyProgress /\ pc[c] = "handed"
    => \A n \in Needs : n[2] = job[c].activity => Verified(n[1])

(* The methodology execution keeps naming an implementation plan, in its   *)
(* row or in a binding, although transitions rewrite the row from a stale  *)
(* read and replace the binding in two statements; without it every        *)
(* reconcile and next is blocked.  Only a replacement under way, or one    *)
(* that stopped half-way, may leave it without.                            *)
ComponentContextSurvives ==
  (\A c \in Call : pc[c] # "bind") => HasContext(pointer, bindings)

-----------------------------------------------------------------------------
(* The inductive invariant behind them. *)

JobRecord ==
  [command : Commands, row : PointerRecord, activity : Activity \cup {NoActivity}, left : SUBSET (Activity \cup Needs),
   follow : SUBSET {"reconcile", "next", "bind"}, state : StateRecord, needs : SUBSET Needs, stores : Authorities]

MaterializePc == {"lookup", "clear_dependencies"} \cup Rewriting

JobsOK ==
  /\ job \in [Call -> JobRecord]
  /\ changes \in [Kinds -> Nat]
  /\ \A c \in Call : /\ pc[c] = "idle" => job[c].command = "next"
                     /\ pc[c] \in MaterializePc => job[c].command = "materialize"

(* Each command appends one event at most, and one binding. *)
CountersOK ==
  /\ events <= Cardinality({c \in Call : pc[c] \in {"unbind", "bind", "done"}})
  /\ bindings <= 1 + Cardinality({c \in Call : pc[c] = "done"})

(* What a rewrite has taken away, some rewrite has still to put back, be   *)
(* it under way or stopped: a dependency only after the activities it      *)
(* joins.                                                                  *)
Restores(c, a) == pc[c] = "plan" \/ (pc[c] = "activities" /\ a \in job[c].left)
Relinks(c, n) ==
  pc[c] \in {"clear_activities", "plan", "activities"} \/ (pc[c] = "dependencies" /\ n \in job[c].left)

RowsRestored ==
  planned =>
    /\ \A a \in Activity : state[a] = "absent" => \E c \in Call : Restores(c, a)
    /\ \A n \in Needs \ needs : \E c \in Call : Relinks(c, n)

(* While there is only progress, what a command has read is still true.    *)
ReadStillTrue(c) ==
  /\ pc[c] \in {"read_dependencies", "read_surfaces"} => planned
  /\ pc[c] \in {"read_dependencies", "read_surfaces"} =>
       \A a \in Activity : /\ job[c].state[a] \in {"open", "completed", "blocked"}
                           /\ job[c].state[a] = "completed" => state[a] = "completed"
  /\ pc[c] = "read_surfaces" => job[c].needs = Needs
  /\ pc[c] = "write" /\ job[c].stores = "completed" => \A a \in Activity : Verified(a)
  /\ pc[c] = "handed" => \A n \in Needs : n[2] = job[c].activity => Verified(n[1])

ProgressInv ==
  OnlyProgress =>
    /\ planned => needs = Needs /\ \A a \in Activity : state[a] \in {"open", "completed", "blocked"}
    /\ \A c \in Call : ReadStillTrue(c)
    /\ authority = "completed" => \A a \in Activity : Verified(a)

ContextInv ==
  \/ bindings > 0
  \/ \E c \in Call : pc[c] = "bind"
  \/ pointer.plan /\ \A c \in Call : pc[c] = "move" => job[c].row.plan

RealizationInv ==
  /\ RealizationTypeOK /\ JobsOK
  /\ CountersOK
  /\ RowsRestored
  /\ ProgressInv
  /\ ContextInv

=============================================================================
