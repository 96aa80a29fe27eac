---------------------------- MODULE RoleWorktree ----------------------------
(***************************************************************************)
(* Branches and worktrees of the roles of one issue                        *)
(* (runtime/bridges/worktree.py): operators prepare a role's branch and    *)
(* worktree and clean up after a terminal lineage, while the roles work in *)
(* their worktrees and the canonical branch moves on.  Each git command is *)
(* one step; nothing holds between two of them but what git itself checks. *)
(***************************************************************************)
EXTENDS Naturals, FiniteSets

CONSTANTS
  Role,        \* each has one role branch and a default path of the same name
  TeamRole,    \* the role the cleanups support (python-team)
  Elsewhere,   \* another path an operator may name
  Operator,    \* the commands that run at the same time
  None,        \* no ref, no branch, no role
  MaxCanonical, \* bound on the tips of the canonical branch
  MaxOwn       \* commits of a role on one tip that are told apart; further ones amend

ASSUME WorktreeAssumption ==
  /\ TeamRole \in Role /\ {Elsewhere, None} \cap Role = {} /\ Elsewhere # None
  /\ {MaxCanonical, MaxOwn} \subseteq Nat \ {0}

VARIABLES
  origin,    \* the canonical branch on the server: its tip, or None
  tracking,  \* refs/remotes/origin/<canonical> in this repository
  canonical, \* the canonical branch as a local one
  tip,       \* each role branch: the canonical tip it starts from and its own commits
  worktree,  \* what each path is registered with: a branch, "detached" or None
  litter,    \* paths that exist without being a registered worktree
  dirty,     \* worktrees with uncommitted work
  lineage,   \* lineage_state of the issue; "terminal" is reset_required, superseded or closed
  pc, call   \* the step and the locals of each command

vars == <<origin, tracking, canonical, tip, worktree, litter, dirty, lineage, pc, call>>
refs == <<origin, tracking, canonical, tip>>
trees == <<worktree, litter, dirty>>

Path == Role \cup {Elsewhere}
Commit == 1 .. MaxCanonical
Tip == [base : Commit, own : 0 .. MaxOwn]
Pc == {"idle", "resolve", "branch_read", "branch_usage", "branch_write",
       "branch_check", "by_branch", "by_path", "add", "recheck", "remove"}
NoCall == [role |-> None, path |-> None, action |-> "ensure", source |-> None]

(* No name stands for two things.                                          *)
ASSUME NamesAssumption ==
  /\ None \notin Commit \cup Tip \cup {"detached"}
  /\ "detached" \notin Role

At(c) == [base |-> c, own |-> 0]
CheckedOut(b) == {p \in Path : worktree[p] = b}
Registered(p) == worktree[p] # None

Init ==
  /\ origin \in {1, None}
  /\ tracking = None
  /\ canonical \in {1, None}
  /\ tip = [b \in Role |-> None]
  /\ worktree = [p \in Path |-> None]
  /\ litter = {} /\ dirty = {}
  /\ lineage = "active"
  /\ pc = [o \in Operator |-> "idle"]
  /\ call = [o \in Operator |-> NoCall]

Goto(o, label) == pc' = [pc EXCEPT ![o] = label] /\ UNCHANGED call
(* The branch is prepared: what was needed for it is dropped. *)
BranchReady(o) ==
  /\ pc' = [pc EXCEPT ![o] = "by_branch"]
  /\ call' = [call EXCEPT ![o].action = "ensure", ![o].source = None]
Return(o) == pc' = [pc EXCEPT ![o] = "idle"] /\ call' = [call EXCEPT ![o] = NoCall]

-----------------------------------------------------------------------------
(* prepare_role_branch, and prepare_role_worktree that begins with it *)

Prepare(o) ==
  /\ pc[o] = "idle"
  /\ \E b \in Role, action \in {"ensure", "reset"}, elsewhere \in BOOLEAN :
       call' = [call EXCEPT ![o] =
                  [role |-> b, path |-> IF elsewhere THEN Elsewhere ELSE b,
                   action |-> action, source |-> None]]
  /\ pc' = [pc EXCEPT ![o] = "resolve"]
  /\ UNCHANGED <<refs, trees, lineage>>

(* The remote-tracking branch is preferred, fetched now or left from an    *)
(* earlier fetch; the local canonical branch comes last.                   *)
Resolve(o) ==
  /\ pc[o] = "resolve"
  /\ tracking' \in IF origin = None THEN {tracking} ELSE {tracking, origin}
  /\ LET source == IF tracking' # None THEN tracking' ELSE canonical IN
     IF source = None
     THEN Return(o)
     ELSE /\ call' = [call EXCEPT ![o].source = source]
          /\ pc' = [pc EXCEPT ![o] = "branch_read"]
  /\ UNCHANGED <<origin, canonical, tip, trees, lineage>>

(* ensure refuses a branch with another tip; one that has the tip needs no *)
(* change.  (A branch is never deleted, so that it exists, read first, is  *)
(* still so when its tip is read.)                                         *)
BranchRead(o) ==
  LET b == call[o].role IN
  /\ pc[o] = "branch_read"
  /\ CASE tip[b] = At(call[o].source) -> BranchReady(o)
       [] tip[b] = None /\ call[o].action = "ensure" -> Goto(o, "branch_write")
       [] tip[b] \notin {At(call[o].source), None} /\ call[o].action = "ensure" -> Return(o)
       [] tip[b] # At(call[o].source) /\ call[o].action = "reset" -> Goto(o, "branch_usage")
  /\ UNCHANGED <<refs, trees, lineage>>

(* reset refuses one that is checked out when the worktrees are listed. *)
BranchUsage(o) ==
  /\ pc[o] = "branch_usage"
  /\ IF CheckedOut(call[o].role) # {} THEN Return(o) ELSE Goto(o, "branch_write")
  /\ UNCHANGED <<refs, trees, lineage>>

(* git branch refuses a name that exists, git branch -f one that is        *)
(* checked out; either ends the command with an exception.  The source is  *)
(* named by its ref, so it is the tip of that ref by now.                  *)
BranchWrite(o) ==
  LET b == call[o].role
      current == IF tracking # None THEN tracking ELSE canonical IN
  /\ pc[o] = "branch_write"
  /\ IF (call[o].action = "ensure" /\ tip[b] # None) \/ CheckedOut(b) # {}
     THEN Return(o) /\ UNCHANGED tip
     ELSE tip' = [tip EXCEPT ![b] = At(current)] /\ Goto(o, "branch_check")
  /\ UNCHANGED <<origin, tracking, canonical, trees, lineage>>

BranchCheck(o) ==
  /\ pc[o] = "branch_check"
  /\ IF tip[call[o].role] = At(call[o].source) THEN BranchReady(o) ELSE Return(o)
  /\ UNCHANGED <<refs, trees, lineage>>

(* A worktree that has the branch is reused, wherever it is, unless the    *)
(* caller named another path.  Either way the command ends here.           *)
FindByBranch(o) ==
  /\ pc[o] = "by_branch"
  /\ IF CheckedOut(call[o].role) # {} THEN Return(o) ELSE Goto(o, "by_path")
  /\ UNCHANGED <<refs, trees, lineage>>

(* A path that is registered, with whatever branch, or exists ends it too. *)
FindByPath(o) ==
  /\ pc[o] = "by_path"
  /\ IF Registered(call[o].path) \/ call[o].path \in litter THEN Return(o) ELSE Goto(o, "add")
  /\ UNCHANGED <<refs, trees, lineage>>

(* Mutant: git worktree add --force. *)
AddForced(o) ==
  LET p == call[o].path IN
  /\ pc[o] = "add"
  /\ worktree' = IF ~Registered(p) /\ p \notin litter
                 THEN [worktree EXCEPT ![p] = call[o].role] ELSE worktree
  /\ Return(o)
  /\ UNCHANGED <<refs, litter, dirty, lineage>>

(* git worktree add refuses a path that is taken and a branch in use. *)
Add(o) ==
  LET p == call[o].path IN
  /\ pc[o] = "add"
  /\ worktree' = IF ~Registered(p) /\ p \notin litter /\ CheckedOut(call[o].role) = {}
                 THEN [worktree EXCEPT ![p] = call[o].role] ELSE worktree
  /\ Return(o)
  /\ UNCHANGED <<refs, litter, dirty, lineage>>

-----------------------------------------------------------------------------
(* reset_cleanup, superseded_cleanup, closed_cleanup: one per terminal     *)
(* state, with the same checks in the same order.                          *)

(* Mutant: only a worktree that is on its role branch is cleaned up. *)
CleanupAligned(o) ==
  /\ pc[o] = "idle"
  /\ lineage = "terminal"
  /\ worktree[TeamRole] = TeamRole
  /\ call' = [call EXCEPT ![o].role = TeamRole, ![o].path = TeamRole]
  /\ pc' = [pc EXCEPT ![o] = "recheck"]
  /\ UNCHANGED <<refs, trees, lineage>>

(* The lineage, ownership and stale views, in one step: the lineage state  *)
(* is the one the cleanup is for, which makes a registered worktree stale. *)
(* Only the team's default path is ever cleaned.                           *)
Cleanup(o) ==
  /\ pc[o] = "idle"
  /\ lineage = "terminal"
  /\ Registered(TeamRole)
  /\ call' = [call EXCEPT ![o].role = TeamRole, ![o].path = TeamRole]
  /\ pc' = [pc EXCEPT ![o] = "recheck"]
  /\ UNCHANGED <<refs, trees, lineage>>

(* By now the decision has been emitted.  The entry is looked up again by  *)
(* its path; lineage and branch are not.                                   *)
Recheck(o) ==
  /\ pc[o] = "recheck"
  /\ IF Registered(call[o].path) THEN Goto(o, "remove") ELSE Return(o)
  /\ UNCHANGED <<refs, trees, lineage>>

(* Mutant: git worktree remove --force. *)
RemoveForced(o) ==
  LET p == call[o].path IN
  /\ pc[o] = "remove"
  /\ worktree' = [worktree EXCEPT ![p] = None]
  /\ dirty' = dirty \ {p}
  /\ Return(o)
  /\ UNCHANGED <<refs, litter, lineage>>

(* git refuses a worktree with uncommitted or untracked files. *)
Remove(o) ==
  LET p == call[o].path IN
  /\ pc[o] = "remove"
  /\ worktree' = IF p \in dirty THEN worktree ELSE [worktree EXCEPT ![p] = None]
  /\ Return(o)
  /\ UNCHANGED <<refs, litter, dirty, lineage>>

-----------------------------------------------------------------------------
(* The roles, the persons and the remote *)

(* inspect_role_worktree lets a role in only on its own branch; then the   *)
(* role edits and commits there.                                           *)
MayEnter(b, p) == worktree[p] = b
Edits(b, p) ==
  /\ MayEnter(b, p)
  /\ p \notin dirty
  /\ dirty' = dirty \cup {p}
  /\ UNCHANGED <<refs, worktree, litter, lineage, pc, call>>

Commits(b, p) ==
  /\ MayEnter(b, p) /\ p \in dirty
  /\ tip' = [tip EXCEPT ![b].own = IF @ < MaxOwn THEN @ + 1 ELSE @]
  /\ dirty' = dirty \ {p}
  /\ UNCHANGED <<origin, tracking, canonical, worktree, litter, lineage, pc, call>>

Detaches(p) ==
  /\ worktree[p] \in Role /\ p \notin dirty
  /\ worktree' = [worktree EXCEPT ![p] = "detached"]
  /\ UNCHANGED <<refs, litter, dirty, lineage, pc, call>>

MakesDirectory(p) ==
  /\ ~Registered(p) /\ p \notin litter
  /\ litter' = litter \cup {p}
  /\ UNCHANGED <<refs, worktree, dirty, lineage, pc, call>>

CanonicalAdvances ==
  /\ origin # None /\ origin < MaxCanonical
  /\ origin' = origin + 1
  /\ UNCHANGED <<tracking, canonical, tip, trees, lineage, pc, call>>

(* TechLead decisions end a lineage; a new assignment starts it again.     *)
LineageMoves ==
  /\ lineage' = IF lineage = "active" THEN "terminal" ELSE "active"
  /\ UNCHANGED <<refs, trees, pc, call>>

-----------------------------------------------------------------------------
Advance(o) ==
  \/ Resolve(o) \/ BranchRead(o) \/ BranchUsage(o) \/ BranchWrite(o) \/ BranchCheck(o)
  \/ FindByBranch(o) \/ FindByPath(o) \/ Add(o)
  \/ Recheck(o) \/ Remove(o)

Next ==
  \/ \E o \in Operator : Prepare(o) \/ Cleanup(o) \/ Advance(o)
  \/ \E b \in Role, p \in Path : Edits(b, p) \/ Commits(b, p)
  \/ \E p \in Path : Detaches(p) \/ MakesDirectory(p)
  \/ CanonicalAdvances
  \/ LineageMoves

(* Commands run to their end (git works on local files, and a call that    *)
(* hangs is assumed to be ended by its caller), a role commits what it has *)
(* edited, and as long as a terminal lineage calls for it an operator      *)
(* comes back to clean up.                                                 *)
Fairness ==
  /\ \A o \in Operator : WF_vars(Advance(o))
  /\ \A b \in Role, p \in Path : WF_vars(Commits(b, p))
  /\ SF_vars(\E o \in Operator : Cleanup(o))

Spec == Init /\ [][Next]_vars /\ Fairness

-----------------------------------------------------------------------------
(* Properties *)

(* Every variable has its type. *)
WorktreeTypeOK ==
  /\ {origin, tracking, canonical} \subseteq Commit \cup {None}
  /\ tip \in [Role -> Tip \cup {None}]
  /\ worktree \in [Path -> Role \cup {"detached", None}]
  /\ litter \subseteq Path /\ dirty \subseteq Path
  /\ lineage \in {"active", "terminal"}
  /\ pc \in [Operator -> Pc]
  /\ call \in [Operator -> [role : Role \cup {None}, path : Path \cup {None},
                            action : {"ensure", "reset"}, source : Commit \cup {None}]]

(* A role's branch is in at most one worktree, and it exists: two commands *)
(* that prepare it at the same time, at one path or at two, do not split   *)
(* it, and no cleanup or reset pulls it away from under its role.          *)
BranchInOnePlace ==
  \A b \in Role : Cardinality(CheckedOut(b)) <= 1 /\ (CheckedOut(b) # {} => tip[b] # None)

(* Uncommitted work leaves a worktree only into a commit on its role       *)
(* branch, the worktree left in place.  Committed work leaves a role       *)
(* branch by nothing but a reset at a time when no worktree has the        *)
(* branch; such a reset does discard it, knowingly or not.  No cleanup, no *)
(* ensure and no two commands beside each other do.                        *)
WorkSurvives ==
  [][ /\ \A p \in dirty \ dirty' :
           worktree'[p] = worktree[p] /\ tip'[worktree[p]].own > 0
      /\ \A b \in Role : tip[b] # None /\ tip'[b] # tip[b] /\ tip[b].own > 0 =>
           \/ tip'[b].own > tip[b].own
           \/ /\ CheckedOut(b) = {}
              /\ \E o \in Operator : pc[o] = "branch_write" /\ call[o].role = b
                                     /\ call[o].action = "reset" ]_vars

(* While a terminal lineage lasts and the roles have stopped editing, the  *)
(* team's default path is freed, again and again if somebody prepares it   *)
(* anew: a cleanup that finds the entry gone or the work uncommitted gives *)
(* up, and a later one succeeds.  A role that goes on editing before each  *)
(* removal can keep its worktree for ever.                                 *)
CleanupCompletes ==
  <>[](lineage = "terminal") /\ <>[][dirty' \subseteq dirty]_vars
    => []<>(~Registered(TeamRole))

-----------------------------------------------------------------------------
(* The inductive invariant behind them. *)

(* What a command knows at each of its steps. *)
Knows(o) ==
  /\ pc[o] # "idle" => call[o].role \in Role /\ call[o].path \in Path
  /\ pc[o] \in {"branch_read", "branch_usage", "branch_write", "branch_check"} =>
       call[o].source \in Commit /\ (tracking # None \/ canonical # None)
  /\ pc[o] \in {"by_branch", "by_path", "add"} => tip[call[o].role] # None

BranchesExist == \A p \in Path : worktree[p] \in Role => tip[worktree[p]] # None

BranchesApart == \A p, q \in Path : worktree[p] \in Role /\ worktree[p] = worktree[q] => p = q

(* Uncommitted work is on a role branch. *)
DirtyOnBranch == \A p \in dirty : worktree[p] \in Role

WorktreeInv ==
  /\ WorktreeTypeOK
  /\ \A o \in Operator : Knows(o)
  /\ BranchesExist /\ BranchesApart /\ DirtyOnBranch

=============================================================================
