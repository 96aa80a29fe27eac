------------------------ MODULE RoleWorktree_proofs ------------------------
(***************************************************************************)
(* Proofs about role branches and worktrees, for any number of roles,      *)
(* paths, commands and commits: a branch is never in two places, and what  *)
(* a role has done is not discarded.                                       *)
(***************************************************************************)
EXTENDS RoleWorktree, FiniteSetTheorems, TLAPS

CallRecord ==
  [role : Role \cup {None}, path : Path \cup {None}, action : {"ensure", "reset"},
   source : Commit \cup {None}]

RefsOK == {origin, tracking, canonical} \subseteq Commit \cup {None} /\ tip \in [Role -> Tip \cup {None}]

TreesOK ==
  /\ worktree \in [Path -> Role \cup {"detached", None}]
  /\ litter \subseteq Path /\ dirty \subseteq Path

CommandsOK == pc \in [Operator -> Pc] /\ call \in [Operator -> CallRecord]

(* The type invariant by its parts. *)
LEMMA TypeParts ==
  WorktreeTypeOK <=> RefsOK /\ TreesOK /\ CommandsOK /\ lineage \in {"active", "terminal"}
BY DEF WorktreeTypeOK, RefsOK, TreesOK, CommandsOK, CallRecord

LEMMA TypePartsAfter ==
  WorktreeTypeOK' <=> RefsOK' /\ TreesOK' /\ CommandsOK' /\ lineage' \in {"active", "terminal"}
BY DEF WorktreeTypeOK, RefsOK, TreesOK, CommandsOK, CallRecord

(* The invariant by its parts. *)
LEMMA InvParts ==
  ASSUME WorktreeInv
  PROVE  /\ RefsOK /\ TreesOK /\ CommandsOK /\ lineage \in {"active", "terminal"}
         /\ \A o \in Operator : Knows(o)
         /\ BranchesExist /\ BranchesApart /\ DirtyOnBranch
BY TypeParts DEF WorktreeInv

(* A fresh branch starts at a commit and is no missing one. *)
LEMMA FreshTip == \A c \in Commit : At(c) \in Tip /\ At(c) # None /\ At(c).own = 0
<1> SUFFICES ASSUME NEW c \in Commit PROVE At(c) \in Tip /\ At(c) # None /\ At(c).own = 0
  OBVIOUS
<1>1. 0 \in 0 .. MaxOwn
  BY WorktreeAssumption
<1>2. At(c) \in Tip /\ At(c).own = 0
  BY <1>1 DEF At, Tip
<1>3. QED
  BY <1>2, NamesAssumption

(* Only command o moves, no branch is forgotten and the canonical branch   *)
(* stays known.                                                            *)
Moves(o) ==
  /\ \A x \in Operator \ {o} : pc'[x] = pc[x] /\ call'[x] = call[x]
  /\ \A b \in Role : tip[b] # None => tip'[b] # None
  /\ tracking # None => tracking' # None
  /\ canonical' = canonical

(* Then the other commands know what they knew. *)
LEMMA OthersKnow ==
  ASSUME WorktreeInv, NEW o \in Operator, Moves(o), Knows(o)'
  PROVE  \A x \in Operator : Knows(x)'
<1> SUFFICES ASSUME NEW x \in Operator \ {o} PROVE Knows(x)'
  OBVIOUS
<1>1. Knows(x)
  BY InvParts
<1>2. QED
  BY <1>1 DEF Knows, Moves

(* A command that ends knows nothing any more. *)
LEMMA Ends ==
  ASSUME WorktreeInv, NEW o \in Operator, Return(o)
  PROVE  CommandsOK' /\ Knows(o)' /\ \A x \in Operator \ {o} : pc'[x] = pc[x] /\ call'[x] = call[x]
BY InvParts DEF Return, CommandsOK, CallRecord, NoCall, Pc, Knows

(* A command that goes on with its locals. *)
LEMMA Goes ==
  ASSUME WorktreeInv, NEW o \in Operator, NEW label \in Pc, Goto(o, label)
  PROVE  /\ CommandsOK' /\ pc'[o] = label /\ call'[o] = call[o]
         /\ \A x \in Operator \ {o} : pc'[x] = pc[x] /\ call'[x] = call[x]
BY InvParts DEF Goto, CommandsOK

(* A command whose branch is prepared. *)
LEMMA BranchIsReady ==
  ASSUME WorktreeInv, NEW o \in Operator, BranchReady(o)
  PROVE  /\ CommandsOK' /\ pc'[o] = "by_branch" /\ call'[o].role = call[o].role /\ call'[o].path = call[o].path
         /\ \A x \in Operator \ {o} : pc'[x] = pc[x] /\ call'[x] = call[x]
BY InvParts DEF BranchReady, CommandsOK, CallRecord, Pc

-----------------------------------------------------------------------------
(* The steps of a command that touch neither refs nor worktrees. *)

LEMMA LocalStep ==
  ASSUME WorktreeInv, NEW o \in Operator, UNCHANGED <<refs, trees, lineage>>, CommandsOK', Knows(o)',
         \A x \in Operator \ {o} : pc'[x] = pc[x] /\ call'[x] = call[x]
  PROVE  WorktreeInv'
<1>1. Moves(o)
  BY DEF Moves, refs
<1>2. \A x \in Operator : Knows(x)'
  BY <1>1, OthersKnow
<1>3. WorktreeTypeOK'
  BY InvParts, TypePartsAfter DEF RefsOK, TreesOK, refs, trees
<1>4. BranchesExist' /\ BranchesApart' /\ DirtyOnBranch'
  BY InvParts DEF BranchesExist, BranchesApart, DirtyOnBranch, refs, trees
<1>5. QED
  BY <1>2, <1>3, <1>4 DEF WorktreeInv

LEMMA PrepareKeeps ==
  ASSUME WorktreeInv, NEW o \in Operator, Prepare(o)
  PROVE  WorktreeInv'
<1>1. PICK b \in Role, action \in {"ensure", "reset"}, p \in Path :
        call' = [call EXCEPT ![o] = [role |-> b, path |-> p, action |-> action, source |-> None]]
  BY DEF Prepare, Path
<1>2. CommandsOK' /\ pc'[o] = "resolve" /\ call'[o].role = b /\ call'[o].path = p
      /\ \A x \in Operator \ {o} : pc'[x] = pc[x] /\ call'[x] = call[x]
  BY <1>1, InvParts DEF Prepare, CommandsOK, CallRecord, Pc
<1>3. Knows(o)'
  BY <1>2 DEF Knows
<1>4. QED
  BY <1>2, <1>3, LocalStep DEF Prepare

LEMMA CleanupKeeps ==
  ASSUME WorktreeInv, NEW o \in Operator, Cleanup(o)
  PROVE  WorktreeInv'
<1>1. CommandsOK' /\ pc'[o] = "recheck" /\ call'[o].role = TeamRole /\ call'[o].path = TeamRole
      /\ \A x \in Operator \ {o} : pc'[x] = pc[x] /\ call'[x] = call[x]
  BY InvParts, WorktreeAssumption DEF Cleanup, CommandsOK, CallRecord, Path, Pc
<1>2. Knows(o)'
  BY <1>1, WorktreeAssumption DEF Knows, Path
<1>3. QED
  BY <1>1, <1>2, LocalStep DEF Cleanup

(* What command o knows, and the refs, at a step that is not its first. *)
LEMMA BranchReadKeeps ==
  ASSUME WorktreeInv, NEW o \in Operator, BranchRead(o)
  PROVE  WorktreeInv'
<1>0. Knows(o) /\ pc[o] = "branch_read" /\ UNCHANGED <<refs, trees, lineage>>
  BY InvParts DEF BranchRead
<1>1. CASE Return(o)
  BY <1>0, <1>1, Ends, LocalStep
<1>2. ASSUME NEW label \in {"branch_usage", "branch_write"}, Goto(o, label) PROVE WorktreeInv'
  <2>1. label \in Pc
    BY DEF Pc
  <2>2. Knows(o)'
    BY <1>0, <1>2, <2>1, Goes DEF Knows, refs
  <2>3. QED
    BY <1>0, <1>2, <2>1, <2>2, Goes, LocalStep
<1>3. CASE tip[call[o].role] = At(call[o].source) /\ BranchReady(o)
  <2>1. tip[call[o].role] # None
    BY <1>0, <1>3, FreshTip DEF Knows
  <2>2. Knows(o)'
    BY <1>0, <1>3, <2>1, BranchIsReady DEF Knows, refs
  <2>3. QED
    BY <1>0, <1>3, <2>2, BranchIsReady, LocalStep
<1>4. tip[call[o].role] = None \/ tip[call[o].role] # None
  OBVIOUS
<1>5. call[o].action \in {"ensure", "reset"}
  BY InvParts DEF CommandsOK, CallRecord
<1>6. QED
  BY <1>1, <1>2, <1>3, <1>4, <1>5 DEF BranchRead

LEMMA BranchUsageKeeps ==
  ASSUME WorktreeInv, NEW o \in Operator, BranchUsage(o)
  PROVE  WorktreeInv'
<1>0. Knows(o) /\ pc[o] = "branch_usage" /\ UNCHANGED <<refs, trees, lineage>>
  BY InvParts DEF BranchUsage
<1>1. CASE Return(o)
  BY <1>0, <1>1, Ends, LocalStep
<1>2. CASE Goto(o, "branch_write")
  <2>1. Knows(o)'
    BY <1>0, <1>2, Goes DEF Pc, Knows, refs
  <2>2. QED
    BY <1>0, <1>2, <2>1, Goes, LocalStep DEF Pc
<1>3. QED
  BY <1>1, <1>2 DEF BranchUsage

LEMMA BranchCheckKeeps ==
  ASSUME WorktreeInv, NEW o \in Operator, BranchCheck(o)
  PROVE  WorktreeInv'
<1>0. Knows(o) /\ pc[o] = "branch_check" /\ UNCHANGED <<refs, trees, lineage>>
  BY InvParts DEF BranchCheck
<1>1. CASE Return(o)
  BY <1>0, <1>1, Ends, LocalStep
<1>2. CASE tip[call[o].role] = At(call[o].source) /\ BranchReady(o)
  <2>1. tip[call[o].role] # None
    BY <1>0, <1>2, FreshTip DEF Knows
  <2>2. Knows(o)'
    BY <1>0, <1>2, <2>1, BranchIsReady DEF Knows, refs
  <2>3. QED
    BY <1>0, <1>2, <2>2, BranchIsReady, LocalStep
<1>3. QED
  BY <1>1, <1>2 DEF BranchCheck

(* The looks at the worktree list. *)
LEMMA LooksKeep ==
  ASSUME WorktreeInv, NEW o \in Operator, FindByBranch(o) \/ FindByPath(o) \/ Recheck(o)
  PROVE  WorktreeInv'
<1>0. Knows(o) /\ UNCHANGED <<refs, trees, lineage>>
  BY InvParts DEF FindByBranch, FindByPath, Recheck
<1>1. CASE Return(o)
  BY <1>0, <1>1, Ends, LocalStep
<1>2. ASSUME NEW label \in {"by_path", "add", "remove"}, Goto(o, label), pc[o] # "idle",
             label \in {"by_path", "add"} => pc[o] \in {"by_branch", "by_path"}
      PROVE  WorktreeInv'
  <2>1. label \in Pc
    BY DEF Pc
  <2>2. Knows(o)'
    BY <1>0, <1>2, <2>1, Goes DEF Knows, refs
  <2>3. QED
    BY <1>0, <1>2, <2>1, <2>2, Goes, LocalStep
<1>3. QED
  BY <1>1, <1>2 DEF FindByBranch, FindByPath, Recheck

-----------------------------------------------------------------------------
(* The steps of a command that write refs or worktrees. *)

LEMMA ResolveKeeps ==
  ASSUME WorktreeInv, NEW o \in Operator, Resolve(o)
  PROVE  WorktreeInv'
<1>0. /\ Knows(o) /\ RefsOK /\ TreesOK /\ pc[o] = "resolve"
      /\ UNCHANGED <<origin, canonical, tip, trees, lineage>>
  BY InvParts DEF Resolve
<1>1. tracking' \in Commit \cup {None} /\ (tracking # None => tracking' # None)
  BY <1>0 DEF Resolve, RefsOK
<1>2. CommandsOK' /\ Knows(o)' /\ \A x \in Operator \ {o} : pc'[x] = pc[x] /\ call'[x] = call[x]
  <2>1. CASE Return(o)
    BY <2>1, Ends
  <2>2. ASSUME NEW source, source = (IF tracking' # None THEN tracking' ELSE canonical), source # None,
               call' = [call EXCEPT ![o].source = source], pc' = [pc EXCEPT ![o] = "branch_read"]
        PROVE  CommandsOK' /\ Knows(o)' /\ \A x \in Operator \ {o} : pc'[x] = pc[x] /\ call'[x] = call[x]
    <3>1. source \in Commit /\ (tracking' # None \/ canonical' # None)
      BY <1>0, <1>1, <2>2 DEF RefsOK
    <3>2. /\ CommandsOK' /\ pc'[o] = "branch_read" /\ call'[o].role = call[o].role
          /\ call'[o].path = call[o].path /\ call'[o].source = source
          /\ \A x \in Operator \ {o} : pc'[x] = pc[x] /\ call'[x] = call[x]
      BY <2>2, <3>1, InvParts DEF CommandsOK, CallRecord, Pc
    <3>3. QED
      BY <1>0, <3>1, <3>2 DEF Knows
  <2>3. QED
    BY <2>1, <2>2 DEF Resolve
<1>3. Moves(o)
  BY <1>0, <1>1, <1>2 DEF Moves
<1>4. \A x \in Operator : Knows(x)'
  BY <1>2, <1>3, OthersKnow
<1>5. WorktreeTypeOK'
  BY <1>0, <1>1, <1>2, InvParts, TypePartsAfter DEF RefsOK, TreesOK, trees
<1>6. BranchesExist' /\ BranchesApart' /\ DirtyOnBranch'
  BY <1>0, InvParts DEF BranchesExist, BranchesApart, DirtyOnBranch, trees
<1>7. QED
  BY <1>4, <1>5, <1>6 DEF WorktreeInv

LEMMA BranchWriteKeeps ==
  ASSUME WorktreeInv, NEW o \in Operator, BranchWrite(o)
  PROVE  WorktreeInv'
<1>0. /\ Knows(o) /\ RefsOK /\ TreesOK /\ pc[o] = "branch_write"
      /\ UNCHANGED <<origin, tracking, canonical, trees, lineage>>
  BY InvParts DEF BranchWrite
<1>1. CASE Return(o) /\ UNCHANGED tip
  BY <1>0, <1>1, Ends, LocalStep DEF refs
<1>2. ASSUME NEW current, current = (IF tracking # None THEN tracking ELSE canonical),
             CheckedOut(call[o].role) = {},
             tip' = [tip EXCEPT ![call[o].role] = At(current)], Goto(o, "branch_check")
      PROVE  WorktreeInv'
  <2>1. PICK b \in Role : b = call[o].role
    BY <1>0 DEF Knows
  <2>2. At(current) \in Tip /\ At(current) # None
    BY <1>0, <1>2, FreshTip DEF Knows, RefsOK
  <2>3. /\ tip' \in [Role -> Tip \cup {None}] /\ tip'[b] # None
        /\ \A x \in Role \ {b} : tip'[x] = tip[x]
    BY <1>0, <1>2, <2>1, <2>2 DEF RefsOK
  <2>4. \A p \in Path : worktree[p] # b
    BY <1>2, <2>1 DEF CheckedOut
  <2>5. CommandsOK' /\ Knows(o)' /\ \A x \in Operator \ {o} : pc'[x] = pc[x] /\ call'[x] = call[x]
    BY <1>0, <1>2, Goes DEF Knows, Pc
  <2>6. \A x \in Operator : Knows(x)'
    BY <1>0, <2>3, <2>5, OthersKnow DEF Moves
  <2>7. WorktreeTypeOK'
    BY <1>0, <2>3, <2>5, InvParts, TypePartsAfter DEF RefsOK, TreesOK, trees
  <2>8. BranchesExist' /\ BranchesApart' /\ DirtyOnBranch'
    BY <1>0, <2>3, <2>4, InvParts DEF BranchesExist, BranchesApart, DirtyOnBranch, TreesOK, trees
  <2>9. QED
    BY <2>6, <2>7, <2>8 DEF WorktreeInv
<1>3. QED
  BY <1>1, <1>2 DEF BranchWrite

LEMMA AddKeeps ==
  ASSUME WorktreeInv, NEW o \in Operator, Add(o)
  PROVE  WorktreeInv'
<1>0. /\ Knows(o) /\ RefsOK /\ TreesOK /\ pc[o] = "add"
      /\ Return(o) /\ UNCHANGED <<refs, litter, dirty, lineage>>
  BY InvParts DEF Add
<1>1. CASE UNCHANGED worktree
  BY <1>0, <1>1, Ends, LocalStep DEF trees
<1>2. CASE /\ ~ Registered(call[o].path) /\ CheckedOut(call[o].role) = {}
           /\ worktree' = [worktree EXCEPT ![call[o].path] = call[o].role]
  <2>1. PICK b \in Role, p \in Path : b = call[o].role /\ p = call[o].path
    BY <1>0 DEF Knows
  <2>2. tip[b] # None /\ worktree[p] = None /\ \A x \in Path : worktree[x] # b
    BY <1>0, <1>2, <2>1 DEF Knows, CheckedOut, Registered
  <2>3. TreesOK' /\ worktree'[p] = b /\ \A x \in Path \ {p} : worktree'[x] = worktree[x]
    BY <1>0, <1>2, <2>1 DEF TreesOK
  <2>4. p \notin dirty
    BY <2>2, InvParts, WorktreeAssumption DEF DirtyOnBranch
  <2>5. \A x \in Operator : Knows(x)'
    BY <1>0, Ends, OthersKnow DEF Moves, refs
  <2>6. WorktreeTypeOK'
    BY <1>0, <2>3, Ends, InvParts, TypePartsAfter DEF RefsOK, refs
  <2>7. BranchesExist' /\ BranchesApart' /\ DirtyOnBranch'
    BY <1>0, <2>2, <2>3, <2>4, InvParts DEF BranchesExist, BranchesApart, DirtyOnBranch, TreesOK, refs
  <2>8. QED
    BY <2>5, <2>6, <2>7 DEF WorktreeInv
<1>3. QED
  BY <1>1, <1>2 DEF Add

LEMMA RemoveKeeps ==
  ASSUME WorktreeInv, NEW o \in Operator, Remove(o)
  PROVE  WorktreeInv'
<1>0. /\ Knows(o) /\ RefsOK /\ TreesOK /\ pc[o] = "remove"
      /\ Return(o) /\ UNCHANGED <<refs, litter, dirty, lineage>>
  BY InvParts DEF Remove
<1>1. CASE UNCHANGED worktree
  BY <1>0, <1>1, Ends, LocalStep DEF trees
<1>2. CASE call[o].path \notin dirty /\ worktree' = [worktree EXCEPT ![call[o].path] = None]
  <2>1. PICK p \in Path : p = call[o].path
    BY <1>0 DEF Knows
  <2>2. TreesOK' /\ worktree'[p] = None /\ \A x \in Path \ {p} : worktree'[x] = worktree[x]
    BY <1>0, <1>2, <2>1 DEF TreesOK
  <2>3. \A x \in Operator : Knows(x)'
    BY <1>0, Ends, OthersKnow DEF Moves, refs
  <2>4. WorktreeTypeOK'
    BY <1>0, <2>2, Ends, InvParts, TypePartsAfter DEF RefsOK, refs
  <2>5. BranchesExist' /\ BranchesApart' /\ DirtyOnBranch'
    BY <1>0, <1>2, <2>1, <2>2, InvParts, WorktreeAssumption
       DEF BranchesExist, BranchesApart, DirtyOnBranch, TreesOK, refs
  <2>6. QED
    BY <2>3, <2>4, <2>5 DEF WorktreeInv
<1>3. QED
  BY <1>1, <1>2 DEF Remove

(* Every step of a command keeps the invariant. *)
LEMMA CommandKeeps ==
  ASSUME WorktreeInv, NEW o \in Operator, Prepare(o) \/ Cleanup(o) \/ Advance(o)
  PROVE  WorktreeInv'
BY PrepareKeeps, CleanupKeeps, ResolveKeeps, BranchReadKeeps, BranchUsageKeeps, BranchWriteKeeps, BranchCheckKeeps,
   LooksKeep, AddKeeps, RemoveKeeps DEF Advance

-----------------------------------------------------------------------------
(* The roles, the persons and the remote. *)

(* The commands know what they knew when none of them moves.               *)
LEMMA NobodyMoves ==
  ASSUME WorktreeInv, UNCHANGED <<tracking, canonical, pc, call>>,
         \A b \in Role : tip[b] # None => tip'[b] # None
  PROVE  CommandsOK' /\ \A x \in Operator : Knows(x)'
<1>1. CommandsOK'
  BY InvParts DEF CommandsOK
<1>2. ASSUME NEW x \in Operator PROVE Knows(x)'
  BY InvParts DEF Knows
<1>3. QED
  BY <1>1, <1>2

LEMMA EditsKeep ==
  ASSUME WorktreeInv, NEW b \in Role, NEW p \in Path, Edits(b, p)
  PROVE  WorktreeInv'
<1>1. UNCHANGED <<refs, worktree, litter, lineage, pc, call>> /\ dirty' = dirty \cup {p}
      /\ worktree[p] = b
  BY DEF Edits, MayEnter
<1>2. WorktreeTypeOK'
  BY <1>1, InvParts, NobodyMoves, TypePartsAfter DEF RefsOK, TreesOK, refs
<1>3. BranchesExist' /\ BranchesApart' /\ DirtyOnBranch'
  BY <1>1, InvParts DEF BranchesExist, BranchesApart, DirtyOnBranch, refs
<1>4. QED
  BY <1>1, <1>2, <1>3, NobodyMoves DEF WorktreeInv, refs

LEMMA CommitsKeep ==
  ASSUME WorktreeInv, NEW b \in Role, NEW p \in Path, Commits(b, p)
  PROVE  WorktreeInv' /\ tip'[b].own > 0 /\ (tip'[b].own > tip[b].own \/ tip'[b] = tip[b])
<1>1. /\ UNCHANGED <<origin, tracking, canonical, worktree, litter, lineage, pc, call>>
      /\ dirty' = dirty \ {p} /\ p \in dirty /\ worktree[p] = b
      /\ tip' = [tip EXCEPT ![b].own = IF @ < MaxOwn THEN @ + 1 ELSE @]
  BY DEF Commits, MayEnter
<1>2. tip[b] \in Tip
  BY <1>1, InvParts DEF BranchesExist, RefsOK
<1>3. PICK n \in 1 .. MaxOwn :
        /\ n = (IF tip[b].own < MaxOwn THEN tip[b].own + 1 ELSE tip[b].own)
        /\ (n > tip[b].own \/ n = tip[b].own)
  BY <1>2, WorktreeAssumption DEF Tip
<1>4. [tip[b] EXCEPT !.own = n] \in Tip
  BY <1>2, <1>3, WorktreeAssumption DEF Tip
<1>5. tip[b] \in [base : Commit, own : 0 .. MaxOwn]
  BY <1>2 DEF Tip
<1>6. /\ tip'[b] = [tip[b] EXCEPT !.own = n]
      /\ \A x \in Role \ {b} : tip'[x] = tip[x]
      /\ tip' \in [Role -> Tip \cup {None}]
  BY <1>1, <1>3, <1>4, <1>5, InvParts DEF RefsOK
<1>7. tip'[b] # None /\ tip'[b].own > 0 /\ (tip'[b].own > tip[b].own \/ tip'[b] = tip[b])
  BY <1>2, <1>3, <1>4, <1>6, <1>5, NamesAssumption DEF Tip
<1>8. WorktreeTypeOK'
  BY <1>1, <1>6, <1>7, InvParts, NobodyMoves, TypePartsAfter DEF RefsOK, TreesOK
<1>9. BranchesExist' /\ BranchesApart' /\ DirtyOnBranch'
  BY <1>1, <1>6, <1>7, InvParts DEF BranchesExist, BranchesApart, DirtyOnBranch, TreesOK
<1>10. QED
  BY <1>1, <1>6, <1>7, <1>8, <1>9, NobodyMoves DEF WorktreeInv

LEMMA DetachesKeep ==
  ASSUME WorktreeInv, NEW p \in Path, Detaches(p)
  PROVE  WorktreeInv'
<1>1. UNCHANGED <<refs, litter, dirty, lineage, pc, call>> /\ p \notin dirty
      /\ worktree' = [worktree EXCEPT ![p] = "detached"]
  BY DEF Detaches
<1>2. TreesOK' /\ worktree'[p] = "detached" /\ \A x \in Path \ {p} : worktree'[x] = worktree[x]
  BY <1>1, InvParts DEF TreesOK
<1>3. WorktreeTypeOK'
  BY <1>1, <1>2, InvParts, NobodyMoves, TypePartsAfter DEF RefsOK, refs
<1>4. BranchesExist' /\ BranchesApart' /\ DirtyOnBranch'
  BY <1>1, <1>2, InvParts, NamesAssumption DEF BranchesExist, BranchesApart, DirtyOnBranch, TreesOK, refs
<1>5. QED
  BY <1>1, <1>3, <1>4, NobodyMoves DEF WorktreeInv, refs

(* A stray directory, a new canonical tip, a decision about the lineage.   *)
LEMMA OutsideKeeps ==
  ASSUME WorktreeInv, (\E p \in Path : MakesDirectory(p)) \/ CanonicalAdvances \/ LineageMoves
  PROVE  WorktreeInv'
<1>1. UNCHANGED <<tracking, canonical, tip, worktree, dirty, pc, call>> /\ litter' \subseteq Path
  BY InvParts DEF MakesDirectory, CanonicalAdvances, LineageMoves, TreesOK, refs, trees
<1>2. origin' \in Commit \cup {None} /\ lineage' \in {"active", "terminal"}
  BY InvParts, WorktreeAssumption DEF MakesDirectory, CanonicalAdvances, LineageMoves, RefsOK, Commit, refs
<1>3. WorktreeTypeOK'
  BY <1>1, <1>2, InvParts, NobodyMoves, TypePartsAfter DEF RefsOK, TreesOK
<1>4. BranchesExist' /\ BranchesApart' /\ DirtyOnBranch'
  BY <1>1, InvParts DEF BranchesExist, BranchesApart, DirtyOnBranch
<1>5. QED
  BY <1>1, <1>3, <1>4, NobodyMoves DEF WorktreeInv

LEMMA WorktreeStepKeeps ==
  ASSUME WorktreeInv, [Next]_vars
  PROVE  WorktreeInv'
<1>1. CASE UNCHANGED vars
  <2>1. UNCHANGED <<refs, trees, lineage, pc, call>>
    BY <1>1 DEF vars, refs, trees
  <2>2. WorktreeTypeOK'
    BY <2>1, InvParts, NobodyMoves, TypePartsAfter DEF RefsOK, TreesOK, refs, trees
  <2>3. BranchesExist' /\ BranchesApart' /\ DirtyOnBranch'
    BY <2>1, InvParts DEF BranchesExist, BranchesApart, DirtyOnBranch, refs, trees
  <2>4. QED
    BY <2>1, <2>2, <2>3, NobodyMoves DEF WorktreeInv, refs
<1>2. CASE Next
  BY <1>2, CommandKeeps, EditsKeep, CommitsKeep, DetachesKeep, OutsideKeeps DEF Next
<1>3. QED
  BY <1>1, <1>2

LEMMA WorktreeInitInv == Init => WorktreeInv
<1> SUFFICES ASSUME Init PROVE WorktreeInv
  OBVIOUS
<1>1. 1 \in Commit
  BY WorktreeAssumption DEF Commit
<1>2. WorktreeTypeOK
  BY <1>1 DEF Init, WorktreeTypeOK, NoCall, Pc
<1>3. \A o \in Operator : Knows(o)
  BY DEF Init, Knows
<1>4. BranchesExist /\ BranchesApart /\ DirtyOnBranch
  BY WorktreeAssumption DEF Init, BranchesExist, BranchesApart, DirtyOnBranch
<1>5. QED
  BY <1>2, <1>3, <1>4 DEF WorktreeInv

-----------------------------------------------------------------------------
(* The theorems. *)

(* The invariant the other theorems rest on.                               *)
THEOREM WorktreeInvariance == Spec => []WorktreeInv
BY WorktreeInitInv, WorktreeStepKeeps, PTL DEF Spec

(* Refs, worktrees and the locals of the commands keep their types: no     *)
(* command works on a branch or a tip that was never resolved.             *)
THEOREM WorktreeTypeCorrect == Spec => []WorktreeTypeOK
<1>1. WorktreeInv => WorktreeTypeOK
  BY DEF WorktreeInv
<1>2. QED
  BY <1>1, WorktreeInvariance, PTL

(* A role's branch is in at most one worktree, and it exists there,        *)
(* whatever commands prepare it, reset it or clean up at the same time.    *)
THEOREM RoleBranchInOnePlace == Spec => []BranchInOnePlace
<1>1. WorktreeInv => BranchInOnePlace
  <2> SUFFICES ASSUME WorktreeInv, NEW b \in Role
               PROVE  Cardinality(CheckedOut(b)) <= 1 /\ (CheckedOut(b) # {} => tip[b] # None)
    BY DEF BranchInOnePlace
  <2>1. CASE CheckedOut(b) = {}
    <3>1. Cardinality(CheckedOut(b)) = 0
      BY <2>1, FS_EmptySet
    <3>2. QED
      BY <2>1, <3>1
  <2>2. CASE CheckedOut(b) # {}
    <3>1. PICK p \in Path : worktree[p] = b
      BY <2>2 DEF CheckedOut
    <3>2. CheckedOut(b) = {p}
      BY <3>1, InvParts DEF CheckedOut, BranchesApart
    <3>3. Cardinality(CheckedOut(b)) = 1
      BY <3>2, FS_Singleton
    <3>4. tip[b] # None
      BY <3>1, InvParts DEF BranchesExist
    <3>5. QED
      BY <3>3, <3>4
  <2>3. QED
    BY <2>1, <2>2
<1>2. QED
  BY <1>1, WorktreeInvariance, PTL

WorkKept ==
  /\ \A p \in dirty \ dirty' :
       worktree'[p] = worktree[p] /\ tip'[worktree[p]].own > 0
  /\ \A b \in Role : tip[b] # None /\ tip'[b] # tip[b] /\ tip[b].own > 0 =>
       \/ tip'[b].own > tip[b].own
       \/ /\ CheckedOut(b) = {}
          /\ \E o \in Operator : pc[o] = "branch_write" /\ call[o].role = b
                                 /\ call[o].action = "reset"

(* The only steps that take uncommitted work or a branch's commits away.   *)
LEMMA StepKeepsWork ==
  ASSUME WorktreeInv, [Next]_vars
  PROVE  WorkKept
<1>1. CASE UNCHANGED <<tip, dirty>>
  BY <1>1 DEF WorkKept
<1>2. ASSUME NEW b \in Role, NEW p \in Path, Commits(b, p) PROVE WorkKept
  <2>1. tip'[b].own > 0 /\ (tip'[b].own > tip[b].own \/ tip'[b] = tip[b])
    BY <1>2, CommitsKeep
  <2>2. /\ worktree[p] = b /\ dirty' = dirty \ {p} /\ worktree' = worktree
        /\ \A x \in Role \ {b} : tip'[x] = tip[x]
    BY <1>2, InvParts DEF Commits, MayEnter, RefsOK
  <2>3. QED
    BY <2>1, <2>2 DEF WorkKept
<1>3. ASSUME NEW b \in Role, NEW p \in Path, Edits(b, p) PROVE WorkKept
  BY <1>3 DEF Edits, refs, WorkKept
<1>4. ASSUME NEW o \in Operator, BranchWrite(o) PROVE WorkKept
  <2>1. pc[o] = "branch_write" /\ Knows(o) /\ UNCHANGED dirty
    BY <1>4, InvParts DEF BranchWrite, trees
  <2>2. PICK b \in Role : b = call[o].role
    BY <2>1 DEF Knows
  <2>3. \A x \in Role \ {b} : tip'[x] = tip[x]
    BY <1>4, <2>2, InvParts DEF BranchWrite, RefsOK
  <2>4. tip[b] # None /\ tip'[b] # tip[b] => CheckedOut(b) = {} /\ call[o].action = "reset"
    BY <1>4, <2>2, InvParts DEF BranchWrite, CommandsOK, CallRecord
  <2>5. QED
    BY <2>1, <2>2, <2>3, <2>4 DEF WorkKept
<1>5. QED
  <2>1. CASE \E o \in Operator : Prepare(o) \/ Cleanup(o) \/ Resolve(o) \/ BranchRead(o) \/ BranchUsage(o)
                                \/ BranchCheck(o) \/ FindByBranch(o) \/ FindByPath(o) \/ Add(o) \/ Recheck(o) \/ Remove(o)
    BY <1>1, <2>1 DEF Prepare, Cleanup, Resolve, BranchRead, BranchUsage, BranchCheck, FindByBranch, FindByPath, Add,
                      Recheck, Remove, refs, trees
  <2>2. CASE \/ \E p \in Path : Detaches(p) \/ MakesDirectory(p)
             \/ CanonicalAdvances \/ LineageMoves \/ UNCHANGED vars
    BY <1>1, <2>2 DEF Detaches, MakesDirectory, CanonicalAdvances, LineageMoves, vars, refs, trees
  <2>3. QED
    BY <1>2, <1>3, <1>4, <2>1, <2>2 DEF Next, Advance

(* Uncommitted work leaves its worktree only into a commit, and committed  *)
(* work leaves a branch only by a reset while no worktree has the branch,  *)
(* whatever that reset had read of it: it discards the commits             *)
(* (prepare_role_branch, git branch -f).  No cleanup, no ensure and no two *)
(* commands beside each other discard anything else a role has done.       *)
THEOREM RolesWorkSurvives == Spec => WorkSurvives
<1>1. WorktreeInv /\ [Next]_vars =>
        [ /\ \A p \in dirty \ dirty' :
               worktree'[p] = worktree[p] /\ tip'[worktree[p]].own > 0
          /\ \A b \in Role : tip[b] # None /\ tip'[b] # tip[b] /\ tip[b].own > 0 =>
               \/ tip'[b].own > tip[b].own
               \/ /\ CheckedOut(b) = {}
                  /\ \E o \in Operator : pc[o] = "branch_write" /\ call[o].role = b
                                         /\ call[o].action = "reset" ]_vars
  BY StepKeepsWork DEF WorkKept
<1>2. QED
  BY <1>1, WorktreeInvariance, PTL DEF Spec, WorkSurvives

=============================================================================
