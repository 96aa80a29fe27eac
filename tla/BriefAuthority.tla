--------------------------- MODULE BriefAuthority ---------------------------
(***************************************************************************)
(* How a coder brief becomes execution authority in the producer: a design *)
(* package is materialised from its file and signed off                    *)
(* (design_package_deriver.py), a draft brief is assembled from the stored *)
(* package (coder_brief_assembler.py), its realization targets are written *)
(* (brief_target_author.py), an architect approves, rejects or reopens it  *)
(* (brief_reviewer.py) and a packet is prepared from it                    *)
(* (architect_packet_preparer.py).  Every command is a process or a        *)
(* request of its own; each of its statements is a transaction, and no     *)
(* statement checks what an earlier one read.  One package, one brief.     *)
(***************************************************************************)
EXTENDS Naturals, Sequences

CONSTANTS
  Operator,      \* the commands that may run at the same time
  Revisions,     \* contents the package file can have
  Approved,      \* those with status approved_for_derivation
  Signers,       \* the roles each revision names a signer for
  SignoffOrder,  \* the roles, in the order their signoffs are written
  Optional,      \* the roles that get no row when no signer is named
  TargetCount,   \* realization targets of the blueprint
  MaxCommands    \* bound: commands started

Roles == {SignoffOrder[i] : i \in DOMAIN SignoffOrder}

ASSUME AuthorityAssumption ==
  /\ Revisions \subseteq Nat \ {0} /\ Revisions # {}
  /\ Approved \subseteq Revisions
  /\ SignoffOrder \in Seq(Roles) /\ Len(SignoffOrder) > 0
  /\ Signers \in [Revisions -> SUBSET Roles]
  /\ Optional \subseteq Roles
  /\ TargetCount \in Nat \ {0}
  /\ MaxCommands \in Nat

VARIABLES
  artifact,   \* the revision in the package file
  package,    \* the revision in the package row, 0 before there is one
  signoffs,   \* the signoff row of each role
  brief,      \* the brief row: authority state, content, readiness class
  events,     \* its authority events, in order
  targets,    \* realization targets of the brief
  packet,     \* the content in the packet file, 0 before there is one
  runs,       \* packet compilations recorded as automation runs
  pc, job,    \* the step of each command, and what it carries
  started     \* commands started so far

vars == <<artifact, package, signoffs, brief, events, targets, packet, runs, pc, job, started>>
design == <<package, signoffs>>
output == <<packet, runs>>

States == {"draft_brief", "approved_brief", "rejected_authority",
           "packet_ready_execution_authority"}
Contents == Revisions \cup {0}
Row == [state : States \cup {"none"}, content : Contents,
        ready : {"none", "derivation_ready", "execution_ready"}]
NoBrief == [state |-> "none", content |-> 0, ready |-> "none"]

(* The decisions of a review: the states each may be taken from, the state *)
(* it leads to and the kind of its event ("reopen" is reopen-draft).       *)
Decisions == {"approve", "reject", "reopen"}
AllowedFrom == [approve |-> {"draft_brief"},
                reject  |-> {"draft_brief", "approved_brief"},
                reopen  |-> {"rejected_authority"}]
Outcome == [approve |-> "approved_brief", reject |-> "rejected_authority",
            reopen |-> "draft_brief"]
Kind == [approve |-> "approve_brief", reject |-> "reject_brief", reopen |-> "reopen_draft"]

Kinds == {"derive_draft", "approve_brief", "reject_brief", "reopen_draft", "mark_packet_ready"}
Event(kind, from, to) == [kind |-> kind, from |-> from, to |-> to]
Events == [kind : Kinds, from : States \cup {"none"}, to : States]
Has(kind) == \E i \in DOMAIN events : events[i].kind = kind

(* What a command carries: the revision it read from the file, the brief   *)
(* row it read, the package content it builds from, its position in a list *)
(* it writes, and whether readiness was evaluated once already.            *)
NoJob == [cmd |-> "none", file |-> 0, row |-> NoBrief, content |-> 0, next |-> 1,
          evaluated |-> FALSE, persist |-> TRUE]
Job(cmd) == [NoJob EXCEPT !.cmd = cmd, !.file = artifact]
Jobs == [cmd : {"none", "derive", "assemble", "author", "prepare"} \cup Decisions,
         file : Contents, row : Row, content : Contents, next : Nat \ {0},
         evaluated : BOOLEAN, persist : BOOLEAN]

Pc == {"idle", "package", "signoff", "binding", "signoffs", "load", "existing", "upsert",
       "target", "review", "commit", "prepare", "packet", "record", "mark"}

Init ==
  /\ artifact \in Revisions
  /\ package = 0
  /\ signoffs = [r \in Roles |-> "none"]
  /\ brief = NoBrief
  /\ events = <<>>
  /\ targets = {}
  /\ packet = 0 /\ runs = {}
  /\ pc = [c \in Operator |-> "idle"]
  /\ job = [c \in Operator |-> NoJob]
  /\ started = 0

Goto(c, label) == pc' = [pc EXCEPT ![c] = label]
Carry(c, j) == job' = [job EXCEPT ![c] = j]
Finish(c) == Goto(c, "idle") /\ Carry(c, NoJob)

Start(c, label, j) ==
  /\ pc[c] = "idle"
  /\ started < MaxCommands
  /\ started' = started + 1
  /\ Goto(c, label) /\ Carry(c, j)
  /\ UNCHANGED <<artifact, design, brief, events, targets, output>>

-----------------------------------------------------------------------------
(* derive_design_package: one statement after the other, no transaction    *)

DeriveStart(c) == Start(c, "package", Job("derive"))

(* The project, its roles, the authority version, the spec fragment, the   *)
(* implementation target, the component and the work item are upserted     *)
(* first; nothing here depends on them but that they exist.                *)
WritePackage(c) ==
  /\ pc[c] = "package"
  /\ package' = job[c].file
  /\ Goto(c, "signoff")
  /\ UNCHANGED <<artifact, signoffs, brief, events, targets, output, job, started>>

(* Each role's row says approved, whether or not the file names a signer;  *)
(* only the optional role is passed over when it names none.               *)
WriteSignoff(c) ==
  LET r == SignoffOrder[job[c].next]
      signed == r \in Signers[job[c].file]
  IN
  /\ pc[c] = "signoff"
  /\ signoffs' = [signoffs EXCEPT ![r] = IF signed THEN "signed"
                                         ELSE IF r \in Optional THEN @ ELSE "unsigned"]
  /\ IF job[c].next < Len(SignoffOrder)
     THEN Carry(c, [job[c] EXCEPT !.next = @ + 1]) /\ UNCHANGED pc
     ELSE Finish(c)
  /\ UNCHANGED <<artifact, package, brief, events, targets, output, started>>

-----------------------------------------------------------------------------
(* assemble_coder_brief, for itself, for the targets and for a review      *)

AssembleStart(c) ==
  \E p \in BOOLEAN : Start(c, "binding", [Job("assemble") EXCEPT !.persist = p])
AuthorStart(c) == Start(c, "binding", Job("author"))
ReviewPackageStart(c, d) == Start(c, "binding", Job(d))

(* evaluate_derivation_readiness: the file must be approved and name every *)
(* signer, and the package row must have the status of the file.  A role   *)
(* is required for a part of the package (derivation_readiness.py:79), and *)
(* the schema the file was validated with just before requires every one   *)
(* of these parts, none of them empty: all roles are required.             *)
FileReady(f) == f \in Approved /\ Roles \subseteq Signers[f]

ReadBinding(c) ==
  /\ pc[c] = "binding"
  /\ IF FileReady(job[c].file) /\ package \in Approved
     THEN Goto(c, "signoffs") /\ UNCHANGED job
     ELSE Finish(c)
  /\ UNCHANGED <<artifact, design, brief, events, targets, output, started>>

(* The signoffs are a query of their own.  Writing the targets evaluates   *)
(* readiness, and the assembly it calls evaluates it again.                *)
ReadSignoffs(c) ==
  /\ pc[c] = "signoffs"
  /\ IF \E r \in Roles : signoffs[r] = "none" THEN Finish(c)
     ELSE IF job[c].cmd = "author" /\ ~job[c].evaluated
     THEN /\ Goto(c, "binding")
          /\ Carry(c, [job[c] EXCEPT !.evaluated = TRUE, !.file = artifact])
     ELSE Goto(c, "load") /\ UNCHANGED job
  /\ UNCHANGED <<artifact, design, brief, events, targets, output, started>>

LoadPackage(c) ==
  /\ pc[c] = "load"
  /\ Carry(c, [job[c] EXCEPT !.content = package])
  /\ Goto(c, "existing")
  /\ UNCHANGED <<artifact, design, brief, events, targets, output, started>>

(* Mutant: a governed brief is assembled again. *)
ReadExistingAnyState(c) ==
  /\ pc[c] = "existing"
  /\ IF job[c].persist
     THEN Goto(c, "upsert") /\ Carry(c, [job[c] EXCEPT !.row = brief])
     ELSE Finish(c)
  /\ UNCHANGED <<artifact, design, brief, events, targets, output, started>>

(* Draft derivation may not overwrite governed authority state: what it    *)
(* finds must be a draft, or nothing.  Without persistence only a file is  *)
(* written.                                                                *)
ReadExisting(c) ==
  /\ pc[c] = "existing"
  /\ IF brief.state \in {"none", "draft_brief"} /\ job[c].persist
     THEN Goto(c, "upsert") /\ Carry(c, [job[c] EXCEPT !.row = brief])
     ELSE Finish(c)
  /\ UNCHANGED <<artifact, design, brief, events, targets, output, started>>

(* What follows the assembly in the command that asked for it. *)
AfterAssembly(c) ==
  CASE job[c].cmd = "assemble" -> Finish(c)
    [] job[c].cmd = "author"   -> Goto(c, "target") /\ UNCHANGED job
    [] OTHER                   -> Goto(c, "review") /\ UNCHANGED job

(* One statement: the row becomes a draft whatever it is by now; the first *)
(* draft, and no other, leaves an event.                                   *)
UpsertBrief(c) ==
  /\ pc[c] = "upsert"
  /\ brief' = [state |-> "draft_brief", content |-> job[c].content,
               ready |-> "derivation_ready"]
  /\ events' = IF Has("derive_draft") THEN events
               ELSE Append(events, Event("derive_draft", "none", "draft_brief"))
  /\ AfterAssembly(c)
  /\ UNCHANGED <<artifact, design, targets, output, started>>

(* Mutant: one target more than the blueprint has. *)
WriteOneTargetMore(c) ==
  /\ pc[c] = "target"
  /\ targets' = targets \cup {job[c].next}
  /\ IF job[c].next <= TargetCount
     THEN Carry(c, [job[c] EXCEPT !.next = @ + 1]) /\ UNCHANGED pc
     ELSE Finish(c)
  /\ UNCHANGED <<artifact, design, brief, events, output, started>>

(* author_brief_targets: elements and realizations first, then the targets *)
(* one by one, each depending on one written before it.                    *)
WriteTarget(c) ==
  /\ pc[c] = "target"
  /\ targets' = targets \cup {job[c].next}
  /\ IF job[c].next < TargetCount
     THEN Carry(c, [job[c] EXCEPT !.next = @ + 1]) /\ UNCHANGED pc
     ELSE Finish(c)
  /\ UNCHANGED <<artifact, design, brief, events, output, started>>

-----------------------------------------------------------------------------
(* review_coder_brief *)

ReviewStart(c, d) ==
  brief.state # "none" /\ Start(c, "review", [NoJob EXCEPT !.cmd = d])

(* Mutant: a brief without targets can be approved. *)
ReviewWithoutTargets(c) ==
  LET d == job[c].cmd IN
  /\ pc[c] = "review"
  /\ IF /\ brief.state \in AllowedFrom[d]
        /\ d = "approve" => brief.ready = "derivation_ready"
     THEN Goto(c, "commit") /\ Carry(c, [job[c] EXCEPT !.row = brief])
     ELSE Finish(c)
  /\ UNCHANGED <<artifact, design, brief, events, targets, output, started>>

(* State, readiness class and number of targets come from one query.  A    *)
(* brief that is in the state asked for already is left alone; one that    *)
(* the decision does not apply to is an error.  Any target is enough.      *)
Review(c) ==
  LET d == job[c].cmd IN
  /\ pc[c] = "review"
  /\ IF /\ brief.state \in AllowedFrom[d]
        /\ d = "approve" => brief.ready = "derivation_ready" /\ targets # {}
     THEN Goto(c, "commit") /\ Carry(c, [job[c] EXCEPT !.row = brief])
     ELSE Finish(c)
  /\ UNCHANGED <<artifact, design, brief, events, targets, output, started>>

(* Row and event in one transaction, both from the context read before. *)
CommitReview(c) ==
  LET d == job[c].cmd IN
  /\ pc[c] = "commit"
  /\ brief' = [brief EXCEPT !.state = Outcome[d]]
  /\ events' = Append(events, Event(Kind[d], job[c].row.state, Outcome[d]))
  /\ Finish(c)
  /\ UNCHANGED <<artifact, design, targets, output, started>>

-----------------------------------------------------------------------------
(* prepare_architect_packet *)

PrepareStart(c) ==
  \E p \in BOOLEAN : Start(c, "prepare", [NoJob EXCEPT !.cmd = "prepare", !.persist = p])

(* Mutant: the brief is marked before its packet is written. *)
ReadApprovedAndMark(c) ==
  /\ pc[c] = "prepare"
  /\ IF /\ brief.state \in {"approved_brief", "packet_ready_execution_authority"}
        /\ targets # {}
     THEN Goto(c, "mark") /\ Carry(c, [job[c] EXCEPT !.row = brief])
     ELSE Finish(c)
  /\ UNCHANGED <<artifact, design, brief, events, targets, output, started>>

(* _packet_checks: an approved brief, or a packet-ready one, with targets. *)
ReadApproved(c) ==
  /\ pc[c] = "prepare"
  /\ IF /\ brief.state \in {"approved_brief", "packet_ready_execution_authority"}
        /\ targets # {}
     THEN Goto(c, "packet") /\ Carry(c, [job[c] EXCEPT !.row = brief])
     ELSE Finish(c)
  /\ UNCHANGED <<artifact, design, brief, events, targets, output, started>>

(* The brief file and the packet file; both already call the brief packet- *)
(* ready.                                                                  *)
WritePacket(c) ==
  /\ pc[c] = "packet"
  /\ packet' = job[c].row.content
  /\ Goto(c, IF job[c].persist THEN "record" ELSE "mark")
  /\ UNCHANGED <<artifact, design, brief, events, targets, runs, job, started>>

RecordRun(c) ==
  /\ pc[c] = "record"
  /\ runs' = runs \cup {job[c].row.content}
  /\ Goto(c, "mark")
  /\ UNCHANGED <<artifact, design, brief, events, targets, packet, job, started>>

(* Mutant: the brief is built anew from the stored package. *)
MarkFromPackage(c) ==
  LET seen == job[c].row
      marked == [state |-> "packet_ready_execution_authority", content |-> package,
                 ready |-> "execution_ready"]
  IN
  /\ pc[c] = "mark"
  /\ IF seen.state # marked.state
     THEN /\ brief' = marked
          /\ events' = Append(events, Event("mark_packet_ready", seen.state, marked.state))
     ELSE /\ brief' = IF job[c].persist THEN [marked EXCEPT !.state = brief.state] ELSE brief
          /\ UNCHANGED events
  /\ Finish(c)
  /\ UNCHANGED <<artifact, design, targets, output, started>>

(* A brief read as approved is marked, persisting or not; one read as      *)
(* packet-ready has its content and class refreshed.                       *)
MarkPacketReady(c) ==
  LET seen == job[c].row
      marked == [state |-> "packet_ready_execution_authority", content |-> seen.content,
                 ready |-> "execution_ready"]
  IN
  /\ pc[c] = "mark"
  /\ IF seen.state # marked.state
     THEN /\ brief' = marked
          /\ events' = Append(events, Event("mark_packet_ready", seen.state, marked.state))
     ELSE /\ brief' = IF job[c].persist THEN [marked EXCEPT !.state = brief.state] ELSE brief
          /\ UNCHANGED events
  /\ Finish(c)
  /\ UNCHANGED <<artifact, design, targets, output, started>>

-----------------------------------------------------------------------------
(* The designer edits the package file. *)
Revise ==
  /\ artifact' \in Revisions \ {artifact}
  /\ UNCHANGED <<design, brief, events, targets, output, pc, job, started>>

(* A statement fails or the process is killed: the command ends there. *)
Die(c) ==
  /\ pc[c] # "idle"
  /\ Finish(c)
  /\ UNCHANGED <<artifact, design, brief, events, targets, output, started>>

Step(c) ==
  \/ DeriveStart(c) \/ WritePackage(c) \/ WriteSignoff(c)
  \/ AssembleStart(c) \/ AuthorStart(c)
  \/ ReadBinding(c) \/ ReadSignoffs(c) \/ LoadPackage(c) \/ ReadExisting(c) \/ UpsertBrief(c)
  \/ WriteTarget(c)
  \/ \E d \in Decisions : ReviewPackageStart(c, d) \/ ReviewStart(c, d)
  \/ Review(c) \/ CommitReview(c)
  \/ PrepareStart(c) \/ ReadApproved(c) \/ WritePacket(c) \/ RecordRun(c) \/ MarkPacketReady(c)
  \/ Die(c)

Next == Revise \/ \E c \in Operator : Step(c)

Spec == Init /\ [][Next]_vars

-----------------------------------------------------------------------------
(* Every variable has its type. *)
AuthorityTypeOK ==
  /\ artifact \in Revisions
  /\ package \in Contents
  /\ signoffs \in [Roles -> {"none", "unsigned", "signed"}]
  /\ brief \in Row
  /\ events \in Seq(Events)
  /\ targets \subseteq 1..TargetCount
  /\ packet \in Contents /\ runs \subseteq Contents
  /\ pc \in [Operator -> Pc]
  /\ job \in [Operator -> Jobs]
  /\ started \in 0..MaxCommands

(* Authority is derived, never asserted: a brief exists only on a stored   *)
(* package all of whose signoffs are recorded, its approval presupposes    *)
(* that draft and a target, and a packet, in a file or as a run, an        *)
(* approval, however commands overlap or die (the order of the statements  *)
(* and the checks of four commands).                                       *)
DraftIsBacked == brief.state # "none" =>
  package # 0 /\ (\A r \in Roles : signoffs[r] # "none") /\ Has("derive_draft")
ApprovalIsBacked == Has("approve_brief") => brief.state # "none" /\ targets # {}
PacketIsBacked == packet # 0 \/ runs # {} \/ Has("mark_packet_ready") => Has("approve_brief")
AuthorityChainIsBacked == DraftIsBacked /\ ApprovalIsBacked /\ PacketIsBacked

(* The row calls a brief packet-ready only when its packet has been        *)
(* written and its readiness class says so: a crash leaves a packet        *)
(* without the state, never the state without a packet.                    *)
PacketReadyHasPacket ==
  brief.state = "packet_ready_execution_authority" =>
    packet # 0 /\ brief.ready = "execution_ready"

(* The transitions the lifecycle document allows. *)
Lifecycle == {<<"draft_brief", "approved_brief">>,
              <<"approved_brief", "packet_ready_execution_authority">>,
              <<"draft_brief", "rejected_authority">>,
              <<"approved_brief", "rejected_authority">>,
              <<"rejected_authority", "draft_brief">>}

(* The command taking this step writes from a row it read that is not the  *)
(* row any more.                                                           *)
Overtaken == \E c \in Operator :
  pc[c] \in {"upsert", "commit", "mark"} /\ pc'[c] # pc[c] /\ job[c].row # brief

(* The authority state moves along the lifecycle only, and each move has   *)
(* an event that tells it as it was, except in a command that another has  *)
(* overtaken between its read and its write.                               *)
MovesFollowLifecycle ==
  [][brief'.state # brief.state =>
       \/ brief.state = "none" /\ brief'.state = "draft_brief"
       \/ /\ <<brief.state, brief'.state>> \in Lifecycle
          /\ \E k \in Kinds : events' = Append(events, Event(k, brief.state, brief'.state))
       \/ Overtaken]_vars

(* What a review has governed is not rewritten: out of draft the content   *)
(* of a brief changes only under a command that has been overtaken.        *)
GovernedContentFrozen ==
  [][brief'.content # brief.content =>
       brief.state \in {"none", "draft_brief"} \/ Overtaken]_vars

=============================================================================
