------------------------ MODULE BriefAuthority_proofs ------------------------
(***************************************************************************)
(* Proofs about BriefAuthority, for every number of operators, revisions,  *)
(* roles, targets and commands: the invariant AuthorityInv, and with it    *)
(* that authority is backed and that the lifecycle is followed.            *)
(***************************************************************************)
EXTENDS BriefAuthority, TLAPS

Signed == \A r \in Roles : signoffs[r] # "none"

Assembling == {"binding", "signoffs", "load", "existing", "upsert"}
Preparing == {"packet", "record", "mark"}

(* What a command may rely on at each of its steps. *)
JobInv(c) ==
  /\ pc[c] \in {"package", "signoff"} =>
       job[c].file \in Revisions /\ job[c].next \in 1..Len(SignoffOrder)
  /\ pc[c] \in Assembling =>
       job[c].cmd \in {"assemble", "author"} \cup Decisions /\ job[c].next = 1
  /\ pc[c] \in Assembling \ {"binding"} => package # 0
  /\ pc[c] \in {"load", "existing", "upsert"} => Signed
  /\ pc[c] \in {"existing", "upsert"} => job[c].content \in Revisions
  /\ pc[c] = "upsert" => job[c].row.state \in {"none", "draft_brief"}
  /\ pc[c] = "target" => job[c].next \in 1..TargetCount
  /\ pc[c] \in {"target", "review", "commit"} => brief.state # "none"
  /\ pc[c] \in {"review", "commit"} => job[c].cmd \in Decisions
  /\ pc[c] = "commit" => /\ job[c].row.state \in AllowedFrom[job[c].cmd]
                         /\ job[c].cmd = "approve" => targets # {}
  /\ pc[c] \in Preparing =>
       /\ job[c].row.state \in {"approved_brief", "packet_ready_execution_authority"}
       /\ job[c].row.content # 0
       /\ Has("approve_brief")
  /\ pc[c] \in {"record", "mark"} => packet # 0

(* A brief has content, and one that is approved or ready was approved. *)
BriefInv ==
  /\ brief.state # "none" => brief.content # 0
  /\ brief.state \in {"approved_brief", "packet_ready_execution_authority"} =>
       Has("approve_brief")

AuthorityInv ==
  /\ AuthorityTypeOK
  /\ \A c \in Operator : JobInv(c)
  /\ BriefInv
  /\ AuthorityChainIsBacked
  /\ PacketReadyHasPacket

-----------------------------------------------------------------------------
(* Every step is one of the named actions. *)
LEMMA StepCases ==
  ASSUME [Next]_vars, NEW G, UNCHANGED vars => G, Revise => G,
         \A c \in Operator : DeriveStart(c) => G,
         \A c \in Operator : WritePackage(c) => G,
         \A c \in Operator : WriteSignoff(c) => G,
         \A c \in Operator : AssembleStart(c) => G,
         \A c \in Operator : AuthorStart(c) => G,
         \A c \in Operator : ReadBinding(c) => G,
         \A c \in Operator : ReadSignoffs(c) => G,
         \A c \in Operator : LoadPackage(c) => G,
         \A c \in Operator : ReadExisting(c) => G,
         \A c \in Operator : UpsertBrief(c) => G,
         \A c \in Operator : WriteTarget(c) => G,
         \A c \in Operator, d \in Decisions : ReviewPackageStart(c, d) => G,
         \A c \in Operator, d \in Decisions : ReviewStart(c, d) => G,
         \A c \in Operator : Review(c) => G,
         \A c \in Operator : CommitReview(c) => G,
         \A c \in Operator : PrepareStart(c) => G,
         \A c \in Operator : ReadApproved(c) => G,
         \A c \in Operator : WritePacket(c) => G,
         \A c \in Operator : RecordRun(c) => G,
         \A c \in Operator : MarkPacketReady(c) => G,
         \A c \in Operator : Die(c) => G
  PROVE  G
BY DEF Next, Step

(* An event that is appended is there, and so are the ones before it. *)
LEMMA AppendHas ==
  ASSUME NEW S, NEW s \in Seq(S), NEW e \in S, NEW k
  PROVE  (\E i \in DOMAIN Append(s, e) : Append(s, e)[i].kind = k)
           <=> (e.kind = k \/ \E i \in DOMAIN s : s[i].kind = k)
<1>1. /\ DOMAIN Append(s, e) = 1..(Len(s) + 1)
      /\ DOMAIN s = 1..Len(s) /\ Len(s) \in Nat
      /\ \A i \in 1..Len(s) : Append(s, e)[i] = s[i]
      /\ Append(s, e)[Len(s) + 1] = e
  OBVIOUS
<1>2. \A i \in 1..(Len(s) + 1) : i \in 1..Len(s) \/ i = Len(s) + 1
  BY <1>1
<1>3. \A i \in 1..Len(s) : i \in 1..(Len(s) + 1)
  BY <1>1
<1>4. Len(s) + 1 \in 1..(Len(s) + 1)
  BY <1>1
<1>5. QED
  BY <1>1, <1>2, <1>3, <1>4

LEMMA NewEvent ==
  ASSUME AuthorityTypeOK, NEW e \in Events, events' = Append(events, e), NEW k
  PROVE  Has(k)' <=> e.kind = k \/ Has(k)
BY AppendHas DEF AuthorityTypeOK, Has

(* What commands rely on is never taken away. *)
Grows ==
  /\ package # 0 => package' # 0
  /\ Signed => Signed'
  /\ brief.state # "none" => brief'.state # "none"
  /\ targets # {} => targets' # {}
  /\ Has("approve_brief") => Has("approve_brief")'
  /\ packet # 0 => packet' # 0

(* Hence a step of one command leaves the others what they rely on. *)
LEMMA Others ==
  ASSUME AuthorityInv, NEW c \in Operator, NEW p, NEW j,
         pc' = [pc EXCEPT ![c] = p], job' = [job EXCEPT ![c] = j],
         Grows, JobInv(c)'
  PROVE  \A d \in Operator : JobInv(d)'
<1>1. SUFFICES ASSUME NEW d \in Operator, d # c PROVE JobInv(d)'
  OBVIOUS
<1>2. pc'[d] = pc[d] /\ job'[d] = job[d]
  BY <1>1 DEF AuthorityInv, AuthorityTypeOK
<1>3. JobInv(d)
  BY DEF AuthorityInv
<1>4. QED
  BY <1>2, <1>3 DEF JobInv, Grows, Signed

(* A step that only moves its command. *)
LEMMA LocalStep ==
  ASSUME AuthorityInv, NEW c \in Operator, NEW p \in Pc, NEW j \in Jobs,
         pc' = [pc EXCEPT ![c] = p], job' = [job EXCEPT ![c] = j],
         UNCHANGED <<artifact, design, brief, events, targets, output>>,
         started' \in 0..MaxCommands, JobInv(c)'
  PROVE  AuthorityInv'
<1>1. AuthorityTypeOK'
  BY DEF AuthorityInv, AuthorityTypeOK, design, output
<1>2. Grows
  BY DEF Grows, Signed, Has, design, output
<1>3. \A d \in Operator : JobInv(d)'
  BY <1>2, Others
<1>4. BriefInv' /\ AuthorityChainIsBacked' /\ PacketReadyHasPacket'
  BY DEF AuthorityInv, BriefInv, AuthorityChainIsBacked, DraftIsBacked, ApprovalIsBacked,
         PacketIsBacked, PacketReadyHasPacket, Has, design, output
<1>5. QED
  BY <1>1, <1>3, <1>4 DEF AuthorityInv

(* A command that ends relies on nothing. *)
LEMMA FinishStep ==
  ASSUME AuthorityInv, NEW c \in Operator, Finish(c),
         UNCHANGED <<artifact, design, brief, events, targets, output, started>>
  PROVE  AuthorityInv'
<1>1. NoJob \in Jobs /\ "idle" \in Pc
  BY DEF NoJob, Jobs, NoBrief, Row, Contents, Pc
<1>2. pc'[c] = "idle"
  BY DEF Finish, Goto, AuthorityInv, AuthorityTypeOK
<1>3. JobInv(c)'
  BY <1>2 DEF JobInv, Assembling, Preparing
<1>4. started' \in 0..MaxCommands
  BY DEF AuthorityInv, AuthorityTypeOK
<1>5. QED
  BY <1>1, <1>3, <1>4, LocalStep DEF Finish, Goto, Carry

LEMMA JobTypes ==
  ASSUME AuthorityTypeOK, NEW c \in Operator
  PROVE  /\ NoJob \in Jobs
         /\ pc[c] \in Pc /\ job[c] \in Jobs
         /\ \A cmd \in {"derive", "assemble", "author"} \cup Decisions : Job(cmd) \in Jobs
<1>1. artifact \in Contents /\ NoJob \in Jobs
  BY DEF AuthorityTypeOK, NoJob, Jobs, NoBrief, Row, Contents
<1>2. \A cmd \in {"derive", "assemble", "author"} \cup Decisions : Job(cmd) \in Jobs
  BY <1>1 DEF Job, Jobs, NoJob
<1>3. QED
  BY <1>1, <1>2 DEF AuthorityTypeOK

(* Starting a command. *)
LEMMA StartStep ==
  ASSUME AuthorityInv, NEW c \in Operator, NEW p \in Pc, NEW j \in Jobs,
         Start(c, p, j),
         \/ p = "package" /\ j.file \in Revisions /\ j.next = 1
         \/ p = "binding" /\ j.cmd \in {"assemble", "author"} \cup Decisions /\ j.next = 1
         \/ p = "review" /\ j.cmd \in Decisions /\ brief.state # "none"
         \/ p = "prepare"
  PROVE  AuthorityInv'
<1>1. started' \in 0..MaxCommands
  BY AuthorityAssumption DEF Start, AuthorityInv, AuthorityTypeOK
<1>2. pc'[c] = p /\ job'[c] = j
  BY DEF Start, Goto, Carry, AuthorityInv, AuthorityTypeOK
<1>3. Len(SignoffOrder) \in Nat \ {0}
  BY AuthorityAssumption
<1>4. JobInv(c)'
  BY <1>2, <1>3 DEF JobInv, Assembling, Preparing, Start
<1>5. QED
  BY <1>1, <1>4, LocalStep DEF Start, Goto, Carry

LEMMA Starts ==
  ASSUME AuthorityInv, NEW c \in Operator
  PROVE  /\ DeriveStart(c) => AuthorityInv'
         /\ AssembleStart(c) => AuthorityInv'
         /\ AuthorStart(c) => AuthorityInv'
         /\ \A d \in Decisions : ReviewPackageStart(c, d) \/ ReviewStart(c, d) => AuthorityInv'
         /\ PrepareStart(c) => AuthorityInv'
<1> USE DEF Pc
<1>1. AuthorityTypeOK /\ artifact \in Revisions
  BY DEF AuthorityInv, AuthorityTypeOK
<1>2. ASSUME DeriveStart(c) PROVE AuthorityInv'
  <2>1. Job("derive") \in Jobs /\ Job("derive").file = artifact /\ Job("derive").next = 1
    BY <1>1, JobTypes DEF Job, NoJob
  <2>2. QED
    BY <1>1, <1>2, <2>1, StartStep DEF DeriveStart
<1>3. ASSUME AssembleStart(c) PROVE AuthorityInv'
  <2>1. PICK p \in BOOLEAN : Start(c, "binding", [Job("assemble") EXCEPT !.persist = p])
    BY <1>3 DEF AssembleStart
  <2> DEFINE j == [Job("assemble") EXCEPT !.persist = p]
  <2>2. Job("assemble") \in Jobs
    BY <1>1, JobTypes
  <2>3. j \in Jobs /\ j.cmd = "assemble" /\ j.next = 1
    BY <2>2 DEF Jobs, Job, NoJob
  <2>4. QED
    BY <2>1, <2>3, StartStep
<1>4. ASSUME AuthorStart(c) PROVE AuthorityInv'
  <2>1. Job("author") \in Jobs /\ Job("author").cmd = "author" /\ Job("author").next = 1
    BY <1>1, JobTypes DEF Job, NoJob
  <2>2. QED
    BY <1>4, <2>1, StartStep DEF AuthorStart
<1>5. ASSUME NEW d \in Decisions, ReviewPackageStart(c, d) PROVE AuthorityInv'
  <2>1. Job(d) \in Jobs /\ Job(d).cmd = d /\ Job(d).next = 1
    BY <1>1, JobTypes DEF Job, NoJob
  <2>2. QED
    BY <1>5, <2>1, StartStep DEF ReviewPackageStart
<1>6. ASSUME NEW d \in Decisions, ReviewStart(c, d) PROVE AuthorityInv'
  <2> DEFINE j == [NoJob EXCEPT !.cmd = d]
  <2>1. NoJob \in Jobs
    BY <1>1, JobTypes
  <2>2. j \in Jobs /\ j.cmd = d
    BY <2>1 DEF Jobs, NoJob
  <2>3. QED
    BY <1>6, <2>2, StartStep DEF ReviewStart
<1>7. ASSUME PrepareStart(c) PROVE AuthorityInv'
  <2>1. PICK p \in BOOLEAN :
          Start(c, "prepare", [NoJob EXCEPT !.cmd = "prepare", !.persist = p])
    BY <1>7 DEF PrepareStart
  <2> DEFINE j == [NoJob EXCEPT !.cmd = "prepare", !.persist = p]
  <2>2. NoJob \in Jobs
    BY <1>1, JobTypes
  <2>3. j \in Jobs
    BY <2>2 DEF Jobs, NoJob
  <2>4. QED
    BY <2>1, <2>3, StartStep
<1>8. QED
  BY <1>2, <1>3, <1>4, <1>5, <1>6, <1>7

(* The steps that read, and move their command on or end it. *)
LEMMA Reads ==
  ASSUME AuthorityInv, NEW c \in Operator
  PROVE  /\ ReadBinding(c) => AuthorityInv'
         /\ ReadSignoffs(c) => AuthorityInv'
         /\ LoadPackage(c) => AuthorityInv'
         /\ ReadExisting(c) => AuthorityInv'
         /\ Review(c) => AuthorityInv'
         /\ ReadApproved(c) => AuthorityInv'
         /\ Die(c) => AuthorityInv'
<1> USE DEF Pc
<1>1. /\ AuthorityTypeOK /\ JobInv(c) /\ artifact \in Revisions /\ package \in Contents
      /\ job[c] \in Jobs /\ brief \in Row /\ started \in 0..MaxCommands
      /\ DOMAIN pc = Operator /\ job \in [Operator -> Jobs]
  BY DEF AuthorityInv, AuthorityTypeOK
<1>2. artifact \in Contents
  BY <1>1 DEF Contents
<1> DEFINE quiet == UNCHANGED <<artifact, design, brief, events, targets, output, started>>
<1>3. ASSUME NEW p \in Pc, NEW j \in Jobs, quiet, JobInv(c)',
             pc' = [pc EXCEPT ![c] = p], job' = [job EXCEPT ![c] = j]
      PROVE  AuthorityInv'
  BY <1>1, <1>3, LocalStep
<1>4. job = [job EXCEPT ![c] = job[c]]
  BY <1>1
<1>5. ASSUME ReadBinding(c) PROVE AuthorityInv'
  <2>1. CASE ~(FileReady(job[c].file) /\ package \in Approved)
    BY <1>5, <2>1, FinishStep DEF ReadBinding
  <2>2. CASE FileReady(job[c].file) /\ package \in Approved
    <3>1. package # 0
      BY <2>2, AuthorityAssumption
    <3>2. pc'[c] = "signoffs" /\ job' = job /\ package' = package /\ pc[c] = "binding"
      BY <1>1, <1>5, <2>2 DEF ReadBinding, Goto, design
    <3>3. JobInv(c)'
      BY <1>1, <3>1, <3>2 DEF JobInv, Assembling, Preparing
    <3>4. QED
      BY <1>1, <1>3, <1>4, <1>5, <2>2, <3>3 DEF ReadBinding, Goto
  <2>3. QED
    BY <2>1, <2>2
<1>6. ASSUME ReadSignoffs(c) PROVE AuthorityInv'
  <2>1. CASE ~Signed
    BY <1>6, <2>1, FinishStep DEF ReadSignoffs, Signed
  <2>2. CASE Signed /\ job[c].cmd = "author" /\ ~job[c].evaluated
    <3> DEFINE j == [job[c] EXCEPT !.evaluated = TRUE, !.file = artifact]
    <3>1. j \in Jobs /\ j.cmd = job[c].cmd /\ j.next = job[c].next
      BY <1>1, <1>2 DEF Jobs
    <3>2. /\ pc' = [pc EXCEPT ![c] = "binding"] /\ job' = [job EXCEPT ![c] = j] /\ quiet
          /\ pc[c] = "signoffs"
      BY <1>6, <2>2 DEF ReadSignoffs, Signed, Goto, Carry
    <3>3. pc'[c] = "binding" /\ job'[c] = j
      BY <1>1, <3>2
    <3>4. JobInv(c)'
      BY <1>1, <3>1, <3>2, <3>3 DEF JobInv, Assembling, Preparing
    <3>5. QED
      BY <1>3, <3>1, <3>2, <3>4
  <2>3. CASE Signed /\ ~(job[c].cmd = "author" /\ ~job[c].evaluated)
    <3>1. pc' = [pc EXCEPT ![c] = "load"] /\ job' = job /\ quiet /\ pc[c] = "signoffs"
      BY <1>6, <2>3 DEF ReadSignoffs, Signed, Goto
    <3>2. pc'[c] = "load" /\ Signed' /\ package' = package
      BY <1>1, <2>3, <3>1 DEF Signed, design
    <3>3. JobInv(c)'
      BY <1>1, <3>1, <3>2 DEF JobInv, Assembling, Preparing
    <3>4. QED
      BY <1>1, <1>3, <1>4, <3>1, <3>3
  <2>4. QED
    BY <2>1, <2>2, <2>3
<1>7. ASSUME LoadPackage(c) PROVE AuthorityInv'
  <2> DEFINE j == [job[c] EXCEPT !.content = package]
  <2>1. j \in Jobs /\ j.cmd = job[c].cmd /\ j.next = job[c].next /\ j.content = package
    BY <1>1 DEF Jobs
  <2>2. /\ pc' = [pc EXCEPT ![c] = "existing"] /\ job' = [job EXCEPT ![c] = j] /\ quiet
        /\ pc[c] = "load"
    BY <1>7 DEF LoadPackage, Goto, Carry
  <2>3. pc'[c] = "existing" /\ job'[c] = j /\ package' = package /\ (Signed => Signed')
    BY <1>1, <2>2 DEF Signed, design
  <2>4. package \in Revisions
    BY <1>1, <2>2 DEF JobInv, Assembling, Contents
  <2>5. JobInv(c)'
    BY <1>1, <2>1, <2>2, <2>3, <2>4 DEF JobInv, Assembling, Preparing
  <2>6. QED
    BY <1>3, <2>1, <2>2, <2>5
<1>8. ASSUME ReadExisting(c) PROVE AuthorityInv'
  <2> DEFINE j == [job[c] EXCEPT !.row = brief]
  <2>1. CASE ~(brief.state \in {"none", "draft_brief"} /\ job[c].persist)
    BY <1>8, <2>1, FinishStep DEF ReadExisting
  <2>2. CASE brief.state \in {"none", "draft_brief"} /\ job[c].persist
    <3>1. /\ j \in Jobs /\ j.cmd = job[c].cmd /\ j.next = job[c].next
          /\ j.content = job[c].content /\ j.row = brief
      BY <1>1 DEF Jobs
    <3>2. /\ pc' = [pc EXCEPT ![c] = "upsert"] /\ job' = [job EXCEPT ![c] = j] /\ quiet
          /\ pc[c] = "existing"
      BY <1>8, <2>2 DEF ReadExisting, Goto, Carry
    <3>3. pc'[c] = "upsert" /\ job'[c] = j /\ package' = package /\ (Signed => Signed')
      BY <1>1, <3>2 DEF Signed, design
    <3>4. JobInv(c)'
      BY <1>1, <2>2, <3>1, <3>2, <3>3 DEF JobInv, Assembling, Preparing
    <3>5. QED
      BY <1>3, <3>1, <3>2, <3>4
  <2>3. QED
    BY <2>1, <2>2
<1>9. ASSUME Review(c) PROVE AuthorityInv'
  <2> DEFINE d == job[c].cmd
             j == [job[c] EXCEPT !.row = brief]
             granted == /\ brief.state \in AllowedFrom[d]
                        /\ d = "approve" => brief.ready = "derivation_ready" /\ targets # {}
  <2>1. CASE ~granted
    BY <1>9, <2>1, FinishStep DEF Review
  <2>2. CASE granted
    <3>1. j \in Jobs /\ j.cmd = d /\ j.row = brief
      BY <1>1 DEF Jobs
    <3>2. /\ pc' = [pc EXCEPT ![c] = "commit"] /\ job' = [job EXCEPT ![c] = j] /\ quiet
          /\ pc[c] = "review"
      BY <1>9, <2>2 DEF Review, Goto, Carry
    <3>3. pc'[c] = "commit" /\ job'[c] = j /\ brief' = brief /\ targets' = targets
      BY <1>1, <3>2
    <3>4. JobInv(c)'
      BY <1>1, <2>2, <3>1, <3>2, <3>3 DEF JobInv, Assembling, Preparing
    <3>5. QED
      BY <1>3, <3>1, <3>2, <3>4
  <2>3. QED
    BY <2>1, <2>2
<1>10. ASSUME ReadApproved(c) PROVE AuthorityInv'
  <2> DEFINE j == [job[c] EXCEPT !.row = brief]
             good == /\ brief.state \in {"approved_brief", "packet_ready_execution_authority"}
                     /\ targets # {}
  <2>1. CASE ~good
    BY <1>10, <2>1, FinishStep DEF ReadApproved
  <2>2. CASE good
    <3>1. j \in Jobs /\ j.row = brief
      BY <1>1 DEF Jobs
    <3>2. /\ pc' = [pc EXCEPT ![c] = "packet"] /\ job' = [job EXCEPT ![c] = j] /\ quiet
      BY <1>10, <2>2 DEF ReadApproved, Goto, Carry
    <3>3. pc'[c] = "packet" /\ job'[c] = j
      BY <1>1, <3>2
    <3>4. brief.content # 0 /\ Has("approve_brief")'
      BY <2>2, <3>2 DEF AuthorityInv, BriefInv, Has
    <3>5. JobInv(c)'
      BY <2>2, <3>1, <3>3, <3>4 DEF JobInv, Assembling, Preparing
    <3>6. QED
      BY <1>3, <3>1, <3>2, <3>5
  <2>3. QED
    BY <2>1, <2>2
<1>11. ASSUME Die(c) PROVE AuthorityInv'
  BY <1>11, FinishStep DEF Die
<1>12. QED
  BY <1>5, <1>6, <1>7, <1>8, <1>9, <1>10, <1>11

-----------------------------------------------------------------------------
(* The steps that write.  Each keeps what the other commands rely on, and  *)
(* leaves its own command with what its next step relies on.               *)
LEMMA WriteStep ==
  ASSUME AuthorityInv, NEW c \in Operator, NEW p \in Pc, NEW j \in Jobs,
         pc' = [pc EXCEPT ![c] = p], job' = [job EXCEPT ![c] = j],
         Grows, JobInv(c)', UNCHANGED <<artifact, started>>,
         package' \in Contents, signoffs' \in [Roles -> {"none", "unsigned", "signed"}],
         brief' \in Row, events' \in Seq(Events), targets' \subseteq 1..TargetCount,
         packet' \in Contents, runs' \subseteq Contents,
         BriefInv', AuthorityChainIsBacked', PacketReadyHasPacket'
  PROVE  AuthorityInv'
<1>1. AuthorityTypeOK'
  BY DEF AuthorityInv, AuthorityTypeOK
<1>2. \A d \in Operator : JobInv(d)'
  BY Others
<1>3. QED
  BY <1>1, <1>2 DEF AuthorityInv

LEMMA ReviseKeeps ==
  ASSUME AuthorityInv, Revise
  PROVE  AuthorityInv'
<1>1. AuthorityTypeOK'
  BY DEF AuthorityInv, AuthorityTypeOK, Revise, design, output
<1>2. UNCHANGED <<package, signoffs, brief, events, targets, packet, runs, pc, job>>
  BY DEF Revise, design, output
<1>3. \A d \in Operator : JobInv(d)'
  BY <1>2 DEF AuthorityInv, JobInv, Signed, Has
<1>4. BriefInv' /\ AuthorityChainIsBacked' /\ PacketReadyHasPacket'
  BY <1>2 DEF AuthorityInv, BriefInv, AuthorityChainIsBacked, DraftIsBacked, ApprovalIsBacked,
         PacketIsBacked, PacketReadyHasPacket, Has
<1>5. QED
  BY <1>1, <1>3, <1>4 DEF AuthorityInv

LEMMA WritePackageKeeps ==
  ASSUME AuthorityInv, NEW c \in Operator, WritePackage(c)
  PROVE  AuthorityInv'
<1>1. /\ AuthorityTypeOK /\ JobInv(c) /\ job[c] \in Jobs /\ DOMAIN pc = Operator
      /\ job \in [Operator -> Jobs]
  BY DEF AuthorityInv, AuthorityTypeOK
<1>2. package' \in Revisions
  BY <1>1 DEF WritePackage, JobInv
<1>3. package' # 0 /\ package' \in Contents
  BY <1>2, AuthorityAssumption DEF Contents
<1>4. pc' = [pc EXCEPT ![c] = "signoff"] /\ job' = [job EXCEPT ![c] = job[c]] /\ pc'[c] = "signoff"
  BY <1>1 DEF WritePackage, Goto
<1>5. UNCHANGED <<artifact, started, signoffs, brief, events, targets, packet, runs>>
  BY DEF WritePackage, output
<1>6. Grows
  BY <1>3, <1>5 DEF Grows, Signed, Has
<1>7. JobInv(c)'
  BY <1>1, <1>4 DEF JobInv, Assembling, Preparing, WritePackage
<1>8. BriefInv' /\ AuthorityChainIsBacked' /\ PacketReadyHasPacket'
  BY <1>3, <1>5 DEF AuthorityInv, BriefInv, AuthorityChainIsBacked, DraftIsBacked,
     ApprovalIsBacked, PacketIsBacked, PacketReadyHasPacket, Has
<1>9. QED
  BY <1>1, <1>3, <1>4, <1>5, <1>6, <1>7, <1>8, WriteStep DEF AuthorityTypeOK, Pc

LEMMA WriteSignoffKeeps ==
  ASSUME AuthorityInv, NEW c \in Operator, WriteSignoff(c)
  PROVE  AuthorityInv'
<1> DEFINE r == SignoffOrder[job[c].next]
           v == IF r \in Signers[job[c].file] THEN "signed"
                ELSE IF r \in Optional THEN signoffs[r] ELSE "unsigned"
           more == job[c].next < Len(SignoffOrder)
           p == IF more THEN "signoff" ELSE "idle"
           j == IF more THEN [job[c] EXCEPT !.next = @ + 1] ELSE NoJob
<1>1. /\ AuthorityTypeOK /\ JobInv(c) /\ job[c] \in Jobs /\ pc \in [Operator -> Pc]
      /\ job \in [Operator -> Jobs] /\ NoJob \in Jobs
      /\ signoffs \in [Roles -> {"none", "unsigned", "signed"}] /\ pc[c] = "signoff"
  BY JobTypes DEF AuthorityInv, AuthorityTypeOK, WriteSignoff
<1>2. /\ job[c].file \in Revisions /\ job[c].next \in 1..Len(SignoffOrder)
      /\ Len(SignoffOrder) \in Nat
  BY <1>1, AuthorityAssumption DEF JobInv
<1>3. r \in Roles
  BY <1>2, AuthorityAssumption
<1>4. signoffs' = [signoffs EXCEPT ![r] = v]
  BY <1>3 DEF WriteSignoff
<1>5. signoffs' \in [Roles -> {"none", "unsigned", "signed"}] /\ (Signed => Signed')
  BY <1>1, <1>3, <1>4 DEF Signed
<1>6. j \in Jobs /\ (more => j.file = job[c].file /\ j.next = job[c].next + 1)
  <2>1. job[c].next + 1 \in Nat \ {0}
    BY <1>2
  <2>2. CASE more
    <3>1. j = [job[c] EXCEPT !.next = job[c].next + 1]
      BY <2>2
    <3>2. QED
      BY <1>1, <2>1, <3>1 DEF Jobs
  <2>3. CASE ~more
    BY <1>1, <2>3
  <2>4. QED
    BY <2>2, <2>3
<1>7. pc' = [pc EXCEPT ![c] = p] /\ job' = [job EXCEPT ![c] = j]
  <2>1. CASE more
    <3>1. pc = [pc EXCEPT ![c] = "signoff"]
      BY <1>1
    <3>2. QED
      BY <2>1, <3>1 DEF WriteSignoff, Carry
  <2>2. CASE ~more
    BY <2>2 DEF WriteSignoff, Finish, Goto, Carry
  <2>3. QED
    BY <2>1, <2>2
<1>8. pc'[c] = p /\ job'[c] = j
  BY <1>1, <1>7
<1>9. UNCHANGED <<artifact, started, package, brief, events, targets, packet, runs>>
  BY DEF WriteSignoff, output
<1>10. Grows
  BY <1>5, <1>9 DEF Grows, Has
<1>11. JobInv(c)'
  <2>1. CASE more
    <3>1. j.next \in 1..Len(SignoffOrder) /\ j.file \in Revisions
      BY <1>2, <1>6, <2>1
    <3>2. QED
      BY <1>8, <2>1, <3>1 DEF JobInv, Assembling, Preparing
  <2>2. CASE ~more
    BY <1>8, <2>2 DEF JobInv, Assembling, Preparing
  <2>3. QED
    BY <2>1, <2>2
<1>12. BriefInv' /\ AuthorityChainIsBacked' /\ PacketReadyHasPacket'
  BY <1>5, <1>9 DEF AuthorityInv, BriefInv, AuthorityChainIsBacked, DraftIsBacked,
     ApprovalIsBacked, PacketIsBacked, PacketReadyHasPacket, Has, Signed
<1>13. p \in Pc
  BY DEF Pc
<1> HIDE DEF p, j, more, r, v
<1>14. QED
  BY <1>1, <1>5, <1>6, <1>7, <1>9, <1>10, <1>11, <1>12, <1>13, WriteStep DEF AuthorityTypeOK

LEMMA UpsertKeeps ==
  ASSUME AuthorityInv, NEW c \in Operator, UpsertBrief(c)
  PROVE  AuthorityInv'
<1> DEFINE e == Event("derive_draft", "none", "draft_brief")
           p == CASE job[c].cmd = "assemble" -> "idle"
                  [] job[c].cmd = "author" -> "target"
                  [] OTHER -> "review"
           j == IF job[c].cmd = "assemble" THEN NoJob ELSE job[c]
<1>1. /\ AuthorityTypeOK /\ JobInv(c) /\ job[c] \in Jobs /\ DOMAIN pc = Operator
      /\ job \in [Operator -> Jobs] /\ NoJob \in Jobs /\ events \in Seq(Events)
      /\ pc[c] = "upsert"
  BY JobTypes DEF AuthorityInv, AuthorityTypeOK, UpsertBrief
<1>2. /\ package # 0 /\ Signed /\ job[c].content \in Revisions /\ job[c].next = 1
      /\ job[c].cmd \in {"assemble", "author"} \cup Decisions
  BY <1>1 DEF JobInv, Assembling
<1>3. e \in Events
  BY DEF Event, Events, Kinds, States
<1>4. /\ brief' = [state |-> "draft_brief", content |-> job[c].content,
                   ready |-> "derivation_ready"]
      /\ brief' \in Row /\ brief'.state = "draft_brief" /\ brief'.content # 0
  BY <1>2, AuthorityAssumption DEF UpsertBrief, Row, States, Contents
<1>5. /\ events' \in Seq(Events) /\ Has("derive_draft")'
      /\ \A k \in {"approve_brief", "mark_packet_ready"} : Has(k)' <=> Has(k)
  <2>1. CASE Has("derive_draft")
    BY <1>1, <2>1 DEF UpsertBrief, Has
  <2>2. CASE ~Has("derive_draft")
    <3>1. events' = Append(events, e)
      BY <2>2 DEF UpsertBrief
    <3>2. e.kind = "derive_draft"
      BY DEF Event
    <3>3. \A k : Has(k)' <=> e.kind = k \/ Has(k)
      BY <1>1, <1>3, <3>1, NewEvent
    <3>4. events' \in Seq(Events)
      BY <1>1, <1>3, <3>1
    <3>5. QED
      BY <3>2, <3>3, <3>4
  <2>3. QED
    BY <2>1, <2>2
<1>6. UNCHANGED <<artifact, started, package, signoffs, targets, packet, runs>>
  BY DEF UpsertBrief, design, output
<1>7. pc' = [pc EXCEPT ![c] = p] /\ job' = [job EXCEPT ![c] = j] /\ p \in Pc /\ j \in Jobs
  <2>1. job = [job EXCEPT ![c] = job[c]]
    BY <1>1
  <2>2. QED
    BY <1>1, <2>1 DEF UpsertBrief, AfterAssembly, Finish, Goto, Carry, Pc
<1>8. pc'[c] = p /\ job'[c] = j
  BY <1>1, <1>7
<1>9. Grows
  BY <1>4, <1>5, <1>6 DEF Grows, Signed
<1>10. JobInv(c)'
  <2>1. CASE job[c].cmd = "assemble"
    BY <1>8, <2>1 DEF JobInv, Assembling, Preparing
  <2>2. CASE job[c].cmd = "author"
    <3>1. pc'[c] = "target" /\ job'[c] = job[c] /\ 1 \in 1..TargetCount
      BY <1>8, <2>2, AuthorityAssumption
    <3>2. QED
      BY <1>2, <1>4, <3>1 DEF JobInv, Assembling, Preparing
  <2>3. CASE job[c].cmd \in Decisions
    <3>1. pc'[c] = "review" /\ job'[c] = job[c]
      BY <1>8, <2>3 DEF Decisions
    <3>2. QED
      BY <1>2, <1>4, <2>3, <3>1 DEF JobInv, Assembling, Preparing
  <2>4. QED
    BY <1>2, <2>1, <2>2, <2>3
<1>11. BriefInv' /\ AuthorityChainIsBacked' /\ PacketReadyHasPacket'
  BY <1>2, <1>4, <1>5, <1>6 DEF AuthorityInv, BriefInv, AuthorityChainIsBacked, DraftIsBacked,
     ApprovalIsBacked, PacketIsBacked, PacketReadyHasPacket, Signed
<1> HIDE DEF p, j
<1>12. QED
  BY <1>1, <1>4, <1>5, <1>6, <1>7, <1>9, <1>10, <1>11, WriteStep DEF AuthorityTypeOK

LEMMA WriteTargetKeeps ==
  ASSUME AuthorityInv, NEW c \in Operator, WriteTarget(c)
  PROVE  AuthorityInv'
<1> DEFINE more == job[c].next < TargetCount
           p == IF more THEN "target" ELSE "idle"
           j == IF more THEN [job[c] EXCEPT !.next = @ + 1] ELSE NoJob
<1>1. /\ AuthorityTypeOK /\ JobInv(c) /\ job[c] \in Jobs /\ pc \in [Operator -> Pc]
      /\ job \in [Operator -> Jobs] /\ NoJob \in Jobs
      /\ targets \subseteq 1..TargetCount /\ pc[c] = "target"
  BY JobTypes DEF AuthorityInv, AuthorityTypeOK, WriteTarget
<1>2. job[c].next \in 1..TargetCount /\ brief.state # "none" /\ TargetCount \in Nat
  BY <1>1, AuthorityAssumption DEF JobInv
<1>3. targets' \subseteq 1..TargetCount /\ targets' # {}
  BY <1>1, <1>2 DEF WriteTarget
<1>4. j \in Jobs /\ (more => j.next = job[c].next + 1)
  BY <1>1, <1>2 DEF Jobs
<1>5. pc' = [pc EXCEPT ![c] = p] /\ job' = [job EXCEPT ![c] = j]
  <2>1. CASE more
    <3>1. pc = [pc EXCEPT ![c] = "target"]
      BY <1>1
    <3>2. QED
      BY <2>1, <3>1 DEF WriteTarget, Carry
  <2>2. CASE ~more
    BY <2>2 DEF WriteTarget, Finish, Goto, Carry
  <2>3. QED
    BY <2>1, <2>2
<1>6. pc'[c] = p /\ job'[c] = j
  BY <1>1, <1>5
<1>7. UNCHANGED <<artifact, started, package, signoffs, brief, events, packet, runs>>
  BY DEF WriteTarget, design, output
<1>8. Grows
  BY <1>3, <1>7 DEF Grows, Signed, Has
<1>9. JobInv(c)'
  <2>1. CASE more
    <3>1. j.next \in 1..TargetCount
      BY <1>2, <1>4, <2>1
    <3>2. QED
      BY <1>2, <1>6, <1>7, <2>1, <3>1 DEF JobInv, Assembling, Preparing
  <2>2. CASE ~more
    BY <1>6, <2>2 DEF JobInv, Assembling, Preparing
  <2>3. QED
    BY <2>1, <2>2
<1>10. BriefInv' /\ AuthorityChainIsBacked' /\ PacketReadyHasPacket'
  BY <1>3, <1>7 DEF AuthorityInv, BriefInv, AuthorityChainIsBacked, DraftIsBacked,
     ApprovalIsBacked, PacketIsBacked, PacketReadyHasPacket, Has
<1>11. p \in Pc
  BY DEF Pc
<1> HIDE DEF p, j, more
<1>12. QED
  BY <1>1, <1>3, <1>4, <1>5, <1>7, <1>8, <1>9, <1>10, <1>11, WriteStep DEF AuthorityTypeOK

LEMMA CommitKeeps ==
  ASSUME AuthorityInv, NEW c \in Operator, CommitReview(c)
  PROVE  AuthorityInv'
<1> DEFINE d == job[c].cmd
           e == Event(Kind[d], job[c].row.state, Outcome[d])
<1>1. /\ AuthorityTypeOK /\ JobInv(c) /\ job[c] \in Jobs /\ pc \in [Operator -> Pc]
      /\ NoJob \in Jobs /\ brief \in Row /\ events \in Seq(Events) /\ pc[c] = "commit"
  BY JobTypes DEF AuthorityInv, AuthorityTypeOK, CommitReview
<1>2. /\ d \in Decisions /\ brief.state # "none"
      /\ job[c].row.state \in AllowedFrom[d]
      /\ d = "approve" => targets # {}
  BY <1>1 DEF JobInv
<1>3. /\ Outcome[d] \in States \ {"packet_ready_execution_authority"}
      /\ Kind[d] \in Kinds \ {"derive_draft", "mark_packet_ready"}
      /\ Kind[d] = "approve_brief" <=> d = "approve"
      /\ Outcome[d] = "approved_brief" <=> d = "approve"
      /\ job[c].row.state \in States
  BY <1>2 DEF Decisions, Outcome, Kind, Kinds, States, AllowedFrom
<1>4. e \in Events /\ e.kind = Kind[d]
  BY <1>3 DEF Event, Events
<1>5. events' = Append(events, e) /\ events' \in Seq(Events)
  BY <1>1, <1>4 DEF CommitReview
<1>6. \A k : Has(k)' <=> Kind[d] = k \/ Has(k)
  BY <1>1, <1>4, <1>5, NewEvent
<1>7. /\ brief' = [brief EXCEPT !.state = Outcome[d]]
      /\ brief' \in Row /\ brief'.state = Outcome[d] /\ brief'.content = brief.content
      /\ brief'.state # "none" /\ brief'.state # "packet_ready_execution_authority"
  BY <1>1, <1>3 DEF CommitReview, Row, States
<1>8. UNCHANGED <<artifact, started, package, signoffs, targets, packet, runs>>
  BY DEF CommitReview, design, output
<1>9. /\ pc' = [pc EXCEPT ![c] = "idle"] /\ job' = [job EXCEPT ![c] = NoJob] /\ pc'[c] = "idle"
  BY <1>1 DEF CommitReview, Finish, Goto, Carry
<1>10. Grows
  BY <1>6, <1>7, <1>8 DEF Grows, Signed
<1>11. JobInv(c)'
  BY <1>9 DEF JobInv, Assembling, Preparing
<1>12. BriefInv'
  BY <1>2, <1>3, <1>6, <1>7 DEF AuthorityInv, BriefInv
<1>13. AuthorityChainIsBacked'
  <2>1. DraftIsBacked'
    BY <1>2, <1>6, <1>8 DEF AuthorityInv, AuthorityChainIsBacked, DraftIsBacked
  <2>2. ApprovalIsBacked'
    BY <1>2, <1>3, <1>6, <1>7, <1>8 DEF AuthorityInv, AuthorityChainIsBacked, ApprovalIsBacked
  <2>3. PacketIsBacked'
    BY <1>3, <1>6, <1>8 DEF AuthorityInv, AuthorityChainIsBacked, PacketIsBacked
  <2>4. QED
    BY <2>1, <2>2, <2>3 DEF AuthorityChainIsBacked
<1>14. PacketReadyHasPacket'
  BY <1>7 DEF PacketReadyHasPacket
<1>15. "idle" \in Pc
  BY DEF Pc
<1> HIDE DEF d, e
<1>16. QED
  BY <1>1, <1>5, <1>7, <1>8, <1>9, <1>10, <1>11, <1>12, <1>13, <1>14, <1>15, WriteStep
     DEF AuthorityInv, AuthorityTypeOK

(* The packet is on disk, then in the database. *)
LEMMA PacketKeeps ==
  ASSUME AuthorityInv, NEW c \in Operator, WritePacket(c) \/ RecordRun(c)
  PROVE  AuthorityInv'
<1> DEFINE p == IF pc[c] = "packet" /\ job[c].persist THEN "record" ELSE "mark"
<1>1. /\ AuthorityTypeOK /\ JobInv(c) /\ job[c] \in Jobs /\ pc \in [Operator -> Pc]
      /\ job \in [Operator -> Jobs] /\ pc[c] \in {"packet", "record"}
      /\ packet \in Contents /\ runs \subseteq Contents
  BY DEF AuthorityInv, AuthorityTypeOK, WritePacket, RecordRun
<1>2. /\ job[c].row.state \in {"approved_brief", "packet_ready_execution_authority"}
      /\ job[c].row.content # 0 /\ Has("approve_brief")
      /\ pc[c] = "record" => packet # 0
  BY <1>1 DEF JobInv, Preparing
<1>3. job[c].row.content \in Contents
  BY <1>1 DEF Jobs, Row
<1>4. /\ packet' \in Contents /\ runs' \subseteq Contents /\ packet' # 0
      /\ UNCHANGED <<artifact, started, package, signoffs, brief, events, targets, job>>
      /\ pc' = [pc EXCEPT ![c] = p]
  BY <1>1, <1>2, <1>3 DEF WritePacket, RecordRun, Goto, design
<1>5. job' = [job EXCEPT ![c] = job[c]] /\ pc'[c] = p /\ p \in {"record", "mark"}
  BY <1>1, <1>4
<1>6. Grows
  BY <1>4 DEF Grows, Signed, Has
<1>7. JobInv(c)'
  BY <1>2, <1>4, <1>5 DEF JobInv, Assembling, Preparing, Has
<1>8. BriefInv' /\ AuthorityChainIsBacked' /\ PacketReadyHasPacket'
  BY <1>2, <1>4 DEF AuthorityInv, BriefInv, AuthorityChainIsBacked, DraftIsBacked,
     ApprovalIsBacked, PacketIsBacked, PacketReadyHasPacket, Has
<1>9. p \in Pc
  BY DEF Pc
<1> HIDE DEF p
<1>10. QED
  BY <1>1, <1>4, <1>5, <1>6, <1>7, <1>8, <1>9, WriteStep DEF AuthorityTypeOK

LEMMA MarkKeeps ==
  ASSUME AuthorityInv, NEW c \in Operator, MarkPacketReady(c)
  PROVE  AuthorityInv'
<1> DEFINE seen == job[c].row
           ready == "packet_ready_execution_authority"
           marked == [state |-> ready, content |-> seen.content, ready |-> "execution_ready"]
           e == Event("mark_packet_ready", seen.state, ready)
<1>1. /\ AuthorityTypeOK /\ JobInv(c) /\ job[c] \in Jobs /\ pc \in [Operator -> Pc]
      /\ NoJob \in Jobs /\ brief \in Row /\ events \in Seq(Events) /\ pc[c] = "mark"
  BY JobTypes DEF AuthorityInv, AuthorityTypeOK, MarkPacketReady
<1>2. /\ seen.state \in {"approved_brief", ready} /\ seen.content # 0
      /\ Has("approve_brief") /\ packet # 0
  BY <1>1 DEF JobInv, Preparing
<1>3. marked \in Row /\ seen.state \in States
  BY <1>1, <1>2 DEF Jobs, Row, States
<1>4. UNCHANGED <<artifact, started, package, signoffs, targets, packet, runs>>
  BY DEF MarkPacketReady, design, output
<1>5. /\ pc' = [pc EXCEPT ![c] = "idle"] /\ job' = [job EXCEPT ![c] = NoJob] /\ pc'[c] = "idle"
  BY <1>1 DEF MarkPacketReady, Finish, Goto, Carry
<1>6. /\ events' \in Seq(Events)
      /\ \A k : Has(k) => Has(k)'
  <2>1. CASE seen.state # ready
    <3>1. e \in Events /\ events' = Append(events, e)
      BY <1>3, <2>1 DEF Event, Events, Kinds, States, MarkPacketReady
    <3>2. QED
      BY <1>1, <3>1, NewEvent
  <2>2. CASE seen.state = ready
    BY <1>1, <2>2 DEF MarkPacketReady, Has
  <2>3. QED
    BY <2>1, <2>2
<1>7. \/ brief' = marked
      \/ brief' = [marked EXCEPT !.state = brief.state]
      \/ brief' = brief
  BY DEF MarkPacketReady
<1>8. brief' \in Row
  BY <1>1, <1>3, <1>7 DEF Row
<1>9. /\ brief.state # "none" => brief'.state # "none"
      /\ brief'.state # "none" => brief'.content # 0
      /\ brief'.state = ready => brief'.ready = "execution_ready"
      /\ brief'.state # "none" => brief.state # "none" \/ Has("approve_brief")
  BY <1>2, <1>7 DEF AuthorityInv, BriefInv, PacketReadyHasPacket
<1>10. brief.state # "none"
  BY <1>2 DEF AuthorityInv, AuthorityChainIsBacked, ApprovalIsBacked
<1>11. Grows
  BY <1>4, <1>6, <1>9 DEF Grows, Signed
<1>12. JobInv(c)'
  BY <1>5 DEF JobInv, Assembling, Preparing
<1>13. BriefInv' /\ PacketReadyHasPacket'
  BY <1>2, <1>4, <1>6, <1>9 DEF BriefInv, PacketReadyHasPacket
<1>14. AuthorityChainIsBacked'
  <2>1. DraftIsBacked'
    BY <1>4, <1>6, <1>10 DEF AuthorityInv, AuthorityChainIsBacked, DraftIsBacked
  <2>2. ApprovalIsBacked'
    BY <1>2, <1>4, <1>9, <1>10 DEF AuthorityInv, AuthorityChainIsBacked, ApprovalIsBacked
  <2>3. PacketIsBacked'
    BY <1>2, <1>6 DEF PacketIsBacked
  <2>4. QED
    BY <2>1, <2>2, <2>3 DEF AuthorityChainIsBacked
<1>15. "idle" \in Pc
  BY DEF Pc
<1> HIDE DEF seen, marked, e, ready
<1>16. QED
  BY <1>1, <1>4, <1>5, <1>6, <1>8, <1>11, <1>12, <1>13, <1>14, <1>15, WriteStep
     DEF AuthorityInv, AuthorityTypeOK

-----------------------------------------------------------------------------
LEMMA InitAuthority ==
  ASSUME Init
  PROVE  AuthorityInv
<1>1. AuthorityTypeOK
  <2>1. NoJob \in Jobs /\ NoBrief \in Row /\ artifact \in Revisions
    BY DEF Init, NoJob, Jobs, NoBrief, Row, Contents
  <2>2. QED
    BY <2>1, AuthorityAssumption DEF Init, AuthorityTypeOK, Contents, Pc
<1>2. \A c \in Operator : JobInv(c)
  BY DEF Init, JobInv, Assembling, Preparing
<1>3. \A k : ~Has(k)
  BY DEF Init, Has
<1>4. BriefInv /\ AuthorityChainIsBacked /\ PacketReadyHasPacket
  BY <1>3 DEF Init, NoBrief, BriefInv, AuthorityChainIsBacked, DraftIsBacked, ApprovalIsBacked,
     PacketIsBacked, PacketReadyHasPacket
<1>5. QED
  BY <1>1, <1>2, <1>4 DEF AuthorityInv

LEMMA NextAuthority ==
  ASSUME AuthorityInv, [Next]_vars
  PROVE  AuthorityInv'
<1>1. ASSUME UNCHANGED vars PROVE AuthorityInv'
  <2>1. UNCHANGED <<artifact, package, signoffs, brief, events, targets, packet, runs, pc, job, started>>
    BY <1>1 DEF vars
  <2>2. AuthorityTypeOK' /\ \A c \in Operator : JobInv(c)'
    BY <2>1 DEF AuthorityInv, AuthorityTypeOK, JobInv, Signed, Has
  <2>3. BriefInv' /\ AuthorityChainIsBacked' /\ PacketReadyHasPacket'
    BY <2>1 DEF AuthorityInv, BriefInv, AuthorityChainIsBacked, DraftIsBacked, ApprovalIsBacked,
       PacketIsBacked, PacketReadyHasPacket, Has
  <2>4. QED
    BY <2>2, <2>3 DEF AuthorityInv
<1>2. QED
  BY <1>1, StepCases, Starts, Reads, ReviseKeeps, WritePackageKeeps, WriteSignoffKeeps,
     UpsertKeeps, WriteTargetKeeps, CommitKeeps, PacketKeeps, MarkKeeps

(* The invariant every other theorem here follows from. *)
THEOREM AuthorityInvariant == Spec => []AuthorityInv
<1>1. Init => AuthorityInv
  BY InitAuthority
<1>2. AuthorityInv /\ [Next]_vars => AuthorityInv'
  BY NextAuthority
<1>3. QED
  BY <1>1, <1>2, PTL DEF Spec

(* The producer's rows, files and the commands' locals stay in their types *)
(* for any commands, revisions, roles, signers and targets.                *)
THEOREM AuthorityTypeCorrect == Spec => []AuthorityTypeOK
<1>1. AuthorityInv => AuthorityTypeOK
  BY DEF AuthorityInv
<1>2. QED
  BY <1>1, AuthorityInvariant, PTL

(* Authority is derived, never asserted (the checks and the order of the   *)
(* statements of derive, assemble, review and prepare), for any number of  *)
(* overlapping commands, any roles and any revisions of the package.       *)
THEOREM AuthorityChain == Spec => []AuthorityChainIsBacked
<1>1. AuthorityInv => AuthorityChainIsBacked
  BY DEF AuthorityInv
<1>2. QED
  BY <1>1, AuthorityInvariant, PTL

(* No brief is packet-ready without its packet (prepare_architect_packet   *)
(* writes the packet before the transaction that marks the brief).         *)
THEOREM PacketBeforeState == Spec => []PacketReadyHasPacket
<1>1. AuthorityInv => PacketReadyHasPacket
  BY DEF AuthorityInv
<1>2. QED
  BY <1>1, AuthorityInvariant, PTL

-----------------------------------------------------------------------------
(* Only three steps write the brief row. *)
LEMMA BriefWriters ==
  ASSUME [Next]_vars
  PROVE  \/ UNCHANGED brief
         \/ \E c \in Operator : UpsertBrief(c) \/ CommitReview(c) \/ MarkPacketReady(c)
BY DEF Next, Step, vars, Revise, Start, DeriveStart, WritePackage, WriteSignoff, AssembleStart,
   AuthorStart, ReadBinding, ReadSignoffs, LoadPackage, ReadExisting, WriteTarget,
   ReviewPackageStart, ReviewStart, Review, PrepareStart, ReadApproved, WritePacket, RecordRun, Die

(* What they write when the row is still the one they read. *)
LEMMA CurrentWrite ==
  ASSUME AuthorityInv, NEW c \in Operator, job[c].row = brief,
         UpsertBrief(c) \/ CommitReview(c) \/ MarkPacketReady(c)
  PROVE  /\ brief'.state # brief.state =>
              \/ brief.state = "none" /\ brief'.state = "draft_brief"
              \/ /\ <<brief.state, brief'.state>> \in Lifecycle
                 /\ \E k \in Kinds : events' = Append(events, Event(k, brief.state, brief'.state))
         /\ brief'.content # brief.content => brief.state \in {"none", "draft_brief"}
<1>1. JobInv(c) /\ brief \in Row
  BY DEF AuthorityInv, AuthorityTypeOK
<1>2. CASE UpsertBrief(c)
  BY <1>1, <1>2 DEF UpsertBrief, JobInv
<1>3. CASE CommitReview(c)
  <2>1. job[c].cmd \in Decisions /\ brief.state \in AllowedFrom[job[c].cmd]
    BY <1>1, <1>3 DEF CommitReview, JobInv
  <2>2. /\ brief'.state = Outcome[job[c].cmd] /\ brief'.content = brief.content
        /\ events' = Append(events, Event(Kind[job[c].cmd], brief.state, Outcome[job[c].cmd]))
    BY <1>1, <1>3 DEF CommitReview, Row
  <2>3. /\ <<brief.state, Outcome[job[c].cmd]>> \in Lifecycle /\ Kind[job[c].cmd] \in Kinds
    BY <2>1 DEF Decisions, AllowedFrom, Outcome, Kind, Kinds, Lifecycle
  <2>4. QED
    BY <2>2, <2>3
<1>4. CASE MarkPacketReady(c)
  <2>1. brief.state \in {"approved_brief", "packet_ready_execution_authority"}
    BY <1>1, <1>4 DEF MarkPacketReady, JobInv, Preparing
  <2>2. CASE brief.state = "approved_brief"
    <3>1. /\ brief'.state = "packet_ready_execution_authority" /\ brief'.content = brief.content
          /\ events' = Append(events, Event("mark_packet_ready", brief.state,
                                            "packet_ready_execution_authority"))
      BY <1>4, <2>2 DEF MarkPacketReady
    <3>2. QED
      BY <2>2, <3>1 DEF Lifecycle, Kinds
  <2>3. CASE brief.state = "packet_ready_execution_authority"
    BY <1>4, <2>3 DEF MarkPacketReady
  <2>4. QED
    BY <2>1, <2>2, <2>3
<1>5. QED
  BY <1>2, <1>3, <1>4

LEMMA StaleWrite ==
  ASSUME AuthorityInv, NEW c \in Operator, job[c].row # brief,
         UpsertBrief(c) \/ CommitReview(c) \/ MarkPacketReady(c)
  PROVE  Overtaken
<1>1. pc \in [Operator -> Pc]
  BY DEF AuthorityInv, AuthorityTypeOK
<1>2. pc[c] \in {"upsert", "commit", "mark"} /\ pc'[c] \notin {"upsert", "commit", "mark"}
  <2>1. CASE UpsertBrief(c)
    BY <1>1, <2>1 DEF UpsertBrief, AfterAssembly, Finish, Goto
  <2>2. CASE CommitReview(c)
    BY <1>1, <2>2 DEF CommitReview, Finish, Goto
  <2>3. CASE MarkPacketReady(c)
    BY <1>1, <2>3 DEF MarkPacketReady, Finish, Goto
  <2>4. QED
    BY <2>1, <2>2, <2>3
<1>3. QED
  BY <1>2 DEF Overtaken

LEMMA GovernedStep ==
  ASSUME AuthorityInv, [Next]_vars
  PROVE  /\ brief'.state # brief.state =>
              \/ brief.state = "none" /\ brief'.state = "draft_brief"
              \/ /\ <<brief.state, brief'.state>> \in Lifecycle
                 /\ \E k \in Kinds : events' = Append(events, Event(k, brief.state, brief'.state))
              \/ Overtaken
         /\ brief'.content # brief.content =>
              brief.state \in {"none", "draft_brief"} \/ Overtaken
<1>1. CASE UNCHANGED brief
  BY <1>1
<1>2. CASE \E c \in Operator : UpsertBrief(c) \/ CommitReview(c) \/ MarkPacketReady(c)
  BY <1>2, CurrentWrite, StaleWrite
<1>3. QED
  BY <1>1, <1>2, BriefWriters

(* The authority state follows the lifecycle and its log, unless a command *)
(* is overtaken between its read and its write (no UPDATE of the producer  *)
(* names the state it expects).                                            *)
THEOREM LifecycleFollowed == Spec => MovesFollowLifecycle
<1>1. AuthorityInv /\ [Next]_vars =>
        [brief'.state # brief.state =>
           \/ brief.state = "none" /\ brief'.state = "draft_brief"
           \/ /\ <<brief.state, brief'.state>> \in Lifecycle
              /\ \E k \in Kinds : events' = Append(events, Event(k, brief.state, brief'.state))
           \/ Overtaken]_vars
  BY GovernedStep
<1>2. QED
  BY <1>1, AuthorityInvariant, PTL DEF Spec, MovesFollowLifecycle

(* Content that has been reviewed is not rewritten, with the same proviso. *)
THEOREM ContentFrozen == Spec => GovernedContentFrozen
<1>1. AuthorityInv /\ [Next]_vars =>
        [brief'.content # brief.content =>
           brief.state \in {"none", "draft_brief"} \/ Overtaken]_vars
  BY GovernedStep
<1>2. QED
  BY <1>1, AuthorityInvariant, PTL DEF Spec, GovernedContentFrozen

=============================================================================
