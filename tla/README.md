# PAA packet runtime: TLA+ models, model checking and proofs

PAA moves work between roles (Delivery Architect, TechLead, Dev, QA) as JSON
*packets*. A packet is published on a RabbitMQ queue of the role it is for, claimed
by a command or a host process, handled, and answered with another packet. Around
that runtime, operator commands derive where a slice of work stands, accept and close
it, prepare the roles' branches, keep a component's implementation plan, and turn a design
package into an approved coder brief and its first packet.

The modules here model those parts where something can go wrong that a unit test
hardly reaches: several processes at once over a broker, a directory of files, a
database, GitHub and git, which no transaction joins, and which fail between any two
steps.

All paths are relative to the repository root; `paa_core/` stands for
`packages/paa-core/src/paa_core/`.

## Inventory

| Part | State it keeps | Operations | Modelled by |
|---|---|---|---|
| Broker client `runtime/transport/rabbitmq.py` | RabbitMQ queues | publish, get (destructive or not), purge | `Transport` |
| Claim ledger `runtime/transport/claim_ledger.py` | one JSON file per claim | record, load, update | `Transport` |
| Queue-message rows `repositories/runtime_event/postgres.py` | `paa.queue_messages`, `paa.handoffs` | record send, update status | `Transport` |
| Queue administration `runtime/transport/queue_admin.py` | none of its own | send, claim-next, ack, requeue, purge | `QueueAdmin`, abstractly `PacketDelivery` |
| Role return `runtime/bridges/role_bridge.py` | none of its own | dispatch a result, acknowledge the source assignment | `QueueAdmin` |
| Hosts `runtime/hosts/{dev,qa,techlead}.py` | last preview | `run_once`, `run_loop`, claim, finalize, publish | `RuntimeHost` |
| Claim runtime, reference resolution | none | intake of one packet; look up its row | `RuntimeHost` |
| Supervisor `runtime/hosts/supervisor.py` | one thread per host | `run` | `RuntimeHost`, `RuntimeSystem` |
| Workflow lifecycle `runtime/workflow/workflow_lifecycle`, TechLead transition adapter | `paa.workflow_states`, `paa.workflow_transitions` | evaluate and apply a transition, record an emitted assignment | `WorkflowLifecycle` |
| Supervisor control `runtime/control/supervisor.py` | pid file, process | start, stop, restart, status | `SupervisorControl` |
| Acceptance, closeout and decision bridges `runtime/bridges/{acceptance,closeout,decision}.py` | GitHub, acceptance events, decisions, the architecture queue | accept and merge, close out, emit the closed decision | `Closeout` |
| Role worktree bridge `runtime/bridges/worktree.py` | git refs, worktrees | prepare branch and worktree, clean up | `RoleWorktree` |
| TechLead routing `runtime/bridges/{workflow,assignment_context,assignment}.py`, TechLead decision services | none: derived from queues, comments, reports and GitHub at each call | derive stage and next assignment, emit it | `TechLeadRouting` |
| Component realization commands, implementation-plan progress, methodology execution | `implementation_plans` and its activities, dependencies, surfaces; `methodology_executions`, events, bindings | materialize, progress, reconcile, next, complete, apply-transition | `ComponentRealization` |
| Coder-brief authority `producer/{design_package_deriver,derivation_readiness,coder_brief_assembler,brief_target_author,brief_reviewer,architect_packet_preparer}.py` | `design_packages`, their signoffs, `coder_run_briefs` with authority events and targets, packet files, automation runs | derive, assemble, author targets, review, prepare | `BriefAuthority` |
| Packet workers, policies, legacy handoff runtime, governance, application and FastAPI layers, CLI, migrations, scripts | - | - | not modelled, see the end |

**How they interact.** An operator command is a process (or an API request); a host is
a thread of the supervisor process. They share nothing in memory. They meet in the
broker (a get with `ack_requeue_false` removes the message at once), in the ledger
directory (a claim file is truncated by `open(.., 'w')` and then written; nothing
locks it) and in the database (each call of `execute_sql` is one statement in its own
session). A bridge adds GitHub and git, one request or git command at a time. Sending is *publish, then record*; claiming is *get, write a claim file,
update the row*; closing is *load the file, write it back, update the row*.

**What is hard.** Every one of those arrows is a point where another process can run,
where the process can die, or where the next call can raise. The source also has its
own surprises: a host's claim record does not hold the packet; the SQL behind a
requeue never succeeds; the schema type is checked after the packet was removed; a
workflow transition is checked against one read and written from another.
The operator bridges add their own: a closeout repeats everything from the start after
a failure; a cleanup removes a worktree it looked up earlier; the TechLead compares the
times of comments, reports and packets that come from three places; a plan is rewritten
row by row while another command reads it.

**What makes each part correct.**

- *Transport and administration*: a packet is always in the broker, in the hands of a
  running command, or readable in a claim file; a row says acknowledged only over a
  closed claim; one delivery is claimed once; in short, the runtime delivers.
- *Role return*: it closes the claim of the assignment it was asked to close.
- *Hosts*: they work only on packets the database knows, answer a delivery at most
  once, close a source only after its answer is recorded, and drain their queue.
- *Workflow*: transitions start from the stage they are defined for, the history is
  the path the state took, and the answer to the active assignment is accepted.
- *Supervisor control*: one supervisor, the one the pid file names; a stop stops it.
- *Acceptance and closeout*: what is closed has a decision, an acceptance and a
  delivery behind it, and repeating an acceptance finishes it.
- *Worktrees*: a branch is in one place, and a role's work is thrown away only where a
  branch that no worktree has is reset (then it is, commits and all).
- *Routing*: a result is answered or still there, but for two windows the code leaves
  open; no reset is sent after a first failure; a derivation that lets automation go on
  has missed no report.
- *Component realization*: a plan stays whole, is called completed only when it is,
  and hands out activities whose predecessors are done.

- *Coder-brief authority*: a draft stands on a signed-off package, an approval on a draft
  with targets, a packet on an approval; what was governed is not rewritten.

The hazards behind these are listed line by line in `PROJECT.json`.

## Modules

```
PacketDelivery <-(refinement)- Transport
Transport  <-- QueueAdmin <-- MCQueueAdmin
    ^              ^
    |              |
RuntimeHost <-- RuntimeSystem <-- MCRuntime, RuntimeSystem_proofs

WorkflowLifecycle <-- MCWorkflow, WorkflowLifecycle_proofs
SupervisorControl <-- SupervisorControl_proofs
Closeout <-- MCCloseout, Closeout_proofs
RoleWorktree <-- RoleWorktree_proofs
TechLeadRouting <-- MCTechLeadRouting, TechLeadRouting_proofs
ComponentRealization <-- MCRealization, ComponentRealization_proofs
BriefAuthority <-- MCBriefAuthority, BriefAuthority_proofs
```

**`Transport`** declares the shared state. `queue[q]` is a broker queue, `claim[c]` a
claim file, `row[p]` the status of a packet's row (message and handoff status move in
one statement, so one value stands for both), `published[p]` counts publishes. A claim
A packet in `Unregistered` belongs to a project the database does not know: the
`INSERT .. SELECT FROM project` behind its recording inserts nothing and reports no error. A claim
file is `absent`, `empty` (opened, not written), `torn` (two writers overlaid) or has
the status of its JSON. `pc`, `pkt` and `cl` are the locals of an actor. `Publish`,
`Pop`, `CreateFile`, `Truncate`, `WriteFile`, `InsertRow` and `UpdateRow` are the
effects everything else is made of; each is one atomic step of the environment: one
HTTP request, one system call, one SQL statement. Two writers of a file overlay their
text from offset 0, so the second one's write has the outcome that its text is whole
or that a tail of the other survives. The module also says what `PacketDelivery` sees of
this state: an actor has a packet *in hand* from the get until the claim file exists,
and a claim is *over* when its file no longer says `claimed` and nobody is about to write
its first status.

**`PacketDelivery`** is what all of this promises, without files, statements or steps: a
packet leaves its queue from the head into the hands of one actor, becomes one delivery
or is lost, and a delivery that is over is never open again; a packet is called
acknowledged only when a delivery of it is over.

**`QueueAdmin`** has one action per step of each command: `SendPublish`,
`SendRecord`; `ClaimPop`, `ClaimOpen`, `ClaimWrite`, `ClaimMark`; `AckLoad`,
`AckOpen`, `AckWrite`, `AckMark`; `RequeueLoad`, `RequeuePublish`, `RequeueOpen`,
`RequeueWrite`, `RequeueMark`; `Purge`; and `ReturnSend`, `ReturnList`, `ReturnPop`,
`ReturnAckLoad`, `ReturnRequeueLoad` for a role return, which goes through the steps
of send, ack, claim-next and requeue like any caller of them. `DbFails` ends a command
at a SQL statement, `Crash` anywhere. `ForeignPublish` is a producer other than PAA
whose envelope claim-next re-validates. An operator starts any command at any time,
with any claim id or packet.

**`RuntimeHost`** is one iteration of a host's loop: `HostPop` (destructive get, size
and schema-type check), `HostClaimOpen`/`Write`, `HostMark`, `HostResolve`, `HostWork`
(the worker's verdict is open: fail, done, or a result to send), `HostPublish`,
`HostRecord`, `HostTransition` (TechLead only), then `HostAckLoad`/`Open`/`Write` or
`HostRequeue`. The three hosts are separate copies of the same code in the source and
one set of actions here, the TechLead differing in two places: it needs a workflow
state row before it works on a returned result (`LookupError` otherwise) and after it
has emitted an assignment. `HostDies` is an exception or a signal; `HostHangs` is a
request on a connection that never answers, which no timeout ends (`pc` is then `hung` for good);
`SupervisorStart` starts the threads again only when all of them have ended, as joining
the threads implies.

**`RuntimeSystem`** is commands and hosts beside each other, and states the fairness.

**`WorkflowLifecycle`** is one work item. A *flow* is one TechLead loop; `Take`,
`Handle`, `Evaluate`, `Reread`, `Upsert`, `AppendTransition`, `PublishAssignment`,
`RecordRead`, `RecordUpsert`, `RecordAppend`, `Report` are the statements of
`run_once`, `apply_workflow_transition` and `record_assignment_emitted` in their
order. `SendDecision`, `Answer` and `Resend` are the other end of the queue. `writes`
and `cut` are history variables.

**`SupervisorControl`**: `Status`, `StatusUnlink`, `BeginStart`, `StartRead`,
`StartUnlink`, `Spawn`, `SpawnFails`, `WriteOpen`, `Write`, `Stop`, `StopTerm`,
`StopGone`, `StopKill`, `StopUnlink` are the system calls of one request in their order;
`ProcessEnds`, `Reap`, `Recycle` and `StrangerEnds` are the operating system, where a
dead child of the API server stays a zombie and a freed pid may come back as somebody
else's. The calls come from commands or, `mode = "server"`, from the threads of one API
server, which is their parent.

**`Closeout`**: `Accept`, `Merge`, `LoadIssue`, `CloseIssue` are the acceptance;
`BeginCloseout`, `RecordAcceptance`, `Materialize`, `SendDecision`, `CheckHead`,
`GetHead`, `ClaimGot`, `Ack` the closeout it goes on with or that an operator calls directly.
`AuthorChanges`, `IssueChanges`, `Reverified`, `HostTakes` are everybody else. A request
that fails or a process that dies ends the run (`Fail`, `Dies`).

**`RoleWorktree`**: `Prepare`, `Resolve`, `BranchRead`, `BranchUsage`, `BranchWrite`, `BranchCheck`,
`FindByBranch`, `FindByPath`, `Add`, `Cleanup`, `Recheck`, `Remove` are the git commands
of the bridge with git's own refusals (a branch checked out elsewhere, a dirty
worktree, an existing path); `Edits`, `Commits`, `Detaches`, `MakesDirectory` are the
roles, `CanonicalAdvances` and `LineageMoves` the project.

**`TechLeadRouting`** keeps the facts of a slice in one log, whose positions are their
times. `DeriveWorkflow`, `Overridden`, `Stage` and `UnattendedSafe` are operators: the
code stores none of it. `NextAssignments` is the assignment service; `Begin`, `Send`,
`CloseClaimed`, `GetHead`, `Claim`, `Compare` and `RequeueUnrouted` emit an assignment and
close its source, with claim-next's get and its claim file as two steps. A *viewer* is one
derivation as the code makes it: `LooksAtQueues`, `LooksAtDecision`, `LooksAtReport`, then
`Derives` with GitHub's state, and `DecidesReset` for the one decision that destroys work.
The queue reader is injected (`queue_state_loader`) and is taken to read all queues at once.

**`ComponentRealization`** is two commands at a time over the rows of one plan and one
methodology pointer, a SQL statement a step: the preflight (`PreflightRow`,
`PreflightContext`), materialize (`Lookup` to `UpsertDependency`), complete
(`SetCompleted`), reconcile and next (`ReadActivities` to `WriteProgress` or `Hand`) and
apply-transition (`Resolve`, `MovePointer`, `AppendEvent`, `DeleteBindings`,
`InsertBinding`).

**`BriefAuthority`** is how the first packet of a slice comes to be: one design package,
one brief, any number of producer commands, a statement a step. `DeriveStart`,
`WritePackage`, `WriteSignoff` materialise the package file; `AssembleStart`,
`ReadBinding`, `ReadSignoffs`, `LoadPackage`, `ReadExisting`, `UpsertBrief` are the
readiness check and the draft, which `AuthorStart` (then `WriteTarget`) and
`ReviewPackageStart` go through as well, as their code calls it; `ReviewStart`, `Review`,
`CommitReview` are a decision; `PrepareStart`, `ReadApproved`, `WritePacket`,
`RecordRun`, `MarkPacketReady` the packet. `Revise` is the designer, `Die` a failing
statement or a killed process. A `job` holds what a command has read; the content of a
package, a brief or a packet is the revision of the file it was made from.

The type invariants `SystemTypeOK`, `CloseoutTypeOK`, `WorktreeTypeOK` and
`RoutingTypeOK` document the variables of their modules and belong to no run: they are
parts of the proved inductive invariants.
The `MC` modules give TLC small values of the function constants, the symmetry sets and
the bound `FewPublishes`.
Operators whose comment begins with *Mutant* are wrong variants of an action or
helper; no specification uses them. They record which bug each property catches
(`PROJECT.json`, "mutants").

## Runs

| Run | Config | Question |
|---|---|---|
| `queue_admin` | `MCQueueAdmin.cfg` | Two operators that send, claim, ack, requeue, purge and return, beside a foreign producer, with crashes, failing SQL and unroutable publishes |
| `runtime_hosts` | `MCRuntimeHosts.cfg` | A Dev and a TechLead host, one operator that sends and acks any claim, crashes, SQL failures, foreign and oversize packets: what has a host done when it closes a source? |
| `runtime_system` | `MCRuntimeSystem.cfg` | The hosts beside role returns and requeues, three packets sent up to twice each: does the whole runtime deliver as promised, is a delivery answered twice, is an unknown packet worked on? |
| `runtime_live` | `MCRuntimeLive.cfg` | Under fairness, with threads that may hang, is a host's queue drained? |
| `workflow_one_loop` | `MCWorkflowOneLoop.cfg` | One TechLead loop, previews, crashes, duplicate results: is the workflow history true, are illegal transitions refused, is the right answer accepted? |
| `supervisor_control` | `MCSupervisor.cfg` | Two overlapping calls, zombies, reused pids, kills: is there one supervisor, does a stop stop it, does every call return? |
| `acceptance_closeout` | `MCCloseout.cfg` | Two acceptances or closeouts of one slice, failures at every step: is what was closed backed, and does a repeated acceptance finish? |
| `role_worktree` | `MCWorktree.cfg` | Two preparing or cleaning commands while the roles work: is a branch in one place, does work survive, is a terminal lineage cleaned up? |
| `techlead_routing` | `MCRouting.cfg` | Two emissions and a derivation in single reads over five histories of a slice: where is a result lost, is a reset sent or a slice called unattended without cause? |
| `component_realization` | `MCRealization.cfg` | Two component commands, statement by statement, beside one change of each kind: do plan, progress and pointer stay true? |
| `brief_authority` | `MCBrief.cfg` | Two producer commands, statement by statement, dying anywhere, over a package that is edited meanwhile: what is authority backed by, and can it be undone? |

These pass. They show, for the instances below:

- `PacketsLostOnlyByLossSteps`: a packet leaves broker, hands and ledger at once only
  in a purge, in a crash, or where two writers tear one claim file. Ordinary
  interleaving and failing SQL lose nothing.
- `AcknowledgedRowHasClosedClaim`: though ack looks at neither status nor row, and a
  slow claim-next writes its row late, an acknowledged row has a claim that is closed.
- `DeliveriesAccountedFor`: publishes bound the copies on the broker and in claims.
- `ReturnClosesOnlyItsAssignment`: the window between list, claim and ack of a role
  return is harmless, because a claim file keeps the packet it was made for.
- `DeliversAsPromised`: commands and hosts together are a `PacketDelivery`.
- `HostWorksOnlyRecordedPackets`, `ClosingHostHasRecordedResult`: publish-then-record
  is a race that the database lookup catches; the packet that loses it is not worked on.
  A host's answer for an unregistered project is excepted: its source is closed although
  no row was inserted.
- `AtMostOneResultPerDelivery`: no restart makes a host answer a delivery again.
- `SendClosesSource`: an iteration that sent closes its source. This needs a workflow
  state row for every work item (`Untracked = {}`). Without one, the TechLead sends
  the assignment, `record_assignment_emitted` reports `missing_workflow_state`, and the
  source claim stays open.
- `HostQueueDrains`: everything on the queue of a host that neither dies nor hangs is taken
  off it, whatever its type and whatever the worker says. Dropping an unsupported packet counts as
  taking it off; that a failing statement ends the thread, and that a dead or hung thread is not
  replaced, is what the code does, and no property speaks against it.
- `HistoryNeverInvents`, `HistoryTracksState`, `IllegalTransitionsFailClosed`,
  `ActiveAssignmentsResultAccepted`: with one loop the workflow rows are coherent; the
  only thing that breaks the history is a death between a state row and its history row.
- `LoneStartsKeepOneSupervisor`, `StopLeavesNothingRunning`: the only way to a second
  or a forgotten supervisor is a start that overlaps another call or is cut short
  between Popen and the pid file; overlapping stops and status requests are safe.
  `CallsReturn`: the wait for a zombie is bounded.
- `ClosedLineageIsBacked`: the order of closeout's requests keeps every acknowledged
  packet, decision and acceptance backed by the step before it, over any failures.
  `ClosesOnlyMerged`: the issue is closed only behind the merge. `StrayClaimHasCause`:
  a closeout claims a wrong packet only if its own was taken meanwhile.
  `AcceptanceConverges`: repetition finishes an acceptance, unless a run dies
  between its claim and its ack (no later run finds that claim), or a run or the host
  between the broker's destructive get and the claim file (the packet is then nowhere).
- `BranchInOnePlace`, `WorkSurvives`, `CleanupCompletes`: git's own refusals carry the
  bridge through stale reads; the module's mutants show which of them it needs. A reset
  does discard the commits of a branch that no worktree has, and `WorkSurvives` excepts it.
- `ResultsLostOnlyByLossSteps`: the source of an assignment is acknowledged only after
  the send, and a wrong head goes back; what loses a result is a death between claim-next's
  get and its claim file, and a requeue the broker does not route.
  `ResetFollowsRepeatedFailure`, `UnattendedHidesNoReport`: four reads one after the
  other, with anything written in between, neither send a reset too early nor pass over a
  report that was there when the first was made. The override of a closed local decision
  does pass over open work (`workflow.py:756`) and is excepted.
- `PlanRowsWhole`: overlapping materializations leave all rows once each has run to its
  end; one that dies leaves out the rows it had still to insert. `CompletedPlanIsBacked`:
  stale reconciles under-report, as long as no activity is rewritten, deferred or reopened. `NextActivityIsClear`:
  the three reads of `next` are in an order that is safe beside completions.
  `ComponentContextSurvives`: only a half-done replacement loses the binding.
- `AuthorityChainIsBacked`, `PacketReadyHasPacket`: no overlap, edit or death gives a brief
  without a signed-off package, an approval without a target, a packet without an
  approval or the packet-ready state without a packet. `MovesFollowLifecycle`,
  `GovernedContentFrozen`: the state moves along the lifecycle with a true event, and a
  governed brief keeps its content, unless a command was *overtaken*: its row changed
  between its read and its write, which no statement checks. Those steps are excepted by
  name and do happen.

The last run finds what the code does otherwise than its tests say:

| Run | Property violated | What happens |
|---|---|---|
| `failed_iteration` | `FailedIterationRequeues` | A host's claim holds no envelope, so a failed iteration cannot requeue; the packet stays off the queue with its claim open |

### Disagreements met while modelling, without a run

The models do what the code does here, and the properties are stated so as to hold:

- A packet of an unsupported schema type is taken off the queue and dropped
  (`queue_claim_runtime/default.py:152`), where invariant 3 of
  `docs/2_Design/2026-05-12-paa-handoff-execution-contract.md` has the runtime fail closed on a
  packet it does not expect.
- A delivery review that has been answered stays queued: `assignment.py` closes it on the queue of
  the assignment that the review answers. Invariant 2 of the same document closes the
  source of every sent packet.
- The requeue of a wrong packet in a role return ends in a SQL error (`updated_at` is
  assigned twice, `runtime_event/postgres.py:305`) where
  `docs/5_Test/2026-05-12-role-return-source-assignment-ack-hardening.md:46` has a
  clean refusal.
- Two TechLead loops over one work item can apply a transition from a stage that has
  moved on; a duplicate preview is executed before it is reported as not executed.
- A worker result of any result type, `blocked` included, is sent on to QA.
- `component next` beside a `materialize` hands out an activity before its
  dependencies are inserted.
- An assignment to `Python Dev` puts the work item in the QA stage
  (`hosts/techlead.py:431` takes every role but `Dev` there), so its worker result is
  blocked, where `docs/2_Design/2026-05-04-techlead-hub-state-and-routing-contract.md:104`
  routes it to the TechLead. `workflow_one_loop` names `Dev`; the theorem assumes it.
- `assemble-coder-brief` "fails closed if the existing brief is already beyond
  `draft_brief`"
  (`docs/2_Design/2026-05-16-component-design-planning-service-end-to-end-derivation-rerun.md:147-152`)
  and a rejected brief becomes a draft only by an explicit reopen
  (`docs/2_Design/2026-05-16-coder-brief-authority-lifecycle-governance.md:98-107`):
  both hold only while no other command changes the brief between the check and the UPDATE.
- `review-coder-brief --design-package` assembles the draft first, so by that path a
  rejected brief cannot be reopened nor an approved one rejected.
- `prepare-architect-packet --no-persist-db` still marks an approved brief packet-ready.
- A signoff row says `approved` when the file named no signer; a file that names one
  later passes the readiness check over it. An approval asks for one target, not for all.

### Bounds

- *Two operators* are enough for every race over a claim file or the head of a queue:
  each shared object is changed by one step at a time, and the properties speak of one
  operator against the rest. The proofs below remove this bound.
- *Two packets, two claims, two publishes* (`MaxTotal = 3` together, and one packet `u`
  of a foreign producer): a right and a wrong packet, a claim and a
  second claim of the same or the other packet, a packet and its duplicate. The
  duplicate is real: `docs/5_Test/2026-05-17-packet-ready-handoff-and-consumer-claim-validation.md:113`
  reports broker messages with one message id.
- `MaxPublish` bounds sends and requeues, `Claim` the claims ever made: both are
  unbounded in the code, and what a bound cuts off repeats what it keeps.
- In the host runs one packet goes to the worker queue and one to the TechLead's, so a
  host's answer is the other's source; `u` is a foreign packet of unknown type, `v` one
  longer than 50000 bytes. `runtime_system` has two packets for the TechLead,
  so that one source could get two answers, makes one of them untracked to
  reach the branches that need a missing state row and the other one of an unregistered
  project, which never gets a row.
- `workflow_one_loop` has one decision, two results and three assignments: Dev's, the
  QA assignment of its result, and one more for a duplicate.
- `supervisor_control` has two callers and two pids, so a start may find the process, the
  zombie or the stranger of an earlier one; the proof removes both bounds.
- `acceptance_closeout` has one slice, whose QA packet waits, two runners and
  `MaxFailures = 2` faults or changes from outside: a failure in a first and in a
  repeated run. The decision packets of that slice are the other packets.
- `role_worktree` has one role with its default path and one other path, two operators,
  two canonical tips and one commit on top (`MaxOwn = 1`: further commits are not told
  apart from the first, so a role may edit and commit for ever): enough for a stale
  source, a reset that would drop a commit and a branch wanted at two paths.
- `techlead_routing` starts from five histories (a new slice, one with a verdict under
  way, an escalated, a rejected and reworked one, and one whose rework was commented on)
  and adds facts up to `MaxFacts = 6`, with one failure: the five facts a reset needs, and
  one that comes between the reads.
- `component_realization` has two commands of any kind, two activities of which one
  needs the other, three positions of the pointer and one change of each kind.
- `brief_authority` has two commands at a time and six in all, which is a package's way to
  a packet (derive, author, approve, prepare) and two to interfere with it; three
  revisions of the file, one not approved and one that names not every signer; two
  signoff roles, one of them optional, and two targets. The proof removes all of these.
- Claims, operators, ordinary packets of `MCQueueAdmin`, results, assignments and calls
  are interchangeable and under symmetry in the runs that check safety only; runs with
  a liveness property use none.
- The runs switch deadlock checking off: with the bounds used up every command may have
  finished, and in the code a runtime without packets is idle too.

### Fairness

`HostQueueDrains` assumes weak fairness of each host's next step (`HostProceed`):
`run_loop` sleeps `poll_interval` and goes round again, and the threads do not wait for
each other. It does not assume that a request returns: neither `urlopen`
(`rabbitmq.py:49`) nor the database connection has a timeout, so a thread may hang in any
step for ever (`HostHangs`, in the run's `Faults`). The property excepts the queue of such a
thread, which nothing in the code wakes, and shows that the other hosts' queues drain.
Nothing else is fair: no operator has to run or finish a command, and no one has to
restart a dead supervisor. The run has no crash, no failing SQL and no ack by an operator
of a host's claim; each of these can end a thread for good, and the code does not start
it again, so the property would fail with them.

`CallsReturn` assumes that a request under way takes its next step (its calls are signals
and local files). `AcceptanceConverges` assumes that of a run (`Advance`): its requests
have no timeouts either, so a run that hangs is taken to be ended by its caller, which is
`Dies`; and, because the bridge returns on every failure and
leaves the repetition to its caller, strong fairness of some operator's `Accept`.
`CleanupCompletes` assumes that commands proceed (they run git on local files), that a role commits what it has
edited, and strong fairness of the repeated `Cleanup` that the bridge's "blocked" report
asks for. Besides that the property itself names its assumption about the roles, that
the edits end (`<>[][dirty' \subseteq dirty]_vars`): without it TLC finds a role that
edits again before each removal, and nothing in the code forbids that. Faults are never fair, and bounded.

## Proofs

Every safety invariant, every action property and the refinement that a passing run
checks is also a theorem, for every value of the constants that satisfies the named
ASSUMEs (which TLC evaluates in the runs) and the hypothesis of the theorem, where it has
one. What stays with TLC is at the end of this section.

### Commands and hosts over the broker, the ledger and the database

`RuntimeSystem_proofs` has two parts. The first is about the operator commands by
themselves (`AdminSpec`), for any packets, queues, claims and operators and any faults:

| Theorem | Statement |
|---|---|
| `AdminInvariance` | `AdminSpec => []AdminInv` |
| `AdminTypeCorrect` | `AdminSpec => []AdminTypeOK` |
| `AcknowledgedRowsBacked` | `AdminSpec => []AcknowledgedRowHasClosedClaim` |
| `ReturnsCloseTheirOwn` | `AdminSpec => []ReturnClosesOnlyItsAssignment` |
| `PacketsKept` | `AdminSpec => PacketsLostOnlyByLossSteps` |
| `CommandsDeliverAsPromised` | `AdminSpec => DeliversAsPromised` |
| `DeliveriesClaimedOnce` | `AdminSpec => []DeliveriesAccountedFor` |

*The argument.* `AcknowledgedRowHasClosedClaim` is not inductive: `AckMark` sets the row
three steps after the file was written, and in between the file may be rewritten by
others, even by a command that is still creating a claim. `AdminInv` adds what makes it
so: `LedgerInv` (an existing claim file has a packet and carries its envelope),
`LocalInv` (what a command holds at each of its steps; at `ack_mark`, that its claim is
no longer open), `CreatorInv` (a file that is being created is empty and nobody else has
it open: a loader finds only readable files) and `RowInv` (the closed claim behind a row
is not one still being created). From there on no step reopens a claim: ack writes `done`,
requeue writes `requeued`, and only its creator writes `claimed`.

The proof has one lemma per effect of `Transport`, two lemmas for the frame of a step
(`NoFileStep`: the operator touches no file; `FileStep`: it writes the one it has open),
one lemma per action, and the temporal theorem. `PacketsKept` has one lemma per action
again: the step that takes a packet from one place puts it in another, or is named by
`LossStep`. `CommandsDeliverAsPromised` is the refinement: `CreatorInv` is why a claim that
is being created cannot be over, `RowInv` why a row is called acknowledged only over a
delivery that is; one lemma per action names the abstract step it is, or that it is none.

The second part is the composition (`SystemSpec`), for any number of hosts and operators:

| Theorem | Statement | Assumes |
|---|---|---|
| `RuntimeInvariance` | `SystemSpec => []RuntimeInv` | - |
| `RuntimeTypeCorrect` | `SystemSpec => []SystemTypeOK` | - |
| `HostsWorkOnlyForRecordedPackets` | `SystemSpec => []HostWorksOnlyRecordedPackets` | - |
| `ClosingHostsRecordedTheirResult` | `SystemSpec => []ClosingHostHasRecordedResult` | - |
| `RuntimeAcknowledgesClosedClaims` | `SystemSpec => []AcknowledgedRowHasClosedClaim` | - |
| `RuntimeReturnsCloseTheirAssignment` | `SystemSpec => []ReturnClosesOnlyItsAssignment` | - |
| `TrackedSendsCloseTheirSource` | `SystemSpec => SendClosesSource` | `Untracked = {}` |
| `RuntimeDeliversAsPromised` | `SystemSpec => DeliversAsPromised` | - |
| `EveryPublishIsAccountedFor` | `SystemSpec => []PublishesAccounted` | - |
| `EachDeliveryAnsweredOnce` | `SystemSpec => []AtMostOneResultPerDelivery` | - |
| `RuntimeClaimsDeliveriesOnce` | `SystemSpec => []DeliveriesAccountedFor` | - |

*The argument.* `AdminInv` does not survive the hosts: a host's claim retains no envelope,
so a command that loads it finds no packet there. `RuntimeInv` says instead what a command
and a host know at each step (`CommandInv`, `HostInv`); that a row once inserted
stays is what carries a host's database lookup through to its ack.
What one actor's step may do to what the others know is stated once; the lemma of an
action shows that the action is such a step. `SendClosesSource` holds without an untracked
work item only: `HostInv` ties the one branch that ends an iteration with a sent result and
an open claim to a missing workflow row.

`AtMostOneResultPerDelivery` and `DeliveriesAccountedFor` count, and are not inductive
either. `PublishesAccounted` is a double-entry account of the publishes of a packet: those
waiting on its queue, those a live host has taken and not answered, those answered. A
publish enters it once, a get moves one entry, an answer moves one, a death drops
one. `DeliveryAccounts` does the same for queue, hands and claim files. Both need that a
queue holds only the packets whose home it is, and that the sets counted stay finite though
`Packet`, `Actor` and `Claim` need not be.

### Workflow lifecycle

`WorkflowLifecycle_proofs` proves, for any decisions, results, assignments, modes and
bounds, with or without deaths:

| Theorem | Statement | Assumes |
|---|---|---|
| `WorkflowInvariance` | `WorkflowSpec => []WorkflowInv` | - |
| `WorkflowTypeCorrect` | `WorkflowSpec => []WorkflowTypeOK` | - |
| `HistoryIsHonest` | `WorkflowSpec => []HistoryNeverInvents` | - |
| `ActiveAnswersPass` | `WorkflowSpec => ActiveAssignmentsResultAccepted` | every decision names `Dev` |
| `OneLoopFailsClosed` | `WorkflowSpec => IllegalTransitionsFailClosed` | one loop |
| `OneLoopHistory` | `WorkflowSpec => []HistoryTracksState` | one loop |

*The argument.* A loop writes the state row and then a history row, so between the two it
relies on its move having been made: `FlowInv` says so for both kinds of transition. The
others move meanwhile, but the role of a sent assignment and the assignment a result
answers never change (`Grows`), so neither does the transition of a packet
(`TransitionFixed`). `ActiveInv` ties the stage to the active message; stage and message
are one UPDATE, so it survives any number of loops, and with it the answer to the active
assignment, as long as the two stage tables agree on the role. What one loop adds,
`OneLoopInv`, is that the stage it checked and the stage it read again are still there.
The assumptions are the boundary of what holds: a decision for `Python Dev` breaks the
first property, two loops the other two.

### Supervisor control

`SupervisorControl_proofs` proves `ControlInvariance`, `ControlTypeCorrect`, `OneSupervisor`
(`Safety => []LoneStartsKeepOneSupervisor`) and `StopIsComplete`, for any callers and pids.
*The argument*: what a call has read may be stale, so `ControlInv` says what it still
knows (`Knows`): that a call past its "not running" check still has no supervisor
running, one past unlink has no file, a stop has seen the only one. That survives
the other calls exactly as long as no start overlaps them.

### Coder-brief authority

`BriefAuthority_proofs` proves, for any commands, revisions, roles, signers and targets:

| Theorem | Statement |
|---|---|
| `AuthorityInvariant` | `Spec => []AuthorityInv` |
| `AuthorityTypeCorrect` | `Spec => []AuthorityTypeOK` |
| `AuthorityChain` | `Spec => []AuthorityChainIsBacked` |
| `PacketBeforeState` | `Spec => []PacketReadyHasPacket` |
| `LifecycleFollowed` | `Spec => MovesFollowLifecycle` |
| `ContentFrozen` | `Spec => GovernedContentFrozen` |

*The argument.* What a command has read may be gone when it writes, so its checks cannot
be carried as facts about the row. But everything the chain stands on only grows: a
package, a signoff, an event, a target or a packet, once there, stays. `JobInv` says
at each label which of them the command's checks found (at `upsert` a package with all its
signoffs, at `commit` of an approval a target, at `mark` an approval and, behind `packet`,
the packet), and one lemma shows that growth keeps it. Starts and reads share
a lemma each, every writing action has its own. The two action properties need the invariant only for what the row was when a
command that is not overtaken read it.

### Acceptance and closeout

`Closeout_proofs` proves, for any slices, runs, requests, backlog and number of failures:

| Theorem | Statement | Assumes |
|---|---|---|
| `CloseoutInvariant` | `Spec => []ChainInv` | |
| `LineageBacked` | `Spec => []ClosedLineageIsBacked` | |
| `IssueClosedBehindMerge` | `Spec => []ClosesOnlyMerged` | |
| `StrayClaims` | `Spec => []StrayClaimHasCause` | `OneQaPacket`: no QA packet waits twice at the start |

*The argument.* Merges, events and decisions are never undone, and an issue that was closed
stays so recorded although it may be reopened; so what a run has found stays true of
the slice while others go on. `RunnerInv` says what that is at each step: a run at `issue`
found the merge, one at `materialize` recorded the acceptance, one that acknowledges has a
decision. For the claims, `QueueInv` adds that no packet is twice on the queue and that
decisions are numbered afresh, so that a packet seen at the head is still there, in the
run's own hand, or gone for good (`ExpectInv`). A QA packet queued twice would break that, hence the assumption.

### Role branches and worktrees

`RoleWorktree_proofs` proves, for any roles, operators and bounds:

| Theorem | Statement |
|---|---|
| `WorktreeInvariance` | `Spec => []WorktreeInv` |
| `WorktreeTypeCorrect` | `Spec => []WorktreeTypeOK` |
| `RoleBranchInOnePlace` | `Spec => []BranchInOnePlace` |
| `RolesWorkSurvives` | `Spec => WorkSurvives` |

*The argument.* A command acts on a branch several git calls after it looked, and nothing
but git's refusals protects what changed meanwhile. `WorktreeInv` adds to the types what a command
still knows at each step (`Knows`), that a checked-out branch exists (`BranchesExist`), that
two worktrees never share one (`BranchesApart`) and that uncommitted work is on a role
branch (`DirtyOnBranch`); every step that writes a ref or registers a
worktree is then a case of git's own guard. `NamesAssumption` says that the model values for "no ref" and "detached"
are not also names of tips or roles.

### TechLead routing

`TechLeadRouting_proofs` proves, for any histories, any number of commands and derivations
and any bounds:

| Theorem | Statement |
|---|---|
| `RoutingInvariance` | `Spec => []RoutingInv` |
| `RoutingTypeCorrect` | `Spec => []RoutingTypeOK` |
| `ResultsAreLostOnlyByLossSteps` | `Spec => ResultsLostOnlyByLossSteps` |
| `ResetsFollowRepeatedFailure` | `Spec => []ResetFollowsRepeatedFailure` |
| `UnattendedRunsHideNoReport` | `Spec => UnattendedHidesNoReport` |

*The argument.* That no other step loses a result needs `ClosesAnswered`: a command that is
about to close a source has sent the assignment that answers it, and what another role's
queue loses is never a result (`ResultsForTechLead`). For the derivations the log only
grows, so what a read has shown stays true of the older part of it. `SightsHold` says what
that is: before GitHub's state is read, the report in hand is at least as new as any that
was there at the start; before a decision is sent, the events that justify it are in the
log, where no later fact undoes them (`FailureStays`). How the newest events of a log give
the stage is in `ResetNeedsRepeatedFailure` and `UnattendedMissesNone`. The histories an
instance starts with must be well-formed and settled (`SettledHistories`: a result in the
history has been answered and no decision sent), because the model starts with empty
queues.

### Component realization

`ComponentRealization_proofs` proves, for any plan, any finite set of commands and any
bounds:

| Theorem | Statement |
|---|---|
| `RealizationInvariance` | `Spec => []RealizationInv` |
| `RealizationTypeCorrect` | `Spec => []RealizationTypeOK` |
| `OverlappingRewritesLeaveThePlanWhole` | `Spec => []PlanRowsWhole` |
| `MissingRowsAreOwed` | `Spec => []RowsRestored` |
| `StaleReconcilesNeverOverReport` | `Spec => []CompletedPlanIsBacked` |
| `HandedOutActivitiesAreClear` | `Spec => []NextActivityIsClear` |
| `TransitionsKeepTheComponentContext` | `Spec => []ComponentContextSurvives` |

*The argument.* A missing row is always one that some rewrite has still to write
(`RowsRestored`: somebody's `Restores` or `Relinks` covers it): a deletion obliges the
deleting command, whoever else writes or deletes the same rows beside it. If that command
is dead the row stays missing, which is what `MissingRowsAreOwed` says of deaths. For progress, while no rewrite runs, completions and verifications only
grow, so what a reconcile or `next` has read is a lower bound of what is true
(`ReadStillTrue`), whatever it missed. For the pointer, `ContextInv` says who is between
the delete and the insert of a binding. `CountersOK` bounds events and bindings by the
commands that added them, which is why the assumption asks for a finite set of commands
(`IsFiniteSet(Call)`; each stands for one command ever run).

### What is only model-checked

`HostQueueDrains`, `CallsReturn`, `AcceptanceConverges` and `CleanupCompletes`: liveness
under fairness is out of the prover's reach. `FailedIterationRequeues` is refuted, not proved.

## What the models leave out

- Payloads and validation: a packet is an identity with the attributes `Malformed`,
  `Oversize`, `Unsupported`, `Untracked`, `Unregistered`.
- Queue creation and deletion, archiving, listings, the rows `persist_slice_result` and
  `persist_qa_verification` write (nothing modelled reads them).
- Broker outages: a request that fails ends the command, which `Crash` covers.
- The content of a worker's decision; metadata and lineage columns of the workflow row;
  the reset and closeout transition types, which no caller requests.
- The closeout, lineage and worker-review decision services: they repeat the bridges'
  checks; the policies: predicates over one request.
- The packet workers and the queue packet controller: they decide from one packet and
  keep nothing; the host models leave their verdict open.
- The legacy handoff runtime: the command-line predecessor of queue administration.
- The rest of the producer: loading of issues and obligations, plan derivation, acceptance
  packets and publication, each one pass from files to files or rows. In the brief's
  chain: the text of brief and packet, the plan binding, and the identity rows (project,
  roles, component, work item) that derive upserts first and nothing removes.
- The governance checks, the application and API layers and the CLI: transformations of
  files or thin wrappers over the services above. Migrations are declarative; scripts are
  one-off demonstrations.

## Plan

1. *Closer to the code*: the closeout and lineage decision services, the packet workers'
   verdicts, and queue bootstrap and archiving as further operations of the models here.
2. *Weaker assumptions*: `SendClosesSource` with untracked work items named as its
   exception, and the workflow's one-loop theorems with the overlap named as the exception.
