------------------------- MODULE SupervisorControl -------------------------
(***************************************************************************)
(* Starting, stopping and watching the managed supervisor process          *)
(* (runtime/control/supervisor.py): status, start, stop and restart share  *)
(* a pid file and nothing else.  The calls come from commands (each its    *)
(* own process) or, when PAA_RUNTIME_API_URL is set, from the threads of   *)
(* one API server, and then they run concurrently in that server.          *)
(***************************************************************************)
EXTENDS Naturals, FiniteSets

CONSTANTS
  Pid,      \* the process ids start may receive; each is spawned once
  Caller,   \* the commands or request threads
  Modes,    \* who may call: a subset of {"command", "server"}
  NoPid     \* what a missing or empty pid file is read as

ASSUME ControlAssumption ==
  /\ Pid \cap {NoPid, "absent", "empty"} = {}
  /\ Modes # {} /\ Modes \subseteq {"command", "server"}

VARIABLES
  mode,     \* who calls, fixed for a behaviour
  pidFile,  \* "absent", "empty" (opened by write_text, not yet written) or a pid
  proc,     \* what the system runs under each pid
  pc,       \* the step of each caller
  restarting, \* callers whose stop is the first half of a restart
  seen,     \* the pid a stop has read
  child,    \* the pid a start has spawned
  writers,  \* callers whose open descriptor is the pid file now in place
  clean     \* history: every start ran alone and to its end

vars == <<mode, pidFile, proc, pc, restarting, seen, child, writers, clean>>

StartPc == {"start_read", "start_unlink", "spawn", "write_open", "write"}
Pc == {"idle", "status_unlink", "stop_term", "stop_poll", "stop_unlink"} \cup StartPc

(* os.kill(pid, 0) succeeds for every entry of the process table: a zombie *)
(* and a process of somebody else count as running.                        *)
Exists(p) == p \in Pid /\ proc[p] \in {"running", "stopping", "zombie", "stranger"}
FilePid == IF pidFile \in Pid THEN pidFile ELSE NoPid

Init ==
  /\ mode \in Modes
  /\ pidFile = "absent"
  /\ proc = [p \in Pid |-> "unused"]
  /\ pc = [c \in Caller |-> "idle"]
  /\ restarting = {}
  /\ seen = [c \in Caller |-> NoPid]
  /\ child = [c \in Caller |-> NoPid]
  /\ writers = {}
  /\ clean = TRUE

(* A start overlaps when any other call is under way with it. *)
Overlap(at) ==
  \E c \in Caller : at[c] \in StartPc /\ \E d \in Caller \ {c} : at[d] # "idle"

Goto(c, label) ==
  /\ pc' = [pc EXCEPT ![c] = label]
  /\ clean' = (clean /\ ~Overlap(pc'))

Return(c) ==
  /\ Goto(c, "idle")
  /\ seen' = [seen EXCEPT ![c] = NoPid]
  /\ child' = [child EXCEPT ![c] = NoPid]

(* unlink(missing_ok=True): whoever still writes, writes to a lost file. *)
Unlink == pidFile' = "absent" /\ writers' = {}

-----------------------------------------------------------------------------
(* status *)

Status(c) ==
  /\ pc[c] = "idle"
  /\ Goto(c, IF pidFile # "absent" /\ ~Exists(FilePid) THEN "status_unlink" ELSE "idle")
  /\ UNCHANGED <<mode, pidFile, proc, restarting, seen, child, writers>>

StatusUnlink(c) ==
  /\ pc[c] = "status_unlink"
  /\ Unlink
  /\ Goto(c, "idle")
  /\ UNCHANGED <<mode, proc, restarting, seen, child>>

-----------------------------------------------------------------------------
(* start *)

BeginStart(c) ==
  /\ pc[c] = "idle"
  /\ Goto(c, "start_read")
  /\ UNCHANGED <<mode, pidFile, proc, restarting, seen, child, writers>>

(* Mutant: a start that does not look at the answer of status. *)
StartReadIgnoresRunning(c) ==
  /\ pc[c] = "start_read"
  /\ Goto(c, IF Exists(FilePid) \/ pidFile = "absent" THEN "spawn" ELSE "start_unlink")
  /\ UNCHANGED <<mode, pidFile, proc, restarting, seen, child, writers>>

(* start first asks for the status: already_running, or a stale file goes. *)
StartRead(c) ==
  /\ pc[c] = "start_read"
  /\ Goto(c, CASE Exists(FilePid) -> "idle"
               [] pidFile = "absent" -> "spawn"
               [] OTHER -> "start_unlink")
  /\ UNCHANGED <<mode, pidFile, proc, restarting, seen, child, writers>>

StartUnlink(c) ==
  /\ pc[c] = "start_unlink"
  /\ Unlink
  /\ Goto(c, "spawn")
  /\ UNCHANGED <<mode, proc, restarting, seen, child>>

(* Popen in a new session; subprocess collects the dead children of the    *)
(* calling process first.                                                  *)
Spawn(c) ==
  /\ pc[c] = "spawn"
  /\ \E p \in Pid :
       /\ proc[p] = "unused"
       /\ proc' = [q \in Pid |-> CASE q = p -> "running"
                                   [] proc[q] = "zombie" -> "gone"
                                   [] OTHER -> proc[q]]
       /\ child' = [child EXCEPT ![c] = p]
  /\ Goto(c, "write_open")
  /\ UNCHANGED <<mode, pidFile, restarting, seen, writers>>

(* Popen raises: no process could be created. *)
SpawnFails(c) ==
  /\ pc[c] = "spawn"
  /\ Return(c)
  /\ UNCHANGED <<mode, pidFile, proc, restarting, writers>>

(* write_text opens the file, which truncates it, and then writes. *)
WriteOpen(c) ==
  /\ pc[c] = "write_open"
  /\ pidFile' = "empty"
  /\ writers' = writers \cup {c}
  /\ Goto(c, "write")
  /\ UNCHANGED <<mode, proc, restarting, seen, child>>

Write(c) ==
  /\ pc[c] = "write"
  /\ pidFile' = IF c \in writers THEN child[c] ELSE pidFile
  /\ writers' = writers \ {c}
  /\ Return(c)
  /\ UNCHANGED <<mode, proc, restarting>>

-----------------------------------------------------------------------------
(* stop, and restart, which is a stop and then a start whatever it said *)

(* Mutant: the text of the pid file is taken as it is. *)
StopTrustsFile(c) ==
  /\ pc[c] = "idle"
  /\ restarting' \in {restarting, restarting \cup {c}}
  /\ seen' = [seen EXCEPT ![c] = pidFile]
  /\ Goto(c, IF Exists(FilePid) THEN "stop_term" ELSE "stop_unlink")
  /\ UNCHANGED <<mode, pidFile, proc, child, writers>>

Stop(c) ==
  /\ pc[c] = "idle"
  /\ restarting' \in {restarting, restarting \cup {c}}
  /\ seen' = [seen EXCEPT ![c] = FilePid]
  /\ Goto(c, IF Exists(FilePid) THEN "stop_term" ELSE "stop_unlink")
  /\ UNCHANGED <<mode, pidFile, proc, child, writers>>

Signalled(p) == [proc EXCEPT ![p] = IF @ = "running" THEN "stopping" ELSE @]

(* Mutant: stop unlinks the file and never signals the process. *)
StopWithoutSignal(c) ==
  /\ pc[c] = "stop_term"
  /\ Goto(c, "stop_unlink")
  /\ UNCHANGED <<mode, pidFile, proc, restarting, seen, child, writers>>

(* SIGTERM, or OSError when the process is gone meanwhile. *)
StopTerm(c) ==
  /\ pc[c] = "stop_term"
  /\ proc' = Signalled(seen[c])
  /\ Goto(c, IF Exists(seen[c]) THEN "stop_poll" ELSE "stop_unlink")
  /\ UNCHANGED <<mode, pidFile, restarting, seen, child, writers>>

(* One of the twenty polls finds the process gone ... *)
StopGone(c) ==
  /\ pc[c] = "stop_poll"
  /\ ~Exists(seen[c])
  /\ Goto(c, "stop_unlink")
  /\ UNCHANGED <<mode, pidFile, proc, restarting, seen, child, writers>>

(* Mutant: no limit on the polls. *)
StopPollsForever(c) ==
  /\ pc[c] = "stop_poll"
  /\ Exists(seen[c])
  /\ UNCHANGED vars

(* ... or the last one does not, and SIGKILL follows.  It is not awaited. *)
StopKill(c) ==
  /\ pc[c] = "stop_poll"
  /\ Exists(seen[c])
  /\ proc' = Signalled(seen[c])
  /\ Goto(c, "stop_unlink")
  /\ UNCHANGED <<mode, pidFile, restarting, seen, child, writers>>

StopUnlink(c) ==
  /\ pc[c] = "stop_unlink"
  /\ Unlink
  /\ restarting' = restarting \ {c}
  /\ seen' = [seen EXCEPT ![c] = NoPid]
  /\ Goto(c, IF c \in restarting THEN "start_read" ELSE "idle")
  /\ UNCHANGED <<mode, proc, child>>

-----------------------------------------------------------------------------
(* The processes *)

(* The process ends: signalled, or its hosts reached max_iterations or     *)
(* died.  The server never waits for it, so there it stays a zombie; the   *)
(* parent of a command's supervisor has ended and init collects it.        *)
ProcessEnds(p) ==
  /\ proc[p] \in {"running", "stopping"}
  /\ proc' = [proc EXCEPT ![p] = IF mode = "server" THEN "zombie" ELSE "gone"]
  /\ UNCHANGED <<mode, pidFile, pc, restarting, seen, child, writers, clean>>

(* Another Popen of the server collects the zombie. *)
Reap(p) ==
  /\ proc[p] = "zombie"
  /\ proc' = [proc EXCEPT ![p] = "gone"]
  /\ UNCHANGED <<mode, pidFile, pc, restarting, seen, child, writers, clean>>

(* The system gives a free pid to an unrelated process. *)
Recycle(p) ==
  /\ proc[p] = "gone"
  /\ proc' = [proc EXCEPT ![p] = "stranger"]
  /\ UNCHANGED <<mode, pidFile, pc, restarting, seen, child, writers, clean>>

StrangerEnds(p) ==
  /\ proc[p] = "stranger"
  /\ proc' = [proc EXCEPT ![p] = "gone"]
  /\ UNCHANGED <<mode, pidFile, pc, restarting, seen, child, writers, clean>>

(* A command is killed, or a file operation raises.  Once Popen returned,  *)
(* the start is cut short: the process runs and no file names it.          *)
Abandon(c) ==
  /\ pc[c] # "idle"
  /\ pc' = [pc EXCEPT ![c] = "idle"]
  /\ clean' = (clean /\ child[c] = NoPid)
  /\ seen' = [seen EXCEPT ![c] = NoPid]
  /\ child' = [child EXCEPT ![c] = NoPid]
  /\ writers' = writers \ {c}
  /\ restarting' = restarting \ {c}
  /\ UNCHANGED <<mode, pidFile, proc>>

-----------------------------------------------------------------------------
Call(c) ==
  \/ Status(c) \/ StatusUnlink(c)
  \/ BeginStart(c) \/ StartRead(c) \/ StartUnlink(c)
  \/ Spawn(c) \/ SpawnFails(c) \/ WriteOpen(c) \/ Write(c)
  \/ Stop(c) \/ StopTerm(c) \/ StopGone(c) \/ StopKill(c) \/ StopUnlink(c)

System(p) == ProcessEnds(p) \/ Reap(p) \/ Recycle(p) \/ StrangerEnds(p)

Next ==
  \/ \E c \in Caller : Call(c) \/ Abandon(c)
  \/ \E p \in Pid : System(p)

(* A call under way is executed to its end (or abandoned): the thread runs. *)
Proceed(c) == pc[c] # "idle" /\ Call(c)

Safety == Init /\ [][Next]_vars
Fairness == \A c \in Caller : WF_vars(Proceed(c))
Spec == Safety /\ Fairness

-----------------------------------------------------------------------------
(* Properties *)

(* Every variable has its type. *)
ControlTypeOK ==
  /\ mode \in Modes
  /\ pidFile \in {"absent", "empty"} \cup Pid
  /\ proc \in [Pid -> {"unused", "running", "stopping", "zombie", "gone", "stranger"}]
  /\ pc \in [Caller -> Pc]
  /\ restarting \subseteq Caller
  /\ seen \in [Caller -> Pid \cup {NoPid}]
  /\ child \in [Caller -> Pid \cup {NoPid}]
  /\ writers \subseteq Caller
  /\ clean \in BOOLEAN

Serving == {p \in Pid : proc[p] = "running"}

(* As long as no start overlaps another call and none is cut short after   *)
(* Popen, at most one supervisor that nobody has told to stop is running,  *)
(* and the pid file names it or its start is about to write it: recycled   *)
(* pids, zombies, forced kills, supervisors that die and overlapping       *)
(* stops and status requests never lose or double it.                      *)
LoneStartsKeepOneSupervisor ==
  clean =>
    /\ Cardinality(Serving) <= 1
    /\ \A p \in Serving : pidFile = p \/ \E c \in Caller : child[c] = p

(* When such a stop reaches its last step no supervisor is left running,   *)
(* also when another stop or status request took the pid file away first.  *)
StopLeavesNothingRunning ==
  clean /\ (\E c \in Caller : pc[c] = "stop_unlink") => Serving = {}

-----------------------------------------------------------------------------
(* Why the two invariants are inductive: what each step of a call knows.   *)

Locals(c) ==
  /\ child[c] # NoPid <=> pc[c] \in {"write_open", "write"}
  /\ pc[c] \in {"stop_term", "stop_poll"} => seen[c] \in Pid /\ proc[seen[c]] # "unused"
  /\ pc[c] = "stop_poll" => proc[seen[c]] # "running"

(* Of a call that no start overlaps (it may be the start itself). *)
Knows(c) ==
  /\ pc[c] = "stop_term" => Serving \subseteq {seen[c]}
  /\ pc[c] \in {"status_unlink", "start_unlink", "spawn", "stop_poll", "stop_unlink"} => Serving = {}
  /\ pc[c] \in {"spawn", "write_open"} => pidFile = "absent"
  /\ pc[c] = "write" => pidFile = "empty" /\ c \in writers

ControlInv ==
  /\ ControlTypeOK
  /\ \A c \in Caller : Locals(c)
  /\ clean => /\ ~Overlap(pc)
              /\ \A c \in Caller : Knows(c)
              /\ \A p \in Serving : pidFile = p \/ \E c \in Caller : child[c] = p
              /\ \A p, q \in Serving : p = q

-----------------------------------------------------------------------------
(* Every call returns: the wait for a process that does not end, or that   *)
(* is a zombie the server itself keeps, is bounded.                        *)
CallsReturn == \A c \in Caller : pc[c] # "idle" ~> pc[c] = "idle"

=============================================================================
