---------------------------- MODULE RuntimeHost ----------------------------
(***************************************************************************)
(* The runtime hosts (runtime/hosts/dev.py, qa.py, techlead.py) in         *)
(* claim_next mode with emission on: each is a thread that takes the head  *)
(* of its own queue, claims it, resolves its database row, lets a worker   *)
(* handle it, publishes the worker's result and closes or requeues the     *)
(* claim.  The three hosts run the same loop; a TechLead host also records *)
(* the workflow transition of the assignment it emitted.  What a worker    *)
(* decides is left open: it fails, it is done, or it has a result to send. *)
(***************************************************************************)
EXTENDS Transport, FiniteSets

CONSTANTS
  Host,         \* the host threads of the supervisor
  TechLead,     \* those that run the TechLead loop
  Serves,       \* Serves[h]: the queue h claims from
  Unsupported,  \* packets of a schema type the claim service rejects
  Untracked     \* packets of work items that have no workflow_states row

ASSUME RuntimeHostAssumption ==
  /\ Host \subseteq Actor
  /\ TechLead \subseteq Host
  /\ Serves \in [Host -> Queue]
  /\ Unsupported \subseteq Packet
  /\ Untracked \subseteq Packet

VARIABLES
  result,   \* the packet a host published in this iteration, or NoPacket
  source    \* source[r]: the packet whose handling produced r, or NoPacket

hostVars == <<result, source>>

HostPc ==
  {"idle", "h_open", "h_write", "h_mark", "h_resolve", "h_work", "h_publish", "h_record",
   "h_transition", "h_ack_load", "h_ack_open", "h_ack_write", "h_requeue", "dead", "hung"}

HostInit ==
  /\ result = [h \in Host |-> NoPacket]
  /\ source = [p \in Packet |-> NoPacket]

(* One iteration of run_loop ends, or (dead) its exception ends the thread. *)
EndIteration(h, label) ==
  /\ Finish(h, label)
  /\ result' = [result EXCEPT ![h] = NoPacket]
  /\ UNCHANGED source

-----------------------------------------------------------------------------
(* Intake: the head is removed from the broker before it is looked at. *)

(* Mutant: an unsupported schema type raises instead of blocking. *)
HostPopRaises(h) ==
  LET p == Head(queue[Serves[h]]) IN
  /\ pc[h] = "idle"
  /\ Pop(Serves[h])
  /\ IF p \in Oversize \cup Unsupported
     THEN EndIteration(h, "dead")
     ELSE Goto(h, "h_open") /\ pkt' = [pkt EXCEPT ![h] = p] /\ UNCHANGED <<cl, hostVars>>
  /\ UNCHANGED <<claim, row>>

(* A truncated payload makes json.loads raise; an unsupported schema type  *)
(* (or a payload that is no object) is reported as blocked and forgotten.  *)
HostPop(h) ==
  LET p == Head(queue[Serves[h]]) IN
  /\ pc[h] = "idle"
  /\ Pop(Serves[h])
  /\ CASE p \in Oversize -> EndIteration(h, "dead")
       [] p \in Unsupported \ Oversize -> EndIteration(h, "idle")
       [] OTHER -> /\ Goto(h, "h_open")
                   /\ pkt' = [pkt EXCEPT ![h] = p]
                   /\ UNCHANGED <<cl, hostVars>>
  /\ UNCHANGED <<claim, row>>

(* The record a host writes has no original_envelope. *)
HostClaimOpen(h, c) ==
  /\ pc[h] = "h_open"
  /\ CreateFile(c, pkt[h], FALSE)
  /\ Goto(h, "h_write")
  /\ cl' = [cl EXCEPT ![h] = c]
  /\ UNCHANGED <<brokerVars, row, pkt, hostVars>>

HostClaimWrite(h) ==
  /\ pc[h] = "h_write"
  /\ WriteFile(cl[h], "claimed")
  /\ Goto(h, "h_mark")
  /\ UNCHANGED <<brokerVars, row, pkt, cl, hostVars>>

HostMark(h) ==
  /\ pc[h] = "h_mark"
  /\ UpdateRow(pkt[h], "claimed")
  /\ Goto(h, "h_resolve")
  /\ UNCHANGED <<brokerVars, claim, pkt, cl, hostVars>>

-----------------------------------------------------------------------------
(* Resolution and work. *)

(* Mutant: the packet is handled from its own payload, row or no row. *)
HostResolveUnchecked(h) ==
  /\ pc[h] = "h_resolve"
  /\ Goto(h, "h_work")
  /\ UNCHANGED <<brokerVars, claim, row, pkt, cl, hostVars>>

(* The row may not exist yet: the sender publishes before it records. *)
HostResolve(h) ==
  /\ pc[h] = "h_resolve"
  /\ Goto(h, IF row[pkt[h]] = "absent" THEN "h_requeue" ELSE "h_work")
  /\ UNCHANGED <<brokerVars, claim, row, pkt, cl, hostVars>>

(* What the worker decides is open.  A TechLead applies the transition of  *)
(* a returned result first, which raises LookupError without a state row.  *)
HostWork(h) ==
  /\ pc[h] = "h_work"
  /\ \/ /\ \E next \in {"h_requeue", "h_ack_load", "h_publish"} : Goto(h, next)
        /\ UNCHANGED <<pkt, cl, hostVars>>
     \/ /\ h \in TechLead
        /\ pkt[h] \in Untracked
        /\ EndIteration(h, "dead")
  /\ UNCHANGED <<brokerVars, claim, row>>

(* A fresh message id.  The publisher answers not-ok, and sends nothing,   *)
(* without an issue number, for an envelope validate_envelope rejects, or   *)
(* when the broker does not route it.                                      *)
HostPublish(h, r) ==
  /\ pc[h] = "h_publish"
  /\ \/ /\ r \notin Malformed
        /\ published[r] = 0
        /\ Home[r] # Serves[h]
        /\ Publish(r)
        /\ Goto(h, "h_record")
        /\ result' = [result EXCEPT ![h] = r]
        /\ source' = [source EXCEPT ![r] = pkt[h]]
     \/ /\ Goto(h, "h_requeue")
        /\ UNCHANGED <<brokerVars, hostVars>>
  /\ UNCHANGED <<claim, row, pkt, cl>>

(* Mutant: send_packet reports ok without recording the send. *)
HostRecordNothing(h) ==
  /\ pc[h] = "h_record"
  /\ Goto(h, IF h \in TechLead THEN "h_transition" ELSE "h_ack_load")
  /\ UNCHANGED <<brokerVars, claim, row, pkt, cl, hostVars>>

HostRecord(h) ==
  /\ pc[h] = "h_record"
  /\ InsertRow(result[h])
  /\ Goto(h, IF h \in TechLead THEN "h_transition" ELSE "h_ack_load")
  /\ UNCHANGED <<brokerVars, claim, pkt, cl, hostVars>>

(* record_assignment_emitted answers not-ok when the work item of the      *)
(* emitted assignment, which is the source packet's, has no state row.     *)
HostTransition(h) ==
  /\ pc[h] = "h_transition"
  /\ Goto(h, IF pkt[h] \in Untracked THEN "h_requeue" ELSE "h_ack_load")
  /\ UNCHANGED <<brokerVars, claim, row, pkt, cl, hostVars>>

-----------------------------------------------------------------------------
(* _finalize_claim. *)

HostAckLoad(h) ==
  /\ pc[h] = "h_ack_load"
  /\ IF Readable(cl[h])
     THEN Goto(h, "h_ack_open") /\ UNCHANGED <<pkt, cl, hostVars>>
     ELSE EndIteration(h, "dead")
  /\ UNCHANGED <<brokerVars, claim, row>>

HostAckOpen(h) ==
  /\ pc[h] = "h_ack_open"
  /\ Truncate(cl[h])
  /\ Goto(h, "h_ack_write")
  /\ UNCHANGED <<brokerVars, row, pkt, cl, hostVars>>

(* Mutant: the record is written back with the status it was loaded with. *)
HostAckWriteUnchanged(h) ==
  /\ pc[h] = "h_ack_write"
  /\ WriteFile(cl[h], "claimed")
  /\ EndIteration(h, "idle")
  /\ UNCHANGED <<brokerVars, row>>

(* The record has no envelope to take a message id from: no row update. *)
HostAckWrite(h) ==
  /\ pc[h] = "h_ack_write"
  /\ WriteFile(cl[h], "done")
  /\ EndIteration(h, "idle")
  /\ UNCHANGED <<brokerVars, row>>

(* requeue_claim answers missing_original_envelope: the branch of it that  *)
(* publishes is unreachable for a record HostClaimOpen created.            *)
HostRequeue(h) ==
  /\ pc[h] = "h_requeue"
  /\ EndIteration(h, IF Readable(cl[h]) THEN "idle" ELSE "dead")
  /\ UNCHANGED <<brokerVars, claim, row>>

-----------------------------------------------------------------------------
(* An exception ends the thread, a signal ends them all one after another. *)

SqlPc == {"h_mark", "h_resolve", "h_publish", "h_record", "h_transition"}

HostDies(h) ==
  /\ pc[h] # "dead"
  /\ "crash" \in Faults \/ ("db" \in Faults /\ pc[h] \in SqlPc)
  /\ EndIteration(h, "dead")
  /\ UNCHANGED <<brokerVars, claim, row>>

(* Neither the broker's urlopen nor the database connection has a timeout: *)
(* a thread whose request is not answered, carried out or not, waits for   *)
(* ever, and with it the process.                                          *)
HostHangs(h) ==
  /\ pc[h] \notin {"dead", "hung"}
  /\ "hang" \in Faults
  /\ EndIteration(h, "hung")
  /\ UNCHANGED <<brokerVars, claim, row>>

(* The process ends when every thread has; an operator starts a new one. *)
SupervisorStart ==
  /\ Host # {}
  /\ \A h \in Host : pc[h] = "dead"
  /\ pc' = [a \in Actor |-> IF a \in Host THEN "idle" ELSE pc[a]]
  /\ UNCHANGED <<brokerVars, claim, row, pkt, cl, hostVars>>

HostProceed(h) ==
  \/ HostPop(h)
  \/ \E c \in Claim : HostClaimOpen(h, c)
  \/ HostClaimWrite(h) \/ HostMark(h) \/ HostResolve(h) \/ HostWork(h)
  \/ \E r \in Packet : HostPublish(h, r)
  \/ HostRecord(h) \/ HostTransition(h)
  \/ HostAckLoad(h) \/ HostAckOpen(h) \/ HostAckWrite(h) \/ HostRequeue(h)

HostStep ==
  \/ \E h \in Host : HostProceed(h) \/ HostDies(h) \/ HostHangs(h)
  \/ SupervisorStart

-----------------------------------------------------------------------------
(* A host works for, and answers, only packets the database knows, although *)
(* every sender publishes before it records and a host may be faster.       *)
WorkPc ==
  {"h_work", "h_publish", "h_record", "h_transition", "h_ack_load", "h_ack_open", "h_ack_write"}

HostWorksOnlyRecordedPackets ==
  \A h \in Host : pc[h] \in WorkPc => row[pkt[h]] # "absent"

(* When a host closes the claim of a packet it answered, the answer is in   *)
(* the database: no crash between publish, record and ack can leave a       *)
(* closed source whose answer only the broker knows - if the project of the *)
(* answer is registered, which record_queue_send_for_message does not check. *)
ClosingHostHasRecordedResult ==
  \A h \in Host :
    pc[h] \in {"h_transition", "h_ack_load", "h_ack_open", "h_ack_write"}
      /\ result[h] \notin Unregistered \cup {NoPacket}
      => row[result[h]] # "absent"

(* A packet is answered at most once each time it is put on the broker,    *)
(* whatever is killed and restarted: the destructive get hands a delivery  *)
(* to one actor, and no host works for the same delivery again.            *)
AtMostOneResultPerDelivery ==
  \A p \in Packet : Cardinality({r \in Packet : source[r] = p}) <= published[p]

(* Invariant 2 of the handoff execution contract, send and close belong to  *)
(* one runtime path: an iteration that sent a packet does not end normally  *)
(* with the claim of the source packet still open.                          *)
SendClosesSource ==
  [][\A h \in Host :
       result[h] # NoPacket /\ pc'[h] = "idle" /\ pc[h] # "idle"
         => claim'[cl[h]].status \in {"done", "torn"}]_<<transportVars, hostVars>>

(* What the hosts' unit tests say of a failed iteration: it requeues its    *)
(* claim, so the packet is back on its queue when the iteration is over.    *)
FailedIterationRequeues ==
  [][\A h \in Host, p \in Packet :
       pkt[h] = p /\ pc[h] = "h_requeue" /\ pc'[h] = "idle"
         => InQueue(p)']_<<transportVars, hostVars>>

=============================================================================
