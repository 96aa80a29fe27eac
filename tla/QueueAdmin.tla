----------------------------- MODULE QueueAdmin -----------------------------
(***************************************************************************)
(* The operator side of the packet runtime: send, claim-next, ack,         *)
(* requeue and purge (runtime/transport/queue_admin.py) and the role       *)
(* return's acknowledge_source_assignment (runtime/bridges/role_bridge.py),*)
(* which strings list-claims, claim-next, ack and requeue together.        *)
(* Every command is a process of its own; each broker request, each half   *)
(* of a file write and each SQL statement is one step of it.               *)
(***************************************************************************)
EXTENDS Transport, FiniteSets

CONSTANTS
  Operator,    \* operator commands that may run at the same time
  Commands     \* the commands of this instance

ASSUME QueueAdminAssumption ==
  /\ Operator \subseteq Actor
  /\ Commands \subseteq {"send", "claim", "ack", "requeue", "purge", "return", "foreign"}

VARIABLES
  target       \* the source assignment a role return is closing, or NoPacket

adminVars == <<target>>

OperatorPc ==
  {"idle", "record_send", "ret_list", "claim_open", "claim_write", "claim_mark",
   "ack_load", "ack_open", "ack_write", "ack_mark",
   "req_load", "req_publish", "req_open", "req_write", "req_mark", "ret_pop"}

AdminInit ==
  /\ target = [o \in Operator |-> NoPacket]

(* The command returns to its shell. *)
Return(o) ==
  /\ Finish(o, "idle")
  /\ target' = [target EXCEPT ![o] = NoPacket]

-----------------------------------------------------------------------------
(* send / send_packet: publish, then record. *)

SendPublish(o, p) ==
  /\ "send" \in Commands
  /\ pc[o] = "idle"
  /\ p \notin Malformed
  /\ Publish(p)
  /\ Goto(o, "record_send")
  /\ pkt' = [pkt EXCEPT ![o] = p]
  /\ UNCHANGED <<claim, row, cl, adminVars>>

(* A role return that dispatches r, the result of assignment t. *)
ReturnSend(o, r, t) ==
  /\ "return" \in Commands
  /\ pc[o] = "idle"
  /\ r \notin Malformed
  /\ r # t
  /\ Publish(r)
  /\ Goto(o, "record_send")
  /\ pkt' = [pkt EXCEPT ![o] = r]
  /\ target' = [target EXCEPT ![o] = t]
  /\ UNCHANGED <<claim, row, cl>>

SendRecord(o) ==
  /\ pc[o] = "record_send"
  /\ InsertRow(pkt[o])
  /\ IF target[o] = NoPacket
     THEN Return(o)
     ELSE /\ Goto(o, "ret_list")
          /\ pkt' = [pkt EXCEPT ![o] = NoPacket]
          /\ UNCHANGED <<cl, adminVars>>
  /\ UNCHANGED <<brokerVars, claim>>

-----------------------------------------------------------------------------
(* claim-next: destructive get, ledger record, row update. *)

(* json.loads raises on a payload the broker truncated: the packet is gone *)
(* from the queue and nothing was recorded.                                *)
TakeHead(o, q) ==
  LET p == Head(queue[q]) IN
  /\ Pop(q)
  /\ IF p \in Oversize
     THEN Return(o)
     ELSE /\ Goto(o, "claim_open")
          /\ pkt' = [pkt EXCEPT ![o] = p]
          /\ UNCHANGED <<cl, adminVars>>
  /\ UNCHANGED <<claim, row>>

ClaimPop(o, q) ==
  /\ "claim" \in Commands
  /\ pc[o] = "idle"
  /\ TakeHead(o, q)

(* Mutant: record_claim is handed a record without original_envelope. *)
ClaimOpenBare(o, c) ==
  /\ pc[o] = "claim_open"
  /\ CreateFile(c, pkt[o], FALSE)
  /\ Goto(o, "claim_write")
  /\ cl' = [cl EXCEPT ![o] = c]
  /\ UNCHANGED <<brokerVars, row, pkt, adminVars>>

ClaimOpen(o, c) ==
  /\ pc[o] = "claim_open"
  /\ CreateFile(c, pkt[o], TRUE)
  /\ Goto(o, "claim_write")
  /\ cl' = [cl EXCEPT ![o] = c]
  /\ UNCHANGED <<brokerVars, row, pkt, adminVars>>

ClaimWrite(o) ==
  /\ pc[o] = "claim_write"
  /\ IF pkt[o] \in Malformed
     THEN WriteFile(cl[o], "invalid") /\ Return(o)
     ELSE WriteFile(cl[o], "claimed") /\ Goto(o, "claim_mark") /\ UNCHANGED <<pkt, cl, adminVars>>
  /\ UNCHANGED <<brokerVars, row>>

(* Mutant: the role return does not compare the packet it claimed. *)
ClaimMarkUnchecked(o) ==
  /\ pc[o] = "claim_mark"
  /\ UpdateRow(pkt[o], "claimed")
  /\ IF target[o] = NoPacket
     THEN Return(o)
     ELSE Goto(o, "ack_load") /\ UNCHANGED <<pkt, cl, adminVars>>
  /\ UNCHANGED <<brokerVars, claim>>

(* A role return goes on: ack its own assignment, requeue any other packet. *)
ClaimMark(o) ==
  /\ pc[o] = "claim_mark"
  /\ UpdateRow(pkt[o], "claimed")
  /\ IF target[o] = NoPacket
     THEN Return(o)
     ELSE /\ Goto(o, IF pkt[o] = target[o] THEN "ack_load" ELSE "req_load")
          /\ UNCHANGED <<pkt, cl, adminVars>>
  /\ UNCHANGED <<brokerVars, claim>>

-----------------------------------------------------------------------------
(* ack: load the whole record, set done, write it back, update the row.    *)
(* The status the record had is not looked at.                             *)

Load(o, c, label) ==
  /\ Readable(c)
  /\ Goto(o, label)
  /\ cl' = [cl EXCEPT ![o] = c]
  /\ pkt' = [pkt EXCEPT ![o] = Envelope(c)]

AckLoad(o, c) ==
  /\ "ack" \in Commands
  /\ pc[o] = "idle"
  /\ Load(o, c, "ack_open")
  /\ UNCHANGED <<brokerVars, claim, row, adminVars>>

ReturnAckLoad(o) ==
  /\ pc[o] = "ack_load"
  /\ IF Readable(cl[o])
     THEN Load(o, cl[o], "ack_open") /\ UNCHANGED adminVars
     ELSE Return(o)
  /\ UNCHANGED <<brokerVars, claim, row>>

AckOpen(o) ==
  /\ pc[o] = "ack_open"
  /\ Truncate(cl[o])
  /\ Goto(o, "ack_write")
  /\ UNCHANGED <<brokerVars, row, pkt, cl, adminVars>>

(* Mutant: the record is written back with the status it was loaded with. *)
AckWriteUnchanged(o) ==
  /\ pc[o] = "ack_write"
  /\ WriteFile(cl[o], "claimed")
  /\ IF pkt[o] = NoPacket
     THEN Return(o)
     ELSE Goto(o, "ack_mark") /\ UNCHANGED <<pkt, cl, adminVars>>
  /\ UNCHANGED <<brokerVars, row>>

AckWrite(o) ==
  /\ pc[o] = "ack_write"
  /\ WriteFile(cl[o], "done")
  /\ IF pkt[o] = NoPacket
     THEN Return(o)
     ELSE Goto(o, "ack_mark") /\ UNCHANGED <<pkt, cl, adminVars>>
  /\ UNCHANGED <<brokerVars, row>>

AckMark(o) ==
  /\ pc[o] = "ack_mark"
  /\ UpdateRow(pkt[o], "acknowledged")
  /\ Return(o)
  /\ UNCHANGED <<brokerVars, claim>>

-----------------------------------------------------------------------------
(* requeue: publish the retained envelope, then write the record back.     *)
(* Neither the record's status nor the broker's routed flag is looked at.  *)

RequeueLoad(o, c) ==
  /\ "requeue" \in Commands
  /\ pc[o] = "idle"
  /\ claim[c].envelope
  /\ Load(o, c, "req_publish")
  /\ UNCHANGED <<brokerVars, claim, row, adminVars>>

ReturnRequeueLoad(o) ==
  /\ pc[o] = "req_load"
  /\ IF Readable(cl[o])
     THEN Load(o, cl[o], "req_publish") /\ UNCHANGED adminVars
     ELSE Return(o)
  /\ UNCHANGED <<brokerVars, claim, row>>

RequeuePublish(o) ==
  /\ pc[o] = "req_publish"
  /\ \/ Publish(pkt[o])
     \/ "unroutable" \in Faults /\ UNCHANGED brokerVars
  /\ Goto(o, "req_open")
  /\ UNCHANGED <<claim, row, pkt, cl, adminVars>>

RequeueOpen(o) ==
  /\ pc[o] = "req_open"
  /\ Truncate(cl[o])
  /\ Goto(o, "req_write")
  /\ UNCHANGED <<brokerVars, row, pkt, cl, adminVars>>

(* Mutant: the record is written back as it was loaded. *)
RequeueWriteReopens(o) ==
  /\ pc[o] = "req_write"
  /\ WriteFile(cl[o], "claimed")
  /\ Goto(o, "req_mark")
  /\ UNCHANGED <<brokerVars, row, pkt, cl, adminVars>>

RequeueWrite(o) ==
  /\ pc[o] = "req_write"
  /\ WriteFile(cl[o], "requeued")
  /\ Goto(o, "req_mark")
  /\ UNCHANGED <<brokerVars, row, pkt, cl, adminVars>>

(* Mutant: the statement is accepted and the row is called requeued. *)
RequeueMarkApplied(o) ==
  /\ pc[o] = "req_mark"
  /\ UpdateRow(pkt[o], "requeued")
  /\ Return(o)
  /\ UNCHANGED <<brokerVars, claim>>

(* The UPDATE assigns updated_at twice (as timestamp_field and as itself); *)
(* PostgreSQL rejects the statement, so the call raises and no row moves.  *)
RequeueMark(o) ==
  /\ pc[o] = "req_mark"
  /\ Return(o)
  /\ UNCHANGED <<brokerVars, claim, row>>

-----------------------------------------------------------------------------
(* acknowledge_source_assignment: ack the one open claim of t, refuse if   *)
(* there are several, claim the head of its queue if there is none.        *)

OpenClaimsOf(t) == {c \in Claim : claim[c].status = "claimed" /\ Envelope(c) = t}

ReturnList(o) ==
  LET open == OpenClaimsOf(target[o]) IN
  /\ pc[o] = "ret_list"
  /\ \/ /\ open = {}
        /\ Goto(o, "ret_pop")
        /\ UNCHANGED <<pkt, cl, adminVars>>
     \/ \E c \in open :
          /\ open = {c}
          /\ Goto(o, "ack_load")
          /\ cl' = [cl EXCEPT ![o] = c]
          /\ UNCHANGED <<pkt, adminVars>>
     \/ /\ \E c, d \in open : c # d
        /\ Return(o)
  /\ UNCHANGED <<brokerVars, claim, row>>

ReturnPop(o) ==
  LET q == Home[target[o]] IN
  /\ pc[o] = "ret_pop"
  /\ IF queue[q] = <<>>
     THEN Return(o) /\ UNCHANGED <<brokerVars, claim, row>>
     ELSE TakeHead(o, q)

-----------------------------------------------------------------------------
Purge(q) ==
  /\ "purge" \in Commands
  /\ queue[q] # <<>>
  /\ queue' = [queue EXCEPT ![q] = <<>>]
  /\ UNCHANGED <<published, claim, row, localVars, adminVars>>

(* Something other than PAA publishes an envelope PAA would not accept. *)
ForeignPublish(p) ==
  /\ "foreign" \in Commands
  /\ p \in Malformed
  /\ Publish(p)
  /\ UNCHANGED <<claim, row, localVars, adminVars>>

(* The repository raises: the command ends with a traceback. *)
DbFails(o) ==
  /\ "db" \in Faults
  /\ pc[o] \in {"record_send", "claim_mark", "ack_mark"}
  /\ Return(o)
  /\ UNCHANGED <<brokerVars, claim, row>>

(* The process dies, or a broker request or file system call raises. *)
Crash(o) ==
  /\ "crash" \in Faults
  /\ pc[o] # "idle"
  /\ Return(o)
  /\ UNCHANGED <<brokerVars, claim, row>>

OperatorStep(o) ==
  \/ \E p \in Packet : SendPublish(o, p)
  \/ \E r, t \in Packet : ReturnSend(o, r, t)
  \/ \E q \in Queue : ClaimPop(o, q)
  \/ \E c \in Claim : ClaimOpen(o, c) \/ AckLoad(o, c) \/ RequeueLoad(o, c)
  \/ SendRecord(o) \/ ClaimWrite(o) \/ ClaimMark(o)
  \/ ReturnAckLoad(o) \/ AckOpen(o) \/ AckWrite(o) \/ AckMark(o)
  \/ ReturnRequeueLoad(o) \/ RequeuePublish(o) \/ RequeueOpen(o)
  \/ RequeueWrite(o) \/ RequeueMark(o)
  \/ ReturnList(o) \/ ReturnPop(o) \/ DbFails(o) \/ Crash(o)

AdminStep ==
  \/ \E o \in Operator : OperatorStep(o)
  \/ \E q \in Queue : Purge(q)
  \/ \E p \in Packet : ForeignPublish(p)

-----------------------------------------------------------------------------
(* The operator commands alone, with every actor an operator. *)

adminSystemVars == <<transportVars, adminVars>>

AdminSystemInit == TransportInit /\ AdminInit
AdminSpec == AdminSystemInit /\ [][AdminStep]_adminSystemVars

ClaimRecord == [status : ClaimStatus, packet : Packet \cup {NoPacket}, envelope : BOOLEAN]

(* Type invariant of the transport state and of the operators' locals. *)
AdminTypeOK ==
  /\ queue \in [Queue -> Seq(Packet)]
  /\ claim \in [Claim -> ClaimRecord]
  /\ row \in [Packet -> RowStatus]
  /\ published \in [Packet -> Nat]
  /\ pc \in [Actor -> OperatorPc]
  /\ pkt \in [Actor -> Packet \cup {NoPacket}]
  /\ cl \in [Actor -> Claim \cup {NoClaim}]
  /\ target \in [Operator -> Packet \cup {NoPacket}]

-----------------------------------------------------------------------------
(* A packet is accounted for while the broker holds it, while a running    *)
(* command holds it and is going to write it to the ledger, or while a     *)
(* readable claim file retains its envelope.                               *)
HoldingPc ==
  {"claim_open", "claim_write", "ack_open", "ack_write",
   "req_publish", "req_open", "req_write"}

InHand(p) == \E o \in Operator : pkt[o] = p /\ pc[o] \in HoldingPc

AccountedFor(p) == InQueue(p) \/ InHand(p) \/ Retained(p)

(* A write that leaves the overlaid text of two writers in a claim file.   *)
TearStep ==
  \E o \in Operator :
    pc[o] \in {"ack_write", "req_write"} /\ pc'[o] # pc[o] /\ claim'[cl[o]].status = "torn"

LossStep ==
  \/ \E q \in Queue : Purge(q)
  \/ \E o \in Operator : Crash(o)
  \/ TearStep

(* Claim-next acknowledges to the broker before anything is durable, ack   *)
(* and requeue truncate the only durable copy before rewriting it.  Yet a  *)
(* packet leaves every store at once only in a purge, a crash inside such  *)
(* a window, an overlap of two writers of one claim, or when the payload   *)
(* is longer than the broker returns: no order of concurrent commands and  *)
(* no failing SQL statement loses one.                                     *)
PacketsLostOnlyByLossSteps ==
  [][LossStep \/ \A p \in Packet \ Oversize : AccountedFor(p) => AccountedFor(p)']_adminSystemVars

(* The row of a packet says acknowledged only if the ledger shows a claim  *)
(* of that packet that is no longer open: no interleaving of a slow        *)
(* claim-next, an ack and a requeue acknowledges a packet whose every      *)
(* claim is still open.                                                    *)
ClosedClaimOf(p) ==
  \E c \in Claim : claim[c].packet = p /\ claim[c].status \notin {"absent", "claimed", "invalid"}

AcknowledgedRowHasClosedClaim ==
  \A p \in Packet : row[p] = "acknowledged" => ClosedClaimOf(p)

(* acknowledge_source_assignment refuses to acknowledge the wrong packet:  *)
(* whatever other commands do between its list, its claim and its ack, the *)
(* claim it closes is a claim of the assignment it was asked to close.     *)
ReturnClosesOnlyItsAssignment ==
  \A o \in Operator :
    target[o] # NoPacket /\ pc[o] \in {"ack_load", "ack_open", "ack_write", "ack_mark"}
      => claim[cl[o]].packet = target[o]

(* Copies of p on the broker, on their way into a claim file, and claimed. *)
Waiting(p) == {i \in 1..Len(queue[Home[p]]) : queue[Home[p]][i] = p}
Popped(p) == {a \in Actor : pkt[a] = p /\ pc[a] \in InHandPc}
ClaimsOf(p) == {c \in Claim : claim[c].status # "absent" /\ claim[c].packet = p}

Copies(p) == Cardinality(Waiting(p)) + Cardinality(Popped(p)) + Cardinality(ClaimsOf(p))

(* Each time a packet is put on the broker it is claimed at most once: no  *)
(* interleaving of claims, acks and requeues hands one delivery to two     *)
(* claims or keeps on the queue what a claim already holds.                *)
DeliveriesAccountedFor == \A p \in Packet : Copies(p) <= published[p]

-----------------------------------------------------------------------------
(* The inductive invariants behind these: first the one of the account.    *)

(* A queue holds only the packets it is the home of. *)
QueuesRouted == \A q \in Queue : \A i \in 1..Len(queue[q]) : Home[queue[q][i]] = q

DeliveryAccounts ==
  /\ QueuesRouted
  /\ DeliveriesAccountedFor
  /\ \A p \in Packet : IsFiniteSet(Popped(p)) /\ IsFiniteSet(ClaimsOf(p))


(* A claim file that exists was recorded for a packet, with its envelope.  *)
LedgerInv ==
  \A c \in Claim : claim[c].status # "absent" => claim[c].packet \in Packet /\ claim[c].envelope

ClaimPc ==
  {"claim_write", "claim_mark", "ack_load", "ack_open", "ack_write", "ack_mark",
   "req_load", "req_publish", "req_open", "req_write", "req_mark"}

(* What a command holds in its locals at each of its steps. *)
LocalInv(o) ==
  /\ pc[o] \in {"record_send", "claim_open"} => pkt[o] \in Packet
  /\ pc[o] = "idle" => target[o] = NoPacket
  /\ pc[o] \in {"ret_list", "ret_pop"} => target[o] \in Packet
  /\ pc[o] \notin ClaimPc => cl[o] = NoClaim
  /\ pc[o] \in ClaimPc => cl[o] \in Claim /\ claim[cl[o]].status # "absent"
  /\ pc[o] \in ClaimPc \ {"ack_load"} => pkt[o] = claim[cl[o]].packet
  /\ pc[o] = "ack_mark" => claim[cl[o]].status \notin {"absent", "claimed", "invalid"}

(* Nobody else has a claim file open that its creator has not yet written. *)
CreatorInv ==
  \A o \in Operator : pc[o] = "claim_write" =>
    /\ claim[cl[o]].status = "empty"
    /\ \A a \in Operator \ {o} : cl[a] # cl[o]

(* The closed claim an acknowledged row points at is not one still being   *)
(* created, whose status is about to become claimed.                       *)
Closed(c) ==
  /\ claim[c].status \notin {"absent", "claimed", "invalid"}
  /\ \A o \in Operator : pc[o] = "claim_write" => cl[o] # c

RowInv ==
  \A p \in Packet : row[p] = "acknowledged" => \E c \in Claim : claim[c].packet = p /\ Closed(c)

AdminInv ==
  /\ AdminTypeOK
  /\ LedgerInv
  /\ \A o \in Operator : LocalInv(o)
  /\ CreatorInv
  /\ RowInv
  /\ ReturnClosesOnlyItsAssignment

=============================================================================
