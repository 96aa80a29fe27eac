----------------------------- MODULE Transport -----------------------------
(***************************************************************************)
(* The state the PAA packet runtime is spread over, and the primitive      *)
(* effects every command and every host is built from:                     *)
(*                                                                         *)
(*   queue      the RabbitMQ queues, reached through the management API    *)
(*   claim      the file-backed claim ledger, one JSON file per claim      *)
(*   row        the paa.queue_messages / paa.handoffs row of a packet      *)
(*                                                                         *)
(* No transaction spans the three, nothing locks a claim file, and an      *)
(* actor (one operator command, one host thread) may stop between any two  *)
(* effects.  pc, pkt and cl are the locals of each actor; published is a   *)
(* history variable that counts the broker publishes of a packet.          *)
(***************************************************************************)
EXTENDS Naturals, Sequences

CONSTANTS
  Packet,      \* packets, identified by message_id
  Queue,       \* broker queues
  Home,        \* Home[p]: the queue resolve_packet_queue picks for p
  Claim,       \* claim ids (uuid4 values) that may be used
  Actor,       \* operator commands and host threads
  Malformed,   \* packets validate_envelope rejects: foreign producers only
  Oversize,    \* packets longer than the 50000 bytes get_messages returns
  Unregistered, \* packets whose project has no row in paa.projects
  Faults,      \* the environment faults of this instance
  MaxPublish,  \* bound: how often one packet is put on the broker
  NoPacket, NoClaim

FaultKinds == {"crash", "db", "hang", "unroutable"}

ASSUME TransportAssumption ==
  /\ Home \in [Packet -> Queue]
  /\ Malformed \subseteq Packet
  /\ Oversize \subseteq Packet
  /\ Unregistered \subseteq Packet
  /\ Faults \subseteq FaultKinds
  /\ MaxPublish \in Nat
  /\ NoPacket \notin Packet
  /\ NoClaim \notin Claim

VARIABLES queue, claim, row, published, pc, pkt, cl

brokerVars == <<queue, published>>
localVars == <<pc, pkt, cl>>
transportVars == <<queue, claim, row, published, pc, pkt, cl>>

(***************************************************************************)
(* A claim file is "absent", "empty" (created or truncated by open(.., 'w')*)
(* and not yet written), "torn" (two writers overlaid their text) or holds *)
(* a status.  packet is the packet it was recorded for; envelope says      *)
(* whether the file carries original_envelope, the only copy of the packet *)
(* once the broker has dropped it.                                         *)
(***************************************************************************)
ClaimStatus == {"absent", "empty", "torn", "invalid", "claimed", "done", "requeued"}
NoRecord == [status |-> "absent", packet |-> NoPacket, envelope |-> FALSE]

(***************************************************************************)
(* queue_messages.status and handoffs.status move together in one SQL      *)
(* statement: sent/pending, claimed/claimed, acknowledged/completed.       *)
(***************************************************************************)
RowStatus == {"absent", "sent", "claimed", "acknowledged"}

Unreadable == {"absent", "empty", "torn"}
Readable(c) == claim[c].status \notin Unreadable

(* What json.load gives back of original_envelope. *)
Envelope(c) == IF claim[c].envelope THEN claim[c].packet ELSE NoPacket

TransportInit ==
  /\ queue = [q \in Queue |-> <<>>]
  /\ claim = [c \in Claim |-> NoRecord]
  /\ row = [p \in Packet |-> "absent"]
  /\ published = [p \in Packet |-> 0]
  /\ pc = [a \in Actor |-> "idle"]
  /\ pkt = [a \in Actor |-> NoPacket]
  /\ cl = [a \in Actor |-> NoClaim]

-----------------------------------------------------------------------------
(* Control of one actor. *)

Goto(a, label) == pc' = [pc EXCEPT ![a] = label]

Finish(a, label) ==
  /\ pc' = [pc EXCEPT ![a] = label]
  /\ pkt' = [pkt EXCEPT ![a] = NoPacket]
  /\ cl' = [cl EXCEPT ![a] = NoClaim]

-----------------------------------------------------------------------------
(* Effects on the broker. *)

Publish(p) ==
  /\ published[p] < MaxPublish
  /\ queue' = [queue EXCEPT ![Home[p]] = Append(@, p)]
  /\ published' = [published EXCEPT ![p] = @ + 1]

(* Mutant: get_messages with ackmode ack_requeue_true. *)
Peek(q) ==
  /\ queue[q] # <<>>
  /\ UNCHANGED <<queue, published>>

(* get_messages with ackmode ack_requeue_false: the broker forgets the head. *)
Pop(q) ==
  /\ queue[q] # <<>>
  /\ queue' = [queue EXCEPT ![q] = Tail(@)]
  /\ UNCHANGED published

-----------------------------------------------------------------------------
(* Effects on the ledger: save_json is open(path, 'w') followed by a write. *)

CreateFile(c, p, envelope) ==
  /\ claim[c].status = "absent"
  /\ claim' = [claim EXCEPT ![c] = [status |-> "empty", packet |-> p, envelope |-> envelope]]

Truncate(c) == claim' = [claim EXCEPT ![c].status = "empty"]

(* A writer that finds text another writer put there since its own open    *)
(* overlays it from offset 0; the longer text's tail may survive.          *)
WriteFile(c, status) ==
  \E written \in {status} \cup (IF claim[c].status = "empty" THEN {} ELSE {"torn"}) :
    claim' = [claim EXCEPT ![c].status = written]

-----------------------------------------------------------------------------
(* Effects on the database. *)

(* INSERT .. SELECT FROM project WHERE NOT EXISTS existing: without a row  *)
(* of the project it inserts nothing, and the caller does not notice.      *)
InsertRow(p) ==
  row' = [row EXCEPT ![p] = IF @ = "absent" /\ p \notin Unregistered THEN "sent" ELSE @]

UpdateRow(p, status) == row' = [row EXCEPT ![p] = IF @ = "absent" THEN @ ELSE status]

-----------------------------------------------------------------------------
(* Where a packet is. *)

InQueue(p) == \E i \in 1..Len(queue[Home[p]]) : queue[Home[p]][i] = p

(* Some readable claim file carries the whole packet. *)
Retained(p) == \E c \in Claim : Readable(c) /\ Envelope(c) = p

-----------------------------------------------------------------------------
(* What PacketDelivery sees of this state.  An actor that has popped a     *)
(* message has it in its hands until the claim file exists; a claim is     *)
(* over when its file says so, or says nothing and nobody is about to      *)
(* write its first status.                                                 *)

InHandPc == {"claim_open", "h_open"}
CreatorPc == {"claim_write", "h_write"}

Over(c) ==
  /\ claim[c].status \notin {"absent", "claimed", "invalid"}
  /\ \A a \in Actor : pc[a] \in CreatorPc => cl[a] # c

Hand == [a \in Actor |-> IF pc[a] \in InHandPc THEN pkt[a] ELSE NoPacket]
Recorded == [c \in Claim |-> IF claim[c].status = "absent" THEN NoPacket ELSE claim[c].packet]
OverClaims == {c \in Claim : Over(c)}
AcknowledgedPackets == {p \in Packet : row[p] = "acknowledged"}

Delivery == INSTANCE PacketDelivery WITH
  hand <- Hand, delivery <- Recorded, over <- OverClaims, acknowledged <- AcknowledgedPackets

(* The commands and the hosts, with their crashes and failing statements,  *)
(* deliver as PacketDelivery promises: no order of their steps reopens a   *)
(* delivery, makes two of one message or calls a packet acknowledged       *)
(* before one of its deliveries is over.                                   *)
DeliversAsPromised == Delivery!Spec

=============================================================================
