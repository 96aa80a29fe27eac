--------------------------- MODULE RuntimeSystem ---------------------------
(***************************************************************************)
(* The operator commands and the host threads over one broker, one ledger  *)
(* and one database.  Nothing but those three connects them: a command may *)
(* take the packet a host was about to take, close a claim a host is       *)
(* working on, or read a claim file a host has just truncated.             *)
(***************************************************************************)
EXTENDS QueueAdmin, RuntimeHost

ASSUME RuntimeSystemAssumption ==
  /\ Actor = Operator \cup Host
  /\ Operator \cap Host = {}

systemVars == <<transportVars, adminVars, hostVars>>

SystemInit == TransportInit /\ AdminInit /\ HostInit

SystemNext ==
  \/ AdminStep /\ UNCHANGED hostVars
  \/ HostStep /\ UNCHANGED adminVars

SystemSpec == SystemInit /\ [][SystemNext]_systemVars

(***************************************************************************)
(* A host thread that is neither dead nor hung keeps iterating: run_loop   *)
(* sleeps for poll_interval and goes round again; a request that does not  *)
(* return is HostHangs.  Nothing obliges an operator to run a command, to  *)
(* bring it to its end or to restart the supervisor.                       *)
(***************************************************************************)
Fairness == \A h \in Host : WF_systemVars(HostProceed(h) /\ UNCHANGED adminVars)

FairSystemSpec == SystemSpec /\ Fairness

(* Type invariant of the whole runtime. *)
SystemTypeOK ==
  /\ queue \in [Queue -> Seq(Packet)]
  /\ claim \in [Claim -> ClaimRecord]
  /\ row \in [Packet -> RowStatus]
  /\ published \in [Packet -> Nat]
  /\ pc \in [Actor -> OperatorPc \cup HostPc]
  /\ \A o \in Operator : pc[o] \in OperatorPc
  /\ \A h \in Host : pc[h] \in HostPc
  /\ pkt \in [Actor -> Packet \cup {NoPacket}]
  /\ cl \in [Actor -> Claim \cup {NoClaim}]
  /\ target \in [Operator -> Packet \cup {NoPacket}]
  /\ result \in [Host -> Packet \cup {NoPacket}]
  /\ source \in [Packet -> Packet \cup {NoPacket}]

(* No packet and no verdict of a worker stops a host's loop: everything on  *)
(* its queue is taken off, unless one of the thread's requests hangs.  What *)
(* is taken off may be dropped (an unsupported schema type); with database  *)
(* failures or crashes a thread may die, and nobody starts it again.        *)
HostQueueDrains ==
  \A h \in Host, p \in Packet :
    Home[p] = Serves[h] => (InQueue(p) ~> ~InQueue(p) \/ pc[h] = "hung")

-----------------------------------------------------------------------------
(* The inductive invariant behind the safety properties of the runtime.    *)

(* What a command knows at each of its steps.  The claim it has loaded may *)
(* be a host's, which retains no envelope.                                 *)
CommandInv(o) ==
  /\ pc[o] \in OperatorPc
  /\ pc[o] \in {"record_send", "claim_open"} => pkt[o] \in Packet
  /\ pc[o] = "idle" => target[o] = NoPacket
  /\ pc[o] \in {"ret_list", "ret_pop"} => target[o] \in Packet
  /\ pc[o] \notin ClaimPc => cl[o] = NoClaim
  /\ pc[o] \in ClaimPc => cl[o] \in Claim /\ claim[cl[o]].status # "absent"
  /\ pc[o] \in ClaimPc \ {"ack_load"} => pkt[o] = Envelope(cl[o])
  /\ pc[o] \in ClaimPc \ {"ack_load", "ack_open", "ack_write"} => claim[cl[o]].envelope
  /\ pc[o] = "ack_mark" => claim[cl[o]].status \notin {"absent", "claimed", "invalid"}
  /\ target[o] # NoPacket /\ pc[o] \in {"ack_load", "ack_open", "ack_write", "ack_mark"}
       => claim[cl[o]].packet = target[o]

(* What a host knows at each step of an iteration. *)
AckPc == {"h_transition", "h_ack_load", "h_ack_open", "h_ack_write"}
HostInv(h) ==
  /\ pc[h] \in HostPc
  /\ pc[h] \notin {"idle", "dead", "hung"} => pkt[h] \in Packet
  /\ pc[h] \in {"idle", "dead", "hung", "h_open"} => cl[h] = NoClaim
  /\ pc[h] \notin {"idle", "dead", "hung", "h_open"} => cl[h] \in Claim /\ claim[cl[h]].status # "absent"
  /\ pc[h] \in WorkPc => row[pkt[h]] # "absent"
  /\ pc[h] \notin AckPc \cup {"h_record", "h_requeue"} => result[h] = NoPacket
  /\ pc[h] = "h_record" => result[h] \in Packet
  /\ pc[h] \in AckPc /\ result[h] \notin Unregistered \cup {NoPacket} => row[result[h]] # "absent"
  /\ pc[h] = "h_requeue" /\ result[h] # NoPacket => pkt[h] \in Untracked

ActorInv(a) == (a \in Operator => CommandInv(a)) /\ (a \in Host => HostInv(a))

(* A claim file that exists was recorded for a packet. *)
FilesRecorded == \A c \in Claim : claim[c].status # "absent" => claim[c].packet \in Packet

(* Nobody else has a claim file open that its creator has not yet written. *)
CreatorsAlone ==
  \A a \in Actor : pc[a] \in CreatorPc =>
    /\ claim[cl[a]].status = "empty"
    /\ \A b \in Actor \ {a} : cl[b] # cl[a]

AcknowledgedBacked ==
  \A p \in Packet : row[p] = "acknowledged" => \E c \in Claim : claim[c].packet = p /\ Over(c)

RuntimeInv ==
  /\ SystemTypeOK
  /\ \A a \in Actor : ActorInv(a)
  /\ FilesRecorded
  /\ CreatorsAlone
  /\ AcknowledgedBacked

-----------------------------------------------------------------------------
(* The account behind AtMostOneResultPerDelivery: each publish of a packet *)
(* is still on its queue, is being worked on by one host that has not      *)
(* answered yet, has been answered, or is gone.                            *)

HeldPc == {"h_open", "h_write", "h_mark", "h_resolve", "h_work", "h_publish"}

Held(p) == {h \in Host : pkt[h] = p /\ pc[h] \in HeldPc}
Answers(p) == {r \in Packet : source[r] = p}

PublishesAccounted ==
  \A p \in Packet :
    /\ IsFiniteSet(Held(p)) /\ IsFiniteSet(Answers(p))
    /\ Cardinality(Waiting(p)) + Cardinality(Held(p)) + Cardinality(Answers(p)) <= published[p]

=============================================================================
