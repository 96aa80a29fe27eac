--------------------------- MODULE PacketDelivery ---------------------------
(***************************************************************************)
(* What the packet runtime promises whoever sends a packet, without files, *)
(* SQL statements or the steps of a command: a packet that was put on a    *)
(* queue leaves it from the head, into the hands of one actor; from there  *)
(* it becomes one delivery or is lost; a delivery keeps its packet and,    *)
(* once it is over, is never open again; a packet is called acknowledged   *)
(* only when a delivery of it is over.                                     *)
(***************************************************************************)
EXTENDS Naturals, Sequences

CONSTANTS Packet, Queue, Home, Claim, Actor, NoPacket

VARIABLES
  queue,        \* what waits on each queue
  hand,         \* hand[a]: the packet an actor took and has not recorded
  delivery,     \* delivery[c]: the packet recorded under c, or NoPacket
  over,         \* the deliveries that are no longer open
  acknowledged  \* the packets called acknowledged

deliveryVars == <<queue, hand, delivery, over, acknowledged>>

Init ==
  /\ queue = [q \in Queue |-> <<>>]
  /\ hand = [a \in Actor |-> NoPacket]
  /\ delivery = [c \in Claim |-> NoPacket]
  /\ over = {}
  /\ acknowledged = {}

Put(p) ==
  /\ queue' = [queue EXCEPT ![Home[p]] = Append(@, p)]
  /\ UNCHANGED <<hand, delivery, over, acknowledged>>

(* The head goes to an actor whose hands are empty, or to nobody. *)
Take(a, q) ==
  /\ queue[q] # <<>>
  /\ hand[a] = NoPacket
  /\ queue' = [queue EXCEPT ![q] = Tail(@)]
  /\ \/ hand' = [hand EXCEPT ![a] = Head(queue[q])]
     \/ UNCHANGED hand
  /\ UNCHANGED <<delivery, over, acknowledged>>

Purge(q) ==
  /\ queue' = [queue EXCEPT ![q] = <<>>]
  /\ UNCHANGED <<hand, delivery, over, acknowledged>>

Record(a, c) ==
  /\ hand[a] # NoPacket
  /\ delivery[c] = NoPacket
  /\ hand' = [hand EXCEPT ![a] = NoPacket]
  /\ delivery' = [delivery EXCEPT ![c] = hand[a]]
  /\ UNCHANGED <<queue, over, acknowledged>>

Lose(a) ==
  /\ hand' = [hand EXCEPT ![a] = NoPacket]
  /\ UNCHANGED <<queue, delivery, over, acknowledged>>

Close(c) ==
  /\ delivery[c] # NoPacket
  /\ over' = over \cup {c}
  /\ UNCHANGED <<queue, hand, delivery, acknowledged>>

Acknowledge(p) ==
  /\ \E c \in over : delivery[c] = p
  /\ acknowledged' = acknowledged \cup {p}
  /\ UNCHANGED <<queue, hand, delivery, over>>

(* A claim that is reported late calls the packet claimed again. *)
Reclaim(p) ==
  /\ acknowledged' = acknowledged \ {p}
  /\ UNCHANGED <<queue, hand, delivery, over>>

Next ==
  \/ \E p \in Packet : Put(p) \/ Acknowledge(p) \/ Reclaim(p)
  \/ \E q \in Queue : Purge(q)
  \/ \E a \in Actor : Lose(a) \/ \E q \in Queue : Take(a, q)
  \/ \E c \in Claim : Close(c) \/ \E a \in Actor : Record(a, c)

Spec == Init /\ [][Next]_deliveryVars

=============================================================================
