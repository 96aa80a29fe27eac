------------------------- MODULE RuntimeSystem_proofs -------------------------
(***************************************************************************)
(* Proofs about the queue runtime, in two parts: first the operator        *)
(* commands over the transport state by themselves (AdminSpec), what each  *)
(* effect does to the state, one lemma per action and the theorems; then   *)
(* the hosts and the commands together (SystemSpec), whose proofs use the  *)
(* lemmas of the first part.                                               *)
(***************************************************************************)
EXTENDS RuntimeSystem, FiniteSetTheorems, TLAPS

-----------------------------------------------------------------------------
(* The operator commands by themselves: what their effects do. *)

BrokerTypeOK == queue \in [Queue -> Seq(Packet)] /\ published \in [Packet -> Nat]
LedgerTypeOK == claim \in [Claim -> ClaimRecord]

(* Publishing a packet keeps the broker state well-typed. *)
LEMMA PublishEffect ==
  ASSUME BrokerTypeOK, NEW p \in Packet, Publish(p)
  PROVE  BrokerTypeOK'
<1>1. Home[p] \in Queue
  BY TransportAssumption
<1>2. Append(queue[Home[p]], p) \in Seq(Packet)
  BY <1>1 DEF BrokerTypeOK
<1>3. QED
  BY <1>1, <1>2 DEF BrokerTypeOK, Publish

(* Taking the head of a queue keeps the broker state well-typed, and the   *)
(* head is a packet.                                                       *)
LEMMA PopEffect ==
  ASSUME BrokerTypeOK, NEW q \in Queue, Pop(q)
  PROVE  BrokerTypeOK' /\ Head(queue[q]) \in Packet
<1>1. queue[q] \in Seq(Packet) /\ queue[q] # <<>>
  BY DEF BrokerTypeOK, Pop
<1>2. Tail(queue[q]) \in Seq(Packet) /\ Head(queue[q]) \in Packet
  BY <1>1
<1>3. QED
  BY <1>2 DEF BrokerTypeOK, Pop

(* A claim file is created where there was none, and no other one changes. *)
LEMMA CreateFileEffect ==
  ASSUME LedgerTypeOK, NEW c \in Claim, NEW p \in Packet, CreateFile(c, p, TRUE)
  PROVE  /\ LedgerTypeOK'
         /\ claim[c].status = "absent"
         /\ claim'[c] = [status |-> "empty", packet |-> p, envelope |-> TRUE]
         /\ \A d \in Claim \ {c} : claim'[d] = claim[d]
BY DEF LedgerTypeOK, CreateFile, ClaimRecord, ClaimStatus

(* Truncating or writing a claim file changes its status and nothing else. *)
OnlyStatusOf(c) ==
  /\ claim'[c].packet = claim[c].packet
  /\ claim'[c].envelope = claim[c].envelope
  /\ \A d \in Claim \ {c} : claim'[d] = claim[d]

(* Assigning the status of one claim file is all a file write does.         *)
LEMMA StatusEffect ==
  ASSUME LedgerTypeOK, NEW c \in Claim, NEW status \in ClaimStatus,
         claim' = [claim EXCEPT ![c].status = status]
  PROVE  LedgerTypeOK' /\ claim'[c].status = status /\ OnlyStatusOf(c)
BY DEF LedgerTypeOK, ClaimRecord, OnlyStatusOf

(* open(path, 'w') empties one claim file.                                  *)
LEMMA TruncateEffect ==
  ASSUME LedgerTypeOK, NEW c \in Claim, Truncate(c)
  PROVE  LedgerTypeOK' /\ claim'[c].status = "empty" /\ OnlyStatusOf(c)
BY StatusEffect DEF Truncate, ClaimStatus

(* The outcome is torn only if another writer got there first. *)
LEMMA WriteFileEffect ==
  ASSUME LedgerTypeOK, NEW c \in Claim, NEW status \in ClaimStatus, WriteFile(c, status)
  PROVE  /\ LedgerTypeOK'
         /\ claim'[c].status \in {status, "torn"}
         /\ claim[c].status = "empty" => claim'[c].status = status
         /\ OnlyStatusOf(c)
<1>1. PICK written \in {status} \cup (IF claim[c].status = "empty" THEN {} ELSE {"torn"}) :
        claim' = [claim EXCEPT ![c].status = written]
  BY DEF WriteFile
<1>2. written \in ClaimStatus
  BY <1>1 DEF ClaimStatus
<1>3. QED
  BY <1>1, <1>2, StatusEffect

(* The locals of the operators. *)
LocalTypeOK ==
  /\ pc \in [Actor -> OperatorPc]
  /\ pkt \in [Actor -> Packet \cup {NoPacket}]
  /\ cl \in [Actor -> Claim \cup {NoClaim}]
  /\ target \in [Operator -> Packet \cup {NoPacket}]

SameLocals(a) == pc'[a] = pc[a] /\ pkt'[a] = pkt[a] /\ cl'[a] = cl[a] /\ target'[a] = target[a]

(* A command that ends leaves nothing behind in its locals. *)
LEMMA ReturnEffect ==
  ASSUME LocalTypeOK, NEW o \in Operator, Return(o)
  PROVE  /\ LocalTypeOK'
         /\ pc'[o] = "idle" /\ cl'[o] = NoClaim /\ target'[o] = NoPacket
         /\ \A a \in Operator \ {o} : SameLocals(a)
BY QueueAdminAssumption DEF LocalTypeOK, Return, Finish, OperatorPc, SameLocals

(* A command that goes on changes its own locals only.                     *)
LEMMA GotoEffect ==
  ASSUME LocalTypeOK, NEW o \in Operator, NEW label \in OperatorPc, Goto(o, label),
         NEW p \in Packet \cup {NoPacket}, pkt' \in {pkt, [pkt EXCEPT ![o] = p]},
         NEW c \in Claim \cup {NoClaim}, cl' \in {cl, [cl EXCEPT ![o] = c]},
         UNCHANGED adminVars
  PROVE  LocalTypeOK' /\ pc'[o] = label /\ \A a \in Operator \ {o} : SameLocals(a)
BY QueueAdminAssumption DEF LocalTypeOK, Goto, SameLocals, adminVars

-----------------------------------------------------------------------------
(* What keeps the conjuncts of AdminInv that speak of all operators.       *)

(* A command without a claim points at no claim file.                       *)
LEMMA NoClaimIsNoClaim == NoClaim \notin Claim
BY TransportAssumption

(* The two parts of AdminInv about one operator. *)
OperatorInv(a) ==
  /\ LocalInv(a)
  /\ target[a] # NoPacket /\ pc[a] \in {"ack_load", "ack_open", "ack_write", "ack_mark"}
       => claim[cl[a]].packet = target[a]

(* AdminInv, put together from the parts the step lemmas establish.         *)
LEMMA InvFromParts ==
  ASSUME BrokerTypeOK', LedgerTypeOK', (row \in [Packet -> RowStatus])', LocalTypeOK',
         LedgerInv', CreatorInv', RowInv', \A a \in Operator : OperatorInv(a)'
  PROVE  AdminInv'
BY DEF AdminInv, AdminTypeOK, BrokerTypeOK, LedgerTypeOK, LocalTypeOK, OperatorInv,
       ReturnClosesOnlyItsAssignment

(* AdminInv, taken apart for the step lemmas.                               *)
LEMMA PartsFromInv ==
  ASSUME AdminInv
  PROVE  /\ BrokerTypeOK /\ LedgerTypeOK /\ row \in [Packet -> RowStatus] /\ LocalTypeOK
         /\ LedgerInv /\ CreatorInv /\ RowInv /\ \A a \in Operator : OperatorInv(a)
BY DEF AdminInv, AdminTypeOK, BrokerTypeOK, LedgerTypeOK, LocalTypeOK, OperatorInv,
       ReturnClosesOnlyItsAssignment

(* A step of o that touches no claim file.  It may point cl[o] at a file   *)
(* only if that file has been written, and acknowledge a row only if a     *)
(* closed claim backs it.                                                  *)
LEMMA NoFileStep ==
  ASSUME AdminInv, NEW o \in Operator,
         UNCHANGED claim,
         BrokerTypeOK', (row \in [Packet -> RowStatus])', LocalTypeOK',
         \A a \in Operator \ {o} : SameLocals(a),
         OperatorInv(o)',
         pc'[o] # "claim_write",
         cl'[o] = NoClaim \/ cl'[o] = cl[o] \/ claim[cl'[o]].status # "empty",
         \A p \in Packet : row'[p] = "acknowledged" =>
           row[p] = "acknowledged" \/ \E c \in Claim : claim[c].packet = p /\ Closed(c)
  PROVE  AdminInv'
<1>0. LedgerTypeOK /\ LocalTypeOK /\ LedgerInv /\ CreatorInv /\ RowInv /\ \A a \in Operator : OperatorInv(a)
  BY PartsFromInv
<1>1. LedgerTypeOK' /\ LedgerInv'
  BY <1>0 DEF LedgerTypeOK, LedgerInv
<1>2. ASSUME NEW a \in Operator PROVE OperatorInv(a)'
  <2>1. CASE a = o
    BY <2>1
  <2>2. CASE a # o
    BY <1>0, <2>2 DEF OperatorInv, LocalInv, SameLocals
  <2>3. QED
    BY <2>1, <2>2
<1>3. CreatorInv'
  <2>1. ASSUME NEW a \in Operator, pc'[a] = "claim_write", NEW b \in Operator \ {a}
        PROVE  claim'[cl'[a]].status = "empty" /\ cl'[b] # cl'[a]
    <3>1. a # o /\ pc[a] = "claim_write" /\ cl'[a] = cl[a]
      BY <2>1 DEF SameLocals
    <3>2. claim[cl[a]].status = "empty" /\ cl[b] # cl[a] /\ cl[a] \in Claim
      BY <1>0, <3>1, <2>1 DEF CreatorInv, OperatorInv, LocalInv, ClaimPc
    <3>3. cl'[b] # cl[a]
      BY <3>1, <3>2, NoClaimIsNoClaim DEF SameLocals
    <3>4. QED
      BY <3>1, <3>2, <3>3
  <2>2. ASSUME NEW a \in Operator, pc'[a] = "claim_write"
        PROVE  claim'[cl'[a]].status = "empty"
    BY <1>0, <2>2 DEF CreatorInv, SameLocals
  <2>3. QED
    BY <2>1, <2>2 DEF CreatorInv
<1>4. RowInv'
  <2>1. ASSUME NEW c \in Claim, Closed(c) PROVE Closed(c)'
    BY <2>1 DEF Closed, SameLocals
  <2>2. QED
    BY <1>0, <2>1 DEF RowInv
<1>5. QED
  BY <1>1, <1>2, <1>3, <1>4, InvFromParts

(* A step in which o truncates or writes the claim file it has loaded or   *)
(* created.  Only the creator may leave it open.                           *)
LEMMA FileStep ==
  ASSUME AdminInv, NEW o \in Operator, NEW c \in Claim, cl[o] = c,
         LedgerTypeOK', OnlyStatusOf(c),
         claim[c].status # "absent", claim'[c].status # "absent",
         pc[o] = "claim_write" \/ claim'[c].status \notin {"claimed", "invalid"},
         UNCHANGED <<queue, published, row>>,
         LocalTypeOK',
         \A a \in Operator \ {o} : SameLocals(a),
         OperatorInv(o)',
         pc'[o] # "claim_write",
         cl'[o] \in {c, NoClaim}
  PROVE  AdminInv'
<1>0. /\ BrokerTypeOK /\ LedgerTypeOK /\ row \in [Packet -> RowStatus] /\ LocalTypeOK
      /\ LedgerInv /\ CreatorInv /\ RowInv /\ \A a \in Operator : OperatorInv(a)
  BY PartsFromInv
<1>1. BrokerTypeOK' /\ (row \in [Packet -> RowStatus])' /\ LedgerInv'
  BY <1>0 DEF BrokerTypeOK, LedgerInv, OnlyStatusOf
<1>2. ASSUME NEW a \in Operator PROVE OperatorInv(a)'
  <2>1. CASE a = o
    BY <2>1
  <2>2. CASE a # o
    <3>1. SameLocals(a) /\ OperatorInv(a)
      BY <1>0, <2>2
    <3>2. pc[a] \in ClaimPc => claim'[cl[a]].packet = claim[cl[a]].packet /\ claim'[cl[a]].status # "absent"
      BY <3>1 DEF OperatorInv, LocalInv, OnlyStatusOf
    <3>3. pc[a] = "ack_mark" => claim'[cl[a]].status \notin {"absent", "claimed", "invalid"}
      <4>1. CASE pc[o] = "claim_write"
        BY <1>0, <2>2, <3>1, <4>1 DEF CreatorInv, OperatorInv, LocalInv, ClaimPc, OnlyStatusOf
      <4>2. CASE pc[o] # "claim_write"
        BY <3>1, <4>2 DEF OperatorInv, LocalInv, ClaimPc, OnlyStatusOf
      <4>3. QED
        BY <4>1, <4>2
    <3>4. QED
      BY <3>1, <3>2, <3>3 DEF OperatorInv, LocalInv, SameLocals, ClaimPc
  <2>3. QED
    BY <2>1, <2>2
<1>3. CreatorInv'
  <2>1. ASSUME NEW a \in Operator, pc'[a] = "claim_write"
        PROVE  claim'[cl'[a]].status = "empty" /\ \A b \in Operator \ {a} : cl'[b] # cl'[a]
    <3>1. a # o /\ pc[a] = "claim_write" /\ cl'[a] = cl[a]
      BY <2>1 DEF SameLocals
    <3>2. /\ claim[cl[a]].status = "empty" /\ cl[a] \in Claim
          /\ \A b \in Operator \ {a} : cl[b] # cl[a]
      BY <1>0, <3>1 DEF CreatorInv, OperatorInv, LocalInv, ClaimPc
    <3>3. claim'[cl[a]] = claim[cl[a]]
      BY <3>1, <3>2 DEF OnlyStatusOf
    <3>4. QED
      BY <3>1, <3>2, <3>3, NoClaimIsNoClaim DEF SameLocals
  <2>2. QED
    BY <2>1 DEF CreatorInv
<1>4. RowInv'
  <2>1. ASSUME NEW d \in Claim, Closed(d) PROVE Closed(d)' /\ claim'[d].packet = claim[d].packet
    <3>1. d = c => pc[o] # "claim_write"
      BY <2>1 DEF Closed
    <3>2. claim'[d].status \notin {"absent", "claimed", "invalid"}
      BY <2>1, <3>1 DEF Closed, OnlyStatusOf
    <3>3. QED
      BY <2>1, <3>2 DEF Closed, OnlyStatusOf, SameLocals
  <2>2. QED
    BY <1>0, <2>1 DEF RowInv
<1>5. QED
  BY <1>1, <1>2, <1>3, <1>4, InvFromParts

-----------------------------------------------------------------------------
(* One lemma per action. *)

(* Publishing a packet before its row exists. *)
LEMMA SendPublishKeeps ==
  ASSUME AdminInv, NEW o \in Operator, NEW p \in Packet, SendPublish(o, p)
  PROVE  AdminInv'
<1> USE QueueAdminAssumption
<1>0. /\ BrokerTypeOK /\ LedgerTypeOK /\ row \in [Packet -> RowStatus] /\ LocalTypeOK
      /\ LedgerInv /\ CreatorInv /\ RowInv /\ OperatorInv(o)
  BY PartsFromInv
<1>1. UNCHANGED claim /\ BrokerTypeOK'
  BY <1>0, PublishEffect DEF SendPublish
<1>2. (row \in [Packet -> RowStatus])'
  BY <1>0 DEF SendPublish
<1>3. LocalTypeOK' /\ pc'[o] # "claim_write" /\ \A a \in Operator \ {o} : SameLocals(a)
  BY <1>0 DEF SendPublish, Goto, SameLocals, adminVars, LocalTypeOK, OperatorPc
<1>4. OperatorInv(o)'
  BY <1>0 DEF SendPublish, Goto, adminVars, LocalTypeOK, OperatorInv, LocalInv, ClaimPc
<1>5. cl'[o] = NoClaim \/ cl'[o] = cl[o] \/ claim[cl'[o]].status # "empty"
  BY DEF SendPublish
<1>7. QED
  BY <1>0, <1>1, <1>2, <1>3, <1>4, <1>5, NoFileStep DEF SendPublish

(* Publishing a packet before its row exists. *)
LEMMA ReturnSendKeeps ==
  ASSUME AdminInv, NEW o \in Operator, NEW r \in Packet, NEW t \in Packet, ReturnSend(o, r, t)
  PROVE  AdminInv'
<1> USE QueueAdminAssumption
<1>0. /\ BrokerTypeOK /\ LedgerTypeOK /\ row \in [Packet -> RowStatus] /\ LocalTypeOK
      /\ LedgerInv /\ CreatorInv /\ RowInv /\ OperatorInv(o)
  BY PartsFromInv
<1>1. UNCHANGED claim /\ BrokerTypeOK'
  BY <1>0, PublishEffect DEF ReturnSend
<1>2. (row \in [Packet -> RowStatus])'
  BY <1>0 DEF ReturnSend
<1>3. LocalTypeOK' /\ pc'[o] # "claim_write" /\ \A a \in Operator \ {o} : SameLocals(a)
  BY <1>0 DEF ReturnSend, Goto, SameLocals, adminVars, LocalTypeOK, OperatorPc
<1>4. OperatorInv(o)'
  BY <1>0 DEF ReturnSend, Goto, adminVars, LocalTypeOK, OperatorInv, LocalInv, ClaimPc
<1>5. cl'[o] = NoClaim \/ cl'[o] = cl[o] \/ claim[cl'[o]].status # "empty"
  BY DEF ReturnSend
<1>7. QED
  BY <1>0, <1>1, <1>2, <1>3, <1>4, <1>5, NoFileStep DEF ReturnSend

(* Recording the send. *)
LEMMA SendRecordKeeps ==
  ASSUME AdminInv, NEW o \in Operator, SendRecord(o)
  PROVE  AdminInv'
<1> USE QueueAdminAssumption
<1>0. /\ BrokerTypeOK /\ LedgerTypeOK /\ row \in [Packet -> RowStatus] /\ LocalTypeOK
      /\ LedgerInv /\ CreatorInv /\ RowInv /\ OperatorInv(o)
  BY PartsFromInv
<1>1. UNCHANGED claim /\ BrokerTypeOK'
  BY <1>0 DEF SendRecord, BrokerTypeOK, brokerVars, localVars, adminVars
<1>2. (row \in [Packet -> RowStatus])'
  BY <1>0 DEF SendRecord, InsertRow, RowStatus
<1>3. LocalTypeOK' /\ pc'[o] # "claim_write" /\ \A a \in Operator \ {o} : SameLocals(a)
  <2>1. CASE target[o] = NoPacket
    BY <1>0, <2>1, ReturnEffect DEF SendRecord
  <2>2. CASE target[o] # NoPacket
    BY <1>0, <2>2, GotoEffect DEF SendRecord, OperatorPc, LocalTypeOK
  <2>3. QED
    BY <2>1, <2>2
<1>4. OperatorInv(o)'
  BY <1>0, ReturnEffect DEF SendRecord, Goto, adminVars, LocalTypeOK, OperatorInv, LocalInv, ClaimPc
<1>5. cl'[o] = NoClaim \/ cl'[o] = cl[o] \/ claim[cl'[o]].status # "empty"
  BY <1>0, ReturnEffect DEF SendRecord, adminVars
<1>6. \A p \in Packet : row'[p] = "acknowledged" => row[p] = "acknowledged"
  BY <1>0 DEF SendRecord, InsertRow
<1>7. QED
  BY <1>0, <1>1, <1>2, <1>3, <1>4, <1>5, <1>6, NoFileStep DEF SendRecord

(* The head leaves the queue and enters the command's hands.               *)
LEMMA TakeHeadKeeps ==
  ASSUME AdminInv, NEW o \in Operator, NEW q \in Queue, TakeHead(o, q),
         pc[o] \in {"idle", "ret_pop"}
  PROVE  AdminInv'
<1> USE QueueAdminAssumption
<1>0. /\ BrokerTypeOK /\ LedgerTypeOK /\ row \in [Packet -> RowStatus] /\ LocalTypeOK
      /\ LedgerInv /\ CreatorInv /\ RowInv /\ OperatorInv(o)
  BY PartsFromInv
<1>1. UNCHANGED claim /\ BrokerTypeOK'
  BY <1>0, PopEffect DEF TakeHead
<1>2. (row \in [Packet -> RowStatus])'
  BY <1>0 DEF TakeHead
<1>3. LocalTypeOK' /\ pc'[o] # "claim_write" /\ \A a \in Operator \ {o} : SameLocals(a)
  <2>1. CASE Head(queue[q]) \in Oversize
    BY <1>0, <2>1, ReturnEffect DEF TakeHead
  <2>2. CASE Head(queue[q]) \notin Oversize
    <3>1. Head(queue[q]) \in Packet
      BY <1>0, PopEffect DEF TakeHead
    <3>2. QED
      BY <1>0, <2>2, <3>1, GotoEffect DEF TakeHead, OperatorPc
  <2>3. QED
    BY <2>1, <2>2
<1>4. OperatorInv(o)'
  BY <1>0, PopEffect, ReturnEffect DEF TakeHead, Goto, adminVars, LocalTypeOK, OperatorInv, LocalInv, ClaimPc
<1>5. cl'[o] = NoClaim \/ cl'[o] = cl[o] \/ claim[cl'[o]].status # "empty"
  BY <1>0, ReturnEffect DEF TakeHead, adminVars
<1>7. QED
  BY <1>0, <1>1, <1>2, <1>3, <1>4, <1>5, NoFileStep DEF TakeHead

(* claim-next takes the head of a queue.                                    *)
LEMMA ClaimPopKeeps ==
  ASSUME AdminInv, NEW o \in Operator, NEW q \in Queue, ClaimPop(o, q)
  PROVE  AdminInv'
BY TakeHeadKeeps DEF ClaimPop

(* A role return claims the head of its assignment's queue. *)
LEMMA ReturnPopKeeps ==
  ASSUME AdminInv, NEW o \in Operator, ReturnPop(o)
  PROVE  AdminInv'
<1> USE QueueAdminAssumption
<1>0. /\ BrokerTypeOK /\ LedgerTypeOK /\ row \in [Packet -> RowStatus] /\ LocalTypeOK
      /\ LedgerInv /\ CreatorInv /\ RowInv /\ OperatorInv(o)
  BY PartsFromInv
<1>1. Home[target[o]] \in Queue
  BY <1>0, TransportAssumption DEF ReturnPop, OperatorInv, LocalInv
<1>2. CASE queue[Home[target[o]]] = <<>>
  <2>1. UNCHANGED <<queue, published, claim, row>> /\ Return(o)
    BY <1>2 DEF ReturnPop, brokerVars
  <2>2. LocalTypeOK' /\ pc'[o] = "idle" /\ cl'[o] = NoClaim /\ target'[o] = NoPacket
        /\ \A a \in Operator \ {o} : SameLocals(a)
    BY <1>0, <2>1, ReturnEffect
  <2>3. OperatorInv(o)'
    BY <2>2 DEF OperatorInv, LocalInv, ClaimPc
  <2>4. QED
    BY <1>0, <2>1, <2>2, <2>3, NoFileStep DEF BrokerTypeOK
<1>3. CASE queue[Home[target[o]]] # <<>>
  BY <1>1, <1>3, TakeHeadKeeps DEF ReturnPop
<1>4. QED
  BY <1>2, <1>3

(* Loading a claim record the operator named. *)
LEMMA AckLoadKeeps ==
  ASSUME AdminInv, NEW o \in Operator, NEW c \in Claim, AckLoad(o, c)
  PROVE  AdminInv'
<1> USE QueueAdminAssumption
<1>0. /\ BrokerTypeOK /\ LedgerTypeOK /\ row \in [Packet -> RowStatus] /\ LocalTypeOK
      /\ LedgerInv /\ CreatorInv /\ RowInv /\ OperatorInv(o)
  BY PartsFromInv
<1>1. UNCHANGED claim /\ BrokerTypeOK'
  BY <1>0 DEF AckLoad, BrokerTypeOK, brokerVars, localVars, adminVars
<1>2. (row \in [Packet -> RowStatus])'
  BY <1>0 DEF AckLoad
<1>3. LocalTypeOK' /\ pc'[o] # "claim_write" /\ \A a \in Operator \ {o} : SameLocals(a)
  BY <1>0 DEF AckLoad, LedgerInv, Load, Readable, Unreadable, Envelope, Goto, adminVars, SameLocals, LocalTypeOK, OperatorPc
<1>4. OperatorInv(o)'
  BY <1>0 DEF AckLoad, LedgerInv, Load, Readable, Unreadable, Envelope, Goto, adminVars, LocalTypeOK, OperatorInv, LocalInv, ClaimPc
<1>5. cl'[o] = NoClaim \/ cl'[o] = cl[o] \/ claim[cl'[o]].status # "empty"
  BY <1>0 DEF AckLoad, Load, Readable, Unreadable, LocalTypeOK
<1>7. QED
  BY <1>0, <1>1, <1>2, <1>3, <1>4, <1>5, NoFileStep DEF AckLoad

(* Loading a claim record the operator named. *)
LEMMA RequeueLoadKeeps ==
  ASSUME AdminInv, NEW o \in Operator, NEW c \in Claim, RequeueLoad(o, c)
  PROVE  AdminInv'
<1> USE QueueAdminAssumption
<1>0. /\ BrokerTypeOK /\ LedgerTypeOK /\ row \in [Packet -> RowStatus] /\ LocalTypeOK
      /\ LedgerInv /\ CreatorInv /\ RowInv /\ OperatorInv(o)
  BY PartsFromInv
<1>1. UNCHANGED claim /\ BrokerTypeOK'
  BY <1>0 DEF RequeueLoad, BrokerTypeOK, brokerVars, localVars, adminVars
<1>2. (row \in [Packet -> RowStatus])'
  BY <1>0 DEF RequeueLoad
<1>3. LocalTypeOK' /\ pc'[o] # "claim_write" /\ \A a \in Operator \ {o} : SameLocals(a)
  BY <1>0 DEF RequeueLoad, LedgerInv, Load, Readable, Unreadable, Envelope, Goto, adminVars, SameLocals, LocalTypeOK, OperatorPc
<1>4. OperatorInv(o)'
  BY <1>0 DEF RequeueLoad, LedgerInv, Load, Readable, Unreadable, Envelope, Goto, adminVars, LocalTypeOK, OperatorInv, LocalInv, ClaimPc
<1>5. cl'[o] = NoClaim \/ cl'[o] = cl[o] \/ claim[cl'[o]].status # "empty"
  BY <1>0 DEF RequeueLoad, Load, Readable, Unreadable, LocalTypeOK
<1>7. QED
  BY <1>0, <1>1, <1>2, <1>3, <1>4, <1>5, NoFileStep DEF RequeueLoad

(* Loading the claim record a role return found or made. *)
LEMMA ReturnAckLoadKeeps ==
  ASSUME AdminInv, NEW o \in Operator, ReturnAckLoad(o)
  PROVE  AdminInv'
<1> USE QueueAdminAssumption
<1>0. /\ BrokerTypeOK /\ LedgerTypeOK /\ row \in [Packet -> RowStatus] /\ LocalTypeOK
      /\ LedgerInv /\ CreatorInv /\ RowInv /\ OperatorInv(o)
  BY PartsFromInv
<1>1. UNCHANGED claim /\ BrokerTypeOK'
  BY <1>0 DEF ReturnAckLoad, BrokerTypeOK, brokerVars, localVars, adminVars
<1>2. (row \in [Packet -> RowStatus])'
  BY <1>0 DEF ReturnAckLoad
<1>3. LocalTypeOK' /\ pc'[o] # "claim_write" /\ \A a \in Operator \ {o} : SameLocals(a)
  <2>1. CASE Readable(cl[o])
    <3>1. cl[o] \in Claim /\ Envelope(cl[o]) \in Packet \cup {NoPacket}
      BY <1>0, <2>1 DEF ReturnAckLoad, LedgerInv, Readable, Unreadable, Envelope, OperatorInv, LocalInv, ClaimPc
    <3>2. QED
      BY <1>0, <2>1, <3>1, GotoEffect DEF ReturnAckLoad, Load, OperatorPc
  <2>2. CASE ~ Readable(cl[o])
    BY <1>0, <2>2, ReturnEffect DEF ReturnAckLoad
  <2>3. QED
    BY <2>1, <2>2
<1>4. OperatorInv(o)'
  BY <1>0, ReturnEffect DEF ReturnAckLoad, LedgerInv, Load, Readable, Unreadable, Envelope, Goto, adminVars, LocalTypeOK, OperatorInv, LocalInv, ClaimPc
<1>5. cl'[o] = NoClaim \/ cl'[o] = cl[o] \/ claim[cl'[o]].status # "empty"
  BY <1>0, ReturnEffect DEF ReturnAckLoad, Load, LocalTypeOK
<1>7. QED
  BY <1>0, <1>1, <1>2, <1>3, <1>4, <1>5, NoFileStep DEF ReturnAckLoad

(* Loading the claim record a role return found or made. *)
LEMMA ReturnRequeueLoadKeeps ==
  ASSUME AdminInv, NEW o \in Operator, ReturnRequeueLoad(o)
  PROVE  AdminInv'
<1> USE QueueAdminAssumption
<1>0. /\ BrokerTypeOK /\ LedgerTypeOK /\ row \in [Packet -> RowStatus] /\ LocalTypeOK
      /\ LedgerInv /\ CreatorInv /\ RowInv /\ OperatorInv(o)
  BY PartsFromInv
<1>1. UNCHANGED claim /\ BrokerTypeOK'
  BY <1>0 DEF ReturnRequeueLoad, BrokerTypeOK, brokerVars, localVars, adminVars
<1>2. (row \in [Packet -> RowStatus])'
  BY <1>0 DEF ReturnRequeueLoad
<1>3. LocalTypeOK' /\ pc'[o] # "claim_write" /\ \A a \in Operator \ {o} : SameLocals(a)
  <2>1. CASE Readable(cl[o])
    <3>1. cl[o] \in Claim /\ Envelope(cl[o]) \in Packet \cup {NoPacket}
      BY <1>0, <2>1 DEF ReturnRequeueLoad, LedgerInv, Readable, Unreadable, Envelope, OperatorInv, LocalInv, ClaimPc
    <3>2. QED
      BY <1>0, <2>1, <3>1, GotoEffect DEF ReturnRequeueLoad, Load, OperatorPc
  <2>2. CASE ~ Readable(cl[o])
    BY <1>0, <2>2, ReturnEffect DEF ReturnRequeueLoad
  <2>3. QED
    BY <2>1, <2>2
<1>4. OperatorInv(o)'
  BY <1>0, ReturnEffect DEF ReturnRequeueLoad, LedgerInv, Load, Readable, Unreadable, Envelope, Goto, adminVars, LocalTypeOK, OperatorInv, LocalInv, ClaimPc
<1>5. cl'[o] = NoClaim \/ cl'[o] = cl[o] \/ claim[cl'[o]].status # "empty"
  BY <1>0, ReturnEffect DEF ReturnRequeueLoad, Load, LocalTypeOK
<1>7. QED
  BY <1>0, <1>1, <1>2, <1>3, <1>4, <1>5, NoFileStep DEF ReturnRequeueLoad

(* A role return looks for the open claims of its assignment. *)
LEMMA ReturnListKeeps ==
  ASSUME AdminInv, NEW o \in Operator, ReturnList(o)
  PROVE  AdminInv'
<1> USE QueueAdminAssumption
<1>0. /\ BrokerTypeOK /\ LedgerTypeOK /\ row \in [Packet -> RowStatus] /\ LocalTypeOK
      /\ LedgerInv /\ CreatorInv /\ RowInv /\ OperatorInv(o)
  BY PartsFromInv
<1>1. UNCHANGED claim /\ BrokerTypeOK'
  BY <1>0 DEF ReturnList, BrokerTypeOK, brokerVars, localVars, adminVars
<1>2. (row \in [Packet -> RowStatus])'
  BY <1>0 DEF ReturnList
<1>3. LocalTypeOK' /\ pc'[o] # "claim_write" /\ \A a \in Operator \ {o} : SameLocals(a)
  BY <1>0, ReturnEffect DEF ReturnList, OpenClaimsOf, Goto, adminVars, SameLocals, LocalTypeOK, OperatorPc
<1>4. OperatorInv(o)'
  BY <1>0, ReturnEffect DEF ReturnList, OpenClaimsOf, Envelope, Goto, adminVars, LocalTypeOK, OperatorInv, LocalInv, ClaimPc
<1>5. cl'[o] = NoClaim \/ cl'[o] = cl[o] \/ claim[cl'[o]].status # "empty"
  BY <1>0, ReturnEffect DEF ReturnList, OpenClaimsOf, adminVars, LocalTypeOK
<1>7. QED
  BY <1>0, <1>1, <1>2, <1>3, <1>4, <1>5, NoFileStep DEF ReturnList

(* Publishing the retained envelope again. *)
LEMMA RequeuePublishKeeps ==
  ASSUME AdminInv, NEW o \in Operator, RequeuePublish(o)
  PROVE  AdminInv'
<1> USE QueueAdminAssumption
<1>0. /\ BrokerTypeOK /\ LedgerTypeOK /\ row \in [Packet -> RowStatus] /\ LocalTypeOK
      /\ LedgerInv /\ CreatorInv /\ RowInv /\ OperatorInv(o)
  BY PartsFromInv
<1>P. pkt[o] \in Packet
  BY <1>0 DEF RequeuePublish, LedgerInv, OperatorInv, LocalInv, ClaimPc
<1>1. UNCHANGED claim /\ BrokerTypeOK'
  BY <1>0, PublishEffect, <1>P DEF RequeuePublish, BrokerTypeOK, brokerVars, localVars, adminVars
<1>2. (row \in [Packet -> RowStatus])'
  BY <1>0 DEF RequeuePublish
<1>3. LocalTypeOK' /\ pc'[o] # "claim_write" /\ \A a \in Operator \ {o} : SameLocals(a)
  BY <1>0 DEF RequeuePublish, Goto, SameLocals, adminVars, LocalTypeOK, OperatorPc
<1>4. OperatorInv(o)'
  BY <1>0 DEF RequeuePublish, Goto, adminVars, LocalTypeOK, OperatorInv, LocalInv, ClaimPc
<1>5. cl'[o] = NoClaim \/ cl'[o] = cl[o] \/ claim[cl'[o]].status # "empty"
  BY DEF RequeuePublish
<1>7. QED
  BY <1>0, <1>1, <1>2, <1>3, <1>4, <1>5, NoFileStep DEF RequeuePublish

(* Marking the row claimed. *)
LEMMA ClaimMarkKeeps ==
  ASSUME AdminInv, NEW o \in Operator, ClaimMark(o)
  PROVE  AdminInv'
<1> USE QueueAdminAssumption
<1>0. /\ BrokerTypeOK /\ LedgerTypeOK /\ row \in [Packet -> RowStatus] /\ LocalTypeOK
      /\ LedgerInv /\ CreatorInv /\ RowInv /\ OperatorInv(o)
  BY PartsFromInv
<1>1. UNCHANGED claim /\ BrokerTypeOK'
  BY <1>0 DEF ClaimMark, BrokerTypeOK, brokerVars, localVars, adminVars
<1>2. (row \in [Packet -> RowStatus])'
  BY <1>0 DEF ClaimMark, UpdateRow, RowStatus
<1>3. LocalTypeOK' /\ pc'[o] # "claim_write" /\ \A a \in Operator \ {o} : SameLocals(a)
  <2>1. CASE target[o] = NoPacket
    BY <1>0, <2>1, ReturnEffect DEF ClaimMark
  <2>2. CASE target[o] # NoPacket
    <3> DEFINE label == IF pkt[o] = target[o] THEN "ack_load" ELSE "req_load"
    <3>1. label \in OperatorPc /\ Goto(o, label) /\ label # "claim_write"
      BY <2>2 DEF ClaimMark, OperatorPc
    <3>2. pkt' = pkt /\ cl' = cl /\ UNCHANGED adminVars
      BY <2>2 DEF ClaimMark
    <3>3. NoPacket \in Packet \cup {NoPacket} /\ NoClaim \in Claim \cup {NoClaim}
      OBVIOUS
    <3> HIDE DEF label
    <3>4. QED
      BY <1>0, <3>1, <3>2, <3>3, GotoEffect
  <2>3. QED
    BY <2>1, <2>2
<1>4. OperatorInv(o)'
  BY <1>0, ReturnEffect DEF ClaimMark, Goto, adminVars, LocalTypeOK, OperatorInv, LocalInv, ClaimPc
<1>5. cl'[o] = NoClaim \/ cl'[o] = cl[o] \/ claim[cl'[o]].status # "empty"
  BY <1>0, ReturnEffect DEF ClaimMark, adminVars
<1>6. \A p \in Packet : row'[p] = "acknowledged" => row[p] = "acknowledged"
  BY <1>0 DEF ClaimMark, UpdateRow
<1>7. QED
  BY <1>0, <1>1, <1>2, <1>3, <1>4, <1>5, <1>6, NoFileStep DEF ClaimMark

(* Marking the row acknowledged: the claim just written backs it. *)
LEMMA AckMarkKeeps ==
  ASSUME AdminInv, NEW o \in Operator, AckMark(o)
  PROVE  AdminInv'
<1> USE QueueAdminAssumption
<1>0. /\ BrokerTypeOK /\ LedgerTypeOK /\ row \in [Packet -> RowStatus] /\ LocalTypeOK
      /\ LedgerInv /\ CreatorInv /\ RowInv /\ OperatorInv(o)
  BY PartsFromInv
<1>1. UNCHANGED claim /\ BrokerTypeOK'
  BY <1>0 DEF AckMark, BrokerTypeOK, brokerVars, localVars, adminVars
<1>2. (row \in [Packet -> RowStatus])'
  BY <1>0 DEF AckMark, UpdateRow, RowStatus
<1>3. LocalTypeOK' /\ pc'[o] # "claim_write" /\ \A a \in Operator \ {o} : SameLocals(a)
  BY <1>0, ReturnEffect DEF AckMark
<1>4. OperatorInv(o)'
  BY <1>0, ReturnEffect DEF AckMark, OperatorInv, LocalInv, ClaimPc
<1>5. cl'[o] = NoClaim \/ cl'[o] = cl[o] \/ claim[cl'[o]].status # "empty"
  BY <1>0, ReturnEffect DEF AckMark
<1>6. \A p \in Packet : row'[p] = "acknowledged" =>
        row[p] = "acknowledged" \/ \E c \in Claim : claim[c].packet = p /\ Closed(c)
  <2>1. cl[o] \in Claim /\ claim[cl[o]].packet = pkt[o] /\ claim[cl[o]].status \notin {"absent", "claimed", "invalid"}
    BY <1>0 DEF AckMark, OperatorInv, LocalInv, ClaimPc
  <2>2. \A a \in Operator : pc[a] = "claim_write" => cl[a] # cl[o]
    BY <1>0 DEF AckMark, CreatorInv
  <2>3. Closed(cl[o])
    BY <2>1, <2>2 DEF Closed
  <2>4. QED
    BY <1>0, <2>1, <2>3 DEF AckMark, UpdateRow
<1>7. QED
  BY <1>0, <1>1, <1>2, <1>3, <1>4, <1>5, <1>6, NoFileStep DEF AckMark

(* The update of the row is rejected. *)
LEMMA RequeueMarkKeeps ==
  ASSUME AdminInv, NEW o \in Operator, RequeueMark(o)
  PROVE  AdminInv'
<1> USE QueueAdminAssumption
<1>0. /\ BrokerTypeOK /\ LedgerTypeOK /\ row \in [Packet -> RowStatus] /\ LocalTypeOK
      /\ LedgerInv /\ CreatorInv /\ RowInv /\ OperatorInv(o)
  BY PartsFromInv
<1>1. UNCHANGED claim /\ BrokerTypeOK'
  BY <1>0 DEF RequeueMark, BrokerTypeOK, brokerVars, localVars, adminVars
<1>2. (row \in [Packet -> RowStatus])'
  BY <1>0 DEF RequeueMark
<1>3. LocalTypeOK' /\ pc'[o] # "claim_write" /\ \A a \in Operator \ {o} : SameLocals(a)
  BY <1>0, ReturnEffect DEF RequeueMark
<1>4. OperatorInv(o)'
  BY <1>0, ReturnEffect DEF RequeueMark, OperatorInv, LocalInv, ClaimPc
<1>5. cl'[o] = NoClaim \/ cl'[o] = cl[o] \/ claim[cl'[o]].status # "empty"
  BY <1>0, ReturnEffect DEF RequeueMark
<1>7. QED
  BY <1>0, <1>1, <1>2, <1>3, <1>4, <1>5, NoFileStep DEF RequeueMark

(* A statement fails. *)
LEMMA DbFailsKeeps ==
  ASSUME AdminInv, NEW o \in Operator, DbFails(o)
  PROVE  AdminInv'
<1> USE QueueAdminAssumption
<1>0. /\ BrokerTypeOK /\ LedgerTypeOK /\ row \in [Packet -> RowStatus] /\ LocalTypeOK
      /\ LedgerInv /\ CreatorInv /\ RowInv /\ OperatorInv(o)
  BY PartsFromInv
<1>1. UNCHANGED claim /\ BrokerTypeOK'
  BY <1>0 DEF DbFails, BrokerTypeOK, brokerVars, localVars, adminVars
<1>2. (row \in [Packet -> RowStatus])'
  BY <1>0 DEF DbFails
<1>3. LocalTypeOK' /\ pc'[o] # "claim_write" /\ \A a \in Operator \ {o} : SameLocals(a)
  BY <1>0, ReturnEffect DEF DbFails
<1>4. OperatorInv(o)'
  BY <1>0, ReturnEffect DEF DbFails, OperatorInv, LocalInv, ClaimPc
<1>5. cl'[o] = NoClaim \/ cl'[o] = cl[o] \/ claim[cl'[o]].status # "empty"
  BY <1>0, ReturnEffect DEF DbFails
<1>7. QED
  BY <1>0, <1>1, <1>2, <1>3, <1>4, <1>5, NoFileStep DEF DbFails

(* The command dies. *)
LEMMA CrashKeeps ==
  ASSUME AdminInv, NEW o \in Operator, Crash(o)
  PROVE  AdminInv'
<1> USE QueueAdminAssumption
<1>0. /\ BrokerTypeOK /\ LedgerTypeOK /\ row \in [Packet -> RowStatus] /\ LocalTypeOK
      /\ LedgerInv /\ CreatorInv /\ RowInv /\ OperatorInv(o)
  BY PartsFromInv
<1>1. UNCHANGED claim /\ BrokerTypeOK'
  BY <1>0 DEF Crash, BrokerTypeOK, brokerVars, localVars, adminVars
<1>2. (row \in [Packet -> RowStatus])'
  BY <1>0 DEF Crash
<1>3. LocalTypeOK' /\ pc'[o] # "claim_write" /\ \A a \in Operator \ {o} : SameLocals(a)
  BY <1>0, ReturnEffect DEF Crash
<1>4. OperatorInv(o)'
  BY <1>0, ReturnEffect DEF Crash, OperatorInv, LocalInv, ClaimPc
<1>5. cl'[o] = NoClaim \/ cl'[o] = cl[o] \/ claim[cl'[o]].status # "empty"
  BY <1>0, ReturnEffect DEF Crash
<1>7. QED
  BY <1>0, <1>1, <1>2, <1>3, <1>4, <1>5, NoFileStep DEF Crash

(* Opening the claim file for writing truncates it. *)
LEMMA AckOpenKeeps ==
  ASSUME AdminInv, NEW o \in Operator, AckOpen(o)
  PROVE  AdminInv'
<1> USE QueueAdminAssumption
<1>0. /\ BrokerTypeOK /\ LedgerTypeOK /\ row \in [Packet -> RowStatus] /\ LocalTypeOK
      /\ LedgerInv /\ CreatorInv /\ RowInv /\ OperatorInv(o)
  BY PartsFromInv
<1>1. cl[o] \in Claim /\ claim[cl[o]].status # "absent"
  BY <1>0 DEF AckOpen, OperatorInv, LocalInv, ClaimPc
<1>2. LedgerTypeOK' /\ OnlyStatusOf(cl[o]) /\ claim'[cl[o]].status = "empty"
  BY <1>0, <1>1, TruncateEffect DEF AckOpen, LedgerTypeOK
<1>3. LocalTypeOK' /\ pc'[o] # "claim_write" /\ cl'[o] \in {cl[o], NoClaim}
      /\ \A a \in Operator \ {o} : SameLocals(a)
  BY <1>0, ReturnEffect DEF AckOpen, Goto, SameLocals, adminVars, LocalTypeOK, OperatorPc
<1>4. OperatorInv(o)'
  BY <1>0, <1>1, <1>2, ReturnEffect DEF AckOpen, Goto, adminVars, OnlyStatusOf, LocalTypeOK, OperatorInv, LocalInv, ClaimPc
<1>5. UNCHANGED <<queue, published, row>>
  BY DEF AckOpen, brokerVars
<1>6. QED
  BY <1>1, <1>2, <1>3, <1>4, <1>5, FileStep DEF AckOpen

(* Opening the claim file for writing truncates it. *)
LEMMA RequeueOpenKeeps ==
  ASSUME AdminInv, NEW o \in Operator, RequeueOpen(o)
  PROVE  AdminInv'
<1> USE QueueAdminAssumption
<1>0. /\ BrokerTypeOK /\ LedgerTypeOK /\ row \in [Packet -> RowStatus] /\ LocalTypeOK
      /\ LedgerInv /\ CreatorInv /\ RowInv /\ OperatorInv(o)
  BY PartsFromInv
<1>1. cl[o] \in Claim /\ claim[cl[o]].status # "absent"
  BY <1>0 DEF RequeueOpen, OperatorInv, LocalInv, ClaimPc
<1>2. LedgerTypeOK' /\ OnlyStatusOf(cl[o]) /\ claim'[cl[o]].status = "empty"
  BY <1>0, <1>1, TruncateEffect DEF RequeueOpen, LedgerTypeOK
<1>3. LocalTypeOK' /\ pc'[o] # "claim_write" /\ cl'[o] \in {cl[o], NoClaim}
      /\ \A a \in Operator \ {o} : SameLocals(a)
  BY <1>0, ReturnEffect DEF RequeueOpen, Goto, SameLocals, adminVars, LocalTypeOK, OperatorPc
<1>4. OperatorInv(o)'
  BY <1>0, <1>1, <1>2, ReturnEffect DEF RequeueOpen, Goto, adminVars, OnlyStatusOf, LocalTypeOK, OperatorInv, LocalInv, ClaimPc
<1>5. UNCHANGED <<queue, published, row>>
  BY DEF RequeueOpen, brokerVars
<1>6. QED
  BY <1>1, <1>2, <1>3, <1>4, <1>5, FileStep DEF RequeueOpen

(* Writing the claim back as done. *)
LEMMA AckWriteKeeps ==
  ASSUME AdminInv, NEW o \in Operator, AckWrite(o)
  PROVE  AdminInv'
<1> USE QueueAdminAssumption
<1>0. /\ BrokerTypeOK /\ LedgerTypeOK /\ row \in [Packet -> RowStatus] /\ LocalTypeOK
      /\ LedgerInv /\ CreatorInv /\ RowInv /\ OperatorInv(o)
  BY PartsFromInv
<1>1. cl[o] \in Claim /\ claim[cl[o]].status # "absent"
  BY <1>0 DEF AckWrite, OperatorInv, LocalInv, ClaimPc
<1>2. LedgerTypeOK' /\ OnlyStatusOf(cl[o]) /\ claim'[cl[o]].status \in {"done", "torn"}
  BY <1>0, <1>1, WriteFileEffect DEF AckWrite, ClaimStatus
<1>3. LocalTypeOK' /\ pc'[o] # "claim_write" /\ cl'[o] \in {cl[o], NoClaim}
      /\ \A a \in Operator \ {o} : SameLocals(a)
  BY <1>0, ReturnEffect DEF AckWrite, Goto, SameLocals, adminVars, LocalTypeOK, OperatorPc
<1>4. OperatorInv(o)'
  BY <1>0, <1>1, <1>2, ReturnEffect DEF AckWrite, Goto, adminVars, OnlyStatusOf, LocalTypeOK, OperatorInv, LocalInv, ClaimPc
<1>5. UNCHANGED <<queue, published, row>>
  BY DEF AckWrite, brokerVars
<1>6. QED
  BY <1>1, <1>2, <1>3, <1>4, <1>5, FileStep DEF AckWrite

(* Writing the claim back as requeued. *)
LEMMA RequeueWriteKeeps ==
  ASSUME AdminInv, NEW o \in Operator, RequeueWrite(o)
  PROVE  AdminInv'
<1> USE QueueAdminAssumption
<1>0. /\ BrokerTypeOK /\ LedgerTypeOK /\ row \in [Packet -> RowStatus] /\ LocalTypeOK
      /\ LedgerInv /\ CreatorInv /\ RowInv /\ OperatorInv(o)
  BY PartsFromInv
<1>1. cl[o] \in Claim /\ claim[cl[o]].status # "absent"
  BY <1>0 DEF RequeueWrite, OperatorInv, LocalInv, ClaimPc
<1>2. LedgerTypeOK' /\ OnlyStatusOf(cl[o]) /\ claim'[cl[o]].status \in {"requeued", "torn"}
  BY <1>0, <1>1, WriteFileEffect DEF RequeueWrite, ClaimStatus
<1>3. LocalTypeOK' /\ pc'[o] # "claim_write" /\ cl'[o] \in {cl[o], NoClaim}
      /\ \A a \in Operator \ {o} : SameLocals(a)
  BY <1>0, ReturnEffect DEF RequeueWrite, Goto, SameLocals, adminVars, LocalTypeOK, OperatorPc
<1>4. OperatorInv(o)'
  BY <1>0, <1>1, <1>2, ReturnEffect DEF RequeueWrite, Goto, adminVars, OnlyStatusOf, LocalTypeOK, OperatorInv, LocalInv, ClaimPc
<1>5. UNCHANGED <<queue, published, row>>
  BY DEF RequeueWrite, brokerVars
<1>6. QED
  BY <1>1, <1>2, <1>3, <1>4, <1>5, FileStep DEF RequeueWrite

(* The creator of a claim file writes it. *)
LEMMA ClaimWriteKeeps ==
  ASSUME AdminInv, NEW o \in Operator, ClaimWrite(o)
  PROVE  AdminInv'
<1> USE QueueAdminAssumption
<1>0. /\ BrokerTypeOK /\ LedgerTypeOK /\ row \in [Packet -> RowStatus] /\ LocalTypeOK
      /\ LedgerInv /\ CreatorInv /\ RowInv /\ OperatorInv(o)
  BY PartsFromInv
<1>1. cl[o] \in Claim /\ claim[cl[o]].status # "absent"
  BY <1>0 DEF ClaimWrite, OperatorInv, LocalInv, ClaimPc
<1>2. LedgerTypeOK' /\ OnlyStatusOf(cl[o]) /\ claim'[cl[o]].status \in {"claimed", "invalid", "torn"}
  BY <1>0, <1>1, WriteFileEffect DEF ClaimWrite, ClaimStatus
<1>3. LocalTypeOK' /\ pc'[o] # "claim_write" /\ cl'[o] \in {cl[o], NoClaim}
      /\ \A a \in Operator \ {o} : SameLocals(a)
  <2>1. CASE Return(o)
    BY <1>0, <2>1, ReturnEffect
  <2>2. CASE Goto(o, "claim_mark") /\ UNCHANGED <<pkt, cl, adminVars>>
    BY <1>0, <2>2, GotoEffect DEF OperatorPc
  <2>3. QED
    BY <2>1, <2>2 DEF ClaimWrite
<1>4. OperatorInv(o)'
  BY <1>0, <1>1, <1>2, ReturnEffect DEF ClaimWrite, Goto, adminVars, OnlyStatusOf, LocalTypeOK, OperatorInv, LocalInv, ClaimPc
<1>5. UNCHANGED <<queue, published, row>>
  BY DEF ClaimWrite, brokerVars
<1>6. QED
  BY <1>1, <1>2, <1>3, <1>4, <1>5, FileStep DEF ClaimWrite

(* A claim file is created: nobody else can know its name. *)
LEMMA ClaimOpenKeeps ==
  ASSUME AdminInv, NEW o \in Operator, NEW c \in Claim, ClaimOpen(o, c)
  PROVE  AdminInv'
<1> USE QueueAdminAssumption
<1>0. /\ BrokerTypeOK /\ LedgerTypeOK /\ row \in [Packet -> RowStatus] /\ LocalTypeOK
      /\ LedgerInv /\ CreatorInv /\ RowInv /\ OperatorInv(o)
  BY PartsFromInv
<1>1. pkt[o] \in Packet /\ pc[o] = "claim_open"
  BY <1>0 DEF ClaimOpen, OperatorInv, LocalInv
<1>2. /\ LedgerTypeOK' /\ claim[c].status = "absent"
      /\ claim'[c] = [status |-> "empty", packet |-> pkt[o], envelope |-> TRUE]
      /\ \A d \in Claim \ {c} : claim'[d] = claim[d]
  BY <1>0, <1>1, CreateFileEffect DEF ClaimOpen
<1>3. /\ LocalTypeOK' /\ pc'[o] = "claim_write" /\ cl'[o] = c /\ pkt'[o] = pkt[o] /\ target'[o] = target[o]
      /\ \A a \in Operator \ {o} : SameLocals(a)
  BY <1>0 DEF ClaimOpen, Goto, SameLocals, adminVars, LocalTypeOK, OperatorPc
<1>4. BrokerTypeOK' /\ (row \in [Packet -> RowStatus])' /\ row' = row
  BY <1>0 DEF ClaimOpen, BrokerTypeOK, brokerVars
<1>5. LedgerInv'
  BY <1>0, <1>1, <1>2 DEF LedgerInv
<1>6. \A a \in Operator \ {o} : cl[a] # c
  BY <1>2, PartsFromInv, NoClaimIsNoClaim DEF OperatorInv, LocalInv
<1>7. ASSUME NEW a \in Operator PROVE OperatorInv(a)'
  <2>1. CASE a = o
    BY <1>1, <1>2, <1>3, <2>1 DEF OperatorInv, LocalInv, ClaimPc
  <2>2. CASE a # o
    <3>1. OperatorInv(a) /\ SameLocals(a) /\ cl[a] # c
      BY <1>3, <1>6, <2>2, PartsFromInv
    <3>2. pc[a] \in ClaimPc => claim'[cl[a]] = claim[cl[a]]
      BY <1>2, <3>1 DEF OperatorInv, LocalInv
    <3>3. QED
      BY <3>1, <3>2 DEF OperatorInv, LocalInv, SameLocals, ClaimPc
  <2>3. QED
    BY <2>1, <2>2
<1>8. CreatorInv'
  <2>1. ASSUME NEW a \in Operator, pc'[a] = "claim_write"
        PROVE  claim'[cl'[a]].status = "empty" /\ \A b \in Operator \ {a} : cl'[b] # cl'[a]
    <3>1. CASE a = o
      BY <1>2, <1>3, <1>6, <3>1 DEF SameLocals
    <3>2. CASE a # o
      <4>1. /\ pc[a] = "claim_write" /\ cl'[a] = cl[a] /\ cl[a] # c /\ cl[a] \in Claim
            /\ claim[cl[a]].status = "empty" /\ \A b \in Operator \ {a} : cl[b] # cl[a]
        BY <1>0, <1>3, <1>6, <2>1, <3>2, PartsFromInv DEF SameLocals, CreatorInv, OperatorInv, LocalInv, ClaimPc
      <4>2. QED
        BY <1>2, <1>3, <4>1 DEF SameLocals
    <3>3. QED
      BY <3>1, <3>2
  <2>2. QED
    BY <2>1 DEF CreatorInv
<1>9. RowInv'
  <2>1. ASSUME NEW d \in Claim, Closed(d) PROVE Closed(d)' /\ claim'[d].packet = claim[d].packet
    <3>1. d # c
      BY <1>2, <2>1 DEF Closed
    <3>2. QED
      BY <1>2, <1>3, <2>1, <3>1 DEF Closed, SameLocals
  <2>2. QED
    BY <1>0, <1>4, <2>1 DEF RowInv
<1>10. QED
  BY <1>2, <1>3, <1>4, <1>5, <1>7, <1>8, <1>9, InvFromParts

-----------------------------------------------------------------------------
(* No operator moves in a purge or in a foreign publish.                   *)
LEMMA BrokerOnlyKeeps ==
  ASSUME AdminInv, BrokerTypeOK', UNCHANGED <<claim, row, localVars, adminVars>>
  PROVE  AdminInv'
<1>1. LedgerTypeOK' /\ (row \in [Packet -> RowStatus])' /\ LocalTypeOK' /\ LedgerInv' /\ CreatorInv'
  BY PartsFromInv DEF LedgerTypeOK, LocalTypeOK, LedgerInv, CreatorInv, localVars, adminVars
<1>2. RowInv' /\ \A a \in Operator : OperatorInv(a)'
  BY PartsFromInv DEF RowInv, Closed, OperatorInv, LocalInv, localVars, adminVars
<1>3. QED
  BY <1>1, <1>2, InvFromParts

(* An empty broker, ledger and database with every command at rest.         *)
LEMMA AdminInit_Inv == AdminSystemInit => AdminInv
<1> SUFFICES ASSUME AdminSystemInit PROVE AdminInv
  OBVIOUS
<1> USE TransportAssumption, QueueAdminAssumption
<1>1. AdminTypeOK
  BY DEF AdminSystemInit, TransportInit, AdminInit, AdminTypeOK, NoRecord, ClaimRecord, ClaimStatus,
         RowStatus, OperatorPc
<1>2. LedgerInv /\ CreatorInv /\ RowInv /\ ReturnClosesOnlyItsAssignment
  BY DEF AdminSystemInit, TransportInit, AdminInit, LedgerInv, CreatorInv, RowInv, NoRecord,
         ReturnClosesOnlyItsAssignment
<1>3. \A o \in Operator : LocalInv(o)
  BY DEF AdminSystemInit, TransportInit, AdminInit, LocalInv, ClaimPc
<1>4. QED
  BY <1>1, <1>2, <1>3 DEF AdminInv

(* One step per action. *)
LEMMA OperatorStepKeeps ==
  ASSUME AdminInv, NEW o \in Operator, OperatorStep(o)
  PROVE  AdminInv'
<1>1. CASE \E p \in Packet : SendPublish(o, p)
  BY <1>1, SendPublishKeeps
<1>2. CASE \E r, t \in Packet : ReturnSend(o, r, t)
  BY <1>2, ReturnSendKeeps
<1>3. CASE \E q \in Queue : ClaimPop(o, q)
  BY <1>3, ClaimPopKeeps
<1>4. CASE \E c \in Claim : ClaimOpen(o, c) \/ AckLoad(o, c) \/ RequeueLoad(o, c)
  BY <1>4, ClaimOpenKeeps, AckLoadKeeps, RequeueLoadKeeps
<1>5. CASE SendRecord(o) \/ ClaimWrite(o) \/ ClaimMark(o)
  BY <1>5, SendRecordKeeps, ClaimWriteKeeps, ClaimMarkKeeps
<1>6. CASE ReturnAckLoad(o) \/ AckOpen(o) \/ AckWrite(o) \/ AckMark(o)
  BY <1>6, ReturnAckLoadKeeps, AckOpenKeeps, AckWriteKeeps, AckMarkKeeps
<1>7. CASE ReturnRequeueLoad(o) \/ RequeuePublish(o) \/ RequeueOpen(o)
  BY <1>7, ReturnRequeueLoadKeeps, RequeuePublishKeeps, RequeueOpenKeeps
<1>8. CASE RequeueWrite(o) \/ RequeueMark(o)
  BY <1>8, RequeueWriteKeeps, RequeueMarkKeeps
<1>9. CASE ReturnList(o) \/ ReturnPop(o) \/ DbFails(o) \/ Crash(o)
  BY <1>9, ReturnListKeeps, ReturnPopKeeps, DbFailsKeeps, CrashKeeps
<1>10. QED
  BY <1>1, <1>2, <1>3, <1>4, <1>5, <1>6, <1>7, <1>8, <1>9 DEF OperatorStep

(* No operator command, and no step of the environment, breaks AdminInv.    *)
LEMMA AdminStep_Inv == AdminInv /\ [AdminStep]_adminSystemVars => AdminInv'
<1> SUFFICES ASSUME AdminInv, [AdminStep]_adminSystemVars PROVE AdminInv'
  OBVIOUS
<1>0. BrokerTypeOK
  BY PartsFromInv
<1>1. CASE \E o \in Operator : OperatorStep(o)
  BY <1>1, OperatorStepKeeps
<1>2. CASE \E q \in Queue : Purge(q)
  <2>1. BrokerTypeOK'
    BY <1>0, <1>2 DEF Purge, BrokerTypeOK
  <2>2. QED
    BY <1>2, <2>1, BrokerOnlyKeeps DEF Purge
<1>3. CASE \E p \in Packet : ForeignPublish(p)
  <2>1. BrokerTypeOK'
    BY <1>0, <1>3, PublishEffect DEF ForeignPublish
  <2>2. QED
    BY <1>3, <2>1, BrokerOnlyKeeps DEF ForeignPublish
<1>4. CASE UNCHANGED adminSystemVars
  <2>1. BrokerTypeOK'
    BY <1>0, <1>4 DEF BrokerTypeOK, adminSystemVars, transportVars
  <2>2. QED
    BY <1>4, <2>1, BrokerOnlyKeeps DEF adminSystemVars, transportVars, localVars
<1>5. QED
  BY <1>1, <1>2, <1>3, <1>4 DEF AdminStep

-----------------------------------------------------------------------------
(* AdminInv is an invariant of every instance of QueueAdmin.               *)
THEOREM AdminInvariance == AdminSpec => []AdminInv
<1>1. AdminSystemInit => AdminInv
  BY AdminInit_Inv
<1>2. AdminInv /\ [AdminStep]_adminSystemVars => AdminInv'
  BY AdminStep_Inv
<1>3. QED
  BY <1>1, <1>2, PTL DEF AdminSpec

(* For any number of packets, queues, claims and operators, the transport  *)
(* state and the locals of the commands stay well-typed.                   *)
THEOREM AdminTypeCorrect == AdminSpec => []AdminTypeOK
<1>1. AdminInv => AdminTypeOK
  BY DEF AdminInv
<1>2. QED
  BY <1>1, AdminInvariance, PTL

(* A row says acknowledged only if the ledger shows a claim of that packet *)
(* that is no longer open, whatever commands run, fail or die.             *)
THEOREM AcknowledgedRowsBacked == AdminSpec => []AcknowledgedRowHasClosedClaim
<1>1. AdminInv => AcknowledgedRowHasClosedClaim
  BY DEF AdminInv, RowInv, Closed, AcknowledgedRowHasClosedClaim, ClosedClaimOf
<1>2. QED
  BY <1>1, AdminInvariance, PTL

(* A role return closes no claim but one of the assignment it was given.   *)
THEOREM ReturnsCloseTheirOwn == AdminSpec => []ReturnClosesOnlyItsAssignment
<1>1. AdminInv => ReturnClosesOnlyItsAssignment
  BY DEF AdminInv
<1>2. QED
  BY <1>1, AdminInvariance, PTL

-----------------------------------------------------------------------------
(* Where a packet goes when a step moves it.                               *)

(* Publishing a packet leaves those already on a queue where they are.      *)
LEMMA PublishKeepsQueued ==
  ASSUME BrokerTypeOK, NEW r \in Packet, Publish(r), NEW p \in Packet, InQueue(p)
  PROVE  InQueue(p)'
<1>1. PICK i \in 1..Len(queue[Home[p]]) : queue[Home[p]][i] = p
  BY DEF InQueue
<1>2. Home[p] \in Queue /\ Home[r] \in Queue /\ queue[Home[p]] \in Seq(Packet)
  BY TransportAssumption DEF BrokerTypeOK
<1>3. i \in 1..Len(queue'[Home[p]]) /\ queue'[Home[p]][i] = p
  BY <1>1, <1>2 DEF BrokerTypeOK, Publish
<1>4. QED
  BY <1>3 DEF InQueue

(* Only the packet at the head leaves its queue.                            *)
LEMMA PopKeepsRest ==
  ASSUME BrokerTypeOK, NEW q \in Queue, Pop(q), NEW p \in Packet, InQueue(p), p # Head(queue[q])
  PROVE  InQueue(p)'
<1>1. PICK i \in 1..Len(queue[Home[p]]) : queue[Home[p]][i] = p
  BY DEF InQueue
<1>2. Home[p] \in Queue /\ queue[Home[p]] \in Seq(Packet)
  BY TransportAssumption DEF BrokerTypeOK
<1>3. CASE Home[p] # q
  <2>1. queue'[Home[p]] = queue[Home[p]]
    BY <1>2, <1>3 DEF BrokerTypeOK, Pop
  <2>2. QED
    BY <1>1, <2>1 DEF InQueue
<1>4. CASE Home[p] = q
  <2>1. queue'[q] = Tail(queue[q]) /\ queue[q] \in Seq(Packet) /\ queue[q] # <<>>
    BY <1>2, <1>4 DEF BrokerTypeOK, Pop
  <2>2. i # 1 /\ i \in Nat
    BY <1>1, <1>4, <2>1
  <2>3. i - 1 \in 1..Len(queue'[q]) /\ queue'[q][i - 1] = p
    BY <1>1, <1>4, <2>1, <2>2
  <2>4. QED
    BY <1>4, <2>3 DEF InQueue
<1>5. QED
  BY <1>3, <1>4

(* A step of o that touches no claim file, takes nothing off a queue and   *)
(* does not drop what o holds.                                             *)
LEMMA QuietStep ==
  ASSUME NEW o \in Operator, NEW p \in Packet, AccountedFor(p),
         UNCHANGED claim,
         InQueue(p) => InQueue(p)',
         \A a \in Operator \ {o} : SameLocals(a),
         pc[o] \in HoldingPc => pc'[o] \in HoldingPc /\ pkt'[o] = pkt[o]
  PROVE  AccountedFor(p)'
<1>1. InHand(p) => InHand(p)'
  BY DEF InHand, SameLocals
<1>2. Retained(p) => Retained(p)'
  BY DEF Retained, Readable, Envelope
<1>3. QED
  BY <1>1, <1>2 DEF AccountedFor

(* o holds the packet of the file it truncates.                            *)
LEMMA TruncateStep ==
  ASSUME AdminInv, NEW o \in Operator, NEW p \in Packet, AccountedFor(p),
         cl[o] \in Claim, Truncate(cl[o]), pkt[o] = claim[cl[o]].packet,
         UNCHANGED queue, pkt' = pkt,
         pc'[o] \in HoldingPc, \A a \in Operator \ {o} : SameLocals(a)
  PROVE  AccountedFor(p)'
<1>1. OnlyStatusOf(cl[o])
  BY PartsFromInv, TruncateEffect
<1>2. CASE InQueue(p)
  BY <1>2 DEF InQueue, AccountedFor
<1>3. CASE InHand(p)
  <2>1. InHand(p)'
    BY <1>3 DEF InHand, SameLocals
  <2>2. QED
    BY <2>1 DEF AccountedFor
<1>4. CASE Retained(p)
  <2>1. PICK c \in Claim : Readable(c) /\ Envelope(c) = p
    BY <1>4 DEF Retained
  <2>2. CASE c = cl[o]
    <3>1. pkt'[o] = p
      BY <2>1, <2>2, TransportAssumption DEF Envelope
    <3>2. QED
      BY <3>1 DEF InHand, AccountedFor
  <2>3. CASE c # cl[o]
    <3>1. Readable(c)' /\ Envelope(c)' = p
      BY <1>1, <2>1, <2>3 DEF OnlyStatusOf, Readable, Envelope
    <3>2. QED
      BY <3>1 DEF Retained, AccountedFor
  <2>4. QED
    BY <2>2, <2>3
<1>5. QED
  BY <1>2, <1>3, <1>4 DEF AccountedFor

(* The file o writes ends up readable, so it retains what o held.          *)
LEMMA WriteStep ==
  ASSUME AdminInv, NEW o \in Operator, NEW p \in Packet, AccountedFor(p),
         NEW c \in Claim, cl[o] = c, claim[c].status # "absent",
         pkt[o] = claim[c].packet, OnlyStatusOf(c),
         claim'[c].status \notin Unreadable,
         UNCHANGED queue, \A a \in Operator \ {o} : SameLocals(a)
  PROVE  AccountedFor(p)'
<1>1. claim[c].envelope
  BY PartsFromInv DEF LedgerInv
<1>2. Readable(c)' /\ Envelope(c)' = pkt[o]
  BY <1>1 DEF OnlyStatusOf, Readable, Envelope
<1>3. CASE InQueue(p)
  BY <1>3 DEF InQueue, AccountedFor
<1>4. CASE InHand(p)
  <2>1. InHand(p)' \/ Retained(p)'
    BY <1>2, <1>4 DEF InHand, Retained, SameLocals
  <2>2. QED
    BY <2>1 DEF AccountedFor
<1>5. CASE Retained(p)
  <2>1. PICK d \in Claim : Readable(d) /\ Envelope(d) = p
    BY <1>5 DEF Retained
  <2>2. Readable(d)' /\ Envelope(d)' = p
    BY <1>2, <1>1, <2>1 DEF OnlyStatusOf, Readable, Envelope
  <2>3. QED
    BY <2>2 DEF Retained, AccountedFor
<1>6. QED
  BY <1>3, <1>4, <1>5 DEF AccountedFor

(* The head of a queue goes into the hands of the command that takes it.   *)
LEMMA TakeHeadAccounts ==
  ASSUME AdminInv, NEW o \in Operator, NEW q \in Queue, TakeHead(o, q), pc[o] \in {"idle", "ret_pop"},
         NEW p \in Packet \ Oversize, AccountedFor(p)
  PROVE  AccountedFor(p)'
<1> USE QueueAdminAssumption
<1>0. BrokerTypeOK /\ LocalTypeOK
  BY PartsFromInv
<1>1. Pop(q) /\ UNCHANGED claim
  BY DEF TakeHead
<1>2. \A a \in Operator \ {o} : SameLocals(a)
  <2>1. CASE Head(queue[q]) \in Oversize
    BY <1>0, <2>1, ReturnEffect DEF TakeHead
  <2>2. CASE Head(queue[q]) \notin Oversize
    BY <1>0, <2>2 DEF TakeHead, Goto, SameLocals, adminVars, LocalTypeOK
  <2>3. QED
    BY <2>1, <2>2
<1>3. CASE p = Head(queue[q])
  <2>1. pkt'[o] = p /\ pc'[o] = "claim_open"
    BY <1>0, <1>3 DEF TakeHead, Goto, LocalTypeOK
  <2>2. QED
    BY <2>1 DEF AccountedFor, InHand, HoldingPc
<1>4. CASE p # Head(queue[q])
  <2>1. InQueue(p) => InQueue(p)'
    BY <1>0, <1>1, <1>4, PopKeepsRest
  <2>2. QED
    BY <1>1, <1>2, <2>1, QuietStep DEF HoldingPc
<1>5. QED
  BY <1>3, <1>4

(* Still accounted for when send publishes.                                *)
LEMMA SendPublishAccounts ==
  ASSUME AdminInv, NEW o \in Operator, NEW r \in Packet, SendPublish(o, r),
         NEW p \in Packet \ Oversize, AccountedFor(p)
  PROVE  AccountedFor(p)'
<1> USE QueueAdminAssumption
<1>0. BrokerTypeOK /\ LedgerTypeOK /\ LocalTypeOK /\ LedgerInv /\ CreatorInv /\ OperatorInv(o)
  BY PartsFromInv
<1>1. UNCHANGED claim /\ \A a \in Operator \ {o} : SameLocals(a)
  BY <1>0 DEF SendPublish, Goto, SameLocals, adminVars, LocalTypeOK
<1>2. InQueue(p) => InQueue(p)'
  BY <1>0, PublishKeepsQueued DEF SendPublish
<1>3. QED
  BY <1>1, <1>2, QuietStep DEF SendPublish, HoldingPc

(* Still accounted for when a role return publishes its result.            *)
LEMMA ReturnSendAccounts ==
  ASSUME AdminInv, NEW o \in Operator, NEW r \in Packet, NEW t \in Packet, ReturnSend(o, r, t),
         NEW p \in Packet \ Oversize, AccountedFor(p)
  PROVE  AccountedFor(p)'
<1> USE QueueAdminAssumption
<1>0. BrokerTypeOK /\ LedgerTypeOK /\ LocalTypeOK /\ LedgerInv /\ CreatorInv /\ OperatorInv(o)
  BY PartsFromInv
<1>1. UNCHANGED claim /\ \A a \in Operator \ {o} : SameLocals(a)
  BY <1>0 DEF ReturnSend, Goto, SameLocals, adminVars, LocalTypeOK
<1>2. InQueue(p) => InQueue(p)'
  BY <1>0, PublishKeepsQueued DEF ReturnSend
<1>3. QED
  BY <1>1, <1>2, QuietStep DEF ReturnSend, HoldingPc

(* Still accounted for when requeue publishes the envelope it holds.       *)
LEMMA RequeuePublishAccounts ==
  ASSUME AdminInv, NEW o \in Operator, RequeuePublish(o),
         NEW p \in Packet \ Oversize, AccountedFor(p)
  PROVE  AccountedFor(p)'
<1> USE QueueAdminAssumption
<1>0. BrokerTypeOK /\ LedgerTypeOK /\ LocalTypeOK /\ LedgerInv /\ CreatorInv /\ OperatorInv(o)
  BY PartsFromInv
<1>1. UNCHANGED claim /\ pkt' = pkt /\ pc'[o] = "req_open" /\ \A a \in Operator \ {o} : SameLocals(a)
  BY <1>0 DEF RequeuePublish, Goto, SameLocals, adminVars, LocalTypeOK
<1>2. pkt[o] \in Packet
  BY <1>0 DEF RequeuePublish, LedgerInv, OperatorInv, LocalInv, ClaimPc
<1>3. InQueue(p) => InQueue(p)'
  BY <1>0, <1>2, PublishKeepsQueued DEF RequeuePublish, brokerVars, InQueue
<1>4. QED
  BY <1>1, <1>3, QuietStep DEF HoldingPc

(* Steps of a command that holds nothing and touches neither broker nor    *)
(* ledger.                                                                 *)
LEMMA IdleHandsStep ==
  ASSUME NEW o \in Operator, NEW p \in Packet, AccountedFor(p), pc[o] \notin HoldingPc,
         UNCHANGED <<queue, claim>>, \A a \in Operator \ {o} : SameLocals(a)
  PROVE  AccountedFor(p)'
BY QuietStep DEF InQueue

(* Still accounted for when the send is recorded.                          *)
LEMMA SendRecordAccounts ==
  ASSUME AdminInv, NEW o \in Operator, SendRecord(o),
         NEW p \in Packet \ Oversize, AccountedFor(p)
  PROVE  AccountedFor(p)'
<1> USE QueueAdminAssumption
<1>0. BrokerTypeOK /\ LedgerTypeOK /\ LocalTypeOK /\ LedgerInv /\ CreatorInv /\ OperatorInv(o)
  BY PartsFromInv
<1>1. UNCHANGED <<queue, claim>> /\ pc[o] \notin HoldingPc
  BY DEF SendRecord, brokerVars, HoldingPc
<1>2. \A a \in Operator \ {o} : SameLocals(a)
  BY <1>0, ReturnEffect DEF SendRecord, Load, Goto, SameLocals, adminVars, LocalTypeOK, Return, Finish
<1>3. QED
  BY <1>1, <1>2, IdleHandsStep

(* Still accounted for when the row is marked claimed.                     *)
LEMMA ClaimMarkAccounts ==
  ASSUME AdminInv, NEW o \in Operator, ClaimMark(o),
         NEW p \in Packet \ Oversize, AccountedFor(p)
  PROVE  AccountedFor(p)'
<1> USE QueueAdminAssumption
<1>0. BrokerTypeOK /\ LedgerTypeOK /\ LocalTypeOK /\ LedgerInv /\ CreatorInv /\ OperatorInv(o)
  BY PartsFromInv
<1>1. UNCHANGED <<queue, claim>> /\ pc[o] \notin HoldingPc
  BY DEF ClaimMark, brokerVars, HoldingPc
<1>2. \A a \in Operator \ {o} : SameLocals(a)
  BY <1>0, ReturnEffect DEF ClaimMark, Load, Goto, SameLocals, adminVars, LocalTypeOK, Return, Finish
<1>3. QED
  BY <1>1, <1>2, IdleHandsStep

(* Still accounted for when ack loads a claim.                             *)
LEMMA AckLoadAccounts ==
  ASSUME AdminInv, NEW o \in Operator, NEW c \in Claim, AckLoad(o, c),
         NEW p \in Packet \ Oversize, AccountedFor(p)
  PROVE  AccountedFor(p)'
<1> USE QueueAdminAssumption
<1>0. BrokerTypeOK /\ LedgerTypeOK /\ LocalTypeOK /\ LedgerInv /\ CreatorInv /\ OperatorInv(o)
  BY PartsFromInv
<1>1. UNCHANGED <<queue, claim>> /\ pc[o] \notin HoldingPc
  BY DEF AckLoad, brokerVars, HoldingPc
<1>2. \A a \in Operator \ {o} : SameLocals(a)
  BY <1>0, ReturnEffect DEF AckLoad, Load, Goto, SameLocals, adminVars, LocalTypeOK, Return, Finish
<1>3. QED
  BY <1>1, <1>2, IdleHandsStep

(* Still accounted for when a role return loads the claim it acknowledges. *)
LEMMA ReturnAckLoadAccounts ==
  ASSUME AdminInv, NEW o \in Operator, ReturnAckLoad(o),
         NEW p \in Packet \ Oversize, AccountedFor(p)
  PROVE  AccountedFor(p)'
<1> USE QueueAdminAssumption
<1>0. BrokerTypeOK /\ LedgerTypeOK /\ LocalTypeOK /\ LedgerInv /\ CreatorInv /\ OperatorInv(o)
  BY PartsFromInv
<1>1. UNCHANGED <<queue, claim>> /\ pc[o] \notin HoldingPc
  BY DEF ReturnAckLoad, brokerVars, HoldingPc
<1>2. \A a \in Operator \ {o} : SameLocals(a)
  BY <1>0, ReturnEffect DEF ReturnAckLoad, Load, Goto, SameLocals, adminVars, LocalTypeOK, Return, Finish
<1>3. QED
  BY <1>1, <1>2, IdleHandsStep

(* Still accounted for when the row is marked acknowledged.                *)
LEMMA AckMarkAccounts ==
  ASSUME AdminInv, NEW o \in Operator, AckMark(o),
         NEW p \in Packet \ Oversize, AccountedFor(p)
  PROVE  AccountedFor(p)'
<1> USE QueueAdminAssumption
<1>0. BrokerTypeOK /\ LedgerTypeOK /\ LocalTypeOK /\ LedgerInv /\ CreatorInv /\ OperatorInv(o)
  BY PartsFromInv
<1>1. UNCHANGED <<queue, claim>> /\ pc[o] \notin HoldingPc
  BY DEF AckMark, brokerVars, HoldingPc
<1>2. \A a \in Operator \ {o} : SameLocals(a)
  BY <1>0, ReturnEffect DEF AckMark, Load, Goto, SameLocals, adminVars, LocalTypeOK, Return, Finish
<1>3. QED
  BY <1>1, <1>2, IdleHandsStep

(* Still accounted for when requeue loads a claim.                         *)
LEMMA RequeueLoadAccounts ==
  ASSUME AdminInv, NEW o \in Operator, NEW c \in Claim, RequeueLoad(o, c),
         NEW p \in Packet \ Oversize, AccountedFor(p)
  PROVE  AccountedFor(p)'
<1> USE QueueAdminAssumption
<1>0. BrokerTypeOK /\ LedgerTypeOK /\ LocalTypeOK /\ LedgerInv /\ CreatorInv /\ OperatorInv(o)
  BY PartsFromInv
<1>1. UNCHANGED <<queue, claim>> /\ pc[o] \notin HoldingPc
  BY DEF RequeueLoad, brokerVars, HoldingPc
<1>2. \A a \in Operator \ {o} : SameLocals(a)
  BY <1>0, ReturnEffect DEF RequeueLoad, Load, Goto, SameLocals, adminVars, LocalTypeOK, Return, Finish
<1>3. QED
  BY <1>1, <1>2, IdleHandsStep

(* Still accounted for when a role return loads the claim it requeues.     *)
LEMMA ReturnRequeueLoadAccounts ==
  ASSUME AdminInv, NEW o \in Operator, ReturnRequeueLoad(o),
         NEW p \in Packet \ Oversize, AccountedFor(p)
  PROVE  AccountedFor(p)'
<1> USE QueueAdminAssumption
<1>0. BrokerTypeOK /\ LedgerTypeOK /\ LocalTypeOK /\ LedgerInv /\ CreatorInv /\ OperatorInv(o)
  BY PartsFromInv
<1>1. UNCHANGED <<queue, claim>> /\ pc[o] \notin HoldingPc
  BY DEF ReturnRequeueLoad, brokerVars, HoldingPc
<1>2. \A a \in Operator \ {o} : SameLocals(a)
  BY <1>0, ReturnEffect DEF ReturnRequeueLoad, Load, Goto, SameLocals, adminVars, LocalTypeOK, Return, Finish
<1>3. QED
  BY <1>1, <1>2, IdleHandsStep

(* Still accounted for when the row update of a requeue raises.            *)
LEMMA RequeueMarkAccounts ==
  ASSUME AdminInv, NEW o \in Operator, RequeueMark(o),
         NEW p \in Packet \ Oversize, AccountedFor(p)
  PROVE  AccountedFor(p)'
<1> USE QueueAdminAssumption
<1>0. BrokerTypeOK /\ LedgerTypeOK /\ LocalTypeOK /\ LedgerInv /\ CreatorInv /\ OperatorInv(o)
  BY PartsFromInv
<1>1. UNCHANGED <<queue, claim>> /\ pc[o] \notin HoldingPc
  BY DEF RequeueMark, brokerVars, HoldingPc
<1>2. \A a \in Operator \ {o} : SameLocals(a)
  BY <1>0, ReturnEffect DEF RequeueMark, Load, Goto, SameLocals, adminVars, LocalTypeOK, Return, Finish
<1>3. QED
  BY <1>1, <1>2, IdleHandsStep

(* Still accounted for when a role return lists the claims.                *)
LEMMA ReturnListAccounts ==
  ASSUME AdminInv, NEW o \in Operator, ReturnList(o),
         NEW p \in Packet \ Oversize, AccountedFor(p)
  PROVE  AccountedFor(p)'
<1> USE QueueAdminAssumption
<1>0. BrokerTypeOK /\ LedgerTypeOK /\ LocalTypeOK /\ LedgerInv /\ CreatorInv /\ OperatorInv(o)
  BY PartsFromInv
<1>1. UNCHANGED <<queue, claim>> /\ pc[o] \notin HoldingPc
  BY DEF ReturnList, brokerVars, HoldingPc
<1>2. \A a \in Operator \ {o} : SameLocals(a)
  BY <1>0, ReturnEffect DEF ReturnList, Load, Goto, SameLocals, adminVars, LocalTypeOK, Return, Finish
<1>3. QED
  BY <1>1, <1>2, IdleHandsStep

(* Still accounted for when a SQL statement raises.                        *)
LEMMA DbFailsAccounts ==
  ASSUME AdminInv, NEW o \in Operator, DbFails(o),
         NEW p \in Packet \ Oversize, AccountedFor(p)
  PROVE  AccountedFor(p)'
<1> USE QueueAdminAssumption
<1>0. BrokerTypeOK /\ LedgerTypeOK /\ LocalTypeOK /\ LedgerInv /\ CreatorInv /\ OperatorInv(o)
  BY PartsFromInv
<1>1. UNCHANGED <<queue, claim>> /\ pc[o] \notin HoldingPc
  BY DEF DbFails, brokerVars, HoldingPc
<1>2. \A a \in Operator \ {o} : SameLocals(a)
  BY <1>0, ReturnEffect DEF DbFails, Load, Goto, SameLocals, adminVars, LocalTypeOK, Return, Finish
<1>3. QED
  BY <1>1, <1>2, IdleHandsStep

(* Still accounted for when ack truncates the file whose envelope it holds.*)
LEMMA AckOpenAccounts ==
  ASSUME AdminInv, NEW o \in Operator, AckOpen(o),
         NEW p \in Packet \ Oversize, AccountedFor(p)
  PROVE  AccountedFor(p)'
<1> USE QueueAdminAssumption
<1>0. BrokerTypeOK /\ LedgerTypeOK /\ LocalTypeOK /\ LedgerInv /\ CreatorInv /\ OperatorInv(o)
  BY PartsFromInv
<1>1. cl[o] \in Claim /\ pkt[o] = claim[cl[o]].packet
  BY <1>0 DEF AckOpen, OperatorInv, LocalInv, ClaimPc
<1>2. pc'[o] \in HoldingPc /\ \A a \in Operator \ {o} : SameLocals(a)
  BY <1>0 DEF AckOpen, Goto, SameLocals, adminVars, LocalTypeOK, HoldingPc
<1>3. QED
  BY <1>1, <1>2, TruncateStep DEF AckOpen, brokerVars

(* Still accounted for when requeue truncates the file whose envelope it holds.*)
LEMMA RequeueOpenAccounts ==
  ASSUME AdminInv, NEW o \in Operator, RequeueOpen(o),
         NEW p \in Packet \ Oversize, AccountedFor(p)
  PROVE  AccountedFor(p)'
<1> USE QueueAdminAssumption
<1>0. BrokerTypeOK /\ LedgerTypeOK /\ LocalTypeOK /\ LedgerInv /\ CreatorInv /\ OperatorInv(o)
  BY PartsFromInv
<1>1. cl[o] \in Claim /\ pkt[o] = claim[cl[o]].packet
  BY <1>0 DEF RequeueOpen, OperatorInv, LocalInv, ClaimPc
<1>2. pc'[o] \in HoldingPc /\ \A a \in Operator \ {o} : SameLocals(a)
  BY <1>0 DEF RequeueOpen, Goto, SameLocals, adminVars, LocalTypeOK, HoldingPc
<1>3. QED
  BY <1>1, <1>2, TruncateStep DEF RequeueOpen, brokerVars

(* Still accounted for when ack writes the envelope back.                  *)
LEMMA AckWriteAccounts ==
  ASSUME AdminInv, NEW o \in Operator, AckWrite(o),
         ~ TearStep,
         NEW p \in Packet \ Oversize, AccountedFor(p)
  PROVE  AccountedFor(p)'
<1> USE QueueAdminAssumption
<1>0. BrokerTypeOK /\ LedgerTypeOK /\ LocalTypeOK /\ LedgerInv /\ CreatorInv /\ OperatorInv(o)
  BY PartsFromInv
<1>1. cl[o] \in Claim /\ pkt[o] = claim[cl[o]].packet /\ claim[cl[o]].status # "absent"
  BY <1>0 DEF AckWrite, OperatorInv, LocalInv, ClaimPc
<1>2. pc[o] = "ack_write" /\ pc'[o] # pc[o] /\ UNCHANGED queue /\ \A a \in Operator \ {o} : SameLocals(a)
  BY <1>0 DEF AckWrite, Return, Finish, Goto, SameLocals, brokerVars, adminVars, LocalTypeOK
<1>3. OnlyStatusOf(cl[o]) /\ claim'[cl[o]].status \in {"done", "torn"}
  BY <1>0, <1>1, WriteFileEffect DEF AckWrite, ClaimStatus
<1>4. claim'[cl[o]].status \notin Unreadable
  BY <1>2, <1>3 DEF TearStep, Unreadable
<1>5. QED
  BY <1>1, <1>2, <1>3, <1>4, WriteStep

(* Still accounted for when requeue writes the envelope back.              *)
LEMMA RequeueWriteAccounts ==
  ASSUME AdminInv, NEW o \in Operator, RequeueWrite(o),
         ~ TearStep,
         NEW p \in Packet \ Oversize, AccountedFor(p)
  PROVE  AccountedFor(p)'
<1> USE QueueAdminAssumption
<1>0. BrokerTypeOK /\ LedgerTypeOK /\ LocalTypeOK /\ LedgerInv /\ CreatorInv /\ OperatorInv(o)
  BY PartsFromInv
<1>1. cl[o] \in Claim /\ pkt[o] = claim[cl[o]].packet /\ claim[cl[o]].status # "absent"
  BY <1>0 DEF RequeueWrite, OperatorInv, LocalInv, ClaimPc
<1>2. pc[o] = "req_write" /\ pc'[o] # pc[o] /\ UNCHANGED queue /\ \A a \in Operator \ {o} : SameLocals(a)
  BY <1>0 DEF RequeueWrite, Return, Finish, Goto, SameLocals, brokerVars, adminVars, LocalTypeOK
<1>3. OnlyStatusOf(cl[o]) /\ claim'[cl[o]].status \in {"requeued", "torn"}
  BY <1>0, <1>1, WriteFileEffect DEF RequeueWrite, ClaimStatus
<1>4. claim'[cl[o]].status \notin Unreadable
  BY <1>2, <1>3 DEF TearStep, Unreadable
<1>5. QED
  BY <1>1, <1>2, <1>3, <1>4, WriteStep

(* Still accounted for when claim-next writes the envelope it holds.       *)
LEMMA ClaimWriteAccounts ==
  ASSUME AdminInv, NEW o \in Operator, ClaimWrite(o),
         NEW p \in Packet \ Oversize, AccountedFor(p)
  PROVE  AccountedFor(p)'
<1> USE QueueAdminAssumption
<1>0. BrokerTypeOK /\ LedgerTypeOK /\ LocalTypeOK /\ LedgerInv /\ CreatorInv /\ OperatorInv(o)
  BY PartsFromInv
<1>1. /\ cl[o] \in Claim /\ pkt[o] = claim[cl[o]].packet
      /\ claim[cl[o]].status = "empty"
  BY <1>0 DEF ClaimWrite, OperatorInv, LocalInv, CreatorInv, ClaimPc
<1>2. UNCHANGED queue /\ \A a \in Operator \ {o} : SameLocals(a)
  BY <1>0 DEF ClaimWrite, Return, Finish, Goto, SameLocals, brokerVars, adminVars, LocalTypeOK
<1>3. OnlyStatusOf(cl[o]) /\ claim'[cl[o]].status \in {"claimed", "invalid"}
  BY <1>0, <1>1, WriteFileEffect DEF ClaimWrite, ClaimStatus
<1>4. QED
  BY <1>1, <1>2, <1>3, WriteStep DEF Unreadable

(* Still accounted for when claim-next creates the file of the packet it holds.*)
LEMMA ClaimOpenAccounts ==
  ASSUME AdminInv, NEW o \in Operator, NEW c \in Claim, ClaimOpen(o, c),
         NEW p \in Packet \ Oversize, AccountedFor(p)
  PROVE  AccountedFor(p)'
<1> USE QueueAdminAssumption
<1>0. BrokerTypeOK /\ LedgerTypeOK /\ LocalTypeOK /\ LedgerInv /\ CreatorInv /\ OperatorInv(o)
  BY PartsFromInv
<1>1. pc'[o] = "claim_write" /\ pkt' = pkt /\ UNCHANGED queue /\ \A a \in Operator \ {o} : SameLocals(a)
  BY <1>0 DEF ClaimOpen, Goto, SameLocals, brokerVars, adminVars, LocalTypeOK
<1>2. claim[c].status = "absent" /\ \A d \in Claim \ {c} : claim'[d] = claim[d]
  BY <1>0, CreateFileEffect DEF ClaimOpen, OperatorInv, LocalInv
<1>3. InQueue(p) => InQueue(p)'
  BY <1>1 DEF InQueue
<1>4. InHand(p) => InHand(p)'
  BY <1>1 DEF InHand, SameLocals, HoldingPc
<1>5. Retained(p) => Retained(p)'
  BY <1>2 DEF Retained, Readable, Unreadable, Envelope
<1>6. QED
  BY <1>3, <1>4, <1>5 DEF AccountedFor

(* A step of a command that is no loss step keeps a packet accounted for.   *)
LEMMA OperatorStepAccounts ==
  ASSUME AdminInv, NEW o \in Operator, OperatorStep(o), ~ LossStep,
         NEW p \in Packet \ Oversize, AccountedFor(p)
  PROVE  AccountedFor(p)'
<1>0. ~ TearStep /\ ~ Crash(o)
  BY DEF LossStep
<1>1. CASE \E r \in Packet : SendPublish(o, r)
  BY <1>1, SendPublishAccounts
<1>2. CASE \E r, t \in Packet : ReturnSend(o, r, t)
  BY <1>2, ReturnSendAccounts
<1>3. CASE \E q \in Queue : ClaimPop(o, q)
  BY <1>3, TakeHeadAccounts DEF ClaimPop
<1>4. CASE \E c \in Claim : ClaimOpen(o, c) \/ AckLoad(o, c) \/ RequeueLoad(o, c)
  BY <1>4, ClaimOpenAccounts, AckLoadAccounts, RequeueLoadAccounts
<1>5. CASE SendRecord(o) \/ ClaimWrite(o) \/ ClaimMark(o)
  BY <1>5, SendRecordAccounts, ClaimWriteAccounts, ClaimMarkAccounts
<1>6. CASE ReturnAckLoad(o) \/ AckOpen(o) \/ AckWrite(o) \/ AckMark(o)
  BY <1>0, <1>6, ReturnAckLoadAccounts, AckOpenAccounts, AckWriteAccounts, AckMarkAccounts
<1>7. CASE ReturnRequeueLoad(o) \/ RequeuePublish(o) \/ RequeueOpen(o)
  BY <1>7, ReturnRequeueLoadAccounts, RequeuePublishAccounts, RequeueOpenAccounts
<1>8. CASE RequeueWrite(o) \/ RequeueMark(o)
  BY <1>0, <1>8, RequeueWriteAccounts, RequeueMarkAccounts
<1>9. CASE ReturnList(o) \/ DbFails(o)
  BY <1>9, ReturnListAccounts, DbFailsAccounts
<1>10. CASE ReturnPop(o)
  <2>1. Home[target[o]] \in Queue /\ pc[o] = "ret_pop"
    BY <1>10, PartsFromInv, TransportAssumption DEF ReturnPop, OperatorInv, LocalInv
  <2>2. CASE queue[Home[target[o]]] = <<>>
    <3>1. UNCHANGED <<queue, claim>> /\ Return(o)
      BY <1>10, <2>2 DEF ReturnPop, brokerVars
    <3>2. QED
      BY <2>1, <3>1, PartsFromInv, ReturnEffect, IdleHandsStep DEF HoldingPc
  <2>3. CASE queue[Home[target[o]]] # <<>>
    BY <1>10, <2>1, <2>3, TakeHeadAccounts DEF ReturnPop
  <2>4. QED
    BY <2>2, <2>3
<1>11. QED
  BY <1>0, <1>1, <1>2, <1>3, <1>4, <1>5, <1>6, <1>7, <1>8, <1>9, <1>10 DEF OperatorStep

(* For any number of packets, claims and concurrent commands, nothing but  *)
(* a purge, a crash inside a window, or two writers overlaying one claim   *)
(* file loses a packet the broker returns whole.                           *)
THEOREM PacketsKept == AdminSpec => PacketsLostOnlyByLossSteps
<1>1. AdminInv /\ [AdminStep]_adminSystemVars
        => [LossStep \/ \A p \in Packet \ Oversize : AccountedFor(p) => AccountedFor(p)']_adminSystemVars
  <2> SUFFICES ASSUME AdminInv, AdminStep, ~ LossStep, NEW p \in Packet \ Oversize, AccountedFor(p)
               PROVE  AccountedFor(p)'
    OBVIOUS
  <2>1. CASE \E o \in Operator : OperatorStep(o)
    BY <2>1, OperatorStepAccounts
  <2>2. CASE \E q \in Queue : Purge(q)
    BY <2>2 DEF LossStep
  <2>3. CASE \E r \in Packet : ForeignPublish(r)
    <3>1. InQueue(p) => InQueue(p)'
      BY <2>3, PublishKeepsQueued, PartsFromInv DEF ForeignPublish
    <3>2. InHand(p) => InHand(p)'
      BY <2>3 DEF ForeignPublish, localVars, InHand
    <3>3. Retained(p) => Retained(p)'
      BY <2>3 DEF ForeignPublish, Retained, Readable, Envelope
    <3>4. QED
      BY <3>1, <3>2, <3>3 DEF AccountedFor
  <2>4. QED
    BY <2>1, <2>2, <2>3 DEF AdminStep
<1>2. QED
  BY <1>1, AdminInvariance, PTL DEF AdminSpec, PacketsLostOnlyByLossSteps

-----------------------------------------------------------------------------
(* The commands implement PacketDelivery: every step of a command is,      *)
(* through Hand, Recorded, OverClaims and AcknowledgedPackets, a step of   *)
(* PacketDelivery or changes nothing it sees.                              *)


(* An actor that is no operator never moves in this instance. *)
OthersIdle == \A a \in Actor \ Operator : pc[a] = "idle"

SameActor(a) == pc'[a] = pc[a] /\ pkt'[a] = pkt[a] /\ cl'[a] = cl[a]
OnlyActor(o) == \A a \in Actor \ {o} : SameActor(a)

(* A command that ends leaves the locals of the others alone.              *)
LEMMA ReturnIsOwn ==
  ASSUME LocalTypeOK, NEW o \in Operator, Return(o)
  PROVE  OnlyActor(o) /\ pc'[o] = "idle"
BY QueueAdminAssumption DEF LocalTypeOK, Return, Finish, OnlyActor, SameActor

(* So does one that goes on.                                               *)
LEMMA GotoIsOwn ==
  ASSUME LocalTypeOK, NEW o \in Operator, NEW label, Goto(o, label),
         NEW p, pkt' \in {pkt, [pkt EXCEPT ![o] = p]},
         NEW c, cl' \in {cl, [cl EXCEPT ![o] = c]}
  PROVE  OnlyActor(o) /\ pc'[o] = label
BY QueueAdminAssumption DEF LocalTypeOK, Goto, OnlyActor, SameActor

(* With the other actors idle, a claim is over when it is closed and no    *)
(* command is creating it.                                                 *)
LEMMA OverIsClosed ==
  ASSUME LocalTypeOK, OthersIdle, NEW c \in Claim
  PROVE  Over(c) <=> Closed(c)
BY QueueAdminAssumption DEF LocalTypeOK, OthersIdle, Over, Closed, CreatorPc, OperatorPc

-----------------------------------------------------------------------------
(* What PacketDelivery sees of the effects.                                *)

(* Nothing enters or leaves the hands of a command that does not claim.    *)
LEMMA HandKept ==
  ASSUME NEW o \in Operator, OnlyActor(o), pc[o] # "claim_open", pc'[o] # "claim_open",
         LocalTypeOK, LocalTypeOK'
  PROVE  Hand' = Hand
BY QueueAdminAssumption DEF OnlyActor, SameActor, Hand, InHandPc, LocalTypeOK, OperatorPc

(* A command that leaves claim_open has nothing in its hands any more.     *)
LEMMA HandEmptied ==
  ASSUME NEW o \in Operator, OnlyActor(o), pc'[o] # "claim_open", LocalTypeOK, LocalTypeOK'
  PROVE  Hand' = [Hand EXCEPT ![o] = NoPacket]
BY QueueAdminAssumption DEF OnlyActor, SameActor, Hand, InHandPc, LocalTypeOK, OperatorPc

(* Without a write, and without a creator that comes or goes, the ledger   *)
(* looks the same.                                                         *)
LEMMA LedgerKept ==
  ASSUME NEW o \in Operator, OnlyActor(o), UNCHANGED claim,
         pc[o] # "claim_write", pc'[o] # "claim_write", LocalTypeOK, LocalTypeOK'
  PROVE  Recorded' = Recorded /\ OverClaims' = OverClaims
<1>1. Recorded' = Recorded
  BY DEF Recorded
<1>2. \A a \in Actor : SameActor(a) \/ (a = o /\ pc[a] \notin CreatorPc /\ pc'[a] \notin CreatorPc)
  BY QueueAdminAssumption DEF OnlyActor, LocalTypeOK, OperatorPc, CreatorPc
<1>3. \A c \in Claim : Over(c) <=> Over(c)'
  BY <1>2 DEF Over, SameActor
<1>4. QED
  BY <1>1, <1>3 DEF OverClaims

(* A command that truncates a claim file, or writes anything but claimed   *)
(* into it, closes that claim.                                             *)
LEMMA ClaimClosed ==
  ASSUME AdminInv, OthersIdle, NEW o \in Operator, OnlyActor(o), NEW c \in Claim, cl[o] = c,
         OnlyStatusOf(c), claim[c].status # "absent",
         claim'[c].status \notin {"absent", "claimed", "invalid"},
         pc[o] # "claim_write", pc'[o] # "claim_write", LocalTypeOK'
  PROVE  Recorded' = Recorded /\ OverClaims' = OverClaims \cup {c}
<1>0. LocalTypeOK /\ CreatorInv
  BY PartsFromInv
<1>1. Recorded' = Recorded
  <2>1. \A d \in Claim : claim'[d].packet = claim[d].packet
                         /\ (claim'[d].status = "absent" <=> claim[d].status = "absent")
    BY DEF OnlyStatusOf
  <2>2. QED
    BY <2>1 DEF Recorded
<1>2. \A a \in Actor : SameActor(a) \/ (a = o /\ pc[a] \notin CreatorPc /\ pc'[a] \notin CreatorPc)
  BY <1>0, QueueAdminAssumption DEF OnlyActor, LocalTypeOK, OperatorPc, CreatorPc
<1>3. \A d \in Claim \ {c} : Over(d) <=> Over(d)'
  BY <1>2 DEF Over, SameActor, OnlyStatusOf
<1>4. \A a \in Actor : pc'[a] \in CreatorPc => cl'[a] # c
  <2>1. ASSUME NEW a \in Actor, pc'[a] \in CreatorPc PROVE cl'[a] # c
    <3>1. a # o /\ pc[a] \in CreatorPc /\ cl'[a] = cl[a]
      BY <1>0, <1>2, <2>1, QueueAdminAssumption DEF SameActor, LocalTypeOK, OperatorPc, CreatorPc
    <3>2. a \in Operator /\ pc[a] = "claim_write"
      BY <1>0, <3>1 DEF OthersIdle, CreatorPc, LocalTypeOK, OperatorPc
    <3>3. QED
      BY <1>0, <3>1, <3>2 DEF CreatorInv
  <2>2. QED
    BY <2>1
<1>5. Over(c)'
  BY <1>4 DEF Over
<1>6. QED
  BY <1>1, <1>3, <1>5 DEF OverClaims

-----------------------------------------------------------------------------
(* One lemma per kind of step. *)

(* The conclusion of every step lemma. *)
Delivers == Delivery!Next \/ UNCHANGED Delivery!deliveryVars

(* A step that PacketDelivery does not see.                                *)
LEMMA UnseenStep ==
  ASSUME AdminInv, NEW o \in Operator, OnlyActor(o), UNCHANGED <<queue, claim>>, LocalTypeOK',
         AcknowledgedPackets' = AcknowledgedPackets,
         pc[o] \notin {"claim_open", "claim_write"}, pc'[o] \notin {"claim_open", "claim_write"}
  PROVE  Delivers
<1>1. LocalTypeOK
  BY PartsFromInv
<1>2. QED
  BY <1>1, HandKept, LedgerKept DEF Delivers, Delivery!deliveryVars

(* A publish, whoever makes it.                                            *)
LEMMA PutStep ==
  ASSUME AdminInv, NEW p \in Packet, Publish(p), Hand' = Hand, UNCHANGED row,
         Recorded' = Recorded, OverClaims' = OverClaims
  PROVE  Delivers
<1>1. Delivery!Put(p)
  BY DEF Publish, Delivery!Put, AcknowledgedPackets
<1>2. QED
  BY <1>1 DEF Delivers, Delivery!Next

(* A publish of one command that goes on to something else than a claim.   *)
LEMMA PublishStep ==
  ASSUME AdminInv, NEW o \in Operator, OnlyActor(o), NEW p \in Packet, Publish(p),
         UNCHANGED <<claim, row>>, LocalTypeOK',
         pc[o] \notin {"claim_open", "claim_write"}, pc'[o] \notin {"claim_open", "claim_write"}
  PROVE  Delivers
<1>1. LocalTypeOK
  BY PartsFromInv
<1>2. QED
  BY <1>1, HandKept, LedgerKept, PutStep

(* The destructive get: the head goes into the hands of the command, or    *)
(* nobody has it.                                                          *)
LEMMA TakeStep ==
  ASSUME AdminInv, NEW o \in Operator, NEW q \in Queue, TakeHead(o, q), pc[o] \in {"idle", "ret_pop"}
  PROVE  Delivers
<1>0. LocalTypeOK /\ BrokerTypeOK /\ o \in Actor
  BY PartsFromInv, QueueAdminAssumption
<1>1. Hand[o] = NoPacket
  BY <1>0 DEF Hand, InHandPc
<1>2. queue[q] # <<>> /\ queue' = [queue EXCEPT ![q] = Tail(@)] /\ UNCHANGED <<claim, row>>
  BY DEF TakeHead, Pop
<1>3. Head(queue[q]) \in Packet
  BY <1>0, PopEffect DEF TakeHead
<1>4. CASE Head(queue[q]) \in Oversize
  <2>1. Return(o)
    BY <1>4 DEF TakeHead
  <2>2. OnlyActor(o) /\ pc'[o] = "idle" /\ LocalTypeOK'
    BY <1>0, <2>1, ReturnIsOwn, ReturnEffect
  <2>3. Hand' = Hand /\ Recorded' = Recorded /\ OverClaims' = OverClaims
    BY <1>0, <1>2, <2>2, HandKept, LedgerKept
  <2>4. Delivery!Take(o, q)
    BY <1>1, <1>2, <2>3 DEF Delivery!Take, AcknowledgedPackets
  <2>5. QED
    BY <1>0, <2>4 DEF Delivers, Delivery!Next
<1>5. CASE Head(queue[q]) \notin Oversize
  <2>1. /\ Goto(o, "claim_open") /\ UNCHANGED <<cl, adminVars>>
        /\ pkt' = [pkt EXCEPT ![o] = Head(queue[q])]
    BY <1>5 DEF TakeHead
  <2>2. OnlyActor(o) /\ pc'[o] = "claim_open"
    BY <1>0, <2>1 DEF LocalTypeOK, Goto, OnlyActor, SameActor
  <2>3. LocalTypeOK'
    BY <1>0, <1>3, <2>1 DEF LocalTypeOK, Goto, OperatorPc, adminVars
  <2>4. Recorded' = Recorded /\ OverClaims' = OverClaims
    BY <1>0, <1>2, <2>2, <2>3, LedgerKept
  <2>5. pkt'[o] = Head(queue[q])
    BY <1>0, <2>1 DEF LocalTypeOK
  <2>6. Hand' = [Hand EXCEPT ![o] = Head(queue[q])]
    BY <1>0, <2>2, <2>5 DEF Hand, InHandPc, OnlyActor, SameActor
  <2>7. Delivery!Take(o, q)
    BY <1>1, <1>2, <2>4, <2>6 DEF Delivery!Take, AcknowledgedPackets
  <2>8. QED
    BY <1>0, <2>7 DEF Delivers, Delivery!Next
<1>6. QED
  BY <1>4, <1>5

(* The claim file appears: what was in the hands is recorded.              *)
LEMMA ClaimOpenStep ==
  ASSUME AdminInv, NEW o \in Operator, NEW c \in Claim, ClaimOpen(o, c)
  PROVE  Delivers
<1>0. LocalTypeOK /\ LedgerTypeOK /\ OperatorInv(o) /\ o \in Actor
  BY PartsFromInv, QueueAdminAssumption
<1>1. pc[o] = "claim_open" /\ pkt[o] \in Packet /\ pkt[o] # NoPacket
  BY <1>0, TransportAssumption DEF ClaimOpen, OperatorInv, LocalInv
<1>2. /\ claim[c].status = "absent"
      /\ claim'[c] = [status |-> "empty", packet |-> pkt[o], envelope |-> TRUE]
      /\ \A d \in Claim \ {c} : claim'[d] = claim[d]
  BY <1>0, <1>1, CreateFileEffect DEF ClaimOpen
<1>3. OnlyActor(o) /\ pc'[o] = "claim_write" /\ cl'[o] = c
  <2>1. Goto(o, "claim_write") /\ cl' = [cl EXCEPT ![o] = c] /\ pkt' = pkt
    BY DEF ClaimOpen
  <2>2. QED
    BY <1>0, <2>1 DEF LocalTypeOK, Goto, OnlyActor, SameActor
<1>4. LocalTypeOK'
  BY <1>0 DEF ClaimOpen, LocalTypeOK, Goto, OperatorPc, adminVars
<1>5. Hand' = [Hand EXCEPT ![o] = NoPacket] /\ Hand[o] = pkt[o]
  BY <1>0, <1>1, <1>3, <1>4, HandEmptied DEF Hand, InHandPc
<1>6. Recorded[c] = NoPacket /\ Recorded' = [Recorded EXCEPT ![c] = pkt[o]]
  <2>1. \A d \in Claim : (IF claim'[d].status = "absent" THEN NoPacket ELSE claim'[d].packet)
                         = IF d = c THEN pkt[o] ELSE IF claim[d].status = "absent" THEN NoPacket ELSE claim[d].packet
    BY <1>2
  <2>2. QED
    BY <1>2, <2>1 DEF Recorded
<1>7. OverClaims' = OverClaims
  <2>1. ~ Over(c) /\ ~ Over(c)'
    BY <1>0, <1>2, <1>3 DEF Over, CreatorPc
  <2>2. ASSUME NEW d \in Claim \ {c} PROVE Over(d) <=> Over(d)'
    BY <1>1, <1>2, <1>3 DEF Over, OnlyActor, SameActor, CreatorPc
  <2>3. QED
    BY <2>1, <2>2 DEF OverClaims
<1>8. Delivery!Record(o, c)
  BY <1>1, <1>5, <1>6, <1>7 DEF Delivery!Record, ClaimOpen, brokerVars, AcknowledgedPackets
<1>9. QED
  BY <1>0, <1>8 DEF Delivers, Delivery!Next

(* The first status a claim file gets leaves the claim open.               *)
LEMMA ClaimWriteStep ==
  ASSUME AdminInv, NEW o \in Operator, ClaimWrite(o)
  PROVE  Delivers
<1>0. LocalTypeOK /\ LedgerTypeOK /\ CreatorInv /\ OperatorInv(o) /\ o \in Actor
  BY PartsFromInv, QueueAdminAssumption
<1>1. pc[o] = "claim_write" /\ cl[o] \in Claim /\ claim[cl[o]].status = "empty"
  BY <1>0 DEF ClaimWrite, OperatorInv, LocalInv, ClaimPc, CreatorInv
<1>2. PICK d \in Claim : d = cl[o] /\ claim'[d].status \in {"claimed", "invalid"} /\ OnlyStatusOf(d)
  <2>1. WriteFile(cl[o], "invalid") \/ WriteFile(cl[o], "claimed")
    BY DEF ClaimWrite
  <2>2. QED
    BY <1>0, <1>1, <2>1, WriteFileEffect DEF ClaimStatus
<1>3. OnlyActor(o) /\ pc'[o] \in {"idle", "claim_mark"} /\ LocalTypeOK'
  <2>1. CASE Return(o)
    BY <1>0, <2>1, ReturnIsOwn, ReturnEffect
  <2>2. CASE Goto(o, "claim_mark") /\ UNCHANGED <<pkt, cl, adminVars>>
    <3>1. OnlyActor(o) /\ pc'[o] = "claim_mark"
      BY <1>0, <2>2, GotoIsOwn
    <3>2. LocalTypeOK'
      BY <1>0, <2>2 DEF LocalTypeOK, Goto, OperatorPc, adminVars
    <3>3. QED
      BY <3>1, <3>2
  <2>3. QED
    BY <2>1, <2>2 DEF ClaimWrite
<1>4. Hand' = Hand
  BY <1>0, <1>1, <1>3, HandKept
<1>5. Recorded' = Recorded
  BY <1>1, <1>2 DEF Recorded, OnlyStatusOf
<1>6. OverClaims' = OverClaims
  <2>1. ~ Over(d) /\ ~ Over(d)'
    BY <1>0, <1>1, <1>2 DEF Over, CreatorPc
  <2>2. ASSUME NEW e \in Claim \ {d} PROVE Over(e) <=> Over(e)'
    BY <1>1, <1>2, <1>3 DEF Over, OnlyActor, SameActor, OnlyStatusOf, CreatorPc
  <2>3. QED
    BY <2>1, <2>2 DEF OverClaims
<1>7. UNCHANGED queue /\ AcknowledgedPackets' = AcknowledgedPackets
  BY DEF ClaimWrite, brokerVars, AcknowledgedPackets
<1>8. QED
  BY <1>4, <1>5, <1>6, <1>7 DEF Delivers, Delivery!deliveryVars

(* Truncating a claim file, or writing a final status into it, closes it.  *)
LEMMA CloseStep ==
  ASSUME AdminInv, OthersIdle, NEW o \in Operator, OnlyActor(o), NEW c \in Claim, cl[o] = c,
         OnlyStatusOf(c), claim[c].status # "absent",
         claim'[c].status \notin {"absent", "claimed", "invalid"},
         UNCHANGED <<queue, row>>, LocalTypeOK', claim[c].packet \in Packet,
         pc[o] \notin {"claim_open", "claim_write"}, pc'[o] \notin {"claim_open", "claim_write"}
  PROVE  Delivers
<1>0. LocalTypeOK
  BY PartsFromInv
<1>1. Hand' = Hand
  BY <1>0, HandKept
<1>2. Recorded' = Recorded /\ OverClaims' = OverClaims \cup {c}
  BY ClaimClosed
<1>3. Recorded[c] # NoPacket
  BY TransportAssumption DEF Recorded
<1>4. Delivery!Close(c)
  BY <1>1, <1>2, <1>3 DEF Delivery!Close, AcknowledgedPackets
<1>5. QED
  BY <1>4 DEF Delivers, Delivery!Next
-----------------------------------------------------------------------------
(* Whatever a command does, it moves no other actor.                       *)
LEMMA StepIsOwn ==
  ASSUME AdminInv, NEW o \in Operator, OperatorStep(o)
  PROVE  OnlyActor(o)
<1> USE QueueAdminAssumption
<1>0. LocalTypeOK
  BY PartsFromInv
<1>1. CASE \/ \E p \in Packet : SendPublish(o, p)
           \/ \E r, t \in Packet : ReturnSend(o, r, t)
           \/ RequeuePublish(o)
  BY <1>0, <1>1 DEF SendPublish, ReturnSend, RequeuePublish, LocalTypeOK, OnlyActor, SameActor, Goto, Finish, Return, adminVars
<1>2. ASSUME NEW q \in Queue, TakeHead(o, q) PROVE OnlyActor(o)
  BY <1>0, <1>2 DEF TakeHead, LocalTypeOK, OnlyActor, SameActor, Goto, Finish, Return, adminVars
<1>3. CASE \E q \in Queue : ClaimPop(o, q)
  BY <1>2, <1>3 DEF ClaimPop
<1>4. CASE \E c \in Claim : ClaimOpen(o, c) \/ AckLoad(o, c) \/ RequeueLoad(o, c)
  BY <1>0, <1>4 DEF ClaimOpen, AckLoad, RequeueLoad, Load, LocalTypeOK, OnlyActor, SameActor, Goto, Finish, Return, adminVars
<1>5. CASE SendRecord(o) \/ ClaimWrite(o) \/ ClaimMark(o)
  BY <1>0, <1>5 DEF SendRecord, ClaimWrite, ClaimMark, LocalTypeOK, OnlyActor, SameActor, Goto, Finish, Return, adminVars
<1>6. CASE ReturnAckLoad(o) \/ AckOpen(o) \/ AckWrite(o) \/ AckMark(o)
  BY <1>0, <1>6 DEF ReturnAckLoad, AckOpen, AckWrite, AckMark, Load, LocalTypeOK, OnlyActor, SameActor, Goto, Finish, Return, adminVars
<1>7. CASE ReturnRequeueLoad(o) \/ RequeueOpen(o) \/ RequeueWrite(o) \/ RequeueMark(o)
  BY <1>0, <1>7 DEF ReturnRequeueLoad, RequeueOpen, RequeueWrite, RequeueMark, Load, LocalTypeOK, OnlyActor, SameActor, Goto, Finish, Return, adminVars
<1>8. CASE ReturnList(o)
  BY <1>0, <1>8 DEF ReturnList, LocalTypeOK, OnlyActor, SameActor, Goto, Finish, Return, adminVars
<1>9. CASE DbFails(o) \/ Crash(o)
  BY <1>0, <1>9 DEF DbFails, Crash, LocalTypeOK, OnlyActor, SameActor, Goto, Finish, Return, adminVars
<1>10. CASE ReturnPop(o)
  <2>1. Home[target[o]] \in Queue
    BY <1>10, PartsFromInv, TransportAssumption DEF ReturnPop, OperatorInv, LocalInv
  <2>2. CASE queue[Home[target[o]]] = <<>>
    BY <1>0, <1>10, <2>2 DEF ReturnPop, LocalTypeOK, OnlyActor, SameActor, Goto, Finish, Return, adminVars
  <2>3. CASE queue[Home[target[o]]] # <<>>
    BY <1>2, <1>10, <2>1, <2>3 DEF ReturnPop
  <2>4. QED
    BY <2>2, <2>3
<1>11. QED
  BY <1>1, <1>3, <1>4, <1>5, <1>6, <1>7, <1>8, <1>9, <1>10 DEF OperatorStep

(* Sending, and publishing again, puts a packet on its queue.              *)
LEMMA PublishesDeliver ==
  ASSUME AdminInv, LocalTypeOK', NEW o \in Operator, OnlyActor(o),
         \/ \E p \in Packet : SendPublish(o, p)
         \/ \E r, t \in Packet : ReturnSend(o, r, t)
         \/ RequeuePublish(o)
  PROVE  Delivers
<1>0. LocalTypeOK /\ LedgerTypeOK /\ OperatorInv(o) /\ LedgerInv /\ o \in Actor
  BY PartsFromInv, QueueAdminAssumption
<1>1. ASSUME NEW p \in Packet, SendPublish(o, p) PROVE Delivers
  <2>1. pc[o] = "idle" /\ pc'[o] = "record_send"
    BY <1>0, <1>1 DEF SendPublish, Goto, LocalTypeOK
  <2>2. Publish(p) /\ UNCHANGED <<claim, row>>
    BY <1>1 DEF SendPublish
  <2>3. QED
    BY <2>1, <2>2, PublishStep
<1>2. ASSUME NEW r \in Packet, NEW t \in Packet, ReturnSend(o, r, t) PROVE Delivers
  <2>1. pc[o] = "idle" /\ pc'[o] = "record_send"
    BY <1>0, <1>2 DEF ReturnSend, Goto, LocalTypeOK
  <2>2. Publish(r) /\ UNCHANGED <<claim, row>>
    BY <1>2 DEF ReturnSend
  <2>3. QED
    BY <2>1, <2>2, PublishStep
<1>3. CASE RequeuePublish(o)
  <2>1. pc[o] = "req_publish" /\ pc'[o] = "req_open" /\ UNCHANGED <<claim, row>>
    BY <1>0, <1>3 DEF RequeuePublish, Goto, LocalTypeOK
  <2>2. pkt[o] \in Packet
    BY <1>0, <2>1 DEF OperatorInv, LocalInv, ClaimPc, LedgerInv
  <2>3. CASE Publish(pkt[o])
    BY <2>1, <2>2, <2>3, PublishStep
  <2>4. CASE UNCHANGED brokerVars
    BY <2>1, <2>4, UnseenStep DEF brokerVars, AcknowledgedPackets
  <2>5. QED
    BY <1>3, <2>3, <2>4 DEF RequeuePublish
<1>4. QED
  BY <1>1, <1>2, <1>3

(* Loading a record, listing claims and a failing requeue statement are    *)
(* not seen.                                                               *)
LEMMA QuietDelivers ==
  ASSUME AdminInv, LocalTypeOK', NEW o \in Operator, OnlyActor(o),
         \/ \E c \in Claim : AckLoad(o, c) \/ RequeueLoad(o, c)
         \/ ReturnAckLoad(o) \/ ReturnRequeueLoad(o) \/ RequeueMark(o)
         \/ ReturnList(o) \/ DbFails(o)
  PROVE  Delivers
<1>0. LocalTypeOK /\ o \in Actor
  BY PartsFromInv, QueueAdminAssumption
<1>1. UNCHANGED <<queue, claim, row>>
  BY DEF AckLoad, RequeueLoad, ReturnAckLoad, ReturnRequeueLoad, RequeueMark, ReturnList, DbFails, brokerVars
<1>2. pc[o] \notin {"claim_open", "claim_write"}
  BY DEF AckLoad, RequeueLoad, ReturnAckLoad, ReturnRequeueLoad, RequeueMark, ReturnList, DbFails
<1>3. pc'[o] \notin {"claim_open", "claim_write"}
  BY <1>0 DEF AckLoad, RequeueLoad, ReturnAckLoad, ReturnRequeueLoad, RequeueMark, ReturnList, DbFails,
              Load, Goto, Return, Finish, LocalTypeOK
<1>4. QED
  BY <1>1, <1>2, <1>3, UnseenStep DEF AcknowledgedPackets

(* A row that is inserted, or marked claimed, is at most a Reclaim.        *)
LEMMA MarksDeliver ==
  ASSUME AdminInv, LocalTypeOK', NEW o \in Operator, OnlyActor(o), SendRecord(o) \/ ClaimMark(o)
  PROVE  Delivers
<1>0. LocalTypeOK /\ LedgerTypeOK /\ LedgerInv /\ OperatorInv(o) /\ row \in [Packet -> RowStatus] /\ o \in Actor
  BY PartsFromInv, QueueAdminAssumption
<1>1. UNCHANGED <<queue, claim>>
  BY DEF SendRecord, ClaimMark, brokerVars
<1>2. pc[o] \in {"record_send", "claim_mark"} /\ pc'[o] \notin {"claim_open", "claim_write"}
  BY <1>0 DEF SendRecord, ClaimMark, Goto, Return, Finish, LocalTypeOK
<1>3. pkt[o] \in Packet
  BY <1>0, <1>2 DEF OperatorInv, LocalInv, ClaimPc, LedgerInv
<1>4. CASE InsertRow(pkt[o])
  <2>1. AcknowledgedPackets' = AcknowledgedPackets
    BY <1>0, <1>3, <1>4 DEF InsertRow, AcknowledgedPackets, RowStatus
  <2>2. QED
    BY <1>1, <1>2, <2>1, UnseenStep
<1>5. CASE UpdateRow(pkt[o], "claimed")
  <2>1. AcknowledgedPackets' = AcknowledgedPackets \ {pkt[o]}
    BY <1>0, <1>3, <1>5 DEF UpdateRow, AcknowledgedPackets, RowStatus
  <2>2. Hand' = Hand /\ Recorded' = Recorded /\ OverClaims' = OverClaims
    BY <1>0, <1>1, <1>2, HandKept, LedgerKept
  <2>3. Delivery!Reclaim(pkt[o])
    BY <1>1, <2>1, <2>2 DEF Delivery!Reclaim
  <2>4. QED
    BY <1>3, <2>3 DEF Delivers, Delivery!Next
<1>6. QED
  BY <1>4, <1>5 DEF SendRecord, ClaimMark

(* An acknowledged row has a delivery that is over: the one just closed.   *)
LEMMA AckMarkDelivers ==
  ASSUME AdminInv, OthersIdle, LocalTypeOK', NEW o \in Operator, OnlyActor(o), AckMark(o)
  PROVE  Delivers
<1>0. /\ LocalTypeOK /\ LedgerTypeOK /\ LedgerInv /\ CreatorInv /\ OperatorInv(o)
      /\ row \in [Packet -> RowStatus] /\ o \in Actor
  BY PartsFromInv, QueueAdminAssumption
<1>1. UNCHANGED <<queue, claim>> /\ pc[o] = "ack_mark" /\ pc'[o] = "idle"
  BY <1>0 DEF AckMark, brokerVars, Return, Finish, LocalTypeOK
<1>2. PICK c \in Claim : /\ c = cl[o] /\ pkt[o] = claim[c].packet
                         /\ claim[c].status \notin {"absent", "claimed", "invalid"}
  BY <1>0, <1>1 DEF OperatorInv, LocalInv, ClaimPc
<1>3. pkt[o] \in Packet
  BY <1>0, <1>2 DEF LedgerInv
<1>4. c \in OverClaims /\ Recorded[c] = pkt[o]
  <2>1. Closed(c)
    BY <1>0, <1>1, <1>2 DEF Closed, CreatorInv
  <2>2. QED
    BY <1>0, <1>2, <2>1, OverIsClosed DEF OverClaims, Recorded
<1>5. Hand' = Hand /\ Recorded' = Recorded /\ OverClaims' = OverClaims
  BY <1>0, <1>1, HandKept, LedgerKept
<1>6. AcknowledgedPackets' = AcknowledgedPackets \/ AcknowledgedPackets' = AcknowledgedPackets \cup {pkt[o]}
  BY <1>0, <1>3 DEF AckMark, UpdateRow, AcknowledgedPackets, RowStatus
<1>7. CASE AcknowledgedPackets' = AcknowledgedPackets
  BY <1>1, <1>5, <1>7 DEF Delivers, Delivery!deliveryVars
<1>8. CASE AcknowledgedPackets' = AcknowledgedPackets \cup {pkt[o]}
  <2>1. Delivery!Acknowledge(pkt[o])
    BY <1>1, <1>4, <1>5, <1>8 DEF Delivery!Acknowledge
  <2>2. QED
    BY <1>3, <2>1 DEF Delivers, Delivery!Next
<1>9. QED
  BY <1>6, <1>7, <1>8

(* Rewriting the file of a claim ends that delivery.                       *)
LEMMA RewritesDeliver ==
  ASSUME AdminInv, OthersIdle, LocalTypeOK', NEW o \in Operator, OnlyActor(o),
         AckOpen(o) \/ RequeueOpen(o) \/ AckWrite(o) \/ RequeueWrite(o)
  PROVE  Delivers
<1>0. LocalTypeOK /\ LedgerTypeOK /\ LedgerInv /\ OperatorInv(o) /\ o \in Actor
  BY PartsFromInv, QueueAdminAssumption
<1>1. UNCHANGED <<queue, row>> /\ pc[o] \in {"ack_open", "req_open", "ack_write", "req_write"}
  BY DEF AckOpen, RequeueOpen, AckWrite, RequeueWrite, brokerVars
<1>2. pc'[o] \notin {"claim_open", "claim_write"}
  BY <1>0 DEF AckOpen, RequeueOpen, AckWrite, RequeueWrite, Goto, Return, Finish, LocalTypeOK
<1>3. PICK c \in Claim : c = cl[o] /\ claim[c].status # "absent" /\ claim[c].packet \in Packet
  BY <1>0, <1>1 DEF OperatorInv, LocalInv, ClaimPc, LedgerInv
<1>4. OnlyStatusOf(c) /\ claim'[c].status \notin {"absent", "claimed", "invalid"}
  <2>1. CASE AckOpen(o) \/ RequeueOpen(o)
    BY <1>0, <1>3, <2>1, TruncateEffect DEF AckOpen, RequeueOpen
  <2>2. CASE AckWrite(o)
    BY <1>0, <1>3, <2>2, WriteFileEffect DEF AckWrite, ClaimStatus
  <2>3. CASE RequeueWrite(o)
    BY <1>0, <1>3, <2>3, WriteFileEffect DEF RequeueWrite, ClaimStatus
  <2>4. QED
    BY <2>1, <2>2, <2>3
<1>5. QED
  BY <1>0, <1>1, <1>2, <1>3, <1>4, CloseStep

(* A death loses what is in the hands, and leaves a file it was creating   *)
(* without a status.                                                       *)
LEMMA CrashDelivers ==
  ASSUME AdminInv, OthersIdle, LocalTypeOK', NEW o \in Operator, OnlyActor(o), Crash(o)
  PROVE  Delivers
<1>0. LocalTypeOK /\ LedgerTypeOK /\ LedgerInv /\ CreatorInv /\ OperatorInv(o) /\ o \in Actor
  BY PartsFromInv, QueueAdminAssumption
<1>1. UNCHANGED <<queue, claim, row>> /\ pc'[o] = "idle"
  BY <1>0 DEF Crash, brokerVars, Return, Finish, LocalTypeOK
<1>2. AcknowledgedPackets' = AcknowledgedPackets /\ Recorded' = Recorded
  BY <1>1 DEF AcknowledgedPackets, Recorded
<1>3. CASE pc[o] = "claim_open"
  <2>1. Hand' = [Hand EXCEPT ![o] = NoPacket] /\ OverClaims' = OverClaims
    BY <1>0, <1>1, <1>3, HandEmptied, LedgerKept
  <2>2. Delivery!Lose(o)
    BY <1>1, <1>2, <2>1 DEF Delivery!Lose
  <2>3. QED
    BY <1>0, <2>2 DEF Delivers, Delivery!Next
<1>4. CASE pc[o] = "claim_write"
  <2>1. PICK c \in Claim : c = cl[o] /\ claim[c].status = "empty" /\ claim[c].packet \in Packet
    BY <1>0, <1>4 DEF OperatorInv, LocalInv, ClaimPc, CreatorInv, LedgerInv
  <2>2. \A a \in Actor \ {o} : pc[a] \in CreatorPc => cl[a] # c
    <3>1. ASSUME NEW a \in Actor \ {o}, pc[a] \in CreatorPc PROVE a \in Operator
      BY <3>1 DEF OthersIdle, CreatorPc
    <3>2. QED
      BY <1>0, <1>4, <2>1, <3>1 DEF CreatorInv
  <2>3. Over(c)'
    BY <1>1, <2>1, <2>2 DEF Over, OnlyActor, SameActor, CreatorPc
  <2>4. ASSUME NEW d \in Claim \ {c} PROVE Over(d) <=> Over(d)'
    BY <1>1, <2>1 DEF Over, OnlyActor, SameActor, CreatorPc
  <2>5. OverClaims' = OverClaims \cup {c}
    BY <2>3, <2>4 DEF OverClaims
  <2>6. Hand' = Hand /\ Recorded[c] # NoPacket
    BY <1>0, <1>1, <1>4, <2>1, HandKept, TransportAssumption DEF Recorded
  <2>7. Delivery!Close(c)
    BY <1>1, <1>2, <2>5, <2>6 DEF Delivery!Close
  <2>8. QED
    BY <2>7 DEF Delivers, Delivery!Next
<1>5. CASE pc[o] \notin {"claim_open", "claim_write"}
  BY <1>1, <1>2, <1>5, UnseenStep
<1>6. QED
  BY <1>3, <1>4, <1>5

(* Every step of a command is a step of PacketDelivery or unseen.          *)
LEMMA OperatorStepDelivers ==
  ASSUME AdminInv, OthersIdle, LocalTypeOK', NEW o \in Operator, OperatorStep(o)
  PROVE  Delivers
<1>0. OnlyActor(o)
  BY StepIsOwn
<1>1. CASE \/ \E p \in Packet : SendPublish(o, p)
           \/ \E r, t \in Packet : ReturnSend(o, r, t)
           \/ RequeuePublish(o)
  BY <1>0, <1>1, PublishesDeliver
<1>2. CASE \E q \in Queue : ClaimPop(o, q)
  BY <1>2, TakeStep DEF ClaimPop
<1>3. CASE \E c \in Claim : ClaimOpen(o, c)
  BY <1>3, ClaimOpenStep
<1>4. CASE ClaimWrite(o)
  BY <1>4, ClaimWriteStep
<1>5. CASE \/ \E c \in Claim : AckLoad(o, c) \/ RequeueLoad(o, c)
           \/ ReturnAckLoad(o) \/ ReturnRequeueLoad(o) \/ RequeueMark(o)
           \/ ReturnList(o) \/ DbFails(o)
  BY <1>0, <1>5, QuietDelivers
<1>6. CASE SendRecord(o) \/ ClaimMark(o)
  BY <1>0, <1>6, MarksDeliver
<1>7. CASE AckMark(o)
  BY <1>0, <1>7, AckMarkDelivers
<1>8. CASE AckOpen(o) \/ RequeueOpen(o) \/ AckWrite(o) \/ RequeueWrite(o)
  BY <1>0, <1>8, RewritesDeliver
<1>9. CASE Crash(o)
  BY <1>0, <1>9, CrashDelivers
<1>10. CASE ReturnPop(o)
  <2>1. Home[target[o]] \in Queue /\ pc[o] = "ret_pop"
    BY <1>10, PartsFromInv, TransportAssumption DEF ReturnPop, OperatorInv, LocalInv
  <2>2. CASE queue[Home[target[o]]] = <<>>
    <3>1. UNCHANGED <<queue, claim, row>> /\ Return(o)
      BY <1>10, <2>2 DEF ReturnPop, brokerVars
    <3>2. pc'[o] = "idle"
      BY <3>1, PartsFromInv, ReturnIsOwn
    <3>3. QED
      BY <1>0, <2>1, <3>1, <3>2, UnseenStep DEF AcknowledgedPackets
  <2>3. CASE queue[Home[target[o]]] # <<>>
    BY <1>10, <2>1, <2>3, TakeStep DEF ReturnPop
  <2>4. QED
    BY <2>2, <2>3
<1>11. QED
  BY <1>1, <1>2, <1>3, <1>4, <1>5, <1>6, <1>7, <1>8, <1>9, <1>10 DEF OperatorStep

-----------------------------------------------------------------------------
(* The invariant the refinement adds to AdminInv.                          *)
LEMMA OthersStayIdle ==
  ASSUME AdminInv, OthersIdle, [AdminStep]_adminSystemVars
  PROVE  OthersIdle'
<1>1. CASE \E o \in Operator : OperatorStep(o)
  BY <1>1, StepIsOwn DEF OthersIdle, OnlyActor, SameActor
<1>2. CASE \E q \in Queue : Purge(q)
  BY <1>2 DEF Purge, localVars, OthersIdle
<1>3. CASE \E p \in Packet : ForeignPublish(p)
  BY <1>3 DEF ForeignPublish, localVars, OthersIdle
<1>4. CASE UNCHANGED adminSystemVars
  BY <1>4 DEF adminSystemVars, transportVars, OthersIdle
<1>5. QED
  BY <1>1, <1>2, <1>3, <1>4 DEF AdminStep

(* Every step of the instance is a step of PacketDelivery or unseen.       *)
LEMMA AdminStepDelivers ==
  ASSUME AdminInv, AdminInv', OthersIdle, [AdminStep]_adminSystemVars
  PROVE  [Delivery!Next]_(Delivery!deliveryVars)
<1>0. LocalTypeOK' /\ LocalTypeOK
  BY PartsFromInv DEF AdminInv, AdminTypeOK, LocalTypeOK
<1>1. CASE \E o \in Operator : OperatorStep(o)
  BY <1>0, <1>1, OperatorStepDelivers DEF Delivers
<1>2. ASSUME NEW q \in Queue, Purge(q) PROVE Delivery!Next
  <2>1. Delivery!Purge(q)
    BY <1>2 DEF Purge, Delivery!Purge, localVars, Hand, Recorded, OverClaims, Over, AcknowledgedPackets
  <2>2. QED
    BY <2>1 DEF Delivery!Next
<1>3. ASSUME NEW p \in Packet, ForeignPublish(p) PROVE Delivers
  <2>1. Publish(p) /\ UNCHANGED row
    BY <1>3 DEF ForeignPublish
  <2>2. Hand' = Hand /\ Recorded' = Recorded /\ OverClaims' = OverClaims
    BY <1>3 DEF ForeignPublish, localVars, Hand, Recorded, OverClaims, Over
  <2>3. QED
    BY <2>1, <2>2, PutStep
<1>4. CASE UNCHANGED adminSystemVars
  BY <1>4 DEF adminSystemVars, transportVars, Delivery!deliveryVars, Hand, Recorded, OverClaims, Over,
              AcknowledgedPackets
<1>5. QED
  BY <1>1, <1>2, <1>3, <1>4 DEF AdminStep, Delivers

(* The commands start where PacketDelivery starts.                         *)
LEMMA AdminInitDelivers == AdminSystemInit => Delivery!Init /\ OthersIdle
<1> SUFFICES ASSUME AdminSystemInit PROVE Delivery!Init /\ OthersIdle
  OBVIOUS
<1>1. TransportInit
  BY DEF AdminSystemInit
<1>2. Hand = [a \in Actor |-> NoPacket]
  BY <1>1 DEF TransportInit, Hand
<1>3. Recorded = [c \in Claim |-> NoPacket]
  BY <1>1 DEF TransportInit, Recorded, NoRecord
<1>4. OverClaims = {} /\ AcknowledgedPackets = {}
  BY <1>1 DEF TransportInit, OverClaims, Over, NoRecord, AcknowledgedPackets
<1>5. OthersIdle
  BY <1>1, QueueAdminAssumption DEF TransportInit, OthersIdle
<1>6. QED
  BY <1>1, <1>2, <1>3, <1>4, <1>5 DEF Delivery!Init, TransportInit

(* Any number of concurrent commands, with crashes and failing statements, *)
(* delivers packets as PacketDelivery promises.                            *)
THEOREM CommandsDeliverAsPromised == AdminSpec => DeliversAsPromised
<1>1. AdminSystemInit => Delivery!Init /\ OthersIdle
  BY AdminInitDelivers
<1>2. AdminInv /\ OthersIdle /\ [AdminStep]_adminSystemVars => OthersIdle'
  BY OthersStayIdle
<1>3. AdminInv /\ AdminInv' /\ OthersIdle /\ [AdminStep]_adminSystemVars
        => [Delivery!Next]_(Delivery!deliveryVars)
  BY AdminStepDelivers
<1>4. QED
  BY <1>1, <1>2, <1>3, AdminInvariance, PTL DEF AdminSpec, DeliversAsPromised, Delivery!Spec

-----------------------------------------------------------------------------
(* Hosts and commands together.  One lemma says what a step of one actor   *)
(* may do to what the others know; the lemma of an action shows that the   *)
(* action is such a step.                                                  *)

RowTypeOK == row \in [Packet -> RowStatus]

LocalsOK ==
  /\ pc \in [Actor -> OperatorPc \cup HostPc]
  /\ pkt \in [Actor -> Packet \cup {NoPacket}]
  /\ cl \in [Actor -> Claim \cup {NoClaim}]
  /\ target \in [Operator -> Packet \cup {NoPacket}]
  /\ result \in [Host -> Packet \cup {NoPacket}]
  /\ source \in [Packet -> Packet \cup {NoPacket}]

(* Every actor is an operator or a host, and none is both.                 *)
LEMMA Actors == Operator \subseteq Actor /\ Host \subseteq Actor /\ Actor = Operator \cup Host
                /\ Operator \cap Host = {}
BY RuntimeSystemAssumption

(* RuntimeInv, taken apart for the step lemmas.                            *)
LEMMA RuntimeParts ==
  ASSUME RuntimeInv
  PROVE  /\ BrokerTypeOK /\ LedgerTypeOK /\ RowTypeOK /\ LocalsOK
         /\ \A o \in Operator : CommandInv(o)
         /\ \A h \in Host : HostInv(h)
         /\ FilesRecorded /\ CreatorsAlone /\ AcknowledgedBacked
BY Actors DEF RuntimeInv, SystemTypeOK, BrokerTypeOK, LedgerTypeOK, RowTypeOK, LocalsOK, ActorInv

(* An actor without a claim points nowhere, any other at a file that exists. *)
LEMMA ClaimOfActor ==
  ASSUME RuntimeInv, NEW a \in Actor
  PROVE  cl[a] = NoClaim \/ (cl[a] \in Claim /\ claim[cl[a]].status # "absent")
<1>1. CASE a \in Operator
  BY <1>1, RuntimeParts DEF CommandInv
<1>2. CASE a \in Host
  BY <1>2, RuntimeParts DEF HostInv
<1>3. QED
  BY <1>1, <1>2, Actors

(* A creator points at the file it is creating.                            *)
LEMMA ClaimOfCreator ==
  ASSUME RuntimeInv, NEW a \in Actor, pc[a] \in CreatorPc
  PROVE  cl[a] \in Claim /\ claim[cl[a]].status = "empty"
<1>1. claim[cl[a]].status = "empty"
  BY RuntimeParts DEF CreatorsAlone
<1>2. CASE a \in Operator
  <2>1. CommandInv(a)
    BY <1>2, RuntimeParts
  <2>2. pc[a] = "claim_write"
    BY <2>1 DEF CommandInv, CreatorPc, OperatorPc
  <2>3. QED
    BY <1>1, <2>1, <2>2 DEF CommandInv, ClaimPc
<1>3. CASE a \in Host
  <2>1. HostInv(a)
    BY <1>3, RuntimeParts
  <2>2. QED
    BY <1>1, <2>1 DEF HostInv, HostPc, CreatorPc
<1>4. QED
  BY <1>1, <1>2, <1>3, Actors

-----------------------------------------------------------------------------
(* What a step of one actor may do. *)

(* No other actor moves. *)
OnlyOwn(a) ==
  /\ OnlyActor(a)
  /\ \A o \in Operator \ {a} : target'[o] = target[o]
  /\ \A h \in Host \ {a} : result'[h] = result[h]

(* A claim file is created for a packet, or the actor writes its own: only *)
(* the creator may leave the claim open.                                   *)
Creates(c) == claim[c].status = "absent" /\ claim'[c].status = "empty" /\ claim'[c].packet \in Packet

Rewrites(a, c) ==
  /\ c = cl[a]
  /\ claim'[c].packet = claim[c].packet /\ claim'[c].envelope = claim[c].envelope
  /\ claim'[c].status # "absent"
  /\ pc[a] \in CreatorPc \/ claim'[c].status \notin {"claimed", "invalid"}

LedgerStep(a) == \A c \in Claim : claim'[c] = claim[c] \/ Creates(c) \/ Rewrites(a, c)

(* A row stays, and is acknowledged only over a closed claim. *)
RowStep ==
  \A p \in Packet :
    /\ row[p] # "absent" => row'[p] # "absent"
    /\ row'[p] = "acknowledged" =>
         row[p] = "acknowledged" \/ \E c \in Claim : claim[c].packet = p /\ Over(c)

(* An actor turns to a file nobody is creating, unless it creates it. *)
ClaimStep(a) ==
  /\ \/ cl'[a] \in {NoClaim, cl[a]}
     \/ cl'[a] \in Claim /\ claim[cl'[a]].status # "empty"
  /\ pc'[a] \in CreatorPc =>
       cl'[a] \in Claim /\ claim[cl'[a]].status = "absent" /\ claim'[cl'[a]].status = "empty"

ActorStep(a) == OnlyOwn(a) /\ LedgerStep(a) /\ RowStep /\ ClaimStep(a)

(* What another actor creates, nobody else writes.                         *)
LEMMA CreatedKept ==
  ASSUME RuntimeInv, NEW a \in Actor, LedgerStep(a), NEW b \in Actor \ {a}, pc[b] \in CreatorPc
  PROVE  claim'[cl[b]] = claim[cl[b]]
<1>1. cl[b] \in Claim /\ claim[cl[b]].status = "empty"
  BY ClaimOfCreator
<1>2. cl[a] # cl[b]
  BY RuntimeParts DEF CreatorsAlone
<1>3. QED
  BY <1>1, <1>2 DEF LedgerStep, Creates, Rewrites

(* A claim that is over stays over.                                        *)
LEMMA OverStays ==
  ASSUME RuntimeInv, NEW a \in Actor, ActorStep(a), NEW c \in Claim, Over(c)
  PROVE  Over(c)' /\ claim'[c].packet = claim[c].packet
<1>1. /\ claim'[c].status \notin {"absent", "claimed", "invalid"}
      /\ claim'[c].packet = claim[c].packet
  BY DEF ActorStep, LedgerStep, Creates, Rewrites, Over
<1>2. ASSUME NEW b \in Actor, pc'[b] \in CreatorPc PROVE cl'[b] # c
  <2>1. CASE b = a
    BY <1>2, <2>1 DEF ActorStep, ClaimStep, Over
  <2>2. CASE b # a
    BY <1>2, <2>2 DEF ActorStep, OnlyOwn, OnlyActor, SameActor, Over
  <2>3. QED
    BY <2>1, <2>2
<1>3. QED
  BY <1>1, <1>2 DEF Over

(* The part of RuntimeInv about another command survives the step.         *)
LEMMA CommandKept ==
  ASSUME RuntimeInv, NEW a \in Actor, ActorStep(a), NEW o \in Operator \ {a}
  PROVE  CommandInv(o)'
<1>1. SameActor(o) /\ target'[o] = target[o] /\ o \in Actor
  BY Actors DEF ActorStep, OnlyOwn, OnlyActor
<1>2. CommandInv(o)
  BY RuntimeParts
<1>4. CASE pc[o] \notin ClaimPc
  BY <1>1, <1>2, <1>4 DEF CommandInv, SameActor, ClaimPc
<1>5. CASE pc[o] \in ClaimPc
  <2>1. cl[o] \in Claim /\ claim[cl[o]].status # "absent"
    BY <1>2, <1>5 DEF CommandInv
  <2>2. /\ claim'[cl[o]].status # "absent"
        /\ claim'[cl[o]].packet = claim[cl[o]].packet
        /\ claim'[cl[o]].envelope = claim[cl[o]].envelope
    BY <1>5, <2>1 DEF ActorStep, LedgerStep, Creates, Rewrites
  <2>3. pc[o] = "ack_mark" => claim'[cl[o]].status \notin {"absent", "claimed", "invalid"}
    <3>1. ASSUME pc[a] \in CreatorPc PROVE cl[o] # cl[a]
      BY <1>1, <3>1, RuntimeParts DEF CreatorsAlone
    <3>2. QED
      BY <1>2, <1>5, <2>1, <3>1 DEF CommandInv, ActorStep, LedgerStep, Creates, Rewrites
  <2>4. QED
    BY <1>1, <1>2, <1>5, <2>2, <2>3 DEF CommandInv, SameActor, Envelope
<1>6. QED
  BY <1>4, <1>5

(* So does the part about another host.                                    *)
LEMMA HostKept ==
  ASSUME RuntimeInv, NEW a \in Actor, ActorStep(a), NEW h \in Host \ {a}
  PROVE  HostInv(h)'
<1>1. SameActor(h) /\ result'[h] = result[h] /\ h \in Actor
  BY Actors DEF ActorStep, OnlyOwn, OnlyActor
<1>2. HostInv(h) /\ result[h] \in Packet \cup {NoPacket}
  BY RuntimeParts DEF LocalsOK
<1>3. pc[h] \notin {"idle", "dead", "hung", "h_open"} => claim'[cl[h]].status # "absent"
  BY <1>2 DEF HostInv, ActorStep, LedgerStep, Creates, Rewrites
<1>4. pc[h] \in WorkPc => row'[pkt[h]] # "absent"
  BY <1>2 DEF HostInv, WorkPc, ActorStep, RowStep
<1>5. pc[h] \in AckPc /\ result[h] \notin Unregistered \cup {NoPacket} => row'[result[h]] # "absent"
  BY <1>2 DEF HostInv, ActorStep, RowStep
<1>6. QED
  BY <1>1, <1>2, <1>3, <1>4, <1>5 DEF HostInv, SameActor

(* A step of one actor keeps RuntimeInv if it keeps the types and what the *)
(* actor itself must know.                                                 *)
LEMMA StepKeeps ==
  ASSUME RuntimeInv, NEW a \in Actor, ActorStep(a), ActorInv(a)',
         BrokerTypeOK', LedgerTypeOK', RowTypeOK', LocalsOK'
  PROVE  RuntimeInv'
<1>1. ASSUME NEW b \in Actor PROVE ActorInv(b)'
  <2>1. CASE b = a
    BY <2>1
  <2>2. CASE b # a
    BY <2>2, CommandKept, HostKept DEF ActorInv
  <2>3. QED
    BY <2>1, <2>2
<1>2. SystemTypeOK'
  BY <1>1, Actors DEF SystemTypeOK, BrokerTypeOK, LedgerTypeOK, RowTypeOK, LocalsOK, ActorInv, CommandInv, HostInv
<1>3. FilesRecorded'
  BY ClaimOfActor, RuntimeParts, NoClaimIsNoClaim DEF FilesRecorded, ActorStep, LedgerStep, Creates, Rewrites
<1>4. CreatorsAlone'
  <2>1. ASSUME NEW b \in Actor \ {a}, pc'[b] \in CreatorPc
        PROVE  claim'[cl'[b]].status = "empty" /\ \A d \in Actor \ {b} : cl'[d] # cl'[b]
    <3>1. SameActor(b) /\ pc[b] \in CreatorPc
      BY <2>1 DEF ActorStep, OnlyOwn, OnlyActor, SameActor
    <3>2. /\ cl[b] \in Claim /\ claim[cl[b]].status = "empty"
          /\ \A d \in Actor \ {b} : cl[d] # cl[b]
      BY <3>1, ClaimOfCreator, RuntimeParts DEF CreatorsAlone
    <3>3. claim'[cl'[b]].status = "empty"
      BY <3>1, <3>2, CreatedKept DEF ActorStep, SameActor
    <3>4. cl'[a] # cl[b]
      BY <3>2, NoClaimIsNoClaim DEF ActorStep, ClaimStep
    <3>5. QED
      BY <3>1, <3>2, <3>3, <3>4 DEF ActorStep, OnlyOwn, OnlyActor, SameActor
  <2>2. ASSUME pc'[a] \in CreatorPc
        PROVE  claim'[cl'[a]].status = "empty" /\ \A d \in Actor \ {a} : cl'[d] # cl'[a]
    <3>1. cl'[a] \in Claim /\ claim[cl'[a]].status = "absent" /\ claim'[cl'[a]].status = "empty"
      BY <2>2 DEF ActorStep, ClaimStep
    <3>2. ASSUME NEW d \in Actor \ {a} PROVE cl'[d] # cl'[a]
      BY <3>1, ClaimOfActor, NoClaimIsNoClaim DEF ActorStep, OnlyOwn, OnlyActor, SameActor
    <3>3. QED
      BY <3>1, <3>2
  <2>3. QED
    BY <2>1, <2>2 DEF CreatorsAlone
<1>5. AcknowledgedBacked'
  <2>1. ASSUME NEW p \in Packet, row'[p] = "acknowledged"
        PROVE  \E c \in Claim : claim'[c].packet = p /\ Over(c)'
    <3>1. PICK c \in Claim : claim[c].packet = p /\ Over(c)
      BY <2>1, RuntimeParts DEF ActorStep, RowStep, AcknowledgedBacked
    <3>2. QED
      BY <3>1, OverStays
  <2>2. QED
    BY <2>1 DEF AcknowledgedBacked
<1>6. QED
  BY <1>1, <1>2, <1>3, <1>4, <1>5 DEF RuntimeInv

-----------------------------------------------------------------------------
(* The kinds of step. *)

(* A command that ends, or goes on, moves only its own locals.             *)
LEMMA CommandEnds ==
  ASSUME LocalsOK, NEW o \in Operator, Return(o), UNCHANGED hostVars
  PROVE  /\ LocalsOK' /\ OnlyOwn(o)
         /\ pc'[o] = "idle" /\ cl'[o] = NoClaim /\ target'[o] = NoPacket
BY Actors DEF LocalsOK, Return, Finish, OperatorPc, hostVars, OnlyOwn, OnlyActor, SameActor

(* The same for one that goes on.                                          *)
LEMMA CommandGoes ==
  ASSUME LocalsOK, NEW o \in Operator, NEW label \in OperatorPc, Goto(o, label),
         NEW p \in Packet \cup {NoPacket}, pkt' \in {pkt, [pkt EXCEPT ![o] = p]},
         NEW c \in Claim \cup {NoClaim}, cl' \in {cl, [cl EXCEPT ![o] = c]},
         NEW t \in Packet \cup {NoPacket}, target' \in {target, [target EXCEPT ![o] = t]},
         UNCHANGED hostVars
  PROVE  LocalsOK' /\ OnlyOwn(o) /\ pc'[o] = label
BY Actors DEF LocalsOK, Goto, hostVars, OnlyOwn, OnlyActor, SameActor

(* So does a host.                                                         *)
LEMMA HostEnds ==
  ASSUME LocalsOK, NEW h \in Host, NEW label \in {"idle", "dead", "hung"}, EndIteration(h, label), UNCHANGED adminVars
  PROVE  /\ LocalsOK' /\ OnlyOwn(h)
         /\ pc'[h] = label /\ cl'[h] = NoClaim /\ result'[h] = NoPacket
BY Actors DEF LocalsOK, EndIteration, Finish, HostPc, adminVars, OnlyOwn, OnlyActor, SameActor

(* The same for a host that goes on.                                       *)
LEMMA HostGoes ==
  ASSUME LocalsOK, NEW h \in Host, NEW label \in HostPc, Goto(h, label),
         NEW p \in Packet \cup {NoPacket}, pkt' \in {pkt, [pkt EXCEPT ![h] = p]},
         NEW c \in Claim \cup {NoClaim}, cl' \in {cl, [cl EXCEPT ![h] = c]},
         UNCHANGED <<hostVars, adminVars>>
  PROVE  LocalsOK' /\ OnlyOwn(h) /\ pc'[h] = label
BY Actors DEF LocalsOK, Goto, hostVars, adminVars, OnlyOwn, OnlyActor, SameActor

(* A step that writes no claim file.                                       *)
LEMMA NoWriteKeeps ==
  ASSUME RuntimeInv, NEW a \in Actor, UNCHANGED claim, OnlyOwn(a), RowStep, pc'[a] \notin CreatorPc,
         cl'[a] \in {NoClaim, cl[a]} \/ (cl'[a] \in Claim /\ claim[cl'[a]].status # "empty"),
         ActorInv(a)', BrokerTypeOK', RowTypeOK', LocalsOK'
  PROVE  RuntimeInv'
<1>1. LedgerTypeOK'
  BY RuntimeParts DEF LedgerTypeOK
<1>2. ActorStep(a)
  BY DEF ActorStep, LedgerStep, ClaimStep
<1>3. QED
  BY <1>1, <1>2, StepKeeps

(* A step that rewrites the actor's own claim file.                        *)
LEMMA RewriteKeeps ==
  ASSUME RuntimeInv, NEW a \in Actor, NEW c \in Claim, cl[a] = c, OnlyStatusOf(c),
         claim'[c].status # "absent",
         pc[a] \in CreatorPc \/ claim'[c].status \notin {"claimed", "invalid"},
         UNCHANGED row, OnlyOwn(a), pc'[a] \notin CreatorPc, cl'[a] \in {NoClaim, cl[a]},
         ActorInv(a)', BrokerTypeOK', LedgerTypeOK', LocalsOK'
  PROVE  RuntimeInv'
<1>1. RowTypeOK' /\ RowStep
  BY RuntimeParts DEF RowTypeOK, RowStep
<1>2. ActorStep(a)
  BY <1>1 DEF ActorStep, LedgerStep, ClaimStep, Rewrites, OnlyStatusOf
<1>3. QED
  BY <1>1, <1>2, StepKeeps

(* A row that is inserted, or updated by a claim, never vanishes.          *)
LEMMA RowEffect ==
  ASSUME RowTypeOK, NEW p \in Packet,
         \/ UNCHANGED row
         \/ InsertRow(p)
         \/ UpdateRow(p, "claimed")
         \/ UpdateRow(p, "acknowledged") /\ \E c \in Claim : claim[c].packet = p /\ Over(c)
  PROVE  RowTypeOK' /\ RowStep
BY DEF RowTypeOK, RowStep, InsertRow, UpdateRow, RowStatus

(* Same without a packet at hand.                                          *)
LEMMA RowsKept ==
  ASSUME RowTypeOK, UNCHANGED row
  PROVE  RowTypeOK' /\ RowStep
BY DEF RowTypeOK, RowStep

(* The broker left alone.                                                  *)
LEMMA BrokerKept ==
  ASSUME BrokerTypeOK, UNCHANGED brokerVars
  PROVE  BrokerTypeOK'
BY DEF BrokerTypeOK, brokerVars

(* A command that ends knows nothing any more.                             *)
LEMMA CommandEndKeeps ==
  ASSUME RuntimeInv, NEW o \in Operator, Return(o), UNCHANGED <<claim, hostVars>>,
         BrokerTypeOK', RowTypeOK', RowStep
  PROVE  RuntimeInv'
<1>1. /\ LocalsOK' /\ OnlyOwn(o)
      /\ pc'[o] = "idle" /\ cl'[o] = NoClaim /\ target'[o] = NoPacket
  BY RuntimeParts, CommandEnds
<1>2. ActorInv(o)'
  BY <1>1, Actors DEF ActorInv, CommandInv, ClaimPc, OperatorPc
<1>3. QED
  BY <1>1, <1>2, NoWriteKeeps, Actors DEF CreatorPc

(* Nor does a host.                                                        *)
LEMMA HostEndKeeps ==
  ASSUME RuntimeInv, NEW h \in Host, NEW label \in {"idle", "dead", "hung"}, EndIteration(h, label),
         UNCHANGED <<claim, row, adminVars>>, BrokerTypeOK'
  PROVE  RuntimeInv'
<1>1. /\ LocalsOK' /\ OnlyOwn(h)
      /\ pc'[h] = label /\ cl'[h] = NoClaim /\ result'[h] = NoPacket
  BY RuntimeParts, HostEnds
<1>2. ActorInv(h)'
  BY <1>1, Actors DEF ActorInv, HostInv, HostPc, AckPc, WorkPc
<1>3. RowTypeOK' /\ RowStep
  BY RuntimeParts, RowsKept
<1>4. QED
  BY <1>1, <1>2, <1>3, NoWriteKeeps, Actors DEF CreatorPc

-----------------------------------------------------------------------------
(* The commands. *)

(* What the command lemmas start from.                                     *)
LEMMA CommandParts ==
  ASSUME RuntimeInv, NEW o \in Operator
  PROVE  /\ BrokerTypeOK /\ LedgerTypeOK /\ RowTypeOK /\ LocalsOK /\ CommandInv(o)
         /\ o \in Actor /\ o \notin Host
         /\ pkt[o] \in Packet \cup {NoPacket} /\ cl[o] \in Claim \cup {NoClaim}
         /\ target[o] \in Packet \cup {NoPacket}
BY RuntimeParts, Actors DEF LocalsOK

(* A command at a claim step points at a file that exists; past the load   *)
(* its packet is what the file retains.                                    *)
LEMMA ClaimOfCommand ==
  ASSUME RuntimeInv, NEW o \in Operator, pc[o] \in ClaimPc
  PROVE  /\ cl[o] \in Claim /\ claim[cl[o]].status # "absent" /\ claim[cl[o]].packet \in Packet
         /\ pc[o] # "ack_load" => pkt[o] = Envelope(cl[o])
         /\ pc[o] \notin {"ack_load", "ack_open", "ack_write"} =>
              claim[cl[o]].envelope /\ pkt[o] = claim[cl[o]].packet
<1>1. CommandInv(o)
  BY CommandParts
<1>2. cl[o] \in Claim /\ claim[cl[o]].status # "absent" /\ claim[cl[o]].packet \in Packet
  BY <1>1, RuntimeParts DEF CommandInv, FilesRecorded
<1>3. QED
  BY <1>1, <1>2 DEF CommandInv, Envelope

(* A step of a command that goes on and writes no file.                    *)
LEMMA CommandGoKeeps ==
  ASSUME RuntimeInv, NEW o \in Operator, LocalsOK', OnlyOwn(o), pc'[o] # "claim_write",
         cl'[o] \in {NoClaim, cl[o]} \/ (cl'[o] \in Claim /\ claim[cl'[o]].status # "empty"),
         UNCHANGED claim, BrokerTypeOK', RowTypeOK', RowStep, CommandInv(o)'
  PROVE  RuntimeInv'
<1>1. o \in Actor /\ o \notin Host
  BY CommandParts
<1>2. pc'[o] \notin CreatorPc
  BY DEF CommandInv, CreatorPc, OperatorPc
<1>3. QED
  BY <1>1, <1>2, NoWriteKeeps DEF ActorInv

(* send and the send of a role return put the packet on the broker.        *)
LEMMA SendingKeeps ==
  ASSUME RuntimeInv, NEW o \in Operator, NEW p \in Packet,
         SendPublish(o, p) \/ \E t \in Packet : ReturnSend(o, p, t), UNCHANGED hostVars
  PROVE  RuntimeInv'
<1>0. CommandInv(o) /\ LocalsOK /\ o \in Actor /\ BrokerTypeOK /\ RowTypeOK
  BY CommandParts
<1>1. /\ pc[o] = "idle" /\ Publish(p) /\ Goto(o, "record_send") /\ pkt' = [pkt EXCEPT ![o] = p]
      /\ UNCHANGED <<claim, row, cl>>
  BY DEF SendPublish, ReturnSend
<1>2. PICK t \in Packet \cup {NoPacket} : target' \in {target, [target EXCEPT ![o] = t]}
  BY DEF SendPublish, ReturnSend, adminVars
<1>3. BrokerTypeOK' /\ RowTypeOK' /\ RowStep
  BY <1>0, <1>1, PublishEffect, RowsKept
<1>4. /\ LocalsOK' /\ OnlyOwn(o)
      /\ pc'[o] = "record_send" /\ pkt'[o] = p /\ cl'[o] = NoClaim
  <2>1. LocalsOK' /\ OnlyOwn(o) /\ pc'[o] = "record_send"
    BY <1>0, <1>1, <1>2, CommandGoes DEF OperatorPc
  <2>2. QED
    BY <1>0, <1>1, <2>1 DEF LocalsOK, CommandInv, ClaimPc
<1>5. CommandInv(o)'
  BY <1>4 DEF CommandInv, OperatorPc, ClaimPc
<1>6. QED
  BY <1>1, <1>3, <1>4, <1>5, CommandGoKeeps

(* The row of a sent packet.                                               *)
LEMMA RecordingKeeps ==
  ASSUME RuntimeInv, UNCHANGED hostVars, NEW o \in Operator, SendRecord(o)
  PROVE  RuntimeInv'
<1>0. /\ CommandInv(o) /\ LocalsOK /\ o \in Actor /\ BrokerTypeOK /\ RowTypeOK
      /\ target[o] \in Packet \cup {NoPacket}
  BY CommandParts
<1>1. pc[o] = "record_send" /\ pkt[o] \in Packet /\ InsertRow(pkt[o]) /\ UNCHANGED <<brokerVars, claim>>
  BY <1>0 DEF SendRecord, CommandInv
<1>2. BrokerTypeOK' /\ RowTypeOK' /\ RowStep
  BY <1>0, <1>1, BrokerKept, RowEffect
<1>3. CASE target[o] = NoPacket
  BY <1>1, <1>2, <1>3, CommandEndKeeps DEF SendRecord
<1>4. CASE target[o] # NoPacket
  <2>1. /\ Goto(o, "ret_list") /\ pkt' = [pkt EXCEPT ![o] = NoPacket]
        /\ UNCHANGED <<cl, target>>
    BY <1>4 DEF SendRecord, adminVars
  <2>2. LocalsOK' /\ OnlyOwn(o) /\ pc'[o] = "ret_list"
    BY <1>0, <2>1, CommandGoes DEF OperatorPc
  <2>3. cl'[o] = NoClaim /\ target'[o] \in Packet
    BY <1>0, <1>1, <1>4, <2>1 DEF LocalsOK, CommandInv, ClaimPc
  <2>4. CommandInv(o)'
    BY <2>2, <2>3 DEF CommandInv, OperatorPc, ClaimPc
  <2>5. QED
    BY <1>1, <1>2, <2>2, <2>3, <2>4, CommandGoKeeps
<1>5. QED
  BY <1>3, <1>4

(* The destructive get of claim-next and of a role return.                 *)
LEMMA TakingKeeps ==
  ASSUME RuntimeInv, UNCHANGED hostVars, NEW o \in Operator, NEW q \in Queue, TakeHead(o, q),
         pc[o] \in {"idle", "ret_pop"}
  PROVE  RuntimeInv'
<1>0. /\ CommandInv(o) /\ LocalsOK /\ o \in Actor /\ BrokerTypeOK /\ RowTypeOK
      /\ target[o] \in Packet \cup {NoPacket}
  BY CommandParts
<1>1. BrokerTypeOK' /\ Head(queue[q]) \in Packet /\ UNCHANGED <<claim, row>> /\ RowTypeOK' /\ RowStep
  BY <1>0, PopEffect, RowsKept DEF TakeHead
<1>2. CASE Head(queue[q]) \in Oversize
  BY <1>1, <1>2, CommandEndKeeps DEF TakeHead
<1>3. CASE Head(queue[q]) \notin Oversize
  <2>1. /\ Goto(o, "claim_open") /\ pkt' = [pkt EXCEPT ![o] = Head(queue[q])]
        /\ UNCHANGED <<cl, target>>
    BY <1>3 DEF TakeHead, adminVars
  <2>2. LocalsOK' /\ OnlyOwn(o) /\ pc'[o] = "claim_open"
    BY <1>0, <1>1, <2>1, CommandGoes DEF OperatorPc
  <2>3. cl'[o] = NoClaim /\ pkt'[o] \in Packet
    BY <1>0, <1>1, <2>1 DEF LocalsOK, CommandInv, ClaimPc
  <2>4. CommandInv(o)'
    BY <2>2, <2>3 DEF CommandInv, OperatorPc, ClaimPc
  <2>5. QED
    BY <1>1, <2>2, <2>3, <2>4, CommandGoKeeps
<1>4. QED
  BY <1>2, <1>3

(* What a new claim file says.                                             *)
LEMMA CreateFileIs ==
  ASSUME LedgerTypeOK, NEW c \in Claim, NEW p \in Packet, NEW envelope \in BOOLEAN,
         CreateFile(c, p, envelope)
  PROVE  /\ LedgerTypeOK' /\ claim[c].status = "absent"
         /\ claim'[c] = [status |-> "empty", packet |-> p, envelope |-> envelope]
         /\ \A d \in Claim \ {c} : claim'[d] = claim[d]
BY DEF LedgerTypeOK, CreateFile, ClaimRecord, ClaimStatus

(* An actor creates a claim file and becomes its creator.                  *)
LEMMA CreateKeeps ==
  ASSUME RuntimeInv, NEW a \in Actor, NEW c \in Claim, Creates(c), \A d \in Claim \ {c} : claim'[d] = claim[d],
         cl'[a] = c, UNCHANGED row, OnlyOwn(a), ActorInv(a)',
         BrokerTypeOK', LedgerTypeOK', LocalsOK'
  PROVE  RuntimeInv'
<1>1. RowTypeOK' /\ RowStep
  BY RuntimeParts, RowsKept
<1>2. ActorStep(a)
  BY <1>1 DEF ActorStep, LedgerStep, ClaimStep, Creates
<1>3. QED
  BY <1>1, <1>2, StepKeeps

(* The claim file of a claim-next or a role return.                        *)
LEMMA CreatingKeeps ==
  ASSUME RuntimeInv, UNCHANGED hostVars, NEW o \in Operator, NEW c \in Claim, ClaimOpen(o, c)
  PROVE  RuntimeInv'
<1>0. CommandInv(o) /\ LocalsOK /\ o \in Actor /\ o \notin Host /\ BrokerTypeOK /\ LedgerTypeOK
      /\ target[o] \in Packet \cup {NoPacket}
  BY CommandParts
<1>1. /\ pc[o] = "claim_open" /\ CreateFile(c, pkt[o], TRUE) /\ Goto(o, "claim_write")
      /\ cl' = [cl EXCEPT ![o] = c] /\ UNCHANGED <<brokerVars, row, pkt, target>>
  BY DEF ClaimOpen, adminVars
<1>2. pkt[o] \in Packet
  BY <1>0, <1>1 DEF CommandInv
<1>3. /\ LedgerTypeOK' /\ claim[c].status = "absent"
      /\ claim'[c] = [status |-> "empty", packet |-> pkt[o], envelope |-> TRUE]
      /\ \A d \in Claim \ {c} : claim'[d] = claim[d]
  BY <1>0, <1>1, <1>2, CreateFileIs
<1>4. LocalsOK' /\ OnlyOwn(o) /\ pc'[o] = "claim_write"
  BY <1>0, <1>1, CommandGoes DEF OperatorPc
<1>5. cl'[o] = c /\ pkt'[o] = pkt[o]
  BY <1>0, <1>1 DEF LocalsOK
<1>6. ActorInv(o)'
  BY <1>0, <1>3, <1>4, <1>5 DEF ActorInv, CommandInv, OperatorPc, ClaimPc, Envelope
<1>7. Creates(c)
  BY <1>2, <1>3 DEF Creates
<1>8. BrokerTypeOK'
  BY <1>0, <1>1, BrokerKept
<1>9. QED
  BY <1>0, <1>1, <1>3, <1>4, <1>5, <1>6, <1>7, <1>8, CreateKeeps

(* A command that writes its claim file.                                   *)
LEMMA CommandRewriteKeeps ==
  ASSUME RuntimeInv, UNCHANGED <<brokerVars, row, hostVars>>, NEW o \in Operator, pc[o] \in ClaimPc,
         NEW c \in Claim, cl[o] = c, LedgerTypeOK', OnlyStatusOf(c), claim'[c].status # "absent",
         pc[o] = "claim_write" \/ claim'[c].status \notin {"claimed", "invalid"},
         Return(o) \/ \E label \in OperatorPc \ {"claim_write", "idle"} :
                        Goto(o, label) /\ UNCHANGED <<pkt, cl, target>>,
         pc'[o] # "idle" => CommandInv(o)'
  PROVE  RuntimeInv'
<1>0. LocalsOK /\ o \in Actor /\ o \notin Host /\ BrokerTypeOK /\ pkt[o] \in Packet \cup {NoPacket}
      /\ target[o] \in Packet \cup {NoPacket}
  BY CommandParts
<1>1. BrokerTypeOK'
  BY <1>0, BrokerKept
<1>2. CASE Return(o)
  <2>1. /\ LocalsOK' /\ OnlyOwn(o)
        /\ pc'[o] = "idle" /\ cl'[o] = NoClaim /\ target'[o] = NoPacket
    BY <1>0, <1>2, CommandEnds
  <2>2. ActorInv(o)'
    BY <1>0, <2>1 DEF ActorInv, CommandInv, ClaimPc, OperatorPc
  <2>3. QED
    BY <1>0, <1>1, <2>1, <2>2, RewriteKeeps DEF CreatorPc
<1>3. ASSUME NEW label \in OperatorPc \ {"claim_write", "idle"}, Goto(o, label), UNCHANGED <<pkt, cl, target>>
      PROVE  RuntimeInv'
  <2>1. LocalsOK' /\ OnlyOwn(o) /\ pc'[o] = label
    BY <1>0, <1>3, CommandGoes
  <2>2. CommandInv(o)'
    BY <2>1
  <2>3. QED
    BY <1>0, <1>1, <1>3, <2>1, <2>2, RewriteKeeps DEF CreatorPc, ActorInv, OperatorPc
<1>4. QED
  BY <1>2, <1>3

(* The first write of a claim file: it names an open claim, or an invalid  *)
(* one of a packet that validate_envelope rejects.                         *)
LEMMA ClaimWritingKeeps ==
  ASSUME RuntimeInv, UNCHANGED hostVars, NEW o \in Operator, ClaimWrite(o)
  PROVE  RuntimeInv'
<1>0. CommandInv(o) /\ LocalsOK /\ LedgerTypeOK /\ o \in Actor
  BY CommandParts
<1>1. pc[o] = "claim_write" /\ pc[o] \in ClaimPc /\ UNCHANGED <<brokerVars, row>>
  BY DEF ClaimWrite, ClaimPc
<1>2. PICK c \in Claim : /\ c = cl[o] /\ claim[c].status = "empty"
                         /\ claim[c].envelope /\ pkt[o] = claim[c].packet
  BY <1>0, <1>1, ClaimOfCommand, ClaimOfCreator DEF CreatorPc
<1>3. claim'[c].status \in {"claimed", "invalid"} /\ LedgerTypeOK' /\ OnlyStatusOf(c)
  <2>1. WriteFile(c, "invalid") \/ WriteFile(c, "claimed")
    BY <1>2 DEF ClaimWrite
  <2>2. QED
    BY <1>0, <1>2, <2>1, WriteFileEffect DEF ClaimStatus
<1>4. \/ Return(o)
      \/ Goto(o, "claim_mark") /\ UNCHANGED <<pkt, cl, target>>
  BY DEF ClaimWrite, adminVars
<1>5. ASSUME pc'[o] # "idle" PROVE CommandInv(o)'
  <2>1. Goto(o, "claim_mark") /\ UNCHANGED <<pkt, cl, target>>
    BY <1>0, <1>4, <1>5 DEF Return, Finish, LocalsOK
  <2>2. pc'[o] = "claim_mark" /\ cl'[o] = c /\ pkt'[o] = pkt[o]
    BY <1>0, <1>2, <2>1 DEF Goto, LocalsOK
  <2>3. QED
    BY <1>2, <1>3, <2>2 DEF CommandInv, OperatorPc, ClaimPc, Envelope, OnlyStatusOf
<1>6. QED
  BY <1>0, <1>1, <1>2, <1>3, <1>4, <1>5, CommandRewriteKeeps DEF OperatorPc

(* The row update of a claim-next; a role return goes on.                  *)
LEMMA ClaimMarkingKeeps ==
  ASSUME RuntimeInv, UNCHANGED hostVars, NEW o \in Operator, ClaimMark(o)
  PROVE  RuntimeInv'
<1>0. /\ CommandInv(o) /\ LocalsOK /\ o \in Actor /\ BrokerTypeOK /\ RowTypeOK
      /\ target[o] \in Packet \cup {NoPacket} /\ pkt[o] \in Packet \cup {NoPacket}
  BY CommandParts
<1>1. /\ pc[o] = "claim_mark" /\ pc[o] \in ClaimPc /\ UpdateRow(pkt[o], "claimed")
      /\ UNCHANGED <<brokerVars, claim>>
  BY DEF ClaimMark, ClaimPc
<1>2. /\ cl[o] \in Claim /\ claim[cl[o]].status # "absent" /\ claim[cl[o]].envelope
      /\ pkt[o] = claim[cl[o]].packet /\ pkt[o] \in Packet
  BY <1>1, ClaimOfCommand
<1>3. BrokerTypeOK' /\ RowTypeOK' /\ RowStep
  BY <1>0, <1>1, <1>2, BrokerKept, RowEffect
<1>4. CASE target[o] = NoPacket
  BY <1>1, <1>3, <1>4, CommandEndKeeps DEF ClaimMark
<1>5. CASE target[o] # NoPacket
  <2>1. PICK label \in {"ack_load", "req_load"} :
           /\ Goto(o, label) /\ UNCHANGED <<pkt, cl, target>>
           /\ label = "ack_load" => pkt[o] = target[o]
    BY <1>5 DEF ClaimMark, adminVars
  <2>2. LocalsOK' /\ OnlyOwn(o) /\ pc'[o] = label
    BY <1>0, <2>1, CommandGoes DEF OperatorPc
  <2>3. CommandInv(o)'
    BY <1>1, <1>2, <2>1, <2>2 DEF CommandInv, OperatorPc, ClaimPc, Envelope
  <2>4. QED
    BY <1>1, <1>3, <2>1, <2>2, <2>3, CommandGoKeeps
<1>6. QED
  BY <1>4, <1>5

(* A command that ends without touching broker, ledger or database.        *)
LEMMA QuietEndKeeps ==
  ASSUME RuntimeInv, NEW o \in Operator, Return(o), UNCHANGED <<brokerVars, claim, row, hostVars>>
  PROVE  RuntimeInv'
<1>1. BrokerTypeOK /\ RowTypeOK
  BY CommandParts
<1>2. BrokerTypeOK' /\ RowTypeOK' /\ RowStep
  BY <1>1, BrokerKept, RowsKept
<1>3. QED
  BY <1>2, CommandEndKeeps

(* Loading a record: the command knows the packet the file retains.        *)
LEMMA LoadKeeps ==
  ASSUME RuntimeInv, NEW o \in Operator, NEW c \in Claim, NEW label \in {"ack_open", "req_publish"},
         Load(o, c, label), UNCHANGED <<brokerVars, claim, row, target, hostVars>>,
         label = "req_publish" => claim[c].envelope,
         label = "ack_open" /\ target[o] # NoPacket => claim[c].packet = target[o]
  PROVE  RuntimeInv'
<1>0. /\ LocalsOK /\ o \in Actor /\ BrokerTypeOK /\ RowTypeOK /\ LedgerTypeOK
      /\ target[o] \in Packet \cup {NoPacket}
  BY CommandParts
<1>1. /\ claim[c].status \notin {"absent", "empty"} /\ Goto(o, label)
      /\ cl' = [cl EXCEPT ![o] = c] /\ pkt' = [pkt EXCEPT ![o] = Envelope(c)]
  BY DEF Load, Readable, Unreadable
<1>2. Envelope(c) \in Packet \cup {NoPacket}
  BY <1>0 DEF LedgerTypeOK, ClaimRecord, Envelope
<1>3. LocalsOK' /\ OnlyOwn(o) /\ pc'[o] = label
  BY <1>0, <1>1, <1>2, CommandGoes DEF OperatorPc
<1>4. cl'[o] = c /\ pkt'[o] = Envelope(c)
  BY <1>0, <1>1 DEF LocalsOK
<1>5. CommandInv(o)'
  BY <1>1, <1>3, <1>4 DEF CommandInv, OperatorPc, ClaimPc, Envelope
<1>6. BrokerTypeOK' /\ RowTypeOK' /\ RowStep
  BY <1>0, BrokerKept, RowsKept
<1>7. QED
  BY <1>1, <1>3, <1>4, <1>5, <1>6, CommandGoKeeps

(* The four commands that load a record.                                   *)
LEMMA LoadingKeeps ==
  ASSUME RuntimeInv, UNCHANGED hostVars, NEW o \in Operator,
         \/ \E c \in Claim : AckLoad(o, c) \/ RequeueLoad(o, c)
         \/ ReturnAckLoad(o) \/ ReturnRequeueLoad(o)
  PROVE  RuntimeInv'
<1>0. CommandInv(o)
  BY CommandParts
<1>1. ASSUME NEW c \in Claim, AckLoad(o, c) PROVE RuntimeInv'
  BY <1>0, <1>1, LoadKeeps DEF AckLoad, CommandInv, adminVars
<1>2. ASSUME NEW c \in Claim, RequeueLoad(o, c) PROVE RuntimeInv'
  BY <1>0, <1>2, LoadKeeps DEF RequeueLoad, CommandInv, adminVars
<1>3. CASE ReturnAckLoad(o)
  <2>1. pc[o] = "ack_load" /\ cl[o] \in Claim /\ UNCHANGED <<brokerVars, claim, row>>
    BY <1>3, ClaimOfCommand DEF ReturnAckLoad, ClaimPc
  <2>2. CASE Readable(cl[o])
    BY <1>0, <1>3, <2>1, <2>2, LoadKeeps DEF ReturnAckLoad, CommandInv, adminVars
  <2>3. CASE ~ Readable(cl[o])
    BY <1>3, <2>1, <2>3, QuietEndKeeps DEF ReturnAckLoad
  <2>4. QED
    BY <2>2, <2>3
<1>4. CASE ReturnRequeueLoad(o)
  <2>1. /\ pc[o] = "req_load" /\ cl[o] \in Claim /\ claim[cl[o]].envelope
        /\ UNCHANGED <<brokerVars, claim, row>>
    BY <1>4, ClaimOfCommand DEF ReturnRequeueLoad, ClaimPc
  <2>2. CASE Readable(cl[o])
    BY <1>0, <1>4, <2>1, <2>2, LoadKeeps DEF ReturnRequeueLoad, CommandInv, adminVars
  <2>3. CASE ~ Readable(cl[o])
    BY <1>4, <2>1, <2>3, QuietEndKeeps DEF ReturnRequeueLoad
  <2>4. QED
    BY <2>2, <2>3
<1>5. QED
  BY <1>1, <1>2, <1>3, <1>4

(* ack and requeue open the file they have loaded.                         *)
LEMMA OpeningKeeps ==
  ASSUME RuntimeInv, UNCHANGED hostVars, NEW o \in Operator, AckOpen(o) \/ RequeueOpen(o)
  PROVE  RuntimeInv'
<1>0. CommandInv(o) /\ LocalsOK /\ LedgerTypeOK /\ o \in Actor
  BY CommandParts
<1>1. PICK label \in {"ack_write", "req_write"} :
        /\ Truncate(cl[o]) /\ Goto(o, label) /\ UNCHANGED <<brokerVars, row, pkt, cl, target>>
        /\ \/ pc[o] = "ack_open" /\ label = "ack_write"
           \/ pc[o] = "req_open" /\ label = "req_write"
  BY DEF AckOpen, RequeueOpen, adminVars
<1>2. pc[o] \in ClaimPc
  BY <1>1 DEF ClaimPc
<1>3. PICK c \in Claim : c = cl[o]
  BY <1>2, ClaimOfCommand
<1>4. LedgerTypeOK' /\ claim'[c].status = "empty" /\ OnlyStatusOf(c)
  BY <1>0, <1>1, <1>3, TruncateEffect
<1>5. pc'[o] = label /\ pkt'[o] = pkt[o] /\ cl'[o] = c /\ target'[o] = target[o]
  BY <1>0, <1>1, <1>3 DEF LocalsOK, Goto
<1>6. CommandInv(o)'
  BY <1>0, <1>1, <1>3, <1>4, <1>5 DEF CommandInv, OperatorPc, ClaimPc, Envelope, OnlyStatusOf
<1>7. QED
  BY <1>0, <1>1, <1>2, <1>3, <1>4, <1>6, CommandRewriteKeeps DEF OperatorPc

(* ack and requeue write it back.                                          *)
LEMMA WritingBackKeeps ==
  ASSUME RuntimeInv, UNCHANGED hostVars, NEW o \in Operator, AckWrite(o) \/ RequeueWrite(o)
  PROVE  RuntimeInv'
<1>0. CommandInv(o) /\ LocalsOK /\ LedgerTypeOK /\ o \in Actor
  BY CommandParts
<1>1. pc[o] \in {"ack_write", "req_write"} /\ pc[o] \in ClaimPc /\ UNCHANGED <<brokerVars, row>>
  BY DEF AckWrite, RequeueWrite, ClaimPc
<1>2. PICK c \in Claim : c = cl[o] /\ pkt[o] = Envelope(c)
  BY <1>1, ClaimOfCommand
<1>3. claim'[c].status \in {"done", "requeued", "torn"} /\ LedgerTypeOK' /\ OnlyStatusOf(c)
  <2>1. WriteFile(c, "done") \/ WriteFile(c, "requeued")
    BY <1>2 DEF AckWrite, RequeueWrite
  <2>2. QED
    BY <1>0, <1>2, <2>1, WriteFileEffect DEF ClaimStatus
<1>4. \/ Return(o)
      \/ \E label \in {"ack_mark", "req_mark"} :
           /\ Goto(o, label) /\ UNCHANGED <<pkt, cl, target>>
           /\ \/ pc[o] = "ack_write" /\ label = "ack_mark" /\ pkt[o] # NoPacket
              \/ pc[o] = "req_write" /\ label = "req_mark"
  BY DEF AckWrite, RequeueWrite, adminVars
<1>5. ASSUME pc'[o] # "idle" PROVE CommandInv(o)'
  <2>1. PICK label \in {"ack_mark", "req_mark"} :
           /\ Goto(o, label) /\ UNCHANGED <<pkt, cl, target>>
           /\ \/ pc[o] = "ack_write" /\ label = "ack_mark" /\ pkt[o] # NoPacket
              \/ pc[o] = "req_write" /\ label = "req_mark"
    BY <1>0, <1>4, <1>5 DEF Return, Finish, LocalsOK
  <2>2. pc'[o] = label /\ cl'[o] = c /\ pkt'[o] = pkt[o] /\ target'[o] = target[o]
    BY <1>0, <1>2, <2>1 DEF Goto, LocalsOK
  <2>3. QED
    BY <1>0, <1>2, <1>3, <2>1, <2>2 DEF CommandInv, OperatorPc, ClaimPc, Envelope, OnlyStatusOf
<1>6. QED
  BY <1>0, <1>1, <1>2, <1>3, <1>4, <1>5, CommandRewriteKeeps DEF OperatorPc

(* A closed claim that nobody is creating is over.                         *)
LEMMA ClosedOfCommand ==
  ASSUME RuntimeInv, NEW o \in Operator, pc[o] = "ack_mark"
  PROVE  cl[o] \in Claim /\ Over(cl[o]) /\ pkt[o] = claim[cl[o]].packet /\ pkt[o] \in Packet
<1>0. CommandInv(o) /\ o \in Actor
  BY CommandParts
<1>1. /\ cl[o] \in Claim /\ claim[cl[o]].packet \in Packet /\ pkt[o] = claim[cl[o]].packet
      /\ claim[cl[o]].status \notin {"absent", "claimed", "invalid"}
  BY <1>0, ClaimOfCommand DEF CommandInv, ClaimPc
<1>2. ASSUME NEW a \in Actor, pc[a] \in CreatorPc PROVE cl[a] # cl[o]
  <2>1. a # o
    BY <1>2 DEF CreatorPc
  <2>2. QED
    BY <1>0, <1>2, <2>1, RuntimeParts DEF CreatorsAlone
<1>3. QED
  BY <1>1, <1>2 DEF Over

(* The row update of an ack: the claim that backs it is the one just       *)
(* closed.                                                                 *)
LEMMA AckMarkingKeeps ==
  ASSUME RuntimeInv, UNCHANGED hostVars, NEW o \in Operator, AckMark(o)
  PROVE  RuntimeInv'
<1>0. BrokerTypeOK /\ RowTypeOK
  BY CommandParts
<1>1. pc[o] = "ack_mark" /\ UpdateRow(pkt[o], "acknowledged") /\ Return(o) /\ UNCHANGED <<brokerVars, claim>>
  BY DEF AckMark
<1>2. pkt[o] \in Packet /\ \E c \in Claim : claim[c].packet = pkt[o] /\ Over(c)
  BY <1>1, ClosedOfCommand
<1>3. BrokerTypeOK' /\ RowTypeOK' /\ RowStep
  BY <1>0, <1>1, <1>2, BrokerKept, RowEffect
<1>4. QED
  BY <1>1, <1>3, CommandEndKeeps

(* requeue publishes what the file retains.                                *)
LEMMA RequeuePublishingKeeps ==
  ASSUME RuntimeInv, UNCHANGED hostVars, NEW o \in Operator, RequeuePublish(o)
  PROVE  RuntimeInv'
<1>0. /\ CommandInv(o) /\ LocalsOK /\ o \in Actor /\ BrokerTypeOK /\ RowTypeOK
      /\ target[o] \in Packet \cup {NoPacket}
  BY CommandParts
<1>1. /\ pc[o] = "req_publish" /\ pc[o] \in ClaimPc /\ Goto(o, "req_open")
      /\ UNCHANGED <<claim, row, pkt, cl, target>>
  BY DEF RequeuePublish, ClaimPc, adminVars
<1>2. /\ cl[o] \in Claim /\ claim[cl[o]].status # "absent" /\ claim[cl[o]].envelope
      /\ pkt[o] = claim[cl[o]].packet /\ pkt[o] \in Packet
  BY <1>1, ClaimOfCommand
<1>3. BrokerTypeOK'
  BY <1>0, <1>2, BrokerKept, PublishEffect DEF RequeuePublish
<1>4. LocalsOK' /\ OnlyOwn(o) /\ pc'[o] = "req_open"
  BY <1>0, <1>1, CommandGoes DEF OperatorPc
<1>5. CommandInv(o)'
  BY <1>0, <1>1, <1>2, <1>4 DEF CommandInv, OperatorPc, ClaimPc, Envelope
<1>6. RowTypeOK' /\ RowStep
  BY <1>0, <1>1, RowsKept
<1>7. QED
  BY <1>1, <1>3, <1>4, <1>5, <1>6, CommandGoKeeps

(* The list of a role return: the one open claim of its assignment, or the *)
(* destructive get.                                                        *)
LEMMA ListingKeeps ==
  ASSUME RuntimeInv, UNCHANGED hostVars, NEW o \in Operator, ReturnList(o)
  PROVE  RuntimeInv'
<1>0. /\ CommandInv(o) /\ LocalsOK /\ LedgerTypeOK /\ o \in Actor /\ BrokerTypeOK /\ RowTypeOK
      /\ target[o] \in Packet \cup {NoPacket}
  BY CommandParts
<1>1. pc[o] = "ret_list" /\ target[o] \in Packet /\ cl[o] = NoClaim /\ UNCHANGED <<brokerVars, claim, row>>
  BY <1>0 DEF ReturnList, CommandInv, ClaimPc
<1>2. BrokerTypeOK' /\ RowTypeOK' /\ RowStep
  BY <1>0, <1>1, BrokerKept, RowsKept
<1>3. CASE Goto(o, "ret_pop") /\ UNCHANGED <<pkt, cl, adminVars>>
  <2>1. LocalsOK' /\ OnlyOwn(o) /\ pc'[o] = "ret_pop"
    BY <1>0, <1>3, CommandGoes DEF OperatorPc, adminVars
  <2>2. CommandInv(o)'
    BY <1>1, <1>3, <2>1 DEF CommandInv, OperatorPc, ClaimPc, adminVars
  <2>3. QED
    BY <1>1, <1>2, <1>3, <2>1, <2>2, CommandGoKeeps
<1>4. ASSUME NEW c \in OpenClaimsOf(target[o]), Goto(o, "ack_load"), cl' = [cl EXCEPT ![o] = c],
             UNCHANGED <<pkt, adminVars>>
      PROVE  RuntimeInv'
  <2>1. c \in Claim /\ claim[c].status = "claimed" /\ claim[c].packet = target[o]
    BY <1>1, TransportAssumption DEF OpenClaimsOf, Envelope
  <2>2. LocalsOK' /\ OnlyOwn(o) /\ pc'[o] = "ack_load"
    BY <1>0, <1>4, <2>1, CommandGoes DEF OperatorPc, adminVars
  <2>3. cl'[o] = c
    BY <1>0, <1>4 DEF LocalsOK
  <2>4. CommandInv(o)'
    BY <1>1, <1>4, <2>1, <2>2, <2>3 DEF CommandInv, OperatorPc, ClaimPc, adminVars
  <2>5. QED
    BY <1>1, <1>2, <2>1, <2>2, <2>3, <2>4, CommandGoKeeps
<1>5. CASE Return(o)
  BY <1>1, <1>5, QuietEndKeeps
<1>6. QED
  BY <1>3, <1>4, <1>5 DEF ReturnList

(* Whatever a command does next to the hosts keeps RuntimeInv.             *)
LEMMA CommandStepKeeps ==
  ASSUME RuntimeInv, UNCHANGED hostVars, NEW o \in Operator, OperatorStep(o)
  PROVE  RuntimeInv'
<1>1. CASE \/ \E p \in Packet : SendPublish(o, p)
           \/ \E r, t \in Packet : ReturnSend(o, r, t)
  BY <1>1, SendingKeeps
<1>2. CASE \E q \in Queue : ClaimPop(o, q)
  BY <1>2, TakingKeeps DEF ClaimPop
<1>3. CASE \E c \in Claim : ClaimOpen(o, c)
  BY <1>3, CreatingKeeps
<1>4. CASE \/ \E c \in Claim : AckLoad(o, c) \/ RequeueLoad(o, c)
           \/ ReturnAckLoad(o) \/ ReturnRequeueLoad(o)
  BY <1>4, LoadingKeeps
<1>5. CASE SendRecord(o) \/ ClaimWrite(o) \/ ClaimMark(o)
  BY <1>5, RecordingKeeps, ClaimWritingKeeps, ClaimMarkingKeeps
<1>6. CASE AckOpen(o) \/ AckWrite(o) \/ AckMark(o) \/ RequeueOpen(o) \/ RequeueWrite(o)
  BY <1>6, OpeningKeeps, WritingBackKeeps, AckMarkingKeeps
<1>7. CASE RequeuePublish(o) \/ ReturnList(o)
  BY <1>7, RequeuePublishingKeeps, ListingKeeps
<1>8. CASE RequeueMark(o) \/ DbFails(o) \/ Crash(o)
  BY <1>8, QuietEndKeeps DEF RequeueMark, DbFails, Crash
<1>9. CASE ReturnPop(o)
  <2>1. CommandInv(o)
    BY CommandParts
  <2>2. pc[o] = "ret_pop" /\ Home[target[o]] \in Queue
    BY <1>9, <2>1, TransportAssumption DEF ReturnPop, CommandInv
  <2>3. CASE queue[Home[target[o]]] = <<>>
    BY <1>9, <2>3, QuietEndKeeps DEF ReturnPop
  <2>4. CASE queue[Home[target[o]]] # <<>>
    BY <1>9, <2>2, <2>4, TakingKeeps DEF ReturnPop
  <2>5. QED
    BY <2>3, <2>4
<1>10. QED
  BY <1>1, <1>2, <1>3, <1>4, <1>5, <1>6, <1>7, <1>8, <1>9 DEF OperatorStep

-----------------------------------------------------------------------------
(* The hosts. *)

(* What the host lemmas start from.                                        *)
LEMMA HostParts ==
  ASSUME RuntimeInv, NEW h \in Host
  PROVE  /\ BrokerTypeOK /\ LedgerTypeOK /\ RowTypeOK /\ LocalsOK /\ HostInv(h)
         /\ h \in Actor /\ h \notin Operator
         /\ pkt[h] \in Packet \cup {NoPacket} /\ cl[h] \in Claim \cup {NoClaim}
         /\ result[h] \in Packet \cup {NoPacket}
BY RuntimeParts, Actors DEF LocalsOK

(* A step of a host that goes on and writes no file.                       *)
LEMMA HostGoKeeps ==
  ASSUME RuntimeInv, NEW h \in Host, LocalsOK', OnlyOwn(h), pc'[h] # "h_write", cl'[h] = cl[h],
         UNCHANGED claim, BrokerTypeOK', RowTypeOK', RowStep, HostInv(h)'
  PROVE  RuntimeInv'
<1>1. h \in Actor /\ h \notin Operator
  BY HostParts
<1>2. pc'[h] \notin CreatorPc
  BY DEF HostInv, CreatorPc, HostPc
<1>3. QED
  BY <1>1, <1>2, NoWriteKeeps DEF ActorInv

(* A step of a host that moves on with its locals as they are.             *)
LEMMA HostMovesKeeps ==
  ASSUME RuntimeInv, NEW h \in Host, NEW label \in HostPc, Goto(h, label), label # "h_write",
         UNCHANGED <<brokerVars, claim, pkt, cl, hostVars, adminVars>>, RowTypeOK', RowStep,
         pc'[h] = label /\ pkt'[h] = pkt[h] /\ cl'[h] = cl[h] /\ result'[h] = result[h] => HostInv(h)'
  PROVE  RuntimeInv'
<1>0. LocalsOK /\ h \in Actor /\ BrokerTypeOK
  BY HostParts
<1>1. LocalsOK' /\ OnlyOwn(h) /\ pc'[h] = label
  BY <1>0, HostGoes
<1>2. BrokerTypeOK'
  BY <1>0, BrokerKept
<1>3. HostInv(h)'
  BY <1>1 DEF hostVars
<1>4. QED
  BY <1>1, <1>2, <1>3, HostGoKeeps

(* The destructive get.                                                    *)
LEMMA HostPopKeeps ==
  ASSUME RuntimeInv, UNCHANGED adminVars, NEW h \in Host, HostPop(h)
  PROVE  RuntimeInv'
<1> DEFINE p == Head(queue[Serves[h]])
<1>0. BrokerTypeOK /\ LocalsOK /\ RowTypeOK /\ HostInv(h) /\ h \in Actor
  BY HostParts
<1>1. pc[h] = "idle" /\ UNCHANGED <<claim, row>> /\ cl[h] = NoClaim
  BY <1>0 DEF HostPop, HostInv
<1>2. BrokerTypeOK' /\ p \in Packet
  <2>1. Serves[h] \in Queue /\ Pop(Serves[h])
    BY RuntimeHostAssumption DEF HostPop
  <2>2. QED
    BY <1>0, <2>1, PopEffect
<1>3. CASE p \in Oversize \/ p \in Unsupported
  <2>1. EndIteration(h, "dead") \/ EndIteration(h, "idle")
    BY <1>3 DEF HostPop
  <2>2. QED
    BY <1>1, <1>2, <2>1, HostEndKeeps
<1>4. CASE p \notin Oversize /\ p \notin Unsupported
  <2>1. Goto(h, "h_open") /\ pkt' = [pkt EXCEPT ![h] = p] /\ UNCHANGED <<cl, hostVars>>
    BY <1>4 DEF HostPop
  <2>2. LocalsOK' /\ OnlyOwn(h) /\ pc'[h] = "h_open"
    BY <1>0, <1>2, <2>1, HostGoes DEF HostPc
  <2>3. pkt'[h] \in Packet /\ cl'[h] = NoClaim
    BY <1>0, <1>1, <1>2, <2>1 DEF LocalsOK
  <2>4. HostInv(h)'
    BY <1>0, <1>1, <2>1, <2>2, <2>3 DEF HostInv, HostPc, WorkPc, AckPc, hostVars
  <2>5. RowTypeOK' /\ RowStep
    BY <1>0, <1>1, RowsKept
  <2>6. QED
    BY <1>1, <1>2, <2>1, <2>2, <2>4, <2>5, HostGoKeeps
<1>5. QED
  BY <1>3, <1>4

(* A host's claim file, without an envelope.                               *)
LEMMA HostClaimOpenKeeps ==
  ASSUME RuntimeInv, UNCHANGED adminVars, NEW h \in Host, NEW c \in Claim, HostClaimOpen(h, c)
  PROVE  RuntimeInv'
<1>0. BrokerTypeOK /\ LocalsOK /\ LedgerTypeOK /\ HostInv(h) /\ h \in Actor /\ h \notin Operator
  BY HostParts
<1>1. /\ pc[h] = "h_open" /\ CreateFile(c, pkt[h], FALSE) /\ Goto(h, "h_write")
      /\ cl' = [cl EXCEPT ![h] = c] /\ UNCHANGED <<brokerVars, row, pkt, hostVars>>
  BY DEF HostClaimOpen
<1>2. pkt[h] \in Packet
  BY <1>0, <1>1 DEF HostInv
<1>3. /\ LedgerTypeOK' /\ claim[c].status = "absent"
      /\ claim'[c] = [status |-> "empty", packet |-> pkt[h], envelope |-> FALSE]
      /\ \A d \in Claim \ {c} : claim'[d] = claim[d]
  BY <1>0, <1>1, <1>2, CreateFileIs
<1>4. LocalsOK' /\ OnlyOwn(h) /\ pc'[h] = "h_write"
  BY <1>0, <1>1, HostGoes DEF HostPc
<1>5. cl'[h] = c /\ pkt'[h] = pkt[h] /\ result'[h] = result[h]
  BY <1>0, <1>1 DEF LocalsOK, hostVars
<1>6. ActorInv(h)'
  BY <1>0, <1>1, <1>2, <1>3, <1>4, <1>5 DEF ActorInv, HostInv, HostPc, WorkPc, AckPc
<1>7. Creates(c)
  BY <1>2, <1>3 DEF Creates
<1>8. BrokerTypeOK'
  BY <1>0, <1>1, BrokerKept
<1>9. QED
  BY <1>0, <1>1, <1>3, <1>4, <1>5, <1>6, <1>7, <1>8, CreateKeeps

(* The claim file of a host past its creation.                             *)
LEMMA ClaimOfHost ==
  ASSUME RuntimeInv, NEW h \in Host, pc[h] \notin {"idle", "dead", "hung", "h_open"}
  PROVE  /\ cl[h] \in Claim /\ claim[cl[h]].status # "absent" /\ claim[cl[h]].packet \in Packet
         /\ pkt[h] \in Packet
BY HostParts, RuntimeParts DEF HostInv, FilesRecorded

(* A host that writes its claim file and goes on.                          *)
LEMMA HostRewriteKeeps ==
  ASSUME RuntimeInv, NEW h \in Host, NEW c \in Claim, cl[h] = c, LedgerTypeOK', OnlyStatusOf(c),
         claim'[c].status # "absent",
         pc[h] = "h_write" \/ claim'[c].status \notin {"claimed", "invalid"},
         NEW label \in HostPc \ {"h_write"}, Goto(h, label),
         UNCHANGED <<brokerVars, row, pkt, cl, hostVars, adminVars>>,
         pc'[h] = label /\ pkt'[h] = pkt[h] /\ cl'[h] = cl[h] /\ result'[h] = result[h] => HostInv(h)'
  PROVE  RuntimeInv'
<1>0. LocalsOK /\ h \in Actor /\ h \notin Operator /\ BrokerTypeOK
  BY HostParts
<1>1. LocalsOK' /\ OnlyOwn(h) /\ pc'[h] = label
  BY <1>0, HostGoes
<1>2. HostInv(h)' /\ BrokerTypeOK'
  BY <1>0, <1>1, BrokerKept DEF hostVars
<1>3. ActorInv(h)' /\ pc'[h] \notin CreatorPc
  BY <1>0, <1>1, <1>2 DEF ActorInv, HostPc, CreatorPc
<1>4. QED
  BY <1>0, <1>1, <1>2, <1>3, RewriteKeeps DEF CreatorPc

(* The first write of a host's claim file.                                 *)
LEMMA HostClaimWriteKeeps ==
  ASSUME RuntimeInv, UNCHANGED adminVars, NEW h \in Host, HostClaimWrite(h)
  PROVE  RuntimeInv'
<1>0. LedgerTypeOK /\ HostInv(h) /\ h \in Actor
  BY HostParts
<1>1. /\ pc[h] = "h_write" /\ WriteFile(cl[h], "claimed") /\ Goto(h, "h_mark")
      /\ UNCHANGED <<brokerVars, row, pkt, cl, hostVars>>
  BY DEF HostClaimWrite
<1>2. PICK c \in Claim : c = cl[h] /\ claim[c].status = "empty"
  BY <1>0, <1>1, ClaimOfCreator DEF CreatorPc
<1>3. LedgerTypeOK' /\ claim'[c].status = "claimed" /\ OnlyStatusOf(c)
  BY <1>0, <1>1, <1>2, WriteFileEffect DEF ClaimStatus
<1>4. pc'[h] = "h_mark" /\ pkt'[h] = pkt[h] /\ cl'[h] = cl[h] /\ result'[h] = result[h] => HostInv(h)'
  BY <1>0, <1>1, <1>2, <1>3 DEF HostInv, HostPc, WorkPc, AckPc
<1>5. QED
  BY <1>1, <1>2, <1>3, <1>4, HostRewriteKeeps DEF HostPc

(* The row update of a claim.                                              *)
LEMMA HostMarkKeeps ==
  ASSUME RuntimeInv, UNCHANGED adminVars, NEW h \in Host, HostMark(h)
  PROVE  RuntimeInv'
<1>0. RowTypeOK /\ HostInv(h) /\ h \in Actor
  BY HostParts
<1>1. /\ pc[h] = "h_mark" /\ UpdateRow(pkt[h], "claimed") /\ Goto(h, "h_resolve")
      /\ UNCHANGED <<brokerVars, claim, pkt, cl, hostVars>>
  BY DEF HostMark
<1>2. pkt[h] \in Packet
  BY <1>1, ClaimOfHost
<1>3. RowTypeOK' /\ RowStep
  BY <1>0, <1>1, <1>2, RowEffect
<1>4. pc'[h] = "h_resolve" /\ pkt'[h] = pkt[h] /\ cl'[h] = cl[h] /\ result'[h] = result[h] => HostInv(h)'
  BY <1>0, <1>1 DEF HostInv, HostPc, WorkPc, AckPc
<1>5. QED
  BY <1>1, <1>3, <1>4, HostMovesKeeps DEF HostPc

(* The row of a result: from here on the answer is in the database.        *)
LEMMA HostRecordKeeps ==
  ASSUME RuntimeInv, UNCHANGED adminVars, NEW h \in Host, HostRecord(h)
  PROVE  RuntimeInv'
<1>0. RowTypeOK /\ HostInv(h) /\ h \in Actor
  BY HostParts
<1>1. PICK label \in {"h_transition", "h_ack_load"} :
        /\ pc[h] = "h_record" /\ InsertRow(result[h]) /\ Goto(h, label)
        /\ UNCHANGED <<brokerVars, claim, pkt, cl, hostVars>>
  BY DEF HostRecord
<1>2. result[h] \in Packet /\ pkt[h] \in Packet /\ row[pkt[h]] # "absent"
  BY <1>0, <1>1, ClaimOfHost DEF HostInv, WorkPc
<1>3. /\ RowTypeOK' /\ RowStep /\ row'[pkt[h]] # "absent"
      /\ result[h] \notin Unregistered => row'[result[h]] # "absent"
  BY <1>0, <1>1, <1>2, RowEffect DEF RowStep, InsertRow, RowTypeOK
<1>4. pc'[h] = label /\ pkt'[h] = pkt[h] /\ cl'[h] = cl[h] /\ result'[h] = result[h] => HostInv(h)'
  BY <1>0, <1>1, <1>2, <1>3 DEF HostInv, HostPc, WorkPc, AckPc
<1>5. QED
  BY <1>1, <1>3, <1>4, HostMovesKeeps DEF HostPc

(* The steps of an iteration that write nothing but the host's own state.  *)
LEMMA HostQuietKeeps ==
  ASSUME RuntimeInv, UNCHANGED adminVars, NEW h \in Host,
         \/ HostResolve(h) \/ HostWork(h) \/ HostTransition(h)
         \/ HostAckLoad(h) \/ HostRequeue(h) \/ HostDies(h) \/ HostHangs(h)
  PROVE  RuntimeInv'
<1>0. BrokerTypeOK /\ RowTypeOK /\ HostInv(h) /\ h \in Actor
  BY HostParts
<1>1. UNCHANGED <<brokerVars, claim, row>>
  BY DEF HostResolve, HostWork, HostTransition, HostAckLoad, HostRequeue, HostDies, HostHangs
<1>2. BrokerTypeOK' /\ RowTypeOK' /\ RowStep
  BY <1>0, <1>1, BrokerKept, RowsKept
<1>3. CASE EndIteration(h, "idle") \/ EndIteration(h, "dead") \/ EndIteration(h, "hung")
  BY <1>1, <1>2, <1>3, HostEndKeeps
<1>4. ASSUME NEW label \in HostPc \ {"h_write"}, Goto(h, label), UNCHANGED <<pkt, cl, hostVars>>,
             pc[h] \notin {"idle", "dead", "hung", "h_open", "h_record"}, label \notin {"idle", "dead", "hung", "h_open", "h_record"},
             label \in WorkPc => row[pkt[h]] # "absent",
             \/ result[h] = NoPacket
             \/ pc[h] = "h_transition" /\ label = "h_requeue" /\ pkt[h] \in Untracked
             \/ pc[h] \in AckPc /\ label \in AckPc
      PROVE  RuntimeInv'
  <2>1. pc'[h] = label /\ pkt'[h] = pkt[h] /\ cl'[h] = cl[h] /\ result'[h] = result[h] => HostInv(h)'
    BY <1>0, <1>1, <1>4 DEF HostInv, HostPc, WorkPc, AckPc
  <2>2. QED
    BY <1>1, <1>2, <1>4, <2>1, HostMovesKeeps
<1>5. CASE HostResolve(h)
  <2>1. pc[h] = "h_resolve" /\ result[h] = NoPacket /\ pkt[h] \in Packet
    BY <1>0, <1>5, ClaimOfHost DEF HostResolve, HostInv, AckPc
  <2>2. CASE row[pkt[h]] = "absent"
    BY <1>4, <1>5, <2>1, <2>2 DEF HostResolve, HostPc, WorkPc
  <2>3. CASE row[pkt[h]] # "absent"
    BY <1>4, <1>5, <2>1, <2>3 DEF HostResolve, HostPc, WorkPc
  <2>4. QED
    BY <2>2, <2>3
<1>6. CASE HostWork(h)
  <2>1. pc[h] = "h_work" /\ result[h] = NoPacket /\ row[pkt[h]] # "absent"
    BY <1>0, <1>6 DEF HostWork, HostInv, AckPc, WorkPc
  <2>2. ASSUME NEW next \in {"h_requeue", "h_ack_load", "h_publish"}, Goto(h, next), UNCHANGED <<pkt, cl, hostVars>>
        PROVE  RuntimeInv'
    BY <1>4, <2>1, <2>2 DEF HostPc
  <2>3. QED
    BY <1>3, <1>6, <2>2 DEF HostWork
<1>7. CASE HostTransition(h)
  <2>1. pc[h] = "h_transition" /\ row[pkt[h]] # "absent"
    BY <1>0, <1>7 DEF HostTransition, HostInv, WorkPc
  <2>2. CASE pkt[h] \in Untracked
    BY <1>4, <1>7, <2>1, <2>2 DEF HostTransition, HostPc
  <2>3. CASE pkt[h] \notin Untracked
    BY <1>4, <1>7, <2>1, <2>3 DEF HostTransition, HostPc, AckPc
  <2>4. QED
    BY <2>2, <2>3
<1>8. CASE HostAckLoad(h)
  <2>1. pc[h] = "h_ack_load" /\ row[pkt[h]] # "absent"
    BY <1>0, <1>8 DEF HostAckLoad, HostInv, WorkPc
  <2>2. CASE Readable(cl[h])
    BY <1>4, <1>8, <2>1, <2>2 DEF HostAckLoad, HostPc, AckPc
  <2>3. CASE ~ Readable(cl[h])
    BY <1>3, <1>8, <2>3 DEF HostAckLoad
  <2>4. QED
    BY <2>2, <2>3
<1>9. CASE HostRequeue(h) \/ HostDies(h) \/ HostHangs(h)
  BY <1>3, <1>9 DEF HostRequeue, HostDies, HostHangs
<1>10. QED
  BY <1>5, <1>6, <1>7, <1>8, <1>9

(* The publish of a result.                                                *)
LEMMA HostPublishKeeps ==
  ASSUME RuntimeInv, UNCHANGED adminVars, NEW h \in Host, NEW r \in Packet, HostPublish(h, r)
  PROVE  RuntimeInv'
<1>0. BrokerTypeOK /\ RowTypeOK /\ LocalsOK /\ HostInv(h) /\ h \in Actor
  BY HostParts
<1>1. pc[h] = "h_publish" /\ UNCHANGED <<claim, row, pkt, cl>>
  BY DEF HostPublish
<1>2. /\ RowTypeOK' /\ RowStep /\ row[pkt[h]] # "absent" /\ result[h] = NoPacket
      /\ pkt[h] \in Packet \cup {NoPacket}
  BY <1>0, <1>1, RowsKept DEF HostInv, WorkPc, AckPc, LocalsOK
<1>3. CASE /\ Publish(r) /\ Goto(h, "h_record")
           /\ result' = [result EXCEPT ![h] = r] /\ source' = [source EXCEPT ![r] = pkt[h]]
  <2>1. BrokerTypeOK'
    BY <1>0, <1>3, PublishEffect
  <2>2. LocalsOK' /\ OnlyOwn(h) /\ pc'[h] = "h_record" /\ result'[h] = r
    BY <1>0, <1>1, <1>2, <1>3, Actors
       DEF LocalsOK, Goto, HostPc, adminVars, OnlyOwn, OnlyActor, SameActor
  <2>3. HostInv(h)'
    BY <1>0, <1>1, <1>2, <2>2 DEF HostInv, HostPc, WorkPc, AckPc
  <2>4. QED
    BY <1>1, <1>2, <2>1, <2>2, <2>3, HostGoKeeps
<1>4. CASE Goto(h, "h_requeue") /\ UNCHANGED <<brokerVars, hostVars>>
  <2>1. pc'[h] = "h_requeue" /\ pkt'[h] = pkt[h] /\ cl'[h] = cl[h] /\ result'[h] = result[h] => HostInv(h)'
    BY <1>0, <1>1, <1>2 DEF HostInv, HostPc, WorkPc, AckPc
  <2>2. QED
    BY <1>1, <1>2, <1>4, <2>1, HostMovesKeeps DEF HostPc
<1>5. QED
  BY <1>3, <1>4 DEF HostPublish

(* _finalize_claim opens the claim file.                                   *)
LEMMA HostAckOpenKeeps ==
  ASSUME RuntimeInv, UNCHANGED adminVars, NEW h \in Host, HostAckOpen(h)
  PROVE  RuntimeInv'
<1>0. LedgerTypeOK /\ HostInv(h)
  BY HostParts
<1>1. /\ pc[h] = "h_ack_open" /\ Truncate(cl[h]) /\ Goto(h, "h_ack_write")
      /\ UNCHANGED <<brokerVars, row, pkt, cl, hostVars>>
  BY DEF HostAckOpen
<1>2. PICK c \in Claim : c = cl[h]
  BY <1>1, ClaimOfHost
<1>3. LedgerTypeOK' /\ claim'[c].status = "empty" /\ OnlyStatusOf(c)
  BY <1>0, <1>1, <1>2, TruncateEffect
<1>4. pc'[h] = "h_ack_write" /\ pkt'[h] = pkt[h] /\ cl'[h] = cl[h] /\ result'[h] = result[h] => HostInv(h)'
  BY <1>0, <1>1, <1>2, <1>3 DEF HostInv, HostPc, WorkPc, AckPc
<1>5. QED
  BY <1>1, <1>2, <1>3, <1>4, HostRewriteKeeps DEF HostPc

(* And writes it back.                                                     *)
LEMMA HostAckWriteKeeps ==
  ASSUME RuntimeInv, UNCHANGED adminVars, NEW h \in Host, HostAckWrite(h)
  PROVE  RuntimeInv'
<1>0. LedgerTypeOK /\ BrokerTypeOK /\ LocalsOK /\ h \in Actor
  BY HostParts
<1>1. /\ pc[h] = "h_ack_write" /\ WriteFile(cl[h], "done") /\ EndIteration(h, "idle")
      /\ UNCHANGED <<brokerVars, row>>
  BY DEF HostAckWrite
<1>2. PICK c \in Claim : c = cl[h]
  BY <1>1, ClaimOfHost
<1>3. LedgerTypeOK' /\ claim'[c].status \in {"done", "torn"} /\ OnlyStatusOf(c)
  BY <1>0, <1>1, <1>2, WriteFileEffect DEF ClaimStatus
<1>4. /\ LocalsOK' /\ OnlyOwn(h)
      /\ pc'[h] = "idle" /\ cl'[h] = NoClaim /\ result'[h] = NoPacket
  BY <1>0, <1>1, HostEnds
<1>5. ActorInv(h)' /\ BrokerTypeOK'
  BY <1>0, <1>1, <1>4, Actors, BrokerKept DEF ActorInv, HostInv, HostPc, AckPc, WorkPc
<1>6. QED
  BY <1>0, <1>1, <1>2, <1>3, <1>4, <1>5, RewriteKeeps DEF CreatorPc

(* Whatever one host thread does keeps RuntimeInv.                         *)
LEMMA HostStepKeeps ==
  ASSUME RuntimeInv, UNCHANGED adminVars, NEW h \in Host, HostProceed(h) \/ HostDies(h) \/ HostHangs(h)
  PROVE  RuntimeInv'
<1>1. CASE \/ HostPop(h) \/ \E c \in Claim : HostClaimOpen(h, c)
           \/ HostClaimWrite(h) \/ HostMark(h)
  BY <1>1, HostPopKeeps, HostClaimOpenKeeps, HostClaimWriteKeeps, HostMarkKeeps
<1>2. CASE \/ HostResolve(h) \/ HostWork(h) \/ HostTransition(h)
           \/ HostAckLoad(h) \/ HostRequeue(h) \/ HostDies(h) \/ HostHangs(h)
  BY <1>2, HostQuietKeeps
<1>3. CASE \/ \E r \in Packet : HostPublish(h, r)
           \/ HostRecord(h) \/ HostAckOpen(h) \/ HostAckWrite(h)
  BY <1>3, HostPublishKeeps, HostRecordKeeps, HostAckOpenKeeps, HostAckWriteKeeps
<1>4. QED
  BY <1>1, <1>2, <1>3 DEF HostProceed

(* A new supervisor starts its threads with nothing in hand.               *)
LEMMA SupervisorStartKeeps ==
  ASSUME RuntimeInv, UNCHANGED adminVars, SupervisorStart
  PROVE  RuntimeInv'
<1>0. UNCHANGED <<brokerVars, claim, row, pkt, cl, hostVars, target>>
  BY DEF SupervisorStart, adminVars
<1>1. \A a \in Actor : a \notin Host => pc'[a] = pc[a]
  BY DEF SupervisorStart
<1>2. \A h \in Host : pc[h] = "dead" /\ pc'[h] = "idle"
  BY Actors DEF SupervisorStart
<1>3. SystemTypeOK'
  <2>1. pc' \in [Actor -> OperatorPc \cup HostPc]
    BY RuntimeParts DEF SupervisorStart, LocalsOK, HostPc
  <2>2. /\ \A o \in Operator : pc'[o] \in OperatorPc
        /\ \A h \in Host : pc'[h] \in HostPc
    BY <1>1, <1>2, RuntimeParts, Actors DEF CommandInv, HostPc
  <2>3. QED
    BY <1>0, <2>1, <2>2, RuntimeParts
       DEF SystemTypeOK, BrokerTypeOK, LedgerTypeOK, RowTypeOK, LocalsOK, brokerVars, hostVars
<1>4. ASSUME NEW a \in Actor PROVE ActorInv(a)'
  <2>1. CASE a \in Operator
    <3>1. CommandInv(a) /\ a \notin Host
      BY <2>1, CommandParts
    <3>2. QED
      BY <1>0, <1>1, <2>1, <3>1 DEF ActorInv, CommandInv, Envelope
  <2>2. CASE a \in Host
    <3>1. HostInv(a) /\ a \notin Operator
      BY <2>2, HostParts
    <3>2. QED
      BY <1>0, <1>2, <2>2, <3>1 DEF ActorInv, HostInv, HostPc, WorkPc, AckPc, hostVars
  <2>3. QED
    BY <2>1, <2>2, Actors
<1>5. \A a \in Actor : pc'[a] \in CreatorPc <=> pc[a] \in CreatorPc
  BY <1>1, <1>2 DEF CreatorPc
<1>6. FilesRecorded' /\ CreatorsAlone' /\ AcknowledgedBacked'
  BY <1>0, <1>5, RuntimeParts DEF FilesRecorded, CreatorsAlone, AcknowledgedBacked, Over
<1>7. QED
  BY <1>3, <1>4, <1>6 DEF RuntimeInv

(* A purge or a foreign publish changes the broker alone.                  *)
LEMMA BrokerStepKeeps ==
  ASSUME RuntimeInv, UNCHANGED <<claim, row, localVars, adminVars, hostVars>>, BrokerTypeOK'
  PROVE  RuntimeInv'
<1>1. UNCHANGED <<claim, row, pc, pkt, cl, target, result, source>>
  BY DEF localVars, adminVars, hostVars
<1>2. SystemTypeOK'
  BY <1>1 DEF RuntimeInv, SystemTypeOK, BrokerTypeOK
<1>3. \A a \in Actor : ActorInv(a)'
  BY <1>1 DEF RuntimeInv, ActorInv, CommandInv, HostInv, Envelope
<1>4. FilesRecorded' /\ CreatorsAlone' /\ AcknowledgedBacked'
  BY <1>1 DEF RuntimeInv, FilesRecorded, CreatorsAlone, AcknowledgedBacked, Over
<1>5. QED
  BY <1>2, <1>3, <1>4 DEF RuntimeInv

(* RuntimeInv is inductive.                                                *)
LEMMA SystemStepKeeps ==
  ASSUME RuntimeInv, [SystemNext]_systemVars
  PROVE  RuntimeInv'
<1>0. BrokerTypeOK
  BY RuntimeParts
<1>1. CASE UNCHANGED hostVars /\ \E o \in Operator : OperatorStep(o)
  BY <1>1, CommandStepKeeps
<1>2. ASSUME NEW q \in Queue, Purge(q), UNCHANGED hostVars PROVE RuntimeInv'
  BY <1>0, <1>2, BrokerStepKeeps DEF Purge, BrokerTypeOK
<1>3. ASSUME NEW p \in Packet, ForeignPublish(p), UNCHANGED hostVars PROVE RuntimeInv'
  BY <1>0, <1>3, BrokerStepKeeps, PublishEffect DEF ForeignPublish
<1>4. CASE UNCHANGED adminVars /\ \E h \in Host : HostProceed(h) \/ HostDies(h) \/ HostHangs(h)
  BY <1>4, HostStepKeeps
<1>5. CASE UNCHANGED adminVars /\ SupervisorStart
  BY <1>5, SupervisorStartKeeps
<1>6. CASE UNCHANGED systemVars
  BY <1>0, <1>6, BrokerStepKeeps
     DEF systemVars, transportVars, localVars, adminVars, hostVars, BrokerTypeOK
<1>7. QED
  BY <1>1, <1>2, <1>3, <1>4, <1>5, <1>6 DEF SystemNext, AdminStep, HostStep

(* Every instance starts in it.                                            *)
LEMMA SystemInitInv == SystemInit => RuntimeInv
<1> SUFFICES ASSUME SystemInit PROVE RuntimeInv
  OBVIOUS
<1>1. TransportInit /\ target = [o \in Operator |-> NoPacket]
      /\ result = [h \in Host |-> NoPacket] /\ source = [p \in Packet |-> NoPacket]
  BY DEF SystemInit, AdminInit, HostInit
<1>2. SystemTypeOK
  BY <1>1, Actors DEF TransportInit, SystemTypeOK, NoRecord, ClaimRecord, ClaimStatus, RowStatus,
                      OperatorPc, HostPc
<1>3. \A a \in Actor : ActorInv(a)
  BY <1>1, Actors DEF TransportInit, ActorInv, CommandInv, HostInv, OperatorPc, HostPc, ClaimPc, WorkPc, AckPc
<1>4. FilesRecorded /\ CreatorsAlone /\ AcknowledgedBacked
  BY <1>1 DEF TransportInit, FilesRecorded, CreatorsAlone, AcknowledgedBacked, NoRecord, CreatorPc
<1>5. QED
  BY <1>2, <1>3, <1>4 DEF RuntimeInv

(* In every behaviour of commands and hosts over one broker, one ledger    *)
(* and one database, every actor's knowledge of its claim, its packet and  *)
(* its result stays true, whatever the others do in between.               *)
THEOREM RuntimeInvariance == SystemSpec => []RuntimeInv
BY SystemInitInv, SystemStepKeeps, PTL DEF SystemSpec

(* The whole runtime is well-typed.                                        *)
THEOREM RuntimeTypeCorrect == SystemSpec => []SystemTypeOK
<1>1. RuntimeInv => SystemTypeOK
  BY DEF RuntimeInv
<1>2. QED
  BY <1>1, RuntimeInvariance, PTL

(* A host never works for, answers or closes the claim of a packet whose   *)
(* row the sender has not written yet (HostResolve and every step after).  *)
THEOREM HostsWorkOnlyForRecordedPackets == SystemSpec => []HostWorksOnlyRecordedPackets
<1>1. RuntimeInv => HostWorksOnlyRecordedPackets
  BY RuntimeParts DEF HostInv, HostWorksOnlyRecordedPackets
<1>2. QED
  BY <1>1, RuntimeInvariance, PTL

(* When a host closes a claim, the answer it published is in the database, *)
(* however many crashes came between publish, record and ack.              *)
THEOREM ClosingHostsRecordedTheirResult == SystemSpec => []ClosingHostHasRecordedResult
<1>1. RuntimeInv => ClosingHostHasRecordedResult
  BY RuntimeParts DEF HostInv, ClosingHostHasRecordedResult, AckPc
<1>2. QED
  BY <1>1, RuntimeInvariance, PTL

(* With hosts running next to the commands, a row still says acknowledged  *)
(* only over a closed claim of its packet.                                 *)
THEOREM RuntimeAcknowledgesClosedClaims == SystemSpec => []AcknowledgedRowHasClosedClaim
<1>1. RuntimeInv => AcknowledgedRowHasClosedClaim
  BY RuntimeParts DEF AcknowledgedBacked, AcknowledgedRowHasClosedClaim, ClosedClaimOf, Over
<1>2. QED
  BY <1>1, RuntimeInvariance, PTL

(* With hosts taking packets from the same queues, a role return still     *)
(* closes no claim but one of the assignment it was asked to close.        *)
THEOREM RuntimeReturnsCloseTheirAssignment == SystemSpec => []ReturnClosesOnlyItsAssignment
<1>1. RuntimeInv => ReturnClosesOnlyItsAssignment
  BY RuntimeParts DEF CommandInv, ReturnClosesOnlyItsAssignment
<1>2. QED
  BY <1>1, RuntimeInvariance, PTL

-----------------------------------------------------------------------------
(* Whose step it is. *)

(* A command moves no other actor, however it proceeds or ends.            *)
LEMMA CommandMovesAlone ==
  ASSUME RuntimeInv, NEW o \in Operator, OperatorStep(o)
  PROVE  OnlyActor(o)
<1> USE QueueAdminAssumption
<1>0. LocalsOK /\ CommandInv(o)
  BY CommandParts
<1>1. CASE \/ \E p \in Packet : SendPublish(o, p)
           \/ \E r, t \in Packet : ReturnSend(o, r, t)
           \/ RequeuePublish(o)
  BY <1>0, <1>1 DEF SendPublish, ReturnSend, RequeuePublish, LocalsOK, OnlyActor, SameActor, Goto
<1>2. ASSUME NEW q \in Queue, TakeHead(o, q) PROVE OnlyActor(o)
  BY <1>0, <1>2 DEF TakeHead, LocalsOK, OnlyActor, SameActor, Goto, Finish, Return
<1>3. CASE \E q \in Queue : ClaimPop(o, q)
  BY <1>2, <1>3 DEF ClaimPop
<1>4. CASE \E c \in Claim : ClaimOpen(o, c) \/ AckLoad(o, c) \/ RequeueLoad(o, c)
  BY <1>0, <1>4 DEF ClaimOpen, AckLoad, RequeueLoad, Load, LocalsOK, OnlyActor, SameActor, Goto
<1>5. CASE SendRecord(o) \/ ClaimWrite(o) \/ ClaimMark(o)
  BY <1>0, <1>5 DEF SendRecord, ClaimWrite, ClaimMark, LocalsOK, OnlyActor, SameActor, Goto, Finish, Return
<1>6. CASE ReturnAckLoad(o) \/ AckOpen(o) \/ AckWrite(o) \/ AckMark(o)
  BY <1>0, <1>6 DEF ReturnAckLoad, AckOpen, AckWrite, AckMark, Load, LocalsOK, OnlyActor, SameActor,
                    Goto, Finish, Return
<1>7. CASE ReturnRequeueLoad(o) \/ RequeueOpen(o) \/ RequeueWrite(o) \/ RequeueMark(o)
  BY <1>0, <1>7 DEF ReturnRequeueLoad, RequeueOpen, RequeueWrite, RequeueMark, Load, LocalsOK,
                    OnlyActor, SameActor, Goto, Finish, Return
<1>8. CASE ReturnList(o) \/ DbFails(o) \/ Crash(o)
  BY <1>0, <1>8 DEF ReturnList, DbFails, Crash, LocalsOK, OnlyActor, SameActor, Goto, Finish, Return
<1>9. CASE ReturnPop(o)
  <2>1. Home[target[o]] \in Queue
    BY <1>0, <1>9, TransportAssumption DEF ReturnPop, CommandInv
  <2>2. CASE queue[Home[target[o]]] = <<>>
    BY <1>0, <1>9, <2>2 DEF ReturnPop, LocalsOK, OnlyActor, SameActor, Finish, Return
  <2>3. CASE queue[Home[target[o]]] # <<>>
    BY <1>2, <1>9, <2>1, <2>3 DEF ReturnPop
  <2>4. QED
    BY <2>2, <2>3
<1>10. QED
  BY <1>1, <1>3, <1>4, <1>5, <1>6, <1>7, <1>8, <1>9 DEF OperatorStep

(* Nor does a host thread.                                                 *)
LEMMA HostMovesAlone ==
  ASSUME RuntimeInv, NEW h \in Host, HostProceed(h) \/ HostDies(h) \/ HostHangs(h)
  PROVE  OnlyActor(h) /\ \A g \in Host \ {h} : result'[g] = result[g]
<1> USE RuntimeHostAssumption
<1>0. LocalsOK
  BY HostParts
<1>1. ASSUME NEW label, EndIteration(h, label)
      PROVE  OnlyActor(h) /\ \A g \in Host \ {h} : result'[g] = result[g]
  BY <1>0, <1>1 DEF EndIteration, Finish, LocalsOK, OnlyActor, SameActor
<1>2. ASSUME NEW label, Goto(h, label), UNCHANGED <<pkt, cl, result>>
      PROVE  OnlyActor(h) /\ \A g \in Host \ {h} : result'[g] = result[g]
  BY <1>0, <1>2 DEF Goto, LocalsOK, OnlyActor, SameActor
<1>3. CASE HostPop(h) \/ \E c \in Claim : HostClaimOpen(h, c)
  BY <1>0, <1>1, <1>3 DEF HostPop, HostClaimOpen, Goto, LocalsOK, OnlyActor, SameActor, hostVars
<1>4. CASE \E r \in Packet : HostPublish(h, r)
  BY <1>0, <1>4 DEF HostPublish, Goto, LocalsOK, OnlyActor, SameActor, hostVars
<1>5. CASE HostClaimWrite(h) \/ HostMark(h) \/ HostResolve(h) \/ HostRecord(h) \/ HostTransition(h)
           \/ HostAckOpen(h)
  BY <1>2, <1>5 DEF HostClaimWrite, HostMark, HostResolve, HostRecord, HostTransition, HostAckOpen, hostVars
<1>6. CASE HostWork(h) \/ HostAckLoad(h) \/ HostAckWrite(h) \/ HostRequeue(h) \/ HostDies(h) \/ HostHangs(h)
  BY <1>1, <1>2, <1>6 DEF HostWork, HostAckLoad, HostAckWrite, HostRequeue, HostDies, HostHangs, hostVars
<1>7. QED
  BY <1>3, <1>4, <1>5, <1>6 DEF HostProceed

(* The one way an iteration that sent a packet ends normally is the write  *)
(* of done into the claim file, or a requeue that follows a refused        *)
(* transition.                                                             *)
LEMMA EndOfSendingIteration ==
  ASSUME RuntimeInv, NEW h \in Host, HostProceed(h) \/ HostDies(h) \/ HostHangs(h),
         result[h] # NoPacket, pc[h] # "idle", pc'[h] = "idle"
  PROVE  claim'[cl[h]].status \in {"done", "torn"} \/ pkt[h] \in Untracked
<1>0. HostInv(h) /\ LocalsOK /\ LedgerTypeOK /\ h \in Actor
  BY HostParts
<1>1. pc[h] \in {"h_record", "h_transition", "h_ack_load", "h_ack_open", "h_ack_write", "h_requeue"}
  BY <1>0 DEF HostInv, AckPc, HostPc
<1>2. CASE HostRequeue(h)
  BY <1>0, <1>2 DEF HostRequeue, HostInv
<1>3. CASE HostAckWrite(h)
  <2>1. cl[h] \in Claim /\ WriteFile(cl[h], "done")
    BY <1>3, ClaimOfHost DEF HostAckWrite
  <2>2. QED
    BY <1>0, <2>1, WriteFileEffect DEF ClaimStatus
<1>4. CASE HostRecord(h) \/ HostTransition(h) \/ HostAckLoad(h) \/ HostAckOpen(h) \/ HostDies(h) \/ HostHangs(h)
  BY <1>0, <1>4 DEF HostRecord, HostTransition, HostAckLoad, HostAckOpen, HostDies, HostHangs, EndIteration,
                    Finish, Goto, LocalsOK
<1>5. QED
  BY <1>1, <1>2, <1>3, <1>4
     DEF HostProceed, HostPop, HostClaimOpen, HostClaimWrite, HostMark, HostResolve, HostWork, HostPublish

(* Send and close belong to one runtime path (invariant 2 of the handoff   *)
(* execution contract): an iteration that sent a packet ends normally only *)
(* once the source claim is closed.  The hypothesis is needed: without a   *)
(* workflow_states row the transition is refused and the claim requeued    *)
(* after the send.                                                         *)
THEOREM TrackedSendsCloseTheirSource ==
  ASSUME Untracked = {}
  PROVE  SystemSpec => SendClosesSource
<1> DEFINE Closes == \A h \in Host :
             result[h] # NoPacket /\ pc'[h] = "idle" /\ pc[h] # "idle"
               => claim'[cl[h]].status \in {"done", "torn"}
<1>1. ASSUME RuntimeInv, [SystemNext]_systemVars PROVE [Closes]_<<transportVars, hostVars>>
  <2>1. ASSUME NEW h \in Host, result[h] # NoPacket, pc'[h] = "idle", pc[h] # "idle"
        PROVE  claim'[cl[h]].status \in {"done", "torn"}
    <3>0. HostInv(h) /\ h \in Actor /\ h \notin Operator
      BY <1>1, <2>1, HostParts
    <3>1. CASE \E o \in Operator : OperatorStep(o)
      BY <1>1, <2>1, <3>0, <3>1, CommandMovesAlone DEF OnlyActor, SameActor
    <3>2. CASE \/ \E q \in Queue : Purge(q)
               \/ \E p \in Packet : ForeignPublish(p)
               \/ UNCHANGED systemVars
      BY <2>1, <3>2 DEF Purge, ForeignPublish, localVars, systemVars, transportVars
    <3>3. ASSUME NEW g \in Host, HostProceed(g) \/ HostDies(g) \/ HostHangs(g)
          PROVE  claim'[cl[h]].status \in {"done", "torn"}
      <4>1. g = h
        BY <1>1, <2>1, <3>0, <3>3, HostMovesAlone DEF OnlyActor, SameActor
      <4>2. QED
        BY <1>1, <2>1, <3>3, <4>1, EndOfSendingIteration
    <3>4. CASE SupervisorStart
      BY <2>1, <3>0, <3>4 DEF SupervisorStart, HostInv, AckPc
    <3>5. QED
      BY <1>1, <3>1, <3>2, <3>3, <3>4 DEF SystemNext, AdminStep, HostStep
  <2>2. QED
    BY <2>1
<1>2. QED
  BY <1>1, RuntimeInvariance, PTL DEF SystemSpec, SendClosesSource

-----------------------------------------------------------------------------
(* The whole runtime implements PacketDelivery.  First what PacketDelivery *)
(* sees of each kind of step, whoever makes it.                            *)

(* A step between two labels at which an actor holds nothing and creates   *)
(* nothing.                                                                *)
Plain(label) == label \notin InHandPc /\ label \notin CreatorPc

(* What is in the hands of an actor.                                       *)
LEMMA HandOf ==
  ASSUME NEW a \in Actor, OnlyActor(a)
  PROVE  /\ pc[a] \notin InHandPc /\ pc'[a] \notin InHandPc => Hand' = Hand
         /\ pc'[a] \notin InHandPc => Hand' = [Hand EXCEPT ![a] = NoPacket]
         /\ pc'[a] \in InHandPc => Hand' = [Hand EXCEPT ![a] = pkt'[a]]
         /\ pc[a] \notin InHandPc => Hand[a] = NoPacket
         /\ pc[a] \in InHandPc => Hand[a] = pkt[a]
BY DEF OnlyActor, SameActor, Hand

(* The deliveries, when no claim file is written.                          *)
LEMMA DeliveriesKept ==
  ASSUME NEW a \in Actor, OnlyActor(a), UNCHANGED claim, pc[a] \notin CreatorPc, pc'[a] \notin CreatorPc
  PROVE  Recorded' = Recorded /\ OverClaims' = OverClaims
<1>1. Recorded' = Recorded
  BY DEF Recorded
<1>2. \A c \in Claim : Over(c) <=> Over(c)'
  BY DEF Over, OnlyActor, SameActor
<1>3. QED
  BY <1>1, <1>2 DEF OverClaims

(* A step PacketDelivery does not see.                                     *)
LEMMA UnseenDelivers ==
  ASSUME NEW a \in Actor, OnlyActor(a), UNCHANGED <<queue, claim>>, AcknowledgedPackets' = AcknowledgedPackets,
         Plain(pc[a]), Plain(pc'[a])
  PROVE  Delivers
BY HandOf, DeliveriesKept DEF Plain, Delivers, Delivery!deliveryVars

(* A publish.                                                              *)
LEMMA PublishDelivers ==
  ASSUME NEW a \in Actor, OnlyActor(a), NEW p \in Packet, Publish(p), UNCHANGED <<claim, row>>,
         Plain(pc[a]), Plain(pc'[a])
  PROVE  Delivers
<1>1. Hand' = Hand /\ Recorded' = Recorded /\ OverClaims' = OverClaims
  BY HandOf, DeliveriesKept DEF Plain
<1>2. Delivery!Put(p)
  BY <1>1 DEF Publish, Delivery!Put, AcknowledgedPackets
<1>3. QED
  BY <1>2 DEF Delivers, Delivery!Next

(* A destructive get.                                                      *)
LEMMA PopDelivers ==
  ASSUME NEW a \in Actor, OnlyActor(a), NEW q \in Queue, Pop(q), UNCHANGED <<claim, row>>, Plain(pc[a]),
         \/ Plain(pc'[a])
         \/ pc'[a] \in InHandPc /\ pc'[a] \notin CreatorPc /\ pkt'[a] = Head(queue[q])
  PROVE  Delivers
<1>1. Hand[a] = NoPacket /\ Recorded' = Recorded /\ OverClaims' = OverClaims
  BY HandOf, DeliveriesKept DEF Plain
<1>2. Hand' = Hand \/ Hand' = [Hand EXCEPT ![a] = Head(queue[q])]
  BY HandOf DEF Plain
<1>3. Delivery!Take(a, q)
  BY <1>1, <1>2 DEF Pop, Delivery!Take, AcknowledgedPackets
<1>4. QED
  BY <1>3 DEF Delivers, Delivery!Next

(* The claim file appears.                                                 *)
LEMMA CreateDelivers ==
  ASSUME NEW a \in Actor, OnlyActor(a), NEW c \in Claim, pc[a] \in InHandPc, pkt[a] \in Packet,
         claim[c].status = "absent", claim'[c].status = "empty", claim'[c].packet = pkt[a],
         \A d \in Claim \ {c} : claim'[d] = claim[d],
         UNCHANGED <<queue, row>>, pc'[a] \in CreatorPc, cl'[a] = c
  PROVE  Delivers
<1>1. Hand' = [Hand EXCEPT ![a] = NoPacket] /\ Hand[a] = pkt[a] /\ pkt[a] # NoPacket
  BY HandOf, TransportAssumption DEF CreatorPc, InHandPc
<1>2. Recorded[c] = NoPacket /\ Recorded' = [Recorded EXCEPT ![c] = pkt[a]]
  <2>1. \A d \in Claim : (IF claim'[d].status = "absent" THEN NoPacket ELSE claim'[d].packet)
                         = IF d = c THEN pkt[a] ELSE IF claim[d].status = "absent" THEN NoPacket ELSE claim[d].packet
    OBVIOUS
  <2>2. QED
    BY <2>1 DEF Recorded
<1>3. OverClaims' = OverClaims
  <2>1. ~ Over(c) /\ ~ Over(c)'
    BY DEF Over
  <2>2. ASSUME NEW d \in Claim \ {c} PROVE Over(d) <=> Over(d)'
    BY DEF Over, OnlyActor, SameActor, CreatorPc, InHandPc
  <2>3. QED
    BY <2>1, <2>2 DEF OverClaims
<1>4. Delivery!Record(a, c)
  BY <1>1, <1>2, <1>3 DEF Delivery!Record, AcknowledgedPackets
<1>5. QED
  BY <1>4 DEF Delivers, Delivery!Next

(* Its first write leaves the delivery open.                               *)
LEMMA FirstWriteDelivers ==
  ASSUME NEW a \in Actor, OnlyActor(a), NEW c \in Claim, pc[a] \in CreatorPc, cl[a] = c,
         claim[c].status = "empty", claim'[c].status \in {"claimed", "invalid"}, OnlyStatusOf(c),
         UNCHANGED <<queue, row>>, Plain(pc'[a])
  PROVE  Delivers
<1>1. Hand' = Hand
  BY HandOf DEF CreatorPc, InHandPc, Plain
<1>2. Recorded' = Recorded
  BY DEF Recorded, OnlyStatusOf
<1>3. OverClaims' = OverClaims
  <2>1. ~ Over(c) /\ ~ Over(c)'
    BY DEF Over
  <2>2. ASSUME NEW d \in Claim \ {c} PROVE Over(d) <=> Over(d)'
    BY DEF Over, OnlyActor, SameActor, OnlyStatusOf, Plain
  <2>3. QED
    BY <2>1, <2>2 DEF OverClaims
<1>4. QED
  BY <1>1, <1>2, <1>3 DEF Delivers, Delivery!deliveryVars, AcknowledgedPackets

(* Truncating a claim file, or writing a final status into it, closes the  *)
(* delivery, as does a creator that dies: nobody else is creating it.      *)
LEMMA CloseDelivers ==
  ASSUME RuntimeInv, NEW a \in Actor, OnlyActor(a), NEW c \in Claim, cl[a] = c, claim[c].status # "absent",
         \/ OnlyStatusOf(c) /\ Plain(pc[a])
         \/ UNCHANGED claim /\ pc[a] \in CreatorPc,
         claim'[c].status \notin {"absent", "claimed", "invalid"},
         UNCHANGED <<queue, row>>, Plain(pc'[a])
  PROVE  Delivers
<1>1. Hand' = Hand
  BY HandOf DEF CreatorPc, InHandPc, Plain
<1>2. Recorded' = Recorded /\ Recorded[c] # NoPacket
  <2>1. \A d \in Claim : claim'[d].packet = claim[d].packet
                         /\ (claim'[d].status = "absent" <=> claim[d].status = "absent")
    BY DEF OnlyStatusOf
  <2>2. claim[c].packet # NoPacket
    BY RuntimeParts, TransportAssumption DEF FilesRecorded
  <2>3. QED
    BY <2>1, <2>2 DEF Recorded
<1>3. \A d \in Claim \ {c} : claim'[d] = claim[d] /\ (Over(d) <=> Over(d)')
  BY DEF Over, OnlyActor, SameActor, OnlyStatusOf, Plain
<1>4. Over(c)'
  <2>1. ASSUME NEW b \in Actor, pc'[b] \in CreatorPc PROVE cl'[b] # c
    <3>1. b # a /\ pc[b] \in CreatorPc /\ cl'[b] = cl[b]
      BY <2>1 DEF OnlyActor, SameActor, Plain
    <3>2. QED
      BY <3>1, RuntimeParts DEF CreatorsAlone
  <2>2. QED
    BY <2>1 DEF Over
<1>5. OverClaims' = OverClaims \cup {c}
  BY <1>3, <1>4 DEF OverClaims
<1>6. Delivery!Close(c)
  BY <1>1, <1>2, <1>5 DEF Delivery!Close, AcknowledgedPackets
<1>7. QED
  BY <1>6 DEF Delivers, Delivery!Next

(* The row of a packet is inserted or called claimed again.                *)
LEMMA RowDelivers ==
  ASSUME RowTypeOK, NEW a \in Actor, OnlyActor(a), NEW p \in Packet, InsertRow(p) \/ UpdateRow(p, "claimed"),
         UNCHANGED <<queue, claim>>, Plain(pc[a]), Plain(pc'[a])
  PROVE  Delivers
<1>1. CASE InsertRow(p)
  <2>1. AcknowledgedPackets' = AcknowledgedPackets
    BY <1>1 DEF InsertRow, AcknowledgedPackets, RowTypeOK, RowStatus
  <2>2. QED
    BY <2>1, UnseenDelivers
<1>2. CASE UpdateRow(p, "claimed")
  <2>1. AcknowledgedPackets' = AcknowledgedPackets \ {p}
    BY <1>2 DEF UpdateRow, AcknowledgedPackets, RowTypeOK, RowStatus
  <2>2. Hand' = Hand /\ Recorded' = Recorded /\ OverClaims' = OverClaims
    BY HandOf, DeliveriesKept DEF Plain
  <2>3. Delivery!Reclaim(p)
    BY <2>1, <2>2 DEF Delivery!Reclaim
  <2>4. QED
    BY <2>3 DEF Delivers, Delivery!Next
<1>3. QED
  BY <1>1, <1>2

(* It is called acknowledged over a delivery that is over.                 *)
LEMMA AcknowledgeDelivers ==
  ASSUME RowTypeOK, NEW a \in Actor, OnlyActor(a), NEW p \in Packet, UpdateRow(p, "acknowledged"),
         NEW c \in Claim, Over(c), claim[c].packet = p,
         UNCHANGED <<queue, claim>>, Plain(pc[a]), Plain(pc'[a])
  PROVE  Delivers
<1>1. Hand' = Hand /\ Recorded' = Recorded /\ OverClaims' = OverClaims
  BY HandOf, DeliveriesKept DEF Plain
<1>2. CASE row[p] = "absent"
  <2>1. AcknowledgedPackets' = AcknowledgedPackets
    BY <1>2 DEF UpdateRow, AcknowledgedPackets, RowTypeOK
  <2>2. QED
    BY <2>1, UnseenDelivers
<1>3. CASE row[p] # "absent"
  <2>1. AcknowledgedPackets' = AcknowledgedPackets \cup {p}
    BY <1>3 DEF UpdateRow, AcknowledgedPackets, RowTypeOK
  <2>2. c \in OverClaims /\ Recorded[c] = p
    BY DEF OverClaims, Recorded, Over
  <2>3. Delivery!Acknowledge(p)
    BY <1>1, <2>1, <2>2 DEF Delivery!Acknowledge
  <2>4. QED
    BY <2>3 DEF Delivers, Delivery!Next
<1>4. QED
  BY <1>2, <1>3

(* An actor that ends or dies loses what it had in its hands, or closes    *)
(* the claim it was creating, or is not seen.                              *)
LEMMA EndDelivers ==
  ASSUME RuntimeInv, NEW a \in Actor, OnlyActor(a), UNCHANGED <<queue, claim, row>>, Plain(pc'[a])
  PROVE  Delivers
<1>1. AcknowledgedPackets' = AcknowledgedPackets
  BY DEF AcknowledgedPackets
<1>2. CASE pc[a] \in InHandPc
  <2>1. Hand' = [Hand EXCEPT ![a] = NoPacket] /\ Recorded' = Recorded /\ OverClaims' = OverClaims
    BY <1>2, HandOf, DeliveriesKept DEF Plain, InHandPc, CreatorPc
  <2>2. Delivery!Lose(a)
    BY <1>1, <2>1 DEF Delivery!Lose
  <2>3. QED
    BY <2>2 DEF Delivers, Delivery!Next
<1>3. CASE pc[a] \in CreatorPc
  BY <1>3, ClaimOfCreator, CloseDelivers
<1>4. CASE Plain(pc[a])
  BY <1>1, <1>4, UnseenDelivers
<1>5. QED
  BY <1>2, <1>3, <1>4 DEF Plain

-----------------------------------------------------------------------------
(* Then the steps of a command. *)

(* The labels of a command at which PacketDelivery sees nothing of it.     *)
LEMMA PlainCommandLabels ==
  \A label \in OperatorPc : label \notin {"claim_open", "claim_write"} => Plain(label)
BY DEF Plain, OperatorPc, InHandPc, CreatorPc

(* Sending, and publishing again.                                          *)
LEMMA CommandPublishDelivers ==
  ASSUME RuntimeInv, NEW o \in Operator, OnlyActor(o),
         \/ \E p \in Packet : SendPublish(o, p)
         \/ \E r, t \in Packet : ReturnSend(o, r, t)
         \/ RequeuePublish(o)
  PROVE  Delivers
<1>0. LocalsOK /\ CommandInv(o) /\ o \in Actor
  BY CommandParts
<1>1. /\ pc[o] \in {"idle", "req_publish"} /\ pc'[o] \in {"record_send", "req_open"}
      /\ UNCHANGED <<claim, row>>
  BY <1>0 DEF SendPublish, ReturnSend, RequeuePublish, Goto, LocalsOK
<1>2. Plain(pc[o]) /\ Plain(pc'[o])
  BY <1>1, PlainCommandLabels DEF OperatorPc
<1>3. ASSUME NEW p \in Packet, Publish(p) PROVE Delivers
  BY <1>0, <1>1, <1>2, <1>3, PublishDelivers
<1>4. CASE RequeuePublish(o)
  <2>1. pkt[o] \in Packet
    BY <1>4, ClaimOfCommand DEF RequeuePublish, ClaimPc
  <2>2. CASE Publish(pkt[o])
    BY <1>3, <2>1, <2>2
  <2>3. CASE UNCHANGED brokerVars
    BY <1>0, <1>1, <1>2, <2>3, UnseenDelivers DEF brokerVars, AcknowledgedPackets
  <2>4. QED
    BY <1>4, <2>2, <2>3 DEF RequeuePublish
<1>5. QED
  BY <1>3, <1>4 DEF SendPublish, ReturnSend

(* The destructive get.                                                    *)
LEMMA TakeHeadDelivers ==
  ASSUME RuntimeInv, NEW o \in Operator, OnlyActor(o), NEW q \in Queue, TakeHead(o, q),
         pc[o] \in {"idle", "ret_pop"}
  PROVE  Delivers
<1>0. LocalsOK /\ o \in Actor
  BY CommandParts
<1>1. Pop(q) /\ UNCHANGED <<claim, row>> /\ Plain(pc[o])
  BY PlainCommandLabels DEF TakeHead, OperatorPc
<1>2. CASE Head(queue[q]) \in Oversize
  <2>1. pc'[o] = "idle"
    BY <1>0, <1>2 DEF TakeHead, Return, Finish, LocalsOK
  <2>2. QED
    BY <1>0, <1>1, <2>1, PopDelivers, PlainCommandLabels DEF OperatorPc
<1>3. CASE Head(queue[q]) \notin Oversize
  <2>1. pc'[o] = "claim_open" /\ pkt'[o] = Head(queue[q])
    BY <1>0, <1>3 DEF TakeHead, Goto, LocalsOK
  <2>2. QED
    BY <1>0, <1>1, <2>1, PopDelivers DEF InHandPc, CreatorPc
<1>4. QED
  BY <1>2, <1>3

(* Creating the claim file, and its first write.                           *)
LEMMA CommandCreatesDelivers ==
  ASSUME RuntimeInv, NEW o \in Operator, OnlyActor(o), ClaimWrite(o) \/ \E c \in Claim : ClaimOpen(o, c)
  PROVE  Delivers
<1>0. LocalsOK /\ LedgerTypeOK /\ CommandInv(o) /\ o \in Actor
  BY CommandParts
<1>1. ASSUME NEW c \in Claim, ClaimOpen(o, c) PROVE Delivers
  <2>1. pc[o] = "claim_open" /\ pkt[o] \in Packet /\ CreateFile(c, pkt[o], TRUE) /\ UNCHANGED <<queue, row>>
    BY <1>0, <1>1 DEF ClaimOpen, CommandInv, brokerVars
  <2>2. pc'[o] = "claim_write" /\ cl'[o] = c
    BY <1>0, <1>1 DEF ClaimOpen, Goto, LocalsOK
  <2>3. /\ claim[c].status = "absent"
        /\ claim'[c] = [status |-> "empty", packet |-> pkt[o], envelope |-> TRUE]
        /\ \A d \in Claim \ {c} : claim'[d] = claim[d]
    BY <1>0, <2>1, CreateFileIs
  <2>4. QED
    BY <1>0, <2>1, <2>2, <2>3, CreateDelivers DEF InHandPc, CreatorPc
<1>2. CASE ClaimWrite(o)
  <2>1. pc[o] = "claim_write" /\ UNCHANGED <<queue, row>>
    BY <1>2 DEF ClaimWrite, brokerVars
  <2>2. PICK c \in Claim : c = cl[o] /\ claim[c].status = "empty"
    BY <1>0, <2>1, ClaimOfCreator DEF CreatorPc
  <2>3. WriteFile(c, "invalid") \/ WriteFile(c, "claimed")
    BY <1>2, <2>2 DEF ClaimWrite
  <2>4. claim'[c].status \in {"claimed", "invalid"} /\ OnlyStatusOf(c)
    BY <1>0, <2>2, <2>3, WriteFileEffect DEF ClaimStatus
  <2>5. pc'[o] \in {"idle", "claim_mark"}
    BY <1>0, <1>2 DEF ClaimWrite, Return, Finish, Goto, LocalsOK
  <2>6. Plain(pc'[o])
    BY <2>5, PlainCommandLabels DEF OperatorPc
  <2>7. QED
    BY <1>0, <2>1, <2>2, <2>4, <2>6, FirstWriteDelivers DEF CreatorPc
<1>3. QED
  BY <1>1, <1>2

(* Rewriting the claim file.                                               *)
LEMMA CommandRewritesDelivers ==
  ASSUME RuntimeInv, NEW o \in Operator, OnlyActor(o),
         AckOpen(o) \/ RequeueOpen(o) \/ AckWrite(o) \/ RequeueWrite(o)
  PROVE  Delivers
<1>0. LocalsOK /\ LedgerTypeOK /\ o \in Actor
  BY CommandParts
<1>1. /\ pc[o] \in {"ack_open", "req_open", "ack_write", "req_write"}
      /\ pc'[o] \in {"ack_write", "req_write", "ack_mark", "req_mark", "idle"}
      /\ UNCHANGED <<queue, row>>
  BY <1>0 DEF AckOpen, RequeueOpen, AckWrite, RequeueWrite, Return, Finish, Goto, LocalsOK, brokerVars
<1>2. PICK c \in Claim : c = cl[o] /\ claim[c].status # "absent"
  BY <1>1, ClaimOfCommand DEF ClaimPc
<1>3. Truncate(c) \/ WriteFile(c, "done") \/ WriteFile(c, "requeued")
  BY <1>2 DEF AckOpen, RequeueOpen, AckWrite, RequeueWrite
<1>4. claim'[c].status \in {"empty", "done", "requeued", "torn"} /\ OnlyStatusOf(c)
  BY <1>0, <1>2, <1>3, TruncateEffect, WriteFileEffect DEF ClaimStatus
<1>5. Plain(pc[o]) /\ Plain(pc'[o])
  BY <1>1, PlainCommandLabels DEF OperatorPc
<1>6. QED
  BY <1>0, <1>1, <1>2, <1>4, <1>5, CloseDelivers

(* The rows a command writes.                                              *)
LEMMA CommandRowsDeliver ==
  ASSUME RuntimeInv, NEW o \in Operator, OnlyActor(o), SendRecord(o) \/ ClaimMark(o) \/ AckMark(o)
  PROVE  Delivers
<1>0. LocalsOK /\ RowTypeOK /\ CommandInv(o) /\ o \in Actor
  BY CommandParts
<1>1. /\ pc[o] \in {"record_send", "claim_mark", "ack_mark"}
      /\ pc'[o] \in {"idle", "ret_list", "ack_load", "req_load"}
      /\ UNCHANGED <<queue, claim>>
  BY <1>0 DEF SendRecord, ClaimMark, AckMark, Return, Finish, Goto, LocalsOK, brokerVars
<1>2. Plain(pc[o]) /\ Plain(pc'[o])
  BY <1>1, PlainCommandLabels DEF OperatorPc
<1>3. pkt[o] \in Packet
  BY <1>0, <1>1, ClaimOfCommand DEF CommandInv, ClaimPc
<1>4. CASE SendRecord(o) \/ ClaimMark(o)
  BY <1>0, <1>1, <1>2, <1>3, <1>4, RowDelivers DEF SendRecord, ClaimMark
<1>5. CASE AckMark(o)
  BY <1>0, <1>1, <1>2, <1>5, ClosedOfCommand, AcknowledgeDelivers DEF AckMark
<1>6. QED
  BY <1>4, <1>5

(* Whatever a command does is a step of PacketDelivery or unseen.          *)
LEMMA CommandDelivers ==
  ASSUME RuntimeInv, NEW o \in Operator, OperatorStep(o)
  PROVE  Delivers
<1>0. OnlyActor(o) /\ LocalsOK /\ CommandInv(o) /\ o \in Actor
  BY CommandMovesAlone, CommandParts
<1>1. CASE \/ \E p \in Packet : SendPublish(o, p)
           \/ \E r, t \in Packet : ReturnSend(o, r, t)
           \/ RequeuePublish(o)
  BY <1>0, <1>1, CommandPublishDelivers
<1>2. CASE \E q \in Queue : ClaimPop(o, q)
  BY <1>0, <1>2, TakeHeadDelivers DEF ClaimPop
<1>3. CASE ClaimWrite(o) \/ \E c \in Claim : ClaimOpen(o, c)
  BY <1>0, <1>3, CommandCreatesDelivers
<1>4. CASE AckOpen(o) \/ RequeueOpen(o) \/ AckWrite(o) \/ RequeueWrite(o)
  BY <1>0, <1>4, CommandRewritesDelivers
<1>5. CASE SendRecord(o) \/ ClaimMark(o) \/ AckMark(o)
  BY <1>0, <1>5, CommandRowsDeliver
<1>6. CASE \/ \E c \in Claim : AckLoad(o, c) \/ RequeueLoad(o, c)
           \/ ReturnAckLoad(o) \/ ReturnRequeueLoad(o) \/ ReturnList(o)
           \/ RequeueMark(o) \/ DbFails(o) \/ Crash(o)
  <2>1. /\ pc'[o] \in {"ack_open", "req_publish", "ret_pop", "ack_load", "idle"}
        /\ UNCHANGED <<queue, claim, row>>
    BY <1>0, <1>6 DEF AckLoad, RequeueLoad, ReturnAckLoad, ReturnRequeueLoad, ReturnList, RequeueMark,
                      DbFails, Crash, Load, Return, Finish, Goto, LocalsOK, brokerVars
  <2>2. Plain(pc'[o])
    BY <2>1, PlainCommandLabels DEF OperatorPc
  <2>3. QED
    BY <1>0, <2>1, <2>2, EndDelivers
<1>7. CASE ReturnPop(o)
  <2>1. pc[o] = "ret_pop" /\ Home[target[o]] \in Queue
    BY <1>0, <1>7, TransportAssumption DEF ReturnPop, CommandInv
  <2>2. CASE queue[Home[target[o]]] = <<>>
    <3>1. UNCHANGED <<queue, claim, row>> /\ pc'[o] = "idle"
      BY <1>0, <1>7, <2>2 DEF ReturnPop, Return, Finish, LocalsOK, brokerVars
    <3>2. QED
      BY <1>0, <3>1, EndDelivers, PlainCommandLabels DEF OperatorPc
  <2>3. CASE queue[Home[target[o]]] # <<>>
    BY <1>0, <1>7, <2>1, <2>3, TakeHeadDelivers DEF ReturnPop
  <2>4. QED
    BY <2>2, <2>3
<1>8. QED
  BY <1>1, <1>2, <1>3, <1>4, <1>5, <1>6, <1>7 DEF OperatorStep

-----------------------------------------------------------------------------
(* And the steps of a host. *)

(* The labels of a host at which PacketDelivery sees nothing of it.        *)
LEMMA PlainHostLabels == \A label \in HostPc : label \notin {"h_open", "h_write"} => Plain(label)
BY DEF Plain, HostPc, InHandPc, CreatorPc

(* The destructive get of a host.                                          *)
LEMMA HostPopDelivers ==
  ASSUME RuntimeInv, NEW h \in Host, OnlyActor(h), HostPop(h)
  PROVE  Delivers
<1>0. LocalsOK /\ h \in Actor /\ Serves[h] \in Queue
  BY HostParts, RuntimeHostAssumption
<1>1. Pop(Serves[h]) /\ UNCHANGED <<claim, row>> /\ pc[h] = "idle"
  BY DEF HostPop
<1>2. \/ pc'[h] \in {"idle", "dead", "hung"}
      \/ pc'[h] = "h_open" /\ pkt'[h] = Head(queue[Serves[h]])
  BY <1>0 DEF HostPop, EndIteration, Finish, Goto, LocalsOK
<1>3. Plain(pc[h]) /\ (pc'[h] \in {"idle", "dead", "hung"} => Plain(pc'[h]))
  BY <1>1, PlainHostLabels DEF HostPc
<1>4. QED
  BY <1>0, <1>1, <1>2, <1>3, PopDelivers DEF InHandPc, CreatorPc

(* Creating the claim file, and its first write.                           *)
LEMMA HostCreatesDelivers ==
  ASSUME RuntimeInv, NEW h \in Host, OnlyActor(h), HostClaimWrite(h) \/ \E c \in Claim : HostClaimOpen(h, c)
  PROVE  Delivers
<1>0. LocalsOK /\ LedgerTypeOK /\ HostInv(h) /\ h \in Actor
  BY HostParts
<1>1. ASSUME NEW c \in Claim, HostClaimOpen(h, c) PROVE Delivers
  <2>1. pc[h] = "h_open" /\ pkt[h] \in Packet /\ CreateFile(c, pkt[h], FALSE) /\ UNCHANGED <<queue, row>>
    BY <1>0, <1>1 DEF HostClaimOpen, HostInv, brokerVars
  <2>2. pc'[h] = "h_write" /\ cl'[h] = c
    BY <1>0, <1>1 DEF HostClaimOpen, Goto, LocalsOK
  <2>3. /\ claim[c].status = "absent"
        /\ claim'[c] = [status |-> "empty", packet |-> pkt[h], envelope |-> FALSE]
        /\ \A d \in Claim \ {c} : claim'[d] = claim[d]
    BY <1>0, <2>1, CreateFileIs
  <2>4. QED
    BY <1>0, <2>1, <2>2, <2>3, CreateDelivers DEF InHandPc, CreatorPc
<1>2. CASE HostClaimWrite(h)
  <2>1. pc[h] = "h_write" /\ pc'[h] = "h_mark" /\ WriteFile(cl[h], "claimed") /\ UNCHANGED <<queue, row>>
    BY <1>0, <1>2 DEF HostClaimWrite, Goto, LocalsOK, brokerVars
  <2>2. PICK c \in Claim : c = cl[h] /\ claim[c].status = "empty"
    BY <1>0, <2>1, ClaimOfCreator DEF CreatorPc
  <2>3. claim'[c].status = "claimed" /\ OnlyStatusOf(c)
    BY <1>0, <2>1, <2>2, WriteFileEffect DEF ClaimStatus
  <2>4. Plain(pc'[h])
    BY <2>1, PlainHostLabels DEF HostPc
  <2>5. QED
    BY <1>0, <2>1, <2>2, <2>3, <2>4, FirstWriteDelivers DEF CreatorPc
<1>3. QED
  BY <1>1, <1>2

(* Closing the claim.                                                      *)
LEMMA HostRewritesDelivers ==
  ASSUME RuntimeInv, NEW h \in Host, OnlyActor(h), HostAckOpen(h) \/ HostAckWrite(h)
  PROVE  Delivers
<1>0. LocalsOK /\ LedgerTypeOK /\ h \in Actor
  BY HostParts
<1>1. /\ pc[h] \in {"h_ack_open", "h_ack_write"} /\ pc'[h] \in {"h_ack_write", "idle"}
      /\ UNCHANGED <<queue, row>>
  BY <1>0 DEF HostAckOpen, HostAckWrite, EndIteration, Finish, Goto, LocalsOK, brokerVars
<1>2. PICK c \in Claim : c = cl[h] /\ claim[c].status # "absent"
  BY <1>1, ClaimOfHost
<1>3. Truncate(c) \/ WriteFile(c, "done")
  BY <1>2 DEF HostAckOpen, HostAckWrite
<1>4. claim'[c].status \in {"empty", "done", "torn"} /\ OnlyStatusOf(c)
  BY <1>0, <1>2, <1>3, TruncateEffect, WriteFileEffect DEF ClaimStatus
<1>5. Plain(pc[h]) /\ Plain(pc'[h])
  BY <1>1, PlainHostLabels DEF HostPc
<1>6. QED
  BY <1>0, <1>1, <1>2, <1>4, <1>5, CloseDelivers

(* The rows a host writes.                                                 *)
LEMMA HostRowsDeliver ==
  ASSUME RuntimeInv, NEW h \in Host, OnlyActor(h), HostMark(h) \/ HostRecord(h)
  PROVE  Delivers
<1>0. LocalsOK /\ RowTypeOK /\ HostInv(h) /\ h \in Actor
  BY HostParts
<1>1. /\ pc[h] \in {"h_mark", "h_record"} /\ pc'[h] \in {"h_resolve", "h_transition", "h_ack_load"}
      /\ UNCHANGED <<queue, claim>>
  BY <1>0 DEF HostMark, HostRecord, Goto, LocalsOK, brokerVars
<1>2. Plain(pc[h]) /\ Plain(pc'[h])
  BY <1>1, PlainHostLabels DEF HostPc
<1>3. CASE HostMark(h)
  <2>1. pkt[h] \in Packet /\ UpdateRow(pkt[h], "claimed")
    BY <1>1, <1>3, ClaimOfHost DEF HostMark
  <2>2. QED
    BY <1>0, <1>1, <1>2, <2>1, RowDelivers
<1>4. CASE HostRecord(h)
  <2>1. result[h] \in Packet /\ InsertRow(result[h])
    BY <1>0, <1>4 DEF HostRecord, HostInv
  <2>2. QED
    BY <1>0, <1>1, <1>2, <2>1, RowDelivers
<1>5. QED
  BY <1>3, <1>4

(* Its publish.                                                            *)
LEMMA HostPublishDelivers ==
  ASSUME RuntimeInv, NEW h \in Host, OnlyActor(h), NEW r \in Packet, HostPublish(h, r)
  PROVE  Delivers
<1>0. LocalsOK /\ h \in Actor
  BY HostParts
<1>1. /\ pc[h] = "h_publish" /\ pc'[h] \in {"h_record", "h_requeue"} /\ UNCHANGED <<claim, row>>
      /\ Publish(r) \/ UNCHANGED queue
  BY <1>0 DEF HostPublish, Goto, LocalsOK, brokerVars
<1>2. Plain(pc[h]) /\ Plain(pc'[h])
  BY <1>1, PlainHostLabels DEF HostPc
<1>3. QED
  BY <1>0, <1>1, <1>2, PublishDelivers, UnseenDelivers DEF AcknowledgedPackets

(* Whatever a host does is a step of PacketDelivery or unseen.             *)
LEMMA HostDelivers ==
  ASSUME RuntimeInv, NEW h \in Host, HostProceed(h) \/ HostDies(h) \/ HostHangs(h)
  PROVE  Delivers
<1>0. OnlyActor(h) /\ LocalsOK /\ h \in Actor
  BY HostMovesAlone, HostParts
<1>1. CASE HostPop(h)
  BY <1>0, <1>1, HostPopDelivers
<1>2. CASE HostClaimWrite(h) \/ \E c \in Claim : HostClaimOpen(h, c)
  BY <1>0, <1>2, HostCreatesDelivers
<1>3. CASE HostAckOpen(h) \/ HostAckWrite(h)
  BY <1>0, <1>3, HostRewritesDelivers
<1>4. CASE HostMark(h) \/ HostRecord(h)
  BY <1>0, <1>4, HostRowsDeliver
<1>5. CASE \E r \in Packet : HostPublish(h, r)
  BY <1>0, <1>5, HostPublishDelivers
<1>6. CASE HostResolve(h) \/ HostWork(h) \/ HostTransition(h) \/ HostAckLoad(h) \/ HostRequeue(h) \/ HostDies(h) \/ HostHangs(h)
  <2>1. /\ pc'[h] \in {"h_requeue", "h_work", "h_ack_load", "h_publish", "h_ack_open", "idle", "dead", "hung"}
        /\ UNCHANGED <<queue, claim, row>>
    BY <1>0, <1>6 DEF HostResolve, HostWork, HostTransition, HostAckLoad, HostRequeue, HostDies, HostHangs,
                      EndIteration, Finish, Goto, LocalsOK, brokerVars
  <2>2. Plain(pc'[h])
    BY <2>1, PlainHostLabels DEF HostPc
  <2>3. QED
    BY <1>0, <2>1, <2>2, EndDelivers
<1>7. QED
  BY <1>1, <1>2, <1>3, <1>4, <1>5, <1>6 DEF HostProceed

(* Every step of the runtime is a step of PacketDelivery or unseen.        *)
LEMMA SystemStepDelivers ==
  ASSUME RuntimeInv, [SystemNext]_systemVars
  PROVE  [Delivery!Next]_(Delivery!deliveryVars)
<1>1. CASE \E o \in Operator : OperatorStep(o)
  BY <1>1, CommandDelivers DEF Delivers
<1>2. CASE \E h \in Host : HostProceed(h) \/ HostDies(h) \/ HostHangs(h)
  BY <1>2, HostDelivers DEF Delivers
<1>3. ASSUME NEW q \in Queue, Purge(q) PROVE Delivery!Next
  <2>1. Delivery!Purge(q)
    BY <1>3 DEF Purge, Delivery!Purge, localVars, Hand, Recorded, OverClaims, Over, AcknowledgedPackets
  <2>2. QED
    BY <2>1 DEF Delivery!Next
<1>4. ASSUME NEW p \in Packet, ForeignPublish(p) PROVE Delivery!Next
  <2>1. Hand' = Hand /\ Recorded' = Recorded /\ OverClaims' = OverClaims
        /\ AcknowledgedPackets' = AcknowledgedPackets
    BY <1>4 DEF ForeignPublish, localVars, Hand, Recorded, OverClaims, Over, AcknowledgedPackets
  <2>2. Delivery!Put(p)
    BY <1>4, <2>1 DEF ForeignPublish, Publish, Delivery!Put
  <2>3. QED
    BY <2>2 DEF Delivery!Next
<1>5. CASE SupervisorStart
  <2>1. /\ UNCHANGED <<queue, claim, row, pkt, cl>>
        /\ \A a \in Actor : pc'[a] = pc[a] \/ (pc[a] = "dead" /\ pc'[a] = "idle")
    BY <1>5 DEF SupervisorStart, brokerVars
  <2>2. \A a \in Actor : /\ pc'[a] \in InHandPc <=> pc[a] \in InHandPc
                         /\ pc'[a] \in CreatorPc <=> pc[a] \in CreatorPc
    BY <2>1 DEF InHandPc, CreatorPc
  <2>3. UNCHANGED Delivery!deliveryVars
    BY <2>1, <2>2 DEF Delivery!deliveryVars, Hand, Recorded, OverClaims, Over, AcknowledgedPackets
  <2>4. QED
    BY <2>3
<1>6. CASE UNCHANGED systemVars
  BY <1>6 DEF systemVars, transportVars, Delivery!deliveryVars, Hand, Recorded, OverClaims, Over,
              AcknowledgedPackets
<1>7. QED
  BY <1>1, <1>2, <1>3, <1>4, <1>5, <1>6 DEF SystemNext, AdminStep, HostStep

(* The runtime starts where PacketDelivery starts.                         *)
LEMMA SystemInitDelivers == SystemInit => Delivery!Init
<1> SUFFICES ASSUME TransportInit PROVE Delivery!Init
  BY DEF SystemInit
<1>1. Hand = [a \in Actor |-> NoPacket]
  BY DEF TransportInit, Hand
<1>2. Recorded = [c \in Claim |-> NoPacket]
  BY DEF TransportInit, Recorded, NoRecord
<1>3. OverClaims = {} /\ AcknowledgedPackets = {}
  BY DEF TransportInit, OverClaims, Over, NoRecord, AcknowledgedPackets
<1>4. QED
  BY <1>1, <1>2, <1>3 DEF Delivery!Init, TransportInit

(* Commands and hosts together, with their crashes, failing statements,    *)
(* deaths and restarts, deliver packets as PacketDelivery promises: no     *)
(* order of their steps reopens a delivery, makes two of one message or    *)
(* acknowledges a packet none of whose deliveries is over.                 *)
THEOREM RuntimeDeliversAsPromised == SystemSpec => DeliversAsPromised
BY SystemInitDelivers, SystemStepDelivers, RuntimeInvariance, PTL
   DEF SystemSpec, DeliversAsPromised, Delivery!Spec

-----------------------------------------------------------------------------
(* How many answers a packet can have: PublishesAccounted and QueuesRouted *)
(* are preserved by what the actions do to the broker, the hosts' hands    *)
(* and source.                                                             *)

(* A packet stands at finitely many positions of a queue.                  *)
LEMMA PositionsFinite ==
  ASSUME NEW s \in Seq(Packet), NEW p
  PROVE  IsFiniteSet({i \in 1..Len(s) : s[i] = p})
<1>1. IsFiniteSet(1..Len(s))
  BY FS_Interval
<1>2. QED
  BY <1>1, FS_Subset

(* What waits of a packet can be counted, and so can its publishes.        *)
LEMMA CountedSetsFinite ==
  ASSUME BrokerTypeOK, NEW p \in Packet
  PROVE  IsFiniteSet(Waiting(p)) /\ published[p] \in Nat
<1>1. Home[p] \in Queue
  BY TransportAssumption
<1>2. IsFiniteSet(Waiting(p))
  BY <1>1, PositionsFinite DEF Waiting, BrokerTypeOK
<1>3. QED
  BY <1>2 DEF BrokerTypeOK

(* A subset of a finite set is finite and no larger.                       *)
LEMMA Fewer ==
  ASSUME NEW S, IsFiniteSet(S), NEW T, T \subseteq S
  PROVE  /\ IsFiniteSet(T) /\ Cardinality(T) \in Nat /\ Cardinality(S) \in Nat
         /\ Cardinality(T) <= Cardinality(S)
BY FS_Subset, FS_CardinalityType

(* One element more makes a finite set larger by at most one.              *)
LEMMA OneMore ==
  ASSUME NEW S, IsFiniteSet(S), NEW x, NEW T, T \subseteq S \cup {x}
  PROVE  /\ IsFiniteSet(T) /\ Cardinality(T) \in Nat /\ Cardinality(S) \in Nat
         /\ Cardinality(T) <= Cardinality(S) + 1
<1>1. /\ IsFiniteSet(S \cup {x})
      /\ Cardinality(S \cup {x}) = IF x \in S THEN Cardinality(S) ELSE Cardinality(S) + 1
  BY FS_AddElement
<1>2. Cardinality(S) \in Nat
  BY FS_CardinalityType
<1>3. IsFiniteSet(T) /\ Cardinality(T) \in Nat /\ Cardinality(T) <= Cardinality(S \cup {x})
  BY <1>1, Fewer
<1>4. QED
  BY <1>1, <1>2, <1>3

(* One element fewer makes it smaller by one.                              *)
LEMMA OneFewer ==
  ASSUME NEW S, IsFiniteSet(S), NEW x \in S, NEW T, T \subseteq S \ {x}
  PROVE  /\ IsFiniteSet(T) /\ Cardinality(T) \in Nat /\ Cardinality(S) \in Nat
         /\ Cardinality(T) + 1 <= Cardinality(S)
<1>1. IsFiniteSet(S \ {x}) /\ Cardinality(S \ {x}) = Cardinality(S) - 1
  BY FS_RemoveElement
<1>2. Cardinality(T) \in Nat /\ Cardinality(T) <= Cardinality(S \ {x})
  BY <1>1, Fewer
<1>3. QED
  BY <1>1, <1>2, FS_CardinalityType, Fewer

(* A publish lets one occurrence more of its packet wait, and none more of *)
(* any other.                                                              *)
LEMMA PublishWaits ==
  ASSUME BrokerTypeOK, QueuesRouted, NEW r \in Packet, Publish(r)
  PROVE  /\ QueuesRouted'
         /\ \A p \in Packet \ {r} : Waiting(p)' = Waiting(p) /\ published'[p] = published[p]
         /\ Waiting(r)' \subseteq Waiting(r) \cup {Len(queue[Home[r]]) + 1}
         /\ published'[r] = published[r] + 1
<1>1. Home[r] \in Queue /\ queue[Home[r]] \in Seq(Packet)
  BY TransportAssumption DEF BrokerTypeOK
<1>2. DEFINE old == queue[Home[r]]
             new == Append(old, r)
<1>3. /\ queue'[Home[r]] = new
      /\ \A q \in Queue \ {Home[r]} : queue'[q] = queue[q]
      /\ published'[r] = published[r] + 1
      /\ \A p \in Packet \ {r} : published'[p] = published[p]
  BY <1>1 DEF Publish, BrokerTypeOK
<1>4. /\ Len(new) = Len(old) + 1 /\ Len(old) \in Nat
      /\ new[Len(old) + 1] = r
      /\ \A i \in 1..Len(old) : new[i] = old[i]
  BY <1>1
<1>5. \A i \in 1..Len(new) : i = Len(old) + 1 \/ i \in 1..Len(old)
  BY <1>4
<1>6. QueuesRouted'
  <2>1. ASSUME NEW i \in 1..Len(new) PROVE Home[new[i]] = Home[r]
    BY <1>1, <1>4, <1>5 DEF QueuesRouted
  <2>2. QED
    BY <1>1, <1>3, <2>1 DEF QueuesRouted
<1>7. ASSUME NEW p \in Packet \ {r} PROVE Waiting(p)' = Waiting(p)
  <2>1. CASE Home[p] = Home[r]
    <3>1. {i \in 1..Len(new) : new[i] = p} = {i \in 1..Len(old) : old[i] = p}
      BY <1>4, <1>5
    <3>2. QED
      BY <1>3, <2>1, <3>1 DEF Waiting
  <2>2. CASE Home[p] # Home[r]
    BY <1>3, <2>2, TransportAssumption DEF Waiting
  <2>3. QED
    BY <2>1, <2>2
<1>8. Waiting(r)' \subseteq Waiting(r) \cup {Len(old) + 1}
  <2>1. {i \in 1..Len(new) : new[i] = r} \subseteq {i \in 1..Len(old) : old[i] = r} \cup {Len(old) + 1}
    BY <1>4, <1>5
  <2>2. QED
    BY <1>3, <2>1 DEF Waiting
<1>9. QED
  BY <1>3, <1>6, <1>7, <1>8

(* A destructive get lets one occurrence fewer of the head wait, and no    *)
(* more of any other packet.                                               *)
LEMMA PopWaits ==
  ASSUME BrokerTypeOK, QueuesRouted, NEW q \in Queue, Pop(q)
  PROVE  /\ QueuesRouted'
         /\ \A p \in Packet : Cardinality(Waiting(p)') <= Cardinality(Waiting(p))
         /\ \A p \in Packet : p = Head(queue[q]) => Cardinality(Waiting(p)') + 1 <= Cardinality(Waiting(p))
<1>1. DEFINE old == queue[q]
             new == Tail(old)
<1>2. old \in Seq(Packet) /\ old # <<>> /\ new \in Seq(Packet) /\ Head(old) \in Packet /\ Head(old) = old[1]
  BY DEF BrokerTypeOK, Pop
<1>3. queue'[q] = new /\ \A k \in Queue \ {q} : queue'[k] = queue[k]
  BY DEF Pop, BrokerTypeOK
<1>4. /\ Len(old) \in Nat /\ Len(new) = Len(old) - 1 /\ 1 \in 1..Len(old)
      /\ \A i \in 1..Len(new) : i + 1 \in 1..Len(old) /\ new[i] = old[i + 1]
  BY <1>2
<1>5. QueuesRouted'
  <2>1. ASSUME NEW i \in 1..Len(new) PROVE Home[new[i]] = q
    BY <1>4 DEF QueuesRouted
  <2>2. QED
    BY <1>3, <2>1 DEF QueuesRouted
<1>6. ASSUME NEW p \in Packet, Home[p] # q PROVE Waiting(p)' = Waiting(p)
  BY <1>3, <1>6, TransportAssumption DEF Waiting
<1>7. ASSUME NEW p \in Packet, Home[p] = q
      PROVE  Cardinality(Waiting(p)') <= Cardinality(Waiting(p) \ {1})
  <2>1. DEFINE f == [i \in Waiting(p)' |-> i + 1]
  <2>2. /\ Waiting(p)' = {i \in 1..Len(new) : new[i] = p}
        /\ Waiting(p) = {i \in 1..Len(old) : old[i] = p}
    BY <1>3, <1>7 DEF Waiting
  <2>3. \A i \in Waiting(p)' : i \in Nat /\ i >= 1 /\ i + 1 \in Waiting(p) \ {1}
    BY <1>4, <2>2
  <2>4. f \in Injection(Waiting(p)', Waiting(p) \ {1})
    <3>1. f \in [Waiting(p)' -> Waiting(p) \ {1}]
      BY <2>3
    <3>2. \A a, b \in DOMAIN f : f[a] = f[b] => a = b
      BY <2>3
    <3>3. QED
      BY <3>1, <3>2 DEF Injection, IsInjective
  <2>5. IsFiniteSet(Waiting(p) \ {1})
    BY CountedSetsFinite, FS_RemoveElement
  <2>6. QED
    BY <2>4, <2>5, FS_Injection
<1>11. ASSUME NEW p \in Packet, Home[p] = q PROVE IsFiniteSet(Waiting(p)')
  <2>1. IsFiniteSet({i \in 1..Len(new) : new[i] = p})
    BY <1>2, PositionsFinite
  <2>2. Waiting(p)' = {i \in 1..Len(new) : new[i] = p}
    BY <1>3, <1>11 DEF Waiting
  <2>3. QED
    BY <2>1, <2>2
<1>8. ASSUME NEW p \in Packet, Home[p] = q
      PROVE  Cardinality(Waiting(p)') <= Cardinality(Waiting(p))
  <2>1. IsFiniteSet(Waiting(p)) /\ IsFiniteSet(Waiting(p)')
    BY <1>8, <1>11, CountedSetsFinite
  <2>2. /\ Cardinality(Waiting(p) \ {1}) <= Cardinality(Waiting(p))
        /\ Cardinality(Waiting(p) \ {1}) \in Nat /\ Cardinality(Waiting(p)) \in Nat
    BY <2>1, Fewer
  <2>3. Cardinality(Waiting(p)') \in Nat
    BY <2>1, FS_CardinalityType
  <2>4. QED
    BY <1>7, <1>8, <2>2, <2>3
<1>9. ASSUME NEW p \in Packet, p = Head(old)
      PROVE  Cardinality(Waiting(p)') + 1 <= Cardinality(Waiting(p))
  <2>1. Home[p] = q
    BY <1>2, <1>4, <1>9 DEF QueuesRouted
  <2>2. 1 \in Waiting(p)
    BY <1>2, <1>4, <1>9, <2>1 DEF Waiting
  <2>3. IsFiniteSet(Waiting(p)) /\ IsFiniteSet(Waiting(p)')
    BY <1>11, <2>1, CountedSetsFinite
  <2>4. /\ Cardinality(Waiting(p) \ {1}) + 1 <= Cardinality(Waiting(p))
        /\ Cardinality(Waiting(p) \ {1}) \in Nat /\ Cardinality(Waiting(p)) \in Nat
    BY <2>2, <2>3, OneFewer
  <2>5. Cardinality(Waiting(p)') \in Nat
    BY <2>3, FS_CardinalityType
  <2>6. Cardinality(Waiting(p)') <= Cardinality(Waiting(p) \ {1})
    BY <1>7, <2>1
  <2>7. QED
    BY <2>4, <2>5, <2>6
<1>10. \A p \in Packet : Cardinality(Waiting(p)') <= Cardinality(Waiting(p))
  <2>1. ASSUME NEW p \in Packet, Home[p] # q PROVE Cardinality(Waiting(p)') <= Cardinality(Waiting(p))
    BY <1>6, <2>1, CountedSetsFinite, FS_CardinalityType
  <2>2. QED
    BY <1>8, <2>1
<1>12. QED
  BY <1>5, <1>9, <1>10

Accounted(p) ==
  /\ IsFiniteSet(Held(p)) /\ IsFiniteSet(Answers(p))
  /\ Cardinality(Waiting(p)) + Cardinality(Held(p)) + Cardinality(Answers(p)) <= published[p]

Accounts == PublishesAccounted /\ QueuesRouted

(* The numbers of an account that holds.                                   *)
LEMMA AccountOf ==
  ASSUME BrokerTypeOK, PublishesAccounted, NEW p \in Packet
  PROVE  /\ Accounted(p)
         /\ IsFiniteSet(Waiting(p)) /\ IsFiniteSet(Held(p)) /\ IsFiniteSet(Answers(p))
         /\ Cardinality(Waiting(p)) \in Nat /\ Cardinality(Held(p)) \in Nat
         /\ Cardinality(Answers(p)) \in Nat /\ published[p] \in Nat
<1>1. Accounted(p)
  BY DEF PublishesAccounted, Accounted
<1>2. QED
  BY <1>1, CountedSetsFinite, FS_CardinalityType DEF Accounted

(* A step that leaves the broker and the answers alone, and puts nothing   *)
(* into a host's hands.                                                    *)
LEMMA QuietAccounts ==
  ASSUME BrokerTypeOK, Accounts, UNCHANGED <<queue, published, source>>,
         \A p \in Packet : Held(p)' \subseteq Held(p)
  PROVE  Accounts'
<1>1. ASSUME NEW p \in Packet PROVE Accounted(p)'
  <2>1. Waiting(p)' = Waiting(p) /\ Answers(p)' = Answers(p) /\ published'[p] = published[p]
    BY DEF Waiting, Answers
  <2>2. IsFiniteSet(Held(p)') /\ Cardinality(Held(p)') \in Nat /\ Cardinality(Held(p)') <= Cardinality(Held(p))
    BY AccountOf, Fewer DEF Accounts
  <2>3. QED
    BY <2>1, <2>2, AccountOf DEF Accounts, Accounted
<1>2. QED
  BY <1>1 DEF Accounts, PublishesAccounted, Accounted, QueuesRouted

(* A publish that is nobody's answer.                                      *)
LEMMA PublishAccounts ==
  ASSUME BrokerTypeOK, Accounts, NEW r \in Packet, Publish(r), UNCHANGED source,
         \A p \in Packet : Held(p)' \subseteq Held(p)
  PROVE  Accounts'
<1>0. PublishesAccounted /\ QueuesRouted
  BY DEF Accounts
<1>1. ASSUME NEW p \in Packet PROVE Accounted(p)'
  <2>1. Answers(p)' = Answers(p)
    BY DEF Answers
  <2>2. IsFiniteSet(Held(p)') /\ Cardinality(Held(p)') \in Nat /\ Cardinality(Held(p)') <= Cardinality(Held(p))
    BY <1>0, AccountOf, Fewer
  <2>3. \/ Cardinality(Waiting(p)') = Cardinality(Waiting(p)) /\ published'[p] = published[p]
        \/ /\ Cardinality(Waiting(p)') \in Nat /\ Cardinality(Waiting(p)') <= Cardinality(Waiting(p)) + 1
           /\ published'[p] = published[p] + 1
    <3>1. CASE p # r
      BY <1>0, <3>1, PublishWaits
    <3>2. CASE p = r
      <4>1. Waiting(p)' \subseteq Waiting(p) \cup {Len(queue[Home[p]]) + 1} /\ published'[p] = published[p] + 1
        BY <1>0, <3>2, PublishWaits
      <4>2. QED
        BY <1>0, <4>1, AccountOf, OneMore
    <3>3. QED
      BY <3>1, <3>2
  <2>4. QED
    BY <1>0, <2>1, <2>2, <2>3, AccountOf DEF Accounted
<1>2. QED
  BY <1>0, <1>1, PublishWaits DEF Accounts, PublishesAccounted, Accounted

(* A destructive get, which may put the head into one host's hands.        *)
LEMMA PopAccounts ==
  ASSUME BrokerTypeOK, Accounts, NEW q \in Queue, Pop(q), UNCHANGED source, NEW a,
         \A p \in Packet : \/ Held(p)' \subseteq Held(p)
                           \/ p = Head(queue[q]) /\ Held(p)' \subseteq Held(p) \cup {a}
  PROVE  Accounts'
<1>0. PublishesAccounted /\ QueuesRouted
  BY DEF Accounts
<1>1. ASSUME NEW p \in Packet PROVE Accounted(p)'
  <2>1. Answers(p)' = Answers(p) /\ published'[p] = published[p]
    BY DEF Answers, Pop
  <2>2. /\ Cardinality(Waiting(p)') <= Cardinality(Waiting(p))
        /\ p = Head(queue[q]) => Cardinality(Waiting(p)') + 1 <= Cardinality(Waiting(p))
    BY <1>0, PopWaits
  <2>3. Cardinality(Waiting(p)') \in Nat
    <3>1. Home[p] \in Queue /\ queue'[Home[p]] \in Seq(Packet)
      BY PopEffect, TransportAssumption DEF BrokerTypeOK
    <3>2. IsFiniteSet(Waiting(p)')
      BY <3>1, PositionsFinite DEF Waiting
    <3>3. QED
      BY <3>2, FS_CardinalityType
  <2>4. CASE Held(p)' \subseteq Held(p)
    <3>1. IsFiniteSet(Held(p)') /\ Cardinality(Held(p)') \in Nat /\ Cardinality(Held(p)') <= Cardinality(Held(p))
      BY <1>0, <2>4, AccountOf, Fewer
    <3>2. QED
      BY <1>0, <2>1, <2>2, <2>3, <3>1, AccountOf DEF Accounted
  <2>5. CASE p = Head(queue[q]) /\ Held(p)' \subseteq Held(p) \cup {a}
    <3>1. /\ IsFiniteSet(Held(p)') /\ Cardinality(Held(p)') \in Nat
          /\ Cardinality(Held(p)') <= Cardinality(Held(p)) + 1
      BY <1>0, <2>5, AccountOf, OneMore
    <3>2. QED
      BY <1>0, <2>1, <2>2, <2>3, <2>5, <3>1, AccountOf DEF Accounted
  <2>6. QED
    BY <2>4, <2>5
<1>2. QED
  BY <1>0, <1>1, PopWaits DEF Accounts, PublishesAccounted, Accounted

(* The queue is emptied.                                                   *)
LEMMA PurgeAccounts ==
  ASSUME BrokerTypeOK, Accounts, NEW q \in Queue, queue' = [queue EXCEPT ![q] = <<>>],
         UNCHANGED <<published, source>>, \A p \in Packet : Held(p)' = Held(p)
  PROVE  Accounts'
<1>0. PublishesAccounted /\ QueuesRouted
  BY DEF Accounts
<1>1. queue'[q] = <<>> /\ \A k \in Queue \ {q} : queue'[k] = queue[k]
  BY DEF BrokerTypeOK
<1>2. ASSUME NEW p \in Packet PROVE Accounted(p)'
  <2>1. Answers(p)' = Answers(p) /\ published'[p] = published[p] /\ Held(p)' = Held(p)
    BY DEF Answers
  <2>2. Waiting(p)' \subseteq Waiting(p)
    <3>1. CASE Home[p] = q
      BY <1>1, <3>1 DEF Waiting
    <3>2. CASE Home[p] # q
      BY <1>1, <3>2, TransportAssumption DEF Waiting
    <3>3. QED
      BY <3>1, <3>2
  <2>3. Cardinality(Waiting(p)') \in Nat /\ Cardinality(Waiting(p)') <= Cardinality(Waiting(p))
    BY <1>0, <2>2, AccountOf, Fewer
  <2>4. QED
    BY <1>0, <2>1, <2>3, AccountOf DEF Accounted
<1>3. QueuesRouted'
  BY <1>0, <1>1 DEF QueuesRouted
<1>4. QED
  BY <1>2, <1>3 DEF Accounts, PublishesAccounted, Accounted

(* A host's publish: what was in its hands is now answered.                *)
LEMMA AnswerAccounts ==
  ASSUME BrokerTypeOK, Accounts, NEW h \in Host, NEW s \in Packet, h \in Held(s),
         NEW r \in Packet, Publish(r), source \in [Packet -> Packet \cup {NoPacket}],
         source' = [source EXCEPT ![r] = s],
         \A p \in Packet : Held(p)' \subseteq Held(p) \ {h}
  PROVE  Accounts'
<1>0. PublishesAccounted /\ QueuesRouted
  BY DEF Accounts
<1>1. ASSUME NEW p \in Packet PROVE Accounted(p)'
  <2>1. /\ IsFiniteSet(Held(p)') /\ Cardinality(Held(p)') \in Nat
        /\ Cardinality(Held(p)') <= Cardinality(Held(p))
    BY <1>0, AccountOf, Fewer
  <2>2. p = s => Cardinality(Held(p)') + 1 <= Cardinality(Held(p))
    BY <1>0, AccountOf, OneFewer
  <2>3. /\ IsFiniteSet(Answers(p)') /\ Cardinality(Answers(p)') \in Nat
        /\ p # s => Cardinality(Answers(p)') <= Cardinality(Answers(p))
        /\ Cardinality(Answers(p)') <= Cardinality(Answers(p)) + 1
    <3>1. Answers(p)' \subseteq Answers(p) \cup {r} /\ (p # s => Answers(p)' \subseteq Answers(p))
      BY DEF Answers
    <3>2. /\ IsFiniteSet(Answers(p)') /\ Cardinality(Answers(p)') \in Nat
          /\ Cardinality(Answers(p)') <= Cardinality(Answers(p)) + 1
      BY <1>0, <3>1, AccountOf, OneMore
    <3>3. p # s => Cardinality(Answers(p)') <= Cardinality(Answers(p))
      BY <1>0, <3>1, AccountOf, Fewer
    <3>4. QED
      BY <3>2, <3>3
  <2>4. \/ Cardinality(Waiting(p)') = Cardinality(Waiting(p)) /\ published'[p] = published[p]
        \/ /\ Cardinality(Waiting(p)') \in Nat /\ Cardinality(Waiting(p)') <= Cardinality(Waiting(p)) + 1
           /\ published'[p] = published[p] + 1
    <3>1. CASE p # r
      BY <1>0, <3>1, PublishWaits
    <3>2. CASE p = r
      <4>1. Waiting(p)' \subseteq Waiting(p) \cup {Len(queue[Home[p]]) + 1} /\ published'[p] = published[p] + 1
        BY <1>0, <3>2, PublishWaits
      <4>2. QED
        BY <1>0, <4>1, AccountOf, OneMore
    <3>3. QED
      BY <3>1, <3>2
  <2>5. QED
    BY <1>0, <2>1, <2>2, <2>3, <2>4, AccountOf DEF Accounted
<1>2. QED
  BY <1>0, <1>1, PublishWaits DEF Accounts, PublishesAccounted, Accounted

(* What a step of one actor does to the hands of the hosts.                *)
LEMMA HeldOf ==
  ASSUME NEW a \in Actor, OnlyActor(a), NEW p \in Packet
  PROVE  /\ a \in Operator => Held(p)' = Held(p)
         /\ pc'[a] \notin HeldPc => Held(p)' \subseteq Held(p) \ {a}
         /\ pc[a] \in HeldPc /\ pkt'[a] = pkt[a] => Held(p)' \subseteq Held(p)
         /\ pkt'[a] # p => Held(p)' \subseteq Held(p) \ {a}
         /\ Held(p)' \subseteq Held(p) \cup {a}
BY Actors DEF OnlyActor, SameActor, Held

(* Every step of a command keeps the accounts.                             *)
LEMMA CommandAccounts ==
  ASSUME RuntimeInv, Accounts, NEW o \in Operator, OperatorStep(o), UNCHANGED hostVars
  PROVE  Accounts'
<1>0. /\ OnlyActor(o) /\ LocalsOK /\ BrokerTypeOK /\ CommandInv(o) /\ o \in Actor
      /\ UNCHANGED source
  BY CommandMovesAlone, CommandParts DEF hostVars
<1>1. \A p \in Packet : Held(p)' \subseteq Held(p)
  BY <1>0, HeldOf
<1>2. ASSUME NEW p \in Packet, Publish(p) PROVE Accounts'
  BY <1>0, <1>1, <1>2, PublishAccounts
<1>3. CASE UNCHANGED brokerVars
  BY <1>0, <1>1, <1>3, QuietAccounts DEF brokerVars
<1>4. ASSUME NEW q \in Queue, Pop(q) PROVE Accounts'
  BY <1>0, <1>1, <1>4, PopAccounts
<1>5. CASE (\E p \in Packet : SendPublish(o, p)) \/ (\E r, t \in Packet : ReturnSend(o, r, t))
  BY <1>2, <1>5 DEF SendPublish, ReturnSend
<1>6. CASE RequeuePublish(o)
  <2>1. pkt[o] \in Packet
    BY <1>6, ClaimOfCommand DEF RequeuePublish, ClaimPc
  <2>2. QED
    BY <1>2, <1>3, <1>6, <2>1 DEF RequeuePublish
<1>7. CASE \E q \in Queue : ClaimPop(o, q)
  BY <1>4, <1>7 DEF ClaimPop, TakeHead
<1>8. CASE ReturnPop(o)
  <2>1. Home[target[o]] \in Queue
    BY <1>0, <1>8, TransportAssumption DEF ReturnPop, CommandInv
  <2>2. QED
    BY <1>3, <1>4, <1>8, <2>1 DEF ReturnPop, TakeHead
<1>9. CASE \/ \E c \in Claim : ClaimOpen(o, c) \/ AckLoad(o, c) \/ RequeueLoad(o, c)
           \/ SendRecord(o) \/ ClaimWrite(o) \/ ClaimMark(o)
           \/ ReturnAckLoad(o) \/ AckOpen(o) \/ AckWrite(o) \/ AckMark(o)
           \/ ReturnRequeueLoad(o) \/ RequeueOpen(o) \/ RequeueWrite(o) \/ RequeueMark(o)
           \/ ReturnList(o) \/ DbFails(o) \/ Crash(o)
  BY <1>3, <1>9 DEF ClaimOpen, AckLoad, RequeueLoad, SendRecord, ClaimWrite, ClaimMark, ReturnAckLoad,
                    AckOpen, AckWrite, AckMark, ReturnRequeueLoad, RequeueOpen, RequeueWrite,
                    RequeueMark, ReturnList, DbFails, Crash
<1>10. QED
  BY <1>5, <1>6, <1>7, <1>8, <1>9 DEF OperatorStep

(* Every step of a host keeps the accounts.                                *)
LEMMA HostAccounts ==
  ASSUME RuntimeInv, Accounts, NEW h \in Host, HostProceed(h) \/ HostDies(h) \/ HostHangs(h)
  PROVE  Accounts'
<1>0. /\ OnlyActor(h) /\ LocalsOK /\ BrokerTypeOK /\ HostInv(h) /\ h \in Actor
      /\ Serves[h] \in Queue
  BY HostMovesAlone, HostParts, RuntimeHostAssumption
<1>1. CASE HostPop(h)
  <2>1. Pop(Serves[h]) /\ UNCHANGED source
    BY <1>1 DEF HostPop, EndIteration, hostVars
  <2>2. pc'[h] \notin HeldPc \/ pkt'[h] = Head(queue[Serves[h]])
    BY <1>0, <1>1 DEF HostPop, EndIteration, Finish, Goto, LocalsOK, HeldPc
  <2>3. \A p \in Packet : \/ Held(p)' \subseteq Held(p)
                          \/ p = Head(queue[Serves[h]]) /\ Held(p)' \subseteq Held(p) \cup {h}
    BY <1>0, <2>2, HeldOf
  <2>4. QED
    BY <1>0, <2>1, <2>3, PopAccounts
<1>2. ASSUME NEW r \in Packet, HostPublish(h, r) PROVE Accounts'
  <2>1. /\ pc[h] = "h_publish" /\ pkt[h] \in Packet /\ h \in Held(pkt[h])
        /\ pc'[h] \in {"h_record", "h_requeue"} /\ UNCHANGED pkt
    BY <1>0, <1>2 DEF HostPublish, HostInv, Held, HeldPc, Goto, LocalsOK
  <2>2. \A p \in Packet : Held(p)' \subseteq Held(p) \ {h}
    BY <1>0, <2>1, HeldOf DEF HeldPc
  <2>3. CASE UNCHANGED <<brokerVars, hostVars>>
    BY <1>0, <2>2, <2>3, QuietAccounts DEF brokerVars, hostVars
  <2>4. CASE Publish(r) /\ source' = [source EXCEPT ![r] = pkt[h]]
    BY <1>0, <2>1, <2>2, <2>4, AnswerAccounts DEF LocalsOK
  <2>5. QED
    BY <1>2, <2>3, <2>4 DEF HostPublish
<1>3. CASE \/ \E c \in Claim : HostClaimOpen(h, c)
           \/ HostClaimWrite(h) \/ HostMark(h) \/ HostResolve(h) \/ HostWork(h)
           \/ HostRecord(h) \/ HostTransition(h) \/ HostAckLoad(h) \/ HostAckOpen(h)
           \/ HostAckWrite(h) \/ HostRequeue(h) \/ HostDies(h) \/ HostHangs(h)
  <2>1. UNCHANGED <<queue, published, source>>
    BY <1>3 DEF HostClaimOpen, HostClaimWrite, HostMark, HostResolve, HostWork, HostRecord,
                HostTransition, HostAckLoad, HostAckOpen, HostAckWrite, HostRequeue, HostDies, HostHangs,
                EndIteration, brokerVars, hostVars
  <2>2. pc'[h] \notin HeldPc \/ (pc[h] \in HeldPc /\ pkt'[h] = pkt[h])
    <3>1. CASE \/ \E c \in Claim : HostClaimOpen(h, c)
               \/ HostClaimWrite(h) \/ HostMark(h) \/ HostResolve(h)
      BY <1>0, <3>1 DEF HostClaimOpen, HostClaimWrite, HostMark, HostResolve, HeldPc
    <3>2. CASE HostWork(h)
      BY <1>0, <3>2 DEF HostWork, EndIteration, Finish, LocalsOK, HeldPc
    <3>3. CASE HostRecord(h) \/ HostTransition(h) \/ HostAckOpen(h)
      BY <1>0, <3>3 DEF HostRecord, HostTransition, HostAckOpen, Goto, LocalsOK, HeldPc
    <3>4. CASE HostAckLoad(h) \/ HostAckWrite(h) \/ HostRequeue(h) \/ HostDies(h) \/ HostHangs(h)
      BY <1>0, <3>4 DEF HostAckLoad, HostAckWrite, HostRequeue, HostDies, HostHangs, EndIteration, Finish, Goto,
                        LocalsOK, HeldPc
    <3>5. QED
      BY <1>3, <3>1, <3>2, <3>3, <3>4
  <2>3. \A p \in Packet : Held(p)' \subseteq Held(p)
    BY <1>0, <2>2, HeldOf
  <2>4. QED
    BY <1>0, <2>1, <2>3, QuietAccounts
<1>4. QED
  BY <1>1, <1>2, <1>3 DEF HostProceed

(* Every step of the runtime does.                                         *)
LEMMA SystemAccounts ==
  ASSUME RuntimeInv, Accounts, [SystemNext]_systemVars
  PROVE  Accounts'
<1>0. BrokerTypeOK
  BY RuntimeParts
<1>1. CASE (\E o \in Operator : OperatorStep(o)) /\ UNCHANGED hostVars
  BY <1>1, CommandAccounts
<1>2. CASE \E h \in Host : HostProceed(h) \/ HostDies(h) \/ HostHangs(h)
  BY <1>2, HostAccounts
<1>3. ASSUME NEW q \in Queue, Purge(q), UNCHANGED hostVars PROVE Accounts'
  BY <1>0, <1>3, PurgeAccounts DEF Purge, localVars, hostVars, Held
<1>4. ASSUME NEW p \in Packet, ForeignPublish(p), UNCHANGED hostVars PROVE Accounts'
  BY <1>0, <1>4, PublishAccounts DEF ForeignPublish, localVars, hostVars, Held
<1>5. CASE SupervisorStart
  <2>1. \A p \in Packet : Held(p)' \subseteq Held(p)
    BY <1>5, RuntimeHostAssumption DEF SupervisorStart, Held, HeldPc
  <2>2. QED
    BY <1>0, <1>5, <2>1, QuietAccounts DEF SupervisorStart, brokerVars, hostVars
<1>6. CASE UNCHANGED systemVars
  BY <1>0, <1>6, QuietAccounts DEF systemVars, transportVars, hostVars, Held
<1>7. QED
  BY <1>1, <1>2, <1>3, <1>4, <1>5, <1>6 DEF SystemNext, AdminStep, HostStep

(* Nothing is published, held or answered when the runtime starts.         *)
LEMMA SystemInitAccounts == SystemInit => Accounts
<1> SUFFICES ASSUME TransportInit, HostInit PROVE Accounts
  BY DEF SystemInit
<1>1. ASSUME NEW p \in Packet PROVE Accounted(p)
  <2>1. Waiting(p) = {} /\ Held(p) = {} /\ Answers(p) = {} /\ published[p] = 0
    BY TransportAssumption, RuntimeHostAssumption
       DEF TransportInit, HostInit, Waiting, Held, HeldPc, Answers
  <2>2. QED
    BY <2>1, FS_EmptySet DEF Accounted
<1>2. QueuesRouted
  BY DEF TransportInit, QueuesRouted
<1>3. QED
  BY <1>1, <1>2 DEF Accounts, PublishesAccounted, Accounted

(* Every put of a packet on the broker is still on its queue, in the hands *)
(* of one host, answered, or gone, whatever is killed, restarted, requeued *)
(* or purged.                                                              *)
THEOREM EveryPublishIsAccountedFor == SystemSpec => []PublishesAccounted
<1>1. RuntimeInv /\ Accounts /\ [SystemNext]_systemVars => Accounts'
  BY SystemAccounts
<1>2. Accounts => PublishesAccounted
  BY DEF Accounts
<1>3. QED
  BY <1>1, <1>2, SystemInitAccounts, RuntimeInvariance, PTL DEF SystemSpec

(* A packet is answered at most as often as it was put on the broker: the  *)
(* destructive get gives a delivery to one actor, and a killed host's work *)
(* is not done again by its successor.                                     *)
THEOREM EachDeliveryAnsweredOnce == SystemSpec => []AtMostOneResultPerDelivery
<1>1. RuntimeInv /\ PublishesAccounted => AtMostOneResultPerDelivery
  <2> SUFFICES ASSUME RuntimeInv, PublishesAccounted, NEW p \in Packet
               PROVE  Cardinality({r \in Packet : source[r] = p}) <= published[p]
    BY DEF AtMostOneResultPerDelivery
  <2>1. Accounted(p) /\ Cardinality(Waiting(p)) \in Nat /\ Cardinality(Held(p)) \in Nat
        /\ Cardinality(Answers(p)) \in Nat /\ published[p] \in Nat
    BY AccountOf, RuntimeParts
  <2>2. QED
    BY <2>1 DEF Accounted, Answers
<1>2. QED
  BY <1>1, RuntimeInvariance, EveryPublishIsAccountedFor, PTL

-----------------------------------------------------------------------------
(* How many copies of a packet there are: DeliveryAccounts is preserved by *)
(* what the actions of commands and hosts do to the broker, their hands    *)
(* and the ledger.                                                         *)

(* The numbers of an account that holds.                                   *)
LEMMA CopiesOf ==
  ASSUME BrokerTypeOK, DeliveryAccounts, NEW p \in Packet
  PROVE  /\ IsFiniteSet(Waiting(p)) /\ IsFiniteSet(Popped(p)) /\ IsFiniteSet(ClaimsOf(p))
         /\ Cardinality(Waiting(p)) \in Nat /\ Cardinality(Popped(p)) \in Nat
         /\ Cardinality(ClaimsOf(p)) \in Nat /\ published[p] \in Nat
         /\ Cardinality(Waiting(p)) + Cardinality(Popped(p)) + Cardinality(ClaimsOf(p)) <= published[p]
<1>1. IsFiniteSet(Waiting(p)) /\ published[p] \in Nat
  BY CountedSetsFinite
<1>2. IsFiniteSet(Popped(p)) /\ IsFiniteSet(ClaimsOf(p)) /\ Copies(p) <= published[p]
  BY DEF DeliveryAccounts, DeliveriesAccountedFor
<1>3. QED
  BY <1>1, <1>2, FS_CardinalityType DEF Copies

(* The account of one packet.                                              *)
Counted(p) ==
  /\ IsFiniteSet(Popped(p)) /\ IsFiniteSet(ClaimsOf(p))
  /\ Cardinality(Waiting(p)) + Cardinality(Popped(p)) + Cardinality(ClaimsOf(p)) <= published[p]

(* DeliveryAccounts, packet by packet.                                     *)
LEMMA AccountsPacketwise ==
  ASSUME QueuesRouted', \A p \in Packet : Counted(p)'
  PROVE  DeliveryAccounts'
BY DEF DeliveryAccounts, DeliveriesAccountedFor, Copies, Counted

(* A step that leaves the broker alone and adds neither hand nor claim.    *)
LEMMA QuietCopies ==
  ASSUME BrokerTypeOK, DeliveryAccounts, UNCHANGED <<queue, published>>,
         \A p \in Packet : Popped(p)' \subseteq Popped(p) /\ ClaimsOf(p)' \subseteq ClaimsOf(p)
  PROVE  DeliveryAccounts'
<1>1. ASSUME NEW p \in Packet PROVE Counted(p)'
  <2>1. Waiting(p)' = Waiting(p) /\ published'[p] = published[p]
    BY DEF Waiting
  <2>2. /\ IsFiniteSet(Popped(p)') /\ Cardinality(Popped(p)') \in Nat
        /\ Cardinality(Popped(p)') <= Cardinality(Popped(p))
    BY CopiesOf, Fewer
  <2>3. /\ IsFiniteSet(ClaimsOf(p)') /\ Cardinality(ClaimsOf(p)') \in Nat
        /\ Cardinality(ClaimsOf(p)') <= Cardinality(ClaimsOf(p))
    BY CopiesOf, Fewer
  <2>4. QED
    BY <2>1, <2>2, <2>3, CopiesOf DEF Counted
<1>2. QueuesRouted'
  BY DEF DeliveryAccounts, QueuesRouted
<1>3. QED
  BY <1>1, <1>2, AccountsPacketwise

(* A publish adds one copy and one publish.                                *)
LEMMA PublishCopies ==
  ASSUME BrokerTypeOK, DeliveryAccounts, NEW r \in Packet, Publish(r), UNCHANGED claim,
         \A p \in Packet : Popped(p)' \subseteq Popped(p)
  PROVE  DeliveryAccounts'
<1>0. QueuesRouted
  BY DEF DeliveryAccounts
<1>1. ASSUME NEW p \in Packet PROVE Counted(p)'
  <2>1. ClaimsOf(p)' = ClaimsOf(p)
    BY DEF ClaimsOf
  <2>2. /\ IsFiniteSet(Popped(p)') /\ Cardinality(Popped(p)') \in Nat
        /\ Cardinality(Popped(p)') <= Cardinality(Popped(p))
    BY CopiesOf, Fewer
  <2>3. \/ Cardinality(Waiting(p)') = Cardinality(Waiting(p)) /\ published'[p] = published[p]
        \/ /\ Cardinality(Waiting(p)') \in Nat /\ Cardinality(Waiting(p)') <= Cardinality(Waiting(p)) + 1
           /\ published'[p] = published[p] + 1
    <3>1. CASE p # r
      BY <1>0, <3>1, PublishWaits
    <3>2. CASE p = r
      <4>1. Waiting(p)' \subseteq Waiting(p) \cup {Len(queue[Home[p]]) + 1} /\ published'[p] = published[p] + 1
        BY <1>0, <3>2, PublishWaits
      <4>2. QED
        BY <4>1, CopiesOf, OneMore
    <3>3. QED
      BY <3>1, <3>2
  <2>4. QED
    BY <2>1, <2>2, <2>3, CopiesOf DEF Counted
<1>2. QED
  BY <1>0, <1>1, PublishWaits, AccountsPacketwise

(* A destructive get, which may put the head into one actor's hands.       *)
LEMMA PopCopies ==
  ASSUME BrokerTypeOK, DeliveryAccounts, NEW q \in Queue, Pop(q), UNCHANGED claim, NEW a,
         \A p \in Packet : \/ Popped(p)' \subseteq Popped(p)
                           \/ p = Head(queue[q]) /\ Popped(p)' \subseteq Popped(p) \cup {a}
  PROVE  DeliveryAccounts'
<1>0. QueuesRouted
  BY DEF DeliveryAccounts
<1>1. ASSUME NEW p \in Packet PROVE Counted(p)'
  <2>1. ClaimsOf(p)' = ClaimsOf(p) /\ published'[p] = published[p]
    BY DEF ClaimsOf, Pop
  <2>2. /\ Cardinality(Waiting(p)') <= Cardinality(Waiting(p))
        /\ p = Head(queue[q]) => Cardinality(Waiting(p)') + 1 <= Cardinality(Waiting(p))
    BY <1>0, PopWaits
  <2>3. Cardinality(Waiting(p)') \in Nat
    <3>1. Home[p] \in Queue /\ queue'[Home[p]] \in Seq(Packet)
      BY PopEffect, TransportAssumption DEF BrokerTypeOK
    <3>2. IsFiniteSet(Waiting(p)')
      BY <3>1, PositionsFinite DEF Waiting
    <3>3. QED
      BY <3>2, FS_CardinalityType
  <2>4. CASE Popped(p)' \subseteq Popped(p)
    <3>1. /\ IsFiniteSet(Popped(p)') /\ Cardinality(Popped(p)') \in Nat
          /\ Cardinality(Popped(p)') <= Cardinality(Popped(p))
      BY <2>4, CopiesOf, Fewer
    <3>2. QED
      BY <2>1, <2>2, <2>3, <3>1, CopiesOf DEF Counted
  <2>5. CASE p = Head(queue[q]) /\ Popped(p)' \subseteq Popped(p) \cup {a}
    <3>1. /\ IsFiniteSet(Popped(p)') /\ Cardinality(Popped(p)') \in Nat
          /\ Cardinality(Popped(p)') <= Cardinality(Popped(p)) + 1
      BY <2>5, CopiesOf, OneMore
    <3>2. QED
      BY <2>1, <2>2, <2>3, <2>5, <3>1, CopiesOf DEF Counted
  <2>6. QED
    BY <2>4, <2>5
<1>2. QED
  BY <1>0, <1>1, PopWaits, AccountsPacketwise

(* A claim file is created for what an actor has in its hands.             *)
LEMMA ClaimCopies ==
  ASSUME BrokerTypeOK, DeliveryAccounts, UNCHANGED <<queue, published>>,
         NEW s \in Packet, NEW a \in Popped(s), NEW c,
         \A p \in Packet : Popped(p)' \subseteq Popped(p) \ {a},
         \A p \in Packet \ {s} : ClaimsOf(p)' \subseteq ClaimsOf(p),
         ClaimsOf(s)' \subseteq ClaimsOf(s) \cup {c}
  PROVE  DeliveryAccounts'
<1>1. ASSUME NEW p \in Packet PROVE Counted(p)'
  <2>1. Waiting(p)' = Waiting(p) /\ published'[p] = published[p]
    BY DEF Waiting
  <2>2. CASE p # s
    <3>1. /\ IsFiniteSet(Popped(p)') /\ Cardinality(Popped(p)') \in Nat
          /\ Cardinality(Popped(p)') <= Cardinality(Popped(p))
      BY CopiesOf, Fewer
    <3>2. /\ IsFiniteSet(ClaimsOf(p)') /\ Cardinality(ClaimsOf(p)') \in Nat
          /\ Cardinality(ClaimsOf(p)') <= Cardinality(ClaimsOf(p))
      BY <2>2, CopiesOf, Fewer
    <3>3. QED
      BY <2>1, <3>1, <3>2, CopiesOf DEF Counted
  <2>3. CASE p = s
    <3>1. /\ IsFiniteSet(Popped(p)') /\ Cardinality(Popped(p)') \in Nat
          /\ Cardinality(Popped(p)') + 1 <= Cardinality(Popped(p))
      BY <2>3, CopiesOf, OneFewer
    <3>2. /\ IsFiniteSet(ClaimsOf(p)') /\ Cardinality(ClaimsOf(p)') \in Nat
          /\ Cardinality(ClaimsOf(p)') <= Cardinality(ClaimsOf(p)) + 1
      BY <2>3, CopiesOf, OneMore
    <3>3. QED
      BY <2>1, <3>1, <3>2, CopiesOf DEF Counted
  <2>4. QED
    BY <2>2, <2>3
<1>2. QueuesRouted'
  BY DEF DeliveryAccounts, QueuesRouted
<1>3. QED
  BY <1>1, <1>2, AccountsPacketwise

(* The queue is emptied.                                                   *)
LEMMA PurgeCopies ==
  ASSUME BrokerTypeOK, DeliveryAccounts, NEW q \in Queue, queue' = [queue EXCEPT ![q] = <<>>],
         UNCHANGED <<published, claim, pc, pkt>>
  PROVE  DeliveryAccounts'
<1>0. QueuesRouted
  BY DEF DeliveryAccounts
<1>1. queue'[q] = <<>> /\ \A k \in Queue \ {q} : queue'[k] = queue[k]
  BY DEF BrokerTypeOK
<1>2. ASSUME NEW p \in Packet PROVE Counted(p)'
  <2>1. Popped(p)' = Popped(p) /\ ClaimsOf(p)' = ClaimsOf(p) /\ published'[p] = published[p]
    BY DEF Popped, ClaimsOf
  <2>2. Waiting(p)' \subseteq Waiting(p)
    <3>1. CASE Home[p] = q
      BY <1>1, <3>1 DEF Waiting
    <3>2. CASE Home[p] # q
      BY <1>1, <3>2, TransportAssumption DEF Waiting
    <3>3. QED
      BY <3>1, <3>2
  <2>3. Cardinality(Waiting(p)') \in Nat /\ Cardinality(Waiting(p)') <= Cardinality(Waiting(p))
    BY <2>2, CopiesOf, Fewer
  <2>4. QED
    BY <2>1, <2>3, CopiesOf DEF Counted
<1>3. QueuesRouted'
  BY <1>0, <1>1 DEF QueuesRouted
<1>4. QED
  BY <1>2, <1>3, AccountsPacketwise

(* What a step of one actor does to the hands.                             *)
LEMMA PoppedOf ==
  ASSUME NEW a, OnlyActor(a), NEW p
  PROVE  /\ pc'[a] \notin InHandPc \/ pkt'[a] # p => Popped(p)' \subseteq Popped(p) \ {a}
         /\ Popped(p)' \subseteq Popped(p) \cup {a}
BY DEF OnlyActor, SameActor, Popped

(* Writing a file that exists makes no new claim.                          *)
LEMMA WrittenClaims ==
  ASSUME NEW c \in Claim, OnlyStatusOf(c), claim[c].status # "absent", NEW p
  PROVE  ClaimsOf(p)' \subseteq ClaimsOf(p)
BY DEF OnlyStatusOf, ClaimsOf

(* Creating one makes a single new claim, of the packet it is created for. *)
LEMMA CreatedClaim ==
  ASSUME LedgerTypeOK, NEW c \in Claim, NEW s, NEW envelope, CreateFile(c, s, envelope), NEW p
  PROVE  /\ ClaimsOf(p)' \subseteq ClaimsOf(p) \cup {c}
         /\ p # s => ClaimsOf(p)' \subseteq ClaimsOf(p)
<1>1. /\ claim'[c].packet = s
      /\ \A d \in Claim \ {c} : claim'[d] = claim[d]
  BY DEF LedgerTypeOK, CreateFile
<1>2. QED
  BY <1>1 DEF ClaimsOf

(* What of its locals a command relies on, alone or beside hosts.          *)
CommandKnows(o) ==
  /\ pc[o] \in {"claim_open", "req_publish"} => pkt[o] \in Packet
  /\ pc[o] = "ret_pop" => target[o] \in Packet
  /\ pc[o] \in ClaimPc => cl[o] \in Claim /\ claim[cl[o]].status # "absent"

(* The locals are functions of the actors.                                 *)
Located == pc = [a \in Actor |-> pc[a]] /\ pkt = [a \in Actor |-> pkt[a]]

(* Every step of a command keeps the account, alone or beside hosts.       *)
LEMMA CommandCopies ==
  ASSUME BrokerTypeOK, LedgerTypeOK, DeliveryAccounts, Located,
         NEW o \in Operator, CommandKnows(o), OnlyActor(o), OperatorStep(o)
  PROVE  DeliveryAccounts'
<1>0. o \in Actor
  BY QueueAdminAssumption
<1>1. ASSUME pc'[o] \notin InHandPc, NEW p PROVE Popped(p)' \subseteq Popped(p)
  BY <1>1, PoppedOf
<1>2. ASSUME UNCHANGED claim, NEW p PROVE ClaimsOf(p)' \subseteq ClaimsOf(p)
  BY <1>2 DEF ClaimsOf
<1>3. ASSUME NEW label, Goto(o, label) PROVE pc'[o] = label
  BY <1>0, <1>3 DEF Goto, Located
<1>4. ASSUME Return(o) PROVE pc'[o] \notin InHandPc
  BY <1>0, <1>4 DEF Return, Finish, Located, InHandPc
<1>5. CASE (\E p \in Packet : SendPublish(o, p)) \/ (\E r, t \in Packet : ReturnSend(o, r, t))
  <2>1. (\E r \in Packet : Publish(r)) /\ UNCHANGED claim /\ pc'[o] = "record_send"
    BY <1>3, <1>5 DEF SendPublish, ReturnSend
  <2>2. QED
    BY <1>1, <2>1, PublishCopies DEF InHandPc
<1>6. CASE RequeuePublish(o)
  <2>1. pkt[o] \in Packet /\ UNCHANGED claim /\ pc'[o] = "req_open"
    BY <1>3, <1>6 DEF RequeuePublish, CommandKnows
  <2>2. CASE Publish(pkt[o])
    BY <1>1, <2>1, <2>2, PublishCopies DEF InHandPc
  <2>3. CASE UNCHANGED brokerVars
    BY <1>1, <1>2, <2>1, <2>3, QuietCopies DEF InHandPc, brokerVars
  <2>4. QED
    BY <1>6, <2>2, <2>3 DEF RequeuePublish
<1>7. ASSUME NEW q \in Queue, TakeHead(o, q) PROVE DeliveryAccounts'
  <2>1. Pop(q) /\ UNCHANGED claim
    BY <1>7 DEF TakeHead
  <2>2. pc'[o] \notin InHandPc \/ pkt'[o] = Head(queue[q])
    BY <1>0, <1>4, <1>7 DEF TakeHead, Located
  <2>3. \A p \in Packet : \/ Popped(p)' \subseteq Popped(p)
                          \/ p = Head(queue[q]) /\ Popped(p)' \subseteq Popped(p) \cup {o}
    BY <2>2, PoppedOf
  <2>4. QED
    BY <2>1, <2>3, PopCopies
<1>8. CASE \E q \in Queue : ClaimPop(o, q)
  BY <1>7, <1>8 DEF ClaimPop
<1>9. CASE ReturnPop(o)
  <2>1. Home[target[o]] \in Queue
    BY <1>9, TransportAssumption DEF ReturnPop, CommandKnows
  <2>2. CASE Return(o) /\ UNCHANGED <<brokerVars, claim, row>>
    BY <1>1, <1>2, <1>4, <2>2, QuietCopies DEF brokerVars
  <2>3. QED
    BY <1>7, <1>9, <2>1, <2>2 DEF ReturnPop
<1>10. ASSUME NEW c \in Claim, ClaimOpen(o, c) PROVE DeliveryAccounts'
  <2>1. /\ pkt[o] \in Packet /\ o \in Popped(pkt[o]) /\ pc'[o] = "claim_write"
        /\ CreateFile(c, pkt[o], TRUE) /\ UNCHANGED <<queue, published>>
    BY <1>0, <1>3, <1>10 DEF ClaimOpen, CommandKnows, Popped, InHandPc, brokerVars
  <2>2. \A p \in Packet : Popped(p)' \subseteq Popped(p) \ {o}
    BY <2>1, PoppedOf DEF InHandPc
  <2>3. PICK s \in Packet : s = pkt[o]
    BY <2>1
  <2>4. /\ \A p \in Packet \ {s} : ClaimsOf(p)' \subseteq ClaimsOf(p)
        /\ ClaimsOf(s)' \subseteq ClaimsOf(s) \cup {c}
    BY <2>1, <2>3, CreatedClaim
  <2>5. QED
    BY <2>1, <2>2, <2>3, <2>4, ClaimCopies
<1>11. CASE ClaimWrite(o) \/ AckWrite(o) \/ RequeueWrite(o) \/ AckOpen(o) \/ RequeueOpen(o)
  <2>1. cl[o] \in Claim /\ claim[cl[o]].status # "absent"
    BY <1>11 DEF ClaimWrite, AckWrite, RequeueWrite, AckOpen, RequeueOpen, CommandKnows, ClaimPc
  <2>2. PICK c \in Claim : c = cl[o]
    BY <2>1
  <2>3. OnlyStatusOf(c)
    <3>1. CASE AckOpen(o) \/ RequeueOpen(o)
      BY <2>2, <3>1, TruncateEffect DEF AckOpen, RequeueOpen
    <3>2. CASE ClaimWrite(o) \/ AckWrite(o) \/ RequeueWrite(o)
      <4>1. \E status \in ClaimStatus : WriteFile(c, status)
        BY <2>2, <3>2 DEF ClaimWrite, AckWrite, RequeueWrite, ClaimStatus
      <4>2. QED
        BY <4>1, WriteFileEffect
    <3>3. QED
      BY <1>11, <3>1, <3>2
  <2>4. UNCHANGED <<queue, published>> /\ pc'[o] \notin InHandPc
    BY <1>3, <1>4, <1>11 DEF ClaimWrite, AckWrite, RequeueWrite, AckOpen, RequeueOpen, brokerVars, InHandPc
  <2>5. QED
    BY <1>1, <2>1, <2>2, <2>3, <2>4, WrittenClaims, QuietCopies
<1>12. CASE \/ \E c \in Claim : AckLoad(o, c) \/ RequeueLoad(o, c)
            \/ SendRecord(o) \/ ClaimMark(o) \/ ReturnAckLoad(o) \/ AckMark(o)
            \/ ReturnRequeueLoad(o) \/ RequeueMark(o) \/ ReturnList(o) \/ DbFails(o) \/ Crash(o)
  <2>1. UNCHANGED <<queue, published, claim>>
    BY <1>12 DEF AckLoad, RequeueLoad, SendRecord, ClaimMark, ReturnAckLoad, AckMark, ReturnRequeueLoad,
                 RequeueMark, ReturnList, DbFails, Crash, brokerVars
  <2>2. pc'[o] \notin InHandPc
    <3>1. CASE \/ \E c \in Claim : AckLoad(o, c) \/ RequeueLoad(o, c)
               \/ ReturnAckLoad(o) \/ ReturnRequeueLoad(o)
      BY <1>3, <1>4, <3>1 DEF AckLoad, RequeueLoad, ReturnAckLoad, ReturnRequeueLoad, Load, InHandPc
    <3>2. CASE SendRecord(o) \/ ClaimMark(o) \/ ReturnList(o)
      BY <1>3, <1>4, <3>2 DEF SendRecord, ClaimMark, ReturnList, InHandPc
    <3>3. CASE AckMark(o) \/ RequeueMark(o) \/ DbFails(o) \/ Crash(o)
      BY <1>4, <3>3 DEF AckMark, RequeueMark, DbFails, Crash
    <3>4. QED
      BY <1>12, <3>1, <3>2, <3>3
  <2>3. QED
    BY <1>1, <1>2, <2>1, <2>2, QuietCopies
<1>13. QED
  BY <1>5, <1>6, <1>8, <1>9, <1>10, <1>11, <1>12 DEF OperatorStep

(* A purge, a foreign publish and a step that changes none of it.          *)
LEMMA BrokerCopies ==
  ASSUME BrokerTypeOK, DeliveryAccounts, UNCHANGED <<claim, pc, pkt>>,
         \/ \E q \in Queue : Purge(q)
         \/ \E p \in Packet : ForeignPublish(p)
         \/ UNCHANGED <<queue, published>>
  PROVE  DeliveryAccounts'
<1>1. \A p \in Packet : Popped(p)' = Popped(p) /\ ClaimsOf(p)' = ClaimsOf(p)
  BY DEF Popped, ClaimsOf
<1>2. CASE \E q \in Queue : Purge(q)
  BY <1>2, PurgeCopies DEF Purge
<1>3. CASE \E p \in Packet : ForeignPublish(p)
  BY <1>1, <1>3, PublishCopies DEF ForeignPublish
<1>4. CASE UNCHANGED <<queue, published>>
  BY <1>1, <1>4, QuietCopies
<1>5. QED
  BY <1>2, <1>3, <1>4

(* Every step of the operator commands keeps the account.                  *)
LEMMA AdminCopies ==
  ASSUME AdminInv, DeliveryAccounts, [AdminStep]_adminSystemVars
  PROVE  DeliveryAccounts'
<1>0. BrokerTypeOK /\ LedgerTypeOK /\ LocalTypeOK
  BY PartsFromInv
<1>1. ASSUME NEW o \in Operator, OperatorStep(o) PROVE DeliveryAccounts'
  <2>1. LocalInv(o) /\ LedgerInv
    BY PartsFromInv DEF OperatorInv
  <2>2. CommandKnows(o)
    BY <2>1 DEF LocalInv, LedgerInv, CommandKnows, ClaimPc
  <2>3. Located
    BY <1>0 DEF LocalTypeOK, Located
  <2>4. OnlyActor(o)
    BY <1>1, StepIsOwn
  <2>5. QED
    BY <1>0, <1>1, <2>2, <2>3, <2>4, CommandCopies
<1>2. CASE (\E q \in Queue : Purge(q)) \/ (\E p \in Packet : ForeignPublish(p))
  BY <1>0, <1>2, BrokerCopies DEF Purge, ForeignPublish, localVars
<1>3. CASE UNCHANGED adminSystemVars
  BY <1>0, <1>3, BrokerCopies DEF adminSystemVars, transportVars
<1>4. QED
  BY <1>1, <1>2, <1>3 DEF AdminStep

(* Every step of a host keeps the account.                                 *)
LEMMA HostCopies ==
  ASSUME RuntimeInv, DeliveryAccounts, NEW h \in Host, HostProceed(h) \/ HostDies(h) \/ HostHangs(h)
  PROVE  DeliveryAccounts'
<1>0. /\ OnlyActor(h) /\ LocalsOK /\ BrokerTypeOK /\ LedgerTypeOK /\ HostInv(h) /\ h \in Actor
      /\ Serves[h] \in Queue
  BY HostMovesAlone, HostParts, RuntimeHostAssumption
<1>1. ASSUME pc'[h] \notin InHandPc, NEW p PROVE Popped(p)' \subseteq Popped(p)
  BY <1>0, <1>1, PoppedOf
<1>2. ASSUME UNCHANGED claim, NEW p PROVE ClaimsOf(p)' \subseteq ClaimsOf(p)
  BY <1>2 DEF ClaimsOf
<1>3. ASSUME NEW label, Goto(h, label) PROVE pc'[h] = label
  BY <1>0, <1>3 DEF Goto, LocalsOK
<1>4. ASSUME NEW label, EndIteration(h, label) PROVE pc'[h] = label
  BY <1>0, <1>4 DEF EndIteration, Finish, LocalsOK
<1>5. CASE HostPop(h)
  <2>1. Pop(Serves[h]) /\ UNCHANGED claim
    BY <1>5 DEF HostPop
  <2>2. pc'[h] \notin InHandPc \/ pkt'[h] = Head(queue[Serves[h]])
    BY <1>0, <1>4, <1>5 DEF HostPop, LocalsOK, InHandPc
  <2>3. \A p \in Packet : \/ Popped(p)' \subseteq Popped(p)
                          \/ p = Head(queue[Serves[h]]) /\ Popped(p)' \subseteq Popped(p) \cup {h}
    BY <1>0, <2>2, PoppedOf
  <2>4. QED
    BY <1>0, <2>1, <2>3, PopCopies
<1>6. ASSUME NEW c \in Claim, HostClaimOpen(h, c) PROVE DeliveryAccounts'
  <2>1. /\ pkt[h] \in Packet /\ h \in Popped(pkt[h]) /\ pc'[h] = "h_write"
        /\ CreateFile(c, pkt[h], FALSE) /\ UNCHANGED <<queue, published>>
    BY <1>0, <1>3, <1>6 DEF HostClaimOpen, HostInv, Popped, InHandPc, brokerVars
  <2>2. \A p \in Packet : Popped(p)' \subseteq Popped(p) \ {h}
    BY <1>0, <2>1, PoppedOf DEF InHandPc
  <2>3. PICK s \in Packet : s = pkt[h]
    BY <2>1
  <2>4. /\ \A p \in Packet \ {s} : ClaimsOf(p)' \subseteq ClaimsOf(p)
        /\ ClaimsOf(s)' \subseteq ClaimsOf(s) \cup {c}
    BY <1>0, <2>1, <2>3, CreatedClaim
  <2>5. QED
    BY <1>0, <2>1, <2>2, <2>3, <2>4, ClaimCopies
<1>7. CASE HostClaimWrite(h) \/ HostAckOpen(h) \/ HostAckWrite(h)
  <2>1. cl[h] \in Claim /\ claim[cl[h]].status # "absent"
    BY <1>0, <1>7 DEF HostClaimWrite, HostAckOpen, HostAckWrite, HostInv
  <2>2. PICK c \in Claim : c = cl[h]
    BY <2>1
  <2>3. OnlyStatusOf(c)
    <3>1. CASE HostAckOpen(h)
      BY <1>0, <2>2, <3>1, TruncateEffect DEF HostAckOpen
    <3>2. CASE HostClaimWrite(h) \/ HostAckWrite(h)
      <4>1. \E status \in ClaimStatus : WriteFile(c, status)
        BY <2>2, <3>2 DEF HostClaimWrite, HostAckWrite, ClaimStatus
      <4>2. QED
        BY <1>0, <4>1, WriteFileEffect
    <3>3. QED
      BY <1>7, <3>1, <3>2
  <2>4. UNCHANGED <<queue, published>> /\ pc'[h] \notin InHandPc
    BY <1>3, <1>4, <1>7 DEF HostClaimWrite, HostAckOpen, HostAckWrite, brokerVars, InHandPc
  <2>5. QED
    BY <1>0, <1>1, <2>1, <2>2, <2>3, <2>4, WrittenClaims, QuietCopies
<1>8. ASSUME NEW r \in Packet, HostPublish(h, r) PROVE DeliveryAccounts'
  <2>1. pc'[h] \notin InHandPc /\ UNCHANGED claim
    BY <1>3, <1>8 DEF HostPublish, InHandPc
  <2>2. CASE Publish(r)
    BY <1>0, <1>1, <2>1, <2>2, PublishCopies
  <2>3. CASE UNCHANGED brokerVars
    BY <1>0, <1>1, <1>2, <2>1, <2>3, QuietCopies DEF brokerVars
  <2>4. QED
    BY <1>8, <2>2, <2>3 DEF HostPublish
<1>9. CASE \/ HostMark(h) \/ HostResolve(h) \/ HostWork(h) \/ HostRecord(h) \/ HostTransition(h)
           \/ HostAckLoad(h) \/ HostRequeue(h) \/ HostDies(h) \/ HostHangs(h)
  <2>1. UNCHANGED <<queue, published, claim>>
    BY <1>9 DEF HostMark, HostResolve, HostWork, HostRecord, HostTransition, HostAckLoad, HostRequeue,
                HostDies, HostHangs, brokerVars
  <2>2. pc'[h] \notin InHandPc
    <3>1. CASE HostMark(h) \/ HostResolve(h) \/ HostRecord(h) \/ HostTransition(h)
      BY <1>3, <3>1 DEF HostMark, HostResolve, HostRecord, HostTransition, InHandPc
    <3>2. CASE HostWork(h) \/ HostAckLoad(h)
      BY <1>3, <1>4, <3>2 DEF HostWork, HostAckLoad, InHandPc
    <3>3. CASE HostRequeue(h) \/ HostDies(h) \/ HostHangs(h)
      BY <1>4, <3>3 DEF HostRequeue, HostDies, HostHangs, InHandPc
    <3>4. QED
      BY <1>9, <3>1, <3>2, <3>3
  <2>3. QED
    BY <1>0, <1>1, <1>2, <2>1, <2>2, QuietCopies
<1>10. QED
  BY <1>5, <1>6, <1>7, <1>8, <1>9 DEF HostProceed

(* Every step of the runtime keeps the account.                            *)
LEMMA SystemCopies ==
  ASSUME RuntimeInv, DeliveryAccounts, [SystemNext]_systemVars
  PROVE  DeliveryAccounts'
<1>0. BrokerTypeOK /\ LedgerTypeOK /\ LocalsOK
  BY RuntimeParts
<1>1. ASSUME NEW o \in Operator, OperatorStep(o) PROVE DeliveryAccounts'
  <2>1. CommandInv(o) /\ (pc[o] = "req_publish" => pkt[o] \in Packet)
    BY CommandParts, ClaimOfCommand DEF ClaimPc
  <2>2. CommandKnows(o)
    BY <2>1 DEF CommandInv, CommandKnows
  <2>3. Located
    BY <1>0 DEF LocalsOK, Located
  <2>4. OnlyActor(o)
    BY <1>1, CommandMovesAlone
  <2>5. QED
    BY <1>0, <1>1, <2>2, <2>3, <2>4, CommandCopies
<1>2. CASE \E h \in Host : HostProceed(h) \/ HostDies(h) \/ HostHangs(h)
  BY <1>2, HostCopies
<1>3. CASE (\E q \in Queue : Purge(q)) \/ (\E p \in Packet : ForeignPublish(p))
  BY <1>0, <1>3, BrokerCopies DEF Purge, ForeignPublish, localVars
<1>4. CASE SupervisorStart
  <2>1. \A p \in Packet : Popped(p)' \subseteq Popped(p)
    BY <1>4, Actors DEF SupervisorStart, Popped, InHandPc
  <2>2. QED
    BY <1>0, <1>4, <2>1, QuietCopies DEF SupervisorStart, brokerVars, ClaimsOf
<1>5. CASE UNCHANGED systemVars
  BY <1>0, <1>5, BrokerCopies DEF systemVars, transportVars
<1>6. QED
  BY <1>1, <1>2, <1>3, <1>4, <1>5 DEF SystemNext, AdminStep, HostStep

(* There is no copy of any packet when commands or hosts start.            *)
LEMMA InitCopies == TransportInit => DeliveryAccounts
<1> SUFFICES ASSUME TransportInit PROVE DeliveryAccounts
  OBVIOUS
<1>1. ASSUME NEW p \in Packet
      PROVE  Waiting(p) = {} /\ Popped(p) = {} /\ ClaimsOf(p) = {} /\ published[p] = 0
  BY TransportAssumption DEF TransportInit, Waiting, Popped, InHandPc, ClaimsOf, NoRecord
<1>2. QueuesRouted
  BY DEF TransportInit, QueuesRouted
<1>3. QED
  BY <1>1, <1>2, FS_EmptySet DEF DeliveryAccounts, DeliveriesAccountedFor, Copies

(* However many commands claim, close, requeue and die at the same time, a *)
(* packet is on its queue, in a hand or in a claim file at most as often   *)
(* as it was put on the broker: no delivery is claimed twice.              *)
THEOREM DeliveriesClaimedOnce == AdminSpec => []DeliveriesAccountedFor
<1>1. AdminInv /\ DeliveryAccounts /\ [AdminStep]_adminSystemVars => DeliveryAccounts'
  BY AdminCopies
<1>2. AdminSystemInit => DeliveryAccounts
  BY InitCopies DEF AdminSystemInit
<1>3. DeliveryAccounts => DeliveriesAccountedFor
  BY DEF DeliveryAccounts
<1>4. QED
  BY <1>1, <1>2, <1>3, AdminInvariance, PTL DEF AdminSpec

(* Neither do hosts beside them, although they claim from the same queues  *)
(* into the same ledger and are restarted without a memory.                *)
THEOREM RuntimeClaimsDeliveriesOnce == SystemSpec => []DeliveriesAccountedFor
<1>1. RuntimeInv /\ DeliveryAccounts /\ [SystemNext]_systemVars => DeliveryAccounts'
  BY SystemCopies
<1>2. SystemInit => DeliveryAccounts
  BY InitCopies DEF SystemInit
<1>3. DeliveryAccounts => DeliveriesAccountedFor
  BY DEF DeliveryAccounts
<1>4. QED
  BY <1>1, <1>2, <1>3, RuntimeInvariance, PTL DEF SystemSpec

=============================================================================
