-------------------------- MODULE Closeout_proofs --------------------------
(***************************************************************************)
(* Proofs about Closeout, for every number of slices, runners, requests    *)
(* and faults: what a closed slice has behind it, and when a closeout      *)
(* claims another packet than its own.                                     *)
(***************************************************************************)
EXTENDS Closeout, TLAPS

Acking == {"send", "qa_head", "qa_get", "qa_claim", "qa_ack",
           "decision_head", "decision_get", "decision_claim", "decision_ack"}
Claiming == {"qa_claim", "decision_claim"}
Getting == {"qa_get", "decision_get"}
Looking == Claiming \cup Getting
USE DEF Claiming, Getting, Looking

(* What a run may rely on at each of its steps. *)
RunnerInv(r) ==
  /\ pc[r] # "idle" => job[r].slice \in Slice
  /\ pc[r] \in {"issue", "close"} => pr[job[r].slice] = "merged"
  /\ pc[r] = "materialize" => <<job[r].slice, job[r].mode>> \in events
  /\ pc[r] \in Acking => job[r].slice \in decided
  /\ pc[r] \in Claiming => hand[r] \in Packets

(* An issue that is closed now has been closed at some time. *)
ClosedOnce == \A s \in Slice : issue[s] = "CLOSED" => s \in wasClosed

ChainInv ==
  /\ CloseoutTypeOK
  /\ \A r \in Runner : RunnerInv(r)
  /\ ClosedOnce
  /\ ClosedLineageIsBacked

(* A packet is on the queue at most once, and none that was not sent. *)
QueueDistinct == \A i, j \in DOMAIN queue : queue[i] = queue[j] => i = j
Sent(p) == p \in Packets /\ p[2] <= emitted[p[1]]
QueueSent == \A i \in DOMAIN queue : Sent(queue[i])
Gone(p) == Sent(p) /\ \A i \in DOMAIN queue : queue[i] # p

(* A run that is about to get saw its packet at the head: it still is, or   *)
(* somebody has taken it, and a packet that was taken does not come back.   *)
(* One that has got another packet than its own came too late.              *)
ExpectInv(r) ==
  /\ job[r].slice \in Slice => job[r].wants <= emitted[job[r].slice]
  /\ pc[r] \in Getting => IsHead(Wanted(r)) \/ Gone(Wanted(r))
  /\ pc[r] \in Claiming => hand[r] = Wanted(r) \/ Gone(Wanted(r))

QueueInv ==
  /\ QueueDistinct /\ QueueSent
  /\ \A r \in Runner : ExpectInv(r)
  /\ \A c \in stray : Gone(c[2])

-----------------------------------------------------------------------------
(* The chain behind a closed slice *)

LEMMA InitChain == Init => ChainInv
<1> SUFFICES ASSUME Init PROVE ChainInv
  OBVIOUS
<1> USE CloseoutAssumption DEF Init
<1>1. queue \in Seq(Packets)
  <2>1. Backlog \in Seq(Slice)
    BY DEF CloseoutAssumption
  <2>2. \A i \in DOMAIN Backlog : Qa(Backlog[i]) \in Packets
    BY <2>1 DEF Packets, Qa
  <2>3. queue = [i \in 1..Len(Backlog) |-> Qa(Backlog[i])]
    BY <2>1
  <2>4. QED
    BY <2>1, <2>2, <2>3
<1>2. job \in [Runner -> [slice : Slice \cup {NoSlice}, mode : Modes,
                         send : BOOLEAN, ack : BOOLEAN, wants : Nat]]
  BY DEF NoJob, Modes
<1>3. CloseoutTypeOK
  BY <1>1, <1>2 DEF CloseoutTypeOK, Modes, Pc
<1>4. \A r \in Runner : RunnerInv(r)
  BY DEF RunnerInv, Acking
<1>5. ClosedOnce /\ ClosedLineageIsBacked
  BY DEF ClosedOnce, ClosedLineageIsBacked
<1>6. QED
  BY <1>3, <1>4, <1>5 DEF ChainInv

(* Nothing of what a run relies on is ever undone. *)
Grows ==
  /\ \A s \in Slice : pr[s] = "merged" => pr'[s] = "merged"
  /\ events \subseteq events' /\ decided \subseteq decided'

LEMMA Bystander ==
  ASSUME CloseoutTypeOK, Grows, NEW q \in Runner, RunnerInv(q),
         pc'[q] = pc[q], job'[q] = job[q], hand'[q] = hand[q]
  PROVE  RunnerInv(q)'
  BY DEF RunnerInv, Grows, Acking

(* A step of one runner leaves the others to what they rely on. *)
LEMMA RunnerStep ==
  ASSUME CloseoutTypeOK, \A q \in Runner : RunnerInv(q), Grows,
         NEW r \in Runner, RunnerInv(r)',
         \A q \in Runner \ {r} : pc'[q] = pc[q] /\ job'[q] = job[q] /\ hand'[q] = hand[q]
  PROVE  \A q \in Runner : RunnerInv(q)'
  BY Bystander

(* A run that ends, as it wants or because it fails, relies on nothing. *)
LEMMA Ending ==
  ASSUME CloseoutTypeOK, NEW r \in Runner, Finish(r)
  PROVE  /\ RunnerInv(r)'
         /\ \A q \in Runner \ {r} : pc'[q] = pc[q] /\ job'[q] = job[q]
         /\ pc' \in [Runner -> Pc]
         /\ job' \in [Runner -> [slice : Slice \cup {NoSlice}, mode : Modes,
                               send : BOOLEAN, ack : BOOLEAN, wants : Nat]]
  BY DEF Finish, Goto, NoJob, RunnerInv, Acking, CloseoutTypeOK, Pc, Modes

LEMMA Failing ==
  ASSUME CloseoutTypeOK, NEW r \in Runner, Fail(r)
  PROVE  Finish(r) /\ failures' \in Nat
  BY CloseoutAssumption DEF Fail, CloseoutTypeOK

LEMMA Going ==
  ASSUME CloseoutTypeOK, NEW r \in Runner, NEW l \in Pc, Continue(r, l)
  PROVE  /\ pc'[r] = l /\ job' = job /\ failures' = failures
         /\ \A q \in Runner \ {r} : pc'[q] = pc[q] /\ job'[q] = job[q]
         /\ pc' \in [Runner -> Pc]
  BY DEF Continue, Goto, CloseoutTypeOK

(* A run begins: nothing but its own step and request change. *)
LEMMA BeginKeeps ==
  ASSUME ChainInv, NEW r \in Runner, NEW s \in Slice, Accept(r, s) \/ BeginCloseout(r, s)
  PROVE  ChainInv'
<1> USE DEF ChainInv
<1>1. /\ UNCHANGED <<verdict, github, database, broker, failures>>
      /\ pc[r] = "idle"
      /\ \E l \in {"merge", "issue", "closeout"} :
           pc' = [pc EXCEPT ![r] = l] /\ (l = "issue" => pr[s] = "merged")
      /\ \E o \in [slice : {s}, mode : Modes, send : BOOLEAN, ack : BOOLEAN, wants : Nat] :
           job' = [job EXCEPT ![r] = o]
  <2>1. CASE Accept(r, s)
    <3>1. [slice |-> s, mode |-> "live_delivery", send |-> TRUE, ack |-> TRUE, wants |-> 0]
            \in [slice : {s}, mode : Modes, send : BOOLEAN, ack : BOOLEAN, wants : Nat]
      BY DEF Modes
    <3>2. pc' = [pc EXCEPT ![r] = IF pr[s] = "merged" THEN "issue" ELSE "merge"]
      BY <2>1 DEF Accept, Goto
    <3>3. QED
      BY <2>1, <3>1, <3>2 DEF Accept
  <2>2. CASE BeginCloseout(r, s)
    <3>1. PICK o \in Requests : job' = [job EXCEPT ![r] =
              [slice |-> s, mode |-> o.mode, send |-> o.send, ack |-> o.ack, wants |-> 0]]
      BY <2>2 DEF BeginCloseout
    <3>2. o \in [mode : Modes, send : BOOLEAN, ack : BOOLEAN]
      BY CloseoutAssumption DEF CloseoutAssumption, Modes
    <3>3. [slice |-> s, mode |-> o.mode, send |-> o.send, ack |-> o.ack, wants |-> 0]
            \in [slice : {s}, mode : Modes, send : BOOLEAN, ack : BOOLEAN, wants : Nat]
      BY <3>2
    <3>4. QED
      BY <2>2, <3>1, <3>3 DEF BeginCloseout, Goto
  <2>3. QED
    BY <2>1, <2>2
<1>2. PICK l \in {"merge", "issue", "closeout"} :
        pc' = [pc EXCEPT ![r] = l] /\ (l = "issue" => pr[s] = "merged")
  BY <1>1
<1>3. PICK o \in [slice : {s}, mode : Modes, send : BOOLEAN, ack : BOOLEAN, wants : Nat] :
        job' = [job EXCEPT ![r] = o]
  BY <1>1
<1>4. CloseoutTypeOK'
  <2>1. pc' \in [Runner -> Pc]
    BY <1>2 DEF CloseoutTypeOK, Pc
  <2>2. o \in [slice : Slice \cup {NoSlice}, mode : Modes, send : BOOLEAN, ack : BOOLEAN, wants : Nat]
    OBVIOUS
  <2>3. job' \in [Runner -> [slice : Slice \cup {NoSlice}, mode : Modes,
                             send : BOOLEAN, ack : BOOLEAN, wants : Nat]]
    BY <1>3, <2>2 DEF CloseoutTypeOK
  <2>4. QED
    BY <1>1, <2>1, <2>3 DEF CloseoutTypeOK, github, database, broker
<1>5. Grows
  BY <1>1 DEF Grows, github, database
<1>6. RunnerInv(r)'
  BY <1>1, <1>2, <1>3 DEF RunnerInv, Acking, CloseoutTypeOK, github
<1>7. \A q \in Runner : RunnerInv(q)'
  BY <1>1, <1>2, <1>3, <1>5, <1>6, RunnerStep DEF CloseoutTypeOK, broker
<1>8. ClosedOnce' /\ ClosedLineageIsBacked'
  BY <1>1 DEF ClosedOnce, ClosedLineageIsBacked, github, database, broker
<1>9. QED
  BY <1>4, <1>7, <1>8

(* A step that only ends a run, whatever was in its hand. *)
LEMMA EndKeeps ==
  ASSUME ChainInv, NEW r \in Runner, Finish(r), failures' \in Nat,
         UNCHANGED <<verdict, github, database, emitted, queue, claims, stray, acked>>,
         hand' \in [Runner -> Packets \cup {NoPacket}], lost' \subseteq Packets,
         \A q \in Runner \ {r} : hand'[q] = hand[q]
  PROVE  ChainInv'
<1> USE DEF ChainInv, github, database
<1>1. CloseoutTypeOK'
  BY Ending DEF CloseoutTypeOK
<1>2. Grows
  BY DEF Grows
<1>3. \A q \in Runner : RunnerInv(q)'
  BY <1>2, Ending, RunnerStep
<1>4. ClosedOnce' /\ ClosedLineageIsBacked'
  BY DEF ClosedOnce, ClosedLineageIsBacked
<1>5. QED
  BY <1>1, <1>3, <1>4

LEMMA QuietEndKeeps ==
  ASSUME ChainInv, NEW r \in Runner, Finish(r), failures' \in Nat,
         UNCHANGED <<verdict, github, database, broker>>
  PROVE  ChainInv'
  BY EndKeeps DEF ChainInv, CloseoutTypeOK, broker

LEMMA FailKeeps ==
  ASSUME ChainInv, NEW r \in Runner, Fail(r), UNCHANGED <<verdict, github, database, broker>>
  PROVE  ChainInv'
  BY Failing, QuietEndKeeps DEF ChainInv

LEMMA MergeKeeps ==
  ASSUME ChainInv, NEW r \in Runner, Merge(r)
  PROVE  ChainInv'
<1> USE DEF ChainInv, database, broker
<1>1. CASE Fail(r) /\ UNCHANGED pr
  BY <1>1, FailKeeps DEF Merge, github
<1>2. CASE /\ pr' = [pr EXCEPT ![job[r].slice] = "merged"]
           /\ Continue(r, "issue")
  <2>1. pc[r] = "merge" /\ UNCHANGED <<verdict, issue, wasClosed, database, broker>>
    BY DEF Merge
  <2>2. job[r].slice \in Slice
    BY <2>1 DEF RunnerInv
  <2>3. "issue" \in Pc
    BY DEF Pc
  <2>4. CloseoutTypeOK'
    BY <1>2, <2>1, <2>3, Going DEF CloseoutTypeOK
  <2>5. Grows
    BY <1>2, <2>1 DEF Grows, CloseoutTypeOK
  <2>6. RunnerInv(r)'
    BY <1>2, <2>2, <2>3, Going DEF RunnerInv, Acking, CloseoutTypeOK
  <2>7. \A q \in Runner : RunnerInv(q)'
    BY <1>2, <2>1, <2>3, <2>5, <2>6, Going, RunnerStep
  <2>8. ClosedOnce' /\ ClosedLineageIsBacked'
    BY <1>2, <2>1 DEF ClosedOnce, ClosedLineageIsBacked, CloseoutTypeOK
  <2>9. QED
    BY <2>4, <2>7, <2>8
<1>3. QED
  BY <1>1, <1>2 DEF Merge

LEMMA LoadIssueKeeps ==
  ASSUME ChainInv, NEW r \in Runner, LoadIssue(r)
  PROVE  ChainInv'
<1> USE DEF ChainInv, github, database, broker
<1>1. PICK l \in {"closeout", "close"} : Continue(r, l)
  BY DEF LoadIssue
<1>2. l \in Pc
  BY <1>1 DEF Pc
<1>3. pc[r] = "issue" /\ UNCHANGED <<verdict, github, database, broker>>
  BY DEF LoadIssue
<1>4. CloseoutTypeOK'
  BY <1>1, <1>2, <1>3, Going DEF CloseoutTypeOK
<1>5. Grows
  BY <1>3 DEF Grows
<1>6. RunnerInv(r)'
  BY <1>1, <1>2, <1>3, Going DEF RunnerInv, Acking
<1>7. \A q \in Runner : RunnerInv(q)'
  BY <1>1, <1>2, <1>3, <1>5, <1>6, Going, RunnerStep
<1>8. ClosedOnce' /\ ClosedLineageIsBacked'
  BY <1>3 DEF ClosedOnce, ClosedLineageIsBacked
<1>9. QED
  BY <1>4, <1>7, <1>8

LEMMA CloseIssueKeeps ==
  ASSUME ChainInv, NEW r \in Runner, CloseIssue(r)
  PROVE  ChainInv'
<1> USE DEF ChainInv, database, broker
<1>1. CASE Fail(r) /\ UNCHANGED <<issue, wasClosed>>
  BY <1>1, FailKeeps DEF CloseIssue, github
<1>2. CASE /\ issue' = [issue EXCEPT ![job[r].slice] = "CLOSED"]
           /\ wasClosed' = wasClosed \cup {job[r].slice}
           /\ Continue(r, "closeout")
  <2>1. pc[r] = "close" /\ UNCHANGED <<verdict, pr, database, broker>>
    BY DEF CloseIssue
  <2>2. job[r].slice \in Slice
    BY <2>1 DEF RunnerInv
  <2>3. "closeout" \in Pc
    BY DEF Pc
  <2>4. CloseoutTypeOK'
    BY <1>2, <2>1, <2>2, <2>3, Going DEF CloseoutTypeOK
  <2>5. Grows
    BY <2>1 DEF Grows
  <2>6. RunnerInv(r)'
    BY <1>2, <2>2, <2>3, Going DEF RunnerInv, Acking
  <2>7. \A q \in Runner : RunnerInv(q)'
    BY <1>2, <2>1, <2>3, <2>5, <2>6, Going, RunnerStep
  <2>8. ClosedOnce' /\ ClosedLineageIsBacked'
    BY <1>2, <2>1 DEF ClosedOnce, ClosedLineageIsBacked, CloseoutTypeOK
  <2>9. QED
    BY <2>4, <2>7, <2>8
<1>3. QED
  BY <1>1, <1>2 DEF CloseIssue

(* A live acceptance is recorded over a delivered slice. *)
LEMMA RecordKeeps ==
  ASSUME ChainInv, NEW r \in Runner, RecordAcceptance(r)
  PROVE  ChainInv'
<1> USE DEF ChainInv, github, broker
<1>1. CASE Fail(r) /\ UNCHANGED events
  BY <1>1, FailKeeps DEF RecordAcceptance, database
<1>2. CASE /\ Delivered(job[r].slice) \/ job[r].mode = "proof_only"
           /\ events' = events \cup {<<job[r].slice, job[r].mode>>}
           /\ Continue(r, "materialize")
  <2>1. pc[r] = "closeout" /\ UNCHANGED <<verdict, github, decided, broker>>
    BY DEF RecordAcceptance
  <2>2. job[r].slice \in Slice /\ job[r].mode \in Modes
    BY <2>1 DEF RunnerInv, CloseoutTypeOK
  <2>3. "materialize" \in Pc
    BY DEF Pc
  <2>4. CloseoutTypeOK'
    BY <1>2, <2>1, <2>2, <2>3, Going DEF CloseoutTypeOK
  <2>5. Grows
    BY <1>2, <2>1 DEF Grows
  <2>6. RunnerInv(r)'
    BY <1>2, <2>2, <2>3, Going DEF RunnerInv, Acking
  <2>7. \A q \in Runner : RunnerInv(q)'
    BY <1>2, <2>1, <2>3, <2>5, <2>6, Going, RunnerStep
  <2>8. ClosedOnce'
    BY <2>1 DEF ClosedOnce
  <2>9. job[r].mode = "live_delivery" =>
          pr[job[r].slice] = "merged" \/ job[r].slice \in wasClosed
    BY <1>2, <2>2 DEF Delivered, ClosedOnce
  <2>10. ClosedLineageIsBacked'
    BY <1>2, <2>1, <2>9 DEF ClosedLineageIsBacked
  <2>11. QED
    BY <2>4, <2>7, <2>8, <2>10
<1>3. QED
  BY <1>1, <1>2 DEF RecordAcceptance

(* The decision is written behind the acceptance. *)
LEMMA MaterializeKeeps ==
  ASSUME ChainInv, NEW r \in Runner, Materialize(r)
  PROVE  ChainInv'
<1> USE DEF ChainInv, github, broker
<1>1. CASE Fail(r) /\ UNCHANGED decided
  BY <1>1, FailKeeps DEF Materialize, database
<1>2. CASE /\ decided' = decided \cup {job[r].slice}
           /\ \E l \in {"send", "qa_head", "decision_head"} : Continue(r, l)
  <2>1. pc[r] = "materialize" /\ UNCHANGED <<verdict, github, events, broker>>
    BY DEF Materialize
  <2>2. job[r].slice \in Slice /\ job[r].mode \in Modes /\ <<job[r].slice, job[r].mode>> \in events
    BY <2>1 DEF RunnerInv, CloseoutTypeOK
  <2>3. PICK l \in {"send", "qa_head", "decision_head"} : Continue(r, l)
    BY <1>2
  <2>4. l \in Pc
    BY DEF Pc
  <2>5. CloseoutTypeOK'
    BY <1>2, <2>1, <2>2, <2>3, <2>4, Going DEF CloseoutTypeOK
  <2>6. Grows
    BY <1>2, <2>1 DEF Grows
  <2>7. RunnerInv(r)'
    BY <1>2, <2>2, <2>3, <2>4, Going DEF RunnerInv
  <2>8. \A q \in Runner : RunnerInv(q)'
    BY <2>1, <2>3, <2>4, <2>6, <2>7, Going, RunnerStep
  <2>9. ClosedOnce' /\ ClosedLineageIsBacked'
    BY <1>2, <2>1, <2>2 DEF ClosedOnce, ClosedLineageIsBacked
  <2>10. QED
    BY <2>5, <2>8, <2>9
<1>3. QED
  BY <1>1, <1>2 DEF Materialize

(* A step that touches the broker only, of a run that has its decision. *)
LEMMA BrokerKeeps ==
  ASSUME ChainInv, NEW r \in Runner, NEW l \in Acking \cup {"idle"},
         UNCHANGED <<verdict, github, database>>,
         pc' = [pc EXCEPT ![r] = l], pc[r] \in Acking,
         l # "idle" => job'[r].slice = job[r].slice,
         \A q \in Runner \ {r} : job'[q] = job[q] /\ hand'[q] = hand[q],
         l \in Claiming => hand'[r] \in Packets,
         \A p \in acked' : p[1] \in decided,
         CloseoutTypeOK'
  PROVE  ChainInv'
<1> USE DEF ChainInv, github, database
<1>1. Grows
  BY DEF Grows
<1>2. RunnerInv(r)'
  BY DEF RunnerInv, Acking, CloseoutTypeOK
<1>3. \A q \in Runner \ {r} : pc'[q] = pc[q]
  BY DEF CloseoutTypeOK
<1>4. \A q \in Runner : RunnerInv(q)'
  BY <1>1, <1>2, <1>3, RunnerStep
<1>5. ClosedOnce' /\ ClosedLineageIsBacked'
  BY DEF ClosedOnce, ClosedLineageIsBacked
<1>6. QED
  BY <1>4, <1>5

LEMMA SendKeeps ==
  ASSUME ChainInv, NEW r \in Runner, SendDecision(r)
  PROVE  ChainInv'
<1> USE DEF ChainInv
<1>1. CASE Fail(r) /\ UNCHANGED <<emitted, queue>>
  BY <1>1, FailKeeps DEF SendDecision, broker
<1>2. CASE ~(Fail(r) /\ UNCHANGED <<emitted, queue>>)
  <2> DEFINE s == job[r].slice
  <2>1. /\ pc[r] = "send" /\ s \in Slice
        /\ emitted' = [emitted EXCEPT ![s] = @ + 1]
        /\ queue' = Append(queue, <<s, emitted'[s]>>)
        /\ job' = [job EXCEPT ![r].wants = emitted'[s]]
        /\ UNCHANGED <<failures, verdict, github, database, claims, stray, acked, hand, lost>>
    BY <1>2 DEF SendDecision, RunnerInv
  <2>2. PICK l \in {"qa_head", "decision_head"} : pc' = [pc EXCEPT ![r] = l]
    BY <1>2 DEF SendDecision, Goto
  <2>3. emitted' \in [Slice -> Nat] /\ emitted'[s] \in Nat
    BY <2>1 DEF CloseoutTypeOK
  <2>4. queue' \in Seq(Packets)
    <3>1. <<s, emitted'[s]>> \in Packets
      BY <2>1, <2>3 DEF Packets
    <3>2. QED
      BY <2>1, <3>1 DEF CloseoutTypeOK
  <2>5. job' \in [Runner -> [slice : Slice \cup {NoSlice}, mode : Modes,
                             send : BOOLEAN, ack : BOOLEAN, wants : Nat]]
    <3> DEFINE Job == [slice : Slice \cup {NoSlice}, mode : Modes,
                       send : BOOLEAN, ack : BOOLEAN, wants : Nat]
    <3>1. job \in [Runner -> Job]
      BY DEF CloseoutTypeOK
    <3>2. \A j \in Job, n \in Nat : [j EXCEPT !.wants = n] \in Job
      OBVIOUS
    <3>3. job' = [job EXCEPT ![r] = [job[r] EXCEPT !.wants = emitted'[s]]]
      BY <2>1
    <3> HIDE DEF Job
    <3>4. job' \in [Runner -> Job]
      BY <2>3, <3>1, <3>2, <3>3
    <3>5. QED
      BY <3>4 DEF Job
  <2>6. pc' \in [Runner -> Pc]
    BY <2>2 DEF CloseoutTypeOK, Pc
  <2>7. CloseoutTypeOK'
    BY <2>1, <2>3, <2>4, <2>5, <2>6 DEF CloseoutTypeOK, github, database
  <2>8. job'[r].slice = s /\ \A q \in Runner \ {r} : job'[q] = job[q]
    BY <2>1 DEF CloseoutTypeOK
  <2>9. QED
    BY <2>1, <2>2, <2>7, <2>8, BrokerKeeps DEF Acking, ClosedLineageIsBacked
<1>3. QED
  BY <1>1, <1>2

LEMMA WantedPacket ==
  ASSUME CloseoutTypeOK, NEW r \in Runner, RunnerInv(r), pc[r] \in Acking
  PROVE  Wanted(r) \in Packets /\ Wanted(r)[1] = job[r].slice
  BY DEF Wanted, Qa, Packets, CloseoutTypeOK, RunnerInv, Acking

LEMMA Giving ==
  ASSUME CloseoutTypeOK, NEW r \in Runner, NotAcked(r)
  PROVE  Finish(r) /\ failures' \in Nat
  BY Failing DEF NotAcked, CloseoutTypeOK

LEMMA NextStep ==
  ASSUME NEW r \in Runner, pc[r] \in {"qa_head", "qa_get", "qa_claim", "decision_head", "decision_get", "decision_claim"}
  PROVE  /\ StepAfter(r) \in Acking /\ StepAfter(r) \in Pc
         /\ StepAfter(r) \in Claiming <=> pc[r] \in Getting
         /\ StepAfter(r) \in Getting <=> pc[r] \in {"qa_head", "decision_head"}
  BY DEF StepAfter, Acking, Pc

LEMMA CheckKeeps ==
  ASSUME ChainInv, NEW r \in Runner, CheckHead(r)
  PROVE  ChainInv'
<1> USE DEF ChainInv
<1>1. CASE NotAcked(r)
  BY <1>1, Giving, QuietEndKeeps DEF CheckHead
<1>2. CASE Continue(r, StepAfter(r))
  <2>1. StepAfter(r) \in Acking /\ StepAfter(r) \in Pc /\ pc[r] \in Acking /\ StepAfter(r) \notin Claiming
    BY NextStep DEF CheckHead, Acking
  <2>2. UNCHANGED <<verdict, github, database, broker>>
    BY DEF CheckHead
  <2>3. /\ pc' = [pc EXCEPT ![r] = StepAfter(r)] /\ job' = job /\ failures' = failures
    BY <1>2 DEF Continue, Goto
  <2>4. CloseoutTypeOK'
    BY <2>1, <2>2, <2>3 DEF CloseoutTypeOK, github, database, broker
  <2>5. QED
    BY <2>1, <2>2, <2>3, <2>4, BrokerKeeps DEF broker, ClosedLineageIsBacked
<1>3. QED
  BY <1>1, <1>2 DEF CheckHead

LEMMA GetKeeps ==
  ASSUME ChainInv, NEW r \in Runner, GetHead(r)
  PROVE  ChainInv'
<1> USE DEF ChainInv
<1>1. CASE queue = <<>>
  <2>1. NotAcked(r) /\ UNCHANGED <<verdict, github, database, broker>>
    BY <1>1 DEF GetHead, broker
  <2>2. QED
    BY <2>1, Giving, QuietEndKeeps
<1>2. CASE queue # <<>>
  <2>1. /\ queue' = Tail(queue) /\ hand' = [hand EXCEPT ![r] = Head(queue)]
        /\ pc[r] \in Acking /\ Continue(r, StepAfter(r))
        /\ UNCHANGED <<verdict, github, database, emitted, claims, stray, acked, lost>>
    BY <1>2 DEF GetHead, Acking
  <2>2. Head(queue) \in Packets /\ queue' \in Seq(Packets)
    BY <1>2, <2>1 DEF CloseoutTypeOK
  <2>3. /\ hand' \in [Runner -> Packets \cup {NoPacket}] /\ hand'[r] \in Packets
        /\ \A q \in Runner \ {r} : hand'[q] = hand[q]
    BY <2>1, <2>2 DEF CloseoutTypeOK
  <2>4. StepAfter(r) \in Acking /\ StepAfter(r) \in Pc
    BY NextStep DEF GetHead
  <2>5. /\ pc' = [pc EXCEPT ![r] = StepAfter(r)] /\ job' = job /\ failures' = failures
    BY <2>1 DEF Continue, Goto
  <2>6. CloseoutTypeOK'
    BY <2>1, <2>2, <2>3, <2>4, <2>5 DEF CloseoutTypeOK, github, database
  <2>7. QED
    BY <2>1, <2>3, <2>4, <2>5, <2>6, BrokerKeeps DEF ClosedLineageIsBacked
<1>3. QED
  BY <1>1, <1>2

LEMMA ClaimKeeps ==
  ASSUME ChainInv, NEW r \in Runner, ClaimGot(r)
  PROVE  ChainInv'
<1> USE DEF ChainInv
<1>1. /\ claims' = claims \cup {<<hand[r], r>>}
      /\ hand' = [hand EXCEPT ![r] = NoPacket]
      /\ pc[r] \in Acking /\ pc[r] \in Claiming
      /\ UNCHANGED <<verdict, github, database, emitted, queue, acked, lost>>
  BY DEF ClaimGot, Acking
<1>2. hand[r] \in Packets
  BY <1>1 DEF RunnerInv
<1>3. /\ claims' \subseteq Packets \X (Runner \cup {NoSlice})
      /\ hand' \in [Runner -> Packets \cup {NoPacket}]
      /\ \A q \in Runner \ {r} : hand'[q] = hand[q]
  BY <1>1, <1>2 DEF CloseoutTypeOK
<1>4. stray' \subseteq Packets \X Packets
  BY <1>1, <1>2, WantedPacket DEF ClaimGot, CloseoutTypeOK
<1>5. \A p \in acked' : p[1] \in decided
  BY <1>1 DEF ClosedLineageIsBacked
<1>6. CASE Continue(r, StepAfter(r))
  <2>1. StepAfter(r) \in Acking /\ StepAfter(r) \in Pc /\ StepAfter(r) \notin Claiming
    BY <1>1, NextStep DEF ClaimGot
  <2>2. /\ pc' = [pc EXCEPT ![r] = StepAfter(r)] /\ job' = job /\ failures' = failures
    BY <1>6 DEF Continue, Goto
  <2>3. CloseoutTypeOK'
    BY <1>1, <1>3, <1>4, <2>1, <2>2 DEF CloseoutTypeOK, github, database
  <2>4. QED
    BY <1>1, <1>3, <1>5, <2>1, <2>2, <2>3, BrokerKeeps
<1>7. CASE NotAcked(r)
  <2>1. Finish(r) /\ failures' \in Nat
    BY <1>7, Giving
  <2>2. CloseoutTypeOK'
    BY <1>1, <1>3, <1>4, <2>1, Ending DEF CloseoutTypeOK, github, database
  <2>3. pc' = [pc EXCEPT ![r] = "idle"] /\ "idle" \notin Claiming
    BY <2>1 DEF Finish, Goto
  <2>4. QED
    BY <1>1, <1>3, <1>5, <2>1, <2>2, <2>3, Ending, BrokerKeeps
<1>8. QED
  BY <1>6, <1>7 DEF ClaimGot

LEMMA DiesKeeps ==
  ASSUME ChainInv, NEW r \in Runner, Dies(r)
  PROVE  ChainInv'
<1>1. Finish(r) /\ failures' \in Nat /\ CloseoutTypeOK
  BY Failing DEF Dies, ChainInv
<1>2. /\ hand' \in [Runner -> Packets \cup {NoPacket}] /\ lost' \subseteq Packets
      /\ \A q \in Runner \ {r} : hand'[q] = hand[q]
  BY <1>1 DEF Dies, CloseoutTypeOK
<1>3. UNCHANGED <<verdict, github, database, emitted, queue, claims, stray, acked>>
  BY DEF Dies
<1>4. QED
  BY <1>1, <1>2, <1>3, EndKeeps

(* What is acknowledged belongs to a slice whose decision is written. *)
LEMMA AckKeeps ==
  ASSUME ChainInv, NEW r \in Runner, Ack(r)
  PROVE  ChainInv'
<1> USE DEF ChainInv
<1>1. /\ claims' = claims \ {<<Wanted(r), r>>}
      /\ acked' = acked \cup {Wanted(r)}
      /\ pc[r] \in Acking
      /\ UNCHANGED <<verdict, github, database, emitted, queue, stray, hand, lost>>
  BY DEF Ack, Acking
<1>2. Wanted(r) \in Packets /\ Wanted(r)[1] \in decided
  BY <1>1, WantedPacket DEF RunnerInv
<1>3. \A p \in acked' : p[1] \in decided
  BY <1>1, <1>2 DEF ClosedLineageIsBacked
<1>4. CASE Continue(r, "decision_head")
  <2>1. "decision_head" \in Acking /\ "decision_head" \in Pc /\ "decision_head" \notin Claiming
    BY DEF Acking, Pc
  <2>2. /\ pc' = [pc EXCEPT ![r] = "decision_head"] /\ job' = job /\ failures' = failures
    BY <1>4 DEF Continue, Goto
  <2>3. CloseoutTypeOK'
    BY <1>1, <1>2, <2>1, <2>2 DEF CloseoutTypeOK, github, database
  <2>4. QED
    BY <1>1, <1>3, <2>1, <2>2, <2>3, BrokerKeeps
<1>5. CASE Finish(r) /\ UNCHANGED failures
  <2>1. CloseoutTypeOK'
    BY <1>1, <1>2, <1>5, Ending DEF CloseoutTypeOK, github, database
  <2>2. pc' = [pc EXCEPT ![r] = "idle"] /\ "idle" \notin Claiming
    BY <1>5 DEF Finish, Goto
  <2>3. QED
    BY <1>1, <1>3, <1>5, <2>1, <2>2, Ending, BrokerKeeps
<1>6. QED
  BY <1>4, <1>5 DEF Ack

(* Author, people at the issue, QA and the TechLead host undo nothing that *)
(* a run relies on.                                                        *)
LEMMA OthersKeep ==
  ASSUME ChainInv,
         HostTakes \/ \E s \in Slice : AuthorChanges(s) \/ IssueChanges(s) \/ Reverified(s)
  PROVE  ChainInv'
<1> USE DEF ChainInv
<1>1. CASE HostTakes
  <2>1. Head(queue) \in Packets /\ queue' \in Seq(Packets)
    BY <1>1 DEF HostTakes, CloseoutTypeOK
  <2>2. CloseoutTypeOK'
    BY <1>1, <2>1 DEF HostTakes, CloseoutTypeOK, github, database
  <2>3. Grows /\ ClosedOnce' /\ ClosedLineageIsBacked'
    BY <1>1 DEF HostTakes, Grows, ClosedOnce, ClosedLineageIsBacked, github, database
  <2>4. \A q \in Runner : pc'[q] = pc[q] /\ job'[q] = job[q] /\ hand'[q] = hand[q]
    BY <1>1 DEF HostTakes
  <2>5. QED
    BY <2>2, <2>3, <2>4, Bystander
<1>2. ASSUME NEW s \in Slice, AuthorChanges(s)
      PROVE  ChainInv'
  <2>1. CloseoutTypeOK'
    <3>1. pr' \in [Slice -> {"none", "draft", "ready", "closed", "merged"}]
      BY <1>2 DEF AuthorChanges, CloseoutTypeOK
    <3>2. failures' \in Nat
      BY <1>2 DEF AuthorChanges, CloseoutTypeOK
    <3>3. QED
      BY <1>2, <3>1, <3>2 DEF AuthorChanges, CloseoutTypeOK, database, broker
  <2>2. Grows /\ ClosedOnce'
    BY <1>2 DEF AuthorChanges, Grows, ClosedOnce, CloseoutTypeOK, database
  <2>3. ClosedLineageIsBacked'
    BY <1>2, <2>2 DEF AuthorChanges, Grows, ClosedLineageIsBacked, database, broker
  <2>4. \A q \in Runner : pc'[q] = pc[q] /\ job'[q] = job[q] /\ hand'[q] = hand[q]
    BY <1>2 DEF AuthorChanges, broker
  <2>5. QED
    BY <2>1, <2>2, <2>3, <2>4, Bystander
<1>3. ASSUME NEW s \in Slice, IssueChanges(s)
      PROVE  ChainInv'
  <2>1. CloseoutTypeOK'
    <3>1. issue' \in [Slice -> {"OPEN", "CLOSED"}]
      BY <1>3 DEF IssueChanges, CloseoutTypeOK
    <3>2. wasClosed' \subseteq Slice /\ failures' \in Nat
      BY <1>3 DEF IssueChanges, CloseoutTypeOK
    <3>3. QED
      BY <1>3, <3>1, <3>2 DEF IssueChanges, CloseoutTypeOK, database, broker
  <2>2. Grows /\ ClosedOnce'
    BY <1>3 DEF IssueChanges, Grows, ClosedOnce, CloseoutTypeOK, database
  <2>3. ClosedLineageIsBacked'
    BY <1>3 DEF IssueChanges, ClosedLineageIsBacked, database, broker
  <2>4. \A q \in Runner : pc'[q] = pc[q] /\ job'[q] = job[q] /\ hand'[q] = hand[q]
    BY <1>3 DEF IssueChanges, broker
  <2>5. QED
    BY <2>1, <2>2, <2>3, <2>4, Bystander
<1>4. ASSUME NEW s \in Slice, Reverified(s)
      PROVE  ChainInv'
  <2>1. CloseoutTypeOK'
    <3>1. verdict' \in [Slice -> {"accept", "pass", "fail"}]
      BY <1>4 DEF Reverified, CloseoutTypeOK
    <3>2. failures' \in Nat
      BY <1>4 DEF Reverified, CloseoutTypeOK
    <3>3. QED
      BY <1>4, <3>1, <3>2 DEF Reverified, CloseoutTypeOK, github, database, broker
  <2>2. Grows /\ ClosedOnce' /\ ClosedLineageIsBacked'
    BY <1>4 DEF Reverified, Grows, ClosedOnce, ClosedLineageIsBacked, github, database, broker
  <2>3. \A q \in Runner : pc'[q] = pc[q] /\ job'[q] = job[q] /\ hand'[q] = hand[q]
    BY <1>4 DEF Reverified, broker
  <2>4. QED
    BY <2>1, <2>2, <2>3, Bystander
<1>5. QED
  BY <1>1, <1>2, <1>3, <1>4

LEMMA NextChain == ChainInv /\ [Next]_vars => ChainInv'
<1> SUFFICES ASSUME ChainInv, [Next]_vars PROVE ChainInv'
  OBVIOUS
<1>1. ASSUME NEW r \in Runner, NEW s \in Slice, Accept(r, s) \/ BeginCloseout(r, s)
      PROVE  ChainInv'
  BY <1>1, BeginKeeps
<1>2. ASSUME NEW r \in Runner, Advance(r)
      PROVE  ChainInv'
  BY <1>2, MergeKeeps, LoadIssueKeeps, CloseIssueKeeps, RecordKeeps, MaterializeKeeps,
     SendKeeps, CheckKeeps, GetKeeps, ClaimKeeps, AckKeeps DEF Advance
<1>3. ASSUME NEW r \in Runner, Dies(r)
      PROVE  ChainInv'
  BY <1>3, DiesKeeps
<1>4. CASE UNCHANGED vars
  BY <1>4 DEF vars, ChainInv, CloseoutTypeOK, RunnerInv, ClosedOnce, ClosedLineageIsBacked
<1>5. QED
  BY <1>1, <1>2, <1>3, <1>4, OthersKeep DEF Next

(* The inductive invariant: types, what each run relies on, and the chain. *)
THEOREM CloseoutInvariant == Spec => []ChainInv
<1>1. Init => ChainInv
  BY InitChain
<1>2. ChainInv /\ [Next]_vars => ChainInv'
  BY NextChain
<1>3. QED
  BY <1>1, <1>2, PTL DEF Spec

(* What a closeout takes off the queue has a decision, an acceptance and a *)
(* delivery behind it (the order of closeout_qa_pass), for any number of   *)
(* runs, failures and changes at GitHub.                                   *)
THEOREM LineageBacked == Spec => []ClosedLineageIsBacked
<1>1. ChainInv => ClosedLineageIsBacked
  BY DEF ChainInv
<1>2. QED
  BY <1>1, CloseoutInvariant, PTL

(* The acceptance closes an issue only behind a merge                      *)
(* (accept_and_merge_qa_pass), whatever happens to the pull request.       *)
THEOREM IssueClosedBehindMerge == Spec => []ClosesOnlyMerged
<1>1. ChainInv => ClosesOnlyMerged
  BY DEF ChainInv, RunnerInv, ClosesOnlyMerged
<1>2. QED
  BY <1>1, CloseoutInvariant, PTL

-----------------------------------------------------------------------------
(* What a closeout claims.  The reports directory holds one QA packet for  *)
(* an issue, which is sent once.                                           *)

OneQaPacket == \A i, j \in DOMAIN Backlog : Backlog[i] = Backlog[j] => i = j

LEMMA InitQueue ==
  ASSUME Init, OneQaPacket
  PROVE  QueueInv
<1> USE CloseoutAssumption DEF CloseoutAssumption, Init
<1>1. DOMAIN queue = DOMAIN Backlog /\ \A i \in DOMAIN queue : queue[i] = Qa(Backlog[i])
  OBVIOUS
<1>2. QueueDistinct
  BY <1>1 DEF QueueDistinct, Qa, OneQaPacket
<1>3. QueueSent
  BY <1>1 DEF QueueSent, Sent, Qa, Packets
<1>4. \A r \in Runner : ExpectInv(r)
  BY DEF ExpectInv, NoJob
<1>5. QED
  BY <1>2, <1>3, <1>4 DEF QueueInv

(* The packets of the queue without its head. *)
LEMMA TailPackets ==
  ASSUME queue \in Seq(Packets), queue # <<>>, queue' = Tail(queue), emitted' = emitted,
         QueueDistinct, QueueSent
  PROVE  /\ QueueDistinct' /\ QueueSent'
         /\ \A p : Gone(p) => Gone(p)'
         /\ \A p : IsHead(p) => Gone(p)'
<1>1. /\ DOMAIN queue' = 1..(Len(queue) - 1) /\ Len(queue) \in Nat \ {0}
      /\ \A i \in DOMAIN queue' : queue'[i] = queue[i + 1] /\ i + 1 \in DOMAIN queue
      /\ DOMAIN queue = 1..Len(queue) /\ Head(queue) = queue[1]
  OBVIOUS
<1>2. QueueDistinct'
  BY <1>1 DEF QueueDistinct
<1>3. QueueSent'
  BY <1>1 DEF QueueSent, Sent
<1>4. \A p : Gone(p) => Gone(p)'
  BY <1>1 DEF Gone, Sent
<1>5. ASSUME NEW p, IsHead(p) PROVE Gone(p)'
  <2>1. p = queue[1] /\ 1 \in DOMAIN queue
    BY <1>1, <1>5 DEF IsHead
  <2>2. Sent(p)'
    BY <2>1 DEF QueueSent, Sent
  <2>3. \A i \in DOMAIN queue' : queue'[i] # p
    BY <1>1, <2>1 DEF QueueDistinct
  <2>4. QED
    BY <2>2, <2>3 DEF Gone
<1>6. QED
  BY <1>2, <1>3, <1>4, <1>5

(* A run whose own state does not change keeps its expectation, when the   *)
(* queue does not change, ...                                              *)
LEMMA ExpectStays ==
  ASSUME NEW q \in Runner, ExpectInv(q), pc'[q] = pc[q], job'[q] = job[q],
         hand'[q] = hand[q], UNCHANGED <<queue, emitted>>
  PROVE  ExpectInv(q)'
  BY DEF ExpectInv, IsHead, Gone, Sent, Wanted, Qa

(* ... and when its head is taken. *)
LEMMA ExpectTail ==
  ASSUME CloseoutTypeOK, QueueDistinct, QueueSent, NEW q \in Runner, ExpectInv(q),
         pc'[q] = pc[q], job'[q] = job[q],
         hand'[q] = hand[q], queue # <<>>, queue' = Tail(queue), emitted' = emitted
  PROVE  ExpectInv(q)'
<1>1. Wanted(q)' = Wanted(q)
  BY DEF Wanted, Qa
<1>2. PICK w : w = Wanted(q)
  OBVIOUS
<1>3. IsHead(w) \/ Gone(w) => Gone(w)'
  BY TailPackets DEF CloseoutTypeOK
<1>4. Gone(w)' => Gone(Wanted(q))'
  BY <1>1, <1>2 DEF Gone, Sent
<1>5. /\ pc[q] \in Getting => Gone(Wanted(q))'
      /\ pc[q] \in Claiming => hand[q] = Wanted(q)' \/ Gone(Wanted(q))'
  BY <1>1, <1>2, <1>3, <1>4 DEF ExpectInv
<1>6. job[q].slice \in Slice => job[q].wants <= emitted[job[q].slice]
  BY DEF ExpectInv
<1>7. QED
  BY <1>5, <1>6 DEF ExpectInv

(* Steps that leave the broker alone: a runner does not come to a claim    *)
(* but through a look at the head.                                         *)
LEMMA QuietKeeps ==
  ASSUME QueueInv, CloseoutTypeOK, UNCHANGED <<emitted, queue, stray>>,
         \A q \in Runner : \/ pc'[q] = pc[q] /\ job'[q] = job[q] /\ hand'[q] = hand[q]
                           \/ ExpectInv(q)'
  PROVE  QueueInv'
<1>1. QueueDistinct' /\ QueueSent' /\ \A c \in stray' : Gone(c[2])'
  BY DEF QueueInv, QueueDistinct, QueueSent, Sent, Gone
<1>2. \A q \in Runner : ExpectInv(q)'
  BY ExpectStays DEF QueueInv
<1>3. QED
  BY <1>1, <1>2 DEF QueueInv

(* A run that neither remembers a decision nor is about to claim. *)
LEMMA ExpectNothing ==
  ASSUME CloseoutTypeOK', NEW r \in Runner, job'[r].wants = 0,
         pc'[r] \notin Looking
  PROVE  ExpectInv(r)'
  BY DEF ExpectInv, CloseoutTypeOK

LEMMA ExpectEnd ==
  ASSUME CloseoutTypeOK, CloseoutTypeOK', NEW r \in Runner, Finish(r)
  PROVE  /\ ExpectInv(r)'
         /\ \A q \in Runner \ {r} : pc'[q] = pc[q] /\ job'[q] = job[q]
<1>1. pc'[r] = "idle" /\ job'[r].wants = 0
  BY DEF Finish, Goto, NoJob, CloseoutTypeOK
<1>2. QED
  BY <1>1, ExpectNothing, Ending

(* A step on the way keeps what is remembered. *)
LEMMA ExpectGoing ==
  ASSUME CloseoutTypeOK, QueueInv, UNCHANGED emitted, NEW r \in Runner,
         NEW l \in Pc \ Looking, Continue(r, l)
  PROVE  /\ ExpectInv(r)'
         /\ \A q \in Runner \ {r} : pc'[q] = pc[q] /\ job'[q] = job[q]
  BY Going DEF ExpectInv, QueueInv

LEMMA FailExpects ==
  ASSUME QueueInv, CloseoutTypeOK, CloseoutTypeOK', NEW r \in Runner, Finish(r),
         UNCHANGED <<emitted, queue, stray>>, \A q \in Runner \ {r} : hand'[q] = hand[q]
  PROVE  QueueInv'
  BY ExpectEnd, QuietKeeps

LEMMA GoingExpects ==
  ASSUME QueueInv, CloseoutTypeOK, UNCHANGED broker, NEW r \in Runner,
         NEW l \in Pc \ Looking, Continue(r, l)
  PROVE  QueueInv'
<1>1. UNCHANGED emitted
  BY DEF broker
<1>2. QED
  BY <1>1, ExpectGoing, QuietKeeps DEF broker

LEMMA QuietActions ==
  ASSUME QueueInv, CloseoutTypeOK, CloseoutTypeOK', NEW r \in Runner,
         \/ \E s \in Slice : Accept(r, s) \/ BeginCloseout(r, s)
         \/ Merge(r) \/ LoadIssue(r) \/ CloseIssue(r)
         \/ RecordAcceptance(r) \/ Materialize(r) \/ Dies(r)
  PROVE  QueueInv'
<1>1. UNCHANGED <<emitted, queue, stray>> /\ \A q \in Runner \ {r} : hand'[q] = hand[q]
  BY DEF Accept, BeginCloseout, Merge, LoadIssue, CloseIssue, RecordAcceptance, Materialize, Dies, broker,
         CloseoutTypeOK
<1>0. Dies(r) \/ UNCHANGED broker
  BY DEF Accept, BeginCloseout, Merge, LoadIssue, CloseIssue, RecordAcceptance, Materialize
<1>2. ASSUME NEW s \in Slice, Accept(r, s) \/ BeginCloseout(r, s)
      PROVE  QueueInv'
  <2>1. pc'[r] \notin Looking
    BY <1>2 DEF Accept, BeginCloseout, Goto, CloseoutTypeOK
  <2>2. job'[r].wants = 0
    BY <1>2 DEF Accept, BeginCloseout, CloseoutTypeOK
  <2>3. \A q \in Runner \ {r} : pc'[q] = pc[q] /\ job'[q] = job[q]
    BY <1>2 DEF Accept, BeginCloseout, Goto, CloseoutTypeOK
  <2>4. QED
    BY <1>1, <2>1, <2>2, <2>3, ExpectNothing, QuietKeeps
<1>3. CASE Fail(r)
  BY <1>1, <1>3, FailExpects DEF Fail
<1>4. CASE UNCHANGED broker /\ \E l \in Pc \ Looking : Continue(r, l)
  BY <1>4, GoingExpects
<1>5. {"issue", "close", "closeout", "materialize", "send", "qa_head", "decision_head"}
        \subseteq Pc \ Looking
  BY DEF Pc
<1>6. Merge(r) => QueueInv'
  BY <1>3, <1>4, <1>5 DEF Merge, broker
<1>7. LoadIssue(r) => QueueInv'
  BY <1>4, <1>5 DEF LoadIssue, broker
<1>8. CloseIssue(r) => QueueInv'
  BY <1>3, <1>4, <1>5 DEF CloseIssue, broker
<1>9. RecordAcceptance(r) => QueueInv'
  BY <1>3, <1>4, <1>5 DEF RecordAcceptance, broker
<1>10. Materialize(r) => QueueInv'
  BY <1>3, <1>4, <1>5 DEF Materialize, broker
<1>11. Dies(r) => QueueInv'
  BY <1>3 DEF Dies
<1>12. QED
  BY <1>2, <1>6, <1>7, <1>8, <1>9, <1>10, <1>11

(* A decision is sent under a number no packet on the queue has had, ever. *)
LEMMA SendExpects ==
  ASSUME QueueInv, ChainInv, CloseoutTypeOK', NEW r \in Runner, SendDecision(r)
  PROVE  QueueInv'
<1> USE DEF ChainInv
<1>1. CASE Fail(r) /\ UNCHANGED <<emitted, queue>>
  BY <1>1, FailExpects DEF SendDecision, Fail, broker
<1>2. CASE ~(Fail(r) /\ UNCHANGED <<emitted, queue>>)
  <2> DEFINE s == job[r].slice
  <2>1. /\ pc[r] = "send" /\ s \in Slice
        /\ emitted' = [emitted EXCEPT ![s] = @ + 1]
        /\ queue' = Append(queue, <<s, emitted'[s]>>)
        /\ job' = [job EXCEPT ![r].wants = emitted'[s]]
        /\ \E l \in {"qa_head", "decision_head"} : pc' = [pc EXCEPT ![r] = l]
        /\ UNCHANGED <<stray, hand>>
    BY <1>2 DEF SendDecision, RunnerInv, Goto
  <2>2. emitted \in [Slice -> Nat] /\ queue \in Seq(Packets) /\ emitted'[s] = emitted[s] + 1
    BY <2>1 DEF CloseoutTypeOK
  <2>3. PICK new : new = <<s, emitted[s] + 1>>
    OBVIOUS
  <2>4. /\ new \in Packets /\ new[1] = s /\ new[2] = emitted[s] + 1
        /\ emitted[s] \in Nat
    BY <2>1, <2>2, <2>3 DEF Packets
  <2>5. queue' = Append(queue, new) /\ ~Sent(new) /\ Sent(new)'
    <3>1. ~Sent(new)
      BY <2>4 DEF Sent
    <3>2. Sent(new)'
      BY <2>2, <2>4 DEF Sent
    <3>3. QED
      BY <2>1, <2>2, <2>3, <3>1, <3>2
  <2>6. \A p : Sent(p) => Sent(p)'
    <3>1. ASSUME NEW p, Sent(p) PROVE Sent(p)'
      <4>1. p \in Packets /\ p[1] \in Slice /\ p[2] \in Nat /\ p[2] <= emitted[p[1]]
        BY <3>1 DEF Sent, Packets
      <4>2. emitted[p[1]] \in Nat /\ emitted'[p[1]] \in Nat /\ emitted[p[1]] <= emitted'[p[1]]
        BY <2>1, <2>2, <4>1
      <4>3. QED
        BY <4>1, <4>2 DEF Sent
    <3>2. QED
      BY <3>1
  <2>7. /\ DOMAIN queue' = 1..(Len(queue) + 1) /\ DOMAIN queue = 1..Len(queue) /\ Len(queue) \in Nat
        /\ \A i \in DOMAIN queue : queue'[i] = queue[i]
        /\ queue'[Len(queue) + 1] = new
    BY <2>2, <2>5, <2>4
  <2>8. QueueDistinct' /\ QueueSent'
    <3>1. \A i \in DOMAIN queue : queue[i] # new
      BY <2>5 DEF QueueInv, QueueSent
    <3>2. QueueDistinct'
      BY <2>7, <3>1 DEF QueueInv, QueueDistinct
    <3>3. \A p : (\E i \in DOMAIN queue : p = queue[i]) \/ p = new => Sent(p)'
      BY <2>5, <2>6 DEF QueueInv, QueueSent
    <3>4. \A i \in DOMAIN queue' :
             (\E j \in DOMAIN queue : queue'[i] = queue[j]) \/ queue'[i] = new
      BY <2>7
    <3>5. \A p : (\E i \in DOMAIN queue : p = queue[i]) \/ p = new
             => p \in Packets /\ p[2] <= emitted'[p[1]]
      BY <3>3 DEF Sent
    <3>6. \A i \in DOMAIN queue' :
             queue'[i] \in Packets /\ queue'[i][2] <= emitted'[queue'[i][1]]
      BY <3>4, <3>5
    <3>7. QueueSent'
      BY <3>6 DEF QueueSent, Sent
    <3>8. QED
      BY <3>2, <3>7
  <2>9. \A p : Gone(p) => Gone(p)'
    BY <2>5, <2>6, <2>7 DEF Gone
  <2>10. \A p : IsHead(p) => IsHead(p)'
    <3>1. queue # <<>> => Head(queue') = Head(queue) /\ queue' # <<>>
      BY <2>2, <2>7, <2>5
    <3>2. QED
      BY <3>1 DEF IsHead
  <2>11. ASSUME NEW q \in Runner \ {r} PROVE ExpectInv(q)'
    <3>1. pc'[q] = pc[q] /\ job'[q] = job[q] /\ hand'[q] = hand[q]
      BY <2>1 DEF CloseoutTypeOK
    <3>2. Wanted(q)' = Wanted(q)
      BY <3>1 DEF Wanted, Qa
    <3>3. /\ pc[q] \in Getting => IsHead(Wanted(q))' \/ Gone(Wanted(q))'
          /\ pc[q] \in Claiming => hand[q] = Wanted(q)' \/ Gone(Wanted(q))'
      <4>1. PICK w : w = Wanted(q)
        OBVIOUS
      <4>2. /\ Gone(w)' => Gone(Wanted(q))'
            /\ IsHead(w)' => IsHead(Wanted(q))'
        BY <3>2, <4>1 DEF Gone, Sent, IsHead
      <4>3. /\ pc[q] \in Getting => IsHead(w) \/ Gone(w)
            /\ pc[q] \in Claiming => hand[q] = w \/ Gone(w)
        BY <4>1 DEF QueueInv, ExpectInv
      <4>4. QED
        BY <2>9, <2>10, <3>2, <4>1, <4>2, <4>3
    <3>4. job[q].slice \in Slice => job[q].wants <= emitted'[job[q].slice]
      <4>1. job[q].wants \in Nat
        BY DEF CloseoutTypeOK
      <4>2. job[q].slice \in Slice => job[q].wants <= emitted[job[q].slice]
        BY DEF QueueInv, ExpectInv
      <4>3. \A x \in Slice : emitted[x] \in Nat /\ emitted'[x] \in Nat /\ emitted[x] <= emitted'[x]
        BY <2>1, <2>2
      <4>4. QED
        BY <4>1, <4>2, <4>3
    <3>5. QED
      BY <3>1, <3>3, <3>4 DEF ExpectInv
  <2>12. ExpectInv(r)'
    <3>1. pc'[r] \notin Looking
      BY <2>1 DEF CloseoutTypeOK
    <3>2. job'[r].slice = s /\ job'[r].wants = emitted'[s]
      BY <2>1 DEF CloseoutTypeOK
    <3>3. emitted'[s] <= emitted'[s]
      BY <2>1, <2>2
    <3>4. QED
      BY <3>1, <3>2, <3>3 DEF ExpectInv
  <2>13. \A c \in stray' : Gone(c[2])'
    BY <2>1, <2>9 DEF QueueInv
  <2>14. QED
    BY <2>8, <2>11, <2>12, <2>13 DEF QueueInv
<1>3. QED
  BY <1>1, <1>2

(* The look at the head: what a run goes on to claim was there.            *)
LEMMA CheckExpects ==
  ASSUME QueueInv, ChainInv, CloseoutTypeOK', NEW r \in Runner, CheckHead(r)
  PROVE  QueueInv'
<1> USE DEF ChainInv
<1>1. UNCHANGED broker
  BY DEF CheckHead
<1>2. CASE NotAcked(r)
  BY <1>1, <1>2, Giving, FailExpects DEF broker
<1>3. CASE Continue(r, StepAfter(r)) /\ IsHead(Wanted(r))
  <2>1. /\ pc[r] \in {"qa_head", "decision_head"} /\ StepAfter(r) \in Pc
        /\ StepAfter(r) \in Getting /\ StepAfter(r) \notin Claiming
    BY NextStep DEF CheckHead
  <2>2. pc'[r] = StepAfter(r) /\ job' = job /\ \A q \in Runner \ {r} : pc'[q] = pc[q]
    BY <1>3, <2>1, Going
  <2>3. Wanted(r)' = Wanted(r)
    BY <2>1, <2>2 DEF Wanted, StepAfter, Qa
  <2>4. IsHead(Wanted(r))'
    BY <1>1, <1>3, <2>3 DEF IsHead, broker
  <2>5. ExpectInv(r)'
    BY <1>1, <2>1, <2>2, <2>4 DEF ExpectInv, QueueInv, broker
  <2>6. QED
    BY <1>1, <2>2, <2>5, QuietKeeps DEF broker
<1>4. QED
  BY <1>2, <1>3 DEF CheckHead

(* The get: what it takes is the expected packet, or that one is gone.     *)
LEMMA GetExpects ==
  ASSUME QueueInv, ChainInv, CloseoutTypeOK', NEW r \in Runner, GetHead(r)
  PROVE  QueueInv'
<1> USE DEF ChainInv
<1>1. CASE queue = <<>>
  <2>1. NotAcked(r) /\ UNCHANGED broker
    BY <1>1 DEF GetHead, broker
  <2>2. QED
    BY <2>1, Giving, FailExpects DEF broker
<1>2. CASE queue # <<>>
  <2>1. /\ queue' = Tail(queue) /\ emitted' = emitted /\ stray' = stray
        /\ hand' = [hand EXCEPT ![r] = Head(queue)]
        /\ pc[r] \in Getting /\ Continue(r, StepAfter(r))
    BY <1>2 DEF GetHead
  <2>2. /\ QueueDistinct' /\ QueueSent'
        /\ \A p : Gone(p) => Gone(p)'
    BY <1>2, <2>1, TailPackets DEF QueueInv, CloseoutTypeOK
  <2>3. \A c \in stray' : Gone(c[2])'
    BY <2>1, <2>2 DEF QueueInv
  <2>4. StepAfter(r) \in Pc /\ StepAfter(r) \in Claiming /\ StepAfter(r) \notin Getting
    BY <2>1, NextStep DEF StepAfter
  <2>5. /\ pc'[r] = StepAfter(r) /\ job' = job /\ hand'[r] = Head(queue)
        /\ \A q \in Runner \ {r} : pc'[q] = pc[q] /\ job'[q] = job[q] /\ hand'[q] = hand[q]
    BY <2>1, <2>4, Going DEF CloseoutTypeOK
  <2>6. ExpectInv(r)'
    <3>1. Wanted(r)' = Wanted(r)
      BY <2>1, <2>5 DEF Wanted, StepAfter, Qa
    <3>2. hand'[r] = Wanted(r) \/ Gone(Wanted(r))'
      <4>1. PICK w : w = Wanted(r)
        OBVIOUS
      <4>2. IsHead(w) \/ Gone(w)
        BY <2>1, <4>1 DEF QueueInv, ExpectInv
      <4>3. Head(queue) = w \/ Gone(w)'
        BY <2>2, <4>2 DEF IsHead
      <4>4. Gone(w)' => Gone(Wanted(r))'
        BY <3>1, <4>1 DEF Gone, Sent
      <4>5. QED
        BY <2>5, <4>1, <4>3, <4>4
    <3>3. QED
      BY <2>1, <2>4, <2>5, <3>1, <3>2 DEF QueueInv, ExpectInv
  <2>7. \A q \in Runner \ {r} : ExpectInv(q)'
    BY <1>2, <2>1, <2>5, ExpectTail DEF QueueInv
  <2>8. QED
    BY <2>2, <2>3, <2>6, <2>7 DEF QueueInv
<1>3. QED
  BY <1>1, <1>2

(* A claim in place of another: the expected packet has been taken.        *)
LEMMA ClaimExpects ==
  ASSUME QueueInv, ChainInv, CloseoutTypeOK', NEW r \in Runner, ClaimGot(r)
  PROVE  QueueInv'
<1> USE DEF ChainInv
<1>1. /\ UNCHANGED <<queue, emitted>> /\ pc[r] \in Claiming
      /\ \A q \in Runner \ {r} : hand'[q] = hand[q]
  BY DEF ClaimGot, CloseoutTypeOK
<1>2. QueueDistinct' /\ QueueSent' /\ \A p : Gone(p) => Gone(p)'
  BY <1>1 DEF QueueInv, QueueDistinct, QueueSent, Sent, Gone
<1>3. \A c \in stray' : Gone(c[2])'
  <2>1. CASE hand[r] = Wanted(r)
    BY <1>2, <2>1 DEF ClaimGot, QueueInv
  <2>2. CASE hand[r] # Wanted(r)
    <3>1. stray' = stray \cup {<<hand[r], Wanted(r)>>}
      BY <2>2 DEF ClaimGot
    <3>2. Gone(Wanted(r))
      BY <1>1, <2>2 DEF QueueInv, ExpectInv
    <3>3. QED
      BY <1>2, <3>1, <3>2 DEF QueueInv
  <2>3. QED
    BY <2>1, <2>2
<1>4. ExpectInv(r)' /\ \A q \in Runner \ {r} : pc'[q] = pc[q] /\ job'[q] = job[q]
  <2>1. CASE NotAcked(r)
    BY <2>1, Giving, ExpectEnd
  <2>2. CASE Continue(r, StepAfter(r))
    <3>1. StepAfter(r) \in Pc \ Looking
      BY <1>1 DEF StepAfter, Pc
    <3>2. QED
      BY <1>1, <2>2, <3>1, ExpectGoing
  <2>3. QED
    BY <2>1, <2>2 DEF ClaimGot
<1>5. \A q \in Runner \ {r} : ExpectInv(q)'
  BY <1>1, <1>4, ExpectStays DEF QueueInv
<1>6. QED
  BY <1>2, <1>3, <1>4, <1>5 DEF QueueInv

LEMMA AckExpects ==
  ASSUME QueueInv, ChainInv, CloseoutTypeOK', NEW r \in Runner, Ack(r)
  PROVE  QueueInv'
<1> USE DEF ChainInv
<1>1. UNCHANGED <<queue, emitted, stray, hand>>
  BY DEF Ack
<1>2. QueueDistinct' /\ QueueSent' /\ \A c \in stray' : Gone(c[2])'
  BY <1>1 DEF QueueInv, QueueDistinct, QueueSent, Sent, Gone
<1>3. ExpectInv(r)' /\ \A q \in Runner \ {r} : pc'[q] = pc[q] /\ job'[q] = job[q]
  <2>1. CASE Finish(r)
    BY <2>1, ExpectEnd
  <2>2. CASE Continue(r, "decision_head")
    <3>1. "decision_head" \in Pc \ Looking
      BY DEF Pc
    <3>2. QED
      BY <1>1, <2>2, <3>1, ExpectGoing
  <2>3. QED
    BY <2>1, <2>2 DEF Ack
<1>4. \A q \in Runner \ {r} : ExpectInv(q)'
  BY <1>1, <1>3, ExpectStays DEF QueueInv
<1>5. QED
  BY <1>2, <1>3, <1>4 DEF QueueInv

LEMMA OthersExpect ==
  ASSUME QueueInv, ChainInv,
         HostTakes \/ \E s \in Slice : AuthorChanges(s) \/ IssueChanges(s) \/ Reverified(s)
  PROVE  QueueInv'
<1> USE DEF ChainInv
<1>1. CASE HostTakes
  <2>1. /\ queue # <<>> /\ queue' = Tail(queue)
        /\ UNCHANGED <<emitted, stray, pc, job, hand>>
    BY <1>1 DEF HostTakes
  <2>2. /\ QueueDistinct' /\ QueueSent'
        /\ \A p : Gone(p) => Gone(p)'
    BY <2>1, TailPackets DEF QueueInv, CloseoutTypeOK
  <2>3. \A q \in Runner : ExpectInv(q)'
    BY <2>1, ExpectTail DEF QueueInv
  <2>4. QED
    BY <2>1, <2>2, <2>3 DEF QueueInv
<1>2. CASE \E s \in Slice : AuthorChanges(s) \/ IssueChanges(s) \/ Reverified(s)
  <2>1. UNCHANGED <<broker, pc, job>>
    BY <1>2 DEF AuthorChanges, IssueChanges, Reverified
  <2>2. QED
    BY <2>1, QuietKeeps DEF broker
<1>3. QED
  BY <1>1, <1>2

LEMMA NextQueue == ChainInv /\ QueueInv /\ [Next]_vars /\ ChainInv' => QueueInv'
<1> SUFFICES ASSUME ChainInv, QueueInv, [Next]_vars, ChainInv' PROVE QueueInv'
  OBVIOUS
<1>1. CloseoutTypeOK /\ CloseoutTypeOK'
  BY DEF ChainInv
<1>2. ASSUME NEW r \in Runner,
             (\E s \in Slice : Accept(r, s) \/ BeginCloseout(r, s)) \/ Advance(r) \/ Dies(r)
      PROVE  QueueInv'
  BY <1>1, <1>2, QuietActions, SendExpects, CheckExpects, GetExpects, ClaimExpects, AckExpects DEF Advance
<1>3. CASE UNCHANGED vars
  BY <1>1, <1>3, QuietKeeps DEF vars, broker
<1>4. QED
  BY <1>2, <1>3, OthersExpect DEF Next

(* A closeout claims another packet than the one it looked for only when   *)
(* that one has been taken since (_ack_if_queue_head previews, then claims *)
(* the head), if no QA packet was queued twice.                            *)
THEOREM StrayClaims == OneQaPacket /\ Spec => []StrayClaimHasCause
<1> SUFFICES ASSUME OneQaPacket PROVE Spec => []StrayClaimHasCause
  OBVIOUS
<1>1. Init => ChainInv /\ QueueInv
  BY InitChain, InitQueue
<1>2. ChainInv /\ QueueInv /\ [Next]_vars => (ChainInv /\ QueueInv)'
  BY NextChain, NextQueue
<1>3. ChainInv /\ QueueInv => StrayClaimHasCause
  BY DEF QueueInv, Gone, StrayClaimHasCause
<1>4. QED
  BY <1>1, <1>2, <1>3, PTL DEF Spec

============================================================================
