------------------------------ MODULE Closeout ------------------------------
(***************************************************************************)
(* Accepting a slice that QA has passed: acceptance.py merges the pull     *)
(* request and closes the issue, closeout.py records the acceptance,       *)
(* emits the closed decision (decision.py) and takes the QA packet and the *)
(* decision packet off the architecture queue.  Every step can fail, the   *)
(* run then returns, and an operator starts it again: the only state that  *)
(* survives is GitHub's, the database's and the broker's.                  *)
(***************************************************************************)
EXTENDS Naturals, Sequences, FiniteSets

CONSTANTS
  Slice,        \* issues under delivery
  Runner,       \* the operator commands that run at the same time
  NoSlice,      \* the slice of an idle runner
  Backlog,      \* the slices whose QA packets wait on the queue, in order
  Requests,     \* the options closeout commands are called with
  MaxFailures   \* bound: failing runs, deaths, and changes from outside

ASSUME CloseoutAssumption ==
  /\ NoSlice \notin Slice /\ NoSlice \notin Runner
  /\ Backlog \in Seq(Slice)
  /\ Requests \subseteq [mode : {"live_delivery", "proof_only"}, send : BOOLEAN, ack : BOOLEAN]
  /\ MaxFailures \in Nat

VARIABLES
  verdict,   \* the QA packet in the reports directory: its status and recommendation
  pr,        \* the pull request on GitHub
  issue,     \* the issue on GitHub
  wasClosed, \* history: slices whose issue has been closed at some time
  events,    \* acceptance events in the database: <<slice, mode>>
  decided,   \* slices with a closed decision in the database
  emitted,   \* number of decision packets sent for each slice
  queue,     \* the architecture queue
  claims,    \* open claims on it: packet and claimer
  stray,     \* history: the packet a run claimed in place of the one it expected
  acked,     \* packets acknowledged by a closeout
  hand,      \* the packet a runner has got off the queue, its claim not written
  lost,      \* history: packets in a hand when its owner died
  pc, job,   \* the step and the request of each runner
  failures   \* number of things that went wrong so far

vars == <<verdict, pr, issue, wasClosed, events, decided, emitted, queue,
          claims, stray, acked, hand, lost, pc, job, failures>>
github == <<pr, issue, wasClosed>>
database == <<events, decided>>
broker == <<emitted, queue, claims, stray, acked, hand, lost>>

Modes == {"live_delivery", "proof_only"}
Pc == {"idle", "merge", "issue", "close", "closeout", "materialize", "send",
       "qa_head", "qa_get", "qa_claim", "qa_ack",
       "decision_head", "decision_get", "decision_claim", "decision_ack"}

(* Packet 0 of a slice is its QA packet, packet n its n-th decision. *)
Qa(s) == <<s, 0>>
Packets == Slice \X Nat
NoPacket == <<NoSlice, 0>>
NoJob == [slice |-> NoSlice, mode |-> "live_delivery", send |-> FALSE, ack |-> FALSE, wants |-> 0]
IsHead(p) == queue # <<>> /\ Head(queue) = p

Init ==
  /\ verdict = [s \in Slice |-> "accept"]
  /\ pr \in [Slice -> {"none", "ready"}]
  /\ issue = [s \in Slice |-> "OPEN"]
  /\ wasClosed = {}
  /\ events = {} /\ decided = {}
  /\ emitted = [s \in Slice |-> 0]
  /\ queue = [i \in DOMAIN Backlog |-> Qa(Backlog[i])]
  /\ claims = {} /\ stray = {} /\ acked = {}
  /\ hand = [r \in Runner |-> NoPacket] /\ lost = {}
  /\ pc = [r \in Runner |-> "idle"]
  /\ job = [r \in Runner |-> NoJob]
  /\ failures = 0

Goto(r, label) == pc' = [pc EXCEPT ![r] = label]
Finish(r) == Goto(r, "idle") /\ job' = [job EXCEPT ![r] = NoJob]
Continue(r, label) == Goto(r, label) /\ UNCHANGED <<job, failures>>

(* A run that fails returns its reason; failures counts it. *)
Fail(r) == Finish(r) /\ failures' = IF failures < MaxFailures THEN failures + 1 ELSE failures
MayFail == failures < MaxFailures

(* An operator repeats a run as long as it may help. *)
WorthTrying(s) == MayFail \/ IsHead(Qa(s))

-----------------------------------------------------------------------------
(* accept_and_merge_qa_pass *)

(* Mutant: only a pull request that is still open can be accepted. *)
AcceptOpenOnly(r, s) ==
  /\ pc[r] = "idle" /\ WorthTrying(s)
  /\ verdict[s] = "accept"
  /\ pr[s] = "ready"
  /\ job' = [job EXCEPT ![r] = [slice |-> s, mode |-> "live_delivery",
                                send |-> TRUE, ack |-> TRUE, wants |-> 0]]
  /\ Goto(r, "merge")
  /\ UNCHANGED <<verdict, github, database, broker, failures>>

(* The packet must recommend the merge and the pull request be found; one  *)
(* that is not merged yet must be open, ready, green and clean.            *)
Accept(r, s) ==
  /\ pc[r] = "idle" /\ WorthTrying(s)
  /\ verdict[s] = "accept"
  /\ pr[s] \in {"ready", "merged"}
  /\ job' = [job EXCEPT ![r] = [slice |-> s, mode |-> "live_delivery",
                                send |-> TRUE, ack |-> TRUE, wants |-> 0]]
  /\ Goto(r, IF pr[s] = "merged" THEN "issue" ELSE "merge")
  /\ UNCHANGED <<verdict, github, database, broker, failures>>

(* Mutant: an answer that the merge failed goes unread. *)
MergeUnread(r) ==
  LET s == job[r].slice IN
  /\ pc[r] = "merge"
  /\ pr' = [pr EXCEPT ![s] = IF @ \in {"ready", "merged"} THEN "merged" ELSE @]
  /\ Continue(r, "issue")
  /\ UNCHANGED <<verdict, issue, wasClosed, database, broker>>

(* GitHub merges what is ready by now; the checks above are not repeated,  *)
(* nor is the commit compared with the one QA saw.                         *)
Merge(r) ==
  LET s == job[r].slice IN
  /\ pc[r] = "merge"
  /\ \/ /\ pr[s] \in {"ready", "merged"}
        /\ pr' = [pr EXCEPT ![s] = "merged"]
        /\ Continue(r, "issue")
     \/ /\ pr[s] \notin {"ready", "merged"} \/ MayFail
        /\ Fail(r)
        /\ UNCHANGED pr
  /\ UNCHANGED <<verdict, issue, wasClosed, database, broker>>

LoadIssue(r) ==
  /\ pc[r] = "issue"
  /\ Continue(r, IF issue[job[r].slice] = "CLOSED" THEN "closeout" ELSE "close")
  /\ UNCHANGED <<verdict, github, database, broker>>

CloseIssue(r) ==
  /\ pc[r] = "close"
  /\ \/ /\ issue' = [issue EXCEPT ![job[r].slice] = "CLOSED"]
        /\ wasClosed' = wasClosed \cup {job[r].slice}
        /\ Continue(r, "closeout")
     \/ MayFail /\ Fail(r) /\ UNCHANGED <<issue, wasClosed>>
  /\ UNCHANGED <<verdict, pr, database, broker>>

-----------------------------------------------------------------------------
(* closeout_qa_pass, called by the acceptance or by a command of its own *)

BeginCloseout(r, s) ==
  /\ pc[r] = "idle" /\ WorthTrying(s)
  /\ \E o \in Requests :
       job' = [job EXCEPT ![r] = [slice |-> s, mode |-> o.mode, send |-> o.send,
                                  ack |-> o.ack, wants |-> 0]]
  /\ Goto(r, "closeout")
  /\ UNCHANGED <<verdict, github, database, broker, failures>>

Delivered(s) == pr[s] = "merged" \/ issue[s] = "CLOSED"

(* Mutant: a closeout that takes the operator's word for the delivery. *)
RecordAcceptanceUnchecked(r) ==
  LET s == job[r].slice IN
  /\ pc[r] = "closeout"
  /\ events' = events \cup {<<s, job[r].mode>>}
  /\ Continue(r, "materialize")
  /\ UNCHANGED <<verdict, github, decided, broker>>

(* The QA packet is read again and must still pass; a live slice must be   *)
(* merged or its issue closed.  The event is recorded on every run.        *)
RecordAcceptance(r) ==
  LET s == job[r].slice IN
  /\ pc[r] = "closeout"
  /\ IF verdict[s] # "fail" /\ (Delivered(s) \/ job[r].mode = "proof_only")
     THEN /\ events' = events \cup {<<s, job[r].mode>>}
          /\ Continue(r, "materialize")
     ELSE Fail(r) /\ UNCHANGED events
  /\ UNCHANGED <<verdict, github, decided, broker>>

(* emit_decision needs a pull request; the producer command it runs writes *)
(* packet and rows, and may fail with an exception.                        *)
Materialize(r) ==
  LET s == job[r].slice IN
  /\ pc[r] = "materialize"
  /\ \/ /\ pr[s] # "none"
        /\ decided' = decided \cup {s}
        /\ Continue(r, IF job[r].send THEN "send" ELSE IF job[r].ack THEN "qa_head" ELSE "decision_head")
     \/ /\ pr[s] = "none" \/ MayFail
        /\ Fail(r)
        /\ UNCHANGED decided
  /\ UNCHANGED <<verdict, github, events, broker>>

(* The job remembers which decision it sent. *)
SendDecision(r) ==
  LET s == job[r].slice IN
  /\ pc[r] = "send"
  /\ \/ /\ emitted' = [emitted EXCEPT ![s] = @ + 1]
        /\ queue' = Append(queue, <<s, emitted'[s]>>)
        /\ job' = [job EXCEPT ![r].wants = emitted'[s]]
        /\ Goto(r, IF job[r].ack THEN "qa_head" ELSE "decision_head")
        /\ UNCHANGED failures
     \/ MayFail /\ Fail(r) /\ UNCHANGED <<emitted, queue>>
  /\ UNCHANGED <<verdict, github, database, claims, stray, acked, hand, lost>>

-----------------------------------------------------------------------------
(* _ack_if_queue_head, for the QA packet and then for the decision *)

Wanted(r) == IF pc[r] \in {"qa_head", "qa_get", "qa_claim", "qa_ack"}
             THEN Qa(job[r].slice) ELSE <<job[r].slice, job[r].wants>>
StepAfter(r) == CASE pc[r] = "qa_head" -> "qa_get"
              [] pc[r] = "qa_get" -> "qa_claim"
              [] pc[r] = "qa_claim" -> "qa_ack"
              [] pc[r] = "decision_head" -> "decision_get"
              [] pc[r] = "decision_get" -> "decision_claim"
              [] pc[r] = "decision_claim" -> "decision_ack"

(* What the caller makes of a packet it could not acknowledge: the QA      *)
(* packet's failure ends the run, the decision's is only reported.         *)
NotAcked(r) == IF pc[r] \in {"qa_head", "qa_get", "qa_claim"}
               THEN Fail(r) ELSE Finish(r) /\ UNCHANGED failures

(* Mutant: whatever is at the head is claimed. *)
CheckHeadSkipped(r) ==
  /\ pc[r] \in {"qa_head", "decision_head"}
  /\ IF pc[r] = "qa_head" \/ job[r].wants # 0
     THEN Continue(r, StepAfter(r)) ELSE NotAcked(r)
  /\ UNCHANGED <<verdict, github, database, broker>>

(* The preview shows one packet; only a decision that was sent is looked for. *)
CheckHead(r) ==
  /\ pc[r] \in {"qa_head", "decision_head"}
  /\ IF (pc[r] = "qa_head" \/ job[r].wants # 0) /\ IsHead(Wanted(r))
     THEN Continue(r, StepAfter(r)) ELSE NotAcked(r)
  /\ UNCHANGED <<verdict, github, database, broker>>

(* claim_next takes whatever is at the head by then ...                    *)
GetHead(r) ==
  /\ pc[r] \in {"qa_get", "decision_get"}
  /\ IF queue = <<>>
     THEN NotAcked(r) /\ UNCHANGED <<queue, hand>>
     ELSE /\ queue' = Tail(queue)
          /\ hand' = [hand EXCEPT ![r] = Head(queue)]
          /\ Continue(r, StepAfter(r))
  /\ UNCHANGED <<verdict, github, database, emitted, claims, stray, acked, lost>>

(* ... and then writes the claim file.  Another packet than the expected   *)
(* one stays claimed.                                                      *)
ClaimGot(r) ==
  /\ pc[r] \in {"qa_claim", "decision_claim"}
  /\ claims' = claims \cup {<<hand[r], r>>}
  /\ hand' = [hand EXCEPT ![r] = NoPacket]
  /\ IF hand[r] = Wanted(r)
     THEN Continue(r, StepAfter(r)) /\ UNCHANGED stray
     ELSE NotAcked(r) /\ stray' = stray \cup {<<hand[r], Wanted(r)>>}
  /\ UNCHANGED <<verdict, github, database, emitted, queue, acked, lost>>

(* The caller does not look at the result of ack, which is always a success*)
(* or an exception; one that raises ends the run like a death.             *)
Ack(r) ==
  /\ pc[r] \in {"qa_ack", "decision_ack"}
  /\ claims' = claims \ {<<Wanted(r), r>>}
  /\ acked' = acked \cup {Wanted(r)}
  /\ IF pc[r] = "qa_ack" THEN Continue(r, "decision_head")
     ELSE Finish(r) /\ UNCHANGED failures
  /\ UNCHANGED <<verdict, github, database, emitted, queue, stray, hand, lost>>

-----------------------------------------------------------------------------
(* Everybody else *)

(* The run dies; what it has claimed stays claimed, and what it has got off*)
(* the queue without a claim is gone.                                      *)
Dies(r) ==
  /\ pc[r] # "idle" /\ MayFail
  /\ Fail(r)
  /\ lost' = lost \cup ({hand[r]} \ {NoPacket})
  /\ hand' = [hand EXCEPT ![r] = NoPacket]
  /\ UNCHANGED <<verdict, github, database, emitted, queue, claims, stray, acked>>

(* The author marks the pull request ready, a push breaks it, its checks   *)
(* turn red, or somebody closes it.                                        *)
AuthorChanges(s) ==
  /\ \/ pr[s] = "draft" /\ pr' = [pr EXCEPT ![s] = "ready"] /\ UNCHANGED failures
     \/ /\ pr[s] = "ready" /\ MayFail
        /\ pr' \in {[pr EXCEPT ![s] = state] : state \in {"draft", "closed"}}
        /\ failures' = failures + 1
  /\ UNCHANGED <<verdict, issue, wasClosed, database, broker, pc, job>>

(* A person closes or reopens the issue. *)
IssueChanges(s) ==
  /\ MayFail
  /\ issue' = [issue EXCEPT ![s] = IF @ = "OPEN" THEN "CLOSED" ELSE "OPEN"]
  /\ wasClosed' = IF issue'[s] = "CLOSED" THEN wasClosed \cup {s} ELSE wasClosed
  /\ failures' = failures + 1
  /\ UNCHANGED <<verdict, pr, database, broker, pc, job>>

(* A new QA packet for the issue replaces the one in the reports directory. *)
Reverified(s) ==
  /\ MayFail
  /\ verdict' \in {[verdict EXCEPT ![s] = v] : v \in {"pass", "fail"}}
  /\ failures' = failures + 1
  /\ UNCHANGED <<github, database, broker, pc, job>>

(* The TechLead host serves the same queue, and may die between its get    *)
(* and its claim as well.                                                  *)
HostTakes ==
  /\ queue # <<>>
  /\ queue' = Tail(queue)
  /\ \/ claims' = claims \cup {<<Head(queue), NoSlice>>} /\ UNCHANGED <<lost, failures>>
     \/ MayFail /\ failures' = failures + 1 /\ lost' = lost \cup {Head(queue)} /\ UNCHANGED claims
  /\ UNCHANGED <<verdict, github, database, emitted, stray, acked, hand, pc, job>>

-----------------------------------------------------------------------------
Advance(r) ==
  \/ Merge(r) \/ LoadIssue(r) \/ CloseIssue(r)
  \/ RecordAcceptance(r) \/ Materialize(r) \/ SendDecision(r)
  \/ CheckHead(r) \/ GetHead(r) \/ ClaimGot(r) \/ Ack(r)

Next ==
  \/ \E r \in Runner :
       \/ \E s \in Slice : Accept(r, s) \/ BeginCloseout(r, s)
       \/ Advance(r)
       \/ Dies(r)
  \/ \E s \in Slice : AuthorChanges(s) \/ IssueChanges(s) \/ Reverified(s)
  \/ HostTakes

(* A run under way goes on: its requests have no timeouts, so one that     *)
(* hangs is assumed to be ended by its caller, which is Dies.  An operator *)
(* repeats an acceptance that did not succeed.                             *)
Fairness ==
  /\ \A r \in Runner : WF_vars(Advance(r))
  /\ \A s \in Slice : SF_vars(\E r \in Runner : Accept(r, s))

Spec == Init /\ [][Next]_vars /\ Fairness

-----------------------------------------------------------------------------
(* Properties *)

(* Every variable has its type. *)
CloseoutTypeOK ==
  /\ verdict \in [Slice -> {"accept", "pass", "fail"}]
  /\ pr \in [Slice -> {"none", "draft", "ready", "closed", "merged"}]
  /\ issue \in [Slice -> {"OPEN", "CLOSED"}]
  /\ wasClosed \subseteq Slice /\ decided \subseteq Slice
  /\ events \subseteq Slice \X Modes
  /\ emitted \in [Slice -> Nat]
  /\ queue \in Seq(Packets)
  /\ claims \subseteq Packets \X (Runner \cup {NoSlice})
  /\ stray \subseteq Packets \X Packets
  /\ acked \subseteq Packets /\ lost \subseteq Packets
  /\ hand \in [Runner -> Packets \cup {NoPacket}]
  /\ pc \in [Runner -> Pc]
  /\ job \in [Runner -> [slice : Slice \cup {NoSlice}, mode : Modes,
                         send : BOOLEAN, ack : BOOLEAN, wants : Nat]]
  /\ failures \in Nat

(* The chain behind a closed slice: a packet that a closeout took off the  *)
(* queue for good has a decision in the database, that has an acceptance   *)
(* event, and a live acceptance a merged pull request or an issue that was *)
(* closed - whatever failed, died or was reopened in between.              *)
ClosedLineageIsBacked ==
  /\ \A p \in acked : p[1] \in decided
  /\ \A s \in decided : \E m \in Modes : <<s, m>> \in events
  /\ \A s \in Slice : <<s, "live_delivery">> \in events => pr[s] = "merged" \/ s \in wasClosed

(* A closeout claims another packet than its own only when its own has     *)
(* been taken by somebody else since it looked at the head of the queue.   *)
StrayClaimHasCause ==
  \A c \in stray : \A i \in DOMAIN queue : queue[i] # c[2]

(* The acceptance closes an issue only behind a merge.                     *)
ClosesOnlyMerged ==
  \A r \in Runner : pc[r] \in {"issue", "close"} => pr[job[r].slice] = "merged"

(* Repeated acceptances converge: a slice to be accepted whose QA packet   *)
(* waits at the head of the queue is closed and acknowledged in the end,   *)
(* wherever earlier runs stopped - unless somebody claims the packet, or   *)
(* dies after getting it off the queue and before the claim file is there, *)
(* QA withdraws its verdict or the pull request stops being mergeable.     *)
AcceptanceConverges ==
  \A s \in Slice :
    IsHead(Qa(s)) /\ verdict[s] = "accept" /\ pr[s] \in {"ready", "merged"}
      ~> \/ Qa(s) \in acked
         \/ Qa(s) \in lost \/ \E c \in claims : c[1] = Qa(s)
         \/ verdict[s] # "accept" \/ pr[s] \in {"draft", "closed"}

=============================================================================
