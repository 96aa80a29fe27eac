---------------------------- MODULE MCQueueAdmin ----------------------------
(* Small instances of QueueAdmin: one queue, every packet routed to it. *)
EXTENDS QueueAdmin, Functions, TLC

CONSTANTS q1,
  MaxTotal  \* bound: publishes of all packets together

OneHome == [p \in Packet |-> q1]
Symmetry ==
  Permutations(Claim) \cup Permutations(Operator) \cup Permutations(Packet \ (Malformed \cup Oversize))

(* The bound MaxTotal: no step publishes more. *)
FewPublishes == FoldFunction(+, 0, published') <= MaxTotal

=============================================================================
