----------------------------- MODULE MCRuntime -----------------------------
(* Small instances of RuntimeSystem: a worker queue and a TechLead queue,  *)
(* each packet routed to one of them, one host on each.                    *)
EXTENDS RuntimeSystem, TLC

CONSTANTS qdev, qlead, dev, lead, ToDev

RoutedHome == [p \in Packet |-> IF p \in ToDev THEN qdev ELSE qlead]
OneQueuePerHost == [h \in Host |-> IF h = lead THEN qlead ELSE qdev]
Symmetry == Permutations(Claim)

=============================================================================
