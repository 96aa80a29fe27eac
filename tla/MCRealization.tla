--------------------------- MODULE MCRealization ---------------------------
(* A small instance of ComponentRealization: a2 needs a1.                  *)
EXTENDS ComponentRealization, TLC

CONSTANTS a1, a2, c1, c2, c3

SpecSequence == a1 :> 10 @@ a2 :> 20
SpecNeeds == {<<a1, a2>>}
Put(step, status) == [at |-> step, status |-> status]
SomePositions == {Put("reconcile", "active"), Put("materialize", "ready"), Put("execute", "active")}
Symmetry == Permutations(Call)

=============================================================================
