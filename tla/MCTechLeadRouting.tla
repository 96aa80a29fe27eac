------------------------- MODULE MCTechLeadRouting -------------------------
(* A small instance of TechLeadRouting: a slice that the Dev team handed   *)
(* over; one with two assignments out; one that QA has escalated; one      *)
(* whose rework waits for QA; one whose rework QA has escalated.           *)
EXTENDS TechLeadRouting, TLC

Handoff == Fact("handoff", "-", 0)
Assigned == Fact("assignment", "Dev", 0)
Reviewed == Fact("assignment", "Delivery Architect", 0)
Escalation == Fact("verification", "needs_human_review", 0)
Comment == Fact("qa_review", "needs_human_review", 0)
Rejection == Fact("rejection", "-", 0)
Update == Fact("update", "-", 0)

Slices == {<<Handoff, Handoff, Handoff>>, <<Handoff, Assigned, Reviewed>>, <<Handoff, Handoff, Escalation>>,
           <<Rejection, Update, Escalation>>, <<Rejection, Update, Comment, Escalation>>}
Symmetry == Permutations(Operator)

=============================================================================
