-------------------------- MODULE MCBriefAuthority --------------------------
(* A small instance of BriefAuthority: two roles, of which the TechLead is *)
(* optional, and a package file with a complete revision, one that names   *)
(* no signer and one that is not approved for derivation.                  *)
EXTENDS BriefAuthority, TLC

TwoRoles == <<"Product Owner", "TechLead">>
SomeSigners == [r \in Revisions |-> IF r = 2 THEN {} ELSE Roles]
Symmetry == Permutations(Operator)

=============================================================================
