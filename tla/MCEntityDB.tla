----------------------------- MODULE MCEntityDB -----------------------------
(* Instances of EntityDB for TLC. *)
EXTENDS EntityDB, TLC

TwoSlots == 0..1
Symmetry == Permutations(Issis) \cup Permutations(Gssis) \cup Permutations(Editors)
=============================================================================
