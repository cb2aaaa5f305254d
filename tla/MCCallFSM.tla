------------------------------ MODULE MCCallFSM ------------------------------
(* Call control on small instances. *)
EXTENDS CallFSM, TLC

Mobiles == Permutations(Issi)
=============================================================================
