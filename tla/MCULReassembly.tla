-------------------------- MODULE MCULReassembly --------------------------
(* The uplink demand path for model checking.                              *)
EXTENDS ULReassembly, TLC

NoSds == {}
OneSds == MS \X {2}
StationSymmetry == Permutations(MS)
=============================================================================
