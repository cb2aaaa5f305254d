----------------------------- MODULE MCCodeBench -----------------------------
(* Distances that leave a handful of places in a block of every channel.   *)
EXTENDS CodeBench

MCStride == [schf |-> 90, schhd |-> 45, schhu |-> 45, bsch |-> 25, aach |-> 8]
=============================================================================
