---------------------------- MODULE MCScheduleBench ----------------------------
(* Recordings that begin at the end of a hyperframe and in frame 18 of a   *)
(* multiframe of each kind.                                                *)
EXTENDS ScheduleBench

EdgeFirsts == {4317, 66, 140, 211, 283}
=============================================================================
