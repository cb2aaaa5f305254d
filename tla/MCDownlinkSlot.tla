---------------------------- MODULE MCDownlinkSlot ----------------------------
(* The downlink carrier for model checking.  Each PDU has a role of its    *)
(* own, so there is no symmetry.                                           *)
EXTENDS DownlinkSlot
=============================================================================
