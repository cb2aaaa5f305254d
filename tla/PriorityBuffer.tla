---------------------------- MODULE PriorityBuffer ----------------------------
(***************************************************************************)
(* What the downlink signalling queue promises to those who write to it    *)
(* and to the slot that reads from it: a bounded buffer with strict        *)
(* priority that drops the newest.  A state is the set of PDUs that wait,  *)
(* without the entries they wait in.                                       *)
(***************************************************************************)
EXTENDS Integers, FiniteSets

CONSTANTS MlePdus, CmcePdus, SdsPdus, Depth

VARIABLES waiting, gone, lost

Rank(p) == IF p \in MlePdus THEN 0 ELSE IF p \in CmcePdus THEN 1 ELSE 2

Known == waiting \cup gone \cup lost
Fresh == (MlePdus \cup CmcePdus \cup SdsPdus) \ Known

Best(p, S) == p \in S /\ \A q \in S : Rank(p) <= Rank(q)

Init == waiting = {} /\ gone = {} /\ lost = {}

(* The PDUs in In arrive together.  S is what is stored, at most one. *)
Stores(In, S) ==
  IF In = {} \/ Cardinality(waiting) = Depth THEN S = {}
  ELSE \E p \in In : Best(p, In) /\ S = {p}

(* Out leaves, at most one, a best of those that waited before. *)
Leaves(Out) == Out = {} \/ \E p \in waiting : Best(p, waiting) /\ Out = {p}

Exchange(In, S, Out) ==
  /\ Stores(In, S)
  /\ Leaves(Out)
  /\ waiting' = (waiting \ Out) \cup S
  /\ gone' = gone \cup Out
  /\ lost' = lost \cup (In \ S)

(* At most one arrives for each rank, so at most three together. *)
Arrivals == {In \in SUBSET Fresh :
               \A p, q \in In : Rank(p) = Rank(q) => p = q}

Next ==
  \E In \in Arrivals, S \in SUBSET Fresh, Out \in SUBSET waiting :
    Exchange(In, S, Out)

Spec == Init /\ [][Next]_<<waiting, gone, lost>>
=============================================================================
