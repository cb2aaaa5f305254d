------------------------------- MODULE PreReply -------------------------------
(***************************************************************************)
(* The two FSMs that answer an access before the daemon does, and the      *)
(* SCH/HD encoder they share:                                              *)
(*   Sg (rtl/lmac/tetra_pre_reply_slotgrant.v) grants a slot to the sender *)
(*      of a fragment 1, or to the station software names;                 *)
(*   Bl (rtl/lmac/tetra_pre_reply_blck.v) acknowledges a complete demand.  *)
(* The arbiter of rtl/lmac/tetra_sch_hd_shared.v gives the encoder to Sg   *)
(* first.                                                                  *)
(*                                                                         *)
(* One step is one clock edge and everything is read before it.  A request *)
(* is an element of one of the sets below and is triggered once; the PDU   *)
(* built for it and its code word are named by the request itself.  The    *)
(* builder takes BuildTime cycles and the encoder EncodeTime.  Triggers of *)
(* one source are at least Gap cycles apart: bursts are milliseconds       *)
(* apart, software sleeps 200 us after each request, and an answer takes a *)
(* few microseconds.                                                       *)
(*                                                                         *)
(* AnyWord is a faulty variant that the model does not use.                *)
(***************************************************************************)
EXTENDS Integers, FiniteSets

CONSTANTS
  AttachFrags, SdsFrags, OtherFrags, \* fragments 1 by their MM PDU type
  SwGrants,                          \* grants requested by software
  Acks,                              \* complete MM demands
  NoReq,
  BuildTime, EncodeTime, Gap

Frags == AttachFrags \cup SdsFrags \cup OtherFrags
Requests == Frags \cup SwGrants \cup Acks
Sources == {"frag", "sw", "demand"}
Fsms == {"Sg", "Bl"}

(* The kinds of requests are disjoint. *)
RequestAssumption ==
  /\ NoReq \notin Requests
  /\ AttachFrags \cap SdsFrags = {} /\ OtherFrags \cap (AttachFrags \cup SdsFrags) = {}
  /\ SwGrants \cap Frags = {} /\ Acks \cap (Frags \cup SwGrants) = {}

TimeAssumption ==
  /\ BuildTime \in Nat \ {0} /\ EncodeTime \in Nat \ {0} /\ Gap \in Nat \ {0}

SourceOf(r) == IF r \in Frags THEN "frag" ELSE IF r \in SwGrants THEN "sw"
               ELSE "demand"

VARIABLES
  state,    \* the state of each FSM
  job,      \* lat_ssi and lat_sg_element: the request it works on
  building, \* cycles until the builder's valid
  pdu,      \* the builder's output
  word,     \* lat_coded_*: the code word taken from the encoder
  push,     \* wr_*_valid_sys
  resv,     \* resv_frames_sys with resv_pulse_sys, else 0
  dropCnt,  \* drop_cnt_sys of both
  arb,      \* the FSM the arbiter serves, or "IDLE"
  encStart, \* enc_start and enc_info_bits
  encoding, \* cycles until coded_valid
  encPdu,   \* the information bits in the encoder
  encValid, \* coded_valid
  done,     \* chN_done
  coded,    \* chN_coded
  quiet,    \* cycles before a source may trigger again
  asked,    \* the requests triggered
  taken,    \* the requests an FSM started on
  sent      \* pairs of a request and the code word pushed for it

fsmVars == <<state, job, building, pdu, word, push, resv, dropCnt>>
encVars == <<arb, encStart, encoding, encPdu, encValid, done, coded>>
vars == <<fsmVars, encVars, quiet, asked, taken, sent>>

-----------------------------------------------------------------------------
(* The triggers of one cycle: at most one of each source.                  *)

Triggers ==
  {T \in SUBSET (Requests \ asked) :
     /\ \A r \in T : quiet[SourceOf(r)] = 0
     /\ \A r, s \in T : SourceOf(r) = SourceOf(s) => r = s}

(* What each FSM starts on: software's grant comes before a fragment, and  *)
(* fragments of other MM types are refused.                                *)
Starts(f, T) ==
  IF f = "Bl" THEN T \cap Acks
  ELSE IF T \cap SwGrants # {} THEN T \cap SwGrants
  ELSE T \cap (AttachFrags \cup SdsFrags)

(* Only triggers of the source it counts, and only in some states.         *)
Counted(f, T) ==
  IF f = "Bl" THEN T \cap Acks # {} /\ state[f] \in {"BUILD", "ENC"}
  ELSE \/ T \cap Frags # {} /\ state[f] \in {"BUILD", "ENC"}
       \/ /\ T \cap OtherFrags # {} /\ state[f] = "IDLE"
          /\ T \cap SwGrants = {}

-----------------------------------------------------------------------------
(* One FSM at a clock edge.                                                *)

Begins(f, T) == state[f] = "IDLE" /\ Starts(f, T) # {}
Built(f) == state[f] = "BUILD" /\ building[f] = 0

Encoded(f) == state[f] = "ENC" /\ done[f]

NextState(f, T) ==
  IF Begins(f, T) THEN "BUILD"
  ELSE IF Built(f) THEN "ENC"
  ELSE IF Encoded(f) THEN "PUSH"
  ELSE IF state[f] = "PUSH" THEN "IDLE"
  ELSE state[f]

(* cap_alloc of the slot_granting_element: 0x30 for SDS, 0x00 otherwise.   *)
Reserved(r) == IF r \in SdsFrags THEN 3 ELSE 0

FsmEdge(T) ==
  /\ state' = [f \in Fsms |-> NextState(f, T)]
  /\ job' = [f \in Fsms |->
               IF Begins(f, T) THEN CHOOSE r \in Starts(f, T) : TRUE
               ELSE job[f]]
  /\ building' = [f \in Fsms |->
                    IF Begins(f, T) THEN BuildTime
                    ELSE IF building[f] > 0 THEN building[f] - 1 ELSE 0]
  /\ pdu' = [f \in Fsms |-> IF building[f] = 1 THEN job[f] ELSE pdu[f]]
  /\ word' = [f \in Fsms |-> IF Encoded(f) THEN coded[f] ELSE word[f]]
  /\ push' = [f \in Fsms |-> state[f] = "PUSH"]
  /\ resv' = IF state["Sg"] = "PUSH" THEN Reserved(job["Sg"]) ELSE 0
  /\ dropCnt' = [f \in Fsms |->
                   dropCnt[f] + (IF Counted(f, T) THEN 1 ELSE 0)]
  /\ taken' = taken \cup UNION {Starts(f, T) : f \in
                                  {g \in Fsms : state[g] = "IDLE"}}
  /\ sent' = sent \cup {<<job[f], word[f]>> : f \in
                          {g \in Fsms : state[g] = "PUSH"}}

(* ext_enc_req, a register that follows the state ENC. *)
Requesting(f) == state[f] = "ENC"

AnyWord(f) == arb # "IDLE" /\ encValid

Finishes(f) == arb = f /\ encValid

Grant == IF Requesting("Sg") THEN "Sg"
         ELSE IF Requesting("Bl") THEN "Bl" ELSE "IDLE"

(* The arbiter and the encoder. *)
EncoderEdge ==
  /\ arb' = IF arb = "IDLE" THEN Grant
            ELSE IF encValid THEN "IDLE" ELSE arb
  /\ encStart' = IF arb = "IDLE" /\ Grant # "IDLE" THEN pdu[Grant] ELSE NoReq
  /\ done' = [f \in Fsms |-> Finishes(f)]
  /\ coded' = [f \in Fsms |-> IF Finishes(f) THEN encPdu ELSE coded[f]]
  /\ encValid' = (encoding = 1)
  /\ encoding' = IF encoding > 0 THEN encoding - 1
                 ELSE IF encStart # NoReq THEN EncodeTime ELSE 0
  /\ encPdu' = IF encoding = 0 /\ encStart # NoReq THEN encStart ELSE encPdu

Edge(T) ==
  /\ FsmEdge(T)
  /\ EncoderEdge
  /\ asked' = asked \cup T
  /\ quiet' = [s \in Sources |->
                 IF \E r \in T : SourceOf(r) = s THEN Gap
                 ELSE IF quiet[s] > 0 THEN quiet[s] - 1 ELSE 0]

Init ==
  /\ state = [f \in Fsms |-> "IDLE"]
  /\ job = [f \in Fsms |-> NoReq]
  /\ building = [f \in Fsms |-> 0]
  /\ pdu = [f \in Fsms |-> NoReq]
  /\ word = [f \in Fsms |-> NoReq]
  /\ push = [f \in Fsms |-> FALSE]
  /\ resv = 0 /\ dropCnt = [f \in Fsms |-> 0]
  /\ arb = "IDLE" /\ encStart = NoReq /\ encoding = 0 /\ encPdu = NoReq
  /\ encValid = FALSE
  /\ done = [f \in Fsms |-> FALSE]
  /\ coded = [f \in Fsms |-> NoReq]
  /\ quiet = [s \in Sources |-> 0]
  /\ asked = {} /\ taken = {} /\ sent = {}

Next == \E T \in Triggers : Edge(T)

Spec == Init /\ [][Next]_vars

-----------------------------------------------------------------------------
(* Properties.                                                             *)

(* Each answer carries the code word of the request it answers, though the *)
(* arbiter, which sees the request for one cycle longer than it lasts,     *)
(* encodes every PDU twice.                                                *)
OwnWord == \A s \in sent : s[1] = s[2]
=============================================================================
