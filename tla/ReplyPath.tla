------------------------------ MODULE ReplyPath ------------------------------
(***************************************************************************)
(* How a reply of the daemon gets into the MLE port of the downlink queue: *)
(*   software      tetra_tx_submit, tetra_tx_rx_slotgrant                  *)
(*                 (sw/tetra_tx_transport.c);                              *)
(*   the mailbox   rtl/lmac/tetra_reply_mailbox.v;                         *)
(*   the MLE FSM   rtl/lmac/tetra_mle_registration_fsm.v, with the builder *)
(*                 rtl/lmac/tetra_dl_pdu_builder.v;                        *)
(*   the port's multiplexer and the busy mirror (rtl/tetra_zynq_top.v).    *)
(* The slot grants come from the FSMs of module PreReply, which is         *)
(* composed with these at every clock edge.                                *)
(*                                                                         *)
(* A PDU is a model value that also names its address and its body, so an  *)
(* entry of the queue shows from which PDU each part was taken.  Of the 16 *)
(* mailbox words the model keeps three groups: addr (W0, W2), body (W3 to  *)
(* W6) and raw (W9 to W13, with the raw and the slot grant flag).          *)
(*                                                                         *)
(* Deaf, RawKept and SharedBuilder are faulty variants that the            *)
(* model does not use.                                                     *)
(***************************************************************************)
EXTENDS Integers, FiniteSets, Sequences

CONSTANTS
  AttachFrags, SdsFrags, OtherFrags, SwGrants, Acks, NoReq,
  BuildTime, EncodeTime, Gap,
  Accepts, Rejects, Raws, \* the PDUs software submits, with SwGrants
  MleTime,                \* cycles of the builder
  SettleTime,             \* cycles of the sleep after GO, at least
  PollTime, MaxPolls,     \* sleep of a poll, and polls before giving up
  Detaches                \* U-ITSI-DETACHs received, at most

VARIABLES
  state, job, building, pdu, word, push, resv, dropCnt, \* see PreReply
  arb, encStart, encoding, encPdu, encValid, done, coded,
  quiet, asked, taken, sent,
  sw,       \* where software is
  cur,      \* the PDU it submits
  swWait,   \* cycles it sleeps
  polls,
  called,   \* the PDUs submitted so far
  mb,       \* the mailbox words
  go,       \* go_pulse_sys
  mle,      \* the MLE FSM
  mleBusy,  \* busy
  busyAxi,  \* reply_busy_axi_r0, _r1
  lat,      \* lat_ssi, lat_raw_*
  buildReq, \* accept_build_req
  builder,  \* cycles until the builder's done
  built,    \* the fields it latched
  buildDone,
  reqValid, \* req_valid
  reqWord,  \* req_coded_bits
  detaches,
  went,     \* the PDUs whose GO was written, in order
  queued    \* what the MLE port of the queue was given, in order

preVars == <<state, job, building, pdu, word, push, resv, dropCnt, arb, encStart,
             encoding, encPdu, encValid, done, coded, quiet, asked, taken, sent>>
swVars == <<sw, cur, swWait, polls, called, mb, go, went>>
mleVars == <<mle, mleBusy, busyAxi, lat, buildReq, builder, built, buildDone,
             reqValid, reqWord, detaches, queued>>
vars == <<preVars, swVars, mleVars>>

Pre == INSTANCE PreReply

Replies == Accepts \cup Rejects \cup Raws
Pdus == Replies \cup SwGrants

(* The kinds of PDUs are disjoint. *)
ASSUME PduAssumption ==
  /\ NoReq \notin Pdus
  /\ SwGrants \cap Replies = {}
  /\ Raws \cap (Accepts \cup Rejects) = {} /\ Accepts \cap Rejects = {}

ASSUME PreAssumption == Pre!RequestAssumption /\ Pre!TimeAssumption

ASSUME PathTimeAssumption ==
  /\ MleTime \in Nat \ {0} /\ SettleTime \in Nat /\ PollTime \in Nat
  /\ MaxPolls \in Nat /\ Detaches \in Nat

-----------------------------------------------------------------------------
(* Software.                                                               *)

Deaf == FALSE
Busy == busyAxi[2]

(* reply_wait_idle: sleep and poll again, or give the PDU up. *)
Waits == Busy /\ polls < MaxPolls
GivesUp == Busy /\ polls >= MaxPolls

AfterPoll == IF GivesUp THEN "idle" ELSE IF Busy THEN "poll" ELSE "addr"

(* A slot grant writes W0 and W9 only; the others clear or fill W9 to W13. *)
RawKept == IF cur \in Raws THEN "raw" ELSE "go"
AfterBody == "raw"
AfterAddr == IF cur \in SwGrants THEN "raw" ELSE "body"

SwNext(p) ==
  CASE sw = "idle" -> IF p # NoReq THEN "poll" ELSE "idle"
    [] sw = "poll" -> IF swWait > 0 THEN "poll" ELSE AfterPoll
    [] sw = "addr" -> AfterAddr
    [] sw = "body" -> AfterBody
    [] sw = "raw" -> "go"
    [] sw = "go" -> "settle"
    [] sw = "settle" -> IF swWait > 0 THEN "settle" ELSE "idle"

Polling == sw = "poll" /\ swWait = 0

(* One cycle of software; p is the next PDU it submits, if any. *)
SwEdge(p) ==
  /\ sw' = SwNext(p)
  /\ cur' = IF sw = "idle" THEN p ELSE cur
  /\ called' = IF sw = "idle" THEN called \cup ({p} \ {NoReq}) ELSE called
  /\ swWait' = IF swWait > 0 THEN swWait - 1
               ELSE IF Polling /\ Waits THEN PollTime
               ELSE IF sw = "go" THEN SettleTime ELSE 0
  /\ polls' = IF sw # "poll" THEN 0
              ELSE IF Polling /\ Waits THEN polls + 1 ELSE polls
  /\ mb' = [w \in DOMAIN mb |-> IF sw = w THEN cur ELSE mb[w]]
  /\ go' = (sw = "go")
  /\ went' = IF sw = "go" THEN Append(went, cur) ELSE went

Submissions == IF sw = "idle" THEN (Pdus \ called) \cup {NoReq} ELSE {NoReq}

-----------------------------------------------------------------------------
(* The MLE FSM and its builder; d tells whether ul_detach_valid is high.   *)

(* W9[14] sends the GO pulse to one FSM or the other. *)
SlotGrantFlag == mb.raw \in SwGrants
GoGrant == IF go /\ SlotGrantFlag THEN {mb.addr} ELSE {}
GoReply == go /\ ~SlotGrantFlag

Starting(d) == mle = "IDLE" /\ ~d /\ GoReply

MleNext(d) ==
  CASE mle = "IDLE" -> IF d THEN "DETACH_NOOP"
                       ELSE IF GoReply THEN "BUILD_REQ" ELSE "IDLE"
    [] mle = "DETACH_NOOP" -> "IDLE"
    [] mle = "BUILD_REQ" -> "BUILD_WAIT"
    [] mle = "BUILD_WAIT" -> IF buildDone THEN "DELIVER" ELSE "BUILD_WAIT"
    [] mle = "DELIVER" -> "IDLE"

(* The build request: address and raw body as latched at GO, the body of a *)
(* D-LOCATION UPDATE straight from the mailbox.  The encoder of that PDU   *)
(* has its reject input tied low.                                          *)
Fields == [to |-> lat.addr, says |-> IF lat.raw \in Raws THEN lat.raw ELSE mb.body,
           as |-> IF lat.raw \in Raws THEN "raw" ELSE "accept"]

SharedBuilder == buildReq /\ builder = 0 /\ arb = "IDLE"
Accepted == buildReq /\ builder = 0

MleEdge(d) ==
  /\ mle' = MleNext(d)
  /\ mleBusy' = IF mle = "IDLE" THEN d \/ GoReply ELSE mleBusy
  /\ busyAxi' = <<mleBusy, busyAxi[1]>>
  /\ lat' = IF Starting(d) THEN [addr |-> mb.addr, raw |-> mb.raw] ELSE lat
  /\ buildReq' = (mle = "BUILD_REQ")
  /\ built' = IF Accepted THEN Fields ELSE built
  /\ builder' = IF builder > 0 THEN builder - 1
                ELSE IF Accepted THEN MleTime ELSE 0
  /\ buildDone' = (builder = 1)
  /\ reqWord' = IF mle = "BUILD_WAIT" /\ buildDone THEN built ELSE reqWord
  /\ reqValid' = (mle = "DELIVER")
  /\ detaches' = IF d THEN detaches + 1 ELSE detaches

(* A slot grant as an entry of the queue. *)
GrantEntry == [to |-> job["Sg"], says |-> word["Sg"], as |-> "grant"]

(* The port's multiplexer prefers the MLE FSM. *)
PortEdge ==
  queued' = IF reqValid THEN Append(queued, reqWord)
            ELSE IF push["Sg"] THEN Append(queued, GrantEntry)
            ELSE queued

-----------------------------------------------------------------------------

NoFields == [to |-> NoReq, says |-> NoReq, as |-> "accept"]

Init ==
  /\ Pre!Init
  /\ sw = "idle" /\ cur = NoReq /\ swWait = 0 /\ polls = 0 /\ called = {}
  /\ mb = [addr |-> NoReq, body |-> NoReq, raw |-> NoReq]
  /\ go = FALSE /\ went = <<>>
  /\ mle = "IDLE" /\ mleBusy = FALSE /\ busyAxi = <<FALSE, FALSE>>
  /\ lat = [addr |-> NoReq, raw |-> NoReq]
  /\ buildReq = FALSE /\ builder = 0 /\ built = NoFields /\ buildDone = FALSE
  /\ reqValid = FALSE /\ reqWord = NoFields /\ detaches = 0 /\ queued = <<>>

(* One clock edge: bursts T of the uplink, a detach or none, a new         *)
(* submission or none.                                                     *)
Edge(T, d, p) ==
  /\ Pre!Edge(T \cup GoGrant)
  /\ SwEdge(p)
  /\ MleEdge(d)
  /\ PortEdge

UplinkBursts == {T \in Pre!Triggers : T \cap SwGrants = {}}

Next ==
  \E T \in UplinkBursts, d \in BOOLEAN, p \in Submissions :
    /\ d => detaches < Detaches
    /\ Edge(T, d, p)

Spec == Init /\ [][Next]_vars

(* The clock does not stop while the MLE FSM, its builder and the port     *)
(* have work to do; when bursts, detaches and submissions come is          *)
(* nobody's promise.                                                       *)
FairSpec == Spec /\ WF_mleVars(MleEdge(FALSE) /\ PortEdge)

-----------------------------------------------------------------------------
(* Properties.                                                             *)

(* tetra_pre_reply_slotgrant.v:216-217: each answer of the pre-reply FSMs  *)
(* is sent with the code word of its own PDU, at whatever cycle the MLE    *)
(* FSM and software are, until software requests slot grants itself.       *)
OwnWord == called \cap SwGrants = {} => Pre!OwnWord

(* Places of the replies among what was queued and among the GOs. *)
Delivered == {i \in DOMAIN queued : queued[i].as # "grant"}
Gone == {k \in DOMAIN went : went[k] \in Replies}

(* A reply reaches the queue in one piece, address and body of the same    *)
(* PDU although the body of a D-LOCATION UPDATE is read from the mailbox   *)
(* after GO, at most once and in the order of submission.                  *)
QueuedAsSubmitted ==
  /\ \A i \in Delivered : queued[i].to = queued[i].says
  /\ \A i, j \in Delivered : i < j =>
       \E k, l \in Gone :
         k < l /\ went[k] = queued[i].to /\ went[l] = queued[j].to

AtRest == sw = "idle" /\ ~go /\ mle = "IDLE" /\ ~reqValid

(* The handshake loses no reply of its own: each one missing is the fault  *)
(* of a detach that was received at the same moment, and software gives no *)
(* reply up.                                                               *)
OnlyDetachLoses ==
  /\ AtRest => Cardinality(Gone) - Cardinality(Delivered) <= detaches
  /\ sw = "idle" => Len(went) = Cardinality(called)

(* A reply the MLE FSM has started on gets into the queue, whatever slot   *)
(* grants are being built.                                                 *)
StartedIsQueued ==
  \A p \in Replies :
    mle = "BUILD_REQ" /\ lat.addr = p
      ~> \E i \in DOMAIN queued : queued[i].to = p
=============================================================================
