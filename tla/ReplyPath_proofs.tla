---------------------------- MODULE ReplyPath_proofs ----------------------------
(***************************************************************************)
(* Theorems about the reply path, for every set of PDUs, every time of the *)
(* builder and of the sleeps and any moment of a detach or a slot grant: a *)
(* reply is queued in one piece, once and in order, in a fixed number of   *)
(* clock edges, and no reply is lost but by a detach; and for every set of *)
(* fragments and demands and every time of builder and encoder, the        *)
(* encoder that the two pre-reply FSMs share gives every answer the code   *)
(* word of its own PDU.                                                    *)
(***************************************************************************)
EXTENDS ReplyPath, FiniteSetTheorems, TLAPS

(* The processor sleeps 200 us after GO and busy is seen after four        *)
(* cycles: one cycle of sleep is enough for the replies to stay whole.     *)
SleepSeesBusy == SettleTime >= 1

(* The sleep also outlasts the MLE FSM, whose builder takes a few cycles.  *)
(* Then a poll finds busy because of a detach only; software polls 250     *)
(* times before it gives a PDU up.                                         *)
SleepOutlastsMle ==
  SettleTime >= MleTime + 8 /\ PollTime >= 1 /\ Detaches <= MaxPolls

-----------------------------------------------------------------------------
(* Types.                                                                  *)

Named == Pre!Requests \cup Pdus \cup {NoReq}
PduOrNone == Pdus \cup {NoReq}
Entries == [to : Named, says : Named, as : {"grant", "raw", "accept"}]
Groups == [addr : PduOrNone, body : PduOrNone, raw : PduOrNone]

GrantTypes ==
  /\ job \in [Pre!Fsms -> Named] /\ pdu \in [Pre!Fsms -> Named]
  /\ word \in [Pre!Fsms -> Named] /\ coded \in [Pre!Fsms -> Named]
  /\ encStart \in Named /\ encPdu \in Named

SwTypes ==
  /\ sw \in {"idle", "poll", "addr", "body", "raw", "go", "settle"}
  /\ cur \in PduOrNone /\ swWait \in Nat /\ polls \in Nat
  /\ called \in SUBSET Pdus /\ IsFiniteSet(called) /\ mb \in Groups
  /\ went \in Seq(Pdus)

MleTypes ==
  /\ mle \in {"IDLE", "DETACH_NOOP", "BUILD_REQ", "BUILD_WAIT", "DELIVER"}
  /\ lat \in [addr : PduOrNone, raw : PduOrNone]
  /\ builder \in Nat /\ built \in Entries /\ reqWord \in Entries
  /\ detaches \in 0..Detaches /\ queued \in Seq(Entries)

FlagTypes ==
  /\ go \in BOOLEAN /\ mleBusy \in BOOLEAN
  /\ busyAxi \in BOOLEAN \X BOOLEAN
  /\ buildReq \in BOOLEAN /\ buildDone \in BOOLEAN /\ reqValid \in BOOLEAN

TypeOK == GrantTypes /\ SwTypes /\ MleTypes /\ FlagTypes

-----------------------------------------------------------------------------
(* The inductive invariant.                                                *)

Serving == mle \in {"BUILD_REQ", "BUILD_WAIT", "DELIVER"}
Writing == sw \in {"addr", "body", "raw", "go"}
Last == went[Len(went)]

(* The handshake: software that writes the mailbox finds the MLE FSM idle, *)
(* since busy has come through before it polls.                            *)
Handshake ==
  /\ go => sw = "settle" /\ swWait = SettleTime
  /\ Serving \/ mle = "DETACH_NOOP" => mleBusy
  /\ Serving /\ sw \in {"idle", "poll"} => busyAxi[1]
  /\ Serving /\ sw = "poll" => busyAxi[2]
  /\ Writing => ~Serving
  /\ go \/ reqValid => ~Serving
  /\ reqValid => sw \in {"settle", "idle", "poll"} /\ ~go
  /\ sw \notin {"idle", "settle"} => cur \in Pdus
  /\ sw \notin {"poll", "settle"} => swWait = 0

(* Where the builder is while the MLE FSM waits, and otherwise it rests.   *)
OneBuild ==
  /\ mle # "BUILD_WAIT" => ~buildReq /\ builder = 0 /\ ~buildDone
  /\ builder <= MleTime
  /\ buildReq => builder = 0 /\ ~buildDone
  /\ builder > 0 => ~buildDone
  /\ mle = "BUILD_WAIT" => buildReq \/ builder > 0 \/ buildDone

(* The mailbox holds the PDU being written, as far as it is written, and   *)
(* keeps it until the FSM is done with it.                                 *)
MailboxHolds ==
  /\ sw \in {"body", "raw", "go"} => mb.addr = cur
  /\ sw \in {"raw", "go"} /\ cur \in Replies \ SwGrants => mb.body = cur
  /\ sw = "go" => mb.raw = cur
  /\ go \/ Serving \/ reqValid => Len(went) > 0
  /\ go => mb.addr = Last /\ mb.raw = Last /\ (Last \notin SwGrants => mb.body = Last)
  /\ Serving => /\ lat.addr = Last /\ lat.raw = Last /\ mb.body = Last
                /\ Last \in Replies

IsLast(e) == e.to = Last /\ e.says = Last /\ e.as # "grant" /\ Last \in Replies

WordHolds ==
  /\ builder > 0 \/ buildDone => IsLast(built)
  /\ mle = "DELIVER" \/ reqValid => IsLast(reqWord)

(* The last PDU sent is on its way.                                        *)
Owed == go \/ Serving \/ reqValid

(* Every reply in the queue comes from a GO, an earlier one than that of   *)
(* a reply still on its way.                                               *)
InOrder ==
  /\ \A i \in Delivered :
       /\ queued[i].to = queued[i].says
       /\ \E k \in Gone : (Owed => k < Len(went)) /\ went[k] = queued[i].to
  /\ \A i, j \in Delivered : i < j =>
       \E k, l \in Gone : /\ k < l /\ (Owed => l < Len(went))
                          /\ went[k] = queued[i].to /\ went[l] = queued[j].to

Coming == IF reqValid \/ Serving \/ (go /\ Last \in Replies) THEN 1 ELSE 0

(* The replies lost so far are no more than the detaches; one detach does  *)
(* not lose a second reply.                                                *)
Lost == Cardinality(Gone) - Cardinality(Delivered) - Coming
Loss ==
  /\ Lost <= detaches
  /\ mle = "DETACH_NOOP" /\ go /\ Last \in Replies => Lost + 1 <= detaches

(* Once the sleep is over, what is busy is a detach.  Bit(b) counts.       *)
Bit(b) == IF b THEN 1 ELSE 0
Unseen == Bit(mleBusy) + Bit(busyAxi[1] /\ (mle = "DETACH_NOOP" \/ ~mleBusy))
Visible == Bit(mleBusy) + Bit(busyAxi[2])

Asleep ==
  /\ go => swWait >= MleTime + 8
  /\ mle = "BUILD_REQ" => swWait >= MleTime + 7
  /\ mle = "BUILD_WAIT" /\ buildReq => swWait >= MleTime + 6
  /\ mle = "BUILD_WAIT" /\ builder > 0 => swWait >= builder + 5
  /\ mle = "BUILD_WAIT" /\ buildDone => swWait >= 5
  /\ mle = "DELIVER" => swWait >= 4
  /\ Serving => sw = "settle"
  /\ reqValid => sw = "settle" /\ swWait >= 3
  /\ mle = "DETACH_NOOP" => detaches >= 1
  /\ sw = "settle" /\ swWait = 2 => (mleBusy => detaches >= 1)
  /\ sw = "settle" /\ swWait < 2 => Unseen <= detaches

Patient ==
  /\ sw \in {"idle", "poll"} => polls + Unseen <= detaches
  /\ sw \in {"idle", "poll"} /\ swWait = 0 => polls + Visible <= detaches
  /\ sw = "idle" => polls = 0

(* Every PDU software took is sent, or is the one in its hands.            *)
AllSent ==
  /\ sw \in {"poll", "addr", "body", "raw", "go"} =>
       cur \in called /\ Cardinality(called) = Len(went) + 1
  /\ sw \in {"settle", "idle"} => Cardinality(called) = Len(went)

-----------------------------------------------------------------------------
(* One clock edge: what is fixed in every lemma below.                     *)

Step(T, d, p) ==
  /\ T \in UplinkBursts /\ d \in BOOLEAN /\ p \in Submissions
  /\ d => detaches < Detaches
  /\ Edge(T, d, p)

LEMMA SwTypesStep ==
  ASSUME TypeOK, Handshake, NEW T, NEW d, NEW p, Step(T, d, p)
  PROVE  SwTypes'
<1>1. /\ p \in PduOrNone /\ SwEdge(p) /\ SettleTime \in Nat /\ PollTime \in Nat
      /\ sw = "idle" /\ p # NoReq => p \in Pdus
  BY PathTimeAssumption DEF Step, Edge, Submissions, PduOrNone
<1>2. sw' \in {"idle", "poll", "addr", "body", "raw", "go", "settle"}
  BY <1>1 DEF TypeOK, SwTypes, SwEdge, SwNext, AfterPoll, AfterBody, AfterAddr
<1>3. cur' \in PduOrNone
  BY <1>1 DEF TypeOK, SwTypes, SwEdge
<1>4. swWait' \in Nat
  BY <1>1 DEF TypeOK, SwTypes, SwEdge
<1>5. polls' \in Nat
  BY <1>1 DEF TypeOK, SwTypes, SwEdge
<1>6. called' \in SUBSET Pdus /\ IsFiniteSet(called')
  <2>1. IsFiniteSet(called \cup {p}) /\ IsFiniteSet(called)
    BY FS_AddElement DEF TypeOK, SwTypes
  <2>. QED
    BY <1>1, <2>1 DEF TypeOK, SwTypes, SwEdge
<1>7. mb' \in Groups
  BY <1>1 DEF TypeOK, SwTypes, SwEdge, Groups
<1>8. went' \in Seq(Pdus)
  BY <1>1 DEF TypeOK, SwTypes, SwEdge, Handshake
<1>. QED
  BY <1>2, <1>3, <1>4, <1>5, <1>6, <1>7, <1>8 DEF SwTypes

LEMMA FlagTypesStep ==
  ASSUME TypeOK, NEW T, NEW d, NEW p, Step(T, d, p)
  PROVE  FlagTypes'
<1>1. go' \in BOOLEAN /\ reqValid' \in BOOLEAN /\ buildReq' \in BOOLEAN
      /\ buildDone' \in BOOLEAN
  BY DEF Step, Edge, SwEdge, MleEdge
<1>2. mleBusy' \in BOOLEAN
  BY Zenon DEF Step, Edge, MleEdge, GoReply, TypeOK, FlagTypes
<1>3. busyAxi' \in BOOLEAN \X BOOLEAN
  BY DEF Step, Edge, MleEdge, TypeOK, FlagTypes
<1>. QED
  BY <1>1, <1>2, <1>3 DEF FlagTypes

LEMMA MleTypesStep ==
  ASSUME TypeOK, NEW T, NEW d, NEW p, Step(T, d, p)
  PROVE  MleTypes'
<1>1. MleTime \in Nat \ {0} /\ Detaches \in Nat /\ MleEdge(d) /\ PortEdge
      /\ (d => detaches < Detaches)
  BY PathTimeAssumption DEF Step, Edge
<1>2. mle' \in {"IDLE", "DETACH_NOOP", "BUILD_REQ", "BUILD_WAIT", "DELIVER"}
  BY <1>1 DEF MleEdge, MleNext, TypeOK, MleTypes
<1>3. lat' \in [addr : PduOrNone, raw : PduOrNone]
  BY <1>1 DEF MleEdge, TypeOK, MleTypes, SwTypes, Groups
<1>4. Fields \in Entries
  <2>1. /\ lat.addr \in Named /\ lat.raw \in Named /\ mb.body \in Named
    BY DEF TypeOK, MleTypes, SwTypes, Groups, Named, PduOrNone
  <2>. QED
    BY <2>1 DEF Fields, Entries
<1>5. built' \in Entries /\ reqWord' \in Entries
  BY <1>1, <1>4 DEF MleEdge, TypeOK, MleTypes
<1>6. builder' \in Nat
  BY <1>1 DEF MleEdge, TypeOK, MleTypes
<1>7. detaches' \in 0..Detaches
  BY <1>1 DEF MleEdge, TypeOK, MleTypes
<1>8. queued' \in Seq(Entries)
  <2>1. GrantEntry \in Entries
    BY DEF GrantEntry, Entries, TypeOK, GrantTypes, Pre!Fsms
  <2>. QED
    BY <1>1, <2>1 DEF PortEdge, TypeOK, MleTypes
<1>. QED
  BY <1>2, <1>3, <1>5, <1>6, <1>7, <1>8 DEF MleTypes

LEMMA GrantTypesStep ==
  ASSUME TypeOK, NEW T, NEW d, NEW p, Step(T, d, p)
  PROVE  GrantTypes'
<1> DEFINE U == T \cup GoGrant
<1>1. Pre!FsmEdge(U) /\ Pre!EncoderEdge
  BY DEF Step, Edge, Pre!Edge
<1>2. GrantTypes
  BY DEF TypeOK
<1>3. U \subseteq Named
  <2>1. T \subseteq Named
    BY DEF Step, UplinkBursts, Pre!Triggers, Named
  <2>2. GoGrant \subseteq Named
    BY DEF GoGrant, TypeOK, SwTypes, Groups, PduOrNone, Named
  <2>. QED
    BY <2>1, <2>2
<1> HIDE DEF U
<1>4. job' \in [Pre!Fsms -> Named]
  <2>1. \A f \in Pre!Fsms : Pre!Starts(f, U) \subseteq Named
    BY <1>3 DEF Pre!Starts
  <2>2. \A f \in Pre!Fsms : Pre!Begins(f, U) =>
          (CHOOSE r \in Pre!Starts(f, U) : TRUE) \in Named
    BY <2>1 DEF Pre!Begins
  <2>. QED
    BY <1>1, <1>2, <2>2 DEF Pre!FsmEdge, GrantTypes
<1>5. pdu' \in [Pre!Fsms -> Named] /\ word' \in [Pre!Fsms -> Named]
  BY <1>1, <1>2 DEF Pre!FsmEdge, GrantTypes
<1>6. coded' \in [Pre!Fsms -> Named] /\ encPdu' \in Named
  BY <1>1, <1>2 DEF Pre!EncoderEdge, GrantTypes
<1>7. encStart' \in Named
  BY <1>1, <1>2 DEF Pre!EncoderEdge, GrantTypes, Pre!Grant, Pre!Fsms, Named
<1>. QED
  BY <1>4, <1>5, <1>6, <1>7 DEF GrantTypes

LEMMA HandshakeStep ==
  ASSUME SleepSeesBusy, TypeOK, Handshake, NEW T, NEW d, NEW p, Step(T, d, p)
  PROVE  Handshake'
<1>1. SwEdge(p) /\ MleEdge(d) /\ d \in BOOLEAN /\ p \in Submissions
  BY DEF Step, Edge
<1>2. SettleTime \in Nat /\ SettleTime >= 1
  BY PathTimeAssumption DEF SleepSeesBusy
<1>. USE DEF Handshake
<1>3. (go => sw = "settle" /\ swWait = SettleTime)'
  <2>1. go' => sw = "go"
    BY <1>1 DEF SwEdge
  <2>2. sw = "go" => swWait = 0
    OBVIOUS
  <2>3. sw = "go" => sw' = "settle" /\ swWait' = SettleTime
    BY <1>1, <2>2 DEF SwEdge, SwNext, Polling
  <2>. QED
    BY <2>1, <2>3
<1>4. (Serving \/ mle = "DETACH_NOOP" => mleBusy)'
  BY <1>1 DEF MleEdge, MleNext, TypeOK, MleTypes, FlagTypes, Serving
<1>5. (Serving /\ sw \in {"idle", "poll"} => busyAxi[1])'
  BY <1>1, <1>2 DEF SwEdge, SwNext, AfterPoll, AfterBody, AfterAddr, MleEdge, MleNext,
     TypeOK, MleTypes, SwTypes, FlagTypes, Serving, Starting, GoReply
<1>6. (Serving /\ sw = "poll" => busyAxi[2])'
  BY <1>1, <1>2 DEF SwEdge, SwNext, AfterPoll, AfterBody, AfterAddr, MleEdge, MleNext,
     TypeOK, MleTypes, SwTypes, FlagTypes, Serving, Starting, GoReply
<1>7. (Writing => ~Serving)'
  BY <1>1, <1>2 DEF SwEdge, SwNext, AfterPoll, AfterBody, AfterAddr, MleEdge, MleNext,
     TypeOK, MleTypes, SwTypes, FlagTypes, Serving, Writing, Starting, GoReply, GivesUp,
     Busy
<1>8. (go \/ reqValid => ~Serving)'
  BY <1>1, <1>2 DEF SwEdge, MleEdge, MleNext,
     TypeOK, MleTypes, SwTypes, FlagTypes, Serving, Writing, GoReply
<1>9. (reqValid => sw \in {"settle", "idle", "poll"} /\ ~go)'
  BY <1>1, <1>2 DEF SwEdge, SwNext, AfterPoll, AfterBody, AfterAddr, MleEdge,
     TypeOK, MleTypes, SwTypes, FlagTypes, Serving, Writing, GivesUp, Busy
<1>10. (sw \notin {"idle", "settle"} => cur \in Pdus)'
  BY <1>1 DEF SwEdge, SwNext, AfterPoll, AfterBody, AfterAddr,
     TypeOK, SwTypes, Submissions
<1>11. (sw \notin {"poll", "settle"} => swWait = 0)'
  <2>1. CASE sw = "poll"
    <3>1. sw' # "poll" => swWait = 0 /\ ~Waits
      <4>1. Waits => ~GivesUp /\ Busy
        BY PathTimeAssumption DEF Waits, GivesUp, TypeOK, SwTypes
      <4>2. Waits => AfterPoll = "poll"
        BY <4>1, Zenon DEF AfterPoll
      <4>3. sw' # "poll" => ~(swWait > 0) /\ sw' = AfterPoll
        BY <1>1, <2>1 DEF SwEdge, SwNext
      <4>4. swWait \in Nat
        BY DEF TypeOK, SwTypes
      <4>. QED
        BY <4>2, <4>3, <4>4
    <3>. QED
      BY <1>1, <2>1, <3>1 DEF SwEdge
  <2>2. CASE sw = "settle"
    BY <1>1, <2>2 DEF SwEdge, SwNext, TypeOK, SwTypes, Polling
  <2>3. CASE sw \notin {"poll", "settle"}
    BY <1>1, <2>3 DEF SwEdge, SwNext, AfterBody, AfterAddr, TypeOK, SwTypes, Polling
  <2>. QED
    BY <2>1, <2>2, <2>3
<1>. QED
  BY <1>3, <1>4, <1>5, <1>6, <1>7, <1>8, <1>9, <1>10, <1>11

LEMMA OneBuildStep ==
  ASSUME TypeOK, Handshake, OneBuild, NEW T, NEW d, NEW p, Step(T, d, p)
  PROVE  OneBuild'
<1>1. MleEdge(d)
  BY DEF Step, Edge
<1>2. MleTime \in Nat \ {0}
  BY PathTimeAssumption
<1>3. mle' # "BUILD_WAIT" => mle # "BUILD_REQ" /\ (mle = "BUILD_WAIT" => buildDone)
  BY <1>1 DEF MleEdge, MleNext, TypeOK, MleTypes
<1>4. mle' = "BUILD_WAIT" => mle = "BUILD_REQ" \/ (mle = "BUILD_WAIT" /\ ~buildDone)
  BY <1>1 DEF MleEdge, MleNext, TypeOK, MleTypes
<1>5. buildReq' <=> mle = "BUILD_REQ"
  BY <1>1 DEF MleEdge
<1>6. buildDone' <=> builder = 1
  BY <1>1 DEF MleEdge
<1>7. builder' = IF builder > 0 THEN builder - 1 ELSE IF Accepted THEN MleTime ELSE 0
  BY <1>1 DEF MleEdge
<1>8. builder \in Nat
  BY DEF TypeOK, MleTypes
<1>9. CASE buildReq
  <2>1. Accepted /\ builder = 0 /\ ~buildDone /\ mle = "BUILD_WAIT"
    BY <1>9 DEF OneBuild, Accepted
  <2>2. mle' = "BUILD_WAIT" /\ ~buildReq' /\ ~buildDone' /\ builder' = MleTime
    BY <1>3, <1>5, <1>6, <1>7, <2>1
  <2>. QED
    BY <1>2, <2>2 DEF OneBuild
<1>10. CASE ~buildReq
  <2>1. builder' = IF builder > 0 THEN builder - 1 ELSE 0
    BY <1>7, <1>10 DEF Accepted
  <2>2. CASE builder = 0
    <3>1. builder' = 0 /\ ~buildDone'
      BY <1>6, <2>1, <2>2
    <3>2. mle' # "BUILD_WAIT" => ~buildReq'
      BY <1>3, <1>5
    <3>3. mle' = "BUILD_WAIT" => buildReq'
      BY <1>4, <1>5, <1>10, <2>2 DEF OneBuild
    <3>. QED
      BY <1>2, <3>1, <3>2, <3>3 DEF OneBuild
  <2>3. CASE builder > 0
    <3>1. mle = "BUILD_WAIT" /\ ~buildDone /\ builder <= MleTime
      BY <2>3 DEF OneBuild
    <3>2. mle' = "BUILD_WAIT" /\ ~buildReq'
      BY <1>3, <1>5, <3>1
    <3>3. builder' = builder - 1 /\ (builder' > 0 => ~buildDone')
          /\ (builder' > 0 \/ buildDone') /\ builder' <= MleTime
      BY <1>2, <1>6, <1>8, <2>1, <2>3, <3>1
    <3>. QED
      BY <3>2, <3>3 DEF OneBuild
  <2>. QED
    BY <1>8, <2>2, <2>3
<1>. QED
  BY <1>9, <1>10

(* What GO leads to: the last of went changes with GO only.                *)
LEMMA LastStep ==
  ASSUME TypeOK, Handshake, NEW T, NEW d, NEW p, Step(T, d, p)
  PROVE  /\ sw = "go" => Len(went') = Len(went) + 1 /\ Last' = cur
                         /\ \A k \in DOMAIN went : went'[k] = went[k]
         /\ sw # "go" => went' = went /\ Last' = Last
<1>1. SwEdge(p)
  BY DEF Step, Edge
<1>2. CASE sw = "go"
  <2>1. went \in Seq(Pdus) /\ cur \in Pdus /\ went' = Append(went, cur)
    BY <1>1, <1>2 DEF SwEdge, TypeOK, SwTypes, Handshake
  <2>. QED
    BY <1>2, <2>1 DEF Last
<1>3. CASE sw # "go"
  BY <1>1, <1>3 DEF SwEdge, Last
<1>. QED
  BY <1>2, <1>3

LEMMA MailboxHoldsStep ==
  ASSUME TypeOK, Handshake, MailboxHolds, NEW T, NEW d, NEW p, Step(T, d, p)
  PROVE  MailboxHolds'
<1>1. SwEdge(p) /\ MleEdge(d) /\ d \in BOOLEAN
  BY DEF Step, Edge
<1>. USE DEF MailboxHolds
<1>2. mb' = [addr |-> IF sw = "addr" THEN cur ELSE mb.addr,
             body |-> IF sw = "body" THEN cur ELSE mb.body,
             raw |-> IF sw = "raw" THEN cur ELSE mb.raw]
  BY <1>1 DEF SwEdge, TypeOK, SwTypes, Groups
<1>3. Replies \subseteq Pdus /\ SwGrants \cap Replies = {}
  BY PduAssumption DEF Pdus
<1>4. Len(went) \in Nat
  BY DEF TypeOK, SwTypes
<1>5. (sw \in {"body", "raw", "go"} => mb.addr = cur)'
  BY <1>1, <1>2 DEF SwEdge, SwNext, AfterPoll, AfterBody, AfterAddr, TypeOK, SwTypes
<1>6. (sw \in {"raw", "go"} /\ cur \in Replies \ SwGrants => mb.body = cur)'
  BY <1>1, <1>2 DEF SwEdge, SwNext, AfterPoll, AfterBody, AfterAddr, TypeOK, SwTypes
<1>7. (sw = "go" => mb.raw = cur)'
  BY <1>1, <1>2 DEF SwEdge, SwNext, AfterPoll, AfterBody, AfterAddr, TypeOK, SwTypes
<1>8. (go \/ Serving \/ reqValid => Len(went) > 0)'
  <2>1. CASE sw = "go"
    BY <1>4, <2>1, LastStep
  <2>2. CASE sw # "go"
    <3>1. went' = went /\ ~go'
      BY <1>1, <2>2 DEF SwEdge
    <3>2. Serving' => Serving \/ go
      BY <1>1 DEF MleEdge, MleNext, Serving, GoReply, TypeOK, MleTypes
    <3>3. reqValid' => Serving
      BY <1>1 DEF MleEdge, Serving
    <3>. QED
      BY <3>1, <3>2, <3>3
  <2>. QED
    BY <2>1, <2>2
<1>9. (go => mb.addr = Last /\ mb.raw = Last /\ (Last \notin SwGrants => mb.body = Last))'
  <2>1. go' => sw = "go" /\ Last' = cur
    BY <1>1, LastStep DEF SwEdge
  <2>2. sw = "go" => cur \in Pdus
    BY DEF Handshake
  <2>. QED
    BY <1>2, <2>1, <2>2 DEF Pdus
<1>10. (Serving => /\ lat.addr = Last /\ lat.raw = Last /\ mb.body = Last
                   /\ Last \in Replies)'
  <2>. SUFFICES ASSUME Serving'
                PROVE  /\ lat'.addr = Last' /\ lat'.raw = Last' /\ mb'.body = Last'
                       /\ Last' \in Replies
    OBVIOUS
  <2>1. Serving \/ (Starting(d) /\ mle = "IDLE")
    BY <1>1 DEF MleEdge, MleNext, Serving, Starting, TypeOK, MleTypes
  <2>2. CASE Serving
    <3>1. ~Writing
      BY <2>2 DEF Handshake
    <3>2. mb' = mb /\ lat' = lat
      BY <1>1, <1>2, <2>2, <3>1 DEF Writing, MleEdge, Starting, Serving, TypeOK, SwTypes, Groups
    <3>. QED
      BY <2>2, <3>1, <3>2, LastStep DEF Writing
  <2>3. CASE Starting(d) /\ mle = "IDLE"
    <3>1. go /\ mb.raw \notin SwGrants /\ sw = "settle"
      BY <2>3 DEF Starting, GoReply, SlotGrantFlag, Handshake
    <3>2. Last \in Pdus
      BY <1>4, <3>1 DEF TypeOK, SwTypes, Last
    <3>3. mb' = mb /\ lat' = [addr |-> mb.addr, raw |-> mb.raw]
      BY <1>1, <1>2, <2>3, <3>1 DEF MleEdge, TypeOK, SwTypes, Groups
    <3>. QED
      BY <3>1, <3>2, <3>3, LastStep DEF Pdus
  <2>. QED
    BY <2>1, <2>2, <2>3
<1>. QED
  BY <1>5, <1>6, <1>7, <1>8, <1>9, <1>10

LEMMA WordHoldsStep ==
  ASSUME TypeOK, Handshake, OneBuild, MailboxHolds, WordHolds,
         NEW T, NEW d, NEW p, Step(T, d, p)
  PROVE  WordHolds'
<1>1. MleEdge(d)
  BY DEF Step, Edge
<1>2. Serving \/ reqValid => sw # "go" /\ Last' = Last
  BY LastStep DEF Handshake, Writing
<1>3. Serving => IsLast(Fields)
  BY DEF Fields, IsLast, MailboxHolds
<1>4. (builder > 0 \/ buildDone => IsLast(built))'
  <2>1. CASE Accepted
    <3>1. Serving /\ built' = Fields
      BY <1>1, <2>1 DEF MleEdge, Accepted, OneBuild, Serving
    <3>. QED
      BY <1>2, <1>3, <3>1 DEF IsLast
  <2>2. CASE ~Accepted
    <3>1. (builder > 0 \/ buildDone)' => Serving /\ builder > 0 /\ built' = built
      <4>1. builder \in Nat /\ builder' = IF builder > 0 THEN builder - 1 ELSE 0
        BY <1>1, <2>2 DEF MleEdge, TypeOK, MleTypes
      <4>2. (buildDone' <=> builder = 1) /\ built' = built
        BY <1>1, <2>2 DEF MleEdge
      <4>3. builder > 0 => Serving
        BY <4>1 DEF OneBuild, Serving
      <4>. QED
        BY <4>1, <4>2, <4>3
    <3>. QED
      BY <1>2, <3>1 DEF IsLast, WordHolds
  <2>. QED
    BY <2>1, <2>2
<1>5. (mle = "DELIVER" \/ reqValid => IsLast(reqWord))'
  <2>1. CASE mle = "BUILD_WAIT" /\ buildDone
    <3>1. reqWord' = built /\ IsLast(built) /\ Serving
      BY <1>1, <2>1 DEF MleEdge, WordHolds, Serving
    <3>. QED
      BY <1>2, <3>1 DEF IsLast
  <2>2. CASE ~(mle = "BUILD_WAIT" /\ buildDone)
    <3>1. (mle = "DELIVER" \/ reqValid)' => mle = "DELIVER" /\ reqWord' = reqWord
      BY <1>1, <2>2 DEF MleEdge, MleNext, TypeOK, MleTypes
    <3>. QED
      BY <1>2, <3>1 DEF IsLast, WordHolds, Serving
  <2>. QED
    BY <2>1, <2>2
<1>. QED
  BY <1>4, <1>5 DEF WordHolds

(* How the places of the replies change.                                   *)
LEMMA DeliveredStep ==
  ASSUME TypeOK, WordHolds, NEW T, NEW d, NEW p, Step(T, d, p)
  PROVE  /\ \A i \in Delivered : queued'[i] = queued[i]
         /\ ~reqValid => Delivered' = Delivered
         /\ reqValid => /\ Delivered' = Delivered \cup {Len(queued) + 1}
                        /\ queued'[Len(queued) + 1] = reqWord
         /\ Delivered \subseteq 1..Len(queued) /\ Len(queued) \in Nat
<1>1. PortEdge
  BY DEF Step, Edge
<1>2. queued \in Seq(Entries) /\ reqWord \in Entries /\ GrantEntry \in Entries
  BY DEF TypeOK, MleTypes, GrantEntry, Entries, GrantTypes, Pre!Fsms
<1>3. GrantEntry.as = "grant"
  BY DEF GrantEntry
<1>4. CASE reqValid
  <2>1. queued' = Append(queued, reqWord) /\ reqWord.as # "grant"
    BY <1>1, <1>4 DEF PortEdge, WordHolds, IsLast
  <2>. QED
    BY <1>2, <1>4, <2>1 DEF Delivered
<1>5. CASE ~reqValid /\ push["Sg"]
  <2>1. queued' = Append(queued, GrantEntry)
    BY <1>1, <1>5 DEF PortEdge
  <2>. QED
    BY <1>2, <1>3, <1>5, <2>1 DEF Delivered
<1>6. CASE ~reqValid /\ ~push["Sg"]
  <2>1. queued' = queued
    BY <1>1, <1>6 DEF PortEdge
  <2>. QED
    BY <1>2, <1>6, <2>1 DEF Delivered
<1>. QED
  BY <1>4, <1>5, <1>6

LEMMA GoneStep ==
  ASSUME TypeOK, Handshake, NEW T, NEW d, NEW p, Step(T, d, p)
  PROVE  /\ \A k \in Gone : went'[k] = went[k]
         /\ Gone \subseteq 1..Len(went) /\ Len(went) \in Nat
         /\ sw = "go" =>
              /\ Gone' = Gone \cup (IF cur \in Replies THEN {Len(went) + 1} ELSE {})
              /\ Len(went') = Len(went) + 1 /\ Last' = cur
         /\ sw # "go" => Gone' = Gone /\ went' = went /\ Last' = Last
<1>1. SwEdge(p)
  BY DEF Step, Edge
<1>2. went \in Seq(Pdus)
  BY DEF TypeOK, SwTypes
<1>3. CASE sw = "go"
  <2>1. cur \in Pdus /\ went' = Append(went, cur)
    BY <1>1, <1>3 DEF SwEdge, Handshake
  <2>. QED
    BY <1>2, <1>3, <2>1 DEF Gone, Last
<1>4. CASE sw # "go"
  <2>1. went' = went
    BY <1>1, <1>4 DEF SwEdge
  <2>. QED
    BY <1>2, <1>4, <2>1 DEF Gone, Last
<1>. QED
  BY <1>3, <1>4

(* A GO makes a reply owed; nothing else does.                             *)
LEMMA OwedStep ==
  ASSUME TypeOK, Handshake, NEW T, NEW d, NEW p, Step(T, d, p)
  PROVE  /\ sw # "go" /\ Owed' => Owed
         /\ reqValid => ~Owed' /\ sw # "go"
         /\ sw = "go" => ~Owed
<1>1. SwEdge(p) /\ MleEdge(d)
  BY DEF Step, Edge
<1>2. (go' <=> sw = "go") /\ (reqValid' <=> mle = "DELIVER")
  BY <1>1 DEF SwEdge, MleEdge
<1>3. Serving' => (Serving /\ mle # "DELIVER") \/ go
  BY <1>1 DEF MleEdge, MleNext, Serving, GoReply, TypeOK, MleTypes
<1>. QED
  BY <1>2, <1>3 DEF Owed, Handshake, Writing, Serving

LEMMA InOrderStep ==
  ASSUME TypeOK, Handshake, MailboxHolds, WordHolds, InOrder,
         NEW T, NEW d, NEW p, Step(T, d, p)
  PROVE  InOrder'
<1>1. ASSUME NEW k \in Gone, (Owed => k < Len(went))
      PROVE  (Owed' => k < Len(went')) /\ k \in Gone' /\ went'[k] = went[k]
  BY <1>1, GoneStep, OwedStep
<1>2. Gone \subseteq Gone'
  BY GoneStep
<1>3. CASE ~reqValid
  <2>1. Delivered' = Delivered /\ \A i \in Delivered : queued'[i] = queued[i]
    BY <1>3, DeliveredStep
  <2>2. \A k \in Gone : went'[k] = went[k]
    BY GoneStep
  <2>. QED
    BY <1>1, <1>2, <2>1, <2>2 DEF InOrder
<1>4. CASE reqValid
  <2> DEFINE n == Len(queued) + 1
             m == Len(went)
  <2>1. /\ Delivered' = Delivered \cup {n} /\ queued'[n] = reqWord
        /\ \A i \in Delivered : i < n /\ queued'[i] = queued[i]
    BY <1>4, DeliveredStep
  <2>2. reqWord.to = Last /\ reqWord.says = Last /\ Last \in Replies /\ m > 0
    BY <1>4 DEF WordHolds, IsLast, MailboxHolds
  <2>3. m \in Gone' /\ went'[m] = Last /\ (Owed' => m < Len(went'))
    <3>1. m \in Gone /\ went[m] = Last
      BY <2>2, GoneStep DEF Gone, Last
    <3>. QED
      BY <1>2, <1>4, <3>1, OwedStep, GoneStep
  <2>4. \A k \in Gone : (Owed => k < Len(went)) => k < m
    BY <1>4 DEF Owed
  <2>5. ASSUME NEW i \in Delivered'
        PROVE  /\ queued'[i].to = queued'[i].says
               /\ \E k \in Gone' : (Owed' => k < Len(went')) /\ went'[k] = queued'[i].to
    <3>1. CASE i = n
      BY <2>1, <2>2, <2>3, <3>1
    <3>2. CASE i \in Delivered
      BY <1>1, <2>1, <3>2 DEF InOrder
    <3>. QED
      BY <2>1, <3>1, <3>2
  <2>6. ASSUME NEW i \in Delivered', NEW j \in Delivered', i < j
        PROVE  \E k, l \in Gone' : /\ k < l /\ (Owed' => l < Len(went'))
                                   /\ went'[k] = queued'[i].to
                                   /\ went'[l] = queued'[j].to
    <3>0. n \in Nat /\ \A x \in Delivered : x \in Nat
      BY DeliveredStep
    <3>1. i \in Delivered
      BY <2>1, <2>6, <3>0
    <3>2. CASE j = n
      <4>1. PICK k \in Gone : (Owed => k < Len(went)) /\ went[k] = queued[i].to
        BY <3>1 DEF InOrder
      <4>2. k < m /\ k \in Gone' /\ went'[k] = queued'[i].to
        BY <1>1, <2>1, <2>4, <3>1, <4>1
      <4>. QED
        BY <2>1, <2>2, <2>3, <3>2, <4>2
    <3>3. CASE j \in Delivered
      <4>1. PICK k, l \in Gone : /\ k < l /\ (Owed => l < Len(went))
                                 /\ went[k] = queued[i].to /\ went[l] = queued[j].to
        BY <2>6, <3>1, <3>3 DEF InOrder
      <4>2. k \in Gone' /\ went'[k] = queued'[i].to
        BY <1>2, <2>1, <3>1, <4>1, GoneStep
      <4>3. l \in Gone' /\ (Owed' => l < Len(went')) /\ went'[l] = queued'[j].to
        BY <1>1, <2>1, <3>3, <4>1
      <4>. QED
        BY <4>1, <4>2, <4>3
    <3>. QED
      BY <2>1, <3>2, <3>3
  <2>. HIDE DEF n, m
  <2>. QED
    BY <2>5, <2>6 DEF InOrder
<1>. QED
  BY <1>3, <1>4

LEMMA CountsStep ==
  ASSUME TypeOK, Handshake, WordHolds, NEW T, NEW d, NEW p, Step(T, d, p)
  PROVE  /\ Cardinality(Gone) \in Nat /\ Cardinality(Delivered) \in Nat
         /\ Cardinality(Gone') = Cardinality(Gone)
              + (IF sw = "go" /\ cur \in Replies THEN 1 ELSE 0)
         /\ Cardinality(Delivered') = Cardinality(Delivered)
              + (IF reqValid THEN 1 ELSE 0)
<1>1. \A n \in Nat : IsFiniteSet(1..n)
  BY FS_Interval
<1>2. IsFiniteSet(Gone) /\ Gone \subseteq 1..Len(went) /\ Len(went) \in Nat
  BY <1>1, GoneStep, FS_Subset
<1>3. IsFiniteSet(Delivered) /\ Delivered \subseteq 1..Len(queued) /\ Len(queued) \in Nat
  BY <1>1, DeliveredStep, FS_Subset
<1>4. Cardinality(Gone) \in Nat /\ Cardinality(Delivered) \in Nat
  BY <1>2, <1>3, FS_CardinalityType
<1>5. /\ Cardinality(Gone \cup {Len(went) + 1}) = Cardinality(Gone) + 1
      /\ Cardinality(Delivered \cup {Len(queued) + 1}) = Cardinality(Delivered) + 1
  <2>1. Len(went) + 1 \notin Gone /\ Len(queued) + 1 \notin Delivered
    BY <1>2, <1>3
  <2>. QED
    BY <1>2, <1>3, <2>1, FS_AddElement
<1>6. Cardinality(Gone') = Cardinality(Gone)
              + (IF sw = "go" /\ cur \in Replies THEN 1 ELSE 0)
  <2>1. CASE sw = "go" /\ cur \in Replies
    BY <1>5, <2>1, GoneStep
  <2>2. CASE ~(sw = "go" /\ cur \in Replies)
    <3>1. Gone' = Gone
      BY <2>2, GoneStep
    <3>. QED
      BY <1>4, <2>2, <3>1
  <2>. QED
    BY <2>1, <2>2
<1>7. Cardinality(Delivered') = Cardinality(Delivered) + (IF reqValid THEN 1 ELSE 0)
  <2>1. CASE reqValid
    BY <1>5, <2>1, DeliveredStep
  <2>2. CASE ~reqValid
    <3>1. Delivered' = Delivered
      BY <2>2, DeliveredStep
    <3>. QED
      BY <1>4, <2>2, <3>1
  <2>. QED
    BY <2>1, <2>2
<1>. QED
  BY <1>4, <1>6, <1>7

LEMMA LossStep ==
  ASSUME TypeOK, Handshake, MailboxHolds, WordHolds, Loss,
         NEW T, NEW d, NEW p, Step(T, d, p)
  PROVE  Loss'
<1>1. SwEdge(p) /\ MleEdge(d)
  BY DEF Step, Edge
<1>2. (go' <=> sw = "go") /\ (reqValid' <=> mle = "DELIVER")
  BY <1>1 DEF SwEdge, MleEdge
<1>3. /\ detaches \in Nat
      /\ detaches' = IF d THEN detaches + 1 ELSE detaches
      /\ mle' = "DETACH_NOOP" <=> mle = "IDLE" /\ d
  BY <1>1 DEF MleEdge, MleNext, TypeOK, MleTypes
<1>a. detaches' \in Nat /\ detaches' >= detaches /\ (d => detaches' = detaches + 1)
  BY <1>3
<1>b. Lost <= detaches
  BY DEF Loss
<1>c. ~go' /\ Lost' <= detaches' => Loss'
  BY Zenon DEF Loss
<1>4. Cardinality(Gone) \in Nat /\ Cardinality(Delivered) \in Nat
  BY CountsStep
<1>5. (Serving /\ mle # "DELIVER" => Serving') /\ (Serving' => Serving \/ (go /\ GoReply))
  BY <1>1 DEF MleEdge, MleNext, Serving, GoReply, TypeOK, MleTypes
<1>6. CASE sw = "go"
  <2>1. ~go /\ ~reqValid /\ ~Serving /\ ~Serving' /\ ~reqValid' /\ go' /\ Last' = cur
    BY <1>2, <1>5, <1>6, OwedStep, GoneStep DEF Owed, Serving
  <2>2. Coming = 0 /\ Coming' = IF cur \in Replies THEN 1 ELSE 0
    BY <2>1 DEF Coming
  <2>3. /\ Cardinality(Gone') = Cardinality(Gone) + (IF cur \in Replies THEN 1 ELSE 0)
        /\ Cardinality(Delivered') = Cardinality(Delivered)
    BY <1>4, <1>6, <2>1, CountsStep
  <2>4. Lost' = Lost /\ Lost \in Int
    BY <1>4, <2>2, <2>3 DEF Lost
  <2>. QED
    BY <1>3, <2>4 DEF Loss
<1>7. CASE sw # "go"
  <2>1. ~go' /\ Last' = Last /\ Cardinality(Gone') = Cardinality(Gone)
    BY <1>2, <1>4, <1>7, GoneStep
  <2>2. CASE reqValid
    <3>1. ~reqValid' /\ ~Serving' /\ ~go'
      BY <2>2, OwedStep DEF Owed
    <3>2. Coming = 1 /\ Coming' = 0
      BY <2>2, <3>1 DEF Coming
    <3>3. Cardinality(Delivered') = Cardinality(Delivered) + 1
      BY <2>2, CountsStep
    <3>4. Lost' = Lost /\ Lost \in Int
      BY <1>4, <2>1, <3>2, <3>3 DEF Lost
    <3>5. Lost' <= detaches'
      BY <1>3, <1>a, <1>b, <3>4
    <3>. QED
      BY <1>c, <2>1, <3>5
  <2>3. CASE ~reqValid /\ Serving
    <3>1. Serving' \/ reqValid'
      BY <1>2, <1>5, <2>3
    <3>2. Coming = 1 /\ Coming' = 1
      BY <2>3, <3>1 DEF Coming
    <3>3. Cardinality(Delivered') = Cardinality(Delivered)
      BY <1>4, <2>3, CountsStep
    <3>4. Lost' = Lost /\ Lost \in Int
      BY <1>4, <2>1, <3>2, <3>3 DEF Lost
    <3>5. Lost' <= detaches'
      BY <1>3, <1>a, <1>b, <3>4
    <3>. QED
      BY <1>c, <2>1, <3>5
  <2>4. CASE ~reqValid /\ ~Serving
    <3>1. Cardinality(Delivered') = Cardinality(Delivered)
      BY <1>4, <2>4, CountsStep
    <3>2. ~reqValid'
      BY <1>2, <2>4 DEF Serving
    <3>3. CASE go /\ Last \in Replies
      <4>1. GoReply /\ Coming = 1
        <5>1. mb.raw = Last /\ Last \notin SwGrants
          BY <3>3, PduAssumption DEF MailboxHolds
        <5>. QED
          BY <3>3, <5>1 DEF GoReply, SlotGrantFlag, Coming
      <4>0. Coming' \in {0, 1}
        BY DEF Coming
      <4>2. CASE mle = "IDLE" /\ ~d
        <5>1. Serving'
          BY <1>1, <4>1, <4>2 DEF MleEdge, MleNext, Serving
        <5>2. Coming' = 1
          BY <5>1 DEF Coming
        <5>3. Lost' = Lost /\ Lost \in Int
          BY <1>4, <2>1, <3>1, <4>1, <5>2 DEF Lost
        <5>4. Lost' <= detaches'
          BY <1>3, <1>a, <1>b, <5>3
        <5>. QED
          BY <1>c, <2>1, <5>4
      <4>3. CASE mle = "IDLE" /\ d
        <5>1. Lost' <= Lost + 1 /\ Lost \in Int /\ Lost' \in Int
          BY <1>4, <2>1, <3>1, <4>1, <4>0 DEF Lost
        <5>2. Lost' <= detaches'
          BY <1>3, <1>a, <1>b, <4>3, <5>1
        <5>. QED
          BY <1>c, <2>1, <5>2
      <4>4. CASE mle = "DETACH_NOOP"
        <5>1. Lost' <= Lost + 1 /\ Lost \in Int /\ Lost' \in Int
          BY <1>4, <2>1, <3>1, <4>1, <4>0 DEF Lost
        <5>2. Lost + 1 <= detaches
          BY <3>3, <4>4 DEF Loss
        <5>3. Lost' <= detaches'
          BY <1>3, <1>a, <5>1, <5>2
        <5>. QED
          BY <1>c, <2>1, <5>3
      <4>. QED
        BY <2>4, <4>2, <4>3, <4>4 DEF TypeOK, MleTypes, Serving
    <3>4. CASE ~(go /\ Last \in Replies)
      <4>1. Coming = 0
        BY <2>4, <3>4 DEF Coming
      <4>2. Lost' <= Lost /\ Lost \in Int /\ Lost' \in Int
        <5>1. Coming' \in {0, 1}
          BY DEF Coming
        <5>. QED
          BY <1>4, <2>1, <3>1, <4>1, <5>1 DEF Lost
      <4>3. Lost' <= detaches'
        BY <1>3, <1>a, <1>b, <4>2
      <4>. QED
        BY <1>c, <2>1, <4>3
    <3>. QED
      BY <3>3, <3>4
  <2>. QED
    BY <2>2, <2>3, <2>4
<1>. QED
  BY <1>6, <1>7

(* While the MLE FSM has no reply, each busy cycle stems from a detach.    *)
LEMMA BusyStep ==
  ASSUME TypeOK, Handshake, ~Serving, ~go, NEW T, NEW d, NEW p, Step(T, d, p)
  PROVE  /\ detaches \in Nat /\ detaches' = detaches + Bit(d)
         /\ Unseen \in Nat /\ Visible \in Nat /\ Unseen' \in Nat /\ Visible' \in Nat
         /\ Bit(d) \in {0, 1} /\ Bit(mleBusy) \in {0, 1} /\ Bit(busyAxi[2]) \in {0, 1}
         /\ Visible' <= Unseen + Bit(d)
         /\ Unseen' <= Bit(mleBusy) + Bit(d)
         /\ Bit(mleBusy) <= Unseen
<1>1. MleEdge(d) /\ ~GoReply /\ d \in BOOLEAN
  BY DEF Step, Edge, GoReply
<1>2. \A b : Bit(b) \in {0, 1}
  BY DEF Bit
<1>3. mle \in {"IDLE", "DETACH_NOOP"}
  BY DEF TypeOK, MleTypes, Serving
<1>4. busyAxi'[1] = mleBusy /\ busyAxi'[2] = busyAxi[1]
  BY <1>1 DEF MleEdge
<1>5. detaches \in Nat /\ detaches' = detaches + Bit(d)
  BY <1>1 DEF MleEdge, TypeOK, MleTypes, Bit
<1>6. mleBusy \in BOOLEAN /\ busyAxi[1] \in BOOLEAN
  BY DEF TypeOK, FlagTypes
<1>7. CASE mle = "DETACH_NOOP"
  <2>1. mle' = "IDLE" /\ mleBusy /\ mleBusy'
    BY <1>1, <1>7, Zenon DEF MleEdge, MleNext, Handshake
  <2>2. Unseen = 1 + Bit(busyAxi[1]) /\ Visible' = 1 + Bit(busyAxi[1]) /\ Unseen' = 1
        /\ Bit(mleBusy) = 1
    BY <1>4, <1>6, <1>7, <2>1 DEF Unseen, Visible, Bit
  <2>3. Bit(d) \in {0, 1} /\ Bit(busyAxi[1]) \in {0, 1} /\ Bit(busyAxi[2]) \in {0, 1}
    BY <1>2
  <2>. QED
    BY <1>5, <2>2, <2>3 DEF Visible
<1>8. CASE mle = "IDLE" /\ d
  <2>1. mle' = "DETACH_NOOP" /\ mleBusy'
    BY <1>1, <1>8 DEF MleEdge, MleNext
  <2>2. Visible' = 1 + Bit(busyAxi[1]) /\ Unseen' = 1 + Bit(mleBusy) /\ Bit(d) = 1
    BY <1>4, <1>6, <1>8, <2>1 DEF Unseen, Visible, Bit
  <2>3. Bit(busyAxi[1]) <= Unseen /\ Bit(mleBusy) <= Unseen /\ Unseen \in Nat
    BY <1>6, <1>8 DEF Unseen, Bit
  <2>. QED
    BY <1>2, <1>5, <2>2, <2>3 DEF Visible
<1>9. CASE mle = "IDLE" /\ ~d
  <2>1. mle' = "IDLE" /\ ~mleBusy'
    BY <1>1, <1>9 DEF MleEdge, MleNext
  <2>2. Visible' = Bit(busyAxi[1]) /\ Unseen' = Bit(mleBusy) /\ Bit(d) = 0
    BY <1>4, <1>6, <1>9, <2>1 DEF Unseen, Visible, Bit
  <2>3. Bit(busyAxi[1]) <= Unseen /\ Bit(mleBusy) <= Unseen /\ Unseen \in Nat
    BY <1>6, <1>9 DEF Unseen, Bit
  <2>. QED
    BY <1>2, <1>5, <2>2, <2>3 DEF Visible
<1>. QED
  BY <1>3, <1>7, <1>8, <1>9

LEMMA SleepTimes ==
  ASSUME SleepOutlastsMle
  PROVE  /\ MleTime \in Nat \ {0} /\ SettleTime \in Nat /\ PollTime \in Nat \ {0}
         /\ SettleTime >= MleTime + 8 /\ Detaches <= MaxPolls /\ Detaches \in Nat
         /\ MaxPolls \in Nat /\ SleepSeesBusy
  BY PathTimeAssumption DEF SleepOutlastsMle, SleepSeesBusy

(* Software does not give a PDU up.                                        *)
LEMMA NoGiveUp ==
  ASSUME SleepOutlastsMle, TypeOK, Patient, sw = "poll", swWait = 0, Busy
  PROVE  Waits /\ polls + 1 + Bit(mleBusy) <= detaches
<1>1. polls + Visible <= detaches /\ Visible = Bit(mleBusy) + 1
  BY DEF Patient, Visible, Busy, Bit
<1>2. Bit(mleBusy) \in {0, 1} /\ polls \in Nat /\ detaches \in 0..Detaches
  BY DEF Bit, TypeOK, SwTypes, MleTypes
<1>. QED
  BY <1>1, <1>2, SleepTimes DEF Waits

LEMMA SwPoll ==
  ASSUME SleepOutlastsMle, TypeOK, Patient, sw = "poll",
         NEW T, NEW d, NEW p, Step(T, d, p)
  PROVE  \/ /\ swWait > 0 /\ sw' = "poll" /\ swWait' = swWait - 1 /\ polls' = polls
         \/ /\ swWait = 0 /\ Busy /\ sw' = "poll" /\ swWait' = PollTime
            /\ polls' = polls + 1
         \/ /\ swWait = 0 /\ ~Busy /\ sw' = "addr"
<1>1. SwEdge(p)
  BY DEF Step, Edge
<1>2. swWait \in Nat
  BY DEF TypeOK, SwTypes
<1>3. CASE swWait > 0
  BY <1>1, <1>3 DEF SwEdge, SwNext, Polling
<1>4. CASE swWait = 0 /\ Busy
  <2>1. Waits /\ ~GivesUp
    <3>1. Waits
      BY <1>4, NoGiveUp
    <3>. QED
      BY <3>1, SleepTimes DEF Waits, GivesUp, TypeOK, SwTypes
  <2>. QED
    BY <1>1, <1>4, <2>1 DEF SwEdge, SwNext, AfterPoll, Polling
<1>5. CASE swWait = 0 /\ ~Busy
  BY <1>1, <1>5 DEF SwEdge, SwNext, AfterPoll, GivesUp
<1>. QED
  BY <1>2, <1>3, <1>4, <1>5

LEMMA SwOther ==
  ASSUME TypeOK, sw # "poll", NEW T, NEW d, NEW p, Step(T, d, p)
  PROVE  /\ polls' = 0
         /\ sw' = "idle" => sw = "idle" \/ (sw = "settle" /\ swWait = 0)
         /\ sw' = "poll" => sw = "idle"
         /\ sw' = "settle" => \/ sw = "go"
                              \/ /\ sw = "settle" /\ swWait > 0
                                 /\ swWait' = swWait - 1
         /\ sw = "settle" /\ swWait > 0 => sw' = "settle" /\ swWait' = swWait - 1
<1>1. SwEdge(p) /\ swWait \in Nat
  BY DEF Step, Edge, TypeOK, SwTypes
<1>. QED
  BY <1>1 DEF SwEdge, SwNext, AfterBody, AfterAddr, TypeOK, SwTypes

LEMMA AsleepStep ==
  ASSUME SleepOutlastsMle, TypeOK, Handshake, OneBuild, Asleep,
         NEW T, NEW d, NEW p, Step(T, d, p)
  PROVE  Asleep'
<1>1. SwEdge(p) /\ MleEdge(d) /\ d \in BOOLEAN
  BY DEF Step, Edge
<1>2. /\ MleTime \in Nat \ {0} /\ SettleTime \in Nat /\ SettleTime >= MleTime + 8
      /\ swWait \in Nat /\ builder \in Nat /\ detaches \in Nat /\ SleepSeesBusy
  BY SleepTimes DEF TypeOK, SwTypes, MleTypes
<1>3. Handshake'
  BY <1>2, HandshakeStep
<1>4. (go => swWait >= MleTime + 8)'
  BY <1>2, <1>3 DEF Handshake
<1>5. Serving \/ go => sw = "settle" /\ swWait >= 4
  BY <1>2 DEF Handshake, Asleep, OneBuild, Serving
<1>6. Serving \/ go => sw' = "settle" /\ swWait' = swWait - 1
  BY <1>2, <1>5, SwOther
<1>7. (mle = "BUILD_REQ" => swWait >= MleTime + 7)'
  <2>1. mle' = "BUILD_REQ" => go
    BY <1>1 DEF MleEdge, MleNext, GoReply, TypeOK, MleTypes
  <2>. QED
    BY <1>2, <1>6, <2>1 DEF Asleep
<1>8. (mle = "BUILD_WAIT" /\ buildReq => swWait >= MleTime + 6)'
  <2>1. buildReq' => mle = "BUILD_REQ"
    BY <1>1 DEF MleEdge
  <2>. QED
    BY <1>2, <1>6, <2>1 DEF Asleep, Serving
<1>9. (mle = "BUILD_WAIT" /\ builder > 0 => swWait >= builder + 5)'
  <2>. SUFFICES ASSUME builder' > 0 PROVE swWait' >= builder' + 5
    OBVIOUS
  <2>1. CASE builder > 0
    <3>1. builder' = builder - 1 /\ mle = "BUILD_WAIT"
      BY <1>1, <2>1 DEF MleEdge, OneBuild
    <3>. QED
      BY <1>2, <1>6, <2>1, <3>1 DEF Asleep, Serving
  <2>2. CASE builder = 0
    <3>1. builder' = MleTime /\ buildReq /\ mle = "BUILD_WAIT"
      BY <1>1, <2>2 DEF MleEdge, OneBuild, Accepted
    <3>. QED
      BY <1>2, <1>6, <3>1 DEF Asleep, Serving
  <2>. QED
    BY <1>2, <2>1, <2>2
<1>10. (mle = "BUILD_WAIT" /\ buildDone => swWait >= 5)'
  <2>1. buildDone' => builder = 1
    BY <1>1 DEF MleEdge
  <2>. QED
    BY <1>2, <1>6, <2>1 DEF Asleep, Serving, OneBuild
<1>11. (mle = "DELIVER" => swWait >= 4)'
  <2>1. mle' = "DELIVER" => mle = "BUILD_WAIT" /\ buildDone
    BY <1>1 DEF MleEdge, MleNext, TypeOK, MleTypes
  <2>. QED
    BY <1>2, <1>6, <2>1 DEF Asleep, Serving
<1>12. (Serving => sw = "settle")'
  <2>1. Serving' => Serving \/ go
    BY <1>1 DEF MleEdge, MleNext, GoReply, TypeOK, MleTypes, Serving
  <2>. QED
    BY <1>6, <2>1
<1>13. (reqValid => sw = "settle" /\ swWait >= 3)'
  <2>1. reqValid' => mle = "DELIVER"
    BY <1>1 DEF MleEdge
  <2>. QED
    BY <1>2, <1>6, <2>1 DEF Asleep, Serving
<1>14. (mle = "DETACH_NOOP" => detaches >= 1)'
  BY <1>1, <1>2 DEF MleEdge, MleNext, TypeOK, MleTypes
<1>15. (sw = "settle" /\ swWait < 3)' => sw = "settle" /\ swWait > 0 /\ swWait' = swWait - 1
  <2>1. sw' = "settle" /\ sw = "go" => swWait' = SettleTime
    BY <1>1, <1>2 DEF SwEdge, Handshake, Polling
  <2>2. sw # "poll" \/ sw' # "settle"
    BY <1>1 DEF SwEdge, SwNext, AfterPoll
  <2>. QED
    BY <1>2, <2>1, <2>2, SwOther
<1>16. (sw = "settle" /\ swWait < 3)' => ~Serving /\ ~go
  BY <1>2, <1>5, <1>15
<1>17. (sw = "settle" /\ swWait = 2 => (mleBusy => detaches >= 1))'
  <2>. SUFFICES ASSUME (sw = "settle" /\ swWait = 2)', mleBusy' PROVE detaches' >= 1
    OBVIOUS
  <2>1. mle \in {"IDLE", "DETACH_NOOP"} /\ ~GoReply
    BY <1>16 DEF TypeOK, MleTypes, Serving, GoReply
  <2>2. detaches' >= detaches
    BY <1>1, <1>2 DEF MleEdge
  <2>3. CASE mle = "DETACH_NOOP"
    BY <1>1, <1>2, <2>2, <2>3 DEF Asleep, MleEdge
  <2>4. CASE mle = "IDLE"
    <3>1. d
      BY <1>1, <2>1, <2>4, Zenon DEF MleEdge
    <3>. QED
      BY <1>1, <1>2, <3>1 DEF MleEdge
  <2>. QED
    BY <2>1, <2>3, <2>4
<1>18. (sw = "settle" /\ swWait < 2 => Unseen <= detaches)'
  <2>. SUFFICES ASSUME (sw = "settle" /\ swWait < 2)' PROVE Unseen' <= detaches'
    OBVIOUS
  <2>1. sw = "settle" /\ swWait \in {1, 2} /\ ~Serving /\ ~go
    <3>1. swWait' \in Nat
      BY SwTypesStep DEF SwTypes
    <3>2. sw' = "settle" /\ swWait' < 3
      BY <3>1
    <3>. QED
      BY <1>2, <1>15, <1>16, <3>1, <3>2
  <2>2. Bit(mleBusy) <= detaches
    <3>1. CASE swWait = 2
      <4>1. mleBusy => detaches >= 1
        BY <2>1, <3>1 DEF Asleep
      <4>. QED
        BY <1>2, <4>1 DEF Bit
    <3>2. CASE swWait = 1
      <4>1. Unseen <= detaches
        BY <2>1, <3>2 DEF Asleep
      <4>. QED
        BY <1>2, <2>1, <4>1, BusyStep
    <3>. QED
      BY <2>1, <3>1, <3>2
  <2>. QED
    BY <2>1, <2>2, BusyStep
<1>. QED
  BY <1>4, <1>7, <1>8, <1>9, <1>10, <1>11, <1>12, <1>13, <1>14, <1>17, <1>18 DEF Asleep

LEMMA PatientStep ==
  ASSUME SleepOutlastsMle, TypeOK, Handshake, OneBuild, Asleep, Patient,
         NEW T, NEW d, NEW p, Step(T, d, p)
  PROVE  Patient'
<1>1. polls \in Nat /\ swWait \in Nat
  BY DEF TypeOK, SwTypes
<1>2. CASE sw = "poll"
  <2>1. ~Serving /\ ~go
    BY <1>2 DEF Asleep, Handshake
  <2>2. CASE swWait > 0 /\ sw' = "poll" /\ polls' = polls
    <3>1. polls + Unseen <= detaches
      BY <1>2 DEF Patient
    <3>2. polls' + Unseen' <= detaches' /\ polls' + Visible' <= detaches'
      BY <1>1, <2>1, <2>2, <3>1, BusyStep
    <3>. QED
      BY <2>2, <3>2 DEF Patient
  <2>3. CASE swWait = 0 /\ Busy /\ sw' = "poll" /\ swWait' = PollTime /\ polls' = polls + 1
    <3>1. polls + 1 + Bit(mleBusy) <= detaches
      BY <1>2, <2>3, NoGiveUp
    <3>2. polls' + Unseen' <= detaches'
      BY <1>1, <2>1, <2>3, <3>1, BusyStep
    <3>3. swWait' # 0
      BY <2>3, SleepTimes
    <3>. QED
      BY <2>3, <3>2, <3>3 DEF Patient
  <2>4. CASE sw' = "addr"
    BY <2>4 DEF Patient
  <2>. QED
    BY <1>2, <2>2, <2>3, <2>4, SwPoll
<1>3. CASE sw # "poll"
  <2>. SUFFICES ASSUME sw' \in {"idle", "poll"} PROVE Patient'
    BY <1>3, SwOther DEF Patient
  <2>1. sw = "idle" \/ (sw = "settle" /\ swWait = 0)
    BY <1>3, SwOther
  <2>2. ~Serving /\ ~go /\ Unseen <= detaches
    <3>1. CASE sw = "idle"
      <4>1. ~Serving /\ ~go /\ polls + Unseen <= detaches /\ polls = 0
        BY <3>1 DEF Patient, Asleep, Handshake
      <4>. QED
        BY <4>1, BusyStep
    <3>2. CASE sw = "settle" /\ swWait = 0
      <4>1. Unseen <= detaches
        BY <3>2 DEF Asleep
      <4>2. ~go
        BY <3>2, SleepTimes DEF Handshake
      <4>3. ~Serving
        BY <3>2, SleepTimes DEF Asleep, OneBuild, Serving, TypeOK, MleTypes
      <4>. QED
        BY <4>1, <4>2, <4>3
    <3>. QED
      BY <2>1, <3>1, <3>2
  <2>3. polls' = 0 /\ Unseen' <= detaches' /\ Visible' <= detaches'
    BY <1>3, <2>2, BusyStep, SwOther
  <2>4. polls' + Unseen' <= detaches' /\ polls' + Visible' <= detaches'
    BY <2>2, <2>3, BusyStep
  <2>. QED
    BY <2>3, <2>4 DEF Patient
<1>. QED
  BY <1>2, <1>3

LEMMA AllSentStep ==
  ASSUME SleepOutlastsMle, TypeOK, Handshake, Patient, AllSent,
         NEW T, NEW d, NEW p, Step(T, d, p)
  PROVE  AllSent'
<1>1. SwEdge(p) /\ p \in Submissions
  BY DEF Step, Edge
<1>2. Len(went) \in Nat /\ IsFiniteSet(called)
  BY DEF TypeOK, SwTypes
<1>3. CASE sw = "idle" /\ p # NoReq
  <2>1. p \notin called /\ called' = called \cup {p} /\ cur' = p /\ sw' = "poll"
        /\ went' = went
    BY <1>1, <1>3 DEF Submissions, SwEdge, SwNext
  <2>2. Cardinality(called \cup {p}) = Cardinality(called) + 1
    BY <1>2, <2>1, FS_AddElement
  <2>. QED
    BY <1>3, <2>1, <2>2 DEF AllSent
<1>4. CASE sw = "idle" /\ p = NoReq
  <2>1. called' = called /\ sw' = "idle" /\ went' = went
    BY <1>1, <1>4 DEF SwEdge, SwNext
  <2>. QED
    BY <1>4, <2>1 DEF AllSent
<1>5. CASE sw = "go"
  <2>1. called' = called /\ sw' = "settle" /\ Len(went') = Len(went) + 1
    BY <1>1, <1>5, GoneStep DEF SwEdge, SwNext
  <2>. QED
    BY <1>5, <2>1 DEF AllSent
<1>6. CASE sw \notin {"idle", "go"}
  <2>1. called' = called /\ cur' = cur /\ went' = went
    BY <1>1, <1>6 DEF SwEdge
  <2>2. CASE sw = "settle"
    <3>1. sw' \in {"settle", "idle"}
      BY <1>1, <2>2 DEF SwEdge, SwNext
    <3>. QED
      BY <2>1, <2>2, <3>1 DEF AllSent
  <2>3. CASE sw # "settle"
    <3>1. sw' \in {"poll", "addr", "body", "raw", "go"}
      <4>1. CASE sw = "poll"
        BY <4>1, SwPoll
      <4>2. CASE sw # "poll"
        BY <1>1, <1>6, <2>3, <4>2 DEF SwEdge, SwNext, AfterBody, AfterAddr, TypeOK, SwTypes
      <4>. QED
        BY <4>1, <4>2
    <3>. QED
      BY <1>6, <2>1, <2>3, <3>1 DEF AllSent, TypeOK, SwTypes
  <2>. QED
    BY <2>2, <2>3
<1>. QED
  BY <1>3, <1>4, <1>5, <1>6

-----------------------------------------------------------------------------
(* The theorems.                                                           *)

PathInv ==
  TypeOK /\ Handshake /\ OneBuild /\ MailboxHolds /\ WordHolds /\ InOrder /\ Loss

NoLossInv == PathInv /\ Asleep /\ Patient /\ AllSent

LEMMA InitPath == Init => NoLossInv
<1> SUFFICES ASSUME Init PROVE NoLossInv
  OBVIOUS
<1>. USE DEF Init
<1>1. GrantTypes
  BY DEF GrantTypes, Pre!Init, Named
<1>2. SwTypes
  BY FS_EmptySet DEF SwTypes, PduOrNone, Groups
<1>3. MleTypes
  BY PathTimeAssumption DEF MleTypes, PduOrNone, Entries, Named, NoFields
<1>4. FlagTypes
  BY DEF FlagTypes
<1>5. Handshake /\ OneBuild /\ MailboxHolds /\ WordHolds
  BY PathTimeAssumption DEF Handshake, OneBuild, MailboxHolds, WordHolds, Serving, Writing
<1>6. Gone = {} /\ Delivered = {}
  BY DEF Gone, Delivered
<1>7. InOrder
  BY <1>6 DEF InOrder
<1>8. Loss
  BY <1>6, FS_EmptySet DEF Loss, Lost, Coming, Serving
<1>9. Asleep /\ Patient
  BY DEF Asleep, Patient, Serving, Unseen, Visible, Bit
<1>10. AllSent
  BY FS_EmptySet DEF AllSent
<1>. QED
  BY <1>1, <1>2, <1>3, <1>4, <1>5, <1>7, <1>8, <1>9, <1>10
  DEF NoLossInv, PathInv, TypeOK

LEMMA NextStep == Next => \E T, d, p : Step(T, d, p)
  BY DEF Next, Step

LEMMA PathStep == SleepSeesBusy /\ PathInv /\ [Next]_vars => PathInv'
<1> SUFFICES ASSUME SleepSeesBusy, PathInv, [Next]_vars PROVE PathInv'
  OBVIOUS
<1>1. CASE Next
  <2>1. PICK T, d, p : Step(T, d, p)
    BY <1>1, NextStep
  <2>2. TypeOK'
    BY <2>1, SwTypesStep, MleTypesStep, FlagTypesStep, GrantTypesStep DEF PathInv, TypeOK
  <2>3. Handshake' /\ OneBuild' /\ MailboxHolds' /\ WordHolds'
    BY <2>1, HandshakeStep, OneBuildStep, MailboxHoldsStep, WordHoldsStep DEF PathInv
  <2>4. InOrder' /\ Loss'
    BY <2>1, InOrderStep, LossStep DEF PathInv
  <2>. QED
    BY <2>2, <2>3, <2>4 DEF PathInv
<1>2. CASE UNCHANGED vars
  <2>. USE <1>2 DEF vars, preVars, swVars, mleVars
  <2>1. TypeOK'
    BY DEF PathInv, TypeOK, GrantTypes, SwTypes, MleTypes, FlagTypes
  <2>2. Handshake' /\ OneBuild'
    BY DEF PathInv, Handshake, OneBuild, Serving, Writing
  <2>3. MailboxHolds' /\ WordHolds'
    BY DEF PathInv, MailboxHolds, WordHolds, Serving, Last, IsLast
  <2>4. Gone' = Gone /\ Delivered' = Delivered /\ Owed' = Owed /\ Coming' = Coming
        /\ Last' = Last
    BY DEF Gone, Delivered, Owed, Coming, Serving, Last
  <2>5. InOrder'
    BY <2>4 DEF PathInv, InOrder
  <2>6. Loss'
    BY <2>4 DEF PathInv, Loss, Lost
  <2>. QED
    BY <2>1, <2>2, <2>3, <2>5, <2>6 DEF PathInv
<1>. QED
  BY <1>1, <1>2

LEMMA NoLossStep == SleepOutlastsMle /\ NoLossInv /\ [Next]_vars => NoLossInv'
<1> SUFFICES ASSUME SleepOutlastsMle, NoLossInv, [Next]_vars PROVE NoLossInv'
  OBVIOUS
<1>1. PathInv'
  BY PathStep, SleepTimes DEF NoLossInv
<1>2. CASE Next
  <2>1. PICK T, d, p : Step(T, d, p)
    BY <1>2, NextStep
  <2>2. Asleep' /\ Patient' /\ AllSent'
    BY <2>1, AsleepStep, PatientStep, AllSentStep DEF NoLossInv, PathInv
  <2>. QED
    BY <1>1, <2>2 DEF NoLossInv
<1>3. CASE UNCHANGED vars
  <2>1. Asleep' /\ Patient' /\ AllSent'
    BY <1>3 DEF NoLossInv, Asleep, Patient, AllSent, vars, preVars, swVars, mleVars,
       Serving, Unseen, Visible
  <2>. QED
    BY <1>1, <2>1 DEF NoLossInv
<1>. QED
  BY <1>2, <1>3

(* The type invariant of the reply path, for any PDUs and times.           *)
THEOREM TypeCorrect == ASSUME SleepSeesBusy PROVE Spec => []TypeOK
<1>1. Init => PathInv
  BY InitPath DEF NoLossInv
<1>2. PathInv /\ [Next]_vars => PathInv'
  BY PathStep
<1>3. PathInv => TypeOK
  BY DEF PathInv
<1>. QED
  BY <1>1, <1>2, <1>3, PTL DEF Spec

(* A reply of the daemon reaches the queue in one piece, at most once and  *)
(* in the order of submission: the busy bit, seen four cycles late, and a  *)
(* sleep after GO keep software off the mailbox until the MLE FSM has read *)
(* it (tetra_tx_transport.c:38-51).                                        *)
THEOREM QueuedAsSubmittedCorrect ==
  ASSUME SleepSeesBusy PROVE Spec => []QueuedAsSubmitted
<1>1. Init => PathInv
  BY InitPath DEF NoLossInv
<1>2. PathInv /\ [Next]_vars => PathInv'
  BY PathStep
<1>3. PathInv => QueuedAsSubmitted
  BY DEF PathInv, InOrder, QueuedAsSubmitted
<1>. QED
  BY <1>1, <1>2, <1>3, PTL DEF Spec

(* A reply is lost only to a detach that comes at the same moment, and one *)
(* detach loses one reply at most: this half of OnlyDetachLoses needs no   *)
(* more than a cycle of sleep after GO.                                    *)
LossIsDetach == AtRest => Cardinality(Gone) - Cardinality(Delivered) <= detaches

LEMMA LossBounded == PathInv => LossIsDetach
<1>1. SUFFICES ASSUME PathInv, AtRest
               PROVE  Cardinality(Gone) - Cardinality(Delivered) <= detaches
  BY DEF LossIsDetach
<1>2. Coming = 0 /\ Lost <= detaches
  BY <1>1 DEF Coming, AtRest, Serving, PathInv, Loss
<1>3. \A n \in Nat : IsFiniteSet(1..n)
  BY FS_Interval
<1>4. Len(went) \in Nat /\ Len(queued) \in Nat
      /\ Gone \subseteq 1..Len(went) /\ Delivered \subseteq 1..Len(queued)
  BY <1>1 DEF PathInv, TypeOK, SwTypes, MleTypes, Gone, Delivered
<1>5. Cardinality(Gone) \in Nat /\ Cardinality(Delivered) \in Nat
  BY <1>3, <1>4, FS_Subset, FS_CardinalityType
<1>. QED
  BY <1>2, <1>5 DEF Lost

(* A reply is lost to a detach that comes while it is handed over, one     *)
(* reply to each, however short the sleep is that lets busy be seen.       *)
THEOREM LossIsDetachCorrect == ASSUME SleepSeesBusy PROVE Spec => []LossIsDetach
<1>1. Init => PathInv
  BY InitPath DEF NoLossInv
<1>2. PathInv /\ [Next]_vars => PathInv'
  BY PathStep
<1>. QED
  BY <1>1, <1>2, LossBounded, PTL DEF Spec

(* No reply is lost but by a detach received at the same moment, each      *)
(* detach losing one at most, and software gives none up while it polls    *)
(* more often than detaches come.                                          *)
THEOREM OnlyDetachLosesCorrect ==
  ASSUME SleepOutlastsMle PROVE Spec => []OnlyDetachLoses
<1>1. Init => NoLossInv
  BY InitPath
<1>2. NoLossInv /\ [Next]_vars => NoLossInv'
  BY NoLossStep
<1>3. NoLossInv => OnlyDetachLoses
  <2>1. NoLossInv => LossIsDetach
    BY LossBounded DEF NoLossInv
  <2>2. ASSUME NoLossInv, sw = "idle" PROVE Len(went) = Cardinality(called)
    BY <2>2 DEF NoLossInv, AllSent
  <2>. QED
    BY <2>1, <2>2 DEF OnlyDetachLoses, LossIsDetach
<1>. QED
  BY <1>1, <1>2, <1>3, PTL DEF Spec
-----------------------------------------------------------------------------
(* How long a reply takes.                                                 *)

(* The MLE FSM has started on p and p is not in the queue yet.             *)
Serves(p) ==
  \/ Serving /\ lat.addr = p
  \/ reqValid /\ reqWord.to = p

(* The clock edges until the queue is given the reply that is served.      *)
CyclesLeft ==
  IF mle = "BUILD_REQ" THEN MleTime + 5
  ELSE IF mle = "BUILD_WAIT"
       THEN IF buildReq THEN MleTime + 4 ELSE builder + 3
  ELSE IF mle = "DELIVER" THEN 2 ELSE 1

Arrives(p) ==
  \E i \in DOMAIN queued' :
    queued'[i].to = p /\ queued'[i].says = p /\ queued'[i].as # "grant"

(* One edge less at every edge, and at the last one p is in the queue.     *)
CountsDown(p) ==
  IF CyclesLeft = 1 THEN Arrives(p)
  ELSE Serves(p)' /\ CyclesLeft' = CyclesLeft - 1

ServedOnTime == \A p \in Replies : Serves(p) => CyclesLeft \in 1..(MleTime + 5)
ServesOnTime == [][\A p \in Replies : Serves(p) => CountsDown(p)]_vars

LEMMA CountRange ==
  ASSUME TypeOK, OneBuild, Handshake
  PROVE  ServedOnTime
<1>1. MleTime \in Nat \ {0} /\ builder \in Nat /\ builder <= MleTime
  BY PathTimeAssumption DEF TypeOK, MleTypes, OneBuild
<1>. QED
  BY <1>1 DEF ServedOnTime, CyclesLeft, Serves, OneBuild

(* The FSM's work on the reply it latched, edge by edge.                   *)
LEMMA WorkStep ==
  ASSUME TypeOK, Handshake, OneBuild, Serving, NEW T, NEW d, NEW p, Step(T, d, p)
  PROVE  /\ lat' = lat /\ Last' = Last
         /\ CyclesLeft # 1 /\ CyclesLeft' = CyclesLeft - 1
         /\ IF mle = "DELIVER" THEN reqValid' /\ reqWord' = reqWord ELSE Serving'
<1>1. MleEdge(d) /\ MleTime \in Nat \ {0} /\ builder \in Nat
  BY PathTimeAssumption DEF Step, Edge, TypeOK, MleTypes
<1>2. sw # "go" /\ Last' = Last
  BY LastStep DEF Handshake, Writing
<1>3. lat' = lat
  BY <1>1 DEF MleEdge, Starting, Serving
<1>4. CASE mle = "BUILD_REQ"
  <2>1. mle' = "BUILD_WAIT" /\ buildReq'
    BY <1>1, <1>4 DEF MleEdge, MleNext
  <2>. QED
    BY <1>1, <1>2, <1>3, <1>4, <2>1 DEF CyclesLeft, Serving
<1>5. CASE mle = "BUILD_WAIT" /\ buildReq
  <2>1. builder = 0 /\ ~buildDone /\ Accepted
    BY <1>5 DEF OneBuild, Accepted
  <2>2. mle' = "BUILD_WAIT" /\ ~buildReq'
    BY <1>1, <1>5, <2>1 DEF MleEdge, MleNext
  <2>3. builder' = MleTime
    BY <1>1, <2>1 DEF MleEdge
  <2>. QED
    BY <1>1, <1>2, <1>3, <1>5, <2>1, <2>2, <2>3 DEF CyclesLeft, Serving
<1>6. CASE mle = "BUILD_WAIT" /\ ~buildReq /\ builder > 0
  <2>1. ~buildDone
    BY <1>6 DEF OneBuild
  <2>2. mle' = "BUILD_WAIT" /\ ~buildReq' /\ builder' = builder - 1
    BY <1>1, <1>6, <2>1 DEF MleEdge, MleNext
  <2>. QED
    BY <1>1, <1>2, <1>3, <1>6, <2>2 DEF CyclesLeft, Serving
<1>7. CASE mle = "BUILD_WAIT" /\ ~buildReq /\ builder = 0
  <2>1. buildDone
    BY <1>7 DEF OneBuild
  <2>2. mle' = "DELIVER"
    BY <1>1, <1>7, <2>1 DEF MleEdge, MleNext
  <2>. QED
    BY <1>1, <1>2, <1>3, <1>7, <2>2 DEF CyclesLeft, Serving
<1>8. CASE mle = "DELIVER"
  <2>1. mle' = "IDLE" /\ reqValid' /\ reqWord' = reqWord
    BY <1>1, <1>8 DEF MleEdge, MleNext
  <2>. QED
    BY <1>2, <1>3, <1>8, <2>1 DEF CyclesLeft
<1>. QED
  BY <1>1, <1>4, <1>5, <1>6, <1>7, <1>8 DEF Serving

LEMMA CountStep ==
  ASSUME TypeOK, Handshake, OneBuild, MailboxHolds, WordHolds,
         NEW q \in Replies, Serves(q), NEW T, NEW d, NEW p, Step(T, d, p)
  PROVE  CountsDown(q)
<1>1. CASE Serving
  <2>1. lat.addr = q /\ ~reqValid
    BY <1>1 DEF Serves, Handshake
  <2>2. Last = q
    BY <1>1, <2>1 DEF MailboxHolds
  <2>3. Serves(q)'
    <3>1. CASE mle = "DELIVER"
      BY <1>1, <2>2, <3>1, WorkStep DEF Serves, WordHolds, IsLast
    <3>2. CASE mle # "DELIVER"
      BY <1>1, <2>1, <3>2, WorkStep DEF Serves
    <3>. QED
      BY <3>1, <3>2
  <2>. QED
    BY <1>1, <2>3, WorkStep DEF CountsDown
<1>2. CASE ~Serving
  <2>1. reqValid /\ reqWord.to = q /\ IsLast(reqWord) /\ CyclesLeft = 1
    BY <1>2 DEF Serves, WordHolds, CyclesLeft, Serving
  <2>2. queued' = Append(queued, reqWord) /\ queued \in Seq(Entries) /\ reqWord \in Entries
    BY <2>1 DEF Step, Edge, PortEdge, TypeOK, MleTypes
  <2>3. Len(queued) + 1 \in DOMAIN queued' /\ queued'[Len(queued) + 1] = reqWord
    BY <2>2
  <2>. QED
    BY <2>1, <2>3 DEF CountsDown, Arrives, IsLast
<1>. QED
  BY <1>1, <1>2

(* A reply the MLE FSM has started on is in the queue MleTime + 5 clock    *)
(* edges later, in one piece, whatever software, detaches and slot grants  *)
(* do meanwhile (tetra_mle_registration_fsm.v): no edge passes that does   *)
(* not count.  With the clock running on, StartedIsQueued follows.         *)
THEOREM ServedOnTimeCorrect ==
  ASSUME SleepSeesBusy PROVE Spec => []ServedOnTime /\ ServesOnTime
<1>1. Init => PathInv
  BY InitPath DEF NoLossInv
<1>2. PathInv /\ [Next]_vars => PathInv'
  BY PathStep
<1>3. PathInv => ServedOnTime
  BY CountRange DEF PathInv
<1>4. PathInv /\ [Next]_vars => [\A p \in Replies : Serves(p) => CountsDown(p)]_vars
  BY NextStep, CountStep DEF PathInv
<1>. QED
  BY <1>1, <1>2, <1>3, <1>4, PTL DEF Spec, ServesOnTime

-----------------------------------------------------------------------------
(* Own words.  The two pre-reply FSMs share one encoder; each PDU is       *)
(* encoded twice and the FSMs wait for each other, yet every answer is     *)
(* sent with the code word of its own PDU.                                 *)

(* The cycles of one encoding, with the grant.                             *)
Encoding == EncodeTime + 3

(* Bursts of one source come in slots of 14 ms, an answer takes a few      *)
(* microseconds: building, waiting for the two encodings of the other FSM  *)
(* and two encodings of its own.                                           *)
GapOutlastsAnswer == Gap >= BuildTime + 4 * Encoding + 2

SrcOf(f) == IF f = "Sg" THEN "frag" ELSE "demand"
Quiet(f) == quiet[SrcOf(f)]

WordTypes ==
  /\ state \in [Pre!Fsms -> {"IDLE", "BUILD", "ENC", "PUSH"}]
  /\ building \in [Pre!Fsms -> Nat] /\ encoding \in Nat
  /\ arb \in Pre!Fsms \cup {"IDLE"}
  /\ done \in [Pre!Fsms -> BOOLEAN] /\ encValid \in BOOLEAN
  /\ quiet \in [Pre!Sources -> Nat]

(* The encoder works on one PDU, for the FSM the arbiter serves.           *)
OneEncoding ==
  /\ arb = "IDLE" => encStart = NoReq /\ encoding = 0 /\ ~encValid
  /\ arb # "IDLE" => encStart # NoReq \/ encoding > 0 \/ encValid
  /\ encStart # NoReq => encoding = 0 /\ ~encValid
  /\ encoding > 0 => ~encValid
  /\ encoding <= EncodeTime
  /\ \A f \in Pre!Fsms : done[f] => arb = "IDLE"
  /\ done["Sg"] => ~done["Bl"]

(* Cycles until the encoding under way is done.                            *)
EncLeft == IF encStart # NoReq THEN EncodeTime + 2
           ELSE IF encoding > 0 THEN encoding + 1 ELSE 1

(* Cycles until the arbiter is free for an FSM that waits: the grant       *)
(* comes before an acknowledgement, and twice.                             *)
Wait(f) ==
  IF f = "Sg" THEN IF arb = "Bl" THEN EncLeft ELSE 0
  ELSE IF state["Sg"] # "ENC" THEN IF arb = "Sg" THEN EncLeft ELSE 0
  ELSE IF arb = "Sg" THEN EncLeft + Encoding
  ELSE IF done["Sg"] THEN Encoding ELSE 2 * Encoding

(* The source of an FSM stays quiet until the FSM, and the second encoding *)
(* of its PDU, are over.                                                   *)
Enough(f) ==
  /\ state[f] = "BUILD" => Quiet(f) >= building[f] + 4 * Encoding + 2
  /\ state[f] = "ENC" /\ arb = f => Quiet(f) >= EncLeft + Encoding + 1
  /\ state[f] = "ENC" /\ done[f] => Quiet(f) >= Encoding + 1
  /\ state[f] = "ENC" /\ arb # f /\ ~done[f] =>
       Quiet(f) >= Wait(f) + 2 * Encoding + 1
  /\ state[f] \in {"PUSH", "IDLE"} /\ arb = f => Quiet(f) >= EncLeft + 1
  /\ state[f] = "PUSH" \/ done[f] => Quiet(f) >= 1

(* What the encoder makes for an FSM in ENC is the code word of its job.   *)
OwnJob(f) ==
  /\ building[f] > 0 => state[f] = "BUILD"
  /\ state[f] = "BUILD" => arb # f /\ ~done[f]
  /\ state[f] # "IDLE" => job[f] # NoReq
  /\ state[f] = "BUILD" /\ building[f] = 0 => pdu[f] = job[f]
  /\ state[f] = "ENC" => pdu[f] = job[f]
  /\ state[f] = "ENC" /\ arb = f =>
       IF encStart # NoReq THEN encStart = job[f] ELSE encPdu = job[f]
  /\ state[f] = "ENC" /\ done[f] => coded[f] = job[f]
  /\ state[f] = "PUSH" => word[f] = job[f]

WordInv ==
  /\ WordTypes /\ OneEncoding
  /\ \A f \in Pre!Fsms : Enough(f) /\ OwnJob(f)
  /\ Pre!OwnWord

NoGrants == called \cap SwGrants = {}

(* Only what software was called with gets into the mailbox.               *)
OnlyCalled == {cur, mb.addr, mb.body, mb.raw} \subseteq called \cup {NoReq}

WordsInv == OnlyCalled /\ (NoGrants => WordInv)

-----------------------------------------------------------------------------
(* A clock edge in which software requests no grant.                       *)

Quietly(T) ==
  /\ T \in Pre!Triggers /\ T \cap SwGrants = {}
  /\ Pre!Edge(T)

LEMMA WordTimes ==
  /\ BuildTime \in Nat \ {0} /\ EncodeTime \in Nat \ {0} /\ Gap \in Nat \ {0}
  /\ Encoding = EncodeTime + 3 /\ Encoding \in Nat
  BY PreAssumption DEF Pre!TimeAssumption, Encoding

LEMMA KindsDisjoint ==
  /\ NoReq \notin Pre!Requests
  /\ \A r \in AttachFrags \cup SdsFrags : Pre!SourceOf(r) = "frag"
  /\ \A r \in Acks : Pre!SourceOf(r) = "demand"
  BY PreAssumption DEF Pre!RequestAssumption, Pre!SourceOf, Pre!Frags

(* The encoder.                                                            *)
LEMMA EncoderStep ==
  ASSUME WordInv, NEW T, Quietly(T)
  PROVE  /\ EncLeft \in 1..(EncodeTime + 2) /\ EncLeft' \in 1..(EncodeTime + 2)
         /\ arb' \in Pre!Fsms \cup {"IDLE"}
         /\ arb = "IDLE" /\ Pre!Grant # "IDLE" =>
              /\ arb' = Pre!Grant /\ encStart' = pdu[Pre!Grant] /\ encStart' # NoReq
              /\ EncLeft' = EncodeTime + 2 /\ \A f \in Pre!Fsms : ~done'[f]
         /\ arb = "IDLE" /\ Pre!Grant = "IDLE" =>
              arb' = "IDLE" /\ \A f \in Pre!Fsms : ~done'[f]
         /\ arb # "IDLE" /\ EncLeft = 1 =>
              /\ arb' = "IDLE" /\ encStart = NoReq /\ coded'[arb] = encPdu
              /\ \A f \in Pre!Fsms : done'[f] <=> f = arb
         /\ arb # "IDLE" /\ EncLeft > 1 =>
              /\ arb' = arb /\ EncLeft' = EncLeft - 1 /\ \A f \in Pre!Fsms : ~done'[f]
              /\ encStart' = NoReq
              /\ encPdu' = IF encStart # NoReq THEN encStart ELSE encPdu
         /\ OneEncoding'
<1>1. Pre!EncoderEdge
  BY DEF Quietly, Pre!Edge
<1>2. OneEncoding /\ WordTypes
  BY DEF WordInv
<1>3. arb \in {"Sg", "Bl", "IDLE"} /\ encoding \in Nat
  BY <1>2 DEF WordTypes, Pre!Fsms
<1>4. EncLeft \in 1..(EncodeTime + 2)
  BY <1>2, <1>3, WordTimes DEF EncLeft, OneEncoding
<1>e. encValid' <=> encoding = 1
  BY <1>1 DEF Pre!EncoderEdge
<1>n. encoding' = IF encoding > 0 THEN encoding - 1
                  ELSE IF encStart # NoReq THEN EncodeTime ELSE 0
  BY <1>1 DEF Pre!EncoderEdge
<1>5. CASE arb = "IDLE" /\ Pre!Grant # "IDLE"
  <2>1. Pre!Grant \in Pre!Fsms /\ state[Pre!Grant] = "ENC"
    BY <1>5 DEF Pre!Grant, Pre!Requesting, Pre!Fsms
  <2>2. pdu[Pre!Grant] # NoReq
    BY <2>1 DEF WordInv, OwnJob
  <2>3. arb' = Pre!Grant /\ encStart' = pdu[Pre!Grant]
    BY <1>1, <1>5 DEF Pre!EncoderEdge
  <2>4. encoding' = 0 /\ ~encValid'
    BY <1>2, <1>5, <1>e, <1>n DEF OneEncoding
  <2>5. \A f \in Pre!Fsms : ~done'[f]
    BY <1>1, <1>5 DEF Pre!EncoderEdge, Pre!Finishes, Pre!Fsms
  <2>6. EncLeft' = EncodeTime + 2
    BY <2>2, <2>3 DEF EncLeft
  <2>7. OneEncoding'
    BY <2>1, <2>2, <2>3, <2>4, <2>5, WordTimes DEF OneEncoding, Pre!Fsms
  <2>. QED
    BY <1>4, <1>5, <2>1, <2>2, <2>3, <2>5, <2>6, <2>7, WordTimes
<1>6. CASE arb = "IDLE" /\ Pre!Grant = "IDLE"
  <2>1. arb' = "IDLE" /\ encStart' = NoReq /\ encoding' = 0 /\ ~encValid'
    <3>1. encStart = NoReq /\ encoding = 0
      BY <1>2, <1>6 DEF OneEncoding
    <3>2. arb' = "IDLE" /\ encStart' = NoReq
      BY <1>1, <1>6 DEF Pre!EncoderEdge
    <3>. QED
      BY <3>1, <3>2, <1>e, <1>n
  <2>2. \A f \in Pre!Fsms : ~done'[f]
    BY <1>1, <1>6 DEF Pre!EncoderEdge, Pre!Finishes, Pre!Fsms
  <2>3. OneEncoding' /\ EncLeft' = 1
    BY <2>1, <2>2, WordTimes DEF OneEncoding, Pre!Fsms, EncLeft
  <2>. QED
    BY <1>4, <1>6, <2>1, <2>2, <2>3, WordTimes
<1>7. CASE arb # "IDLE" /\ EncLeft = 1
  <2>1. encStart = NoReq /\ encoding = 0 /\ encValid
    BY <1>2, <1>3, <1>7, WordTimes DEF EncLeft, OneEncoding
  <2>2. arb' = "IDLE" /\ encStart' = NoReq /\ encoding' = 0 /\ ~encValid'
    <3>1. arb' = "IDLE" /\ encStart' = NoReq
      BY <1>1, <1>7, <2>1 DEF Pre!EncoderEdge
    <3>. QED
      BY <2>1, <3>1, <1>e, <1>n
  <2>3. \A f \in Pre!Fsms : done'[f] <=> f = arb
    BY <1>1, <2>1 DEF Pre!EncoderEdge, Pre!Finishes
  <2>4. coded'[arb] = encPdu
    BY <1>1, <1>3, <1>7, <2>1 DEF Pre!EncoderEdge, Pre!Finishes, Pre!Fsms
  <2>5. OneEncoding' /\ EncLeft' = 1
    BY <2>2, <2>3, WordTimes DEF OneEncoding, Pre!Fsms, EncLeft
  <2>. QED
    BY <1>4, <1>7, <2>1, <2>2, <2>3, <2>4, <2>5, WordTimes
<1>8. CASE arb # "IDLE" /\ EncLeft > 1
  <2>1. ~encValid
    BY <1>2, <1>8 DEF EncLeft, OneEncoding
  <2>2. arb' = arb /\ encStart' = NoReq
    BY <1>1, <1>8, <2>1 DEF Pre!EncoderEdge
  <2>3. \A f \in Pre!Fsms : ~done'[f]
    BY <1>1, <2>1 DEF Pre!EncoderEdge, Pre!Finishes
  <2>4. CASE encStart # NoReq
    <3>1. encoding = 0 /\ encoding' = EncodeTime /\ ~encValid' /\ encPdu' = encStart
      <4>1. encoding = 0
        BY <1>2, <2>4 DEF OneEncoding
      <4>2. encPdu' = encStart
        BY <1>1, <2>4, <4>1 DEF Pre!EncoderEdge
      <4>. QED
        BY <2>4, <4>1, <4>2, <1>e, <1>n
    <3>2. EncLeft = EncodeTime + 2 /\ EncLeft' = EncodeTime + 1
      BY <2>2, <2>4, <3>1, WordTimes DEF EncLeft
    <3>3. OneEncoding'
      BY <1>8, <2>2, <2>3, <3>1, WordTimes DEF OneEncoding, Pre!Fsms
    <3>4. EncLeft' = EncLeft - 1 /\ EncLeft' \in 1..(EncodeTime + 2)
      BY <3>2, WordTimes
    <3>5. arb' \in Pre!Fsms \cup {"IDLE"}
      BY <1>3, <2>2 DEF Pre!Fsms
    <3>. QED
      BY <1>4, <1>8, <2>2, <2>3, <2>4, <3>1, <3>3, <3>4, <3>5
  <2>5. CASE encStart = NoReq
    <3>1. encoding > 0 /\ encoding <= EncodeTime
      BY <1>2, <1>8, <2>1, <2>5 DEF OneEncoding
    <3>2. encoding' = encoding - 1 /\ (encValid' <=> encoding = 1) /\ encPdu' = encPdu
      BY <1>1, <2>5, <3>1 DEF Pre!EncoderEdge
    <3>3. EncLeft' = EncLeft - 1
      BY <1>3, <2>2, <2>5, <3>1, <3>2 DEF EncLeft
    <3>4. /\ encoding' > 0 => ~encValid'
          /\ encoding' > 0 \/ encValid'
          /\ encoding' <= EncodeTime
      BY <1>3, <3>1, <3>2, WordTimes
    <3>5. OneEncoding'
      BY <1>8, <2>2, <2>3, <3>4 DEF OneEncoding, Pre!Fsms
    <3>. QED
      BY <1>3, <1>4, <1>8, <2>2, <2>3, <2>5, <3>2, <3>3, <3>5, WordTimes DEF Pre!Fsms
  <2>. QED
    BY <2>4, <2>5
<1>. QED
  BY <1>4, <1>5, <1>6, <1>7, <1>8

(* The FSMs: what a clock edge does to one of them.                        *)
LEMMA FsmStep ==
  ASSUME WordInv, NEW T, Quietly(T), NEW f \in Pre!Fsms
  PROVE  /\ \/ /\ state[f] = "IDLE" /\ Pre!Begins(f, T)
               /\ state'[f] = "BUILD" /\ building'[f] = BuildTime
               /\ job'[f] \in Pre!Starts(f, T)
            \/ /\ state[f] = "IDLE" /\ ~Pre!Begins(f, T)
               /\ state'[f] = "IDLE" /\ building'[f] = 0
            \/ /\ state[f] = "BUILD" /\ building[f] > 0 /\ job'[f] = job[f]
               /\ state'[f] = "BUILD" /\ building'[f] = building[f] - 1
               /\ building[f] = 1 => pdu'[f] = job[f]
            \/ /\ state[f] = "BUILD" /\ building[f] = 0 /\ job'[f] = job[f]
               /\ state'[f] = "ENC" /\ building'[f] = 0 /\ pdu'[f] = pdu[f]
            \/ /\ state[f] = "ENC" /\ ~done[f] /\ job'[f] = job[f]
               /\ state'[f] = "ENC" /\ building'[f] = 0 /\ pdu'[f] = pdu[f]
            \/ /\ state[f] = "ENC" /\ done[f] /\ job'[f] = job[f]
               /\ state'[f] = "PUSH" /\ building'[f] = 0 /\ word'[f] = coded[f]
            \/ state[f] = "PUSH" /\ state'[f] = "IDLE" /\ building'[f] = 0
         /\ building[f] \in Nat /\ building'[f] \in Nat
<1>1. Pre!FsmEdge(T)
  BY DEF Quietly, Pre!Edge
<1>2. state[f] \in {"IDLE", "BUILD", "ENC", "PUSH"} /\ building[f] \in Nat
      /\ BuildTime \in Nat
  BY WordTimes DEF WordInv, WordTypes
<1>3. state'[f] = Pre!NextState(f, T)
  BY <1>1 DEF Pre!FsmEdge
<1>4. building'[f] = IF Pre!Begins(f, T) THEN BuildTime
                     ELSE IF building[f] > 0 THEN building[f] - 1 ELSE 0
  BY <1>1 DEF Pre!FsmEdge
<1>5. job'[f] = IF Pre!Begins(f, T) THEN CHOOSE r \in Pre!Starts(f, T) : TRUE ELSE job[f]
  BY <1>1 DEF Pre!FsmEdge
<1>6. pdu'[f] = IF building[f] = 1 THEN job[f] ELSE pdu[f]
  BY <1>1 DEF Pre!FsmEdge
<1>7. word'[f] = IF Pre!Encoded(f) THEN coded[f] ELSE word[f]
  BY <1>1 DEF Pre!FsmEdge
<1>8. building[f] > 0 => state[f] = "BUILD"
  BY DEF WordInv, OwnJob
<1>9. Pre!Begins(f, T) => state[f] = "IDLE" /\ job'[f] \in Pre!Starts(f, T)
  BY <1>5 DEF Pre!Begins
<1>10. CASE state[f] = "IDLE" /\ Pre!Begins(f, T)
  BY <1>2, <1>3, <1>4, <1>9, <1>10 DEF Pre!NextState
<1>11. CASE state[f] = "IDLE" /\ ~Pre!Begins(f, T)
  BY <1>2, <1>3, <1>4, <1>8, <1>11 DEF Pre!NextState, Pre!Built, Pre!Encoded
<1>12. CASE state[f] = "BUILD"
  BY <1>2, <1>3, <1>4, <1>5, <1>6, <1>9, <1>12 DEF Pre!NextState, Pre!Built, Pre!Encoded
<1>13. CASE state[f] = "ENC"
  BY <1>2, <1>3, <1>4, <1>5, <1>6, <1>7, <1>8, <1>9, <1>13
  DEF Pre!NextState, Pre!Built, Pre!Encoded
<1>14. CASE state[f] = "PUSH"
  BY <1>2, <1>3, <1>4, <1>8, <1>9, <1>14 DEF Pre!NextState, Pre!Built, Pre!Encoded
<1>. QED
  BY <1>2, <1>10, <1>11, <1>12, <1>13, <1>14

(* A source that triggers an FSM was quiet for the whole gap.              *)
LEMMA QuietStep ==
  ASSUME WordInv, NEW T, Quietly(T), NEW f \in Pre!Fsms
  PROVE  /\ Quiet(f) \in Nat /\ Quiet(f)' \in Nat /\ Quiet(f)' >= Quiet(f) - 1
         /\ Pre!Begins(f, T) => Quiet(f) = 0 /\ Quiet(f)' = Gap
<1>1. SrcOf(f) \in Pre!Sources /\ quiet \in [Pre!Sources -> Nat]
  BY DEF SrcOf, Pre!Sources, WordInv, WordTypes
<1>2. quiet' = [s \in Pre!Sources |->
                  IF \E r \in T : Pre!SourceOf(r) = s THEN Gap
                  ELSE IF quiet[s] > 0 THEN quiet[s] - 1 ELSE 0]
  BY DEF Quietly, Pre!Edge
<1>3. \A r \in T : quiet[Pre!SourceOf(r)] = 0
  BY DEF Quietly, Pre!Triggers
<1>4. CASE \E r \in T : Pre!SourceOf(r) = SrcOf(f)
  BY <1>1, <1>2, <1>3, <1>4, WordTimes DEF Quiet
<1>5. CASE ~\E r \in T : Pre!SourceOf(r) = SrcOf(f)
  <2>1. Quiet(f)' = IF Quiet(f) > 0 THEN Quiet(f) - 1 ELSE 0
    BY <1>1, <1>2, <1>5 DEF Quiet
  <2>2. ~Pre!Begins(f, T)
    <3>1. \A r \in Pre!Starts(f, T) : r \in T /\ Pre!SourceOf(r) = SrcOf(f)
      BY KindsDisjoint DEF Pre!Starts, SrcOf, Quietly, Pre!Fsms
    <3>. QED
      BY <1>5, <3>1 DEF Pre!Begins
  <2>. QED
    BY <1>1, <2>1, <2>2 DEF Quiet
<1>. QED
  BY <1>4, <1>5

(* The arbiter serves who asks, the grant first.                           *)
LEMMA GrantShape ==
  ASSUME WordInv
  PROVE  /\ Pre!Grant # "IDLE" => Pre!Grant \in Pre!Fsms /\ state[Pre!Grant] = "ENC"
         /\ state["Sg"] = "ENC" => Pre!Grant = "Sg"
         /\ state["Sg"] # "ENC" /\ state["Bl"] = "ENC" => Pre!Grant = "Bl"
  BY DEF Pre!Grant, Pre!Requesting, Pre!Fsms

(* Whom the encoder works for after a clock edge.                          *)
LEMMA ServedStep ==
  ASSUME WordInv, NEW T, Quietly(T), NEW f \in Pre!Fsms
  PROVE  /\ arb' = f => \/ arb = f /\ EncLeft > 1 /\ EncLeft' = EncLeft - 1
                        \/ /\ arb = "IDLE" /\ Pre!Grant = f /\ state[f] = "ENC"
                           /\ EncLeft' = EncodeTime + 2
         /\ done'[f] => arb = f /\ EncLeft = 1 /\ arb' = "IDLE"
<1>1. arb \in Pre!Fsms \cup {"IDLE"} /\ "IDLE" \notin Pre!Fsms
  BY DEF WordInv, WordTypes, Pre!Fsms
<1>2. arb # "IDLE" => EncLeft = 1 \/ EncLeft > 1
  BY EncoderStep, WordTimes
<1>. QED
  BY <1>1, <1>2, EncoderStep, GrantShape

(* An FSM that waits for the encoder comes nearer with every edge.         *)
LEMMA WaitStep ==
  ASSUME WordInv, NEW T, Quietly(T), NEW f \in Pre!Fsms,
         state[f] = "ENC", ~done[f], arb # f, ~(arb = "IDLE" /\ Pre!Grant = f)
  PROVE  Wait(f)' <= Wait(f) - 1 /\ Wait(f) \in Nat /\ Wait(f)' \in Nat
<1>1. /\ EncLeft \in Nat /\ EncLeft >= 1 /\ EncLeft' \in Nat
      /\ Encoding \in Nat /\ Encoding >= 4 /\ EncodeTime + 2 = Encoding - 1
  BY EncoderStep, WordTimes
<1>2. "Sg" \in Pre!Fsms /\ "Bl" \in Pre!Fsms /\ "IDLE" \notin Pre!Fsms
      /\ f \in {"Sg", "Bl"} /\ arb \in {"Sg", "Bl", "IDLE"}
  BY DEF Pre!Fsms, WordInv, WordTypes
<1>3. \A g \in Pre!Fsms : done[g] => arb = "IDLE"
  BY DEF WordInv, OneEncoding
<1>4. CASE f = "Sg"
  <2>1. arb = "Bl"
    BY <1>2, <1>4, GrantShape
  <2>2. CASE EncLeft = 1
    <3>1. arb' = "IDLE"
      BY <2>1, <2>2, EncoderStep
    <3>. QED
      BY <1>1, <1>4, <2>1, <2>2, <3>1 DEF Wait
  <2>3. CASE EncLeft > 1
    <3>1. arb' = "Bl" /\ EncLeft' = EncLeft - 1
      BY <2>1, <2>3, EncoderStep
    <3>. QED
      BY <1>1, <1>4, <2>1, <2>3, <3>1 DEF Wait
  <2>. QED
    BY <1>1, <2>2, <2>3
<1>5. CASE f = "Bl" /\ arb = "IDLE"
  <2>1. state["Sg"] = "ENC" /\ Pre!Grant = "Sg"
    BY <1>5, GrantShape
  <2>2. arb' = "Sg" /\ EncLeft' = Encoding - 1
    BY <1>1, <1>2, <1>5, <2>1, EncoderStep
  <2>3. CASE done["Sg"]
    <3>1. state'["Sg"] = "PUSH"
      BY <1>2, <2>1, <2>3, FsmStep
    <3>. QED
      BY <1>1, <1>5, <2>1, <2>2, <2>3, <3>1 DEF Wait
  <2>4. CASE ~done["Sg"]
    <3>1. state'["Sg"] = "ENC"
      BY <1>2, <2>1, <2>4, FsmStep
    <3>. QED
      BY <1>1, <1>5, <2>1, <2>2, <2>4, <3>1 DEF Wait
  <2>. QED
    BY <2>3, <2>4
<1>6. CASE f = "Bl" /\ arb = "Sg" /\ state["Sg"] = "ENC"
  <2>1. ~done["Sg"]
    BY <1>2, <1>3, <1>6
  <2>2. state'["Sg"] = "ENC"
    BY <1>2, <1>6, <2>1, FsmStep
  <2>3. Wait(f) = EncLeft + Encoding
    BY <1>6 DEF Wait
  <2>4. CASE EncLeft = 1
    <3>1. arb' = "IDLE" /\ done'["Sg"]
      BY <1>2, <1>6, <2>4, EncoderStep
    <3>2. Wait(f)' = Encoding
      BY <1>6, <2>2, <3>1 DEF Wait
    <3>. QED
      BY <1>1, <2>3, <2>4, <3>2
  <2>5. CASE EncLeft > 1
    <3>1. arb' = "Sg" /\ EncLeft' = EncLeft - 1
      BY <1>6, <2>5, EncoderStep
    <3>2. Wait(f)' = EncLeft' + Encoding
      BY <1>6, <2>2, <3>1 DEF Wait
    <3>. QED
      BY <1>1, <2>3, <3>1, <3>2
  <2>. QED
    BY <1>1, <2>4, <2>5
<1>7. CASE f = "Bl" /\ arb = "Sg" /\ state["Sg"] # "ENC"
  <2>1. state["Sg"] # "BUILD"
    BY <1>2, <1>7 DEF WordInv, OwnJob
  <2>2. state'["Sg"] # "ENC"
    BY <1>2, <1>7, <2>1, FsmStep
  <2>3. Wait(f) = EncLeft
    BY <1>7 DEF Wait
  <2>4. CASE EncLeft = 1
    <3>1. arb' = "IDLE"
      BY <1>2, <1>7, <2>4, EncoderStep
    <3>2. Wait(f)' = 0
      BY <1>7, <2>2, <3>1 DEF Wait
    <3>. QED
      BY <1>1, <2>3, <2>4, <3>2
  <2>5. CASE EncLeft > 1
    <3>1. arb' = "Sg" /\ EncLeft' = EncLeft - 1
      BY <1>7, <2>5, EncoderStep
    <3>2. Wait(f)' = EncLeft'
      BY <1>7, <2>2, <3>1 DEF Wait
    <3>. QED
      BY <1>1, <2>3, <3>1, <3>2
  <2>. QED
    BY <1>1, <2>4, <2>5
<1>. QED
  BY <1>2, <1>4, <1>5, <1>6, <1>7

LEMMA EnoughStep ==
  ASSUME GapOutlastsAnswer, WordInv, NEW T, Quietly(T), NEW f \in Pre!Fsms
  PROVE  Enough(f)'
<1>1. /\ EncLeft \in Nat /\ EncLeft >= 1 /\ EncLeft <= Encoding - 1
      /\ EncLeft' \in Nat /\ EncLeft' >= 1 /\ EncLeft' <= Encoding - 1
  BY EncoderStep, WordTimes
<1>2. /\ Quiet(f) \in Nat /\ Quiet(f)' \in Nat /\ Quiet(f)' >= Quiet(f) - 1
      /\ Encoding \in Nat /\ Encoding >= 4 /\ EncodeTime + 2 = Encoding - 1
  BY QuietStep, WordTimes
<1>3. Enough(f) /\ OwnJob(f) /\ OneEncoding
  BY DEF WordInv
<1>4. \A g \in Pre!Fsms : done[g] => arb = "IDLE"
  BY <1>3 DEF OneEncoding
<1>5. "IDLE" \notin Pre!Fsms /\ arb \in Pre!Fsms \cup {"IDLE"}
  BY DEF Pre!Fsms, WordInv, WordTypes
<1>6. building[f] \in Nat /\ building'[f] \in Nat
  BY FsmStep
<1>7. CASE Pre!Begins(f, T)
  <2>1. Quiet(f) = 0 /\ Quiet(f)' = Gap
    BY <1>7, QuietStep
  <2>2. state[f] = "IDLE" /\ state'[f] = "BUILD" /\ building'[f] = BuildTime
    BY <1>7, FsmStep DEF Pre!Begins
  <2>3. arb # f
    BY <1>1, <1>3, <2>1, <2>2 DEF Enough
  <2>4. ~done'[f]
    BY <2>3, ServedStep
  <2>5. Quiet(f)' >= building'[f] + 4 * Encoding + 2
    BY <2>1, <2>2 DEF GapOutlastsAnswer
  <2>. QED
    BY <2>2, <2>4, <2>5 DEF Enough
<1>8. CASE state'[f] = "IDLE"
  <2>1. state[f] \in {"PUSH", "IDLE"}
    BY <1>8, FsmStep
  <2>2. arb' = f => Quiet(f)' >= EncLeft' + 1
    BY <1>1, <1>2, <1>3, <2>1, ServedStep DEF Enough
  <2>3. done'[f] => Quiet(f)' >= 1
    BY <1>1, <1>2, <1>3, <2>1, ServedStep DEF Enough
  <2>. QED
    BY <1>8, <2>2, <2>3 DEF Enough
<1>9. CASE state[f] = "BUILD" /\ building[f] > 0
  <2>1. state'[f] = "BUILD" /\ building'[f] = building[f] - 1
    BY <1>9, FsmStep
  <2>2. ~done'[f]
    BY <1>3, <1>9, ServedStep DEF OwnJob
  <2>3. Quiet(f) >= building[f] + 4 * Encoding + 2
    BY <1>3, <1>9 DEF Enough
  <2>4. Quiet(f)' >= building'[f] + 4 * Encoding + 2
    BY <1>2, <1>6, <2>1, <2>3
  <2>. QED
    BY <2>1, <2>2, <2>4 DEF Enough
<1>10. CASE state[f] = "BUILD" /\ building[f] = 0
  <2>1. state'[f] = "ENC" /\ arb # f /\ ~done[f]
    BY <1>3, <1>10, FsmStep DEF OwnJob
  <2>2. arb' # f /\ ~done'[f]
    BY <1>10, <2>1, ServedStep
  <2>3. Wait(f)' <= 2 * Encoding /\ Wait(f)' \in Nat
    <3>1. Wait(f)' \in {0, EncLeft', EncLeft' + Encoding, Encoding, 2 * Encoding}
      BY DEF Wait
    <3>. QED
      BY <1>1, <1>2, <3>1
  <2>4. Quiet(f) >= 4 * Encoding + 2
    <3>1. Quiet(f) >= building[f] + 4 * Encoding + 2
      BY <1>3, <1>10 DEF Enough
    <3>. QED
      BY <1>2, <1>10, <3>1
  <2>5. Quiet(f)' >= Wait(f)' + 2 * Encoding + 1
    BY <1>2, <2>3, <2>4
  <2>. QED
    BY <2>1, <2>2, <2>5 DEF Enough
<1>11. CASE state[f] = "ENC" /\ done[f]
  <2>1. state'[f] = "PUSH" /\ arb = "IDLE" /\ Quiet(f) >= Encoding + 1
    BY <1>3, <1>4, <1>11, FsmStep DEF Enough
  <2>2. arb' = f => EncLeft' = EncodeTime + 2
    BY <1>5, <2>1, ServedStep
  <2>3. Quiet(f)' >= Encoding
    BY <1>2, <2>1
  <2>. QED
    BY <1>2, <2>1, <2>2, <2>3 DEF Enough
<1>12. CASE state[f] = "ENC" /\ ~done[f] /\ arb = f
  <2>1. state'[f] = "ENC" /\ Quiet(f) >= EncLeft + Encoding + 1
    BY <1>3, <1>12, FsmStep DEF Enough
  <2>2. CASE EncLeft = 1
    <3>1. arb' = "IDLE" /\ done'[f]
      BY <1>5, <1>12, <2>2, EncoderStep
    <3>2. Quiet(f)' >= Encoding + 1
      BY <1>2, <2>1, <2>2
    <3>. QED
      BY <1>2, <1>5, <2>1, <3>1, <3>2 DEF Enough
  <2>3. CASE EncLeft > 1
    <3>1. arb' = f /\ ~done'[f] /\ EncLeft' = EncLeft - 1
      BY <1>5, <1>12, <2>3, EncoderStep
    <3>2. Quiet(f)' >= EncLeft' + Encoding + 1
      BY <1>1, <1>2, <2>1, <3>1
    <3>. QED
      BY <2>1, <3>1, <3>2 DEF Enough
  <2>. QED
    BY <1>1, <2>2, <2>3
<1>13. CASE state[f] = "ENC" /\ ~done[f] /\ arb # f
  <2>1. state'[f] = "ENC" /\ Quiet(f) >= Wait(f) + 2 * Encoding + 1
    BY <1>3, <1>13, FsmStep DEF Enough
  <2>2. ~done'[f]
    BY <1>13, ServedStep
  <2>3. CASE arb = "IDLE" /\ Pre!Grant = f
    <3>1. arb' = f /\ EncLeft' = EncodeTime + 2
      BY <1>5, <2>3, EncoderStep
    <3>2. Wait(f) \in Nat
      BY <1>1, <1>2 DEF Wait
    <3>3. Quiet(f)' >= EncLeft' + Encoding + 1
      BY <1>2, <2>1, <3>1, <3>2
    <3>. QED
      BY <2>1, <2>2, <3>1, <3>3 DEF Enough
  <2>4. CASE ~(arb = "IDLE" /\ Pre!Grant = f)
    <3>1. arb' # f
      BY <1>13, <2>4, ServedStep
    <3>2. Wait(f)' <= Wait(f) - 1 /\ Wait(f) \in Nat /\ Wait(f)' \in Nat
      BY <1>13, <2>4, WaitStep
    <3>3. Quiet(f)' >= Wait(f)' + 2 * Encoding + 1
      BY <1>2, <2>1, <3>2
    <3>. QED
      BY <2>1, <2>2, <3>1, <3>3 DEF Enough
  <2>. QED
    BY <2>3, <2>4
<1>. QED
  BY <1>7, <1>8, <1>9, <1>10, <1>11, <1>12, <1>13, FsmStep

(* The encoder has the PDU of the job of an FSM in ENC.                    *)
LEMMA OwnJobStep ==
  ASSUME WordInv, NEW T, Quietly(T), NEW f \in Pre!Fsms
  PROVE  OwnJob(f)'
<1>1. OwnJob(f) /\ Enough(f) /\ OneEncoding
  BY DEF WordInv
<1>2. building[f] \in Nat /\ building'[f] \in Nat /\ EncLeft \in Nat /\ EncLeft >= 1
  BY FsmStep, EncoderStep, WordTimes
<1>3. "IDLE" \notin Pre!Fsms /\ arb \in Pre!Fsms \cup {"IDLE"}
  BY DEF Pre!Fsms, WordInv, WordTypes
<1>4. CASE Pre!Begins(f, T)
  <2>1. state[f] = "IDLE" /\ state'[f] = "BUILD" /\ building'[f] = BuildTime
        /\ job'[f] \in Pre!Starts(f, T)
    BY <1>4, FsmStep DEF Pre!Begins
  <2>2. job'[f] # NoReq
    BY <2>1, KindsDisjoint DEF Pre!Starts, Pre!Requests, Pre!Frags, Quietly
  <2>3. arb # f
    BY <1>1, <1>2, <1>4, <2>1, QuietStep DEF Enough
  <2>4. arb' # f /\ ~done'[f]
    BY <2>1, <2>3, ServedStep
  <2>. QED
    BY <2>1, <2>2, <2>4, WordTimes DEF OwnJob
<1>5. CASE state'[f] = "IDLE"
  <2>1. building'[f] = 0
    BY <1>5, FsmStep
  <2>. QED
    BY <1>5, <2>1 DEF OwnJob
<1>6. CASE state[f] = "BUILD" /\ building[f] > 0
  <2>1. /\ state'[f] = "BUILD" /\ building'[f] = building[f] - 1 /\ job'[f] = job[f]
        /\ building[f] = 1 => pdu'[f] = job[f]
    BY <1>6, FsmStep
  <2>2. arb' # f /\ ~done'[f] /\ job[f] # NoReq
    BY <1>1, <1>6, ServedStep DEF OwnJob
  <2>3. building'[f] = 0 => building[f] = 1
    BY <1>2, <2>1
  <2>. QED
    BY <2>1, <2>2, <2>3 DEF OwnJob
<1>7. CASE state[f] = "BUILD" /\ building[f] = 0
  <2>1. /\ state'[f] = "ENC" /\ building'[f] = 0 /\ job'[f] = job[f]
        /\ pdu'[f] = pdu[f]
    BY <1>7, FsmStep
  <2>2. arb' # f /\ ~done'[f] /\ job[f] # NoReq /\ pdu[f] = job[f]
    BY <1>1, <1>7, ServedStep DEF OwnJob
  <2>. QED
    BY <2>1, <2>2 DEF OwnJob
<1>8. CASE state[f] = "ENC" /\ ~done[f]
  <2>1. /\ state'[f] = "ENC" /\ building'[f] = 0 /\ job'[f] = job[f]
        /\ pdu'[f] = pdu[f]
    BY <1>8, FsmStep
  <2>2. job[f] # NoReq /\ pdu[f] = job[f]
        /\ (arb = f => IF encStart # NoReq THEN encStart = job[f] ELSE encPdu = job[f])
    BY <1>1, <1>8 DEF OwnJob
  <2>3. (arb = f => IF encStart # NoReq THEN encStart = job[f] ELSE encPdu = job[f])'
    <3>1. CASE arb' = f /\ arb = f /\ EncLeft > 1
      BY <1>3, <2>1, <2>2, <3>1, EncoderStep
    <3>2. CASE arb' = f /\ arb = "IDLE" /\ Pre!Grant = f
      BY <1>3, <2>1, <2>2, <3>2, EncoderStep
    <3>. QED
      BY <3>1, <3>2, ServedStep
  <2>4. (done[f] => coded[f] = job[f])'
    <3>1. CASE done'[f]
      <4>1. arb = f /\ EncLeft = 1
        BY <3>1, ServedStep
      <4>2. encStart = NoReq /\ coded'[f] = encPdu
        BY <1>3, <4>1, EncoderStep
      <4>. QED
        BY <2>1, <2>2, <4>1, <4>2
    <3>. QED
      BY <3>1
  <2>. QED
    BY <2>1, <2>2, <2>3, <2>4 DEF OwnJob
<1>9. CASE state[f] = "ENC" /\ done[f]
  <2>1. /\ state'[f] = "PUSH" /\ building'[f] = 0 /\ job'[f] = job[f]
        /\ word'[f] = coded[f]
    BY <1>9, FsmStep
  <2>2. job[f] # NoReq /\ coded[f] = job[f]
    BY <1>1, <1>9 DEF OwnJob
  <2>. QED
    BY <2>1, <2>2 DEF OwnJob
<1>. QED
  BY <1>4, <1>5, <1>6, <1>7, <1>8, <1>9, FsmStep

LEMMA WordTypesStep ==
  ASSUME WordInv, NEW T, Quietly(T)
  PROVE  WordTypes'
<1>1. Pre!FsmEdge(T) /\ Pre!EncoderEdge
  BY DEF Quietly, Pre!Edge
<1>2. \A f \in Pre!Fsms : state'[f] \in {"IDLE", "BUILD", "ENC", "PUSH"}
                          /\ building'[f] \in Nat
  BY FsmStep
<1>3. /\ state' \in [Pre!Fsms -> {"IDLE", "BUILD", "ENC", "PUSH"}]
      /\ building' \in [Pre!Fsms -> Nat]
  BY <1>1, <1>2 DEF Pre!FsmEdge
<1>4. encoding' \in Nat
  BY <1>1, WordTimes DEF Pre!EncoderEdge, WordInv, WordTypes
<1>5. arb' \in Pre!Fsms \cup {"IDLE"}
  BY EncoderStep
<1>6. done' \in [Pre!Fsms -> BOOLEAN] /\ encValid' \in BOOLEAN
  BY <1>1 DEF Pre!EncoderEdge, Pre!Finishes, WordInv, WordTypes
<1>7. quiet' \in [Pre!Sources -> Nat]
  BY WordTimes DEF Quietly, Pre!Edge, WordInv, WordTypes
<1>. QED
  BY <1>3, <1>4, <1>5, <1>6, <1>7 DEF WordTypes

LEMMA WordInvStep ==
  ASSUME GapOutlastsAnswer, WordInv, NEW T, Quietly(T)
  PROVE  WordInv'
<1>1. WordTypes' /\ OneEncoding'
  BY WordTypesStep, EncoderStep
<1>2. \A f \in Pre!Fsms : Enough(f)' /\ OwnJob(f)'
  BY EnoughStep, OwnJobStep
<1>3. Pre!OwnWord'
  <2>1. sent' = sent \cup {<<job[f], word[f]>> : f \in
                              {g \in Pre!Fsms : state[g] = "PUSH"}}
    BY DEF Quietly, Pre!Edge, Pre!FsmEdge
  <2>2. \A f \in Pre!Fsms : state[f] = "PUSH" => word[f] = job[f]
    BY DEF WordInv, OwnJob
  <2>. QED
    BY <2>1, <2>2 DEF WordInv, Pre!OwnWord
<1>. QED
  BY <1>1, <1>2, <1>3 DEF WordInv

-----------------------------------------------------------------------------
(* Software requests no grant unless it is called with one.                *)

LEMMA OnlyCalledStep ==
  ASSUME TypeOK, OnlyCalled, NEW T, NEW d, NEW p, Step(T, d, p)
  PROVE  OnlyCalled' /\ called \subseteq called'
<1>1. SwEdge(p)
  BY DEF Step, Edge
<1>2. called \subseteq called' /\ cur' \in called' \cup {NoReq}
  BY <1>1 DEF SwEdge, OnlyCalled
<1>3. mb' = [w \in DOMAIN mb |-> IF sw = w THEN cur ELSE mb[w]]
      /\ mb \in [addr : PduOrNone, body : PduOrNone, raw : PduOrNone]
  BY <1>1 DEF SwEdge, TypeOK, SwTypes, Groups
<1>4. {mb'.addr, mb'.body, mb'.raw} \subseteq {cur, mb.addr, mb.body, mb.raw}
  BY <1>3
<1>. QED
  BY <1>2, <1>4 DEF OnlyCalled

LEMMA NoGrantStep ==
  ASSUME OnlyCalled, NoGrants, NEW T, NEW d, NEW p, Step(T, d, p)
  PROVE  Quietly(T)
<1>1. GoGrant = {}
  BY PduAssumption DEF OnlyCalled, NoGrants, GoGrant, SlotGrantFlag, Pdus
<1>. QED
  BY <1>1 DEF Step, Edge, UplinkBursts, Quietly

LEMMA InitWords == Init => WordsInv
<1> SUFFICES ASSUME Init PROVE WordsInv
  OBVIOUS
<1>. USE DEF Init, Pre!Init
<1>1. WordTypes
  BY DEF WordTypes
<1>2. OneEncoding
  BY WordTimes DEF OneEncoding, Pre!Fsms
<1>3. \A f \in Pre!Fsms : Enough(f) /\ OwnJob(f)
  BY DEF Enough, OwnJob, Pre!Fsms
<1>4. Pre!OwnWord /\ OnlyCalled
  BY DEF Pre!OwnWord, OnlyCalled
<1>. QED
  BY <1>1, <1>2, <1>3, <1>4 DEF WordsInv, WordInv

LEMMA WordsStep == GapOutlastsAnswer /\ TypeOK /\ WordsInv /\ [Next]_vars => WordsInv'
<1> SUFFICES ASSUME GapOutlastsAnswer, TypeOK, WordsInv, [Next]_vars PROVE WordsInv'
  OBVIOUS
<1>1. CASE Next
  <2>1. PICK T, d, p : Step(T, d, p)
    BY <1>1, NextStep
  <2>2. OnlyCalled' /\ called \subseteq called'
    BY <2>1, OnlyCalledStep DEF WordsInv
  <2>3. NoGrants' => NoGrants
    BY <2>2 DEF NoGrants
  <2>4. NoGrants => WordInv'
    BY <2>1, NoGrantStep, WordInvStep DEF WordsInv
  <2>. QED
    BY <2>2, <2>3, <2>4 DEF WordsInv
<1>2. CASE UNCHANGED vars
  BY <1>2 DEF vars, preVars, swVars, mleVars, WordsInv, OnlyCalled, NoGrants, WordInv,
     WordTypes, OneEncoding, Enough, OwnJob, Quiet, EncLeft, Wait, Pre!OwnWord
<1>. QED
  BY <1>1, <1>2

(* Each answer of the pre-reply FSMs is sent with the code word of its own *)
(* PDU until software requests grants itself: the second encoding of a PDU *)
(* is over, also behind the other FSM's, before a burst of its source can  *)
(* start the FSM again.                                                    *)
THEOREM OwnWordCorrect ==
  ASSUME SleepSeesBusy, GapOutlastsAnswer PROVE Spec => []OwnWord
<1>1. Init => PathInv /\ WordsInv
  BY InitPath, InitWords DEF NoLossInv
<1>2. PathInv /\ WordsInv /\ [Next]_vars => (PathInv /\ WordsInv)'
  BY PathStep, WordsStep DEF PathInv
<1>3. WordsInv => OwnWord
  BY DEF WordsInv, OwnWord, NoGrants, WordInv
<1>. QED
  BY <1>1, <1>2, <1>3, PTL DEF Spec
=============================================================================
