-------------------------------- MODULE PduBench --------------------------------
(***************************************************************************)
(* A PDU goes over the air, is damaged or not, and is read by the decoders *)
(* of the repository, which parse the same PDUs each with code of its own: *)
(* decode_dl.py and decode_ul.py burst by burst, decode_pdu.py from the    *)
(* command line, reassemble_ul_demand.py from the two halves of a demand.  *)
(*                                                                         *)
(* The sender is the environment: it lists the fields of a PDU with their  *)
(* bits, under the names decode_pdu.py has for them.                       *)
(***************************************************************************)
EXTENDS PduCli
U == INSTANCE UlPdu

CONSTANTS
  Kinds,      \* the PDUs sent, of the five decode_pdu.py knows
  Addresses,  \* address types of the downlink
  LlcTypes,   \* of the LLC header
  MaxOptions, \* how many optional parts a PDU has at most, or lacks at most
  MaxTried,   \* how many it has at most, if not all, to be damaged or divided
  MaxGroups   \* how many groups a demand in two halves asks for at most

ASSUME PduBenchAssumption ==
  /\ Kinds \subseteq {"D-CONNECT", "D-LOC-UPD-ACCEPT", "U-ITSI-DETACH", "U-LOC-UPD-DEMAND", "U-SETUP"}
  /\ Addresses \subseteq 1..7 /\ LlcTypes \subseteq 0..3
  /\ MaxOptions \in Nat /\ MaxTried \in Nat /\ MaxGroups \in Nat \ {0}

VARIABLES
  kind,   \* the PDU, and how it is sent
  addr,
  llcType,
  opts,   \* its optional parts, and the short forms of its addresses
  fill,   \* its fill bit flag
  groups, \* the groups a demand in two halves asks for
  split,  \* how many bits of it go into the first half, 0: yet to be divided, or -1: whole
  flip    \* the bit received wrong, or 0

vars == <<kind, addr, llcType, opts, fill, groups, split, flip>>

Down == kind \in {"D-CONNECT", "D-LOC-UPD-ACCEPT"}

-----------------------------------------------------------------------------
(* The sender.  A field is its name and its bits; bits that do not matter  *)
(* have a pattern that ends on a 1.                                        *)

Pattern(w) == [i \in 1..w |-> IF (w - i) % 3 = 1 THEN 0 ELSE 1]
Plain(fields) == [i \in DOMAIN fields |-> <<fields[i][1], Pattern(fields[i][2])>>]
Flag(name, o) == << <<name, <<IF o \in opts THEN 1 ELSE 0>> >> >>
Part(name, o, fields) == Flag(name, o) \o IF o \in opts THEN fields ELSE << >>
Optional(name, o, w) == Part(name \o "_pbit", o, Plain(<< <<name, w>> >>))
Element(name, o, id, data) ==
  IF o \notin opts THEN << >>
  ELSE << <<name, <<1>> \o Bits(id, 4)>>, <<name \o "_len", Bits(Len(data), 11)>>, <<name \o "_data", data>> >>
AnyOf(os) == << <<"obit", <<IF opts \cap os # {} THEN 1 ELSE 0>> >> >>
IfAny(os, fields) == IF opts \cap os # {} THEN fields ELSE << >>
NoMore == << <<"trailing_mbit", <<0>> >> >>
BitsOf(fields) == FlattenSeq([i \in DOMAIN fields |-> fields[i][2]])

SentChannel ==
  Plain(<< <<"allocation_type", 2>>, <<"timeslot_assigned", 4>>, <<"uplink_downlink_assigned", 2>>,
           <<"clch_permission", 1>>, <<"cell_change_flag", 1>>, <<"carrier_number", 12>> >>)
    \o Part("extended_carrier_flag", "carrier", Plain(ExtendedCarrier))
    \o IF "monitor" \in opts THEN << <<"monitoring_pattern", <<1, 0>> >> >>
       ELSE << <<"monitoring_pattern", <<0, 0>> >>, <<"frame18_monitoring_pattern", <<1, 1>> >> >>
SentResource(flag) ==
  << <<"pdu_type", <<0, 0>> >>, <<"fill_bit", <<flag>> >>, <<"position_of_grant", <<0>> >>,
     <<"encryption_mode", <<0, 0>> >>, <<"random_access_flag", <<1>> >>,
     <<"length_indicator", Bits(20, 6)>>, <<"address_type", Bits(addr, 3)>> >>
  \o Plain(AddressFields(addr))
  \o Part("power_control_flag", "power", Plain(<< <<"power_control_element", 4>> >>))
  \o Part("slot_granting_flag", "grant", Plain(<< <<"slot_granting", 8>> >>))
  \o Part("channel_allocation_flag", "channel", SentChannel)
(* The capacity request goes with a fragment.                              *)
SentAccess(flag) ==
  << <<"mac_pdu_type", <<0>> >>, <<"fill_bits", <<flag>> >>, <<"encrypted", <<0>> >> >>
  \o (IF "label" \in opts THEN << <<"addr_type", <<0, 1>> >>, <<"address", Pattern(10)>> >>
      ELSE << <<"addr_type", <<0, 0>> >>, <<"address", Pattern(24)>> >>)
  \o (IF split >= 0
      THEN << <<"optional_field_flag", <<1>> >>, <<"length_ind_or_cap_req", <<1>> >>,
              <<"frag_flag", <<1>> >>, <<"reservation_req", <<0, 0, 0, 1>> >> >>
      ELSE Part("optional_field_flag", "length",
                << <<"length_ind_or_cap_req", <<0>> >>, <<"length_ind", Pattern(5)>> >>))
SentLlc == << <<"llc_type", Bits(llcType, 4)>> >> \o Plain(LlcCounters(llcType))
SentMle == << <<"discriminator", Bits(IF kind \in {"D-CONNECT", "U-SETUP"} THEN 2 ELSE 1, 3)>> >>

SentConnect ==
  LET os == {"priority", "service", "temporary", "notify", "facility"} IN
  << <<"pdu_type", Bits(2, 5)>> >>
  \o Plain(<< <<"call_identifier", 14>>, <<"call_time_out", 4>>, <<"hook_method_selection", 1>>,
              <<"simplex_duplex_selection", 1>>, <<"transmission_grant", 2>>,
              <<"transmission_request_permission", 1>>, <<"call_ownership", 1>> >>)
  \o AnyOf(os)
  \o IfAny(os,
       Optional("call_priority", "priority", 4)
         \o Part("basic_service_information_pbit", "service", Plain(ServiceInformation))
         \o Optional("temporary_address", "temporary", 24)
         \o Optional("notification_indicator", "notify", 6)
         \o Element("facility", "facility", 3, Pattern(9)) \o NoMore)

SentAccept ==
  LET os == {"ssi", "ext", "class", "saving", "scch", "area", "group", "lifetime"}
      report == << <<"group_identity_accept_reject", <<0>> >>, <<"reserved", <<0>> >>,
                   <<"gila_obit", <<1>> >>,
                   <<"group_identity_downlink", <<1, 0, 1, 1, 1>> >>,
                   <<"group_identity_downlink_len", Bits(6 + 32, 11)>>,
                   <<"group_identity_downlink_elems", Bits(1, 6)>>,
                   <<"group_identity_downlink_data", Pattern(32)>>,
                   <<"gila_trailing_mbit", <<0>> >> >>
  IN  << <<"pdu_type", Bits(5, 4)>> >> \o Plain(<< <<"location_update_accept_type", 3>> >>)
      \o AnyOf(os)
      \o IfAny(os,
           Optional("ssi", "ssi", 24) \o Optional("address_extension", "ext", 24)
             \o Optional("subscriber_class", "class", 16)
             \o Part("energy_saving_information_pbit", "saving",
                     Plain(<< <<"energy_saving_mode", 3>>, <<"frame_number", 5>>,
                              <<"multiframe_number", 6>> >>))
             \o << <<"scch_info_pbit", <<IF "scch" \in opts THEN 1 ELSE 0>> >> >>
             \o (IF "scch" \in opts THEN Plain(<< <<"scch_information", 6>> >>) ELSE << >>)
             \o (IF "area" \notin opts THEN << >>
                 ELSE << <<"new_registered_area", <<1, 0, 0, 1, 0>> >>,
                         <<"new_registered_area_len", Bits(6 + 15, 11)>>,
                         <<"new_registered_area_elems", Bits(1, 6)>>,
                         <<"new_registered_area_data", Pattern(15)>> >>)
             \o (IF "group" \notin opts THEN << >>
                 ELSE << <<"group_identity_location_accept", <<1, 0, 1, 0, 1>> >>,
                         <<"group_identity_location_accept_len", Bits(Len(BitsOf(report)), 11)>> >>
                      \o report)
             \o Element("default_group_attachment_lifetime", "lifetime", 1, Pattern(3)) \o NoMore)

SentDetach ==
  LET os == {"ext"} IN
  << <<"pdu_type", Bits(1, 4)>> >> \o AnyOf(os)
    \o IfAny(os, Optional("address_extension", "ext", 24) \o NoMore)

SentDemand ==
  LET os == {"cms", "saving", "la", "ssi", "ext"} IN
  << <<"pdu_type", Bits(2, 4)>> >> \o Plain(<< <<"location_update_type", 3>>, <<"request_to_append_la", 1>> >>)
    \o Part("cipher_control", "cipher", Plain(<< <<"ciphering_parameters", 10>> >>))
    \o << <<"obit", <<IF split >= 0 \/ opts \cap os # {} THEN 1 ELSE 0>> >> >>
    \o (IF split < 0 /\ opts \cap os = {} THEN << >>
        ELSE Part("class_of_ms_pbit", "cms", Plain(<< <<"class_of_ms", 24>> >>))
               \o Optional("energy_saving_mode", "saving", 3)
               \o Optional("la_information", "la", 15)
               \o Optional("ssi", "ssi", 24) \o Optional("address_extension", "ext", 24))

SentSetup ==
  LET os == {"facility"} IN
  << <<"pdu_type", Bits(7, 5)>> >>
  \o Plain(<< <<"area_selection", 4>>, <<"hook_method_selection", 1>>, <<"simplex_duplex_selection", 1>> >>
           \o ServiceInformation \o << <<"request_to_transmit_send_data", 1>>, <<"call_priority", 4>>,
                                       <<"clir_control", 2>> >>)
  \o (IF "short" \in opts
      THEN << <<"called_party_type_identifier", <<0, 0>> >>,
              <<"called_party_short_number_address", Pattern(8)>> >>
      ELSE << <<"called_party_type_identifier", <<0, 1>> >>, <<"called_party_ssi", Pattern(24)>> >>)
  \o AnyOf(os) \o IfAny(os, Element("facility", "facility", 3, Pattern(3)) \o NoMore)

SentBody ==
  CASE kind = "D-CONNECT"        -> SentConnect
    [] kind = "D-LOC-UPD-ACCEPT" -> SentAccept
    [] kind = "U-ITSI-DETACH"    -> SentDetach
    [] kind = "U-LOC-UPD-DEMAND" -> SentDemand
    [] kind = "U-SETUP"          -> SentSetup
Layers(flag) ==
  << IF Down THEN SentResource(flag) ELSE SentAccess(flag), SentLlc, SentMle, SentBody >>
SentLayers == Layers(fill)

(* Fill bits: a 1 and zeros.                                               *)
BlockLength == IF Down THEN 268 ELSE 92
FillTo(bits, n) == bits \o [i \in 1..(n - Len(bits)) |-> IF i = 1 THEN 1 ELSE 0]
Flat(layers) == FlattenSeq([i \in DOMAIN layers |-> BitsOf(layers[i])])
Pdu == Flat(SentLayers)
Block ==
  LET sent == FillTo(Pdu, BlockLength)
  IN  IF flip = 0 THEN sent ELSE [sent EXCEPT ![flip] = 1 - @]

(* A demand in two halves: groups to attach to or to detach from, with     *)
(* addresses of each type.                                                 *)
GroupLists ==
  UNION {[1..n -> [type : 0..2, detach : BOOLEAN]] : n \in 1..MaxGroups}
GroupFields(g) ==
  (IF g.detach THEN <<1, 0, 1>> ELSE <<0, 1, 0, 1>>) \o Bits(g.type, 2) \o Bits(1000 + g.type, 24)
    \o (IF g.type = 1 THEN Pattern(24) ELSE << >>)
GroupDemand ==
  LET list == FlattenSeq([k \in DOMAIN groups |-> GroupFields(groups[k])])
  IN  <<1, 0, 1, 1>> \o Bits(7, 4) \o Bits(6 + Len(list), 11) \o Bits(Len(groups), 6) \o list
LongDemand ==
  BitsOf(SentLlc) \o BitsOf(SentMle) \o BitsOf(SentDemand)
    \o <<1>> \o Bits(3, 4) \o Bits(Len(GroupDemand), 11) \o GroupDemand
EndLength == 85
FirstPart == BitsOf(SentAccess(fill)) \o SubSeq(LongDemand, 1, split)
SecondPart ==
  LET rest == SubSeq(LongDemand, split + 1, Len(LongDemand))
  IN  <<1, IF Len(rest) = EndLength THEN 0 ELSE 1, 0>> \o Bits((Len(rest) + 7) \div 8, 4) \o rest
Half1 == FillTo(FirstPart, 92)
Half2 == FillTo(SecondPart, 92)

(* The flag says if fill bits follow.                                      *)
FillFlag(n) == IF n = BlockLength THEN 0 ELSE 1

-----------------------------------------------------------------------------
Options ==
  (IF Down THEN {"power", "grant", "channel", "carrier", "monitor"} ELSE {"length", "label"})
    \cup (CASE kind = "D-CONNECT" -> {"priority", "service", "temporary", "notify", "facility"}
            [] kind = "D-LOC-UPD-ACCEPT"
                 -> {"ssi", "ext", "class", "saving", "scch", "area", "group", "lifetime"}
            [] kind = "U-ITSI-DETACH"    -> {"ext"}
            [] kind = "U-LOC-UPD-DEMAND" -> {"cipher", "cms", "saving", "la", "ssi", "ext"}
            [] kind = "U-SETUP"          -> {"facility", "short"})

Chosen(x) ==
  /\ Cardinality(x) <= MaxOptions \/ Cardinality(Options \ x) <= MaxOptions
  /\ x \cap {"carrier", "monitor"} # {} => "channel" \in x

Init ==
  /\ kind \in Kinds /\ llcType \in LlcTypes
  /\ addr \in (IF Down THEN Addresses ELSE {1})
  /\ opts \in {x \in SUBSET Options : Chosen(x)}
  /\ groups = << >> /\ split = -1 /\ flip = 0
  /\ \E n \in {Len(Flat(Layers(1)))} : n <= BlockLength /\ fill = FillFlag(n)

Tried == Cardinality(opts) <= MaxTried \/ opts = Options

Damage(k) ==
  /\ split = -1 /\ flip = 0 /\ Tried
  /\ flip' = k
  /\ UNCHANGED <<kind, addr, llcType, opts, fill, groups, split>>

(* A demand may ask for groups; it is too long for a block then, and is    *)
(* divided.                                                                *)
AskFor(g) ==
  /\ kind = "U-LOC-UPD-DEMAND" /\ split = -1 /\ flip = 0 /\ Tried
  /\ "length" \notin opts
  /\ groups' = g /\ split' = 0
  /\ UNCHANGED <<kind, addr, llcType, opts, fill, flip>>
Divide(s) ==
  /\ split = 0 /\ s < Len(LongDemand)
  /\ Len(FirstPart) + s <= BlockLength
  /\ Len(LongDemand) - s <= EndLength
  /\ split' = s /\ fill' = FillFlag(Len(FirstPart) + s)
  /\ UNCHANGED <<kind, addr, llcType, opts, groups, flip>>

Next ==
  \/ \E k \in 1..Len(Pdu) : Damage(k)
  \/ \E g \in GroupLists : AskFor(g)
  \/ \E s \in 1..BlockLength : Divide(s)
Spec == Init /\ [][Next]_vars

-----------------------------------------------------------------------------
(* Properties.                                                             *)

Names(fields) == {fields[i][1] : i \in DOMAIN fields}
Reads(bits, r, fields) ==
  /\ DOMAIN r.read = Names(fields)
  /\ \A i \in DOMAIN fields :
       LET span == r.read[fields[i][1]]
       IN  SubSeq(bits, span[1] + 1, span[1] + span[2]) = fields[i][2]

AllRead(readers) == \A k \in 1..4 : Reads(Block, readers[k], SentLayers[k])

(* Whatever few of the parts of Options a PDU has, or whatever few of them *)
(* it lacks, as far as it fits into one block: decode_pdu.py reads of it   *)
(* every field that was sent, with its bits, and no other.                 *)
ReadAsSent == split = -1 /\ flip = 0 => AllRead(DecodeBurst(Block, kind))

(* The same name is the same bits.                                         *)
Agree(r, s) == \A n \in DOMAIN r.read \cap DOMAIN s.read : r.read[n] = s.read[n]

(* The readers of a block, those of recordings layer by layer.             *)
Digits(bits) ==
  LET n == Len(bits) \div 4
  IN  [i \in 1..n |-> Number(Reverse(SubSeq(bits, 4 * (n - i) + 1, 4 * (n - i) + 4)))]
Registers == << Digits(SubSeq(Block, 65, 92)), Digits(SubSeq(Block, 33, 64)), Digits(SubSeq(Block, 1, 32)) >>
FromRegisters == LET r == ParseHexArgs(Registers) IN ToBits(r[1], r[2], r[3])
WithMle(mac, llc, mle) ==
  << mac, llc, mle,
     IF Down THEN MmPdu(Block, mle.at, 5)
     ELSE U!UlMm(Block, mle.at, Value(Block, mle, "mm_type")) >>
WithLlc(mac, llc) ==
  WithMle(mac, llc, IF Down THEN Mle(Block, llc.at) ELSE U!UlMle(Block, llc.at))
WithMac(mac) == WithLlc(mac, Llc(Block, mac.at))
Recorded == WithMac(IF Down THEN MacPdu(Block) ELSE U!AccessHeader(Block))
LoopAgrees(loop, rec) ==
  /\ \A k \in DOMAIN loop : loop[k].at <= Len(Block)
  /\ flip = 0 => Len(loop) > 2 /\ loop = SubSeq(rec, 1, Len(loop))
LayersAgree(rec, cli) ==
  (/\ Extract(Block, 0, IF Down THEN 2 ELSE 1) = 0
   /\ Value(Block, rec[1], "address_type") # 0) =>
     /\ \A k \in 1..2 : Agree(rec[k], cli[k]) /\ rec[k].at = cli[k].at
     /\ Value(Block, rec[3], "mle_disc") = Value(Block, cli[3], "discriminator")
     /\ (/\ Value(Block, rec[3], "mm_type") = Value(Block, cli[4], "pdu_type")
         /\ Value(Block, cli[4], "cipher_control") # 1
         /\ Value(Block, cli[4], "la_information_pbit") # 1) => Agree(rec[4], cli[4])

(* The decoders of recordings and the decoder of the command line have the *)
(* same fields at the same bits, layer by layer, also of a block that was  *)
(* received wrong; a layer is compared where both come to it.  A demand    *)
(* with ciphering parameters or a location area is left out: decode_ul.py  *)
(* does not pass over the former and has 14 of the latter's 15 bits.  The  *)
(* burst loop of decode_dl.py goes down the same layers and never beyond   *)
(* the block, and an uplink block comes out of the registers printed for   *)
(* decode_ul_raw.py as it went in.                                         *)
ToolsAgree ==
  split = -1 =>
    /\ IF Down THEN LoopAgrees(Stack(Block), Recorded) ELSE FromRegisters = Block
    /\ LayersAgree(Recorded, DecodeBurst(Block, kind))

(* The fields and the groups of a demand that was put together.            *)
At(bits, r, name) == SubSeq(bits, r.read[name][1] + 1, r.read[name][1] + r.read[name][2])
GroupRead(data, r, k) ==
  LET N(name) == name \o ToString(k)  g == groups[k] IN
  /\ Has(r, N("detachment_uplink")) = g.detach
  /\ Value(data, r, N(IF g.type = 2 THEN "vgssi" ELSE "gssi")) = 1000 + g.type
  /\ g.type = 1 => At(data, r, N("address_extension")) = Pattern(24)
GroupsRead(data, r) ==
  /\ data = GroupDemand /\ r.open
  /\ Value(data, r, "count") = Len(groups)
  /\ \A k \in DOMAIN groups : GroupRead(data, r, k)
DemandRead(whole, r) ==
  /\ \A i \in DOMAIN SentDemand :
       Has(r, SentDemand[i][1]) /\ At(whole, r, SentDemand[i][1]) = SentDemand[i][2]
  /\ Has(r, "data1") /\ ~Has(r, "id2")
  /\ GroupsRead(At(whole, r, "data1"), GroupIdentityLocationDemand(At(whole, r, "data1")))

(* A demand that was divided, wherever the two halves have room for it,    *)
(* with fill bits in the first half or without, is put together again:     *)
(* every field of it is read, and of each group it names whether it is     *)
(* attached and its address, of the three types that have one.             *)
DemandRejoined ==
  split > 0 => DemandRead(Combined(Half1, Half2), ReassembleAndDecode(Half1, Half2))
=============================================================================
