--------------------------------- MODULE PduCli --------------------------------
(***************************************************************************)
(* The offline PDU decoders: scripts/decode_pdu.py, the reassembly of      *)
(* scripts/reassemble_ul_demand.py on top of it and the register dump      *)
(* reader scripts/decode_ul_raw.py.                                        *)
(*                                                                         *)
(* BitCursor.read passes over a field that does not fit (May); read_bin    *)
(* always moves on.  A closed reader is one whose parser died on a missing *)
(* length.                                                                 *)
(*                                                                         *)
(* CountTwice and KeepsFillBit are faulty variants that the models do not  *)
(* use.                                                                    *)
(***************************************************************************)
EXTENDS DlPdu

LOCAL One(n) == <<n, 1>>

(* BitCursor.peek and read_bin.                                            *)
Peek(bits, r, n) == IF Fits(bits, r, n) THEN Extract(bits, r.at, n) ELSE -1
ReadBin(r, name, n) == Take(r, name, n)

RECURSIVE Elements2(_, _, _), Elements3(_, _, _)

(* read_pbit_and_value.                                                    *)
Type2(bits, r, o) == Announced(bits, r, o[1], << <<o[2], o[3]>> >>)
Elements2(bits, r, list) ==
  IF list = << >> THEN r ELSE Elements2(bits, Type2(bits, r, list[1]), Tail(list))

(* read_type3_if_matches, read_type4_if_matches: an element is consumed    *)
(* if its M-bit and identifier come next.                                  *)
Matches(bits, r, id) ==
  r.open /\ Peek(bits, r, 1) = 1 /\ Peek(bits, r, 5) = 16 + id
ElementHead(bits, r, name) ==
  Must(bits, Take(r, name, 5), << <<name \o "_len", 11>> >>)
Length(bits, r, name) == Value(bits, r, name \o "_len")
AtMost(n, top) == IF n < top THEN n ELSE top

Type3(bits, r, name, id) ==
  LET h == ElementHead(bits, r, name) IN
  IF ~Matches(bits, r, id) THEN r
  ELSE IF h.open THEN ReadBin(h, name \o "_data", AtMost(Length(bits, h, name), 256)) ELSE h
CountTwice(bits, r, name, id) ==
  LET h == ElementHead(bits, r, name)
      c == MayOne(bits, h, <<name \o "_elems", 6>>)
  IN  IF ~Matches(bits, r, id) THEN r
      ELSE IF h.open THEN ReadBin(c, name \o "_data", AtMost(Length(bits, h, name), 256)) ELSE h
Type4(bits, r, name, id) ==
  LET h == ElementHead(bits, r, name)
      c == MayOne(bits, h, <<name \o "_elems", 6>>)
  IN  IF ~Matches(bits, r, id) THEN r
      ELSE IF h.open THEN ReadBin(c, name \o "_data", AtMost(Length(bits, h, name) - 6, 256)) ELSE h

Trailing(bits, r) == MayOne(bits, r, One("trailing_mbit"))
Elements3(bits, r, list) ==
  IF list = << >> THEN r
  ELSE Elements3(bits, Type3(bits, r, list[1][1], list[1][2]), Tail(list))

-----------------------------------------------------------------------------
(* The headers.                                                            *)

DecodeMacResource(bits) ==
  LET t == May(bits, Reader(0), << <<"pdu_type", 2>> >>)
      h == May(bits, t, ResourceHead)
      a == May(bits, h, AddressFields(Value(bits, h, "address_type")))
      p == Announced(bits, a, "power_control_flag", << <<"power_control_element", 4>> >>)
      g == Announced(bits, p, "slot_granting_flag", << <<"slot_granting", 8>> >>)
      c == MayOne(bits, g, One("channel_allocation_flag"))
  IN  IF Value(bits, t, "pdu_type") # 0 THEN t
      ELSE IF Value(bits, h, "address_type") = 0 THEN h
      ELSE c

DecodeChannelAllocation(bits, r) ==
  LET a == May(bits, r,
             << <<"allocation_type", 2>>, <<"timeslot_assigned", 4>>,
                <<"uplink_downlink_assigned", 2>>, One("clch_permission"),
                One("cell_change_flag"), <<"carrier_number", 12>>,
                One("extended_carrier_flag") >>)
      b == IF Value(bits, a, "extended_carrier_flag") = 1
           THEN May(bits, a, ExtendedCarrier) ELSE a
      c == MayOne(bits, b, <<"monitoring_pattern", 2>>)
  IN  IF Value(bits, c, "monitoring_pattern") = 0
      THEN MayOne(bits, c, <<"frame18_monitoring_pattern", 2>>) ELSE c
DecodeResource(bits) ==
  LET m == DecodeMacResource(bits) IN
  IF Value(bits, m, "channel_allocation_flag") = 1 THEN DecodeChannelAllocation(bits, m) ELSE m

DecodeLlc(bits, r) ==
  LET h == MayOne(bits, r, <<"llc_type", 4>>)
  IN  May(bits, h, IF Value(bits, h, "llc_type") \in 0..7
                   THEN LlcCounters(Value(bits, h, "llc_type")) ELSE << >>)
DecodeMle(bits, r) == MayOne(bits, r, <<"discriminator", 3>>)

DecodeMacAccess(bits) ==
  LET t == May(bits, Reader(0), << One("mac_pdu_type") >>)
      h == May(bits, t, << One("fill_bits"), One("encrypted"), <<"addr_type", 2>> >>)
      a == MayOne(bits, h, <<"address", IF Value(bits, h, "addr_type") = 1 THEN 10 ELSE 24>>)
      o == Announced(bits, a, "optional_field_flag", << One("length_ind_or_cap_req") >>)
  IN  IF Value(bits, t, "mac_pdu_type") # 0 THEN t
      ELSE IF Value(bits, o, "optional_field_flag") # 1 THEN o
      ELSE May(bits, o, IF Value(bits, o, "length_ind_or_cap_req") = 0
                        THEN << <<"length_ind", 5>> >>
                        ELSE << One("frag_flag"), <<"reservation_req", 4>> >>)

-----------------------------------------------------------------------------
(* The bodies.                                                             *)

ServiceInformation ==
  << <<"circuit_mode_type", 3>>, One("encryption_flag"), <<"communication_type", 2>>,
     <<"speech_service_or_slots_per_frame", 2>> >>

DConnect(bits, r) ==
  LET t == MayOne(bits, r, <<"pdu_type", 5>>)
      h == May(bits, t,
             << <<"call_identifier", 14>>, <<"call_time_out", 4>>,
                One("hook_method_selection"), One("simplex_duplex_selection"),
                <<"transmission_grant", 2>>, One("transmission_request_permission"),
                One("call_ownership"), One("obit") >>)
      c == Type2(bits, h, <<"call_priority_pbit", "call_priority", 4>>)
      s == MayOne(bits, c, One("basic_service_information_pbit"))
      b == IF Value(bits, s, "basic_service_information_pbit") = 1
           THEN May(bits, s, ServiceInformation) ELSE s
      a == Type2(bits, b, <<"temporary_address_pbit", "temporary_address", 24>>)
      n == Type2(bits, a, <<"notification_indicator_pbit", "notification_indicator", 6>>)
      e == Elements3(bits, n, << <<"facility", 3>>, <<"proprietary", 15>> >>)
  IN  IF Value(bits, t, "pdu_type") # 2 THEN t
      ELSE IF Value(bits, h, "obit") = 0 THEN h ELSE Trailing(bits, e)

(* The elements of D-LOCATION UPDATE ACCEPT; the group identity has one of *)
(* type 4 within.                                                          *)
GroupIdentityAccept(bits, r) ==
  LET g == ElementHead(bits, r, "group_identity_location_accept")
      h == May(bits, [g EXCEPT !.open = TRUE],
             << One("group_identity_accept_reject"), One("reserved"), One("gila_obit") >>)
      inner == Value(bits, h, "gila_obit") = 1 /\ Peek(bits, h, 1) = 1
      d == IF inner THEN Type4(bits, h, "group_identity_downlink", 7) ELSE h
  IN  IF ~Matches(bits, r, 5) THEN r
      ELSE IF inner THEN MayOne(bits, d, One("gila_trailing_mbit")) ELSE d

DLocUpdAccept(bits, r) ==
  LET t == MayOne(bits, r, <<"pdu_type", 4>>)
      h == May(bits, t, << <<"location_update_accept_type", 3>>, One("obit") >>)
      o == Elements2(bits, h,
             << <<"ssi_pbit", "ssi", 24>>,
                <<"address_extension_pbit", "address_extension", 24>>,
                <<"subscriber_class_pbit", "subscriber_class", 16>> >>)
      s == MayOne(bits, o, One("energy_saving_information_pbit"))
      y == IF Value(bits, s, "energy_saving_information_pbit") = 1
           THEN May(bits, s, << <<"energy_saving_mode", 3>>, <<"frame_number", 5>>,
                                <<"multiframe_number", 6>> >>) ELSE s
      z == Type2(bits, y, <<"scch_info_pbit", "scch_information", 6>>)
      a == Type4(bits, z, "new_registered_area", 2)
      b == Type3(bits, a, "security_downlink", 3)
      c == GroupIdentityAccept(bits, b)
      d == Elements3(bits, c,
             << <<"default_group_attachment_lifetime", 1>>, <<"authentication_downlink", 10>> >>)
      e == Type4(bits, d, "group_identity_security_related_information", 12)
      f == Elements3(bits, e, << <<"cell_type_control", 13>>, <<"proprietary", 15>> >>)
  IN  IF Value(bits, t, "pdu_type") # 5 THEN t
      ELSE IF Value(bits, h, "obit") = 0 THEN h ELSE Trailing(bits, f)

UItsiDetach(bits, r) ==
  LET t == MayOne(bits, r, <<"pdu_type", 4>>)
      h == MayOne(bits, t, One("obit"))
      a == Type2(bits, h, <<"address_extension_pbit", "address_extension", 24>>)
  IN  IF Value(bits, t, "pdu_type") # 1 THEN t
      ELSE IF Value(bits, h, "obit") = 0 THEN h
      ELSE Trailing(bits, Type3(bits, a, "proprietary", 15))

(* The rest of the PDU is dumped.                                          *)
DemandFields ==
  << <<"energy_saving_mode_pbit", "energy_saving_mode", 3>>,
     <<"la_information_pbit", "la_information", 15>>,
     <<"ssi_pbit", "ssi", 24>>,
     <<"address_extension_pbit", "address_extension", 24>> >>
UDemandStart(bits, r) ==
  LET h == May(bits, r, << <<"location_update_type", 3>>, One("request_to_append_la"),
                           One("cipher_control") >>)
      c == IF Value(bits, h, "cipher_control") = 1
           THEN MayOne(bits, h, <<"ciphering_parameters", 10>>) ELSE h
  IN  MayOne(bits, c, One("obit"))
UDemandType2(bits, s) ==
  LET p == MayOne(bits, s, One("class_of_ms_pbit"))
      m == IF Value(bits, p, "class_of_ms_pbit") = 1 THEN ReadBin(p, "class_of_ms", 24) ELSE p
  IN  Elements2(bits, m, DemandFields)
ULocUpdDemand(bits, r) ==
  LET t == MayOne(bits, r, <<"pdu_type", 4>>)
      h == UDemandStart(bits, t)
  IN  IF Value(bits, t, "pdu_type") # 2 THEN t
      ELSE IF Value(bits, h, "obit") = 0 THEN h ELSE UDemandType2(bits, h)

USetup(bits, r) ==
  LET t == MayOne(bits, r, <<"pdu_type", 5>>)
      h == May(bits, t,
             << <<"area_selection", 4>>, One("hook_method_selection"),
                One("simplex_duplex_selection") >> \o ServiceInformation
             \o << One("request_to_transmit_send_data"), <<"call_priority", 4>>,
                   <<"clir_control", 2>>, <<"called_party_type_identifier", 2>> >>)
      a == May(bits, h,
             CASE Value(bits, h, "called_party_type_identifier") = 0
                    -> << <<"called_party_short_number_address", 8>> >>
               [] Value(bits, h, "called_party_type_identifier") = 1
                    -> << <<"called_party_ssi", 24>> >>
               [] Value(bits, h, "called_party_type_identifier") = 2
                    -> << <<"called_party_ssi", 24>>, <<"called_party_extension", 24>> >>
               [] OTHER -> << >>)
      o == MayOne(bits, a, One("obit"))
      e == Elements3(bits, o, << <<"external_subscriber_number", 2>>, <<"facility", 3>>,
                                 <<"dm_ms_address", 6>>, <<"proprietary", 15>> >>)
  IN  IF Value(bits, t, "pdu_type") # 7 THEN t
      ELSE IF Value(bits, o, "obit") = 0 THEN o ELSE Trailing(bits, e)

(* decode_burst: every layer is read whatever the one above has found.     *)
Behind(r) == Reader(r.at)
DecodeBody(bits, kind, r) ==
  CASE kind = "D-CONNECT"        -> DConnect(bits, r)
    [] kind = "D-LOC-UPD-ACCEPT" -> DLocUpdAccept(bits, r)
    [] kind = "U-ITSI-DETACH"    -> UItsiDetach(bits, r)
    [] kind = "U-LOC-UPD-DEMAND" -> ULocUpdDemand(bits, r)
    [] kind = "U-SETUP"          -> USetup(bits, r)
FromDecodedMle(bits, kind, mle) == << mle, DecodeBody(bits, kind, Behind(mle)) >>
FromDecodedLlc(bits, kind, llc) ==
  << llc >> \o FromDecodedMle(bits, kind, DecodeMle(bits, Behind(llc)))
FromDecodedMac(bits, kind, mac) ==
  << mac >> \o FromDecodedLlc(bits, kind, DecodeLlc(bits, Behind(mac)))
DecodeBurst(bits, kind) ==
  FromDecodedMac(bits, kind,
    IF kind \in {"U-ITSI-DETACH", "U-LOC-UPD-DEMAND", "U-SETUP"}
    THEN DecodeMacAccess(bits) ELSE DecodeResource(bits))

-----------------------------------------------------------------------------
(* reassemble_ul_demand.py: MAC-ACCESS and MAC-END-HU joined.              *)

MacEndHu(bits) ==
  LET h == TakeAll(Reader(0), << One("pdu_type"), One("fill_bits"), One("length_ind_or_cap_req") >>)
  IN  IF Extract(bits, 0, 1) # 1 THEN Closed(Reader(0))
      ELSE Take(h, IF Value(bits, h, "length_ind_or_cap_req") = 0
                   THEN "length_ind" ELSE "reservation_req", 4)

KeepsFillBit(s) ==
  LET ones == {i \in DOMAIN s : s[i] = 1}
  IN  IF ones = {} THEN << >> ELSE SubSeq(s, 1, CHOOSE i \in ones : \A j \in ones : j <= i)
(* Trailing zeros and the one in front of them.                            *)
StripFill(s) ==
  LET ones == {i \in DOMAIN s : s[i] = 1}
  IN  IF ones = {} THEN << >>
      ELSE SubSeq(s, 1, (CHOOSE i \in ones : \A j \in ones : j <= i) - 1)

After(bits, r) == SubSeq(bits, r.at + 1, Len(bits))
Combined(ul0, ul1) ==
  LET mac0 == DecodeMacAccess(ul0)
      mac1 == MacEndHu(ul1)
      tail == After(ul1, mac1)
      cont == 8 * Value(ul1, mac1, "length_ind")
  IN  (IF Value(ul0, mac0, "fill_bits") = 1 THEN StripFill(After(ul0, mac0)) ELSE After(ul0, mac0))
        \o (IF Has(mac1, "length_ind") THEN SubSeq(tail, 1, AtMost(cont, Len(tail))) ELSE tail)

(* The elements behind the type 2 fields, named by their place.            *)
NextElement(bits, r, k) ==
  LET id  == "id" \o ToString(k)
      len == "len" \o ToString(k)
      h   == TakeAll(r, << <<"mbit" \o ToString(k), 1>>, <<id, 4>>, <<len, 11>> >>)
  IN  IF r.open /\ r.at + 16 <= Len(bits) /\ Peek(bits, r, 1) = 1
      THEN ReadBin(h, "data" \o ToString(k), AtMost(Value(bits, h, len), Len(bits) - h.at))
      ELSE Closed(r)
DemandElements(bits, r) ==
  FoldLeft(LAMBDA x, k : NextElement(bits, x, k), r,
           [k \in 1..(Len(bits) \div 16) |-> k])

(* The type 2 fields, read anew: the script dies on a class or a location  *)
(* area that is announced and missing, since it formats their bits.        *)
Formatted(bits, r, o) ==
  LET p == MayOne(bits, r, One(o[1])) IN
  IF Value(bits, p, o[1]) = 1 THEN Must(bits, p, << <<o[2], o[3]>> >>) ELSE p
DemandType2(bits, s) ==
  LET c == Formatted(bits, s, <<"class_of_ms_pbit", "class_of_ms", 24>>)
      e == Type2(bits, c, DemandFields[1])
      l == Formatted(bits, e, DemandFields[2])
  IN  Elements2(bits, l, SubSeq(DemandFields, 3, 4))

(* Nothing further if the PDU is not the demand.                           *)
DecodeDemand(bits) ==
  LET llc  == DecodeLlc(bits, Reader(0))
      mle  == DecodeMle(bits, Behind(llc))
      mm   == Must(bits, mle, << <<"pdu_type", 4>> >>)
      h    == UDemandStart(bits, mm)
  IN  IF Value(bits, mle, "discriminator") # 1 THEN mle
      ELSE IF Value(bits, mm, "pdu_type") # 2 THEN mm
      ELSE IF Value(bits, h, "obit") = 0 THEN h
      ELSE DemandElements(bits, DemandType2(bits, h))
ReassembleAndDecode(ul0, ul1) == DecodeDemand(Combined(ul0, ul1))

(* parse_group_identity_location_demand: the script dies on an address or  *)
(* a count that is missing, and reads none for the address type 3.         *)
GroupEntry(bits, r, k) ==
  LET N(n) == n \o ToString(k)
      t == MayOne(bits, r, One(N("attach_detach_type")))
      u == MayOne(bits, t, IF Value(bits, t, N("attach_detach_type")) = 0
                           THEN <<N("class_of_usage"), 3>> ELSE <<N("detachment_uplink"), 2>>)
      a == MayOne(bits, u, <<N("addr_type"), 2>>)
  IN  Must(bits, a,
        CASE Value(bits, a, N("addr_type")) = 0 -> << <<N("gssi"), 24>> >>
          [] Value(bits, a, N("addr_type")) = 1
               -> << <<N("gssi"), 24>>, <<N("address_extension"), 24>> >>
          [] Value(bits, a, N("addr_type")) = 2 -> << <<N("vgssi"), 24>> >>
          [] OTHER -> << >>)
GroupIdentityLocationDemand(bits) ==
  LET h == May(bits, Reader(0), << One("mode"), One("reserved"), One("obit") >>)
      l == Must(bits, May(bits, h, << One("mbit"), <<"id", 4>>, <<"len", 11>> >>),
                << <<"count", 6>> >>)
  IN  IF Value(bits, h, "obit") = 0 \/ Peek(bits, h, 1) # 1 THEN h
      ELSE FoldLeft(LAMBDA x, k : IF x.open THEN GroupEntry(bits, x, k) ELSE x, l,
                    [k \in 1..Value(bits, l, "count") |-> k])

-----------------------------------------------------------------------------
(* decode_ul_raw.py: registers printed by the monitor, as sequences of     *)
(* hexadecimal digits.                                                     *)

LstripZero(d) ==
  LET rest == {i \in DOMAIN d : d[i] # 0}
  IN  IF rest = {} THEN << >>
      ELSE SubSeq(d, CHOOSE i \in rest : \A j \in rest : i <= j, Len(d))
ParseHexArgs(words) ==
  LET joined == LstripZero(FlattenSeq(words)) IN
  IF Len(joined) = 23
  THEN << SubSeq(joined, 1, 7), SubSeq(joined, 8, 15), SubSeq(joined, 16, 23) >>
  ELSE IF Len(words) = 3 THEN words ELSE << >>

(* to_bits: ETSI bit i is bit i of the registers, the least significant    *)
(* one first, whatever the width of a word.                                *)
RegisterBits(d, w) ==
  [i \in 1..w |-> LET at == Len(d) - ((i - 1) \div 4)
                  IN  IF at < 1 THEN 0 ELSE (d[at] \div 2^((i - 1) % 4)) % 2]
ToBits(r2, r1, r0) == RegisterBits(r0, 32) \o RegisterBits(r1, 32) \o RegisterBits(r2, 28)

AddrWidth == <<0, 24, 10, 24, 48, 34, 30, 58>>
RawHeader(bits) ==
  LET h == TakeAll(Reader(0),
             << <<"pdu_type", 2>>, One("fill_bit"), <<"enc_mode", 2>>, One("access_ack"),
                <<"addr_type", 3>> >>)
  IN  Take(h, "addr", AddrWidth[1 + Value(bits, h, "addr_type")])
(* The five hypotheses about what follows.                                 *)
Hypotheses ==
  [A |-> << <<"mle", 3>>, <<"mm", 4>>, <<"lut", 3>> >>,
   B |-> << <<"li", 6>>, <<"mle", 3>>, <<"mm", 4>>, <<"lut", 3>> >>,
   C |-> << <<"llc", 4>>, One("nr"), One("ns"), <<"mle", 3>>, <<"mm", 4>>, <<"lut", 3>> >>,
   D |-> << <<"li", 6>>, <<"mm", 4>>, <<"lut", 3>> >>,
   E |-> << <<"aux", 4>>, <<"mm", 4>>, <<"lut", 3>> >>]
RawHypothesis(bits, h) == TakeAll(Reader(RawHeader(bits).at), Hypotheses[h])
RawMatch(bits) == Value(bits, RawHypothesis(bits, "E"), "mm") = 4
=============================================================================
