--------------------------------- MODULE DlPdu ---------------------------------
(***************************************************************************)
(* The downlink PDU parsers of scripts/decode_dl.py: SYNC, the MAC PDUs    *)
(* and the LLC, MLE and MM headers below them.  The names of the fields    *)
(* are the keys of the scripts' dictionaries; a key that is only the name  *)
(* of a code is left out.                                                  *)
(*                                                                         *)
(* Frame18Always is a faulty variant that the models do not use.           *)
(***************************************************************************)
EXTENDS BitFields

LOCAL One(n) == <<n, 1>>

(* parse_sysinfo_sb: the layout goes by the first four bits.               *)
SyncTmo ==
  << <<"SystemCode", 4>>, <<"ColourCode", 6>>, <<"TimeSlot", 2>>, <<"Frame", 5>>,
     <<"MultiFrame", 6>>, <<"SharingMode", 2>>, <<"TSReserved", 3>>,
     <<"UplaneDTX", 1>>, <<"Frame18Ext", 1>>, <<"Reserved", 1>>, <<"MCC", 10>>,
     <<"MNC", 14>>, <<"NeighCellBc", 2>>, <<"CellSvcLvl", 2>>, <<"LateEntry", 1>> >>
SyncDmo ==
  << <<"SystemCode", 4>>, <<"ColourCode", 6>>, <<"TimeSlot", 2>>, <<"Frame", 5>>,
     <<"AirInterfaceEnc", 2>>, <<"MNI", 24>>, <<"SourceAddress", 17>> >>
SyncPdu(bits) ==
  TakeAll(Reader(0), IF Extract(bits, 0, 4) < 8 THEN SyncTmo ELSE SyncDmo)

(* sync_to_air: a direct mode SYNC has no multiframe; 0 stands for it.     *)
SyncToAir(bits) ==
  LET r == SyncPdu(bits)
      Get(n) == IF Has(r, n) THEN Value(bits, r, n) ELSE 0
  IN  <<Get("TimeSlot"), Get("Frame"), Get("MultiFrame")>>

-----------------------------------------------------------------------------
(* MAC-RESOURCE.                                                           *)

AddressFields(type) ==
  CASE type = 0 -> << >>
    [] type = 1 -> << <<"SSI", 24>> >>
    [] type = 2 -> << <<"event_label", 10>> >>
    [] type = 3 -> << <<"USSI", 24>> >>
    [] type = 4 -> << <<"SMI", 48>> >>
    [] type = 5 -> << <<"SSI", 24>>, <<"event_label", 10>> >>
    [] type = 6 -> << <<"SSI", 24>>, <<"usage_marker", 6>> >>
    [] type = 7 -> << <<"SMI", 48>>, <<"event_label", 10>> >>

ExtendedCarrier ==
  << <<"frequency_band", 4>>, <<"offset", 2>>, <<"duplex_spacing", 3>>,
     <<"reverse_operation", 1>> >>

Frame18Always(bits, r) ==
  LET a == Must(bits, r,
             << <<"allocation_type", 2>>, <<"timeslot_assigned", 4>>,
                <<"uplink_downlink_assigned", 2>>, One("clch_permission"),
                One("cell_change_flag"), <<"carrier_number", 12>>,
                One("extended_carrier_flag") >>)
      b == IF a.open /\ Value(bits, a, "extended_carrier_flag") = 1
           THEN MayAll(bits, a, ExtendedCarrier) ELSE a
      c == Must(bits, b, << <<"monitoring_pattern", 2>>, <<"frame18_monitoring_pattern", 2>> >>)
  IN  [c EXCEPT !.open = TRUE]
(* _parse_channel_allocation returns early without ending the resource, so *)
(* the caller goes on with the position it has reached.                    *)
ChannelAllocation(bits, r) ==
  LET a == Must(bits, r,
             << <<"allocation_type", 2>>, <<"timeslot_assigned", 4>>,
                <<"uplink_downlink_assigned", 2>>, One("clch_permission"),
                One("cell_change_flag"), <<"carrier_number", 12>>,
                One("extended_carrier_flag") >>)
      b == IF a.open /\ Value(bits, a, "extended_carrier_flag") = 1
           THEN MayAll(bits, a, ExtendedCarrier) ELSE a
      c == Must(bits, b, << <<"monitoring_pattern", 2>> >>)
      d == IF c.open /\ Value(bits, c, "monitoring_pattern") = 0
           THEN May(bits, c, << <<"frame18_monitoring_pattern", 2>> >>) ELSE c
  IN  [d EXCEPT !.open = TRUE]

(* The flags are nested: the second is read only if the first one was      *)
(* reached, and all of them only with an address.                          *)
ResourceFlags(bits, r) ==
  LET p == Announced(bits, r, "power_control_flag", << <<"power_control_element", 4>> >>)
      g == Announced(bits, p, "slot_granting_flag", << <<"slot_granting", 8>> >>)
      c == MayOne(bits, g, One("channel_allocation_flag"))
  IN  IF ~Fits(bits, r, 1) THEN r
      ELSE IF c.at > g.at /\ Value(bits, c, "channel_allocation_flag") = 1
           THEN ChannelAllocation(bits, c) ELSE c

ResourceHead ==
  << One("fill_bit"), One("position_of_grant"), <<"encryption_mode", 2>>,
     One("random_access_flag"), <<"length_indicator", 6>>, <<"address_type", 3>> >>

MacResource(bits, at) ==
  LET h == Must(bits, Reader(at), ResourceHead)
      a == May(bits, h, AddressFields(Value(bits, h, "address_type")))
  IN  IF ~h.open \/ Value(bits, h, "address_type") = 0 THEN h
      ELSE ResourceFlags(bits, a)

IsNull(bits, r) ==
  Value(bits, r, "fill_bit") = 1 /\ Value(bits, r, "address_type") = 0

-----------------------------------------------------------------------------
(* The other MAC PDUs.                                                     *)

MacFragEnd(bits, at) == Must(bits, Reader(at), << One("sub_type"), One("fill_bit") >>)

MacUSignal(bits, at) ==
  LET h == Must(bits, Reader(at),
             << One("fill_bit"), <<"encryption_mode", 2>>,
                <<"length_indicator", 6>>, <<"address_type", 3>> >>)
      type == Value(bits, h, "address_type")
  IN  May(bits, h,
        IF type \in {1, 3} THEN << <<"SSI", 24>> >>
        ELSE IF type = 2 THEN << <<"event_label", 10>> >> ELSE << >>)

AccessDefine(bits, r) ==
  LET a == Must(bits, r,
             << One("common_or_assigned"), <<"access_code", 2>>, <<"imm", 4>>,
                <<"wt", 4>>, <<"nu", 4>>, One("frame_length_factor"),
                <<"timeslot_pointer", 4>>, <<"min_pdu_priority", 3>>,
                One("optional_field_flag") >>)
      t == IF a.open /\ Value(bits, a, "optional_field_flag") = 1
           THEN May(bits, a, << <<"optional_field_type", 4>> >>) ELSE a
      o == CASE Value(bits, t, "optional_field_type") = 0
                  -> May(bits, t, << <<"subscriber_class", 16>> >>)
             [] Value(bits, t, "optional_field_type") = 1
                  -> May(bits, t, << <<"GSSI", 24>> >>)
             [] OTHER -> t
  IN  [o EXCEPT !.open = TRUE]

SysinfoHead ==
  << <<"Main_Carrier", 12>>, <<"Frequency_Band", 4>>, <<"Offset", 2>>,
     <<"Duplex_Spacing", 3>>, One("Reverse_Operation") >>
SysinfoRest ==
  << <<"Num_SC", 2>>, <<"MS_TXPwr_Max", 3>>, <<"RXLevel_Access_Min", 4>>,
     <<"Access_Parameter", 4>>, <<"Radio_DL_Timeout", 4>>,
     One("Hyper_Cipher_Flag") >>
SysinfoTail ==
  << <<"Optional_Field", 2>>, <<"Optional_Field_Value", 20>>, <<"Location_Area", 14>> >>

SysinfoType2(bits, r) ==
  LET h == Must(bits, r, SysinfoHead \o SysinfoRest)
      c == Must(bits, h, << <<IF Value(bits, h, "Hyper_Cipher_Flag") = 0
                              THEN "Hyperframe" ELSE "CCK_ID", 16>> >>)
  IN  [Must(bits, c, SysinfoTail) EXCEPT !.open = TRUE]

(* frequency_calc, in units of 6250 Hz.                                    *)
FrequencyCalc(carrier, band, offset) ==
  16000 * band + 4 * carrier
    + (CASE offset = 1 -> 1 [] offset = 2 -> -1 [] offset = 3 -> 2 [] OTHER -> 0)

MacBroadcast(bits, at) ==
  LET h == Must(bits, Reader(at), << <<"sub_type", 2>> >>)
      type == Value(bits, h, "sub_type")
      s == IF type \in {0, 2} THEN SysinfoType2(bits, h) ELSE h
  IN  IF type \in {1, 2} THEN AccessDefine(bits, s) ELSE s

(* parse_mac_pdu: the reader after the two bits of the type.  "open" says  *)
(* that the dictionary has a payload_start.                                *)
MacPdu(bits) ==
  IF Len(bits) < 4 THEN Closed(Reader(0))
  ELSE CASE Extract(bits, 0, 2) = 0 -> MacResource(bits, 2)
         [] Extract(bits, 0, 2) = 1 -> MacFragEnd(bits, 2)
         [] Extract(bits, 0, 2) = 2 -> MacBroadcast(bits, 2)
         [] Extract(bits, 0, 2) = 3 -> MacUSignal(bits, 2)

-----------------------------------------------------------------------------
(* LLC, MLE and MM.                                                        *)

LlcCounters(type) ==
  CASE type \in {0, 4} -> << One("nr"), One("ns") >>
    [] type \in {1, 5} -> << One("ns") >>
    [] type \in {3, 7} -> << One("nr") >>
    [] OTHER -> << >>

HasFcs(type) == type \in 4..7

(* parse_llc: types 8 to 13 and 15 have no payload_start.                  *)
Llc(bits, at) ==
  LET h == Must(bits, Reader(at), << <<"llc_type", 4>> >>)
      type == Value(bits, h, "llc_type")
      c == May(bits, h, LlcCounters(type))
  IN  IF h.open /\ type \notin (0..7) \cup {14} THEN Closed(h) ELSE c

(* The FCS is tested over everything from the LLC header on, the fill bits *)
(* of the block included.                                                  *)
FcsTested(bits, at) == HasFcs(Extract(bits, at, 4)) /\ Len(bits) - at >= 32
FcsSpan(bits, at) == <<at, Len(bits) - at>>

LocUpdAccept(bits, at) ==
  LET h == Must(bits, Reader(at),
             << <<"location_update_accept_type", 3>>, One("optional_fields_present") >>)
      Option(r, o) == Announced(bits, r, o[1], << <<o[2], o[3]>> >>)
      o == FoldLeft(Option, h,
             << <<"ssi_present", "ssi", 24>>,
                <<"address_extension_present", "address_extension", 24>>,
                <<"subscriber_class_present", "subscriber_class", 16>>,
                <<"energy_saving_info_present", "energy_saving_info", 14>>,
                <<"frame18_scch_info_present", "frame18_scch_info", 6>> >>)
  IN  IF ~h.open \/ Value(bits, h, "optional_fields_present") = 0 THEN h
      ELSE Announced(bits, o, "more_optional_bits",
                     << <<"type3_field_id", 4>>, <<"type3_payload_len", 11>> >>)

(* parse_mm_pdu.                                                           *)
MmPdu(bits, at, type) ==
  CASE type = 5  -> LocUpdAccept(bits, at)
    [] type = 9  -> May(bits, Reader(at), << <<"location_update_type", 3>> >>)
    [] type = 7  -> May(bits, Reader(at), << <<"reject_cause", 5>> >>)
    [] type = 11 -> May(bits, Reader(at),
                      << One("group_identity_accept_reject"), One("optional_fields_present") >>)
    [] type = 10 -> May(bits, Reader(at),
                      << One("detach_all_flag"), One("group_identity_report") >>)
    [] type = 12 -> May(bits, Reader(at), << <<"status_value", 5>> >>)
    [] OTHER     -> Closed(Reader(at))

(* parse_mle: CMCE and MM keep the type; the bodies of tetra_cmce.py and   *)
(* tetra_mm.py, which the repository does not hold, are not parsed.        *)
Mle(bits, at) ==
  LET d == Must(bits, Reader(at), << <<"mle_disc", 3>> >>) IN
  CASE Value(bits, d, "mle_disc") = 2 -> May(bits, d, << <<"cmce_type", 5>> >>)
    [] Value(bits, d, "mle_disc") = 1 -> May(bits, d, << <<"mm_type", 4>> >>)
    [] Value(bits, d, "mle_disc") = 5 -> May(bits, d, << <<"mle_prim", 3>> >>)
    [] OTHER -> d

DirectMm(bits, at) == Must(bits, Reader(at), << <<"mm_type", 4>> >>)

(* How the burst loop goes down from a decoded block: the readers of the   *)
(* MAC, the LLC and the MLE or direct MM header it prints.                 *)
FromMle(bits, mle) ==
  << mle >> \o (IF Has(mle, "mm_type")
                THEN << MmPdu(bits, mle.at, Value(bits, mle, "mm_type")) >> ELSE << >>)
FromLlc(bits, llc) ==
  << llc >> \o
    (IF ~llc.open \/ llc.at + 3 >= Len(bits) THEN << >>
     ELSE FromMle(bits, IF Value(bits, llc, "llc_type") = 14
                        THEN DirectMm(bits, llc.at) ELSE Mle(bits, llc.at)))
FromMac(bits, mac) ==
  LET from == IF mac.open THEN mac.at ELSE 0
      down == Extract(bits, 0, 2) = 0 /\ ~IsNull(bits, mac) /\ from + 4 < Len(bits)
  IN  << mac >> \o (IF down THEN FromLlc(bits, Llc(bits, from)) ELSE << >>)
Stack(bits) == FromMac(bits, MacPdu(bits))
=============================================================================
