--------------------------------- MODULE UlPdu ---------------------------------
(***************************************************************************)
(* The uplink PDU parsers of scripts/decode_ul.py.  LLC is parsed by the   *)
(* parser of decode_dl.py, which the script imports.                       *)
(***************************************************************************)
EXTENDS DlPdu

LOCAL One(n) == <<n, 1>>

(* parse_ul_mm: U-ITSI-DETACH, U-LOCATION UPDATE DEMAND, U-ATTACH/DETACH   *)
(* GROUP IDENTITY and U-MM STATUS; nothing of the others.                  *)
UlDetach(bits, at) ==
  LET o == MayOne(bits, Reader(at), One("optional_fields_present")) IN
  IF Value(bits, o, "optional_fields_present") = 1
  THEN Announced(bits, o, "address_extension_present", << <<"address_extension", 24>> >>)
  ELSE o

DemandHead ==
  << <<"location_update_type", 3>>, One("request_to_append_la"), One("cipher_control"),
     One("optional_fields_present") >>
DemandOptions ==
  << <<"class_of_ms_present", "class_of_ms", 24>>,
     <<"energy_saving_mode_present", "energy_saving_mode", 3>>,
     <<"la_information_present", "location_area", 14>>,
     <<"ssi_present", "ssi", 24>>,
     <<"address_extension_present", "address_extension", 24>> >>
UlDemand(bits, at) ==
  LET h == May(bits, Reader(at), DemandHead)
      Option(r, o) == Announced(bits, r, o[1], << <<o[2], o[3]>> >>)
  IN  IF Value(bits, h, "optional_fields_present") = 1
      THEN MayOne(bits, FoldLeft(Option, h, DemandOptions), One("more_optional_bits"))
      ELSE h

UlMm(bits, at, type) ==
  CASE type = 1 -> UlDetach(bits, at)
    [] type = 2 -> UlDemand(bits, at)
    [] type = 7 -> May(bits, Reader(at), << One("group_identity_report"), One("attach_detach_mode") >>)
    [] type = 3 -> May(bits, Reader(at), << <<"status_value", 5>> >>)
    [] OTHER    -> Reader(at)

(* parse_ul_mle and parse_ul_direct_mm: the reader stops in front of the   *)
(* body, which is parsed from there.                                       *)
UlMle(bits, at) ==
  LET d == Must(bits, Reader(at), << <<"mle_disc", 3>> >>) IN
  CASE Value(bits, d, "mle_disc") = 1 -> MayOne(bits, d, <<"mm_type", 4>>)
    [] Value(bits, d, "mle_disc") = 2 -> MayOne(bits, d, <<"cmce_type", 5>>)
    [] OTHER -> d
UlDirectMm(bits, at) == Must(bits, Reader(at), << <<"mm_type", 4>> >>)

(* parse_mac_access: the header; a first bit of 1 is another PDU.  The     *)
(* capacity request is tested as one field.                                *)
AccessHeader(bits) ==
  LET h == TakeAll(Reader(0), << One("pdu_type"), One("fill_bit") >>)
      t == TakeAll(h, << One("encrypted"), <<"addr_type", 2>> >>)
      a == Take(t, "address", IF Value(bits, t, "addr_type") = 1 THEN 10 ELSE 24)
      o == MayOne(bits, a, One("optional_field_flag"))
      c == IF Value(bits, o, "optional_field_flag") = 1
           THEN MayOne(bits, o, One("length_ind_or_cap_req")) ELSE o
  IN  IF Value(bits, h, "pdu_type") = 1 THEN Closed(h)
      ELSE CASE Value(bits, c, "length_ind_or_cap_req") = 0
                  -> MayOne(bits, c, <<"length_ind", 5>>)
             [] Value(bits, c, "length_ind_or_cap_req") = 1
                  -> MayAll(bits, c, << One("frag_flag"), <<"reservation_req", 4>> >>)
             [] OTHER -> c

(* What is parsed behind it: LLC with MLE and MM below.  parse_llc has a    *)
(* name for every type, so the direct MM reading of the same bits never    *)
(* becomes the decoded mode.                                               *)
MacAccess(bits) ==
  LET mac  == AccessHeader(bits)
      llc  == Llc(bits, mac.at)
      mle  == UlMle(bits, llc.at)
      on   == llc.open /\ llc.at + 3 <= Len(bits)
      mm   == UlMm(bits, mle.at, Value(bits, mle, "mm_type"))
  IN  IF Len(bits) < 20 THEN << >>
      ELSE IF ~mac.open \/ mac.at + 4 > Len(bits) THEN << mac >>
      ELSE << mac, llc >> \o (IF on THEN << mle >> ELSE << >>)
             \o (IF on /\ Has(mle, "mm_type") THEN << mm >> ELSE << >>)
=============================================================================
