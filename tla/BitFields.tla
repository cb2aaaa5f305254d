------------------------------- MODULE BitFields -------------------------------
(***************************************************************************)
(* How the decoder scripts read a PDU: a position moves through a sequence *)
(* of bits and every field is read if enough bits are left.  A reader      *)
(* keeps, for every field, the span of bits it was read from (the value is *)
(* computed where the code tests it), the position, and whether the parser *)
(* is still running: after an early "return r" it is not.                  *)
(*                                                                         *)
(* Positions count from 0, as in the scripts.                              *)
(***************************************************************************)
EXTENDS Integers, Sequences, SequencesExt, TLC

RECURSIVE Number(_), TakeAll(_, _), Width(_), Must(_, _, _), May(_, _, _)

(* extract_bits: the bits of a span, most significant first.               *)
Number(s) == IF s = << >> THEN 0 ELSE 2 * Number(Front(s)) + Last(s)
Extract(bits, at, w) == Number(SubSeq(bits, at + 1, at + w))

(* The w bits of a number, most significant first.                         *)
Bits(n, w) == [i \in 1..w |-> (n \div 2^(w - i)) % 2]

NoFields == [x \in {} |-> <<0, 0>>]
Reader(at) == [at |-> at, open |-> TRUE, read |-> NoFields]

Has(r, name) == name \in DOMAIN r.read
Value(bits, r, name) ==
  IF Has(r, name) THEN Extract(bits, r.read[name][1], r.read[name][2]) ELSE -1

Fits(bits, r, w) == r.at + w <= Len(bits)
Take(r, name, w) ==
  [r EXCEPT !.at = @ + w, !.read = (name :> <<r.at, w>>) @@ @]
TakeAll(r, fields) ==
  IF fields = << >> THEN r
  ELSE TakeAll(Take(r, fields[1][1], fields[1][2]), Tail(fields))
Width(fields) == IF fields = << >> THEN 0 ELSE fields[1][2] + Width(Tail(fields))
Closed(r) == [r EXCEPT !.open = FALSE]

(* "if pos + w > len(bits): return r", field by field.                     *)
MustOne(bits, r, f) ==
  IF ~r.open THEN r
  ELSE IF Fits(bits, r, f[2]) THEN Take(r, f[1], f[2]) ELSE Closed(r)
Must(bits, r, fields) ==
  IF fields = << >> THEN r ELSE Must(bits, MustOne(bits, r, fields[1]), Tail(fields))

(* "if pos + w <= len(bits):", field by field; a field that does not fit   *)
(* is passed over and the next one is read from the same position.         *)
MayOne(bits, r, f) ==
  IF r.open /\ Fits(bits, r, f[2]) THEN Take(r, f[1], f[2]) ELSE r
May(bits, r, fields) ==
  IF fields = << >> THEN r ELSE May(bits, MayOne(bits, r, fields[1]), Tail(fields))

(* The same with one test for all the fields.                              *)
MayAll(bits, r, fields) ==
  IF r.open /\ Fits(bits, r, Width(fields)) THEN TakeAll(r, fields) ELSE r

(* A flag and, if it is read and set, the fields it announces.             *)
Announced(bits, r, flag, fields) ==
  LET s == MayOne(bits, r, <<flag, 1>>) IN
  IF s.at > r.at /\ Value(bits, s, flag) = 1 THEN MayAll(bits, s, fields) ELSE s
=============================================================================
