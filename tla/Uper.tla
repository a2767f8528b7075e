-------------------------------- MODULE Uper --------------------------------
(***************************************************************************)
(* The unaligned packed encoding rules, as the codecs of asn1/ carry them  *)
(* out for the types of FansMessages.  A type is named; asn_DEF has its    *)
(* descriptor.                                                             *)
(*                                                                         *)
(* The bits are a sequence of 0 and 1.  A value is a number and the values *)
(* it is made of: of an integer or an enumeration the number, of a choice  *)
(* the index of the alternative with the value of it, of a sequence its    *)
(* members, of a string its characters.  No type refers to itself, so the  *)
(* guard of the stack is never met, and no part of a type is extensible    *)
(* or longer than its size field can say.                                  *)
(***************************************************************************)
EXTENDS FansMessages, SequencesExt

Value(num, parts) == [num |-> num, parts |-> parts]

Scalar(num) == Value(num, <<>>)

\* An optional member that is not there.
NotThere == Scalar(-1)

\* In the place of the name of a member: it is not there.
Absent == "ABSENT"

TypeNames == DOMAIN asn_DEF \union {Absent}

\* Values of so many levels: a value, the values it is made of, and so on.
Values[levels \in Nat] ==
    IF levels = 0 THEN {} ELSE [num : Int, parts : Seq(Values[levels - 1])]

\* No type of FansMessages has more.
Levels == 14

-----------------------------------------------------------------------------
(***************************************************************************)
(* Decoding.  at bits are used up; the code tells a value from a failure   *)
(* and from too few bits.                                                  *)
(***************************************************************************)
Decoded(at, value) == [code |-> "RC_OK", at |-> at, value |-> value]

DecodeFailed == [code |-> "RC_FAIL", at |-> 0, value |-> NotThere]

Starved == [code |-> "RC_WMORE", at |-> 0, value |-> NotThere]

\* The number in the next n bits, -1 if they are not there.
per_get_few_bits(pd, at, n) ==
    IF n > Len(pd) - at THEN -1
    ELSE FoldLeft(LAMBDA sum, bit : 2 * sum + bit, 0, SubSeq(pd, at + 1, at + n))

\* decode[name, at] is what uper_decode makes of the bits behind at.  The types
\* one after the other, up to the first that fails:
Joined(rv, next) ==
    IF next.code # "RC_OK" THEN next
    ELSE Decoded(next.at, Value(rv.value.num + 1, Append(rv.value.parts, next.value)))

DecodeNext(rv, name, decode) ==
    IF rv.code # "RC_OK" THEN rv ELSE Joined(rv, decode[name, rv.at])

DecodeEach(names, at, decode) ==
    LET each[n \in 0 .. Len(names)] ==
            IF n = 0 THEN Decoded(at, Scalar(0)) ELSE DecodeNext(each[n - 1], names[n], decode)
    IN  each[Len(names)]

NULL_decode_uper(at) == Decoded(at, Scalar(0))

BOOLEAN_decode_uper(pd, at) ==
    LET bit == per_get_few_bits(pd, at, 1)
    IN  IF bit = -1 THEN Starved ELSE Decoded(at + 1, Scalar(bit))

\* The members by the bitmap in front of them, which tells what optional ones
\* there are.
Present(td, pd, at) ==
    LET rank(i) == Cardinality({j \in td.oms : j <= i})
    IN  [i \in DOMAIN td.elements |->
            IF i \in td.oms /\ pd[at + rank(i)] = 0 THEN Absent ELSE td.elements[i]]

SEQUENCE_decode_uper(td, pd, at, decode) ==
    LET roms_count == Cardinality(td.oms)
    IN  IF roms_count > Len(pd) - at THEN Starved
        ELSE DecodeEach(Present(td, pd, at), at + roms_count, decode)

(***************************************************************************)
(* The other types begin with a number, num, and go on after it.           *)
(***************************************************************************)
\* The lower bound is added; the upper one is not looked at, neither here nor
\* of a size.
INTEGER_decode_uper(td, num, at) == Decoded(at, Scalar(num + td.lo))

NativeEnumerated_decode_uper(td, num, at) ==
    IF num < td.map_count THEN Decoded(at, Scalar(num)) ELSE DecodeFailed

OCTET_STRING_per_get_characters(td, pd, at, units) ==
    LET code(i) == per_get_few_bits(pd, at + (i - 1) * td.char_bits, td.char_bits)
        bad == {i \in 1 .. units : code(i) \notin 0 .. Len(td.alphabet) - 1}
        value == Value(units, [i \in 1 .. units |-> Scalar(td.alphabet[code(i) + 1])])
    IN  IF bad = {} THEN Decoded(at + units * td.char_bits, value)
        ELSE IF code(CHOOSE i \in bad : \A j \in bad : i <= j) = -1 THEN Starved
        ELSE DecodeFailed

OCTET_STRING_decode_uper(td, num, pd, at) ==
    OCTET_STRING_per_get_characters(td, pd, at, num + td.lo)

SET_OF_decode_uper(td, num, at, decode) ==
    DecodeEach([i \in 1 .. num + td.lo |-> td.element], at, decode)

Chosen(num, rv) ==
    IF rv.code # "RC_OK" THEN rv ELSE Decoded(rv.at, Value(num, <<rv.value>>))

CHOICE_decode_uper(td, num, at, decode) ==
    IF num >= Len(td.elements) THEN DecodeFailed
    ELSE Chosen(num, decode[td.elements[num + 1], at])

Numbered(td, num, pd, at, decode) ==
    IF num = -1 THEN Starved ELSE
    CASE td.kind = "INTEGER" -> INTEGER_decode_uper(td, num, at)
      [] td.kind = "ENUMERATED" -> NativeEnumerated_decode_uper(td, num, at)
      [] td.kind = "STRING" -> OCTET_STRING_decode_uper(td, num, pd, at)
      [] td.kind = "SEQUENCE OF" -> SET_OF_decode_uper(td, num, at, decode)
      [] td.kind = "CHOICE" -> CHOICE_decode_uper(td, num, at, decode)

DecodeType(td, pd, at, decode) ==
    CASE td.kind = "NULL" -> NULL_decode_uper(at)
      [] td.kind = "BOOLEAN" -> BOOLEAN_decode_uper(pd, at)
      [] td.kind = "SEQUENCE" -> SEQUENCE_decode_uper(td, pd, at, decode)
      [] OTHER -> Numbered(td, per_get_few_bits(pd, at, td.bits), pd, at + td.bits, decode)

\* td->uper_decoder
uper_decode(type, pd, start) ==
    LET decode[name \in TypeNames, at \in 0 .. Len(pd)] ==
            IF name = Absent THEN Decoded(at, NotThere) ELSE DecodeType(asn_DEF[name], pd, at, decode)
    IN  decode[type, start]

\* n bits of a number, the first of them the highest.
per_put_few_bits(num, n) == [i \in 1 .. n |-> (num \div 2 ^ (n - i)) % 2]

Bits(octets) == FlattenSeq([i \in DOMAIN octets |-> per_put_few_bits(octets[i], 8)])

\* How many octets are used up; a value of no bits has one of zeros to itself.
Completed(rval, octets) ==
    LET empty == rval.code = "RC_OK" /\ rval.at = 0
    IN  CASE ~empty -> [rval EXCEPT !.at = (@ + 7) \div 8]
          [] empty /\ octets = <<>> -> Starved
          [] OTHER -> IF octets[1] = 0 THEN [rval EXCEPT !.at = 1] ELSE DecodeFailed

uper_decode_complete(name, octets) == Completed(uper_decode(name, Bits(octets), 0), octets)

-----------------------------------------------------------------------------
(***************************************************************************)
(* Encoding, which the library has but does not use: other makers' code is *)
(* at the other end, so values that the encoders here refuse, for numbers  *)
(* that the bits can hold but the constraints exclude, are encoded.        *)
(***************************************************************************)
\* encode[name, value] is what uper_encode makes of a value.
EncodeEach(names, values, encode) ==
    FlattenSeq([i \in DOMAIN names |-> encode[names[i], values[i]]])

\* The optional members that there are.
Bitmap(td, value) ==
    FlattenSeq([i \in DOMAIN td.elements |->
        IF i \notin td.oms THEN <<>>
        ELSE IF value.parts[i] = NotThere THEN <<0>> ELSE <<1>>])

SEQUENCE_encode_uper(td, value, encode) ==
    Bitmap(td, value)
      \o EncodeEach([i \in DOMAIN td.elements |->
                        IF i \in td.oms /\ value.parts[i] = NotThere THEN Absent ELSE td.elements[i]],
                    value.parts, encode)

INTEGER_encode_uper(td, value) == per_put_few_bits(value.num - td.lo, td.bits)

NativeEnumerated_encode_uper(td, value) == per_put_few_bits(value.num, td.bits)

\* A character outside the alphabet has the code after the last one.
OCTET_STRING_per_put_characters(td, chars) ==
    LET code(char) == Len(SelectSeq(td.alphabet, LAMBDA c : c < char))
    IN  FlattenSeq([i \in DOMAIN chars |-> per_put_few_bits(code(chars[i].num), td.char_bits)])

OCTET_STRING_encode_uper(td, value) ==
    per_put_few_bits(value.num - td.lo, td.bits) \o OCTET_STRING_per_put_characters(td, value.parts)

SEQUENCE_OF_encode_uper(td, value, encode) ==
    per_put_few_bits(value.num - td.lo, td.bits)
      \o EncodeEach([i \in 1 .. value.num |-> td.element], value.parts, encode)

\* Of an alternative that there is not, nothing follows.
CHOICE_encode_uper(td, value, encode) ==
    per_put_few_bits(value.num, td.bits)
      \o (IF value.num < Len(td.elements)
          THEN encode[td.elements[value.num + 1], value.parts[1]] ELSE <<>>)

EncodeType(td, value, encode) ==
    CASE td.kind = "NULL" -> <<>>
      [] td.kind = "BOOLEAN" -> <<value.num>>
      [] td.kind = "SEQUENCE" -> SEQUENCE_encode_uper(td, value, encode)
      [] td.kind = "INTEGER" -> INTEGER_encode_uper(td, value)
      [] td.kind = "ENUMERATED" -> NativeEnumerated_encode_uper(td, value)
      [] td.kind = "STRING" -> OCTET_STRING_encode_uper(td, value)
      [] td.kind = "SEQUENCE OF" -> SEQUENCE_OF_encode_uper(td, value, encode)
      [] td.kind = "CHOICE" -> CHOICE_encode_uper(td, value, encode)

uper_encode(type, msg) ==
    LET encode[levels \in Nat] ==
            [name \in TypeNames, value \in Values[levels] |->
                IF name = Absent THEN <<>>
                ELSE EncodeType(asn_DEF[name], value, encode[levels - 1])]
    IN  encode[Levels][type, msg]

\* The octets of the bits, the last one filled up with zeros.
InOctets(bits) ==
    LET bit(i) == IF i <= Len(bits) THEN bits[i] ELSE 0
    IN  [o \in 1 .. (Len(bits) + 7) \div 8 |->
            FoldLeft(LAMBDA sum, i : 2 * sum + bit(8 * (o - 1) + i), 0, <<1, 2, 3, 4, 5, 6, 7, 8>>)]

uper_encode_to_buffer(name, value) == InOctets(uper_encode(name, value))
=============================================================================
