------------------------------ MODULE AsnTypes ------------------------------
(***************************************************************************)
(* The descriptors that the types of CPDLC have in asn1/, with what the    *)
(* packed encoding rules look at: range_bits, lower_bound and upper_bound  *)
(* of a value, or effective_bits and the bounds of a size, and the types   *)
(* of members and alternatives, by their names.                            *)
(***************************************************************************)
EXTENDS Integers, Sequences

NativeInteger(bits, lo, hi) == [kind |-> "INTEGER", bits |-> bits, lo |-> lo, hi |-> hi]

NativeEnumerated(bits, n) == [kind |-> "ENUMERATED", bits |-> bits, map_count |-> n]

Text(char_bits, alphabet, bits, lo, hi) ==
    [kind |-> "STRING", char_bits |-> char_bits, alphabet |-> alphabet,
     bits |-> bits, lo |-> lo, hi |-> hi]

\* The characters are their codes.
IA5String(bits, lo, hi) == Text(7, [i \in 1 .. 128 |-> i - 1], bits, lo, hi)

\* The codes are the places of the characters in a map: a space, the digits.
NumericString(bits, lo, hi) == Text(4, <<32>> \o [i \in 1 .. 10 |-> 47 + i], bits, lo, hi)

Boolean == [kind |-> "BOOLEAN"]

Null == [kind |-> "NULL"]

Choice(bits, elements) == [kind |-> "CHOICE", bits |-> bits, elements |-> elements]

\* oms are the places of the members that may be left out.
Sequence(elements, oms) == [kind |-> "SEQUENCE", elements |-> elements, oms |-> oms]

SequenceOf(bits, lo, hi, element) ==
    [kind |-> "SEQUENCE OF", bits |-> bits, lo |-> lo, hi |-> hi, element |-> element]
=============================================================================
