---------------------------- MODULE CpdlcSender -----------------------------
(***************************************************************************)
(* Messages to put into CPDLC: one value of a type for each number k.  As  *)
(* k runs, so do the bounds, the greatest number that the bits can hold,   *)
(* the alternatives, the sizes, and which optional members there are.      *)
(***************************************************************************)
EXTENDS CpdlcParser

Lesser(m, n) == IF m < n THEN m ELSE n

Greatest(bits) == 2 ^ bits - 1

SampleNumber(td, k) ==
    CASE td.kind = "INTEGER" -> <<td.lo, td.hi, td.lo + Greatest(td.bits)>>[(k % 3) + 1]
      [] td.kind = "ENUMERATED" -> IF k % 8 = 7 THEN Greatest(td.bits) ELSE k % td.map_count
      [] td.kind = "STRING" -> IF k % 2 = 0 THEN td.lo ELSE Lesser(td.hi, td.lo + 8)
      [] td.kind = "SEQUENCE OF" -> Lesser(td.hi, td.lo + (k % 3))
      [] td.kind = "CHOICE" -> k % Len(td.elements)
      [] td.kind = "SEQUENCE" -> Len(td.elements)
      [] td.kind = "BOOLEAN" -> k % 2
      [] OTHER -> 0

SampleMember(td, i, k, sample) ==
    IF i \in td.oms /\ k % 3 = 2 THEN NotThere ELSE sample[td.elements[i], k]

SampleOf(td, num, k, sample) ==
    CASE td.kind = "STRING" ->
            Value(num, [i \in 1 .. num |->
                           Scalar(td.alphabet[((k + 37 * i) % Len(td.alphabet)) + 1])])
      [] td.kind = "SEQUENCE OF" -> Value(num, [i \in 1 .. num |-> sample[td.element, k + i]])
      [] td.kind = "CHOICE" ->
            Value(num, <<sample[td.elements[num + 1], k + (k \div Len(td.elements))]>>)
      [] td.kind = "SEQUENCE" ->
            Value(num, [i \in 1 .. num |-> SampleMember(td, i, k + i, sample)])
      [] OTHER -> Scalar(num)

Sample[name \in DOMAIN asn_DEF, k \in Nat] ==
    SampleOf(asn_DEF[name], SampleNumber(asn_DEF[name], k), k, Sample)

\* How many alternatives the element of a message has.
ElementCount(dir) == IF dir = "GND2AIR" THEN 183 ELSE 129

\* A message of the type; with id an alternative that there is not, nothing
\* follows it.
Message(name, id, k) ==
    LET members == asn_DEF[name].elements
        alternatives == asn_DEF[members[2]].elements
        element == IF id < Len(alternatives) THEN <<Sample[alternatives[id + 1], k]>> ELSE <<>>
        last == SampleMember(asn_DEF[name], 3, k + id, Sample)
    IN  Value(3, <<Sample[members[1], k + id], Value(id, element), last>>)

\* The value has no alternative, enumerated number or character that the type
\* does not know.
KnownOf(td, value, known) ==
    CASE td.kind = "ENUMERATED" -> value.num < td.map_count
      [] td.kind = "STRING" ->
            \A i \in DOMAIN value.parts : value.parts[i].num \in Range(td.alphabet)
      [] td.kind = "CHOICE" ->
            value.num < Len(td.elements) /\ known[td.elements[value.num + 1], value.parts[1]]
      [] td.kind = "SEQUENCE" ->
            \A i \in DOMAIN td.elements :
                \/ i \in td.oms /\ value.parts[i] = NotThere
                \/ known[td.elements[i], value.parts[i]]
      [] td.kind = "SEQUENCE OF" -> \A i \in DOMAIN value.parts : known[td.element, value.parts[i]]
      [] OTHER -> TRUE

Known(type, msg) ==
    LET known[levels \in Nat] ==
            [name \in DOMAIN asn_DEF, value \in Values[levels] |->
                KnownOf(asn_DEF[name], value, known[levels - 1])]
    IN  known[Levels][type, msg]
=============================================================================
