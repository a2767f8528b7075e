---------------------------- MODULE CpdlcParser ----------------------------
(***************************************************************************)
(* la_cpdlc_parse (cpdlc.c) and la_asn1_decode_as (asn1-util.c): a message *)
(* between controllers and pilots, decoded by the codecs of Uper as one of *)
(* the two types of FansMessages.                                          *)
(***************************************************************************)
EXTENDS Uper

CpdlcMsg(err, data) == [err |-> err, data |-> data]

CpdlcType(dir) == IF dir = "GND2AIR" THEN "FANSATCUplinkMessage" ELSE "FANSATCDownlinkMessage"

\* Mutant: what is left over does not matter.
IgnoredOctets(rval, octets) == 0

LeftOver(rval, octets) == Len(octets) - rval.at

\* Zero for a message that is decoded and has nothing after it.
la_asn1_decode_as(rval, octets) ==
    IF rval.code # "RC_OK" THEN -1 ELSE LeftOver(rval, octets)

\* Of a message that failed, the part that was decoded is not shown.
CpdlcResult(rval, octets) ==
    IF la_asn1_decode_as(rval, octets) = 0 THEN CpdlcMsg(FALSE, rval.value)
    ELSE CpdlcMsg(TRUE, NotThere)

\* Of no octets, nothing is decoded.  A length below zero is not none: as a
\* number of bits it is negative again where per_get_few_bits subtracts, so that
\* the first bit asked for is not there, as in a message without octets.
CpdlcParse(octets, len, dir) ==
    IF len = 0 THEN CpdlcMsg(FALSE, NotThere)
    ELSE CpdlcResult(uper_decode_complete(CpdlcType(dir), octets), octets)
=============================================================================
