------------------------------ MODULE Arinc622 ------------------------------
(***************************************************************************)
(* la_arinc_parse (arinc.c): the envelope of ARINC 622, a ground address,  *)
(* the name of an application, a registration, and octets in hexadecimal   *)
(* digits, of which the last two are a checksum of all after the address.  *)
(***************************************************************************)
EXTENDS AppText, Crc

\* The characters of imi_map after their dot, and those of a registration.
ImiOctets ==
    <<<<65, 84, 49>>, <<67, 82, 49>>, <<67, 67, 49>>, <<68, 82, 49>>, <<65, 68, 83>>, <<68, 73, 83>>>>

RegistrationOctets == <<46, 78, 49, 50, 51, 52, 53>>

Cpdlc == 1 .. 4

ADS == 5

DIS == 6

\* LA_ARINC_IMI_LEN, LA_ARINC_AIR_REG_LEN and LA_ARINC_CRC_LEN * 2
MinPayload == 3 + 7 + 2 * 2

\* LA_CRC_ARINC_GOOD
CrcGood == 7439

\* An imi of zero: no node.  octets and len are what the next parser is called
\* with, the buffer up to that length and the length itself.
ArincMsg(imi, crc_ok, octets, len) == [imi |-> imi, crc_ok |-> crc_ok, octets |-> octets, len |-> len]

NoArinc == ArincMsg(0, FALSE, <<>>, 0)

(***************************************************************************)
(* guess_arinc_msg_type                                                    *)
(***************************************************************************)
WithoutSlash(txt) == IF Starts(txt, "slash") THEN Tail(txt) ELSE txt

\* The application found is the first of the table that is anywhere in the
\* text, at the first place where it is.
ImiPlaces(txt) ==
    LET places == {i \in 1 .. Len(txt) : txt[i].kind = "imi"}
    IN  {i \in places : \A j \in places :
            txt[i].value < txt[j].value \/ (txt[i].value = txt[j].value /\ i <= j)}

GroundAddress(address) ==
    /\ Width(address) \in {4, 7}
    /\ \A i \in DOMAIN address : address[i].kind = "upper"

\* The text from the name of the application on, or nothing.
GuessMsgType(txt) ==
    LET text == WithoutSlash(txt)
        places == {i \in ImiPlaces(text) : GroundAddress(SubSeq(text, 1, i - 1))}
    IN  IF places = {} THEN <<>> ELSE SubSeq(text, CHOOSE i \in places : TRUE, Len(text))

(***************************************************************************)
(* la_slurp_hexstring: a digit without a second one is dropped.            *)
(***************************************************************************)
SlurpHexstring(txt) ==
    LET digits == Run(txt, "digit")
    IN  [i \in 1 .. Len(digits) \div 2 |-> 16 * digits[2 * i - 1].value + digits[2 * i].value]

\* Mutant: the checksum is taken of the octets alone.
CrcOfOctets(imi, octets) == la_crc16_arinc(octets) = CrcGood

\* la_is_crc_ok
IsCrcOk(imi, octets) ==
    la_crc16_arinc(ImiOctets[imi] \o RegistrationOctets \o octets) = CrcGood

\* The length is a size_t: of less than two octets it wraps, and the int of the
\* next parser is -1 or -2.
LenStripped(octets) == Len(octets) - 2

CrcStripped(octets) == SubSeq(octets, 1, LenStripped(octets))

Checked(imi, octets) ==
    ArincMsg(imi, IsCrcOk(imi, octets), CrcStripped(octets), LenStripped(octets))

\* In every text here, a registration follows the name.
PayloadParse(payload) ==
    IF payload = <<>> THEN NoArinc
    ELSE IF Width(payload) - 1 < MinPayload THEN NoArinc
    ELSE Checked(Head(payload).value, SlurpHexstring(SubSeq(payload, 3, Len(payload))))

ArincParse(txt) == PayloadParse(GuessMsgType(txt))
=============================================================================
