----------------------------- MODULE AppsSender -----------------------------
(***************************************************************************)
(* The other end of AcarsApps: how the applications' messages are put into *)
(* the text of an ACARS message, and what may happen to the text: it is    *)
(* cut, a character of it is changed, its first block comes twice, or it   *)
(* has another label.  A sending is a record of all this, and the decoder  *)
(* owes its user what is stated here of it.                                *)
(***************************************************************************)
EXTENDS AcarsApps, AdscSender, CpdlcSender

CONSTANT
    Sendings    \* what may be sent

VARIABLE
    sent        \* the last sending

senderVars == <<appsVars, sent>>

Nothing == [app |-> "nothing"]

\* The decoder has returned.
Returned == node # NoNode /\ ~InParser

Prefix(dir, sublabel, mfi) ==
    (CASE sublabel = "none" -> <<>>
       [] sublabel = "right" -> <<Sublabel(dir)>>
       [] OTHER -> <<Sublabel(IF dir = "GND2AIR" THEN "AIR2GND" ELSE "GND2AIR")>>)
      \o (IF mfi THEN <<Mfi>> ELSE <<>>)

Opening == [sublabel : {"none", "right", "wrong"}, mfi : BOOLEAN]

NoOpening == [sublabel |-> "none", mfi |-> FALSE]

\* The decoder gets to the text of the application.
Opened(s) ==
    CASE s.label = "H1" -> s.open.sublabel = "right" \/ s.open = NoOpening
      [] OTHER -> s.open = NoOpening

-----------------------------------------------------------------------------
(***************************************************************************)
(* ARINC 622.  A sending: label, dir, open; address, the tokens in front   *)
(* of the name; imi; reports; digits, how many of the hexadecimal digits   *)
(* arrive; garbled, the one of them that is changed, or zero; more, what   *)
(* follows them.                                                           *)
(***************************************************************************)
Hex(octets) ==
    [i \in 1 .. 2 * Len(octets) |->
        LET octet == octets[(i + 1) \div 2]
        IN  IF i % 2 = 1 THEN octet \div 16 ELSE octet % 16]

Protected(imi, octets) == ImiOctets[imi] \o RegistrationOctets \o octets

TwoOctets(n) == <<n \div 256, n % 256>>

\* The octets followed by their checksum, inverted.
WithCrc(imi, octets) == octets \o TwoOctets(65535 - la_crc16_arinc(Protected(imi, octets)))

DigitsOf(octets) == 2 * (Len(octets) + 2)

DigitsSent(s) == DigitsOf(ReportsOctets(s.reports))

Changed(digits, garbled) ==
    [i \in DOMAIN digits |-> Digit(IF i = garbled THEN (digits[i] + 1) % 16 ELSE digits[i])]

\* The first n digits of the octets and their checksum.
ArincTextOf(s, octets, n) ==
    Prefix(s.dir, s.open.sublabel, s.open.mfi)
      \o s.address \o <<Imi(s.imi), Registration>>
      \o Changed(SubSeq(Hex(WithCrc(s.imi, octets)), 1, n), s.garbled)
      \o s.more

\* To a ground address of four or seven letters or digits, after a slash or not.
Addressed(s) ==
    \E address \in {WithoutSlash(s.address)} :
        /\ {address[i].kind : i \in DOMAIN address} \subseteq {"upper"}
        /\ Width(address) = 4 \/ Width(address) = 7

ArincText(s) == ArincTextOf(s, ReportsOctets(s.reports), s.digits)

\* A text with so many digits is taken for a message, as long as it is addressed
\* and has room for a checksum, whatever the room holds.
TakenForArinc(s, digits) ==
    /\ s.label \in ArincLabels
    /\ Opened(s)
    /\ Addressed(s)
    /\ digits + Width(s.more) >= 4

IsArincSent(s) == TakenForArinc(s, s.digits)

\* A message is recognised as what it was sent as, under any label and opening.
ArincRecognised ==
    Returned /\ sent.app = "arinc" =>
        /\ (node.app = "arinc") = IsArincSent(sent)
        /\ node.app = "arinc" => node.msg.imi = sent.imi

IsArincNode == Returned /\ sent.app = "arinc" /\ node.app = "arinc"

\* Of a message of which all arrives, the checksum is found good just when no digit
\* is changed.
ArincWholeChecked ==
    IsArincNode /\ sent.digits = DigitsSent(sent) => node.msg.crc_ok = (sent.garbled = 0)

\* Of one that is cut, it is not.
ArincCutChecked ==
    IsArincNode /\ sent.digits # DigitsSent(sent) => ~node.msg.crc_ok

(***************************************************************************)
(* A message of ARINC 622 is recognised as what it was sent as, and its    *)
(* checksum is found good just when all of it has arrived as it was sent.  *)
(***************************************************************************)
ArincAsSent == ArincRecognised /\ ArincWholeChecked /\ ArincCutChecked

(***************************************************************************)
(* The tags of an ADS-C message are those of the reports that arrived.     *)
(***************************************************************************)
OctetsArrived(s) == IF s.digits < 4 THEN 0 ELSE (s.digits \div 2) - 2

IsAdscNode(s) == s.app = "arinc" /\ node.app = "arinc" /\ s.imi = ADS

AllAsSent ==
    Returned /\ IsAdscNode(sent) /\ sent.garbled = 0 =>
        AsSent(sent.dir, sent.reports, OctetsArrived(sent))

-----------------------------------------------------------------------------
(***************************************************************************)
(* CPDLC, in the envelope of ARINC 622.  A sending: label, dir, open,      *)
(* address, imi, garbled and more as before; id and k, of the message;     *)
(* surplus, how many octets follow it; lost, how many of the digits do not *)
(* arrive.                                                                 *)
(***************************************************************************)
Surplus(s) == [i \in 1 .. s.surplus |-> 0]

CpdlcMessage(s) == Message(CpdlcType(s.dir), s.id, s.k)

CpdlcOctets(s, msg) == uper_encode_to_buffer(CpdlcType(s.dir), msg) \o Surplus(s)

DigitsLeft(s, octets) == IF s.lost < DigitsOf(octets) THEN DigitsOf(octets) - s.lost ELSE 0

AllButLost(s, octets) == ArincTextOf(s, octets, DigitsLeft(s, octets))

CpdlcText(s) == AllButLost(s, CpdlcOctets(s, CpdlcMessage(s)))

Entire(s) == s.lost = 0 /\ s.surplus = 0

DecodedFrom(type, msg, octets) ==
    Known(type, msg) /\ IsPrefix(uper_encode(type, msg), Bits(octets))

\* The digits of the checksum and of one octet.
CpdlcOwed(s, msg, digits) ==
    CASE digits \in 4 .. 5 -> CpdlcMsg(FALSE, NotThere)
      [] digits >= 6 /\ Entire(s) /\ Known(CpdlcType(s.dir), msg) -> CpdlcMsg(FALSE, msg)
      [] OTHER -> CpdlcMsg(TRUE, NotThere)

(***************************************************************************)
(* A message that arrives as it was sent is decoded to what was sent, but  *)
(* for one with an element that is unknown, which is an error like one     *)
(* that is cut or has something after it.  A message that is damaged may   *)
(* still be decoded: then to what those very bits encode.  Of a message    *)
(* with a checksum and nothing else nothing is decoded, and it is no       *)
(* error; one that has not even a checksum is an error.                    *)
(***************************************************************************)
CpdlcAsSent ==
    Returned /\ sent.app = "cpdlc" =>
        \A msg \in {CpdlcMessage(sent)} :
        \A digits \in {DigitsLeft(sent, CpdlcOctets(sent, msg))} :
            /\ (node.app = "arinc") = TakenForArinc(sent, digits)
            /\ node.app = "arinc" =>
                  IF digits >= 6 /\ sent.garbled \in 1 .. digits
                  THEN ~node.next[1].err =>
                          DecodedFrom(CpdlcType(sent.dir), node.next[1].data, node.msg.octets)
                  ELSE node.next[1] = CpdlcOwed(sent, msg, digits)

-----------------------------------------------------------------------------
(***************************************************************************)
(* MIAM CORE.  A sending: label, dir; version, the first octet, which is 1 *)
(* or 2 for a unit with data; compression, type and data of the unit;      *)
(* header and body, how many words of each arrive; garbled, the octet of   *)
(* the body that is changed, or zero.                                      *)
(***************************************************************************)
AppId(version, type) ==
    LET n == AppIdLength(version, type)
    IN  [i \in 1 .. (IF n = 0 THEN 2 ELSE n) |-> 64 + i]

BodySent(s) == IF s.compression = 1 THEN Compressed(s.data) ELSE s.data

TypeOctets(s) == <<s.compression \div 4, (s.compression % 4) * 64 + s.type>>

HeaderSent(s) ==
    LET id == AppId(s.version, s.type)
        crc == Checksum(s.version, s.data)
        len == 14 + Len(id) + 4 + Len(BodySent(s))
    IN  IF s.version = 1
        THEN <<1, 0, len \div 256, len % 256>> \o RegistrationOctets \o <<2>>
               \o TypeOctets(s) \o id \o crc
        ELSE <<s.version, 2>> \o TypeOctets(s) \o id \o crc

Padding(octets) == (4 - (Len(octets) % 4)) % 4

Padded(octets) == octets \o [i \in 1 .. Padding(octets) |-> 0]

FirstWords(octets, n) ==
    LET words == Padded(octets)
    IN  SubSeq(words, 1, IF 4 * n < Len(words) THEN 4 * n ELSE Len(words))

WordsOf(octets) == Len(Padded(octets)) \div 4

PduSent(s) ==
    LET body == FirstWords(BodySent(s), s.body)
    IN  [bpad |-> Padding(BodySent(s)), hpad |-> Padding(HeaderSent(s)), delim |-> s.header > 0,
         header |-> FirstWords(HeaderSent(s), s.header),
         body |-> [i \in DOMAIN body |-> IF i = s.garbled THEN (body[i] + 1) % 256 ELSE body[i]]]

MiamText(s) == <<FrameId("T"), Pdu(PduSent(s))>>

Undamaged(s) ==
    /\ s.header >= WordsOf(HeaderSent(s))
    /\ s.body >= WordsOf(BodySent(s))
    /\ s.garbled = 0

\* A unit of version 2 does not say how long it is: without any of its body
\* nothing is wrong with it.
BodyMissing(s) == s.version = 2 /\ s.body = 0

IsData(s) == s.version \in {1, 2}

Supported(s) == AppIdLength(s.version, s.type) > 0 /\ s.compression < 2

IsMiamNode == Returned /\ sent.app = "miam" /\ node.app = "miam"

\* Data that is handed up without an error is the data that was sent.
MiamIntact ==
    IsMiamNode /\ IsData(sent) /\ node.msg.err = {} =>
        /\ node.msg.data = sent.data \/ BodyMissing(sent)
        /\ IsPrefix(node.msg.app_id, AppId(sent.version, sent.type))

\* All that arrives undamaged is handed up, and without an error.
MiamDecoded ==
    Returned /\ sent.app = "miam" /\ Undamaged(sent) /\ sent.label \in MiamLabels =>
        /\ node.app = "miam"
        /\ IsData(sent) /\ Supported(sent) => node.msg.err = {} /\ node.msg.data = sent.data

\* No octet after the last one of the header is read, however little of it there
\* is, but for the first one, which says what the rest is.
MiamReadsHeader ==
    IsMiamNode /\ node.msg.read > 1 =>
        node.msg.read <= Len(PduSent(sent).header) - PduSent(sent).hpad

(***************************************************************************)
(* A data unit of MIAM CORE is handed up as it was sent, or as an error.   *)
(***************************************************************************)
MiamAsSent == MiamIntact /\ MiamDecoded /\ MiamReadsHeader

-----------------------------------------------------------------------------
(***************************************************************************)
(* OHMA.  A sending: label, dir; prefix; first, how many groups the first  *)
(* block has; copies, how often it comes; groups, how many of all arrive;  *)
(* cut, how many characters of one more; eol, how many follow.             *)
(***************************************************************************)
Quads(from, to) == [i \in 1 .. to - from + 1 |-> Quad(from + i - 1)]

OhmaText(s) ==
    LET block == s.prefix \o <<OhmaMark(1)>> \o Quads(1, s.first)
    IN  FlattenSeq([i \in 1 .. s.copies |-> block])
          \o Quads(s.first + 1, s.groups)
          \o (IF s.cut > 0 THEN <<QuadCut(s.cut)>> ELSE <<>>)
          \o [i \in 1 .. s.eol |-> Eol]

(***************************************************************************)
(* The content is decoded just when all of it is there, also when the      *)
(* first block comes twice.                                                *)
(***************************************************************************)
OhmaAsSent ==
    Returned /\ sent.app = "ohma" =>
        IF /\ sent.label = "H1"
           /\ sent.groups = OhmaLength
           /\ sent.copies <= 2
        THEN node = Node("ohma", OhmaResult("SUCCESS", [i \in 1 .. OhmaLength |-> i]))
        ELSE node.app = "ohma" => node.msg.err # "SUCCESS"

-----------------------------------------------------------------------------
(***************************************************************************)
(* Media Advisory.  A sending: label, dir; state, link, digits of the time *)
(* and links, as codes; text, whether there is more; chars, how many       *)
(* characters arrive.                                                      *)
(***************************************************************************)
Codes(codes) == [i \in DOMAIN codes |-> Code(codes[i])]

MediaHeader(s) == <<Zero0, s.state, s.link>> \o s.digits

MediaText(s) ==
    LET all == Codes(MediaHeader(s) \o s.links) \o (IF s.text THEN <<Slash, Code(65)>> ELSE <<>>)
    IN  SubSeq(all, 1, s.chars)

ValidTime(digits) ==
    /\ 10 * (digits[1] - Zero0) + digits[2] - Zero0 < 24
    /\ digits[3] < Zero0 + 6
    /\ digits[5] < Zero0 + 6

Arrived(s) ==
    SubSeq(s.links, 1, IF s.chars - 9 < Len(s.links) THEN s.chars - 9 ELSE Len(s.links))

\* An advisory is decoded if it is one and enough of it is there, with the
\* links of it that are.
MediaAsSent ==
    Returned /\ sent.app = "media_adv" =>
        (sent.label = "SA") =
            /\ node.app = "media_adv"
            /\ node.msg.err = ~( /\ sent.chars >= 10
                                 /\ sent.link \in LinkTypes
                                 /\ ValidTime(sent.digits)
                                 /\ \A i \in DOMAIN Arrived(sent) : sent.links[i] \in LinkTypes)
            /\ ~node.msg.err => node.msg.available_links = Arrived(sent)

-----------------------------------------------------------------------------
TextSent(s) ==
    CASE s.app = "arinc" -> ArincText(s)
      [] s.app = "cpdlc" -> CpdlcText(s)
      [] s.app = "miam" -> MiamText(s)
      [] s.app = "ohma" -> OhmaText(s)
      [] s.app = "media_adv" -> MediaText(s)

(***************************************************************************)
(* What a sending is.  No other name of an application is in the address   *)
(* or behind the digits; a digit there completes the last octet at most.   *)
(***************************************************************************)
Texts == Seq([kind : {"upper", "lower", "slash", "dot", "digit", "eol"}, value : Int, width : Nat])

EnvelopeOf(s) ==
    /\ s.dir \in MsgDir
    /\ s.open \in Opening
    /\ s.address \in Texts
    /\ s.imi \in DOMAIN ImiOctets
    /\ s.garbled \in Nat
    /\ s.more \in Texts

ArincSending(s) ==
    /\ EnvelopeOf(s)
    /\ s.reports \in Seq(Reports)
    /\ s.imi = ADS => \A i \in 1 .. Len(s.reports) : IsReport(s.dir, s.reports[i])
    /\ s.digits \in 0 .. DigitsSent(s)
    /\ s.garbled <= s.digits
    /\ Starts(s.more, "digit") => s.digits = DigitsSent(s) /\ Len(s.more) = 1

CpdlcSendingOf(s) ==
    /\ EnvelopeOf(s)
    /\ s.imi \in Cpdlc
    /\ s.id \in 0 .. ElementCount(s.dir)
    /\ s.k \in Nat
    /\ s.surplus \in Nat
    /\ s.lost \in Nat
    /\ ~Starts(s.more, "digit")

MiamSending(s) ==
    /\ s.version \in Octets
    /\ s.compression \in 0 .. 7
    /\ s.type \in 0 .. 15
    /\ s.data \in Seq(Octets)
    /\ s.header \in Nat
    /\ s.body \in Nat
    /\ s.garbled \in Nat

OhmaSending(s) ==
    /\ s.prefix \in {<<>>, <<Slash, Upper(2), Dot>>, <<Slash, Upper(7), Dot>>}
    /\ s.groups \in 0 .. OhmaLength
    /\ s.first \in 0 .. s.groups
    /\ s.copies \in Nat \ {0}
    /\ s.cut \in 0 .. 3
    /\ s.eol \in Nat

MediaSending(s) ==
    /\ s.state \in {69, 76}
    /\ s.link \in Nat
    /\ s.digits \in [1 .. 6 -> Zero0 .. Zero0 + 9]
    /\ s.links \in Seq(Nat)
    /\ s.text \in BOOLEAN
    /\ s.chars \in 0 .. 9 + Len(s.links) + (IF s.text THEN 2 ELSE 0)

Sending(s) ==
    \/ s.app = "arinc" /\ ArincSending(s)
    \/ s.app = "cpdlc" /\ CpdlcSendingOf(s)
    \/ s.app = "miam" /\ MiamSending(s)
    \/ s.app = "ohma" /\ OhmaSending(s)
    \/ s.app = "media_adv" /\ MediaSending(s)

ASSUME SendingsAssumption == \A s \in Sendings : Sending(s)

Send(s) ==
    /\ node = NoNode
    /\ \E txt \in {TextSent(s)} : DecodeApps(s.label, s.dir, txt)
    /\ sent' = s

SenderInit == AppsInit /\ sent = Nothing

SenderNext ==
    \/ \E s \in Sendings : Send(s)
    \/ AdscParserStep /\ UNCHANGED sent
    \/ TreeDestroy /\ sent' = Nothing

\* The parser of ADS-C is one function: it goes on until it returns.
SenderSpec == SenderInit /\ [][SenderNext]_senderVars /\ WF_appsVars(AdscParserStep)
=============================================================================
