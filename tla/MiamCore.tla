------------------------------ MODULE MiamCore ------------------------------
(***************************************************************************)
(* la_miam_core_pdu_parse (miam-core.c): a text with a header and a body,  *)
(* each in BASE85 and padded, holds a data unit of version 1 or 2.  The    *)
(* text is taken as its parts: the numbers of padding octets, whether      *)
(* there is a '|' with something before it, and the octets that Base85     *)
(* decodes (see there).                                                    *)
(***************************************************************************)
EXTENDS Crc

\* The body may also be plain text ('-') or be ignored ('.').
Plain == 4
NoBody == 5

Paddings == 0 .. 3

\* What is read from a data unit: the errors, the last octet of the header
\* that was read, the application and its data.
Unit(err, read, app_id, data) == [err |-> err, read |-> read, app_id |-> app_id, data |-> data]

NoUnit == Unit({"NULL"}, 0, <<>>, <<>>)

ErrorOnly(error, read) == Unit({error}, read, <<>>, <<>>)

-----------------------------------------------------------------------------
(***************************************************************************)
(* la_miam_core_v1_data_parse and la_miam_core_v2_data_parse, which differ *)
(* in where the fields are and in the checksum.                            *)
(***************************************************************************)
MinHeader(version) == IF version = 1 THEN 20 ELSE 7

\* The octet with the lower bits of the compression, and the application type.
TypeAt(version) == IF version = 1 THEN 14 ELSE 4

CrcLength(version) == IF version = 1 THEN 4 ELSE 2

\* Zero for an unknown application type.
AppIdLength(version, type) ==
    CASE type = 0 -> 2
      [] type = 1 -> 4
      [] type \in {2, 3} -> 6
      [] version = 2 /\ type \in 8 .. 15 \ {13} -> (type % 8) + 1
      [] OTHER -> 0

Compression(version, header) ==
    LET at == TypeAt(version) IN (header[at - 1] * 4 + (header[at] \div 64)) % 8

Checksum(version, data) ==
    IF version = 1
    THEN LET crc == la_crc32_arinc665(data) IN [i \in 1 .. 4 |-> 255 - crc[i]]
    ELSE LET crc == la_crc16_arinc(data) IN <<crc \div 256, crc % 256>>

\* zlib, as far as it matters: a compressed stream has a last octet, and what
\* comes before it is there to be had although the stream is cut.
StreamEnd == 256

Compressed(data) == Append(data, StreamEnd)

Inflated(body) ==
    LET n == CHOOSE n \in 0 .. Len(body) :
                 /\ \A i \in 1 .. n : body[i] # StreamEnd
                 /\ n < Len(body) => body[n + 1] = StreamEnd
    IN  [success |-> n < Len(body), data |-> SubSeq(body, 1, n)]

\* The data of a body and the error in it.
BodyData(compression, body) ==
    CASE compression = 1 ->
            [data |-> Inflated(body).data,
             err |-> IF Inflated(body).success THEN {} ELSE {"BODY_INFLATE_FAILED"}]
      [] compression = 0 -> [data |-> body, err |-> {}]
      [] OTHER -> [data |-> <<>>, err |-> {"BODY_COMPR_UNSUPPORTED"}]

\* The three octets of a length.
PduLength(header) == (header[2] * 256 + header[3]) * 256 + header[4]

\* Mutant: the length in the header is not compared.
BodyTaken(version, header, body) == {}

BodyTruncated(version, header, body) ==
    IF version = 1 /\ PduLength(header) > Len(header) + Len(body) THEN {"BODY_TRUNCATED"} ELSE {}

RestFits(version, header, id_len) ==
    Len(header) - TypeAt(version) >= id_len + CrcLength(version)

DataParse(version, header, body) ==
    LET at == TypeAt(version)
        id_len == AppIdLength(version, header[at] % 16)
        end == at + id_len + CrcLength(version)
        read == BodyData(Compression(version, header), body)
        truncated == BodyTruncated(version, header, body)
        crc_failed ==
            IF Checksum(version, read.data) # SubSeq(header, at + id_len + 1, end)
            THEN {"BODY_CRC_FAILED"} ELSE {}
    IN  CASE Len(header) < MinHeader(version) -> ErrorOnly("HDR_TRUNCATED", 1)
          [] Len(header) >= MinHeader(version) /\ id_len = 0 ->
                Unit(truncated \union {"HDR_APP_TYPE_UNKNOWN"}, at, <<>>, <<>>)
          [] Len(header) >= MinHeader(version) /\ id_len > 0 /\ ~RestFits(version, header, id_len) ->
                Unit(truncated \union {"HDR_TRUNCATED"}, at, <<>>, <<>>)
          [] OTHER ->
                Unit(truncated \union IF body = <<>> THEN {} ELSE read.err \union crc_failed,
                     end,
                     SubSeq(header, at + 1, at + (IF id_len < 6 THEN id_len ELSE 6)),
                     IF body = <<>> THEN <<>> ELSE read.data)

-----------------------------------------------------------------------------
\* The acknowledgements of both versions, aloha and its reply.
HeaderParse(min, header) ==
    IF Len(header) < min THEN ErrorOnly("HDR_TRUNCATED", 1) ELSE Unit({}, min, <<>>, <<>>)

\* By the type in the parser tables of both versions.
ParseByType(version, type, header, body) ==
    CASE type = 0 -> DataParse(version, header, body)
      [] type = 1 -> HeaderParse(IF version = 1 THEN 20 ELSE 8, header)
      [] type \in {2, 3} -> HeaderParse(13, header)
      [] OTHER -> ErrorOnly("HDR_PDU_TYPE_UNKNOWN", 1)

Unpadded(octets, padding) ==
    IF Len(octets) >= padding THEN SubSeq(octets, 1, Len(octets) - padding) ELSE octets

BodyIn(pdu) ==
    CASE pdu.bpad \in Paddings -> Unpadded(pdu.body, pdu.bpad)
      [] pdu.bpad = Plain -> pdu.body
      [] OTHER -> <<>>

IsMiamCore(pdu) ==
    /\ pdu.bpad \in Paddings \union {Plain, NoBody}
    /\ pdu.hpad \in Paddings
    /\ pdu.delim
    /\ Len(pdu.header) >= pdu.hpad

\* The first octet is read although it may be padding, or the zero that the
\* buffer has when no group of the header was whole.
FirstOctet(header) == IF header = <<>> THEN 0 ELSE Head(header)

PduParse(pdu) ==
    LET version == FirstOctet(pdu.header) % 16
        type == FirstOctet(pdu.header) \div 16
    IN  CASE ~IsMiamCore(pdu) -> NoUnit
          [] IsMiamCore(pdu) /\ version \in {1, 2} ->
                ParseByType(version, type, Unpadded(pdu.header, pdu.hpad), BodyIn(pdu))
          [] OTHER -> ErrorOnly("HDR_PDU_VERSION_UNKNOWN", 1)
=============================================================================
