--------------------------- MODULE MCApplications ---------------------------
(***************************************************************************)
(* Sendings for AppsSender: what each application sends, cut anywhere, and *)
(* for a few of them everything else that may happen to the text.          *)
(***************************************************************************)
EXTENDS AppsSender

-----------------------------------------------------------------------------
Data(n) == [i \in 1 .. n |-> 255]

DownlinkReports ==
    {Report(3, <<<<1>>>>), Report(6, <<>>),
     Report(4, <<<<1, 3>>>>), Report(4, <<<<1, 7, 0>>>>), BadReport(4, <<<<1, 14>>>>),
     Report(5, <<<<1, 0>>>>),
     Report(5, <<<<1, 2>>, <<10, 131>>, <<9, 3, 18, 48>>>>),
     Report(5, <<<<1, 1>>, <<9, 4, 18, 52>>>>),
     Report(17, <<Data(3)>>), BadReport(99, <<>>)}

LongReports ==
    {Report(7, <<Data(10)>>), Report(12, <<Data(6)>>), Report(13, <<Data(17)>>),
     Report(14, <<Data(5)>>), Report(16, <<Data(4)>>),
     Report(22, <<Data(8)>>), Report(23, <<Data(9)>>)}

UplinkReports ==
    {Report(1, <<>>), Report(2, <<<<1>>>>),
     Report(7, <<<<1>>, <<11, 65>>, <<13, 1>>, <<20>>>>),
     Report(8, <<<<2>>, <<19, 0, 1, 0, 2>>, <<21, 1, 2>>>>),
     Report(9, <<<<3>>>>), BadReport(99, <<>>)}

Rows(reports) == {<<r>> : r \in reports} \union {<<q, r>> : q, r \in reports}

Arinc(label, dir, open, address, imi, reports, digits, garbled, more) ==
    [app |-> "arinc", label |-> label, dir |-> dir, open |-> open, address |-> address,
     imi |-> imi, reports |-> reports, digits |-> digits, garbled |-> garbled, more |-> more]

Plainly(label, dir, imi, reports, digits) ==
    Arinc(label, dir, NoOpening, <<Upper(7)>>, imi, reports, digits, 0, <<>>)

\* Cut after every digit; of two reports, after every octet.
CutAnywhere(label, dir, imi, reports) ==
    {Plainly(label, dir, imi, reports, digits) :
        digits \in {n \in 0 .. 2 * (Len(ReportsOctets(reports)) + 2) :
                       Len(reports) = 2 => n % 2 = 0}}

CutReports ==
    UNION {CutAnywhere("BA", "AIR2GND", ADS, reports) :
              reports \in Rows(DownlinkReports) \union {<<r>> : r \in LongReports}}
      \union UNION {CutAnywhere("AA", "GND2AIR", ADS, reports) : reports \in Rows(UplinkReports)}

\* Other names, and the one octet of a disconnect.
OtherImis ==
    UNION {CutAnywhere("B6", dir, imi, <<Report(3, <<>>)>>) : dir \in MsgDir, imi \in Cpdlc \union {DIS}}

\* Every label, direction, opening and address, and what may follow.
Short(dir) == <<Report(IF dir = "GND2AIR" THEN 1 ELSE 6, <<>>)>>

Addresses ==
    {<<>>, <<Upper(4)>>, <<Upper(5)>>, <<Upper(7)>>, <<Upper(3), Upper(4)>>,
     <<Upper(3), Lower>>, <<Slash, Upper(3)>>, <<Slash, Upper(4)>>, <<Slash, Upper(7)>>}

Envelopes ==
    {Arinc(label, dir, open, address, ADS, Short(dir), 6, 0, <<>>) :
        label \in {"A6", "B6", "H1", "SA", "10"}, dir \in MsgDir, open \in Opening,
        address \in Addresses}

Endings ==
    {Arinc("A6", "GND2AIR", NoOpening, <<Upper(4)>>, ADS, <<Report(7, <<<<1>>, <<11, 65>>>>)>>,
           digits, garbled, more) :
        digits \in {0, 1, 3, 4, 5, 11, 12}, garbled \in 0 .. 12, more \in {<<>>, <<Lower>>, <<Upper(3)>>, <<Digit(7)>>}}

OtherArinc ==
    OtherImis \union Envelopes
      \union {s \in Endings : s.garbled <= s.digits /\ (s.more = <<Digit(7)>> => s.digits = 12)}

MCPayloads ==
    {[octets |-> ReportsOctets(reports), imi |-> "ADS", dir |-> "AIR2GND"] :
        reports \in Rows(DownlinkReports)}

-----------------------------------------------------------------------------
CpdlcSending(dir, id, k, surplus, lost, garbled) ==
    [app |-> "cpdlc", label |-> IF dir = "GND2AIR" THEN "AA" ELSE "BA", dir |-> dir,
     open |-> NoOpening, address |-> <<Upper(7)>>, imi |-> 1, id |-> id, k |-> k,
     surplus |-> surplus, lost |-> lost, garbled |-> garbled, more |-> <<>>]

\* Every element, and one that there is not.
WholeMessages(dir) ==
    {CpdlcSending(dir, id, k, 0, 0, 0) : id \in 0 .. ElementCount(dir), k \in 0 .. 5}

\* With octets after it, or without its last one.
OctetsOff(dir) ==
    {CpdlcSending(dir, id, 0, off[1], off[2], 0) :
        id \in 0 .. ElementCount(dir) - 1, off \in {<<1, 0>>, <<2, 0>>, <<0, 2>>}}

\* Cut, or changed, at every digit.
Damaged(dir, ids) ==
    {CpdlcSending(dir, id, k, 0, lost, 0) : id \in ids, k \in 0 .. 2, lost \in 0 .. 100}
      \union {CpdlcSending(dir, id, k, 0, 0, garbled) : id \in ids, k \in 0 .. 2, garbled \in 1 .. 100}

\* Cut at every digit with something else behind, which makes up for the digits
\* that are not there, or does not.
Followed(dir, id) ==
    {[CpdlcSending(dir, id, 0, 0, lost, garbled) EXCEPT !.more = more] :
        lost \in 0 .. 40, garbled \in 0 .. 2, more \in {<<Upper(1)>>, <<Upper(3)>>, <<Upper(4)>>}}

CpdlcSendings ==
    UNION {WholeMessages(dir) \union OctetsOff(dir) : dir \in MsgDir}
      \union Damaged("GND2AIR", {6, 26, 79, 157}) \union Damaged("AIR2GND", {0, 22, 32, 48})
      \union Followed("GND2AIR", 0) \union Followed("AIR2GND", 0)

-----------------------------------------------------------------------------
Text5 == <<65, 66, 67, 68, 69>>

Miam(label, version, compression, type, data, header, body, garbled) ==
    [app |-> "miam", label |-> label, dir |-> "AIR2GND", version |-> version,
     compression |-> compression, type |-> type, data |-> data,
     header |-> header, body |-> body, garbled |-> garbled]

\* Up to 7 words of header and 2 of body.
MiamSendings ==
    {Miam("MA", version, compression, type, data, header, body, 0) :
        version \in {1, 2}, compression \in {0, 1, 2}, type \in {0, 1, 2, 4, 15},
        data \in {<<>>, Text5}, header \in 0 .. 7, body \in 0 .. 2}
      \union
    {Miam(label, version, compression, 0, Text5, 7, 2, garbled) :
        label \in {"H1", "MA", "SA"}, version \in {1, 2, 3, 17, 18, 33, 50, 66},
        compression \in {0, 1}, garbled \in 0 .. 6}

-----------------------------------------------------------------------------
OhmaPrefixes == {<<>>, <<Slash, Upper(2), Dot>>, <<Slash, Upper(7), Dot>>}

OhmaSendings ==
    {s \in [app : {"ohma"}, label : {"H1", "A6"}, dir : {"GND2AIR"}, prefix : OhmaPrefixes,
            first : 0 .. 2, copies : 1 .. 3, groups : 0 .. OhmaLength, cut : {0, 3}, eol : {0, 2}] :
        s.first <= s.groups}

-----------------------------------------------------------------------------
Digits(h1, h2, m1, m2, s1, s2) == <<48 + h1, 48 + h2, 48 + m1, 48 + m2, 48 + s1, 48 + s2>>

Media(label, state, link, digits, links, text, chars) ==
    [app |-> "media_adv", label |-> label, dir |-> "AIR2GND", state |-> state, link |-> link,
     digits |-> digits, links |-> links, text |-> text, chars |-> chars]

MediaSendings ==
    {s \in {Media(label, 69, link, digits, links, text, chars) :
                label \in {"SA"}, link \in {86, 65},
                digits \in {Digits(0, 0, 0, 0, 0, 0), Digits(2, 3, 5, 9, 5, 9),
                            Digits(2, 4, 0, 0, 0, 0), Digits(0, 0, 6, 0, 0, 0), Digits(0, 0, 0, 0, 6, 0)},
                links \in {<<>>, <<50>>, <<72, 73>>, <<86, 65>>}, text \in BOOLEAN, chars \in 0 .. 13} :
        s.chars <= 9 + Len(s.links) + (IF s.text THEN 2 ELSE 0)}

-----------------------------------------------------------------------------
\* The table that the last ADS-C message left matters to ADS-C only.
NoTableYet == adsc_table = "NULL"

\* The first of them are those of ADS-C.
SendingsByApp ==
    <<CutReports, OtherArinc, CpdlcSendings, MiamSendings, OhmaSendings, MediaSendings>>

MCSendings ==
    CutReports \union OtherArinc \union CpdlcSendings \union MiamSendings
      \union OhmaSendings \union MediaSendings

\* SenderNext without the sendings for which the table makes no difference.
MCNext ==
    \/ \E i \in DOMAIN SendingsByApp :
          (i = 1 \/ NoTableYet) /\ \E s \in SendingsByApp[i] : Send(s)
    \/ AdscParserStep /\ UNCHANGED sent
    \/ TreeDestroy /\ sent' = Nothing

MCSpec == SenderInit /\ [][MCNext]_senderVars /\ WF_appsVars(AdscParserStep)
=============================================================================
