----------------------------- MODULE AcarsApps ------------------------------
(***************************************************************************)
(* The applications that acars.c passes the text of a message to, by its   *)
(* label, and what they make of it: la_acars_extract_sublabel_and_mfi and  *)
(* la_acars_decode_apps.  The parser of ADS-C is the machine of Adsc; the  *)
(* others, which have no loop over what they store, are operators.  Of the *)
(* frames of MIAM this is about single transfers, which need no state; the *)
(* others are in AcarsDecoder.                                             *)
(***************************************************************************)
EXTENDS Adsc, Arinc622, CpdlcParser, MiamCore, Ohma, MediaAdv

VARIABLE
    node        \* the protocol node of the message: app, what it holds, and next,
                \* where the node of CPDLC is linked to that of ARINC 622

appsVars == <<adscVars, node>>

Node(app, msg) == [app |-> app, msg |-> msg, next |-> <<>>]

NoNode == Node("NULL", <<>>)

\* A message none of the applications knows, of which the text is printed.
TextOnly == Node("text", <<>>)

AppsInit == AdscInit /\ node = NoNode

-----------------------------------------------------------------------------
Sublabel(dir) == IF dir = "GND2AIR" THEN UplinkSublabel ELSE DownlinkSublabel

HasSublabel(dir, txt) == Starts(txt, "sublabel") /\ Head(txt).value = Sublabel(dir).value

\* The MFI is looked for only after a sublabel.
Extracted(label, dir, txt) ==
    IF label # "H1" \/ ~HasSublabel(dir, txt) THEN txt
    ELSE IF Starts(Tail(txt), "mfi") THEN Tail(Tail(txt))
    ELSE Tail(txt)

(***************************************************************************)
(* The switch over labels.                                                 *)
(***************************************************************************)
ArincLabels == {"A6", "AA", "B6", "BA", "H1"}

MiamLabels == {"H1", "MA"}

\* la_miam_parse_and_reassemble and la_miam_single_transfer_parse.
SingleTransfer(txt) ==
    IF /\ Starts(txt, "frame") /\ Head(txt).value = "T"
       /\ Len(txt) > 1 /\ txt[2].kind = "pdu"
    THEN PduParse(txt[2].value)
    ELSE NoUnit

IsMediaAdv(label) == label = "SA"

KnownBy(app, msg, none) == IF msg = none THEN TextOnly ELSE Node(app, msg)

\* What each of the applications that the label may be for makes of the text.
Answers(label, txt) ==
    << IF label \in ArincLabels THEN KnownBy("arinc", ArincParse(txt), NoArinc) ELSE TextOnly,
       IF label \in MiamLabels THEN KnownBy("miam", SingleTransfer(txt), NoUnit) ELSE TextOnly,
       IF label = "H1" THEN KnownBy("ohma", OhmaParse(txt), NoOhma) ELSE TextOnly,
       IF IsMediaAdv(label) THEN Node("media_adv", MediaAdvParse(txt)) ELSE TextOnly,
       TextOnly >>

\* Of the first application that knows it; they are asked one after the other,
\* which makes no difference since none of them keeps anything.
FirstAnswer(answers) ==
    answers[CHOOSE i \in DOMAIN answers :
                /\ answers[i].app # TextOnly.app \/ i = Len(answers)
                /\ \A j \in 1 .. i - 1 : answers[j].app = TextOnly.app]

AppNode(label, txt) == FirstAnswer(Answers(label, txt))

IsAdsc(parsed) == parsed.app = "arinc" /\ parsed.msg.imi \in {ADS, DIS}

AdscName(imi) == IF imi = ADS THEN "ADS" ELSE "DIS"

IsCpdlc(parsed) == parsed.app = "arinc" /\ parsed.msg.imi \in Cpdlc

\* la_acars_decode_apps up to where the parser of ADS-C takes over, for which a
\* length below zero is none.
DecodeApps(label, dir, txt) ==
    /\ node = NoNode
    /\ \E parsed \in {AppNode(label, Extracted(label, dir, txt))} :
          /\ node' = IF IsCpdlc(parsed)
                     THEN [parsed EXCEPT !.next = <<CpdlcParse(parsed.msg.octets, parsed.msg.len, dir)>>]
                     ELSE parsed
          /\ IF IsAdsc(parsed)
             THEN AdscParse([octets |-> parsed.msg.octets,
                             imi |-> AdscName(parsed.msg.imi), dir |-> dir])
             ELSE UNCHANGED adscVars

AdscParserStep == AdscStep /\ UNCHANGED node

\* la_proto_tree_destroy
TreeDestroy ==
    /\ node # NoNode
    /\ ~InParser
    /\ node' = NoNode
    /\ IF adsc_pc = "done" THEN AdscDestroy ELSE UNCHANGED adscVars
=============================================================================
