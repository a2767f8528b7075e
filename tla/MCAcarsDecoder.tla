--------------------------- MODULE MCAcarsDecoder ---------------------------
(***************************************************************************)
(* Instances of AcarsDecoder: files sent as downlinks and files sent as    *)
(* uplinks, with a first segment of two blocks and perhaps a second one of *)
(* one block.                                                              *)
(***************************************************************************)
EXTENDS AcarsDecoder

CONSTANTS
    f, g,                   \* files sent as downlinks
    u, v,                   \* files sent as uplinks
    SameId,                 \* do the downlinks have the same file identifier?
    TwoSegments,            \* the files with a second segment, of one block
    Groups                  \* bound: files that are sent in one behaviour

Frame(file, s) == [file |-> file, seg |-> s]
IsUplink(fr)   == fr.file \in {u, v}

MCFrames    == {Frame(file, s) : file \in Files, s \in 0 .. 1} \cup
               {Frame(file, 2) : file \in TwoSegments}
MCFileId    == [file \in Files |-> IF SameId /\ file \in {f, g} THEN f ELSE file]
MCFrameKind == [fr \in Frames |-> IF fr.seg = 0 THEN "request" ELSE "segment"]
MCFileOf    == [fr \in Frames |-> fr.file]
MCSegmentId == [fr \in Frames |-> fr.seg]
MCBlocks    == [fr \in Frames |-> IF fr.seg = 1 THEN 2 ELSE 1]

\* Each downlink has its own message number; uplinks have none.
MCMsgKey    == [fr \in Frames |-> IF IsUplink(fr) THEN Frame(u, 0) ELSE fr]

\* An uplink's block identifiers go on from one message to the next, here from
\* 'V' over 'W' to 'A'.
FirstChar == 86

UplinkChar(fr, i) ==
    LET n == (IF fr.file = u THEN 0 ELSE 4) + 2 * fr.seg + i - (IF fr.seg = 0 THEN 1 ELSE 2)
    IN  CharA + ((FirstChar - CharA + n) % (CharX - CharA))

MCHeader ==
    [fr \in Frames |-> [i \in 1 .. MCBlocks[fr] |->
        [block_id    |-> IF IsUplink(fr) THEN UplinkChar(fr, i) ELSE 48 + i,
         msg_num_seq |-> IF IsUplink(fr) THEN 0 ELSE CharA + i - 1]]]

MCProfile == [vhf  |-> [downlink |-> 1, uplink |-> 1],
              hfdl |-> [downlink |-> 2, uplink |-> 1]]

\* The steps of the radio link that send files of one group.
Grouped == \E G \in Groups : {file \in Files : IsSent(file)}' \subseteq G

MCRadioSpec == Init /\ [][RadioNext /\ Grouped]_allVars
=============================================================================
