----------------------------- MODULE AcarsDecoder -----------------------------
(***************************************************************************)
(* The way of a block through the library: la_acars_parse_and_reassemble   *)
(* (acars.c) parses it, reassembles its message, and may pass the text so  *)
(* far to la_miam_parse_and_reassemble (miam.c), which does the same, one  *)
(* level up, with the segments of a file.  Both levels keep a table of     *)
(* their own in one la_reasm_ctx; each table is an instance of Reassembly. *)
(*                                                                         *)
(* What is hard is what one level does to the other: a text handed on too  *)
(* early, twice or not at all becomes a segment that is too short, taken   *)
(* for a duplicate or missing.                                             *)
(*                                                                         *)
(* One call is several steps, the application's next call comes when the   *)
(* tree of the last one has been destroyed.                                *)
(***************************************************************************)
EXTENDS Integers, Sequences, SequencesExt, FiniteSets, FiniteSetsExt

CONSTANTS
    Files,              \* files sent by MIAM file transfer
    FileId,             \* the file identifier of each
    Frames,             \* MIAM frames, each the text of one ACARS message
    FrameKind,          \* "request" or "segment" (other frames have no state)
    FileOf, SegmentId,  \* the file and the segment number of a frame
    Blocks,             \* the number of blocks its ACARS message has
    MsgKey,             \* registration, label and message number of that message
    Header,             \* the block identifier and msg_num_seq of each block
    DecodeFragments,    \* the values the application gives decode_fragments
    Bearers,            \* the values it gives acars_bearer
    Profile,            \* timeout_profiles: seconds per valid bearer and direction
    MiamTimeout,        \* la_miam_file_reasm_timeout, in seconds
    AcarsInterval, MiamInterval,    \* the cleanup intervals of the two tables
    Lifetime,           \* seconds for which blocks of a file stay on the air
    MaxTime,            \* bound on the clock
    NULL

VARIABLES
    acars_table, acars_cnt, acars_last,     \* the table of la_DEF_acars_message
    miam_table, miam_cnt, miam_last,        \* of la_DEF_miam_file_segment_message
    rtables,            \* the tables the context lists
    config,             \* the two options read
    pc,                 \* where the call is; "idle" between calls
    block,              \* the block being decoded
    msg,                \* the la_acars_msg being filled in
    decoded,            \* texts of files passed to la_miam_core_pdu_parse
    now, sent_at, next_part     \* clock and link, as in ReasmLink

acarsVars == <<acars_table, acars_cnt, acars_last>>
miamVars  == <<miam_table, miam_cnt, miam_last>>
linkVars  == <<now, sent_at, next_part>>
allVars   == <<acarsVars, miamVars, rtables, config, pc, block, msg, decoded, linkVars>>

Piece(fr, i) == [frame |-> fr, part |-> i]
Text(fr)     == [i \in 1 .. Blocks[fr] |-> Piece(fr, i)]
Pieces       == UNION {Range(Text(fr)) : fr \in Frames}
FrameTexts   == UNION {{SubSeq(Text(fr), 1, j) : j \in 0 .. Blocks[fr]} : fr \in Frames}
PieceLen     == [p \in Pieces |-> 1]
TextLen      == [t \in FrameTexts |-> Len(t)]
MsgKeys      == Range(MsgKey)
FileIds      == Range(FileId)
At(t)        == [tv_sec |-> t, tv_usec |-> 0]

-----------------------------------------------------------------------------
(***************************************************************************)
(* acars.c: the sequence number is a character of the block's header.      *)
(***************************************************************************)
CharA == 65
CharX == 88
CharSpace == 32
IsDownlinkBlk(bid) == bid \in 48 .. 57      \* '0' .. '9'

BlockId(h) == IF h.block_id = 0 THEN CharSpace ELSE h.block_id

Down(fr) == IsDownlinkBlk(BlockId(Header[fr][1]))

SeqNum(h) == IF IsDownlinkBlk(BlockId(h)) THEN h.msg_num_seq - CharA ELSE BlockId(h) - CharA

\* An unknown bearer gives no timeout: the engine will reject the arguments.
ReasmTimeout(down) ==
    IF config.acars_bearer \in DOMAIN Profile
    THEN At(Profile[config.acars_bearer][IF down THEN "downlink" ELSE "uplink"])
    ELSE At(0)

\* Mutant: the blocks of a downlink are numbered from 1.
OneBasedProtocol ==
    [k \in MsgKeys |->
        LET down == Down(CHOOSE fr \in Frames : MsgKey[fr] = k)
        IN  [out_of_order  |-> FALSE,
             seq_num_first |-> IF down THEN 1 ELSE -1,
             seq_num_wrap  |-> IF down THEN -1 ELSE CharX - CharA]]

AcarsProtocol ==
    [k \in MsgKeys |->
        LET down == Down(CHOOSE fr \in Frames : MsgKey[fr] = k)
        IN  [out_of_order  |-> FALSE,
             seq_num_first |-> IF down THEN 0 ELSE -1,
             seq_num_wrap  |-> IF down THEN -1 ELSE CharX - CharA]]

AcarsInfo(b) ==
    [msg_info           |-> MsgKey[b.frame],
     msg_data           |-> Piece(b.frame, b.part),
     total_pdu_len      |-> 0,
     total_fragment_cnt |-> 0,
     rx_time            |-> At(now),
     reasm_timeout      |-> ReasmTimeout(Down(b.frame)),
     seq_num            |-> SeqNum(Header[b.frame][b.part]),
     seq_num_first      |-> AcarsProtocol[MsgKey[b.frame]].seq_num_first,
     seq_num_wrap       |-> AcarsProtocol[MsgKey[b.frame]].seq_num_wrap,
     is_final_fragment  |-> b.part = Blocks[b.frame],
     out_of_order       |-> FALSE]

Acars == INSTANCE Reassembly WITH
    Keys <- MsgKeys, Payloads <- Pieces, PayloadLen <- PieceLen,
    FragmentInfos <- {}, Protocol <- AcarsProtocol, CleanupInterval <- AcarsInterval,
    fragment_table <- acars_table, frag_cnt <- acars_cnt, last <- acars_last

(***************************************************************************)
(* miam.c: a request is the empty fragment 0 of a file and gives its size, *)
(* segments are numbered from 1.                                           *)
(***************************************************************************)
SegmentsOf(file) == {fr \in Frames : FrameKind[fr] = "segment" /\ FileOf[fr] = file}

FileText ==
    [file \in Files |->
        FlattenSeq([s \in 1 .. Cardinality(SegmentsOf(file)) |->
                       Text(CHOOSE fr \in SegmentsOf(file) : SegmentId[fr] = s)])]

FileSize(file) == Len(FileText[file])

MiamProtocol ==
    [id \in FileIds |-> [out_of_order |-> FALSE, seq_num_first |-> 0, seq_num_wrap |-> -1]]

\* Mutant: the time of arrival is not passed on.
UntimedInfo(fr, txt) ==
    [msg_info           |-> FileId[FileOf[fr]],
     msg_data           |-> txt,
     total_pdu_len      |-> IF FrameKind[fr] = "request" THEN FileSize(FileOf[fr]) ELSE 0,
     total_fragment_cnt |-> 0,
     rx_time            |-> At(0),
     reasm_timeout      |-> At(MiamTimeout),
     seq_num            |-> SegmentId[fr],
     seq_num_first      |-> 0,
     seq_num_wrap       |-> -1,
     is_final_fragment  |-> FALSE,
     out_of_order       |-> FALSE]

MiamInfo(fr, txt) ==
    [msg_info           |-> FileId[FileOf[fr]],
     msg_data           |-> txt,
     total_pdu_len      |-> IF FrameKind[fr] = "request" THEN FileSize(FileOf[fr]) ELSE 0,
     total_fragment_cnt |-> 0,
     rx_time            |-> At(now),
     reasm_timeout      |-> At(MiamTimeout),
     seq_num            |-> SegmentId[fr],
     seq_num_first      |-> 0,
     seq_num_wrap       |-> -1,
     is_final_fragment  |-> FALSE,
     out_of_order       |-> FALSE]

Miam == INSTANCE Reassembly WITH
    Keys <- FileIds, Payloads <- FrameTexts, PayloadLen <- TextLen,
    FragmentInfos <- {}, Protocol <- MiamProtocol, CleanupInterval <- MiamInterval,
    fragment_table <- miam_table, frag_cnt <- miam_cnt, last <- miam_last

-----------------------------------------------------------------------------
(***************************************************************************)
(* What the senders' constants are.  A file is a request, its segment 0,   *)
(* and segments that are numbered from 1 without a gap.                    *)
(***************************************************************************)
ASSUME FilesAssumption ==
    /\ IsFiniteSet(Frames)
    /\ DOMAIN FileId = Files
    /\ FileOf \in [Frames -> Files]
    /\ SegmentId \in [Frames -> Nat]
    /\ FrameKind = [fr \in Frames |-> IF SegmentId[fr] = 0 THEN "request" ELSE "segment"]
    /\ \A fr, other \in Frames :
           FileOf[fr] = FileOf[other] /\ SegmentId[fr] = SegmentId[other] => fr = other
    /\ \A file \in Files :
           LET frames == {fr \in Frames : FileOf[fr] = file}
           IN  {SegmentId[fr] : fr \in frames} = 0 .. Cardinality(frames) - 1

(***************************************************************************)
(* The blocks of a message have successive numbers, those of a downlink    *)
(* from 'A', those of an uplink from any identifier and with 'A' after the *)
(* last one.  Messages under one key share no number (see ReasmLink).      *)
(***************************************************************************)
ASSUME HeadersAssumption ==
    /\ Blocks \in [Frames -> Nat \ {0}]
    /\ DOMAIN MsgKey = Frames
    /\ \A fr \in Frames : \A i \in 1 .. Blocks[fr] :
           LET h == Header[fr][i]
           IN  /\ IsDownlinkBlk(BlockId(h)) = Down(fr)
               /\ Down(fr) => SeqNum(h) = i - 1
               /\ ~Down(fr) => SeqNum(h) \in 0 .. CharX - CharA - 1
               /\ ~Down(fr) /\ i > 1 =>
                      SeqNum(h) = (SeqNum(Header[fr][i - 1]) + 1) % (CharX - CharA)
    /\ \A fr, other \in Frames :
           MsgKey[fr] = MsgKey[other] =>
               /\ Down(fr) = Down(other)
               /\ \A i \in 1 .. Blocks[fr], j \in 1 .. Blocks[other] :
                      SeqNum(Header[fr][i]) = SeqNum(Header[other][j]) => fr = other /\ i = j

ASSUME OptionsAssumption ==
    /\ DecodeFragments \subseteq BOOLEAN
    /\ Profile \in [DOMAIN Profile -> [downlink : Nat \ {0}, uplink : Nat \ {0}]]
    /\ MiamTimeout \in Nat \ {0}
    /\ AcarsInterval \in Nat \ {0}
    /\ MiamInterval \in Nat \ {0}
    /\ Lifetime \in Nat
    /\ MaxTime \in Nat
    /\ NULL \notin Nat \cup Pieces \cup MsgKeys \cup FileIds
    /\ NULL \notin Acars!TableEntry
    /\ NULL \notin Miam!TableEntry

-----------------------------------------------------------------------------
NoCall == [status |-> "UNKNOWN", key |-> NULL, seq_num |-> 0, rx_time |-> At(0), payload |-> <<>>]
NoMsg  == [err |-> FALSE, reasm_status |-> "UNKNOWN", txt |-> <<>>]

Init ==
    /\ Acars!Init
    /\ Miam!Init
    /\ rtables = <<>>
    /\ config \in [decode_fragments : DecodeFragments, acars_bearer : Bearers]
    /\ pc = "idle"
    /\ block = NULL
    /\ msg = NoMsg
    /\ decoded = {}
    /\ now = 0
    /\ sent_at = [f \in Files |-> NULL]
    /\ next_part = [f \in Files |-> 1]

\* la_reasm_table_lookup and, failing that, la_reasm_table_new.
TableNew(id) == rtables' = IF id \in Range(rtables) THEN rtables ELSE Append(rtables, id)

(***************************************************************************)
(* la_acars_parse_and_reassemble.  A block without its delimiters, too     *)
(* short or without text is given up; an uplink without text is done.      *)
(***************************************************************************)
ParseBlock(b) ==
    /\ pc = "idle"
    /\ block' = b
    /\ TableNew("acars")
    /\ Acars!FragmentAdd(AcarsInfo(b))
    /\ msg' = [NoMsg EXCEPT !.reasm_status = acars_last'.status]
    /\ pc' = "text"
    /\ UNCHANGED <<miamVars, config, decoded>>

RejectBlock(b) ==
    /\ pc = "idle"
    /\ block' = b
    /\ msg' = [NoMsg EXCEPT !.err = TRUE]
    /\ pc' = "done"
    /\ UNCHANGED <<acarsVars, miamVars, rtables, config, decoded>>

EmptyUplink(b) ==
    /\ pc = "idle"
    /\ ~Down(b.frame)
    /\ block' = b
    /\ msg' = [NoMsg EXCEPT !.reasm_status = "SKIPPED"]
    /\ pc' = "done"
    /\ UNCHANGED <<acarsVars, miamVars, rtables, config, decoded>>

\* The text is the reassembled payload if there is one, else that of the block.
TakeReassembled ==
    /\ pc = "text"
    /\ msg.reasm_status = "COMPLETE"
    /\ Acars!PayloadGet(MsgKey[block.frame])
    /\ msg' = [msg EXCEPT !.txt = IF acars_last'.status = "PAYLOAD" THEN acars_last'.payload
                                  ELSE <<Piece(block.frame, block.part)>>]
    /\ pc' = "apps"
    /\ UNCHANGED <<miamVars, rtables, config, block, decoded>>

TakeOwnText ==
    /\ pc = "text"
    /\ msg.reasm_status # "COMPLETE"
    /\ msg' = [msg EXCEPT !.txt = <<Piece(block.frame, block.part)>>]
    /\ pc' = "apps"
    /\ UNCHANGED <<acarsVars, miamVars, rtables, config, block, decoded>>

\* Mutant: messages in progress are passed on.
ProgressDecoded(status) == status = "DUPLICATE" /\ ~config.decode_fragments

\* decode_fragments decides, while the message is not complete.
Withheld(status) == status \in {"IN_PROGRESS", "DUPLICATE"} /\ ~config.decode_fragments

WithholdText ==
    /\ pc = "apps"
    /\ Withheld(msg.reasm_status)
    /\ pc' = "done"
    /\ UNCHANGED <<acarsVars, miamVars, rtables, config, block, msg, decoded>>

(***************************************************************************)
(* la_acars_apps_parse_and_reassemble and la_miam_parse_and_reassemble.  A *)
(* text is a MIAM frame if it starts as one.  A request is recognised by   *)
(* its length, so only when it is whole; a segment by its first digits.    *)
(***************************************************************************)
FrameIn(txt)  == txt[1].frame
Starts(txt)   == txt[1].part = 1
IsRequest(txt) ==
    Starts(txt) /\ FrameKind[FrameIn(txt)] = "request" /\ txt = Text(FrameIn(txt))
IsSegment(txt) == Starts(txt) /\ FrameKind[FrameIn(txt)] = "segment"

OtherText ==
    /\ pc = "apps"
    /\ ~Withheld(msg.reasm_status)
    /\ ~IsRequest(msg.txt)
    /\ ~IsSegment(msg.txt)
    /\ pc' = "done"
    /\ UNCHANGED <<acarsVars, miamVars, rtables, config, block, msg, decoded>>

FileTransferRequest ==
    /\ pc = "apps"
    /\ ~Withheld(msg.reasm_status)
    /\ IsRequest(msg.txt)
    /\ TableNew("miam")
    /\ Miam!FragmentAdd(MiamInfo(FrameIn(msg.txt), <<>>))
    /\ pc' = "done"
    /\ UNCHANGED <<acarsVars, config, block, msg, decoded>>

FileSegment ==
    /\ pc = "apps"
    /\ ~Withheld(msg.reasm_status)
    /\ IsSegment(msg.txt)
    /\ TableNew("miam")
    /\ Miam!FragmentAdd(MiamInfo(FrameIn(msg.txt), msg.txt))
    /\ pc' = "segment"
    /\ UNCHANGED <<acarsVars, config, block, msg, decoded>>

\* Only a complete file is of interest here; other segments are decoded, or
\* not, one by one, which changes nothing.
FileComplete ==
    /\ pc = "segment"
    /\ miam_last.status = "COMPLETE"
    /\ Miam!PayloadGet(FileId[FileOf[FrameIn(msg.txt)]])
    /\ decoded' = IF miam_last'.status = "PAYLOAD"
                  THEN decoded \cup {FlattenSeq(miam_last'.payload)} ELSE decoded
    /\ pc' = "done"
    /\ UNCHANGED <<acarsVars, rtables, config, block, msg>>

SegmentOnly ==
    /\ pc = "segment"
    /\ miam_last.status # "COMPLETE"
    /\ pc' = "done"
    /\ UNCHANGED <<acarsVars, miamVars, rtables, config, block, msg, decoded>>

\* la_proto_tree_destroy; the results of the call go with the tree.
TreeDestroy ==
    /\ pc = "done"
    /\ pc' = "idle"
    /\ block' = NULL
    /\ msg' = NoMsg
    /\ acars_last' = NoCall
    /\ miam_last' = NoCall
    /\ UNCHANGED <<acars_table, acars_cnt, miam_table, miam_cnt, rtables, config, decoded>>

Decode ==
    \/ TakeReassembled
    \/ TakeOwnText
    \/ WithholdText
    \/ OtherText
    \/ FileTransferRequest
    \/ FileSegment
    \/ FileComplete
    \/ SegmentOnly
    \/ TreeDestroy

(***************************************************************************)
(* The application may set options between calls and start over with a new *)
(* context: la_reasm_ctx_destroy frees both tables.                        *)
(***************************************************************************)
Configure ==
    /\ pc = "idle"
    /\ config' \in [decode_fragments : DecodeFragments, acars_bearer : Bearers]
    /\ UNCHANGED <<acarsVars, miamVars, rtables, pc, block, msg, decoded, linkVars>>

ContextDestroy ==
    /\ pc = "idle"
    /\ rtables' = <<>>
    /\ acars_table' = [k \in MsgKeys |-> NULL]
    /\ acars_cnt' = 0
    /\ miam_table' = [id \in FileIds |-> NULL]
    /\ miam_cnt' = 0
    /\ UNCHANGED <<acars_last, miam_last, config, pc, block, msg, decoded, linkVars>>

-----------------------------------------------------------------------------
(***************************************************************************)
(* The link.  A file's blocks, in the order they are sent.                 *)
(***************************************************************************)
FramesOf(file) ==
    [i \in 1 .. Cardinality({fr \in Frames : FileOf[fr] = file}) |->
        CHOOSE fr \in Frames : FileOf[fr] = file /\ SegmentId[fr] = i - 1]

Stream ==
    [file \in Files |-> FlattenSeq([i \in DOMAIN FramesOf(file) |-> Text(FramesOf(file)[i])])]

IsSent(file) == sent_at[file] # NULL
OnAir(file)  == IsSent(file) /\ now <= sent_at[file] + Lifetime

\* A file identifier is used again when nothing of its last file is left.
IdFree(file) ==
    \A other \in Files :
        FileId[other] = FileId[file] /\ IsSent(other) =>
            now > sent_at[other] + Lifetime + MiamTimeout

Send(file) ==
    /\ ~IsSent(file)
    /\ IdFree(file)
    /\ sent_at' = [sent_at EXCEPT ![file] = now]
    /\ UNCHANGED <<acarsVars, miamVars, rtables, config, pc, block, msg, decoded, now, next_part>>

Tick ==
    /\ now < MaxTime
    /\ now' = now + 1
    /\ UNCHANGED <<acarsVars, miamVars, rtables, config, pc, block, msg, decoded,
                   sent_at, next_part>>

\* A radio link loses, repeats, reorders and damages blocks.
RadioReceive(file, i) ==
    /\ OnAir(file)
    /\ \/ ParseBlock(Stream[file][i])
       \/ RejectBlock(Stream[file][i])
       \/ EmptyUplink(Stream[file][i])
    /\ UNCHANGED linkVars

RadioNext ==
    \/ \E file \in Files : Send(file)
    \/ \E file \in Files : \E i \in DOMAIN Stream[file] : RadioReceive(file, i)
    \/ Decode /\ UNCHANGED linkVars
    \/ Configure
    \/ ContextDestroy
    \/ pc = "idle" /\ Tick

RadioSpec == Init /\ [][RadioNext]_allVars

(***************************************************************************)
(* An orderly link: all blocks of a file arrive, in order and within its   *)
(* lifetime, among those of others; any received before may be repeated.   *)
(***************************************************************************)
OrderlyReceive(file) ==
    /\ OnAir(file)
    /\ next_part[file] \in DOMAIN Stream[file]
    /\ ParseBlock(Stream[file][next_part[file]])
    /\ next_part' = [next_part EXCEPT ![file] = @ + 1]
    /\ UNCHANGED <<now, sent_at>>

RepeatedReceive(file, i) ==
    /\ OnAir(file)
    /\ i < next_part[file]
    /\ ParseBlock(Stream[file][i])
    /\ UNCHANGED linkVars

OrderlyTick ==
    /\ pc = "idle"
    /\ \A file \in Files :
          IsSent(file) /\ next_part[file] \in DOMAIN Stream[file] => now < sent_at[file] + Lifetime
    /\ Tick

OrderlyNext ==
    \/ \E file \in Files : Send(file)
    \/ \E file \in Files : OrderlyReceive(file)
    \/ \E file \in Files : \E i \in DOMAIN Stream[file] : RepeatedReceive(file, i)
    \/ Decode /\ UNCHANGED linkVars
    \/ OrderlyTick

(***************************************************************************)
(* A block that can arrive again and again does; every call returns, since *)
(* some step of it is always possible (so this is WF_allVars(Decode),      *)
(* without trying la_reasm_fragment_add to see it); and the application    *)
(* destroys the tree it got.                                               *)
(***************************************************************************)
CanArrive(file) == pc = "idle" /\ OnAir(file) /\ next_part[file] \in DOMAIN Stream[file]

Arrives(file) == next_part'[file] = next_part[file] + 1

OrderlySpec ==
    /\ Init
    /\ [][OrderlyNext]_allVars
    /\ []<>(pc \in {"idle", "done"})
    /\ WF_allVars(TreeDestroy /\ UNCHANGED linkVars)
    /\ \A file \in Files : []<>CanArrive(file) => []<><<Arrives(file)>>_allVars

-----------------------------------------------------------------------------
(***************************************************************************)
(* Properties.                                                             *)
(***************************************************************************)
TypeOK ==
    /\ Acars!TypeOK
    /\ Miam!TypeOK
    /\ rtables \in {<<>>, <<"acars">>, <<"acars", "miam">>}
    /\ config \in [decode_fragments : BOOLEAN, acars_bearer : Bearers]
    /\ pc \in {"idle", "text", "apps", "segment", "done"}
    /\ block \in Pieces \cup {NULL}
    /\ msg \in [err : BOOLEAN, reasm_status : Acars!Status, txt : Seq(Pieces)]
    /\ decoded \subseteq Seq(Pieces)
    /\ now \in 0 .. MaxTime
    /\ sent_at \in [Files -> (0 .. MaxTime) \cup {NULL}]
    /\ next_part \in [Files -> Nat]
    /\ \A file \in Files : next_part[file] \in 1 .. Len(Stream[file]) + 1

(***************************************************************************)
(* Every segment in the table of miam.c is the whole text of its frame:    *)
(* however the blocks of its message came, none was handed on before the   *)
(* message was complete.  (With decode_fragments off and downlinks, whose  *)
(* first block is known.)                                                  *)
(***************************************************************************)
SegmentsWhole ==
    \A id \in FileIds : miam_table[id] # NULL =>
        \A i \in DOMAIN miam_table[id].fragment_list :
            LET x == miam_table[id].fragment_list[i]
            IN  x.seq_num > 0 /\ Down(FrameIn(x.payload)) =>
                    x.payload = Text(FrameIn(x.payload))

(***************************************************************************)
(* Of the decoder: its tables are made once each and hold what belongs in  *)
(* them, and no part of a segment is taken for one.                        *)
(***************************************************************************)
DecoderInv == TypeOK /\ SegmentsWhole

(***************************************************************************)
(* The two levels together hand up only whole files that were sent: the    *)
(* promise of MessageDelivery, with files for messages.                    *)
(***************************************************************************)
Promise == INSTANCE MessageDelivery WITH
    Messages <- Files,
    Body <- FileText,
    FirstMarked <- Files,
    sent <- {file \in Files : IsSent(file)},
    received <- decoded

OnlyWholeFiles == Promise!Spec

(***************************************************************************)
(* CHANGELOG.md, "automatic reassembly of MIAM file transfers": over an    *)
(* orderly link every file sent is decoded, although its segments take     *)
(* several blocks, and blocks, so whole frames as well, are repeated.      *)
(***************************************************************************)
EveryFileDecoded == \A file \in Files : IsSent(file) ~> FileText[file] \in decoded
=============================================================================
