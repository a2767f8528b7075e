------------------------- MODULE AcarsDecoderProofs -------------------------
(***************************************************************************)
(* Proofs about AcarsDecoder.                                              *)
(***************************************************************************)
EXTENDS AcarsDecoder, FiniteSetTheorems, SequenceTheorems, WellFoundedInduction, TLAPS

-----------------------------------------------------------------------------
(***************************************************************************)
(* What is proved about Reassembly, for each of the two tables and for all *)
(* arguments that follow its protocol.                                     *)
(***************************************************************************)
AcarsInfos == {f \in Acars!FragmentInfo : Acars!ArgsInvalid(f) \/ Acars!FollowsProtocol(f)}

AcarsEngine == INSTANCE ReassemblyProofs WITH
    Keys <- MsgKeys, Payloads <- Pieces, PayloadLen <- PieceLen,
    FragmentInfos <- AcarsInfos, Protocol <- AcarsProtocol, CleanupInterval <- AcarsInterval,
    fragment_table <- acars_table, frag_cnt <- acars_cnt, last <- acars_last

MiamInfos == {f \in Miam!FragmentInfo : Miam!ArgsInvalid(f) \/ Miam!FollowsProtocol(f)}

MiamEngine == INSTANCE ReassemblyProofs WITH
    Keys <- FileIds, Payloads <- FrameTexts, PayloadLen <- TextLen,
    FragmentInfos <- MiamInfos, Protocol <- MiamProtocol, CleanupInterval <- MiamInterval,
    fragment_table <- miam_table, frag_cnt <- miam_cnt, last <- miam_last

\* What ReassemblyProofs says of the table of acars.c is said of the operators
\* of Acars: its types,
LEMMA SameAcarsTypes ==
    /\ AcarsEngine!Time = Acars!Time
    /\ AcarsEngine!FragmentInfo = Acars!FragmentInfo
    /\ AcarsEngine!TableEntry = Acars!TableEntry
    /\ AcarsEngine!Status = Acars!Status
    /\ AcarsEngine!TypeOK <=> Acars!TypeOK
<1>1. AcarsEngine!Time = Acars!Time
  <2>1. AcarsEngine!USEC_PER_SEC = Acars!USEC_PER_SEC
    BY SMT DEF Acars!USEC_PER_SEC, AcarsEngine!USEC_PER_SEC
  <2> QED
    BY <2>1 DEF Acars!Time, AcarsEngine!Time
<1>2. AcarsEngine!FragmentInfo = Acars!FragmentInfo
  BY <1>1 DEF Acars!FragmentInfo, AcarsEngine!FragmentInfo
<1>3. AcarsEngine!TableEntry = Acars!TableEntry
  BY <1>1 DEF Acars!TableEntry, Acars!Fragment, AcarsEngine!TableEntry, AcarsEngine!Fragment
<1>4. AcarsEngine!Status = Acars!Status
  BY DEF Acars!Status, AcarsEngine!Status
<1>5. AcarsEngine!LastCall = Acars!LastCall
  BY <1>1, <1>4 DEF Acars!LastCall, Acars!GetOutcome, AcarsEngine!LastCall, AcarsEngine!GetOutcome
<1>6. AcarsEngine!TypeOK <=> Acars!TypeOK
  BY <1>3, <1>5 DEF Acars!TypeOK, AcarsEngine!TypeOK
<1> QED
  BY <1>1, <1>2, <1>3, <1>4, <1>6

\* the parts of la_reasm_fragment_add,
LEMMA SameAcarsParts ==
    /\ AcarsEngine!ZeroTime = Acars!ZeroTime
    /\ \A f : AcarsEngine!ArgsInvalid(f) <=> Acars!ArgsInvalid(f)
    /\ \A f : AcarsEngine!NewEntry(f) = Acars!NewEntry(f)
    /\ \A e, t : AcarsEngine!Expired(e, t) <=> Acars!Expired(e, t)
    /\ \A f : AcarsEngine!Unfragmented(f) <=> Acars!Unfragmented(f)
    /\ \A f : AcarsEngine!NotFirst(f) <=> Acars!NotFirst(f)
    /\ \A e, f : AcarsEngine!PrevSeqNum(e, f) = Acars!PrevSeqNum(e, f)
    /\ \A e, f : AcarsEngine!IsDuplicate(e, f) <=> Acars!IsDuplicate(e, f)
    /\ \A e, f : AcarsEngine!InSequence(e, f) <=> Acars!InSequence(e, f)
    /\ \A e, f : AcarsEngine!Extended(e, f) = Acars!Extended(e, f)
    /\ \A e, final : AcarsEngine!IsComplete(e, final) <=> Acars!IsComplete(e, final)
<1>1. AcarsEngine!ZeroTime = Acars!ZeroTime
  BY DEF Acars!ZeroTime, AcarsEngine!ZeroTime
<1>2. \A f : AcarsEngine!ArgsInvalid(f) <=> Acars!ArgsInvalid(f)
  BY <1>1 DEF Acars!ArgsInvalid, Acars!SEQ_WRAP_NONE, AcarsEngine!ArgsInvalid,
          AcarsEngine!SEQ_WRAP_NONE
<1>3. \A f : AcarsEngine!NewEntry(f) = Acars!NewEntry(f)
  BY DEF Acars!NewEntry, Acars!SEQ_UNINITIALIZED, AcarsEngine!NewEntry,
          AcarsEngine!SEQ_UNINITIALIZED
<1>4. \A t, u : AcarsEngine!Deadline(t, u) = Acars!Deadline(t, u)
  BY SMT DEF Acars!Deadline, Acars!USEC_CARRY, AcarsEngine!Deadline, AcarsEngine!USEC_CARRY
<1>5. \A t, u : AcarsEngine!After(t, u) <=> Acars!After(t, u)
  BY DEF Acars!After, AcarsEngine!After
<1>6. \A e, t : AcarsEngine!Expired(e, t) <=> Acars!Expired(e, t)
  BY <1>1, <1>4, <1>5 DEF Acars!Expired, Acars!TimedOut, AcarsEngine!Expired, AcarsEngine!TimedOut
<1>7. \A f : AcarsEngine!Unfragmented(f) <=> Acars!Unfragmented(f)
  BY DEF Acars!Unfragmented, Acars!SEQ_FIRST_NONE, AcarsEngine!Unfragmented,
          AcarsEngine!SEQ_FIRST_NONE
<1>8. \A f : AcarsEngine!NotFirst(f) <=> Acars!NotFirst(f)
  BY DEF Acars!NotFirst, Acars!SEQ_FIRST_NONE, AcarsEngine!NotFirst, AcarsEngine!SEQ_FIRST_NONE
<1>9. \A e, f : AcarsEngine!PrevSeqNum(e, f) = Acars!PrevSeqNum(e, f)
  BY DEF Acars!PrevSeqNum, Acars!SEQ_WRAP_NONE, AcarsEngine!PrevSeqNum, AcarsEngine!SEQ_WRAP_NONE
<1>10. \A e, f : AcarsEngine!IsDuplicate(e, f) <=> Acars!IsDuplicate(e, f)
  BY <1>9 DEF Acars!IsDuplicate, Acars!SeqNumExists, Acars!SEQ_WRAP_NONE, AcarsEngine!IsDuplicate,
          AcarsEngine!SeqNumExists, AcarsEngine!SEQ_WRAP_NONE
<1>11. \A e, f : AcarsEngine!InSequence(e, f) <=> Acars!InSequence(e, f)
  BY <1>9 DEF Acars!InSequence, Acars!SEQ_UNINITIALIZED, AcarsEngine!InSequence,
          AcarsEngine!SEQ_UNINITIALIZED
<1>12. \A list, x : AcarsEngine!InsertSorted(list, x) = Acars!InsertSorted(list, x)
  BY DEF Acars!InsertSorted, Acars!Min, Acars!InsertAt, AcarsEngine!InsertSorted,
          AcarsEngine!Min, AcarsEngine!InsertAt
<1>13. \A e, f : AcarsEngine!Extended(e, f) = Acars!Extended(e, f)
  BY <1>12 DEF Acars!Extended, AcarsEngine!Extended
<1>14. \A e, final : AcarsEngine!IsComplete(e, final) <=> Acars!IsComplete(e, final)
  BY DEF Acars!IsComplete, AcarsEngine!IsComplete
<1> QED
  BY <1>1, <1>2, <1>3, <1>6, <1>7, <1>8, <1>9, <1>10, <1>11, <1>13, <1>14

\* and the call.
LEMMA SameAcarsCall ==
    ASSUME NEW f
    PROVE  Acars!FragmentAdd(f) <=> AcarsEngine!FragmentAdd(f)
<1>1. AcarsEngine!Current(f) = Acars!Current(f)
  BY SameAcarsParts DEF Acars!Current, AcarsEngine!Current
<1>2. AcarsEngine!Entry(f) = Acars!Entry(f)
  BY <1>1, SameAcarsParts DEF Acars!Entry, AcarsEngine!Entry
<1>3. AcarsEngine!Admitted(f) <=> Acars!Admitted(f)
  BY <1>1, SameAcarsParts DEF Acars!Admitted, AcarsEngine!Admitted
<1>4. \A table, t : AcarsEngine!Cleanup(table, t) = Acars!Cleanup(table, t)
  BY SameAcarsParts DEF Acars!Cleanup, AcarsEngine!Cleanup
<1>5. \A status : AcarsEngine!Reported(f, status) <=> Acars!Reported(f, status)
  BY DEF Acars!Reported, AcarsEngine!Reported
<1>6. \A entry, status : AcarsEngine!Return(f, entry, status) <=> Acars!Return(f, entry, status)
  BY <1>4, <1>5 DEF Acars!Return, AcarsEngine!Return
<1>7. AcarsEngine!RejectInvalidArgs(f) <=> Acars!RejectInvalidArgs(f)
  BY <1>5, SameAcarsParts DEF Acars!RejectInvalidArgs, AcarsEngine!RejectInvalidArgs
<1>8. AcarsEngine!SkipUnfragmented(f) <=> Acars!SkipUnfragmented(f)
  BY <1>1, <1>6, SameAcarsParts DEF Acars!SkipUnfragmented, AcarsEngine!SkipUnfragmented
<1>9. AcarsEngine!RejectNotFirst(f) <=> Acars!RejectNotFirst(f)
  BY <1>1, <1>6, SameAcarsParts DEF Acars!RejectNotFirst, AcarsEngine!RejectNotFirst
<1>10. AcarsEngine!SkipDuplicate(f) <=> Acars!SkipDuplicate(f)
  BY <1>2, <1>3, <1>6, SameAcarsParts DEF Acars!SkipDuplicate, AcarsEngine!SkipDuplicate
<1>11. AcarsEngine!AbortOutOfSequence(f) <=> Acars!AbortOutOfSequence(f)
  BY <1>2, <1>3, <1>6, SameAcarsParts DEF Acars!AbortOutOfSequence, AcarsEngine!AbortOutOfSequence
<1>12. AcarsEngine!AddFragment(f) <=> Acars!AddFragment(f)
  BY <1>2, <1>3, <1>6, SameAcarsParts DEF Acars!AddFragment, AcarsEngine!AddFragment
<1> QED
  BY <1>7, <1>8, <1>9, <1>10, <1>11, <1>12 DEF Acars!FragmentAdd, AcarsEngine!FragmentAdd

\* And what it says of the table of miam.c is said of those of Miam: its types,
LEMMA SameMiamTypes ==
    /\ MiamEngine!Time = Miam!Time
    /\ MiamEngine!FragmentInfo = Miam!FragmentInfo
    /\ MiamEngine!TableEntry = Miam!TableEntry
    /\ MiamEngine!Status = Miam!Status
    /\ MiamEngine!TypeOK <=> Miam!TypeOK
<1>1. MiamEngine!Time = Miam!Time
  <2>1. MiamEngine!USEC_PER_SEC = Miam!USEC_PER_SEC
    BY SMT DEF Miam!USEC_PER_SEC, MiamEngine!USEC_PER_SEC
  <2> QED
    BY <2>1 DEF Miam!Time, MiamEngine!Time
<1>2. MiamEngine!FragmentInfo = Miam!FragmentInfo
  BY <1>1 DEF Miam!FragmentInfo, MiamEngine!FragmentInfo
<1>3. MiamEngine!TableEntry = Miam!TableEntry
  BY <1>1 DEF Miam!TableEntry, Miam!Fragment, MiamEngine!TableEntry, MiamEngine!Fragment
<1>4. MiamEngine!Status = Miam!Status
  BY DEF Miam!Status, MiamEngine!Status
<1>5. MiamEngine!LastCall = Miam!LastCall
  BY <1>1, <1>4 DEF Miam!LastCall, Miam!GetOutcome, MiamEngine!LastCall, MiamEngine!GetOutcome
<1>6. MiamEngine!TypeOK <=> Miam!TypeOK
  BY <1>3, <1>5 DEF Miam!TypeOK, MiamEngine!TypeOK
<1> QED
  BY <1>1, <1>2, <1>3, <1>4, <1>6

\* the parts of la_reasm_fragment_add,
LEMMA SameMiamParts ==
    /\ MiamEngine!ZeroTime = Miam!ZeroTime
    /\ \A f : MiamEngine!ArgsInvalid(f) <=> Miam!ArgsInvalid(f)
    /\ \A f : MiamEngine!NewEntry(f) = Miam!NewEntry(f)
    /\ \A e, t : MiamEngine!Expired(e, t) <=> Miam!Expired(e, t)
    /\ \A f : MiamEngine!Unfragmented(f) <=> Miam!Unfragmented(f)
    /\ \A f : MiamEngine!NotFirst(f) <=> Miam!NotFirst(f)
    /\ \A e, f : MiamEngine!PrevSeqNum(e, f) = Miam!PrevSeqNum(e, f)
    /\ \A e, f : MiamEngine!IsDuplicate(e, f) <=> Miam!IsDuplicate(e, f)
    /\ \A e, f : MiamEngine!InSequence(e, f) <=> Miam!InSequence(e, f)
    /\ \A e, f : MiamEngine!Extended(e, f) = Miam!Extended(e, f)
    /\ \A e, final : MiamEngine!IsComplete(e, final) <=> Miam!IsComplete(e, final)
<1>1. MiamEngine!ZeroTime = Miam!ZeroTime
  BY DEF Miam!ZeroTime, MiamEngine!ZeroTime
<1>2. \A f : MiamEngine!ArgsInvalid(f) <=> Miam!ArgsInvalid(f)
  BY <1>1 DEF Miam!ArgsInvalid, Miam!SEQ_WRAP_NONE, MiamEngine!ArgsInvalid, MiamEngine!SEQ_WRAP_NONE
<1>3. \A f : MiamEngine!NewEntry(f) = Miam!NewEntry(f)
  BY DEF Miam!NewEntry, Miam!SEQ_UNINITIALIZED, MiamEngine!NewEntry, MiamEngine!SEQ_UNINITIALIZED
<1>4. \A t, u : MiamEngine!Deadline(t, u) = Miam!Deadline(t, u)
  BY SMT DEF Miam!Deadline, Miam!USEC_CARRY, MiamEngine!Deadline, MiamEngine!USEC_CARRY
<1>5. \A t, u : MiamEngine!After(t, u) <=> Miam!After(t, u)
  BY DEF Miam!After, MiamEngine!After
<1>6. \A e, t : MiamEngine!Expired(e, t) <=> Miam!Expired(e, t)
  BY <1>1, <1>4, <1>5 DEF Miam!Expired, Miam!TimedOut, MiamEngine!Expired, MiamEngine!TimedOut
<1>7. \A f : MiamEngine!Unfragmented(f) <=> Miam!Unfragmented(f)
  BY DEF Miam!Unfragmented, Miam!SEQ_FIRST_NONE, MiamEngine!Unfragmented,
          MiamEngine!SEQ_FIRST_NONE
<1>8. \A f : MiamEngine!NotFirst(f) <=> Miam!NotFirst(f)
  BY DEF Miam!NotFirst, Miam!SEQ_FIRST_NONE, MiamEngine!NotFirst, MiamEngine!SEQ_FIRST_NONE
<1>9. \A e, f : MiamEngine!PrevSeqNum(e, f) = Miam!PrevSeqNum(e, f)
  BY DEF Miam!PrevSeqNum, Miam!SEQ_WRAP_NONE, MiamEngine!PrevSeqNum, MiamEngine!SEQ_WRAP_NONE
<1>10. \A e, f : MiamEngine!IsDuplicate(e, f) <=> Miam!IsDuplicate(e, f)
  BY <1>9 DEF Miam!IsDuplicate, Miam!SeqNumExists, Miam!SEQ_WRAP_NONE, MiamEngine!IsDuplicate,
          MiamEngine!SeqNumExists, MiamEngine!SEQ_WRAP_NONE
<1>11. \A e, f : MiamEngine!InSequence(e, f) <=> Miam!InSequence(e, f)
  BY <1>9 DEF Miam!InSequence, Miam!SEQ_UNINITIALIZED, MiamEngine!InSequence,
          MiamEngine!SEQ_UNINITIALIZED
<1>12. \A list, x : MiamEngine!InsertSorted(list, x) = Miam!InsertSorted(list, x)
  BY DEF Miam!InsertSorted, Miam!Min, Miam!InsertAt, MiamEngine!InsertSorted, MiamEngine!Min,
          MiamEngine!InsertAt
<1>13. \A e, f : MiamEngine!Extended(e, f) = Miam!Extended(e, f)
  BY <1>12 DEF Miam!Extended, MiamEngine!Extended
<1>14. \A e, final : MiamEngine!IsComplete(e, final) <=> Miam!IsComplete(e, final)
  BY DEF Miam!IsComplete, MiamEngine!IsComplete
<1> QED
  BY <1>1, <1>2, <1>3, <1>6, <1>7, <1>8, <1>9, <1>10, <1>11, <1>13, <1>14

\* and the call.
LEMMA SameMiamCall ==
    ASSUME NEW f
    PROVE  Miam!FragmentAdd(f) <=> MiamEngine!FragmentAdd(f)
<1>1. MiamEngine!Current(f) = Miam!Current(f)
  BY SameMiamParts DEF Miam!Current, MiamEngine!Current
<1>2. MiamEngine!Entry(f) = Miam!Entry(f)
  BY <1>1, SameMiamParts DEF Miam!Entry, MiamEngine!Entry
<1>3. MiamEngine!Admitted(f) <=> Miam!Admitted(f)
  BY <1>1, SameMiamParts DEF Miam!Admitted, MiamEngine!Admitted
<1>4. \A table, t : MiamEngine!Cleanup(table, t) = Miam!Cleanup(table, t)
  BY SameMiamParts DEF Miam!Cleanup, MiamEngine!Cleanup
<1>5. \A status : MiamEngine!Reported(f, status) <=> Miam!Reported(f, status)
  BY DEF Miam!Reported, MiamEngine!Reported
<1>6. \A entry, status : MiamEngine!Return(f, entry, status) <=> Miam!Return(f, entry, status)
  BY <1>4, <1>5 DEF Miam!Return, MiamEngine!Return
<1>7. MiamEngine!RejectInvalidArgs(f) <=> Miam!RejectInvalidArgs(f)
  BY <1>5, SameMiamParts DEF Miam!RejectInvalidArgs, MiamEngine!RejectInvalidArgs
<1>8. MiamEngine!SkipUnfragmented(f) <=> Miam!SkipUnfragmented(f)
  BY <1>1, <1>6, SameMiamParts DEF Miam!SkipUnfragmented, MiamEngine!SkipUnfragmented
<1>9. MiamEngine!RejectNotFirst(f) <=> Miam!RejectNotFirst(f)
  BY <1>1, <1>6, SameMiamParts DEF Miam!RejectNotFirst, MiamEngine!RejectNotFirst
<1>10. MiamEngine!SkipDuplicate(f) <=> Miam!SkipDuplicate(f)
  BY <1>2, <1>3, <1>6, SameMiamParts DEF Miam!SkipDuplicate, MiamEngine!SkipDuplicate
<1>11. MiamEngine!AbortOutOfSequence(f) <=> Miam!AbortOutOfSequence(f)
  BY <1>2, <1>3, <1>6, SameMiamParts DEF Miam!AbortOutOfSequence, MiamEngine!AbortOutOfSequence
<1>12. MiamEngine!AddFragment(f) <=> Miam!AddFragment(f)
  BY <1>2, <1>3, <1>6, SameMiamParts DEF Miam!AddFragment, MiamEngine!AddFragment
<1> QED
  BY <1>7, <1>8, <1>9, <1>10, <1>11, <1>12 DEF Miam!FragmentAdd, MiamEngine!FragmentAdd

-----------------------------------------------------------------------------
(***************************************************************************)
(* The constants of frames, blocks and files.                              *)
(***************************************************************************)

\* What a frame is, and its text.
LEMMA FrameFacts ==
    ASSUME NEW fr \in Frames
    PROVE  /\ Blocks[fr] \in Nat \ {0}
           /\ Down(fr) \in BOOLEAN
           /\ MsgKey[fr] \in MsgKeys
           /\ FileOf[fr] \in Files
           /\ FileId[FileOf[fr]] \in FileIds
           /\ Text(fr) \in Seq(Pieces)
           /\ Len(Text(fr)) = Blocks[fr]
           /\ \A i \in 1 .. Blocks[fr] : Piece(fr, i) \in Pieces /\ Text(fr)[i] = Piece(fr, i)
<1>1. Blocks[fr] \in Nat \ {0} /\ DOMAIN MsgKey = Frames
  BY HeadersAssumption
<1>2. MsgKey[fr] \in MsgKeys
  BY <1>1 DEF MsgKeys, Range
<1>3. FileOf[fr] \in Files /\ FileId[FileOf[fr]] \in FileIds
  BY FilesAssumption DEF FileIds, Range
<1>4. \A i \in 1 .. Blocks[fr] : Text(fr)[i] = Piece(fr, i)
  BY DEF Text
<1>5. DOMAIN Text(fr) = 1 .. Blocks[fr]
  BY DEF Text
<1>6. ASSUME NEW i \in 1 .. Blocks[fr]  PROVE Piece(fr, i) \in Pieces
  <2>1. Text(fr)[i] \in Range(Text(fr))
    BY <1>5 DEF Range
  <2> QED
    BY <1>4, <2>1 DEF Pieces
<1>7. Text(fr) \in Seq(Pieces) /\ Len(Text(fr)) = Blocks[fr]
  <2>1. Text(fr) = [i \in 1 .. Blocks[fr] |-> Piece(fr, i)]
    BY DEF Text
  <2> QED
    BY <1>1, <1>6, <2>1
<1>8. Down(fr) \in BOOLEAN
  BY DEF Down, IsDownlinkBlk
<1> QED
  BY <1>1, <1>2, <1>3, <1>4, <1>6, <1>7, <1>8

\* A piece is a part of a frame.
LEMMA PieceFacts ==
    ASSUME NEW b \in Pieces
    PROVE  /\ b.frame \in Frames
           /\ b.part \in 1 .. Blocks[b.frame]
           /\ b = Piece(b.frame, b.part)
<1>1. PICK fr \in Frames : \E i \in DOMAIN Text(fr) : b = Text(fr)[i]
  BY DEF Pieces, Range
<1>2. PICK i \in 1 .. Blocks[fr] : b = Piece(fr, i)
  BY <1>1 DEF Text
<1>3. b.frame = fr /\ b.part = i
  BY <1>2 DEF Piece
<1> QED
  BY <1>2, <1>3

\* How the blocks of a frame are numbered.
LEMMA NumberFacts ==
    ASSUME NEW fr \in Frames, NEW i \in 1 .. Blocks[fr]
    PROVE  /\ SeqNum(Header[fr][i]) \in Nat
           /\ Down(fr) => SeqNum(Header[fr][i]) = i - 1
           /\ ~Down(fr) => SeqNum(Header[fr][i]) \in 0 .. 22
           /\ ~Down(fr) /\ i > 1 =>
                  SeqNum(Header[fr][i]) = (SeqNum(Header[fr][i - 1]) + 1) % 23
<1>1. Blocks[fr] \in Nat
  BY HeadersAssumption
<1>2. CharX - CharA = 23
  BY DEF CharX, CharA
<1>3. /\ Down(fr) => SeqNum(Header[fr][i]) = i - 1
      /\ ~Down(fr) => SeqNum(Header[fr][i]) \in 0 .. CharX - CharA - 1
      /\ ~Down(fr) /\ i > 1 =>
             SeqNum(Header[fr][i]) = (SeqNum(Header[fr][i - 1]) + 1) % (CharX - CharA)
  BY HeadersAssumption, Zenon
<1> QED
  BY <1>1, <1>2, <1>3

\* Its protocol is that of its direction, as all frames of a key have it.
LEMMA ProtocolFacts ==
    ASSUME NEW fr \in Frames
    PROVE  AcarsProtocol[MsgKey[fr]] =
               [out_of_order  |-> FALSE,
                seq_num_first |-> IF Down(fr) THEN 0 ELSE -1,
                seq_num_wrap  |-> IF Down(fr) THEN -1 ELSE 23]
<1> DEFINE other == CHOOSE o \in Frames : MsgKey[o] = MsgKey[fr]
<1>1. other \in Frames /\ MsgKey[other] = MsgKey[fr]
  OBVIOUS
<1>2. Down(other) = Down(fr)
  BY <1>1, HeadersAssumption
<1>3. MsgKey[fr] \in MsgKeys
  BY FrameFacts
<1>4. CharX - CharA = 23
  BY DEF CharX, CharA
<1> QED
  BY <1>2, <1>3, <1>4 DEF AcarsProtocol

\* The assumptions of Reassembly hold of the table of acars.c.
LEMMA AcarsEngineAssumptions ==
    AcarsEngine!ConstantsAssumption /\ AcarsEngine!CallersAssumption
<1>1. AcarsProtocol \in [MsgKeys -> AcarsEngine!ProtocolRecord]
  <2>1. AcarsProtocol = [k \in MsgKeys |-> AcarsProtocol[k]]
    BY DEF AcarsProtocol
  <2>2. ASSUME NEW k \in MsgKeys  PROVE AcarsProtocol[k] \in AcarsEngine!ProtocolRecord
    <3>1. PICK fr \in Frames : MsgKey[fr] = k
      BY HeadersAssumption DEF MsgKeys, Range
    <3>2. \/ AcarsProtocol[k] = [out_of_order |-> FALSE, seq_num_first |-> 0, seq_num_wrap |-> -1]
          \/ AcarsProtocol[k] = [out_of_order |-> FALSE, seq_num_first |-> -1, seq_num_wrap |-> 23]
      BY <3>1, ProtocolFacts, Zenon
    <3>3. ASSUME NEW a \in Int, NEW b \in Int
          PROVE  [out_of_order |-> FALSE, seq_num_first |-> a, seq_num_wrap |-> b]
                     \in AcarsEngine!ProtocolRecord
      BY DEF AcarsEngine!ProtocolRecord
    <3>4. 0 \in Int /\ -1 \in Int /\ 23 \in Int
      OBVIOUS
    <3> QED
      BY <3>2, <3>3, <3>4, Zenon
  <2> QED
    BY <2>1, <2>2
<1>2. PieceLen \in [Pieces -> Nat]
  BY DEF PieceLen
<1>3. NULL \notin MsgKeys /\ NULL \notin AcarsEngine!TableEntry
  BY OptionsAssumption, SameAcarsTypes
<1>4. AcarsInfos \subseteq AcarsEngine!FragmentInfo
  BY SameAcarsTypes DEF AcarsInfos
<1>5. AcarsEngine!ConstantsAssumption
  BY <1>1, <1>2, <1>3, <1>4, OptionsAssumption DEF AcarsEngine!ConstantsAssumption
<1>6. \A f : Acars!FollowsProtocol(f) <=> AcarsEngine!FollowsProtocol(f)
  BY DEF Acars!FollowsProtocol, AcarsEngine!FollowsProtocol
<1>7. AcarsEngine!CallersAssumption
  BY <1>6, SameAcarsParts DEF AcarsInfos, AcarsEngine!CallersAssumption
<1> QED
  BY <1>5, <1>7

\* And of that of miam.c.
LEMMA MiamEngineAssumptions ==
    MiamEngine!ConstantsAssumption /\ MiamEngine!CallersAssumption
<1>1. MiamProtocol \in [FileIds -> MiamEngine!ProtocolRecord]
  <2>1. ASSUME NEW a \in Int, NEW b \in Int
        PROVE  [out_of_order |-> FALSE, seq_num_first |-> a, seq_num_wrap |-> b]
                   \in MiamEngine!ProtocolRecord
    BY DEF MiamEngine!ProtocolRecord
  <2>2. 0 \in Int /\ -1 \in Int
    OBVIOUS
  <2> QED
    BY <2>1, <2>2, Zenon DEF MiamProtocol
<1>2. TextLen \in [FrameTexts -> Nat]
  <2>1. ASSUME NEW t \in FrameTexts  PROVE Len(t) \in Nat
    <3>1. PICK fr \in Frames : \E j \in 0 .. Blocks[fr] : t = SubSeq(Text(fr), 1, j)
      BY DEF FrameTexts
    <3>2. PICK j \in 0 .. Blocks[fr] : t = SubSeq(Text(fr), 1, j)
      BY <3>1
    <3>3. t \in Seq(Pieces)
      BY <3>2, FrameFacts
    <3> QED
      BY <3>3
  <2> QED
    BY <2>1 DEF TextLen
<1>3. NULL \notin FileIds /\ NULL \notin MiamEngine!TableEntry
  BY OptionsAssumption, SameMiamTypes
<1>4. MiamInfos \subseteq MiamEngine!FragmentInfo
  BY SameMiamTypes DEF MiamInfos
<1>5. MiamEngine!ConstantsAssumption
  BY <1>1, <1>2, <1>3, <1>4, OptionsAssumption DEF MiamEngine!ConstantsAssumption
<1>6. \A f : Miam!FollowsProtocol(f) <=> MiamEngine!FollowsProtocol(f)
  BY DEF Miam!FollowsProtocol, MiamEngine!FollowsProtocol
<1>7. MiamEngine!CallersAssumption
  BY <1>6, SameMiamParts DEF MiamInfos, MiamEngine!CallersAssumption
<1> QED
  BY <1>5, <1>7

-----------------------------------------------------------------------------
(***************************************************************************)
(* The two calls of la_reasm_fragment_add.                                 *)
(***************************************************************************)

\* That of acars.c, with a block.
LEMMA AcarsCall ==
    ASSUME Acars!TypeOK, NEW f \in AcarsInfos, ~f.out_of_order, Acars!FragmentAdd(f)
    PROVE  /\ Acars!TypeOK'
           /\ acars_last'.status \in Acars!Status
           /\ \A k \in MsgKeys \ {f.msg_info} : acars_table'[k] \in {acars_table[k], NULL}
           /\ \/ /\ Acars!ArgsInvalid(f)
                 /\ acars_last'.status = "ARGS_INVALID"
                 /\ acars_table' = acars_table
              \/ ~Acars!ArgsInvalid(f) /\ AcarsEngine!InOrderOutcome(f)
<1>1. AcarsEngine!ConstantsAssumption /\ AcarsEngine!CallersAssumption
  BY AcarsEngineAssumptions
<1>2. AcarsEngine!TypeOK /\ AcarsEngine!FragmentAdd(f)
  BY SameAcarsTypes, SameAcarsCall
<1>3. /\ AcarsEngine!TypeOK'
      /\ acars_last'.status \in AcarsEngine!Status
      /\ \A k \in MsgKeys \ {f.msg_info} : acars_table'[k] \in {acars_table[k], NULL}
      /\ \/ /\ AcarsEngine!ArgsInvalid(f)
            /\ acars_last'.status = "ARGS_INVALID"
            /\ acars_table' = acars_table
         \/ ~AcarsEngine!ArgsInvalid(f) /\ AcarsEngine!InOrderOutcome(f)
  BY <1>1, <1>2, AcarsEngine!InOrderCall
     DEF AcarsEngine!ConstantsAssumption, AcarsEngine!CallersAssumption
<1>4. AcarsEngine!TypeOK' <=> Acars!TypeOK'
  BY SameAcarsTypes, PTL
<1> QED
  BY <1>3, <1>4, SameAcarsTypes, SameAcarsParts

\* And that of miam.c, with a fragment of a file.
LEMMA MiamCall ==
    ASSUME Miam!TypeOK, NEW f \in MiamInfos, ~f.out_of_order, Miam!FragmentAdd(f)
    PROVE  /\ Miam!TypeOK'
           /\ miam_last'.status \in Miam!Status
           /\ \A id \in FileIds \ {f.msg_info} : miam_table'[id] \in {miam_table[id], NULL}
           /\ \/ /\ Miam!ArgsInvalid(f)
                 /\ miam_last'.status = "ARGS_INVALID"
                 /\ miam_table' = miam_table
              \/ ~Miam!ArgsInvalid(f) /\ MiamEngine!InOrderOutcome(f)
<1>1. MiamEngine!ConstantsAssumption /\ MiamEngine!CallersAssumption
  BY MiamEngineAssumptions
<1>2. MiamEngine!TypeOK /\ MiamEngine!FragmentAdd(f)
  BY SameMiamTypes, SameMiamCall
<1>3. /\ MiamEngine!TypeOK'
      /\ miam_last'.status \in MiamEngine!Status
      /\ \A id \in FileIds \ {f.msg_info} : miam_table'[id] \in {miam_table[id], NULL}
      /\ \/ /\ MiamEngine!ArgsInvalid(f)
            /\ miam_last'.status = "ARGS_INVALID"
            /\ miam_table' = miam_table
         \/ ~MiamEngine!ArgsInvalid(f) /\ MiamEngine!InOrderOutcome(f)
  BY <1>1, <1>2, MiamEngine!InOrderCall
     DEF MiamEngine!ConstantsAssumption, MiamEngine!CallersAssumption
<1>4. MiamEngine!TypeOK' <=> Miam!TypeOK'
  BY SameMiamTypes, PTL
<1> QED
  BY <1>3, <1>4, SameMiamTypes, SameMiamParts

-----------------------------------------------------------------------------
(***************************************************************************)
(* The table of acars.c.  An entry holds successive blocks of one frame,   *)
(* of a downlink from the first on.                                        *)
(***************************************************************************)
Reach(e, first) == first + Len(e.fragment_list) - 1

RunOf(e, fr, first) ==
    /\ first \in 1 .. Blocks[fr]
    /\ Down(fr) => first = 1
    /\ e.total_pdu_len = 0
    /\ e.total_fragment_cnt = 0
    /\ Len(e.fragment_list) >= 1
    /\ Reach(e, first) <= Blocks[fr]
    /\ e.prev_seq_num = SeqNum(Header[fr][Reach(e, first)])
    /\ \A j \in 1 .. Len(e.fragment_list) :
           e.fragment_list[j].payload = Piece(fr, first + j - 1)

\* The entry under key k is of a message that goes on.
GoesOn(k) ==
    \E fr \in Frames : \E first \in 1 .. Blocks[fr] :
        /\ MsgKey[fr] = k
        /\ RunOf(acars_table[k], fr, first)
        /\ Reach(acars_table[k], first) < Blocks[fr]

ConfigTyped == config \in [decode_fragments : BOOLEAN, acars_bearer : Bearers]

\* What acars.c passes to la_reasm_fragment_add.
LEMMA AcarsInfoFacts ==
    ASSUME NEW b \in Pieces, now \in Nat, ConfigTyped
    PROVE  LET f == AcarsInfo(b)
           IN  /\ f \in AcarsInfos
               /\ f.msg_info = MsgKey[b.frame]
               /\ f.msg_info \in MsgKeys
               /\ f.msg_data = b
               /\ f.total_pdu_len = 0
               /\ f.total_fragment_cnt = 0
               /\ f.seq_num = SeqNum(Header[b.frame][b.part])
               /\ f.seq_num_first = IF Down(b.frame) THEN 0 ELSE -1
               /\ f.seq_num_wrap = IF Down(b.frame) THEN -1 ELSE 23
               /\ f.is_final_fragment = (b.part = Blocks[b.frame])
               /\ f.out_of_order = FALSE
               /\ f.reasm_timeout = ReasmTimeout(Down(b.frame))
<1> DEFINE f  == AcarsInfo(b)
           fr == b.frame
<1>1. fr \in Frames /\ b.part \in 1 .. Blocks[fr] /\ b = Piece(fr, b.part)
  BY PieceFacts
<1>2. /\ AcarsProtocol[MsgKey[fr]].seq_num_first = IF Down(fr) THEN 0 ELSE -1
      /\ AcarsProtocol[MsgKey[fr]].seq_num_wrap = IF Down(fr) THEN -1 ELSE 23
      /\ AcarsProtocol[MsgKey[fr]].out_of_order = FALSE
  <2>1. AcarsProtocol[MsgKey[fr]] =
            [out_of_order  |-> FALSE,
             seq_num_first |-> IF Down(fr) THEN 0 ELSE -1,
             seq_num_wrap  |-> IF Down(fr) THEN -1 ELSE 23]
    BY <1>1, ProtocolFacts
  <2> DEFINE p == AcarsProtocol[MsgKey[fr]]
  <2> HIDE DEF p
  <2>2. ASSUME NEW a, NEW w, p = [out_of_order |-> FALSE, seq_num_first |-> a, seq_num_wrap |-> w]
        PROVE  p.seq_num_first = a /\ p.seq_num_wrap = w /\ p.out_of_order = FALSE
    BY <2>2
  <2> QED
    BY <2>1, <2>2 DEF p
<1>3. MsgKey[fr] \in MsgKeys
  BY <1>1, FrameFacts
<1>4. /\ f.msg_info = MsgKey[fr]
      /\ f.msg_data = b
      /\ f.total_pdu_len = 0
      /\ f.total_fragment_cnt = 0
      /\ f.seq_num = SeqNum(Header[fr][b.part])
      /\ f.seq_num_first = AcarsProtocol[MsgKey[fr]].seq_num_first
      /\ f.seq_num_wrap = AcarsProtocol[MsgKey[fr]].seq_num_wrap
      /\ f.is_final_fragment = (b.part = Blocks[fr])
      /\ f.out_of_order = FALSE
      /\ f.reasm_timeout = ReasmTimeout(Down(fr))
      /\ f.rx_time = At(now)
  BY <1>1 DEF AcarsInfo
<1>5. \A t \in Nat : At(t) \in AcarsEngine!Time
  <2>1. 0 \in 0 .. AcarsEngine!USEC_PER_SEC - 1
    BY AcarsEngineAssumptions, AcarsEngine!UsecPerSec
       DEF AcarsEngine!ConstantsAssumption, AcarsEngine!CallersAssumption
  <2> QED
    BY <2>1 DEF At, AcarsEngine!Time
<1>6. ReasmTimeout(Down(fr)) \in AcarsEngine!Time
  <2>1. CASE config.acars_bearer \in DOMAIN Profile
    <3>1. Profile[config.acars_bearer] \in [downlink : Nat \ {0}, uplink : Nat \ {0}]
      BY <2>1, OptionsAssumption
    <3>2. /\ Profile[config.acars_bearer].downlink \in Nat
          /\ Profile[config.acars_bearer].uplink \in Nat
      BY <3>1
    <3>3. \/ ReasmTimeout(Down(fr)) = At(Profile[config.acars_bearer]["downlink"])
          \/ ReasmTimeout(Down(fr)) = At(Profile[config.acars_bearer]["uplink"])
      BY <2>1 DEF ReasmTimeout
    <3> QED
      BY <1>5, <3>2, <3>3
  <2>2. CASE config.acars_bearer \notin DOMAIN Profile
    BY <1>5, <2>2 DEF ReasmTimeout
  <2> QED
    BY <2>1, <2>2
<1>7. SeqNum(Header[fr][b.part]) \in Nat /\ (Down(fr) => SeqNum(Header[fr][b.part]) >= 0)
  BY <1>1, NumberFacts
<1>8. f.seq_num >= 0 /\ f.seq_num >= f.seq_num_first /\ f.seq_num \in Int
  BY <1>2, <1>4, <1>7
<1>9. f.seq_num_first \in Int /\ f.seq_num_wrap \in Int
  BY <1>2, <1>4
<1>10. Acars!FollowsProtocol(f)
  BY <1>2, <1>4, <1>8 DEF Acars!FollowsProtocol
<1>11. f \in AcarsEngine!FragmentInfo
  <2>1. f = [msg_info           |-> f.msg_info,
             msg_data           |-> f.msg_data,
             total_pdu_len      |-> f.total_pdu_len,
             total_fragment_cnt |-> f.total_fragment_cnt,
             rx_time            |-> f.rx_time,
             reasm_timeout      |-> f.reasm_timeout,
             seq_num            |-> f.seq_num,
             seq_num_first      |-> f.seq_num_first,
             seq_num_wrap       |-> f.seq_num_wrap,
             is_final_fragment  |-> f.is_final_fragment,
             out_of_order       |-> f.out_of_order]
    BY DEF AcarsInfo
  <2>2. f.is_final_fragment \in BOOLEAN /\ f.out_of_order \in BOOLEAN
    BY <1>4
  <2>3. f.rx_time \in AcarsEngine!Time /\ f.reasm_timeout \in AcarsEngine!Time
    BY <1>4, <1>5, <1>6
  <2>4. f.msg_info \in MsgKeys \cup {NULL} /\ f.msg_data \in Pieces
    BY <1>3, <1>4
  <2>5. f.total_pdu_len \in Int /\ f.total_fragment_cnt \in Int
    BY <1>4
  <2> HIDE DEF f
  <2> QED
    BY <1>8, <1>9, <2>1, <2>2, <2>3, <2>4, <2>5 DEF AcarsEngine!FragmentInfo
<1>12. f \in AcarsInfos
  BY <1>10, <1>11, SameAcarsTypes DEF AcarsInfos
<1> HIDE DEF f
<1> QED
  BY <1>2, <1>3, <1>4, <1>12 DEF f

\* The block whose number follows that of a block of the same key is the next
\* of the same frame, if there is one.
LEMMA NextBlock ==
    ASSUME NEW fr \in Frames, NEW m \in 1 .. Blocks[fr], m < Blocks[fr],
           NEW other \in Frames, NEW i \in 1 .. Blocks[other], MsgKey[fr] = MsgKey[other],
           IF Down(fr) THEN SeqNum(Header[other][i]) = SeqNum(Header[fr][m]) + 1
           ELSE \/ SeqNum(Header[other][i]) = SeqNum(Header[fr][m]) + 1
                \/ SeqNum(Header[other][i]) = 0 /\ SeqNum(Header[fr][m]) + 1 = 23
    PROVE  other = fr /\ i = m + 1
<1> DEFINE p == SeqNum(Header[fr][m])
           q == SeqNum(Header[fr][m + 1])
           r == SeqNum(Header[other][i])
<1>1. m \in Nat /\ Blocks[fr] \in Nat /\ m + 1 \in 1 .. Blocks[fr] /\ m + 1 > 1 /\ m + 1 - 1 = m
  BY FrameFacts
<1>2. Down(fr) = Down(other)
  BY HeadersAssumption
<1>3. r \in Nat /\ (~Down(other) => r \in 0 .. 22)
  BY NumberFacts
<1>4. p \in Nat /\ (Down(fr) => p = m - 1) /\ (~Down(fr) => p \in 0 .. 22)
  BY NumberFacts
<1>5. (Down(fr) => q = m) /\ (~Down(fr) => q = (p + 1) % 23)
  BY <1>1, NumberFacts
<1> HIDE DEF p, q, r
<1>6. q = r
  <2>1. CASE Down(fr)
    BY <1>1, <1>4, <1>5, <2>1 DEF p, r
  <2>2. CASE ~Down(fr)
    <3>1. r = p + 1 \/ (r = 0 /\ p + 1 = 23)
      BY <2>2 DEF p, r
    <3>2. q = (p + 1) % 23 /\ r \in 0 .. 22 /\ p \in 0 .. 22
      BY <1>2, <1>3, <1>4, <1>5, <2>2
    <3> QED
      BY <3>1, <3>2
  <2> QED
    BY <2>1, <2>2
<1>7. SeqNum(Header[fr][m + 1]) = SeqNum(Header[other][i])
  BY <1>6 DEF q, r
<1> QED
  BY <1>1, <1>7, HeadersAssumption

\* The entry a block makes is a run of its frame that ends with it.
LEMMA MadeEntry ==
    ASSUME NEW b \in Pieces, now \in Nat, ConfigTyped, Acars!TypeOK,
           NEW e \in Acars!TableEntry,
           acars_table[MsgKey[b.frame]] # NULL => GoesOn(MsgKey[b.frame]),
           AcarsEngine!MakesEntry(AcarsInfo(b), e)
    PROVE  \E first \in 1 .. Blocks[b.frame] : RunOf(e, b.frame, first) /\ Reach(e, first) = b.part
<1> DEFINE f  == AcarsInfo(b)
           fr == b.frame
           k  == MsgKey[fr]
           s  == acars_table[k]
           x  == [seq_num |-> f.seq_num, payload |-> f.msg_data]
<1>1. fr \in Frames /\ b.part \in 1 .. Blocks[fr] /\ b = Piece(fr, b.part) /\ Blocks[fr] \in Nat
  BY PieceFacts, FrameFacts
<1>2. /\ f.msg_info = k
      /\ k \in MsgKeys
      /\ f.msg_data = b
      /\ f.total_pdu_len = 0
      /\ f.total_fragment_cnt = 0
      /\ f.seq_num = SeqNum(Header[fr][b.part])
      /\ f.seq_num_first = IF Down(fr) THEN 0 ELSE -1
      /\ f.seq_num_wrap = IF Down(fr) THEN -1 ELSE 23
      /\ f.is_final_fragment = (b.part = Blocks[fr])
      /\ f.out_of_order = FALSE
  BY AcarsInfoFacts
<1>3. /\ f.seq_num \in Nat
      /\ Down(fr) => f.seq_num = b.part - 1
      /\ Down(fr) \in BOOLEAN
  BY <1>1, <1>2, NumberFacts, FrameFacts
<1> HIDE DEF f, k, s
<1>4. CASE /\ ~AcarsEngine!Unfragmented(f)
           /\ ~AcarsEngine!NotFirst(f)
           /\ AcarsEngine!LongerBy(AcarsEngine!NewEntry(f), f, e)
  <2> DEFINE new == AcarsEngine!NewEntry(f)
  <2>1. new.fragment_list = <<>> /\ new.total_pdu_len = 0 /\ new.total_fragment_cnt = 0
    BY <1>2 DEF AcarsEngine!NewEntry
  <2>2. /\ e.fragment_list = Append(new.fragment_list, x)
        /\ e.total_pdu_len = new.total_pdu_len
        /\ e.total_fragment_cnt = new.total_fragment_cnt
        /\ e.prev_seq_num = f.seq_num
    BY <1>4 DEF AcarsEngine!LongerBy
  <2> HIDE DEF new
  <2>3. e.fragment_list = <<x>> /\ Len(e.fragment_list) = 1 /\ e.fragment_list[1] = x
    BY <2>1, <2>2
  <2>4. Reach(e, b.part) = b.part
    BY <1>1, <2>3 DEF Reach
  <2>5. Down(fr) => b.part = 1
    <3>1. ~Down(fr) \/ f.seq_num = 0
      BY <1>2, <1>4 DEF AcarsEngine!NotFirst, AcarsEngine!SEQ_FIRST_NONE
    <3> QED
      BY <1>1, <1>3, <3>1
  <2>6. \A j \in 1 .. 1 : e.fragment_list[j].payload = Piece(fr, b.part + j - 1)
    <3>1. e.fragment_list[1].payload = b /\ b.part + 1 - 1 = b.part
      BY <1>1, <1>2, <2>3
    <3> QED
      BY <1>1, <3>1
  <2> QED
    BY <1>1, <1>2, <2>1, <2>2, <2>3, <2>4, <2>5, <2>6 DEF RunOf
<1>5. CASE /\ s # NULL
           /\ AcarsEngine!InSequence(s, f)
           /\ AcarsEngine!LongerBy(s, f, e)
  <2>1. PICK g \in Frames : \E first \in 1 .. Blocks[g] :
            MsgKey[g] = k /\ RunOf(s, g, first) /\ Reach(s, first) < Blocks[g]
    BY <1>5 DEF GoesOn, k, s
  <2>2. PICK first \in 1 .. Blocks[g] :
            MsgKey[g] = k /\ RunOf(s, g, first) /\ Reach(s, first) < Blocks[g]
    BY <2>1
  <2> DEFINE m == Reach(s, first)
             list == s.fragment_list
  <2>3. s \in Acars!TableEntry
    BY <1>2, <1>5 DEF Acars!TypeOK, s
  <2>4. list \in Seq(Acars!Fragment) /\ Len(list) \in Nat
    BY <2>3 DEF Acars!TableEntry
  <2>5. /\ first \in 1 .. Blocks[g]
        /\ Blocks[g] \in Nat
        /\ Down(g) => first = 1
        /\ s.total_pdu_len = 0
        /\ s.total_fragment_cnt = 0
        /\ Len(list) >= 1
        /\ s.prev_seq_num = SeqNum(Header[g][m])
        /\ \A j \in 1 .. Len(list) : list[j].payload = Piece(g, first + j - 1)
    BY <2>2, FrameFacts DEF RunOf
  <2>6. m = first + Len(list) - 1 /\ m \in 1 .. Blocks[g] /\ m < Blocks[g]
    BY <2>2, <2>4, <2>5 DEF Reach
  <2>7. Down(g) = Down(fr)
    BY <1>1, <2>2, HeadersAssumption DEF k
  <2>8. s.prev_seq_num \in Nat /\ (~Down(g) => s.prev_seq_num \in 0 .. 22)
    BY <2>5, <2>6, NumberFacts
  <2>9. IF Down(g) THEN f.seq_num = s.prev_seq_num + 1
        ELSE f.seq_num = s.prev_seq_num + 1 \/ (f.seq_num = 0 /\ s.prev_seq_num + 1 = 23)
    <3>1. \/ AcarsEngine!PrevSeqNum(s, f) = -2
          \/ AcarsEngine!PrevSeqNum(s, f) + 1 = f.seq_num
      BY <1>2, <1>5 DEF AcarsEngine!InSequence, AcarsEngine!SEQ_UNINITIALIZED
    <3>2. CASE Down(g)
      <4>1. AcarsEngine!PrevSeqNum(s, f) = s.prev_seq_num
        BY <1>2, <2>7, <3>2 DEF AcarsEngine!PrevSeqNum, AcarsEngine!SEQ_WRAP_NONE
      <4> QED
        BY <2>8, <3>1, <3>2, <4>1
    <3>3. CASE ~Down(g)
      <4>1. f.seq_num_wrap = 23
        BY <1>2, <2>7, <3>3
      <4>2. AcarsEngine!PrevSeqNum(s, f)
                = IF f.seq_num = 0 /\ 23 = s.prev_seq_num + 1 THEN -1 ELSE s.prev_seq_num
        BY <4>1 DEF AcarsEngine!PrevSeqNum, AcarsEngine!SEQ_WRAP_NONE
      <4> QED
        BY <2>8, <3>1, <3>3, <4>2
    <3> QED
      BY <3>2, <3>3
  <2>10. fr = g /\ b.part = m + 1
    <3>1. SeqNum(Header[fr][b.part]) = f.seq_num /\ SeqNum(Header[g][m]) = s.prev_seq_num
      BY <1>2, <2>5
    <3>2. MsgKey[g] = MsgKey[fr]
      BY <2>2 DEF k
    <3>3. IF Down(g) THEN SeqNum(Header[fr][b.part]) = SeqNum(Header[g][m]) + 1
          ELSE \/ SeqNum(Header[fr][b.part]) = SeqNum(Header[g][m]) + 1
               \/ SeqNum(Header[fr][b.part]) = 0 /\ SeqNum(Header[g][m]) + 1 = 23
      BY <2>9, <3>1
    <3>4. fr \in Frames /\ b.part \in 1 .. Blocks[fr] /\ g \in Frames
      BY <1>1, <2>2
    <3> HIDE DEF m, fr
    <3> QED
      BY <2>6, <3>2, <3>3, <3>4, NextBlock
  <2>11. /\ e.fragment_list = Append(list, x)
         /\ e.total_pdu_len = 0
         /\ e.total_fragment_cnt = 0
         /\ e.prev_seq_num = f.seq_num
    BY <1>5, <2>5 DEF AcarsEngine!LongerBy
  <2>12. x \in Acars!Fragment
    BY <1>2, <1>3 DEF Acars!Fragment
  <2> HIDE DEF x, list
  <2>13. /\ Len(e.fragment_list) = Len(list) + 1
         /\ \A j \in 1 .. Len(list) : e.fragment_list[j] = list[j]
         /\ e.fragment_list[Len(list) + 1] = x
    BY <2>4, <2>11, <2>12, AppendProperties DEF list
  <2>14. Reach(e, first) = b.part
    BY <2>4, <2>5, <2>6, <2>10, <2>13 DEF Reach, list
  <2>15. ASSUME NEW j \in 1 .. Len(e.fragment_list)
         PROVE  e.fragment_list[j].payload = Piece(fr, first + j - 1)
    <3>1. CASE j \in 1 .. Len(list)
      BY <2>5, <2>10, <2>13, <3>1 DEF list
    <3>2. CASE j = Len(list) + 1
      <4>1. e.fragment_list[j].payload = b
        BY <1>2, <2>13, <3>2 DEF x
      <4>2. first + j - 1 = b.part
        BY <2>4, <2>5, <2>6, <2>10, <3>2 DEF list
      <4> QED
        BY <1>1, <4>1, <4>2
    <3> QED
      BY <2>4, <2>13, <3>1, <3>2 DEF list
  <2>16. Len(e.fragment_list) >= 1
    BY <2>4, <2>13 DEF list
  <2>17. RunOf(e, fr, first)
    BY <1>1, <1>2, <2>5, <2>10, <2>11, <2>14, <2>15, <2>16 DEF RunOf
  <2> QED
    BY <2>5, <2>10, <2>14, <2>17
<1> QED
  BY <1>2, <1>4, <1>5 DEF AcarsEngine!MakesEntry, f, s

-----------------------------------------------------------------------------
(***************************************************************************)
(* Flattening a sequence of sequences: what appending one more adds.  All  *)
(* that is said of longer ones is by induction on the length, from this.   *)
(***************************************************************************)

\* What holds of 0 and with each number of the next holds up to n.
LEMMA UpTo ==
    ASSUME NEW n \in Nat, NEW S, 0 \in S, \A i \in 0 .. n - 1 : i \in S => i + 1 \in S
    PROVE  \A i \in 0 .. n : i \in S
<1> DEFINE T == {i \in 0 .. n : i \notin S}
<1>1. ASSUME T # {}  PROVE FALSE
  <2>1. IsWellFoundedOn(OpToRel(<, Nat), Nat)
    BY NatLessThanWellFounded
  <2>2. T \in SUBSET Nat
    OBVIOUS
  <2>3. PICK m \in T : \A i \in T : ~(<<i, m>> \in OpToRel(<, Nat))
    BY <1>1, <2>1, <2>2, WFMin
  <2>4. m \in 0 .. n /\ m \notin S /\ m # 0
    BY <2>3
  <2>5. m - 1 \in 0 .. n - 1 /\ m - 1 \in 0 .. n /\ m - 1 + 1 = m /\ m - 1 < m
    BY <2>4
  <2>6. m - 1 \in T
    BY <2>4, <2>5
  <2>7. ~(m - 1 < m)
    BY <2>2, <2>3, <2>6 DEF OpToRel
  <2> QED
    BY <2>5, <2>7
<1> QED
  BY <1>1

\* g flattens the first n of seqs, position by position.
Flattens(g, seqs, n) ==
    g = [i \in 1 .. n |-> IF i = 1 THEN seqs[i] ELSE g[i - 1] \o seqs[i]]

Flattening(seqs) == CHOOSE g : Flattens(g, seqs, Len(seqs))

\* Flattening a sequence is the last element of the function that does so.
LEMMA FlattenIsLast ==
    ASSUME NEW seqs, Len(seqs) # 0
    PROVE  FlattenSeq(seqs) = Flattening(seqs)[Len(seqs)]
BY DEF FlattenSeq, Flattening, Flattens

\* It exists.
LEMMA FlattenExists ==
    ASSUME NEW seqs, NEW n \in Nat
    PROVE  \E g : Flattens(g, seqs, n)
<1> DEFINE S == {i \in Nat : \E g : Flattens(g, seqs, i)}
<1>1. 0 \in S
  <2> DEFINE g == [i \in 1 .. 0 |-> <<>>]
  <2>1. 1 .. 0 = {}
    OBVIOUS
  <2>2. g = [i \in 1 .. 0 |-> IF i = 1 THEN seqs[i] ELSE g[i - 1] \o seqs[i]]
    BY <2>1
  <2> QED
    BY <2>2 DEF Flattens
<1>2. ASSUME NEW j \in 0 .. n - 1, j \in S  PROVE j + 1 \in S
  <2>1. PICK r : Flattens(r, seqs, j)
    BY <1>2
  <2> DEFINE final == IF j = 0 THEN seqs[j + 1] ELSE r[j] \o seqs[j + 1]
             g     == [i \in 1 .. j + 1 |-> IF i <= j THEN r[i] ELSE final]
  <2> HIDE DEF final
  <2>2. \A i \in 1 .. j : r[i] = IF i = 1 THEN seqs[i] ELSE r[i - 1] \o seqs[i]
    <3>1. r = [i \in 1 .. j |-> IF i = 1 THEN seqs[i] ELSE r[i - 1] \o seqs[i]]
      BY <2>1 DEF Flattens
    <3> QED
      BY <3>1
  <2>3. /\ \A i \in 1 .. j : g[i] = r[i]
        /\ g[j + 1] = final
        /\ g = [i \in 1 .. j + 1 |-> g[i]]
    OBVIOUS
  <2> HIDE DEF g
  <2>4. ASSUME NEW i \in 1 .. j + 1
        PROVE  g[i] = IF i = 1 THEN seqs[i] ELSE g[i - 1] \o seqs[i]
    <3>1. CASE i \in 1 .. j
      <4>1. i # 1 => i - 1 \in 1 .. j
        BY <3>1
      <4> QED
        BY <2>2, <2>3, <3>1, <4>1, Zenon
    <3>2. CASE i = j + 1
      <4>1. CASE j = 0
        BY <2>3, <3>2, <4>1 DEF final
      <4>2. CASE j # 0
        <5>1. i # 1 /\ i - 1 = j /\ j \in 1 .. j
          BY <3>2, <4>2
        <5>2. g[i - 1] = r[j]
          BY <2>3, <5>1
        <5>3. g[i] = r[j] \o seqs[i]
          BY <2>3, <3>2, <4>2 DEF final
        <5> QED
          BY <5>1, <5>2, <5>3, Zenon
      <4> QED
        BY <4>1, <4>2
    <3>3. i \in 1 .. j \/ i = j + 1
      OBVIOUS
    <3> QED
      BY <3>1, <3>2, <3>3, Zenon
  <2> DEFINE next(i) == IF i = 1 THEN seqs[i] ELSE g[i - 1] \o seqs[i]
  <2>5. g = [i \in 1 .. j + 1 |-> next(i)]
    <3>1. \A i \in 1 .. j + 1 : g[i] = next(i)
      BY <2>4
    <3> HIDE DEF next
    <3> QED
      BY <2>3, <3>1
  <2>6. Flattens(g, seqs, j + 1)
    BY <2>5 DEF Flattens
  <2>7. j + 1 \in Nat
    OBVIOUS
  <2> QED
    BY <2>6, <2>7
<1>3. \A i \in 0 .. n : i \in S
  <2> HIDE DEF S
  <2> QED
    BY <1>1, <1>2, UpTo
<1> QED
  BY <1>3

\* Appending a sequence appends its elements.
LEMMA FlattenAppend ==
    ASSUME NEW A, NEW seqs \in Seq(Seq(A)), NEW x \in Seq(A)
    PROVE  /\ FlattenSeq(<<>>) = <<>>
           /\ FlattenSeq(seqs) \in Seq(A)
           /\ FlattenSeq(Append(seqs, x)) = FlattenSeq(seqs) \o x
<1> DEFINE n    == Len(seqs)
           more == Append(seqs, x)
           g    == Flattening(seqs)
           h    == Flattening(more)
<1>1. /\ n \in Nat
      /\ more \in Seq(Seq(A))
      /\ Len(more) = n + 1
      /\ \A i \in 1 .. n : more[i] = seqs[i]
      /\ more[n + 1] = x
  BY LenProperties, AppendProperties
<1>2. FlattenSeq(<<>>) = <<>>
  BY DEF FlattenSeq
<1>3. Flattens(g, seqs, n) /\ Flattens(h, more, n + 1)
  <2>1. /\ \E r : Flattens(r, seqs, n)
        /\ \E r : Flattens(r, more, n + 1)
    <3>1. n \in Nat /\ n + 1 \in Nat
      BY <1>1
    <3> HIDE DEF n, more
    <3> QED
      BY <3>1, FlattenExists
  <2>2. Len(more) = n + 1 /\ Len(seqs) = n
    BY <1>1
  <2> HIDE DEF n, more
  <2> QED
    BY <2>1, <2>2 DEF Flattening
<1>4. \A i \in 1 .. n : seqs[i] \in Seq(A)
  BY ElementOfSeq
<1>5. FlattenSeq(more) = h[n + 1]
  <2>1. Len(more) = n + 1 /\ n + 1 # 0
    BY <1>1
  <2> HIDE DEF more, n
  <2> QED
    BY <2>1, FlattenIsLast DEF h
<1>6. n # 0 => FlattenSeq(seqs) = g[n]
  BY FlattenIsLast
<1> HIDE DEF n, more, g, h
<1>7. \A i \in 1 .. n : g[i] = IF i = 1 THEN seqs[i] ELSE g[i - 1] \o seqs[i]
  <2>1. g = [i \in 1 .. n |-> IF i = 1 THEN seqs[i] ELSE g[i - 1] \o seqs[i]]
    BY <1>3 DEF Flattens
  <2> QED
    BY <2>1
<1>8. \A i \in 1 .. n + 1 : h[i] = IF i = 1 THEN more[i] ELSE h[i - 1] \o more[i]
  <2>1. h = [i \in 1 .. n + 1 |-> IF i = 1 THEN more[i] ELSE h[i - 1] \o more[i]]
    BY <1>3 DEF Flattens
  <2> QED
    BY <2>1
<1>9. CASE n = 0
  <2>1. seqs = <<>>
    <3>1. Len(seqs) = 0
      BY <1>9 DEF n
    <3> QED
      BY <3>1, EmptySeq
  <2>2. h[n + 1] = x
    <3>1. n + 1 = 1 /\ n + 1 \in 1 .. n + 1
      BY <1>9
    <3> QED
      BY <1>1, <1>8, <3>1, Zenon
  <2>3. <<>> \o x = x
    OBVIOUS
  <2>4. <<>> \in Seq(A)
    OBVIOUS
  <2> QED
    BY <1>2, <1>5, <1>9, <2>1, <2>2, <2>3, <2>4 DEF more
<1>10. CASE n # 0
  <2> DEFINE S == {0} \cup {i \in 1 .. n : g[i] = h[i] /\ g[i] \in Seq(A)}
  <2>1. ASSUME NEW i \in 0 .. n - 1, i \in S  PROVE i + 1 \in S
    <3>1. i + 1 \in 1 .. n /\ i + 1 \in 1 .. n + 1 /\ i + 1 - 1 = i
      BY <1>1
    <3>2. more[i + 1] = seqs[i + 1] /\ seqs[i + 1] \in Seq(A)
      BY <1>1, <1>4, <3>1
    <3>3. CASE i = 0
      BY <1>7, <1>8, <3>1, <3>2, <3>3
    <3>4. CASE i # 0
      <4>1. g[i] = h[i] /\ g[i] \in Seq(A)
        BY <2>1, <3>4
      <4>2. g[i + 1] = g[i] \o seqs[i + 1] /\ h[i + 1] = h[i] \o more[i + 1]
        <5>1. i + 1 # 1
          BY <3>1, <3>4
        <5>2. PICK k : k = i + 1
          OBVIOUS
        <5>3. k \in 1 .. n /\ k \in 1 .. n + 1 /\ k # 1 /\ k - 1 = i
          BY <3>1, <5>1, <5>2
        <5>4. g[k] = g[k - 1] \o seqs[k] /\ h[k] = h[k - 1] \o more[k]
          BY <1>7, <1>8, <5>3, Zenon
        <5> QED
          BY <5>2, <5>3, <5>4, Zenon
      <4>3. g[i] \o seqs[i + 1] \in Seq(A)
        BY <3>2, <4>1, ConcatProperties
      <4> QED
        BY <3>1, <3>2, <4>1, <4>2, <4>3
    <3> QED
      BY <3>3, <3>4
  <2>2. \A i \in 0 .. n : i \in S
    <3> HIDE DEF S
    <3>1. 0 \in S
      BY DEF S
    <3> QED
      BY <1>1, <2>1, <3>1, UpTo
  <2>3. n \in S
    BY <1>1, <2>2
  <2>4. g[n] = h[n] /\ g[n] \in Seq(A)
    BY <1>10, <2>3
  <2>5. h[n + 1] = h[n] \o x
    <3>1. n + 1 \in 1 .. n + 1 /\ n + 1 # 1 /\ n + 1 - 1 = n
      BY <1>1, <1>10
    <3>2. PICK k : k = n + 1
      OBVIOUS
    <3>3. k \in 1 .. n + 1 /\ k # 1 /\ k - 1 = n /\ more[k] = x
      BY <1>1, <3>1, <3>2
    <3>4. h[k] = h[k - 1] \o more[k]
      BY <1>8, <3>3, Zenon
    <3> QED
      BY <3>2, <3>3, <3>4, Zenon
  <2> QED
    BY <1>2, <1>5, <1>6, <1>10, <2>4, <2>5 DEF more
<1> QED
  BY <1>9, <1>10

-----------------------------------------------------------------------------
(***************************************************************************)
(* Files: the texts of their segments, and the blocks sent.                *)
(***************************************************************************)
FramesIn(file)     == {fr \in Frames : FileOf[fr] = file}
SegmentCount(file) == Cardinality(SegmentsOf(file))

\* The frame with segment s, and the texts of the first n segments.
SegmentFrame(file, s) == CHOOSE fr \in SegmentsOf(file) : SegmentId[fr] = s
SegmentTexts(file)    == [s \in 1 .. SegmentCount(file) |-> Text(SegmentFrame(file, s))]
LenUpTo(file, n)      == Len(FlattenSeq(SubSeq(SegmentTexts(file), 1, n)))

\* Segments are numbered from 1 to their count.
LEMMA SegmentNumbers ==
    ASSUME NEW file \in Files
    PROVE  /\ SegmentCount(file) \in Nat
           /\ Cardinality(FramesIn(file)) \in Nat
           /\ \A fr \in FramesIn(file) : SegmentId[fr] \in 0 .. Cardinality(FramesIn(file)) - 1
           /\ \A s \in 0 .. Cardinality(FramesIn(file)) - 1 :
                 \E fr \in FramesIn(file) : SegmentId[fr] = s
           /\ \A fr \in SegmentsOf(file) : SegmentId[fr] \in 1 .. SegmentCount(file)
           /\ \A s \in 1 .. SegmentCount(file) : \E fr \in SegmentsOf(file) : SegmentId[fr] = s
<1> DEFINE frames == FramesIn(file)
           C      == Cardinality(frames)
<1>1. IsFiniteSet(frames) /\ C \in Nat
  <2>1. IsFiniteSet(frames)
    <3>1. frames \subseteq Frames
      BY DEF FramesIn
    <3> QED
      BY <3>1, FilesAssumption, FS_Subset
  <2> QED
    BY <2>1, FS_CardinalityType
<1>2. {SegmentId[fr] : fr \in frames} = 0 .. C - 1
  BY FilesAssumption DEF FramesIn
<1>3. /\ \A fr \in frames : SegmentId[fr] \in 0 .. C - 1
      /\ \A s \in 0 .. C - 1 : \E fr \in frames : SegmentId[fr] = s
  <2> HIDE DEF frames, C
  <2> QED
    BY <1>2
<1>4. \A fr \in frames : fr \in SegmentsOf(file) <=> SegmentId[fr] # 0
  BY FilesAssumption DEF SegmentsOf, FramesIn
<1>5. SegmentsOf(file) \subseteq frames
  BY DEF SegmentsOf, FramesIn
<1>6. C = 0 => SegmentCount(file) = 0
  <2> SUFFICES ASSUME C = 0  PROVE SegmentCount(file) = 0
    OBVIOUS
  <2>1. frames = {}
    BY <1>1, FS_EmptySet
  <2>2. SegmentsOf(file) = {}
    BY <1>5, <2>1
  <2> QED
    BY <2>2, FS_EmptySet DEF SegmentCount
<1>7. C # 0 => SegmentCount(file) = C - 1
  <2> SUFFICES ASSUME C # 0  PROVE SegmentCount(file) = C - 1
    OBVIOUS
  <2>1. 0 \in 0 .. C - 1
    BY <1>1
  <2>2. PICK request \in frames : SegmentId[request] = 0
    BY <1>3, <2>1
  <2>3. \A fr \in frames : SegmentId[fr] = 0 => fr = request
    BY <2>2, FilesAssumption DEF FramesIn
  <2>4. SegmentsOf(file) = frames \ {request}
    BY <1>4, <1>5, <2>2, <2>3
  <2> QED
    BY <1>1, <2>4, FS_RemoveElement DEF SegmentCount
<1> HIDE DEF frames, C
<1>8. SegmentCount(file) \in Nat
  BY <1>1, <1>6, <1>7
<1>9. \A fr \in SegmentsOf(file) : SegmentId[fr] \in 1 .. SegmentCount(file)
  BY <1>1, <1>3, <1>4, <1>5, <1>6, <1>7
<1>10. \A s \in 1 .. SegmentCount(file) : \E fr \in SegmentsOf(file) : SegmentId[fr] = s
  <2> SUFFICES ASSUME NEW s \in 1 .. SegmentCount(file)
               PROVE  \E fr \in SegmentsOf(file) : SegmentId[fr] = s
    OBVIOUS
  <2>1. s \in 0 .. C - 1 /\ s # 0
    BY <1>1, <1>6, <1>7
  <2>2. PICK fr \in frames : SegmentId[fr] = s
    BY <1>3, <2>1
  <2> QED
    BY <1>4, <2>1, <2>2
<1> QED
  BY <1>1, <1>3, <1>8, <1>9, <1>10 DEF frames, C

\* A segment is found by its number.
LEMMA SegmentFound ==
    ASSUME NEW file \in Files
    PROVE  /\ \A fr \in SegmentsOf(file) : SegmentFrame(file, SegmentId[fr]) = fr
           /\ \A s \in 1 .. SegmentCount(file) : SegmentFrame(file, s) \in SegmentsOf(file)
           /\ SegmentsOf(file) \subseteq Frames
<1>1. ASSUME NEW s, \E fr \in SegmentsOf(file) : SegmentId[fr] = s
      PROVE  SegmentFrame(file, s) \in SegmentsOf(file) /\ SegmentId[SegmentFrame(file, s)] = s
  BY <1>1 DEF SegmentFrame
<1>2. ASSUME NEW fr \in SegmentsOf(file), NEW other \in SegmentsOf(file),
             SegmentId[fr] = SegmentId[other]
      PROVE  fr = other
  BY <1>2, FilesAssumption DEF SegmentsOf
<1>3. SegmentsOf(file) \subseteq Frames
  BY DEF SegmentsOf
<1>4. ASSUME NEW fr \in SegmentsOf(file)  PROVE SegmentFrame(file, SegmentId[fr]) = fr
  BY <1>1, <1>2
<1> QED
  BY <1>1, <1>3, <1>4, SegmentNumbers

\* The text of a file is that of its segments, one after the other.
LEMMA FileTextFacts ==
    ASSUME NEW file \in Files
    PROVE  /\ SegmentTexts(file) \in Seq(Seq(Pieces))
           /\ Len(SegmentTexts(file)) = SegmentCount(file)
           /\ \A s \in 1 .. SegmentCount(file) :
                 /\ SegmentTexts(file)[s] = Text(SegmentFrame(file, s))
                 /\ Len(SegmentTexts(file)[s]) = Blocks[SegmentFrame(file, s)]
                 /\ Blocks[SegmentFrame(file, s)] \in Nat \ {0}
           /\ FileText[file] = FlattenSeq(SegmentTexts(file))
<1>1. SegmentCount(file) \in Nat
  BY SegmentNumbers
<1>2. \A s \in 1 .. SegmentCount(file) :
          /\ Text(SegmentFrame(file, s)) \in Seq(Pieces)
          /\ Len(Text(SegmentFrame(file, s))) = Blocks[SegmentFrame(file, s)]
          /\ Blocks[SegmentFrame(file, s)] \in Nat \ {0}
  BY SegmentFound, FrameFacts
<1>3. SegmentTexts(file) = [s \in 1 .. SegmentCount(file) |-> Text(SegmentFrame(file, s))]
  BY DEF SegmentTexts
<1>4. FileText[file] = FlattenSeq(SegmentTexts(file))
  BY DEF FileText, SegmentTexts, SegmentFrame, SegmentCount
<1> QED
  BY <1>1, <1>2, <1>3, <1>4

\* A segment adds its length to that of those before it.
LEMMA LenUpToFacts ==
    ASSUME NEW file \in Files
    PROVE  /\ LenUpTo(file, 0) = 0
           /\ \A n \in 0 .. SegmentCount(file) : LenUpTo(file, n) \in Nat
           /\ \A n \in 0 .. SegmentCount(file) - 1 :
                 LenUpTo(file, n + 1) = LenUpTo(file, n) + Blocks[SegmentFrame(file, n + 1)]
           /\ FileText[file] \in Seq(Pieces)
           /\ FileSize(file) = LenUpTo(file, SegmentCount(file))
           /\ \A n \in 0 .. SegmentCount(file) - 1 : LenUpTo(file, n) < FileSize(file)
<1> DEFINE texts == SegmentTexts(file)
           N     == SegmentCount(file)
           P(n)  == SubSeq(texts, 1, n)
           L(n)  == LenUpTo(file, n)
<1>1. /\ N \in Nat
      /\ texts \in Seq(Seq(Pieces))
      /\ Len(texts) = N
      /\ \A s \in 1 .. N : /\ texts[s] \in Seq(Pieces)
                           /\ Len(texts[s]) = Blocks[SegmentFrame(file, s)]
                           /\ Blocks[SegmentFrame(file, s)] \in Nat \ {0}
  BY SegmentNumbers, FileTextFacts, ElementOfSeq
<1>2. \A n : L(n) = Len(FlattenSeq(P(n)))
  BY DEF LenUpTo
<1> HIDE DEF texts, N, L
<1>3. ASSUME NEW n \in 0 .. N
      PROVE  P(n) \in Seq(Seq(Pieces)) /\ FlattenSeq(P(n)) \in Seq(Pieces) /\ L(n) \in Nat
  <2>1. P(n) \in Seq(Seq(Pieces))
    BY <1>1
  <2>2. <<>> \in Seq(Pieces)
    OBVIOUS
  <2>3. FlattenSeq(P(n)) \in Seq(Pieces)
    BY <2>1, <2>2, FlattenAppend
  <2> QED
    BY <1>2, <2>1, <2>3, LenProperties
<1>4. P(0) = <<>> /\ L(0) = 0
  <2>1. P(0) = <<>>
    BY <1>1
  <2>2. <<>> \in Seq(Seq(Pieces)) /\ <<>> \in Seq(Pieces)
    OBVIOUS
  <2>3. FlattenSeq(<<>>) = <<>>
    BY <2>2, FlattenAppend
  <2>4. Len(<<>>) = 0
    OBVIOUS
  <2> HIDE DEF P
  <2>5. L(0) = 0
    BY <1>2, <2>1, <2>3, <2>4, Zenon
  <2> QED
    BY <2>1, <2>5
<1>5. ASSUME NEW n \in 0 .. N - 1
      PROVE  L(n + 1) = L(n) + Blocks[SegmentFrame(file, n + 1)]
  <2>1. n \in 0 .. N /\ n + 1 \in 1 .. N /\ n + 1 \in 0 .. N
    BY <1>1
  <2>2. texts[n + 1] \in Seq(Pieces) /\ Len(texts[n + 1]) = Blocks[SegmentFrame(file, n + 1)]
    BY <1>1, <2>1
  <2>3. P(n + 1) = Append(P(n), texts[n + 1])
    <3>1. \A i \in 1 .. n + 1 : P(n + 1)[i] = texts[i]
      BY <1>1, <2>1
    <3> QED
      BY <1>1, <2>1
  <2>4. FlattenSeq(P(n)) \in Seq(Pieces) /\ P(n) \in Seq(Seq(Pieces))
    BY <1>3, <2>1
  <2> HIDE DEF P
  <2>5. FlattenSeq(P(n + 1)) = FlattenSeq(P(n)) \o texts[n + 1]
    BY <2>2, <2>3, <2>4, FlattenAppend
  <2>6. Len(FlattenSeq(P(n)) \o texts[n + 1]) = Len(FlattenSeq(P(n))) + Len(texts[n + 1])
    BY <2>2, <2>4, ConcatProperties
  <2> QED
    BY <1>2, <2>2, <2>5, <2>6
<1>6. FileText[file] \in Seq(Pieces) /\ FileSize(file) = L(N)
  <2>1. FileText[file] = FlattenSeq(texts) /\ FileSize(file) = Len(FileText[file])
    BY FileTextFacts DEF FileSize, texts
  <2>2. P(N) = texts
    BY <1>1
  <2>3. N \in 0 .. N
    BY <1>1
  <2> HIDE DEF P
  <2> QED
    BY <1>2, <1>3, <2>1, <2>2, <2>3
<1>7. ASSUME NEW n \in 0 .. N - 1  PROVE L(n) < FileSize(file)
  <2> DEFINE S == {i \in 0 .. N : i = 0 \/ L(N - i) < L(N)}
  <2>1. ASSUME NEW i \in 0 .. N - 1, i \in S  PROVE i + 1 \in S
    <3>1. /\ N - (i + 1) \in 0 .. N - 1
          /\ N - (i + 1) + 1 = N - i
          /\ N - i \in 1 .. N
          /\ N - i \in 0 .. N
          /\ N - (i + 1) \in 0 .. N
          /\ i + 1 \in 0 .. N
      BY <1>1
    <3>2. PICK a : a = N - (i + 1)
      OBVIOUS
    <3>3. a \in 0 .. N - 1 /\ a + 1 = N - i /\ a \in 0 .. N /\ a + 1 \in 1 .. N
      BY <3>1, <3>2
    <3>4. L(a + 1) = L(a) + Blocks[SegmentFrame(file, a + 1)]
      BY <1>5, <3>3
    <3>5. Blocks[SegmentFrame(file, a + 1)] \in Nat \ {0}
      BY <1>1, <3>3
    <3>6. L(a) \in Nat /\ L(a + 1) \in Nat /\ L(N) \in Nat
      <4>1. a + 1 \in 0 .. N /\ N \in 0 .. N
        BY <1>1, <3>3
      <4> QED
        BY <1>3, <3>3, <4>1
    <3>7. L(a) < L(a + 1)
      BY <3>4, <3>5, <3>6
    <3>8. i = 0 \/ L(N - i) < L(N)
      BY <2>1
    <3>9. L(a) < L(N)
      <4>1. CASE i = 0
        <5>1. a + 1 = N
          BY <1>1, <3>3, <4>1
        <5> QED
          BY <3>7, <5>1
      <4>2. CASE i # 0
        <5>1. L(a + 1) < L(N)
          BY <3>3, <3>8, <4>2
        <5> QED
          BY <3>6, <3>7, <5>1
      <4> QED
        BY <4>1, <4>2
    <3> QED
      BY <3>1, <3>2, <3>9
  <2>2. 0 \in S
    BY <1>1
  <2>3. \A i \in 0 .. N : i \in S
    <3> HIDE DEF S
    <3> QED
      BY <1>1, <2>1, <2>2, UpTo
  <2>4. N - n \in 0 .. N /\ N - n # 0 /\ N - (N - n) = n
    BY <1>1
  <2>5. N - n \in S
    BY <2>3, <2>4
  <2> QED
    BY <1>6, <2>4, <2>5
<1> QED
  BY <1>3, <1>4, <1>5, <1>6, <1>7 DEF N, L

\* The empty fragment of the request and the whole texts of all segments make
\* the text of the file.
LEMMA WholeFile ==
    ASSUME NEW file \in Files, NEW p \in Seq(Seq(Pieces)),
           Len(p) = SegmentCount(file) + 1,
           p[1] = <<>>,
           \A s \in 1 .. SegmentCount(file) : p[s + 1] = SegmentTexts(file)[s]
    PROVE  FlattenSeq(p) = FileText[file]
<1> DEFINE texts == SegmentTexts(file)
           N     == SegmentCount(file)
           P(n)  == SubSeq(texts, 1, n)
           Q(n)  == SubSeq(p, 1, n + 1)
           S     == {n \in 0 .. N : FlattenSeq(Q(n)) = FlattenSeq(P(n))}
<1>1. /\ N \in Nat
      /\ texts \in Seq(Seq(Pieces))
      /\ Len(texts) = N
      /\ \A s \in 1 .. N : texts[s] \in Seq(Pieces)
  BY SegmentNumbers, FileTextFacts, ElementOfSeq
<1>2. Len(p) = N + 1 /\ p[1] = <<>> /\ \A s \in 1 .. N : p[s + 1] = texts[s]
  OBVIOUS
<1>3. FileText[file] = FlattenSeq(texts)
  BY FileTextFacts
<1> HIDE DEF texts, N
<1>4. 0 \in S
  <2>1. <<>> \in Seq(Seq(Pieces)) /\ <<>> \in Seq(Pieces)
    OBVIOUS
  <2>2. Q(0) = Append(<<>>, <<>>) /\ P(0) = <<>>
    <3>1. P(0) = <<>>
      BY <1>1
    <3>2. Len(Q(0)) = 1 /\ Q(0)[1] = <<>> /\ Q(0) \in Seq(Seq(Pieces))
      BY <1>1, <1>2
    <3>3. Q(0) = <<<<>>>> /\ Append(<<>>, <<>>) = <<<<>>>>
      <4> HIDE DEF Q
      <4> QED
        BY <3>2
    <3> QED
      BY <3>1, <3>3
  <2>3. FlattenSeq(<<>>) = <<>> /\ FlattenSeq(Append(<<>>, <<>>)) = <<>> \o <<>>
    BY <2>1, FlattenAppend, Zenon
  <2>4. <<>> \o <<>> = <<>>
    OBVIOUS
  <2>5. FlattenSeq(Q(0)) = FlattenSeq(P(0))
    BY <2>2, <2>3, <2>4, Zenon
  <2> QED
    BY <1>1, <2>5
<1>5. ASSUME NEW n \in 0 .. N - 1, n \in S  PROVE n + 1 \in S
  <2>1. /\ n \in 0 .. N
        /\ n + 1 \in 1 .. N
        /\ n + 1 \in 0 .. N
    BY <1>1
  <2>2. texts[n + 1] \in Seq(Pieces) /\ p[n + 2] = texts[n + 1]
    <3>1. n + 1 + 1 = n + 2
      OBVIOUS
    <3> QED
      BY <1>1, <1>2, <2>1, <3>1
  <2>3. P(n + 1) = Append(P(n), texts[n + 1]) /\ P(n) \in Seq(Seq(Pieces))
    BY <1>1, <2>1
  <2>4. Q(n + 1) = Append(Q(n), texts[n + 1]) /\ Q(n) \in Seq(Seq(Pieces))
    <3>1. /\ Q(n) \in Seq(Seq(Pieces))
          /\ Q(n + 1) \in Seq(Seq(Pieces))
          /\ Len(Q(n)) = n + 1
          /\ Len(Q(n + 1)) = n + 2
          /\ \A i \in 1 .. n + 1 : Q(n)[i] = p[i]
          /\ \A i \in 1 .. n + 2 : Q(n + 1)[i] = p[i]
      <4>1. ASSUME NEW m \in 0 .. N
            PROVE  /\ Q(m) \in Seq(Seq(Pieces))
                   /\ Len(Q(m)) = m + 1
                   /\ \A i \in 1 .. m + 1 : Q(m)[i] = p[i]
        <5>1. m + 1 \in Int /\ 1 \in Int /\ \A i \in 1 .. m + 1 : i \in 1 .. Len(p)
          BY <1>1, <1>2
        <5>2. \A i \in 1 .. m + 1 : p[i] \in Seq(Pieces)
          BY <5>1, ElementOfSeq
        <5>3. /\ Q(m) \in Seq(Seq(Pieces))
              /\ Len(Q(m)) = IF 1 <= m + 1 THEN m + 1 - 1 + 1 ELSE 0
              /\ \A i \in 1 .. m + 1 - 1 + 1 : Q(m)[i] = p[1 + i - 1]
          BY <5>1, <5>2, SubSeqProperties
        <5> HIDE DEF Q
        <5> QED
          BY <5>3
      <4>2. n + 1 + 1 = n + 2
        OBVIOUS
      <4> HIDE DEF Q
      <4> QED
        BY <2>1, <4>1, <4>2
    <3> HIDE DEF Q
    <3>2. Q(n + 1) = Append(Q(n), p[n + 2])
      <4> DEFINE R == Append(Q(n), p[n + 2])
      <4>1. /\ R \in Seq(Seq(Pieces))
            /\ Len(R) = n + 2
            /\ \A i \in 1 .. n + 1 : R[i] = p[i]
            /\ R[n + 2] = p[n + 2]
        <5>1. p[n + 2] \in Seq(Pieces)
          BY <2>2
        <5>2. ASSUME NEW T, NEW q \in Seq(T), NEW t \in T
              PROVE  /\ Append(q, t) \in Seq(T)
                     /\ Len(Append(q, t)) = Len(q) + 1
                     /\ \A i \in 1 .. Len(q) : Append(q, t)[i] = q[i]
                     /\ Append(q, t)[Len(q) + 1] = t
          BY AppendProperties
        <5>3. /\ R \in Seq(Seq(Pieces))
              /\ Len(R) = Len(Q(n)) + 1
              /\ \A i \in 1 .. Len(Q(n)) : R[i] = Q(n)[i]
              /\ R[Len(Q(n)) + 1] = p[n + 2]
          BY <3>1, <5>1, <5>2, Zenon
        <5> HIDE DEF R
        <5>4. n + 1 + 1 = n + 2
          BY <2>1
        <5> QED
          BY <3>1, <5>3, <5>4
      <4> HIDE DEF R
      <4>2. \A i \in 1 .. n + 2 : Q(n + 1)[i] = R[i]
        <5> SUFFICES ASSUME NEW i \in 1 .. n + 2  PROVE Q(n + 1)[i] = R[i]
          OBVIOUS
        <5>1. Q(n + 1)[i] = p[i]
          BY <3>1
        <5>2. i \in 1 .. n + 1 \/ i = n + 2
          BY <2>1
        <5> QED
          BY <4>1, <5>1, <5>2
      <4>3. Q(n + 1) = R
        BY <3>1, <4>1, <4>2, SeqEqual
      <4> QED
        BY <4>3 DEF R
    <3> QED
      BY <2>2, <3>1, <3>2, Zenon
  <2>5. FlattenSeq(Q(n)) = FlattenSeq(P(n))
    BY <1>5
  <2> HIDE DEF P, Q
  <2>6. FlattenSeq(Q(n + 1)) = FlattenSeq(P(n + 1))
    <3>1. FlattenSeq(Append(Q(n), texts[n + 1])) = FlattenSeq(Q(n)) \o texts[n + 1]
      BY <2>2, <2>4, FlattenAppend
    <3>2. FlattenSeq(Append(P(n), texts[n + 1])) = FlattenSeq(P(n)) \o texts[n + 1]
      BY <2>2, <2>3, FlattenAppend
    <3> QED
      BY <2>3, <2>4, <2>5, <3>1, <3>2, Zenon
  <2> QED
    BY <2>1, <2>6
<1>6. N \in S
  <2>1. \A n \in 0 .. N : n \in S
    <3> HIDE DEF S
    <3> QED
      BY <1>1, <1>4, <1>5, UpTo
  <2> QED
    BY <1>1, <2>1
<1>7. Q(N) = p /\ P(N) = texts
  BY <1>1, <1>2
<1> QED
  BY <1>3, <1>6, <1>7

\* The elements of a flattened sequence are those of its parts.
LEMMA FlattenType ==
    ASSUME NEW A, NEW seqs \in Seq(Seq(A))
    PROVE  FlattenSeq(seqs) \in Seq(A)
<1>1. <<>> \in Seq(A)
  OBVIOUS
<1> QED
  BY <1>1, FlattenAppend

\* What is sent of a file are the blocks of its frames.
LEMMA StreamFacts ==
    ASSUME NEW file \in Files
    PROVE  /\ Stream[file] \in Seq(Pieces)
           /\ \A i \in DOMAIN Stream[file] : FileOf[Stream[file][i].frame] = file
<1> DEFINE C == Cardinality(FramesIn(file))
           A == {b \in Pieces : FileOf[b.frame] = file}
           texts == [i \in DOMAIN FramesOf(file) |-> Text(FramesOf(file)[i])]
<1>1. C \in Nat
  BY SegmentNumbers
<1>2. FramesOf(file) = [i \in 1 .. C |->
                            CHOOSE fr \in Frames : FileOf[fr] = file /\ SegmentId[fr] = i - 1]
  BY DEF FramesOf, FramesIn
<1> HIDE DEF C
<1>3. ASSUME NEW i \in 1 .. C  PROVE Text(FramesOf(file)[i]) \in Seq(A)
  <2> DEFINE fr == FramesOf(file)[i]
  <2>1. i - 1 \in 0 .. C - 1
    BY <1>1
  <2>2. \E g \in Frames : FileOf[g] = file /\ SegmentId[g] = i - 1
    <3>1. \E g \in FramesIn(file) : SegmentId[g] = i - 1
      BY <2>1, SegmentNumbers DEF C
    <3> QED
      BY <3>1 DEF FramesIn
  <2>3. fr \in Frames /\ FileOf[fr] = file
    BY <1>2, <2>2
  <2> HIDE DEF fr
  <2>4. Blocks[fr] \in Nat /\ \A l \in 1 .. Blocks[fr] : Piece(fr, l) \in A
    BY <2>3, FrameFacts DEF Piece
  <2>5. Text(fr) = [l \in 1 .. Blocks[fr] |-> Piece(fr, l)]
    BY DEF Text
  <2> HIDE DEF A
  <2> QED
    BY <2>4, <2>5 DEF fr
<1>4. texts \in Seq(Seq(A))
  <2>1. DOMAIN FramesOf(file) = 1 .. C
    BY <1>2
  <2> HIDE DEF A
  <2> QED
    BY <1>1, <1>3, <2>1
<1>5. Stream[file] = FlattenSeq(texts)
  BY DEF Stream
<1> HIDE DEF A, texts
<1>6. Stream[file] \in Seq(A)
  BY <1>4, <1>5, FlattenType
<1>7. \A i \in DOMAIN Stream[file] : Stream[file][i] \in A
  BY <1>6
<1>8. A \subseteq Pieces
  BY DEF A
<1>9. Stream[file] \in Seq(Pieces)
  BY <1>6, <1>8
<1> QED
  BY <1>7, <1>9 DEF A

-----------------------------------------------------------------------------
(***************************************************************************)
(* The invariant.                                                          *)
(***************************************************************************)

\* The application and the link.
SentBefore == \A file \in Files : IsSent(file) => sent_at[file] <= now

\* Nothing of a file is left when its identifier is used again.
SentApart ==
    \A file, other \in Files :
        /\ file # other
        /\ FileId[file] = FileId[other]
        /\ IsSent(file)
        /\ IsSent(other)
        => \/ sent_at[file] > sent_at[other] + Lifetime + MiamTimeout
           \/ sent_at[other] > sent_at[file] + Lifetime + MiamTimeout

\* Of the call in progress: its block is on the air, the table of acars.c is
\* there once it was needed.
CallSound ==
    /\ pc # "idle" => block \in Pieces /\ OnAir(FileOf[block.frame])
    /\ pc \in {"text", "apps", "segment"} => rtables # <<>>

\* The message of the block is complete and not yet fetched.
Completing(k) == pc = "text" /\ msg.reasm_status = "COMPLETE" /\ k = MsgKey[block.frame]

\* Every entry of acars.c is of a message that goes on, but for one that is
\* complete: that ends with the block just received.
AcarsEntries ==
    \A k \in MsgKeys : acars_table[k] # NULL =>
        IF Completing(k)
        THEN /\ acars_table[k].frags_collected_total_len >= 1
             /\ \E first \in 1 .. Blocks[block.frame] :
                   /\ RunOf(acars_table[k], block.frame, first)
                   /\ Reach(acars_table[k], first) = Blocks[block.frame]
        ELSE GoesOn(k)

\* The text passed on is of successive blocks of the frame received.
PartOf(txt, fr) ==
    \E first, final \in 1 .. Blocks[fr] : first <= final /\ txt = SubSeq(Text(fr), first, final)

TextSound == pc \in {"apps", "segment"} => PartOf(msg.txt, block.frame)

\* An entry of miam.c has the beginnings of a file's first segments, after the
\* empty fragment of its request; all of them, if it is as long as they are.
HoldsFile(e, file) ==
    LET list == e.fragment_list
        n    == Len(list) - 1
    IN  /\ e.reasm_timeout = At(MiamTimeout)
        /\ e.total_pdu_len = FileSize(file)
        /\ e.total_fragment_cnt = 0
        /\ n \in 0 .. SegmentCount(file)
        /\ e.prev_seq_num = n
        /\ list[1].payload = <<>>
        /\ e.frags_collected_total_len <= LenUpTo(file, n)
        /\ e.frags_collected_total_len = LenUpTo(file, n) =>
               \A s \in 1 .. n : list[s + 1].payload = SegmentTexts(file)[s]

\* It was begun while the file was on the air.
BegunBy(e, file) ==
    \E t \in 0 .. MaxTime :
        /\ e.first_frag_rx_time = At(t)
        /\ sent_at[file] <= t
        /\ t <= sent_at[file] + Lifetime

EntryOf(id, file) ==
    /\ FileId[file] = id
    /\ IsSent(file)
    /\ BegunBy(miam_table[id], file)
    /\ HoldsFile(miam_table[id], file)

MiamEntries ==
    \A id \in FileIds : miam_table[id] # NULL => \E file \in Files : EntryOf(id, file)

\* When a file is complete its entry is as long as the file.
FileCompleteSound ==
    pc = "segment" /\ miam_last.status = "COMPLETE" =>
        LET e == miam_table[FileId[FileOf[FrameIn(msg.txt)]]]
        IN  e # NULL => e.total_pdu_len > 0 /\ e.frags_collected_total_len >= e.total_pdu_len

DecoderIInv ==
    /\ TypeOK
    /\ SentBefore
    /\ SentApart
    /\ CallSound
    /\ AcarsEntries
    /\ TextSound
    /\ MiamEntries
    /\ FileCompleteSound

(***************************************************************************)
(* What more is true of segments, if fragments are not decoded and the     *)
(* bearers are valid.                                                      *)
(***************************************************************************)
OptionsValid == DecodeFragments = {FALSE} /\ Bearers \subseteq DOMAIN Profile

\* The first block of a downlink that is passed on is all of it.
WholePassedOn ==
    /\ config.decode_fragments = FALSE /\ config.acars_bearer \in DOMAIN Profile
    /\ /\ pc \in {"text", "apps"}
       /\ Down(block.frame)
       /\ ~Withheld(msg.reasm_status)
       /\ IF pc = "text" THEN block.part = 1 \/ msg.reasm_status = "COMPLETE"
          ELSE Starts(msg.txt)
       => IF pc = "text" THEN block.part = Blocks[block.frame]
          ELSE msg.txt = Text(block.frame)

WholeIInv == DecoderIInv /\ WholePassedOn /\ SegmentsWhole

-----------------------------------------------------------------------------
(***************************************************************************)
(* What a step leaves alone.                                               *)
(***************************************************************************)

\* The clock, and when files were sent.
LEMMA ClockFacts ==
    ASSUME DecoderIInv
    PROVE  /\ now \in Nat
           /\ now \in 0 .. MaxTime
           /\ Lifetime \in Nat
           /\ MiamTimeout \in Nat \ {0}
           /\ ConfigTyped
           /\ \A file \in Files : IsSent(file) => sent_at[file] \in Nat /\ sent_at[file] <= now
<1>1. TypeOK /\ SentBefore
  BY DEF DecoderIInv
<1>2. /\ now \in 0 .. MaxTime
      /\ config \in [decode_fragments : BOOLEAN, acars_bearer : Bearers]
      /\ sent_at \in [Files -> (0 .. MaxTime) \cup {NULL}]
  BY <1>1 DEF TypeOK
<1>3. MaxTime \in Nat /\ Lifetime \in Nat /\ MiamTimeout \in Nat \ {0}
  BY OptionsAssumption
<1>4. ConfigTyped
  BY <1>2 DEF ConfigTyped
<1> QED
  BY <1>1, <1>2, <1>3, <1>4 DEF SentBefore, IsSent

\* A table that is not used keeps its type.
LEMMA TablesTyped ==
    /\ Acars!TypeOK /\ acars_table' = acars_table /\ acars_cnt' = acars_cnt
          /\ acars_last' = acars_last => Acars!TypeOK'
    /\ Miam!TypeOK /\ miam_table' = miam_table /\ miam_cnt' = miam_cnt
          /\ miam_last' = miam_last => Miam!TypeOK'
BY DEF Acars!TypeOK, Miam!TypeOK

\* Entries of messages that go on still do, or are gone.
LEMMA AcarsEntriesKept ==
    ASSUME AcarsEntries,
           ~(pc = "text" /\ msg.reasm_status = "COMPLETE"),
           ~(pc' = "text" /\ msg'.reasm_status = "COMPLETE"),
           \A k \in MsgKeys : acars_table'[k] \in {acars_table[k], NULL}
    PROVE  AcarsEntries'
<1> SUFFICES ASSUME NEW k \in MsgKeys, acars_table'[k] # NULL  PROVE GoesOn(k)'
  BY DEF AcarsEntries, Completing
<1>1. acars_table'[k] = acars_table[k]
  OBVIOUS
<1>2. GoesOn(k)
  BY <1>1 DEF AcarsEntries, Completing
<1> QED
  BY <1>1, <1>2 DEF GoesOn

\* Entries of files stay those of files that were sent, or are gone.
LEMMA MiamEntriesKept ==
    ASSUME MiamEntries,
           \A file \in Files : IsSent(file) => sent_at'[file] = sent_at[file],
           \A id \in FileIds : miam_table'[id] \in {miam_table[id], NULL}
    PROVE  MiamEntries'
<1> SUFFICES ASSUME NEW id \in FileIds, miam_table'[id] # NULL
             PROVE  \E file \in Files : EntryOf(id, file)'
  BY DEF MiamEntries
<1>1. miam_table'[id] = miam_table[id]
  OBVIOUS
<1>2. PICK file \in Files : EntryOf(id, file)
  BY <1>1 DEF MiamEntries
<1>3. sent_at'[file] = sent_at[file]
  BY <1>2 DEF EntryOf
<1>4. EntryOf(id, file)'
  BY <1>1, <1>2, <1>3 DEF EntryOf, IsSent, BegunBy
<1> QED
  BY <1>4

\* A call in progress leaves the link alone.
LEMMA LinkKept ==
    ASSUME SentBefore, SentApart, sent_at' = sent_at, now' = now
    PROVE  /\ SentBefore' /\ SentApart'
           /\ \A file \in Files : OnAir(file)' <=> OnAir(file)
BY DEF SentBefore, SentApart, IsSent, OnAir

-----------------------------------------------------------------------------
(***************************************************************************)
(* The steps that add nothing to a table.                                  *)
(***************************************************************************)

\* A step that ends a call, or comes between calls, and leaves the tables alone
\* but for entries it removes.
LEMMA QuietSound ==
    ASSUME DecoderIInv,
           Acars!TypeOK', \A k \in MsgKeys : acars_table'[k] \in {acars_table[k], NULL},
           Miam!TypeOK', \A id \in FileIds : miam_table'[id] \in {miam_table[id], NULL},
           rtables' \in {<<>>, <<"acars">>, <<"acars", "miam">>},
           config' \in [decode_fragments : BOOLEAN, acars_bearer : Bearers],
           block' \in Pieces \cup {NULL},
           msg' \in [err : BOOLEAN, reasm_status : Acars!Status, txt : Seq(Pieces)],
           decoded' = decoded,
           now' = now, sent_at' = sent_at, next_part' = next_part,
           ~(pc = "text" /\ msg.reasm_status = "COMPLETE"),
           pc' \in {"idle", "done"},
           pc' = "done" => block' \in Pieces /\ OnAir(FileOf[block'.frame])
    PROVE  DecoderIInv'
<1>1. /\ TypeOK /\ SentBefore /\ SentApart /\ AcarsEntries /\ MiamEntries
  BY DEF DecoderIInv
<1>2. TypeOK'
  <2>1. /\ decoded' \subseteq Seq(Pieces)
        /\ now' \in 0 .. MaxTime
        /\ sent_at' \in [Files -> (0 .. MaxTime) \cup {NULL}]
        /\ next_part' \in [Files -> Nat]
        /\ \A file \in Files : next_part'[file] \in 1 .. Len(Stream[file]) + 1
    BY <1>1 DEF TypeOK
  <2>2. pc' \in {"idle", "text", "apps", "segment", "done"}
    OBVIOUS
  <2> QED
    BY <2>1, <2>2 DEF TypeOK
<1>3. SentBefore' /\ SentApart' /\ \A file \in Files : OnAir(file)' <=> OnAir(file)
  BY <1>1, LinkKept
<1>4. CallSound'
  <2>1. ASSUME pc' # "idle"  PROVE block' \in Pieces /\ OnAir(FileOf[block.frame])'
    <3>1. block' \in Pieces /\ OnAir(FileOf[block'.frame])
      BY <2>1
    <3>2. FileOf[block'.frame] \in Files
      BY <3>1, PieceFacts, FrameFacts
    <3> QED
      BY <3>1, <3>2 DEF OnAir, IsSent
  <2>2. pc' \notin {"text", "apps", "segment"}
    OBVIOUS
  <2> QED
    BY <2>1, <2>2 DEF CallSound
<1>5. AcarsEntries'
  BY <1>1, AcarsEntriesKept
<1>6. MiamEntries'
  BY <1>1, MiamEntriesKept
<1>7. TextSound' /\ FileCompleteSound'
  BY DEF TextSound, FileCompleteSound
<1> QED
  BY <1>2, <1>3, <1>4, <1>5, <1>6, <1>7 DEF DecoderIInv

\* The results of a call that are forgotten with its tree, or with none made.
LEMMA NoCallTyped ==
    /\ NoCall \in Acars!LastCall
    /\ NoCall \in Miam!LastCall
    /\ NoMsg \in [err : BOOLEAN, reasm_status : Acars!Status, txt : Seq(Pieces)]
<1>1. At(0) \in Acars!Time /\ At(0) \in Miam!Time
  <2>1. 0 \in 0 .. Acars!USEC_PER_SEC - 1 /\ 0 \in 0 .. Miam!USEC_PER_SEC - 1
    <3>1. /\ Acars!USEC_PER_SEC \in Nat /\ Acars!USEC_PER_SEC > 0
          /\ Miam!USEC_PER_SEC \in Nat /\ Miam!USEC_PER_SEC > 0
      BY SMT DEF Acars!USEC_PER_SEC, Miam!USEC_PER_SEC
    <3> QED
      BY <3>1
  <2> QED
    BY <2>1 DEF At, Acars!Time, Miam!Time
<1>2. "UNKNOWN" \in Acars!Status /\ "UNKNOWN" \in Miam!Status
  BY DEF Acars!Status, Miam!Status
<1>3. 0 \in Int /\ <<>> \in Seq(Pieces) /\ <<>> \in Seq(FrameTexts) /\ FALSE \in BOOLEAN
  OBVIOUS
<1> QED
  BY <1>1, <1>2, <1>3 DEF NoCall, NoMsg, Acars!LastCall, Miam!LastCall

\* The parts of the type of a state, and what is known in the middle of a call.
LEMMA StateFacts ==
    ASSUME DecoderIInv
    PROVE  /\ Acars!TypeOK
           /\ Miam!TypeOK
           /\ rtables \in {<<>>, <<"acars">>, <<"acars", "miam">>}
           /\ config \in [decode_fragments : BOOLEAN, acars_bearer : Bearers]
           /\ block \in Pieces \cup {NULL}
           /\ msg \in [err : BOOLEAN, reasm_status : Acars!Status, txt : Seq(Pieces)]
           /\ decoded \subseteq Seq(Pieces)
           /\ pc # "idle" => /\ block \in Pieces
                             /\ block.frame \in Frames
                             /\ block.part \in 1 .. Blocks[block.frame]
                             /\ block = Piece(block.frame, block.part)
                             /\ MsgKey[block.frame] \in MsgKeys
                             /\ FileOf[block.frame] \in Files
                             /\ OnAir(FileOf[block.frame])
<1>1. TypeOK /\ CallSound
  BY DEF DecoderIInv
<1> QED
  BY <1>1, PieceFacts, FrameFacts DEF TypeOK, CallSound

\* A block that is given up, or has no text.
LEMMA GivenUpSound ==
    ASSUME DecoderIInv, NEW b \in Pieces, OnAir(FileOf[b.frame]),
           RejectBlock(b) \/ EmptyUplink(b), UNCHANGED linkVars
    PROVE  DecoderIInv'
<1>1. /\ pc = "idle"
      /\ block' = b
      /\ pc' = "done"
      /\ UNCHANGED <<acarsVars, miamVars, rtables, config, decoded>>
      /\ msg' \in {[NoMsg EXCEPT !.err = TRUE], [NoMsg EXCEPT !.reasm_status = "SKIPPED"]}
  BY DEF RejectBlock, EmptyUplink
<1>2. /\ acars_table' = acars_table /\ acars_cnt' = acars_cnt /\ acars_last' = acars_last
      /\ miam_table' = miam_table /\ miam_cnt' = miam_cnt /\ miam_last' = miam_last
      /\ rtables' = rtables /\ config' = config /\ decoded' = decoded
      /\ now' = now /\ sent_at' = sent_at /\ next_part' = next_part
  BY <1>1 DEF acarsVars, miamVars, linkVars
<1>3. msg' \in [err : BOOLEAN, reasm_status : Acars!Status, txt : Seq(Pieces)]
  <2>1. "SKIPPED" \in Acars!Status
    BY DEF Acars!Status
  <2> QED
    BY <1>1, <2>1, NoCallTyped
<1>4. Acars!TypeOK' /\ Miam!TypeOK'
  BY <1>2, StateFacts, TablesTyped
<1> QED
  BY <1>1, <1>2, <1>3, <1>4, StateFacts, QuietSound

\* A call that comes to its end.
LEMMA EndSound ==
    ASSUME DecoderIInv, WithholdText \/ OtherText \/ SegmentOnly, UNCHANGED linkVars
    PROVE  DecoderIInv'
<1>1. /\ pc \in {"apps", "segment"}
      /\ pc' = "done"
      /\ UNCHANGED <<acarsVars, miamVars, rtables, config, block, msg, decoded>>
  BY DEF WithholdText, OtherText, SegmentOnly
<1>2. /\ acars_table' = acars_table /\ acars_cnt' = acars_cnt /\ acars_last' = acars_last
      /\ miam_table' = miam_table /\ miam_cnt' = miam_cnt /\ miam_last' = miam_last
      /\ rtables' = rtables /\ config' = config /\ decoded' = decoded
      /\ block' = block /\ msg' = msg
      /\ now' = now /\ sent_at' = sent_at /\ next_part' = next_part
  BY <1>1 DEF acarsVars, miamVars, linkVars
<1>3. Acars!TypeOK' /\ Miam!TypeOK'
  BY <1>2, StateFacts, TablesTyped
<1> QED
  BY <1>1, <1>2, <1>3, StateFacts, QuietSound

\* The tree of a call is destroyed.
LEMMA DestroySound ==
    ASSUME DecoderIInv, TreeDestroy, UNCHANGED linkVars
    PROVE  DecoderIInv'
<1>1. /\ pc = "done"
      /\ pc' = "idle"
      /\ block' = NULL
      /\ msg' = NoMsg
      /\ acars_last' = NoCall /\ miam_last' = NoCall
      /\ acars_table' = acars_table /\ acars_cnt' = acars_cnt
      /\ miam_table' = miam_table /\ miam_cnt' = miam_cnt
      /\ rtables' = rtables /\ config' = config /\ decoded' = decoded
      /\ now' = now /\ sent_at' = sent_at /\ next_part' = next_part
  BY DEF TreeDestroy, linkVars
<1>2. Acars!TypeOK' /\ Miam!TypeOK'
  BY <1>1, StateFacts, NoCallTyped DEF Acars!TypeOK, Miam!TypeOK
<1>3. msg' \in [err : BOOLEAN, reasm_status : Acars!Status, txt : Seq(Pieces)]
  BY <1>1, NoCallTyped
<1> QED
  BY <1>1, <1>2, <1>3, StateFacts, QuietSound

\* The application sets options, or starts over.
LEMMA ApplicationSound ==
    ASSUME DecoderIInv, Configure \/ ContextDestroy
    PROVE  DecoderIInv'
<1>1. CASE Configure
  <2>1. /\ pc = "idle"
        /\ config' \in [decode_fragments : DecodeFragments, acars_bearer : Bearers]
        /\ acars_table' = acars_table /\ acars_cnt' = acars_cnt /\ acars_last' = acars_last
        /\ miam_table' = miam_table /\ miam_cnt' = miam_cnt /\ miam_last' = miam_last
        /\ rtables' = rtables /\ pc' = pc /\ decoded' = decoded
        /\ block' = block /\ msg' = msg
        /\ now' = now /\ sent_at' = sent_at /\ next_part' = next_part
    BY <1>1 DEF Configure, acarsVars, miamVars, linkVars
  <2>2. config' \in [decode_fragments : BOOLEAN, acars_bearer : Bearers]
    BY <2>1, OptionsAssumption
  <2>3. Acars!TypeOK' /\ Miam!TypeOK'
    BY <2>1, StateFacts, TablesTyped
  <2> QED
    BY <2>1, <2>2, <2>3, StateFacts, QuietSound
<1>2. CASE ContextDestroy
  <2>1. /\ pc = "idle"
        /\ rtables' = <<>>
        /\ acars_table' = [k \in MsgKeys |-> NULL] /\ acars_cnt' = 0
        /\ miam_table' = [id \in FileIds |-> NULL] /\ miam_cnt' = 0
        /\ acars_last' = acars_last /\ miam_last' = miam_last
        /\ config' = config /\ pc' = pc /\ decoded' = decoded
        /\ block' = block /\ msg' = msg
        /\ now' = now /\ sent_at' = sent_at /\ next_part' = next_part
    BY <1>2 DEF ContextDestroy, linkVars
  <2>2. Acars!TypeOK' /\ Miam!TypeOK'
    BY <2>1, StateFacts, OptionsAssumption DEF Acars!TypeOK, Miam!TypeOK
  <2> QED
    BY <2>1, <2>2, StateFacts, QuietSound
<1> QED
  BY <1>1, <1>2

-----------------------------------------------------------------------------
(***************************************************************************)
(* A block is parsed, and the text of its message taken.                   *)
(***************************************************************************)

\* What la_reasm_fragment_add leaves of the messages, and what it says of the
\* first block of a downlink.
LEMMA ParsedEntries ==
    ASSUME DecoderIInv, pc = "idle", NEW b \in Pieces, Acars!FragmentAdd(AcarsInfo(b))
    PROVE  LET status == acars_last'.status
           IN  /\ Acars!TypeOK'
               /\ status \in Acars!Status
               /\ \A k \in MsgKeys : acars_table'[k] # NULL =>
                     IF status = "COMPLETE" /\ k = MsgKey[b.frame]
                     THEN /\ acars_table'[k].frags_collected_total_len >= 1
                          /\ \E first \in 1 .. Blocks[b.frame] :
                                /\ RunOf(acars_table'[k], b.frame, first)
                                /\ Reach(acars_table'[k], first) = Blocks[b.frame]
                     ELSE GoesOn(k)'
               /\ status = "COMPLETE" => b.part = Blocks[b.frame]
               /\ /\ Down(b.frame)
                  /\ config.acars_bearer \in DOMAIN Profile
                  /\ b.part = 1
                  /\ status \notin {"IN_PROGRESS", "DUPLICATE"}
                  => b.part = Blocks[b.frame]
<1> DEFINE f      == AcarsInfo(b)
           fr     == b.frame
           key    == MsgKey[fr]
           s      == acars_table[key]
           next   == acars_table'[key]
           status == acars_last'.status
<1>1. Acars!TypeOK /\ now \in Nat /\ ConfigTyped
  BY StateFacts, ClockFacts
<1>2. /\ f \in AcarsInfos
      /\ f.msg_info = key
      /\ key \in MsgKeys
      /\ f.msg_data = b
      /\ f.total_pdu_len = 0
      /\ f.total_fragment_cnt = 0
      /\ f.seq_num = SeqNum(Header[fr][b.part])
      /\ f.seq_num_first = IF Down(fr) THEN 0 ELSE -1
      /\ f.seq_num_wrap = IF Down(fr) THEN -1 ELSE 23
      /\ f.is_final_fragment = (b.part = Blocks[fr])
      /\ f.out_of_order = FALSE
      /\ f.reasm_timeout = ReasmTimeout(Down(fr))
  BY <1>1, AcarsInfoFacts
<1>3. fr \in Frames /\ b.part \in 1 .. Blocks[fr] /\ b = Piece(fr, b.part) /\ Blocks[fr] \in Nat
  BY PieceFacts, FrameFacts
<1>4. Acars!FragmentAdd(f)
  OBVIOUS
<1> HIDE DEF f, key, s, next, status
<1>5. /\ Acars!TypeOK'
      /\ status \in Acars!Status
      /\ \A k \in MsgKeys \ {key} : acars_table'[k] \in {acars_table[k], NULL}
      /\ \/ /\ Acars!ArgsInvalid(f)
            /\ status = "ARGS_INVALID"
            /\ acars_table' = acars_table
         \/ ~Acars!ArgsInvalid(f) /\ AcarsEngine!InOrderOutcome(f)
  <2>1. ~f.out_of_order
    BY <1>2
  <2> QED
    BY <1>1, <1>2, <1>4, <2>1, AcarsCall DEF status
<1>6. \A k \in MsgKeys : acars_table[k] # NULL => GoesOn(k)
  BY DEF DecoderIInv, AcarsEntries, Completing
<1>7. \A k \in MsgKeys : acars_table'[k] # NULL /\ acars_table'[k] = acars_table[k] => GoesOn(k)'
  BY <1>6 DEF GoesOn
<1>8. ASSUME NEW k \in MsgKeys, k # key, acars_table'[k] # NULL  PROVE GoesOn(k)'
  BY <1>5, <1>7, <1>8
<1>9. ASSUME Down(fr), s # NULL, b.part = 1
      PROVE  AcarsEngine!IsDuplicate(s, f)
  <2>1. s \in Acars!TableEntry /\ GoesOn(key)
    BY <1>1, <1>2, <1>6, <1>9 DEF Acars!TypeOK, s
  <2>2. PICK g \in Frames : \E first \in 1 .. Blocks[g] : MsgKey[g] = key /\ RunOf(s, g, first)
    BY <2>1 DEF GoesOn, s
  <2>3. PICK first \in 1 .. Blocks[g] : MsgKey[g] = key /\ RunOf(s, g, first)
    BY <2>2
  <2> DEFINE m == Reach(s, first)
  <2>4. m \in 1 .. Blocks[g] /\ s.prev_seq_num = SeqNum(Header[g][m])
    <3>1. s.fragment_list \in Seq(Acars!Fragment)
      BY <2>1 DEF Acars!TableEntry
    <3>2. Len(s.fragment_list) \in Nat
      BY <3>1
    <3>3. /\ Blocks[g] \in Nat
          /\ first \in 1 .. Blocks[g]
          /\ Len(s.fragment_list) >= 1
          /\ m <= Blocks[g]
          /\ s.prev_seq_num = SeqNum(Header[g][m])
      BY <2>3, FrameFacts DEF RunOf
    <3> QED
      BY <3>2, <3>3 DEF Reach
  <2>5. s.prev_seq_num \in Nat
    <3> HIDE DEF m
    <3> QED
      BY <2>4, NumberFacts
  <2>6. f.seq_num = 0
    BY <1>2, <1>3, <1>9, NumberFacts
  <2>7. f.seq_num_wrap = -1
    BY <1>2, <1>9
  <2>8. AcarsEngine!PrevSeqNum(s, f) = s.prev_seq_num
    BY <2>7 DEF AcarsEngine!PrevSeqNum, AcarsEngine!SEQ_WRAP_NONE
  <2> QED
    BY <1>2, <2>5, <2>6, <2>7, <2>8 DEF AcarsEngine!IsDuplicate, AcarsEngine!SEQ_WRAP_NONE
<1>10. ASSUME Acars!ArgsInvalid(f)  PROVE config.acars_bearer \notin DOMAIN Profile
  <2>1. f.msg_info # NULL /\ f.reasm_timeout = Acars!ZeroTime
    <3>1. f.msg_info # NULL
      BY <1>2, OptionsAssumption
    <3> QED
      BY <1>2, <1>10, <3>1 DEF Acars!ArgsInvalid
  <2>2. ASSUME config.acars_bearer \in DOMAIN Profile
        PROVE  FALSE
    <3>1. Profile[config.acars_bearer] \in [downlink : Nat \ {0}, uplink : Nat \ {0}]
      BY <2>2, OptionsAssumption
    <3>2. /\ Profile[config.acars_bearer].downlink \in Nat \ {0}
          /\ Profile[config.acars_bearer].uplink \in Nat \ {0}
      BY <3>1
    <3>3. \/ f.reasm_timeout = At(Profile[config.acars_bearer]["downlink"])
          \/ f.reasm_timeout = At(Profile[config.acars_bearer]["uplink"])
      BY <1>2, <2>2 DEF ReasmTimeout
    <3>4. \A t : At(t) = Acars!ZeroTime => t = 0
      BY DEF At, Acars!ZeroTime
    <3> QED
      BY <2>1, <3>2, <3>3, <3>4
  <2> QED
    BY <2>2
<1>11. CASE Acars!ArgsInvalid(f)
  <2>1. status = "ARGS_INVALID" /\ acars_table' = acars_table
    BY <1>5, <1>11
  <2> QED
    BY <1>5, <1>7, <1>10, <1>11, <2>1 DEF status
<1>12. CASE ~Acars!ArgsInvalid(f)
  <2>1. \/ status = "SKIPPED" /\ AcarsEngine!Unfragmented(f) /\ next = NULL
        \/ /\ status = "FRAG_OUT_OF_SEQUENCE"
           /\ \/ AcarsEngine!NotFirst(f)
              \/ s # NULL /\ ~AcarsEngine!IsDuplicate(s, f) /\ ~AcarsEngine!InSequence(s, f)
           /\ next = NULL
        \/ status = "DUPLICATE" /\ s # NULL /\ next \in {s, NULL}
        \/ \E e \in AcarsEngine!TableEntry :
              /\ AcarsEngine!MakesEntry(f, e)
              /\ next \in {e, NULL}
              /\ status = IF AcarsEngine!IsComplete(e, f.is_final_fragment)
                          THEN "COMPLETE" ELSE "IN_PROGRESS"
    BY <1>2, <1>5, <1>12 DEF AcarsEngine!InOrderOutcome, s, next, status
  <2>2. CASE status = "SKIPPED" /\ AcarsEngine!Unfragmented(f) /\ next = NULL
    <3>1. b.part = Blocks[fr]
      BY <1>2, <2>2 DEF AcarsEngine!Unfragmented
    <3> QED
      BY <1>5, <1>8, <2>2, <3>1 DEF status, next, key
  <2>3. CASE /\ status = "FRAG_OUT_OF_SEQUENCE"
             /\ \/ AcarsEngine!NotFirst(f)
                \/ s # NULL /\ ~AcarsEngine!IsDuplicate(s, f) /\ ~AcarsEngine!InSequence(s, f)
             /\ next = NULL
    <3>1. ~(Down(fr) /\ b.part = 1)
      <4>1. ASSUME Down(fr), b.part = 1  PROVE FALSE
        <5>1. f.seq_num = 0 /\ f.seq_num_first = 0
          BY <1>2, <1>3, <4>1, NumberFacts
        <5>2. ~AcarsEngine!NotFirst(f)
          BY <5>1 DEF AcarsEngine!NotFirst
        <5> QED
          BY <1>9, <2>3, <4>1, <5>2
      <4> QED
        BY <4>1
    <3> QED
      BY <1>5, <1>8, <2>3, <3>1 DEF status, next, key
  <2>4. CASE status = "DUPLICATE" /\ s # NULL /\ next \in {s, NULL}
    <3>1. next # NULL => GoesOn(key)'
      BY <1>2, <1>7, <2>4 DEF next, s
    <3> QED
      BY <1>5, <1>8, <2>4, <3>1 DEF status, next, key
  <2>5. ASSUME NEW e \in AcarsEngine!TableEntry,
               AcarsEngine!MakesEntry(f, e),
               next \in {e, NULL},
               status = IF AcarsEngine!IsComplete(e, f.is_final_fragment)
                        THEN "COMPLETE" ELSE "IN_PROGRESS"
        PROVE  /\ next # NULL =>
                     IF status = "COMPLETE"
                     THEN /\ next.frags_collected_total_len >= 1
                          /\ \E first \in 1 .. Blocks[fr] :
                                RunOf(next, fr, first) /\ Reach(next, first) = Blocks[fr]
                     ELSE GoesOn(key)'
               /\ status \in {"COMPLETE", "IN_PROGRESS"}
               /\ status = "COMPLETE" => b.part = Blocks[fr]
    <3>1. e \in Acars!TableEntry
      BY <2>5, SameAcarsTypes
    <3>2. PICK first \in 1 .. Blocks[fr] : RunOf(e, fr, first) /\ Reach(e, first) = b.part
      <4>1. acars_table[key] # NULL => GoesOn(key)
        BY <1>2, <1>6
      <4> QED
        BY <1>1, <2>5, <3>1, <4>1, MadeEntry DEF f, fr, key
    <3>3. AcarsEngine!IsComplete(e, f.is_final_fragment) <=> b.part = Blocks[fr]
      <4>1. e.total_pdu_len = 0 /\ e.total_fragment_cnt = 0 /\ ~(0 > 0)
        BY <3>2 DEF RunOf
      <4>2. AcarsEngine!IsComplete(e, f.is_final_fragment) <=> f.is_final_fragment
        BY <4>1, Zenon DEF AcarsEngine!IsComplete
      <4> QED
        BY <1>2, <4>2, Zenon
    <3>4. e.frags_collected_total_len >= 1
      <4>1. PieceLen[f.msg_data] = 1
        BY <1>2 DEF PieceLen
      <4>2. CASE AcarsEngine!LongerBy(AcarsEngine!NewEntry(f), f, e)
        BY <4>1, <4>2 DEF AcarsEngine!LongerBy, AcarsEngine!NewEntry
      <4>3. CASE s # NULL /\ AcarsEngine!LongerBy(s, f, e)
        <5>1. s \in Acars!TableEntry
          BY <1>1, <1>2, <4>3 DEF Acars!TypeOK, s
        <5>2. s.frags_collected_total_len \in Nat
          BY <5>1 DEF Acars!TableEntry
        <5> QED
          BY <4>1, <4>3, <5>2 DEF AcarsEngine!LongerBy
      <4> QED
        BY <1>2, <2>5, <4>2, <4>3 DEF AcarsEngine!MakesEntry, s
    <3>5. CASE b.part = Blocks[fr]
      BY <2>5, <3>2, <3>3, <3>4, <3>5
    <3>6. CASE b.part # Blocks[fr]
      <4>1. b.part < Blocks[fr]
        BY <1>3, <3>6
      <4>2. ASSUME next # NULL  PROVE GoesOn(key)'
        <5>1. acars_table'[key] = e
          BY <2>5, <4>2 DEF next
        <5> QED
          BY <1>3, <3>2, <4>1, <5>1 DEF GoesOn, key
      <4> QED
        BY <2>5, <3>3, <3>6, <4>2
    <3> QED
      BY <3>5, <3>6
  <2>6. CASE \E e \in AcarsEngine!TableEntry :
              /\ AcarsEngine!MakesEntry(f, e)
              /\ next \in {e, NULL}
              /\ status = IF AcarsEngine!IsComplete(e, f.is_final_fragment)
                          THEN "COMPLETE" ELSE "IN_PROGRESS"
    <3>1. /\ next # NULL =>
                 IF status = "COMPLETE"
                 THEN /\ next.frags_collected_total_len >= 1
                      /\ \E first \in 1 .. Blocks[fr] :
                            RunOf(next, fr, first) /\ Reach(next, first) = Blocks[fr]
                 ELSE GoesOn(key)'
          /\ status \in {"COMPLETE", "IN_PROGRESS"}
          /\ status = "COMPLETE" => b.part = Blocks[fr]
      BY <2>5, <2>6
    <3> QED
      BY <1>5, <1>8, <3>1 DEF status, next, key
  <2> QED
    BY <2>1, <2>2, <2>3, <2>4, <2>6
<1> QED
  BY <1>11, <1>12

\* A block is parsed.
LEMMA ParseSound ==
    ASSUME DecoderIInv, NEW b \in Pieces, OnAir(FileOf[b.frame]), ParseBlock(b),
           now' = now, sent_at' = sent_at,
           next_part' \in [Files -> Nat],
           \A file \in Files : next_part'[file] \in 1 .. Len(Stream[file]) + 1
    PROVE  DecoderIInv'
<1>1. /\ pc = "idle"
      /\ block' = b
      /\ TableNew("acars")
      /\ Acars!FragmentAdd(AcarsInfo(b))
      /\ msg' = [NoMsg EXCEPT !.reasm_status = acars_last'.status]
      /\ pc' = "text"
      /\ miam_table' = miam_table /\ miam_cnt' = miam_cnt /\ miam_last' = miam_last
      /\ config' = config /\ decoded' = decoded
  BY DEF ParseBlock, miamVars
<1>2. /\ Acars!TypeOK'
      /\ acars_last'.status \in Acars!Status
      /\ \A k \in MsgKeys : acars_table'[k] # NULL =>
            IF acars_last'.status = "COMPLETE" /\ k = MsgKey[b.frame]
            THEN /\ acars_table'[k].frags_collected_total_len >= 1
                 /\ \E first \in 1 .. Blocks[b.frame] :
                       /\ RunOf(acars_table'[k], b.frame, first)
                       /\ Reach(acars_table'[k], first) = Blocks[b.frame]
            ELSE GoesOn(k)'
  BY <1>1, ParsedEntries
<1>3. msg' \in [err : BOOLEAN, reasm_status : Acars!Status, txt : Seq(Pieces)]
      /\ msg'.reasm_status = acars_last'.status
  BY <1>1, <1>2, NoCallTyped DEF NoMsg
<1>4. rtables' \in {<<"acars">>, <<"acars", "miam">>}
  <2>1. rtables \in {<<>>, <<"acars">>, <<"acars", "miam">>}
    BY StateFacts
  <2>2. CASE rtables = <<>>
    <3>1. Range(rtables) = {}
      BY <2>2 DEF Range
    <3>2. Append(<<>>, "acars") = <<"acars">>
      OBVIOUS
    <3> QED
      BY <1>1, <2>2, <3>1, <3>2, Zenon DEF TableNew
  <2>3. CASE rtables # <<>>
    <3>1. 1 \in DOMAIN rtables /\ rtables[1] = "acars"
      BY <2>1, <2>3
    <3>2. "acars" \in Range(rtables)
      BY <3>1 DEF Range
    <3> QED
      BY <1>1, <2>1, <2>3, <3>2 DEF TableNew
  <2> QED
    BY <2>2, <2>3
<1>5. SentBefore' /\ SentApart' /\ \A file \in Files : OnAir(file)' <=> OnAir(file)
  BY LinkKept DEF DecoderIInv
<1>6. TypeOK'
  <2>1. TypeOK
    BY DEF DecoderIInv
  <2>2. Miam!TypeOK'
    BY <1>1, StateFacts, TablesTyped
  <2>3. rtables' \in {<<>>, <<"acars">>, <<"acars", "miam">>}
    BY <1>4
  <2>4. block' \in Pieces \cup {NULL}
    BY <1>1
  <2> QED
    BY <1>1, <1>2, <1>3, <2>1, <2>2, <2>3, <2>4 DEF TypeOK
<1>7. CallSound'
  <2>1. FileOf[b.frame] \in Files
    BY PieceFacts, FrameFacts
  <2>2. OnAir(FileOf[block.frame])'
    BY <1>1, <1>5, <2>1 DEF OnAir, IsSent
  <2>3. rtables' # <<>>
    <3>1. <<"acars">> # <<>> /\ <<"acars", "miam">> # <<>>
      OBVIOUS
    <3> QED
      BY <1>4, <3>1, Zenon
  <2> QED
    BY <1>1, <2>2, <2>3 DEF CallSound
<1>8. AcarsEntries'
  BY <1>1, <1>2, <1>3 DEF AcarsEntries, Completing
<1>9. MiamEntries'
  <2>1. MiamEntries
    BY DEF DecoderIInv
  <2> QED
    BY <1>1, <2>1, MiamEntriesKept
<1>10. TextSound' /\ FileCompleteSound'
  BY <1>1 DEF TextSound, FileCompleteSound
<1> QED
  BY <1>5, <1>6, <1>7, <1>8, <1>9, <1>10 DEF DecoderIInv

\* The text of a block is part of that of its frame.
LEMMA OwnText ==
    ASSUME NEW b \in Pieces
    PROVE  /\ PartOf(<<Piece(b.frame, b.part)>>, b.frame)
           /\ <<Piece(b.frame, b.part)>> \in Seq(Pieces)
           /\ <<Piece(b.frame, b.part)>>[1] = b
           /\ Blocks[b.frame] = 1 => <<Piece(b.frame, b.part)>> = Text(b.frame)
<1> DEFINE fr == b.frame
           t  == Text(fr)
           s  == SubSeq(t, b.part, b.part)
<1>1. fr \in Frames /\ b.part \in 1 .. Blocks[fr] /\ b = Piece(fr, b.part)
  BY PieceFacts
<1>2. /\ Blocks[fr] \in Nat
      /\ t \in Seq(Pieces)
      /\ Len(t) = Blocks[fr]
      /\ \A i \in 1 .. Blocks[fr] : t[i] = Piece(fr, i)
  BY <1>1, FrameFacts
<1> HIDE DEF fr, t
<1>3. s = <<Piece(fr, b.part)>>
  <2>1. s \in Seq(Pieces) /\ Len(s) = 1 /\ s[1] = t[b.part]
    BY <1>1, <1>2
  <2> HIDE DEF s
  <2> QED
    BY <1>1, <1>2, <2>1
<1>4. PartOf(<<Piece(fr, b.part)>>, fr)
  <2>1. b.part <= b.part
    BY <1>1, <1>2
  <2> QED
    BY <1>1, <1>3, <2>1, Zenon DEF PartOf, s, t
<1>5. Blocks[fr] = 1 => <<Piece(fr, b.part)>> = t
  <2> SUFFICES ASSUME Blocks[fr] = 1  PROVE <<Piece(fr, b.part)>> = t
    OBVIOUS
  <2>1. b.part = 1 /\ t[1] = Piece(fr, 1)
    BY <1>1, <1>2
  <2> QED
    BY <1>2, <2>1
<1>6. <<Piece(fr, b.part)>> \in Seq(Pieces) /\ <<Piece(fr, b.part)>>[1] = b
  BY <1>1
<1> QED
  BY <1>4, <1>5, <1>6 DEF fr, t

\* The payloads of a run that ends with the last block of a frame.
LEMMA RunText ==
    ASSUME NEW fr \in Frames, NEW first \in 1 .. Blocks[fr], NEW e \in Acars!TableEntry,
           RunOf(e, fr, first), Reach(e, first) = Blocks[fr]
    PROVE  LET txt == Acars!PayloadsOf(e.fragment_list)
           IN  /\ txt \in Seq(Pieces)
               /\ txt = SubSeq(Text(fr), first, Blocks[fr])
               /\ PartOf(txt, fr)
               /\ txt[1] = Piece(fr, first)
               /\ first = 1 => txt = Text(fr)
<1> DEFINE list == e.fragment_list
           n    == Len(list)
           txt  == Acars!PayloadsOf(list)
           t    == Text(fr)
           s    == SubSeq(t, first, Blocks[fr])
<1>1. list \in Seq(Acars!Fragment) /\ n \in Nat /\ DOMAIN list = 1 .. n
  BY DEF Acars!TableEntry
<1>2. /\ Blocks[fr] \in Nat
      /\ t \in Seq(Pieces)
      /\ Len(t) = Blocks[fr]
      /\ \A i \in 1 .. Blocks[fr] : t[i] = Piece(fr, i) /\ Piece(fr, i) \in Pieces
  BY FrameFacts
<1>3. /\ n >= 1
      /\ first + n - 1 = Blocks[fr]
      /\ \A j \in 1 .. n : list[j].payload = Piece(fr, first + j - 1)
  BY DEF RunOf, Reach
<1>4. txt = [j \in 1 .. n |-> Piece(fr, first + j - 1)]
  BY <1>1, <1>3 DEF Acars!PayloadsOf
<1> HIDE DEF txt, t, list, n
<1>5. \A j \in 1 .. n : first + j - 1 \in 1 .. Blocks[fr]
  BY <1>1, <1>2, <1>3
<1>6. txt \in Seq(Pieces) /\ Len(txt) = n /\ \A j \in 1 .. n : txt[j] = Piece(fr, first + j - 1)
  BY <1>1, <1>2, <1>4, <1>5
<1>7. s \in Seq(Pieces) /\ Len(s) = n /\ \A j \in 1 .. n : s[j] = t[first + j - 1]
  BY <1>1, <1>2, <1>3
<1>8. txt = s
  <2> HIDE DEF s
  <2>1. \A j \in 1 .. n : txt[j] = s[j]
    BY <1>2, <1>5, <1>6, <1>7
  <2> QED
    BY <1>6, <1>7, <2>1, SeqEqual
<1>9. PartOf(txt, fr)
  <2>1. first <= Blocks[fr] /\ Blocks[fr] \in 1 .. Blocks[fr]
    BY <1>2
  <2> QED
    BY <1>8, <2>1 DEF PartOf, t
<1>10. txt[1] = Piece(fr, first)
  BY <1>1, <1>3, <1>6
<1>11. first = 1 => txt = t
  <2> SUFFICES ASSUME first = 1  PROVE txt = t
    OBVIOUS
  <2>1. n = Blocks[fr] /\ \A j \in 1 .. n : txt[j] = t[j]
    BY <1>1, <1>2, <1>3, <1>6
  <2> QED
    BY <1>2, <1>6, <2>1, SeqEqual
<1> QED
  BY <1>6, <1>8, <1>9, <1>10, <1>11 DEF txt, t, list

\* What fetching the message of a block gives.
LEMMA FetchedText ==
    ASSUME DecoderIInv, TakeReassembled
    PROVE  /\ PartOf(msg'.txt, block.frame)
           /\ msg' = [msg EXCEPT !.txt = msg'.txt]
           /\ msg'.txt \in Seq(Pieces)
           /\ Acars!TypeOK'
           /\ \A k \in MsgKeys : acars_table'[k] \in {acars_table[k], NULL}
           /\ acars_table'[MsgKey[block.frame]] = NULL
           /\ Down(block.frame) /\ Starts(msg'.txt) /\ block.part = Blocks[block.frame] =>
                  msg'.txt = Text(block.frame)
<1> DEFINE k == MsgKey[block.frame]
           e == acars_table[k]
           fr == block.frame
<1>1. /\ pc = "text"
      /\ msg.reasm_status = "COMPLETE"
      /\ Acars!PayloadGet(k)
      /\ msg' = [msg EXCEPT !.txt = IF acars_last'.status = "PAYLOAD" THEN acars_last'.payload
                                    ELSE <<Piece(block.frame, block.part)>>]
  BY DEF TakeReassembled
<1>2. /\ Acars!TypeOK
      /\ msg \in [err : BOOLEAN, reasm_status : Acars!Status, txt : Seq(Pieces)]
      /\ block \in Pieces /\ fr \in Frames /\ block.part \in 1 .. Blocks[fr] /\ k \in MsgKeys
  BY <1>1, StateFacts
<1>3. msg'.txt = IF acars_last'.status = "PAYLOAD" THEN acars_last'.payload
                 ELSE <<Piece(block.frame, block.part)>>
  BY <1>1, <1>2
<1>4. msg' = [msg EXCEPT !.txt = msg'.txt]
  BY <1>1, <1>3, Zenon
<1>5. \A l \in MsgKeys : acars_table[l] # NULL => acars_table[l] \in Acars!TableEntry
  BY <1>2 DEF Acars!TypeOK
<1>6. e # NULL =>
         /\ e.frags_collected_total_len >= 1
         /\ \E first \in 1 .. Blocks[fr] : RunOf(e, fr, first) /\ Reach(e, first) = Blocks[fr]
  BY <1>1, <1>2 DEF DecoderIInv, AcarsEntries, Completing
<1>7. Acars!ZeroTime \in Acars!Time
  <2>1. 0 \in 0 .. Acars!USEC_PER_SEC - 1
    <3>1. Acars!USEC_PER_SEC \in Nat /\ Acars!USEC_PER_SEC > 0
      BY SMT DEF Acars!USEC_PER_SEC
    <3> QED
      BY <3>1
  <2> QED
    BY <2>1 DEF Acars!ZeroTime, Acars!Time
<1>8. ASSUME NEW outcome \in Acars!GetOutcome, NEW payload \in Seq(Pieces),
             Acars!Got(k, outcome, payload)
      PROVE  acars_last' \in Acars!LastCall
  <2>1. acars_last' = [status |-> outcome, key |-> k, seq_num |-> 0,
                       rx_time |-> Acars!ZeroTime, payload |-> payload]
    BY <1>8 DEF Acars!Got
  <2> QED
    BY <1>2, <1>7, <2>1 DEF Acars!LastCall
<1> HIDE DEF e, k
<1>9. CASE e = NULL
  <2>1. /\ Acars!Got(k, "NOT_FOUND", <<>>)
        /\ acars_table' = acars_table
        /\ acars_cnt' = acars_cnt
    BY <1>1, <1>9 DEF Acars!PayloadGet, Acars!PayloadNotFound, Acars!PayloadEmpty,
                      Acars!PayloadTaken, e
  <2>2. acars_last'.status = "NOT_FOUND"
    BY <2>1 DEF Acars!Got
  <2>3. "NOT_FOUND" \in Acars!GetOutcome /\ <<>> \in Seq(Pieces)
    BY DEF Acars!GetOutcome
  <2>4. Acars!TypeOK'
    BY <1>2, <1>8, <2>1, <2>3 DEF Acars!TypeOK
  <2>5. msg'.txt = <<Piece(block.frame, block.part)>>
    BY <1>3, <2>2
  <2>6. /\ PartOf(msg'.txt, fr)
        /\ msg'.txt \in Seq(Pieces)
        /\ msg'.txt[1] = block
        /\ Blocks[fr] = 1 => msg'.txt = Text(fr)
    BY <1>2, <2>5, OwnText
  <2>7. Starts(msg'.txt) /\ block.part = Blocks[fr] => msg'.txt = Text(fr)
    BY <2>6 DEF Starts
  <2> QED
    BY <1>4, <1>9, <2>1, <2>4, <2>6, <2>7 DEF e, k
<1>10. CASE e # NULL
  <2>1. PICK first \in 1 .. Blocks[fr] : RunOf(e, fr, first) /\ Reach(e, first) = Blocks[fr]
    BY <1>6, <1>10
  <2>2. e.frags_collected_total_len >= 1 /\ e \in Acars!TableEntry
    BY <1>2, <1>5, <1>6, <1>10 DEF e
  <2>3. e.frags_collected_total_len \in Nat
    BY <2>2 DEF Acars!TableEntry
  <2>4. /\ Acars!Got(k, "PAYLOAD", Acars!PayloadsOf(e.fragment_list))
        /\ acars_table' = [acars_table EXCEPT ![k] = NULL]
        /\ acars_cnt' = acars_cnt
    <3>1. ~(e.frags_collected_total_len < 1)
      BY <2>2, <2>3
    <3> QED
      BY <1>1, <1>10, <3>1 DEF Acars!PayloadGet, Acars!PayloadNotFound, Acars!PayloadEmpty,
                        Acars!PayloadTaken, e
  <2> DEFINE txt == Acars!PayloadsOf(e.fragment_list)
  <2>5. /\ txt \in Seq(Pieces)
        /\ PartOf(txt, fr)
        /\ txt[1] = Piece(fr, first)
        /\ first = 1 => txt = Text(fr)
    BY <1>2, <2>1, <2>2, RunText
  <2> HIDE DEF txt
  <2>6. acars_last'.status = "PAYLOAD" /\ acars_last'.payload = txt
    BY <2>4 DEF Acars!Got, txt
  <2>7. msg'.txt = txt
    BY <1>3, <2>6
  <2>8. /\ acars_table'[k] = NULL
        /\ \A l \in MsgKeys : acars_table'[l] \in {acars_table[l], NULL}
        /\ acars_table' \in [MsgKeys -> Acars!TableEntry \cup {NULL}]
    BY <1>2, <2>4 DEF Acars!TypeOK
  <2>9. Acars!TypeOK'
    <3>1. "PAYLOAD" \in Acars!GetOutcome
      BY DEF Acars!GetOutcome
    <3> QED
      BY <1>2, <1>8, <2>4, <2>5, <2>8, <3>1 DEF Acars!TypeOK, txt
  <2>10. Down(fr) => first = 1
    BY <2>1 DEF RunOf
  <2> QED
    BY <1>4, <2>5, <2>7, <2>8, <2>9, <2>10 DEF k
<1> QED
  BY <1>9, <1>10

\* The text to pass on is chosen.
LEMMA TakeSound ==
    ASSUME DecoderIInv, TakeReassembled \/ TakeOwnText, UNCHANGED linkVars
    PROVE  DecoderIInv'
<1>1. /\ pc = "text"
      /\ pc' = "apps"
      /\ miam_table' = miam_table /\ miam_cnt' = miam_cnt /\ miam_last' = miam_last
      /\ rtables' = rtables /\ config' = config /\ block' = block /\ decoded' = decoded
      /\ now' = now /\ sent_at' = sent_at /\ next_part' = next_part
  BY DEF TakeReassembled, TakeOwnText, miamVars, linkVars
<1>2. /\ block \in Pieces
      /\ msg \in [err : BOOLEAN, reasm_status : Acars!Status, txt : Seq(Pieces)]
      /\ Acars!TypeOK
      /\ Miam!TypeOK
      /\ AcarsEntries
      /\ MiamEntries
      /\ CallSound
      /\ TypeOK
  BY <1>1, StateFacts DEF DecoderIInv
<1>3. /\ PartOf(msg'.txt, block.frame)
      /\ msg' \in [err : BOOLEAN, reasm_status : Acars!Status, txt : Seq(Pieces)]
      /\ Acars!TypeOK'
      /\ \A k \in MsgKeys : acars_table'[k] \in {acars_table[k], NULL}
      /\ Completing(MsgKey[block.frame]) => acars_table'[MsgKey[block.frame]] = NULL
  <2>1. CASE TakeReassembled
    <3>1. /\ PartOf(msg'.txt, block.frame)
          /\ msg' = [msg EXCEPT !.txt = msg'.txt]
          /\ msg'.txt \in Seq(Pieces)
          /\ Acars!TypeOK'
          /\ \A k \in MsgKeys : acars_table'[k] \in {acars_table[k], NULL}
          /\ acars_table'[MsgKey[block.frame]] = NULL
      BY <2>1, FetchedText
    <3>2. msg' \in [err : BOOLEAN, reasm_status : Acars!Status, txt : Seq(Pieces)]
      BY <1>2, <3>1
    <3> QED
      BY <3>1, <3>2
  <2>2. CASE TakeOwnText
    <3>1. /\ msg.reasm_status # "COMPLETE"
          /\ msg' = [msg EXCEPT !.txt = <<Piece(block.frame, block.part)>>]
          /\ acars_table' = acars_table /\ acars_cnt' = acars_cnt /\ acars_last' = acars_last
      BY <2>2 DEF TakeOwnText, acarsVars
    <3>2. /\ PartOf(<<Piece(block.frame, block.part)>>, block.frame)
          /\ <<Piece(block.frame, block.part)>> \in Seq(Pieces)
      BY <1>2, OwnText
    <3>3. msg'.txt = <<Piece(block.frame, block.part)>>
      BY <1>2, <3>1
    <3>4. msg' \in [err : BOOLEAN, reasm_status : Acars!Status, txt : Seq(Pieces)]
      BY <1>2, <3>1, <3>2
    <3>5. Acars!TypeOK'
      BY <1>2, <3>1, TablesTyped
    <3> QED
      BY <3>1, <3>2, <3>3, <3>4, <3>5 DEF Completing
  <2> QED
    BY <2>1, <2>2
<1>4. SentBefore' /\ SentApart' /\ \A file \in Files : OnAir(file)' <=> OnAir(file)
  BY <1>1, LinkKept DEF DecoderIInv
<1>5. TypeOK'
  <2>1. Miam!TypeOK'
    BY <1>1, <1>2, TablesTyped
  <2> QED
    BY <1>1, <1>2, <1>3, <2>1 DEF TypeOK
<1>6. CallSound'
  <2>1. FileOf[block.frame] \in Files
    BY <1>2, PieceFacts, FrameFacts
  <2> QED
    BY <1>1, <1>2, <1>4, <2>1 DEF CallSound, OnAir, IsSent
<1>7. AcarsEntries'
  <2> SUFFICES ASSUME NEW k \in MsgKeys, acars_table'[k] # NULL  PROVE GoesOn(k)'
    BY <1>1 DEF AcarsEntries, Completing
  <2>1. acars_table'[k] = acars_table[k] /\ ~Completing(k)
    BY <1>3 DEF Completing
  <2>2. GoesOn(k)
    BY <1>2, <2>1 DEF AcarsEntries
  <2> QED
    BY <2>1, <2>2 DEF GoesOn
<1>8. MiamEntries'
  BY <1>1, <1>2, MiamEntriesKept
<1>9. TextSound' /\ FileCompleteSound'
  BY <1>1, <1>3 DEF TextSound, FileCompleteSound
<1> QED
  BY <1>4, <1>5, <1>6, <1>7, <1>8, <1>9 DEF DecoderIInv

-----------------------------------------------------------------------------
(***************************************************************************)
(* The text of a frame is passed to miam.c.                                *)
(***************************************************************************)

\* The beginnings of texts are what miam.c stores.
LEMMA Beginning ==
    ASSUME NEW fr \in Frames, NEW n \in 0 .. Blocks[fr]
    PROVE  LET t == SubSeq(Text(fr), 1, n)
           IN  /\ t \in FrameTexts
               /\ t \in Seq(Pieces)
               /\ Len(t) = n
               /\ TextLen[t] = n
               /\ n = Blocks[fr] => t = Text(fr)
               /\ n = 0 => t = <<>>
               /\ n >= 1 => t[1] = Piece(fr, 1)
<1> DEFINE t == SubSeq(Text(fr), 1, n)
<1>1. /\ Blocks[fr] \in Nat
      /\ Text(fr) \in Seq(Pieces)
      /\ Len(Text(fr)) = Blocks[fr]
      /\ \A i \in 1 .. Blocks[fr] : Text(fr)[i] = Piece(fr, i)
  BY FrameFacts
<1>2. t \in FrameTexts
  BY DEF FrameTexts
<1>3. t \in Seq(Pieces) /\ Len(t) = n /\ (n >= 1 => t[1] = Text(fr)[1])
  BY <1>1
<1>4. TextLen[t] = n
  BY <1>2, <1>3 DEF TextLen
<1>5. n = Blocks[fr] => t = Text(fr)
  BY <1>1
<1>6. n = 0 => t = <<>>
  BY <1>1
<1>7. n >= 1 => t[1] = Piece(fr, 1)
  BY <1>1, <1>3
<1> HIDE DEF t
<1> QED
  BY <1>2, <1>3, <1>4, <1>5, <1>6, <1>7 DEF t

\* What is passed on of a frame: nothing of a request, of a segment a beginning.
PassedOn(fr, txt) ==
    \/ SegmentId[fr] = 0 /\ txt = <<>>
    \/ SegmentId[fr] # 0 /\ \E n \in 1 .. Blocks[fr] : txt = SubSeq(Text(fr), 1, n)

\* What miam.c passes to la_reasm_fragment_add.
LEMMA MiamInfoFacts ==
    ASSUME NEW fr \in Frames, NEW txt, PassedOn(fr, txt), now \in Nat
    PROVE  LET f == MiamInfo(fr, txt)
           IN  /\ f \in MiamInfos
               /\ ~Miam!ArgsInvalid(f)
               /\ f.msg_info = FileId[FileOf[fr]]
               /\ f.msg_info \in FileIds
               /\ f.msg_data = txt
               /\ txt \in FrameTexts
               /\ SegmentId[fr] = 0 => f.total_pdu_len = FileSize(FileOf[fr])
               /\ SegmentId[fr] # 0 => f.total_pdu_len = 0
               /\ FileSize(FileOf[fr]) \in Nat
               /\ f.total_fragment_cnt = 0
               /\ f.rx_time = At(now)
               /\ f.reasm_timeout = At(MiamTimeout)
               /\ f.seq_num = SegmentId[fr]
               /\ SegmentId[fr] \in Nat
               /\ f.seq_num_first = 0
               /\ f.seq_num_wrap = -1
               /\ f.is_final_fragment = FALSE
               /\ f.out_of_order = FALSE
<1> DEFINE f  == MiamInfo(fr, txt)
           id == FileId[FileOf[fr]]
<1>1. SegmentId[fr] \in Nat /\ FileOf[fr] \in Files /\ id \in FileIds /\ Blocks[fr] \in Nat \ {0}
  BY FilesAssumption, FrameFacts
<1>2. FrameKind[fr] = "request" <=> SegmentId[fr] = 0
  BY FilesAssumption
<1>3. FileSize(FileOf[fr]) \in Nat
  <2>1. FileText[FileOf[fr]] \in Seq(Pieces)
    BY <1>1, LenUpToFacts
  <2> QED
    BY <2>1 DEF FileSize
<1>4. txt \in FrameTexts
  <2>1. CASE txt = <<>>
    <3>1. 0 \in 0 .. Blocks[fr]
      BY <1>1
    <3> QED
      BY <2>1, <3>1, Beginning
  <2>2. ASSUME NEW n \in 1 .. Blocks[fr], txt = SubSeq(Text(fr), 1, n)  PROVE txt \in FrameTexts
    <3>1. n \in 0 .. Blocks[fr]
      BY <1>1
    <3>2. SubSeq(Text(fr), 1, n) \in FrameTexts
      BY <3>1, Beginning
    <3> QED
      BY <2>2, <3>2
  <2> QED
    BY <2>1, <2>2 DEF PassedOn
<1>5. /\ f.msg_info = id
      /\ f.msg_data = txt
      /\ f.total_fragment_cnt = 0
      /\ f.rx_time = At(now)
      /\ f.reasm_timeout = At(MiamTimeout)
      /\ f.seq_num = SegmentId[fr]
      /\ f.seq_num_first = 0
      /\ f.seq_num_wrap = -1
      /\ f.is_final_fragment = FALSE
      /\ f.out_of_order = FALSE
  BY DEF MiamInfo
<1>6. /\ SegmentId[fr] = 0 => f.total_pdu_len = FileSize(FileOf[fr])
      /\ SegmentId[fr] # 0 => f.total_pdu_len = 0
  <2>1. f.total_pdu_len = IF FrameKind[fr] = "request" THEN FileSize(FileOf[fr]) ELSE 0
    BY DEF MiamInfo
  <2> HIDE DEF f
  <2> QED
    BY <1>2, <2>1
<1>7. f = [msg_info           |-> f.msg_info,
           msg_data           |-> f.msg_data,
           total_pdu_len      |-> f.total_pdu_len,
           total_fragment_cnt |-> f.total_fragment_cnt,
           rx_time            |-> f.rx_time,
           reasm_timeout      |-> f.reasm_timeout,
           seq_num            |-> f.seq_num,
           seq_num_first      |-> f.seq_num_first,
           seq_num_wrap       |-> f.seq_num_wrap,
           is_final_fragment  |-> f.is_final_fragment,
           out_of_order       |-> f.out_of_order]
  BY DEF MiamInfo
<1> HIDE DEF f
<1>8. \A t \in Nat : At(t) \in Miam!Time
  <2>1. Miam!USEC_PER_SEC \in Nat /\ Miam!USEC_PER_SEC > 0
    BY SMT DEF Miam!USEC_PER_SEC
  <2>2. 0 \in 0 .. Miam!USEC_PER_SEC - 1
    BY <2>1
  <2> QED
    BY <2>2 DEF At, Miam!Time
<1>9. f \in Miam!FragmentInfo
  <2>1. f.rx_time \in Miam!Time /\ f.reasm_timeout \in Miam!Time
    BY <1>5, <1>8, OptionsAssumption
  <2>2. f.total_pdu_len \in Int /\ f.total_fragment_cnt \in Int
    BY <1>3, <1>5, <1>6
  <2>3. f.seq_num \in Int /\ f.seq_num_first \in Int /\ f.seq_num_wrap \in Int
    BY <1>1, <1>5
  <2>4. f.is_final_fragment \in BOOLEAN /\ f.out_of_order \in BOOLEAN
    BY <1>5
  <2>5. f.msg_info \in FileIds \cup {NULL} /\ f.msg_data \in FrameTexts
    BY <1>1, <1>4, <1>5
  <2> QED
    BY <1>7, <2>1, <2>2, <2>3, <2>4, <2>5 DEF Miam!FragmentInfo
<1>10. ~Miam!ArgsInvalid(f)
  <2>1. f.msg_info # NULL
    BY <1>1, <1>5, OptionsAssumption
  <2>2. f.reasm_timeout # Miam!ZeroTime
    <3>1. At(MiamTimeout) = Miam!ZeroTime => MiamTimeout = 0
      BY DEF At, Miam!ZeroTime
    <3> QED
      BY <1>5, <3>1, OptionsAssumption
  <2> QED
    BY <1>5, <2>1, <2>2 DEF Miam!ArgsInvalid
<1>11. Miam!FollowsProtocol(f)
  <2>1. /\ f.out_of_order = MiamProtocol[f.msg_info].out_of_order
        /\ f.seq_num_first = MiamProtocol[f.msg_info].seq_num_first
        /\ f.seq_num_wrap = MiamProtocol[f.msg_info].seq_num_wrap
    BY <1>1, <1>5 DEF MiamProtocol
  <2>2. f.seq_num >= 0 /\ f.seq_num >= f.seq_num_first
    BY <1>1, <1>5
  <2> QED
    BY <2>1, <2>2, Zenon DEF Miam!FollowsProtocol
<1>12. f \in MiamInfos
  BY <1>9, <1>11 DEF MiamInfos
<1> QED
  BY <1>1, <1>3, <1>4, <1>5, <1>6, <1>10, <1>12 DEF f, id

\* When an entry of miam.c has timed out.
LEMMA MiamExpired ==
    ASSUME NEW e \in Miam!TableEntry, NEW t \in Nat, NEW n \in Nat,
           e.first_frag_rx_time = At(t), e.reasm_timeout = At(MiamTimeout)
    PROVE  MiamEngine!Expired(e, At(n)) <=> n > t + MiamTimeout
<1>1. MiamTimeout \in Nat \ {0}
  BY OptionsAssumption
<1>2. /\ At(n).tv_sec = n /\ At(n).tv_usec = 0
      /\ At(t).tv_sec = t /\ At(t).tv_usec = 0
      /\ At(MiamTimeout).tv_sec = MiamTimeout /\ At(MiamTimeout).tv_usec = 0
  BY DEF At
<1>3. At(MiamTimeout) # MiamEngine!ZeroTime
  <2>1. MiamEngine!ZeroTime.tv_sec = 0
    BY DEF MiamEngine!ZeroTime
  <2> QED
    BY <1>1, <1>2, <2>1
<1>4. MiamEngine!Deadline(At(t), At(MiamTimeout)) = At(t + MiamTimeout)
  <2>1. MiamEngine!USEC_CARRY \in Nat
    BY SMT DEF MiamEngine!USEC_CARRY
  <2>2. ~(0 + 0 > MiamEngine!USEC_CARRY)
    BY <2>1
  <2> QED
    BY <1>2, <2>2 DEF MiamEngine!Deadline, At
<1>5. MiamEngine!After(At(n), At(t + MiamTimeout)) <=> n > t + MiamTimeout
  BY <1>1 DEF MiamEngine!After, At
<1> QED
  BY <1>3, <1>4, <1>5 DEF MiamEngine!Expired, MiamEngine!TimedOut

\* The entry that miam.c makes for what is passed on of a frame on the air: it
\* is of the frame's own file, and holds no more than the beginnings of its
\* first segments.
LEMMA MiamEntryMade ==
    ASSUME DecoderIInv, NEW fr \in Frames, OnAir(FileOf[fr]), NEW txt, PassedOn(fr, txt),
           NEW e \in Miam!TableEntry, MiamEngine!MakesEntry(MiamInfo(fr, txt), e)
    PROVE  LET file == FileOf[fr]
           IN  IsSent(file) /\ BegunBy(e, file) /\ HoldsFile(e, file)
<1> DEFINE f    == MiamInfo(fr, txt)
           file == FileOf[fr]
           id   == FileId[file]
           s    == miam_table[id]
           x    == [seq_num |-> f.seq_num, payload |-> f.msg_data]
<1>1. /\ now \in Nat
      /\ now \in 0 .. MaxTime
      /\ Lifetime \in Nat
      /\ MiamTimeout \in Nat \ {0}
      /\ \A g \in Files : IsSent(g) => sent_at[g] \in Nat /\ sent_at[g] <= now
  BY ClockFacts
<1>2. /\ f.msg_info = id
      /\ id \in FileIds
      /\ f.msg_data = txt
      /\ SegmentId[fr] = 0 => f.total_pdu_len = FileSize(file)
      /\ FileSize(file) \in Nat
      /\ f.total_fragment_cnt = 0
      /\ f.rx_time = At(now)
      /\ f.reasm_timeout = At(MiamTimeout)
      /\ f.seq_num = SegmentId[fr]
      /\ SegmentId[fr] \in Nat
      /\ f.seq_num_first = 0
      /\ f.seq_num_wrap = -1
      /\ f.out_of_order = FALSE
  <2>1. f.msg_info = id /\ id \in FileIds
    BY FrameFacts DEF MiamInfo
  <2>2. /\ f.msg_data = txt
        /\ f.total_fragment_cnt = 0
        /\ f.rx_time = At(now)
        /\ f.reasm_timeout = At(MiamTimeout)
        /\ f.seq_num = SegmentId[fr]
        /\ f.seq_num_first = 0
        /\ f.seq_num_wrap = -1
        /\ f.out_of_order = FALSE
    BY DEF MiamInfo
  <2>3. SegmentId[fr] = 0 => f.total_pdu_len = FileSize(file)
    BY <1>1, MiamInfoFacts
  <2>4. FileSize(file) \in Nat /\ SegmentId[fr] \in Nat
    BY <1>1, MiamInfoFacts
  <2> HIDE DEF f, id
  <2> QED
    BY <2>1, <2>2, <2>3, <2>4
<1>3. file \in Files /\ Blocks[fr] \in Nat \ {0}
  BY FrameFacts
<1>4. /\ IsSent(file)
      /\ sent_at[file] \in Nat
      /\ sent_at[file] <= now
      /\ now <= sent_at[file] + Lifetime
  BY <1>1, <1>3 DEF OnAir
<1>5. /\ SegmentCount(file) \in Nat
      /\ LenUpTo(file, 0) = 0
      /\ \A n \in 0 .. SegmentCount(file) : LenUpTo(file, n) \in Nat
      /\ \A n \in 0 .. SegmentCount(file) - 1 :
            LenUpTo(file, n + 1) = LenUpTo(file, n) + Blocks[SegmentFrame(file, n + 1)]
  BY <1>3, SegmentNumbers, LenUpToFacts
<1>6. x.payload = txt
  BY <1>2
<1> HIDE DEF f, s, x
<1>7. CASE ~MiamEngine!NotFirst(f) /\ MiamEngine!LongerBy(MiamEngine!NewEntry(f), f, e)
  <2> DEFINE new == MiamEngine!NewEntry(f)
  <2>1. f.seq_num = 0
    BY <1>2, <1>7 DEF MiamEngine!NotFirst, MiamEngine!SEQ_FIRST_NONE
  <2>2. txt = <<>> /\ TextLen[txt] = 0
    <3>1. txt = <<>>
      BY <1>2, <2>1 DEF PassedOn
    <3>2. 0 \in 0 .. Blocks[fr]
      BY <1>3
    <3> QED
      BY <3>1, <3>2, Beginning
  <2>3. /\ new.fragment_list = <<>>
        /\ new.total_fragment_cnt = 0
        /\ new.frags_collected_total_len = 0
        /\ new.first_frag_rx_time = At(now)
        /\ new.reasm_timeout = At(MiamTimeout)
    BY <1>2 DEF MiamEngine!NewEntry
  <2>4. new.total_pdu_len = FileSize(file)
    <3>1. new.total_pdu_len = IF f.total_pdu_len > 0 THEN f.total_pdu_len ELSE 0
      BY DEF MiamEngine!NewEntry
    <3>2. f.total_pdu_len = FileSize(file)
      BY <1>2, <2>1
    <3> QED
      BY <1>2, <3>1, <3>2
  <2>5. /\ e.fragment_list = Append(new.fragment_list, x)
        /\ e.prev_seq_num = 0
        /\ e.frags_collected_total_len = new.frags_collected_total_len + TextLen[txt]
        /\ e.total_pdu_len = new.total_pdu_len
        /\ e.total_fragment_cnt = new.total_fragment_cnt
        /\ e.first_frag_rx_time = new.first_frag_rx_time
        /\ e.reasm_timeout = new.reasm_timeout
    BY <1>2, <1>7, <2>1 DEF MiamEngine!LongerBy, x
  <2> HIDE DEF new
  <2>6. Len(e.fragment_list) - 1 = 0 /\ e.fragment_list[1] = x
    BY <2>3, <2>5
  <2>7. e.frags_collected_total_len = 0
    BY <2>2, <2>3, <2>5
  <2>8. 0 \in 0 .. SegmentCount(file)
    BY <1>5
  <2>9. HoldsFile(e, file)
    BY <1>5, <1>6, <2>2, <2>3, <2>4, <2>5, <2>6, <2>7, <2>8 DEF HoldsFile
  <2>10. BegunBy(e, file)
    BY <1>1, <1>4, <2>3, <2>5 DEF BegunBy
  <2> QED
    BY <1>4, <2>9, <2>10
<1>8. CASE /\ s # NULL
           /\ ~MiamEngine!Expired(s, f.rx_time)
           /\ ~MiamEngine!IsDuplicate(s, f)
           /\ MiamEngine!InSequence(s, f)
           /\ MiamEngine!LongerBy(s, f, e)
  <2> DEFINE list == s.fragment_list
             n    == Len(list) - 1
             all  == e.fragment_list
             len  == s.frags_collected_total_len
  <2>1. s \in Miam!TableEntry
    BY <1>2, <1>8, StateFacts DEF Miam!TypeOK, s
  <2>2. PICK origin \in Files : EntryOf(id, origin)
    BY <1>2, <1>8 DEF DecoderIInv, MiamEntries, s
  <2>3. FileId[origin] = id /\ IsSent(origin) /\ BegunBy(s, origin) /\ HoldsFile(s, origin)
    BY <2>2 DEF EntryOf, s
  <2>4. PICK t \in 0 .. MaxTime :
            /\ s.first_frag_rx_time = At(t)
            /\ sent_at[origin] <= t
            /\ t <= sent_at[origin] + Lifetime
    BY <2>3 DEF BegunBy
  <2>5. t \in Nat
    BY <2>4, OptionsAssumption
  <2>6. now <= t + MiamTimeout
    <3>1. s.reasm_timeout = At(MiamTimeout)
      BY <2>3 DEF HoldsFile
    <3>2. ~(now > t + MiamTimeout)
      BY <1>1, <1>2, <1>8, <2>1, <2>4, <2>5, <3>1, MiamExpired
    <3> QED
      BY <1>1, <2>5, <3>2
  <2>7. origin = file
    <3> SUFFICES ASSUME origin # file  PROVE FALSE
      OBVIOUS
    <3>1. \/ sent_at[file] > sent_at[origin] + Lifetime + MiamTimeout
          \/ sent_at[origin] > sent_at[file] + Lifetime + MiamTimeout
      BY <1>3, <1>4, <2>3 DEF DecoderIInv, SentApart
    <3>2. sent_at[origin] \in Nat /\ sent_at[origin] <= now
      BY <1>1, <2>3
    <3> QED
      BY <1>1, <1>4, <2>4, <2>5, <2>6, <3>1, <3>2
  <2>8. /\ list \in Seq(Miam!Fragment)
        /\ len \in Nat
    BY <2>1 DEF Miam!TableEntry
  <2>9. /\ s.reasm_timeout = At(MiamTimeout)
        /\ s.total_pdu_len = FileSize(file)
        /\ s.total_fragment_cnt = 0
        /\ n \in 0 .. SegmentCount(file)
        /\ s.prev_seq_num = n
        /\ list[1].payload = <<>>
        /\ len <= LenUpTo(file, n)
        /\ len = LenUpTo(file, n) => \A i \in 1 .. n : list[i + 1].payload = SegmentTexts(file)[i]
    BY <2>3, <2>7 DEF HoldsFile
  <2>10. /\ all = Append(list, x)
         /\ e.prev_seq_num = f.seq_num
         /\ e.frags_collected_total_len = len + TextLen[txt]
         /\ e.total_pdu_len = s.total_pdu_len
         /\ e.total_fragment_cnt = s.total_fragment_cnt
         /\ e.first_frag_rx_time = s.first_frag_rx_time
         /\ e.reasm_timeout = s.reasm_timeout
    BY <1>2, <1>8 DEF MiamEngine!LongerBy, x
  <2> HIDE DEF n, list, len, all
  <2>11. n \in Nat /\ Len(list) = n + 1
    BY <1>5, <2>8, <2>9 DEF n
  <2>12. SegmentId[fr] = n + 1
    <3>1. MiamEngine!PrevSeqNum(s, f) = n
      BY <1>2, <2>9 DEF MiamEngine!PrevSeqNum, MiamEngine!SEQ_WRAP_NONE
    <3>2. n = -2 \/ n + 1 = f.seq_num
      BY <1>2, <1>8, <3>1 DEF MiamEngine!InSequence, MiamEngine!SEQ_UNINITIALIZED
    <3> QED
      BY <1>2, <2>11, <3>2
  <2>13. /\ fr \in SegmentsOf(file)
         /\ n + 1 \in 1 .. SegmentCount(file)
         /\ SegmentFrame(file, n + 1) = fr
    <3>1. SegmentId[fr] # 0
      BY <2>11, <2>12
    <3>2. FrameKind[fr] = "segment"
      BY <3>1, FilesAssumption
    <3>3. fr \in SegmentsOf(file)
      BY <3>2 DEF SegmentsOf
    <3> QED
      BY <1>3, <2>12, <3>3, SegmentNumbers, SegmentFound
  <2>14. PICK m \in 1 .. Blocks[fr] : txt = SubSeq(Text(fr), 1, m)
    BY <2>11, <2>12 DEF PassedOn
  <2>15. TextLen[txt] = m /\ (m = Blocks[fr] => txt = Text(fr))
    <3>1. m \in 0 .. Blocks[fr]
      BY <1>3, <2>14
    <3> QED
      BY <2>14, <3>1, Beginning
  <2>16. LenUpTo(file, n + 1) = LenUpTo(file, n) + Blocks[fr] /\ LenUpTo(file, n) \in Nat
    <3>1. n \in 0 .. SegmentCount(file) - 1
      BY <1>5, <2>11, <2>13
    <3> QED
      BY <1>5, <2>9, <2>13, <3>1
  <2>17. e.frags_collected_total_len <= LenUpTo(file, n + 1)
    BY <1>3, <2>8, <2>9, <2>10, <2>14, <2>15, <2>16 DEF len
  <2>18. ASSUME e.frags_collected_total_len = LenUpTo(file, n + 1)
         PROVE  len = LenUpTo(file, n) /\ m = Blocks[fr]
    BY <1>3, <2>8, <2>9, <2>10, <2>14, <2>15, <2>16, <2>18 DEF len
  <2>19. /\ Len(all) - 1 = n + 1
         /\ all[n + 2] = x
         /\ \A i \in 1 .. n + 1 : all[i] = list[i]
    <3>1. Len(all) = n + 2
      BY <2>8, <2>10, <2>11
    <3>2. all[n + 2] = x
      BY <2>8, <2>10, <2>11
    <3>3. \A i \in 1 .. n + 1 : all[i] = list[i]
      BY <2>8, <2>10, <2>11
    <3> QED
      BY <2>11, <3>1, <3>2, <3>3
  <2>20. all[1].payload = <<>>
    BY <2>9, <2>11, <2>19
  <2>21. ASSUME e.frags_collected_total_len = LenUpTo(file, n + 1), NEW i \in 1 .. n + 1
         PROVE  all[i + 1].payload = SegmentTexts(file)[i]
    <3>1. CASE i = n + 1
      <4>1. all[i + 1].payload = txt
        <5>1. i + 1 = n + 2
          BY <2>11, <3>1
        <5> QED
          BY <1>6, <2>19, <5>1
      <4>2. txt = Text(SegmentFrame(file, i))
        BY <2>13, <2>15, <2>18, <2>21, <3>1
      <4> QED
        BY <1>3, <2>13, <3>1, <4>1, <4>2, FileTextFacts
    <3>2. CASE i # n + 1
      <4>1. i \in 1 .. n /\ i + 1 \in 1 .. n + 1
        BY <2>11, <3>2
      <4>2. all[i + 1] = list[i + 1]
        BY <2>19, <4>1
      <4> QED
        BY <2>9, <2>18, <2>21, <4>1, <4>2
    <3> QED
      BY <3>1, <3>2
  <2>22. HoldsFile(e, file)
    <3>1. n + 1 \in 0 .. SegmentCount(file)
      BY <1>5, <2>11, <2>13
    <3>2. e.prev_seq_num = n + 1
      BY <1>2, <2>10, <2>12
    <3> QED
      BY <2>9, <2>10, <2>17, <2>19, <2>20, <2>21, <3>1, <3>2 DEF HoldsFile, all
  <2>23. BegunBy(e, file)
    BY <2>4, <2>7, <2>10 DEF BegunBy
  <2> QED
    BY <1>4, <2>22, <2>23
<1> QED
  BY <1>2, <1>7, <1>8 DEF MiamEngine!MakesEntry, f, s

\* What la_reasm_fragment_add leaves of the files, when miam.c calls it for
\* what is passed on of a frame on the air.
LEMMA MiamAdded ==
    ASSUME DecoderIInv, NEW fr \in Frames, OnAir(FileOf[fr]), NEW txt, PassedOn(fr, txt),
           Miam!FragmentAdd(MiamInfo(fr, txt)), sent_at' = sent_at
    PROVE  LET id == FileId[FileOf[fr]]
           IN  /\ Miam!TypeOK'
               /\ MiamEntries'
               /\ miam_last'.status = "COMPLETE" /\ miam_table'[id] # NULL =>
                      /\ miam_table'[id].total_pdu_len > 0
                      /\ miam_table'[id].frags_collected_total_len
                             >= miam_table'[id].total_pdu_len
<1> DEFINE f    == MiamInfo(fr, txt)
           file == FileOf[fr]
           id   == FileId[file]
           next == miam_table'[id]
<1>1. Miam!TypeOK /\ MiamEntries /\ now \in Nat
  BY StateFacts, ClockFacts DEF DecoderIInv
<1>2. f.msg_info = id /\ ~f.out_of_order /\ f.is_final_fragment = FALSE
  BY DEF MiamInfo
<1>3. f \in MiamInfos /\ ~Miam!ArgsInvalid(f)
  BY <1>1, MiamInfoFacts
<1>4. file \in Files /\ id \in FileIds
  BY FrameFacts
<1>5. Miam!FragmentAdd(f)
  OBVIOUS
<1> HIDE DEF f
<1>6. /\ Miam!TypeOK'
      /\ \A i \in FileIds \ {id} : miam_table'[i] \in {miam_table[i], NULL}
      /\ MiamEngine!InOrderOutcome(f)
  BY <1>1, <1>2, <1>3, <1>5, MiamCall
<1>7. \/ next \in {miam_table[id], NULL} /\ miam_last'.status # "COMPLETE"
      \/ \E e \in Miam!TableEntry :
            /\ MiamEngine!MakesEntry(f, e)
            /\ next \in {e, NULL}
            /\ miam_last'.status = IF MiamEngine!IsComplete(e, f.is_final_fragment)
                                   THEN "COMPLETE" ELSE "IN_PROGRESS"
  <2>1. MiamEngine!TableEntry = Miam!TableEntry
    BY SameMiamTypes
  <2> QED
    BY <1>2, <1>6, <2>1 DEF MiamEngine!InOrderOutcome
<1>8. ASSUME NEW i \in FileIds, miam_table'[i] # NULL, miam_table'[i] = miam_table[i]
      PROVE  \E g \in Files : EntryOf(i, g)'
  <2>1. PICK g \in Files : EntryOf(i, g)
    BY <1>1, <1>8 DEF MiamEntries
  <2>2. EntryOf(i, g)'
    BY <1>8, <2>1 DEF EntryOf, IsSent, BegunBy
  <2> QED
    BY <2>2
<1>9. ASSUME NEW e \in Miam!TableEntry, MiamEngine!MakesEntry(f, e), next = e
      PROVE  /\ EntryOf(id, file)'
             /\ MiamEngine!IsComplete(e, f.is_final_fragment) =>
                    e.total_pdu_len > 0 /\ e.frags_collected_total_len >= e.total_pdu_len
  <2>1. IsSent(file) /\ BegunBy(e, file) /\ HoldsFile(e, file)
    BY <1>9, MiamEntryMade DEF f
  <2>2. EntryOf(id, file)'
    BY <1>9, <2>1 DEF EntryOf, IsSent, BegunBy
  <2>3. e.total_fragment_cnt = 0
    BY <2>1 DEF HoldsFile
  <2> QED
    BY <1>2, <2>2, <2>3 DEF MiamEngine!IsComplete
<1>10. MiamEntries'
  <2> SUFFICES ASSUME NEW i \in FileIds, miam_table'[i] # NULL
               PROVE  \E g \in Files : EntryOf(i, g)'
    BY DEF MiamEntries
  <2>1. CASE miam_table'[i] = miam_table[i]
    BY <1>8, <2>1
  <2>2. CASE miam_table'[i] # miam_table[i]
    <3>1. i = id
      BY <1>6, <2>2
    <3>2. PICK e \in Miam!TableEntry : MiamEngine!MakesEntry(f, e) /\ next = e
      BY <1>7, <2>2, <3>1
    <3> QED
      BY <1>4, <1>9, <3>1, <3>2
  <2> QED
    BY <2>1, <2>2
<1>11. ASSUME miam_last'.status = "COMPLETE", next # NULL
       PROVE  next.total_pdu_len > 0 /\ next.frags_collected_total_len >= next.total_pdu_len
  <2>1. PICK e \in Miam!TableEntry :
            /\ MiamEngine!MakesEntry(f, e)
            /\ next = e
            /\ miam_last'.status = IF MiamEngine!IsComplete(e, f.is_final_fragment)
                                   THEN "COMPLETE" ELSE "IN_PROGRESS"
    BY <1>7, <1>11
  <2>2. MiamEngine!IsComplete(e, f.is_final_fragment)
    BY <1>11, <2>1
  <2> QED
    BY <1>9, <2>1, <2>2
<1> QED
  BY <1>6, <1>10, <1>11

\* A text that is part of a frame's is read as that frame.
LEMMA ReadAs ==
    ASSUME NEW fr \in Frames, NEW t, PartOf(t, fr)
    PROVE  /\ FrameIn(t) = fr
           /\ IsRequest(t) => PassedOn(fr, <<>>)
           /\ IsSegment(t) => PassedOn(fr, t)
<1>1. Blocks[fr] \in Nat
  BY FrameFacts
<1>2. PICK first \in 1 .. Blocks[fr] : \E final \in 1 .. Blocks[fr] :
          first <= final /\ t = SubSeq(Text(fr), first, final)
  BY DEF PartOf
<1>3. PICK final \in 1 .. Blocks[fr] : first <= final /\ t = SubSeq(Text(fr), first, final)
  BY <1>2
<1>4. t[1] = Piece(fr, first)
  <2>1. /\ Text(fr) \in Seq(Pieces)
        /\ Len(Text(fr)) = Blocks[fr]
        /\ Text(fr)[first] = Piece(fr, first)
    BY FrameFacts
  <2> QED
    BY <1>1, <1>3, <2>1
<1>5. t[1].frame = fr /\ t[1].part = first
  BY <1>4 DEF Piece
<1>6. FrameIn(t) = fr
  BY <1>5 DEF FrameIn
<1>7. SegmentId[fr] = 0 <=> FrameKind[fr] = "request"
  BY FilesAssumption
<1>8. "segment" # "request"
  OBVIOUS
<1>9. IsRequest(t) => PassedOn(fr, <<>>)
  BY <1>6, <1>7 DEF IsRequest, PassedOn
<1>10. IsSegment(t) => PassedOn(fr, t)
  BY <1>3, <1>5, <1>6, <1>7, <1>8 DEF IsSegment, Starts, PassedOn
<1> QED
  BY <1>6, <1>9, <1>10

\* What miam.c is passed goes to the table of files.
LEMMA MiamAddSound ==
    ASSUME DecoderIInv, FileTransferRequest \/ FileSegment, UNCHANGED linkVars
    PROVE  DecoderIInv'
<1>1. /\ pc = "apps"
      /\ pc' \in {"segment", "done"}
      /\ TableNew("miam")
      /\ acars_table' = acars_table /\ acars_cnt' = acars_cnt /\ acars_last' = acars_last
      /\ config' = config /\ block' = block /\ msg' = msg /\ decoded' = decoded
      /\ now' = now /\ sent_at' = sent_at /\ next_part' = next_part
  BY DEF FileTransferRequest, FileSegment, acarsVars, linkVars
<1>2. /\ TypeOK /\ CallSound /\ AcarsEntries /\ TextSound
      /\ block \in Pieces
      /\ Acars!TypeOK
      /\ block.frame \in Frames
      /\ OnAir(FileOf[block.frame])
  BY <1>1, StateFacts DEF DecoderIInv
<1>3. PICK fr \in Frames : fr = block.frame
  BY <1>2
<1>4. PartOf(msg.txt, fr)
  BY <1>1, <1>2, <1>3 DEF TextSound
<1>5. /\ FrameIn(msg.txt) = fr
      /\ IsRequest(msg.txt) => PassedOn(fr, <<>>)
      /\ IsSegment(msg.txt) => PassedOn(fr, msg.txt)
  BY <1>4, ReadAs
<1>6. PICK txt : PassedOn(fr, txt) /\ Miam!FragmentAdd(MiamInfo(fr, txt))
  BY <1>5 DEF FileTransferRequest, FileSegment
<1>7. /\ Miam!TypeOK'
      /\ MiamEntries'
      /\ LET id == FileId[FileOf[fr]]
         IN  miam_last'.status = "COMPLETE" /\ miam_table'[id] # NULL =>
                 /\ miam_table'[id].total_pdu_len > 0
                 /\ miam_table'[id].frags_collected_total_len >= miam_table'[id].total_pdu_len
  BY <1>1, <1>2, <1>3, <1>6, MiamAdded
<1>8. SentBefore' /\ SentApart' /\ \A file \in Files : OnAir(file)' <=> OnAir(file)
  BY <1>1, LinkKept DEF DecoderIInv
<1>9. rtables' \in {<<"acars">>, <<"acars", "miam">>} /\ rtables' # <<>>
  <2>1. rtables \in {<<"acars">>, <<"acars", "miam">>}
    BY <1>1, <1>2, StateFacts DEF CallSound
  <2>2. Append(<<"acars">>, "miam") = <<"acars", "miam">>
    <3>1. ASSUME NEW x, NEW y  PROVE Append(<<x>>, y) = <<x, y>>
      <4> DEFINE a == Append(<<x>>, y)
                 b == <<x, y>>
                 S == {x, y}
      <4>1. x \in S /\ y \in S
        OBVIOUS
      <4> HIDE DEF S
      <4>2. a \in Seq(S) /\ Len(a) = 2 /\ b \in Seq(S) /\ Len(b) = 2
        BY <4>1
      <4>3. a[1] = x /\ a[2] = y /\ b[1] = x /\ b[2] = y
        BY <4>1
      <4> HIDE DEF a, b
      <4>4. \A i \in 1 .. 2 : a[i] = b[i]
        BY <4>3
      <4>5. a = b
        BY <4>2, <4>4, SeqEqual
      <4> QED
        BY <4>5 DEF a, b
    <3> QED
      BY <3>1, Zenon
  <2>3. rtables' = rtables \/ rtables' = Append(rtables, "miam")
    BY <1>1 DEF TableNew
  <2>4. rtables = <<"acars", "miam">> => "miam" \in Range(rtables)
    <3> SUFFICES ASSUME rtables = <<"acars", "miam">>  PROVE "miam" \in Range(rtables)
      OBVIOUS
    <3>1. 2 \in DOMAIN rtables /\ rtables[2] = "miam"
      OBVIOUS
    <3> QED
      BY <3>1 DEF Range
  <2>5. rtables = <<"acars", "miam">> => rtables' = rtables
    BY <1>1, <2>4 DEF TableNew
  <2>6. <<"acars">> # <<>> /\ <<"acars", "miam">> # <<>>
    OBVIOUS
  <2> QED
    BY <2>1, <2>2, <2>3, <2>5, <2>6, Zenon
<1>10. TypeOK'
  <2>1. Acars!TypeOK'
    BY <1>1, <1>2, TablesTyped
  <2>2. rtables' \in {<<>>, <<"acars">>, <<"acars", "miam">>}
    BY <1>9
  <2> QED
    BY <1>1, <1>2, <1>7, <2>1, <2>2 DEF TypeOK
<1>11. CallSound'
  <2>1. FileOf[block.frame] \in Files
    BY <1>2, FrameFacts
  <2> QED
    BY <1>1, <1>2, <1>8, <1>9, <2>1 DEF CallSound, OnAir, IsSent
<1>12. AcarsEntries'
  BY <1>1, <1>2, AcarsEntriesKept
<1>13. TextSound'
  BY <1>1, <1>3, <1>4 DEF TextSound
<1>14. FileCompleteSound'
  BY <1>1, <1>5, <1>7 DEF FileCompleteSound
<1> QED
  BY <1>7, <1>8, <1>10, <1>11, <1>12, <1>13, <1>14 DEF DecoderIInv

-----------------------------------------------------------------------------
(***************************************************************************)
(* A file is complete: its text is fetched and decoded.                    *)
(***************************************************************************)

\* An entry that is as long as its file has its text.
LEMMA EntryText ==
    ASSUME NEW file \in Files, NEW e \in Miam!TableEntry, HoldsFile(e, file),
           e.frags_collected_total_len >= e.total_pdu_len
    PROVE  FlattenSeq(Miam!PayloadsOf(e.fragment_list)) = FileText[file]
<1> DEFINE list == e.fragment_list
           n    == Len(list) - 1
           len  == e.frags_collected_total_len
           p    == Miam!PayloadsOf(list)
           C    == SegmentCount(file)
<1>1. list \in Seq(Miam!Fragment) /\ len \in Nat
  BY DEF Miam!TableEntry
<1>2. /\ e.total_pdu_len = FileSize(file)
      /\ n \in 0 .. C
      /\ list[1].payload = <<>>
      /\ len <= LenUpTo(file, n)
      /\ len = LenUpTo(file, n) => \A s \in 1 .. n : list[s + 1].payload = SegmentTexts(file)[s]
  BY DEF HoldsFile
<1>3. /\ C \in Nat
      /\ \A m \in 0 .. C : LenUpTo(file, m) \in Nat
      /\ FileSize(file) = LenUpTo(file, C)
      /\ \A m \in 0 .. C - 1 : LenUpTo(file, m) < FileSize(file)
  BY SegmentNumbers, LenUpToFacts
<1>4. Len(list) \in Nat /\ DOMAIN list = 1 .. Len(list)
  BY <1>1
<1>5. n = C
  <2> SUFFICES ASSUME n # C  PROVE FALSE
    OBVIOUS
  <2> HIDE DEF n, C, len
  <2>1. n \in 0 .. C - 1
    BY <1>2, <1>3
  <2>2. LenUpTo(file, n) < FileSize(file) /\ LenUpTo(file, n) \in Nat /\ FileSize(file) \in Nat
    BY <1>2, <1>3, <2>1
  <2>3. len >= FileSize(file)
    BY <1>2 DEF len
  <2> QED
    BY <1>1, <1>2, <2>2, <2>3 DEF len
<1>6. len = LenUpTo(file, n)
  <2> HIDE DEF n, C, len
  <2>1. LenUpTo(file, n) = FileSize(file) /\ FileSize(file) \in Nat
    BY <1>3, <1>5
  <2>2. len >= FileSize(file)
    BY <1>2 DEF len
  <2> QED
    BY <1>1, <1>2, <2>1, <2>2 DEF len
<1>7. \A i \in 1 .. Len(list) : list[i].payload \in FrameTexts
  <2>1. \A i \in 1 .. Len(list) : list[i] \in Miam!Fragment
    BY <1>1, <1>4
  <2> QED
    BY <2>1 DEF Miam!Fragment
<1>8. FrameTexts \subseteq Seq(Pieces)
  <2> SUFFICES ASSUME NEW t \in FrameTexts  PROVE t \in Seq(Pieces)
    OBVIOUS
  <2>1. PICK fr \in Frames : \E j \in 0 .. Blocks[fr] : t = SubSeq(Text(fr), 1, j)
    BY DEF FrameTexts
  <2>2. PICK j \in 0 .. Blocks[fr] : t = SubSeq(Text(fr), 1, j)
    BY <2>1
  <2> QED
    BY <2>2, Beginning
<1>9. p = [i \in 1 .. Len(list) |-> list[i].payload]
  BY <1>4 DEF Miam!PayloadsOf
<1>10. Len(list) = C + 1
  BY <1>3, <1>4, <1>5
<1> HIDE DEF p, n, list, C, len
<1>11. p \in Seq(Seq(Pieces)) /\ Len(p) = C + 1 /\ \A i \in 1 .. C + 1 : p[i] = list[i].payload
  BY <1>3, <1>7, <1>8, <1>9, <1>10
<1>12. p[1] = <<>>
  BY <1>2, <1>3, <1>11
<1>13. \A s \in 1 .. C : p[s + 1] = SegmentTexts(file)[s]
  <2> SUFFICES ASSUME NEW s \in 1 .. C  PROVE p[s + 1] = SegmentTexts(file)[s]
    OBVIOUS
  <2>1. s + 1 \in 1 .. C + 1
    BY <1>3
  <2>2. list[s + 1].payload = SegmentTexts(file)[s]
    BY <1>2, <1>5, <1>6
  <2> QED
    BY <1>11, <2>1, <2>2
<1> QED
  BY <1>11, <1>12, <1>13, WholeFile DEF p, C, list

\* What fetching a file gives: the text of one that was sent, or none.
LEMMA FetchedFile ==
    ASSUME DecoderIInv, FileComplete
    PROVE  /\ Miam!TypeOK'
           /\ \A id \in FileIds : miam_table'[id] \in {miam_table[id], NULL}
           /\ \/ decoded' = decoded
              \/ \E file \in Files : /\ IsSent(file)
                                     /\ FileSize(file) > 0
                                     /\ decoded' = decoded \cup {FileText[file]}
<1>1. /\ pc = "segment"
      /\ miam_last.status = "COMPLETE"
      /\ Miam!PayloadGet(FileId[FileOf[FrameIn(msg.txt)]])
      /\ decoded' = IF miam_last'.status = "PAYLOAD"
                    THEN decoded \cup {FlattenSeq(miam_last'.payload)} ELSE decoded
  BY DEF FileComplete
<1>2. Miam!TypeOK /\ MiamEntries /\ FileCompleteSound /\ TextSound /\ block.frame \in Frames
  BY <1>1, StateFacts DEF DecoderIInv
<1>3. PICK k \in FileIds : k = FileId[FileOf[FrameIn(msg.txt)]]
  <2>1. FrameIn(msg.txt) = block.frame
    BY <1>1, <1>2, ReadAs DEF TextSound
  <2> QED
    BY <1>2, <2>1, FrameFacts
<1> DEFINE e == miam_table[k]
<1>4. e # NULL => e.total_pdu_len > 0 /\ e.frags_collected_total_len >= e.total_pdu_len
  BY <1>1, <1>2, <1>3 DEF FileCompleteSound
<1>5. e # NULL => e \in Miam!TableEntry
  BY <1>2 DEF Miam!TypeOK
<1>6. Miam!PayloadGet(k)
  BY <1>1, <1>3
<1>7. Miam!ZeroTime \in Miam!Time
  <2>1. 0 \in 0 .. Miam!USEC_PER_SEC - 1
    <3>1. Miam!USEC_PER_SEC \in Nat /\ Miam!USEC_PER_SEC > 0
      BY SMT DEF Miam!USEC_PER_SEC
    <3> QED
      BY <3>1
  <2> QED
    BY <2>1 DEF Miam!ZeroTime, Miam!Time
<1>8. ASSUME NEW outcome \in Miam!GetOutcome, NEW payload \in Seq(FrameTexts),
             Miam!Got(k, outcome, payload)
      PROVE  miam_last' \in Miam!LastCall
  <2>1. miam_last' = [status |-> outcome, key |-> k, seq_num |-> 0,
                      rx_time |-> Miam!ZeroTime, payload |-> payload]
    BY <1>8 DEF Miam!Got
  <2> QED
    BY <1>3, <1>7, <2>1 DEF Miam!LastCall
<1> HIDE DEF e
<1>9. CASE e = NULL
  <2>1. /\ Miam!Got(k, "NOT_FOUND", <<>>)
        /\ miam_table' = miam_table
        /\ miam_cnt' = miam_cnt
    BY <1>6, <1>9 DEF Miam!PayloadGet, Miam!PayloadNotFound, Miam!PayloadEmpty,
                      Miam!PayloadTaken, e
  <2>2. miam_last'.status = "NOT_FOUND"
    BY <2>1 DEF Miam!Got
  <2>3. "NOT_FOUND" \in Miam!GetOutcome /\ <<>> \in Seq(FrameTexts)
    BY DEF Miam!GetOutcome
  <2>4. Miam!TypeOK'
    BY <1>2, <1>8, <2>1, <2>3 DEF Miam!TypeOK
  <2>5. decoded' = decoded
    BY <1>1, <2>2
  <2> QED
    BY <2>1, <2>4, <2>5
<1>10. CASE e # NULL
  <2>1. PICK file \in Files : FileId[file] = k /\ IsSent(file) /\ HoldsFile(e, file)
    BY <1>2, <1>10 DEF MiamEntries, EntryOf, e
  <2>2. /\ e \in Miam!TableEntry
        /\ e.total_pdu_len > 0
        /\ e.frags_collected_total_len >= e.total_pdu_len
    BY <1>4, <1>5, <1>10
  <2>3. e.total_pdu_len \in Nat /\ e.frags_collected_total_len \in Nat
        /\ e.fragment_list \in Seq(Miam!Fragment)
    BY <2>2 DEF Miam!TableEntry
  <2> DEFINE p == Miam!PayloadsOf(e.fragment_list)
  <2>4. /\ Miam!Got(k, "PAYLOAD", p)
        /\ miam_table' = [miam_table EXCEPT ![k] = NULL]
        /\ miam_cnt' = miam_cnt
    <3>1. ~(e.frags_collected_total_len < 1)
      BY <2>2, <2>3
    <3> QED
      BY <1>6, <1>10, <3>1 DEF Miam!PayloadGet, Miam!PayloadNotFound, Miam!PayloadEmpty,
                        Miam!PayloadTaken, e
  <2>5. p \in Seq(FrameTexts)
    <3>1. /\ Len(e.fragment_list) \in Nat
          /\ DOMAIN e.fragment_list = 1 .. Len(e.fragment_list)
          /\ \A i \in 1 .. Len(e.fragment_list) : e.fragment_list[i] \in Miam!Fragment
      BY <2>3
    <3>2. \A i \in 1 .. Len(e.fragment_list) : e.fragment_list[i].payload \in FrameTexts
      BY <3>1 DEF Miam!Fragment
    <3>3. p = [i \in 1 .. Len(e.fragment_list) |-> e.fragment_list[i].payload]
      BY <3>1 DEF Miam!PayloadsOf
    <3> HIDE DEF p
    <3> QED
      BY <3>1, <3>2, <3>3
  <2>6. FlattenSeq(p) = FileText[file]
    BY <2>1, <2>2, EntryText
  <2> HIDE DEF p
  <2>7. miam_last'.status = "PAYLOAD" /\ miam_last'.payload = p
    BY <2>4 DEF Miam!Got
  <2>8. decoded' = decoded \cup {FileText[file]}
    BY <1>1, <2>6, <2>7
  <2>9. FileSize(file) > 0
    BY <2>1, <2>2 DEF HoldsFile
  <2>10. /\ \A id \in FileIds : miam_table'[id] \in {miam_table[id], NULL}
         /\ miam_table' \in [FileIds -> Miam!TableEntry \cup {NULL}]
    BY <1>2, <2>4 DEF Miam!TypeOK
  <2>11. Miam!TypeOK'
    <3>1. "PAYLOAD" \in Miam!GetOutcome
      BY DEF Miam!GetOutcome
    <3> QED
      BY <1>2, <1>8, <2>4, <2>5, <2>10, <3>1 DEF Miam!TypeOK
  <2> QED
    BY <2>1, <2>8, <2>9, <2>10, <2>11
<1> QED
  BY <1>9, <1>10

\* That step keeps the invariant.
LEMMA FileCompleteKeeps ==
    ASSUME DecoderIInv, FileComplete, UNCHANGED linkVars
    PROVE  DecoderIInv'
<1>1. /\ pc = "segment" /\ pc' = "done"
      /\ acars_table' = acars_table /\ acars_cnt' = acars_cnt /\ acars_last' = acars_last
      /\ rtables' = rtables /\ config' = config /\ block' = block /\ msg' = msg
      /\ now' = now /\ sent_at' = sent_at /\ next_part' = next_part
  BY DEF FileComplete, acarsVars, linkVars
<1>2. /\ TypeOK /\ AcarsEntries /\ MiamEntries
      /\ block \in Pieces
      /\ FileOf[block.frame] \in Files
      /\ OnAir(FileOf[block.frame])
      /\ Acars!TypeOK
  BY <1>1, StateFacts DEF DecoderIInv
<1>3. /\ Miam!TypeOK'
      /\ \A id \in FileIds : miam_table'[id] \in {miam_table[id], NULL}
  BY FetchedFile
<1>4. decoded' \subseteq Seq(Pieces)
  <2>1. decoded \subseteq Seq(Pieces)
    BY StateFacts
  <2>2. \A file \in Files : FileText[file] \in Seq(Pieces)
    BY LenUpToFacts
  <2>3. decoded' = decoded \/ \E file \in Files : decoded' = decoded \cup {FileText[file]}
    BY FetchedFile
  <2> QED
    BY <2>1, <2>2, <2>3
<1>5. TypeOK'
  <2>1. Acars!TypeOK'
    BY <1>1, <1>2, TablesTyped
  <2> QED
    BY <1>1, <1>2, <1>3, <1>4, <2>1 DEF TypeOK
<1>6. SentBefore' /\ SentApart' /\ \A file \in Files : OnAir(file)' <=> OnAir(file)
  BY <1>1, LinkKept DEF DecoderIInv
<1>7. CallSound'
  BY <1>1, <1>2, <1>6 DEF CallSound, OnAir, IsSent
<1>8. AcarsEntries'
  BY <1>1, <1>2, AcarsEntriesKept
<1>9. MiamEntries'
  BY <1>1, <1>2, <1>3, MiamEntriesKept
<1>10. TextSound' /\ FileCompleteSound'
  BY <1>1 DEF TextSound, FileCompleteSound
<1> QED
  BY <1>5, <1>6, <1>7, <1>8, <1>9, <1>10 DEF DecoderIInv

-----------------------------------------------------------------------------
(***************************************************************************)
(* The link, and every step.                                               *)
(***************************************************************************)

\* A file is sent, maybe while a block is being decoded.
LEMMA SendSound ==
    ASSUME DecoderIInv, NEW file \in Files, Send(file)
    PROVE  DecoderIInv'
<1>1. /\ ~IsSent(file)
      /\ IdFree(file)
      /\ sent_at' = [sent_at EXCEPT ![file] = now]
      /\ acars_table' = acars_table /\ acars_cnt' = acars_cnt /\ acars_last' = acars_last
      /\ miam_table' = miam_table /\ miam_cnt' = miam_cnt /\ miam_last' = miam_last
      /\ rtables' = rtables /\ config' = config /\ pc' = pc
      /\ block' = block /\ msg' = msg /\ decoded' = decoded
      /\ now' = now /\ next_part' = next_part
  BY DEF Send, acarsVars, miamVars
<1>2. /\ TypeOK /\ SentBefore /\ SentApart /\ CallSound /\ AcarsEntries /\ TextSound
      /\ MiamEntries /\ FileCompleteSound
  BY DEF DecoderIInv
<1>3. /\ now \in Nat /\ now \in 0 .. MaxTime
      /\ Lifetime \in Nat /\ MiamTimeout \in Nat \ {0}
      /\ \A g \in Files : IsSent(g) => sent_at[g] \in Nat /\ sent_at[g] <= now
      /\ NULL \notin Nat
  BY ClockFacts, OptionsAssumption
<1>4. /\ sent_at \in [Files -> (0 .. MaxTime) \cup {NULL}]
      /\ sent_at'[file] = now
      /\ \A g \in Files : g # file => sent_at'[g] = sent_at[g]
      /\ sent_at' \in [Files -> (0 .. MaxTime) \cup {NULL}]
  BY <1>1, <1>2, <1>3 DEF TypeOK
<1>5. \A g \in Files : IsSent(g) => g # file /\ sent_at'[g] = sent_at[g]
  BY <1>1, <1>4
<1>6. \A g \in Files : OnAir(g) => OnAir(g)'
  BY <1>1, <1>5 DEF OnAir, IsSent
<1>7. TypeOK'
  <2>1. Acars!TypeOK' /\ Miam!TypeOK'
    BY <1>1, <1>2, StateFacts, TablesTyped
  <2> QED
    BY <1>1, <1>2, <1>4, <2>1 DEF TypeOK
<1>8. SentBefore'
  BY <1>1, <1>2, <1>3, <1>4 DEF SentBefore, IsSent
<1>9. SentApart'
  <2>1. ASSUME NEW g \in Files, g # file, FileId[g] = FileId[file], IsSent(g)
        PROVE  now > sent_at[g] + Lifetime + MiamTimeout
    BY <1>1, <2>1 DEF IdFree
  <2>2. ASSUME NEW g \in Files, NEW h \in Files, g # h, FileId[g] = FileId[h],
               IsSent(g)', IsSent(h)'
        PROVE  \/ sent_at'[g] > sent_at'[h] + Lifetime + MiamTimeout
               \/ sent_at'[h] > sent_at'[g] + Lifetime + MiamTimeout
    <3>1. CASE g # file /\ h # file
      <4>1. /\ IsSent(g) /\ IsSent(h)
            /\ sent_at'[g] = sent_at[g] /\ sent_at'[h] = sent_at[h]
        BY <1>4, <2>2, <3>1 DEF IsSent
      <4> QED
        BY <1>2, <2>2, <4>1 DEF SentApart
    <3>2. CASE g = file
      <4>1. IsSent(h) /\ sent_at'[h] = sent_at[h]
        BY <1>4, <2>2, <3>2 DEF IsSent
      <4> QED
        BY <1>4, <2>1, <2>2, <3>2, <4>1
    <3>3. CASE h = file
      <4>1. IsSent(g) /\ sent_at'[g] = sent_at[g]
        BY <1>4, <2>2, <3>3 DEF IsSent
      <4> QED
        BY <1>4, <2>1, <2>2, <3>3, <4>1
    <3> QED
      BY <3>1, <3>2, <3>3
  <2> QED
    BY <2>2 DEF SentApart
<1>10. CallSound'
  <2>1. pc # "idle" => /\ block \in Pieces
                       /\ FileOf[block.frame] \in Files
                       /\ OnAir(FileOf[block.frame])
    BY StateFacts
  <2>2. pc # "idle" => OnAir(FileOf[block.frame])'
    BY <1>1, <1>6, <2>1 DEF OnAir, IsSent
  <2> QED
    BY <1>1, <1>2, <2>1, <2>2 DEF CallSound
<1>11. AcarsEntries' /\ TextSound' /\ FileCompleteSound'
  BY <1>1, <1>2 DEF AcarsEntries, GoesOn, Completing, TextSound, FileCompleteSound
<1>12. MiamEntries'
  BY <1>1, <1>2, <1>5, MiamEntriesKept
<1> QED
  BY <1>7, <1>8, <1>9, <1>10, <1>11, <1>12 DEF DecoderIInv

\* Time passes, between calls.
LEMMA TickSound ==
    ASSUME DecoderIInv, pc = "idle", Tick
    PROVE  DecoderIInv'
<1>1. /\ now < MaxTime
      /\ now' = now + 1
      /\ sent_at' = sent_at
      /\ acars_table' = acars_table /\ acars_cnt' = acars_cnt /\ acars_last' = acars_last
      /\ miam_table' = miam_table /\ miam_cnt' = miam_cnt /\ miam_last' = miam_last
      /\ rtables' = rtables /\ config' = config /\ pc' = pc
      /\ block' = block /\ msg' = msg /\ decoded' = decoded
      /\ next_part' = next_part
  BY DEF Tick, acarsVars, miamVars
<1>2. /\ TypeOK /\ SentBefore /\ SentApart /\ AcarsEntries /\ MiamEntries
  BY DEF DecoderIInv
<1>3. /\ now \in Nat /\ MaxTime \in Nat
      /\ \A g \in Files : IsSent(g) => sent_at[g] \in Nat /\ sent_at[g] <= now
  BY ClockFacts, OptionsAssumption
<1>4. TypeOK'
  <2>1. Acars!TypeOK' /\ Miam!TypeOK'
    BY <1>1, StateFacts, TablesTyped
  <2>2. now' \in 0 .. MaxTime
    BY <1>1, <1>3
  <2> QED
    BY <1>1, <1>2, <2>1, <2>2 DEF TypeOK
<1>5. SentBefore'
  BY <1>1, <1>3 DEF SentBefore, IsSent
<1>6. SentApart'
  BY <1>1, <1>2 DEF SentApart, IsSent
<1>7. CallSound' /\ TextSound' /\ FileCompleteSound'
  BY <1>1 DEF CallSound, TextSound, FileCompleteSound
<1>8. AcarsEntries'
  BY <1>1, <1>2, AcarsEntriesKept
<1>9. MiamEntries'
  BY <1>1, <1>2, MiamEntriesKept
<1> QED
  BY <1>4, <1>5, <1>6, <1>7, <1>8, <1>9 DEF DecoderIInv

\* The program and both links start in the invariant.
LEMMA InitSound == Init => DecoderIInv
<1> SUFFICES ASSUME Init  PROVE DecoderIInv
  OBVIOUS
<1>1. /\ acars_table = [k \in MsgKeys |-> NULL] /\ acars_cnt = 0
      /\ acars_last = [status |-> "UNKNOWN", key |-> NULL, seq_num |-> 0,
                       rx_time |-> Acars!ZeroTime, payload |-> <<>>]
      /\ miam_table = [id \in FileIds |-> NULL] /\ miam_cnt = 0
      /\ miam_last = [status |-> "UNKNOWN", key |-> NULL, seq_num |-> 0,
                      rx_time |-> Miam!ZeroTime, payload |-> <<>>]
      /\ rtables = <<>>
      /\ config \in [decode_fragments : DecodeFragments, acars_bearer : Bearers]
      /\ pc = "idle" /\ block = NULL /\ msg = NoMsg /\ decoded = {} /\ now = 0
      /\ sent_at = [f \in Files |-> NULL]
      /\ next_part = [f \in Files |-> 1]
  BY DEF Init, Acars!Init, Miam!Init
<1>2. acars_last = NoCall /\ miam_last = NoCall
  BY <1>1 DEF NoCall, At, Acars!ZeroTime, Miam!ZeroTime
<1>3. Acars!TypeOK /\ Miam!TypeOK
  <2>1. 0 \in 0 .. AcarsInterval /\ 0 \in 0 .. MiamInterval
    BY OptionsAssumption
  <2> QED
    BY <1>1, <1>2, <2>1, NoCallTyped DEF Acars!TypeOK, Miam!TypeOK
<1>4. TypeOK
  <2>1. config \in [decode_fragments : BOOLEAN, acars_bearer : Bearers]
    BY <1>1, OptionsAssumption
  <2>2. now \in 0 .. MaxTime
    BY <1>1, OptionsAssumption
  <2>3. \A file \in Files : next_part[file] \in 1 .. Len(Stream[file]) + 1
    <3> SUFFICES ASSUME NEW file \in Files  PROVE next_part[file] \in 1 .. Len(Stream[file]) + 1
      OBVIOUS
    <3>1. Stream[file] \in Seq(Pieces)
      BY StreamFacts
    <3>2. Len(Stream[file]) \in Nat
      BY <3>1
    <3>3. next_part[file] = 1
      BY <1>1
    <3> QED
      BY <3>2, <3>3
  <2>4. next_part \in [Files -> Nat]
    BY <1>1
  <2>5. sent_at \in [Files -> (0 .. MaxTime) \cup {NULL}]
    BY <1>1
  <2>6. msg \in [err : BOOLEAN, reasm_status : Acars!Status, txt : Seq(Pieces)]
    BY <1>1, NoCallTyped
  <2> QED
    BY <1>1, <1>3, <2>1, <2>2, <2>3, <2>4, <2>5, <2>6 DEF TypeOK
<1>5. SentBefore /\ SentApart
  BY <1>1 DEF SentBefore, SentApart, IsSent
<1>6. CallSound /\ TextSound /\ FileCompleteSound
  BY <1>1 DEF CallSound, TextSound, FileCompleteSound
<1>7. AcarsEntries /\ MiamEntries
  BY <1>1 DEF AcarsEntries, MiamEntries
<1> QED
  BY <1>4, <1>5, <1>6, <1>7 DEF DecoderIInv

\* A block on the air is received, by either link.
BlockParsed(b) ==
    /\ OnAir(FileOf[b.frame])
    /\ ParseBlock(b)
    /\ now' = now
    /\ sent_at' = sent_at
    /\ next_part' \in [Files -> Nat]
    /\ \A file \in Files : next_part'[file] \in 1 .. Len(Stream[file]) + 1

BlockGivenUp(b) ==
    /\ OnAir(FileOf[b.frame])
    /\ RejectBlock(b) \/ EmptyUplink(b)
    /\ UNCHANGED linkVars

\* The steps of both links.
DecoderNext ==
    \/ \E file \in Files : Send(file)
    \/ \E b \in Pieces : BlockParsed(b) \/ BlockGivenUp(b)
    \/ Decode /\ UNCHANGED linkVars
    \/ Configure
    \/ ContextDestroy
    \/ pc = "idle" /\ Tick

\* Those of the radio link,
LEMMA RadioSteps ==
    ASSUME TypeOK, RadioNext
    PROVE  DecoderNext
<1>1. /\ next_part \in [Files -> Nat]
      /\ \A file \in Files : next_part[file] \in 1 .. Len(Stream[file]) + 1
  BY DEF TypeOK
<1>2. ASSUME NEW file \in Files, NEW i \in DOMAIN Stream[file], RadioReceive(file, i)
      PROVE  \E b \in Pieces : BlockParsed(b) \/ BlockGivenUp(b)
  <2> DEFINE b == Stream[file][i]
  <2>1. b \in Pieces /\ FileOf[b.frame] = file
    BY StreamFacts
  <2>2. OnAir(FileOf[b.frame]) /\ UNCHANGED linkVars
    BY <1>2, <2>1 DEF RadioReceive
  <2>3. ParseBlock(b) \/ RejectBlock(b) \/ EmptyUplink(b)
    BY <1>2 DEF RadioReceive
  <2> HIDE DEF b
  <2>4. now' = now /\ sent_at' = sent_at /\ next_part' = next_part
    BY <2>2 DEF linkVars
  <2>5. ParseBlock(b) => BlockParsed(b)
    BY <1>1, <2>2, <2>4 DEF BlockParsed
  <2>6. RejectBlock(b) \/ EmptyUplink(b) => BlockGivenUp(b)
    BY <2>2 DEF BlockGivenUp
  <2> QED
    BY <2>1, <2>3, <2>5, <2>6
<1> QED
  BY <1>2 DEF RadioNext, DecoderNext

\* and those of the orderly one.
LEMMA OrderlySteps ==
    ASSUME TypeOK, OrderlyNext
    PROVE  DecoderNext
<1>1. /\ next_part \in [Files -> Nat]
      /\ \A file \in Files : next_part[file] \in 1 .. Len(Stream[file]) + 1
  BY DEF TypeOK
<1>2. ASSUME NEW file \in Files, OrderlyReceive(file)
      PROVE  \E b \in Pieces : BlockParsed(b)
  <2> DEFINE i == next_part[file]
             b == Stream[file][i]
  <2>1. i \in DOMAIN Stream[file]
    BY <1>2 DEF OrderlyReceive
  <2>2. b \in Pieces /\ FileOf[b.frame] = file /\ Stream[file] \in Seq(Pieces)
    BY <2>1, StreamFacts
  <2>3. /\ OnAir(FileOf[b.frame])
        /\ ParseBlock(b)
        /\ now' = now /\ sent_at' = sent_at
        /\ next_part' = [next_part EXCEPT ![file] = @ + 1]
    BY <1>2, <2>2 DEF OrderlyReceive
  <2> HIDE DEF b
  <2>4. next_part' \in [Files -> Nat]
    BY <1>1, <2>3
  <2>5. i \in 1 .. Len(Stream[file]) /\ Len(Stream[file]) \in Nat
    BY <2>1, <2>2
  <2>6. ASSUME NEW g \in Files  PROVE next_part'[g] \in 1 .. Len(Stream[g]) + 1
    <3>1. CASE g = file
      <4>1. next_part'[g] = i + 1
        BY <1>1, <2>3, <3>1
      <4> QED
        BY <2>5, <3>1, <4>1
    <3>2. CASE g # file
      <4>1. next_part'[g] = next_part[g]
        BY <1>1, <2>3, <3>2
      <4> QED
        BY <1>1, <4>1
    <3> QED
      BY <3>1, <3>2
  <2>7. BlockParsed(b)
    BY <2>3, <2>4, <2>6 DEF BlockParsed
  <2> QED
    BY <2>2, <2>7
<1>3. ASSUME NEW file \in Files, NEW i \in DOMAIN Stream[file], RepeatedReceive(file, i)
      PROVE  \E b \in Pieces : BlockParsed(b)
  <2> DEFINE b == Stream[file][i]
  <2>1. b \in Pieces /\ FileOf[b.frame] = file
    BY StreamFacts
  <2>2. /\ OnAir(FileOf[b.frame])
        /\ ParseBlock(b)
        /\ now' = now /\ sent_at' = sent_at /\ next_part' = next_part
    BY <1>3, <2>1 DEF RepeatedReceive, linkVars
  <2> HIDE DEF b
  <2>3. BlockParsed(b)
    BY <1>1, <2>2 DEF BlockParsed
  <2> QED
    BY <2>1, <2>3
<1>4. OrderlyTick => pc = "idle" /\ Tick
  BY DEF OrderlyTick
<1> QED
  BY <1>2, <1>3, <1>4 DEF OrderlyNext, DecoderNext

\* Every step keeps the invariant.
LEMMA NextSound == DecoderIInv /\ [DecoderNext]_allVars => DecoderIInv'
<1> SUFFICES ASSUME DecoderIInv, [DecoderNext]_allVars  PROVE DecoderIInv'
  OBVIOUS
<1>1. ASSUME NEW file \in Files, Send(file)  PROVE DecoderIInv'
  BY <1>1, SendSound
<1>2. ASSUME NEW b \in Pieces, BlockParsed(b)  PROVE DecoderIInv'
  BY <1>2, ParseSound DEF BlockParsed
<1>3. ASSUME NEW b \in Pieces, BlockGivenUp(b)  PROVE DecoderIInv'
  BY <1>3, GivenUpSound DEF BlockGivenUp
<1>4. CASE Decode /\ UNCHANGED linkVars
  <2>1. CASE TakeReassembled \/ TakeOwnText
    BY <1>4, <2>1, TakeSound
  <2>2. CASE WithholdText \/ OtherText \/ SegmentOnly
    BY <1>4, <2>2, EndSound
  <2>3. CASE FileTransferRequest \/ FileSegment
    BY <1>4, <2>3, MiamAddSound
  <2>4. CASE FileComplete
    BY <1>4, <2>4, FileCompleteKeeps
  <2>5. CASE TreeDestroy
    BY <1>4, <2>5, DestroySound
  <2> QED
    BY <1>4, <2>1, <2>2, <2>3, <2>4, <2>5 DEF Decode
<1>5. CASE Configure \/ ContextDestroy
  BY <1>5, ApplicationSound
<1>6. CASE pc = "idle" /\ Tick
  BY <1>6, TickSound
<1>7. CASE UNCHANGED allVars
  BY <1>7 DEF allVars, acarsVars, miamVars, linkVars, DecoderIInv, TypeOK, Acars!TypeOK,
              Miam!TypeOK, SentBefore, SentApart, IsSent, CallSound, OnAir, AcarsEntries,
              GoesOn, Completing, TextSound, MiamEntries, EntryOf, BegunBy, FileCompleteSound
<1> QED
  BY <1>1, <1>2, <1>3, <1>4, <1>5, <1>6, <1>7 DEF DecoderNext

-----------------------------------------------------------------------------
(***************************************************************************)
(* Refinement: the files handed up are files that were sent.               *)
(***************************************************************************)

\* Nothing is sent and nothing handed up at first.
LEMMA InitMapped == Init => Promise!Init
BY DEF Init, IsSent, Promise!Init

\* Only a complete file is handed up.
LEMMA DecodedChanges ==
    ASSUME DecoderNext
    PROVE  \/ \E file \in Files : Send(file)
           \/ FileComplete /\ sent_at' = sent_at
           \/ decoded' = decoded /\ sent_at' = sent_at
<1>1. ASSUME NEW b \in Pieces, BlockParsed(b)  PROVE decoded' = decoded /\ sent_at' = sent_at
  BY <1>1 DEF BlockParsed, ParseBlock
<1>2. ASSUME NEW b \in Pieces, BlockGivenUp(b)  PROVE decoded' = decoded /\ sent_at' = sent_at
  BY <1>2 DEF BlockGivenUp, RejectBlock, EmptyUplink, linkVars
<1>3. CASE Decode /\ UNCHANGED linkVars
  BY <1>3 DEF Decode, TakeReassembled, TakeOwnText, WithholdText, OtherText, SegmentOnly,
              FileTransferRequest, FileSegment, TreeDestroy, linkVars
<1>4. CASE Configure \/ ContextDestroy \/ Tick
  BY <1>4 DEF Configure, ContextDestroy, Tick, linkVars
<1> QED
  BY <1>1, <1>2, <1>3, <1>4 DEF DecoderNext

\* Every step is one of the abstract specification or a stutter.
LEMMA StepMapped ==
    ASSUME DecoderIInv, [DecoderNext]_allVars
    PROVE  [Promise!Next]_<<{file \in Files : IsSent(file)}, decoded>>
<1>1. ASSUME sent_at' = sent_at, decoded' = decoded
      PROVE  UNCHANGED <<{file \in Files : IsSent(file)}, decoded>>
  BY <1>1 DEF IsSent
<1>2. ASSUME NEW file \in Files, Send(file)  PROVE Promise!Next
  <2>1. /\ decoded' = decoded
        /\ sent_at' = [sent_at EXCEPT ![file] = now]
    BY <1>2 DEF Send
  <2>2. now # NULL /\ sent_at \in [Files -> (0 .. MaxTime) \cup {NULL}]
    BY ClockFacts, OptionsAssumption DEF DecoderIInv, TypeOK
  <2>3. \A g \in Files : sent_at'[g] # NULL <=> (g = file \/ sent_at[g] # NULL)
    BY <2>1, <2>2
  <2>4. {g \in Files : IsSent(g)}' = {g \in Files : IsSent(g)} \cup {file}
    BY <2>3 DEF IsSent
  <2>5. Promise!Send(file)
    BY <2>1, <2>4 DEF Promise!Send
  <2> QED
    BY <2>5 DEF Promise!Next
<1>3. ASSUME FileComplete, sent_at' = sent_at
      PROVE  [Promise!Next]_<<{file \in Files : IsSent(file)}, decoded>>
  <2>1. CASE decoded' = decoded
    BY <1>1, <1>3, <2>1
  <2>2. ASSUME NEW file \in Files, IsSent(file), FileSize(file) > 0,
               decoded' = decoded \cup {FileText[file]}
        PROVE  Promise!Next
    <3>1. FileText[file] \in Seq(Pieces) /\ Len(FileText[file]) > 0
      BY <2>2, LenUpToFacts DEF FileSize
    <3>2. 1 \in 1 .. Len(FileText[file])
      BY <3>1
    <3>3. SubSeq(FileText[file], 1, Len(FileText[file])) = FileText[file]
      BY <3>1
    <3>4. {g \in Files : IsSent(g)}' = {g \in Files : IsSent(g)}
      BY <1>3 DEF IsSent
    <3>5. file \in {g \in Files : IsSent(g)}
      BY <2>2
    <3>6. Promise!Receive(file)
      BY <2>2, <3>2, <3>3, <3>4, <3>5 DEF Promise!Receive
    <3> QED
      BY <3>6 DEF Promise!Next
  <2> QED
    BY <1>3, <2>1, <2>2, FetchedFile
<1>4. CASE UNCHANGED allVars
  BY <1>1, <1>4 DEF allVars, linkVars
<1> QED
  BY <1>1, <1>2, <1>3, <1>4, DecodedChanges

\* However a radio link treats the blocks of files, whatever options the
\* application sets and whenever it starts over, the two levels together hand
\* up only whole files that were sent.
THEOREM WholeFiles == RadioSpec => OnlyWholeFiles /\ []TypeOK
<1>1. DecoderIInv /\ [RadioNext]_allVars => [DecoderNext]_allVars
  BY RadioSteps DEF DecoderIInv
<1>2. DecoderIInv /\ [DecoderNext]_allVars
        => [Promise!Next]_<<{file \in Files : IsSent(file)}, decoded>>
  BY StepMapped
<1>3. DecoderIInv => TypeOK
  BY DEF DecoderIInv
<1> QED
  BY <1>1, <1>2, <1>3, InitSound, NextSound, InitMapped, PTL
     DEF RadioSpec, OnlyWholeFiles, Promise!Spec

\* The same over the orderly link, which EveryFileDecoded is about.
THEOREM OrderlyWholeFiles == OrderlySpec => OnlyWholeFiles /\ []TypeOK
<1>1. DecoderIInv /\ [OrderlyNext]_allVars => [DecoderNext]_allVars
  BY OrderlySteps DEF DecoderIInv
<1>2. OrderlySpec => Init /\ [][OrderlyNext]_allVars
  BY PTL DEF OrderlySpec
<1>3. DecoderIInv /\ [DecoderNext]_allVars
        => [Promise!Next]_<<{file \in Files : IsSent(file)}, decoded>>
  BY StepMapped
<1>4. DecoderIInv => TypeOK
  BY DEF DecoderIInv
<1> QED
  BY <1>1, <1>2, <1>3, <1>4, InitSound, NextSound, InitMapped, PTL
     DEF OnlyWholeFiles, Promise!Spec

-----------------------------------------------------------------------------
(***************************************************************************)
(* Whole segments.                                                         *)
(***************************************************************************)
WholeFragment(x) ==
    x.seq_num > 0 /\ Down(FrameIn(x.payload)) => x.payload = Text(FrameIn(x.payload))

\* What is added to the table of files is whole, if what is passed on is.
LEMMA WholeAdded ==
    ASSUME DecoderIInv, SegmentsWhole, NEW fr \in Frames, NEW txt, PassedOn(fr, txt),
           Miam!FragmentAdd(MiamInfo(fr, txt)),
           SegmentId[fr] # 0 /\ Down(fr) => txt = Text(fr)
    PROVE  SegmentsWhole'
<1> DEFINE f  == MiamInfo(fr, txt)
           id == FileId[FileOf[fr]]
           x  == [seq_num |-> f.seq_num, payload |-> f.msg_data]
<1>1. Miam!TypeOK /\ now \in Nat
  BY StateFacts, ClockFacts
<1>2. /\ f.msg_info = id /\ f.msg_data = txt /\ f.seq_num = SegmentId[fr]
      /\ ~f.out_of_order
  BY DEF MiamInfo
<1>3. f \in MiamInfos /\ ~Miam!ArgsInvalid(f)
  BY <1>1, MiamInfoFacts
<1>4. Miam!FragmentAdd(f)
  OBVIOUS
<1>5. SegmentId[fr] \in Nat /\ Blocks[fr] \in Nat
  BY FilesAssumption, FrameFacts
<1>6. SegmentId[fr] # 0 => FrameIn(txt) = fr
  <2> SUFFICES ASSUME SegmentId[fr] # 0  PROVE FrameIn(txt) = fr
    OBVIOUS
  <2>1. PICK n \in 1 .. Blocks[fr] : txt = SubSeq(Text(fr), 1, n)
    BY DEF PassedOn
  <2>2. n \in 0 .. Blocks[fr] /\ n >= 1
    BY <1>5
  <2>3. txt[1] = Piece(fr, 1)
    BY <2>1, <2>2, Beginning
  <2> QED
    BY <2>3 DEF FrameIn, Piece
<1>7. WholeFragment(x)
  BY <1>2, <1>5, <1>6 DEF WholeFragment
<1> HIDE DEF f, x
<1>8. \A i \in FileIds : miam_table[i] # NULL =>
          /\ miam_table[i].fragment_list \in Seq(Miam!Fragment)
          /\ \A j \in DOMAIN miam_table[i].fragment_list :
                WholeFragment(miam_table[i].fragment_list[j])
  BY <1>1 DEF Miam!TypeOK, Miam!TableEntry, SegmentsWhole, WholeFragment
<1>9. /\ \A i \in FileIds \ {id} : miam_table'[i] \in {miam_table[i], NULL}
      /\ MiamEngine!InOrderOutcome(f)
  BY <1>1, <1>2, <1>3, <1>4, MiamCall
<1>10. ASSUME NEW e, NEW list \in Seq(Miam!Fragment),
              \A j \in DOMAIN list : WholeFragment(list[j]),
              e.fragment_list = Append(list, x)
       PROVE  \A j \in DOMAIN e.fragment_list : WholeFragment(e.fragment_list[j])
  <2> SUFFICES ASSUME NEW j \in DOMAIN Append(list, x)  PROVE WholeFragment(Append(list, x)[j])
    BY <1>10
  <2>1. j \in 1 .. Len(list) + 1 /\ Len(list) \in Nat /\ DOMAIN list = 1 .. Len(list)
    OBVIOUS
  <2>2. CASE j = Len(list) + 1
    <3>1. Append(list, x)[j] = x
      BY <2>1, <2>2
    <3> QED
      BY <1>7, <3>1
  <2>3. CASE j # Len(list) + 1
    <3>1. j \in DOMAIN list /\ Append(list, x)[j] = list[j]
      BY <2>1, <2>3
    <3> QED
      BY <1>10, <3>1
  <2> QED
    BY <2>2, <2>3
<1>11. ASSUME NEW e \in MiamEngine!TableEntry, MiamEngine!MakesEntry(f, e)
       PROVE  \A j \in DOMAIN e.fragment_list : WholeFragment(e.fragment_list[j])
  <2>1. CASE MiamEngine!LongerBy(MiamEngine!NewEntry(f), f, e)
    <3>1. MiamEngine!NewEntry(f).fragment_list = <<>>
      BY DEF MiamEngine!NewEntry
    <3>2. e.fragment_list = Append(<<>>, x)
      BY <2>1, <3>1 DEF MiamEngine!LongerBy, x
    <3>3. <<>> \in Seq(Miam!Fragment) /\ DOMAIN <<>> = {}
      OBVIOUS
    <3> QED
      BY <1>10, <3>2, <3>3, Zenon
  <2>2. CASE miam_table[id] # NULL /\ MiamEngine!LongerBy(miam_table[id], f, e)
    <3>1. id \in FileIds
      BY FrameFacts
    <3>2. e.fragment_list = Append(miam_table[id].fragment_list, x)
      BY <2>2 DEF MiamEngine!LongerBy, x
    <3> QED
      BY <1>8, <1>10, <2>2, <3>1, <3>2, Zenon
  <2> QED
    BY <1>2, <1>11, <2>1, <2>2 DEF MiamEngine!MakesEntry
<1> SUFFICES ASSUME NEW i \in FileIds, miam_table'[i] # NULL
             PROVE  \A j \in DOMAIN miam_table'[i].fragment_list :
                        WholeFragment(miam_table'[i].fragment_list[j])
  BY DEF SegmentsWhole, WholeFragment
<1>12. CASE miam_table'[i] = miam_table[i]
  BY <1>8, <1>12
<1>13. CASE miam_table'[i] # miam_table[i]
  <2>1. i = id
    BY <1>9, <1>13
  <2>2. PICK e \in MiamEngine!TableEntry :
            MiamEngine!MakesEntry(f, e) /\ miam_table'[id] \in {e, NULL}
    BY <1>2, <1>9, <1>13, <2>1 DEF MiamEngine!InOrderOutcome
  <2> QED
    BY <1>11, <2>1, <2>2
<1> QED
  BY <1>12, <1>13

\* A table of files from which entries are only removed keeps whole segments.
LEMMA WholeKept ==
    ASSUME SegmentsWhole, \A id \in FileIds : miam_table'[id] \in {miam_table[id], NULL}
    PROVE  SegmentsWhole'
<1> SUFFICES ASSUME NEW id \in FileIds, miam_table'[id] # NULL
             PROVE  \A i \in DOMAIN miam_table'[id].fragment_list :
                        WholeFragment(miam_table'[id].fragment_list[i])
  BY DEF SegmentsWhole, WholeFragment
<1>1. miam_table'[id] = miam_table[id]
  OBVIOUS
<1> QED
  BY <1>1 DEF SegmentsWhole, WholeFragment

\* A step that passes nothing on, and starts no call.
LEMMA QuietWhole ==
    ASSUME WholePassedOn, config' = config,
           \/ pc' \notin {"text", "apps"}
           \/ pc' = pc /\ block' = block /\ msg' = msg
    PROVE  WholePassedOn'
BY DEF WholePassedOn, Withheld

\* What a block that is parsed, and the choice of its text, pass on.
LEMMA PassedOnWhole ==
    ASSUME DecoderIInv, WholePassedOn, Decode \/ \E b \in Pieces : ParseBlock(b)
    PROVE  WholePassedOn'
<1>1. config.decode_fragments = FALSE /\ config.acars_bearer \in DOMAIN Profile
  BY DEF WholePassedOn
<1>2. ASSUME NEW b \in Pieces, ParseBlock(b)  PROVE WholePassedOn'
  <2>1. /\ pc = "idle" /\ pc' = "text" /\ block' = b /\ config' = config
        /\ Acars!FragmentAdd(AcarsInfo(b))
        /\ msg'.reasm_status = acars_last'.status
    BY <1>2 DEF ParseBlock, NoMsg
  <2>2. /\ acars_last'.status = "COMPLETE" => b.part = Blocks[b.frame]
        /\ Down(b.frame) /\ b.part = 1 /\ acars_last'.status \notin {"IN_PROGRESS", "DUPLICATE"}
              => b.part = Blocks[b.frame]
    BY <1>1, <2>1, ParsedEntries
  <2> QED
    BY <1>1, <2>1, <2>2 DEF WholePassedOn, Withheld
<1>3. CASE TakeReassembled
  <2>1. /\ pc = "text" /\ pc' = "apps" /\ config' = config /\ block' = block
        /\ msg.reasm_status = "COMPLETE"
    BY <1>3 DEF TakeReassembled
  <2>2. /\ msg' = [msg EXCEPT !.txt = msg'.txt]
        /\ Down(block.frame) /\ Starts(msg'.txt) /\ block.part = Blocks[block.frame] =>
               msg'.txt = Text(block.frame)
    BY <1>3, FetchedText
  <2>3. Down(block.frame) => block.part = Blocks[block.frame]
    BY <1>1, <2>1 DEF WholePassedOn, Withheld
  <2> QED
    BY <1>1, <2>1, <2>2, <2>3 DEF WholePassedOn
<1>4. CASE TakeOwnText
  <2>1. /\ pc = "text" /\ pc' = "apps" /\ config' = config /\ block' = block
        /\ msg' = [msg EXCEPT !.txt = <<Piece(block.frame, block.part)>>]
    BY <1>4 DEF TakeOwnText
  <2>2. /\ block \in Pieces
        /\ msg \in [err : BOOLEAN, reasm_status : Acars!Status, txt : Seq(Pieces)]
    BY <2>1, StateFacts
  <2>3. /\ msg'.txt = <<Piece(block.frame, block.part)>>
        /\ msg'.reasm_status = msg.reasm_status
    BY <2>1, <2>2
  <2>4. /\ msg'.txt[1] = block
        /\ Blocks[block.frame] = 1 => msg'.txt = Text(block.frame)
    BY <2>2, <2>3, OwnText
  <2>5. Starts(msg'.txt) => block.part = 1
    BY <2>4 DEF Starts
  <2> QED
    BY <1>1, <2>1, <2>3, <2>4, <2>5 DEF WholePassedOn, Withheld
<1>5. CASE WithholdText \/ OtherText \/ FileTransferRequest \/ FileSegment \/ FileComplete
           \/ SegmentOnly \/ TreeDestroy
  <2>1. config' = config /\ pc' \notin {"text", "apps"}
    BY <1>5 DEF WithholdText, OtherText, FileTransferRequest, FileSegment, FileComplete,
                SegmentOnly, TreeDestroy
  <2> QED
    BY <2>1, QuietWhole
<1> QED
  BY <1>2, <1>3, <1>4, <1>5 DEF Decode

\* The program starts with no segments, and options that are valid.
LEMMA InitWhole == OptionsValid /\ Init => WholeIInv
<1> SUFFICES ASSUME OptionsValid, Init  PROVE WholeIInv
  OBVIOUS
<1>1. DecoderIInv
  BY InitSound
<1>2. /\ config \in [decode_fragments : DecodeFragments, acars_bearer : Bearers]
      /\ pc = "idle"
      /\ miam_table = [id \in FileIds |-> NULL]
  BY DEF Init, Miam!Init
<1>3. WholePassedOn
  BY <1>2 DEF OptionsValid, WholePassedOn
<1>4. SegmentsWhole
  BY <1>2 DEF SegmentsWhole
<1> QED
  BY <1>1, <1>3, <1>4 DEF WholeIInv

\* A step of the decoder keeps the segments whole.
LEMMA DecodeWhole ==
    ASSUME WholeIInv, Decode
    PROVE  SegmentsWhole'
<1>1. DecoderIInv /\ WholePassedOn /\ SegmentsWhole /\ Miam!TypeOK
  BY StateFacts DEF WholeIInv
<1>2. CASE TakeReassembled \/ TakeOwnText \/ WithholdText \/ OtherText \/ SegmentOnly \/ TreeDestroy
  <2>1. miam_table' = miam_table
    BY <1>2 DEF TakeReassembled, TakeOwnText, WithholdText, OtherText, SegmentOnly,
                TreeDestroy, miamVars
  <2> QED
    BY <1>1, <2>1, WholeKept
<1>3. CASE FileComplete
  BY <1>1, <1>3, FetchedFile, WholeKept
<1>4. CASE FileTransferRequest \/ FileSegment
  <2>1. pc = "apps" /\ ~Withheld(msg.reasm_status)
    BY <1>4 DEF FileTransferRequest, FileSegment
  <2>2. block.frame \in Frames /\ PartOf(msg.txt, block.frame)
    BY <1>1, <2>1, StateFacts DEF DecoderIInv, TextSound
  <2>3. PICK fr \in Frames : fr = block.frame
    BY <2>2
  <2>4. /\ FrameIn(msg.txt) = fr
        /\ IsRequest(msg.txt) => PassedOn(fr, <<>>)
        /\ IsSegment(msg.txt) => PassedOn(fr, msg.txt)
    BY <2>2, <2>3, ReadAs
  <2>5. CASE FileTransferRequest
    <3>1. IsRequest(msg.txt) /\ Miam!FragmentAdd(MiamInfo(fr, <<>>))
      BY <2>4, <2>5 DEF FileTransferRequest
    <3>2. SegmentId[fr] = 0
      BY <2>4, <3>1, FilesAssumption DEF IsRequest
    <3> QED
      BY <1>1, <2>4, <3>1, <3>2, WholeAdded
  <2>6. CASE FileSegment
    <3>1. IsSegment(msg.txt) /\ Miam!FragmentAdd(MiamInfo(fr, msg.txt))
      BY <2>4, <2>6 DEF FileSegment
    <3>2. PICK txt : txt = msg.txt
      OBVIOUS
    <3>3. Down(fr) => txt = Text(fr)
      BY <1>1, <2>1, <2>3, <3>1, <3>2 DEF WholePassedOn, IsSegment
    <3> QED
      BY <1>1, <2>4, <3>1, <3>2, <3>3, WholeAdded
  <2> QED
    BY <1>4, <2>5, <2>6
<1> QED
  BY <1>2, <1>3, <1>4 DEF Decode

\* Every step keeps segments whole.
LEMMA WholeNextSound == OptionsValid /\ WholeIInv /\ [DecoderNext]_allVars => WholeIInv'
<1> SUFFICES ASSUME OptionsValid, WholeIInv, [DecoderNext]_allVars  PROVE WholeIInv'
  OBVIOUS
<1>1. DecoderIInv /\ WholePassedOn /\ SegmentsWhole /\ Miam!TypeOK
  BY StateFacts DEF WholeIInv
<1>2. DecoderIInv'
  BY <1>1, NextSound
<1> SUFFICES WholePassedOn' /\ SegmentsWhole'
  BY <1>2 DEF WholeIInv
<1>3. ASSUME miam_table' = miam_table, config' = config,
             \/ pc' \notin {"text", "apps"}
             \/ pc' = pc /\ block' = block /\ msg' = msg
      PROVE  WholePassedOn' /\ SegmentsWhole'
  BY <1>1, <1>3, QuietWhole, WholeKept
<1>4. ASSUME NEW file \in Files, Send(file)  PROVE WholePassedOn' /\ SegmentsWhole'
  BY <1>3, <1>4 DEF Send, miamVars
<1>5. ASSUME NEW b \in Pieces, BlockParsed(b)  PROVE WholePassedOn' /\ SegmentsWhole'
  <2>1. miam_table' = miam_table /\ ParseBlock(b)
    BY <1>5 DEF BlockParsed, ParseBlock, miamVars
  <2> QED
    BY <1>1, <2>1, PassedOnWhole, WholeKept
<1>6. ASSUME NEW b \in Pieces, BlockGivenUp(b)  PROVE WholePassedOn' /\ SegmentsWhole'
  <2>1. miam_table' = miam_table /\ config' = config /\ pc' = "done"
    BY <1>6 DEF BlockGivenUp, RejectBlock, EmptyUplink, miamVars
  <2> QED
    BY <1>3, <2>1
<1>7. CASE Decode
  BY <1>1, <1>7, PassedOnWhole, DecodeWhole
<1>8. CASE Configure
  <2>1. /\ config' \in [decode_fragments : DecodeFragments, acars_bearer : Bearers]
        /\ pc' = "idle"
        /\ miam_table' = miam_table
    BY <1>8 DEF Configure, miamVars
  <2>2. WholePassedOn'
    BY <2>1 DEF OptionsValid, WholePassedOn
  <2> QED
    BY <1>1, <2>1, <2>2, WholeKept
<1>9. CASE ContextDestroy
  <2>1. /\ config' = config /\ pc' = "idle"
        /\ \A id \in FileIds : miam_table'[id] = NULL
    BY <1>9 DEF ContextDestroy
  <2> QED
    BY <1>1, <2>1, QuietWhole, WholeKept
<1>10. CASE Tick
  BY <1>3, <1>10 DEF Tick, miamVars
<1>11. CASE UNCHANGED allVars
  BY <1>3, <1>11 DEF allVars, miamVars
<1> QED
  BY <1>4, <1>5, <1>6, <1>7, <1>8, <1>9, <1>10, <1>11 DEF DecoderNext

\* If fragments are not decoded and the bearer is one the timeout profiles
\* know, every segment of a downlink that waits in the table of miam.c is the
\* whole text of its frame.
THEOREM WholeSegments ==
    ASSUME OptionsValid
    PROVE  RadioSpec \/ OrderlySpec => []DecoderInv
<1>1. WholeIInv /\ [RadioNext]_allVars => [DecoderNext]_allVars
  BY RadioSteps DEF WholeIInv, DecoderIInv
<1>2. WholeIInv /\ [OrderlyNext]_allVars => [DecoderNext]_allVars
  BY OrderlySteps DEF WholeIInv, DecoderIInv
<1>3. OrderlySpec => Init /\ [][OrderlyNext]_allVars
  BY PTL DEF OrderlySpec
<1>4. Init => WholeIInv
  BY InitWhole
<1>5. WholeIInv /\ [DecoderNext]_allVars => WholeIInv'
  BY WholeNextSound
<1>6. WholeIInv => DecoderInv
  BY DEF WholeIInv, DecoderIInv, DecoderInv
<1> QED
  BY <1>1, <1>2, <1>3, <1>4, <1>5, <1>6, PTL DEF RadioSpec
=============================================================================
