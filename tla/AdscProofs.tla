----------------------------- MODULE AdscProofs -----------------------------
(***************************************************************************)
(* Theorems about Adsc, for every message of any length: its loops stay    *)
(* inside it and get on, and only a tag at which parsing failed is         *)
(* without a type.  The second half is about the messages of AdscSender,   *)
(* of any reports, cut anywhere: the parser follows their reports, and     *)
(* where it ends the tags are those of the reports that arrived whole.     *)
(* AppsProofs draws the conclusion for whole messages.                     *)
(***************************************************************************)
EXTENDS AdscSender, SequenceTheorems, WellFoundedInduction, TLAPS

\* A tag without a type is the last one, and its parser has failed or is in its
\* loop.
TagsSound ==
    /\ adsc_pc \in {"groups", "request"} => adsc_tags # <<>>
    /\ \A i \in 1 .. Len(adsc_tags) :
          adsc_tags[i].type = "NULL" =>
              /\ i = Len(adsc_tags)
              /\ adsc_pc \in {"groups", "request"} \/ (adsc_pc = "done" /\ adsc_err)

IInv == AdscTypeOK /\ AdscReadsInside /\ TagsSound

-----------------------------------------------------------------------------
(***************************************************************************)
(* The tables.                                                             *)
(***************************************************************************)

\* Every tag of a table has a type.
LEMMA TypeKnown ==
    ASSUME NEW table, NEW tag \in DOMAIN TypeIn(table)
    PROVE  TypeIn(table)[tag] \in TagTypes \ {"NULL"}
BY DEF TypeIn, UplinkType, DownlinkType, UplinkTags, DownlinkTags, TagTypes, Fixed

\* The lengths of parsers are numbers.
LEMMA LengthIsNumber ==
    ASSUME NEW table, NEW tag
    PROVE  FixedLength(table, tag) \in Nat
BY DEF FixedLength

\* A group is at least its name and its flags.
LEMMA GroupIsNumber ==
    ASSUME NEW flags \in Octets
    PROVE  /\ GroupLength(flags) \in Nat
           /\ GroupLength(flags) >= 2
<1>1. flags % 16 \in 0 .. 15
  BY DEF Octets
<1>2. /\ (flags % 16) \div 2 \in Nat
      /\ (flags % 16) % 2 \in Nat
  BY <1>1
<1> QED
  BY <1>2 DEF GroupLength

\* An octet of a message.
LEMMA OctetIsOctet ==
    ASSUME NEW buf \in Seq(Octets), NEW i \in 1 .. Len(buf)
    PROVE  buf[i] \in Octets
OBVIOUS

-----------------------------------------------------------------------------
(***************************************************************************)
(* Lists of tags.                                                          *)
(***************************************************************************)

\* A tag that has been parsed, or the one at which parsing fails, is added to
\* a list of tags with types.
LEMMA AppendSound ==
    ASSUME NEW tags \in Seq(AdscTags), NEW tag \in AdscTags,
           \A i \in 1 .. Len(tags) : tags[i].type # "NULL"
    PROVE  /\ Append(tags, tag) \in Seq(AdscTags)
           /\ Append(tags, tag) # <<>>
           /\ \A i \in 1 .. Len(Append(tags, tag)) :
                 Append(tags, tag)[i].type = "NULL" =>
                     /\ i = Len(Append(tags, tag))
                     /\ tag.type = "NULL"
<1> DEFINE new == Append(tags, tag)
<1>1. /\ new \in Seq(AdscTags)
      /\ Len(new) = Len(tags) + 1
      /\ Len(tags) \in Nat
      /\ new[Len(tags) + 1] = tag
      /\ \A i \in 1 .. Len(tags) : new[i] = tags[i]
  OBVIOUS
<1>2. new # <<>>
  BY <1>1
<1>3. ASSUME NEW i \in 1 .. Len(new), new[i].type = "NULL"
      PROVE  i = Len(new) /\ tag.type = "NULL"
  <2>1. i \in 1 .. Len(tags) \/ i = Len(new)
    BY <1>1, <1>3
  <2> HIDE DEF new
  <2> QED
    BY <1>1, <1>3, <2>1
<1> QED
  BY <1>1, <1>2, <1>3

\* The last tag is replaced.
LEMMA ReplaceSound ==
    ASSUME NEW tags \in Seq(AdscTags), tags # <<>>, NEW tag \in AdscTags,
           \A i \in 1 .. Len(tags) : tags[i].type = "NULL" => i = Len(tags)
    PROVE  LET new == [tags EXCEPT ![Len(tags)] = tag]
           IN  /\ new \in Seq(AdscTags)
               /\ new # <<>>
               /\ \A i \in 1 .. Len(new) :
                     new[i].type = "NULL" => i = Len(new) /\ tag.type = "NULL"
OBVIOUS

LEMMA TagIsTag ==
    ASSUME NEW tag \in Octets, NEW type \in TagTypes, NEW data \in BOOLEAN,
           NEW list \in Seq(RequestItems)
    PROVE  /\ Tag(tag, type, data, list) \in AdscTags
           /\ Tag(tag, type, data, list).type = type
BY DEF Tag, AdscTags

LEMMA NewTagIsTag ==
    ASSUME NEW tag \in Octets
    PROVE  /\ NewTag(tag) \in AdscTags
           /\ NewTag(tag) \in RequestItems
           /\ NewTag(tag).type = "NULL"
BY DEF NewTag, Tag, AdscTags, RequestItems, TagTypes

-----------------------------------------------------------------------------
(***************************************************************************)
(* What every parser of a tag can rely on, and the two ways it returns.    *)
(***************************************************************************)

LEMMA MessageFacts ==
    ASSUME IInv
    PROVE  /\ adsc_buf \in Seq(Octets)
           /\ Len(adsc_buf) \in Nat
           /\ adsc_at \in 0 .. Len(adsc_buf)
           /\ Left \in Nat
           /\ Left = Len(adsc_buf) - adsc_at
           /\ adsc_read \in Nat
           /\ adsc_tags \in Seq(AdscTags)
           /\ Len(adsc_tags) \in Nat
BY DEF IInv, AdscTypeOK, Left

LEMMA OctetLeft ==
    ASSUME IInv, NEW n \in 1 .. Left
    PROVE  /\ adsc_at + n \in 1 .. Len(adsc_buf)
           /\ adsc_buf[adsc_at + n] \in Octets
<1>1. adsc_at + n \in 1 .. Len(adsc_buf)
  BY MessageFacts
<1> QED
  BY <1>1, MessageFacts, OctetIsOctet

LEMMA TagReadFacts ==
    ASSUME IInv, TagRead
    PROVE  /\ TheTag \in Octets
           /\ Left >= 1
           /\ adsc_at + 1 <= Len(adsc_buf)
           /\ adsc_pc \in {"tags", "reason"}
           /\ adsc_table \in {"uplink", "downlink"}
           /\ adsc_err = FALSE
           /\ adsc_left \in Octets
           /\ \A i \in 1 .. Len(adsc_tags) : adsc_tags[i].type # "NULL"
<1>1. Left \in Nat /\ Left >= 1
  BY MessageFacts DEF TagRead
<1>2. TheTag \in Octets /\ adsc_at + 1 \in 1 .. Len(adsc_buf)
  BY <1>1, OctetLeft DEF TheTag
<1>3. adsc_pc \in {"tags", "reason"}
  BY DEF TagRead, InTags
<1>4. /\ adsc_table \in {"uplink", "downlink"}
      /\ ~adsc_err
      /\ adsc_left \in Octets
  BY <1>3 DEF IInv, AdscTypeOK, InParser
<1>5. \A i \in 1 .. Len(adsc_tags) : adsc_tags[i].type # "NULL"
  BY <1>3 DEF IInv, TagsSound
<1>6. adsc_err \in BOOLEAN
  BY DEF IInv, AdscTypeOK
<1> QED
  BY <1>1, <1>2, <1>3, <1>4, <1>5, <1>6, MessageFacts

LEMMA FailSound ==
    ASSUME IInv, TagRead, NEW tag \in AdscTags, tag.type = "NULL", Fail(tag),
           adsc_read' \in Nat, adsc_read' <= Len(adsc_buf)
    PROVE  IInv'
<1>1. /\ adsc_tags' = Append(adsc_tags, tag)
      /\ adsc_err' = TRUE
      /\ adsc_pc' = "done"
      /\ UNCHANGED <<adsc_table, adsc_buf, adsc_at, adsc_left>>
  BY DEF Fail
<1>2. /\ adsc_tags' \in Seq(AdscTags)
      /\ \A i \in 1 .. Len(adsc_tags') :
            adsc_tags'[i].type = "NULL" => i = Len(adsc_tags')
  BY <1>1, TagReadFacts, MessageFacts, AppendSound
<1>3. AdscTypeOK'
  BY <1>1, <1>2, TagReadFacts, MessageFacts DEF AdscTypeOK, InParser
<1>4. AdscReadsInside'
  BY <1>1 DEF AdscReadsInside
<1>5. TagsSound'
  BY <1>1, <1>2 DEF TagsSound
<1> QED
  BY <1>3, <1>4, <1>5 DEF IInv

LEMMA ParsedSound ==
    ASSUME IInv, TagRead, ~TagUnknown, NEW size \in Nat, LongEnough(size), Parsed(size)
    PROVE  IInv'
<1> DEFINE tag == Tag(TheTag, TheType, TheType # "empty", <<>>)
<1>1. /\ adsc_tags' = Append(adsc_tags, tag)
      /\ adsc_at' = adsc_at + 1 + size
      /\ adsc_read' = adsc_at + 1 + size
      /\ UNCHANGED <<adsc_table, adsc_buf, adsc_pc, adsc_left, adsc_err>>
  BY DEF Parsed
<1>2. TheType \in TagTypes \ {"NULL"}
  BY TypeKnown DEF TagUnknown, TheType
<1>3. <<>> \in Seq(RequestItems)
  OBVIOUS
<1>4. tag \in AdscTags /\ tag.type # "NULL"
  <2> DEFINE data == TheType # "empty"
  <2>1. data \in BOOLEAN
    OBVIOUS
  <2> HIDE DEF data
  <2>2. TheTag \in Octets /\ TheType \in TagTypes
    BY <1>2, TagReadFacts
  <2>3. /\ Tag(TheTag, TheType, data, <<>>) \in AdscTags
        /\ Tag(TheTag, TheType, data, <<>>).type = TheType
    BY <1>3, <2>1, <2>2, TagIsTag
  <2> QED
    BY <1>2, <2>3 DEF data
<1> HIDE DEF tag
<1>5. /\ adsc_tags' \in Seq(AdscTags)
      /\ \A i \in 1 .. Len(adsc_tags') : adsc_tags'[i].type # "NULL"
  BY <1>1, <1>4, TagReadFacts, MessageFacts, AppendSound
<1>6. adsc_at' \in 0 .. Len(adsc_buf')
  BY <1>1, MessageFacts DEF LongEnough
<1>7. AdscTypeOK'
  BY <1>1, <1>5, <1>6, TagReadFacts, MessageFacts DEF AdscTypeOK, InParser
<1>8. AdscReadsInside'
  BY <1>1, <1>6, MessageFacts DEF AdscReadsInside
<1>9. TagsSound'
  BY <1>1, <1>5, TagReadFacts DEF TagsSound
<1> QED
  BY <1>7, <1>8, <1>9 DEF IInv

(***************************************************************************)
(* The parsers without a loop.                                             *)
(***************************************************************************)

LEMMA UnknownTagSound ==
    ASSUME IInv, UnknownTag
    PROVE  IInv'
<1>1. TagRead /\ Fail(NewTag(TheTag)) /\ adsc_read' = adsc_at + 1
  BY DEF UnknownTag
<1> QED
  BY <1>1, TagReadFacts, NewTagIsTag, MessageFacts, FailSound

LEMMA EmptyTagSound ==
    ASSUME IInv, EmptyTag
    PROVE  IInv'
<1>1. TagRead /\ ~TagUnknown /\ Parsed(0)
  BY DEF EmptyTag
<1>2. LongEnough(0)
  BY <1>1, TagReadFacts, MessageFacts DEF LongEnough
<1> QED
  BY <1>1, <1>2, ParsedSound

LEMMA FixedTagSound ==
    ASSUME IInv, FixedTag
    PROVE  IInv'
<1> DEFINE size == FixedLength(adsc_table, TheTag)
           parses == LongEnough(size) /\ FieldsFit(adsc_table, TheTag)
           used == IF LongEnough(size) THEN size ELSE 0
<1>1. size \in Nat
  BY LengthIsNumber
<1>2. TagRead /\ ~TagUnknown
  BY DEF FixedTag
<1>3. \/ parses /\ Parsed(size)
      \/ /\ Fail(Tag(TheTag, "NULL", LongEnough(size), <<>>))
         /\ adsc_read' = adsc_at + 1 + used
  BY DEF FixedTag
<1>4. CASE parses /\ Parsed(size)
  <2> HIDE DEF size
  <2> QED
    BY <1>1, <1>2, <1>4, ParsedSound
<1>5. CASE /\ Fail(Tag(TheTag, "NULL", LongEnough(size), <<>>))
           /\ adsc_read' = adsc_at + 1 + used
  <2> HIDE DEF size
  <2>1. LongEnough(size) \in BOOLEAN
    BY DEF LongEnough
  <2>2. "NULL" \in TagTypes /\ <<>> \in Seq(RequestItems)
    BY DEF TagTypes
  <2>3. /\ Tag(TheTag, "NULL", LongEnough(size), <<>>) \in AdscTags
        /\ Tag(TheTag, "NULL", LongEnough(size), <<>>).type = "NULL"
    <3> DEFINE data == LongEnough(size)
    <3>1. data \in BOOLEAN
      BY <2>1
    <3> HIDE DEF data
    <3>2. TheTag \in Octets
      BY <1>2, TagReadFacts
    <3>3. /\ Tag(TheTag, "NULL", data, <<>>) \in AdscTags
          /\ Tag(TheTag, "NULL", data, <<>>).type = "NULL"
      BY <2>2, <3>1, <3>2, TagIsTag
    <3> QED
      BY <3>3 DEF data
  <2>4. adsc_read' \in Nat /\ adsc_read' <= Len(adsc_buf)
    BY <1>1, <1>2, <1>5, TagReadFacts, MessageFacts DEF LongEnough
  <2> QED
    BY <1>2, <1>5, <2>3, <2>4, FailSound
<1> QED
  BY <1>3, <1>4, <1>5

LEMMA NackTagSound ==
    ASSUME IInv, NackTag
    PROVE  IInv'
<1>1. TagRead /\ ~TagUnknown
  BY DEF NackTag
<1>2. \/ NackValid /\ Parsed(NackLength)
      \/ /\ Fail(NewTag(TheTag))
         /\ adsc_read' = IF LongEnough(2) THEN adsc_at + 3 ELSE adsc_at + 1
  BY DEF NackTag
<1>3. CASE NackValid /\ Parsed(NackLength)
  <2>1. NackLength \in Nat /\ LongEnough(NackLength)
    BY <1>3 DEF NackLength, NackValid
  <2> QED
    BY <1>1, <1>3, <2>1, ParsedSound
<1>4. CASE /\ Fail(NewTag(TheTag))
           /\ adsc_read' = IF LongEnough(2) THEN adsc_at + 3 ELSE adsc_at + 1
  <2>1. adsc_read' \in Nat /\ adsc_read' <= Len(adsc_buf)
    BY <1>1, <1>4, TagReadFacts, MessageFacts DEF LongEnough
  <2> QED
    BY <1>1, <1>4, <2>1, TagReadFacts, NewTagIsTag, FailSound
<1> QED
  BY <1>2, <1>3, <1>4

-----------------------------------------------------------------------------
(***************************************************************************)
(* The parsers with a loop.                                                *)
(***************************************************************************)

\* A list of tags whose last one may be without a type.
Open(tags) ==
    /\ tags \in Seq(AdscTags)
    /\ tags # <<>>
    /\ \A i \in 1 .. Len(tags) : tags[i].type = "NULL" => i = Len(tags)

LEMMA LoopFacts ==
    ASSUME IInv, adsc_pc \in {"groups", "request"}
    PROVE  /\ Open(adsc_tags)
           /\ LastTag \in AdscTags
           /\ adsc_table \in {"uplink", "downlink"}
           /\ adsc_err = FALSE
           /\ adsc_left \in Octets
<1>1. /\ adsc_table \in {"uplink", "downlink"}
      /\ adsc_left \in Octets
  BY DEF IInv, AdscTypeOK, InParser
<1>2. adsc_err = FALSE
  BY DEF IInv, AdscTypeOK, InParser
<1>3. Open(adsc_tags)
  BY MessageFacts DEF IInv, TagsSound, Open
<1>4. LastTag \in AdscTags
  BY <1>3 DEF Open, LastTag
<1> QED
  BY <1>1, <1>2, <1>3, <1>4

\* The last tag gets a type, another list, or both.
LEMMA WithLastOpen ==
    ASSUME IInv, adsc_pc \in {"groups", "request"}, NEW tag \in AdscTags
    PROVE  /\ Open(WithLast(tag))
           /\ tag.type # "NULL" =>
                 \A i \in 1 .. Len(WithLast(tag)) : WithLast(tag)[i].type # "NULL"
<1>1. /\ adsc_tags \in Seq(AdscTags)
      /\ adsc_tags # <<>>
      /\ \A i \in 1 .. Len(adsc_tags) : adsc_tags[i].type = "NULL" => i = Len(adsc_tags)
  BY LoopFacts DEF Open
<1> QED
  BY <1>1, ReplaceSound DEF WithLast, Open

LEMMA FailInsideSound ==
    ASSUME IInv, adsc_pc \in {"groups", "request"}, FailInside, Open(adsc_tags'),
           adsc_read' \in Nat, adsc_read' <= Len(adsc_buf)
    PROVE  IInv'
<1>1. /\ adsc_err' = TRUE
      /\ adsc_pc' = "done"
      /\ UNCHANGED <<adsc_table, adsc_buf, adsc_at, adsc_left>>
  BY DEF FailInside
<1>2. AdscTypeOK'
  BY <1>1, LoopFacts, MessageFacts DEF AdscTypeOK, InParser, Open
<1>3. AdscReadsInside' /\ TagsSound'
  BY <1>1 DEF AdscReadsInside, TagsSound, Open
<1> QED
  BY <1>2, <1>3 DEF IInv

\* A tag with a loop begins: it has data, but no type yet.
LEMMA LoopBegins ==
    ASSUME IInv, TagRead,
           adsc_tags' = Append(adsc_tags, Tag(TheTag, "NULL", TRUE, <<>>)),
           NEW n \in 1 .. Left, adsc_at' = adsc_at + n, adsc_read' = adsc_at + n,
           adsc_left' \in Octets, adsc_pc' \in {"groups", "request"},
           UNCHANGED <<adsc_table, adsc_buf, adsc_err>>
    PROVE  IInv'
<1>1. <<>> \in Seq(RequestItems) /\ "NULL" \in TagTypes
  BY DEF TagTypes
<1>2. Tag(TheTag, "NULL", TRUE, <<>>) \in AdscTags
  BY <1>1, TagReadFacts, TagIsTag
<1>3. Open(adsc_tags')
  BY <1>2, TagReadFacts, MessageFacts, AppendSound DEF Open
<1>4. adsc_at' \in 0 .. Len(adsc_buf') /\ adsc_read' \in Nat
  BY MessageFacts
<1>5. AdscTypeOK'
  <2>1. adsc_table' \in {"uplink", "downlink"} /\ adsc_err' = FALSE
    BY TagReadFacts
  <2>2. adsc_buf' \in Seq(Octets)
    BY MessageFacts
  <2> QED
    BY <1>3, <1>4, <2>1, <2>2 DEF AdscTypeOK, InParser, Open
<1>6. AdscReadsInside'
  BY <1>4, MessageFacts DEF AdscReadsInside
<1>7. TagsSound'
  BY <1>3 DEF TagsSound, Open
<1> QED
  BY <1>5, <1>6, <1>7 DEF IInv

\* Its loop is left: the tag gets its type.
LEMMA LoopEnds ==
    ASSUME IInv, adsc_pc \in {"groups", "request"},
           NEW type \in TagTypes \ {"NULL"}, adsc_tags' = TagDone(type),
           adsc_pc' = "tags", adsc_read' \in Nat, adsc_read' <= Len(adsc_buf),
           UNCHANGED <<adsc_table, adsc_buf, adsc_at, adsc_left, adsc_err>>
    PROVE  IInv'
<1> DEFINE tag == Tag(LastTag.tag, type, LastTag.data, LastTag.list)
<1>1. tag \in AdscTags /\ tag.type # "NULL"
  BY LoopFacts DEF AdscTags, Tag
<1>2. adsc_tags' = WithLast(tag)
  BY DEF TagDone
<1> HIDE DEF tag
<1>3. /\ Open(adsc_tags')
      /\ \A i \in 1 .. Len(adsc_tags') : adsc_tags'[i].type # "NULL"
  BY <1>1, <1>2, WithLastOpen
<1>4. AdscTypeOK'
  BY <1>3, LoopFacts, MessageFacts DEF AdscTypeOK, InParser, Open
<1>5. AdscReadsInside' /\ TagsSound'
  BY <1>3 DEF AdscReadsInside, TagsSound
<1> QED
  BY <1>4, <1>5 DEF IInv

LEMMA NoncompTagSound ==
    ASSUME IInv, NoncompTag
    PROVE  IInv'
<1>1. TagRead
  BY DEF NoncompTag
<1>2. \/ /\ LongEnough(2)
         /\ adsc_tags' = Append(adsc_tags, Tag(TheTag, "NULL", TRUE, <<>>))
         /\ adsc_left' = adsc_buf[adsc_at + 3]
         /\ adsc_at' = adsc_at + 3
         /\ adsc_read' = adsc_at + 3
         /\ adsc_pc' = "groups"
         /\ UNCHANGED <<adsc_table, adsc_buf, adsc_err>>
      \/ Fail(NewTag(TheTag)) /\ adsc_read' = adsc_at + 1
  BY DEF NoncompTag
<1>3. CASE /\ LongEnough(2)
           /\ adsc_tags' = Append(adsc_tags, Tag(TheTag, "NULL", TRUE, <<>>))
           /\ adsc_left' = adsc_buf[adsc_at + 3]
           /\ adsc_at' = adsc_at + 3
           /\ adsc_read' = adsc_at + 3
           /\ adsc_pc' = "groups"
           /\ UNCHANGED <<adsc_table, adsc_buf, adsc_err>>
  <2>1. 3 \in 1 .. Left
    BY <1>3, MessageFacts DEF LongEnough
  <2>2. adsc_left' \in Octets
    BY <1>3, <2>1, OctetLeft
  <2> QED
    BY <1>1, <1>3, <2>1, <2>2, LoopBegins
<1>4. CASE Fail(NewTag(TheTag)) /\ adsc_read' = adsc_at + 1
  BY <1>1, <1>4, TagReadFacts, NewTagIsTag, MessageFacts, FailSound
<1> QED
  BY <1>2, <1>3, <1>4

LEMMA RequestTagSound ==
    ASSUME IInv, RequestTag
    PROVE  IInv'
<1>1. TagRead
  BY DEF RequestTag
<1>2. \/ /\ LongEnough(1)
         /\ adsc_tags' = Append(adsc_tags, Tag(TheTag, "NULL", TRUE, <<>>))
         /\ adsc_at' = adsc_at + 2
         /\ adsc_read' = adsc_at + 2
         /\ adsc_pc' = "request"
         /\ UNCHANGED <<adsc_table, adsc_buf, adsc_left, adsc_err>>
      \/ Fail(NewTag(TheTag)) /\ adsc_read' = adsc_at + 1
  BY DEF RequestTag
<1>3. CASE /\ LongEnough(1)
           /\ adsc_tags' = Append(adsc_tags, Tag(TheTag, "NULL", TRUE, <<>>))
           /\ adsc_at' = adsc_at + 2
           /\ adsc_read' = adsc_at + 2
           /\ adsc_pc' = "request"
           /\ UNCHANGED <<adsc_table, adsc_buf, adsc_left, adsc_err>>
  <2>1. 2 \in 1 .. Left
    BY <1>3, MessageFacts DEF LongEnough
  <2>2. adsc_left' \in Octets
    BY <1>1, <1>3, TagReadFacts
  <2> QED
    BY <1>1, <1>3, <2>1, <2>2, LoopBegins
<1>4. CASE Fail(NewTag(TheTag)) /\ adsc_read' = adsc_at + 1
  BY <1>1, <1>4, TagReadFacts, NewTagIsTag, MessageFacts, FailSound
<1> QED
  BY <1>2, <1>3, <1>4

LEMMA NoncompReturnsSound ==
    ASSUME IInv, NoncompReturns
    PROVE  IInv'
<1>1. /\ adsc_pc \in {"groups", "request"}
      /\ adsc_tags' = TagDone("noncomp")
      /\ adsc_pc' = "tags"
      /\ UNCHANGED <<adsc_table, adsc_buf, adsc_at, adsc_left, adsc_err, adsc_read>>
  BY DEF NoncompReturns
<1>2. "noncomp" \in TagTypes \ {"NULL"}
  BY DEF TagTypes
<1>3. adsc_read' \in Nat /\ adsc_read' <= Len(adsc_buf)
  BY <1>1, MessageFacts DEF IInv, AdscReadsInside
<1> QED
  BY <1>1, <1>2, <1>3, LoopEnds

LEMMA RequestReturnsSound ==
    ASSUME IInv, RequestReturns
    PROVE  IInv'
<1>1. /\ adsc_pc \in {"groups", "request"}
      /\ adsc_tags' = TagDone("request")
      /\ adsc_pc' = "tags"
      /\ adsc_read' = IF Left = 0 THEN adsc_at ELSE adsc_at + 1
      /\ UNCHANGED <<adsc_table, adsc_buf, adsc_at, adsc_left, adsc_err>>
  BY DEF RequestReturns
<1>2. "request" \in TagTypes \ {"NULL"}
  BY DEF TagTypes
<1>3. adsc_read' \in Nat /\ adsc_read' <= Len(adsc_buf)
  BY <1>1, MessageFacts
<1> QED
  BY <1>1, <1>2, <1>3, LoopEnds

\* A group of a notification ends inside the message.
LEMMA GroupFits ==
    ASSUME IInv, adsc_pc = "groups"
    PROVE  LET size == IF Left < 2 THEN 2 ELSE GroupLength(adsc_buf[adsc_at + 2])
           IN  size \in Nat /\ size >= 2
<1>1. CASE Left < 2
  BY <1>1
<1>2. CASE ~(Left < 2)
  <2>1. 2 \in 1 .. Left
    BY <1>2, MessageFacts
  <2>2. adsc_buf[adsc_at + 2] \in Octets
    BY <2>1, OctetLeft
  <2> QED
    BY <1>2, <2>2, GroupIsNumber
<1> QED
  BY <1>1, <1>2

LEMMA NoncompGroupSound ==
    ASSUME IInv, NoncompGroup
    PROVE  IInv'
<1> DEFINE size == IF Left < 2 THEN 2 ELSE GroupLength(adsc_buf[adsc_at + 2])
<1>1. adsc_pc = "groups" /\ adsc_left > 0
  BY DEF NoncompGroup
<1>2. size \in Nat /\ size >= 2
  BY <1>1, GroupFits
<1>3. \/ /\ Left >= size
         /\ adsc_at' = adsc_at + size
         /\ adsc_read' = adsc_at + size
         /\ adsc_left' = adsc_left - 1
         /\ UNCHANGED <<adsc_table, adsc_buf, adsc_pc, adsc_tags, adsc_err>>
      \/ /\ Left >= size
         /\ FailInside
         /\ adsc_read' = adsc_at + size
         /\ UNCHANGED adsc_tags
      \/ /\ FailInside
         /\ adsc_read' = IF Left < 2 THEN adsc_at ELSE adsc_at + 2
         /\ UNCHANGED adsc_tags
  BY DEF NoncompGroup
<1> HIDE DEF size
<1>4. CASE /\ Left >= size
           /\ adsc_at' = adsc_at + size
           /\ adsc_read' = adsc_at + size
           /\ adsc_left' = adsc_left - 1
           /\ UNCHANGED <<adsc_table, adsc_buf, adsc_pc, adsc_tags, adsc_err>>
  <2>1. adsc_at' \in 0 .. Len(adsc_buf')
    BY <1>2, <1>4, MessageFacts
  <2>2. adsc_left' \in Octets
    BY <1>1, <1>4, LoopFacts DEF Octets
  <2>3. adsc_read' \in Nat
    BY <1>2, <1>4, MessageFacts
  <2>4. AdscTypeOK'
    BY <1>1, <1>4, <2>1, <2>2, <2>3, LoopFacts, MessageFacts DEF AdscTypeOK, InParser
  <2>5. AdscReadsInside'
    BY <1>2, <1>4, MessageFacts DEF AdscReadsInside
  <2>6. TagsSound'
    BY <1>1, <1>4 DEF IInv, TagsSound
  <2> QED
    BY <2>4, <2>5, <2>6 DEF IInv
<1>5. CASE /\ Left >= size
           /\ FailInside
           /\ adsc_read' = adsc_at + size
           /\ UNCHANGED adsc_tags
  <2>1. adsc_read' \in Nat /\ adsc_read' <= Len(adsc_buf)
    BY <1>2, <1>5, MessageFacts
  <2>2. Open(adsc_tags')
    BY <1>1, <1>5, LoopFacts
  <2> QED
    BY <1>1, <1>5, <2>1, <2>2, FailInsideSound
<1>6. CASE /\ FailInside
           /\ adsc_read' = IF Left < 2 THEN adsc_at ELSE adsc_at + 2
           /\ UNCHANGED adsc_tags
  <2>1. adsc_read' \in Nat /\ adsc_read' <= Len(adsc_buf)
    BY <1>6, MessageFacts
  <2>2. Open(adsc_tags')
    BY <1>1, <1>6, LoopFacts
  <2> QED
    BY <1>1, <1>6, <2>1, <2>2, FailInsideSound
<1> QED
  BY <1>3, <1>4, <1>5, <1>6

\* Another tag in the list of a request.
LEMMA ItemAdded ==
    ASSUME IInv, adsc_pc \in {"groups", "request"}, NEW item \in RequestItems,
           adsc_tags' = WithLast(Tag(LastTag.tag, "NULL", TRUE, Append(LastTag.list, item)))
    PROVE  Open(adsc_tags')
<1>1. Append(LastTag.list, item) \in Seq(RequestItems)
  <2>1. LastTag.list \in Seq(RequestItems)
    BY LoopFacts DEF AdscTags
  <2> QED
    BY <2>1
<1>2. LastTag.tag \in Octets /\ "NULL" \in TagTypes
  BY LoopFacts DEF AdscTags, TagTypes
<1>3. Tag(LastTag.tag, "NULL", TRUE, Append(LastTag.list, item)) \in AdscTags
  BY <1>1, <1>2, TagIsTag
<1> QED
  BY <1>3, WithLastOpen

LEMMA RequestItemSound ==
    ASSUME IInv, RequestItem
    PROVE  IInv'
<1> DEFINE known == TheTag \in RequestTags
           size == IF known /\ RequestType[TheTag] = Fixed
                   THEN FixedLength("request", TheTag) ELSE 0
           data == size > 0
           item == Tag(TheTag, "parsed", data, <<>>)
<1>1. adsc_pc = "request" /\ ~EndOfRequest
  BY DEF RequestItem
<1>2. size \in Nat
  BY LengthIsNumber
<1>3. Left >= 1 /\ TheTag \in Octets
  <2>1. Left >= 1
    BY <1>1, MessageFacts DEF EndOfRequest
  <2>2. 1 \in 1 .. Left
    BY <2>1, MessageFacts
  <2> QED
    BY <2>1, <2>2, OctetLeft DEF TheTag
<1>4. data \in BOOLEAN
  BY <1>2
<1>5. \/ /\ LongEnough(size)
         /\ adsc_tags' = WithLast(Tag(LastTag.tag, "NULL", TRUE, Append(LastTag.list, item)))
         /\ adsc_at' = adsc_at + 1 + size
         /\ adsc_read' = adsc_at + 1 + size
         /\ UNCHANGED <<adsc_table, adsc_buf, adsc_pc, adsc_left, adsc_err>>
      \/ /\ adsc_tags' =
              WithLast(Tag(LastTag.tag, "NULL", TRUE, Append(LastTag.list, NewTag(TheTag))))
         /\ FailInside
         /\ adsc_read' = adsc_at + 1
  BY DEF RequestItem
<1> HIDE DEF size, data
<1>6. item \in RequestItems
  <2>1. "parsed" \in TagTypes
    BY DEF TagTypes
  <2> QED
    BY <1>3, <1>4, <2>1 DEF Tag, RequestItems
<1> HIDE DEF item
<1>7. CASE /\ LongEnough(size)
           /\ adsc_tags' = WithLast(Tag(LastTag.tag, "NULL", TRUE, Append(LastTag.list, item)))
           /\ adsc_at' = adsc_at + 1 + size
           /\ adsc_read' = adsc_at + 1 + size
           /\ UNCHANGED <<adsc_table, adsc_buf, adsc_pc, adsc_left, adsc_err>>
  <2>1. adsc_at' \in 0 .. Len(adsc_buf') /\ adsc_read' \in Nat
    BY <1>2, <1>7, MessageFacts DEF LongEnough
  <2>2. Open(adsc_tags')
    BY <1>1, <1>6, <1>7, ItemAdded
  <2>3. AdscTypeOK'
    BY <1>1, <1>7, <2>1, <2>2, LoopFacts, MessageFacts DEF AdscTypeOK, InParser, Open
  <2>4. AdscReadsInside'
    BY <1>7, <2>1, MessageFacts DEF AdscReadsInside
  <2>5. TagsSound'
    BY <1>1, <1>7, <2>2 DEF TagsSound, Open
  <2> QED
    BY <2>3, <2>4, <2>5 DEF IInv
<1>8. CASE /\ adsc_tags' =
                WithLast(Tag(LastTag.tag, "NULL", TRUE, Append(LastTag.list, NewTag(TheTag))))
           /\ FailInside
           /\ adsc_read' = adsc_at + 1
  <2>1. NewTag(TheTag) \in RequestItems
    BY <1>3, NewTagIsTag
  <2>2. Open(adsc_tags')
    BY <1>1, <1>8, <2>1, ItemAdded
  <2>3. adsc_read' \in Nat /\ adsc_read' <= Len(adsc_buf)
    BY <1>3, <1>8, MessageFacts
  <2> QED
    BY <1>1, <1>8, <2>2, <2>3, FailInsideSound
<1> QED
  BY <1>5, <1>7, <1>8

-----------------------------------------------------------------------------
(***************************************************************************)
(* The calls.                                                              *)
(***************************************************************************)

LEMMA AdscReturnsSound ==
    ASSUME IInv, AdscReturns
    PROVE  IInv'
<1>1. adsc_pc \in {"tags", "reason"} /\ adsc_pc' = "done"
  BY DEF AdscReturns
<1>2. UNCHANGED <<adsc_table, adsc_buf, adsc_at, adsc_left, adsc_tags, adsc_err, adsc_read>>
  BY DEF AdscReturns
<1>3. AdscTypeOK'
  BY <1>1, <1>2, MessageFacts DEF IInv, AdscTypeOK, InParser
<1>4. AdscReadsInside' /\ TagsSound'
  BY <1>1, <1>2 DEF IInv, AdscReadsInside, TagsSound
<1> QED
  BY <1>3, <1>4 DEF IInv

\* Whatever octets it is called with.
LEMMA AdscParseSound ==
    ASSUME IInv, NEW payload, payload.octets \in Seq(Octets), AdscParse(payload)
    PROVE  IInv'
<1>1. /\ adsc_table' = TableFor(payload.dir)
      /\ adsc_at' = 0
      /\ adsc_tags' = <<>>
      /\ adsc_read' = 0
      /\ adsc_left' = adsc_left
  BY DEF AdscParse
<1>2. payload.octets \in Seq(Octets)
  OBVIOUS
<1>3. /\ adsc_buf' \in Seq(Octets)
      /\ adsc_pc' \in {"tags", "reason", "done"}
      /\ adsc_err' \in BOOLEAN
      /\ adsc_pc' # "done" => ~adsc_err'
  <2>1. CASE payload.imi = "ADS"
    BY <1>2, <2>1 DEF AdscParse
  <2>2. CASE payload.imi = "DIS" /\ payload.octets = <<>>
    <3>1. <<>> \in Seq(Octets)
      OBVIOUS
    <3>2. adsc_buf' = <<>> /\ adsc_pc' = "done" /\ adsc_err' = TRUE
      BY <2>2 DEF AdscParse
    <3> QED
      BY <3>1, <3>2
  <2>3. CASE payload.imi = "DIS" /\ payload.octets # <<>>
    <3> DEFINE reason == Head(payload.octets)
    <3>1. reason \in Octets
      <4> DEFINE octets == payload.octets
      <4>1. octets \in Seq(Octets) /\ octets # <<>>
        BY <1>2, <2>3
      <4> HIDE DEF octets
      <4>2. Head(octets) \in Octets
        BY <4>1
      <4> QED
        BY <4>2 DEF octets
    <3>2. 255 \in Octets
      BY DEF Octets
    <3>3. /\ adsc_buf' = <<255, reason>>
          /\ adsc_pc' = "reason"
          /\ adsc_err' = FALSE
      BY <2>3 DEF AdscParse
    <3> HIDE DEF reason
    <3>4. <<255, reason>> \in Seq(Octets)
      BY <3>1, <3>2
    <3> QED
      BY <3>3, <3>4
  <2>4. \/ payload.imi = "ADS"
        \/ payload.imi = "DIS" /\ payload.octets = <<>>
        \/ payload.imi = "DIS" /\ payload.octets # <<>>
    BY DEF AdscParse
  <2> QED
    BY <2>1, <2>2, <2>3, <2>4
<1>4. adsc_table' \in {"uplink", "downlink"}
  BY <1>1 DEF TableFor
<1>5. adsc_left \in Octets
  BY DEF IInv, AdscTypeOK
<1>6. Len(adsc_buf') \in Nat
  BY <1>3
<1>7. <<>> \in Seq(AdscTags)
  OBVIOUS
<1>8. AdscTypeOK'
  BY <1>1, <1>3, <1>4, <1>5, <1>6, <1>7 DEF AdscTypeOK, InParser
<1>9. AdscReadsInside' /\ TagsSound'
  BY <1>1, <1>3, <1>6 DEF AdscReadsInside, TagsSound
<1> QED
  BY <1>8, <1>9 DEF IInv

LEMMA AdscDestroySound ==
    ASSUME IInv, AdscDestroy
    PROVE  IInv'
<1>1. AdscTypeOK'
  <2>1. adsc_buf' \in Seq(Octets) /\ Len(adsc_buf') = 0
    BY DEF AdscDestroy
  <2>2. adsc_tags' \in Seq(AdscTags)
    BY DEF AdscDestroy
  <2>3. /\ adsc_at' = 0
        /\ adsc_pc' = "idle"
        /\ adsc_left' = 0
        /\ adsc_err' = FALSE
        /\ adsc_read' = 0
    BY DEF AdscDestroy
  <2>4. adsc_left' \in Octets
    BY <2>3 DEF Octets
  <2>5. adsc_table' \in {"NULL", "uplink", "downlink"}
    BY DEF IInv, AdscTypeOK, AdscDestroy
  <2>6. adsc_at' \in 0 .. Len(adsc_buf')
    BY <2>1, <2>3
  <2>7. ~InParser'
    BY <2>3 DEF InParser
  <2>8. adsc_read' \in Nat /\ adsc_err' \in BOOLEAN
    BY <2>3
  <2> QED
    BY <2>1, <2>2, <2>3, <2>4, <2>5, <2>6, <2>7, <2>8 DEF AdscTypeOK
<1>2. AdscReadsInside' /\ TagsSound'
  BY DEF AdscReadsInside, TagsSound, AdscDestroy
<1> QED
  BY <1>1, <1>2 DEF IInv

LEMMA StutterSound ==
    ASSUME IInv, UNCHANGED adscVars
    PROVE  IInv'
<1>1. AdscTypeOK'
  BY DEF IInv, AdscTypeOK, InParser, adscVars
<1>2. AdscReadsInside' /\ TagsSound'
  BY DEF IInv, AdscReadsInside, TagsSound, adscVars
<1> QED
  BY <1>1, <1>2 DEF IInv

LEMMA InitSound == AdscInit => IInv
<1> SUFFICES ASSUME AdscInit
             PROVE  IInv
  OBVIOUS
<1>1. AdscTypeOK
  <2>1. adsc_buf \in Seq(Octets) /\ Len(adsc_buf) = 0
    BY DEF AdscInit
  <2>2. adsc_tags \in Seq(AdscTags)
    BY DEF AdscInit
  <2>3. /\ adsc_table = "NULL"
        /\ adsc_at = 0
        /\ adsc_pc = "idle"
        /\ adsc_left = 0
        /\ adsc_err = FALSE
        /\ adsc_read = 0
    BY DEF AdscInit
  <2>4. adsc_left \in Octets
    BY <2>3 DEF Octets
  <2>5. adsc_at \in 0 .. Len(adsc_buf)
    BY <2>1, <2>3
  <2>6. ~InParser
    BY <2>3 DEF InParser
  <2>7. adsc_read \in Nat /\ adsc_err \in BOOLEAN
    BY <2>3
  <2> QED
    BY <2>1, <2>2, <2>3, <2>4, <2>5, <2>6, <2>7 DEF AdscTypeOK
<1>2. AdscReadsInside /\ TagsSound
  BY DEF AdscInit, AdscReadsInside, TagsSound
<1> QED
  BY <1>1, <1>2 DEF IInv

LEMMA AdscStepSound ==
    ASSUME IInv, AdscStep
    PROVE  IInv'
<1>1. CASE UnknownTag
  BY <1>1, UnknownTagSound
<1>2. CASE EmptyTag
  BY <1>2, EmptyTagSound
<1>3. CASE FixedTag
  BY <1>3, FixedTagSound
<1>4. CASE NackTag
  BY <1>4, NackTagSound
<1>5. CASE NoncompTag
  BY <1>5, NoncompTagSound
<1>6. CASE NoncompGroup
  BY <1>6, NoncompGroupSound
<1>7. CASE NoncompReturns
  BY <1>7, NoncompReturnsSound
<1>8. CASE RequestTag
  BY <1>8, RequestTagSound
<1>9. CASE RequestItem
  BY <1>9, RequestItemSound
<1>10. CASE RequestReturns
  BY <1>10, RequestReturnsSound
<1>11. CASE AdscReturns
  BY <1>11, AdscReturnsSound
<1> QED
  BY <1>1, <1>2, <1>3, <1>4, <1>5, <1>6, <1>7, <1>8, <1>9, <1>10, <1>11 DEF AdscStep

LEMMA NextSound == IInv /\ [AdscNext]_adscVars => IInv'
<1> SUFFICES ASSUME IInv, [AdscNext]_adscVars
             PROVE  IInv'
  OBVIOUS
<1>1. ASSUME NEW payload \in AdscPayloads, AdscParse(payload)
      PROVE  IInv'
  <2>1. payload.octets \in Seq(Octets)
    BY PayloadAssumption
  <2> QED
    BY <1>1, <2>1, AdscParseSound
<1>2. CASE AdscStep
  BY <1>2, AdscStepSound
<1>3. CASE AdscDestroy
  BY <1>3, AdscDestroySound
<1>4. CASE UNCHANGED adscVars
  BY <1>4, StutterSound
<1> QED
  BY <1>1, <1>2, <1>3, <1>4 DEF AdscNext

LEMMA AdscInvariance == AdscSpec => []IInv
BY InitSound, NextSound, PTL DEF AdscSpec

(***************************************************************************)
(* The variables of the parser of ADS-C have their types.                  *)
(***************************************************************************)
THEOREM AdscTypes == AdscSpec => []AdscTypeOK
<1>1. IInv => AdscTypeOK
  BY DEF IInv
<1> QED
  BY <1>1, AdscInvariance, PTL

(***************************************************************************)
(* No parser of a tag reads after the end of the message, whatever the     *)
(* message is (LA_ADSC_CHECK_LEN and the tests of the loops are enough).   *)
(***************************************************************************)
THEOREM AdscStaysInside == AdscSpec => []AdscReadsInside
<1>1. IInv => AdscReadsInside
  BY DEF IInv
<1> QED
  BY <1>1, AdscInvariance, PTL

(***************************************************************************)
(* When la_adsc_parse returns, only the last tag can be one that           *)
(* la_adsc_tag_destroy does not know how to free, and only if it failed.   *)
(***************************************************************************)
THEOREM AdscLeaksAtMostOne == AdscSpec => []OnlyFailedTagLeaks
<1>1. IInv => OnlyFailedTagLeaks
  BY DEF IInv, TagsSound, OnlyFailedTagLeaks
<1> QED
  BY <1>1, AdscInvariance, PTL

-----------------------------------------------------------------------------
(***************************************************************************)
(* Every iteration of a loop that does not end it uses up some of the      *)
(* message, so that the loops end.                                         *)
(***************************************************************************)
LEMMA StepAdvances ==
    ASSUME IInv, AdscNext, SameLoop
    PROVE  adsc_at' > adsc_at
<1>1. /\ adsc_pc \in {"tags", "groups", "request"}
      /\ adsc_pc' = adsc_pc
  BY DEF SameLoop
<1>2. ASSUME NEW size \in Nat, adsc_at' = adsc_at + 1 + size
      PROVE  adsc_at' > adsc_at
  BY <1>2, MessageFacts
<1>3. ASSUME NEW payload \in AdscPayloads, AdscParse(payload)
      PROVE  FALSE
  BY <1>1, <1>3 DEF AdscParse
<1>4. CASE EmptyTag \/ FixedTag \/ NackTag
  <2>1. ASSUME NEW tag, Fail(tag)
        PROVE  FALSE
    BY <1>1, <2>1 DEF Fail
  <2>2. ASSUME NEW size \in Nat, Parsed(size)
        PROVE  adsc_at' > adsc_at
    BY <1>2, <2>2 DEF Parsed
  <2>3. CASE EmptyTag
    BY <2>2, <2>3 DEF EmptyTag
  <2>4. CASE FixedTag
    BY <2>1, <2>2, <2>4, LengthIsNumber DEF FixedTag
  <2>5. CASE NackTag
    <3>1. NackLength \in Nat
      BY DEF NackLength
    <3> QED
      BY <2>1, <2>2, <2>5, <3>1 DEF NackTag
  <2> QED
    BY <1>4, <2>3, <2>4, <2>5
<1>5. CASE UnknownTag
  BY <1>1, <1>5 DEF UnknownTag, Fail
<1>6. CASE NoncompTag
  BY <1>1, <1>6 DEF NoncompTag, Fail, TagRead, InTags
<1>7. CASE NoncompGroup
  <2> DEFINE size == IF Left < 2 THEN 2 ELSE GroupLength(adsc_buf[adsc_at + 2])
  <2>1. adsc_pc = "groups"
    BY <1>7 DEF NoncompGroup
  <2>2. size \in Nat /\ size >= 2
    BY <2>1, GroupFits
  <2>3. adsc_at' = adsc_at + size
    BY <1>1, <1>7 DEF NoncompGroup, FailInside
  <2> HIDE DEF size
  <2> QED
    BY <2>2, <2>3, MessageFacts
<1>8. CASE NoncompReturns \/ RequestReturns \/ AdscReturns \/ AdscDestroy
  BY <1>1, <1>8 DEF NoncompReturns, RequestReturns, AdscReturns, AdscDestroy
<1>9. CASE RequestTag
  BY <1>1, <1>9 DEF RequestTag, Fail, TagRead, InTags
<1>10. CASE RequestItem
  <2> DEFINE known == TheTag \in RequestTags
             size == IF known /\ RequestType[TheTag] = Fixed
                     THEN FixedLength("request", TheTag) ELSE 0
  <2>1. size \in Nat
    BY LengthIsNumber
  <2>2. adsc_at' = adsc_at + 1 + size
    BY <1>1, <1>10 DEF RequestItem, FailInside
  <2> HIDE DEF size
  <2> QED
    BY <1>2, <2>1, <2>2
<1> QED
  BY <1>3, <1>4, <1>5, <1>6, <1>7, <1>8, <1>9, <1>10 DEF AdscNext, AdscStep

THEOREM AdscGetsOn == AdscSpec => AdscAdvances
<1>1. IInv /\ [AdscNext]_adscVars => [SameLoop => adsc_at' > adsc_at]_adscVars
  BY StepAdvances
<1> QED
  BY <1>1, AdscInvariance, PTL DEF AdscSpec, AdscAdvances

-----------------------------------------------------------------------------
\* What holds of 0 and with each number of the next holds up to n.
LEMMA UpTo ==
    ASSUME NEW n \in Nat, NEW S, 0 \in S, \A i \in 0 .. n - 1 : i \in S => i + 1 \in S
    PROVE  \A i \in 0 .. n : i \in S
<1> DEFINE T == {i \in 0 .. n : i \notin S}
<1>1. ASSUME T # {}  PROVE FALSE
  <2>1. IsWellFoundedOn(OpToRel(<, Nat), Nat)
    BY NatLessThanWellFounded
  <2>2. T \in SUBSET Nat
    OBVIOUS
  <2>3. PICK m \in T : \A i \in T : ~(<<i, m>> \in OpToRel(<, Nat))
    BY <1>1, <2>1, <2>2, WFMin
  <2>4. m \in 0 .. n /\ m \notin S /\ m # 0
    BY <2>3
  <2>5. m - 1 \in 0 .. n - 1 /\ m - 1 \in 0 .. n /\ m - 1 + 1 = m /\ m - 1 < m
    BY <2>4
  <2>6. m - 1 \in T
    BY <2>4, <2>5
  <2>7. ~(m - 1 < m)
    BY <2>2, <2>3, <2>6 DEF OpToRel
  <2> QED
    BY <2>5, <2>7
<1> QED
  BY <1>1

-----------------------------------------------------------------------------
(***************************************************************************)
(* Sequences.                                                              *)
(***************************************************************************)

\* Two sequences, one after the other.
LEMMA Concatenated ==
    ASSUME NEW S, NEW a \in Seq(S), NEW b \in Seq(S)
    PROVE  /\ a \o b \in Seq(S)
           /\ Len(a \o b) = Len(a) + Len(b)
           /\ \A i \in 1 .. Len(a) : (a \o b)[i] = a[i]
           /\ \A i \in 1 .. Len(b) : (a \o b)[Len(a) + i] = b[i]
OBVIOUS

\* A function on the numbers up to n is a sequence.
LEMMA IsSequence ==
    ASSUME NEW S, NEW n \in Nat, NEW q, q = [i \in 1 .. n |-> q[i]],
           \A i \in 1 .. n : q[i] \in S
    PROVE  q \in Seq(S) /\ Len(q) = n
<1>1. q \in [1 .. n -> S]
  BY Zenon
<1> QED
  BY <1>1

\* The first n elements.
LEMMA FirstOnes ==
    ASSUME NEW S, NEW q \in Seq(S), NEW n \in 0 .. Len(q)
    PROVE  /\ SubSeq(q, 1, n) \in Seq(S)
           /\ Len(SubSeq(q, 1, n)) = n
           /\ \A i \in 1 .. n : SubSeq(q, 1, n)[i] = q[i]
<1>1. Len(q) \in Nat /\ \A i \in 1 .. Len(q) : q[i] \in S
  OBVIOUS
<1>2. n \in Nat /\ \A i \in 1 .. n : q[i] \in S
  BY <1>1
<1>3. /\ SubSeq(q, 1, n) \in Seq(S)
      /\ Len(SubSeq(q, 1, n)) = IF 1 <= n THEN n - 1 + 1 ELSE 0
      /\ \A i \in 1 .. n - 1 + 1 : SubSeq(q, 1, n)[i] = q[1 + i - 1]
  BY <1>2, SubSeqProperties
<1> DEFINE t == SubSeq(q, 1, n)
<1> HIDE DEF t
<1>4. t \in Seq(S) /\ Len(t) = n
  BY <1>2, <1>3 DEF t
<1>5. ASSUME NEW i \in 1 .. n  PROVE t[i] = q[i]
  <2>1. i \in 1 .. n - 1 + 1 /\ 1 + i - 1 = i
    BY <1>2
  <2> QED
    BY <1>3, <2>1 DEF t
<1> QED
  BY <1>4, <1>5 DEF t

\* The elements from m on.
LEMMA LastOnes ==
    ASSUME NEW S, NEW q \in Seq(S), NEW m \in 1 .. Len(q) + 1
    PROVE  /\ SubSeq(q, m, Len(q)) \in Seq(S)
           /\ Len(SubSeq(q, m, Len(q))) = Len(q) - m + 1
           /\ \A i \in 1 .. Len(q) - m + 1 : SubSeq(q, m, Len(q))[i] = q[m + i - 1]
<1> DEFINE n == Len(q)
           t == SubSeq(q, m, n)
<1>1. n \in Nat /\ \A i \in 1 .. n : q[i] \in S
  OBVIOUS
<1> HIDE DEF n
<1>2. m \in Int /\ n \in Int /\ \A i \in m .. n : q[i] \in S
  BY <1>1 DEF n
<1>3. /\ t \in Seq(S)
      /\ Len(t) = IF m <= n THEN n - m + 1 ELSE 0
      /\ \A i \in 1 .. n - m + 1 : t[i] = q[m + i - 1]
  BY <1>2, SubSeqProperties
<1> HIDE DEF t
<1>4. m \in 1 .. n + 1
  BY DEF n
<1>5. Len(t) = n - m + 1
  BY <1>1, <1>3, <1>4
<1> QED
  BY <1>3, <1>5 DEF t, n

-----------------------------------------------------------------------------
\* g flattens the first n of seqs, position by position.
Flattens(g, seqs, n) ==
    g = [i \in 1 .. n |-> IF i = 1 THEN seqs[i] ELSE g[i - 1] \o seqs[i]]

Flattening(seqs) == CHOOSE g : Flattens(g, seqs, Len(seqs))

\* Flattening a sequence is the last element of the function that does so.
LEMMA FlattenIsLast ==
    ASSUME NEW seqs, Len(seqs) # 0
    PROVE  FlattenSeq(seqs) = Flattening(seqs)[Len(seqs)]
BY DEF FlattenSeq, Flattening, Flattens

\* It exists.
LEMMA FlattenExists ==
    ASSUME NEW seqs, NEW n \in Nat
    PROVE  \E g : Flattens(g, seqs, n)
<1> DEFINE S == {i \in Nat : \E g : Flattens(g, seqs, i)}
<1>1. 0 \in S
  <2> DEFINE g == [i \in 1 .. 0 |-> <<>>]
  <2>1. 1 .. 0 = {}
    OBVIOUS
  <2>2. g = [i \in 1 .. 0 |-> IF i = 1 THEN seqs[i] ELSE g[i - 1] \o seqs[i]]
    BY <2>1
  <2> QED
    BY <2>2 DEF Flattens
<1>2. ASSUME NEW j \in 0 .. n - 1, j \in S  PROVE j + 1 \in S
  <2>1. PICK r : Flattens(r, seqs, j)
    BY <1>2
  <2> DEFINE final == IF j = 0 THEN seqs[j + 1] ELSE r[j] \o seqs[j + 1]
             g     == [i \in 1 .. j + 1 |-> IF i <= j THEN r[i] ELSE final]
  <2> HIDE DEF final
  <2>2. \A i \in 1 .. j : r[i] = IF i = 1 THEN seqs[i] ELSE r[i - 1] \o seqs[i]
    <3>1. r = [i \in 1 .. j |-> IF i = 1 THEN seqs[i] ELSE r[i - 1] \o seqs[i]]
      BY <2>1 DEF Flattens
    <3> QED
      BY <3>1
  <2>3. /\ \A i \in 1 .. j : g[i] = r[i]
        /\ g[j + 1] = final
        /\ g = [i \in 1 .. j + 1 |-> g[i]]
    OBVIOUS
  <2> HIDE DEF g
  <2>4. ASSUME NEW i \in 1 .. j + 1
        PROVE  g[i] = IF i = 1 THEN seqs[i] ELSE g[i - 1] \o seqs[i]
    <3>1. CASE i \in 1 .. j
      <4>1. i # 1 => i - 1 \in 1 .. j
        BY <3>1
      <4> QED
        BY <2>2, <2>3, <3>1, <4>1, Zenon
    <3>2. CASE i = j + 1
      <4>1. CASE j = 0
        BY <2>3, <3>2, <4>1 DEF final
      <4>2. CASE j # 0
        <5>1. i # 1 /\ i - 1 = j /\ j \in 1 .. j
          BY <3>2, <4>2
        <5>2. g[i - 1] = r[j]
          BY <2>3, <5>1
        <5>3. g[i] = r[j] \o seqs[i]
          BY <2>3, <3>2, <4>2 DEF final
        <5> QED
          BY <5>1, <5>2, <5>3, Zenon
      <4> QED
        BY <4>1, <4>2
    <3>3. i \in 1 .. j \/ i = j + 1
      OBVIOUS
    <3> QED
      BY <3>1, <3>2, <3>3, Zenon
  <2> DEFINE next(i) == IF i = 1 THEN seqs[i] ELSE g[i - 1] \o seqs[i]
  <2>5. g = [i \in 1 .. j + 1 |-> next(i)]
    <3>1. \A i \in 1 .. j + 1 : g[i] = next(i)
      BY <2>4
    <3> HIDE DEF next
    <3> QED
      BY <2>3, <3>1
  <2>6. Flattens(g, seqs, j + 1)
    BY <2>5 DEF Flattens
  <2>7. j + 1 \in Nat
    OBVIOUS
  <2> QED
    BY <2>6, <2>7
<1>3. \A i \in 0 .. n : i \in S
  <2> HIDE DEF S
  <2> QED
    BY <1>1, <1>2, UpTo
<1> QED
  BY <1>3

\* Appending a sequence appends its elements.
LEMMA FlattenAppend ==
    ASSUME NEW A, NEW seqs \in Seq(Seq(A)), NEW x \in Seq(A)
    PROVE  /\ FlattenSeq(<<>>) = <<>>
           /\ FlattenSeq(seqs) \in Seq(A)
           /\ FlattenSeq(Append(seqs, x)) = FlattenSeq(seqs) \o x
<1> DEFINE n    == Len(seqs)
           more == Append(seqs, x)
           g    == Flattening(seqs)
           h    == Flattening(more)
<1>1. /\ n \in Nat
      /\ more \in Seq(Seq(A))
      /\ Len(more) = n + 1
      /\ \A i \in 1 .. n : more[i] = seqs[i]
      /\ more[n + 1] = x
  BY LenProperties, AppendProperties
<1>2. FlattenSeq(<<>>) = <<>>
  BY DEF FlattenSeq
<1>3. Flattens(g, seqs, n) /\ Flattens(h, more, n + 1)
  <2>1. /\ \E r : Flattens(r, seqs, n)
        /\ \E r : Flattens(r, more, n + 1)
    <3>1. n \in Nat /\ n + 1 \in Nat
      BY <1>1
    <3> HIDE DEF n, more
    <3> QED
      BY <3>1, FlattenExists
  <2>2. Len(more) = n + 1 /\ Len(seqs) = n
    BY <1>1
  <2> HIDE DEF n, more
  <2> QED
    BY <2>1, <2>2 DEF Flattening
<1>4. \A i \in 1 .. n : seqs[i] \in Seq(A)
  BY ElementOfSeq
<1>5. FlattenSeq(more) = h[n + 1]
  <2>1. Len(more) = n + 1 /\ n + 1 # 0
    BY <1>1
  <2> HIDE DEF more, n
  <2> QED
    BY <2>1, FlattenIsLast DEF h
<1>6. n # 0 => FlattenSeq(seqs) = g[n]
  BY FlattenIsLast
<1> HIDE DEF n, more, g, h
<1>7. \A i \in 1 .. n : g[i] = IF i = 1 THEN seqs[i] ELSE g[i - 1] \o seqs[i]
  <2>1. g = [i \in 1 .. n |-> IF i = 1 THEN seqs[i] ELSE g[i - 1] \o seqs[i]]
    BY <1>3 DEF Flattens
  <2> QED
    BY <2>1
<1>8. \A i \in 1 .. n + 1 : h[i] = IF i = 1 THEN more[i] ELSE h[i - 1] \o more[i]
  <2>1. h = [i \in 1 .. n + 1 |-> IF i = 1 THEN more[i] ELSE h[i - 1] \o more[i]]
    BY <1>3 DEF Flattens
  <2> QED
    BY <2>1
<1>9. CASE n = 0
  <2>1. seqs = <<>>
    <3>1. Len(seqs) = 0
      BY <1>9 DEF n
    <3> QED
      BY <3>1, EmptySeq
  <2>2. h[n + 1] = x
    <3>1. n + 1 = 1 /\ n + 1 \in 1 .. n + 1
      BY <1>9
    <3> QED
      BY <1>1, <1>8, <3>1, Zenon
  <2>3. <<>> \o x = x
    OBVIOUS
  <2>4. <<>> \in Seq(A)
    OBVIOUS
  <2> QED
    BY <1>2, <1>5, <1>9, <2>1, <2>2, <2>3, <2>4 DEF more
<1>10. CASE n # 0
  <2> DEFINE S == {0} \cup {i \in 1 .. n : g[i] = h[i] /\ g[i] \in Seq(A)}
  <2>1. ASSUME NEW i \in 0 .. n - 1, i \in S  PROVE i + 1 \in S
    <3>1. i + 1 \in 1 .. n /\ i + 1 \in 1 .. n + 1 /\ i + 1 - 1 = i
      BY <1>1
    <3>2. more[i + 1] = seqs[i + 1] /\ seqs[i + 1] \in Seq(A)
      BY <1>1, <1>4, <3>1
    <3>3. CASE i = 0
      BY <1>7, <1>8, <3>1, <3>2, <3>3
    <3>4. CASE i # 0
      <4>1. g[i] = h[i] /\ g[i] \in Seq(A)
        BY <2>1, <3>4
      <4>2. g[i + 1] = g[i] \o seqs[i + 1] /\ h[i + 1] = h[i] \o more[i + 1]
        <5>1. i + 1 # 1
          BY <3>1, <3>4
        <5>2. PICK k : k = i + 1
          OBVIOUS
        <5>3. k \in 1 .. n /\ k \in 1 .. n + 1 /\ k # 1 /\ k - 1 = i
          BY <3>1, <5>1, <5>2
        <5>4. g[k] = g[k - 1] \o seqs[k] /\ h[k] = h[k - 1] \o more[k]
          BY <1>7, <1>8, <5>3, Zenon
        <5> QED
          BY <5>2, <5>3, <5>4, Zenon
      <4>3. g[i] \o seqs[i + 1] \in Seq(A)
        BY <3>2, <4>1, ConcatProperties
      <4> QED
        BY <3>1, <3>2, <4>1, <4>2, <4>3
    <3> QED
      BY <3>3, <3>4
  <2>2. \A i \in 0 .. n : i \in S
    <3> HIDE DEF S
    <3>1. 0 \in S
      BY DEF S
    <3> QED
      BY <1>1, <2>1, <3>1, UpTo
  <2>3. n \in S
    BY <1>1, <2>2
  <2>4. g[n] = h[n] /\ g[n] \in Seq(A)
    BY <1>10, <2>3
  <2>5. h[n + 1] = h[n] \o x
    <3>1. n + 1 \in 1 .. n + 1 /\ n + 1 # 1 /\ n + 1 - 1 = n
      BY <1>1, <1>10
    <3>2. PICK k : k = n + 1
      OBVIOUS
    <3>3. k \in 1 .. n + 1 /\ k # 1 /\ k - 1 = n /\ more[k] = x
      BY <1>1, <3>1, <3>2
    <3>4. h[k] = h[k - 1] \o more[k]
      BY <1>8, <3>3, Zenon
    <3> QED
      BY <3>2, <3>3, <3>4, Zenon
  <2> QED
    BY <1>2, <1>5, <1>6, <1>10, <2>4, <2>5 DEF more
<1> QED
  BY <1>9, <1>10

\* How long the first m parts are together.
LengthTo(parts, m) == Len(FlattenSeq(SubSeq(parts, 1, m)))

\* The first m parts and the one after them.
LEMMA FlattenStep ==
    ASSUME NEW A, NEW parts \in Seq(Seq(A)), NEW m \in 0 .. Len(parts) - 1
    PROVE  /\ FlattenSeq(SubSeq(parts, 1, m)) \in Seq(A)
           /\ FlattenSeq(SubSeq(parts, 1, m + 1)) = FlattenSeq(SubSeq(parts, 1, m)) \o parts[m + 1]
           /\ parts[m + 1] \in Seq(A)
<1> DEFINE T == Seq(A)
           n == Len(parts)
<1>1. parts \in Seq(T) /\ n \in Nat /\ \A i \in 1 .. n : parts[i] \in T
  BY ElementOfSeq, LenProperties
<1> HIDE DEF T, n
<1>2. m \in 0 .. n /\ m + 1 \in 0 .. n /\ m + 1 \in 1 .. n /\ m \in Nat
  BY <1>1 DEF n
<1> DEFINE p == SubSeq(parts, 1, m)
           q == SubSeq(parts, 1, m + 1)
<1>3. p \in Seq(T) /\ Len(p) = m /\ \A i \in 1 .. m : p[i] = parts[i]
  BY <1>1, <1>2, FirstOnes DEF n
<1>4. q \in Seq(T) /\ Len(q) = m + 1 /\ \A i \in 1 .. m + 1 : q[i] = parts[i]
  BY <1>1, <1>2, FirstOnes DEF n
<1> HIDE DEF p, q
<1>5. q = Append(p, parts[m + 1])
  <2> DEFINE r == Append(p, parts[m + 1])
  <2> DEFINE last == parts[m + 1]
  <2>5. last \in T
    BY <1>1, <1>2
  <2> HIDE DEF last
  <2>1. r \in Seq(T) /\ Len(r) = m + 1 /\ \A i \in 1 .. m : r[i] = p[i]
    BY <1>3, <2>5, AppendProperties DEF last
  <2>2. r[m + 1] = parts[m + 1]
    BY <1>3, <2>5, AppendProperties DEF last
  <2> HIDE DEF r
  <2>3. ASSUME NEW i \in 1 .. m + 1  PROVE q[i] = r[i]
    <3>1. i \in 1 .. m \/ i = m + 1
      BY <1>2
    <3> QED
      BY <1>3, <1>4, <2>1, <2>2, <3>1
  <2>4. q = r
    BY <1>4, <2>1, <2>3, SeqEqual
  <2> QED
    BY <2>4 DEF r
<1>6. parts[m + 1] \in T
  BY <1>1, <1>2
<1>7. p \in Seq(Seq(A)) /\ parts[m + 1] \in Seq(A)
  BY <1>3, <1>6 DEF T
<1>8. /\ FlattenSeq(p) \in Seq(A)
      /\ FlattenSeq(Append(p, parts[m + 1])) = FlattenSeq(p) \o parts[m + 1]
  BY <1>7, FlattenAppend
<1> QED
  BY <1>5, <1>7, <1>8 DEF p, q

\* What is flattened is there, part after part.
LEMMA FlattenParts ==
    ASSUME NEW A, NEW parts \in Seq(Seq(A))
    PROVE  /\ Len(parts) \in Nat
           /\ FlattenSeq(parts) \in Seq(A)
           /\ LengthTo(parts, 0) = 0
           /\ LengthTo(parts, Len(parts)) = Len(FlattenSeq(parts))
           /\ \A m \in 0 .. Len(parts) :
                 /\ LengthTo(parts, m) \in Nat
                 /\ LengthTo(parts, m) <= Len(FlattenSeq(parts))
           /\ \A m \in 1 .. Len(parts) :
                 /\ parts[m] \in Seq(A)
                 /\ LengthTo(parts, m) = LengthTo(parts, m - 1) + Len(parts[m])
                 /\ \A j \in 1 .. Len(parts[m]) :
                       FlattenSeq(parts)[LengthTo(parts, m - 1) + j] = parts[m][j]
<1> DEFINE n    == Len(parts)
           F(m) == FlattenSeq(SubSeq(parts, 1, m))
           L(m) == Len(F(m))
<1>1. n \in Nat /\ parts = SubSeq(parts, 1, n)
  BY LenProperties, SubSeqFull
<1>2. F(0) = <<>>
  <2>1. SubSeq(parts, 1, 0) = <<>>
    BY SubSeqEmpty
  <2> QED
    BY <2>1 DEF FlattenSeq
<1>3. F(n) = FlattenSeq(parts)
  BY <1>1
<1>4. \A m \in 0 .. n - 1 : /\ F(m) \in Seq(A) /\ F(m + 1) = F(m) \o parts[m + 1]
                            /\ parts[m + 1] \in Seq(A)
  BY FlattenStep
<1>5. \A m \in 0 .. n : F(m) \in Seq(A)
  <2>1. F(n) \in Seq(A)
    BY <1>3, FlattenAppend, EmptySeq
  <2> HIDE DEF F, n
  <2>2. \A m \in 0 .. n : m = n \/ m \in 0 .. n - 1
    BY <1>1
  <2> QED
    BY <1>4, <2>1, <2>2
<1> HIDE DEF F, n
<1>6. ASSUME NEW m \in 0 .. n - 1
      PROVE  /\ L(m) \in Nat /\ Len(parts[m + 1]) \in Nat
             /\ L(m + 1) = L(m) + Len(parts[m + 1])
             /\ \A i \in 1 .. L(m) : F(m + 1)[i] = F(m)[i]
             /\ \A j \in 1 .. Len(parts[m + 1]) : F(m + 1)[L(m) + j] = parts[m + 1][j]
  <2> DEFINE a == F(m)
             b == parts[m + 1]
  <2>1. a \in Seq(A) /\ b \in Seq(A) /\ F(m + 1) = a \o b
    BY <1>4
  <2> HIDE DEF a, b
  <2>2. /\ Len(a) \in Nat /\ Len(b) \in Nat
        /\ Len(a \o b) = Len(a) + Len(b)
        /\ \A i \in 1 .. Len(a) : (a \o b)[i] = a[i]
        /\ \A i \in 1 .. Len(b) : (a \o b)[Len(a) + i] = b[i]
    BY <2>1, Concatenated, LenProperties
  <2> QED
    BY <2>1, <2>2, Zenon DEF a, b
\* F(m) is the beginning of F(k).
<1>7. ASSUME NEW m \in 0 .. n
      PROVE  /\ L(m) \in Nat /\ L(m) <= L(n)
             /\ \A i \in 1 .. L(m) : F(n)[i] = F(m)[i]
  <2>1. L(m) \in Nat
    BY <1>5, LenProperties
  <2> DEFINE S == {i \in 0 .. n - m : /\ L(m) <= L(m + i)
                                      /\ \A j \in 1 .. L(m) : F(m + i)[j] = F(m)[j]}
  <2>2. n - m \in Nat /\ m + 0 = m /\ m + (n - m) = n
    BY <1>1
  <2>3. 0 \in S
    BY <2>1, <2>2
  <2>4. ASSUME NEW i \in 0 .. n - m - 1, i \in S  PROVE i + 1 \in S
    <3> DEFINE k == m + i
    <3>1. k \in 0 .. n - 1 /\ m + (i + 1) = k + 1 /\ i + 1 \in 0 .. n - m
      BY <1>1
    <3>2. L(m) <= L(k) /\ \A j \in 1 .. L(m) : F(k)[j] = F(m)[j]
      BY <2>4
    <3> HIDE DEF k, L
    <3>3. /\ L(k) \in Nat /\ Len(parts[k + 1]) \in Nat
          /\ L(k + 1) = L(k) + Len(parts[k + 1])
          /\ \A j \in 1 .. L(k) : F(k + 1)[j] = F(k)[j]
      BY <1>6, <3>1, Zenon
    <3>4. L(m) <= L(k + 1) /\ \A j \in 1 .. L(m) : j \in 1 .. L(k)
      BY <2>1, <3>2, <3>3
    <3>5. \A j \in 1 .. L(m) : F(k + 1)[j] = F(m)[j]
      BY <3>2, <3>3, <3>4
    <3> QED
      BY <3>1, <3>4, <3>5
  <2>5. n - m \in S
    <3> HIDE DEF S
    <3>1. \A i \in 0 .. n - m : i \in S
      BY <2>2, <2>3, <2>4, UpTo
    <3> QED
      BY <2>2, <3>1
  <2> QED
    BY <2>1, <2>2, <2>5
<1>8. ASSUME NEW m \in 1 .. n
      PROVE  /\ parts[m] \in Seq(A)
             /\ L(m) = L(m - 1) + Len(parts[m])
             /\ \A j \in 1 .. Len(parts[m]) : F(n)[L(m - 1) + j] = parts[m][j]
  <2>1. PICK k : k = m - 1
    OBVIOUS
  <2>2. k \in 0 .. n - 1 /\ k + 1 = m /\ m \in 0 .. n /\ parts[k + 1] = parts[m]
    BY <1>1, <2>1
  <2>3. /\ L(k) \in Nat /\ Len(parts[m]) \in Nat
        /\ L(m) = L(k) + Len(parts[m])
        /\ \A j \in 1 .. Len(parts[m]) : F(m)[L(k) + j] = parts[m][j]
        /\ parts[m] \in Seq(A)
    BY <1>4, <1>6, <2>2
  <2>4. \A i \in 1 .. L(m) : F(n)[i] = F(m)[i]
    BY <1>7, <2>2
  <2>5. ASSUME NEW j \in 1 .. Len(parts[m])  PROVE F(n)[L(k) + j] = parts[m][j]
    <3>1. PICK i : i = L(k) + j
      OBVIOUS
    <3>2. i \in 1 .. L(m)
      BY <2>3, <3>1
    <3>3. F(n)[i] = F(m)[i]
      BY <2>4, <3>2
    <3> QED
      BY <2>3, <3>1, <3>3
  <2> QED
    BY <2>1, <2>3, <2>5
<1>9. L(0) = 0
  BY <1>2
<1>10. \A m : LengthTo(parts, m) = L(m)
  BY DEF LengthTo, F
<1>11. n \in 0 .. n
  BY <1>1
<1> HIDE DEF L
<1>12. FlattenSeq(parts) = F(n) /\ LengthTo(parts, n) = Len(FlattenSeq(parts)) /\ F(n) \in Seq(A)
  BY <1>3, <1>5, <1>10, <1>11 DEF L
<1> QED
  BY <1>1, <1>7, <1>8, <1>9, <1>10, <1>12 DEF n

-----------------------------------------------------------------------------
(***************************************************************************)
(* Where the reports of an ADS-C message are, and their parts.             *)
(***************************************************************************)
Rows(reports) == [i \in 1 .. Len(reports) |-> ReportOctets(reports[i])]

\* The octets of one report: its tag, and its parts one behind the other.
LEMMA ReportFacts ==
    ASSUME NEW report \in Reports
    PROVE  /\ Len(report.parts) \in Nat
           /\ report.tag \in Octets
           /\ report.valid \in BOOLEAN
           /\ FlattenSeq(report.parts) \in Seq(Octets)
           /\ ReportOctets(report) \in Seq(Octets)
           /\ Len(ReportOctets(report)) = 1 + Len(FlattenSeq(report.parts))
           /\ Len(ReportOctets(report)) = PartsLength(report, Len(report.parts))
           /\ ReportOctets(report)[1] = report.tag
           /\ \A j \in 1 .. Len(FlattenSeq(report.parts)) :
                 ReportOctets(report)[1 + j] = FlattenSeq(report.parts)[j]
           /\ PartsLength(report, 0) = 1
           /\ \A m \in 0 .. Len(report.parts) : PartsLength(report, m) \in Nat
           /\ \A m \in 1 .. Len(report.parts) :
                 /\ report.parts[m] \in Seq(Octets)
                 /\ PartsLength(report, m) = PartsLength(report, m - 1) + Len(report.parts[m])
                 /\ \A j \in 1 .. Len(report.parts[m]) :
                       ReportOctets(report)[PartsLength(report, m - 1) + j] = report.parts[m][j]
<1> DEFINE parts == report.parts
           n     == Len(parts)
           flat  == FlattenSeq(parts)
           front == <<report.tag>>
           all   == front \o flat
<1>1. parts \in Seq(Seq(Octets)) /\ report.tag \in Octets /\ report.valid \in BOOLEAN
  BY DEF Reports
<1> HIDE DEF parts
<1>2. /\ n \in Nat /\ flat \in Seq(Octets)
      /\ LengthTo(parts, 0) = 0
      /\ LengthTo(parts, n) = Len(flat)
      /\ \A m \in 0 .. n : LengthTo(parts, m) \in Nat /\ LengthTo(parts, m) <= Len(flat)
      /\ \A m \in 1 .. n :
            /\ parts[m] \in Seq(Octets)
            /\ LengthTo(parts, m) = LengthTo(parts, m - 1) + Len(parts[m])
            /\ \A j \in 1 .. Len(parts[m]) : flat[LengthTo(parts, m - 1) + j] = parts[m][j]
  BY <1>1, FlattenParts
<1>3. front \in Seq(Octets) /\ Len(front) = 1 /\ front[1] = report.tag
  BY <1>1
<1> HIDE DEF flat, front, n
<1>4. /\ all \in Seq(Octets) /\ Len(all) = 1 + Len(flat)
      /\ all[1] = report.tag
      /\ \A j \in 1 .. Len(flat) : all[1 + j] = flat[j]
  <2>1. front \in Seq(Octets) /\ flat \in Seq(Octets)
    BY <1>2, <1>3
  <2>2. /\ all \in Seq(Octets) /\ Len(all) = Len(front) + Len(flat)
        /\ \A j \in 1 .. Len(front) : all[j] = front[j]
        /\ \A j \in 1 .. Len(flat) : all[Len(front) + j] = flat[j]
    BY <2>1, Concatenated
  <2> HIDE DEF all
  <2>3. 1 \in 1 .. Len(front)
    BY <1>3
  <2> QED
    BY <1>3, <2>2, <2>3
<1> HIDE DEF all
<1>5. ReportOctets(report) = all
  BY DEF ReportOctets, all, front, flat, parts
<1>6. \A m : PartsLength(report, m) = 1 + LengthTo(parts, m)
  BY DEF PartsLength, LengthTo, parts
<1>7. Len(flat) \in Nat
  BY <1>2, LenProperties
<1>8. ASSUME NEW m \in 1 .. n
      PROVE  /\ parts[m] \in Seq(Octets)
             /\ PartsLength(report, m) = PartsLength(report, m - 1) + Len(parts[m])
             /\ \A j \in 1 .. Len(parts[m]) : all[PartsLength(report, m - 1) + j] = parts[m][j]
  <2>1. m \in 0 .. n /\ m - 1 \in 0 .. n
    BY <1>2
  <2>2. /\ parts[m] \in Seq(Octets)
        /\ LengthTo(parts, m) = LengthTo(parts, m - 1) + Len(parts[m])
        /\ \A j \in 1 .. Len(parts[m]) : flat[LengthTo(parts, m - 1) + j] = parts[m][j]
    BY <1>2
  <2>3. LengthTo(parts, m) \in Nat /\ LengthTo(parts, m - 1) \in Nat /\ Len(parts[m]) \in Nat
        /\ LengthTo(parts, m) <= Len(flat)
    BY <1>2, <2>1, <2>2, LenProperties
  <2>4. ASSUME NEW j \in 1 .. Len(parts[m])
        PROVE  all[PartsLength(report, m - 1) + j] = parts[m][j]
    <3>1. PICK i : i = LengthTo(parts, m - 1) + j
      OBVIOUS
    <3>2. i \in 1 .. Len(flat)
      BY <1>7, <2>2, <2>3, <3>1
    <3>3. all[1 + i] = flat[i] /\ flat[i] = parts[m][j]
      BY <1>4, <2>2, <3>1, <3>2, Zenon
    <3>4. 1 + i = PartsLength(report, m - 1) + j
      BY <1>6, <2>3, <3>1
    <3> QED
      BY <3>3, <3>4
  <2>5. PartsLength(report, m) = PartsLength(report, m - 1) + Len(parts[m])
    BY <1>6, <2>2, <2>3
  <2> QED
    BY <2>2, <2>4, <2>5
<1>9. /\ \A m \in 0 .. n : PartsLength(report, m) \in Nat
      /\ PartsLength(report, 0) = 1
      /\ Len(all) = PartsLength(report, n)
  BY <1>2, <1>4, <1>6, <1>7
<1> QED
  BY <1>1, <1>2, <1>4, <1>5, <1>8, <1>9 DEF parts, flat, n

\* The octets of all: each report behind those in front of it.
LEMMA ReportsFacts ==
    ASSUME NEW reports \in Seq(Reports)
    PROVE  /\ Len(reports) \in Nat
           /\ \A n \in 1 .. Len(reports) : reports[n] \in Reports
           /\ ReportsOctets(reports) \in Seq(Octets)
           /\ Len(ReportsOctets(reports)) \in Nat
           /\ ReportsLength(reports, 0) = 0
           /\ ReportsLength(reports, Len(reports)) = Len(ReportsOctets(reports))
           /\ \A n \in 0 .. Len(reports) : ReportsLength(reports, n) \in Nat
           /\ \A n \in 1 .. Len(reports) :
                 /\ ReportsLength(reports, n) =
                       ReportsLength(reports, n - 1) + Len(ReportOctets(reports[n]))
                 /\ \A j \in 1 .. Len(ReportOctets(reports[n])) :
                       ReportsOctets(reports)[ReportsLength(reports, n - 1) + j] =
                          ReportOctets(reports[n])[j]
<1> DEFINE rows == Rows(reports)
           N    == Len(reports)
<1>1. N \in Nat /\ \A n \in 1 .. N : reports[n] \in Reports
  BY LenProperties, ElementOfSeq
<1>2. \A n \in 1 .. N : ReportOctets(reports[n]) \in Seq(Octets)
  BY <1>1, ReportFacts
<1>3. /\ rows \in Seq(Seq(Octets)) /\ Len(rows) = N
      /\ \A n \in 1 .. N : rows[n] = ReportOctets(reports[n])
  <2> DEFINE row(n) == ReportOctets(reports[n])
  <2>1. rows = [n \in 1 .. N |-> row(n)]
    BY DEF Rows
  <2>2. \A n \in 1 .. N : row(n) \in Seq(Octets)
    BY <1>2
  <2> HIDE DEF row, rows, N
  <2>3. rows = [n \in 1 .. N |-> rows[n]] /\ \A n \in 1 .. N : rows[n] = row(n)
    BY <2>1
  <2>4. rows \in Seq(Seq(Octets)) /\ Len(rows) = N
    BY <1>1, <2>2, <2>3, IsSequence
  <2> QED
    BY <2>3, <2>4 DEF row
<1>4. ASSUME NEW n \in 0 .. N  PROVE ReportsLength(reports, n) = LengthTo(rows, n)
  <2> DEFINE p == SubSeq(reports, 1, n)
             q == SubSeq(rows, 1, n)
  <2>1. Len(p) = n /\ \A i \in 1 .. n : p[i] = reports[i]
    BY FirstOnes
  <2>2. q \in Seq(Seq(Octets)) /\ Len(q) = n /\ \A i \in 1 .. n : q[i] = rows[i]
    <3>1. n \in 0 .. Len(rows)
      BY <1>3
    <3> HIDE DEF rows
    <3> QED
      BY <1>3, <3>1, FirstOnes
  <2>3. \A i \in 1 .. n : i \in 1 .. N
    BY <1>1
  <2> HIDE DEF p, q, rows
  <2>4. Rows(p) = q
    <3>1. Rows(p) = [i \in 1 .. n |-> ReportOctets(p[i])]
      BY <2>1 DEF Rows
    <3>2. q = [i \in 1 .. n |-> q[i]]
      BY <2>2, LenProperties
    <3>3. \A i \in 1 .. n : q[i] = ReportOctets(p[i])
      BY <1>3, <2>1, <2>2, <2>3
    <3> QED
      BY <3>1, <3>2, <3>3
  <2>5. ReportsLength(reports, n) = Len(FlattenSeq(Rows(p)))
    BY DEF ReportsLength, ReportsOctets, Rows, p
  <2> QED
    BY <2>4, <2>5 DEF LengthTo, q
<1>5. ReportsOctets(reports) = FlattenSeq(rows)
  BY DEF ReportsOctets, Rows
<1> HIDE DEF rows
<1>6. /\ Len(rows) \in Nat
      /\ FlattenSeq(rows) \in Seq(Octets)
      /\ LengthTo(rows, 0) = 0
      /\ LengthTo(rows, Len(rows)) = Len(FlattenSeq(rows))
      /\ \A m \in 0 .. Len(rows) : LengthTo(rows, m) \in Nat
      /\ \A m \in 1 .. Len(rows) :
            /\ rows[m] \in Seq(Octets)
            /\ LengthTo(rows, m) = LengthTo(rows, m - 1) + Len(rows[m])
            /\ \A j \in 1 .. Len(rows[m]) :
                  FlattenSeq(rows)[LengthTo(rows, m - 1) + j] = rows[m][j]
  BY <1>3, FlattenParts
<1>7. 0 \in 0 .. N /\ N \in 0 .. N /\ \A n \in 1 .. N : n \in 0 .. N /\ n - 1 \in 0 .. N
  BY <1>1
<1> HIDE DEF N
<1>8. ASSUME NEW n \in 1 .. N
      PROVE  /\ ReportsLength(reports, n) =
                   ReportsLength(reports, n - 1) + Len(ReportOctets(reports[n]))
             /\ \A j \in 1 .. Len(ReportOctets(reports[n])) :
                   ReportsOctets(reports)[ReportsLength(reports, n - 1) + j] =
                      ReportOctets(reports[n])[j]
  <2>1. /\ ReportsLength(reports, n) = LengthTo(rows, n)
        /\ ReportsLength(reports, n - 1) = LengthTo(rows, n - 1)
        /\ rows[n] = ReportOctets(reports[n])
    BY <1>3, <1>4, <1>7
  <2> QED
    BY <1>3, <1>5, <1>6, <2>1, Zenon
<1>9. /\ ReportsOctets(reports) \in Seq(Octets)
      /\ Len(ReportsOctets(reports)) \in Nat
      /\ ReportsLength(reports, 0) = 0
      /\ ReportsLength(reports, N) = Len(ReportsOctets(reports))
      /\ \A n \in 0 .. N : ReportsLength(reports, n) \in Nat
  <2>1. Len(FlattenSeq(rows)) \in Nat
    BY <1>6, LenProperties
  <2> QED
    BY <1>3, <1>4, <1>5, <1>6, <1>7, <2>1, Zenon
<1> QED
  BY <1>1, <1>8, <1>9 DEF N

-----------------------------------------------------------------------------
(***************************************************************************)
(* Reports that arrive.                                                    *)
(***************************************************************************)

\* What never falls from one number to the next never falls.
LEMMA Growing ==
    ASSUME NEW n \in Nat, NEW f, \A i \in 0 .. n : f[i] \in Int,
           \A i \in 1 .. n : f[i - 1] <= f[i]
    PROVE  \A i, j \in 0 .. n : i <= j => f[i] <= f[j]
<1>1. SUFFICES ASSUME NEW i \in 0 .. n, NEW j \in 0 .. n, i <= j
               PROVE  f[i] <= f[j]
  OBVIOUS
<1> DEFINE S == {d \in 0 .. n - i : f[i] <= f[i + d]}
<1>2. n - i \in Nat /\ i + 0 = i
  OBVIOUS
<1>3. 0 \in S
  BY <1>2
<1>4. ASSUME NEW d \in 0 .. n - i - 1, d \in S  PROVE d + 1 \in S
  <2>1. PICK e : e = i + d + 1
    OBVIOUS
  <2>2. e \in 1 .. n /\ e - 1 = i + d /\ i + d \in 0 .. n /\ e \in 0 .. n /\ d + 1 \in 0 .. n - i
        /\ i + (d + 1) = e
    BY <2>1
  <2>3. f[e - 1] <= f[e] /\ f[i] <= f[i + d]
    BY <1>4, <2>2
  <2>4. f[i] <= f[e]
    BY <2>2, <2>3
  <2> QED
    BY <2>2, <2>4
<1>5. \A d \in 0 .. n - i : d \in S
  <2> HIDE DEF S
  <2> QED
    BY <1>2, <1>3, <1>4, UpTo
<1>6. j - i \in 0 .. n - i /\ i + (j - i) = j
  BY <1>1
<1> QED
  BY <1>5, <1>6

\* More reports are never shorter.
LEMMA ReportsGrow ==
    ASSUME NEW reports \in Seq(Reports)
    PROVE  \A i, j \in 0 .. Len(reports) :
              i <= j => ReportsLength(reports, i) <= ReportsLength(reports, j)
<1> DEFINE n == Len(reports)
           f == [i \in 0 .. n |-> ReportsLength(reports, i)]
<1>1. /\ n \in Nat
      /\ \A i \in 0 .. n : ReportsLength(reports, i) \in Nat
      /\ \A i \in 1 .. n : /\ reports[i] \in Reports
                           /\ ReportsLength(reports, i) =
                                 ReportsLength(reports, i - 1) + Len(ReportOctets(reports[i]))
  BY ReportsFacts
<1> HIDE DEF n
<1>2. \A i \in 0 .. n : f[i] = ReportsLength(reports, i)
  OBVIOUS
<1> HIDE DEF f
<1>3. ASSUME NEW i \in 1 .. n  PROVE f[i - 1] <= f[i]
  <2>1. i \in 0 .. n /\ i - 1 \in 0 .. n
    BY <1>1
  <2>2. Len(ReportOctets(reports[i])) \in Nat
    BY <1>1, ReportFacts, LenProperties
  <2> QED
    BY <1>1, <1>2, <2>1, <2>2
<1>4. \A i \in 0 .. n : f[i] \in Int
  BY <1>1, <1>2
<1>5. \A i, j \in 0 .. n : i <= j => f[i] <= f[j]
  BY <1>1, <1>3, <1>4, Growing
<1> QED
  BY <1>2, <1>5 DEF n

\* Parts that are not empty make a report longer.
LEMMA PartsGrow ==
    ASSUME NEW report \in Reports, NEW first \in Nat,
           \A i \in first + 1 .. Len(report.parts) : Len(report.parts[i]) >= 1
    PROVE  \A i, j \in first .. Len(report.parts) :
              i < j => PartsLength(report, i) < PartsLength(report, j)
<1> DEFINE n == Len(report.parts) - first
           f == [i \in 0 .. n |-> PartsLength(report, first + i) - i]
<1>1. /\ Len(report.parts) \in Nat
      /\ \A i \in 0 .. Len(report.parts) : PartsLength(report, i) \in Nat
      /\ \A i \in 1 .. Len(report.parts) :
            /\ PartsLength(report, i) = PartsLength(report, i - 1) + Len(report.parts[i])
            /\ Len(report.parts[i]) \in Nat
  BY ReportFacts, LenProperties
<1>2. SUFFICES ASSUME NEW i \in first .. Len(report.parts), NEW j \in first .. Len(report.parts),
                      i < j
               PROVE  PartsLength(report, i) < PartsLength(report, j)
  OBVIOUS
<1>3. n \in Nat /\ n + first = Len(report.parts)
  BY <1>1, <1>2
<1> HIDE DEF n
<1>4. \A x \in 0 .. n : f[x] = PartsLength(report, first + x) - x
  OBVIOUS
<1> HIDE DEF f
<1>5. ASSUME NEW x \in 0 .. n  PROVE f[x] \in Int
  <2>1. first + x \in 0 .. Len(report.parts)
    BY <1>1, <1>3
  <2> QED
    BY <1>1, <1>4, <2>1
<1>6. ASSUME NEW x \in 1 .. n  PROVE f[x - 1] <= f[x]
  <2>1. PICK y : y = first + x
    OBVIOUS
  <2>2. /\ y \in 1 .. Len(report.parts) /\ y \in first + 1 .. Len(report.parts)
        /\ y - 1 = first + (x - 1) /\ x - 1 \in 0 .. n /\ x \in 0 .. n
        /\ y - 1 \in 0 .. Len(report.parts) /\ y \in 0 .. Len(report.parts)
    BY <1>1, <1>3, <2>1
  <2>3. /\ PartsLength(report, y) = PartsLength(report, y - 1) + Len(report.parts[y])
        /\ Len(report.parts[y]) >= 1 /\ Len(report.parts[y]) \in Nat
        /\ PartsLength(report, y - 1) \in Nat
    BY <1>1, <2>2
  <2>4. f[x - 1] = PartsLength(report, y - 1) - (x - 1) /\ f[x] = PartsLength(report, y) - x
    BY <1>4, <2>1, <2>2
  <2> QED
    BY <2>3, <2>4
<1>7. \A x, y \in 0 .. n : x <= y => f[x] <= f[y]
  BY <1>3, <1>5, <1>6, Growing
<1>8. PICK x, y : x = i - first /\ y = j - first
  OBVIOUS
<1>9. x \in 0 .. n /\ y \in 0 .. n /\ x < y /\ x <= y /\ first + x = i /\ first + y = j
  BY <1>1, <1>2, <1>3, <1>8
<1>10. f[x] <= f[y] /\ f[x] = PartsLength(report, i) - x /\ f[y] = PartsLength(report, j) - y
  BY <1>4, <1>7, <1>9
<1>11. PartsLength(report, i) \in Nat /\ PartsLength(report, j) \in Nat
  BY <1>1, <1>2
<1> QED
  BY <1>9, <1>10, <1>11

\* So many octets of the reports of a direction.
Arriving(dir, reports, a) ==
    /\ reports \in Seq(Reports)
    /\ \A i \in 1 .. Len(reports) : IsReport(dir, reports[i])
    /\ a \in 0 .. Len(ReportsOctets(reports))

\* The whole reports are those before the first that is cut or bad.
LEMMA WholeAre ==
    ASSUME NEW dir, NEW reports, NEW a, Arriving(dir, reports, a),
           NEW n \in 0 .. Len(reports),
           ReportsLength(reports, n) <= a,
           \A i \in 1 .. n : reports[i].valid,
           \/ n = Len(reports)
           \/ n < Len(reports) /\ (ReportsLength(reports, n + 1) > a \/ ~reports[n + 1].valid)
    PROVE  WholeReports(reports, a) = n
<1> DEFINE N        == Len(reports)
           R(x)     == ReportsLength(reports, x)
           whole(x) == R(x) <= a /\ \A i \in 1 .. x : reports[i].valid
           fits(x)  == whole(x) /\ (x = N \/ ~whole(x + 1))
<1>1. /\ reports \in Seq(Reports) /\ N \in Nat /\ a \in Nat
      /\ \A x \in 0 .. N : R(x) \in Nat
      /\ \A x, y \in 0 .. N : x <= y => R(x) <= R(y)
  <2>1. reports \in Seq(Reports) /\ a \in 0 .. Len(ReportsOctets(reports))
    BY DEF Arriving
  <2> QED
    BY <2>1, ReportsFacts, ReportsGrow
<1>2. WholeReports(reports, a) = CHOOSE x \in 0 .. N : fits(x)
  BY DEF WholeReports
<1> HIDE DEF R, N
<1>3. n \in 0 .. N /\ n \in Nat
  BY <1>1 DEF N
<1>4. whole(n) /\ (n = N \/ (n < N /\ (R(n + 1) > a \/ ~reports[n + 1].valid)))
  BY DEF R, N
<1>5. fits(n)
  <2>1. CASE n = N
    BY <1>4, <2>1
  <2>2. CASE n < N
    <3>1. n + 1 \in 1 .. n + 1 /\ n + 1 \in 0 .. N
      BY <1>1, <1>3, <2>2
    <3>2. R(n + 1) \in Nat
      BY <1>1, <3>1
    <3>3. ~whole(n + 1)
      BY <1>1, <1>3, <1>4, <2>2, <3>1, <3>2
    <3> QED
      BY <1>4, <3>3
  <2> QED
    BY <1>4, <2>1, <2>2
<1>6. ASSUME NEW x \in 0 .. N, fits(x)  PROVE x = n
  <2>1. CASE x < n
    <3>1. x + 1 \in 0 .. N /\ x + 1 <= n /\ x # N
      BY <1>1, <1>3, <2>1
    <3>2. R(x + 1) <= R(n) /\ R(x + 1) \in Nat /\ R(n) \in Nat
      BY <1>1, <1>3, <3>1
    <3>3. \A i \in 1 .. x + 1 : reports[i].valid
      <4>1. \A i \in 1 .. x + 1 : i \in 1 .. n
        BY <1>3, <3>1
      <4> QED
        BY <4>1
    <3>4. whole(x + 1)
      BY <1>1, <1>4, <3>2, <3>3
    <3> HIDE DEF whole
    <3> QED
      BY <1>6, <3>1, <3>4
  <2>2. CASE n < x
    <3>1. n + 1 \in 0 .. N /\ n + 1 <= x /\ n # N /\ n + 1 \in 1 .. x
      BY <1>1, <1>3, <2>2
    <3>2. R(n + 1) <= R(x) /\ R(x) <= a /\ R(n + 1) \in Nat /\ R(x) \in Nat
      BY <1>1, <1>6, <3>1
    <3>3. reports[n + 1].valid
      BY <1>6, <3>1
    <3> QED
      BY <1>1, <1>4, <3>1, <3>2, <3>3
  <2> QED
    BY <1>3, <2>1, <2>2
<1> HIDE DEF fits
<1> QED
  BY <1>2, <1>3, <1>5, <1>6

\* What there is in the octets that arrive, behind the first k reports.
LEMMA OctetAt ==
    ASSUME NEW dir, NEW reports, NEW a, Arriving(dir, reports, a),
           NEW k \in 0 .. Len(reports) - 1
    PROVE  LET buf   == SubSeq(ReportsOctets(reports), 1, a)
               start == ReportsLength(reports, k)
               all   == ReportOctets(reports[k + 1])
           IN  /\ Len(buf) = a /\ a \in Nat
               /\ start \in Nat
               /\ k + 1 \in 1 .. Len(reports)
               /\ reports[k + 1] \in Reports
               /\ IsReport(dir, reports[k + 1])
               /\ Len(all) \in Nat /\ Len(all) >= 1
               /\ ReportsLength(reports, k + 1) = start + Len(all)
               /\ \A j \in 1 .. Len(all) : start + j <= a => buf[start + j] = all[j]
<1> DEFINE B     == ReportsOctets(reports)
           buf   == SubSeq(B, 1, a)
           start == ReportsLength(reports, k)
           all   == ReportOctets(reports[k + 1])
<1>1. /\ reports \in Seq(Reports) /\ a \in 0 .. Len(B) /\ Len(reports) \in Nat
      /\ B \in Seq(Octets) /\ Len(B) \in Nat
      /\ \A n \in 0 .. Len(reports) : ReportsLength(reports, n) \in Nat
  BY ReportsFacts DEF Arriving
<1>2. k + 1 \in 1 .. Len(reports) /\ k \in 0 .. Len(reports) /\ k + 1 - 1 = k
  BY <1>1
<1>3. /\ reports[k + 1] \in Reports /\ IsReport(dir, reports[k + 1])
      /\ start \in Nat
      /\ ReportsLength(reports, k + 1) = ReportsLength(reports, k + 1 - 1) + Len(all)
      /\ \A j \in 1 .. Len(all) : B[ReportsLength(reports, k + 1 - 1) + j] = all[j]
  <2>1. reports \in Seq(Reports) /\ IsReport(dir, reports[k + 1])
    BY <1>2 DEF Arriving
  <2>2. reports[k + 1] \in Reports /\ start \in Nat
    BY <1>2, <2>1, ReportsFacts
  <2>3. /\ ReportsLength(reports, k + 1) = ReportsLength(reports, k + 1 - 1) + Len(all)
        /\ \A j \in 1 .. Len(all) : B[ReportsLength(reports, k + 1 - 1) + j] = all[j]
    BY <1>2, <2>1, ReportsFacts
  <2> QED
    BY <2>1, <2>2, <2>3
<1>4. Len(all) \in Nat /\ Len(all) >= 1
  <2>1. /\ Len(all) = 1 + Len(FlattenSeq(reports[k + 1].parts))
        /\ FlattenSeq(reports[k + 1].parts) \in Seq(Octets)
    BY <1>3, ReportFacts
  <2>2. Len(FlattenSeq(reports[k + 1].parts)) \in Nat
    BY <2>1, LenProperties
  <2> QED
    BY <2>1, <2>2
<1>5. Len(buf) = a /\ a \in Nat /\ \A i \in 1 .. a : buf[i] = B[i]
  <2>1. a \in Nat
    BY <1>1
  <2> HIDE DEF B
  <2> QED
    BY <1>1, <2>1, FirstOnes
<1> HIDE DEF B, buf, start, all
<1>6. ReportsLength(reports, k + 1) = start + Len(all)
      /\ \A j \in 1 .. Len(all) : B[start + j] = all[j]
  BY <1>2, <1>3 DEF start
<1>7. ASSUME NEW j \in 1 .. Len(all), start + j <= a  PROVE buf[start + j] = all[j]
  <2>1. start + j \in 1 .. a
    BY <1>3, <1>4, <1>5, <1>7
  <2>2. buf[start + j] = B[start + j]
    BY <1>5, <2>1
  <2> QED
    BY <1>6, <2>2
<1> QED
  BY <1>2, <1>3, <1>4, <1>5, <1>6, <1>7 DEF B, buf, start, all

-----------------------------------------------------------------------------
(***************************************************************************)
(* The parser of ADS-C follows the reports that arrive.                    *)
(***************************************************************************)

\* The message is what arrived of them.
Fed(dir, reports, a) ==
    /\ Arriving(dir, reports, a)
    /\ adsc_table = TableFor(dir)
    /\ adsc_buf = SubSeq(ReportsOctets(reports), 1, a)
    /\ adsc_tags \in Seq(AdscTags)

\* The first k tags are those of the first k reports.
Tagged(reports, k) ==
    \A i \in 1 .. k : reports[i].valid /\ Decodes(adsc_tags[i], reports[i], Len(reports[i].parts))

\* The parser is behind k whole reports.
AtReport(reports, k) ==
    /\ k \in 0 .. Len(reports)
    /\ Len(adsc_tags) = k
    /\ Tagged(reports, k)
    /\ adsc_at = ReportsLength(reports, k)
    /\ adsc_at <= Len(adsc_buf)
    /\ ~adsc_err

\* It is in the report behind them, and has used the first m parts of it.
InReport(reports, k, m) ==
    /\ k \in 0 .. Len(reports) - 1
    /\ Len(adsc_tags) = k + 1
    /\ Tagged(reports, k)
    /\ reports[k + 1].valid
    /\ adsc_tags[k + 1].tag = reports[k + 1].tag
    /\ m \in 1 .. Len(reports[k + 1].parts)
    /\ adsc_at = ReportsLength(reports, k) + PartsLength(reports[k + 1], m)
    /\ adsc_at <= Len(adsc_buf)
    /\ ~adsc_err

\* The report is a noncompliance notification, and its groups are being read.
InGroups(dir, reports, k, m) ==
    /\ InReport(reports, k, m)
    /\ TypeIn(TableFor(dir))[reports[k + 1].tag] = "noncomp"
    /\ adsc_tags[k + 1].type = "NULL"
    /\ adsc_left = Len(reports[k + 1].parts) - m

\* It is a contract request, and each part behind the first gave an item.
Requested(dir, reports, k, m) ==
    /\ InReport(reports, k, m)
    /\ TypeIn(TableFor(dir))[reports[k + 1].tag] = "request"
    /\ Len(adsc_tags[k + 1].list) = m - 1
    /\ \A i \in 1 .. m - 1 :
          adsc_tags[k + 1].list[i].tag = Head(reports[k + 1].parts[i + 1])

\* The items are being read.
InItems(dir, reports, k, m) ==
    /\ Requested(dir, reports, k, m)
    /\ adsc_tags[k + 1].type = "NULL"

\* A request has been cut between two tags.
BehindCut(dir, reports, k, m) ==
    /\ Requested(dir, reports, k, m)
    /\ adsc_tags[k + 1].type = "request"
    /\ m < Len(reports[k + 1].parts)
    /\ adsc_at = Len(adsc_buf)

\* The parser follows the reports: at each of its steps it is where they say.
Followed(dir, reports, a) ==
    /\ Fed(dir, reports, a)
    /\ adsc_pc \in {"tags", "groups", "request", "done"}
    /\ adsc_pc = "tags" => \/ \E k \in Nat : AtReport(reports, k)
                           \/ \E k, m \in Nat : BehindCut(dir, reports, k, m)
    /\ adsc_pc = "groups" => \E k, m \in Nat : InGroups(dir, reports, k, m)
    /\ adsc_pc = "request" => \E k, m \in Nat : InItems(dir, reports, k, m)
    /\ adsc_pc = "done" => AsSent(dir, reports, a)

\* What the parser is fed is octets.
LEMMA FedFacts ==
    ASSUME NEW dir, NEW reports, NEW a, Fed(dir, reports, a)
    PROVE  /\ reports \in Seq(Reports) /\ Len(reports) \in Nat
           /\ a \in Nat /\ Len(adsc_buf) = a
           /\ a <= ReportsLength(reports, Len(reports))
           /\ \A k \in 0 .. Len(reports) : ReportsLength(reports, k) \in Nat
           /\ \A j \in 1 .. a : adsc_buf[j] \in Octets
<1>1. reports \in Seq(Reports) /\ a \in 0 .. Len(ReportsOctets(reports))
  BY DEF Fed, Arriving
<1>2. /\ ReportsOctets(reports) \in Seq(Octets) /\ Len(ReportsOctets(reports)) \in Nat
      /\ Len(reports) \in Nat
      /\ ReportsLength(reports, Len(reports)) = Len(ReportsOctets(reports))
      /\ \A k \in 0 .. Len(reports) : ReportsLength(reports, k) \in Nat
  BY <1>1, ReportsFacts
<1>3. a \in Nat /\ a <= Len(ReportsOctets(reports))
  BY <1>1, <1>2
<1>4. /\ adsc_buf \in Seq(Octets) /\ Len(adsc_buf) = a
  BY <1>1, <1>2, <1>3, FirstOnes DEF Fed
<1> QED
  BY <1>1, <1>2, <1>3, <1>4, OctetIsOctet

\* A tag is added, or the last one gets another type or list.
LEMMA TagsAdded ==
    ASSUME NEW tags \in Seq(AdscTags), NEW tag \in AdscTags
    PROVE  /\ Append(tags, tag) \in Seq(AdscTags)
           /\ Len(Append(tags, tag)) = Len(tags) + 1
           /\ Append(tags, tag)[Len(tags) + 1] = tag
           /\ \A i \in 1 .. Len(tags) : Append(tags, tag)[i] = tags[i]
OBVIOUS

\* The same for the last tag.
LEMMA TagsChanged ==
    ASSUME NEW k \in Nat, NEW tags \in Seq(AdscTags), NEW tag \in AdscTags, Len(tags) = k + 1
    PROVE  LET new == [tags EXCEPT ![Len(tags)] = tag]
           IN  /\ new \in Seq(AdscTags)
               /\ Len(new) = k + 1
               /\ new[k + 1] = tag
               /\ \A i \in 1 .. k : new[i] = tags[i]
<1> DEFINE new == [tags EXCEPT ![Len(tags)] = tag]
<1>1. k + 1 \in 1 .. Len(tags) /\ Len(tags) \in Nat
  OBVIOUS
<1>2. new \in Seq(AdscTags) /\ Len(new) = k + 1 /\ new[k + 1] = tag
  BY <1>1
<1>3. ASSUME NEW i \in 1 .. k  PROVE new[i] = tags[i]
  <2>1. i \in DOMAIN tags /\ i # Len(tags)
    BY <1>1
  <2> QED
    BY <2>1
<1> QED
  BY <1>2, <1>3

\* As long as the tags of the whole reports stay they are those of the reports.
LEMMA TaggedStays ==
    ASSUME NEW reports, NEW k, Tagged(reports, k),
           \A i \in 1 .. k : adsc_tags'[i] = adsc_tags[i]
    PROVE  Tagged(reports, k)'
BY DEF Tagged

\* The tag at which the parser fails is the one the message is wrong at.
LEMMA FailedAsSent ==
    ASSUME NEW dir, NEW reports, NEW a, Arriving(dir, reports, a),
           NEW k \in 0 .. Len(reports) - 1,
           ReportsLength(reports, k) < a,
           ReportsLength(reports, k + 1) > a \/ ~reports[k + 1].valid,
           ~(dir = "GND2AIR"
                /\ CutBetweenParts(reports[k + 1], a - ReportsLength(reports, k))),
           Tagged(reports, k)', Len(adsc_tags') = k + 1, adsc_err',
           adsc_tags'[k + 1].tag = reports[k + 1].tag,
           adsc_tags'[k + 1].type = "NULL"
    PROVE  AsSent(dir, reports, a)'
<1> DEFINE R == ReportsLength(reports, k)
<1>1. reports \in Seq(Reports) /\ Len(reports) \in Nat /\ a \in Nat /\ R \in Nat /\ k \in Nat
  BY ReportsFacts DEF Arriving
<1>2. k \in 0 .. Len(reports) /\ k < Len(reports) /\ R <= a
  BY <1>1
<1>3. \A i \in 1 .. k : reports[i].valid
  BY DEF Tagged
<1>4. WholeReports(reports, a) = k
  BY <1>2, <1>3, WholeAre
<1>5. a - R > 0
  BY <1>1
<1>6. \A i \in 1 .. k : Decodes(adsc_tags'[i], reports[i], Len(reports[i].parts))
  BY DEF Tagged
<1> HIDE DEF R
<1> QED
  BY <1>4, <1>5, <1>6 DEF AsSent, R

\* A tag is read behind whole reports.
LEMMA TagReadAt ==
    ASSUME NEW dir, NEW reports, NEW a, Followed(dir, reports, a), TagRead
    PROVE  /\ adsc_pc = "tags"
           /\ \E k \in Nat : AtReport(reports, k)
<1>1. adsc_pc = "tags"
  BY DEF Followed, TagRead, InTags
<1>2. Len(adsc_buf) \in Nat
  BY FedFacts DEF Followed
<1>3. ASSUME NEW k \in Nat, NEW m \in Nat, BehindCut(dir, reports, k, m)
      PROVE  FALSE
  <2>1. adsc_at = Len(adsc_buf) /\ Left > 0
    BY <1>3 DEF BehindCut, TagRead
  <2> QED
    BY <1>2, <2>1 DEF Left
<1> QED
  BY <1>1, <1>3 DEF Followed

\* It is the tag of the report that comes next, and what follows it is as much
\* of the report as has arrived.
LEMMA TagOfReport ==
    ASSUME NEW dir, NEW reports, NEW a, Fed(dir, reports, a),
           NEW k \in Nat, AtReport(reports, k), Left > 0
    PROVE  LET report == reports[k + 1]
               start  == ReportsLength(reports, k)
               flat   == FlattenSeq(report.parts)
           IN  /\ k \in 0 .. Len(reports) - 1
               /\ report \in Reports
               /\ IsReport(dir, report)
               /\ a \in Nat /\ start \in Nat /\ adsc_at = start
               /\ Left = a - start /\ start < a
               /\ TheTag = report.tag /\ TheTag \in Octets
               /\ flat \in Seq(Octets) /\ Len(flat) \in Nat
               /\ ReportsLength(reports, k + 1) = start + 1 + Len(flat)
               /\ \A j \in 1 .. Len(flat) :
                     start + 1 + j <= a => adsc_buf[start + 1 + j] = flat[j]
<1> DEFINE report == reports[k + 1]
           start  == ReportsLength(reports, k)
           flat   == FlattenSeq(report.parts)
           all    == ReportOctets(report)
<1>1. /\ reports \in Seq(Reports) /\ Len(reports) \in Nat
      /\ a \in Nat /\ Len(adsc_buf) = a
      /\ a <= ReportsLength(reports, Len(reports))
      /\ \A i \in 0 .. Len(reports) : ReportsLength(reports, i) \in Nat
      /\ \A j \in 1 .. a : adsc_buf[j] \in Octets
  BY FedFacts
<1>2. k \in 0 .. Len(reports) /\ adsc_at = start /\ start \in Nat
  BY <1>1 DEF AtReport
<1>3. Left = a - start /\ start < a
  <2>1. Left = a - start
    BY <1>1, <1>2 DEF Left
  <2> HIDE DEF start
  <2> QED
    BY <1>1, <1>2, <2>1
<1>4. k \in 0 .. Len(reports) - 1
  <2>1. k # Len(reports)
    BY <1>1, <1>3
  <2> QED
    BY <1>1, <1>2, <2>1
<1>5. Arriving(dir, reports, a) /\ adsc_buf = SubSeq(ReportsOctets(reports), 1, a)
  BY DEF Fed
<1>6. /\ report \in Reports /\ IsReport(dir, report)
      /\ Len(all) \in Nat /\ Len(all) >= 1
      /\ ReportsLength(reports, k + 1) = start + Len(all)
      /\ \A j \in 1 .. Len(all) : start + j <= a => adsc_buf[start + j] = all[j]
  BY <1>4, <1>5, OctetAt
<1>7. /\ flat \in Seq(Octets) /\ Len(all) = 1 + Len(flat)
      /\ all[1] = report.tag /\ report.tag \in Octets
      /\ \A j \in 1 .. Len(flat) : all[1 + j] = flat[j]
  BY <1>6, ReportFacts
<1>8. Len(flat) \in Nat
  BY <1>7, LenProperties
<1> HIDE DEF start, flat, all, report
<1>9. TheTag = report.tag
  <2>1. 1 \in 1 .. Len(all) /\ start + 1 <= a
    BY <1>1, <1>2, <1>3, <1>6
  <2>2. adsc_buf[start + 1] = all[1]
    BY <1>6, <2>1
  <2> QED
    BY <1>2, <1>7, <2>2 DEF TheTag
<1>10. ASSUME NEW j \in 1 .. Len(flat), start + 1 + j <= a
       PROVE  adsc_buf[start + 1 + j] = flat[j]
  <2>1. PICK i : i = 1 + j
    OBVIOUS
  <2>2. i \in 1 .. Len(all) /\ start + i = start + 1 + j
    BY <1>2, <1>7, <1>8, <2>1
  <2>3. adsc_buf[start + i] = all[i]
    BY <1>6, <1>10, <2>2
  <2> QED
    BY <1>7, <2>1, <2>2, <2>3
<1>11. ReportsLength(reports, k + 1) = start + 1 + Len(flat)
  BY <1>2, <1>6, <1>7, <1>8
<1> QED
  BY <1>1, <1>2, <1>3, <1>4, <1>6, <1>7, <1>8, <1>9, <1>10, <1>11 DEF start, flat, report

\* What is fed stays the same in every step.
LEMMA FedStays ==
    ASSUME NEW dir, NEW reports, NEW a, Fed(dir, reports, a),
           UNCHANGED <<adsc_table, adsc_buf>>, adsc_tags' \in Seq(AdscTags)
    PROVE  Fed(dir, reports, a)'
BY DEF Fed

\* Parsing fails at a tag that is bad or cut, and not just shorter.
LEMMA TagFails ==
    ASSUME NEW dir, NEW reports, NEW a, Followed(dir, reports, a),
           NEW k \in Nat, AtReport(reports, k), Left > 0,
           NEW tag \in AdscTags, Fail(tag), tag.tag = TheTag, tag.type = "NULL",
           ReportsLength(reports, k + 1) > a \/ ~reports[k + 1].valid,
           ~(dir = "GND2AIR"
                /\ CutBetweenParts(reports[k + 1], a - ReportsLength(reports, k)))
    PROVE  Followed(dir, reports, a)'
<1>1. Fed(dir, reports, a) /\ Arriving(dir, reports, a)
  BY DEF Followed, Fed
<1>2. /\ k \in 0 .. Len(reports) - 1 /\ TheTag = reports[k + 1].tag
      /\ ReportsLength(reports, k) < a
  BY <1>1, TagOfReport
<1>3. /\ adsc_tags' = Append(adsc_tags, tag) /\ adsc_tags \in Seq(AdscTags)
      /\ Len(adsc_tags) = k /\ adsc_err' /\ adsc_pc' = "done"
      /\ UNCHANGED <<adsc_table, adsc_buf>>
  BY <1>1 DEF Fail, AtReport, Fed
<1>4. /\ adsc_tags' \in Seq(AdscTags) /\ Len(adsc_tags') = k + 1
      /\ adsc_tags'[k + 1] = tag /\ \A i \in 1 .. k : adsc_tags'[i] = adsc_tags[i]
  BY <1>3, TagsAdded
<1>5. Tagged(reports, k)'
  BY <1>4, TaggedStays DEF AtReport
<1>6. AsSent(dir, reports, a)'
  BY <1>1, <1>2, <1>3, <1>4, <1>5, FailedAsSent
<1>7. Fed(dir, reports, a)'
  BY <1>1, <1>3, <1>4, FedStays
<1> QED
  BY <1>3, <1>6, <1>7 DEF Followed

\* A whole report has been parsed.
LEMMA TagParsed ==
    ASSUME NEW dir, NEW reports, NEW a, Followed(dir, reports, a),
           NEW k \in Nat, AtReport(reports, k), Left > 0, adsc_pc = "tags",
           reports[k + 1].valid, TheTag \in DOMAIN TypeIn(adsc_table), TheType # "request",
           NEW size \in Nat, size = Len(FlattenSeq(reports[k + 1].parts)), LongEnough(size),
           Parsed(size)
    PROVE  Followed(dir, reports, a)'
<1> DEFINE report == reports[k + 1]
           start  == ReportsLength(reports, k)
           tag    == Tag(TheTag, TheType, TheType # "empty", <<>>)
<1>1. Fed(dir, reports, a)
  BY DEF Followed
<1>2. /\ k \in 0 .. Len(reports) - 1
      /\ a \in Nat /\ start \in Nat /\ adsc_at = start /\ Left = a - start
      /\ TheTag = report.tag /\ TheTag \in Octets
      /\ ReportsLength(reports, k + 1) = start + 1 + size
  BY <1>1, TagOfReport
<1>3. Len(adsc_buf) = a /\ Len(reports) \in Nat
  BY <1>1, FedFacts
<1>4. tag \in AdscTags /\ tag.tag = TheTag /\ tag.type = TheType /\ TheType # "NULL"
  <2>1. TheType \in TagTypes \ {"NULL"}
    BY TypeKnown DEF TheType
  <2>2. <<>> \in Seq(RequestItems) /\ (TheType # "empty") \in BOOLEAN
    OBVIOUS
  <2>3. tag \in AdscTags
    BY <1>2, <2>1, <2>2, TagIsTag
  <2> QED
    BY <2>1, <2>3 DEF Tag
<1> HIDE DEF tag, start
<1>5. /\ adsc_tags' = Append(adsc_tags, tag) /\ adsc_tags \in Seq(AdscTags)
      /\ Len(adsc_tags) = k
      /\ adsc_at' = adsc_at + 1 + size
      /\ UNCHANGED <<adsc_table, adsc_buf, adsc_pc, adsc_err>>
      /\ ~adsc_err
  BY <1>1 DEF Parsed, AtReport, Fed, tag
<1>6. /\ adsc_tags' \in Seq(AdscTags) /\ Len(adsc_tags') = k + 1
      /\ adsc_tags'[k + 1] = tag /\ \A i \in 1 .. k : adsc_tags'[i] = adsc_tags[i]
  BY <1>4, <1>5, TagsAdded
<1>7. Tagged(reports, k + 1)'
  <2>1. Tagged(reports, k)'
    BY <1>6, TaggedStays DEF AtReport
  <2>2. Decodes(adsc_tags'[k + 1], report, Len(report.parts))
    BY <1>2, <1>4, <1>6 DEF Decodes
  <2>3. \A i \in 1 .. k + 1 : i \in 1 .. k \/ i = k + 1
    OBVIOUS
  <2> QED
    BY <2>1, <2>2, <2>3 DEF Tagged
<1>8. adsc_at' = ReportsLength(reports, k + 1) /\ adsc_at' <= Len(adsc_buf')
  <2>1. a - start - 1 >= size
    BY <1>2 DEF LongEnough
  <2>2. start + 1 + size <= a
    BY <1>2, <2>1
  <2> QED
    BY <1>2, <1>3, <1>5, <2>2
<1>9. k + 1 \in Nat /\ k + 1 \in 0 .. Len(reports)
  BY <1>2, <1>3
<1>10. AtReport(reports, k + 1)'
  BY <1>5, <1>6, <1>7, <1>8, <1>9 DEF AtReport
<1>11. Fed(dir, reports, a)'
  BY <1>1, <1>5, <1>6, FedStays
<1> QED
  BY <1>5, <1>9, <1>10, <1>11 DEF Followed

\* A report with the tag of a table is one of it, unless its reason is bad.
LEMMA ReportIsOfTable ==
    ASSUME NEW dir, NEW report \in Reports, IsReport(dir, report)
    PROVE  /\ report.valid <=> WellFormed(TableFor(dir), report)
           /\ ~report.valid <=> Malformed(TableFor(dir), report)
           /\ report.valid => report.tag \in DOMAIN TypeIn(TableFor(dir))
           /\ report.tag \in DOMAIN TypeIn(TableFor(dir)) /\ ~report.valid =>
                 TypeIn(TableFor(dir))[report.tag] = "nack"
<1>1. report.valid \in BOOLEAN
  BY DEF Reports
<1>2. IF report.valid THEN WellFormed(TableFor(dir), report) ELSE Malformed(TableFor(dir), report)
  BY DEF IsReport, TableFor
<1>3. WellFormed(TableFor(dir), report) => report.tag \in DOMAIN TypeIn(TableFor(dir))
  BY DEF WellFormed
<1>4. report.tag \in DOMAIN TypeIn(TableFor(dir)) /\ Malformed(TableFor(dir), report) =>
         /\ TypeIn(TableFor(dir))[report.tag] = "nack"
         /\ Len(FlattenSeq(report.parts)) >= 2
         /\ FlattenSeq(report.parts)[2] > MaxReason
  BY DEF Malformed
<1>5. WellFormed(TableFor(dir), report) => ~Malformed(TableFor(dir), report)
  <2>1. SUFFICES ASSUME WellFormed(TableFor(dir), report), Malformed(TableFor(dir), report)
                 PROVE  FALSE
    OBVIOUS
  <2>2. /\ FlattenSeq(report.parts)[2] <= MaxReason
        /\ FlattenSeq(report.parts)[2] > MaxReason
        /\ Len(FlattenSeq(report.parts)) >= 2
    BY <1>3, <1>4, <2>1 DEF WellFormed
  <2>3. FlattenSeq(report.parts) \in Seq(Octets)
    BY ReportFacts
  <2>4. Len(FlattenSeq(report.parts)) \in Nat
    BY <2>3, LenProperties
  <2>5. 2 \in 1 .. Len(FlattenSeq(report.parts))
    BY <2>2, <2>4
  <2>6. FlattenSeq(report.parts)[2] \in Octets
    BY <2>3, <2>5, OctetIsOctet
  <2>7. PICK v : v = FlattenSeq(report.parts)[2]
    OBVIOUS
  <2>8. v <= MaxReason /\ v > MaxReason /\ v \in Octets
    BY <2>2, <2>6, <2>7, Zenon
  <2> QED
    BY <2>8 DEF Octets, MaxReason
<1> QED
  BY <1>1, <1>2, <1>3, <1>4, <1>5

\* Only a request can be cut between its parts.
LEMMA RequestIsCut ==
    ASSUME NEW dir, dir = "GND2AIR", NEW report, NEW n, CutBetweenParts(report, n)
    PROVE  report.valid /\ TypeIn(TableFor(dir))[report.tag] = "request"
BY DEF CutBetweenParts, TableFor, TypeIn, UplinkType, UplinkTags

\* The tag that is read is looked up in the table of the direction.
LEMMA TagLookedUp ==
    ASSUME NEW dir, NEW reports, NEW a, Fed(dir, reports, a),
           NEW k \in Nat, TheTag = reports[k + 1].tag
    PROVE  /\ TagUnknown = (reports[k + 1].tag \notin DOMAIN TypeIn(TableFor(dir)))
           /\ TheType = TypeIn(TableFor(dir))[reports[k + 1].tag]
           /\ TypeIn(adsc_table) = TypeIn(TableFor(dir))
BY DEF Fed, TagUnknown, TheType

\* The parser still follows the reports behind an unknown tag.
LEMMA UnknownTagFollows ==
    ASSUME NEW dir, NEW reports, NEW a, Followed(dir, reports, a), UnknownTag
    PROVE  Followed(dir, reports, a)'
<1>1. TagRead /\ TagUnknown /\ Fail(NewTag(TheTag))
  BY DEF UnknownTag
<1>2. PICK k \in Nat : AtReport(reports, k)
  BY <1>1, TagReadAt
<1>3. Left > 0 /\ Fed(dir, reports, a)
  BY <1>1 DEF TagRead, Followed
<1>4. /\ TheTag = reports[k + 1].tag /\ TheTag \in Octets
      /\ reports[k + 1] \in Reports /\ IsReport(dir, reports[k + 1])
  BY <1>2, <1>3, TagOfReport
<1>5. ~reports[k + 1].valid
  BY <1>1, <1>3, <1>4, TagLookedUp, ReportIsOfTable
<1>6. ~CutBetweenParts(reports[k + 1], a - ReportsLength(reports, k))
  BY <1>5 DEF CutBetweenParts
<1>7. NewTag(TheTag) \in AdscTags /\ NewTag(TheTag).tag = TheTag /\ NewTag(TheTag).type = "NULL"
  BY <1>4, NewTagIsTag DEF NewTag, Tag
<1> QED
  BY <1>1, <1>2, <1>3, <1>5, <1>6, <1>7, TagFails

\* The parser still follows the reports behind a tag without a body.
LEMMA EmptyTagFollows ==
    ASSUME NEW dir, NEW reports, NEW a, Followed(dir, reports, a), EmptyTag
    PROVE  Followed(dir, reports, a)'
<1>1. TagRead /\ ~TagUnknown /\ TheType = "empty" /\ Parsed(0)
  BY DEF EmptyTag
<1>2. PICK k \in Nat : AtReport(reports, k) /\ adsc_pc = "tags"
  BY <1>1, TagReadAt
<1>3. Left > 0 /\ Fed(dir, reports, a)
  BY <1>1 DEF TagRead, Followed
<1>4. /\ TheTag = reports[k + 1].tag
      /\ reports[k + 1] \in Reports /\ IsReport(dir, reports[k + 1])
      /\ Left = a - ReportsLength(reports, k)
      /\ a \in Nat /\ ReportsLength(reports, k) \in Nat
  BY <1>2, <1>3, TagOfReport
<1>5. reports[k + 1].valid /\ WellFormed(TableFor(dir), reports[k + 1])
      /\ TypeIn(TableFor(dir))[reports[k + 1].tag] = "empty"
  BY <1>1, <1>3, <1>4, TagLookedUp, ReportIsOfTable
<1>6. FlattenSeq(reports[k + 1].parts) = <<>>
  BY <1>5 DEF WellFormed
<1>7. 0 = Len(FlattenSeq(reports[k + 1].parts)) /\ 0 \in Nat
  BY <1>6
<1>8. LongEnough(0)
  BY <1>3, <1>4 DEF LongEnough
<1>9. TheTag \in DOMAIN TypeIn(adsc_table) /\ TheType # "request"
  BY <1>1 DEF TagUnknown
<1> QED
  BY <1>1, <1>2, <1>3, <1>5, <1>7, <1>8, <1>9, TagParsed

\* The parser still follows the reports behind a tag of fixed length.
LEMMA FixedTagFollows ==
    ASSUME NEW dir, NEW reports, NEW a, Followed(dir, reports, a), FixedTag
    PROVE  Followed(dir, reports, a)'
<1> DEFINE size   == FixedLength(adsc_table, TheTag)
           parses == LongEnough(size) /\ FieldsFit(adsc_table, TheTag)
           tag    == Tag(TheTag, "NULL", LongEnough(size), <<>>)
<1>1. /\ TagRead /\ ~TagUnknown /\ TheType = Fixed
      /\ (parses /\ Parsed(size)) \/ (~parses /\ Fail(tag))
  BY DEF FixedTag
<1>2. PICK k \in Nat : AtReport(reports, k) /\ adsc_pc = "tags"
  BY <1>1, TagReadAt
<1>3. Left > 0 /\ Fed(dir, reports, a)
  BY <1>1 DEF TagRead, Followed
<1> DEFINE report == reports[k + 1]
           flat   == FlattenSeq(report.parts)
           start  == ReportsLength(reports, k)
<1>4. /\ TheTag = report.tag /\ TheTag \in Octets
      /\ report \in Reports /\ IsReport(dir, report)
      /\ Left = a - start /\ a \in Nat /\ start \in Nat
      /\ ReportsLength(reports, k + 1) = start + 1 + Len(flat)
  BY <1>2, <1>3, TagOfReport
<1>5. report.valid /\ WellFormed(TableFor(dir), report)
      /\ TypeIn(TableFor(dir))[report.tag] = Fixed
  BY <1>1, <1>3, <1>4, TagLookedUp, ReportIsOfTable DEF Fixed
<1>6. size = Len(flat) /\ FieldsFit(adsc_table, TheTag) /\ size \in Nat
  <2>1. Len(flat) = FixedLength(TableFor(dir), report.tag) /\ FieldsFit(TableFor(dir), report.tag)
    BY <1>5 DEF WellFormed
  <2> QED
    BY <1>3, <1>4, <2>1, LengthIsNumber DEF Fed
<1>7. TheTag \in DOMAIN TypeIn(adsc_table) /\ TheType # "request"
  BY <1>1 DEF TagUnknown, Fixed
<1>8. CASE parses /\ Parsed(size)
  <2>1. LongEnough(size)
    BY <1>8
  <2> HIDE DEF size
  <2> QED
    BY <1>2, <1>3, <1>5, <1>6, <1>7, <1>8, <2>1, TagParsed
<1>9. CASE ~parses /\ Fail(tag)
  <2>1. ~LongEnough(size)
    BY <1>6, <1>9
  <2>2. ReportsLength(reports, k + 1) > a
    <3>1. ~(a - start - 1 >= size)
      BY <1>4, <2>1 DEF LongEnough
    <3> HIDE DEF size, start, flat
    <3> QED
      BY <1>4, <1>6, <3>1
  <2>3. ~(dir = "GND2AIR" /\ CutBetweenParts(report, a - start))
    BY <1>5, RequestIsCut DEF Fixed
  <2>4. tag \in AdscTags /\ tag.tag = TheTag /\ tag.type = "NULL"
    <3>1. LongEnough(size) \in BOOLEAN
      BY DEF LongEnough
    <3>2. <<>> \in Seq(RequestItems) /\ "NULL" \in TagTypes
      BY DEF TagTypes
    <3> QED
      BY <1>4, <3>1, <3>2, TagIsTag DEF Tag
  <2> HIDE DEF tag
  <2> QED
    BY <1>2, <1>3, <1>9, <2>2, <2>3, <2>4, TagFails
<1> QED
  BY <1>1, <1>8, <1>9

\* The parser still follows the reports behind a negative acknowledgement.
LEMMA NackTagFollows ==
    ASSUME NEW dir, NEW reports, NEW a, Followed(dir, reports, a), NackTag
    PROVE  Followed(dir, reports, a)'
<1>1. /\ TagRead /\ ~TagUnknown /\ TheType = "nack"
      /\ (NackValid /\ Parsed(NackLength)) \/ (~NackValid /\ Fail(NewTag(TheTag)))
  BY DEF NackTag
<1>2. PICK k \in Nat : AtReport(reports, k) /\ adsc_pc = "tags"
  BY <1>1, TagReadAt
<1>3. Left > 0 /\ Fed(dir, reports, a)
  BY <1>1 DEF TagRead, Followed
<1> DEFINE report == reports[k + 1]
           flat   == FlattenSeq(report.parts)
           start  == ReportsLength(reports, k)
<1>4. /\ TheTag = report.tag /\ TheTag \in Octets
      /\ report \in Reports /\ IsReport(dir, report)
      /\ Left = a - start /\ a \in Nat /\ start \in Nat /\ adsc_at = start
      /\ flat \in Seq(Octets) /\ Len(flat) \in Nat
      /\ ReportsLength(reports, k + 1) = start + 1 + Len(flat)
      /\ \A j \in 1 .. Len(flat) :
            start + 1 + j <= a => adsc_buf[start + 1 + j] = flat[j]
  BY <1>2, <1>3, TagOfReport
<1>5. /\ TypeIn(TableFor(dir))[report.tag] = "nack"
      /\ report.tag \in DOMAIN TypeIn(TableFor(dir))
      /\ report.valid <=> WellFormed(TableFor(dir), report)
      /\ ~report.valid <=> Malformed(TableFor(dir), report)
  BY <1>1, <1>3, <1>4, TagLookedUp, ReportIsOfTable
<1>6. /\ Len(flat) >= 2
      /\ report.valid => Len(flat) = (IF flat[2] \in ExtendedReasons THEN 3 ELSE 2)
                         /\ flat[2] <= MaxReason
      /\ ~report.valid => flat[2] > MaxReason
  <2>1. WellFormed(TableFor(dir), report) =>
           /\ Len(flat) = (IF flat[2] \in ExtendedReasons THEN 3 ELSE 2)
           /\ flat[2] <= MaxReason
    BY <1>5 DEF WellFormed
  <2>2. Malformed(TableFor(dir), report) => Len(flat) >= 2 /\ flat[2] > MaxReason
    BY <1>5 DEF Malformed
  <2> QED
    BY <1>5, <2>1, <2>2
<1> HIDE DEF flat, start, report
<1>7. flat[2] \in Octets /\ 2 \in 1 .. Len(flat)
  BY <1>4, <1>6
<1>8. LongEnough(2) => adsc_buf[adsc_at + 3] = flat[2]
  <2>1. SUFFICES ASSUME LongEnough(2)  PROVE adsc_buf[adsc_at + 3] = flat[2]
    OBVIOUS
  <2>2. start + 3 <= a /\ start + 1 + 2 = start + 3
    BY <1>4, <2>1 DEF LongEnough
  <2>3. adsc_buf[start + 1 + 2] = flat[2]
    BY <1>4, <1>7, <2>2
  <2> QED
    BY <1>4, <2>2, <2>3
<1>9. report.valid => NackLength = IF LongEnough(2) THEN Len(flat) ELSE 2
  BY <1>6, <1>8 DEF NackLength
<1>10. NackLength \in {2, 3}
  BY DEF NackLength
<1>11. LongEnough(NackLength) => LongEnough(2)
  BY <1>4, <1>10 DEF LongEnough
<1>12. TheTag \in DOMAIN TypeIn(adsc_table) /\ TheType # "request"
  BY <1>1 DEF TagUnknown
<1>13. CASE NackValid /\ Parsed(NackLength)
  <2>1. LongEnough(NackLength) /\ LongEnough(2) /\ flat[2] <= MaxReason
    BY <1>8, <1>11, <1>13 DEF NackValid
  <2>2. report.valid
    <3>1. ~(flat[2] > MaxReason)
      <4>1. PICK v : v = flat[2]
        OBVIOUS
      <4>2. v <= MaxReason /\ v \in Octets
        BY <1>7, <2>1, <4>1, Zenon
      <4>3. ~(v > MaxReason)
        BY <4>2 DEF Octets, MaxReason
      <4> QED
        BY <4>1, <4>3, Zenon
    <3> QED
      BY <1>6, <3>1, Zenon
  <2>3. NackLength = Len(flat) /\ NackLength \in Nat
    BY <1>9, <1>10, <2>1, <2>2
  <2> QED
    BY <1>2, <1>3, <1>12, <1>13, <2>1, <2>2, <2>3, TagParsed DEF report, flat
<1>14. CASE ~NackValid /\ Fail(NewTag(TheTag))
  <2>1. ~report.valid \/ ReportsLength(reports, k + 1) > a
    <3>1. SUFFICES ASSUME report.valid  PROVE ReportsLength(reports, k + 1) > a
      OBVIOUS
    <3>2. LongEnough(2) => ~LongEnough(Len(flat))
      BY <1>6, <1>8, <1>9, <1>14, <3>1 DEF NackValid
    <3>3. ~LongEnough(Len(flat))
      BY <1>4, <1>6, <3>2 DEF LongEnough
    <3>4. ~(a - start - 1 >= Len(flat))
      BY <1>4, <3>3 DEF LongEnough
    <3> QED
      BY <1>4, <3>4
  <2>2. ~(dir = "GND2AIR" /\ CutBetweenParts(report, a - start))
    BY <1>5, RequestIsCut
  <2>3. NewTag(TheTag) \in AdscTags /\ NewTag(TheTag).tag = TheTag /\ NewTag(TheTag).type = "NULL"
    BY <1>4, NewTagIsTag DEF NewTag, Tag
  <2> QED
    BY <1>2, <1>3, <1>14, <2>1, <2>2, <2>3, TagFails DEF report, start
<1> QED
  BY <1>1, <1>13, <1>14

-----------------------------------------------------------------------------
(***************************************************************************)
(* Reports that are parsed in a loop.                                      *)
(***************************************************************************)

\* The parts behind the first are not empty.
LEMMA LaterParts ==
    ASSUME NEW table, NEW report \in Reports, WellFormed(table, report),
           TypeIn(table)[report.tag] \in {"noncomp", "request"}
    PROVE  /\ Len(report.parts) \in Nat /\ Len(report.parts) >= 1
           /\ \A i \in 1 .. Len(report.parts) : report.parts[i] \in Seq(Octets)
           /\ \A i \in 2 .. Len(report.parts) : Len(report.parts[i]) >= 1
           /\ \A i, j \in 1 .. Len(report.parts) :
                 i < j => PartsLength(report, i) < PartsLength(report, j)
           /\ PartsLength(report, 1) = 1 + Len(report.parts[1])
           /\ \A j \in 1 .. Len(report.parts[1]) :
                 FlattenSeq(report.parts)[j] = report.parts[1][j]
           /\ Len(report.parts[1]) <= Len(FlattenSeq(report.parts))
<1> DEFINE parts == report.parts
           n     == Len(parts)
           flat  == FlattenSeq(parts)
           P(i)  == PartsLength(report, i)
<1>1. /\ parts \in Seq(Seq(Octets)) /\ n \in Nat
      /\ \A i \in 1 .. n : parts[i] \in Seq(Octets)
  BY ReportFacts DEF Reports
<1>2. n >= 1
  <2>1. parts # <<>>
    BY DEF WellFormed
  <2> QED
    BY <1>1, <2>1
<1>3. ASSUME NEW i \in 2 .. n  PROVE Len(parts[i]) >= 1
  <2>1. CASE TypeIn(table)[report.tag] = "noncomp"
    <3>1. IsGroup(parts[i])
      BY <1>3, <2>1 DEF WellFormed
    <3>2. Len(parts[i]) \in Nat
      BY <1>1, <1>3
    <3> QED
      BY <3>1, <3>2 DEF IsGroup
  <2>2. CASE TypeIn(table)[report.tag] = "request"
    <3>1. IsItem(parts[i])
      BY <1>3, <2>2 DEF WellFormed
    <3>2. parts[i] # <<>> /\ parts[i] \in Seq(Octets)
      BY <1>1, <1>3, <3>1 DEF IsItem
    <3> QED
      BY <3>2
  <2> QED
    BY <2>1, <2>2
<1>4. \A i, j \in 1 .. n : i < j => P(i) < P(j)
  <2>1. 1 \in Nat /\ \A i \in 1 + 1 .. n : Len(parts[i]) >= 1
    BY <1>3
  <2> HIDE DEF n, P
  <2> QED
    BY <2>1, PartsGrow DEF n, P
<1>5. /\ P(1) = P(1 - 1) + Len(parts[1]) /\ P(0) = 1
      /\ \A j \in 1 .. Len(parts[1]) : ReportOctets(report)[P(1 - 1) + j] = parts[1][j]
      /\ \A j \in 1 .. Len(flat) : ReportOctets(report)[1 + j] = flat[j]
      /\ 1 + Len(flat) = P(n) /\ P(1) \in Nat /\ P(n) \in Nat
      /\ flat \in Seq(Octets)
  <2>1. 1 \in 1 .. n /\ 1 \in 0 .. n /\ n \in 0 .. n
    BY <1>1, <1>2
  <2> QED
    BY <2>1, ReportFacts
<1>6. Len(flat) \in Nat /\ Len(parts[1]) \in Nat
  <2>1. parts[1] \in Seq(Octets)
    BY <1>1, <1>2
  <2> QED
    BY <1>5, <2>1, LenProperties
<1> HIDE DEF parts, n, flat, P
<1>7. P(1) = 1 + Len(parts[1])
  BY <1>5, <1>6
<1>8. Len(parts[1]) <= Len(flat)
  <2>1. P(1) <= P(n)
    <3>1. CASE n = 1
      BY <1>5, <3>1
    <3>2. CASE n > 1
      BY <1>1, <1>4, <1>5, <3>2
    <3> QED
      BY <1>1, <1>2, <3>1, <3>2
  <2> QED
    BY <1>5, <1>6, <1>7, <2>1
<1>9. ASSUME NEW j \in 1 .. Len(parts[1])  PROVE flat[j] = parts[1][j]
  <2>1. j \in 1 .. Len(flat)
    BY <1>6, <1>8
  <2>2. P(1 - 1) = 1
    BY <1>5
  <2>3. ReportOctets(report)[P(1 - 1) + j] = parts[1][j] /\ ReportOctets(report)[1 + j] = flat[j]
    BY <1>5, <2>1
  <2> QED
    BY <2>2, <2>3
<1> QED
  BY <1>1, <1>2, <1>3, <1>4, <1>7, <1>8, <1>9 DEF parts, n, flat, P

\* Where the parser is in a report, and what comes next there.
LEMMA PartOfReport ==
    ASSUME NEW dir, NEW reports, NEW a, Fed(dir, reports, a),
           NEW k \in Nat, NEW m \in Nat, InReport(reports, k, m)
    PROVE  LET report == reports[k + 1]
               start  == ReportsLength(reports, k)
               n      == Len(report.parts)
               next   == report.parts[m + 1]
           IN  /\ k \in 0 .. Len(reports) - 1
               /\ report \in Reports /\ report.tag \in Octets
               /\ WellFormed(TableFor(dir), report)
               /\ a \in Nat /\ Len(adsc_buf) = a /\ start \in Nat /\ n \in Nat /\ m \in 1 .. n
               /\ \A i \in 0 .. n : PartsLength(report, i) \in Nat
               /\ adsc_at = start + PartsLength(report, m) /\ adsc_at \in Nat
               /\ Left = a - adsc_at /\ Left \in Nat
               /\ start < a
               /\ ReportsLength(reports, k + 1) = start + PartsLength(report, n)
               /\ m < n =>
                     /\ next \in Seq(Octets) /\ Len(next) \in Nat
                     /\ start + PartsLength(report, m + 1) = adsc_at + Len(next)
                     /\ \A j \in 1 .. Len(next) :
                           adsc_at + j <= a => adsc_buf[adsc_at + j] = next[j]
<1> DEFINE report == reports[k + 1]
           start  == ReportsLength(reports, k)
           n      == Len(report.parts)
           next   == report.parts[m + 1]
           all    == ReportOctets(report)
           P(i)   == PartsLength(report, i)
<1>1. /\ a \in Nat /\ Len(adsc_buf) = a
      /\ \A j \in 1 .. a : adsc_buf[j] \in Octets
  BY FedFacts
<1>2. /\ k \in 0 .. Len(reports) - 1 /\ report.valid /\ m \in 1 .. n
      /\ adsc_at = start + P(m) /\ adsc_at <= Len(adsc_buf)
  BY DEF InReport
<1>3. Arriving(dir, reports, a) /\ adsc_buf = SubSeq(ReportsOctets(reports), 1, a)
  BY DEF Fed
<1>4. /\ report \in Reports /\ IsReport(dir, report) /\ start \in Nat
      /\ Len(all) \in Nat
      /\ ReportsLength(reports, k + 1) = start + Len(all)
      /\ \A j \in 1 .. Len(all) : start + j <= a => adsc_buf[start + j] = all[j]
  BY <1>2, <1>3, OctetAt, SMTT(30)
<1>5. WellFormed(TableFor(dir), report)
  BY <1>2, <1>4, ReportIsOfTable
<1>6. /\ n \in Nat /\ report.tag \in Octets
      /\ Len(all) = P(n) /\ P(0) = 1
      /\ \A i \in 0 .. n : P(i) \in Nat
      /\ \A i \in 1 .. n :
            /\ report.parts[i] \in Seq(Octets)
            /\ P(i) = P(i - 1) + Len(report.parts[i])
            /\ \A j \in 1 .. Len(report.parts[i]) : all[P(i - 1) + j] = report.parts[i][j]
  BY <1>4, ReportFacts
<1> HIDE DEF start, all, report, P, n
<1>7. P(m) \in Nat /\ adsc_at \in Nat
  BY <1>2, <1>4, <1>6, SMTT(30)
<1>8. Left = a - adsc_at /\ Left \in Nat
  BY <1>1, <1>2, <1>7 DEF Left
<1>9. start < a
  <2>1. P(m) >= 1
    <3> DEFINE grown == {i \in 0 .. n : P(i) >= 1}
    <3>1. 0 \in grown
      BY <1>6
    <3>2. ASSUME NEW i \in 0 .. n - 1, i \in grown  PROVE i + 1 \in grown
      <4>1. i + 1 \in 1 .. n /\ i + 1 - 1 = i /\ i + 1 \in 0 .. n /\ i \in 0 .. n
        BY <1>6
      <4>2. report.parts[i + 1] \in Seq(Octets) /\ P(i + 1) = P(i) + Len(report.parts[i + 1])
        BY <1>6, <4>1
      <4>3. Len(report.parts[i + 1]) \in Nat /\ P(i) \in Nat
        BY <1>6, <4>1, <4>2, LenProperties
      <4> QED
        BY <3>2, <4>1, <4>2, <4>3
    <3>3. \A i \in 0 .. n : i \in grown
      <4> HIDE DEF grown
      <4> QED
        BY <1>6, <3>1, <3>2, UpTo
    <3> QED
      BY <1>2, <1>6, <3>3
  <2> QED
    BY <1>1, <1>2, <1>4, <1>7, <2>1
<1>10. ASSUME m < n
       PROVE  /\ next \in Seq(Octets) /\ Len(next) \in Nat
              /\ start + P(m + 1) = adsc_at + Len(next)
              /\ \A j \in 1 .. Len(next) :
                    adsc_at + j <= a => adsc_buf[adsc_at + j] = next[j]
  <2>1. m + 1 \in 1 .. n /\ m + 1 - 1 = m /\ m + 1 \in 0 .. n
    <3>1. m \in 1 .. n /\ n \in Nat
      BY <1>2, <1>6
    <3> QED
      BY <1>10, <3>1
  <2>2. /\ next \in Seq(Octets) /\ P(m + 1) = P(m) + Len(next)
        /\ \A j \in 1 .. Len(next) : all[P(m) + j] = next[j]
    BY <1>6, <2>1
  <2>3. Len(next) \in Nat
    BY <2>2, LenProperties
  <2>4. P(m) + Len(next) <= Len(all)
    <3>1. P(m + 1) <= P(n)
      <4> DEFINE f == [i \in 0 .. n |-> P(i)]
      <4>1. \A i \in 0 .. n : f[i] \in Int /\ f[i] = P(i)
        BY <1>6
      <4>2. ASSUME NEW i \in 1 .. n  PROVE f[i - 1] <= f[i]
        <5>1. i - 1 \in 0 .. n /\ i \in 0 .. n
          BY <1>6
        <5>2. Len(report.parts[i]) \in Nat /\ P(i) = P(i - 1) + Len(report.parts[i])
          BY <1>6, LenProperties
        <5> QED
          BY <1>6, <5>1, <5>2, SMTT(30)
      <4> HIDE DEF f
      <4>3. \A i, j \in 0 .. n : i <= j => f[i] <= f[j]
        BY <1>6, <4>1, <4>2, Growing
      <4>4. n \in 0 .. n /\ m + 1 <= n
        BY <1>6, <2>1
      <4> QED
        BY <2>1, <4>1, <4>3, <4>4
    <3> QED
      BY <1>6, <2>2, <3>1
  <2>5. ASSUME NEW j \in 1 .. Len(next), adsc_at + j <= a
        PROVE  adsc_buf[adsc_at + j] = next[j]
    <3>1. PICK i : i = P(m) + j
      OBVIOUS
    <3>2. i \in 1 .. Len(all) /\ start + i = adsc_at + j
      <4>1. PICK p, x, y : p = P(m) /\ x = Len(all) /\ y = Len(next)
        OBVIOUS
      <4>2. adsc_at = start + p /\ p \in Nat /\ x \in Nat /\ y \in Nat /\ p + y <= x
        BY <1>2, <1>4, <1>7, <2>3, <2>4, <4>1, Zenon
      <4>3. i = p + j /\ j \in 1 .. y /\ start \in Nat
        BY <1>4, <3>1, <4>1
      <4>4. i \in 1 .. x /\ start + i = adsc_at + j
        BY <4>2, <4>3
      <4> QED
        BY <4>1, <4>4, Zenon
    <3>3. adsc_buf[start + i] = all[i]
      BY <1>4, <2>5, <3>2
    <3> QED
      BY <2>2, <3>1, <3>2, <3>3
  <2>6. start + P(m + 1) = adsc_at + Len(next)
    BY <1>2, <1>4, <1>7, <2>2, <2>3, SMTT(30)
  <2> QED
    BY <2>2, <2>3, <2>5, <2>6
<1> QED
  BY <1>1, <1>2, <1>4, <1>5, <1>6, <1>7, <1>8, <1>9, <1>10 DEF start, report, P, n, next

\* As much of the next part as there is.
NextThere(report, m, a) ==
    \A j \in 1 .. Len(report.parts[m + 1]) :
        adsc_at + j <= a => adsc_buf[adsc_at + j] = report.parts[m + 1][j]

LEMMA NextPart ==
    ASSUME NEW dir, NEW reports, NEW a, Fed(dir, reports, a),
           NEW k \in Nat, NEW m \in Nat, InReport(reports, k, m),
           m < Len(reports[k + 1].parts)
    PROVE  NextThere(reports[k + 1], m, a)
BY PartOfReport, SMTT(30) DEF NextThere

\* Parsing fails inside a report that is cut, and not just shorter.
LEMMA FailsInside ==
    ASSUME NEW dir, NEW reports, NEW a, Followed(dir, reports, a),
           NEW k \in Nat, NEW m \in Nat, InReport(reports, k, m), FailInside,
           adsc_tags' \in Seq(AdscTags), Len(adsc_tags') = k + 1,
           \A i \in 1 .. k : adsc_tags'[i] = adsc_tags[i],
           adsc_tags'[k + 1].tag = reports[k + 1].tag, adsc_tags'[k + 1].type = "NULL",
           ReportsLength(reports, k + 1) > a,
           ~(dir = "GND2AIR"
                /\ CutBetweenParts(reports[k + 1], a - ReportsLength(reports, k)))
    PROVE  Followed(dir, reports, a)'
<1>1. Fed(dir, reports, a) /\ Arriving(dir, reports, a)
  BY DEF Followed, Fed
<1>2. k \in 0 .. Len(reports) - 1 /\ ReportsLength(reports, k) < a
  BY <1>1, PartOfReport
<1>3. adsc_err' /\ adsc_pc' = "done" /\ UNCHANGED <<adsc_table, adsc_buf>>
  BY DEF FailInside
<1>4. Tagged(reports, k)'
  BY TaggedStays DEF InReport
<1>5. AsSent(dir, reports, a)'
  BY <1>1, <1>2, <1>3, <1>4, FailedAsSent
<1>6. Fed(dir, reports, a)'
  BY <1>1, <1>3, FedStays
<1> QED
  BY <1>3, <1>5, <1>6 DEF Followed

\* The loop ends, and the tag gets its type.
LEMMA LoopLeft ==
    ASSUME NEW dir, NEW reports, NEW a, Fed(dir, reports, a),
           NEW k \in Nat, NEW m \in Nat, InReport(reports, k, m),
           NEW type \in TagTypes \ {"NULL"}, adsc_tags' = TagDone(type)
    PROVE  /\ adsc_tags' \in Seq(AdscTags)
           /\ Len(adsc_tags') = k + 1
           /\ \A i \in 1 .. k : adsc_tags'[i] = adsc_tags[i]
           /\ adsc_tags'[k + 1].tag = reports[k + 1].tag
           /\ adsc_tags'[k + 1].type = type
           /\ adsc_tags'[k + 1].list = adsc_tags[k + 1].list
           /\ Tagged(reports, k)'
<1> DEFINE old == adsc_tags[k + 1]
           tag == Tag(LastTag.tag, type, LastTag.data, LastTag.list)
<1>1. adsc_tags \in Seq(AdscTags) /\ Len(adsc_tags) = k + 1 /\ old.tag = reports[k + 1].tag
  BY DEF Fed, InReport
<1>2. LastTag = old /\ old \in AdscTags
  BY <1>1 DEF LastTag
<1>3. /\ tag \in AdscTags /\ tag.type = type /\ tag.tag = reports[k + 1].tag
      /\ tag.list = old.list
  <2>1. /\ old.tag \in Octets /\ old.data \in BOOLEAN /\ old.list \in Seq(RequestItems)
    BY <1>2 DEF AdscTags
  <2>2. tag = Tag(old.tag, type, old.data, old.list)
    BY <1>2
  <2> HIDE DEF tag, old
  <2>3. tag \in AdscTags
    BY <2>1, <2>2, TagIsTag
  <2> QED
    BY <1>1, <2>2, <2>3 DEF Tag
<1>4. adsc_tags' = [adsc_tags EXCEPT ![Len(adsc_tags)] = tag]
  BY DEF TagDone, WithLast
<1> HIDE DEF tag, old
<1>5. /\ adsc_tags' \in Seq(AdscTags) /\ Len(adsc_tags') = k + 1
      /\ adsc_tags'[k + 1] = tag /\ \A i \in 1 .. k : adsc_tags'[i] = adsc_tags[i]
  BY <1>1, <1>3, <1>4, TagsChanged
<1>6. Tagged(reports, k)'
  BY <1>5, TaggedStays DEF InReport
<1> QED
  BY <1>3, <1>5, <1>6 DEF old

\* Behind the last part of a report that has been decoded the next one follows.
LEMMA ReportEnds ==
    ASSUME NEW dir, NEW reports, NEW a, Fed(dir, reports, a),
           NEW k \in Nat, NEW m \in Nat, InReport(reports, k, m),
           m = Len(reports[k + 1].parts),
           Len(adsc_tags') = k + 1, Tagged(reports, k)',
           Decodes(adsc_tags'[k + 1], reports[k + 1], m),
           UNCHANGED <<adsc_buf, adsc_at, adsc_err>>
    PROVE  AtReport(reports, k + 1)'
<1>1. /\ k \in 0 .. Len(reports) - 1
      /\ adsc_at = ReportsLength(reports, k) + PartsLength(reports[k + 1], m)
      /\ ReportsLength(reports, k + 1) = ReportsLength(reports, k) + PartsLength(reports[k + 1], m)
  BY PartOfReport, SMTT(30)
<1>2. k + 1 \in 0 .. Len(reports)
  BY <1>1, FedFacts
<1>3. adsc_at <= Len(adsc_buf) /\ ~adsc_err /\ reports[k + 1].valid
  BY DEF InReport
<1>4. Tagged(reports, k + 1)'
  <2>1. \A i \in 1 .. k + 1 : i \in 1 .. k \/ i = k + 1
    OBVIOUS
  <2> QED
    BY <1>3, <2>1 DEF Tagged
<1> QED
  BY <1>1, <1>2, <1>3, <1>4 DEF AtReport

\* What is left behind a tag is enough for its body.
LEMMA OctetsFit ==
    ASSUME NEW all \in Nat, NEW start \in Nat, NEW size \in Nat, all - start - 1 >= size
    PROVE  start + 1 + size <= all /\ start + (1 + size) = start + 1 + size
OBVIOUS

\* A parser with a loop begins: the first part of its report is there.
LEMMA LoopEntered ==
    ASSUME NEW dir, NEW reports, NEW a, Fed(dir, reports, a),
           NEW k \in Nat, AtReport(reports, k), Left > 0,
           ~TagUnknown, TheType \in {"noncomp", "request"},
           NEW size \in Nat, size = Len(reports[k + 1].parts[1]), LongEnough(size),
           adsc_tags' = Append(adsc_tags, Tag(TheTag, "NULL", TRUE, <<>>)),
           adsc_at' = adsc_at + 1 + size,
           UNCHANGED <<adsc_table, adsc_buf, adsc_err>>
    PROVE  /\ Fed(dir, reports, a)'
           /\ InReport(reports, k, 1)'
           /\ adsc_tags'[k + 1].type = "NULL"
           /\ adsc_tags'[k + 1].list = <<>>
<1> DEFINE report == reports[k + 1]
           start  == ReportsLength(reports, k)
           tag    == Tag(TheTag, "NULL", TRUE, <<>>)
<1>1. /\ k \in 0 .. Len(reports) - 1
      /\ report \in Reports /\ IsReport(dir, report)
      /\ a \in Nat /\ start \in Nat /\ adsc_at = start /\ Left = a - start
      /\ TheTag = report.tag /\ TheTag \in Octets
  BY TagOfReport
<1>2. /\ report.tag \in DOMAIN TypeIn(TableFor(dir))
      /\ TypeIn(TableFor(dir))[report.tag] \in {"noncomp", "request"}
      /\ report.valid /\ WellFormed(TableFor(dir), report)
  BY <1>1, TagLookedUp, ReportIsOfTable
<1>3. /\ Len(report.parts) \in Nat /\ Len(report.parts) >= 1
      /\ PartsLength(report, 1) = 1 + size
  BY <1>1, <1>2, LaterParts
<1>4. /\ tag \in AdscTags /\ tag.tag = report.tag /\ tag.type = "NULL" /\ tag.list = <<>>
  <2>1. <<>> \in Seq(RequestItems) /\ "NULL" \in TagTypes
    BY DEF TagTypes
  <2> QED
    BY <1>1, <2>1, TagIsTag DEF Tag
<1> HIDE DEF tag, start, report
<1>5. adsc_tags \in Seq(AdscTags) /\ Len(adsc_tags) = k /\ adsc_tags' = Append(adsc_tags, tag)
  BY DEF Fed, AtReport, tag
<1>6. /\ adsc_tags' \in Seq(AdscTags) /\ Len(adsc_tags') = k + 1
      /\ adsc_tags'[k + 1] = tag /\ \A i \in 1 .. k : adsc_tags'[i] = adsc_tags[i]
  <2>1. /\ Append(adsc_tags, tag) \in Seq(AdscTags)
        /\ Len(Append(adsc_tags, tag)) = Len(adsc_tags) + 1
        /\ Append(adsc_tags, tag)[Len(adsc_tags) + 1] = tag
        /\ \A i \in 1 .. Len(adsc_tags) : Append(adsc_tags, tag)[i] = adsc_tags[i]
    BY <1>4, <1>5, TagsAdded
  <2> QED
    BY <1>5, <2>1, Zenon
<1>7. Tagged(reports, k)' /\ ~adsc_err
  BY <1>6, TaggedStays DEF AtReport
<1>8. adsc_at' = start + PartsLength(report, 1) /\ adsc_at' <= Len(adsc_buf)
  <2>1. a - start - 1 >= size /\ Len(adsc_buf) = a
    BY <1>1, FedFacts DEF LongEnough
  <2>2. /\ a \in Nat /\ start \in Nat /\ size \in Nat
        /\ adsc_at' = start + 1 + size
    BY <1>1, Zenon
  <2>3. start + 1 + size <= a /\ start + (1 + size) = start + 1 + size
    BY <2>1, <2>2, OctetsFit, ZenonT(40)
  <2> QED
    BY <1>3, <2>1, <2>2, <2>3
<1>9. 1 \in 1 .. Len(report.parts)
  BY <1>3
<1>10. InReport(reports, k, 1)'
  BY <1>1, <1>2, <1>4, <1>6, <1>7, <1>8, <1>9 DEF InReport, report, start
<1>11. Fed(dir, reports, a)'
  BY <1>6, FedStays
<1> QED
  BY <1>4, <1>6, <1>10, <1>11

\* It fails at once when that is not so.
LEMMA LoopNotEntered ==
    ASSUME NEW dir, NEW reports, NEW a, Followed(dir, reports, a),
           NEW k \in Nat, AtReport(reports, k), Left > 0,
           ~TagUnknown, TheType \in {"noncomp", "request"},
           NEW size \in Nat, size = Len(reports[k + 1].parts[1]), ~LongEnough(size),
           Fail(NewTag(TheTag))
    PROVE  Followed(dir, reports, a)'
<1> DEFINE report == reports[k + 1]
           start  == ReportsLength(reports, k)
           n      == Len(report.parts)
           P(i)   == PartsLength(report, i)
<1>1. Fed(dir, reports, a)
  BY DEF Followed
<1>2. /\ report \in Reports /\ IsReport(dir, report)
      /\ a \in Nat /\ start \in Nat /\ Left = a - start
      /\ TheTag = report.tag /\ TheTag \in Octets
      /\ ReportsLength(reports, k + 1) = start + 1 + Len(FlattenSeq(report.parts))
      /\ Len(FlattenSeq(report.parts)) \in Nat
  BY <1>1, TagOfReport
<1>3. /\ TypeIn(TableFor(dir))[report.tag] \in {"noncomp", "request"}
      /\ WellFormed(TableFor(dir), report)
  BY <1>1, <1>2, TagLookedUp, ReportIsOfTable
<1>4. /\ n \in Nat /\ n >= 1
      /\ \A i, j \in 1 .. n : i < j => P(i) < P(j)
      /\ P(1) = 1 + size /\ size <= Len(FlattenSeq(report.parts))
  BY <1>2, <1>3, LaterParts
<1>5. \A i \in 0 .. n : P(i) \in Nat
  BY <1>2, ReportFacts
<1> HIDE DEF start, P, n
<1>6. a - start < 1 + size
  BY <1>2 DEF LongEnough
<1>7. ReportsLength(reports, k + 1) > a
  <2>1. PICK l : l = Len(FlattenSeq(report.parts))
    OBVIOUS
  <2>2. ReportsLength(reports, k + 1) = start + 1 + l /\ l \in Nat /\ size <= l
    BY <1>2, <1>4, <2>1
  <2> HIDE DEF report
  <2> QED
    BY <1>2, <1>6, <2>2
<1>8. ~CutBetweenParts(report, a - start)
  <2>1. SUFFICES ASSUME NEW i \in 1 .. n, a - start = P(i)  PROVE FALSE
    BY DEF CutBetweenParts, n, P
  <2>2. P(1) <= P(i)
    <3>1. CASE i = 1
      BY <1>4, <3>1
    <3>2. CASE i > 1
      <4>1. 1 \in 1 .. n /\ 1 \in 0 .. n /\ i \in 0 .. n
        BY <1>4
      <4> QED
        BY <1>4, <1>5, <3>2, <4>1
    <3> QED
      BY <1>4, <3>1, <3>2
  <2> QED
    BY <1>2, <1>4, <1>6, <2>1, <2>2
<1>9. NewTag(TheTag) \in AdscTags /\ NewTag(TheTag).tag = TheTag /\ NewTag(TheTag).type = "NULL"
  BY <1>2, NewTagIsTag DEF NewTag, Tag
<1> QED
  BY <1>7, <1>8, <1>9, TagFails DEF start

\* The parser still follows the reports behind a noncompliance notification.
LEMMA NoncompTagFollows ==
    ASSUME NEW dir, NEW reports, NEW a, Followed(dir, reports, a), NoncompTag
    PROVE  Followed(dir, reports, a)'
<1>1. /\ TagRead /\ ~TagUnknown /\ TheType = "noncomp"
      /\ \/ /\ LongEnough(2)
            /\ adsc_tags' = Append(adsc_tags, Tag(TheTag, "NULL", TRUE, <<>>))
            /\ adsc_left' = adsc_buf[adsc_at + 3]
            /\ adsc_at' = adsc_at + 3
            /\ adsc_pc' = "groups"
            /\ UNCHANGED <<adsc_table, adsc_buf, adsc_err>>
         \/ ~LongEnough(2) /\ Fail(NewTag(TheTag))
  BY DEF NoncompTag
<1>2. PICK k \in Nat : AtReport(reports, k)
  BY <1>1, TagReadAt
<1>3. Left > 0 /\ Fed(dir, reports, a)
  BY <1>1 DEF TagRead, Followed
<1> DEFINE report == reports[k + 1]
           flat   == FlattenSeq(report.parts)
           start  == ReportsLength(reports, k)
           first  == report.parts[1]
<1>4. /\ TheTag = report.tag /\ report \in Reports /\ IsReport(dir, report)
      /\ Left = a - start /\ a \in Nat /\ start \in Nat /\ adsc_at = start
      /\ Len(flat) \in Nat
      /\ \A j \in 1 .. Len(flat) :
            start + 1 + j <= a => adsc_buf[start + 1 + j] = flat[j]
  BY <1>2, <1>3, TagOfReport, SMTT(30)
<1>5. /\ TypeIn(TableFor(dir))[report.tag] = "noncomp"
      /\ WellFormed(TableFor(dir), report)
  BY <1>1, <1>3, <1>4, TagLookedUp, ReportIsOfTable
<1>6. Len(first) = 2 /\ first[2] = Len(report.parts) - 1
  BY <1>5 DEF WellFormed
<1>7. flat[2] = first[2] /\ 2 <= Len(flat)
  <2>1. /\ \A j \in 1 .. Len(first) : flat[j] = first[j]
        /\ Len(first) <= Len(flat)
    BY <1>4, <1>5, LaterParts
  <2> QED
    BY <1>6, <2>1
<1>8. TheType \in {"noncomp", "request"}
  BY <1>1
<1>9. CASE ~LongEnough(2) /\ Fail(NewTag(TheTag))
  BY <1>1, <1>2, <1>3, <1>6, <1>8, <1>9, LoopNotEntered
<1>10. CASE /\ LongEnough(2)
            /\ adsc_tags' = Append(adsc_tags, Tag(TheTag, "NULL", TRUE, <<>>))
            /\ adsc_left' = adsc_buf[adsc_at + 3]
            /\ adsc_at' = adsc_at + 3
            /\ adsc_pc' = "groups"
            /\ UNCHANGED <<adsc_table, adsc_buf, adsc_err>>
  <2>1. /\ Fed(dir, reports, a)' /\ InReport(reports, k, 1)'
        /\ adsc_tags'[k + 1].type = "NULL"
    <3>1. adsc_at' = adsc_at + 1 + 2
      BY <1>4, <1>10
    <3> QED
      BY <1>1, <1>2, <1>3, <1>6, <1>8, <1>10, <3>1, LoopEntered
  <2>2. adsc_left' = Len(report.parts) - 1
    <3>1. start + 3 <= a /\ start + 1 + 2 = start + 3
      BY <1>4, <1>10 DEF LongEnough
    <3> HIDE DEF start, flat, first
    <3>2. 2 \in 1 .. Len(flat)
      BY <1>4, <1>7
    <3>3. adsc_buf[start + 1 + 2] = flat[2]
      BY <1>4, <3>1, <3>2
    <3> QED
      BY <1>4, <1>6, <1>7, <1>10, <3>1, <3>3
  <2>3. InGroups(dir, reports, k, 1)'
    BY <1>5, <2>1, <2>2 DEF InGroups
  <2> QED
    BY <1>10, <2>1, <2>3 DEF Followed
<1> QED
  BY <1>1, <1>9, <1>10

\* The parser still follows the reports behind a group of a noncompliance notification.
LEMMA NoncompGroupFollows ==
    ASSUME NEW dir, NEW reports, NEW a, Followed(dir, reports, a), NoncompGroup
    PROVE  Followed(dir, reports, a)'
<1> DEFINE size == IF Left < 2 THEN 2 ELSE GroupLength(adsc_buf[adsc_at + 2])
<1>1. /\ adsc_pc = "groups" /\ adsc_left > 0
      /\ \/ /\ Left >= size
            /\ adsc_at' = adsc_at + size
            /\ adsc_left' = adsc_left - 1
            /\ UNCHANGED <<adsc_table, adsc_buf, adsc_pc, adsc_tags, adsc_err>>
         \/ /\ Left >= size /\ Left = size /\ adsc_left > 1
            /\ FailInside
            /\ UNCHANGED adsc_tags
         \/ /\ Left < size
            /\ FailInside
            /\ UNCHANGED adsc_tags
  BY DEF NoncompGroup
<1>2. Fed(dir, reports, a)
  BY DEF Followed
<1>3. PICK k \in Nat : \E m \in Nat : InGroups(dir, reports, k, m)
  BY <1>1 DEF Followed
<1>4. PICK m \in Nat : InGroups(dir, reports, k, m)
  BY <1>3
<1> DEFINE report == reports[k + 1]
           start  == ReportsLength(reports, k)
           n      == Len(report.parts)
           P(i)   == PartsLength(report, i)
           next   == report.parts[m + 1]
<1>5. /\ InReport(reports, k, m)
      /\ TypeIn(TableFor(dir))[report.tag] = "noncomp"
      /\ adsc_tags[k + 1].type = "NULL"
      /\ adsc_left = n - m
  BY <1>4 DEF InGroups
<1>6. /\ report \in Reports /\ WellFormed(TableFor(dir), report)
      /\ a \in Nat /\ Len(adsc_buf) = a /\ start \in Nat /\ n \in Nat /\ m \in 1 .. n
      /\ \A i \in 0 .. n : P(i) \in Nat
      /\ adsc_at \in Nat /\ Left = a - adsc_at /\ Left \in Nat
      /\ ReportsLength(reports, k + 1) = start + P(n)
      /\ m < n =>
            /\ next \in Seq(Octets) /\ Len(next) \in Nat
            /\ start + P(m + 1) = adsc_at + Len(next)
            /\ \A j \in 1 .. Len(next) :
                  adsc_at + j <= a => adsc_buf[adsc_at + j] = next[j]
  <2>1. k \in Nat /\ m \in Nat /\ InReport(reports, k, m)
    BY <1>3, <1>4, <1>5
  <2>2. /\ report \in Reports /\ WellFormed(TableFor(dir), report)
        /\ a \in Nat /\ Len(adsc_buf) = a /\ start \in Nat /\ n \in Nat /\ m \in 1 .. n
        /\ adsc_at \in Nat /\ Left = a - adsc_at /\ Left \in Nat
    BY <1>2, <2>1, PartOfReport, SMTT(30)
  <2>4. ASSUME NEW i \in 0 .. n  PROVE P(i) \in Nat
    BY <1>2, <2>1, PartOfReport, SMTT(30)
  <2>3. /\ ReportsLength(reports, k + 1) = start + P(n)
        /\ m < n =>
            /\ next \in Seq(Octets) /\ Len(next) \in Nat
            /\ start + P(m + 1) = adsc_at + Len(next)
            /\ \A j \in 1 .. Len(next) :
                  adsc_at + j <= a => adsc_buf[adsc_at + j] = next[j]
    BY <1>2, <2>1, PartOfReport
  <2> QED
    BY <2>2, <2>3, <2>4
<1>7. m < n /\ m + 1 \in 2 .. n /\ m + 1 \in 1 .. n
  BY <1>1, <1>5, <1>6, SMTT(30)
<1>8. IsGroup(next)
  BY <1>5, <1>6, <1>7 DEF WellFormed
<1>9. \A i, j \in 1 .. n : i < j => P(i) < P(j)
  BY <1>5, <1>6, LaterParts
<1> HIDE DEF start, n, P, next
<1>10. /\ Len(next) \in Nat /\ Len(next) >= 2
       /\ start + P(m + 1) = adsc_at + Len(next)
       /\ Left >= 2 => size = Len(next)
       /\ Left < 2 => size = 2
  <2>1. Len(next) \in Nat /\ Len(next) >= 2 /\ Len(next) = GroupLength(next[2])
        /\ start + P(m + 1) = adsc_at + Len(next)
    BY <1>6, <1>7, <1>8 DEF IsGroup
  <2>2. ASSUME Left >= 2  PROVE size = Len(next)
    <3>1. 2 \in 1 .. Len(next) /\ adsc_at + 2 <= a
      BY <1>6, <2>1, <2>2
    <3>2. adsc_buf[adsc_at + 2] = next[2]
      BY <1>6, <1>7, <3>1
    <3> QED
      BY <1>6, <2>1, <2>2, <3>2
  <2> QED
    BY <2>1, <2>2
<1> HIDE DEF size
<1>11. CASE /\ Left >= size
            /\ adsc_at' = adsc_at + size
            /\ adsc_left' = adsc_left - 1
            /\ UNCHANGED <<adsc_table, adsc_buf, adsc_pc, adsc_tags, adsc_err>>
  <2>1. size = Len(next) /\ adsc_at + size <= a
    <3>1. Left >= 2
      BY <1>6, <1>10, <1>11
    <3> QED
      BY <1>6, <1>10, <1>11, <3>1
  <2>2. adsc_at' = start + P(m + 1) /\ adsc_at' <= Len(adsc_buf)
    BY <1>6, <1>10, <1>11, <2>1
  <2>3. InReport(reports, k, m + 1)'
    <3>1. Tagged(reports, k)'
      BY <1>5, <1>11, TaggedStays DEF InReport
    <3> QED
      BY <1>5, <1>7, <1>11, <2>2, <3>1 DEF InReport, start, P, n
  <2>4. adsc_left' = n - (m + 1)
    BY <1>5, <1>6, <1>11
  <2>5. InGroups(dir, reports, k, m + 1)'
    BY <1>5, <1>11, <2>3, <2>4 DEF InGroups, n
  <2>6. Fed(dir, reports, a)'
    BY <1>2, <1>11, FedStays DEF Fed
  <2>7. m + 1 \in Nat
    OBVIOUS
  <2> QED
    BY <1>1, <1>11, <2>5, <2>6, <2>7 DEF Followed
<1>12. CASE /\ (Left = size /\ adsc_left > 1) \/ Left < size
            /\ FailInside
            /\ UNCHANGED adsc_tags
  <2>1. start + P(n) > a
    <3>1. n \in 1 .. n /\ n \in 0 .. n /\ m + 1 \in 0 .. n
      BY <1>6, <1>7, SMTT(30)
    <3>2. P(n) \in Nat /\ P(m + 1) \in Nat
      BY <1>6, <3>1
    <3>3. P(m + 1) <= P(n)
      <4>1. CASE m + 1 = n
        BY <3>2, <4>1
      <4>2. CASE m + 1 < n
        BY <1>7, <1>9, <3>1, <3>2, <4>2
      <4> QED
        BY <1>6, <1>7, <4>1, <4>2
    <3>4. CASE Left = size /\ adsc_left > 1
      <4>1. Left >= 2
        BY <1>6, <1>10, <3>4
      <4>2. adsc_at + Len(next) = a
        <5>1. /\ a - adsc_at = Len(next) /\ a \in Nat /\ adsc_at \in Nat
              /\ Len(next) \in Nat
          BY <1>6, <1>10, <3>4, <4>1, Zenon
        <5> QED
          BY <5>1
      <4>3. m + 1 < n
        BY <1>5, <1>6, <1>12, <3>4
      <4>4. P(m + 1) < P(n)
        BY <1>7, <1>9, <3>1, <4>3
      <4> QED
        BY <1>6, <1>10, <3>2, <4>2, <4>4
    <3>5. CASE Left < size
      <4>1. Left < Len(next)
        BY <1>6, <1>10, <3>5
      <4> QED
        BY <1>6, <1>10, <3>2, <3>3, <4>1, SMTT(30)
    <3> QED
      BY <1>12, <3>4, <3>5
  <2>2. ~(dir = "GND2AIR" /\ CutBetweenParts(report, a - start))
    BY <1>5, RequestIsCut
  <2>3. /\ adsc_tags' = adsc_tags /\ adsc_tags \in Seq(AdscTags) /\ Len(adsc_tags) = k + 1
        /\ adsc_tags[k + 1].tag = report.tag
    BY <1>2, <1>5, <1>12 DEF Fed, InReport
  <2>4. ReportsLength(reports, k + 1) > a
    BY <1>6, <2>1
  <2> QED
    BY <1>5, <1>12, <2>2, <2>3, <2>4, FailsInside DEF start
<1> QED
  BY <1>1, <1>11, <1>12

\* The parser still follows the reports behind the end of a noncompliance notification.
LEMMA NoncompReturnsFollows ==
    ASSUME NEW dir, NEW reports, NEW a, Followed(dir, reports, a), NoncompReturns
    PROVE  Followed(dir, reports, a)'
<1>1. /\ adsc_pc = "groups" /\ adsc_left = 0
      /\ adsc_tags' = TagDone("noncomp") /\ adsc_pc' = "tags"
      /\ UNCHANGED <<adsc_table, adsc_buf, adsc_at, adsc_err>>
  BY DEF NoncompReturns
<1>2. Fed(dir, reports, a)
  BY DEF Followed
<1>3. PICK k \in Nat : \E m \in Nat : InGroups(dir, reports, k, m)
  BY <1>1 DEF Followed
<1>4. PICK m \in Nat : InGroups(dir, reports, k, m)
  BY <1>3
<1>5. InReport(reports, k, m) /\ adsc_left = Len(reports[k + 1].parts) - m
  BY <1>4 DEF InGroups
<1>6. m = Len(reports[k + 1].parts)
  <2>1. Len(reports[k + 1].parts) \in Nat
    BY <1>2, <1>3, <1>4, <1>5, PartOfReport
  <2> QED
    BY <1>1, <1>5, <2>1
<1>7. /\ adsc_tags' \in Seq(AdscTags) /\ Len(adsc_tags') = k + 1
      /\ adsc_tags'[k + 1].tag = reports[k + 1].tag
      /\ adsc_tags'[k + 1].type = "noncomp"
      /\ Tagged(reports, k)'
  <2>1. "noncomp" \in TagTypes \ {"NULL"}
    BY DEF TagTypes
  <2>2. adsc_tags' = TagDone("noncomp")
    BY <1>1
  <2> QED
    BY <1>2, <1>3, <1>4, <1>5, <2>1, <2>2, LoopLeft
<1>8. Decodes(adsc_tags'[k + 1], reports[k + 1], m)
  BY <1>7 DEF Decodes
<1>9. AtReport(reports, k + 1)'
  BY <1>1, <1>2, <1>5, <1>6, <1>7, <1>8, ReportEnds
<1>10. Fed(dir, reports, a)'
  BY <1>1, <1>2, <1>7, FedStays
<1>11. k + 1 \in Nat
  OBVIOUS
<1> QED
  BY <1>1, <1>9, <1>10, <1>11 DEF Followed

\* The parser still follows the reports behind a contract request.
LEMMA RequestTagFollows ==
    ASSUME NEW dir, NEW reports, NEW a, Followed(dir, reports, a), RequestTag
    PROVE  Followed(dir, reports, a)'
<1>1. /\ TagRead /\ ~TagUnknown /\ TheType = "request"
      /\ \/ /\ LongEnough(1)
            /\ adsc_tags' = Append(adsc_tags, Tag(TheTag, "NULL", TRUE, <<>>))
            /\ adsc_at' = adsc_at + 2
            /\ adsc_pc' = "request"
            /\ UNCHANGED <<adsc_table, adsc_buf, adsc_err>>
         \/ ~LongEnough(1) /\ Fail(NewTag(TheTag))
  BY DEF RequestTag
<1>2. PICK k \in Nat : AtReport(reports, k)
  BY <1>1, TagReadAt
<1>3. Left > 0 /\ Fed(dir, reports, a)
  BY <1>1 DEF TagRead, Followed
<1> DEFINE report == reports[k + 1]
<1>4. /\ TheTag = report.tag /\ report \in Reports /\ IsReport(dir, report)
      /\ adsc_at \in Nat
  BY <1>2, <1>3, TagOfReport
<1>5. /\ TypeIn(TableFor(dir))[report.tag] = "request"
      /\ WellFormed(TableFor(dir), report)
  BY <1>1, <1>3, <1>4, TagLookedUp, ReportIsOfTable
<1>6. Len(report.parts[1]) = 1
  BY <1>5 DEF WellFormed
<1>7. TheType \in {"noncomp", "request"}
  BY <1>1
<1>8. CASE ~LongEnough(1) /\ Fail(NewTag(TheTag))
  BY <1>1, <1>2, <1>3, <1>6, <1>7, <1>8, LoopNotEntered
<1>9. CASE /\ LongEnough(1)
           /\ adsc_tags' = Append(adsc_tags, Tag(TheTag, "NULL", TRUE, <<>>))
           /\ adsc_at' = adsc_at + 2
           /\ adsc_pc' = "request"
           /\ UNCHANGED <<adsc_table, adsc_buf, adsc_err>>
  <2>1. /\ Fed(dir, reports, a)' /\ InReport(reports, k, 1)'
        /\ adsc_tags'[k + 1].type = "NULL" /\ adsc_tags'[k + 1].list = <<>>
    <3>1. adsc_at' = adsc_at + 1 + 1
      BY <1>4, <1>9
    <3> QED
      BY <1>1, <1>2, <1>3, <1>6, <1>7, <1>9, <3>1, LoopEntered
  <2>2. Len(adsc_tags'[k + 1].list) = 1 - 1 /\ 1 .. 1 - 1 = {}
    BY <2>1
  <2>3. InItems(dir, reports, k, 1)'
    BY <1>5, <2>1, <2>2 DEF InItems, Requested
  <2> QED
    BY <1>2, <1>9, <2>1, <2>3 DEF Followed
<1> QED
  BY <1>1, <1>8, <1>9

\* Only messages to an aircraft have requests.
LEMMA RequestIsUplink ==
    ASSUME NEW dir, NEW tag, tag \in DOMAIN TypeIn(TableFor(dir)),
           TypeIn(TableFor(dir))[tag] = "request"
    PROVE  dir = "GND2AIR" /\ tag \in {7, 8, 9}
<1>1. CASE dir = "GND2AIR"
  BY <1>1 DEF TableFor, TypeIn, UplinkType, UplinkTags, Fixed
<1>2. CASE dir # "GND2AIR"
  BY <1>2 DEF TableFor, TypeIn, DownlinkType, DownlinkTags, Fixed
<1> QED
  BY <1>1, <1>2

\* No report begins like a tag of a request.
LEMMA NoReportIsItem ==
    ASSUME NEW report \in Reports, IsReport("GND2AIR", report)
    PROVE  report.tag \notin RequestTags
<1>1. TableFor("GND2AIR") = "uplink" /\ DOMAIN TypeIn("uplink") = UplinkTags
  BY DEF TableFor, TypeIn, UplinkType
<1>2. CASE report.valid
  BY <1>1, <1>2, ReportIsOfTable DEF UplinkTags, RequestTags
<1>3. CASE ~report.valid
  <2>1. Malformed("uplink", report)
    BY <1>1, <1>3, ReportIsOfTable
  <2>2. report.tag \in DOMAIN TypeIn("uplink") \/ report.tag \notin RequestTags
    BY <2>1 DEF Malformed
  <2>3. UplinkTags \cap RequestTags = {}
    BY DEF UplinkTags, RequestTags
  <2> QED
    BY <1>1, <2>2, <2>3
<1> QED
  BY <1>2, <1>3

\* In a request: what the parser finds there is the next tag of it, or what
\* follows it.
LEMMA ItemFacts ==
    ASSUME NEW dir, NEW reports, NEW a, Fed(dir, reports, a),
           NEW k \in Nat, NEW m \in Nat, Requested(dir, reports, k, m)
    PROVE  LET report == reports[k + 1]
               start  == ReportsLength(reports, k)
               n      == Len(report.parts)
               next   == report.parts[m + 1]
           IN  /\ dir = "GND2AIR" /\ report.tag \in {7, 8, 9}
               /\ n \in Nat /\ m \in 1 .. n
               /\ a \in Nat /\ Len(adsc_buf) = a /\ adsc_at \in Nat /\ start \in Nat
               /\ Left = a - adsc_at /\ Left \in Nat
               /\ adsc_at = start + PartsLength(report, m)
               /\ \A i \in 1 .. n : PartsLength(report, i) \in Nat
               /\ \A i, j \in 1 .. n : i < j => PartsLength(report, i) < PartsLength(report, j)
               /\ ReportsLength(reports, k + 1) = start + PartsLength(report, n)
               /\ m = n => EndOfRequest
               /\ m < n => /\ Head(next) \in RequestTags
                           /\ Left > 0 => TheTag = Head(next)
                           /\ start + PartsLength(report, m + 1) =
                                 adsc_at + 1 + ItemLength(Head(next))
<1> DEFINE report == reports[k + 1]
           start  == ReportsLength(reports, k)
           n      == Len(report.parts)
           next   == report.parts[m + 1]
           P(i)   == PartsLength(report, i)
<1>1. /\ InReport(reports, k, m)
      /\ TypeIn(TableFor(dir))[report.tag] = "request"
  BY DEF Requested
<1>2. /\ k \in 0 .. Len(reports) - 1
      /\ report \in Reports /\ WellFormed(TableFor(dir), report)
      /\ a \in Nat /\ Len(adsc_buf) = a /\ start \in Nat /\ n \in Nat /\ m \in 1 .. n
      /\ \A i \in 0 .. n : P(i) \in Nat
  BY <1>1, PartOfReport
<1>3. /\ adsc_at = start + P(m) /\ adsc_at \in Nat
      /\ Left = a - adsc_at /\ Left \in Nat
      /\ ReportsLength(reports, k + 1) = start + P(n)
  BY <1>1, PartOfReport
<1>4. m < n =>
         /\ next \in Seq(Octets) /\ Len(next) \in Nat
         /\ start + P(m + 1) = adsc_at + Len(next)
         /\ \A j \in 1 .. Len(next) :
               adsc_at + j <= a => adsc_buf[adsc_at + j] = next[j]
  <2>1. m < n =>
           /\ next \in Seq(Octets) /\ Len(next) \in Nat
           /\ start + P(m + 1) = adsc_at + Len(next)
    BY <1>1, PartOfReport
  <2>2. m < n =>
           \A j \in 1 .. Len(next) : adsc_at + j <= a => adsc_buf[adsc_at + j] = next[j]
    BY <1>1, NextPart, SMTT(30) DEF NextThere
  <2> QED
    BY <2>1, <2>2
<1>5. dir = "GND2AIR" /\ report.tag \in {7, 8, 9}
  <2>1. report.tag \in DOMAIN TypeIn(TableFor(dir))
    BY <1>2 DEF WellFormed
  <2> QED
    BY <1>1, <2>1, RequestIsUplink
<1>6. \A i, j \in 1 .. n : i < j => P(i) < P(j)
  BY <1>1, <1>2, LaterParts
<1>7. \A i \in 1 .. n : P(i) \in Nat
  <2>1. \A i \in 1 .. n : i \in 0 .. n
    BY <1>2
  <2> QED
    BY <1>2, <2>1
<1>8. ASSUME m < n
      PROVE  /\ Head(next) \in RequestTags
             /\ Left > 0 => TheTag = Head(next)
             /\ start + P(m + 1) = adsc_at + 1 + ItemLength(Head(next))
  <2>1. m + 1 \in 2 .. n
    BY <1>2, <1>8
  <2>2. IsItem(next)
    BY <1>1, <1>2, <2>1 DEF WellFormed
  <2> HIDE DEF next, P, start
  <2>3. /\ next # <<>> /\ next \in Seq(Octets) /\ next[1] \in RequestTags
        /\ Len(next) = 1 + ItemLength(next[1])
    BY <1>4, <1>8, <2>2 DEF IsItem
  <2>4. Head(next) = next[1] /\ 1 \in 1 .. Len(next)
    BY <2>3
  <2>5. ASSUME Left > 0  PROVE TheTag = next[1]
    <3>1. adsc_at + 1 <= a
      BY <1>2, <1>3, <2>5
    <3> QED
      BY <1>4, <1>8, <2>4, <3>1 DEF TheTag
  <2>6. ItemLength(next[1]) \in Nat
    BY LengthIsNumber DEF ItemLength
  <2>7. adsc_at + Len(next) = adsc_at + 1 + ItemLength(next[1])
    BY <1>3, <2>3, <2>6
  <2> QED
    BY <1>4, <1>8, <2>3, <2>4, <2>5, <2>7
<1>9. ASSUME m = n  PROVE EndOfRequest
  <2>1. SUFFICES ASSUME Left > 0  PROVE TheTag \notin RequestTags
    BY DEF EndOfRequest
  <2>2. PICK l : l = k + 1
    OBVIOUS
  <2>3. l \in Nat /\ Len(reports) \in Nat /\ l \in 0 .. Len(reports)
        /\ a <= ReportsLength(reports, Len(reports))
    BY <1>2, <2>2, FedFacts
  <2>4. adsc_at = ReportsLength(reports, l)
    BY <1>3, <1>9, <2>2
  <2>5. l < Len(reports)
    <3>1. adsc_at < a
      BY <1>2, <1>3, <2>1
    <3>2. l # Len(reports)
      BY <1>2, <1>3, <2>3, <2>4, <3>1
    <3> QED
      BY <2>3, <3>2
  <2>6. l \in 0 .. Len(reports) - 1 /\ Arriving(dir, reports, a)
        /\ adsc_buf = SubSeq(ReportsOctets(reports), 1, a)
    BY <2>3, <2>5 DEF Fed
  <2> DEFINE other == reports[l + 1]
             all   == ReportOctets(other)
  <2>7. /\ other \in Reports /\ IsReport(dir, other) /\ Len(all) \in Nat /\ Len(all) >= 1
        /\ \A j \in 1 .. Len(all) :
              ReportsLength(reports, l) + j <= a => adsc_buf[ReportsLength(reports, l) + j] = all[j]
    <3>1. other \in Reports /\ IsReport(dir, other) /\ Len(all) \in Nat /\ Len(all) >= 1
      BY <2>6, OctetAt
    <3>2. ASSUME NEW j \in 1 .. Len(all), ReportsLength(reports, l) + j <= a
          PROVE  SubSeq(ReportsOctets(reports), 1, a)[ReportsLength(reports, l) + j] = all[j]
      BY <2>6, <3>2, OctetAt, SMTT(30)
    <3> QED
      BY <2>6, <3>1, <3>2
  <2>8. all[1] = other.tag
    BY <2>7, ReportFacts
  <2> HIDE DEF all, other, P, start
  <2>9. TheTag = other.tag
    <3>1. 1 \in 1 .. Len(all) /\ adsc_at + 1 <= a
      BY <1>2, <1>3, <2>1, <2>7
    <3> QED
      BY <2>4, <2>7, <2>8, <3>1 DEF TheTag
  <2> QED
    BY <1>5, <2>7, <2>9, NoReportIsItem
<1> QED
  BY <1>2, <1>3, <1>5, <1>6, <1>7, <1>8, <1>9

\* The parser still follows the reports behind an item of a contract request.
LEMMA RequestItemFollows ==
    ASSUME NEW dir, NEW reports, NEW a, Followed(dir, reports, a), RequestItem
    PROVE  Followed(dir, reports, a)'
<1> DEFINE known == TheTag \in RequestTags
           size  == IF known /\ RequestType[TheTag] = Fixed
                    THEN FixedLength("request", TheTag)
                    ELSE 0
           item  == Tag(TheTag, "parsed", size > 0, <<>>)
           more(it) == Tag(LastTag.tag, "NULL", TRUE, Append(LastTag.list, it))
<1>1. /\ adsc_pc = "request" /\ ~EndOfRequest
      /\ \/ /\ known /\ LongEnough(size)
            /\ adsc_tags' = WithLast(more(item))
            /\ adsc_at' = adsc_at + 1 + size
            /\ UNCHANGED <<adsc_table, adsc_buf, adsc_pc, adsc_err>>
         \/ /\ ~known \/ ~LongEnough(size)
            /\ adsc_tags' = WithLast(more(NewTag(TheTag)))
            /\ FailInside
  BY DEF RequestItem
<1>2. Fed(dir, reports, a)
  BY DEF Followed
<1>3. PICK k \in Nat : \E m \in Nat : InItems(dir, reports, k, m)
  BY <1>1 DEF Followed
<1>4. PICK m \in Nat : InItems(dir, reports, k, m)
  BY <1>3
<1> DEFINE report == reports[k + 1]
           start  == ReportsLength(reports, k)
           n      == Len(report.parts)
           P(i)   == PartsLength(report, i)
           next   == report.parts[m + 1]
           old    == adsc_tags[k + 1]
<1>5. /\ k \in Nat /\ m \in Nat
      /\ Requested(dir, reports, k, m) /\ InReport(reports, k, m)
      /\ TypeIn(TableFor(dir))[report.tag] = "request"
      /\ old.type = "NULL" /\ old.tag = report.tag
      /\ Len(old.list) = m - 1
      /\ \A i \in 1 .. m - 1 : old.list[i].tag = Head(report.parts[i + 1])
  BY <1>3, <1>4 DEF InItems, Requested, InReport
<1>6. /\ n \in Nat /\ m \in 1 .. n
      /\ a \in Nat /\ Len(adsc_buf) = a /\ adsc_at \in Nat /\ start \in Nat
      /\ Left = a - adsc_at /\ Left \in Nat
      /\ adsc_at = start + P(m)
      /\ \A i \in 1 .. n : P(i) \in Nat
      /\ \A i, j \in 1 .. n : i < j => P(i) < P(j)
      /\ ReportsLength(reports, k + 1) = start + P(n)
  <2>1. /\ n \in Nat /\ m \in 1 .. n
        /\ a \in Nat /\ Len(adsc_buf) = a /\ adsc_at \in Nat /\ start \in Nat
        /\ Left = a - adsc_at /\ Left \in Nat
        /\ adsc_at = start + P(m)
        /\ ReportsLength(reports, k + 1) = start + P(n)
    BY <1>2, <1>5, ItemFacts, SMTT(30)
  <2>2. /\ \A i \in 1 .. n : P(i) \in Nat
        /\ \A i, j \in 1 .. n : i < j => P(i) < P(j)
    BY <1>2, <1>5, ItemFacts
  <2> QED
    BY <2>1, <2>2
<1>7. /\ m < n
      /\ TheTag = Head(next) /\ Head(next) \in RequestTags /\ Left > 0
      /\ start + P(m + 1) = adsc_at + 1 + ItemLength(Head(next))
  <2>1. m # n
    BY <1>1, <1>2, <1>5, ItemFacts
  <2>2. Left > 0
    BY <1>1 DEF EndOfRequest
  <2>3. m < n
    BY <1>6, <2>1
  <2> QED
    BY <1>2, <1>5, <2>2, <2>3, ItemFacts, SMTT(30)
<1>8. known /\ size = ItemLength(TheTag) /\ size \in Nat
  <2>1. FixedLength("request", TheTag) \in Nat
    BY LengthIsNumber
  <2> QED
    BY <1>7, <2>1 DEF ItemLength
<1>9. m + 1 \in 1 .. n /\ m + 1 \in Nat /\ n \in 1 .. n /\ P(m + 1) \in Nat /\ P(n) \in Nat
  <2>1. m + 1 \in 1 .. n /\ m + 1 \in Nat /\ n \in 1 .. n
    <3>1. n \in Nat /\ m \in 1 .. n /\ m < n
      BY <1>6, <1>7
    <3> HIDE DEF n
    <3> QED
      BY <3>1
  <2> QED
    BY <1>6, <2>1
<1>10. /\ adsc_tags \in Seq(AdscTags) /\ Len(adsc_tags) = k + 1
       /\ LastTag = old /\ old \in AdscTags /\ old.list \in Seq(RequestItems)
  <2>1. adsc_tags \in Seq(AdscTags) /\ Len(adsc_tags) = k + 1
    BY <1>2, <1>5 DEF Fed, InReport
  <2>2. LastTag = old /\ old \in AdscTags
    BY <1>5, <2>1 DEF LastTag
  <2>3. old.list \in Seq(RequestItems)
    BY <2>2 DEF AdscTags
  <2> QED
    BY <2>1, <2>2, <2>3
<1>11. TheTag \in Octets
  BY <1>8 DEF RequestTags, Octets
<1> HIDE DEF known, size, item, start, n, P, next, report, old
<1>12. ASSUME NEW it \in RequestItems, it.tag = TheTag, adsc_tags' = WithLast(more(it))
       PROVE  /\ adsc_tags' \in Seq(AdscTags) /\ Len(adsc_tags') = k + 1
              /\ \A i \in 1 .. k : adsc_tags'[i] = adsc_tags[i]
              /\ adsc_tags'[k + 1].tag = report.tag /\ adsc_tags'[k + 1].type = "NULL"
              /\ Len(adsc_tags'[k + 1].list) = m
              /\ \A i \in 1 .. m : adsc_tags'[k + 1].list[i].tag = Head(report.parts[i + 1])
  <2> DEFINE new == Append(old.list, it)
  <2>1. /\ new \in Seq(RequestItems) /\ Len(new) = m - 1 + 1 /\ new[m - 1 + 1] = it
        /\ \A i \in 1 .. m - 1 : new[i] = old.list[i]
    <3>1. /\ new \in Seq(RequestItems) /\ Len(new) = Len(old.list) + 1
          /\ new[Len(old.list) + 1] = it
          /\ \A i \in 1 .. Len(old.list) : new[i] = old.list[i]
      BY <1>10
    <3> HIDE DEF new
    <3> QED
      BY <1>5, <3>1
  <2>2. more(it) = Tag(old.tag, "NULL", TRUE, new)
    BY <1>10
  <2> HIDE DEF new
  <2>3. old.tag \in Octets /\ "NULL" \in TagTypes
    BY <1>10 DEF AdscTags, TagTypes
  <2>4. Tag(old.tag, "NULL", TRUE, new) \in AdscTags
    BY <2>1, <2>3, TagIsTag
  <2> HIDE DEF more
  <2>5. /\ more(it) \in AdscTags /\ more(it).tag = report.tag /\ more(it).type = "NULL"
        /\ more(it).list = new
    BY <1>5, <2>2, <2>4 DEF Tag
  <2>6. adsc_tags' = [adsc_tags EXCEPT ![Len(adsc_tags)] = more(it)]
    BY <1>12 DEF WithLast
  <2>7. /\ adsc_tags' \in Seq(AdscTags) /\ Len(adsc_tags') = k + 1
        /\ adsc_tags'[k + 1] = more(it) /\ \A i \in 1 .. k : adsc_tags'[i] = adsc_tags[i]
    BY <1>5, <1>10, <2>5, <2>6, TagsChanged
  <2>8. m - 1 + 1 = m /\ m \in Nat /\ \A i \in 1 .. m : i \in 1 .. m - 1 \/ i = m
    <3>1. m \in Nat
      BY <1>5
    <3> QED
      BY <3>1
  <2>9. ASSUME NEW i \in 1 .. m  PROVE new[i].tag = Head(report.parts[i + 1])
    <3>1. CASE i \in 1 .. m - 1
      BY <1>5, <2>1, <3>1
    <3>2. CASE i = m
      BY <1>7, <1>12, <2>1, <2>8, <3>2 DEF next
    <3> QED
      BY <2>8, <3>1, <3>2
  <2>10. Len(new) = m
    BY <2>1, <2>8
  <2> QED
    BY <2>5, <2>7, <2>9, <2>10
<1>13. CASE /\ known /\ LongEnough(size)
            /\ adsc_tags' = WithLast(more(item))
            /\ adsc_at' = adsc_at + 1 + size
            /\ UNCHANGED <<adsc_table, adsc_buf, adsc_pc, adsc_err>>
  <2>1. item \in RequestItems /\ item.tag = TheTag
    BY <1>8, <1>11 DEF item, Tag, RequestItems, TagTypes
  <2>2. /\ adsc_tags' \in Seq(AdscTags) /\ Len(adsc_tags') = k + 1
        /\ \A i \in 1 .. k : adsc_tags'[i] = adsc_tags[i]
        /\ adsc_tags'[k + 1].tag = report.tag /\ adsc_tags'[k + 1].type = "NULL"
        /\ Len(adsc_tags'[k + 1].list) = m
        /\ \A i \in 1 .. m : adsc_tags'[k + 1].list[i].tag = Head(report.parts[i + 1])
    <3> HIDE DEF more
    <3> QED
      BY <1>12, <1>13, <2>1
  <2> HIDE DEF more
  <2>3. Fed(dir, reports, a)'
    BY <1>2, <1>13, <2>2, FedStays
  <2>4. adsc_at' = start + P(m + 1)
    BY <1>7, <1>8, <1>13
  <2>5. adsc_at' <= Len(adsc_buf)
    <3>1. a - adsc_at - 1 >= size
      BY <1>6, <1>13 DEF LongEnough
    <3>2. adsc_at + 1 + size <= a
      <4>1. a \in Nat /\ adsc_at \in Nat /\ size \in Nat
        BY <1>6, <1>8
      <4> QED
        BY <3>1, <4>1
    <3>3. adsc_at' = adsc_at + 1 + size
      BY <1>13
    <3>4. Len(adsc_buf) = a
      BY <1>6
    <3> QED
      BY <3>2, <3>3, <3>4
  <2>6. Tagged(reports, k)'
    BY <1>5, <2>2, TaggedStays DEF InReport
  <2>7. InReport(reports, k, m + 1)'
    BY <1>5, <1>9, <1>13, <2>2, <2>4, <2>5, <2>6 DEF InReport, report, start, P, n
  <2>8. m + 1 - 1 = m
    BY <1>5
  <2>9. InItems(dir, reports, k, m + 1)'
    <3>1. TypeIn(TableFor(dir))[report.tag] = "request"
      BY <1>5 DEF Requested, report
    <3>2. Requested(dir, reports, k, m + 1)'
      BY <2>2, <2>7, <2>8, <3>1 DEF Requested, report
    <3> QED
      BY <2>2, <3>2 DEF InItems
  <2> QED
    BY <1>1, <1>5, <1>9, <1>13, <2>3, <2>9 DEF Followed
<1>14. CASE /\ ~known \/ ~LongEnough(size)
            /\ adsc_tags' = WithLast(more(NewTag(TheTag)))
            /\ FailInside
  <2>1. NewTag(TheTag) \in RequestItems /\ NewTag(TheTag).tag = TheTag
    BY <1>11, NewTagIsTag DEF NewTag, Tag
  <2>2. /\ adsc_tags' \in Seq(AdscTags) /\ Len(adsc_tags') = k + 1
        /\ \A i \in 1 .. k : adsc_tags'[i] = adsc_tags[i]
        /\ adsc_tags'[k + 1].tag = report.tag /\ adsc_tags'[k + 1].type = "NULL"
    <3> HIDE DEF more
    <3> QED
      BY <1>12, <1>14, <2>1
  <2> HIDE DEF more
  <2>3. a < start + P(m + 1) /\ start + P(m) < a
    <3>1. ~(a - adsc_at - 1 >= size)
      BY <1>6, <1>8, <1>14 DEF LongEnough
    <3>2. a < adsc_at + 1 + size /\ adsc_at < a
      <4>1. /\ a \in Nat /\ adsc_at \in Nat /\ size \in Nat
            /\ Left = a - adsc_at /\ Left > 0
        BY <1>6, <1>7, <1>8
      <4> QED
        BY <3>1, <4>1
    <3> QED
      BY <1>6, <1>7, <1>8, <3>2
  <2>4. start + P(n) > a
    <3>1. P(m + 1) <= P(n)
      <4>1. CASE m + 1 = n
        BY <1>9, <4>1
      <4>2. CASE m + 1 < n
        <5>1. P(m + 1) < P(n)
          BY <1>6, <1>9, <4>2
        <5> QED
          BY <1>9, <5>1
      <4> QED
        BY <1>6, <1>9, <4>1, <4>2
    <3> QED
      BY <1>6, <1>9, <2>3, <3>1, SMTT(30)
  <2>5. ~CutBetweenParts(report, a - start)
    <3>1. SUFFICES ASSUME NEW i \in 1 .. n, a - start = P(i)  PROVE FALSE
      BY DEF CutBetweenParts, n, P
    <3>2. P(i) \in Nat /\ P(m) \in Nat
      BY <1>6
    <3>3. P(m) < P(i) /\ P(i) < P(m + 1)
      <4>1. PICK p, q, r : p = P(m) /\ q = P(i) /\ r = P(m + 1)
        OBVIOUS
      <4>2. /\ p \in Nat /\ q \in Nat /\ r \in Nat /\ a \in Nat /\ start \in Nat
            /\ a < start + r /\ start + p < a /\ a - start = q
        BY <1>6, <1>9, <2>3, <3>1, <3>2, <4>1, Zenon
      <4>3. p < q /\ q < r
        BY <4>2
      <4> QED
        BY <4>1, <4>3, Zenon
    <3>4. CASE i <= m
      <4>1. P(i) <= P(m)
        <5>1. CASE i = m
          BY <3>2, <5>1
        <5>2. CASE i < m
          <6>1. P(i) < P(m)
            BY <1>6, <5>2
          <6> QED
            BY <3>2, <6>1
        <5> QED
          BY <1>5, <3>4, <5>1, <5>2
      <4> QED
        BY <3>2, <3>3, <4>1
    <3>5. CASE i > m
      <4>1. P(m + 1) <= P(i)
        <5>1. CASE i = m + 1
          BY <3>2, <5>1
        <5>2. CASE i > m + 1
          <6>1. P(m + 1) < P(i)
            BY <1>6, <1>9, <5>2
          <6> QED
            BY <1>9, <3>2, <6>1
        <5> QED
          BY <1>5, <3>5, <5>1, <5>2
      <4> QED
        BY <1>9, <3>2, <3>3, <4>1
    <3> QED
      BY <1>5, <3>4, <3>5
  <2>6. ReportsLength(reports, k + 1) > a
    BY <1>6, <2>4
  <2> QED
    BY <1>5, <1>14, <2>2, <2>5, <2>6, FailsInside DEF report, start
<1> HIDE DEF more
<1> QED
  BY <1>1, <1>13, <1>14

\* The parser still follows the reports behind the end of a contract request.
LEMMA RequestReturnsFollows ==
    ASSUME NEW dir, NEW reports, NEW a, Followed(dir, reports, a), RequestReturns
    PROVE  Followed(dir, reports, a)'
<1>1. /\ adsc_pc = "request" /\ EndOfRequest
      /\ adsc_tags' = TagDone("request") /\ adsc_pc' = "tags"
      /\ UNCHANGED <<adsc_table, adsc_buf, adsc_at, adsc_err>>
  BY DEF RequestReturns
<1>2. Fed(dir, reports, a)
  BY DEF Followed
<1>3. PICK k \in Nat : \E m \in Nat : InItems(dir, reports, k, m)
  BY <1>1 DEF Followed
<1>4. PICK m \in Nat : InItems(dir, reports, k, m)
  BY <1>3
<1> DEFINE report == reports[k + 1]
           n      == Len(report.parts)
<1>5. /\ k \in Nat /\ m \in Nat
      /\ Requested(dir, reports, k, m) /\ InReport(reports, k, m)
      /\ TypeIn(TableFor(dir))[report.tag] = "request"
      /\ Len(adsc_tags[k + 1].list) = m - 1
      /\ \A i \in 1 .. m - 1 : adsc_tags[k + 1].list[i].tag = Head(report.parts[i + 1])
  BY <1>3, <1>4 DEF InItems, Requested
<1>6. /\ adsc_tags' \in Seq(AdscTags) /\ Len(adsc_tags') = k + 1
      /\ adsc_tags'[k + 1].tag = report.tag
      /\ adsc_tags'[k + 1].type = "request"
      /\ adsc_tags'[k + 1].list = adsc_tags[k + 1].list
      /\ Tagged(reports, k)'
  <2>1. "request" \in TagTypes \ {"NULL"}
    BY DEF TagTypes
  <2> QED
    BY <1>1, <1>2, <1>5, <2>1, LoopLeft
<1>7. Fed(dir, reports, a)'
  BY <1>1, <1>2, <1>6, FedStays
<1>8. n \in Nat /\ m \in 1 .. n /\ a \in Nat /\ Len(adsc_buf) = a /\ adsc_at \in Nat
      /\ Left = a - adsc_at /\ Left \in Nat
  BY <1>2, <1>5, ItemFacts
<1>9. m < n => /\ Head(report.parts[m + 1]) \in RequestTags
               /\ Left > 0 => TheTag = Head(report.parts[m + 1])
  BY <1>2, <1>5, ItemFacts
<1>10. CASE m = n
  <2>1. Decodes(adsc_tags'[k + 1], report, m)
    BY <1>5, <1>6 DEF Decodes
  <2>2. AtReport(reports, k + 1)'
    BY <1>1, <1>2, <1>5, <1>6, <1>10, <2>1, ReportEnds
  <2>3. k + 1 \in Nat
    BY <1>5
  <2> QED
    BY <1>1, <1>7, <2>2, <2>3 DEF Followed
<1>11. CASE m < n
  <2>1. Left = 0
    <3>1. ~(Left > 0)
      BY <1>1, <1>9, <1>11 DEF EndOfRequest
    <3> QED
      BY <1>8, <3>1
  <2>2. adsc_at = Len(adsc_buf)
    BY <1>8, <2>1
  <2>3. InReport(reports, k, m)'
    BY <1>1, <1>5, <1>6 DEF InReport
  <2>4. Requested(dir, reports, k, m)'
    BY <1>5, <1>6, <2>3 DEF Requested
  <2>5. BehindCut(dir, reports, k, m)'
    BY <1>1, <1>6, <1>11, <2>2, <2>4 DEF BehindCut
  <2> QED
    BY <1>1, <1>5, <1>7, <2>5 DEF Followed
<1> QED
  BY <1>8, <1>10, <1>11

\* The message ends behind a whole report, or where a request has been cut.
LEMMA AdscReturnsFollows ==
    ASSUME NEW dir, NEW reports, NEW a, Followed(dir, reports, a), AdscReturns
    PROVE  Followed(dir, reports, a)'
<1>1. /\ adsc_pc \in {"tags", "reason"} /\ adsc_pc' = "done"
      /\ adsc_pc = "tags" => Left = 0
      /\ UNCHANGED <<adsc_table, adsc_buf, adsc_at, adsc_tags, adsc_err>>
  BY DEF AdscReturns
<1>2. Fed(dir, reports, a) /\ Arriving(dir, reports, a) /\ adsc_tags \in Seq(AdscTags)
  BY DEF Followed, Fed
<1>3. adsc_pc = "tags" /\ Left = 0
  BY <1>1 DEF Followed
<1>4. /\ reports \in Seq(Reports) /\ Len(reports) \in Nat /\ a \in Nat /\ Len(adsc_buf) = a
      /\ a <= ReportsLength(reports, Len(reports))
      /\ \A i \in 0 .. Len(reports) : ReportsLength(reports, i) \in Nat
  BY <1>2, FedFacts
<1>5. Fed(dir, reports, a)'
  BY <1>1, <1>2, FedStays
<1>6. SUFFICES AsSent(dir, reports, a)'
  BY <1>1, <1>5 DEF Followed
<1>7. ASSUME NEW k \in Nat, AtReport(reports, k)
      PROVE  AsSent(dir, reports, a)'
  <2>1. /\ k \in 0 .. Len(reports) /\ Len(adsc_tags) = k
        /\ Tagged(reports, k) /\ adsc_at = ReportsLength(reports, k) /\ ~adsc_err
    BY <1>7 DEF AtReport
  <2>2. ReportsLength(reports, k) = a
    <3>1. ReportsLength(reports, k) \in Nat
      BY <1>4, <2>1
    <3> QED
      BY <1>3, <1>4, <2>1, <3>1 DEF Left
  <2>3. k = Len(reports) \/ (k < Len(reports) /\ ReportsLength(reports, k + 1) > a)
    <3>1. SUFFICES ASSUME k < Len(reports)  PROVE ReportsLength(reports, k + 1) > a
      BY <1>4, <2>1
    <3>2. k \in 0 .. Len(reports) - 1
      BY <1>4, <3>1
    <3>3. /\ ReportsLength(reports, k + 1) =
                ReportsLength(reports, k) + Len(ReportOctets(reports[k + 1]))
          /\ Len(ReportOctets(reports[k + 1])) \in Nat
          /\ Len(ReportOctets(reports[k + 1])) >= 1
      BY <1>2, <3>2, OctetAt
    <3> QED
      BY <1>4, <2>2, <3>3
  <2>4. \A i \in 1 .. k : reports[i].valid
    BY <2>1 DEF Tagged
  <2>5. WholeReports(reports, a) = k
    <3>1. ReportsLength(reports, k) <= a
      BY <1>4, <2>2
    <3> QED
      BY <1>2, <2>1, <2>3, <2>4, <3>1, WholeAre
  <2>6. a - ReportsLength(reports, k) = 0
    BY <1>4, <2>2
  <2>7. \A i \in 1 .. k : Decodes(adsc_tags'[i], reports[i], Len(reports[i].parts))
    BY <1>1, <2>1 DEF Tagged
  <2> QED
    BY <1>1, <2>1, <2>5, <2>6, <2>7 DEF AsSent
<1>8. ASSUME NEW k \in Nat, NEW m \in Nat, BehindCut(dir, reports, k, m)
      PROVE  AsSent(dir, reports, a)'
  <2> DEFINE report == reports[k + 1]
             start  == ReportsLength(reports, k)
             n      == Len(report.parts)
             P(i)   == PartsLength(report, i)
  <2>1. /\ Requested(dir, reports, k, m) /\ InReport(reports, k, m)
        /\ adsc_tags[k + 1].type = "request" /\ adsc_at = Len(adsc_buf) /\ m < n
        /\ Len(adsc_tags[k + 1].list) = m - 1
        /\ \A i \in 1 .. m - 1 : adsc_tags[k + 1].list[i].tag = Head(report.parts[i + 1])
    BY <1>8 DEF BehindCut, Requested
  <2>2. /\ k \in 0 .. Len(reports) - 1 /\ Len(adsc_tags) = k + 1
        /\ Tagged(reports, k) /\ report.valid
        /\ adsc_tags[k + 1].tag = report.tag /\ ~adsc_err
    BY <2>1 DEF InReport
  <2>3. /\ dir = "GND2AIR" /\ report.tag \in {7, 8, 9}
        /\ n \in Nat /\ m \in 1 .. n
        /\ adsc_at \in Nat /\ start \in Nat /\ adsc_at = start + P(m)
        /\ ReportsLength(reports, k + 1) = start + P(n)
    BY <1>2, <2>1, ItemFacts
  <2>4. /\ \A i \in 1 .. n : P(i) \in Nat
        /\ \A i, j \in 1 .. n : i < j => P(i) < P(j)
    BY <1>2, <2>1, ItemFacts
  <2>5. start < a
    BY <1>2, <2>1, PartOfReport
  <2> HIDE DEF report, start, n, P
  <2>6. n \in 1 .. n /\ n > 0 /\ P(n) \in Nat /\ P(m) \in Nat /\ P(m) < P(n)
    <3>1. n \in 1 .. n /\ n > 0
      BY <2>3
    <3> QED
      BY <2>1, <2>3, <2>4, <3>1
  <2>7. a = start + P(m) /\ a - start = P(m) /\ start + P(n) > a
    BY <1>4, <2>1, <2>3, <2>6
  <2>8. WholeReports(reports, a) = k
    <3>1. k \in 0 .. Len(reports) /\ k < Len(reports)
      BY <1>4, <2>2
    <3>2. \A i \in 1 .. k : reports[i].valid
      BY <2>2 DEF Tagged
    <3>3. ReportsLength(reports, k) <= a /\ ReportsLength(reports, k + 1) > a
      <4>1. start <= a /\ ReportsLength(reports, k + 1) > a
        BY <1>4, <2>3, <2>5, <2>7
      <4> QED
        BY <4>1 DEF start
    <3> QED
      BY <1>2, <3>1, <3>2, <3>3, WholeAre
  <2>9. CutBetweenParts(report, a - start)
    BY <2>2, <2>3, <2>6, <2>7 DEF CutBetweenParts, n, P, report
  <2>10. Decodes(adsc_tags[k + 1], report, m)
    BY <2>1, <2>2 DEF Decodes, report
  <2>11. \A i \in 1 .. k : Decodes(adsc_tags'[i], reports[i], Len(reports[i].parts))
    BY <1>1, <2>2 DEF Tagged
  <2>12. a - start > 0
    BY <1>4, <2>3, <2>5
  <2>13. /\ a - ReportsLength(reports, k) > 0
         /\ CutBetweenParts(reports[k + 1], a - ReportsLength(reports, k))
         /\ m \in 1 .. Len(reports[k + 1].parts)
         /\ a - ReportsLength(reports, k) = PartsLength(reports[k + 1], m)
         /\ Decodes(adsc_tags'[k + 1], reports[k + 1], m)
    BY <1>1, <2>3, <2>7, <2>9, <2>10, <2>12 DEF report, start, n, P
  <2> QED
    BY <1>1, <2>2, <2>3, <2>8, <2>11, <2>13 DEF AsSent
<1> QED
  BY <1>3, <1>7, <1>8 DEF Followed

\* Every step of the parser follows what arrives.
LEMMA StepFollows ==
    ASSUME NEW dir, NEW reports, NEW a, Followed(dir, reports, a), AdscStep
    PROVE  Followed(dir, reports, a)'
BY UnknownTagFollows, EmptyTagFollows, FixedTagFollows, NackTagFollows, NoncompTagFollows,
   NoncompGroupFollows, NoncompReturnsFollows, RequestTagFollows, RequestItemFollows,
   RequestReturnsFollows, AdscReturnsFollows DEF AdscStep

\* A step that leaves the parser alone changes nothing of this.
LEMMA FollowedStays ==
    ASSUME NEW dir, NEW reports, NEW a, Followed(dir, reports, a), UNCHANGED adscVars
    PROVE  Followed(dir, reports, a)'
<1>1. /\ adsc_table' = adsc_table /\ adsc_buf' = adsc_buf /\ adsc_at' = adsc_at
      /\ adsc_tags' = adsc_tags /\ adsc_err' = adsc_err /\ adsc_left' = adsc_left
      /\ adsc_pc' = adsc_pc
  BY DEF adscVars
<1>2. Fed(dir, reports, a)'
  BY <1>1 DEF Followed, Fed
<1>3. ASSUME NEW k \in Nat, NEW m \in Nat
      PROVE  /\ AtReport(reports, k) => AtReport(reports, k)'
             /\ BehindCut(dir, reports, k, m) => BehindCut(dir, reports, k, m)'
             /\ InGroups(dir, reports, k, m) => InGroups(dir, reports, k, m)'
             /\ InItems(dir, reports, k, m) => InItems(dir, reports, k, m)'
  <2>1. Tagged(reports, k)' = Tagged(reports, k)
    BY <1>1 DEF Tagged
  <2>2. InReport(reports, k, m)' = InReport(reports, k, m)
    BY <1>1, <2>1 DEF InReport
  <2>3. Requested(dir, reports, k, m)' = Requested(dir, reports, k, m)
    BY <1>1, <2>2 DEF Requested
  <2> QED
    BY <1>1, <2>1, <2>2, <2>3 DEF AtReport, BehindCut, InGroups, InItems
<1>4. AsSent(dir, reports, a)' = AsSent(dir, reports, a)
  BY <1>1 DEF AsSent
<1> QED
  BY <1>1, <1>2, <1>3, <1>4 DEF Followed

\* A message of reports is begun with the octets that arrived of them.
LEMMA AdscBegins ==
    ASSUME NEW dir, NEW reports, NEW a, Arriving(dir, reports, a),
           NEW octets, octets = SubSeq(ReportsOctets(reports), 1, a),
           AdscParse([octets |-> octets, imi |-> "ADS", dir |-> dir])
    PROVE  Followed(dir, reports, a)'
<1>1. /\ adsc_table' = TableFor(dir) /\ adsc_at' = 0 /\ adsc_tags' = <<>>
      /\ adsc_buf' = octets /\ adsc_pc' = "tags" /\ adsc_err' = FALSE
  BY DEF AdscParse
<1>2. Fed(dir, reports, a)'
  BY <1>1 DEF Fed
<1>3. ReportsLength(reports, 0) = 0 /\ Len(reports) \in Nat /\ Len(adsc_buf') \in Nat
  <2>1. reports \in Seq(Reports) /\ a \in 0 .. Len(ReportsOctets(reports))
    BY DEF Arriving
  <2>2. /\ ReportsOctets(reports) \in Seq(Octets) /\ Len(ReportsOctets(reports)) \in Nat
        /\ ReportsLength(reports, 0) = 0 /\ Len(reports) \in Nat
    BY <2>1, ReportsFacts
  <2>3. a \in Nat /\ Len(octets) = a
    BY <2>1, <2>2, FirstOnes
  <2> QED
    BY <1>1, <2>2, <2>3
<1>4. AtReport(reports, 0)'
  <2>1. Tagged(reports, 0)'
    BY DEF Tagged
  <2>2. 0 \in 0 .. Len(reports) /\ Len(adsc_tags') = 0
    BY <1>1, <1>3
  <2>3. adsc_at' <= Len(adsc_buf')
    <3>1. \A n \in Nat : 0 <= n
      OBVIOUS
    <3> QED
      BY <1>1, <1>3, <3>1, Zenon
  <2>4. adsc_at' = ReportsLength(reports, 0) /\ ~adsc_err'
    BY <1>1, <1>3, Zenon
  <2> QED
    BY <2>1, <2>2, <2>3, <2>4 DEF AtReport
<1> QED
  BY <1>1, <1>2, <1>4 DEF Followed
=============================================================================
