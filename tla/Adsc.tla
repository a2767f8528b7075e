-------------------------------- MODULE Adsc --------------------------------
(***************************************************************************)
(* la_adsc_parse (adsc.c): an ADS-C message is a row of tags, each with a  *)
(* parser of its own that says how many octets it has used.  Two parsers   *)
(* have loops themselves: a notification of non-compliance has groups, and *)
(* a contract request has tags from a table of its own, up to the first    *)
(* that is not in it.  Every iteration of a loop is a step.                *)
(*                                                                         *)
(* The loops keep a pointer and the octets left from there; adsc_at stands *)
(* for both.                                                               *)
(***************************************************************************)
EXTENDS Integers, SequencesExt

CONSTANT
    AdscPayloads    \* calls: [octets, imi, dir], imi one of AdscImi, dir of MsgDir

AdscImi == {"ADS", "DIS"}

MsgDir == {"GND2AIR", "AIR2GND"}

Octets == 0 .. 255

ASSUME PayloadAssumption ==
    AdscPayloads \subseteq [octets : Seq(Octets), imi : AdscImi, dir : MsgDir]

VARIABLES
    adsc_table,     \* tag_table, which is static
    adsc_buf,       \* the octets of the message
    adsc_at,        \* how many of them have been used
    adsc_pc,        \* the loop la_adsc_parse is in
    adsc_left,      \* groups still to be read
    adsc_tags,      \* the tag_list, each tag with the list of a request
    adsc_err,       \* err of the message
    adsc_read       \* the last octet read, counted from 1

adscVars ==
    <<adsc_table, adsc_buf, adsc_at, adsc_pc, adsc_left, adsc_tags, adsc_err, adsc_read>>

-----------------------------------------------------------------------------
(***************************************************************************)
(* The tables.  A type is the way its tag is parsed: "empty" without a     *)
(* parser, "nack", "noncomp", "request", or as many octets as FixedLength  *)
(* says.                                                                   *)
(***************************************************************************)
Fixed == "fixed"

\* la_adsc_downlink_tag_descriptor_table; 255 is the reason of a disconnect.
DownlinkTags == {3, 4, 5, 6, 7, 9, 10} \union 12 .. 20 \union {22, 23, 255}

DownlinkType == [tag \in DownlinkTags |->
    CASE tag = 4 -> "nack"
      [] tag = 5 -> "noncomp"
      [] tag = 6 -> "empty"
      [] OTHER -> Fixed]

\* la_adsc_uplink_tag_descriptor_table
UplinkTags == {1, 2, 6, 7, 8, 9}

UplinkType == [tag \in UplinkTags |->
    CASE tag = 1 -> "empty"
      [] tag \in {2, 6} -> Fixed
      [] OTHER -> "request"]

\* la_adsc_request_tag_descriptor_table
RequestTags == 10 .. 21

RequestType == [tag \in RequestTags |-> IF tag = 20 THEN "empty" ELSE Fixed]

TypeIn(table) == IF table = "uplink" THEN UplinkType ELSE DownlinkType

FixedLength(table, tag) ==
    CASE table = "request" /\ tag = 19 -> 4
      [] table = "request" /\ tag = 21 -> 2
      [] table = "downlink" /\ tag \in {7, 9, 10, 18, 19, 20} -> 10
      [] table = "downlink" /\ tag = 12 -> 6
      [] table = "downlink" /\ tag = 13 -> 17
      [] table = "downlink" /\ tag \in {14, 15} -> 5
      [] table = "downlink" /\ tag = 16 -> 4
      [] table = "downlink" /\ tag = 17 -> 3
      [] table = "downlink" /\ tag = 22 -> 8
      [] table = "downlink" /\ tag = 23 -> 9
      [] OTHER -> 1

\* The fields of the reports that are read from a bit stream.
Fields(tag) ==
    CASE tag \in {7, 9, 10, 18, 19, 20} -> <<21, 21, 16, 15, 7>>
      [] tag = 12 -> <<6, 6, 6, 6, 6, 6, 6, 6>>
      [] tag = 13 -> <<21, 21, 16, 14, 21, 21, 16>>
      [] tag \in {14, 15} -> <<1, 12, 13, 12>>
      [] tag = 16 -> <<9, 1, 9, 12>>
      [] tag = 22 -> <<16, 1, 12, 16, 14>>
      [] tag = 23 -> <<21, 21, 16, 14>>
      [] OTHER -> <<>>

\* LA_BS_READ_OR_RETURN finds every field in a stream of that many octets.
FieldsFit(table, tag) ==
    table = "downlink" => FoldLeft(+, 0, Fields(tag)) <= 8 * FixedLength(table, tag)

\* la_adsc_tag_t: its type is "NULL" until it has been parsed, data is whether
\* memory belongs to it, and list is the req_tag_list of a request.
Tag(tag, type, data, list) == [tag |-> tag, type |-> type, data |-> data, list |-> list]

NewTag(tag) == Tag(tag, "NULL", FALSE, <<>>)

TagTypes == {"NULL", "empty", Fixed, "nack", "noncomp", "request", "parsed"}

RequestItems == [tag : Octets, type : TagTypes, data : BOOLEAN, list : {<<>>}]

AdscTags == [tag : Octets, type : TagTypes, data : BOOLEAN, list : Seq(RequestItems)]

-----------------------------------------------------------------------------
AdscInit ==
    /\ adsc_table = "NULL"
    /\ adsc_buf = <<>>
    /\ adsc_at = 0
    /\ adsc_pc = "idle"
    /\ adsc_left = 0
    /\ adsc_tags = <<>>
    /\ adsc_err = FALSE
    /\ adsc_read = 0

Left == Len(adsc_buf) - adsc_at

\* Mutant: the table is chosen by the first message.
TableOnce(dir) ==
    IF adsc_table # "NULL" THEN adsc_table ELSE IF dir = "GND2AIR" THEN "uplink" ELSE "downlink"

TableFor(dir) == IF dir = "GND2AIR" THEN "uplink" ELSE "downlink"

\* la_adsc_parse up to its loop.
AdscParse(payload) ==
    /\ adsc_pc = "idle"
    /\ adsc_table' = TableFor(payload.dir)
    /\ adsc_at' = 0
    /\ adsc_tags' = <<>>
    /\ adsc_read' = 0
    /\ \/ /\ payload.imi = "ADS"
          /\ adsc_buf' = payload.octets
          /\ adsc_pc' = "tags"
          /\ adsc_err' = FALSE
       \/ /\ payload.imi = "DIS"
          /\ payload.octets = <<>>
          /\ adsc_buf' = <<>>
          /\ adsc_pc' = "done"
          /\ adsc_err' = TRUE
       \/ /\ payload.imi = "DIS"
          /\ payload.octets # <<>>
          /\ adsc_buf' = <<255, Head(payload.octets)>>
          /\ adsc_pc' = "reason"
          /\ adsc_err' = FALSE
    /\ UNCHANGED adsc_left

InTags == adsc_pc \in {"tags", "reason"}

\* Mutant: the parsing of a disconnect goes round without an end.
AdscReturnsFromTags ==
    /\ \/ adsc_pc = "tags" /\ Left = 0
       \/ adsc_pc = "reason" /\ adsc_tags # <<>>
    /\ adsc_pc' = IF adsc_pc = "tags" THEN "done" ELSE adsc_pc
    /\ UNCHANGED <<adsc_table, adsc_buf, adsc_at, adsc_left, adsc_tags, adsc_err, adsc_read>>

\* The loop ends, or the one tag of a DIS message has been parsed.
AdscReturns ==
    /\ \/ adsc_pc = "tags" /\ Left = 0
       \/ adsc_pc = "reason" /\ adsc_tags # <<>>
    /\ adsc_pc' = "done"
    /\ UNCHANGED <<adsc_table, adsc_buf, adsc_at, adsc_left, adsc_tags, adsc_err, adsc_read>>

\* la_adsc_tag_parse looks the next tag up.
TagRead ==
    /\ InTags
    /\ Left > 0
    /\ adsc_pc = "reason" => adsc_tags = <<>>

TheTag == adsc_buf[adsc_at + 1]

TagUnknown == TheTag \notin DOMAIN TypeIn(adsc_table)

TheType == TypeIn(adsc_table)[TheTag]

Fail(tag) ==
    /\ adsc_tags' = Append(adsc_tags, tag)
    /\ adsc_err' = TRUE
    /\ adsc_pc' = "done"
    /\ UNCHANGED <<adsc_table, adsc_buf, adsc_at, adsc_left>>

\* The parser has used size octets after the tag, and allocates unless its
\* type is empty.
Parsed(size) ==
    /\ adsc_tags' = Append(adsc_tags, Tag(TheTag, TheType, TheType # "empty", <<>>))
    /\ adsc_at' = adsc_at + 1 + size
    /\ adsc_read' = adsc_at + 1 + size
    /\ UNCHANGED <<adsc_table, adsc_buf, adsc_pc, adsc_left, adsc_err>>

UnknownTag ==
    /\ TagRead
    /\ TagUnknown
    /\ Fail(NewTag(TheTag))
    /\ adsc_read' = adsc_at + 1

EmptyTag ==
    /\ TagRead
    /\ ~TagUnknown
    /\ TheType = "empty"
    /\ Parsed(0)

\* Mutant: LA_ADSC_CHECK_LEN counts the octet of the tag.
LongEnoughWithTag(size) == Left >= size

\* LA_ADSC_CHECK_LEN, after the octet of the tag.
LongEnough(size) == Left - 1 >= size

FixedTag ==
    /\ TagRead
    /\ ~TagUnknown
    /\ TheType = Fixed
    /\ LET size == FixedLength(adsc_table, TheTag)
           parses == LongEnough(size) /\ FieldsFit(adsc_table, TheTag)
       IN  \/ parses /\ Parsed(size)
           \/ /\ ~parses
              /\ Fail(Tag(TheTag, "NULL", LongEnough(size), <<>>))
              /\ adsc_read' = adsc_at + 1 + (IF LongEnough(size) THEN size ELSE 0)

\* la_adsc_nack_parse frees its data itself when it fails.
MaxReason == 13

ExtendedReasons == {1, 2, 7}

NackLength ==
    IF LongEnough(2) /\ adsc_buf[adsc_at + 3] \in ExtendedReasons THEN 3 ELSE 2

NackValid == LongEnough(NackLength) /\ adsc_buf[adsc_at + 3] <= MaxReason

NackTag ==
    /\ TagRead
    /\ ~TagUnknown
    /\ TheType = "nack"
    /\ \/ NackValid /\ Parsed(NackLength)
       \/ /\ ~NackValid
          /\ Fail(NewTag(TheTag))
          /\ adsc_read' = IF LongEnough(2) THEN adsc_at + 3 ELSE adsc_at + 1

-----------------------------------------------------------------------------
LastTag == adsc_tags[Len(adsc_tags)]

WithLast(tag) == [adsc_tags EXCEPT ![Len(adsc_tags)] = tag]

\* A loop inside a tag fails: the data of the tag is there, its type is not.
FailInside ==
    /\ adsc_err' = TRUE
    /\ adsc_pc' = "done"
    /\ UNCHANGED <<adsc_table, adsc_buf, adsc_at, adsc_left>>

\* Mutant: the tag does not get its type.
TagWithoutType(type) == adsc_tags

\* la_adsc_tag_parse goes on after a parser with a loop.
TagDone(type) == WithLast(Tag(LastTag.tag, type, LastTag.data, LastTag.list))

\* la_adsc_noncomp_notify_parse up to its loop.
NoncompTag ==
    /\ TagRead
    /\ ~TagUnknown
    /\ TheType = "noncomp"
    /\ \/ /\ LongEnough(2)
          /\ adsc_tags' = Append(adsc_tags, Tag(TheTag, "NULL", TRUE, <<>>))
          /\ adsc_left' = adsc_buf[adsc_at + 3]
          /\ adsc_at' = adsc_at + 3
          /\ adsc_read' = adsc_at + 3
          /\ adsc_pc' = "groups"
          /\ UNCHANGED <<adsc_table, adsc_buf, adsc_err>>
       \/ /\ ~LongEnough(2)
          /\ Fail(NewTag(TheTag))
          /\ adsc_read' = adsc_at + 1

\* The numbers of the parameters are half octets, unless the group is not
\* recognised or not available.
GroupLength(flags) ==
    IF flags >= 64 THEN 2 ELSE 2 + ((flags % 16) \div 2) + ((flags % 16) % 2)

\* An iteration of la_adsc_noncomp_notify_parse: la_adsc_noncomp_group_parse.
NoncompGroup ==
    /\ adsc_pc = "groups"
    /\ adsc_left > 0
    /\ LET size == IF Left < 2 THEN 2 ELSE GroupLength(adsc_buf[adsc_at + 2])
       IN  \/ /\ Left >= size
              /\ Left = size => adsc_left = 1
              /\ adsc_at' = adsc_at + size
              /\ adsc_read' = adsc_at + size
              /\ adsc_left' = adsc_left - 1
              /\ UNCHANGED <<adsc_table, adsc_buf, adsc_pc, adsc_tags, adsc_err>>
           \/ /\ Left >= size
              /\ Left = size
              /\ adsc_left > 1
              /\ FailInside
              /\ adsc_read' = adsc_at + size
              /\ UNCHANGED adsc_tags
           \/ /\ Left < size
              /\ FailInside
              /\ adsc_read' = IF Left < 2 THEN adsc_at ELSE adsc_at + 2
              /\ UNCHANGED adsc_tags

NoncompReturns ==
    /\ adsc_pc = "groups"
    /\ adsc_left = 0
    /\ adsc_tags' = TagDone("noncomp")
    /\ adsc_pc' = "tags"
    /\ UNCHANGED <<adsc_table, adsc_buf, adsc_at, adsc_left, adsc_err, adsc_read>>

-----------------------------------------------------------------------------
\* la_adsc_contract_request_parse up to its loop.
RequestTag ==
    /\ TagRead
    /\ ~TagUnknown
    /\ TheType = "request"
    /\ \/ /\ LongEnough(1)
          /\ adsc_tags' = Append(adsc_tags, Tag(TheTag, "NULL", TRUE, <<>>))
          /\ adsc_at' = adsc_at + 2
          /\ adsc_read' = adsc_at + 2
          /\ adsc_pc' = "request"
          /\ UNCHANGED <<adsc_table, adsc_buf, adsc_left, adsc_err>>
       \/ /\ ~LongEnough(1)
          /\ Fail(NewTag(TheTag))
          /\ adsc_read' = adsc_at + 1

EndOfRequest == Left > 0 => TheTag \notin RequestTags

RequestItem ==
    /\ adsc_pc = "request"
    /\ ~EndOfRequest
    /\ LET known == TheTag \in RequestTags
           size == IF known /\ RequestType[TheTag] = Fixed THEN FixedLength("request", TheTag) ELSE 0
           item == Tag(TheTag, "parsed", size > 0, <<>>)
       IN  \/ /\ known
              /\ LongEnough(size)
              /\ adsc_tags' = WithLast(Tag(LastTag.tag, "NULL", TRUE, Append(LastTag.list, item)))
              /\ adsc_at' = adsc_at + 1 + size
              /\ adsc_read' = adsc_at + 1 + size
              /\ UNCHANGED <<adsc_table, adsc_buf, adsc_pc, adsc_left, adsc_err>>
           \/ /\ ~known \/ ~LongEnough(size)
              /\ adsc_tags' = WithLast(Tag(LastTag.tag, "NULL", TRUE, Append(LastTag.list, NewTag(TheTag))))
              /\ FailInside
              /\ adsc_read' = adsc_at + 1

RequestReturns ==
    /\ adsc_pc = "request"
    /\ EndOfRequest
    /\ adsc_tags' = TagDone("request")
    /\ adsc_pc' = "tags"
    /\ adsc_read' = IF Left = 0 THEN adsc_at ELSE adsc_at + 1
    /\ UNCHANGED <<adsc_table, adsc_buf, adsc_at, adsc_left, adsc_err>>

-----------------------------------------------------------------------------
\* la_adsc_destroy and la_adsc_tag_destroy, which does not know how to free
\* the data of a tag without a type.
Leaks(tag) == tag.data /\ tag.type = "NULL"

AdscDestroy ==
    /\ adsc_pc = "done"
    /\ adsc_pc' = "idle"
    /\ adsc_tags' = <<>>
    /\ adsc_buf' = <<>>
    /\ adsc_at' = 0
    /\ adsc_left' = 0
    /\ adsc_err' = FALSE
    /\ adsc_read' = 0
    /\ UNCHANGED adsc_table

InParser == adsc_pc \in {"tags", "reason", "groups", "request"}

AdscStep ==
    \/ UnknownTag
    \/ EmptyTag
    \/ FixedTag
    \/ NackTag
    \/ NoncompTag
    \/ NoncompGroup
    \/ NoncompReturns
    \/ RequestTag
    \/ RequestItem
    \/ RequestReturns
    \/ AdscReturns

AdscNext ==
    \/ \E payload \in AdscPayloads : AdscParse(payload)
    \/ AdscStep
    \/ AdscDestroy

\* la_adsc_parse is one function: it goes on until it returns.
AdscSpec == AdscInit /\ [][AdscNext]_adscVars /\ WF_adscVars(AdscStep)
-----------------------------------------------------------------------------
\* The octets used are among those of the message, and a parser that still
\* runs has a table and has not failed.
AdscTypeOK ==
    /\ adsc_table \in {"NULL", "uplink", "downlink"}
    /\ adsc_buf \in Seq(Octets)
    /\ adsc_at \in 0 .. Len(adsc_buf)
    /\ adsc_pc \in {"idle", "tags", "reason", "groups", "request", "done"}
    /\ adsc_left \in Octets
    /\ adsc_tags \in Seq(AdscTags)
    /\ adsc_err \in BOOLEAN
    /\ adsc_read \in Nat
    /\ InParser => adsc_table # "NULL" /\ ~adsc_err

(***************************************************************************)
(* No parser reads an octet after the last one of the message, wherever    *)
(* the message has been cut and whatever numbers of groups and parameters  *)
(* it claims.                                                              *)
(***************************************************************************)
AdscReadsInside == adsc_read <= Len(adsc_buf)

(***************************************************************************)
(* An iteration of a loop that does not end it uses an octet of the        *)
(* message or one of the groups to be read.                                *)
(***************************************************************************)
SameLoop == adsc_pc \in {"tags", "groups", "request"} /\ adsc_pc' = adsc_pc

AdscAdvances == [][SameLoop => adsc_at' > adsc_at]_adscVars

(***************************************************************************)
(* Only the tag at which parsing failed can lose its data when the message *)
(* is destroyed, and then the message is marked erroneous.                 *)
(***************************************************************************)
OnlyFailedTagLeaks ==
    adsc_pc = "done" =>
        \A i \in 1 .. Len(adsc_tags) :
            adsc_tags[i].type = "NULL" => i = Len(adsc_tags) /\ adsc_err

\* la_adsc_parse returns, whatever it is given.
AdscEnds == InParser ~> adsc_pc = "done"
=============================================================================
