----------------------------- MODULE AdscSender -----------------------------
(***************************************************************************)
(* The other end of Adsc: what an ADS-C message is put together from, and  *)
(* what the decoder owes its user for the part of it that has arrived.     *)
(* A report has a tag and parts: a contract request has one part for the   *)
(* number of the contract and one for each tag in it, others have one part *)
(* or none.                                                                *)
(***************************************************************************)
EXTENDS Adsc

Report(tag, parts) == [tag |-> tag, parts |-> parts, valid |-> TRUE]

\* What no decoder knows, or accepts.
BadReport(tag, parts) == [tag |-> tag, parts |-> parts, valid |-> FALSE]

Reports == [tag : Octets, parts : Seq(Seq(Octets)), valid : BOOLEAN]

\* A group of a notification of non-compliance, and a tag of a request.
IsGroup(part) == Len(part) >= 2 /\ Len(part) = GroupLength(part[2])

ItemLength(tag) == IF RequestType[tag] = Fixed THEN FixedLength("request", tag) ELSE 0

IsItem(part) ==
    part # <<>> /\ part[1] \in RequestTags /\ Len(part) = 1 + ItemLength(part[1])

\* A report of the table: the first part of a notification says how many groups
\* follow, that of a request is the number of the contract.
WellFormed(table, report) ==
    LET octets == FlattenSeq(report.parts)
        first == report.parts[1]
        later == 2 .. Len(report.parts)
        type == TypeIn(table)[report.tag]
    IN  /\ report.tag \in DOMAIN TypeIn(table)
        /\ type = "empty" => octets = <<>>
        /\ type = Fixed => /\ Len(octets) = FixedLength(table, report.tag)
                           /\ FieldsFit(table, report.tag)
        /\ type = "nack" => /\ Len(octets) = IF octets[2] \in ExtendedReasons THEN 3 ELSE 2
                            /\ octets[2] <= MaxReason
        /\ type = "noncomp" => /\ report.parts # <<>>
                               /\ Len(first) = 2 /\ first[2] = Len(report.parts) - 1
                               /\ \A i \in later : IsGroup(report.parts[i])
        /\ type = "request" => /\ report.parts # <<>>
                               /\ Len(first) = 1
                               /\ \A i \in later : IsItem(report.parts[i])

\* A report with a tag of no table, or with a reason of a nack that there is not.
Malformed(table, report) ==
    LET octets == FlattenSeq(report.parts)
    IN  IF report.tag \in DOMAIN TypeIn(table)
        THEN TypeIn(table)[report.tag] = "nack" /\ Len(octets) >= 2 /\ octets[2] > MaxReason
        ELSE table = "uplink" => report.tag \notin RequestTags

IsReport(dir, report) ==
    LET table == IF dir = "GND2AIR" THEN "uplink" ELSE "downlink"
    IN  IF report.valid THEN WellFormed(table, report) ELSE Malformed(table, report)

ReportOctets(report) == <<report.tag>> \o FlattenSeq(report.parts)

ReportsOctets(reports) == FlattenSeq([i \in 1 .. Len(reports) |-> ReportOctets(reports[i])])

\* The octets of the first n reports, and of the first m parts of a report.
ReportsLength(reports, n) == Len(ReportsOctets(SubSeq(reports, 1, n)))

PartsLength(report, m) == 1 + Len(FlattenSeq(SubSeq(report.parts, 1, m)))

\* How many reports are there before the first that is cut or bad.
WholeReports(reports, octets) ==
    LET whole(n) ==
            /\ ReportsLength(reports, n) <= octets
            /\ \A i \in 1 .. n : reports[i].valid
    IN  CHOOSE n \in 0 .. Len(reports) : whole(n) /\ (n = Len(reports) \/ ~whole(n + 1))

\* A tag decoded from the first m parts of a report.
Decodes(tag, report, m) ==
    /\ tag.tag = report.tag
    /\ tag.type # "NULL"
    /\ tag.type = "request" =>
          /\ Len(tag.list) = m - 1
          /\ \A i \in 1 .. m - 1 : tag.list[i].tag = Head(report.parts[i + 1])

\* A request cut between two of its tags is a shorter request.
CutBetweenParts(report, octets) ==
    /\ report.valid
    /\ report.tag \in {7, 8, 9}
    /\ Len(report.parts) > 0
    /\ \E m \in 1 .. Len(report.parts) : octets = PartsLength(report, m)

(***************************************************************************)
(* The tags are those of the whole reports that arrived, in their order,   *)
(* each decoded by the table of its direction; what follows is marked as   *)
(* an error at its tag, and only then is the message.                      *)
(***************************************************************************)
AsSent(dir, reports, octets) ==
    LET n == WholeReports(reports, octets)
        rest == octets - ReportsLength(reports, n)
    IN  /\ \A i \in 1 .. n : Decodes(adsc_tags[i], reports[i], Len(reports[i].parts))
        /\ \/ /\ rest = 0
              /\ Len(adsc_tags) = n
              /\ ~adsc_err
           \/ /\ rest > 0
              /\ Len(adsc_tags) = n + 1
              /\ \/ /\ dir = "GND2AIR"
                    /\ CutBetweenParts(reports[n + 1], rest)
                    /\ ~adsc_err
                    /\ \E m \in 1 .. Len(reports[n + 1].parts) :
                          /\ rest = PartsLength(reports[n + 1], m)
                          /\ Decodes(adsc_tags[n + 1], reports[n + 1], m)
                 \/ /\ ~(dir = "GND2AIR" /\ CutBetweenParts(reports[n + 1], rest))
                    /\ adsc_err
                    /\ adsc_tags[n + 1].tag = reports[n + 1].tag
                    /\ adsc_tags[n + 1].type = "NULL"
=============================================================================
