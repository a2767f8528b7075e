-------------------------------- MODULE Ohma --------------------------------
(***************************************************************************)
(* la_ohma_parse_and_reassemble (ohma.c), up to what la_inflate gives: how *)
(* an OHMA message is told from others, and how a first block that was     *)
(* sent twice is skipped.  A message is so many numbered quadruples of     *)
(* BASE64 characters, OhmaLength of them; what JSON is in it is passed on. *)
(***************************************************************************)
EXTENDS AppText

OhmaLength == 3

\* What comes of a text: no node, an error, or the content.
OhmaResult(err, content) == [err |-> err, content |-> content]

NoOhma == OhmaResult("NULL", <<>>)

Rest(txt, from) == SubSeq(txt, from, Len(txt))

KindAt(txt, offset) ==
    IF \E i \in 1 .. Len(txt) : Width(SubSeq(txt, 1, i - 1)) = offset
    THEN txt[CHOOSE i \in 1 .. Len(txt) : Width(SubSeq(txt, 1, i - 1)) = offset].kind
    ELSE "inside"

\* How many characters there are before the mark: with a ground address in
\* front of it, with two characters, or none.
PrefixWidth(txt) ==
    IF Width(txt) >= 13 /\ Starts(txt, "slash") /\ KindAt(txt, 8) = "dot" THEN 9
    ELSE IF Width(txt) >= 8 /\ Starts(txt, "slash") /\ KindAt(txt, 3) = "dot" THEN 4
    ELSE 0

\* Where the text goes on after the mark, or zero.
AfterMark(txt, from) ==
    LET rest == Rest(txt, from)
        marks == {i \in 1 .. Len(rest) :
                    /\ Width(SubSeq(rest, 1, i - 1)) = PrefixWidth(rest)
                    /\ rest[i].kind = "mark"}
    IN  IF marks = {} THEN 0 ELSE from + (CHOOSE i \in marks : TRUE)

SameToken(a, b) == a.kind = b.kind /\ a.value = b.value

\* memmem: the places from which on the tokens before ptr are there again.
Repeats(txt, ptr) ==
    {i \in ptr .. Len(txt) :
        /\ i + ptr - 2 <= Len(txt)
        /\ \A k \in 1 .. ptr - 1 : SameToken(txt[i + k - 1], txt[k])}

\* Mutant: the text goes on at the first mark.
FirstContentAt(txt) == AfterMark(txt, 1)

\* The loop of restarts.
ContentAt(txt) ==
    LET after[from \in 1 .. Len(txt) + 1] ==
            LET ptr == AfterMark(txt, from)
            IN  IF ptr = 0 \/ Repeats(txt, ptr) = {} THEN ptr
                ELSE after[Min(Repeats(txt, ptr))]
    IN  after[1]

\* The text without CR and LF at its end.
Chomped(txt) ==
    SubSeq(txt, 1, CHOOSE n \in 0 .. Len(txt) :
        /\ n > 0 => txt[n].kind # "eol"
        /\ \A i \in n + 1 .. Len(txt) : txt[i].kind = "eol")

\* la_base64_decode: whole groups of four characters make octets; a group that
\* was cut is the last one.  Of a second prefix, the '.' is not BASE64, the name
\* is.
Base64Kinds == {"quad", "mark", "quad_cut"}

WholeGroups(txt) ==
    LET whole == IF txt # <<>> /\ txt[Len(txt)].kind = "quad_cut" THEN Len(txt) - 1 ELSE Len(txt)
    IN  [i \in 1 .. whole |-> txt[i].value]

\* The first octets say that it is a deflate stream.
OhmaDecode(txt) ==
    LET groups == WholeGroups(txt)
    IN  CASE txt = <<>> \/ \E i \in DOMAIN txt : txt[i].kind \notin Base64Kinds -> NoOhma
          [] OTHER ->
                IF groups = <<>> THEN OhmaResult("MSG_TOO_SHORT", <<>>)
                ELSE IF Head(groups) # 1 THEN OhmaResult("UNKNOWN_COMPRESSION", <<>>)
                ELSE IF groups # [i \in 1 .. OhmaLength |-> i]
                THEN OhmaResult("DECOMPRESSION_FAILED", <<>>)
                ELSE OhmaResult("SUCCESS", groups)

OhmaParse(txt) ==
    IF ContentAt(txt) = 0 THEN NoOhma ELSE OhmaDecode(Chomped(Rest(txt, ContentAt(txt))))
=============================================================================
