------------------------------ MODULE AppText -------------------------------
(***************************************************************************)
(* The text of an ACARS message as the applications' parsers see it: a row *)
(* of tokens, each so many characters wide.  The parsers look for strings, *)
(* count characters and stop at the first that is not of a kind, so that   *)
(* what is inside a token matters to none of them but its own.             *)
(***************************************************************************)
EXTENDS Integers, SequencesExt

Token(kind, value, width) == [kind |-> kind, value |-> value, width |-> width]

Slash == Token("slash", 0, 1)

Dot == Token("dot", 0, 1)

\* n upper case letters or digits, and one character that is neither.
Upper(n) == Token("upper", n, n)
Lower == Token("lower", 0, 1)

\* The application names of ARINC 622, numbered in the order of imi_map, and
\* the registration that follows.
Imi(number) == Token("imi", number, 4)
Registration == Token("reg", 0, 7)

\* A hexadecimal digit of the binary part.
Digit(number) == Token("digit", number, 1)

\* "OHMA" or "RYKO", four characters of BASE64, less than four of them at the
\* end of a text that was cut, and a CR or LF.
OhmaMark(number) == Token("mark", -number, 4)
Quad(number) == Token("quad", number, 4)
QuadCut(width) == Token("quad_cut", 0, width)
Eol == Token("eol", 0, 1)

\* The character of a MIAM frame, and what it carries.
FrameId(char) == Token("frame", char, 1)
Pdu(pdu) == Token("pdu", pdu, 1)

\* A character that has its own meaning, as its code.
Code(code) == Token("code", code, 1)

\* "- #" or "#", the sublabel, and "B" after a downlink's.
UplinkSublabel == Token("sublabel", 0, 5)
DownlinkSublabel == Token("sublabel", 1, 4)
Mfi == Token("mfi", 0, 4)

\* The sum of the widths.
Width(txt) ==
    LET width[n \in 0 .. Len(txt)] == IF n = 0 THEN 0 ELSE width[n - 1] + txt[n].width
    IN  width[Len(txt)]

Starts(txt, kind) == txt # <<>> /\ Head(txt).kind = kind

\* The tokens up to the first that is not of a kind.
Run(txt, kind) ==
    LET others == {i \in 1 .. Len(txt) : txt[i].kind # kind}
    IN  IF others = {} THEN txt ELSE SubSeq(txt, 1, Min(others) - 1)
=============================================================================
