----------------------------- MODULE AppsProofs -----------------------------
(***************************************************************************)
(* Theorems about AppsSender, for every set of sendings.                   *)
(***************************************************************************)
EXTENDS AppsSender, AdscProofs

-----------------------------------------------------------------------------
(***************************************************************************)
(* The width of a text, a token after the other.                           *)
(***************************************************************************)
Widths(g, txt, n) == g = [i \in 0 .. n |-> IF i = 0 THEN 0 ELSE g[i - 1] + txt[i].width]

WidthTo(txt) == CHOOSE g : Widths(g, txt, Len(txt))

\* The width of a text is the last element of the function that adds them up.
LEMMA WidthIsLast ==
    ASSUME NEW txt
    PROVE  Width(txt) = WidthTo(txt)[Len(txt)]
BY DEF Width, WidthTo, Widths

\* It exists.
LEMMA WidthExists ==
    ASSUME NEW txt, NEW n \in Nat
    PROVE  \E g : Widths(g, txt, n)
<1> DEFINE S == {i \in Nat : \E g : Widths(g, txt, i)}
<1>1. 0 \in S
  <2> DEFINE g == [i \in 0 .. 0 |-> 0]
  <2>1. g = [i \in 0 .. 0 |-> IF i = 0 THEN 0 ELSE g[i - 1] + txt[i].width]
    OBVIOUS
  <2> QED
    BY <2>1 DEF Widths
<1>2. ASSUME NEW j \in 0 .. n - 1, j \in S  PROVE j + 1 \in S
  <2>1. PICK r : Widths(r, txt, j)
    BY <1>2
  <2> DEFINE final == r[j] + txt[j + 1].width
             g     == [i \in 0 .. j + 1 |-> IF i <= j THEN r[i] ELSE final]
             next(i) == IF i = 0 THEN 0 ELSE g[i - 1] + txt[i].width
  <2>2. \A i \in 0 .. j : r[i] = IF i = 0 THEN 0 ELSE r[i - 1] + txt[i].width
    <3>1. r = [i \in 0 .. j |-> IF i = 0 THEN 0 ELSE r[i - 1] + txt[i].width]
      BY <2>1 DEF Widths
    <3> QED
      BY <3>1
  <2> HIDE DEF final
  <2>3. /\ \A i \in 0 .. j : g[i] = r[i]
        /\ g[j + 1] = final
        /\ g = [i \in 0 .. j + 1 |-> g[i]]
    OBVIOUS
  <2> HIDE DEF g
  <2>4. ASSUME NEW i \in 0 .. j + 1  PROVE g[i] = next(i)
    <3>1. CASE i \in 0 .. j
      <4>1. i # 0 => i - 1 \in 0 .. j
        BY <3>1
      <4> QED
        BY <2>2, <2>3, <3>1, <4>1, Zenon
    <3>2. CASE i = j + 1
      <4>1. i # 0 /\ i - 1 = j /\ j \in 0 .. j
        BY <3>2
      <4> QED
        BY <2>3, <3>2, <4>1, Zenon DEF final
    <3>3. i \in 0 .. j \/ i = j + 1
      OBVIOUS
    <3> QED
      BY <3>1, <3>2, <3>3, Zenon
  <2>5. g = [i \in 0 .. j + 1 |-> next(i)]
    <3> HIDE DEF next
    <3> QED
      BY <2>3, <2>4
  <2>6. Widths(g, txt, j + 1)
    BY <2>5 DEF Widths
  <2> QED
    BY <2>6
<1>3. \A i \in 0 .. n : i \in S
  <2> HIDE DEF S
  <2> QED
    BY <1>1, <1>2, UpTo
<1> QED
  BY <1>3

\* It starts with zero and adds the width of a token at each step.
LEMMA WidthSteps ==
    ASSUME NEW txt, Len(txt) \in Nat
    PROVE  /\ WidthTo(txt)[0] = 0
           /\ \A i \in 1 .. Len(txt) : WidthTo(txt)[i] = WidthTo(txt)[i - 1] + txt[i].width
<1> DEFINE n == Len(txt)
           g == WidthTo(txt)
<1>1. Widths(g, txt, n)
  <2>1. \E r : Widths(r, txt, n)
    BY WidthExists
  <2> HIDE DEF n
  <2> QED
    BY <2>1 DEF WidthTo, n
<1> HIDE DEF g
<1>2. g = [i \in 0 .. n |-> IF i = 0 THEN 0 ELSE g[i - 1] + txt[i].width]
  BY <1>1 DEF Widths
<1> HIDE DEF n
<1>3. n \in Nat
  BY DEF n
<1>4. \A i \in 0 .. n : g[i] = IF i = 0 THEN 0 ELSE g[i - 1] + txt[i].width
  BY <1>2, Zenon
<1>5. g[0] = 0
  BY <1>3, <1>4
<1>6. ASSUME NEW i \in 1 .. n  PROVE g[i] = g[i - 1] + txt[i].width
  <2>1. i \in 0 .. n /\ i # 0
    BY <1>3
  <2> QED
    BY <1>4, <2>1, Zenon
<1> QED
  BY <1>5, <1>6 DEF g, n

\* A text of tokens one character wide is as wide as it is long.
LEMMA WidthOfOnes ==
    ASSUME NEW txt, Len(txt) \in Nat, \A i \in 1 .. Len(txt) : txt[i].width = 1
    PROVE  Width(txt) = Len(txt)
<1> DEFINE n == Len(txt)
           g == WidthTo(txt)
           S == {i \in 0 .. n : g[i] = i}
<1>1. g[0] = 0 /\ \A i \in 1 .. n : g[i] = g[i - 1] + 1
  BY WidthSteps
<1> HIDE DEF g
<1>2. n \in Nat
  OBVIOUS
<1> HIDE DEF n
<1>3. 0 \in S
  BY <1>1, <1>2
<1>4. ASSUME NEW i \in 0 .. n - 1, i \in S  PROVE i + 1 \in S
  <2>1. i + 1 \in 1 .. n /\ i + 1 \in 0 .. n /\ i + 1 - 1 = i /\ g[i] = i
    BY <1>2, <1>4
  <2>2. g[i + 1] = g[i + 1 - 1] + 1
    BY <1>1, <2>1
  <2> QED
    BY <2>1, <2>2
<1>5. n \in S
  <2> HIDE DEF S
  <2>1. \A i \in 0 .. n : i \in S
    BY <1>2, <1>3, <1>4, UpTo
  <2> QED
    BY <1>2, <2>1
<1> QED
  BY <1>5, WidthIsLast DEF g, n

-----------------------------------------------------------------------------
(***************************************************************************)
(* Media Advisory: the text is the header, the links and what is behind    *)
(* the slash, as far as it arrives.                                        *)
(***************************************************************************)
MediaTokens == [kind : {"code", "slash"}, value : Nat, width : {1}]

MediaCodes(s) == MediaHeader(s) \o s.links

LinksArrived(s) == IF s.chars - 9 < Len(s.links) THEN s.chars - 9 ELSE Len(s.links)

\* What the header and the links are made of.
LEMMA MediaCodesFacts ==
    ASSUME NEW s, MediaSending(s)
    PROVE  /\ Len(s.links) \in Nat
           /\ \A i \in 1 .. Len(s.links) : s.links[i] \in Nat
           /\ s.digits \in Seq(Nat) /\ Len(s.digits) = 6
           /\ MediaHeader(s) \in Seq(Nat) /\ Len(MediaHeader(s)) = 9
           /\ MediaCodes(s) \in Seq(Nat)
           /\ Len(MediaCodes(s)) = 9 + Len(s.links)
           /\ MediaCodes(s)[1] = Zero0
           /\ MediaCodes(s)[2] = s.state
           /\ MediaCodes(s)[3] = s.link
           /\ \A i \in 1 .. 6 : MediaCodes(s)[3 + i] = s.digits[i]
           /\ \A i \in 1 .. Len(s.links) : MediaCodes(s)[9 + i] = s.links[i]
<1>1. s.links \in Seq(Nat) /\ s.digits \in [1 .. 6 -> Zero0 .. Zero0 + 9]
      /\ s.state \in Nat /\ s.link \in Nat /\ Zero0 \in Nat
  BY DEF MediaSending, Zero0
<1> DEFINE front  == <<Zero0, s.state, s.link>>
           digits == s.digits
           links  == s.links
<1>2. front \in Seq(Nat) /\ Len(front) = 3
      /\ front[1] = Zero0 /\ front[2] = s.state /\ front[3] = s.link
  BY <1>1
<1>3. digits \in Seq(Nat) /\ Len(digits) = 6
  <2>1. digits \in [1 .. 6 -> Zero0 .. Zero0 + 9]
    BY <1>1
  <2> HIDE DEF digits
  <2>2. digits = [i \in 1 .. 6 |-> digits[i]] /\ \A i \in 1 .. 6 : digits[i] \in Nat
    BY <2>1 DEF Zero0
  <2> QED
    BY <2>2, IsSequence
<1>4. links \in Seq(Nat) /\ Len(links) \in Nat /\ \A i \in 1 .. Len(links) : links[i] \in Nat
  <2>1. ASSUME NEW q \in Seq(Nat)  PROVE Len(q) \in Nat /\ \A i \in 1 .. Len(q) : q[i] \in Nat
    OBVIOUS
  <2> QED
    BY <1>1, <2>1
<1> HIDE DEF front, digits, links
<1> DEFINE header == front \o digits
<1>5. /\ header \in Seq(Nat) /\ Len(header) = 9
      /\ \A i \in 1 .. 3 : header[i] = front[i]
      /\ \A i \in 1 .. 6 : header[3 + i] = digits[i]
  <2>1. /\ header \in Seq(Nat) /\ Len(header) = Len(front) + Len(digits)
        /\ \A i \in 1 .. Len(front) : header[i] = front[i]
        /\ \A i \in 1 .. Len(digits) : header[Len(front) + i] = digits[i]
    <3>1. front \in Seq(Nat) /\ digits \in Seq(Nat)
      BY <1>2, <1>3
    <3> QED
      BY <3>1, Concatenated
  <2> HIDE DEF header
  <2> QED
    BY <1>2, <1>3, <2>1
<1> HIDE DEF header
<1> DEFINE codes == header \o links
<1>6. /\ codes \in Seq(Nat) /\ Len(codes) = 9 + Len(links)
      /\ \A i \in 1 .. 9 : codes[i] = header[i]
      /\ \A i \in 1 .. Len(links) : codes[9 + i] = links[i]
  <2>1. /\ codes \in Seq(Nat) /\ Len(codes) = Len(header) + Len(links)
        /\ \A i \in 1 .. Len(header) : codes[i] = header[i]
        /\ \A i \in 1 .. Len(links) : codes[Len(header) + i] = links[i]
    <3>1. header \in Seq(Nat) /\ links \in Seq(Nat)
      BY <1>4, <1>5
    <3> QED
      BY <3>1, Concatenated
  <2> HIDE DEF codes
  <2> QED
    BY <1>4, <1>5, <2>1
<1> HIDE DEF codes
<1>7. /\ codes[1] = front[1] /\ codes[2] = front[2] /\ codes[3] = front[3]
      /\ \A i \in 1 .. 6 : codes[3 + i] = digits[i]
      /\ \A i \in 1 .. Len(links) : codes[9 + i] = links[i]
  <2>1. ASSUME NEW i \in 1 .. 3  PROVE codes[i] = front[i]
    <3>1. i \in 1 .. 9
      OBVIOUS
    <3>2. header[i] = front[i]
      BY <1>5, Zenon
    <3> QED
      BY <1>6, <3>1, <3>2, Zenon
  <2>2. ASSUME NEW i \in 1 .. 6  PROVE codes[3 + i] = digits[i]
    <3>1. PICK j : j = 3 + i
      OBVIOUS
    <3>2. j \in 1 .. 9
      BY <3>1
    <3>3. codes[j] = header[j]
      BY <1>6, <3>2, Zenon
    <3> QED
      BY <1>5, <3>1, <3>3, Zenon
  <2>3. 1 \in 1 .. 3 /\ 2 \in 1 .. 3 /\ 3 \in 1 .. 3
    OBVIOUS
  <2> QED
    BY <1>6, <2>1, <2>2, <2>3, Zenon
<1>8. header = MediaHeader(s) /\ codes = MediaCodes(s)
  BY DEF codes, header, front, digits, links, MediaCodes, MediaHeader
<1> QED
  BY <1>2, <1>3, <1>4, <1>5, <1>6, <1>7, <1>8 DEF digits, links

\* What the parser is given.
LEMMA MediaTextFacts ==
    ASSUME NEW s, MediaSending(s)
    PROVE  /\ MediaText(s) \in Seq(MediaTokens)
           /\ Len(MediaText(s)) = s.chars
           /\ s.chars \in Nat
           /\ \A i \in 1 .. s.chars :
                 /\ i <= 9 + Len(s.links) => MediaText(s)[i] = Code(MediaCodes(s)[i])
                 /\ i = 10 + Len(s.links) => MediaText(s)[i].kind = "slash"
<1> DEFINE n     == 9 + Len(s.links)
           codes == Codes(MediaCodes(s))
           end   == IF s.text THEN <<Slash, Code(65)>> ELSE <<>>
           all   == codes \o end
<1>1. n \in Nat /\ MediaCodes(s) \in Seq(Nat) /\ Len(MediaCodes(s)) = n
  BY MediaCodesFacts
<1>2. ASSUME NEW c \in Nat  PROVE Code(c) \in MediaTokens
  BY DEF Code, Token, MediaTokens
<1>3. codes \in Seq(MediaTokens) /\ Len(codes) = n
      /\ \A i \in 1 .. n : codes[i] = Code(MediaCodes(s)[i])
  <2> DEFINE m == MediaCodes(s)
             tok(i) == Code(m[i])
  <2>1. \A i \in 1 .. n : tok(i) \in MediaTokens
    BY <1>1, <1>2
  <2>2. codes = [i \in 1 .. n |-> tok(i)]
    BY <1>1 DEF Codes
  <2> HIDE DEF tok, n
  <2>3. codes \in Seq(MediaTokens) /\ Len(codes) = n /\ \A i \in 1 .. n : codes[i] = tok(i)
    BY <1>1, <2>1, <2>2
  <2> QED
    BY <2>3 DEF tok
<1>4. /\ end \in Seq(MediaTokens) /\ Len(end) = IF s.text THEN 2 ELSE 0
      /\ s.text => end[1] = Slash
  <2>1. Slash \in MediaTokens
    BY DEF Slash, Token, MediaTokens
  <2>2. Code(65) \in MediaTokens
    BY <1>2
  <2>3. ASSUME NEW T, NEW a \in T, NEW b \in T
        PROVE  <<a, b>> \in Seq(T) /\ Len(<<a, b>>) = 2 /\ <<a, b>>[1] = a
    OBVIOUS
  <2>4. ASSUME NEW T  PROVE <<>> \in Seq(T) /\ Len(<<>>) = 0
    OBVIOUS
  <2> QED
    BY <2>1, <2>2, <2>3, <2>4, Zenon
<1> HIDE DEF codes, end
<1>5. /\ all \in Seq(MediaTokens) /\ Len(all) = Len(codes) + Len(end)
      /\ \A i \in 1 .. Len(codes) : all[i] = codes[i]
      /\ \A i \in 1 .. Len(end) : all[Len(codes) + i] = end[i]
  <2>1. codes \in Seq(MediaTokens) /\ end \in Seq(MediaTokens)
    BY <1>3, <1>4
  <2> QED
    BY <2>1, Concatenated
<1>6. MediaText(s) = SubSeq(all, 1, s.chars)
  BY DEF MediaText, all, codes, end, MediaCodes
<1> HIDE DEF all
<1>7. s.chars \in 0 .. n + (IF s.text THEN 2 ELSE 0) /\ s.text \in BOOLEAN
  BY DEF MediaSending
<1> HIDE DEF n
<1>8. s.chars \in 0 .. Len(all)
  BY <1>1, <1>3, <1>4, <1>5, <1>7
<1> DEFINE txt == SubSeq(all, 1, s.chars)
           N == s.chars
<1>9. txt \in Seq(MediaTokens) /\ Len(txt) = N /\ \A i \in 1 .. N : txt[i] = all[i]
  BY <1>5, <1>8, FirstOnes
<1> HIDE DEF txt
<1>10. ASSUME NEW i \in 1 .. N
       PROVE  /\ i <= n => txt[i] = Code(MediaCodes(s)[i])
              /\ i = 1 + n => txt[i].kind = "slash"
  <2>1. txt[i] = all[i] /\ i \in 1 .. Len(codes) + Len(end)
    BY <1>5, <1>8, <1>9, <1>10
  <2>2. CASE i <= n
    BY <1>1, <1>3, <1>5, <2>1, <2>2
  <2>3. CASE i = 1 + n
    <3>1. Len(end) # 0
      BY <1>1, <1>3, <1>4, <2>1, <2>3
    <3>2. s.text
      BY <1>4, <3>1
    <3>3. all[i] = end[1]
      BY <1>1, <1>3, <1>5, <2>1, <2>3, SMTT(30)
    <3> QED
      BY <1>4, <2>1, <2>3, <3>2, <3>3, <1>1 DEF Slash, Token
  <2>4. i <= n \/ i = 1 + n \/ ~(i <= n \/ i = 1 + n)
    OBVIOUS
  <2> QED
    BY <2>2, <2>3, <2>4
<1>11. N \in Nat
  BY <1>8, <1>1, <1>3, <1>4, <1>5
<1>12. 10 + Len(s.links) = 1 + n
  BY MediaCodesFacts DEF n
<1> QED
  BY <1>6, <1>9, <1>10, <1>11, <1>12 DEF txt, n

\* The links of the text: the parser stops at the slash.
LEMMA LinksParsed ==
    ASSUME NEW s, MediaSending(s), s.chars >= 10
    PROVE  LET rest  == SubSeq(MediaText(s), 10, Len(MediaText(s)))
               links == Run(rest, "code")
           IN  /\ DOMAIN links = 1 .. LinksArrived(s)
               /\ \A i \in 1 .. LinksArrived(s) : links[i].value = s.links[i]
<1> DEFINE txt   == MediaText(s)
           rest  == SubSeq(txt, 10, Len(txt))
           links == Run(rest, "code")
           n     == s.chars - 9
           k     == Len(s.links)
<1>1. /\ txt \in Seq(MediaTokens) /\ Len(txt) = s.chars /\ s.chars \in Nat
      /\ \A i \in 1 .. s.chars :
            /\ i <= 9 + k => txt[i] = Code(MediaCodes(s)[i])
            /\ i = 10 + k => txt[i].kind = "slash"
  BY MediaTextFacts
<1>2. k \in Nat /\ \A i \in 1 .. k : MediaCodes(s)[9 + i] = s.links[i]
  BY MediaCodesFacts
<1>3. n \in Nat /\ n >= 1
  BY <1>1
<1>4. rest \in Seq(MediaTokens) /\ Len(rest) = n /\ \A i \in 1 .. n : rest[i] = txt[9 + i]
  <2>1. 10 \in 1 .. Len(txt) + 1
    BY <1>1
  <2> HIDE DEF txt
  <2>2. /\ rest \in Seq(MediaTokens) /\ Len(rest) = Len(txt) - 10 + 1
        /\ \A i \in 1 .. Len(txt) - 10 + 1 : rest[i] = txt[10 + i - 1]
    BY <1>1, <2>1, LastOnes
  <2> HIDE DEF rest
  <2>3. Len(txt) - 10 + 1 = n
    BY <1>1
  <2>4. ASSUME NEW i \in 1 .. n  PROVE rest[i] = txt[9 + i]
    <3>1. 10 + i - 1 = 9 + i
      BY <1>3
    <3>2. rest[i] = txt[10 + i - 1]
      BY <2>2, <2>3
    <3> QED
      BY <3>1, <3>2
  <2> QED
    BY <2>2, <2>3, <2>4
<1> HIDE DEF txt, rest, n, k
<1>5. ASSUME NEW i \in 1 .. n
      PROVE  /\ i <= k => rest[i].kind = "code" /\ rest[i].value = s.links[i]
             /\ i = k + 1 => rest[i].kind = "slash"
  <2>1. PICK j : j = 9 + i
    OBVIOUS
  <2>2. j \in 1 .. s.chars /\ rest[i] = txt[j]
    <3>1. rest[i] = txt[9 + i]
      BY <1>4
    <3> QED
      BY <1>1, <1>3, <2>1, <3>1 DEF n
  <2>3. i <= k => txt[j] = Code(MediaCodes(s)[j]) /\ MediaCodes(s)[j] = s.links[i]
    <3>1. i <= k => j <= 9 + k /\ i \in 1 .. k
      BY <1>2, <1>3, <2>1
    <3>2. i <= k => MediaCodes(s)[9 + i] = s.links[i]
      BY <1>2, <3>1
    <3> QED
      BY <1>1, <2>1, <2>2, <3>1, <3>2
  <2>4. i = k + 1 => txt[j].kind = "slash"
    <3>1. i = k + 1 => j = 10 + k
      BY <1>2, <1>3, <2>1
    <3> QED
      BY <1>1, <2>2, <3>1
  <2> QED
    BY <2>2, <2>3, <2>4 DEF Code, Token
<1> DEFINE others == {i \in 1 .. Len(rest) : rest[i].kind # "code"}
<1>6. CASE n <= k
  <2>1. others = {}
    BY <1>2, <1>3, <1>4, <1>5, <1>6
  <2>2. links = rest
    BY <2>1 DEF links, Run
  <2>3. LinksArrived(s) = n
    BY <1>1, <1>2, <1>3, <1>6 DEF LinksArrived, n, k
  <2>4. DOMAIN rest = 1 .. n
    BY <1>4, LenProperties
  <2> HIDE DEF links
  <2>5. \A i \in 1 .. n : rest[i].value = s.links[i]
    BY <1>2, <1>3, <1>5, <1>6
  <2> QED
    BY <2>2, <2>3, <2>4, <2>5 DEF links, rest, txt
<1>7. CASE n > k
  <2>1. k + 1 \in 1 .. n
    BY <1>2, <1>3, <1>7
  <2>2. k + 1 \in others
    <3>1. rest[k + 1].kind = "slash"
      BY <1>5, <2>1
    <3> QED
      BY <1>4, <2>1, <3>1
  <2>3. ASSUME NEW i \in others  PROVE k + 1 <= i
    <3>1. i \in 1 .. n /\ rest[i].kind # "code"
      BY <1>4, <2>3
    <3> QED
      BY <1>2, <1>3, <1>5, <3>1
  <2>4. others \subseteq Int
    OBVIOUS
  <2>5. Min(others) = k + 1
    <3> HIDE DEF others
    <3>1. Min(others) = CHOOSE x \in others : \A y \in others : x <= y
      BY DEF Min
    <3>2. \E x \in others : \A y \in others : x <= y
      BY <2>2, <2>3
    <3>3. Min(others) \in others /\ \A y \in others : Min(others) <= y
      BY <3>1, <3>2
    <3>4. Min(others) <= k + 1 /\ k + 1 <= Min(others) /\ Min(others) \in Int
      BY <2>2, <2>3, <2>4, <3>3
    <3> QED
      BY <1>2, <3>4
  <2>6. others # {}
    BY <2>2
  <2>7. links = SubSeq(rest, 1, Min(others) - 1)
    BY <2>6 DEF links, Run
  <2>8. links = SubSeq(rest, 1, k)
    <3>1. Min(others) - 1 = k
      BY <1>2, <2>5
    <3> HIDE DEF links, others
    <3> QED
      BY <2>7, <3>1
  <2> HIDE DEF others, links
  <2>9. k \in 0 .. Len(rest)
    BY <1>2, <1>3, <1>4, <1>7
  <2>10. links \in Seq(MediaTokens) /\ Len(links) = k /\ \A i \in 1 .. k : links[i] = rest[i]
    BY <1>4, <2>8, <2>9, FirstOnes
  <2>11. DOMAIN links = 1 .. k
    BY <2>10, LenProperties
  <2>12. LinksArrived(s) = k
    BY <1>1, <1>2, <1>3, <1>7 DEF LinksArrived, n, k
  <2>13. \A i \in 1 .. k : links[i].value = s.links[i]
    BY <1>2, <1>3, <1>5, <1>7, <2>10
  <2> QED
    BY <2>11, <2>12, <2>13 DEF links, rest, txt
<1> QED
  BY <1>2, <1>3, <1>6, <1>7

\* The header is checked as it was put together.
LEMMA HeaderChecked ==
    ASSUME NEW s, MediaSending(s)
    PROVE  HeaderValid(MediaText(s)) <=>
              s.chars >= 10 /\ s.link \in LinkTypes /\ ValidTime(s.digits)
<1> DEFINE txt == MediaText(s)
<1>1. /\ txt \in Seq(MediaTokens) /\ Len(txt) = s.chars /\ s.chars \in Nat
      /\ \A i \in 1 .. s.chars :
            /\ i <= 9 + Len(s.links) => txt[i] = Code(MediaCodes(s)[i])
            /\ i = 10 + Len(s.links) => txt[i].kind = "slash"
  BY MediaTextFacts
<1> HIDE DEF txt
<1>2. Width(txt) = s.chars
  <2>1. \A i \in 1 .. Len(txt) : txt[i].width = 1
    <3>1. \A i \in 1 .. Len(txt) : txt[i] \in MediaTokens
      BY <1>1, ElementOfSeq
    <3> QED
      BY <3>1 DEF MediaTokens
  <2> QED
    BY <1>1, <2>1, WidthOfOnes
<1>3. CASE s.chars < 10
  BY <1>1, <1>2, <1>3 DEF HeaderValid, LongEnoughForLink, txt
<1>4. CASE s.chars >= 10
  <2> DEFINE d == s.digits
  <2>1. \A i \in 1 .. 9 : txt[i].value = MediaCodes(s)[i]
    <3>1. Len(s.links) \in Nat
      BY MediaCodesFacts
    <3>2. ASSUME NEW i \in 1 .. 9  PROVE i \in 1 .. s.chars /\ i <= 9 + Len(s.links)
      BY <1>1, <1>4, <3>1
    <3>3. \A i \in 1 .. 9 : txt[i] = Code(MediaCodes(s)[i])
      BY <1>1, <3>2, Zenon
    <3> QED
      BY <3>3 DEF Code, Token
  <2>2. /\ txt[1].value = Zero0 /\ txt[2].value = s.state /\ txt[3].value = s.link
        /\ \A i \in 1 .. 6 : MediaCodes(s)[3 + i] = d[i]
    <3>1. /\ MediaCodes(s)[1] = Zero0 /\ MediaCodes(s)[2] = s.state /\ MediaCodes(s)[3] = s.link
          /\ \A i \in 1 .. 6 : MediaCodes(s)[3 + i] = d[i]
      BY MediaCodesFacts, Zenon
    <3> QED
      BY <2>1, <3>1
  <2>3. /\ txt[4].value = d[1] /\ txt[5].value = d[2] /\ txt[6].value = d[3]
        /\ txt[7].value = d[4] /\ txt[8].value = d[5] /\ txt[9].value = d[6]
    BY <2>1, <2>2
  <2>4. \A i \in 1 .. 6 : d[i] \in Zero0 .. Zero0 + 9
    <3>1. d \in [1 .. 6 -> Zero0 .. Zero0 + 9]
      BY DEF MediaSending
    <3> QED
      BY <3>1
  <2> HIDE DEF d
  <2>5. /\ d[1] \in 48 .. 57 /\ d[2] \in 48 .. 57 /\ d[3] \in 48 .. 57
        /\ d[4] \in 48 .. 57 /\ d[5] \in 48 .. 57 /\ d[6] \in 48 .. 57
    BY <2>4 DEF Zero0
  <2>6. \A i \in 4 .. 9 : IsDigit(txt[i].value)
    <3>1. ASSUME NEW i \in 4 .. 9  PROVE i = 4 \/ i = 5 \/ i = 6 \/ i = 7 \/ i = 8 \/ i = 9
      OBVIOUS
    <3> QED
      BY <2>3, <2>5, <3>1 DEF IsDigit, Zero0
  <2>7. /\ TwoDigits(txt, 4) = 10 * (d[1] - 48) + d[2] - 48
        /\ TwoDigits(txt, 6) = 10 * (d[3] - 48) + d[4] - 48
        /\ TwoDigits(txt, 8) = 10 * (d[5] - 48) + d[6] - 48
    <3>1. 4 + 1 = 5 /\ 6 + 1 = 7 /\ 8 + 1 = 9
      OBVIOUS
    <3> QED
      BY <2>3, <3>1 DEF TwoDigits, Zero0
  <2>8. (TwoDigits(txt, 4) <= 23 /\ TwoDigits(txt, 6) <= 59 /\ TwoDigits(txt, 8) <= 59)
          <=> ValidTime(d)
    BY <2>5, <2>7 DEF ValidTime, Zero0
  <2>9. s.state \in {69, 76}
    BY DEF MediaSending
  <2> QED
    BY <1>2, <1>4, <2>2, <2>6, <2>8, <2>9 DEF HeaderValid, LongEnoughForLink, txt, d
<1> QED
  BY <1>1, <1>3, <1>4

\* What comes of a text.
LEMMA MediaParsed ==
    ASSUME NEW s, MediaSending(s)
    PROVE  /\ MediaAdvParse(MediaText(s)).err =
                 ~( /\ s.chars >= 10
                    /\ s.link \in LinkTypes
                    /\ ValidTime(s.digits)
                    /\ \A i \in DOMAIN Arrived(s) : s.links[i] \in LinkTypes)
           /\ ~MediaAdvParse(MediaText(s)).err =>
                 MediaAdvParse(MediaText(s)).available_links = Arrived(s)
<1> DEFINE txt    == MediaText(s)
           result == MediaAdvParse(txt)
           good   == /\ s.chars >= 10
                     /\ s.link \in LinkTypes
                     /\ ValidTime(s.digits)
                     /\ \A i \in DOMAIN Arrived(s) : s.links[i] \in LinkTypes
<1> SUFFICES (result.err = ~good) /\ (~result.err => result.available_links = Arrived(s))
  BY Zenon
<1>1. CASE ~HeaderValid(txt)
  <2>1. result.err = TRUE
    BY <1>1 DEF MediaAdvParse, MediaError, MediaResult
  <2>2. ~good
    BY <1>1, HeaderChecked
  <2> HIDE DEF good, result
  <2> QED
    BY <2>1, <2>2, Zenon
<1>2. CASE HeaderValid(txt)
  <2> DEFINE rest   == SubSeq(txt, 10, Len(txt))
             links  == Run(rest, "code")
             values == [i \in DOMAIN links |-> links[i].value]
             k      == LinksArrived(s)
  <2>1. s.chars >= 10 /\ s.link \in LinkTypes /\ ValidTime(s.digits)
    BY <1>2, HeaderChecked
  <2>2. DOMAIN links = 1 .. k /\ \A i \in 1 .. k : links[i].value = s.links[i]
    BY <2>1, LinksParsed
  <2>3. /\ s.links \in Seq(Nat) /\ Len(s.links) \in Nat /\ s.chars \in Nat
    BY MediaCodesFacts, MediaTextFacts DEF MediaSending
  <2>4. k \in 0 .. Len(s.links)
    BY <2>1, <2>3 DEF LinksArrived
  <2>5. Arrived(s) = SubSeq(s.links, 1, k)
    BY DEF Arrived, LinksArrived
  <2>6. /\ Arrived(s) \in Seq(Nat) /\ Len(Arrived(s)) = k
        /\ \A i \in 1 .. k : Arrived(s)[i] = s.links[i]
    <3> DEFINE q == s.links
    <3>1. q \in Seq(Nat) /\ k \in 0 .. Len(q)
      BY <2>3, <2>4
    <3> HIDE DEF q, k
    <3>2. /\ SubSeq(q, 1, k) \in Seq(Nat) /\ Len(SubSeq(q, 1, k)) = k
          /\ \A i \in 1 .. k : SubSeq(q, 1, k)[i] = q[i]
      BY <3>1, FirstOnes
    <3> QED
      BY <2>5, <3>2 DEF q
  <2>7. DOMAIN Arrived(s) = 1 .. k /\ Arrived(s) = [i \in 1 .. k |-> Arrived(s)[i]]
    BY <2>6, LenProperties
  <2> HIDE DEF k, links
  <2>8. values = Arrived(s)
    BY <2>2, <2>6, <2>7
  <2>9. \A i \in DOMAIN links : values[i] = s.links[i]
    BY <2>2
  <2> HIDE DEF values
  <2>10. CASE \E i \in DOMAIN links : values[i] \notin LinkTypes
    <3>1. result.err = TRUE
      BY <1>2, <2>10 DEF MediaAdvParse, MediaError, MediaResult, values, links
    <3>2. ~good
      BY <2>2, <2>7, <2>9, <2>10
    <3> HIDE DEF good, result
    <3> QED
      BY <3>1, <3>2, Zenon
  <2>11. CASE ~ \E i \in DOMAIN links : values[i] \notin LinkTypes
    <3>1. result.err = FALSE /\ result.available_links = values
      BY <1>2, <2>11 DEF MediaAdvParse, MediaResult, values, links
    <3>2. good
      BY <2>1, <2>2, <2>7, <2>9, <2>11
    <3> HIDE DEF good, result
    <3> QED
      BY <2>8, <3>1, <3>2, Zenon
  <2> QED
    BY <2>10, <2>11
<1> QED
  BY <1>1, <1>2

-----------------------------------------------------------------------------
(***************************************************************************)
(* The node of a message: what one of the applications makes of the text,  *)
(* and for CPDLC what is linked to it.                                     *)
(***************************************************************************)
NodeOf(label, dir, txt) ==
    LET parsed == AppNode(label, Extracted(label, dir, txt))
    IN  IF IsCpdlc(parsed)
        THEN [parsed EXCEPT !.next = <<CpdlcParse(parsed.msg.octets, parsed.msg.len, dir)>>]
        ELSE parsed

\* The node that the user is given is that of the last sending.
NodeAsDecoded ==
    node # NoNode =>
        /\ sent \in Sendings
        /\ node = NodeOf(sent.label, sent.dir, TextSent(sent))

\* A sending decodes what it sends, and nothing else makes a node.
LEMMA NodeStays ==
    ASSUME NodeAsDecoded, SenderNext \/ UNCHANGED senderVars
    PROVE  NodeAsDecoded'
<1>1. ASSUME NEW s \in Sendings, Send(s)  PROVE NodeAsDecoded'
  <2>1. DecodeApps(s.label, s.dir, TextSent(s)) /\ sent' = s
    BY <1>1 DEF Send
  <2>2. node' = NodeOf(s.label, s.dir, TextSent(s))
    BY <2>1 DEF DecodeApps, NodeOf
  <2> QED
    BY <2>1, <2>2 DEF NodeAsDecoded
<1>2. CASE AdscParserStep /\ UNCHANGED sent
  BY <1>2 DEF AdscParserStep, NodeAsDecoded
<1>3. CASE TreeDestroy /\ sent' = Nothing
  BY <1>3 DEF TreeDestroy, NodeAsDecoded
<1>4. CASE UNCHANGED senderVars
  BY <1>4 DEF senderVars, appsVars, NodeAsDecoded
<1> QED
  BY <1>1, <1>2, <1>3, <1>4 DEF SenderNext

\* So the node is always that of the last sending.
LEMMA NodeDecoded == SenderSpec => []NodeAsDecoded
<1>1. SenderInit => NodeAsDecoded
  BY DEF SenderInit, AppsInit, NodeAsDecoded
<1>2. NodeAsDecoded /\ [SenderNext]_senderVars => NodeAsDecoded'
  BY NodeStays
<1> QED
  BY <1>1, <1>2, PTL DEF SenderSpec

\* The first answer is one of them, and none before it is more than text.
LEMMA FirstAnswerFacts ==
    ASSUME NEW label, NEW txt
    PROVE  \E i \in 1 .. 5 :
              /\ AppNode(label, txt) = Answers(label, txt)[i]
              /\ Answers(label, txt)[i].app # "text" \/ i = 5
              /\ \A j \in 1 .. i - 1 : Answers(label, txt)[j].app = "text"
<1> DEFINE answers == Answers(label, txt)
           fits(i) == /\ answers[i].app # "text" \/ i = 5
                      /\ \A j \in 1 .. i - 1 : answers[j].app = "text"
<1>1. DOMAIN answers = 1 .. 5 /\ Len(answers) = 5
  BY DEF Answers
<1>2. TextOnly.app = "text"
  BY DEF TextOnly, Node
<1>3. FirstAnswer(answers) = answers[CHOOSE i \in 1 .. 5 : fits(i)]
  BY <1>1, <1>2 DEF FirstAnswer
<1>4. \E i \in 1 .. 5 : fits(i)
  <2> HIDE DEF answers
  <2>1. CASE answers[1].app # "text"
    BY <2>1
  <2>2. CASE answers[1].app = "text" /\ answers[2].app # "text"
    <3>1. fits(2)
      BY <2>2
    <3> QED
      BY <3>1
  <2>3. CASE answers[1].app = "text" /\ answers[2].app = "text" /\ answers[3].app # "text"
    <3>1. fits(3)
      BY <2>3
    <3> QED
      BY <3>1
  <2>4. CASE /\ answers[1].app = "text" /\ answers[2].app = "text" /\ answers[3].app = "text"
             /\ answers[4].app # "text"
    <3>1. fits(4)
      BY <2>4
    <3> QED
      BY <3>1
  <2>5. CASE /\ answers[1].app = "text" /\ answers[2].app = "text" /\ answers[3].app = "text"
             /\ answers[4].app = "text"
    <3>1. fits(5)
      BY <2>5
    <3> QED
      BY <3>1
  <2> HIDE DEF fits
  <2> QED
    BY <2>1, <2>2, <2>3, <2>4, <2>5, Zenon
<1> HIDE DEF fits, answers
<1>5. PICK i \in 1 .. 5 : FirstAnswer(answers) = answers[i] /\ fits(i)
  BY <1>3, <1>4, Zenon
<1> QED
  BY <1>5 DEF AppNode, fits, answers

\* What each of the five decoders answers.
LEMMA EachAnswer ==
    ASSUME NEW label, NEW txt
    PROVE  LET answers == Answers(label, txt)
           IN  /\ answers[1] = IF label \in ArincLabels /\ ArincParse(txt) # NoArinc
                               THEN Node("arinc", ArincParse(txt)) ELSE TextOnly
               /\ answers[2] = IF label \in MiamLabels /\ SingleTransfer(txt) # NoUnit
                               THEN Node("miam", SingleTransfer(txt)) ELSE TextOnly
               /\ answers[3] = IF label = "H1" /\ OhmaParse(txt) # NoOhma
                               THEN Node("ohma", OhmaParse(txt)) ELSE TextOnly
               /\ answers[4] = IF label = "SA" THEN Node("media_adv", MediaAdvParse(txt))
                               ELSE TextOnly
               /\ answers[5] = TextOnly
BY DEF Answers, KnownBy, IsMediaAdv

\* What the node of a message can be.
LEMMA NodeOfText ==
    ASSUME NEW label, NEW dir, NEW txt
    PROVE  LET text == Extracted(label, dir, txt)
               n    == NodeOf(label, dir, txt)
           IN  /\ n.app \in {"arinc", "miam", "ohma", "media_adv", "text"}
               /\ n.app = "arinc" => /\ label \in ArincLabels
                                     /\ ArincParse(text) # NoArinc
                                     /\ n.msg = ArincParse(text)
                                     /\ AppNode(label, text) = Node("arinc", ArincParse(text))
               /\ n.app = "miam" => /\ label \in MiamLabels
                                    /\ SingleTransfer(text) # NoUnit
                                    /\ n = Node("miam", SingleTransfer(text))
               /\ n.app = "ohma" => n = Node("ohma", OhmaParse(text)) /\ label = "H1"
               /\ n.app = "media_adv" => n = Node("media_adv", MediaAdvParse(text)) /\ label = "SA"
               /\ label = "SA" => n.app = "media_adv"
               /\ /\ label = "H1" /\ ArincParse(text) = NoArinc /\ SingleTransfer(text) = NoUnit
                  /\ OhmaParse(text) # NoOhma
                  => n.app = "ohma"
               /\ /\ label \in MiamLabels /\ ArincParse(text) = NoArinc
                  /\ SingleTransfer(text) # NoUnit
                  => n.app = "miam"
               /\ label \in ArincLabels /\ ArincParse(text) # NoArinc => n.app = "arinc"
<1> DEFINE text    == Extracted(label, dir, txt)
           n       == NodeOf(label, dir, txt)
           answers == Answers(label, text)
           parsed  == AppNode(label, text)
<1>1. PICK i \in 1 .. 5 : /\ parsed = answers[i]
                          /\ answers[i].app # "text" \/ i = 5
                          /\ \A j \in 1 .. i - 1 : answers[j].app = "text"
  BY FirstAnswerFacts
<1>2. /\ answers[1] = IF label \in ArincLabels /\ ArincParse(text) # NoArinc
                      THEN Node("arinc", ArincParse(text)) ELSE TextOnly
      /\ answers[2] = IF label \in MiamLabels /\ SingleTransfer(text) # NoUnit
                      THEN Node("miam", SingleTransfer(text)) ELSE TextOnly
      /\ answers[3] = IF label = "H1" /\ OhmaParse(text) # NoOhma
                      THEN Node("ohma", OhmaParse(text)) ELSE TextOnly
      /\ answers[4] = IF label = "SA" THEN Node("media_adv", MediaAdvParse(text)) ELSE TextOnly
      /\ answers[5] = TextOnly
  BY EachAnswer, Zenon
<1>3. n = IF IsCpdlc(parsed)
          THEN [parsed EXCEPT !.next = <<CpdlcParse(parsed.msg.octets, parsed.msg.len, dir)>>] ELSE parsed
  BY DEF NodeOf
<1> HIDE DEF answers, text, parsed, n
<1>4. TextOnly.app = "text" /\ \A app, msg : Node(app, msg).app = app /\ Node(app, msg).msg = msg
  BY DEF TextOnly, Node
<1>5. i = 1 \/ i = 2 \/ i = 3 \/ i = 4 \/ i = 5
  OBVIOUS
<1>6. IsCpdlc(parsed) => parsed.app = "arinc"
  BY DEF IsCpdlc
<1>7. parsed.app # "arinc" => n = parsed
  BY <1>3, <1>6
<1>8. parsed.app = "arinc" => /\ i = 1 /\ label \in ArincLabels /\ ArincParse(text) # NoArinc
                              /\ parsed = Node("arinc", ArincParse(text))
  BY <1>1, <1>2, <1>4, <1>5
<1>9. parsed.app = "arinc" => n.app = "arinc" /\ n.msg = parsed.msg
  BY <1>3, <1>8 DEF Node
<1>10. parsed.app \in {"arinc", "miam", "ohma", "media_adv", "text"}
  BY <1>1, <1>2, <1>4, <1>5
<1>11. parsed.app = "ohma" => parsed = Node("ohma", OhmaParse(text)) /\ label = "H1"
  BY <1>1, <1>2, <1>4, <1>5
<1>12. parsed.app = "media_adv" => parsed = Node("media_adv", MediaAdvParse(text)) /\ label = "SA"
  BY <1>1, <1>2, <1>4, <1>5
<1>13. label = "SA" => parsed.app = "media_adv"
  <2>1. label = "SA" => label \notin ArincLabels /\ label \notin MiamLabels /\ label # "H1"
    BY DEF ArincLabels, MiamLabels
  <2>2. label = "SA" => /\ answers[1].app = "text" /\ answers[2].app = "text"
                        /\ answers[3].app = "text" /\ answers[4].app = "media_adv"
    BY <1>2, <1>4, <2>1, Zenon
  <2>3. i = 5 => 4 \in 1 .. i - 1
    OBVIOUS
  <2> QED
    BY <1>1, <1>5, <2>2, <2>3
<1>14. /\ label = "H1" /\ ArincParse(text) = NoArinc /\ SingleTransfer(text) = NoUnit
       /\ OhmaParse(text) # NoOhma
       => parsed.app = "ohma"
  <2>1. SUFFICES ASSUME label = "H1", ArincParse(text) = NoArinc, SingleTransfer(text) = NoUnit,
                        OhmaParse(text) # NoOhma
                 PROVE  parsed.app = "ohma"
    OBVIOUS
  <2>2. answers[1].app = "text" /\ answers[2].app = "text" /\ answers[3].app = "ohma"
    BY <1>2, <1>4, <2>1, Zenon
  <2>3. i = 4 \/ i = 5 => 3 \in 1 .. i - 1
    OBVIOUS
  <2> QED
    BY <1>1, <1>5, <2>2, <2>3
<1>15. parsed.app = "miam" => /\ parsed = Node("miam", SingleTransfer(text))
                              /\ label \in MiamLabels /\ SingleTransfer(text) # NoUnit
  BY <1>1, <1>2, <1>4, <1>5
<1>16. /\ label \in MiamLabels /\ ArincParse(text) = NoArinc /\ SingleTransfer(text) # NoUnit
       => parsed.app = "miam"
  <2>1. SUFFICES ASSUME label \in MiamLabels, ArincParse(text) = NoArinc,
                        SingleTransfer(text) # NoUnit
                 PROVE  parsed.app = "miam"
    OBVIOUS
  <2>2. answers[1].app = "text" /\ answers[2].app = "miam"
    BY <1>2, <1>4, <2>1, Zenon
  <2>3. i = 3 \/ i = 4 \/ i = 5 => 2 \in 1 .. i - 1
    OBVIOUS
  <2> QED
    BY <1>1, <1>5, <2>2, <2>3
<1>17. label \in ArincLabels /\ ArincParse(text) # NoArinc => parsed.app = "arinc"
  <2>1. SUFFICES ASSUME label \in ArincLabels, ArincParse(text) # NoArinc
                 PROVE  parsed.app = "arinc"
    OBVIOUS
  <2>2. answers[1].app = "arinc"
    BY <1>2, <1>4, <2>1, Zenon
  <2>3. i # 1 => 1 \in 1 .. i - 1
    OBVIOUS
  <2> QED
    BY <1>1, <1>5, <2>2, <2>3
<1> HIDE DEF NodeOf
<1> QED
  BY <1>4, <1>7, <1>8, <1>9, <1>10, <1>11, <1>12, <1>13, <1>14, <1>15, <1>16, <1>17
     DEF n, text, parsed

\* What was sent is a sending of its application, with the text of its kind.
LEMMA SendingIsSending ==
    ASSUME NodeAsDecoded, node # NoNode
    PROVE  /\ sent \in Sendings
           /\ node = NodeOf(sent.label, sent.dir, TextSent(sent))
           /\ sent.app = "arinc" => ArincSending(sent) /\ TextSent(sent) = ArincText(sent)
           /\ sent.app = "miam" => MiamSending(sent) /\ TextSent(sent) = MiamText(sent)
           /\ sent.app = "ohma" => OhmaSending(sent) /\ TextSent(sent) = OhmaText(sent)
           /\ sent.app = "media_adv" => MediaSending(sent) /\ TextSent(sent) = MediaText(sent)
BY SendingsAssumption DEF NodeAsDecoded, Sending, TextSent

\* A Media Advisory that is longer or shorter than it should be, or has another
\* link type or time, is an error; of any other the links are those that arrived.
THEOREM MediaDecoded == SenderSpec => []MediaAsSent
<1>1. ASSUME NodeAsDecoded  PROVE MediaAsSent
  <2>1. SUFFICES ASSUME Returned, sent.app = "media_adv"
                 PROVE  (sent.label = "SA") =
                           /\ node.app = "media_adv"
                           /\ node.msg.err = ~( /\ sent.chars >= 10
                                                /\ sent.link \in LinkTypes
                                                /\ ValidTime(sent.digits)
                                                /\ \A i \in DOMAIN Arrived(sent) :
                                                      sent.links[i] \in LinkTypes)
                           /\ ~node.msg.err => node.msg.available_links = Arrived(sent)
    BY Zenon DEF MediaAsSent
  <2> DEFINE text == Extracted(sent.label, sent.dir, MediaText(sent))
             asOwed == /\ node.msg.err = ~( /\ sent.chars >= 10
                                            /\ sent.link \in LinkTypes
                                            /\ ValidTime(sent.digits)
                                            /\ \A i \in DOMAIN Arrived(sent) :
                                                  sent.links[i] \in LinkTypes)
                       /\ ~node.msg.err => node.msg.available_links = Arrived(sent)
  <2>2. MediaSending(sent) /\ node = NodeOf(sent.label, sent.dir, MediaText(sent))
    BY <1>1, <2>1, SendingIsSending DEF Returned
  <2>3. CASE sent.label = "SA"
    <3>1. text = MediaText(sent)
      BY <2>3 DEF Extracted
    <3>2. node.app = "media_adv" /\ node = Node("media_adv", MediaAdvParse(text))
      BY <2>2, <2>3, NodeOfText
    <3>3. node.msg = MediaAdvParse(MediaText(sent))
      BY <3>1, <3>2 DEF Node
    <3>4. asOwed
      BY <2>2, <3>3, MediaParsed, Zenon
    <3> QED
      BY <2>3, <3>2, <3>4, Zenon
  <2>4. CASE sent.label # "SA"
    <3>1. node.app # "media_adv"
      BY <2>2, <2>4, NodeOfText
    <3> QED
      BY <2>4, <3>1, Zenon
  <2> QED
    BY <2>3, <2>4
<1> QED
  BY <1>1, NodeDecoded, PTL

-----------------------------------------------------------------------------
(***************************************************************************)
(* The envelope of ARINC 622: the name of the application is in one place  *)
(* of the text, and what the parser is given begins there.                 *)
(***************************************************************************)
HoldsImi(txt, p, back) ==
    /\ p \in 1 .. Len(txt)
    /\ \A i \in 1 .. Len(txt) : (txt[i].kind = "imi") <=> (i = p)
    /\ SubSeq(txt, p, Len(txt)) = back

\* Without the first token.
LEMMA TailHolds ==
    ASSUME NEW T, NEW txt \in Seq(T), NEW p, NEW back, HoldsImi(txt, p, back),
           txt[1].kind # "imi"
    PROVE  Tail(txt) \in Seq(T) /\ HoldsImi(Tail(txt), p - 1, back)
<1> DEFINE n == Len(txt)
           t == Tail(txt)
<1>1. n \in Nat /\ p \in 1 .. n /\ \A i \in 1 .. n : (txt[i].kind = "imi") <=> (i = p)
  BY LenProperties DEF HoldsImi
<1>2. p # 1 /\ n >= 1
  BY <1>1
<1>3. t \in Seq(T) /\ Len(t) = n - 1 /\ \A i \in 1 .. n - 1 : t[i] = txt[i + 1]
  <2>1. txt # <<>>
    BY <1>2
  <2> QED
    BY <2>1
<1> HIDE DEF t, n
<1>4. p - 1 \in 1 .. Len(t)
  BY <1>1, <1>2, <1>3
<1>5. ASSUME NEW i \in 1 .. Len(t)  PROVE (t[i].kind = "imi") <=> (i = p - 1)
  <2>1. i + 1 \in 1 .. n /\ t[i] = txt[i + 1] /\ (i + 1 = p <=> i = p - 1)
    BY <1>1, <1>3
  <2> QED
    BY <1>1, <2>1
<1>6. SubSeq(t, p - 1, Len(t)) = SubSeq(txt, p, n)
  <2> DEFINE a == SubSeq(t, p - 1, Len(t))
             b == SubSeq(txt, p, n)
             m == n - p + 1
  <2>1. p - 1 \in 1 .. Len(t) + 1 /\ p \in 1 .. n + 1
    BY <1>1, <1>3, <1>4
  <2>2. /\ a \in Seq(T) /\ Len(a) = Len(t) - (p - 1) + 1
        /\ \A i \in 1 .. Len(t) - (p - 1) + 1 : a[i] = t[p - 1 + i - 1]
    BY <1>3, <2>1, LastOnes
  <2>3. /\ b \in Seq(T) /\ Len(b) = n - p + 1
        /\ \A i \in 1 .. n - p + 1 : b[i] = txt[p + i - 1]
    BY <2>1, LastOnes DEF n
  <2>4. Len(t) - (p - 1) + 1 = m
    BY <1>1, <1>3
  <2> HIDE DEF a, b
  <2>5. ASSUME NEW i \in 1 .. m  PROVE a[i] = b[i]
    <3>1. PICK j : j = p - 1 + i - 1
      OBVIOUS
    <3>2. j \in 1 .. n - 1 /\ j + 1 = p + i - 1
      BY <1>1, <1>2, <3>1
    <3>3. a[i] = t[j] /\ t[j] = txt[j + 1] /\ b[i] = txt[p + i - 1]
      BY <1>3, <2>2, <2>3, <2>4, <3>1, <3>2
    <3> QED
      BY <3>2, <3>3
  <2>6. a = b
    <3>1. Len(a) = m /\ Len(b) = m
      BY <2>2, <2>3, <2>4
    <3> HIDE DEF m
    <3> QED
      BY <2>2, <2>3, <2>5, <3>1, SeqEqual
  <2> QED
    BY <2>6 DEF a, b
<1> QED
  BY <1>3, <1>4, <1>5, <1>6 DEF HoldsImi, t, n

\* A text that starts with a kind of token has that token in front of its tail.
LEMMA StartsAt ==
    ASSUME NEW T, NEW txt \in Seq(T), NEW kind, Starts(txt, kind)
    PROVE  txt # <<>> /\ txt[1].kind = kind /\ Tail(txt) \in Seq(T)
BY DEF Starts

\* The parsers in front of it leave the name where it is.
LEMMA ExtractedHolds ==
    ASSUME NEW T, NEW txt \in Seq(T), NEW p, NEW back, HoldsImi(txt, p, back),
           NEW label, NEW dir
    PROVE  /\ Extracted(label, dir, txt) \in Seq(T)
           /\ \E q : HoldsImi(Extracted(label, dir, txt), q, back)
<1>1. CASE label # "H1" \/ ~HasSublabel(dir, txt)
  BY <1>1 DEF Extracted
<1>2. CASE label = "H1" /\ HasSublabel(dir, txt)
  <2> DEFINE t == Tail(txt)
  <2>1. Starts(txt, "sublabel")
    BY <1>2 DEF HasSublabel
  <2>2. txt[1].kind # "imi"
    BY <2>1, StartsAt
  <2>3. t \in Seq(T) /\ HoldsImi(t, p - 1, back)
    BY <2>2, TailHolds
  <2> HIDE DEF t
  <2>4. CASE Starts(t, "mfi")
    <3>1. t[1].kind # "imi"
      BY <2>3, <2>4, StartsAt
    <3>2. Tail(t) \in Seq(T) /\ HoldsImi(Tail(t), p - 1 - 1, back)
      BY <2>3, <3>1, TailHolds
    <3>3. Extracted(label, dir, txt) = Tail(t)
      BY <1>2, <2>4 DEF Extracted, t
    <3> QED
      BY <3>2, <3>3
  <2>5. CASE ~Starts(t, "mfi")
    <3>1. Extracted(label, dir, txt) = t
      BY <1>2, <2>5 DEF Extracted, t
    <3> QED
      BY <2>3, <3>1
  <2> QED
    BY <2>4, <2>5
<1> QED
  BY <1>1, <1>2

\* What la_arinc_parse takes for the payload is what begins with the name.
LEMMA GuessHolds ==
    ASSUME NEW T, NEW txt \in Seq(T), NEW p, NEW back, HoldsImi(txt, p, back)
    PROVE  GuessMsgType(txt) \in {<<>>, back}
<1> DEFINE text == WithoutSlash(txt)
<1>1. PICK q : HoldsImi(text, q, back)
  <2>1. CASE Starts(txt, "slash")
    <3>1. txt[1].kind # "imi"
      BY <2>1, StartsAt
    <3> QED
      BY <2>1, <3>1, TailHolds DEF WithoutSlash
  <2>2. CASE ~Starts(txt, "slash")
    BY <2>2 DEF WithoutSlash
  <2> QED
    BY <2>1, <2>2
<1> HIDE DEF text
<1> DEFINE all    == {i \in 1 .. Len(text) : text[i].kind = "imi"}
           places == {i \in ImiPlaces(text) : GroundAddress(SubSeq(text, 1, i - 1))}
<1>2. q \in all /\ \A i \in all : i = q
  BY <1>1 DEF HoldsImi
<1>3. ImiPlaces(text) \subseteq {q}
  BY <1>2 DEF ImiPlaces
<1>4. places \subseteq {q}
  BY <1>3
<1>5. GuessMsgType(txt) = IF places = {} THEN <<>>
                          ELSE SubSeq(text, CHOOSE i \in places : TRUE, Len(text))
  BY DEF GuessMsgType, text
<1> HIDE DEF places
<1>6. CASE places = {}
  BY <1>5, <1>6
<1>7. CASE places # {}
  <2>1. (CHOOSE i \in places : TRUE) = q
    BY <1>4, <1>7
  <2> QED
    BY <1>1, <1>5, <1>7, <2>1 DEF HoldsImi
<1> QED
  BY <1>6, <1>7

\* What la_arinc622_parse makes of a text that holds the name of an application.
LEMMA ArincHolds ==
    ASSUME NEW T, NEW txt \in Seq(T), NEW p, NEW back, HoldsImi(txt, p, back),
           ArincParse(txt) # NoArinc
    PROVE  ArincParse(txt) =
              Checked(Head(back).value, SlurpHexstring(SubSeq(back, 3, Len(back))))
<1>1. GuessMsgType(txt) = back
  <2>1. GuessMsgType(txt) # <<>>
    BY DEF ArincParse, PayloadParse
  <2> QED
    BY <2>1, GuessHolds
<1> QED
  BY <1>1 DEF ArincParse, PayloadParse

\* A text without a name is for other applications.
LEMMA NoImi ==
    ASSUME NEW T, NEW txt \in Seq(T), \A i \in 1 .. Len(txt) : txt[i].kind # "imi"
    PROVE  ArincParse(txt) = NoArinc
<1> DEFINE text == WithoutSlash(txt)
<1>1. \A i \in 1 .. Len(text) : text[i].kind # "imi"
  <2>1. CASE Starts(txt, "slash")
    <3>1. txt # <<>>
      BY <2>1 DEF Starts
    <3>2. Len(Tail(txt)) = Len(txt) - 1 /\ Len(txt) \in Nat
          /\ \A i \in 1 .. Len(txt) - 1 : Tail(txt)[i] = txt[i + 1]
      BY <3>1
    <3>3. text = Tail(txt)
      BY <2>1 DEF WithoutSlash
    <3> HIDE DEF text
    <3>4. ASSUME NEW i \in 1 .. Len(text)  PROVE text[i].kind # "imi"
      <4>1. i \in 1 .. Len(txt) - 1 /\ i + 1 \in 1 .. Len(txt)
        BY <3>2, <3>3
      <4> QED
        BY <3>2, <3>3, <4>1
    <3> QED
      BY <3>4
  <2>2. CASE ~Starts(txt, "slash")
    BY <2>2 DEF WithoutSlash
  <2> QED
    BY <2>1, <2>2
<1> HIDE DEF text
<1>2. ImiPlaces(text) = {}
  BY <1>1 DEF ImiPlaces
<1>3. GuessMsgType(txt) = <<>>
  BY <1>2 DEF GuessMsgType, text
<1> QED
  BY <1>3 DEF ArincParse, PayloadParse

\* The tokens up to the first of another kind.
LEMMA RunFacts ==
    ASSUME NEW T, NEW txt \in Seq(T), NEW kind, NEW n \in 0 .. Len(txt),
           \A i \in 1 .. n : txt[i].kind = kind,
           n < Len(txt) => txt[n + 1].kind # kind
    PROVE  Run(txt, kind) = SubSeq(txt, 1, n)
<1> DEFINE others == {i \in 1 .. Len(txt) : txt[i].kind # kind}
<1>1. Len(txt) \in Nat
  BY LenProperties
<1>2. CASE n = Len(txt)
  <2>1. others = {}
    BY <1>2
  <2> QED
    BY <1>2, <2>1, SubSeqFull DEF Run
<1>3. CASE n < Len(txt)
  <2>1. n + 1 \in others
    BY <1>1, <1>3
  <2>2. \A i \in others : n + 1 <= i /\ i \in Int
    BY <1>1
  <2> HIDE DEF others
  <2>3. Min(others) = CHOOSE x \in others : \A y \in others : x <= y
    BY DEF Min
  <2>4. Min(others) \in others /\ \A y \in others : Min(others) <= y
    BY <2>1, <2>2, <2>3
  <2>5. Min(others) <= n + 1 /\ n + 1 <= Min(others) /\ Min(others) \in Int
    BY <2>1, <2>2, <2>4
  <2>6. Min(others) - 1 = n
    BY <2>5
  <2>7. Run(txt, kind) = SubSeq(txt, 1, Min(others) - 1)
    BY <2>1 DEF Run, others
  <2> QED
    BY <2>6, <2>7
<1> QED
  BY <1>1, <1>2, <1>3

\* The octets of the first n digits: what follows them does not make another.
LEMMA Slurped ==
    ASSUME NEW T, NEW txt \in Seq(T), NEW n \in 0 .. Len(txt),
           \A i \in 1 .. n : txt[i].kind = "digit",
           \/ n = Len(txt)
           \/ n < Len(txt) /\ txt[n + 1].kind # "digit"
           \/ n + 1 = Len(txt) /\ n % 2 = 0
    PROVE  SlurpHexstring(txt) =
              [i \in 1 .. n \div 2 |-> 16 * txt[2 * i - 1].value + txt[2 * i].value]
<1>1. Len(txt) \in Nat /\ n \in Nat
  BY LenProperties
<1>2. PICK k \in n .. Len(txt) :
          /\ k \div 2 = n \div 2
          /\ \A i \in 1 .. k : txt[i].kind = "digit"
          /\ k < Len(txt) => txt[k + 1].kind # "digit"
  <2>1. CASE n = Len(txt) \/ txt[n + 1].kind # "digit"
    <3>1. n \in n .. Len(txt)
      BY <1>1
    <3> QED
      BY <2>1, <3>1
  <2>2. CASE n + 1 = Len(txt) /\ n % 2 = 0 /\ txt[n + 1].kind = "digit"
    <3>1. n + 1 \in n .. Len(txt) /\ ~(n + 1 < Len(txt))
      BY <1>1, <2>2
    <3>2. (n + 1) \div 2 = n \div 2
      BY <1>1, <2>2
    <3>3. \A i \in 1 .. n + 1 : i \in 1 .. n \/ i = n + 1
      BY <1>1
    <3> QED
      BY <2>2, <3>1, <3>2, <3>3
  <2> QED
    BY <2>1, <2>2
<1> DEFINE digits == Run(txt, "digit")
<1>3. digits = SubSeq(txt, 1, k)
  <2>1. k \in 0 .. Len(txt)
    BY <1>1, <1>2
  <2> QED
    BY <1>2, <2>1, RunFacts
<1>4. Len(digits) = k /\ \A i \in 1 .. k : digits[i] = txt[i]
  <2>1. k \in 0 .. Len(txt)
    BY <1>1, <1>2
  <2> QED
    BY <1>3, <2>1, FirstOnes
<1> HIDE DEF digits
<1> DEFINE octet(i) == 16 * digits[2 * i - 1].value + digits[2 * i].value
           owed(i)  == 16 * txt[2 * i - 1].value + txt[2 * i].value
           m        == n \div 2
<1>5. SlurpHexstring(txt) = [i \in 1 .. m |-> octet(i)]
  BY <1>2, <1>4 DEF SlurpHexstring, digits
<1>6. ASSUME NEW i \in 1 .. m  PROVE octet(i) = owed(i)
  <2>1. 2 * i - 1 \in 1 .. k /\ 2 * i \in 1 .. k
    BY <1>1, <1>2
  <2> QED
    BY <1>4, <2>1
<1>7. [i \in 1 .. m |-> octet(i)] = [i \in 1 .. m |-> owed(i)]
  <2> HIDE DEF octet, owed, m
  <2> QED
    BY <1>6
<1> QED
  BY <1>5, <1>7

-----------------------------------------------------------------------------
(***************************************************************************)
(* The checksum of ARINC 622, for octets of any number: octets that differ *)
(* in just one have different checksums, and octets with their own         *)
(* checksum, inverted, behind them are found good.  Both rest on what the  *)
(* table of crc.c holds, which is computed here with a register as its     *)
(* sixteen bits.                                                           *)
(***************************************************************************)

(***************************************************************************)
(* Exclusive or.                                                           *)
(***************************************************************************)
Register == 0 .. Word - 1

LEMMA RegisterIs == /\ Word = 65536
                    /\ \A x : x \in Register <=> x \in Int /\ 0 <= x /\ x < 65536
BY DEF Word, Register

LEMMA Xor1Facts ==
    ASSUME NEW a \in 0 .. 1, NEW b \in 0 .. 1
    PROVE  /\ Xor1(a, b) \in 0 .. 1
           /\ Xor1(a, b) = IF b = 0 THEN a ELSE 1 - a
BY DEF Xor1

LEMMA Xor2Facts ==
    ASSUME NEW a \in 0 .. 3, NEW b \in 0 .. 3
    PROVE  /\ Xor2(a, b) \in 0 .. 3
           /\ Xor2(a, b) \div 2 = Xor1(a \div 2, b \div 2)
           /\ Xor2(a, b) % 2 = Xor1(a % 2, b % 2)
<1>1. /\ a \div 2 \in 0 .. 1 /\ a % 2 \in 0 .. 1
      /\ b \div 2 \in 0 .. 1 /\ b % 2 \in 0 .. 1
  OBVIOUS
<1>2. Xor1(a \div 2, b \div 2) \in 0 .. 1 /\ Xor1(a % 2, b % 2) \in 0 .. 1
  BY <1>1, Xor1Facts
<1> QED
  BY <1>2 DEF Xor2

\* What the table of four bits holds.
LEMMA Xor4Is ==
    ASSUME NEW a \in 0 .. 15, NEW b \in 0 .. 15
    PROVE  Xor4(a, b) = 4 * Xor2(a \div 4, b \div 4) + Xor2(a % 4, b % 4)
<1> DEFINE at(i) ==
             LET x == (i - 1) \div 16
                 y == (i - 1) % 16
             IN  4 * Xor2(x \div 4, y \div 4) + Xor2(x % 4, y % 4)
           table == [i \in 1 .. 256 |-> at(i)]
<1>1. ASSUME NEW i \in 1 .. 256  PROVE at(i) \in Nat
  <2> DEFINE x == (i - 1) \div 16
             y == (i - 1) % 16
  <2>1. x \in 0 .. 15 /\ y \in 0 .. 15
    OBVIOUS
  <2>2. /\ x \div 4 \in 0 .. 3 /\ y \div 4 \in 0 .. 3 /\ x % 4 \in 0 .. 3 /\ y % 4 \in 0 .. 3
    BY <2>1
  <2>3. Xor2(x \div 4, y \div 4) \in 0 .. 3 /\ Xor2(x % 4, y % 4) \in 0 .. 3
    BY <2>2, Xor2Facts
  <2> QED
    BY <2>3
<1>2. 16 * a + b + 1 \in 1 .. 256
  OBVIOUS
<1>3. (16 * a + b + 1 - 1) \div 16 = a /\ (16 * a + b + 1 - 1) % 16 = b
  OBVIOUS
<1>4. at(16 * a + b + 1) = 4 * Xor2(a \div 4, b \div 4) + Xor2(a % 4, b % 4)
  BY <1>3
<1>5. Xor4Table = table \o <<>>
  BY DEF Xor4Table, Computed
<1> HIDE DEF at
<1>6. table \in Seq(Nat)
  BY <1>1
<1>7. Xor4Table = table
  BY <1>5, <1>6
<1> QED
  BY <1>2, <1>4, <1>7 DEF Xor4

LEMMA Xor4Facts ==
    ASSUME NEW a \in 0 .. 15, NEW b \in 0 .. 15
    PROVE  /\ Xor4(a, b) \in 0 .. 15
           /\ Xor4(a, b) \div 4 = Xor2(a \div 4, b \div 4)
           /\ Xor4(a, b) % 4 = Xor2(a % 4, b % 4)
<1>1. /\ a \div 4 \in 0 .. 3 /\ a % 4 \in 0 .. 3
      /\ b \div 4 \in 0 .. 3 /\ b % 4 \in 0 .. 3
  OBVIOUS
<1>2. Xor2(a \div 4, b \div 4) \in 0 .. 3 /\ Xor2(a % 4, b % 4) \in 0 .. 3
  BY <1>1, Xor2Facts
<1>3. Xor4(a, b) = 4 * Xor2(a \div 4, b \div 4) + Xor2(a % 4, b % 4)
  BY Xor4Is
<1> QED
  BY <1>2, <1>3

\* With the bits of the first number.
LEMMA Xor4Bits ==
    ASSUME NEW a3 \in 0 .. 1, NEW a2 \in 0 .. 1, NEW a1 \in 0 .. 1, NEW a0 \in 0 .. 1,
           NEW b3 \in 0 .. 1, NEW b2 \in 0 .. 1, NEW b1 \in 0 .. 1, NEW b0 \in 0 .. 1
    PROVE  Xor4(8 * a3 + 4 * a2 + 2 * a1 + a0, 8 * b3 + 4 * b2 + 2 * b1 + b0) =
             8 * Xor1(a3, b3) + 4 * Xor1(a2, b2) + 2 * Xor1(a1, b1) + Xor1(a0, b0)
<1> DEFINE a == 8 * a3 + 4 * a2 + 2 * a1 + a0
           b == 8 * b3 + 4 * b2 + 2 * b1 + b0
<1>1. /\ a \in 0 .. 15 /\ a \div 4 = 2 * a3 + a2 /\ a % 4 = 2 * a1 + a0
      /\ b \in 0 .. 15 /\ b \div 4 = 2 * b3 + b2 /\ b % 4 = 2 * b1 + b0
  OBVIOUS
<1>2. ASSUME NEW x \in 0 .. 1, NEW y \in 0 .. 1, NEW z \in 0 .. 1, NEW w \in 0 .. 1
      PROVE  Xor2(2 * x + y, 2 * z + w) = 2 * Xor1(x, z) + Xor1(y, w)
  <2>1. /\ (2 * x + y) \div 2 = x /\ (2 * x + y) % 2 = y
        /\ (2 * z + w) \div 2 = z /\ (2 * z + w) % 2 = w
    OBVIOUS
  <2> QED
    BY <2>1 DEF Xor2
<1>3. Xor4(a, b) = 4 * Xor2(2 * a3 + a2, 2 * b3 + b2) + Xor2(2 * a1 + a0, 2 * b1 + b0)
  BY <1>1, Xor4Is
<1>4. /\ Xor2(2 * a3 + a2, 2 * b3 + b2) = 2 * Xor1(a3, b3) + Xor1(a2, b2)
      /\ Xor2(2 * a1 + a0, 2 * b1 + b0) = 2 * Xor1(a1, b1) + Xor1(a0, b0)
  BY <1>2
<1> HIDE DEF a, b
<1>5. Xor1(a3, b3) \in 0 .. 1 /\ Xor1(a2, b2) \in 0 .. 1
  BY Xor1Facts
<1> QED
  BY <1>3, <1>4, <1>5, Xor1Facts DEF a, b

\* A number of four bits has bits.
LEMMA BitsOf4 ==
    ASSUME NEW a \in 0 .. 15
    PROVE  \E a3, a2, a1, a0 \in 0 .. 1 : a = 8 * a3 + 4 * a2 + 2 * a1 + a0
<1>1. /\ a \div 8 \in 0 .. 1 /\ (a \div 4) % 2 \in 0 .. 1
      /\ (a \div 2) % 2 \in 0 .. 1 /\ a % 2 \in 0 .. 1
  OBVIOUS
<1>2. a = 8 * (a \div 8) + 4 * ((a \div 4) % 2) + 2 * ((a \div 2) % 2) + (a % 2)
  OBVIOUS
<1> QED
  BY <1>1, <1>2

\* What has the same exclusive or with a number is the same.
LEMMA Xor4Injective ==
    ASSUME NEW a \in 0 .. 15, NEW b \in 0 .. 15, NEW c \in 0 .. 15
    PROVE  /\ Xor4(a, c) = Xor4(b, c) => a = b
           /\ Xor4(c, a) = Xor4(c, b) => a = b
<1>1. PICK a3, a2, a1, a0 \in 0 .. 1 : a = 8 * a3 + 4 * a2 + 2 * a1 + a0
  BY BitsOf4
<1>2. PICK b3, b2, b1, b0 \in 0 .. 1 : b = 8 * b3 + 4 * b2 + 2 * b1 + b0
  BY BitsOf4
<1>3. PICK c3, c2, c1, c0 \in 0 .. 1 : c = 8 * c3 + 4 * c2 + 2 * c1 + c0
  BY BitsOf4
<1>4. /\ Xor4(a, c) = 8 * Xor1(a3, c3) + 4 * Xor1(a2, c2) + 2 * Xor1(a1, c1) + Xor1(a0, c0)
      /\ Xor4(c, a) = 8 * Xor1(c3, a3) + 4 * Xor1(c2, a2) + 2 * Xor1(c1, a1) + Xor1(c0, a0)
      /\ Xor4(b, c) = 8 * Xor1(b3, c3) + 4 * Xor1(b2, c2) + 2 * Xor1(b1, c1) + Xor1(b0, c0)
      /\ Xor4(c, b) = 8 * Xor1(c3, b3) + 4 * Xor1(c2, b2) + 2 * Xor1(c1, b1) + Xor1(c0, b0)
  BY <1>1, <1>2, <1>3, Xor4Bits
<1>5. ASSUME NEW x \in 0 .. 1, NEW y \in 0 .. 1, NEW z \in 0 .. 1
      PROVE  /\ Xor1(x, z) \in 0 .. 1 /\ Xor1(z, x) \in 0 .. 1
             /\ Xor1(x, z) = Xor1(y, z) => x = y
             /\ Xor1(z, x) = Xor1(z, y) => x = y
  BY DEF Xor1
<1>6. ASSUME NEW x3 \in 0 .. 1, NEW x2 \in 0 .. 1, NEW x1 \in 0 .. 1, NEW x0 \in 0 .. 1,
             NEW y3 \in 0 .. 1, NEW y2 \in 0 .. 1, NEW y1 \in 0 .. 1, NEW y0 \in 0 .. 1,
             8 * x3 + 4 * x2 + 2 * x1 + x0 = 8 * y3 + 4 * y2 + 2 * y1 + y0
      PROVE  x3 = y3 /\ x2 = y2 /\ x1 = y1 /\ x0 = y0
  BY <1>6
<1>7. ASSUME Xor4(a, c) = Xor4(b, c)  PROVE a = b
  <2>1. /\ Xor1(a3, c3) = Xor1(b3, c3) /\ Xor1(a2, c2) = Xor1(b2, c2)
        /\ Xor1(a1, c1) = Xor1(b1, c1) /\ Xor1(a0, c0) = Xor1(b0, c0)
    BY <1>4, <1>5, <1>6, <1>7
  <2> QED
    BY <1>1, <1>2, <1>5, <2>1
<1>8. ASSUME Xor4(c, a) = Xor4(c, b)  PROVE a = b
  <2>1. /\ Xor1(c3, a3) = Xor1(c3, b3) /\ Xor1(c2, a2) = Xor1(c2, b2)
        /\ Xor1(c1, a1) = Xor1(c1, b1) /\ Xor1(c0, a0) = Xor1(c0, b0)
    BY <1>4, <1>5, <1>6, <1>8
  <2> QED
    BY <1>1, <1>2, <1>5, <2>1
<1> QED
  BY <1>7, <1>8

LEMMA Xor8Facts ==
    ASSUME NEW a \in 0 .. 255, NEW b \in 0 .. 255
    PROVE  /\ Xor8(a, b) \in 0 .. 255
           /\ Xor8(a, b) \div 16 = Xor4(a \div 16, b \div 16)
           /\ Xor8(a, b) % 16 = Xor4(a % 16, b % 16)
<1>1. /\ a \div 16 \in 0 .. 15 /\ a % 16 \in 0 .. 15
      /\ b \div 16 \in 0 .. 15 /\ b % 16 \in 0 .. 15
  OBVIOUS
<1>2. Xor4(a \div 16, b \div 16) \in 0 .. 15 /\ Xor4(a % 16, b % 16) \in 0 .. 15
  BY <1>1, Xor4Facts
<1> QED
  BY <1>2 DEF Xor8

LEMMA Xor8Injective ==
    ASSUME NEW a \in 0 .. 255, NEW b \in 0 .. 255, NEW c \in 0 .. 255
    PROVE  /\ Xor8(a, c) = Xor8(b, c) => a = b
           /\ Xor8(c, a) = Xor8(c, b) => a = b
<1>1. ASSUME NEW x \in 0 .. 255
      PROVE  \E h, l \in 0 .. 15 : h = x \div 16 /\ l = x % 16 /\ x = 16 * h + l
  OBVIOUS
<1>2. PICK ah, al \in 0 .. 15 : ah = a \div 16 /\ al = a % 16 /\ a = 16 * ah + al
  BY <1>1
<1>3. PICK bh, bl \in 0 .. 15 : bh = b \div 16 /\ bl = b % 16 /\ b = 16 * bh + bl
  BY <1>1
<1>4. PICK ch, cl \in 0 .. 15 : ch = c \div 16 /\ cl = c % 16
  BY <1>1
<1>6. /\ Xor8(a, c) = 16 * Xor4(ah, ch) + Xor4(al, cl)
      /\ Xor8(b, c) = 16 * Xor4(bh, ch) + Xor4(bl, cl)
      /\ Xor8(c, a) = 16 * Xor4(ch, ah) + Xor4(cl, al)
      /\ Xor8(c, b) = 16 * Xor4(ch, bh) + Xor4(cl, bl)
  BY <1>2, <1>3, <1>4 DEF Xor8
<1>7. /\ Xor4(ah, ch) \in 0 .. 15 /\ Xor4(al, cl) \in 0 .. 15
      /\ Xor4(bh, ch) \in 0 .. 15 /\ Xor4(bl, cl) \in 0 .. 15
      /\ Xor4(ch, ah) \in 0 .. 15 /\ Xor4(cl, al) \in 0 .. 15
      /\ Xor4(ch, bh) \in 0 .. 15 /\ Xor4(cl, bl) \in 0 .. 15
  BY Xor4Facts
<1>8. ASSUME Xor8(a, c) = Xor8(b, c)  PROVE a = b
  <2>1. Xor4(ah, ch) = Xor4(bh, ch) /\ Xor4(al, cl) = Xor4(bl, cl)
    <3>1. PICK p, q \in 0 .. 15 : p = Xor4(ah, ch) /\ q = Xor4(al, cl)
      BY <1>7
    <3>2. PICK r, s \in 0 .. 15 : r = Xor4(bh, ch) /\ s = Xor4(bl, cl)
      BY <1>7
    <3>3. 16 * p + q = 16 * r + s
      BY <1>6, <1>8, <3>1, <3>2
    <3>4. p = r /\ q = s
      BY <3>3
    <3> QED
      BY <3>1, <3>2, <3>4
  <2>2. ah = bh
    BY <2>1, Xor4Injective
  <2>3. al = bl
    BY <2>1, Xor4Injective
  <2> QED
    BY <1>2, <1>3, <2>2, <2>3
<1>9. ASSUME Xor8(c, a) = Xor8(c, b)  PROVE a = b
  <2>1. Xor4(ch, ah) = Xor4(ch, bh) /\ Xor4(cl, al) = Xor4(cl, bl)
    <3>1. PICK p, q \in 0 .. 15 : p = Xor4(ch, ah) /\ q = Xor4(cl, al)
      BY <1>7
    <3>2. PICK r, s \in 0 .. 15 : r = Xor4(ch, bh) /\ s = Xor4(cl, bl)
      BY <1>7
    <3>3. 16 * p + q = 16 * r + s
      BY <1>6, <1>9, <3>1, <3>2
    <3>4. p = r /\ q = s
      BY <3>3
    <3> QED
      BY <3>1, <3>2, <3>4
  <2>2. ah = bh
    BY <2>1, Xor4Injective
  <2>3. al = bl
    BY <2>1, Xor4Injective
  <2> QED
    BY <1>2, <1>3, <2>2, <2>3
<1> QED
  BY <1>8, <1>9

LEMMA Xor16Facts ==
    ASSUME NEW a \in Register, NEW b \in Register
    PROVE  /\ Xor16(a, b) \in Register
           /\ Xor16(a, b) \div 256 = Xor8(a \div 256, b \div 256)
           /\ Xor16(a, b) % 256 = Xor8(a % 256, b % 256)
<1>1. /\ a \div 256 \in 0 .. 255 /\ a % 256 \in 0 .. 255
      /\ b \div 256 \in 0 .. 255 /\ b % 256 \in 0 .. 255
  BY DEF Register, Word
<1>2. ASSUME NEW x \in 0 .. 255, NEW y \in 0 .. 255  PROVE Xor8(x, y) \in 0 .. 255
  BY Xor8Facts
<1>3. PICK u \in 0 .. 255 : u = Xor8(a \div 256, b \div 256)
  BY <1>1, <1>2, ZenonT(60)
<1>4. PICK v \in 0 .. 255 : v = Xor8(a % 256, b % 256)
  BY <1>1, <1>2, ZenonT(60)
<1>5. 256 * u + v \in Register /\ (256 * u + v) \div 256 = u /\ (256 * u + v) % 256 = v
  BY DEF Register, Word
<1>6. Xor16(a, b) = 256 * u + v
  BY <1>3, <1>4 DEF Xor16
<1> QED
  BY <1>3, <1>4, <1>5, <1>6

LEMMA Xor4Zero ==
    ASSUME NEW a \in 0 .. 15
    PROVE  Xor4(a, 0) = a /\ Xor4(0, a) = a
<1>1. PICK a3, a2, a1, a0 \in 0 .. 1 : a = 8 * a3 + 4 * a2 + 2 * a1 + a0
  BY BitsOf4
<1>2. /\ Xor4(a, 8 * 0 + 4 * 0 + 2 * 0 + 0) =
             8 * Xor1(a3, 0) + 4 * Xor1(a2, 0) + 2 * Xor1(a1, 0) + Xor1(a0, 0)
      /\ Xor4(8 * 0 + 4 * 0 + 2 * 0 + 0, a) =
             8 * Xor1(0, a3) + 4 * Xor1(0, a2) + 2 * Xor1(0, a1) + Xor1(0, a0)
  BY <1>1, Xor4Bits
<1>3. 8 * 0 + 4 * 0 + 2 * 0 + 0 = 0
  OBVIOUS
<1>4. ASSUME NEW x \in 0 .. 1  PROVE Xor1(x, 0) = x /\ Xor1(0, x) = x
  BY DEF Xor1
<1> QED
  BY <1>1, <1>2, <1>3, <1>4

LEMMA Xor8Zero ==
    ASSUME NEW a \in 0 .. 255
    PROVE  Xor8(0, a) = a
<1>1. a \div 16 \in 0 .. 15 /\ a % 16 \in 0 .. 15 /\ a = 16 * (a \div 16) + (a % 16)
  OBVIOUS
<1>2. 0 \div 16 = 0 /\ 0 % 16 = 0
  OBVIOUS
<1> QED
  BY <1>1, <1>2, Xor4Zero DEF Xor8

-----------------------------------------------------------------------------
(***************************************************************************)
(* A register as its bits, and what a shift makes of them.                 *)
(***************************************************************************)
Bits16 == [0 .. 15 -> 0 .. 1]

NumberOf(r) ==
    256 * (16 * (8 * r[15] + 4 * r[14] + 2 * r[13] + r[12])
             + (8 * r[11] + 4 * r[10] + 2 * r[9] + r[8]))
      + (16 * (8 * r[7] + 4 * r[6] + 2 * r[5] + r[4])
           + (8 * r[3] + 4 * r[2] + 2 * r[1] + r[0]))

Flipped(bit, by) == IF by = 1 THEN 1 - bit ELSE bit

\* The polynomial has bits 12, 5 and 0.
Moved(r) ==
    [k \in 0 .. 15 |->
        IF k = 0 THEN r[15]
        ELSE IF k \in {5, 12} THEN Flipped(r[k - 1], r[15])
        ELSE r[k - 1]]

LEMMA MovedIs ==
    ASSUME NEW r \in Bits16
    PROVE  /\ Moved(r) \in Bits16
           /\ Moved(r)[0] = r[15] /\ Moved(r)[1] = r[0] /\ Moved(r)[2] = r[1]
           /\ Moved(r)[3] = r[2] /\ Moved(r)[4] = r[3] /\ Moved(r)[5] = Flipped(r[4], r[15])
           /\ Moved(r)[6] = r[5] /\ Moved(r)[7] = r[6] /\ Moved(r)[8] = r[7]
           /\ Moved(r)[9] = r[8] /\ Moved(r)[10] = r[9] /\ Moved(r)[11] = r[10]
           /\ Moved(r)[12] = Flipped(r[11], r[15]) /\ Moved(r)[13] = r[12]
           /\ Moved(r)[14] = r[13] /\ Moved(r)[15] = r[14]
<1>1. \A k \in 0 .. 15 : r[k] \in 0 .. 1
  BY DEF Bits16
<1>2. Moved(r) \in Bits16
  BY <1>1 DEF Moved, Bits16, Flipped
<1> QED
  BY <1>2 DEF Moved

LEMMA BitsOfRow ==
    ASSUME NEW r \in Bits16
    PROVE  /\ \A k \in 0 .. 15 : r[k] \in 0 .. 1
           /\ r[0] \in 0 .. 1 /\ r[1] \in 0 .. 1 /\ r[2] \in 0 .. 1 /\ r[3] \in 0 .. 1
           /\ r[4] \in 0 .. 1 /\ r[5] \in 0 .. 1 /\ r[6] \in 0 .. 1 /\ r[7] \in 0 .. 1
           /\ r[8] \in 0 .. 1 /\ r[9] \in 0 .. 1 /\ r[10] \in 0 .. 1 /\ r[11] \in 0 .. 1
           /\ r[12] \in 0 .. 1 /\ r[13] \in 0 .. 1 /\ r[14] \in 0 .. 1 /\ r[15] \in 0 .. 1
<1>1. \A k \in 0 .. 15 : r[k] \in 0 .. 1
  BY DEF Bits16
<1> QED
  BY <1>1

\* A row of bits is the number's only one.
LEMMA NumberOfFacts ==
    ASSUME NEW r \in Bits16
    PROVE  /\ NumberOf(r) \in Register
           /\ \A k \in 0 .. 15 : r[k] \in 0 .. 1
           /\ NumberOf(r) % 256 = 16 * (8 * r[7] + 4 * r[6] + 2 * r[5] + r[4])
                                    + (8 * r[3] + 4 * r[2] + 2 * r[1] + r[0])
           /\ NumberOf(r) \div 256 = 16 * (8 * r[15] + 4 * r[14] + 2 * r[13] + r[12])
                                       + (8 * r[11] + 4 * r[10] + 2 * r[9] + r[8])
<1>1. \A k \in 0 .. 15 : r[k] \in 0 .. 1
  BY DEF Bits16
<1>2. PICK u \in Int : u = 16 * (8 * r[15] + 4 * r[14] + 2 * r[13] + r[12])
                             + (8 * r[11] + 4 * r[10] + 2 * r[9] + r[8])
  BY <1>1
<1>3. PICK v \in Int : v = 16 * (8 * r[7] + 4 * r[6] + 2 * r[5] + r[4])
                             + (8 * r[3] + 4 * r[2] + 2 * r[1] + r[0])
  BY <1>1
<1>4. u \in 0 .. 255 /\ v \in 0 .. 255
  <2>1. u \in 0 .. 255
    BY <1>2, BitsOfRow
  <2>2. v \in 0 .. 255
    BY <1>3, BitsOfRow
  <2> QED
    BY <2>1, <2>2
<1>5. NumberOf(r) = 256 * u + v
  BY <1>2, <1>3 DEF NumberOf
<1>6. 256 * u + v \in Register /\ (256 * u + v) \div 256 = u /\ (256 * u + v) % 256 = v
  BY <1>4 DEF Register, Word
<1> QED
  BY <1>1, <1>2, <1>3, <1>5, <1>6

LEMMA Xor4Constant ==
    ASSUME NEW a3 \in 0 .. 1, NEW a2 \in 0 .. 1, NEW a1 \in 0 .. 1, NEW a0 \in 0 .. 1
    PROVE  LET a == 8 * a3 + 4 * a2 + 2 * a1 + a0
           IN  /\ Xor4(a, 1) = 8 * a3 + 4 * a2 + 2 * a1 + (1 - a0)
               /\ Xor4(a, 2) = 8 * a3 + 4 * a2 + 2 * (1 - a1) + a0
<1> DEFINE a == 8 * a3 + 4 * a2 + 2 * a1 + a0
<1>1. ASSUME NEW x \in 0 .. 1  PROVE Xor1(x, 0) = x /\ Xor1(x, 1) = 1 - x
  BY DEF Xor1
<1>2. /\ Xor4(a, 8 * 0 + 4 * 0 + 2 * 0 + 1) =
             8 * Xor1(a3, 0) + 4 * Xor1(a2, 0) + 2 * Xor1(a1, 0) + Xor1(a0, 1)
      /\ Xor4(a, 8 * 0 + 4 * 0 + 2 * 1 + 0) =
             8 * Xor1(a3, 0) + 4 * Xor1(a2, 0) + 2 * Xor1(a1, 1) + Xor1(a0, 0)
  BY Xor4Bits
<1>3. 8 * 0 + 4 * 0 + 2 * 0 + 1 = 1 /\ 8 * 0 + 4 * 0 + 2 * 1 + 0 = 2
  OBVIOUS
<1> QED
  BY <1>1, <1>2, <1>3

\* A shift that loses a bit applies the polynomial to the rest.
LEMMA PolynomialApplied ==
    ASSUME NEW r \in Bits16
    PROVE  Xor16(NumberOf(r), 4129) =
             256 * (16 * (8 * r[15] + 4 * r[14] + 2 * r[13] + (1 - r[12]))
                      + (8 * r[11] + 4 * r[10] + 2 * r[9] + r[8]))
               + (16 * (8 * r[7] + 4 * r[6] + 2 * (1 - r[5]) + r[4])
                    + (8 * r[3] + 4 * r[2] + 2 * r[1] + (1 - r[0])))
<1> DEFINE n3 == 8 * r[15] + 4 * r[14] + 2 * r[13] + r[12]
           n2 == 8 * r[11] + 4 * r[10] + 2 * r[9] + r[8]
           n1 == 8 * r[7] + 4 * r[6] + 2 * r[5] + r[4]
           n0 == 8 * r[3] + 4 * r[2] + 2 * r[1] + r[0]
<1>1. /\ NumberOf(r) \div 256 = 16 * n3 + n2 /\ NumberOf(r) % 256 = 16 * n1 + n0
      /\ \A k \in 0 .. 15 : r[k] \in 0 .. 1
  BY NumberOfFacts
<1>2. /\ 4129 \div 256 = 16 /\ 4129 % 256 = 33 /\ 16 \div 16 = 1 /\ 16 % 16 = 0
      /\ 33 \div 16 = 2 /\ 33 % 16 = 1
  OBVIOUS
<1>3. /\ Xor4(n3, 1) = 8 * r[15] + 4 * r[14] + 2 * r[13] + (1 - r[12])
      /\ Xor4(n1, 2) = 8 * r[7] + 4 * r[6] + 2 * (1 - r[5]) + r[4]
      /\ Xor4(n0, 1) = 8 * r[3] + 4 * r[2] + 2 * r[1] + (1 - r[0])
  BY <1>1, Xor4Constant
<1>4. n3 \in 0 .. 15 /\ n2 \in 0 .. 15 /\ n1 \in 0 .. 15 /\ n0 \in 0 .. 15
  BY <1>1
<1>5. Xor4(n2, 0) = n2
  BY <1>4, Xor4Zero
<1> HIDE DEF n3, n2, n1, n0
<1>6. /\ (16 * n3 + n2) \div 16 = n3 /\ (16 * n3 + n2) % 16 = n2
      /\ (16 * n1 + n0) \div 16 = n1 /\ (16 * n1 + n0) % 16 = n0
  BY <1>4
<1>7. Xor8(16 * n3 + n2, 16) = 16 * Xor4(n3, 1) + Xor4(n2, 0)
  BY <1>2, <1>6 DEF Xor8
<1>8. Xor8(16 * n1 + n0, 33) = 16 * Xor4(n1, 2) + Xor4(n0, 1)
  BY <1>2, <1>6 DEF Xor8
<1>9. Xor16(NumberOf(r), 4129) = 256 * Xor8(16 * n3 + n2, 16) + Xor8(16 * n1 + n0, 33)
  BY <1>1, <1>2 DEF Xor16
<1>10. Xor16(NumberOf(r), 4129) = 256 * (16 * Xor4(n3, 1) + n2) + (16 * Xor4(n1, 2) + Xor4(n0, 1))
  BY <1>5, <1>7, <1>8, <1>9
<1> QED
  BY <1>3, <1>10 DEF n2

LEMMA ShiftMoves ==
    ASSUME NEW r \in Bits16
    PROVE  Shift16(NumberOf(r)) = NumberOf(Moved(r))
<1>1. \A k \in 0 .. 15 : r[k] \in 0 .. 1
  BY NumberOfFacts
<1>2. 2 * NumberOf(r) = 65536 * r[15]
                          + (256 * (16 * (8 * r[14] + 4 * r[13] + 2 * r[12] + r[11])
                                      + (8 * r[10] + 4 * r[9] + 2 * r[8] + r[7]))
                               + (16 * (8 * r[6] + 4 * r[5] + 2 * r[4] + r[3])
                                    + (8 * r[2] + 4 * r[1] + 2 * r[0])))
  <2>1. PICK n3 \in Int : n3 = 4 * r[14] + 2 * r[13] + r[12]
    BY BitsOfRow
  <2>2. PICK n2 \in Int : n2 = 4 * r[10] + 2 * r[9] + r[8]
    BY BitsOfRow
  <2>3. PICK n1 \in Int : n1 = 4 * r[6] + 2 * r[5] + r[4]
    BY BitsOfRow
  <2>4. PICK n0 \in Int : n0 = 8 * r[3] + 4 * r[2] + 2 * r[1] + r[0]
    BY BitsOfRow
  <2>5. /\ 8 * r[15] + 4 * r[14] + 2 * r[13] + r[12] = 8 * r[15] + n3
        /\ 8 * r[11] + 4 * r[10] + 2 * r[9] + r[8] = 8 * r[11] + n2
        /\ 8 * r[7] + 4 * r[6] + 2 * r[5] + r[4] = 8 * r[7] + n1
    BY <2>1, <2>2, <2>3, BitsOfRow
  <2>6. NumberOf(r) = 256 * (16 * (8 * r[15] + n3) + (8 * r[11] + n2))
                        + (16 * (8 * r[7] + n1) + n0)
    BY <2>4, <2>5 DEF NumberOf
  <2>7. /\ 8 * r[14] + 4 * r[13] + 2 * r[12] + r[11] = 2 * n3 + r[11]
        /\ 8 * r[10] + 4 * r[9] + 2 * r[8] + r[7] = 2 * n2 + r[7]
        /\ 8 * r[6] + 4 * r[5] + 2 * r[4] + r[3] = 2 * n1 + r[3]
        /\ 8 * r[2] + 4 * r[1] + 2 * r[0] = 2 * n0 - 16 * r[3]
    <3>1. 8 * r[14] + 4 * r[13] + 2 * r[12] + r[11] = 2 * n3 + r[11]
      BY <2>1, BitsOfRow
    <3>2. 8 * r[10] + 4 * r[9] + 2 * r[8] + r[7] = 2 * n2 + r[7]
      BY <2>2, BitsOfRow
    <3>3. 8 * r[6] + 4 * r[5] + 2 * r[4] + r[3] = 2 * n1 + r[3]
      BY <2>3, BitsOfRow
    <3>4. 8 * r[2] + 4 * r[1] + 2 * r[0] = 2 * n0 - 16 * r[3]
      <4>1. PICK c3, c2, c1, c0 \in Int : c3 = r[3] /\ c2 = r[2] /\ c1 = r[1] /\ c0 = r[0]
        BY BitsOfRow
      <4>2. 8 * c2 + 4 * c1 + 2 * c0 = 2 * (8 * c3 + 4 * c2 + 2 * c1 + c0) - 16 * c3
        OBVIOUS
      <4> QED
        BY <2>4, <4>1, <4>2
    <3> QED
      BY <3>1, <3>2, <3>3, <3>4
  <2>8. PICK b15, b11, b7, b3 \in Int : b15 = r[15] /\ b11 = r[11] /\ b7 = r[7] /\ b3 = r[3]
    BY BitsOfRow
  <2>9. 2 * (256 * (16 * (8 * b15 + n3) + (8 * b11 + n2)) + (16 * (8 * b7 + n1) + n0)) =
          65536 * b15 + (256 * (16 * (2 * n3 + b11) + (2 * n2 + b7))
                           + (16 * (2 * n1 + b3) + (2 * n0 - 16 * b3)))
    OBVIOUS
  <2> QED
    BY <2>6, <2>7, <2>8, <2>9
<1> DEFINE s == [k \in 0 .. 15 |-> IF k = 0 THEN 0 ELSE r[k - 1]]
<1>3. /\ s \in Bits16
      /\ s[0] = 0 /\ s[1] = r[0] /\ s[2] = r[1] /\ s[3] = r[2]
      /\ s[4] = r[3] /\ s[5] = r[4] /\ s[6] = r[5] /\ s[7] = r[6]
      /\ s[8] = r[7] /\ s[9] = r[8] /\ s[10] = r[9] /\ s[11] = r[10]
      /\ s[12] = r[11] /\ s[13] = r[12] /\ s[14] = r[13] /\ s[15] = r[14]
  BY <1>1 DEF Bits16
<1> HIDE DEF s
<1>4. 2 * NumberOf(r) = 65536 * r[15] + NumberOf(s)
  <2>1. NumberOf(s) = 256 * (16 * (8 * r[14] + 4 * r[13] + 2 * r[12] + r[11])
                               + (8 * r[10] + 4 * r[9] + 2 * r[8] + r[7]))
                        + (16 * (8 * r[6] + 4 * r[5] + 2 * r[4] + r[3])
                             + (8 * r[2] + 4 * r[1] + 2 * r[0]))
    BY <1>3, BitsOfRow DEF NumberOf
  <2> QED
    BY <1>2, <2>1
<1>5. /\ NumberOf(s) \in Int /\ 0 <= NumberOf(s) /\ NumberOf(s) < Word
      /\ NumberOf(r) \in Int /\ Word = 65536
  <2>1. NumberOf(s) \in Register
    BY <1>3, NumberOfFacts
  <2>2. NumberOf(r) \in Register
    BY NumberOfFacts
  <2> QED
    BY <2>1, <2>2, RegisterIs
<1>6. CASE r[15] = 0
  <2>1. 2 * NumberOf(r) = NumberOf(s) /\ ~(2 * NumberOf(r) >= Word)
    <3>1. 65536 * r[15] = 0
      BY <1>6
    <3> QED
      BY <1>4, <1>5, <3>1
  <2>2. \A k \in 0 .. 15 : Moved(r)[k] = s[k]
    BY <1>6 DEF Moved, s, Flipped
  <2>3. NumberOf(Moved(r)) = NumberOf(s)
    BY <2>2 DEF NumberOf
  <2> QED
    BY <2>1, <2>3 DEF Shift16
<1>7. CASE r[15] = 1
  <2>1. 2 * NumberOf(r) >= Word /\ 2 * NumberOf(r) - Word = NumberOf(s)
    <3>1. 65536 * r[15] = 65536
      BY <1>7
    <3> QED
      BY <1>4, <1>5, <3>1
  <2>2. Shift16(NumberOf(r)) = Xor16(NumberOf(s), 4129)
    BY <2>1 DEF Shift16
  <2>3. Xor16(NumberOf(s), 4129) =
             256 * (16 * (8 * s[15] + 4 * s[14] + 2 * s[13] + (1 - s[12]))
                      + (8 * s[11] + 4 * s[10] + 2 * s[9] + s[8]))
               + (16 * (8 * s[7] + 4 * s[6] + 2 * (1 - s[5]) + s[4])
                    + (8 * s[3] + 4 * s[2] + 2 * s[1] + (1 - s[0])))
    BY <1>3, PolynomialApplied
  <2>4. \A k \in 0 .. 15 : Moved(r)[k] = IF k \in {0, 5, 12} THEN 1 - s[k] ELSE s[k]
    BY <1>3, <1>7 DEF Moved, s, Flipped
  <2>5. NumberOf(Moved(r)) =
             256 * (16 * (8 * s[15] + 4 * s[14] + 2 * s[13] + (1 - s[12]))
                      + (8 * s[11] + 4 * s[10] + 2 * s[9] + s[8]))
               + (16 * (8 * s[7] + 4 * s[6] + 2 * (1 - s[5]) + s[4])
                    + (8 * s[3] + 4 * s[2] + 2 * s[1] + (1 - s[0])))
    BY <2>4 DEF NumberOf
  <2> QED
    BY <2>2, <2>3, <2>5
<1> QED
  BY <1>1, <1>6, <1>7

-----------------------------------------------------------------------------
(***************************************************************************)
(* The table: what eight shifts make of an octet at the upper end.         *)
(***************************************************************************)

\* Eight bits come out of a register with an octet at its upper end, the fifth to
\* the eighth changed by the first to the fourth; they are left at the lower end.
ShiftedOut(r, t) ==
    /\ t[0] = Flipped(r[8], r[12])
    /\ t[1] = Flipped(r[9], r[13])
    /\ t[2] = Flipped(r[10], r[14])
    /\ t[3] = Flipped(r[11], r[15])
    /\ t[4] = r[12]
    /\ t[5] = Flipped(r[13], t[0])
    /\ t[6] = Flipped(r[14], t[1])
    /\ t[7] = Flipped(r[15], t[2])
    /\ t[8] = Flipped(0, t[3])
    /\ t[9] = Flipped(0, t[4])
    /\ t[10] = Flipped(0, r[13])
    /\ t[11] = Flipped(0, r[14])
    /\ t[12] = Flipped(Flipped(0, r[15]), t[0])
    /\ t[13] = Flipped(0, t[1])
    /\ t[14] = Flipped(0, t[2])
    /\ t[15] = Flipped(0, t[3])

LEMMA EightMoves ==
    ASSUME NEW r \in Bits16, \A k \in 0 .. 7 : r[k] = 0
    PROVE  \E t \in Bits16 :
              EightShifts(Shift16, NumberOf(r)) = NumberOf(t) /\ ShiftedOut(r, t)
<1>1. PICK s1 \in Bits16 : s1 = Moved(r)
  BY MovedIs
<1>2. PICK s2 \in Bits16 : s2 = Moved(s1)
  BY MovedIs
<1>3. PICK s3 \in Bits16 : s3 = Moved(s2)
  BY MovedIs
<1>4. PICK s4 \in Bits16 : s4 = Moved(s3)
  BY MovedIs
<1>5. PICK s5 \in Bits16 : s5 = Moved(s4)
  BY MovedIs
<1>6. PICK s6 \in Bits16 : s6 = Moved(s5)
  BY MovedIs
<1>7. PICK s7 \in Bits16 : s7 = Moved(s6)
  BY MovedIs
<1>8. PICK s8 \in Bits16 : s8 = Moved(s7)
  BY MovedIs
<1>9. EightShifts(Shift16, NumberOf(r)) = NumberOf(s8)
  <2>1. /\ Shift16(NumberOf(r)) = NumberOf(s1) /\ Shift16(NumberOf(s1)) = NumberOf(s2)
        /\ Shift16(NumberOf(s2)) = NumberOf(s3) /\ Shift16(NumberOf(s3)) = NumberOf(s4)
        /\ Shift16(NumberOf(s4)) = NumberOf(s5) /\ Shift16(NumberOf(s5)) = NumberOf(s6)
        /\ Shift16(NumberOf(s6)) = NumberOf(s7) /\ Shift16(NumberOf(s7)) = NumberOf(s8)
    BY <1>1, <1>2, <1>3, <1>4, <1>5, <1>6, <1>7, <1>8, ShiftMoves
  <2> QED
    BY <2>1 DEF EightShifts
<1>10. /\ s4[15] = Flipped(r[11], r[15]) /\ s4[14] = Flipped(r[10], r[14])
       /\ s4[13] = Flipped(r[9], r[13]) /\ s4[12] = Flipped(r[8], r[12])
       /\ s4[11] = 0 /\ s4[10] = 0 /\ s4[9] = 0
       /\ s4[8] = Flipped(0, r[15]) /\ s4[7] = Flipped(0, r[14])
       /\ s4[6] = Flipped(0, r[13]) /\ s4[5] = Flipped(0, r[12])
       /\ s4[4] = 0
       /\ s4[3] = r[15] /\ s4[2] = r[14] /\ s4[1] = r[13] /\ s4[0] = r[12]
  BY <1>1, <1>2, <1>3, <1>4, MovedIs
<1>11. /\ s8[0] = s4[12] /\ s8[1] = s4[13] /\ s8[2] = s4[14] /\ s8[3] = s4[15]
       /\ s8[4] = s4[0] /\ s8[5] = Flipped(s4[1], s4[12]) /\ s8[6] = Flipped(s4[2], s4[13])
       /\ s8[7] = Flipped(s4[3], s4[14]) /\ s8[8] = Flipped(s4[4], s4[15])
       /\ s8[9] = s4[5] /\ s8[10] = s4[6] /\ s8[11] = s4[7]
       /\ s8[12] = Flipped(s4[8], s4[12]) /\ s8[13] = Flipped(s4[9], s4[13])
       /\ s8[14] = Flipped(s4[10], s4[14]) /\ s8[15] = Flipped(s4[11], s4[15])
  BY <1>5, <1>6, <1>7, <1>8, MovedIs
<1> QED
  BY <1>9, <1>10, <1>11 DEF ShiftedOut

\* An octet at the upper end, as bits.
LEMMA BitsOfOctet ==
    ASSUME NEW i \in 0 .. 255
    PROVE  \E r \in Bits16 : NumberOf(r) = 256 * i /\ \A k \in 0 .. 7 : r[k] = 0
<1>1. i \div 16 \in 0 .. 15 /\ i % 16 \in 0 .. 15 /\ i = 16 * (i \div 16) + (i % 16)
  OBVIOUS
<1>2. PICK a3, a2, a1, a0 \in 0 .. 1 : i \div 16 = 8 * a3 + 4 * a2 + 2 * a1 + a0
  BY <1>1, BitsOf4
<1>3. PICK b3, b2, b1, b0 \in 0 .. 1 : i % 16 = 8 * b3 + 4 * b2 + 2 * b1 + b0
  BY <1>1, BitsOf4
<1> DEFINE r == [k \in 0 .. 15 |->
                    CASE k = 15 -> a3 [] k = 14 -> a2 [] k = 13 -> a1 [] k = 12 -> a0
                      [] k = 11 -> b3 [] k = 10 -> b2 [] k = 9 -> b1 [] k = 8 -> b0
                      [] OTHER -> 0]
<1>4. /\ r \in Bits16
      /\ r[15] = a3 /\ r[14] = a2 /\ r[13] = a1 /\ r[12] = a0
      /\ r[11] = b3 /\ r[10] = b2 /\ r[9] = b1 /\ r[8] = b0
      /\ \A k \in 0 .. 7 : r[k] = 0
  BY DEF Bits16
<1> HIDE DEF r
<1>5. /\ 16 * (8 * r[15] + 4 * r[14] + 2 * r[13] + r[12])
           + (8 * r[11] + 4 * r[10] + 2 * r[9] + r[8]) = 16 * (i \div 16) + (i % 16)
      /\ 16 * (8 * r[7] + 4 * r[6] + 2 * r[5] + r[4])
           + (8 * r[3] + 4 * r[2] + 2 * r[1] + r[0]) = 0
  BY <1>2, <1>3, <1>4
<1>6. NumberOf(r) = 256 * i
  BY <1>1, <1>5 DEF NumberOf
<1> QED
  BY <1>4, <1>6

\* The entry of an octet.
LEMMA TableIs ==
    ASSUME NEW i \in 0 .. 255
    PROVE  /\ CrcTable16[i + 1] = EightShifts(Shift16, 256 * i)
           /\ CrcTable16[i + 1] \in Register
<1> DEFINE entry(n) == EightShifts(Shift16, 256 * (n - 1))
           table    == [n \in 1 .. 256 |-> entry(n)]
<1>1. ASSUME NEW n \in 1 .. 256  PROVE entry(n) \in Register
  <2>1. n - 1 \in 0 .. 255
    OBVIOUS
  <2>2. PICK r \in Bits16 : NumberOf(r) = 256 * (n - 1) /\ \A k \in 0 .. 7 : r[k] = 0
    BY <2>1, BitsOfOctet
  <2>3. PICK t \in Bits16 : EightShifts(Shift16, NumberOf(r)) = NumberOf(t)
    BY <2>2, EightMoves
  <2> QED
    BY <2>2, <2>3, NumberOfFacts
<1>2. CrcTable16 = table \o <<>>
  BY DEF CrcTable16, Computed
<1> HIDE DEF entry
<1>3. table \in Seq(Register)
  BY <1>1
<1>4. CrcTable16 = table
  BY <1>2, <1>3
<1>5. i + 1 \in 1 .. 256 /\ i + 1 - 1 = i
  OBVIOUS
<1>6. CrcTable16[i + 1] = entry(i + 1) /\ entry(i + 1) \in Register
  BY <1>1, <1>4, <1>5
<1>7. entry(i + 1) = EightShifts(Shift16, 256 * i)
  BY <1>5 DEF entry
<1> QED
  BY <1>6, <1>7

LEMMA TableBits ==
    ASSUME NEW i \in 0 .. 255
    PROVE  \E r, t \in Bits16 :
              /\ NumberOf(r) = 256 * i /\ \A k \in 0 .. 7 : r[k] = 0
              /\ CrcTable16[i + 1] = NumberOf(t)
              /\ ShiftedOut(r, t)
<1>1. PICK r \in Bits16 : NumberOf(r) = 256 * i /\ \A k \in 0 .. 7 : r[k] = 0
  BY BitsOfOctet
<1>2. PICK t \in Bits16 : EightShifts(Shift16, NumberOf(r)) = NumberOf(t) /\ ShiftedOut(r, t)
  BY <1>1, EightMoves
<1> QED
  BY <1>1, <1>2, TableIs

\* The lower octet of an entry tells whose entry it is.
LEMMA LowerOctetTells ==
    ASSUME NEW i \in 0 .. 255, NEW j \in 0 .. 255,
           CrcTable16[i + 1] % 256 = CrcTable16[j + 1] % 256
    PROVE  i = j
<1>1. PICK r, t \in Bits16 :
          /\ NumberOf(r) = 256 * i /\ \A k \in 0 .. 7 : r[k] = 0
          /\ CrcTable16[i + 1] = NumberOf(t)
          /\ ShiftedOut(r, t)
  BY TableBits
<1>2. PICK q, u \in Bits16 :
          /\ NumberOf(q) = 256 * j /\ \A k \in 0 .. 7 : q[k] = 0
          /\ CrcTable16[j + 1] = NumberOf(u)
          /\ ShiftedOut(q, u)
  BY TableBits
<1>3. /\ t[0] = u[0] /\ t[1] = u[1] /\ t[2] = u[2] /\ t[3] = u[3]
      /\ t[4] = u[4] /\ t[5] = u[5] /\ t[6] = u[6] /\ t[7] = u[7]
  <2>1. 16 * (8 * t[7] + 4 * t[6] + 2 * t[5] + t[4]) + (8 * t[3] + 4 * t[2] + 2 * t[1] + t[0])
          = 16 * (8 * u[7] + 4 * u[6] + 2 * u[5] + u[4]) + (8 * u[3] + 4 * u[2] + 2 * u[1] + u[0])
    BY <1>1, <1>2, NumberOfFacts
  <2>2. PICK a1, a0 \in 0 .. 15 : /\ a1 = 8 * t[7] + 4 * t[6] + 2 * t[5] + t[4]
                                  /\ a0 = 8 * t[3] + 4 * t[2] + 2 * t[1] + t[0]
    BY BitsOfRow
  <2>3. PICK b1, b0 \in 0 .. 15 : /\ b1 = 8 * u[7] + 4 * u[6] + 2 * u[5] + u[4]
                                  /\ b0 = 8 * u[3] + 4 * u[2] + 2 * u[1] + u[0]
    BY BitsOfRow
  <2>4. a1 = b1 /\ a0 = b0
    <3>1. 16 * a1 + a0 = 16 * b1 + b0
      BY <2>1, <2>2, <2>3
    <3> QED
      BY <3>1
  <2>5. t[7] = u[7] /\ t[6] = u[6] /\ t[5] = u[5] /\ t[4] = u[4]
    BY <2>2, <2>3, <2>4, BitsOfRow
  <2>6. t[3] = u[3] /\ t[2] = u[2] /\ t[1] = u[1] /\ t[0] = u[0]
    BY <2>2, <2>3, <2>4, BitsOfRow
  <2> QED
    BY <2>5, <2>6
<1>4. r[12] = q[12] /\ r[13] = q[13] /\ r[14] = q[14] /\ r[15] = q[15]
  BY <1>1, <1>2, <1>3, BitsOfRow DEF ShiftedOut, Flipped
<1>5. r[8] = q[8] /\ r[9] = q[9] /\ r[10] = q[10] /\ r[11] = q[11]
  BY <1>1, <1>2, <1>3, <1>4, BitsOfRow DEF ShiftedOut, Flipped
<1>6. NumberOf(r) \div 256 = NumberOf(q) \div 256
  BY <1>4, <1>5, NumberOfFacts
<1>7. (256 * i) \div 256 = i /\ (256 * j) \div 256 = j
  OBVIOUS
<1> QED
  BY <1>1, <1>2, <1>6, <1>7

\* The two entries that the checksum itself needs.
LEMMA TwoEntries == CrcTable16[256] = 7920 /\ CrcTable16[226] = 60687
<1>1. CrcTable16[256] = 7920
  <2> DEFINE r == [k \in 0 .. 15 |-> IF k < 8 THEN 0 ELSE 1]
  <2>1. /\ r \in Bits16 /\ \A k \in 0 .. 7 : r[k] = 0
        /\ r[8] = 1 /\ r[9] = 1 /\ r[10] = 1 /\ r[11] = 1
        /\ r[12] = 1 /\ r[13] = 1 /\ r[14] = 1 /\ r[15] = 1
    BY DEF Bits16
  <2> HIDE DEF r
  <2>2. NumberOf(r) = 256 * 255
    BY <2>1 DEF NumberOf
  <2>3. PICK t \in Bits16 : EightShifts(Shift16, NumberOf(r)) = NumberOf(t) /\ ShiftedOut(r, t)
    BY <2>1, EightMoves
  <2>4. NumberOf(t) = 7920
    BY <2>1, <2>3 DEF ShiftedOut, Flipped, NumberOf
  <2>5. 255 \in 0 .. 255 /\ 255 + 1 = 256
    OBVIOUS
  <2> QED
    BY <2>2, <2>3, <2>4, <2>5, TableIs
<1>2. CrcTable16[226] = 60687
  <2> DEFINE r == [k \in 0 .. 15 |-> IF k \in {8, 13, 14, 15} THEN 1 ELSE 0]
  <2>1. /\ r \in Bits16 /\ \A k \in 0 .. 7 : r[k] = 0
        /\ r[8] = 1 /\ r[9] = 0 /\ r[10] = 0 /\ r[11] = 0
        /\ r[12] = 0 /\ r[13] = 1 /\ r[14] = 1 /\ r[15] = 1
    BY DEF Bits16
  <2> HIDE DEF r
  <2>2. NumberOf(r) = 256 * 225
    BY <2>1 DEF NumberOf
  <2>3. PICK t \in Bits16 : EightShifts(Shift16, NumberOf(r)) = NumberOf(t) /\ ShiftedOut(r, t)
    BY <2>1, EightMoves
  <2>4. NumberOf(t) = 60687
    BY <2>1, <2>3 DEF ShiftedOut, Flipped, NumberOf
  <2>5. 225 \in 0 .. 255 /\ 225 + 1 = 226
    OBVIOUS
  <2> QED
    BY <2>2, <2>3, <2>4, <2>5, TableIs
<1> QED
  BY <1>1, <1>2

-----------------------------------------------------------------------------
(***************************************************************************)
(* One octet: the loop of la_crc16_arinc.                                  *)
(***************************************************************************)
Octet == 0 .. 255

LEMMA OctetXor ==
    ASSUME NEW a \in Octet, NEW b \in Octet, NEW c \in Octet
    PROVE  /\ Xor8(a, b) \in Octet
           /\ Xor8(a, c) = Xor8(b, c) => a = b
           /\ Xor8(c, a) = Xor8(c, b) => a = b
<1>1. a \in 0 .. 255 /\ b \in 0 .. 255 /\ c \in 0 .. 255
  BY DEF Octet
<1>2. Xor8(a, b) \in 0 .. 255
  BY <1>1, Xor8Facts
<1>3. Xor8(a, c) = Xor8(b, c) => a = b
  BY <1>1, Xor8Injective, ZenonT(60)
<1>4. Xor8(c, a) = Xor8(c, b) => a = b
  BY <1>1, Xor8Injective, ZenonT(60)
<1> QED
  BY <1>2, <1>3, <1>4 DEF Octet

\* A register by its two octets.
Joint(h, l) == 256 * h + l

LEMMA Halves ==
    ASSUME NEW x \in Register
    PROVE  \E h, l \in Octet : x = Joint(h, l)
<1>1. x \in Int /\ 0 <= x /\ x < 65536
  BY RegisterIs
<1>2. x \div 256 \in 0 .. 255
  BY <1>1
<1>3. x % 256 \in 0 .. 255
  BY <1>1
<1>4. x = 256 * (x \div 256) + (x % 256)
  BY <1>1
<1>5. PICK h, l \in 0 .. 255 : h = x \div 256 /\ l = x % 256
  BY <1>2, <1>3
<1>6. h \in Octet /\ l \in Octet /\ x = Joint(h, l)
  BY <1>4, <1>5 DEF Octet, Joint
<1> QED
  BY <1>6

LEMMA JointFacts ==
    ASSUME NEW h \in Octet, NEW l \in Octet
    PROVE  /\ Joint(h, l) \in Register
           /\ Joint(h, l) \div 256 = h
           /\ Joint(h, l) % 256 = l
<1>4. PICK x : x = Joint(h, l)
  OBVIOUS
<1>1. h \in 0 .. 255 /\ l \in 0 .. 255
  BY DEF Octet
<1>5. x = 256 * h + l
  BY <1>4 DEF Joint
<1>2. x \in Int /\ 0 <= x /\ x < 65536
  BY <1>1, <1>5
<1>3. x \div 256 = h /\ x % 256 = l
  BY <1>1, <1>5
<1> QED
  BY <1>2, <1>3, <1>4, RegisterIs

\* An entry of the table, by its two octets.
LEMMA TableEntry ==
    ASSUME NEW i \in Octet
    PROVE  \E u, v \in Octet : CrcTable16[i + 1] = Joint(u, v)
<1>1. CrcTable16[i + 1] \in Register
  BY TableIs DEF Octet
<1> QED
  BY <1>1, Halves

LEMMA ShiftedIs ==
    ASSUME NEW h \in Octet, NEW l \in Octet, NEW o \in Octet, NEW u \in Octet, NEW v \in Octet,
           CrcTable16[Xor8(h, o) + 1] = Joint(u, v)
    PROVE  Shifted16(Joint(h, l), o) = Joint(Xor8(l, u), v)
<1>1. (Joint(h, l)) \div 256 = h /\ (Joint(h, l)) % 256 = l
  BY JointFacts
<1>2. PICK e \in Register : e = Joint(u, v)
  BY JointFacts
<1>3. Shifted16(Joint(h, l), o) = Xor16(256 * l, e)
  BY <1>1, <1>2, Zenon DEF Shifted16
<1>4. PICK f \in Register : f = 256 * l
  <2>1. Joint(l, 0) = 256 * l /\ 0 \in Octet
    BY DEF Octet, Joint
  <2> QED
    BY <2>1, JointFacts
<1>5. f \div 256 = l /\ f % 256 = 0
  <2>1. f = Joint(l, 0) /\ 0 \in Octet
    BY <1>4 DEF Octet, Joint
  <2> QED
    BY <2>1, JointFacts
<1>6. e \div 256 = u /\ e % 256 = v
  BY <1>2, JointFacts
<1>7. Xor8(0, v) = v
  BY Xor8Zero DEF Octet
<1>8. Xor16(f, e) = 256 * Xor8(f \div 256, e \div 256) + Xor8(f % 256, e % 256)
  BY DEF Xor16
<1>9. Xor16(f, e) = 256 * Xor8(l, u) + v
  BY <1>5, <1>6, <1>7, <1>8
<1> QED
  BY <1>3, <1>4, <1>9 DEF Joint

\* Of two registers and octets that give the same, one is the same if the other
\* is.
LEMMA ShiftedTells ==
    ASSUME NEW x \in Register, NEW y \in Register, NEW q \in Octet, NEW p \in Octet,
           Shifted16(x, q) = Shifted16(y, p)
    PROVE  x = y <=> q = p
<1>1. PICK xh, xl \in Octet : x = Joint(xh, xl)
  BY Halves
<1>2. PICK yh, yl \in Octet : y = Joint(yh, yl)
  BY Halves
<1>3. PICK i, j \in Octet : i = Xor8(xh, q) /\ j = Xor8(yh, p)
  BY OctetXor
<1>4. PICK a, b \in Octet : CrcTable16[i + 1] = Joint(a, b)
  BY TableEntry
<1>5. PICK c, d \in Octet : CrcTable16[j + 1] = Joint(c, d)
  BY TableEntry
<1>6. Shifted16(x, q) = Joint(Xor8(xl, a), b)
  <2>1. CrcTable16[Xor8(xh, q) + 1] = Joint(a, b)
    BY <1>3, <1>4
  <2>2. Shifted16(Joint(xh, xl), q) = Joint(Xor8(xl, a), b)
    BY <2>1, ShiftedIs, SMTT(60)
  <2> QED
    BY <1>1, <2>2
<1>7. Shifted16(y, p) = Joint(Xor8(yl, c), d)
  <2>1. CrcTable16[Xor8(yh, p) + 1] = Joint(c, d)
    BY <1>3, <1>5
  <2>2. Shifted16(Joint(yh, yl), p) = Joint(Xor8(yl, c), d)
    BY <2>1, ShiftedIs, SMTT(30)
  <2> QED
    BY <1>2, <2>2
<1>8. PICK r, s \in Octet : r = Xor8(xl, a) /\ s = Xor8(yl, c)
  BY OctetXor
<1>9. r = s /\ b = d
  <2>1. Joint(r, b) = Joint(s, d)
    BY <1>6, <1>7, <1>8
  <2> QED
    BY <2>1, JointFacts
<1>10. i = j
  <2>1. CrcTable16[i + 1] % 256 = b /\ CrcTable16[j + 1] % 256 = d
    BY <1>4, <1>5, JointFacts
  <2> QED
    BY <1>9, <2>1, LowerOctetTells, ZenonT(60) DEF Octet
<1>11. a = c
  <2>1. Joint(a, b) = Joint(c, d)
    BY <1>4, <1>5, <1>10
  <2> QED
    BY <2>1, JointFacts
<1>12. xl = yl
  BY <1>8, <1>9, <1>11, OctetXor
<1>13. Xor8(xh, q) = Xor8(yh, p)
  BY <1>3, <1>10
<1>14. ASSUME q = p  PROVE x = y
  <2>1. xh = yh
    BY <1>13, <1>14, OctetXor
  <2> QED
    BY <1>1, <1>2, <1>12, <2>1
<1>15. ASSUME x = y  PROVE q = p
  <2>3. Joint(xh, xl) = Joint(yh, yl)
    BY <1>1, <1>2, <1>15
  <2>1. xh = yh
    BY <2>3, JointFacts
  <2> QED
    BY <1>13, <2>1, OctetXor
<1> QED
  BY <1>14, <1>15

LEMMA ShiftedIn ==
    ASSUME NEW x \in Register, NEW t \in Octet
    PROVE  Shifted16(x, t) \in Register
<1>1. PICK xh, xl \in Octet : x = Joint(xh, xl)
  BY Halves
<1>2. PICK i \in Octet : i = Xor8(xh, t)
  BY OctetXor
<1>3. PICK a, b \in Octet : CrcTable16[i + 1] = Joint(a, b)
  BY TableEntry
<1>4. CrcTable16[Xor8(xh, t) + 1] = Joint(a, b)
  BY <1>2, <1>3
<1>5. Shifted16(Joint(xh, xl), t) = Joint(Xor8(xl, a), b)
  BY <1>4, ShiftedIs, SMTT(60)
<1>6. Xor8(xl, a) \in Octet
  BY OctetXor
<1> QED
  BY <1>1, <1>5, <1>6, JointFacts

-----------------------------------------------------------------------------
(***************************************************************************)
(* The loop of la_crc16_arinc.                                             *)
(***************************************************************************)
Turn(g, octets, n) ==
    [register \in Register |->
        IF n > Len(octets) THEN register ELSE g[n + 1][Shifted16(register, octets[n])]]

\* The turns from the n-th one on.
Loops(g, octets, n) == g = [i \in n .. Len(octets) + 1 |-> Turn(g, octets, i)]

LoopOf(octets) == CHOOSE g : Loops(g, octets, 1)

LEMMA CrcIsLoop ==
    ASSUME NEW octets
    PROVE  la_crc16_arinc(octets) = LoopOf(octets)[1][Word - 1]
BY DEF la_crc16_arinc, LoopOf, Loops, Turn, Register

\* What holds of L + 1, and with each number of the one below, holds from 1 on.
LEMMA DownTo ==
    ASSUME NEW L \in Nat, NEW S, L + 1 \in S, \A n \in 1 .. L : n + 1 \in S => n \in S
    PROVE  \A n \in 1 .. L + 1 : n \in S
<1> DEFINE T == {i \in 0 .. L : L + 1 - i \notin S}
<1>1. ASSUME T # {}  PROVE FALSE
  <2>1. IsWellFoundedOn(OpToRel(<, Nat), Nat)
    BY NatLessThanWellFounded
  <2>2. T \in SUBSET Nat
    OBVIOUS
  <2>3. PICK m \in T : \A i \in T : ~(<<i, m>> \in OpToRel(<, Nat))
    BY <1>1, <2>1, <2>2, WFMin
  <2>4. m \in 0 .. L /\ L + 1 - m \notin S
    BY <2>3
  <2>5. m # 0
    <3>1. ASSUME m = 0  PROVE FALSE
      <4>1. L + 1 - m = L + 1
        BY <3>1
      <4> QED
        BY <2>4, <4>1
    <3> QED
      BY <3>1
  <2>6. /\ m - 1 \in 0 .. L /\ m - 1 < m
        /\ L + 1 - m \in 1 .. L /\ L + 1 - (m - 1) = (L + 1 - m) + 1
    BY <2>4, <2>5
  <2>7. L + 1 - (m - 1) \notin S
    BY <2>4, <2>6
  <2>8. m - 1 \in T
    BY <2>6, <2>7
  <2>9. ~(m - 1 < m)
    BY <2>2, <2>3, <2>8 DEF OpToRel
  <2> QED
    BY <2>6, <2>9
<1>2. ASSUME NEW n \in 1 .. L + 1  PROVE n \in S
  <2>1. L + 1 - n \in 0 .. L /\ L + 1 - (L + 1 - n) = n
    OBVIOUS
  <2>2. L + 1 - n \notin T
    BY <1>1
  <2> QED
    BY <2>1, <2>2
<1> QED
  BY <1>2

LEMMA LoopsExist ==
    ASSUME NEW octets, NEW L \in Nat, L = Len(octets)
    PROVE  \E g : Loops(g, octets, 1)
<1> DEFINE S == {n \in 1 .. L + 1 : \E g : Loops(g, octets, n)}
<1>1. L + 1 \in S
  <2> DEFINE g == [i \in L + 1 .. L + 1 |-> [register \in Register |-> register]]
  <2>1. ASSUME NEW i \in L + 1 .. L + 1  PROVE g[i] = Turn(g, octets, i)
    <3>1. i = L + 1 /\ i > Len(octets)
      OBVIOUS
    <3>2. Turn(g, octets, i) = [register \in Register |-> register]
      BY <3>1 DEF Turn
    <3> QED
      BY <3>2
  <2>2. g = [i \in L + 1 .. L + 1 |-> Turn(g, octets, i)]
    <3>1. g = [i \in L + 1 .. L + 1 |-> g[i]]
      OBVIOUS
    <3> HIDE DEF g
    <3> QED
      BY <2>1, <3>1
  <2> HIDE DEF g
  <2>3. Loops(g, octets, L + 1)
    BY <2>2 DEF Loops
  <2> QED
    BY <2>3
<1>2. ASSUME NEW m \in 1 .. L, m + 1 \in S  PROVE m \in S
  <2>2. m \in 1 .. L + 1 /\ m + 1 \in 2 .. L + 1
    OBVIOUS
  <2>3. PICK h : Loops(h, octets, m + 1)
    BY <1>2
  <2> DEFINE first == [register \in Register |-> h[m + 1][Shifted16(register, octets[m])]]
             g     == [i \in m .. L + 1 |-> IF i = m THEN first ELSE h[i]]
  <2>4. \A i \in m + 1 .. L + 1 : h[i] = Turn(h, octets, i)
    BY <2>3 DEF Loops
  <2> HIDE DEF first
  <2>5. g[m] = first /\ g = [i \in m .. L + 1 |-> g[i]] /\ \A i \in m + 1 .. L + 1 : g[i] = h[i]
    OBVIOUS
  <2> HIDE DEF g
  <2>6. ASSUME NEW i \in m .. L + 1  PROVE g[i] = Turn(g, octets, i)
    <3>1. CASE i = m
      <4>2. ~(m > Len(octets)) /\ m + 1 \in m + 1 .. L + 1
        BY <2>2
      <4>1. ~(m > Len(octets)) /\ g[m + 1] = h[m + 1]
        BY <2>5, <4>2
      <4> QED
        BY <2>5, <3>1, <4>1, Zenon DEF first, Turn
    <3>2. CASE i = L + 1
      <4>1. i > Len(octets) /\ i \in m + 1 .. L + 1
        BY <2>2, <3>2
      <4>2. h[i] = Turn(h, octets, i)
        BY <2>4, <4>1
      <4>3. Turn(h, octets, i) = Turn(g, octets, i)
        BY <4>1, Zenon DEF Turn
      <4> QED
        BY <2>5, <4>1, <4>2, <4>3
    <3>3. CASE i \in m + 1 .. L
      <4>1. i \in m + 1 .. L + 1 /\ i + 1 \in m + 1 .. L + 1
        BY <2>2, <3>3
      <4>2. g[i + 1] = h[i + 1]
        BY <2>5, <4>1
      <4>3. Turn(h, octets, i) = Turn(g, octets, i)
        BY <4>2, Zenon DEF Turn
      <4> QED
        BY <2>4, <2>5, <4>1, <4>3
    <3> QED
      BY <3>1, <3>2, <3>3
  <2>7. g = [i \in m .. L + 1 |-> Turn(g, octets, i)]
    BY <2>5, <2>6
  <2>8. Loops(g, octets, m)
    BY <2>7 DEF Loops
  <2> QED
    BY <2>2, <2>8
<1>3. \A n \in 1 .. L + 1 : n \in S
  <2> HIDE DEF S
  <2> QED
    BY <1>1, <1>2, DownTo
<1>4. 1 \in 1 .. L + 1
  OBVIOUS
<1> QED
  BY <1>3, <1>4

\* After the last octet the register stays; before it, it is shifted.
LEMMA TurnFacts ==
    ASSUME NEW octets, NEW L \in Nat, L = Len(octets)
    PROVE  /\ \A x \in Register : LoopOf(octets)[L + 1][x] = x
           /\ \A n \in 1 .. L : \A x \in Register :
                 LoopOf(octets)[n][x] = LoopOf(octets)[n + 1][Shifted16(x, octets[n])]
<1> DEFINE g == LoopOf(octets)
<1>1. \E h : Loops(h, octets, 1)
  BY LoopsExist
<1>2. Loops(g, octets, 1)
  BY <1>1, Zenon DEF LoopOf
<1> HIDE DEF g
<1>3. \A i \in 1 .. L + 1 : g[i] = Turn(g, octets, i)
  BY <1>2 DEF Loops
<1>4. ASSUME NEW x \in Register  PROVE g[L + 1][x] = x
  <2>1. L + 1 \in 1 .. L + 1 /\ L + 1 > Len(octets)
    OBVIOUS
  <2>2. Turn(g, octets, L + 1)[x] = x
    BY <2>1, Zenon DEF Turn
  <2> QED
    BY <1>3, <2>1, <2>2
<1>5. ASSUME NEW n \in 1 .. L, NEW x \in Register
      PROVE  g[n][x] = g[n + 1][Shifted16(x, octets[n])]
  <2>1. n \in 1 .. L + 1 /\ ~(n > Len(octets))
    OBVIOUS
  <2>2. Turn(g, octets, n)[x] = g[n + 1][Shifted16(x, octets[n])]
    BY <2>1, Zenon DEF Turn
  <2> QED
    BY <1>3, <2>1, <2>2
<1> QED
  BY <1>4, <1>5 DEF g

OctetsOnly(octets, L) ==
    L \in Nat /\ L = Len(octets) /\ \A n \in 1 .. L : octets[n] \in Octet

\* The loop leaves a register of 16 bits, and different ones for different ones.
LEMMA LoopTells ==
    ASSUME NEW octets, NEW L, OctetsOnly(octets, L), NEW n \in 1 .. L + 1
    PROVE  /\ \A x \in Register : LoopOf(octets)[n][x] \in Register
           /\ \A x, y \in Register : LoopOf(octets)[n][x] = LoopOf(octets)[n][y] => x = y
<1> DEFINE g    == LoopOf(octets)
           P(m) == /\ \A x \in Register : g[m][x] \in Register
                   /\ \A x, y \in Register : g[m][x] = g[m][y] => x = y
           S    == {m \in 1 .. L + 1 : P(m)}
<1>1. L \in Nat /\ L = Len(octets) /\ \A m \in 1 .. L : octets[m] \in Octet
  BY DEF OctetsOnly
<1>2. /\ \A x \in Register : g[L + 1][x] = x
      /\ \A m \in 1 .. L : \A x \in Register : g[m][x] = g[m + 1][Shifted16(x, octets[m])]
  BY <1>1, TurnFacts
<1> HIDE DEF g
<1>3. L + 1 \in S
  BY <1>1, <1>2
<1>4. ASSUME NEW m \in 1 .. L, m + 1 \in S  PROVE m \in S
  <2>1. octets[m] \in Octet /\ m \in 1 .. L + 1 /\ P(m + 1)
    BY <1>1, <1>4
  <2>2. ASSUME NEW x \in Register  PROVE g[m][x] \in Register
    <3>1. Shifted16(x, octets[m]) \in Register
      BY <2>1, ShiftedIn
    <3> QED
      BY <1>2, <2>1, <3>1
  <2>3. ASSUME NEW x \in Register, NEW y \in Register, g[m][x] = g[m][y]  PROVE x = y
    <3>1. Shifted16(x, octets[m]) \in Register /\ Shifted16(y, octets[m]) \in Register
      BY <2>1, ShiftedIn
    <3>2. Shifted16(x, octets[m]) = Shifted16(y, octets[m])
      BY <1>2, <2>1, <2>3, <3>1
    <3> QED
      BY <2>1, <3>2, ShiftedTells
  <2> QED
    BY <2>1, <2>2, <2>3
<1>5. n \in S
  <2> HIDE DEF S
  <2> QED
    BY <1>1, <1>3, <1>4, DownTo
<1> QED
  BY <1>5 DEF g

LEMMA CrcInRegister ==
    ASSUME NEW octets, NEW L, OctetsOnly(octets, L)
    PROVE  la_crc16_arinc(octets) \in Register
<1>1. 1 \in 1 .. L + 1 /\ Word - 1 \in Register
  BY RegisterIs DEF OctetsOnly
<1>2. \A x \in Register : LoopOf(octets)[1][x] \in Register
  BY <1>1, LoopTells
<1> QED
  BY <1>1, <1>2, CrcIsLoop

\* Octets that differ in just one of them have different checksums.
THEOREM OneOctetTells ==
    ASSUME NEW a, NEW b, NEW L, OctetsOnly(a, L), OctetsOnly(b, L),
           NEW p \in 1 .. L, a[p] # b[p], \A n \in 1 .. L : n # p => a[n] = b[n]
    PROVE  la_crc16_arinc(a) # la_crc16_arinc(b)
<1> DEFINE g    == LoopOf(a)
           h    == LoopOf(b)
           P(n) == \A x \in Register : g[n][x] = h[n][x] <=> n > p
           S    == {n \in 1 .. L + 1 : P(n)}
<1>1. /\ L \in Nat /\ L = Len(a) /\ L = Len(b)
      /\ \A n \in 1 .. L : a[n] \in Octet /\ b[n] \in Octet
  BY DEF OctetsOnly
<1>2. /\ \A x \in Register : g[L + 1][x] = x
      /\ \A n \in 1 .. L : \A x \in Register : g[n][x] = g[n + 1][Shifted16(x, a[n])]
  BY <1>1, TurnFacts
<1>3. /\ \A x \in Register : h[L + 1][x] = x
      /\ \A n \in 1 .. L : \A x \in Register : h[n][x] = h[n + 1][Shifted16(x, b[n])]
  BY <1>1, TurnFacts
<1>4. \A n \in 1 .. L + 1 : \A x, y \in Register : g[n][x] = g[n][y] => x = y
  BY LoopTells
<1> HIDE DEF g, h
<1>5. L + 1 \in S
  BY <1>1, <1>2, <1>3
<1>6. ASSUME NEW n \in 1 .. L, n + 1 \in S  PROVE n \in S
  <2>1. a[n] \in Octet /\ b[n] \in Octet /\ P(n + 1) /\ n \in 1 .. L + 1 /\ n + 1 \in 1 .. L + 1
    BY <1>1, <1>6
  <2>2. ASSUME NEW x \in Register  PROVE g[n][x] = h[n][x] <=> n > p
    <3>1. Shifted16(x, a[n]) \in Register /\ Shifted16(x, b[n]) \in Register
      BY <2>1, ShiftedIn
    <3>2. /\ g[n][x] = g[n + 1][Shifted16(x, a[n])]
          /\ h[n][x] = h[n + 1][Shifted16(x, b[n])]
      BY <1>2, <1>3
    <3>3. CASE n > p
      <4>1. a[n] = b[n] /\ n + 1 > p
        BY <3>3
      <4> QED
        BY <2>1, <3>1, <3>2, <3>3, <4>1
    <3>4. CASE n = p
      <4>1. h[n + 1][Shifted16(x, b[n])] = g[n + 1][Shifted16(x, b[n])]
        <5>1. n + 1 > p
          BY <3>4
        <5> QED
          BY <2>1, <3>1, <5>1
      <4>2. Shifted16(x, a[n]) # Shifted16(x, b[n])
        <5>1. a[n] # b[n]
          BY <3>4
        <5> QED
          BY <2>1, <5>1, ShiftedTells
      <4>3. g[n + 1][Shifted16(x, a[n])] # g[n + 1][Shifted16(x, b[n])]
        BY <1>4, <2>1, <3>1, <4>2
      <4>4. ~(n > p)
        BY <3>4
      <4> QED
        BY <3>2, <4>1, <4>3, <4>4
    <3>5. CASE n < p
      <4>1. a[n] = b[n] /\ ~(n + 1 > p) /\ ~(n > p)
        BY <3>5
      <4> QED
        BY <2>1, <3>1, <3>2, <4>1
    <3> QED
      BY <3>3, <3>4, <3>5
  <2> QED
    BY <2>1, <2>2
<1>7. 1 \in S
  <2>1. \A n \in 1 .. L + 1 : n \in S
    <3> HIDE DEF S
    <3> QED
      BY <1>1, <1>5, <1>6, DownTo
  <2>2. 1 \in 1 .. L + 1
    BY <1>1
  <2> QED
    BY <2>1, <2>2
<1>8. Word - 1 \in Register
  BY RegisterIs
<1>9. g[1][Word - 1] # h[1][Word - 1]
  <2>1. ~(1 > p)
    OBVIOUS
  <2> QED
    BY <1>7, <1>8, <2>1
<1> QED
  BY <1>9, CrcIsLoop DEF g, h

-----------------------------------------------------------------------------
(***************************************************************************)
(* The checksum of octets with their own, inverted, behind them.           *)
(***************************************************************************)
LEMMA Xor4Complement ==
    ASSUME NEW a \in 0 .. 15
    PROVE  /\ Xor4(a, 15 - a) = 15
           /\ Xor4(Xor4(a, 1), 15 - a) = 14
           /\ Xor4(Xor4(a, 14), 15 - a) = 1
<1>1. PICK a3, a2, a1, a0 \in 0 .. 1 : a = 8 * a3 + 4 * a2 + 2 * a1 + a0
  BY BitsOf4
<1>2. PICK b3, b2, b1, b0 \in 0 .. 1 : b3 = 1 - a3 /\ b2 = 1 - a2 /\ b1 = 1 - a1 /\ b0 = 1 - a0
  OBVIOUS
<1>3. 15 - a = 8 * b3 + 4 * b2 + 2 * b1 + b0
  BY <1>1, <1>2
<1>4. ASSUME NEW x \in 0 .. 1
      PROVE  Xor1(x, 0) = x /\ Xor1(x, 1) = 1 - x /\ Xor1(x, 1 - x) = 1 /\ Xor1(1 - x, 1 - x) = 0
  BY DEF Xor1
<1>5. Xor4(a, 15 - a) = 15
  <2>1. Xor4(8 * a3 + 4 * a2 + 2 * a1 + a0, 8 * b3 + 4 * b2 + 2 * b1 + b0) =
           8 * Xor1(a3, b3) + 4 * Xor1(a2, b2) + 2 * Xor1(a1, b1) + Xor1(a0, b0)
    BY Xor4Bits
  <2>2. Xor1(a3, b3) = 1 /\ Xor1(a2, b2) = 1 /\ Xor1(a1, b1) = 1 /\ Xor1(a0, b0) = 1
    BY <1>2, <1>4
  <2>3. Xor4(a, 15 - a) = 8 * 1 + 4 * 1 + 2 * 1 + 1
    BY <1>1, <1>3, <2>1, <2>2
  <2> QED
    BY <2>3
<1>6. Xor4(Xor4(a, 1), 15 - a) = 14
  <2>1. Xor4(a, 1) = 8 * a3 + 4 * a2 + 2 * a1 + b0
    BY <1>1, <1>2, Xor4Constant
  <2>2. Xor4(8 * a3 + 4 * a2 + 2 * a1 + b0, 8 * b3 + 4 * b2 + 2 * b1 + b0) =
           8 * Xor1(a3, b3) + 4 * Xor1(a2, b2) + 2 * Xor1(a1, b1) + Xor1(b0, b0)
    BY Xor4Bits
  <2>3. Xor1(a3, b3) = 1 /\ Xor1(a2, b2) = 1 /\ Xor1(a1, b1) = 1 /\ Xor1(b0, b0) = 0
    BY <1>2, <1>4
  <2>4. Xor4(Xor4(a, 1), 15 - a) = 8 * 1 + 4 * 1 + 2 * 1 + 0
    BY <1>3, <2>1, <2>2, <2>3
  <2> QED
    BY <2>4
<1>7. Xor4(Xor4(a, 14), 15 - a) = 1
  <2>1. Xor4(8 * a3 + 4 * a2 + 2 * a1 + a0, 8 * 1 + 4 * 1 + 2 * 1 + 0) =
           8 * Xor1(a3, 1) + 4 * Xor1(a2, 1) + 2 * Xor1(a1, 1) + Xor1(a0, 0)
    BY Xor4Bits
  <2>2. 8 * 1 + 4 * 1 + 2 * 1 + 0 = 14
    OBVIOUS
  <2>3. Xor1(a3, 1) = b3 /\ Xor1(a2, 1) = b2 /\ Xor1(a1, 1) = b1 /\ Xor1(a0, 0) = a0
    BY <1>2, <1>4
  <2>4. Xor4(a, 14) = 8 * b3 + 4 * b2 + 2 * b1 + a0
    BY <1>1, <2>1, <2>2, <2>3
  <2>5. Xor4(8 * b3 + 4 * b2 + 2 * b1 + a0, 8 * b3 + 4 * b2 + 2 * b1 + b0) =
           8 * Xor1(b3, b3) + 4 * Xor1(b2, b2) + 2 * Xor1(b1, b1) + Xor1(a0, b0)
    BY Xor4Bits
  <2>6. Xor1(b3, b3) = 0 /\ Xor1(b2, b2) = 0 /\ Xor1(b1, b1) = 0 /\ Xor1(a0, b0) = 1
    BY <1>2, <1>4
  <2>7. Xor4(Xor4(a, 14), 15 - a) = 8 * 0 + 4 * 0 + 2 * 0 + 1
    BY <1>3, <2>4, <2>5, <2>6
  <2> QED
    BY <2>7
<1> QED
  BY <1>5, <1>6, <1>7

LEMMA Xor8Complement ==
    ASSUME NEW a \in 0 .. 255
    PROVE  /\ Xor8(a, 255 - a) = 255
           /\ Xor8(Xor8(a, 30), 255 - a) = 225
<1>1. PICK h, l \in 0 .. 15 : h = a \div 16 /\ l = a % 16 /\ a = 16 * h + l
  OBVIOUS
<1>2. (255 - a) \div 16 = 15 - h /\ (255 - a) % 16 = 15 - l
  BY <1>1
<1>3. Xor8(a, 255 - a) = 16 * Xor4(h, 15 - h) + Xor4(l, 15 - l)
  BY <1>1, <1>2 DEF Xor8
<1>4. Xor8(a, 30) \div 16 = Xor4(h, 1) /\ Xor8(a, 30) % 16 = Xor4(l, 14)
  <2>1. 30 \div 16 = 1 /\ 30 % 16 = 14 /\ 30 \in 0 .. 255
    OBVIOUS
  <2>2. /\ Xor8(a, 30) \div 16 = Xor4(a \div 16, 30 \div 16)
        /\ Xor8(a, 30) % 16 = Xor4(a % 16, 30 % 16)
    BY <2>1, Xor8Facts, ZenonT(60)
  <2> QED
    BY <1>1, <2>1, <2>2
<1>5. Xor8(Xor8(a, 30), 255 - a) = 16 * Xor4(Xor4(h, 1), 15 - h) + Xor4(Xor4(l, 14), 15 - l)
  BY <1>2, <1>4 DEF Xor8
<1>6. /\ Xor4(h, 15 - h) = 15 /\ Xor4(Xor4(h, 1), 15 - h) = 14
      /\ Xor4(l, 15 - l) = 15 /\ Xor4(Xor4(l, 14), 15 - l) = 1
  BY Xor4Complement
<1> QED
  BY <1>3, <1>5, <1>6

\* Of the checksum's own octets the register makes LA_CRC_ARINC_GOOD.
LEMMA OwnOctets ==
    ASSUME NEW h \in Octet, NEW l \in Octet
    PROVE  Shifted16(Shifted16(Joint(h, l), 255 - h), 255 - l) = 7439
<1>1. PICK m, k \in Octet : m = 255 - h /\ k = 255 - l
  <2>1. 255 - h \in Octet /\ 255 - l \in Octet
    BY DEF Octet
  <2> QED
    BY <2>1
<1>2. Shifted16(Joint(h, l), m) = Joint(Xor8(l, 30), 240)
  <2>1. Xor8(h, m) = 255
    BY <1>1, Xor8Complement DEF Octet
  <2>2. 30 \in Octet /\ 240 \in Octet /\ 7920 = Joint(30, 240) /\ 255 + 1 = 256
    BY DEF Octet, Joint
  <2>3. CrcTable16[Xor8(h, m) + 1] = Joint(30, 240)
    BY <2>1, <2>2, TwoEntries
  <2> QED
    BY <2>2, <2>3, ShiftedIs
<1>3. PICK q \in Octet : q = Xor8(l, 30)
  <2>1. 30 \in Octet
    BY DEF Octet
  <2> QED
    BY <2>1, OctetXor
<1>4. Shifted16(Joint(q, 240), k) = Joint(Xor8(240, 237), 15)
  <2>1. Xor8(q, k) = 225
    BY <1>1, <1>3, Xor8Complement DEF Octet
  <2>2. 237 \in Octet /\ 15 \in Octet /\ 240 \in Octet /\ 60687 = Joint(237, 15) /\ 225 + 1 = 226
    BY DEF Octet, Joint
  <2>3. CrcTable16[Xor8(q, k) + 1] = Joint(237, 15)
    BY <2>1, <2>2, TwoEntries
  <2> QED
    BY <2>2, <2>3, ShiftedIs
<1>5. Xor8(240, 237) = 29
  <2>1. 240 \div 16 = 15 /\ 240 % 16 = 0 /\ 237 \div 16 = 14 /\ 237 % 16 = 13
    OBVIOUS
  <2>2. Xor4(0, 13) = 13
    BY Xor4Zero
  <2>3. Xor4(15, 14) = 1
    <3>1. Xor4(8 * 1 + 4 * 1 + 2 * 1 + 1, 8 * 1 + 4 * 1 + 2 * 1 + 0) =
             8 * Xor1(1, 1) + 4 * Xor1(1, 1) + 2 * Xor1(1, 1) + Xor1(1, 0)
      BY Xor4Bits
    <3>2. Xor1(1, 1) = 0 /\ Xor1(1, 0) = 1
      BY DEF Xor1
    <3>3. 8 * 1 + 4 * 1 + 2 * 1 + 1 = 15 /\ 8 * 1 + 4 * 1 + 2 * 1 + 0 = 14
      OBVIOUS
    <3> QED
      BY <3>1, <3>2, <3>3
  <2> QED
    BY <2>1, <2>2, <2>3 DEF Xor8
<1>6. Joint(29, 15) = 7439
  BY DEF Joint
<1> QED
  BY <1>1, <1>2, <1>3, <1>4, <1>5, <1>6

\* b is a with the inverted checksum of it behind.
OwnChecksumBehind(a, b, L) ==
    /\ OctetsOnly(a, L) /\ OctetsOnly(b, L + 2)
    /\ \A n \in 1 .. L : b[n] = a[n]
    /\ b[L + 1] = (65535 - la_crc16_arinc(a)) \div 256
    /\ b[L + 2] = (65535 - la_crc16_arinc(a)) % 256

\* Behind its octets, a checksum is found good.
THEOREM ChecksumGood ==
    ASSUME NEW a, NEW b, NEW L, OwnChecksumBehind(a, b, L)
    PROVE  la_crc16_arinc(b) = 7439
<1> SUFFICES ASSUME OctetsOnly(a, L), OctetsOnly(b, L + 2),
                    \A n \in 1 .. L : b[n] = a[n],
                    b[L + 1] = (65535 - la_crc16_arinc(a)) \div 256,
                    b[L + 2] = (65535 - la_crc16_arinc(a)) % 256
             PROVE  la_crc16_arinc(b) = 7439
  BY SMT DEF OwnChecksumBehind
<1> DEFINE g    == LoopOf(a)
           c    == LoopOf(b)
           crc  == la_crc16_arinc(a)
           P(n) == \A x \in Register : c[n][x] = c[L + 1][g[n][x]]
           S    == {n \in 1 .. L + 1 : P(n)}
<1>1. /\ L \in Nat /\ L = Len(a) /\ L + 2 \in Nat /\ L + 2 = Len(b)
      /\ \A n \in 1 .. L : a[n] \in Octet
      /\ b[L + 1] \in Octet /\ b[L + 2] \in Octet
  BY DEF OctetsOnly
<1>2. /\ \A x \in Register : g[L + 1][x] = x
      /\ \A n \in 1 .. L : \A x \in Register : g[n][x] = g[n + 1][Shifted16(x, a[n])]
  BY <1>1, TurnFacts
<1>3. /\ \A x \in Register : c[L + 2 + 1][x] = x
      /\ \A n \in 1 .. L + 2 : \A x \in Register : c[n][x] = c[n + 1][Shifted16(x, b[n])]
  <2>1. PICK K \in Nat : K = L + 2 /\ K = Len(b)
    BY <1>1
  <2>2. /\ \A x \in Register : c[K + 1][x] = x
        /\ \A n \in 1 .. K : \A x \in Register : c[n][x] = c[n + 1][Shifted16(x, b[n])]
    BY <2>1, TurnFacts
  <2> QED
    BY <2>1, <2>2
<1>4. 1 \in 1 .. L + 1 /\ Word - 1 \in Register
  BY <1>1, RegisterIs
<1>5. crc = g[1][Word - 1] /\ la_crc16_arinc(b) = c[1][Word - 1]
  BY CrcIsLoop
<1>6. crc \in Register
  <2>1. \A x \in Register : LoopOf(a)[1][x] \in Register
    BY <1>4, LoopTells
  <2> QED
    BY <1>4, <1>5, <2>1
<1> HIDE DEF g, c, crc
<1>7. L + 1 \in S
  BY <1>1, <1>2
<1>8. ASSUME NEW n \in 1 .. L, n + 1 \in S  PROVE n \in S
  <2>1. a[n] \in Octet /\ b[n] = a[n] /\ P(n + 1) /\ n \in 1 .. L + 1 /\ n \in 1 .. L + 2
    BY <1>1, <1>8
  <2>2. ASSUME NEW x \in Register  PROVE c[n][x] = c[L + 1][g[n][x]]
    <3>1. PICK y \in Register : y = Shifted16(x, a[n])
      BY <2>1, ShiftedIn
    <3>2. c[n][x] = c[n + 1][y] /\ g[n][x] = g[n + 1][y]
      BY <1>2, <1>3, <2>1, <3>1
    <3> QED
      BY <2>1, <3>2
  <2> QED
    BY <2>1, <2>2
<1>9. P(1)
  <2>1. \A n \in 1 .. L + 1 : n \in S
    <3>1. L \in Nat /\ \A n \in 1 .. L : n + 1 \in S => n \in S
      BY <1>1, <1>8
    <3> HIDE DEF S
    <3> QED
      BY <1>7, <3>1, DownTo
  <2> QED
    BY <1>4, <2>1
<1>10. la_crc16_arinc(b) = c[L + 1][crc]
  BY <1>4, <1>5, <1>9
<1>11. PICK h, l \in Octet : crc = Joint(h, l)
  BY <1>6, Halves
<1>12. b[L + 1] = 255 - h /\ b[L + 2] = 255 - l
  <2>4. 255 - h \in Octet /\ 255 - l \in Octet
    BY DEF Octet
  <2>1. PICK m, k \in Octet : m = 255 - h /\ k = 255 - l
    BY <2>4
  <2>2. 65535 - crc = Joint(m, k)
    BY <1>11, <2>1 DEF Joint, Octet
  <2>3. b[L + 1] = Joint(m, k) \div 256 /\ b[L + 2] = Joint(m, k) % 256
    BY <2>2 DEF crc
  <2> QED
    BY <2>1, <2>3, JointFacts
<1>13. PICK y \in Register : y = Shifted16(crc, 255 - h)
  BY <1>1, <1>6, <1>12, ShiftedIn
<1>14. PICK z \in Register : z = Shifted16(y, 255 - l)
  BY <1>1, <1>12, ShiftedIn
<1>15. z = 7439
  BY <1>11, <1>13, <1>14, OwnOctets
<1>16. c[L + 1][crc] = c[L + 2][y] /\ c[L + 2][y] = c[L + 2 + 1][z]
  <2>1. L + 1 \in 1 .. L + 2 /\ L + 2 \in 1 .. L + 2 /\ L + 1 + 1 = L + 2
    BY <1>1
  <2> QED
    BY <1>3, <1>6, <1>12, <1>13, <1>14, <2>1
<1> QED
  BY <1>3, <1>10, <1>15, <1>16

-----------------------------------------------------------------------------
(***************************************************************************)
(* The checksum in a message.                                              *)
(***************************************************************************)
FrontOctets(imi) == ImiOctets[imi] \o RegistrationOctets

LEMMA OctetsJoined ==
    ASSUME NEW a \in Seq(Octets), NEW b \in Seq(Octets), NEW K \in Nat, K = Len(a)
    PROVE  /\ a \o b \in Seq(Octets) /\ Len(a \o b) = K + Len(b)
           /\ \A i \in 1 .. K : (a \o b)[i] = a[i]
           /\ \A i \in 1 .. Len(b) : (a \o b)[K + i] = b[i]
BY Concatenated

LEMMA FrontOctetsFacts ==
    ASSUME NEW imi \in DOMAIN ImiOctets
    PROVE  FrontOctets(imi) \in Seq(Octets) /\ Len(FrontOctets(imi)) = 10
<1>1. RegistrationOctets \in Seq(Octets) /\ Len(RegistrationOctets) = 7
  BY DEF RegistrationOctets, Octets
<1>2. ASSUME NEW a \in 0 .. 255, NEW b \in 0 .. 255, NEW c \in 0 .. 255
      PROVE  <<a, b, c>> \in Seq(Octets) /\ Len(<<a, b, c>>) = 3
  BY DEF Octets
<1>3. DOMAIN ImiOctets = 1 .. 6
  BY DEF ImiOctets
<1>4. /\ ImiOctets[1] = <<65, 84, 49>> /\ ImiOctets[2] = <<67, 82, 49>>
      /\ ImiOctets[3] = <<67, 67, 49>> /\ ImiOctets[4] = <<68, 82, 49>>
      /\ ImiOctets[5] = <<65, 68, 83>> /\ ImiOctets[6] = <<68, 73, 83>>
  BY DEF ImiOctets
<1>5. imi = 1 \/ imi = 2 \/ imi = 3 \/ imi = 4 \/ imi = 5 \/ imi = 6
  BY <1>3
<1>6. \E a, b, c \in 0 .. 255 : ImiOctets[imi] = <<a, b, c>>
  <2> DEFINE P(o) == \E a, b, c \in 0 .. 255 : o = <<a, b, c>>
  <2>1. ASSUME NEW a \in 0 .. 255, NEW b \in 0 .. 255, NEW c \in 0 .. 255
        PROVE  P(<<a, b, c>>)
    OBVIOUS
  <2> HIDE DEF P
  <2>4. /\ 49 \in 0 .. 255 /\ 65 \in 0 .. 255 /\ 67 \in 0 .. 255 /\ 68 \in 0 .. 255
        /\ 73 \in 0 .. 255 /\ 82 \in 0 .. 255 /\ 83 \in 0 .. 255 /\ 84 \in 0 .. 255
    OBVIOUS
  <2>2. /\ P(<<65, 84, 49>>) /\ P(<<67, 82, 49>>) /\ P(<<67, 67, 49>>)
        /\ P(<<68, 82, 49>>) /\ P(<<65, 68, 83>>) /\ P(<<68, 73, 83>>)
    BY <2>1, <2>4, ZenonT(60)
  <2>3. P(ImiOctets[imi])
    BY <1>4, <1>5, <2>2, SMT
  <2> QED
    BY <2>3 DEF P
<1> DEFINE name == ImiOctets[imi]
           reg  == RegistrationOctets
<1>7. name \in Seq(Octets) /\ Len(name) = 3
  BY <1>2, <1>6, ZenonT(40)
<1>8. reg \in Seq(Octets) /\ Len(reg) = 7
  BY <1>1
<1> HIDE DEF name, reg
<1>9. /\ name \o reg \in Seq(Octets)
      /\ Len(name \o reg) = Len(name) + Len(reg)
  BY <1>7, <1>8, Concatenated, Zenon
<1>10. FrontOctets(imi) = name \o reg
  BY DEF FrontOctets, name, reg
<1> QED
  BY <1>7, <1>8, <1>9, <1>10, SMT

\* The octets that a checksum is computed of.
LEMMA ProtectedFacts ==
    ASSUME NEW imi \in DOMAIN ImiOctets, NEW q \in Seq(Octets)
    PROVE  /\ OctetsOnly(Protected(imi, q), 10 + Len(q))
           /\ \A i \in 1 .. 10 : Protected(imi, q)[i] = FrontOctets(imi)[i]
           /\ \A i \in 1 .. Len(q) : Protected(imi, q)[10 + i] = q[i]
<1> DEFINE front == FrontOctets(imi)
           all   == front \o q
<1>1. front \in Seq(Octets) /\ Len(front) = 10 /\ q \in Seq(Octets) /\ Len(q) \in Nat
  BY FrontOctetsFacts
<1>2. Protected(imi, q) = all
  BY DEF Protected, FrontOctets
<1> HIDE DEF front
<1> HIDE DEF all
<1>3. /\ all \in Seq(Octets) /\ Len(all) = 10 + Len(q)
      /\ \A i \in 1 .. 10 : all[i] = front[i]
      /\ \A i \in 1 .. Len(q) : all[10 + i] = q[i]
  <2> HIDE DEF all
  <2>1. 10 \in Nat /\ 10 = Len(front)
    BY <1>1, SMT
  <2> QED
    BY <1>1, <2>1, OctetsJoined, Zenon DEF all
<1>4. \A i \in 1 .. 10 + Len(q) : all[i] \in Octet
  BY <1>3, ElementOfSeq DEF Octets, Octet
<1>5. 10 + Len(q) \in Nat
  BY <1>1
<1> QED
  BY <1>2, <1>3, <1>4, <1>5 DEF OctetsOnly, front

\* The two octets that are behind them when they are sent.
OwnCrc(imi, octets) == TwoOctets(65535 - la_crc16_arinc(Protected(imi, octets)))

LEMMA OwnCrcFacts ==
    ASSUME NEW imi \in DOMAIN ImiOctets, NEW octets \in Seq(Octets)
    PROVE  OwnCrc(imi, octets) \in Seq(Octets) /\ Len(OwnCrc(imi, octets)) = 2
<1> DEFINE crc == la_crc16_arinc(Protected(imi, octets))
<1>1. crc \in Register
  <2>1. OctetsOnly(Protected(imi, octets), 10 + Len(octets))
    BY ProtectedFacts
  <2> QED
    BY <2>1, CrcInRegister
<1>2. OwnCrc(imi, octets) = TwoOctets(65535 - crc)
  BY DEF OwnCrc
<1> HIDE DEF crc
<1>3. PICK y : y = 65535 - crc
  OBVIOUS
<1>4. y \in Int /\ 0 <= y /\ y < 65536
  BY <1>1, <1>3, RegisterIs, SMT
<1>5. y \div 256 \in Octets
  BY <1>4, SMT DEF Octets
<1>6. y % 256 \in Octets
  BY <1>4, SMT DEF Octets
<1>7. TwoOctets(y) \in Seq(Octets) /\ Len(TwoOctets(y)) = 2
  BY <1>5, <1>6 DEF TwoOctets
<1> QED
  BY <1>2, <1>3, <1>7, SMT

\* The octets that are sent: those of the reports, and two more.
LEMMA WithCrcFacts ==
    ASSUME NEW imi \in DOMAIN ImiOctets, NEW octets \in Seq(Octets)
    PROVE  /\ WithCrc(imi, octets) \in Seq(Octets)
           /\ Len(WithCrc(imi, octets)) = Len(octets) + 2
           /\ \A i \in 1 .. Len(octets) : WithCrc(imi, octets)[i] = octets[i]
           /\ WithCrc(imi, octets)[Len(octets) + 1] = OwnCrc(imi, octets)[1]
           /\ WithCrc(imi, octets)[Len(octets) + 2] = OwnCrc(imi, octets)[2]
<1> DEFINE two == OwnCrc(imi, octets)
           all == octets \o two
<1>1. two \in Seq(Octets) /\ Len(two) = 2
  BY OwnCrcFacts
<1>2. WithCrc(imi, octets) = all
  BY SMT DEF WithCrc, OwnCrc
<1> HIDE DEF two
<1>3. /\ all \in Seq(Octets) /\ Len(all) = Len(octets) + Len(two)
      /\ \A i \in 1 .. Len(octets) : all[i] = octets[i]
      /\ \A i \in 1 .. Len(two) : all[Len(octets) + i] = two[i]
  <2> HIDE DEF all
  <2> QED
    BY <1>1, Concatenated, SMT DEF all
<1> HIDE DEF all
<1>4. all[Len(octets) + 1] = two[1] /\ all[Len(octets) + 2] = two[2]
  BY <1>1, <1>3, SMT
<1> QED
  BY <1>1, <1>2, <1>3, <1>4, SMT DEF two

\* The octets as they were sent are found good.
LEMMA SentIsGood ==
    ASSUME NEW imi \in DOMAIN ImiOctets, NEW octets \in Seq(Octets)
    PROVE  la_crc16_arinc(Protected(imi, WithCrc(imi, octets))) = CrcGood
<1> DEFINE all == WithCrc(imi, octets)
           a   == Protected(imi, octets)
           b   == Protected(imi, all)
           two == OwnCrc(imi, octets)
           L   == Len(octets)
<1>1. /\ all \in Seq(Octets) /\ Len(all) = L + 2
      /\ \A i \in 1 .. L : all[i] = octets[i]
      /\ all[L + 1] = two[1] /\ all[L + 2] = two[2]
  BY WithCrcFacts, SMT
<1> HIDE DEF all
<1>2. L \in Nat
  BY LenProperties
<1>3. /\ OctetsOnly(a, 10 + L)
      /\ \A i \in 1 .. 10 : a[i] = FrontOctets(imi)[i]
      /\ \A i \in 1 .. L : a[10 + i] = octets[i]
  BY ProtectedFacts, SMT
<1> HIDE DEF L
<1>4. /\ OctetsOnly(b, 10 + Len(all))
      /\ \A i \in 1 .. 10 : b[i] = FrontOctets(imi)[i]
      /\ \A i \in 1 .. Len(all) : b[10 + i] = all[i]
  BY <1>1, ProtectedFacts, SMT
<1> HIDE DEF a, b, two
<1>5. PICK K \in Nat : K = 10 + L
  BY <1>2, SMT
<1>6. K + 2 = 10 + Len(all) /\ K + 1 = 10 + (L + 1) /\ L + 1 \in 1 .. Len(all) /\ L + 2 \in 1 .. Len(all)
      /\ K + 2 = 10 + (L + 2)
  BY <1>1, <1>2, <1>5, SMT
<1>7. ASSUME NEW n \in 1 .. K  PROVE b[n] = a[n]
  <2>1. CASE n \in 1 .. 10
    BY <1>3, <1>4, <2>1, SMT
  <2>2. CASE n \in 11 .. K
    <3>1. PICK i \in 1 .. L : n = 10 + i
      BY <1>2, <1>5, <2>2, SMT
    <3>2. i \in 1 .. Len(all)
      BY <1>1, <1>2, SMT
    <3> QED
      BY <1>1, <1>3, <1>4, <3>1, <3>2, SMT
  <2> QED
    BY <1>5, <2>1, <2>2, SMT
<1>8. b[K + 1] = two[1] /\ b[K + 2] = two[2]
  BY <1>1, <1>4, <1>6, SMTT(30)
<1>9. two[1] = (65535 - la_crc16_arinc(a)) \div 256 /\ two[2] = (65535 - la_crc16_arinc(a)) % 256
  BY SMT DEF two, OwnCrc, TwoOctets, a
<1>10. OctetsOnly(a, K) /\ OctetsOnly(b, K + 2)
  BY <1>3, <1>4, <1>5, <1>6, SMT
<1>11. b[K + 1] = (65535 - la_crc16_arinc(a)) \div 256 /\ b[K + 2] = (65535 - la_crc16_arinc(a)) % 256
  BY <1>8, <1>9, SMT
<1>12. OwnChecksumBehind(a, b, K)
  BY <1>7, <1>10, <1>11, SMT DEF OwnChecksumBehind
<1>13. la_crc16_arinc(b) = 7439
  BY <1>12, ChecksumGood, SMT
<1> QED
  BY <1>13, SMT DEF CrcGood, b, all

\* With one octet changed they are not, be it one of the checksum's own.
LEMMA ChangedIsBad ==
    ASSUME NEW imi \in DOMAIN ImiOctets, NEW octets \in Seq(Octets), NEW q \in Seq(Octets),
           Len(q) = Len(WithCrc(imi, octets)), NEW p \in 1 .. Len(q),
           q[p] # WithCrc(imi, octets)[p],
           \A i \in 1 .. Len(q) : i # p => q[i] = WithCrc(imi, octets)[i]
    PROVE  la_crc16_arinc(Protected(imi, q)) # CrcGood
<1> DEFINE all == WithCrc(imi, octets)
           a   == Protected(imi, q)
           b   == Protected(imi, all)
<1>1. PICK L \in Nat : L = Len(q) /\ L = Len(all)
  OBVIOUS
<1>2. all \in Seq(Octets) /\ la_crc16_arinc(b) = CrcGood
  BY WithCrcFacts, SentIsGood
<1> HIDE DEF all
<1>3. /\ OctetsOnly(a, 10 + L)
      /\ \A i \in 1 .. 10 : a[i] = FrontOctets(imi)[i]
      /\ \A i \in 1 .. L : a[10 + i] = q[i]
  BY <1>1, ProtectedFacts
<1>4. /\ OctetsOnly(b, 10 + L)
      /\ \A i \in 1 .. 10 : b[i] = FrontOctets(imi)[i]
      /\ \A i \in 1 .. L : b[10 + i] = all[i]
  BY <1>1, <1>2, ProtectedFacts
<1> HIDE DEF a, b
<1>5. PICK K \in Nat : K = 10 + L
  OBVIOUS
<1>6. PICK r \in 1 .. K : r = 10 + p
  BY <1>1, <1>5
<1>7. a[r] # b[r]
  <2>1. p \in 1 .. L /\ q[p] # all[p]
    BY <1>1 DEF all
  <2> QED
    BY <1>3, <1>4, <1>6, <2>1
<1>8. ASSUME NEW n \in 1 .. K, n # r  PROVE a[n] = b[n]
  <2>1. CASE n \in 1 .. 10
    BY <1>3, <1>4, <2>1
  <2>2. CASE n \in 11 .. K
    <3>1. PICK i \in 1 .. L : n = 10 + i
      BY <1>5, <2>2
    <3>2. i # p
      BY <1>6, <1>8, <3>1
    <3>3. q[i] = all[i]
      BY <1>1, <3>2 DEF all
    <3> QED
      BY <1>3, <1>4, <3>1, <3>3
  <2> QED
    BY <2>1, <2>2
<1>9. OctetsOnly(a, K) /\ OctetsOnly(b, K)
  BY <1>3, <1>4, <1>5
<1>10. la_crc16_arinc(a) # la_crc16_arinc(b)
  BY <1>7, <1>8, <1>9, OneOctetTells
<1> QED
  BY <1>2, <1>10 DEF a

-----------------------------------------------------------------------------
(***************************************************************************)
(* The digits of octets, and the octets of the digits.                     *)
(***************************************************************************)
DigitsArrived(s, octets, n) == Changed(SubSeq(Hex(WithCrc(s.imi, octets)), 1, n), s.garbled)

HalfOctet(octets, i) ==
    IF i % 2 = 1 THEN octets[(i + 1) \div 2] \div 16 ELSE octets[(i + 1) \div 2] % 16

\* Each digit that arrives is half of an octet; the garbled one is another digit.
LEMMA DigitsFacts ==
    ASSUME NEW s, NEW octets \in Seq(Octets), NEW n \in 0 .. DigitsOf(octets)
    PROVE  /\ DigitsArrived(s, octets, n) = [i \in 1 .. n |-> DigitsArrived(s, octets, n)[i]]
           /\ \A i \in 1 .. n : /\ DigitsArrived(s, octets, n)[i].kind = "digit"
                                /\ DigitsArrived(s, octets, n)[i].width = 1
           /\ \A i \in 1 .. n :
                 i <= 2 * Len(octets) =>
                    DigitsArrived(s, octets, n)[i].value =
                       IF i = s.garbled THEN (HalfOctet(octets, i) + 1) % 16
                       ELSE HalfOctet(octets, i)
           /\ \A i \in 1 .. n :
                 DigitsArrived(s, octets, n)[i].value =
                    IF i = s.garbled THEN (HalfOctet(WithCrc(s.imi, octets), i) + 1) % 16
                    ELSE HalfOctet(WithCrc(s.imi, octets), i)
<1> DEFINE crc  == TwoOctets(65535 - la_crc16_arinc(Protected(s.imi, octets)))
           V    == Octets \cup {crc[1], crc[2]}
           all  == octets \o crc
           hex  == Hex(all)
           L    == Len(octets)
<1>1. octets \in Seq(V) /\ crc \in Seq(V) /\ Len(crc) = 2 /\ L \in Nat
  BY DEF TwoOctets
<1> HIDE DEF crc, V, L
<1>2. all \in Seq(V) /\ Len(all) = L + 2 /\ \A i \in 1 .. L : all[i] = octets[i]
  <2>1. octets \in Seq(V) /\ crc \in Seq(V)
    BY <1>1
  <2>2. /\ all \in Seq(V) /\ Len(all) = Len(octets) + Len(crc)
        /\ \A i \in 1 .. Len(octets) : all[i] = octets[i]
    BY <2>1, Concatenated
  <2> HIDE DEF all
  <2> QED
    BY <1>1, <2>2 DEF L
<1>3. Len(all) = L + 2
  BY <1>2
<1> HIDE DEF all
<1> DEFINE N      == 2 * (L + 2)
           nib(i) == HalfOctet(all, i)
<1>4. hex = [i \in 1 .. N |-> nib(i)]
  BY <1>3 DEF Hex, HalfOctet
<1> DEFINE W == {nib(i) : i \in 1 .. N}
<1>5. hex \in Seq(W) /\ Len(hex) = N /\ \A i \in 1 .. N : hex[i] = nib(i)
  <2>1. N \in Nat
    BY <1>1
  <2>2. \A i \in 1 .. N : nib(i) \in W
    OBVIOUS
  <2> HIDE DEF nib, W, N, hex
  <2>3. hex = [i \in 1 .. N |-> hex[i]] /\ \A i \in 1 .. N : hex[i] = nib(i)
    BY <1>4
  <2> QED
    BY <2>1, <2>2, <2>3, IsSequence
<1> DEFINE first == SubSeq(hex, 1, n)
<1>6. Len(first) = n /\ first \in Seq(W) /\ \A i \in 1 .. n : first[i] = nib(i)
  <2>1. n \in 0 .. Len(hex)
    BY <1>5 DEF DigitsOf, L
  <2>2. Len(first) = n /\ first \in Seq(W) /\ \A i \in 1 .. n : first[i] = hex[i]
    <3> HIDE DEF hex, W
    <3> QED
      BY <1>5, <2>1, FirstOnes
  <2>3. \A i \in 1 .. n : i \in 1 .. N
    BY <1>1 DEF DigitsOf, L
  <2> QED
    BY <1>5, <2>2, <2>3
<1> HIDE DEF hex, first, W, N, nib
<1>7. DOMAIN first = 1 .. n
  BY <1>6, LenProperties
<1>8. DigitsArrived(s, octets, n) = Changed(first, s.garbled)
  BY DEF DigitsArrived, WithCrc, first, hex, all, crc
<1> DEFINE d      == Changed(first, s.garbled)
           val(i) == IF i = s.garbled THEN (first[i] + 1) % 16 ELSE first[i]
<1>9. d = [i \in 1 .. n |-> Digit(val(i))]
  BY <1>7 DEF Changed
<1> HIDE DEF d, val
<1>10. \A i \in 1 .. n : d[i] = Digit(val(i))
  BY <1>9
<1>11. d = [i \in 1 .. n |-> d[i]]
  BY <1>9
<1>12. \A i \in 1 .. n : d[i].kind = "digit" /\ d[i].width = 1 /\ d[i].value = val(i)
  <2>1. \A v : Digit(v).kind = "digit" /\ Digit(v).width = 1 /\ Digit(v).value = v
    BY DEF Digit, Token
  <2> QED
    BY <1>10, <2>1, ZenonT(40)
<1>13. ASSUME NEW i \in 1 .. n, i <= 2 * L
       PROVE  val(i) = IF i = s.garbled THEN (HalfOctet(octets, i) + 1) % 16
                       ELSE HalfOctet(octets, i)
  <2>1. (i + 1) \div 2 \in 1 .. L
    BY <1>1, <1>13
  <2>2. nib(i) = HalfOctet(octets, i)
    BY <1>2, <2>1 DEF HalfOctet, nib
  <2>3. first[i] = HalfOctet(octets, i)
    BY <1>6, <2>2
  <2> QED
    BY <2>3 DEF val
<1>14. ASSUME NEW i \in 1 .. n
       PROVE  val(i) = IF i = s.garbled THEN (HalfOctet(WithCrc(s.imi, octets), i) + 1) % 16
                       ELSE HalfOctet(WithCrc(s.imi, octets), i)
  <2>1. WithCrc(s.imi, octets) = all
    BY SMT DEF WithCrc, all, crc
  <2>2. first[i] = HalfOctet(all, i)
    BY <1>6 DEF nib
  <2> QED
    BY <2>1, <2>2 DEF val
<1> QED
  BY <1>8, <1>11, <1>12, <1>13, <1>14 DEF d, L

\* What is in front of the name.
FrontOf(s) == Prefix(s.dir, s.open.sublabel, s.open.mfi) \o s.address

\* There is no name of an application in front of the one that is sent.
LEMMA FrontFacts ==
    ASSUME NEW s, EnvelopeOf(s)
    PROVE  \E F : FrontOf(s) \in Seq(F) /\ \A x \in F : x.kind # "imi"
<1> DEFINE A == {t \in [kind : {"upper", "lower", "slash", "dot", "digit", "eol"},
                         value : Int, width : Nat] : TRUE}
           F == A \cup {UplinkSublabel, DownlinkSublabel, Mfi}
           a == IF s.open.sublabel = "none" THEN <<>>
                ELSE IF s.open.sublabel = "right" THEN <<Sublabel(s.dir)>>
                ELSE <<Sublabel(IF s.dir = "GND2AIR" THEN "AIR2GND" ELSE "GND2AIR")>>
           b == IF s.open.mfi THEN <<Mfi>> ELSE <<>>
<1>1. \A x \in F : x.kind # "imi"
  BY DEF UplinkSublabel, DownlinkSublabel, Mfi, Token
<1>2. s.address \in Seq(A)
  BY DEF EnvelopeOf, Texts
<1>3. \A dir : Sublabel(dir) \in F
  BY DEF Sublabel
<1>4. Mfi \in F
  OBVIOUS
<1> HIDE DEF F, A
<1>5. \A x \in F : <<x>> \in Seq(F)
  OBVIOUS
<1>6. <<>> \in Seq(F)
  OBVIOUS
<1>7. a \in Seq(F) /\ b \in Seq(F)
  BY <1>3, <1>4, <1>5, <1>6, Zenon
<1>8. s.address \in Seq(F)
  <2> DEFINE q == s.address
  <2>1. q \in Seq(A) /\ A \subseteq F
    BY <1>2 DEF F
  <2> HIDE DEF q
  <2>2. q \in Seq(F)
    BY <2>1, SeqMonotonic
  <2> QED
    BY <2>2 DEF q
<1>9. FrontOf(s) = (a \o b) \o s.address
  <2>1. s.open.sublabel \in {"none", "right", "wrong"}
    BY DEF EnvelopeOf, Opening
  <2> QED
    BY <2>1 DEF FrontOf, Prefix
<1> HIDE DEF a, b
<1>10. a \o b \in Seq(F)
  BY <1>7
<1>11. (a \o b) \o s.address \in Seq(F)
  BY <1>8, <1>10
<1> QED
  BY <1>1, <1>9, <1>11

\* The p-th token of a text is the first one behind some others.
Behind(txt, p, front) == p = Len(front) + 1 /\ \A i \in 1 .. Len(front) : txt[i] = front[i]

\* The text that is made of octets, the name in its place, and what follows it.
ArincShape(s, octets, n, T, p, back) ==
    /\ ArincTextOf(s, octets, n) \in Seq(T)
    /\ HoldsImi(ArincTextOf(s, octets, n), p, back)
    /\ FrontOf(s) \in Seq(T)
    /\ Behind(ArincTextOf(s, octets, n), p, FrontOf(s))
    /\ back \in Seq(T)
    /\ Len(back) = 2 + n + Len(s.more)
    /\ back[1] = Imi(s.imi) /\ back[2] = Registration
    /\ \A i \in 1 .. n : back[2 + i] = DigitsArrived(s, octets, n)[i]
    /\ \A i \in 1 .. Len(s.more) : back[2 + n + i] = s.more[i]

\* The text that is sent has the shape that the decoder looks for.
LEMMA ArincTextHolds ==
    ASSUME NEW s, EnvelopeOf(s), NEW octets \in Seq(Octets), NEW n \in 0 .. DigitsOf(octets)
    PROVE  \E T, p, back : ArincShape(s, octets, n, T, p, back)
<1> DEFINE front == FrontOf(s)
           name  == <<Imi(s.imi), Registration>>
           d     == DigitsArrived(s, octets, n)
           more  == s.more
           a     == front \o name
           b     == a \o d
           txt   == b \o more
<1>1. PICK F : front \in Seq(F) /\ \A x \in F : x.kind # "imi"
  BY FrontFacts
<1>2. /\ d = [i \in 1 .. n |-> d[i]]
      /\ \A i \in 1 .. n : d[i].kind = "digit" /\ d[i].width = 1
  BY DigitsFacts, Zenon
<1> DEFINE M == [kind : {"upper", "lower", "slash", "dot", "digit", "eol"},
                 value : Int, width : Nat]
           D == {d[i] : i \in 1 .. n}
           T == F \cup {Imi(s.imi), Registration} \cup D \cup M
<1>3. more \in Seq(M)
  BY DEF EnvelopeOf, Texts
<1>4. ArincTextOf(s, octets, n) = txt
  BY DEF ArincTextOf, FrontOf, DigitsArrived
<1> HIDE DEF d, front, more, M
<1>5. n \in Nat
  BY DEF DigitsOf
<1>6. d \in Seq(D) /\ Len(d) = n
  <2>1. \A i \in 1 .. n : d[i] \in D
    OBVIOUS
  <2> HIDE DEF D
  <2> QED
    BY <1>2, <1>5, <2>1, IsSequence
<1>7. \A x \in D : x.kind # "imi"
  BY <1>2
<1>8. \A x \in M : x.kind # "imi"
  BY DEF M
<1>9. F \subseteq T /\ D \subseteq T /\ M \subseteq T /\ Imi(s.imi) \in T /\ Registration \in T
  OBVIOUS
<1> HIDE DEF D, T
<1>10. front \in Seq(T) /\ d \in Seq(T) /\ more \in Seq(T) /\ name \in Seq(T)
  <2>1. front \in Seq(T) /\ d \in Seq(T) /\ more \in Seq(T)
    BY <1>1, <1>3, <1>6, <1>9, SeqMonotonic
  <2>2. \A x, y \in T : <<x, y>> \in Seq(T)
    OBVIOUS
  <2> QED
    BY <1>9, <2>1, <2>2, Zenon
<1>11. Len(name) = 2 /\ name[1] = Imi(s.imi) /\ name[2] = Registration
  OBVIOUS
<1> HIDE DEF name
<1> DEFINE f == Len(front)
           k == Len(more)
<1>12. f \in Nat /\ k \in Nat
  BY <1>10, LenProperties
<1>13. /\ a \in Seq(T) /\ Len(a) = f + 2
       /\ \A i \in 1 .. f : a[i] = front[i]
       /\ a[f + 1] = Imi(s.imi) /\ a[f + 2] = Registration
  <2>1. front \in Seq(T) /\ name \in Seq(T)
    BY <1>10
  <2>2. /\ a \in Seq(T) /\ Len(a) = Len(front) + Len(name)
        /\ \A i \in 1 .. Len(front) : a[i] = front[i]
        /\ \A i \in 1 .. Len(name) : a[Len(front) + i] = name[i]
    BY <2>1, Concatenated
  <2> HIDE DEF a
  <2>3. 1 \in 1 .. Len(name) /\ 2 \in 1 .. Len(name)
    BY <1>11
  <2> QED
    BY <1>11, <2>2, <2>3
<1> HIDE DEF a
<1>14. /\ b \in Seq(T) /\ Len(b) = f + 2 + n
       /\ \A i \in 1 .. f + 2 : b[i] = a[i]
       /\ \A i \in 1 .. n : b[f + 2 + i] = d[i]
  <2>1. a \in Seq(T) /\ d \in Seq(T)
    BY <1>10, <1>13
  <2>2. /\ b \in Seq(T) /\ Len(b) = Len(a) + Len(d)
        /\ \A i \in 1 .. Len(a) : b[i] = a[i]
        /\ \A i \in 1 .. Len(d) : b[Len(a) + i] = d[i]
    BY <2>1, Concatenated
  <2> HIDE DEF b, f
  <2> QED
    BY <1>6, <1>13, <2>2
<1> HIDE DEF b
<1>15. /\ txt \in Seq(T) /\ Len(txt) = f + 2 + n + k
       /\ \A i \in 1 .. f + 2 + n : txt[i] = b[i]
       /\ \A i \in 1 .. k : txt[f + 2 + n + i] = more[i]
  <2>1. b \in Seq(T) /\ more \in Seq(T)
    BY <1>10, <1>14
  <2>2. /\ txt \in Seq(T) /\ Len(txt) = Len(b) + Len(more)
        /\ \A i \in 1 .. Len(b) : txt[i] = b[i]
        /\ \A i \in 1 .. Len(more) : txt[Len(b) + i] = more[i]
    BY <2>1, Concatenated
  <2> HIDE DEF txt, f, k
  <2> QED
    BY <1>14, <2>2 DEF k
<1> HIDE DEF txt
<1>16. /\ \A i \in 1 .. f : txt[i].kind # "imi"
       /\ \A i \in 1 .. f : txt[i] = front[i]
       /\ txt[f + 1] = Imi(s.imi)
       /\ txt[f + 2] = Registration
       /\ \A i \in 1 .. n : txt[f + 2 + i] = d[i]
       /\ \A i \in 1 .. k : txt[f + 2 + n + i] = more[i]
  <2>1. ASSUME NEW i \in 1 .. f  PROVE txt[i].kind # "imi" /\ txt[i] = front[i]
    <3>1. i \in 1 .. f + 2 /\ i \in 1 .. f + 2 + n
      BY <1>5, <1>12
    <3>2. txt[i] = front[i]
      BY <1>13, <1>14, <1>15, <3>1
    <3>3. front[i] \in F
      BY <1>1, ElementOfSeq
    <3> QED
      BY <1>1, <3>2, <3>3
  <2>2. txt[f + 1] = Imi(s.imi) /\ txt[f + 2] = Registration
    <3>1. /\ f + 1 \in 1 .. f + 2 /\ f + 1 \in 1 .. f + 2 + n
          /\ f + 2 \in 1 .. f + 2 /\ f + 2 \in 1 .. f + 2 + n
      BY <1>5, <1>12
    <3> QED
      BY <1>13, <1>14, <1>15, <3>1
  <2>3. ASSUME NEW i \in 1 .. n  PROVE txt[f + 2 + i] = d[i]
    <3>1. PICK j : j = f + 2 + i
      OBVIOUS
    <3>2. j \in 1 .. f + 2 + n
      BY <1>5, <1>12, <3>1
    <3>3. txt[j] = b[j]
      BY <1>15, <3>2
    <3> QED
      BY <1>14, <3>1, <3>3
  <2> QED
    BY <1>15, <2>1, <2>2, <2>3
<1> DEFINE p    == f + 1
           L    == Len(txt)
           back == SubSeq(txt, p, L)
<1>17. p \in 1 .. L /\ p \in 1 .. L + 1 /\ L = f + 2 + n + k
  BY <1>5, <1>12, <1>15
<1>18. Registration.kind # "imi" /\ Imi(s.imi).kind = "imi"
  BY DEF Registration, Imi, Token
<1>19. ASSUME NEW i \in 1 .. L  PROVE (txt[i].kind = "imi") <=> (i = p)
  <2>1. CASE i \in 1 .. f
    BY <1>12, <1>16, <2>1
  <2>2. CASE i = f + 1
    BY <1>16, <1>18, <2>2
  <2>3. CASE i = f + 2
    BY <1>12, <1>16, <1>18, <2>3
  <2>4. CASE i \in f + 3 .. f + 2 + n
    <3>1. PICK j : j = i - f - 2
      OBVIOUS
    <3>2. j \in 1 .. n /\ i = f + 2 + j /\ i # p
      BY <1>12, <2>4, <3>1
    <3>3. txt[i] = d[j]
      BY <1>16, <3>2
    <3> QED
      BY <1>2, <3>2, <3>3
  <2>5. CASE i \in f + 3 + n .. L
    <3>1. PICK j : j = i - f - 2 - n
      OBVIOUS
    <3>2. j \in 1 .. k /\ i = f + 2 + n + j /\ i # p
      BY <1>5, <1>12, <1>17, <2>5, <3>1
    <3>3. txt[i] = more[j]
      BY <1>16, <3>2
    <3>4. more[j] \in M
      BY <1>3, <3>2, ElementOfSeq
    <3> QED
      BY <1>8, <3>2, <3>3, <3>4
  <2> QED
    BY <1>5, <1>12, <1>17, <2>1, <2>2, <2>3, <2>4, <2>5
<1>20. /\ back \in Seq(T) /\ Len(back) = L - p + 1
       /\ \A i \in 1 .. L - p + 1 : back[i] = txt[p + i - 1]
  BY <1>15, <1>17, LastOnes
<1>21. HoldsImi(txt, p, back)
  BY <1>17, <1>19 DEF HoldsImi
<1> HIDE DEF L, back
<1>22. L - p + 1 = 2 + n + k
  BY <1>5, <1>12, <1>17
<1>23. ASSUME NEW i \in 1 .. 2 + n + k  PROVE back[i] = txt[f + i]
  <2>1. p + i - 1 = f + i
    BY <1>12
  <2> QED
    BY <1>20, <1>22, <2>1
<1>24. back[1] = Imi(s.imi) /\ back[2] = Registration
  <2>1. 1 \in 1 .. 2 + n + k /\ 2 \in 1 .. 2 + n + k
    BY <1>5, <1>12
  <2> QED
    BY <1>16, <1>23, <2>1
<1>25. ASSUME NEW i \in 1 .. n  PROVE back[2 + i] = d[i]
  <2>1. PICK j : j = 2 + i
    OBVIOUS
  <2>2. j \in 1 .. 2 + n + k /\ f + j = f + 2 + i
    BY <1>5, <1>12, <2>1
  <2>3. back[j] = txt[f + j]
    BY <1>23, <2>2
  <2> QED
    BY <1>16, <2>1, <2>2, <2>3
<1>26. ASSUME NEW i \in 1 .. k  PROVE back[2 + n + i] = more[i]
  <2>1. PICK j : j = 2 + n + i
    OBVIOUS
  <2>2. j \in 1 .. 2 + n + k /\ f + j = f + 2 + n + i
    BY <1>5, <1>12, <2>1
  <2>3. back[j] = txt[f + j]
    BY <1>23, <2>2
  <2> QED
    BY <1>16, <2>1, <2>2, <2>3
<1>27. Behind(txt, p, front)
  BY <1>16 DEF Behind
<1> HIDE DEF p
<1>28. /\ txt \in Seq(T) /\ HoldsImi(txt, p, back) /\ back \in Seq(T)
       /\ front \in Seq(T) /\ Behind(txt, p, front)
       /\ Len(back) = 2 + n + Len(more) /\ back[1] = Imi(s.imi) /\ back[2] = Registration
       /\ \A i \in 1 .. n : back[2 + i] = d[i]
       /\ \A i \in 1 .. Len(more) : back[2 + n + i] = more[i]
  BY <1>10, <1>15, <1>20, <1>21, <1>22, <1>24, <1>25, <1>26, <1>27 DEF k
<1>29. ArincShape(s, octets, n, T, p, back)
  BY <1>4, <1>28 DEF d, more, front, ArincShape
<1> QED
  BY <1>29

\* Two digits make their octet again.
LEMMA OctetOfDigits ==
    ASSUME NEW octets \in Seq(Octets), NEW i \in 1 .. Len(octets)
    PROVE  16 * HalfOctet(octets, 2 * i - 1) + HalfOctet(octets, 2 * i) = octets[i]
<1>1. i \in Nat /\ octets[i] \in Octets
  BY LenProperties, ElementOfSeq
<1>2. /\ (2 * i - 1) % 2 = 1 /\ ((2 * i - 1) + 1) \div 2 = i
      /\ (2 * i) % 2 = 0 /\ (2 * i + 1) \div 2 = i
  BY <1>1
<1>3. /\ HalfOctet(octets, 2 * i - 1) = octets[i] \div 16
      /\ HalfOctet(octets, 2 * i) = octets[i] % 16
  BY <1>2 DEF HalfOctet
<1>4. ASSUME NEW o \in 0 .. 255  PROVE 16 * (o \div 16) + (o % 16) = o
  OBVIOUS
<1> QED
  BY <1>1, <1>3, <1>4 DEF Octets

\* The octets that the digits make when the envelope is decoded.
ArincOctets(d, n, q) ==
    /\ q = [i \in 1 .. n \div 2 |-> 16 * d[2 * i - 1].value + d[2 * i].value]
    /\ Len(q) = n \div 2

LEMMA ArincDigits ==
    ASSUME NEW s, ArincSending(s),
           ArincParse(Extracted(s.label, s.dir, ArincText(s))) # NoArinc
    PROVE  \E q : /\ ArincParse(Extracted(s.label, s.dir, ArincText(s))) = Checked(s.imi, q)
                 /\ ArincOctets(DigitsArrived(s, ReportsOctets(s.reports), s.digits), s.digits, q)
<1> DEFINE octets == ReportsOctets(s.reports)
           L      == Len(octets)
           n      == s.digits
           k      == Len(s.more)
           text   == Extracted(s.label, s.dir, ArincText(s))
           d      == DigitsArrived(s, octets, n)
<1>1. /\ EnvelopeOf(s) /\ s.reports \in Seq(Reports)
      /\ n \in 0 .. DigitsOf(octets)
      /\ Starts(s.more, "digit") => n = DigitsOf(octets) /\ k = 1
  BY DEF ArincSending, DigitsSent
<1>2. octets \in Seq(Octets) /\ L \in Nat
  BY <1>1, ReportsFacts
<1>3. ArincText(s) = ArincTextOf(s, octets, n)
  BY DEF ArincText
<1> HIDE DEF octets, L, n, k, text, d
<1>4. DigitsOf(octets) = 2 * (L + 2) /\ n \in Nat /\ n <= 2 * (L + 2)
  BY <1>1, <1>2 DEF DigitsOf, L
<1>5. k \in Nat /\ (k > 0 => s.more # <<>> /\ s.more[1] = Head(s.more))
  <2>1. \E M : s.more \in Seq(M)
    BY <1>1 DEF EnvelopeOf, Texts
  <2>2. PICK M : s.more \in Seq(M)
    BY <2>1
  <2>3. ASSUME NEW q \in Seq(M)
        PROVE  Len(q) \in Nat /\ (Len(q) > 0 => q # <<>> /\ q[1] = Head(q))
    OBVIOUS
  <2> QED
    BY <2>2, <2>3 DEF k
<1>6. PICK T, p, back : ArincShape(s, octets, n, T, p, back)
  BY <1>1, <1>2, ArincTextHolds
<1>7. /\ back \in Seq(T) /\ Len(back) = 2 + n + k /\ back[1] = Imi(s.imi)
      /\ \A i \in 1 .. n : back[2 + i] = d[i]
      /\ \A i \in 1 .. k : back[2 + n + i] = s.more[i]
  BY <1>6 DEF ArincShape, k, d
<1> DEFINE rest == SubSeq(back, 3, Len(back))
           q    == SlurpHexstring(rest)
<1>8. ArincParse(text) = Checked(Head(back).value, q)
  <2>1. ArincText(s) \in Seq(T) /\ HoldsImi(ArincText(s), p, back)
    BY <1>3, <1>6 DEF ArincShape
  <2>2. PICK r : text \in Seq(T) /\ HoldsImi(text, r, back)
    BY <2>1, ExtractedHolds DEF text
  <2>3. ArincParse(text) # NoArinc
    BY DEF text
  <2> QED
    BY <2>2, <2>3, ArincHolds
<1>9. Head(back).value = s.imi
  <2>1. back # <<>>
    BY <1>4, <1>5, <1>7
  <2>2. Head(back) = back[1]
    BY <1>7, <2>1
  <2> QED
    BY <1>7, <2>2 DEF Imi, Token
<1>10. /\ rest \in Seq(T) /\ Len(rest) = n + k
       /\ \A i \in 1 .. n : rest[i] = d[i]
       /\ \A i \in 1 .. k : rest[n + i] = s.more[i]
  <2>1. 3 \in 1 .. Len(back) + 1
    BY <1>4, <1>5, <1>7
  <2>2. /\ rest \in Seq(T) /\ Len(rest) = Len(back) - 3 + 1
        /\ \A i \in 1 .. Len(back) - 3 + 1 : rest[i] = back[3 + i - 1]
    BY <1>7, <2>1, LastOnes
  <2> HIDE DEF rest
  <2>3. Len(back) - 3 + 1 = n + k
    BY <1>4, <1>5, <1>7
  <2>4. ASSUME NEW i \in 1 .. n  PROVE rest[i] = d[i]
    <3>1. i \in 1 .. n + k /\ 3 + i - 1 = 2 + i
      BY <1>4, <1>5
    <3>2. rest[i] = back[3 + i - 1]
      BY <2>2, <2>3, <3>1
    <3>3. rest[i] = back[2 + i]
      BY <3>1, <3>2
    <3> QED
      BY <1>7, <3>3
  <2>5. ASSUME NEW i \in 1 .. k  PROVE rest[n + i] = s.more[i]
    <3>1. PICK j : j = n + i
      OBVIOUS
    <3>2. j \in 1 .. n + k /\ 3 + j - 1 = 2 + n + i
      BY <1>4, <1>5, <3>1
    <3>3. rest[j] = back[3 + j - 1]
      BY <2>2, <2>3, <3>2
    <3>4. rest[j] = back[2 + n + i]
      BY <3>2, <3>3
    <3> QED
      BY <1>7, <3>1, <3>4
  <2> QED
    BY <2>2, <2>3, <2>4, <2>5
<1>11. /\ \A i \in 1 .. n : d[i].kind = "digit"
       /\ \A i \in 1 .. n :
             i <= 2 * L => d[i].value = IF i = s.garbled THEN (HalfOctet(octets, i) + 1) % 16
                                        ELSE HalfOctet(octets, i)
  BY <1>1, <1>2, DigitsFacts DEF d, L
<1> DEFINE m        == n \div 2
           octet(i) == 16 * d[2 * i - 1].value + d[2 * i].value
<1>12. q = [i \in 1 .. m |-> octet(i)]
  <2> DEFINE made(i) == 16 * rest[2 * i - 1].value + rest[2 * i].value
  <2>1. n \in 0 .. Len(rest)
    BY <1>4, <1>5, <1>10
  <2>2. \A i \in 1 .. n : rest[i].kind = "digit"
    BY <1>10, <1>11
  <2>3. \/ n = Len(rest)
        \/ n < Len(rest) /\ rest[n + 1].kind # "digit"
        \/ n + 1 = Len(rest) /\ n % 2 = 0
    <3> HIDE DEF rest, q
    <3>1. CASE k = 0
      BY <1>4, <1>10, <3>1
    <3>2. CASE k > 0 /\ Head(s.more).kind # "digit"
      <4>1. 1 \in 1 .. k
        BY <1>5, <3>2
      <4>2. rest[n + 1] = Head(s.more)
        BY <1>5, <1>10, <3>2, <4>1
      <4> QED
        BY <1>4, <1>5, <1>10, <3>2, <4>2
    <3>3. CASE k > 0 /\ Head(s.more).kind = "digit"
      <4>1. n = 2 * (L + 2) /\ k = 1
        BY <1>1, <1>4, <1>5, <3>3 DEF Starts
      <4>2. n % 2 = 0
        BY <1>2, <4>1
      <4> QED
        BY <1>10, <4>1, <4>2
    <3> QED
      BY <1>5, <3>1, <3>2, <3>3
  <2>4. q = [i \in 1 .. m |-> made(i)]
    <3> HIDE DEF rest
    <3> QED
      BY <1>10, <2>1, <2>2, <2>3, Slurped
  <2>5. ASSUME NEW i \in 1 .. m  PROVE made(i) = octet(i)
    <3>1. 2 * i - 1 \in 1 .. n /\ 2 * i \in 1 .. n
      BY <1>4
    <3> HIDE DEF rest
    <3> QED
      BY <1>10, <3>1
  <2> HIDE DEF made, octet, q, m
  <2> QED
    BY <2>4, <2>5
<1> HIDE DEF q
<1>13. Len(q) = m /\ m \in Nat
  <2>1. m \in Nat
    BY <1>4
  <2> HIDE DEF octet, m
  <2>2. q = [i \in 1 .. m |-> q[i]]
    BY <1>12
  <2> DEFINE S == {q[i] : i \in 1 .. m}
  <2>3. \A i \in 1 .. m : q[i] \in S
    OBVIOUS
  <2> HIDE DEF S
  <2> QED
    BY <2>1, <2>2, <2>3, IsSequence
<1>14. ArincOctets(d, n, q)
  BY <1>12, <1>13 DEF ArincOctets
<1> QED
  BY <1>8, <1>9, <1>14 DEF text, d, octets, n

\* What is decoded of the envelope: the name that was sent, and if no digit was
\* changed the octets of the reports that arrived.
LEMMA ArincDecoded ==
    ASSUME NEW s, ArincSending(s),
           ArincParse(Extracted(s.label, s.dir, ArincText(s))) # NoArinc
    PROVE  LET parsed == ArincParse(Extracted(s.label, s.dir, ArincText(s)))
           IN  /\ parsed.imi = s.imi
               /\ OctetsArrived(s) \in 0 .. Len(ReportsOctets(s.reports))
               /\ s.garbled = 0 =>
                     parsed.octets = SubSeq(ReportsOctets(s.reports), 1, OctetsArrived(s))
<1> DEFINE octets == ReportsOctets(s.reports)
           L      == Len(octets)
           n      == s.digits
           text   == Extracted(s.label, s.dir, ArincText(s))
           d      == DigitsArrived(s, octets, n)
           a      == OctetsArrived(s)
<1>1. /\ EnvelopeOf(s) /\ s.reports \in Seq(Reports)
      /\ n \in 0 .. DigitsOf(octets)
  BY DEF ArincSending, DigitsSent
<1>2. octets \in Seq(Octets) /\ L \in Nat
  BY <1>1, ReportsFacts
<1> HIDE DEF octets, L, n, text, d
<1>3. DigitsOf(octets) = 2 * (L + 2) /\ n \in Nat /\ n <= 2 * (L + 2)
  BY <1>1, <1>2 DEF DigitsOf, L
<1>4. PICK q : ArincParse(text) = Checked(s.imi, q) /\ ArincOctets(d, n, q)
  BY ArincDigits DEF text, d, octets, n
<1>5. /\ \A i \in 1 .. n : d[i].kind = "digit"
      /\ \A i \in 1 .. n :
            i <= 2 * L => d[i].value = IF i = s.garbled THEN (HalfOctet(octets, i) + 1) % 16
                                        ELSE HalfOctet(octets, i)
  BY <1>1, <1>2, DigitsFacts DEF d, L
<1> DEFINE m        == n \div 2
           octet(i) == 16 * d[2 * i - 1].value + d[2 * i].value
<1>6. q = [i \in 1 .. m |-> octet(i)]
  BY <1>4 DEF ArincOctets
<1>7. Len(q) = m /\ m \in Nat
  BY <1>3, <1>4 DEF ArincOctets
<1>8. ArincParse(text).imi = s.imi /\ ArincParse(text).octets = SubSeq(q, 1, m - 2)
  <2>1. Checked(s.imi, q).imi = s.imi /\ Checked(s.imi, q).octets = CrcStripped(q)
    BY DEF Checked, ArincMsg
  <2> HIDE DEF m
  <2> QED
    BY <1>4, <1>7, <2>1 DEF CrcStripped, LenStripped
<1>9. a = (IF n < 4 THEN 0 ELSE m - 2) /\ a \in 0 .. L
  <2>1. a = IF n < 4 THEN 0 ELSE m - 2
    BY DEF OctetsArrived, n
  <2> HIDE DEF a
  <2> QED
    BY <1>2, <1>3, <2>1
<1> HIDE DEF a
<1>10. ASSUME s.garbled = 0  PROVE SubSeq(q, 1, m - 2) = SubSeq(octets, 1, a)
  <2>1. CASE n < 4
    <3>1. 1 > m - 2 /\ m - 2 \in Int /\ a = 0
      BY <1>3, <1>9, <2>1
    <3>2. SubSeq(octets, 1, a) = <<>>
      BY <3>1, SubSeqEmpty
    <3>3. SubSeq(q, 1, m - 2) = <<>>
      <4> HIDE DEF m
      <4> QED
        BY <3>1, SubSeqEmpty
    <3> QED
      BY <3>2, <3>3
  <2>2. CASE n >= 4
    <3>1. a = m - 2 /\ a <= m /\ a \in 0 .. m
      BY <1>3, <1>9, <2>2
    <3> DEFINE S == {q[i] : i \in 1 .. m}
               x == SubSeq(q, 1, a)
               y == SubSeq(octets, 1, a)
    <3>2. q \in Seq(S)
      <4>1. q = [i \in 1 .. m |-> q[i]] /\ m \in Nat
        <5> HIDE DEF octet, m
        <5> QED
          BY <1>6, <1>7
      <4>2. \A i \in 1 .. m : q[i] \in S
        OBVIOUS
      <4> HIDE DEF S, m
      <4> QED
        BY <4>1, <4>2, IsSequence
    <3> HIDE DEF S
    <3>3. x \in Seq(S) /\ Len(x) = a /\ \A i \in 1 .. a : x[i] = q[i]
      <4> HIDE DEF m
      <4> QED
        BY <1>7, <3>1, <3>2, FirstOnes
    <3>4. y \in Seq(Octets) /\ Len(y) = a /\ \A i \in 1 .. a : y[i] = octets[i]
      BY <1>2, <1>9, FirstOnes DEF L
    <3> HIDE DEF x, y
    <3>5. ASSUME NEW i \in 1 .. a  PROVE x[i] = y[i]
      <4>1. i \in 1 .. m /\ i \in 1 .. L
        BY <1>2, <1>7, <1>9, <3>1
      <4>2. q[i] = octet(i)
        <5> HIDE DEF octet, m
        <5> QED
          BY <1>6, <4>1
      <4>3. /\ 2 * i - 1 \in 1 .. n /\ 2 * i \in 1 .. n
            /\ 2 * i - 1 <= 2 * L /\ 2 * i <= 2 * L
            /\ 2 * i - 1 # 0 /\ 2 * i # 0
        BY <1>2, <1>3, <4>1
      <4>4. /\ d[2 * i - 1].value = HalfOctet(octets, 2 * i - 1)
            /\ d[2 * i].value = HalfOctet(octets, 2 * i)
        <5>1. PICK j, l : j = 2 * i - 1 /\ l = 2 * i
          OBVIOUS
        <5>2. j \in 1 .. n /\ l \in 1 .. n /\ j <= 2 * L /\ l <= 2 * L
              /\ j # s.garbled /\ l # s.garbled
          BY <1>10, <4>3, <5>1
        <5>3. d[j].value = HalfOctet(octets, j) /\ d[l].value = HalfOctet(octets, l)
          BY <1>5, <5>2, Zenon
        <5> QED
          BY <5>1, <5>3
      <4>5. octet(i) = octets[i]
        BY <1>2, <4>1, <4>4, OctetOfDigits DEF L
      <4> HIDE DEF octet
      <4> QED
        BY <3>3, <3>4, <4>2, <4>5
    <3>6. x = y
      BY <3>3, <3>4, <3>5, SeqEqual
    <3> HIDE DEF m
    <3> QED
      BY <3>1, <3>6 DEF x, y
  <2> HIDE DEF m
  <2>3. n < 4 \/ n >= 4
    BY <1>3
  <2> QED
    BY <2>1, <2>2, <2>3
<1> QED
  BY <1>8, <1>9, <1>10 DEF text, a, octets, L

\* A digit is half an octet: with one changed, the octet is another.
LEMMA AnotherOctet ==
    ASSUME NEW o \in Octets, NEW upper, NEW lower,
           \/ upper = ((o \div 16) + 1) % 16 /\ lower = o % 16
           \/ upper = o \div 16 /\ lower = ((o % 16) + 1) % 16
    PROVE  16 * upper + lower \in Octets /\ 16 * upper + lower # o
<1>1. PICK x, y \in 0 .. 15 : o \div 16 = x /\ o % 16 = y /\ o = 16 * x + y
  BY SMT DEF Octets
<1>2. ASSUME NEW z \in 0 .. 15  PROVE (z + 1) % 16 \in 0 .. 15 /\ (z + 1) % 16 # z
  BY SMT
<1>3. upper \in 0 .. 15 /\ lower \in 0 .. 15
  BY <1>1, <1>2, SMT
<1>4. 16 * upper + lower \in Octets
  BY <1>3, SMT DEF Octets
<1>5. \/ upper # x /\ upper \in 0 .. 15 /\ lower = y
      \/ upper = x /\ lower # y /\ lower \in 0 .. 15
  BY <1>1, <1>2, <1>3, SMT
<1> QED
  BY <1>1, <1>4, <1>5, SMT

\* Of an envelope that arrived whole, the checksum is good just when no digit was
\* changed, be it one of the checksum's own.
LEMMA ChecksumDecoded ==
    ASSUME NEW s, ArincSending(s), s.digits = DigitsSent(s),
           ArincParse(Extracted(s.label, s.dir, ArincText(s))) # NoArinc
    PROVE  ArincParse(Extracted(s.label, s.dir, ArincText(s))).crc_ok = (s.garbled = 0)
<1> DEFINE octets == ReportsOctets(s.reports)
           n      == s.digits
           g      == s.garbled
           parsed == ArincParse(Extracted(s.label, s.dir, ArincText(s)))
           d      == DigitsArrived(s, octets, n)
           all    == WithCrc(s.imi, octets)
<1>1. /\ s.imi \in DOMAIN ImiOctets /\ s.reports \in Seq(Reports)
      /\ n \in 0 .. DigitsOf(octets) /\ n = DigitsOf(octets)
      /\ g \in Nat /\ g <= n
  BY DEF ArincSending, EnvelopeOf, DigitsSent
<1>2. octets \in Seq(Octets)
  BY <1>1, ReportsFacts
<1>3. PICK q : parsed = Checked(s.imi, q) /\ ArincOctets(d, n, q)
  BY ArincDigits
<1> HIDE DEF octets, parsed, d, n, g
<1>4. PICK m \in Nat : m = Len(octets) + 2 /\ n = 2 * m
  <2>1. Len(octets) \in Nat
    BY <1>2, LenProperties
  <2> QED
    BY <1>1, <2>1 DEF DigitsOf
<1>5. all \in Seq(Octets) /\ Len(all) = m
  BY <1>1, <1>2, <1>4, WithCrcFacts
<1>6. \A i \in 1 .. n : d[i].value = IF i = g THEN (HalfOctet(all, i) + 1) % 16
                                     ELSE HalfOctet(all, i)
  <2>1. octets \in Seq(Octets) /\ n \in 0 .. DigitsOf(octets)
    BY <1>1, <1>2
  <2>2. \A i \in 1 .. n :
           DigitsArrived(s, octets, n)[i].value =
              IF i = s.garbled THEN (HalfOctet(WithCrc(s.imi, octets), i) + 1) % 16
              ELSE HalfOctet(WithCrc(s.imi, octets), i)
    <3> HIDE DEF all
    <3> QED
      BY <2>1, DigitsFacts, SMT
  <2> QED
    BY <2>2, Zenon DEF d, g, all
<1> HIDE DEF all
<1>7. /\ Len(q) = m /\ q = [i \in 1 .. m |-> q[i]]
      /\ \A i \in 1 .. m : q[i] = 16 * d[2 * i - 1].value + d[2 * i].value
  <2>1. n \div 2 = m
    BY <1>4
  <2> QED
    BY <1>3, <2>1 DEF ArincOctets
<1>8. parsed.crc_ok = (la_crc16_arinc(Protected(s.imi, q)) = CrcGood)
  BY <1>3, Zenon DEF Checked, ArincMsg, IsCrcOk, Protected
<1>9. ASSUME NEW i \in 1 .. m
      PROVE  /\ all[i] \in Octets
             /\ HalfOctet(all, 2 * i - 1) = all[i] \div 16 /\ HalfOctet(all, 2 * i) = all[i] % 16
             /\ 16 * HalfOctet(all, 2 * i - 1) + HalfOctet(all, 2 * i) = all[i]
             /\ 2 * i - 1 \in 1 .. n /\ 2 * i \in 1 .. n
  <2>1. i \in 1 .. Len(all) /\ all[i] \in Octets
    BY <1>5, ElementOfSeq
  <2>2. /\ (2 * i - 1) % 2 = 1 /\ ((2 * i - 1) + 1) \div 2 = i
        /\ (2 * i) % 2 = 0 /\ (2 * i + 1) \div 2 = i
    OBVIOUS
  <2>3. HalfOctet(all, 2 * i - 1) = all[i] \div 16 /\ HalfOctet(all, 2 * i) = all[i] % 16
    BY <2>2 DEF HalfOctet
  <2> QED
    BY <1>4, <1>5, <2>1, <2>3, OctetOfDigits
<1>10. ASSUME NEW i \in 1 .. m, 2 * i - 1 # g, 2 * i # g  PROVE q[i] = all[i]
  <2>1. PICK j, k : j = 2 * i - 1 /\ k = 2 * i
    OBVIOUS
  <2>2. d[j].value = HalfOctet(all, j) /\ d[k].value = HalfOctet(all, k)
    BY <1>6, <1>9, <1>10, <2>1
  <2> QED
    BY <1>7, <1>9, <2>1, <2>2
<1>11. ASSUME NEW i \in 1 .. m, 2 * i - 1 = g \/ 2 * i = g
       PROVE  q[i] \in Octets /\ q[i] # all[i]
  <2>1. PICK j, k : j = 2 * i - 1 /\ k = 2 * i
    OBVIOUS
  <2>2. j \in 1 .. n /\ k \in 1 .. n /\ j # k
    BY <1>4, <1>9, <2>1
  <2>3. HalfOctet(all, j) = all[i] \div 16 /\ HalfOctet(all, k) = all[i] % 16
    BY <1>9, <2>1
  <2>4. \/ d[j].value = ((all[i] \div 16) + 1) % 16 /\ d[k].value = all[i] % 16
        \/ d[j].value = all[i] \div 16 /\ d[k].value = ((all[i] % 16) + 1) % 16
    <3>1. CASE j = g
      BY <1>6, <2>2, <2>3, <3>1
    <3>2. CASE k = g
      BY <1>6, <2>2, <2>3, <3>2
    <3> QED
      BY <1>11, <2>1, <3>1, <3>2
  <2>5. all[i] \in Octets
    BY <1>9
  <2>6. 16 * d[j].value + d[k].value \in Octets /\ 16 * d[j].value + d[k].value # all[i]
    BY <2>4, <2>5, AnotherOctet
  <2> QED
    BY <1>7, <2>1, <2>6
<1>12. q \in Seq(Octets)
  <2>1. \A i \in 1 .. m : q[i] \in Octets
    BY <1>9, <1>10, <1>11
  <2> QED
    BY <1>7, <2>1, IsSequence
<1>13. CASE g = 0
  <2>1. \A i \in 1 .. m : q[i] = all[i]
    BY <1>10, <1>13
  <2>2. q = all
    BY <1>5, <1>7, <1>12, <2>1, SeqEqual
  <2>3. la_crc16_arinc(Protected(s.imi, q)) = CrcGood
    BY <1>1, <1>2, <2>2, SentIsGood DEF all
  <2> QED
    BY <1>8, <1>13, <2>3 DEF parsed, g
<1>14. CASE g # 0
  <2>1. PICK p \in 1 .. m : 2 * p - 1 = g \/ 2 * p = g
    <3>1. g \in 1 .. 2 * m
      BY <1>1, <1>4, <1>14
    <3>2. (g + 1) \div 2 \in 1 .. m /\ (2 * ((g + 1) \div 2) - 1 = g \/ 2 * ((g + 1) \div 2) = g)
      BY <3>1
    <3> QED
      BY <3>2
  <2>2. q[p] # all[p]
    BY <1>11, <2>1
  <2>3. \A i \in 1 .. m : i # p => q[i] = all[i]
    <3>1. ASSUME NEW i \in 1 .. m, i # p  PROVE 2 * i - 1 # g /\ 2 * i # g
      BY <2>1, <3>1
    <3> QED
      BY <1>10, <3>1
  <2>4. la_crc16_arinc(Protected(s.imi, q)) # CrcGood
    <3>1. /\ Len(q) = Len(WithCrc(s.imi, octets)) /\ p \in 1 .. Len(q)
          /\ q[p] # WithCrc(s.imi, octets)[p]
          /\ \A i \in 1 .. Len(q) : i # p => q[i] = WithCrc(s.imi, octets)[i]
      BY <1>5, <1>7, <2>2, <2>3 DEF all
    <3> QED
      BY <1>1, <1>2, <1>12, <3>1, ChangedIsBad
  <2> QED
    BY <1>8, <1>14, <2>4 DEF parsed, g
<1> QED
  BY <1>13, <1>14

-----------------------------------------------------------------------------
(***************************************************************************)
(* What a message is taken for: the front of the text decides, and how     *)
(* many characters there are from the name on.                             *)
(***************************************************************************)

\* Without the first token of both.
LEMMA TailBehind ==
    ASSUME NEW T, NEW txt \in Seq(T), NEW front \in Seq(T), NEW p \in 1 .. Len(txt),
           Behind(txt, p, front), front # <<>>
    PROVE  Tail(front) \in Seq(T) /\ Behind(Tail(txt), p - 1, Tail(front))
<1> DEFINE t == Tail(txt)
           r == Tail(front)
<1>1. Len(front) \in Nat /\ Len(front) > 0 /\ Len(txt) \in Nat /\ p = Len(front) + 1
  BY EmptySeq DEF Behind
<1>2. r \in Seq(T) /\ Len(r) = Len(front) - 1 /\ \A i \in 1 .. Len(front) - 1 : r[i] = front[i + 1]
  OBVIOUS
<1>3. txt # <<>>
  BY <1>1
<1>4. Len(t) = Len(txt) - 1 /\ \A i \in 1 .. Len(txt) - 1 : t[i] = txt[i + 1]
  BY <1>3
<1> HIDE DEF t, r
<1>5. p - 1 = Len(r) + 1
  BY <1>1, <1>2
<1>6. ASSUME NEW i \in 1 .. Len(r)  PROVE t[i] = r[i]
  <2>1. i \in 1 .. Len(txt) - 1 /\ i \in 1 .. Len(front) - 1 /\ i + 1 \in 1 .. Len(front)
    BY <1>1, <1>2
  <2>2. t[i] = txt[i + 1] /\ r[i] = front[i + 1] /\ txt[i + 1] = front[i + 1]
    BY <1>2, <1>4, <2>1 DEF Behind
  <2> QED
    BY <2>2
<1> QED
  BY <1>2, <1>5, <1>6 DEF Behind, t, r

\* A text that has a name in it starts with a kind of token just when the front does.
LEMMA FrontStarts ==
    ASSUME NEW T, NEW txt \in Seq(T), NEW front \in Seq(T), NEW p, NEW back,
           HoldsImi(txt, p, back), Behind(txt, p, front), NEW kind, kind # "imi"
    PROVE  /\ Starts(txt, kind) <=> Starts(front, kind)
           /\ Starts(front, kind) => front # <<>> /\ Head(txt) = Head(front) /\ txt[1].kind = kind
<1>1. /\ p \in 1 .. Len(txt) /\ p = Len(front) + 1 /\ Len(txt) \in Nat
      /\ txt[p].kind = "imi" /\ \A i \in 1 .. Len(front) : txt[i] = front[i]
  BY LenProperties DEF HoldsImi, Behind
<1>2. txt # <<>> /\ Head(txt) = txt[1]
  BY <1>1
<1>3. CASE front = <<>>
  <2>1. Len(front) = 0
    BY <1>3
  <2>2. txt[1].kind = "imi"
    BY <1>1, <2>1
  <2> QED
    BY <1>2, <1>3, <2>2 DEF Starts
<1>4. CASE front # <<>>
  <2>1. 1 \in 1 .. Len(front) /\ Head(front) = front[1]
    BY <1>4
  <2>2. txt[1] = front[1]
    BY <1>1, <2>1
  <2> QED
    BY <1>2, <1>4, <2>1, <2>2 DEF Starts
<1> QED
  BY <1>3, <1>4

\* The sublabel and the MFI are taken off the front.
LEMMA ExtractedBehind ==
    ASSUME NEW T, NEW txt \in Seq(T), NEW front \in Seq(T), NEW p, NEW back,
           HoldsImi(txt, p, back), Behind(txt, p, front), NEW label, NEW dir
    PROVE  LET text == Extracted(label, dir, txt)
               rest == Extracted(label, dir, front)
           IN  /\ text \in Seq(T) /\ rest \in Seq(T)
               /\ \E q : HoldsImi(text, q, back) /\ Behind(text, q, rest)
<1>1. HasSublabel(dir, txt) <=> HasSublabel(dir, front)
  BY FrontStarts DEF HasSublabel
<1>2. CASE label # "H1" \/ ~HasSublabel(dir, txt)
  BY <1>1, <1>2 DEF Extracted
<1>3. CASE label = "H1" /\ HasSublabel(dir, txt)
  <2> DEFINE t == Tail(txt)
             r == Tail(front)
  <2>1. Starts(front, "sublabel")
    BY <1>1, <1>3 DEF HasSublabel
  <2>2. front # <<>> /\ txt[1].kind # "imi" /\ p \in 1 .. Len(txt)
    BY <2>1, FrontStarts DEF HoldsImi
  <2>3. t \in Seq(T) /\ HoldsImi(t, p - 1, back)
    BY <2>2, TailHolds
  <2>4. r \in Seq(T) /\ Behind(t, p - 1, r)
    BY <2>2, TailBehind
  <2>5. /\ Extracted(label, dir, txt) = IF Starts(t, "mfi") THEN Tail(t) ELSE t
        /\ Extracted(label, dir, front) = IF Starts(r, "mfi") THEN Tail(r) ELSE r
    BY <1>1, <1>3 DEF Extracted
  <2> HIDE DEF t, r
  <2>6. Starts(t, "mfi") <=> Starts(r, "mfi")
    BY <2>3, <2>4, FrontStarts
  <2>7. CASE Starts(r, "mfi")
    <3>1. r # <<>> /\ t[1].kind # "imi" /\ p - 1 \in 1 .. Len(t)
      <4>1. r # <<>> /\ t[1].kind = "mfi"
        BY <2>3, <2>4, <2>7, FrontStarts
      <4>2. p - 1 \in 1 .. Len(t)
        BY <2>3 DEF HoldsImi
      <4> QED
        BY <4>1, <4>2
    <3>2. Tail(t) \in Seq(T) /\ HoldsImi(Tail(t), p - 1 - 1, back)
      BY <2>3, <3>1, TailHolds
    <3>3. Tail(r) \in Seq(T) /\ Behind(Tail(t), p - 1 - 1, Tail(r))
      BY <2>3, <2>4, <3>1, TailBehind
    <3> QED
      BY <2>5, <2>6, <2>7, <3>2, <3>3
  <2>8. CASE ~Starts(r, "mfi")
    BY <2>3, <2>4, <2>5, <2>6, <2>8
  <2> QED
    BY <2>7, <2>8
<1> QED
  BY <1>2, <1>3

\* The payload is looked for, and found, just when the front is a ground address.
LEMMA GuessDecided ==
    ASSUME NEW T, NEW txt \in Seq(T), NEW front \in Seq(T), NEW p, NEW back,
           HoldsImi(txt, p, back), Behind(txt, p, front)
    PROVE  GuessMsgType(txt) = IF GroundAddress(WithoutSlash(front)) THEN back ELSE <<>>
<1> DEFINE text == WithoutSlash(txt)
           rest == WithoutSlash(front)
<1>1. /\ text \in Seq(T) /\ rest \in Seq(T)
      /\ \E q : HoldsImi(text, q, back) /\ Behind(text, q, rest)
  <2>1. Starts(txt, "slash") <=> Starts(front, "slash")
    BY FrontStarts
  <2>2. CASE Starts(front, "slash")
    <3>1. front # <<>> /\ txt[1].kind # "imi" /\ p \in 1 .. Len(txt)
      BY <2>2, FrontStarts DEF HoldsImi
    <3>2. Tail(txt) \in Seq(T) /\ HoldsImi(Tail(txt), p - 1, back)
      BY <3>1, TailHolds
    <3>3. Tail(front) \in Seq(T) /\ Behind(Tail(txt), p - 1, Tail(front))
      BY <3>1, TailBehind
    <3> QED
      BY <2>1, <2>2, <3>2, <3>3 DEF WithoutSlash
  <2>3. CASE ~Starts(front, "slash")
    BY <2>1, <2>3 DEF WithoutSlash
  <2> QED
    BY <2>2, <2>3
<1> HIDE DEF text, rest
<1>2. PICK q : HoldsImi(text, q, back) /\ Behind(text, q, rest)
  BY <1>1
<1> DEFINE all    == {i \in 1 .. Len(text) : text[i].kind = "imi"}
           places == {i \in ImiPlaces(text) : GroundAddress(SubSeq(text, 1, i - 1))}
<1>3. q \in all /\ \A i \in all : i = q
  BY <1>2 DEF HoldsImi
<1>4. ImiPlaces(text) = {q}
  <2>1. q \in 1 .. Len(text)
    BY <1>3
  <2>2. ImiPlaces(text) = {i \in all : \A j \in all :
            text[i].value < text[j].value \/ (text[i].value = text[j].value /\ i <= j)}
    BY DEF ImiPlaces
  <2> HIDE DEF all
  <2>3. q <= q
    BY <2>1
  <2> QED
    BY <1>3, <2>2, <2>3
<1>5. SubSeq(text, 1, q - 1) = rest
  <2>1. q - 1 \in 0 .. Len(text) /\ Len(rest) = q - 1
    BY <1>1, <1>2 DEF HoldsImi, Behind
  <2>2. PICK n : n = q - 1
    OBVIOUS
  <2>3. /\ SubSeq(text, 1, n) \in Seq(T) /\ Len(SubSeq(text, 1, n)) = n
        /\ \A i \in 1 .. n : SubSeq(text, 1, n)[i] = text[i]
    BY <1>1, <2>1, <2>2, FirstOnes
  <2>4. \A i \in 1 .. n : text[i] = rest[i]
    BY <1>2, <2>1, <2>2 DEF Behind
  <2>5. SubSeq(text, 1, n) = rest
    BY <1>1, <2>1, <2>2, <2>3, <2>4, SeqEqual
  <2> QED
    BY <2>2, <2>5
<1>6. places = IF GroundAddress(rest) THEN {q} ELSE {}
  BY <1>4, <1>5
<1>7. GuessMsgType(txt) = IF places = {} THEN <<>>
                          ELSE SubSeq(text, CHOOSE i \in places : TRUE, Len(text))
  BY DEF GuessMsgType, text
<1> HIDE DEF places
<1>8. CASE GroundAddress(rest)
  <2>1. (CHOOSE i \in places : TRUE) = q /\ places # {}
    BY <1>6, <1>8
  <2> QED
    BY <1>2, <1>7, <1>8, <2>1 DEF HoldsImi, rest
<1>9. CASE ~GroundAddress(rest)
  BY <1>6, <1>7, <1>9 DEF rest
<1> QED
  BY <1>8, <1>9

\* What follows the address is as wide as the name, the registration, the digits and
\* the rest.
LEMMA PayloadWidth ==
    ASSUME NEW s, EnvelopeOf(s), NEW octets \in Seq(Octets), NEW n \in 0 .. DigitsOf(octets),
           NEW T, NEW p, NEW back, ArincShape(s, octets, n, T, p, back)
    PROVE  Width(back) = 11 + n + Width(s.more) /\ Width(s.more) \in Int
<1> DEFINE k    == Len(s.more)
           more == s.more
           d    == DigitsArrived(s, octets, n)
           g    == WidthTo(back)
           h    == WidthTo(more)
           m    == 2 + n + k
<1>1. /\ n \in Nat /\ k \in Nat /\ \A i \in 1 .. k : more[i].width \in Nat
  <2> DEFINE M == [kind : {"upper", "lower", "slash", "dot", "digit", "eol"},
                   value : Int, width : Nat]
  <2>1. more \in Seq(M)
    BY DEF EnvelopeOf, Texts
  <2>2. \A x \in M : x.width \in Nat
    OBVIOUS
  <2> HIDE DEF M, more
  <2>3. Len(more) \in Nat /\ \A i \in 1 .. Len(more) : more[i] \in M
    BY <2>1, LenProperties, ElementOfSeq
  <2> QED
    BY <2>2, <2>3 DEF DigitsOf, more
<1>2. /\ Len(back) = m /\ back[1].width = 4 /\ back[2].width = 7
      /\ \A i \in 1 .. n : back[2 + i] = d[i]
      /\ \A i \in 1 .. k : back[2 + n + i] = more[i]
  BY DEF ArincShape, Imi, Registration, Token
<1>3. \A i \in 1 .. n : d[i].width = 1
  BY DigitsFacts, Zenon
<1> HIDE DEF d, k, more
<1>4. m \in Nat
  BY <1>1
<1>5. g[0] = 0 /\ \A i \in 1 .. m : g[i] = g[i - 1] + back[i].width
  <2> HIDE DEF m
  <2> QED
    BY <1>2, <1>4, WidthSteps
<1>6. h[0] = 0 /\ \A i \in 1 .. k : h[i] = h[i - 1] + more[i].width
  BY <1>1, WidthSteps DEF k, more
<1> HIDE DEF g, h
<1>7. g[2] = 11
  <2>1. 1 \in 1 .. m /\ 2 \in 1 .. m
    BY <1>1
  <2>2. g[1] = g[0] + 4 /\ g[2] = g[1] + 7
    <3> HIDE DEF m
    <3>1. g[1] = g[1 - 1] + 4 /\ g[2] = g[2 - 1] + 7
      BY <1>2, <1>5, <2>1
    <3> QED
      BY <3>1
  <2> QED
    BY <1>5, <2>2
<1> DEFINE S == {i \in 0 .. n : g[2 + i] = 11 + i}
<1>8. g[2 + n] = 11 + n
  <2>1. 0 \in S
    BY <1>1, <1>7
  <2>2. ASSUME NEW i \in 0 .. n - 1, i \in S  PROVE i + 1 \in S
    <3>1. PICK j : j = 2 + (i + 1)
      OBVIOUS
    <3>2. j \in 1 .. m /\ j - 1 = 2 + i /\ i + 1 \in 1 .. n /\ i + 1 \in 0 .. n
      BY <1>1, <3>1
    <3>3. back[j].width = 1
      BY <1>2, <1>3, <3>1, <3>2
    <3>4. g[j] = g[j - 1] + 1
      <4> HIDE DEF m
      <4> QED
        BY <1>5, <3>2, <3>3
    <3>5. g[2 + i] = 11 + i
      BY <2>2
    <3> QED
      BY <3>1, <3>2, <3>4, <3>5
  <2>3. \A i \in 0 .. n : i \in S
    <3> HIDE DEF S
    <3> QED
      BY <1>1, <2>1, <2>2, UpTo
  <2> QED
    BY <1>1, <2>3
<1> DEFINE R == {i \in 0 .. k : g[2 + n + i] = 11 + n + h[i] /\ h[i] \in Int}
<1>9. g[m] = 11 + n + h[k] /\ h[k] \in Int
  <2>1. 0 \in R
    BY <1>1, <1>6, <1>8
  <2>2. ASSUME NEW i \in 0 .. k - 1, i \in R  PROVE i + 1 \in R
    <3>1. PICK j : j = 2 + n + (i + 1)
      OBVIOUS
    <3>2. j \in 1 .. m /\ j - 1 = 2 + n + i /\ i + 1 \in 1 .. k /\ i + 1 \in 0 .. k
      BY <1>1, <3>1
    <3>3. back[j] = more[i + 1]
      BY <1>2, <3>1, <3>2
    <3>4. g[j] = g[j - 1] + more[i + 1].width /\ more[i + 1].width \in Nat
      <4> HIDE DEF m
      <4> QED
        BY <1>1, <1>5, <3>2, <3>3
    <3>5. h[i + 1] = h[i] + more[i + 1].width
      <4>1. i + 1 - 1 = i
        BY <1>1
      <4> QED
        BY <1>6, <3>2, <4>1
    <3>6. g[2 + n + i] = 11 + n + h[i] /\ h[i] \in Int
      BY <2>2
    <3> QED
      BY <1>1, <3>1, <3>2, <3>4, <3>5, <3>6
  <2>3. \A i \in 0 .. k : i \in R
    <3> HIDE DEF R
    <3> QED
      BY <1>1, <2>1, <2>2, UpTo
  <2> QED
    BY <1>1, <2>3
<1>10. Width(back) = g[Len(back)] /\ Width(more) = h[k]
  BY WidthIsLast DEF g, h, k, more
<1> HIDE DEF m
<1> QED
  BY <1>2, <1>9, <1>10 DEF more

\* A token that is no letter makes no ground address.
LEMMA NoAddress ==
    ASSUME NEW T, NEW x, NEW front \in Seq(T), <<x>> \o front \in Seq(T),
           x.kind = "mfi" \/ x.kind = "sublabel"
    PROVE  ~GroundAddress(WithoutSlash(<<x>> \o front))
<1> DEFINE q == <<x>> \o front
<1>1. q # <<>> /\ q[1] = x /\ Head(q) = x /\ 1 \in DOMAIN q
  <2>1. Len(front) \in Nat
    BY LenProperties
  <2>2. Len(q) = 1 + Len(front) /\ q[1] = x
    BY <2>1
  <2>3. 1 \in 1 .. Len(q)
    BY <2>1, <2>2
  <2> HIDE DEF q
  <2> QED
    BY <2>2, <2>3
<1> HIDE DEF q
<1>2. WithoutSlash(q) = q
  BY <1>1 DEF WithoutSlash, Starts
<1> QED
  BY <1>1, <1>2 DEF GroundAddress, q

\* What is in front of the name is taken for an address just when it is one and the
\* decoder gets to it.
LEMMA FrontDecided ==
    ASSUME NEW s, EnvelopeOf(s)
    PROVE  GroundAddress(WithoutSlash(Extracted(s.label, s.dir, FrontOf(s))))
              <=> Opened(s) /\ Addressed(s)
<1> DEFINE address == s.address
           sub     == s.open.sublabel
           M       == [kind : {"upper", "lower", "slash", "dot", "digit", "eol"},
                       value : Int, width : Nat]
           T       == M \cup {UplinkSublabel, DownlinkSublabel, Mfi}
<1>1. /\ address \in Seq(M) /\ sub \in {"none", "right", "wrong"} /\ s.open.mfi \in BOOLEAN
      /\ s.open = [sublabel |-> sub, mfi |-> s.open.mfi] /\ s.dir \in MsgDir
  BY DEF EnvelopeOf, Texts, Opening
<1>2. /\ UplinkSublabel \in T /\ DownlinkSublabel \in T /\ Mfi \in T /\ M \subseteq T
      /\ UplinkSublabel.kind = "sublabel" /\ DownlinkSublabel.kind = "sublabel"
      /\ UplinkSublabel.value = 0 /\ DownlinkSublabel.value = 1
      /\ Mfi.kind = "mfi"
      /\ \A x \in M : x.kind # "sublabel" /\ x.kind # "mfi"
  BY DEF UplinkSublabel, DownlinkSublabel, Mfi, Token
<1> HIDE DEF M, T
<1>3. address \in Seq(T)
  BY <1>1, <1>2, SeqMonotonic
<1>4. address # <<>> => Head(address).kind # "sublabel" /\ Head(address).kind # "mfi"
  <2>1. address # <<>> => Head(address) \in M
    BY <1>1
  <2> QED
    BY <1>2, <2>1
<1>5. ~Starts(address, "sublabel") /\ ~Starts(address, "mfi")
  BY <1>4 DEF Starts
<1>6. Sublabel(s.dir) \in T /\ Sublabel(s.dir).kind = "sublabel"
  BY <1>2 DEF Sublabel
<1>7. GroundAddress(WithoutSlash(address)) <=> Addressed(s)
  BY DEF GroundAddress, Addressed
<1>8. s.open = NoOpening <=> sub = "none" /\ ~s.open.mfi
  <2>1. NoOpening.sublabel = "none" /\ NoOpening.mfi = FALSE
    BY DEF NoOpening
  <2>2. ASSUME sub = "none", ~s.open.mfi  PROVE s.open = NoOpening
    <3>1. s.open.mfi = FALSE
      BY <1>1, <2>2
    <3> QED
      BY <1>1, <2>2, <3>1, Zenon DEF NoOpening
  <2> QED
    BY <2>1, <2>2, Zenon
<1>9. ASSUME NEW x \in T, NEW q \in Seq(T)
      PROVE  /\ <<x>> \o q \in Seq(T) /\ <<x>> \o q # <<>>
             /\ Head(<<x>> \o q) = x /\ Tail(<<x>> \o q) = q
  <2>1. <<x>> \in Seq(T)
    OBVIOUS
  <2>2. <<x>> \o q \in Seq(T) /\ <<x>> \o q # <<>> /\ Head(<<x>> \o q) = x
    BY <2>1
  <2>3. Tail(<<x>> \o q) = q
    BY <2>1
  <2> QED
    BY <2>2, <2>3
<1> DEFINE prefixed == Extracted(s.label, s.dir, FrontOf(s))
           rest == IF s.open.mfi THEN <<Mfi>> \o address ELSE address
<1> HIDE DEF address
<1>10. rest \in Seq(T) /\ (s.open.mfi => Starts(rest, "mfi") /\ Tail(rest) = address)
       /\ (~s.open.mfi => ~Starts(rest, "mfi") /\ rest = address)
       /\ ~Starts(rest, "sublabel")
  <2>1. CASE s.open.mfi
    <3>1. rest = <<Mfi>> \o address
      BY <2>1
    <3>2. rest \in Seq(T) /\ rest # <<>> /\ Head(rest) = Mfi /\ Tail(rest) = address
      BY <1>2, <1>3, <1>9, <3>1
    <3> HIDE DEF rest
    <3> QED
      BY <1>2, <2>1, <3>2 DEF Starts
  <2>2. CASE ~s.open.mfi
    BY <1>3, <1>5, <2>2
  <2> QED
    BY <2>1, <2>2
<1>11. CASE sub = "none"
  <2>1. FrontOf(s) = rest
    <3>1. FrontOf(s) = (<<>> \o (IF s.open.mfi THEN <<Mfi>> ELSE <<>>)) \o address
      BY <1>11 DEF FrontOf, Prefix, address
    <3>2. <<>> \o <<Mfi>> = <<Mfi>> /\ <<>> \o <<>> = <<>> /\ <<>> \o address = address
      BY <1>3
    <3> QED
      BY <3>1, <3>2
  <2>2. prefixed = rest
    BY <1>10, <2>1 DEF Extracted, HasSublabel
  <2>3. CASE s.open.mfi
    <3>1. ~GroundAddress(WithoutSlash(rest))
      <4>1. <<Mfi>> \o address \in Seq(T)
        BY <1>2, <1>3, <1>9
      <4> QED
        BY <1>2, <1>3, <2>3, <4>1, NoAddress
    <3>2. ~Opened(s)
      BY <1>8, <1>11, <2>3 DEF Opened
    <3> QED
      BY <2>2, <3>1, <3>2
  <2>4. CASE ~s.open.mfi
    <3>1. Opened(s)
      BY <1>8, <1>11, <2>4 DEF Opened
    <3> QED
      BY <1>7, <1>10, <2>2, <2>4, <3>1 DEF address
  <2> QED
    BY <2>3, <2>4
<1>12. ASSUME NEW x \in T, x.kind = "sublabel", FrontOf(s) = <<x>> \o rest,
              s.label # "H1" \/ x.value # Sublabel(s.dir).value
       PROVE  ~GroundAddress(WithoutSlash(prefixed))
  <2>1. prefixed = FrontOf(s)
    <3>1. Head(FrontOf(s)) = x
      BY <1>9, <1>10, <1>12
    <3> QED
      BY <1>12, <3>1 DEF Extracted, HasSublabel
  <2>2. <<x>> \o rest \in Seq(T)
    BY <1>9, <1>10, <1>12
  <2> HIDE DEF rest
  <2> QED
    BY <1>10, <1>12, <2>1, <2>2, NoAddress
<1>13. ASSUME NEW x, FrontOf(s) = (<<x>> \o (IF s.open.mfi THEN <<Mfi>> ELSE <<>>)) \o address,
              x \in T
       PROVE  FrontOf(s) = <<x>> \o rest
  <2>1. <<x>> \in Seq(T) /\ <<Mfi>> \in Seq(T) /\ <<>> \in Seq(T)
    BY <1>2, <1>13
  <2>2. (<<x>> \o <<Mfi>>) \o address = <<x>> \o (<<Mfi>> \o address)
    BY <1>3, <2>1, ConcatAssociative
  <2>3. <<x>> \o <<>> = <<x>>
    BY <2>1
  <2> QED
    BY <1>13, <2>2, <2>3
<1>14. CASE sub = "right"
  <2> DEFINE x == Sublabel(s.dir)
  <2>1. FrontOf(s) = <<x>> \o rest
    <3>1. FrontOf(s) = (<<x>> \o (IF s.open.mfi THEN <<Mfi>> ELSE <<>>)) \o address
      BY <1>14 DEF FrontOf, Prefix, address
    <3> QED
      BY <1>6, <1>13, <3>1
  <2>2. CASE s.label # "H1"
    <3>1. ~GroundAddress(WithoutSlash(prefixed))
      BY <1>6, <1>12, <2>1, <2>2
    <3>2. ~Opened(s)
      BY <1>8, <1>14, <2>2 DEF Opened
    <3> QED
      BY <3>1, <3>2
  <2>3. CASE s.label = "H1"
    <3>1. FrontOf(s) # <<>> /\ Head(FrontOf(s)) = x /\ Tail(FrontOf(s)) = rest
      BY <1>6, <1>9, <1>10, <2>1
    <3>2. HasSublabel(s.dir, FrontOf(s))
      BY <1>6, <3>1 DEF HasSublabel, Starts
    <3>3. prefixed = IF Starts(rest, "mfi") THEN Tail(rest) ELSE rest
      <4> HIDE DEF rest, x
      <4> QED
        BY <2>3, <3>1, <3>2 DEF Extracted
    <3>4. prefixed = address
      BY <1>1, <1>10, <3>3
    <3>5. Opened(s)
      BY <1>14, <2>3 DEF Opened
    <3> QED
      BY <1>7, <3>4, <3>5 DEF address
  <2> QED
    BY <2>2, <2>3
<1>15. CASE sub = "wrong"
  <2> DEFINE x == Sublabel(IF s.dir = "GND2AIR" THEN "AIR2GND" ELSE "GND2AIR")
  <2>1. x \in T /\ x.kind = "sublabel" /\ x.value # Sublabel(s.dir).value
    BY <1>1, <1>2 DEF Sublabel, MsgDir
  <2>2. FrontOf(s) = <<x>> \o rest
    <3>1. FrontOf(s) = (<<x>> \o (IF s.open.mfi THEN <<Mfi>> ELSE <<>>)) \o address
      BY <1>15 DEF FrontOf, Prefix, address
    <3> QED
      BY <1>13, <2>1, <3>1
  <2>3. ~GroundAddress(WithoutSlash(prefixed))
    <3> HIDE DEF rest, x, prefixed
    <3> QED
      BY <1>12, <2>1, <2>2
  <2>4. ~Opened(s)
    BY <1>8, <1>15 DEF Opened
  <2> QED
    BY <2>3, <2>4
<1> QED
  BY <1>1, <1>11, <1>14, <1>15

\* A message is taken for one of ARINC 622 just when it is addressed, the decoder
\* gets to it, and there is room for a checksum.
LEMMA ArincTaken ==
    ASSUME NEW s, ArincSending(s)
    PROVE  ArincParse(Extracted(s.label, s.dir, ArincText(s))) # NoArinc
              <=> Opened(s) /\ Addressed(s) /\ s.digits + Width(s.more) >= 4
<1> DEFINE octets == ReportsOctets(s.reports)
           n      == s.digits
           txt    == ArincText(s)
           front  == FrontOf(s)
           text   == Extracted(s.label, s.dir, txt)
           rest   == Extracted(s.label, s.dir, front)
           ground == GroundAddress(WithoutSlash(rest))
<1>1. /\ EnvelopeOf(s) /\ s.reports \in Seq(Reports)
      /\ n \in 0 .. DigitsOf(octets) /\ s.imi \in 1 .. 6
  BY DEF ArincSending, DigitsSent, EnvelopeOf, ImiOctets
<1>2. octets \in Seq(Octets)
  BY <1>1, ReportsFacts
<1>3. txt = ArincTextOf(s, octets, n)
  BY DEF ArincText
<1> HIDE DEF octets, n, txt, front
<1>4. PICK T, p, back : ArincShape(s, octets, n, T, p, back)
  BY <1>1, <1>2, ArincTextHolds
<1>5. /\ txt \in Seq(T) /\ front \in Seq(T) /\ HoldsImi(txt, p, back) /\ Behind(txt, p, front)
      /\ back \in Seq(T) /\ Len(back) = 2 + n + Len(s.more) /\ back[1].value = s.imi
  BY <1>3, <1>4 DEF ArincShape, front, Imi, Token
<1>6. /\ text \in Seq(T) /\ rest \in Seq(T)
      /\ \E q : HoldsImi(text, q, back) /\ Behind(text, q, rest)
  BY <1>5, ExtractedBehind
<1> HIDE DEF text, rest
<1>7. GuessMsgType(text) = IF ground THEN back ELSE <<>>
  BY <1>6, GuessDecided
<1>8. ground <=> Opened(s) /\ Addressed(s)
  BY <1>1, FrontDecided DEF rest, front
<1> HIDE DEF ground
<1>9. Width(back) = 11 + n + Width(s.more) /\ Width(s.more) \in Int /\ n \in Int
  BY <1>1, <1>2, <1>4, PayloadWidth DEF DigitsOf
<1>10. back # <<>> /\ Head(back).value = s.imi
  <2>1. p \in 1 .. Len(txt) /\ SubSeq(txt, p, Len(txt)) = back
    BY <1>5 DEF HoldsImi
  <2>2. Len(back) = Len(txt) - p + 1 /\ Len(txt) \in Nat
    BY <1>5, <2>1, LastOnes
  <2>3. Len(back) > 0
    BY <2>1, <2>2
  <2> QED
    BY <1>5, <2>3
<1>11. \A q : Checked(s.imi, q) # NoArinc
  <2>1. NoArinc.imi = 0 /\ \A q : Checked(s.imi, q).imi = s.imi
    BY DEF NoArinc, Checked, ArincMsg
  <2>2. s.imi # 0
    BY <1>1
  <2> QED
    BY <2>1, <2>2, Zenon
<1>12. CASE ground
  <2>1. ArincParse(text) = IF Width(back) - 1 < MinPayload THEN NoArinc
                           ELSE Checked(s.imi, SlurpHexstring(SubSeq(back, 3, Len(back))))
    BY <1>7, <1>10, <1>12, Zenon DEF ArincParse, PayloadParse
  <2>2. Width(back) - 1 < MinPayload <=> ~(n + Width(s.more) >= 4)
    BY <1>9 DEF MinPayload
  <2>3. ArincParse(text) # NoArinc <=> n + Width(s.more) >= 4
    BY <1>11, <2>1, <2>2, Zenon
  <2> QED
    BY <1>8, <1>12, <2>3 DEF text, txt, n
<1>13. CASE ~ground
  <2>1. ArincParse(text) = NoArinc
    BY <1>7, <1>13 DEF ArincParse, PayloadParse
  <2> QED
    BY <1>8, <1>13, <2>1 DEF text, txt
<1> QED
  BY <1>12, <1>13

\* Under any label, with or without a sublabel and an MFI, to any address: a message of
\* ARINC 622 is recognised just when it should be, as what it was sent as.
THEOREM ArincTakenAsSent == SenderSpec => []ArincRecognised
<1>1. ASSUME NodeAsDecoded  PROVE ArincRecognised
  <2>1. SUFFICES ASSUME Returned, sent.app = "arinc"
                 PROVE  /\ (node.app = "arinc") = IsArincSent(sent)
                        /\ node.app = "arinc" => node.msg.imi = sent.imi
    BY Zenon DEF ArincRecognised
  <2> DEFINE text == Extracted(sent.label, sent.dir, ArincText(sent))
  <2>2. ArincSending(sent) /\ node = NodeOf(sent.label, sent.dir, ArincText(sent))
    BY <1>1, <2>1, SendingIsSending DEF Returned
  <2>3. /\ node.app = "arinc" => /\ sent.label \in ArincLabels
                                 /\ ArincParse(text) # NoArinc
                                 /\ node.msg = ArincParse(text)
        /\ sent.label \in ArincLabels /\ ArincParse(text) # NoArinc => node.app = "arinc"
    BY <2>2, NodeOfText
  <2>4. ArincParse(text) # NoArinc
           <=> Opened(sent) /\ Addressed(sent) /\ sent.digits + Width(sent.more) >= 4
    BY <2>2, ArincTaken
  <2>5. ArincParse(text) # NoArinc => ArincParse(text).imi = sent.imi
    BY <2>2, ArincDecoded
  <2> HIDE DEF text
  <2>6. node.app = "arinc" <=> IsArincSent(sent)
    BY <2>3, <2>4, Zenon DEF IsArincSent, TakenForArinc
  <2>7. IsArincSent(sent) \in BOOLEAN
    BY DEF IsArincSent, TakenForArinc
  <2> QED
    BY <2>3, <2>5, <2>6, <2>7
<1> QED
  BY <1>1, NodeDecoded, PTL

\* Of a message that arrives whole, whatever its octets are, the checksum is good just
\* when no digit of it was changed.
THEOREM WholeIsChecked == SenderSpec => []ArincWholeChecked
<1>1. ASSUME NodeAsDecoded  PROVE ArincWholeChecked
  <2>1. SUFFICES ASSUME IsArincNode, sent.digits = DigitsSent(sent)
                 PROVE  node.msg.crc_ok = (sent.garbled = 0)
    BY Zenon DEF ArincWholeChecked
  <2> DEFINE text == Extracted(sent.label, sent.dir, ArincText(sent))
  <2>2. ArincSending(sent) /\ node = NodeOf(sent.label, sent.dir, ArincText(sent))
    BY <1>1, <2>1, SendingIsSending DEF IsArincNode, Returned
  <2>3. ArincParse(text) # NoArinc /\ node.msg = ArincParse(text)
    BY <2>1, <2>2, NodeOfText DEF IsArincNode
  <2>4. ArincParse(text).crc_ok = (sent.garbled = 0)
    BY <2>1, <2>2, <2>3, ChecksumDecoded, Zenon
  <2> QED
    BY <2>3, <2>4, Zenon
<1> QED
  BY <1>1, NodeDecoded, PTL

-----------------------------------------------------------------------------
\* The parser follows the reports of the message that is being decoded.
SendingFollowed ==
    node # NoNode /\ IsAdscNode(sent) /\ sent.garbled = 0 =>
        \E dir, reports, a :
            /\ dir = sent.dir /\ reports = sent.reports /\ a = OctetsArrived(sent)
            /\ Followed(dir, reports, a)

\* It does so from the moment the message is sent.
LEMMA SendingBegins ==
    ASSUME NEW s \in Sendings, Send(s)
    PROVE  SendingFollowed'
<1>1. SUFFICES ASSUME s.app = "arinc", node'.app = "arinc", s.imi = ADS, s.garbled = 0
               PROVE  SendingFollowed'
  BY DEF SendingFollowed, IsAdscNode, Send
<1> DEFINE text == Extracted(s.label, s.dir, ArincText(s))
           parsed == AppNode(s.label, text)
<1>2. ArincSending(s) /\ TextSent(s) = ArincText(s)
  BY <1>1, SendingsAssumption DEF Sending, TextSent
<1>3. DecodeApps(s.label, s.dir, ArincText(s)) /\ sent' = s
  BY <1>2 DEF Send
<1>4. node' = NodeOf(s.label, s.dir, ArincText(s))
  BY <1>3 DEF DecodeApps, NodeOf
<1>5. ArincParse(text) # NoArinc /\ parsed = Node("arinc", ArincParse(text))
  BY <1>1, <1>4, NodeOfText
<1>6. /\ ArincParse(text).imi = ADS
      /\ OctetsArrived(s) \in 0 .. Len(ReportsOctets(s.reports))
      /\ ArincParse(text).octets = SubSeq(ReportsOctets(s.reports), 1, OctetsArrived(s))
  BY <1>1, <1>2, <1>5, ArincDecoded
<1>7. Arriving(s.dir, s.reports, OctetsArrived(s))
  BY <1>1, <1>2, <1>6 DEF Arriving, ArincSending
<1>8. parsed.app = "arinc" /\ parsed.msg = ArincParse(text)
  BY <1>5 DEF Node
<1> HIDE DEF text, parsed
<1>9. IsAdsc(parsed) /\ AdscName(parsed.msg.imi) = "ADS"
  BY <1>6, <1>8 DEF IsAdsc, AdscName
<1>10. AdscParse([octets |-> parsed.msg.octets, imi |-> "ADS", dir |-> s.dir])
  BY <1>3, <1>9 DEF DecodeApps, parsed, text
<1>11. PICK dir, reports, a : dir = s.dir /\ reports = s.reports /\ a = OctetsArrived(s)
  OBVIOUS
<1>12. Followed(dir, reports, a)'
  <2>1. Arriving(dir, reports, a) /\ parsed.msg.octets = SubSeq(ReportsOctets(reports), 1, a)
    BY <1>6, <1>7, <1>8, <1>11
  <2>2. AdscParse([octets |-> parsed.msg.octets, imi |-> "ADS", dir |-> dir])
    BY <1>10, <1>11
  <2> QED
    BY <2>1, <2>2, AdscBegins
<1> QED
  BY <1>3, <1>11, <1>12 DEF SendingFollowed

\* It does so always: this is the inductive invariant behind ReportsDecoded.
LEMMA SendingFollows == SenderSpec => []SendingFollowed
<1>1. SenderInit => SendingFollowed
  BY DEF SenderInit, AppsInit, SendingFollowed
<1>2. SendingFollowed /\ [SenderNext]_senderVars => SendingFollowed'
  <2>1. SUFFICES ASSUME SendingFollowed, SenderNext \/ UNCHANGED senderVars
                 PROVE  SendingFollowed'
    BY Zenon
  <2>2. ASSUME NEW s \in Sendings, Send(s)  PROVE SendingFollowed'
    BY <2>2, SendingBegins
  <2>3. CASE TreeDestroy /\ sent' = Nothing
    BY <2>3 DEF TreeDestroy, SendingFollowed
  <2>4. ASSUME UNCHANGED <<node, sent>>,
               \A dir, reports, a : Followed(dir, reports, a) => Followed(dir, reports, a)'
        PROVE  SendingFollowed'
    BY <2>1, <2>4 DEF SendingFollowed, IsAdscNode
  <2>5. CASE AdscParserStep /\ UNCHANGED sent
    BY <2>4, <2>5, StepFollows DEF AdscParserStep
  <2>6. CASE UNCHANGED senderVars
    BY <2>4, <2>6, FollowedStays DEF senderVars, appsVars
  <2> QED
    BY <2>1, <2>2, <2>3, <2>5, <2>6 DEF SenderNext
<1> QED
  BY <1>1, <1>2, PTL DEF SenderSpec

\* From any reports, cut after any octet, the parser of ADS-C gets the tags of the
\* whole ones and marks as an error, at its tag, the one that is cut or bad.
THEOREM ReportsDecoded == SenderSpec => []AllAsSent
<1>1. ASSUME SendingFollowed  PROVE AllAsSent
  <2>1. SUFFICES ASSUME Returned, IsAdscNode(sent), sent.garbled = 0
                 PROVE  AsSent(sent.dir, sent.reports, OctetsArrived(sent))
    BY DEF AllAsSent
  <2>2. PICK dir, reports, a :
            /\ dir = sent.dir /\ reports = sent.reports /\ a = OctetsArrived(sent)
            /\ Followed(dir, reports, a)
    BY <1>1, <2>1 DEF SendingFollowed, Returned
  <2>3. adsc_pc = "done"
    BY <2>1, <2>2 DEF Returned, InParser, Followed
  <2> QED
    BY <2>2, <2>3 DEF Followed
<1> QED
  BY <1>1, SendingFollows, PTL

-----------------------------------------------------------------------------
(***************************************************************************)
(* OHMA: what a text of blocks looks like.                                 *)
(***************************************************************************)
OhmaTokens ==
    [kind : {"slash", "upper", "dot", "mark", "quad", "quad_cut", "eol"},
     value : Int, width : Nat \ {0}]

OhmaPrefixes == {<<>>, <<Slash, Upper(2), Dot>>, <<Slash, Upper(7), Dot>>}

OhmaBlock(prefix, first) == prefix \o <<OhmaMark(1)>> \o Quads(1, first)

BlockLength(prefix, first) == Len(prefix) + 1 + first

\* A dot is there only behind an address.
DotsBehindAddress(txt) ==
    \A i \in 1 .. Len(txt) : txt[i].kind = "dot" => i > 1 /\ txt[i - 1].kind = "upper"

\* The tokens that messages are made of.
LEMMA OhmaTokensFacts ==
    /\ Slash \in OhmaTokens /\ Dot \in OhmaTokens
    /\ Upper(2) \in OhmaTokens /\ Upper(7) \in OhmaTokens
    /\ OhmaMark(1) \in OhmaTokens /\ Eol \in OhmaTokens
    /\ \A i \in Nat : Quad(i) \in OhmaTokens
    /\ \A i \in Nat \ {0} : QuadCut(i) \in OhmaTokens
BY DEF OhmaTokens, Slash, Dot, Upper, OhmaMark, Eol, Quad, QuadCut, Token

\* The prefix is empty or it is an address between a slash and a dot.
LEMMA PrefixFacts ==
    ASSUME NEW prefix \in OhmaPrefixes
    PROVE  /\ prefix \in Seq(OhmaTokens)
           /\ Len(prefix) \in {0, 3}
           /\ Len(prefix) = 3 => /\ prefix[1] = Slash /\ prefix[3] = Dot
                                 /\ prefix[2] \in {Upper(2), Upper(7)}
<1>1. CASE prefix = <<>>
  BY <1>1
<1>2. ASSUME NEW u \in {Upper(2), Upper(7)}, prefix = <<Slash, u, Dot>>
      PROVE  /\ prefix \in Seq(OhmaTokens)
             /\ Len(prefix) = 3
             /\ prefix[1] = Slash /\ prefix[3] = Dot /\ prefix[2] = u
  <2>1. Slash \in OhmaTokens /\ Dot \in OhmaTokens /\ u \in OhmaTokens
    BY OhmaTokensFacts
  <2> QED
    BY <1>2, <2>1
<1>3. prefix = <<>> \/ \E u \in {Upper(2), Upper(7)} : prefix = <<Slash, u, Dot>>
  BY DEF OhmaPrefixes
<1>4. CASE \E u \in {Upper(2), Upper(7)} : prefix = <<Slash, u, Dot>>
  BY <1>2, <1>4
<1> QED
  BY <1>1, <1>3, <1>4

\* Numbered groups.
LEMMA QuadsFacts ==
    ASSUME NEW from \in Nat, NEW to \in Nat, from <= to + 1
    PROVE  /\ Quads(from, to) \in Seq(OhmaTokens)
           /\ Len(Quads(from, to)) = to - from + 1
           /\ \A i \in 1 .. to - from + 1 : Quads(from, to)[i] = Quad(from + i - 1)
<1> DEFINE q(i) == Quad(from + i - 1)
           n    == to - from + 1
<1>1. Quads(from, to) = [i \in 1 .. n |-> q(i)]
  BY DEF Quads
<1>2. n \in Nat
  OBVIOUS
<1>3. \A i \in 1 .. n : q(i) \in OhmaTokens
  <2>1. ASSUME NEW i \in 1 .. n  PROVE from + i - 1 \in Nat
    BY <1>2
  <2> QED
    BY <2>1, OhmaTokensFacts
<1> HIDE DEF q, n
<1>4. \A i \in 1 .. n : Quads(from, to)[i] = q(i)
  BY <1>1
<1>5. Quads(from, to) = [i \in 1 .. n |-> Quads(from, to)[i]]
  BY <1>1
<1>6. Quads(from, to) \in Seq(OhmaTokens) /\ Len(Quads(from, to)) = n
  BY <1>2, <1>3, <1>4, <1>5, IsSequence
<1> QED
  BY <1>4, <1>6 DEF q, n

\* A block is the prefix, the mark and the first groups.
LEMMA BlockFacts ==
    ASSUME NEW prefix \in OhmaPrefixes, NEW first \in Nat
    PROVE  LET block == OhmaBlock(prefix, first)
               p     == Len(prefix)
           IN  /\ block \in Seq(OhmaTokens)
               /\ p \in {0, 3}
               /\ Len(block) = BlockLength(prefix, first)
               /\ BlockLength(prefix, first) = p + 1 + first
               /\ \A j \in 1 .. p : block[j] = prefix[j]
               /\ block[p + 1] = OhmaMark(1)
               /\ \A j \in 1 .. first : block[p + 1 + j] = Quad(j)
               /\ \A j \in 1 .. p + 1 + first : block[j].kind = "mark" <=> j = p + 1
               /\ DotsBehindAddress(block)
<1> DEFINE p == Len(prefix)
           a == prefix \o <<OhmaMark(1)>>
           q == Quads(1, first)
           b == a \o q
<1>1. /\ prefix \in Seq(OhmaTokens) /\ p \in {0, 3}
      /\ p = 3 => prefix[1] = Slash /\ prefix[3] = Dot /\ prefix[2] \in {Upper(2), Upper(7)}
  BY PrefixFacts
<1>2. <<OhmaMark(1)>> \in Seq(OhmaTokens) /\ Len(<<OhmaMark(1)>>) = 1
  BY OhmaTokensFacts
<1>3. /\ a \in Seq(OhmaTokens) /\ Len(a) = p + 1
      /\ \A j \in 1 .. p : a[j] = prefix[j]
      /\ a[p + 1] = OhmaMark(1)
  <2>1. /\ a \in Seq(OhmaTokens) /\ Len(a) = p + 1
        /\ \A j \in 1 .. p : a[j] = prefix[j]
        /\ \A j \in 1 .. 1 : a[p + j] = <<OhmaMark(1)>>[j]
    BY <1>1, <1>2, Concatenated
  <2> QED
    BY <2>1
<1>4. /\ q \in Seq(OhmaTokens) /\ Len(q) = first
      /\ \A j \in 1 .. first : q[j] = Quad(j)
  <2>0. 1 \in Nat /\ 1 <= first + 1
    OBVIOUS
  <2>1. /\ q \in Seq(OhmaTokens) /\ Len(q) = first - 1 + 1
        /\ \A j \in 1 .. first - 1 + 1 : q[j] = Quad(1 + j - 1)
    BY <2>0, QuadsFacts
  <2>2. first - 1 + 1 = first /\ \A j \in 1 .. first : 1 + j - 1 = j
    OBVIOUS
  <2> QED
    BY <2>1, <2>2
<1> HIDE DEF a, q
<1>5. /\ b \in Seq(OhmaTokens) /\ Len(b) = p + 1 + first
      /\ \A j \in 1 .. p + 1 : b[j] = a[j]
      /\ \A j \in 1 .. first : b[p + 1 + j] = q[j]
  <2>1. a \in Seq(OhmaTokens) /\ q \in Seq(OhmaTokens) /\ Len(a) = p + 1 /\ Len(q) = first
    BY <1>3, <1>4
  <2>2. a \in Seq(OhmaTokens) /\ q \in Seq(OhmaTokens)
    BY <2>1
  <2>3. /\ b \in Seq(OhmaTokens) /\ Len(b) = Len(a) + Len(q)
        /\ \A j \in 1 .. Len(a) : b[j] = a[j]
        /\ \A j \in 1 .. Len(q) : b[Len(a) + j] = q[j]
    BY <2>2, Concatenated
  <2> HIDE DEF b, p
  <2> QED
    BY <2>1, <2>3
<1> HIDE DEF b
<1>6. \A j \in 1 .. p + 1 + first : b[j].kind = "mark" <=> j = p + 1
  <2> SUFFICES ASSUME NEW j \in 1 .. p + 1 + first
               PROVE  b[j].kind = "mark" <=> j = p + 1
    OBVIOUS
  <2>1. CASE j \in 1 .. p
    <3>1. b[j] = prefix[j] /\ p = 3 /\ (j = 1 \/ j = 2 \/ j = 3) /\ j # p + 1
      BY <1>1, <1>3, <1>5, <2>1
    <3>2. b[j].kind \in {"slash", "upper", "dot"}
      BY <1>1, <3>1 DEF Slash, Upper, Dot, Token
    <3> QED
      BY <3>1, <3>2
  <2>2. CASE j = p + 1
    BY <1>1, <1>3, <1>5, <2>2 DEF OhmaMark, Token
  <2>3. CASE j > p + 1
    <3>1. j - (p + 1) \in 1 .. first /\ p + 1 + (j - (p + 1)) = j
      BY <1>1, <2>3
    <3>2. b[j] = Quad(j - (p + 1))
      BY <1>4, <1>5, <3>1
    <3> QED
      BY <1>1, <2>3, <3>2 DEF Quad, Token
  <2> QED
    BY <1>1, <2>1, <2>2, <2>3
<1>7. b = OhmaBlock(prefix, first)
  BY DEF b, a, q, OhmaBlock
<1>8. DotsBehindAddress(b)
  <2> SUFFICES ASSUME NEW j \in 1 .. Len(b), b[j].kind = "dot"
               PROVE  j > 1 /\ b[j - 1].kind = "upper"
    BY DEF DotsBehindAddress
  <2>1. j \in 1 .. p
    <3>1. SUFFICES ASSUME j > p  PROVE FALSE
      BY <1>1
    <3>2. CASE j = p + 1
      BY <1>1, <1>3, <1>5, <3>2 DEF OhmaMark, Token
    <3>3. CASE j > p + 1
      <4>1. j - (p + 1) \in 1 .. first /\ p + 1 + (j - (p + 1)) = j
        BY <1>1, <1>5, <3>3
      <4>2. b[j] = Quad(j - (p + 1))
        BY <1>4, <1>5, <4>1
      <4> QED
        BY <4>2 DEF Quad, Token
    <3> QED
      BY <1>1, <3>1, <3>2, <3>3
  <2>2. /\ p = 3 /\ j \in {1, 2, 3} /\ b[1] = prefix[1] /\ b[2] = prefix[2]
    BY <1>1, <1>3, <1>5, <2>1
  <2>3. b[j] = prefix[j]
    BY <1>1, <1>3, <1>5, <2>1
  <2>4. prefix[1].kind = "slash" /\ prefix[2].kind = "upper"
    BY <1>1, <2>2 DEF Slash, Upper, Token
  <2>5. j = 3
    BY <2>2, <2>3, <2>4
  <2> QED
    BY <2>2, <2>4, <2>5
<1> QED
  BY <1>1, <1>3, <1>4, <1>5, <1>6, <1>7, <1>8 DEF BlockLength

\* A block begins at k: its mark is behind as many tokens as the prefix has.
BlockAt(prefix, txt, k) ==
    k \in 1 .. Len(txt) - Len(prefix) /\ txt[k + Len(prefix)].kind = "mark"

\* The text is n blocks, of which the last one begins at last, and what has no
\* mark: each mark is that of a block, and they are at least so far apart.
InBlocks(prefix, first, txt, n, last) ==
    /\ txt \in Seq(OhmaTokens)
    /\ last \in Nat \ {0}
    /\ last + BlockLength(prefix, first) - 1 <= Len(txt)
    /\ BlockAt(prefix, txt, 1)
    /\ BlockAt(prefix, txt, last)
    /\ \A k \in 1 .. Len(txt) :
          BlockAt(prefix, txt, k) =>
             /\ k <= last
             /\ \A j \in 1 .. BlockLength(prefix, first) :
                   txt[k + j - 1] = OhmaBlock(prefix, first)[j]
    /\ \A k, m \in 1 .. Len(txt) :
          BlockAt(prefix, txt, k) /\ BlockAt(prefix, txt, m) /\ k < m =>
             k + BlockLength(prefix, first) <= m
    /\ n = 1 => last = 1
    /\ n > 1 => BlockAt(prefix, txt, BlockLength(prefix, first) + 1)
    /\ n = 2 => last = BlockLength(prefix, first) + 1
    /\ n > 2 => last > BlockLength(prefix, first) + 1
    /\ DotsBehindAddress(txt)

\* Nothing follows the last block.
EndsThere(prefix, first, txt, last) == Len(txt) = last + BlockLength(prefix, first) - 1

\* One block is so.
LEMMA BlocksBegin ==
    ASSUME NEW prefix \in OhmaPrefixes, NEW first \in Nat
    PROVE  InBlocks(prefix, first, OhmaBlock(prefix, first), 1, 1)
<1> DEFINE p == Len(prefix)
           b == BlockLength(prefix, first)
           t == OhmaBlock(prefix, first)
<1>1. /\ t \in Seq(OhmaTokens)
      /\ p \in {0, 3}
      /\ Len(t) = b
      /\ b = p + 1 + first
      /\ \A j \in 1 .. p + 1 + first : t[j].kind = "mark" <=> j = p + 1
      /\ DotsBehindAddress(t)
  BY BlockFacts
<1> HIDE DEF t, b, p
<1>2. /\ 1 \in 1 .. b /\ 1 \in 1 .. b - p /\ b \in Nat /\ 1 + p = p + 1
      /\ 1 + p \in 1 .. p + 1 + first
  BY <1>1
<1>3. ASSUME NEW k \in 1 .. Len(t), BlockAt(prefix, t, k)  PROVE k = 1
  <2>1. k \in 1 .. b - p /\ t[k + p].kind = "mark"
    BY <1>1, <1>3 DEF BlockAt, p
  <2>2. k + p \in 1 .. p + 1 + first
    BY <1>1, <2>1
  <2>3. k + p = p + 1
    BY <1>1, <2>1, <2>2
  <2> QED
    BY <1>1, <2>1, <2>3
<1>4. BlockAt(prefix, t, 1)
  BY <1>1, <1>2 DEF BlockAt, p
<1>5. \A k \in 1 .. Len(t) :
        BlockAt(prefix, t, k) => k <= 1 /\ \A j \in 1 .. b : t[k + j - 1] = t[j]
  <2>1. ASSUME NEW j \in 1 .. b  PROVE 1 + j - 1 = j
    BY <1>2
  <2> QED
    BY <1>3, <2>1
<1>6. \A k, m \in 1 .. Len(t) : BlockAt(prefix, t, k) /\ BlockAt(prefix, t, m) => ~(k < m)
  BY <1>3
<1> QED
  BY <1>1, <1>2, <1>4, <1>5, <1>6 DEF InBlocks, b, t

\* What follows the blocks changes nothing, if it has no mark.
LEMMA BlocksFollowed ==
    ASSUME NEW prefix \in OhmaPrefixes, NEW first \in Nat, NEW txt, NEW n \in Nat, NEW last,
           InBlocks(prefix, first, txt, n, last),
           NEW rest \in Seq(OhmaTokens),
           \A j \in 1 .. Len(rest) : rest[j].kind \notin {"mark", "dot"}
    PROVE  InBlocks(prefix, first, txt \o rest, n, last)
<1> DEFINE p == Len(prefix)
           b == BlockLength(prefix, first)
           block == OhmaBlock(prefix, first)
           new == txt \o rest
           l == Len(txt)
<1>1. p \in {0, 3} /\ b \in Nat /\ b >= p + 1
  <2>1. p \in {0, 3} /\ b = p + 1 + first
    BY BlockFacts
  <2> QED
    BY <2>1
<1>2. txt \in Seq(OhmaTokens) /\ l \in Nat
  BY DEF InBlocks
<1>3. /\ new \in Seq(OhmaTokens)
      /\ Len(new) = l + Len(rest)
      /\ \A i \in 1 .. l : new[i] = txt[i]
      /\ \A i \in 1 .. Len(rest) : new[l + i] = rest[i]
  BY <1>2, Concatenated
<1>4. Len(rest) \in Nat
  OBVIOUS
<1> HIDE DEF new, b, p, block, l
<1>5. ASSUME NEW k \in 1 .. l, BlockAt(prefix, txt, k)  PROVE BlockAt(prefix, new, k)
  <2>1. k \in 1 .. l - p /\ txt[k + p].kind = "mark"
    BY <1>5 DEF BlockAt, p, l
  <2>2. k + p \in 1 .. l /\ k \in 1 .. Len(new) - p
    BY <1>1, <1>2, <1>3, <1>4, <2>1
  <2> QED
    BY <1>3, <2>1, <2>2 DEF BlockAt, p
<1>6. ASSUME NEW k \in 1 .. Len(new), BlockAt(prefix, new, k)
      PROVE  k \in 1 .. l /\ BlockAt(prefix, txt, k)
  <2>1. k \in 1 .. Len(new) - p /\ new[k + p].kind = "mark"
    BY <1>6 DEF BlockAt, p
  <2>2. k + p <= l
    <3>1. SUFFICES ASSUME k + p > l  PROVE FALSE
      BY <1>1, <1>2, <2>1
    <3>2. k + p - l \in 1 .. Len(rest) /\ l + (k + p - l) = k + p
      BY <1>1, <1>2, <1>3, <1>4, <2>1, <3>1
    <3> QED
      BY <1>3, <2>1, <3>2
  <2>3. k + p \in 1 .. l /\ k \in 1 .. l - p /\ k \in 1 .. l
    BY <1>1, <1>2, <2>1, <2>2
  <2> QED
    BY <1>3, <2>1, <2>3 DEF BlockAt, p, l
<1>7. /\ last \in 1 .. l /\ last + b - 1 <= l /\ 1 \in 1 .. l
  BY <1>1, <1>2 DEF InBlocks, b, l
<1>8. /\ BlockAt(prefix, txt, 1) /\ BlockAt(prefix, txt, last)
      /\ n > 1 => BlockAt(prefix, txt, b + 1)
      /\ \A k \in 1 .. l : BlockAt(prefix, txt, k) =>
            k <= last /\ \A j \in 1 .. b : txt[k + j - 1] = block[j]
      /\ \A k, m \in 1 .. l :
            BlockAt(prefix, txt, k) /\ BlockAt(prefix, txt, m) /\ k < m => k + b <= m
  BY DEF InBlocks, b, block, l
<1>9. n > 1 => b + 1 \in 1 .. l
  BY <1>1, <1>2, <1>8 DEF BlockAt, p, l
<1>10. /\ BlockAt(prefix, new, 1) /\ BlockAt(prefix, new, last)
       /\ n > 1 => BlockAt(prefix, new, b + 1)
  BY <1>5, <1>7, <1>8, <1>9
<1>11. ASSUME NEW k \in 1 .. Len(new), BlockAt(prefix, new, k)
       PROVE  k <= last /\ \A j \in 1 .. b : new[k + j - 1] = block[j]
  <2>1. k \in 1 .. l /\ k <= last /\ \A j \in 1 .. b : txt[k + j - 1] = block[j]
    BY <1>6, <1>8, <1>11
  <2>2. ASSUME NEW j \in 1 .. b  PROVE k + j - 1 \in 1 .. l
    BY <1>1, <1>2, <1>7, <2>1
  <2> QED
    BY <1>3, <2>1, <2>2
<1>12. ASSUME NEW k \in 1 .. Len(new), NEW m \in 1 .. Len(new),
              BlockAt(prefix, new, k), BlockAt(prefix, new, m), k < m
       PROVE  k + b <= m
  BY <1>6, <1>8, <1>12
<1>13. last \in Nat \ {0} /\ last + b - 1 <= Len(new)
  BY <1>1, <1>2, <1>3, <1>4, <1>7
<1>14. /\ n = 1 => last = 1
       /\ n = 2 => last = b + 1
       /\ n > 2 => last > b + 1
  BY DEF InBlocks, b
<1>15. DotsBehindAddress(new)
  <2>1. DotsBehindAddress(txt)
    BY DEF InBlocks
  <2>2. SUFFICES ASSUME NEW i \in 1 .. Len(new), new[i].kind = "dot"
                 PROVE  i > 1 /\ new[i - 1].kind = "upper"
    BY DEF DotsBehindAddress
  <2>3. i <= l
    <3>1. SUFFICES ASSUME i > l  PROVE FALSE
      BY <1>2
    <3>2. i - l \in 1 .. Len(rest) /\ l + (i - l) = i
      BY <1>2, <1>3, <1>4, <3>1
    <3> QED
      BY <1>3, <2>2, <3>2
  <2>4. i \in 1 .. l
    BY <1>2, <2>3
  <2>5. i > 1 /\ txt[i - 1].kind = "upper"
    BY <1>3, <2>1, <2>2, <2>4 DEF DotsBehindAddress, l
  <2>6. i - 1 \in 1 .. l
    BY <1>2, <2>4, <2>5
  <2> QED
    BY <1>3, <2>5, <2>6
<1>16. InBlocks(prefix, first, new, n, last)
  BY <1>3, <1>10, <1>11, <1>12, <1>13, <1>14, <1>15 DEF InBlocks, b, block
<1> QED
  BY <1>16 DEF new

\* One block more: the last one begins behind those there were.
LEMMA BlocksGrow ==
    ASSUME NEW prefix \in OhmaPrefixes, NEW first \in Nat, NEW txt, NEW n \in Nat \ {0}, NEW last,
           InBlocks(prefix, first, txt, n, last), EndsThere(prefix, first, txt, last)
    PROVE  LET new == txt \o OhmaBlock(prefix, first)
           IN  /\ InBlocks(prefix, first, new, n + 1, Len(txt) + 1)
               /\ Len(new) = Len(txt) + BlockLength(prefix, first)
<1> DEFINE p == Len(prefix)
           b == BlockLength(prefix, first)
           block == OhmaBlock(prefix, first)
           new == txt \o block
           l == Len(txt)
<1>1. /\ p \in {0, 3} /\ b = p + 1 + first /\ Len(block) = b
      /\ block \in Seq(OhmaTokens)
      /\ \A j \in 1 .. b : block[j].kind = "mark" <=> j = p + 1
      /\ DotsBehindAddress(block)
  <2>1. /\ p \in {0, 3} /\ b = p + 1 + first /\ Len(block) = b
        /\ block \in Seq(OhmaTokens)
        /\ \A j \in 1 .. p + 1 + first : block[j].kind = "mark" <=> j = p + 1
        /\ DotsBehindAddress(block)
    BY BlockFacts
  <2> HIDE DEF p, b, block
  <2> QED
    BY <2>1
<1>2. txt \in Seq(OhmaTokens) /\ l \in Nat
  BY DEF InBlocks
<1>3. /\ new \in Seq(OhmaTokens)
      /\ Len(new) = l + b
      /\ \A i \in 1 .. l : new[i] = txt[i]
      /\ \A i \in 1 .. b : new[l + i] = block[i]
  <2>1. block \in Seq(OhmaTokens) /\ txt \in Seq(OhmaTokens)
    BY <1>1, <1>2
  <2> HIDE DEF block
  <2>2. /\ new \in Seq(OhmaTokens)
        /\ Len(new) = l + Len(block)
        /\ \A i \in 1 .. l : new[i] = txt[i]
        /\ \A i \in 1 .. Len(block) : new[l + i] = block[i]
    BY <2>1, Concatenated
  <2> HIDE DEF new, b, l
  <2> QED
    BY <1>1, <2>2
<1>4. /\ last \in Nat \ {0} /\ l = last + b - 1
      /\ BlockAt(prefix, txt, 1) /\ BlockAt(prefix, txt, last)
      /\ n > 1 => BlockAt(prefix, txt, b + 1)
      /\ n = 1 => last = 1
      /\ n = 2 => last = b + 1
      /\ n > 2 => last > b + 1
  BY DEF InBlocks, EndsThere, b, l
<1>5. /\ \A k \in 1 .. l : BlockAt(prefix, txt, k) =>
            k <= last /\ \A j \in 1 .. b : txt[k + j - 1] = block[j]
      /\ \A k, m \in 1 .. l :
            BlockAt(prefix, txt, k) /\ BlockAt(prefix, txt, m) /\ k < m => k + b <= m
  BY DEF InBlocks, b, block, l
<1> HIDE DEF new, b, p, block, l
<1>6. p \in Nat /\ b \in Nat /\ b >= p + 1
  BY <1>1
<1>7. ASSUME NEW k \in 1 .. l, BlockAt(prefix, txt, k)  PROVE BlockAt(prefix, new, k)
  <2>1. k \in 1 .. l - p /\ txt[k + p].kind = "mark"
    BY <1>7 DEF BlockAt, p, l
  <2>2. k + p \in 1 .. l /\ k \in 1 .. Len(new) - p
    BY <1>2, <1>3, <1>6, <2>1
  <2> QED
    BY <1>3, <2>1, <2>2 DEF BlockAt, p
<1>8. BlockAt(prefix, new, l + 1)
  <2>1. p + 1 \in 1 .. b /\ l + (p + 1) = l + 1 + p /\ l + 1 \in 1 .. Len(new) - p
    BY <1>2, <1>3, <1>6
  <2>2. new[l + (p + 1)].kind = "mark"
    BY <1>1, <1>3, <2>1
  <2> QED
    BY <2>1, <2>2 DEF BlockAt, p
<1>9. ASSUME NEW k \in 1 .. Len(new), BlockAt(prefix, new, k)
      PROVE  k = l + 1 \/ (k \in 1 .. l /\ BlockAt(prefix, txt, k))
  <2>1. k \in 1 .. Len(new) - p /\ new[k + p].kind = "mark"
    BY <1>9 DEF BlockAt, p
  <2>2. CASE k + p <= l
    <3>1. k + p \in 1 .. l /\ k \in 1 .. l - p /\ k \in 1 .. l
      BY <1>2, <1>6, <2>1, <2>2
    <3> QED
      BY <1>3, <2>1, <3>1 DEF BlockAt, p, l
  <2>3. CASE k + p > l
    <3>1. k + p - l \in 1 .. b /\ l + (k + p - l) = k + p
      BY <1>2, <1>3, <1>6, <2>1, <2>3
    <3>2. block[k + p - l].kind = "mark"
      BY <1>3, <2>1, <3>1
    <3>3. k + p - l = p + 1
      BY <1>1, <3>1, <3>2
    <3> QED
      BY <1>2, <1>6, <3>3
  <2> QED
    BY <1>2, <1>6, <2>2, <2>3
<1>10. /\ last \in 1 .. l /\ 1 \in 1 .. l /\ l + 1 \in Nat \ {0}
       /\ l + 1 = last + b /\ l + 1 + b - 1 <= Len(new)
  BY <1>2, <1>3, <1>4, <1>6
<1>11. BlockAt(prefix, new, 1)
  BY <1>4, <1>7, <1>10
<1>12. ASSUME NEW k \in 1 .. Len(new), BlockAt(prefix, new, k)
       PROVE  k <= l + 1 /\ \A j \in 1 .. b : new[k + j - 1] = block[j]
  <2>1. CASE k = l + 1
    <3>1. ASSUME NEW j \in 1 .. b  PROVE k + j - 1 = l + j
      BY <1>2, <1>6, <2>1
    <3> QED
      BY <1>2, <1>3, <2>1, <3>1
  <2>2. CASE k \in 1 .. l /\ BlockAt(prefix, txt, k)
    <3>1. k <= last /\ \A j \in 1 .. b : txt[k + j - 1] = block[j]
      BY <1>5, <2>2
    <3>2. ASSUME NEW j \in 1 .. b  PROVE k + j - 1 \in 1 .. l
      BY <1>4, <1>6, <2>2, <3>1
    <3>3. k <= l + 1
      BY <1>2, <2>2
    <3> QED
      BY <1>3, <3>1, <3>2, <3>3
  <2> QED
    BY <1>9, <1>12, <2>1, <2>2
<1>13. ASSUME NEW k \in 1 .. Len(new), NEW m \in 1 .. Len(new),
              BlockAt(prefix, new, k), BlockAt(prefix, new, m), k < m
       PROVE  k + b <= m
  <2>1. CASE k = l + 1
    <3>1. m <= l + 1
      BY <1>12, <1>13
    <3> QED
      BY <1>2, <1>13, <2>1, <3>1
  <2>2. CASE m = l + 1 /\ k \in 1 .. l /\ BlockAt(prefix, txt, k)
    <3>1. k <= last
      BY <1>5, <2>2
    <3> QED
      BY <1>4, <1>6, <2>2, <3>1
  <2>3. CASE (m \in 1 .. l /\ BlockAt(prefix, txt, m)) /\ k \in 1 .. l /\ BlockAt(prefix, txt, k)
    BY <1>5, <1>13, <2>3
  <2> QED
    BY <1>9, <1>13, <2>1, <2>2, <2>3
<1>14. BlockAt(prefix, new, b + 1)
  <2>1. CASE n = 1
    <3>1. l + 1 = b + 1
      BY <1>4, <1>6, <2>1
    <3> QED
      BY <1>8, <3>1
  <2>2. CASE n > 1
    <3>1. BlockAt(prefix, txt, b + 1)
      BY <1>4, <2>2
    <3>2. b + 1 \in 1 .. l
      BY <1>2, <1>6, <3>1 DEF BlockAt, p, l
    <3> QED
      BY <1>7, <3>1, <3>2
  <2> QED
    BY <2>1, <2>2
<1>15. /\ ~(n + 1 = 1)
       /\ n + 1 = 2 => l + 1 = b + 1
       /\ n + 1 > 2 => l + 1 > b + 1
  <2>1. n + 1 = 2 => n = 1
    OBVIOUS
  <2>2. n + 1 > 2 => n = 2 \/ n > 2
    OBVIOUS
  <2> QED
    BY <1>4, <1>6, <1>10, <2>1, <2>2
<1>16. DotsBehindAddress(new)
  <2>1. DotsBehindAddress(txt)
    BY DEF InBlocks
  <2>2. SUFFICES ASSUME NEW i \in 1 .. Len(new), new[i].kind = "dot"
                 PROVE  i > 1 /\ new[i - 1].kind = "upper"
    BY DEF DotsBehindAddress
  <2>3. CASE i <= l
    <3>1. i \in 1 .. l
      BY <1>2, <2>3
    <3>2. i > 1 /\ txt[i - 1].kind = "upper"
      BY <1>3, <2>1, <2>2, <3>1 DEF DotsBehindAddress, l
    <3>3. i - 1 \in 1 .. l
      BY <1>2, <3>1, <3>2
    <3> QED
      BY <1>3, <3>2, <3>3
  <2>4. CASE i > l
    <3>1. i - l \in 1 .. b /\ l + (i - l) = i
      BY <1>2, <1>3, <1>6, <2>4
    <3>2. i - l > 1 /\ block[i - l - 1].kind = "upper"
      BY <1>1, <1>3, <2>2, <3>1 DEF DotsBehindAddress
    <3>3. i - l - 1 \in 1 .. b /\ l + (i - l - 1) = i - 1 /\ i > 1
      BY <1>2, <1>6, <3>1, <3>2
    <3> QED
      BY <1>3, <3>2, <3>3
  <2> QED
    BY <1>2, <2>3, <2>4
<1>17. InBlocks(prefix, first, new, n + 1, l + 1)
  BY <1>3, <1>8, <1>10, <1>11, <1>12, <1>13, <1>14, <1>15, <1>16 DEF InBlocks, b, block
<1> QED
  BY <1>3, <1>17 DEF new, block, l, b

\* So many copies of a block are so many blocks.
LEMMA BlocksCopied ==
    ASSUME NEW prefix \in OhmaPrefixes, NEW first \in Nat, NEW copies \in Nat \ {0}
    PROVE  LET txt == FlattenSeq([i \in 1 .. copies |-> OhmaBlock(prefix, first)])
           IN  \E last : /\ InBlocks(prefix, first, txt, copies, last)
                         /\ EndsThere(prefix, first, txt, last)
<1> DEFINE b == BlockLength(prefix, first)
           block == OhmaBlock(prefix, first)
           row(n) == [i \in 1 .. n |-> block]
           flat(n) == FlattenSeq(row(n))
           good(n) == \E last : InBlocks(prefix, first, flat(n), n, last)
                                  /\ EndsThere(prefix, first, flat(n), last)
           S == {n \in Nat : n = 0 \/ good(n)}
<1>1. block \in Seq(OhmaTokens) /\ b \in Nat /\ Len(block) = b
  BY BlockFacts
<1>2. ASSUME NEW n \in Nat
      PROVE  /\ row(n) \in Seq(Seq(OhmaTokens))
             /\ flat(n + 1) = flat(n) \o block
  <2> HIDE DEF block
  <2>1. row(n) \in Seq(Seq(OhmaTokens))
    BY <1>1
  <2>2. row(n + 1) = Append(row(n), block)
    OBVIOUS
  <2> QED
    BY <1>1, <2>1, <2>2, FlattenAppend
<1>3. flat(1) = block
  <2>1. row(0) = <<>> /\ 0 \in Nat /\ 0 + 1 = 1
    OBVIOUS
  <2>2. block \in Seq(OhmaTokens) /\ <<>> \in Seq(Seq(OhmaTokens))
    BY <1>1
  <2>3. FlattenSeq(<<>>) = <<>>
    BY <2>2, FlattenAppend
  <2>4. flat(0) = <<>>
    BY <2>1, <2>3
  <2>5. flat(1) = flat(0) \o block
    BY <1>2, <2>1
  <2> HIDE DEF flat, block
  <2> QED
    BY <2>2, <2>4, <2>5
<1>4. good(1)
  <2>1. InBlocks(prefix, first, block, 1, 1) /\ Len(block) = 1 + b - 1
    BY <1>1, BlocksBegin
  <2> QED
    BY <1>3, <2>1 DEF EndsThere
<1> HIDE DEF flat
<1>5. ASSUME NEW n \in Nat \ {0}, good(n)  PROVE good(n + 1)
  <2>1. PICK last : /\ InBlocks(prefix, first, flat(n), n, last)
                    /\ EndsThere(prefix, first, flat(n), last)
    BY <1>5
  <2>2. /\ InBlocks(prefix, first, flat(n) \o block, n + 1, Len(flat(n)) + 1)
        /\ Len(flat(n) \o block) = Len(flat(n)) + b
    BY <2>1, BlocksGrow
  <2>3. Len(flat(n)) \in Nat
    BY <2>1 DEF InBlocks
  <2>4. Len(flat(n)) + b = Len(flat(n)) + 1 + b - 1
    BY <1>1, <2>3
  <2> QED
    BY <1>2, <2>2, <2>4 DEF EndsThere
<1> HIDE DEF good
<1>6. copies \in S
  <2>1. 0 \in S
    OBVIOUS
  <2>2. \A n \in 0 .. copies - 1 : n \in S => n + 1 \in S
    <3>1. ASSUME NEW n \in 0 .. copies - 1, n \in S  PROVE n + 1 \in S
      BY <1>4, <1>5, <3>1
    <3> QED
      BY <3>1
  <2> HIDE DEF S
  <2>3. \A n \in 0 .. copies : n \in S
    BY <2>1, <2>2, UpTo
  <2> QED
    BY <2>3
<1> QED
  BY <1>6 DEF good, flat

\* The group that was cut, and the end of the line.
CutGroup(cut) == IF cut > 0 THEN <<QuadCut(cut)>> ELSE <<>>

LineEnds(eol) == [i \in 1 .. eol |-> Eol]

\* The text of a message from its last mark on: so many groups, and a part of
\* one more, before the end of the line.
ContentBehind(txt, z, groups, cut, eol) ==
    /\ z \in Nat \ {0}
    /\ Len(txt) = z + groups + Len(CutGroup(cut)) + eol
    /\ \A j \in 1 .. groups : txt[z + j] = Quad(j)
    /\ cut > 0 => txt[z + groups + 1] = QuadCut(cut)
    /\ \A j \in 1 .. eol : txt[z + groups + Len(CutGroup(cut)) + j] = Eol

\* What may follow the blocks has neither a mark nor a dot.
LEMMA EndFacts ==
    ASSUME NEW cut \in 0 .. 3, NEW eol \in Nat
    PROVE  /\ CutGroup(cut) \in Seq(OhmaTokens)
           /\ Len(CutGroup(cut)) = IF cut > 0 THEN 1 ELSE 0
           /\ cut > 0 => CutGroup(cut)[1] = QuadCut(cut)
           /\ LineEnds(eol) \in Seq(OhmaTokens)
           /\ Len(LineEnds(eol)) = eol
           /\ \A j \in 1 .. eol : LineEnds(eol)[j] = Eol
<1>1. cut > 0 => QuadCut(cut) \in OhmaTokens
  BY OhmaTokensFacts
<1>2. CASE cut > 0
  <2>1. CutGroup(cut) = <<QuadCut(cut)>>
    BY <1>2 DEF CutGroup
  <2>2. /\ CutGroup(cut) \in Seq(OhmaTokens)
        /\ Len(CutGroup(cut)) = 1 /\ CutGroup(cut)[1] = QuadCut(cut)
    BY <1>1, <1>2, <2>1
  <2>3. /\ LineEnds(eol) \in Seq(OhmaTokens) /\ Len(LineEnds(eol)) = eol
        /\ \A j \in 1 .. eol : LineEnds(eol)[j] = Eol
    BY OhmaTokensFacts DEF LineEnds
  <2> QED
    BY <1>2, <2>2, <2>3
<1>3. CASE ~(cut > 0)
  <2>1. CutGroup(cut) = <<>>
    BY <1>3 DEF CutGroup
  <2>2. CutGroup(cut) \in Seq(OhmaTokens) /\ Len(CutGroup(cut)) = 0
    BY <2>1
  <2>3. /\ LineEnds(eol) \in Seq(OhmaTokens) /\ Len(LineEnds(eol)) = eol
        /\ \A j \in 1 .. eol : LineEnds(eol)[j] = Eol
    BY OhmaTokensFacts DEF LineEnds
  <2> QED
    BY <1>3, <2>2, <2>3
<1> QED
  BY <1>2, <1>3

\* The text of a message is so many blocks, and its content is behind the last mark.
LEMMA OhmaTextFacts ==
    ASSUME NEW s, OhmaSending(s)
    PROVE  \E last :
              /\ InBlocks(s.prefix, s.first, OhmaText(s), s.copies, last)
              /\ ContentBehind(OhmaText(s), last + Len(s.prefix), s.groups, s.cut, s.eol)
<1> DEFINE prefix == s.prefix
           first  == s.first
           groups == s.groups
           copies == s.copies
           cut    == s.cut
           eol    == s.eol
           p      == Len(prefix)
           b      == BlockLength(prefix, first)
           block  == OhmaBlock(prefix, first)
           x0     == FlattenSeq([i \in 1 .. copies |-> block])
           quads  == Quads(first + 1, groups)
           part   == CutGroup(cut)
           ends   == LineEnds(eol)
           x1     == x0 \o quads
           x2     == x1 \o part
           x3     == x2 \o ends
<1>1. /\ prefix \in OhmaPrefixes /\ groups \in Nat /\ first \in 0 .. groups /\ first \in Nat
      /\ copies \in Nat \ {0} /\ copies \in Nat /\ cut \in 0 .. 3 /\ eol \in Nat
      /\ groups - first \in Nat
  <2>1. OhmaLength \in Nat
    BY DEF OhmaLength
  <2> QED
    BY <2>1 DEF OhmaSending, OhmaPrefixes
<1>2. OhmaText(s) = x3
  BY DEF OhmaText, OhmaBlock, CutGroup, LineEnds
<1>3. /\ block \in Seq(OhmaTokens) /\ p \in {0, 3} /\ b = p + 1 + first
      /\ \A j \in 1 .. first : block[p + 1 + j] = Quad(j)
  BY <1>1, BlockFacts
<1>4. /\ quads \in Seq(OhmaTokens) /\ Len(quads) = groups - first
      /\ \A i \in 1 .. groups - first : quads[i] = Quad(first + i)
  <2>1. first + 1 \in Nat /\ groups \in Nat /\ first + 1 <= groups + 1
    BY <1>1
  <2>2. /\ quads \in Seq(OhmaTokens) /\ Len(quads) = groups - (first + 1) + 1
        /\ \A i \in 1 .. groups - (first + 1) + 1 : quads[i] = Quad(first + 1 + i - 1)
    BY <2>1, QuadsFacts
  <2>3. groups - (first + 1) + 1 = groups - first /\ \A i \in Nat : first + 1 + i - 1 = first + i
    BY <1>1
  <2> QED
    BY <1>1, <2>2, <2>3
<1>5. /\ part \in Seq(OhmaTokens)
      /\ Len(part) = IF cut > 0 THEN 1 ELSE 0
      /\ cut > 0 => part[1] = QuadCut(cut)
      /\ ends \in Seq(OhmaTokens)
      /\ Len(ends) = eol
      /\ \A j \in 1 .. eol : ends[j] = Eol
  BY <1>1, EndFacts
<1>6. PICK last : InBlocks(prefix, first, x0, copies, last) /\ EndsThere(prefix, first, x0, last)
  BY <1>1, BlocksCopied
<1> DEFINE z == last + p
<1> HIDE DEF prefix, first, groups, copies, cut, eol, p, b, block, x0, quads, part, ends, x1, x2,
             x3, z
<1>7. /\ x0 \in Seq(OhmaTokens) /\ last \in Nat \ {0} /\ Len(x0) = last + b - 1
      /\ \A j \in 1 .. b : x0[last + j - 1] = block[j]
  <2>1. x0 \in Seq(OhmaTokens) /\ last \in Nat \ {0} /\ Len(x0) = last + b - 1
    BY <1>6 DEF InBlocks, EndsThere, b
  <2>2. BlockAt(prefix, x0, last) /\ b >= 1 /\ b \in Nat
    BY <1>1, <1>3, <1>6 DEF InBlocks
  <2>3. last \in 1 .. Len(x0)
    BY <2>1, <2>2
  <2> QED
    BY <1>6, <2>1, <2>2, <2>3 DEF InBlocks, b, block
<1>8. \A j \in 1 .. Len(quads) : quads[j].kind \notin {"mark", "dot"}
  BY <1>4 DEF Quad, Token
<1>9. \A j \in 1 .. Len(part) : part[j].kind \notin {"mark", "dot"}
  <2>1. SUFFICES ASSUME NEW j \in 1 .. Len(part)  PROVE part[j].kind \notin {"mark", "dot"}
    OBVIOUS
  <2>2. cut > 0 /\ j = 1
    BY <1>5, <2>1
  <2> QED
    BY <1>5, <2>2 DEF QuadCut, Token
<1>10. \A j \in 1 .. Len(ends) : ends[j].kind \notin {"mark", "dot"}
  BY <1>5 DEF Eol, Token
<1>11. InBlocks(prefix, first, x1, copies, last)
  BY <1>1, <1>4, <1>6, <1>8, BlocksFollowed DEF x1
<1>12. InBlocks(prefix, first, x2, copies, last)
  BY <1>1, <1>5, <1>9, <1>11, BlocksFollowed DEF x2
<1>13. InBlocks(prefix, first, x3, copies, last)
  BY <1>1, <1>5, <1>10, <1>12, BlocksFollowed DEF x3
<1>14. /\ x0 \in Seq(OhmaTokens) /\ quads \in Seq(OhmaTokens)
       /\ part \in Seq(OhmaTokens) /\ ends \in Seq(OhmaTokens)
  BY <1>4, <1>5, <1>7
<1>15. /\ x1 \in Seq(OhmaTokens) /\ Len(x1) = Len(x0) + Len(quads)
       /\ \A i \in 1 .. Len(x0) : x1[i] = x0[i]
       /\ \A i \in 1 .. Len(quads) : x1[Len(x0) + i] = quads[i]
  BY <1>14, Concatenated DEF x1
<1>16. x1 \in Seq(OhmaTokens)
  BY <1>15
<1>17. /\ x2 \in Seq(OhmaTokens) /\ Len(x2) = Len(x1) + Len(part)
       /\ \A i \in 1 .. Len(x1) : x2[i] = x1[i]
       /\ \A i \in 1 .. Len(part) : x2[Len(x1) + i] = part[i]
  BY <1>14, <1>16, Concatenated DEF x2
<1>18. x2 \in Seq(OhmaTokens)
  BY <1>17
<1>19. /\ x3 \in Seq(OhmaTokens) /\ Len(x3) = Len(x2) + Len(ends)
       /\ \A i \in 1 .. Len(x2) : x3[i] = x2[i]
       /\ \A i \in 1 .. Len(ends) : x3[Len(x2) + i] = ends[i]
  BY <1>14, <1>18, Concatenated DEF x3
<1>20. /\ p \in Nat /\ b \in Nat /\ z \in Nat \ {0} /\ z = last + p
       /\ Len(x0) = z + first /\ Len(x1) = z + groups
       /\ Len(part) \in Nat /\ Len(x2) = z + groups + Len(part)
       /\ Len(x3) = z + groups + Len(part) + eol
  <2>1. p \in Nat /\ b \in Nat /\ z \in Nat \ {0} /\ z = last + p
    BY <1>1, <1>3, <1>7 DEF z
  <2>2. Len(x0) = z + first
    BY <1>1, <1>3, <1>7, <2>1
  <2>3. Len(x1) = z + groups
    BY <1>1, <1>4, <1>15, <2>1, <2>2
  <2>4. Len(part) \in Nat /\ Len(x2) = z + groups + Len(part)
    BY <1>5, <1>17, <2>3
  <2>5. Len(x3) = z + groups + Len(part) + eol
    BY <1>5, <1>19, <2>4
  <2> QED
    BY <2>1, <2>2, <2>3, <2>4, <2>5
<1>21. /\ z \in Nat \ {0} /\ groups \in Nat /\ Len(part) \in Nat
      /\ Len(x1) = z + groups /\ Len(x2) = z + groups + Len(part)
  BY <1>1, <1>20
<1>22. ASSUME NEW j \in 1 .. groups  PROVE x3[z + j] = Quad(j)
  <2>1. z + j \in 1 .. Len(x1) /\ z + j \in 1 .. Len(x2)
    BY <1>21
  <2>2. x3[z + j] = x1[z + j]
    BY <1>17, <1>19, <2>1
  <2>3. CASE j <= first
    <3>1. /\ j \in 1 .. first /\ z + j \in 1 .. Len(x0)
          /\ p + 1 + j \in 1 .. b /\ last + (p + 1 + j) - 1 = z + j
      BY <1>1, <1>3, <1>7, <1>20, <2>3
    <3>2. x1[z + j] = x0[z + j]
      BY <1>15, <3>1
    <3>3. x0[last + (p + 1 + j) - 1] = block[p + 1 + j]
      BY <1>7, <3>1
    <3> QED
      BY <1>3, <2>2, <3>1, <3>2, <3>3
  <2>4. CASE j > first
    <3>1. /\ j - first \in 1 .. groups - first /\ first + (j - first) = j
          /\ z + first + (j - first) = z + j
      BY <1>1, <1>20, <2>4
    <3>2. x1[Len(x0) + (j - first)] = quads[j - first]
      BY <1>4, <1>15, <3>1
    <3> QED
      BY <1>4, <1>20, <2>2, <3>1, <3>2
  <2> QED
    BY <1>1, <2>3, <2>4
<1>23. cut > 0 => x3[z + groups + 1] = QuadCut(cut)
  <2>1. SUFFICES ASSUME cut > 0  PROVE x3[z + groups + 1] = QuadCut(cut)
    OBVIOUS
  <2>2. Len(part) = 1 /\ part[1] = QuadCut(cut)
    BY <1>5, <2>1
  <2>3. z + groups + 1 \in 1 .. Len(x2) /\ 1 \in 1 .. Len(part)
    BY <1>21, <2>2
  <2>4. x2[z + groups + 1] = part[1]
    BY <1>17, <1>21, <2>3
  <2> QED
    BY <1>19, <2>2, <2>3, <2>4
<1>24. \A j \in 1 .. eol : x3[z + groups + Len(part) + j] = Eol
  BY <1>5, <1>19, <1>20
<1>25. ContentBehind(x3, z, groups, cut, eol)
  BY <1>20, <1>22, <1>23, <1>24 DEF ContentBehind, part
<1>26. InBlocks(s.prefix, s.first, x3, s.copies, last)
  BY <1>13 DEF prefix, first, copies
<1>27. ContentBehind(x3, last + Len(s.prefix), s.groups, s.cut, s.eol)
  BY <1>20, <1>25 DEF prefix, groups, cut, eol, p
<1> QED
  BY <1>2, <1>26, <1>27

-----------------------------------------------------------------------------
(***************************************************************************)
(* Where the characters are: the width of the first tokens.                *)
(***************************************************************************)

\* The first tokens of a text are as wide as the text is up to them.
LEMMA WidthOfFirst ==
    ASSUME NEW T, NEW txt \in Seq(T), NEW n \in 0 .. Len(txt)
    PROVE  Width(SubSeq(txt, 1, n)) = WidthTo(txt)[n]
<1> DEFINE q == SubSeq(txt, 1, n)
           g == WidthTo(txt)
           h == WidthTo(q)
           S == {i \in 0 .. n : h[i] = g[i]}
<1>1. /\ n \in Nat /\ Len(txt) \in Nat /\ Len(q) = n
      /\ \A i \in 1 .. n : q[i] = txt[i]
  BY FirstOnes
<1>2. /\ g[0] = 0
      /\ \A i \in 1 .. Len(txt) : g[i] = g[i - 1] + txt[i].width
  BY <1>1, WidthSteps
<1>3. Len(q) \in Nat
  BY <1>1
<1> HIDE DEF q, g
<1>4. /\ h[0] = 0
      /\ \A i \in 1 .. Len(q) : h[i] = h[i - 1] + q[i].width
  BY <1>3, WidthSteps
<1> HIDE DEF h
<1>5. 0 \in S
  BY <1>1, <1>2, <1>4
<1>6. ASSUME NEW i \in 0 .. n - 1, i \in S  PROVE i + 1 \in S
  <2>1. /\ i + 1 \in 1 .. n /\ i + 1 \in 0 .. n /\ i + 1 \in 1 .. Len(txt)
        /\ i + 1 - 1 = i /\ h[i] = g[i]
    BY <1>1, <1>6
  <2>2. g[i + 1] = g[i] + txt[i + 1].width
    BY <1>2, <2>1
  <2>3. h[i + 1] = h[i] + q[i + 1].width
    BY <1>1, <1>4, <2>1
  <2>4. h[i + 1] = g[i + 1]
    BY <1>1, <2>1, <2>2, <2>3
  <2> QED
    BY <2>1, <2>4
<1>7. h[n] = g[n]
  <2> HIDE DEF S
  <2>1. \A i \in 0 .. n : i \in S
    BY <1>1, <1>5, <1>6, UpTo
  <2> QED
    BY <1>1, <2>1 DEF S
<1>8. Width(q) = h[Len(q)]
  BY WidthIsLast DEF h
<1> QED
  BY <1>1, <1>7, <1>8 DEF q, g

\* Each token adds to it.
LEMMA WidthGrows ==
    ASSUME NEW txt \in Seq(OhmaTokens)
    PROVE  /\ \A i \in 0 .. Len(txt) : WidthTo(txt)[i] \in Nat
           /\ \A i, j \in 0 .. Len(txt) : i < j => WidthTo(txt)[i] < WidthTo(txt)[j]
<1> DEFINE g == WidthTo(txt)
           n == Len(txt)
           S == {i \in 0 .. n : g[i] \in Nat}
           f == [i \in 0 .. n |-> g[i] - i]
<1>1. /\ n \in Nat
      /\ \A i \in 1 .. n : txt[i].width \in Nat \ {0}
  <2>1. n \in Nat /\ \A i \in 1 .. n : txt[i] \in OhmaTokens
    BY ElementOfSeq
  <2> QED
    BY <2>1 DEF OhmaTokens
<1>2. g[0] = 0 /\ \A i \in 1 .. n : g[i] = g[i - 1] + txt[i].width
  BY <1>1, WidthSteps
<1> HIDE DEF g, n
<1>3. 0 \in S
  BY <1>1, <1>2
<1>4. ASSUME NEW i \in 0 .. n - 1, i \in S  PROVE i + 1 \in S
  <2>1. i + 1 \in 1 .. n /\ i + 1 \in 0 .. n /\ i + 1 - 1 = i /\ g[i] \in Nat
    BY <1>1, <1>4
  <2>2. g[i + 1] = g[i] + txt[i + 1].width /\ txt[i + 1].width \in Nat
    BY <1>1, <1>2, <2>1
  <2>3. g[i + 1] \in Nat
    BY <2>1, <2>2
  <2> QED
    BY <2>1, <2>3
<1>5. \A i \in 0 .. n : g[i] \in Nat
  <2> HIDE DEF S
  <2>1. \A i \in 0 .. n : i \in S
    BY <1>1, <1>3, <1>4, UpTo
  <2> QED
    BY <2>1 DEF S
<1>6. \A i \in 1 .. n : g[i - 1] < g[i]
  <2>1. SUFFICES ASSUME NEW i \in 1 .. n  PROVE g[i - 1] < g[i]
    OBVIOUS
  <2>2. i - 1 \in 0 .. n /\ i \in 0 .. n
    BY <1>1
  <2>3. g[i - 1] \in Nat /\ txt[i].width \in Nat \ {0} /\ g[i] = g[i - 1] + txt[i].width
    BY <1>1, <1>2, <1>5, <2>2
  <2> QED
    BY <2>3
<1>7. \A i \in 0 .. n : f[i] \in Int
  BY <1>1, <1>5
<1>8. \A i \in 1 .. n : f[i - 1] <= f[i]
  <2>1. SUFFICES ASSUME NEW i \in 1 .. n  PROVE f[i - 1] <= f[i]
    OBVIOUS
  <2>2. i - 1 \in 0 .. n /\ i \in 0 .. n /\ i \in Nat
    BY <1>1
  <2>3. g[i - 1] \in Nat /\ g[i] \in Nat /\ g[i - 1] < g[i]
    BY <1>5, <1>6, <2>2
  <2>4. f[i - 1] = g[i - 1] - (i - 1) /\ f[i] = g[i] - i
    BY <2>2
  <2> QED
    BY <2>2, <2>3, <2>4
<1>9. \A i, j \in 0 .. n : i <= j => f[i] <= f[j]
  <2> HIDE DEF f
  <2> QED
    BY <1>1, <1>7, <1>8, Growing
<1>10. ASSUME NEW i \in 0 .. n, NEW j \in 0 .. n, i < j  PROVE g[i] < g[j]
  <2>1. f[i] <= f[j] /\ f[i] = g[i] - i /\ f[j] = g[j] - j
    BY <1>1, <1>9, <1>10
  <2>2. g[i] \in Nat /\ g[j] \in Nat /\ i \in Nat /\ j \in Nat
    BY <1>1, <1>5
  <2> HIDE DEF f
  <2> QED
    BY <1>10, <2>1, <2>2
<1> QED
  BY <1>5, <1>10 DEF g, n

\* The token whose first character is at an offset.
LEMMA KindAtToken ==
    ASSUME NEW txt \in Seq(OhmaTokens), NEW i \in 1 .. Len(txt)
    PROVE  KindAt(txt, WidthTo(txt)[i - 1]) = txt[i].kind
<1> DEFINE n == Len(txt)
           at(j) == Width(SubSeq(txt, 1, j - 1)) = WidthTo(txt)[i - 1]
<1>1. n \in Nat /\ i - 1 \in 0 .. n
  OBVIOUS
<1>2. \A j \in 1 .. n : at(j) <=> j = i
  <2>1. SUFFICES ASSUME NEW j \in 1 .. n  PROVE at(j) <=> j = i
    OBVIOUS
  <2>2. j - 1 \in 0 .. n /\ (j - 1 < i - 1 \/ i - 1 < j - 1 \/ j = i)
    BY <1>1
  <2>3. Width(SubSeq(txt, 1, j - 1)) = WidthTo(txt)[j - 1]
    BY <2>2, WidthOfFirst
  <2>4. WidthTo(txt)[j - 1] \in Nat /\ WidthTo(txt)[i - 1] \in Nat
    BY <1>1, <2>2, WidthGrows
  <2>5. CASE j - 1 < i - 1
    <3>1. WidthTo(txt)[j - 1] < WidthTo(txt)[i - 1]
      BY <1>1, <2>2, <2>5, WidthGrows
    <3> QED
      BY <1>1, <2>3, <2>4, <2>5, <3>1
  <2>6. CASE i - 1 < j - 1
    <3>1. WidthTo(txt)[i - 1] < WidthTo(txt)[j - 1]
      BY <1>1, <2>2, <2>6, WidthGrows
    <3> QED
      BY <1>1, <2>3, <2>4, <2>6, <3>1
  <2> QED
    BY <2>2, <2>3, <2>5, <2>6
<1>3. (CHOOSE j \in 1 .. n : at(j)) = i
  BY <1>2
<1>4. \E j \in 1 .. n : at(j)
  BY <1>2
<1> QED
  BY <1>3, <1>4 DEF KindAt

\* A token of a kind at an offset is one of the text.
LEMMA KindAtOffset ==
    ASSUME NEW txt \in Seq(OhmaTokens), NEW offset, KindAt(txt, offset) = "dot"
    PROVE  \E i \in 1 .. Len(txt) : WidthTo(txt)[i - 1] = offset /\ txt[i].kind = "dot"
<1> DEFINE n == Len(txt)
           at(j) == Width(SubSeq(txt, 1, j - 1)) = offset
<1>1. \E j \in 1 .. n : at(j)
  BY DEF KindAt
<1>2. PICK i \in 1 .. n : at(i) /\ KindAt(txt, offset) = txt[i].kind
  <2>1. (CHOOSE j \in 1 .. n : at(j)) \in 1 .. n /\ at(CHOOSE j \in 1 .. n : at(j))
    BY <1>1
  <2>2. KindAt(txt, offset) = txt[CHOOSE j \in 1 .. n : at(j)].kind
    BY <1>1 DEF KindAt
  <2> QED
    BY <2>1, <2>2
<1>3. i - 1 \in 0 .. n
  BY <1>2
<1>4. WidthTo(txt)[i - 1] = offset
  BY <1>2, <1>3, WidthOfFirst
<1> QED
  BY <1>2, <1>4

\* The text from a block on.
LEMMA RestFacts ==
    ASSUME NEW prefix \in OhmaPrefixes, NEW first \in Nat, NEW txt, NEW n, NEW last,
           InBlocks(prefix, first, txt, n, last),
           NEW k \in 1 .. Len(txt), BlockAt(prefix, txt, k)
    PROVE  LET rest == Rest(txt, k)
               p    == Len(prefix)
           IN  /\ rest \in Seq(OhmaTokens)
               /\ Len(rest) \in Nat /\ p \in {0, 3} /\ p + 1 <= Len(rest)
               /\ \A j \in 1 .. p : rest[j] = prefix[j]
               /\ rest[p + 1] = OhmaMark(1)
               /\ DotsBehindAddress(rest)
<1> DEFINE rest == Rest(txt, k)
           p    == Len(prefix)
           l    == Len(txt)
           block == OhmaBlock(prefix, first)
           b    == BlockLength(prefix, first)
<1>1. /\ p \in {0, 3} /\ b = p + 1 + first
      /\ \A j \in 1 .. p : block[j] = prefix[j]
      /\ block[p + 1] = OhmaMark(1)
  BY BlockFacts
<1>2. /\ txt \in Seq(OhmaTokens) /\ l \in Nat
      /\ \A j \in 1 .. b : txt[k + j - 1] = block[j]
      /\ DotsBehindAddress(txt)
  BY DEF InBlocks
<1>3. k \in 1 .. l - p
  BY DEF BlockAt
<1>4. k \in 1 .. Len(txt) + 1
  BY <1>2
<1>5. /\ rest \in Seq(OhmaTokens)
      /\ Len(rest) = l - k + 1
      /\ \A i \in 1 .. l - k + 1 : rest[i] = txt[k + i - 1]
  BY <1>2, <1>4, LastOnes DEF Rest
<1> HIDE DEF rest, p, l, b, block
<1>6. Len(rest) \in Nat /\ p + 1 <= Len(rest)
  BY <1>1, <1>2, <1>3, <1>5
<1>7. \A j \in 1 .. p + 1 : rest[j] = block[j]
  <2>1. ASSUME NEW j \in 1 .. p + 1  PROVE j \in 1 .. b /\ j \in 1 .. l - k + 1
    BY <1>1, <1>2, <1>3
  <2> QED
    BY <1>2, <1>5, <2>1
<1>8. \A j \in 1 .. p : rest[j] = prefix[j]
  <2>1. \A j \in 1 .. p : j \in 1 .. p + 1
    BY <1>1
  <2> QED
    BY <1>1, <1>7, <2>1
<1>9. rest[p + 1] = OhmaMark(1)
  <2>1. p + 1 \in 1 .. p + 1
    BY <1>1
  <2> QED
    BY <1>1, <1>7, <2>1
<1>10. DotsBehindAddress(rest)
  <2>1. SUFFICES ASSUME NEW i \in 1 .. Len(rest), rest[i].kind = "dot"
                 PROVE  i > 1 /\ rest[i - 1].kind = "upper"
    BY DEF DotsBehindAddress
  <2>2. i > 1
    <3>1. SUFFICES ASSUME i = 1  PROVE FALSE
      BY <1>6
    <3>2. CASE p = 0
      BY <1>9, <2>1, <3>1, <3>2 DEF OhmaMark, Token
    <3>3. CASE p = 3
      <4>1. rest[1] = Slash
        BY <1>8, <3>3, PrefixFacts DEF p
      <4> QED
        BY <2>1, <3>1, <4>1 DEF Slash, Token
    <3> QED
      BY <1>1, <3>2, <3>3
  <2>3. /\ i \in 1 .. l - k + 1 /\ i - 1 \in 1 .. l - k + 1
        /\ k + i - 1 \in 1 .. l /\ k + i - 1 - 1 = k + (i - 1) - 1
    BY <1>2, <1>3, <1>5, <2>2
  <2>4. txt[k + i - 1].kind = "dot"
    BY <1>5, <2>1, <2>3
  <2>5. txt[k + i - 1 - 1].kind = "upper"
    BY <1>2, <2>3, <2>4 DEF DotsBehindAddress, l
  <2> QED
    BY <1>5, <2>2, <2>3, <2>5
<1> QED
  BY <1>1, <1>5, <1>6, <1>8, <1>9, <1>10 DEF rest, p

\* In front of a block, the prefix is recognised.
LEMMA PrefixRecognised ==
    ASSUME NEW prefix \in OhmaPrefixes, NEW rest \in Seq(OhmaTokens),
           Len(prefix) + 1 <= Len(rest),
           \A j \in 1 .. Len(prefix) : rest[j] = prefix[j],
           rest[Len(prefix) + 1] = OhmaMark(1),
           DotsBehindAddress(rest)
    PROVE  PrefixWidth(rest) = WidthTo(rest)[Len(prefix)]
<1> DEFINE p == Len(prefix)
           n == Len(rest)
           g == WidthTo(rest)
<1>1. /\ p \in {0, 3} /\ n \in Nat /\ p + 1 <= n /\ rest # <<>>
      /\ p = 3 => prefix[1] = Slash /\ prefix[3] = Dot /\ prefix[2] \in {Upper(2), Upper(7)}
  BY PrefixFacts
<1>2. /\ g[0] = 0
      /\ \A i \in 1 .. n : g[i] = g[i - 1] + rest[i].width
      /\ \A i \in 0 .. n : g[i] \in Nat
      /\ \A i, j \in 0 .. n : i < j => g[i] < g[j]
  BY <1>1, WidthSteps, WidthGrows
<1>3. Width(rest) = g[n]
  BY WidthIsLast
<1>4. \A i \in 1 .. n : KindAt(rest, g[i - 1]) = rest[i].kind
  BY KindAtToken
<1>5. Head(rest) = rest[1]
  OBVIOUS
<1>6. CASE p = 0
  <2>1. rest[1].kind = "mark"
    BY <1>6 DEF OhmaMark, Token
  <2>2. ~Starts(rest, "slash")
    BY <1>5, <2>1 DEF Starts
  <2> QED
    BY <1>2, <1>6, <2>2 DEF PrefixWidth
<1>7. CASE p = 3
  <2>1. /\ n >= 4
        /\ rest[1] = Slash /\ rest[2] = prefix[2] /\ rest[3] = Dot /\ rest[4] = OhmaMark(1)
    <3>1. 1 \in 1 .. p /\ 2 \in 1 .. p /\ 3 \in 1 .. p /\ p + 1 = 4
      BY <1>7
    <3> QED
      BY <1>1, <1>7, <3>1
  <2>2. /\ rest[1].width = 1 /\ rest[3].width = 1 /\ rest[4].width = 4
        /\ rest[1].kind = "slash" /\ rest[3].kind = "dot" /\ rest[4].kind = "mark"
    BY <2>1 DEF Slash, Dot, OhmaMark, Token
  <2>3. rest[2].width = 2 \/ rest[2].width = 7
    BY <1>1, <1>7, <2>1 DEF Upper, Token
  <2>4. Starts(rest, "slash")
    BY <1>1, <1>5, <2>2 DEF Starts
  <2> HIDE DEF g, n
  <2>5. /\ g[1] = 1 /\ g[2] = 1 + rest[2].width
        /\ g[3] = 2 + rest[2].width /\ g[4] = 6 + rest[2].width
    <3>1. 1 \in 1 .. n /\ 2 \in 1 .. n /\ 3 \in 1 .. n /\ 4 \in 1 .. n
      BY <1>1, <2>1
    <3>2. g[1] = g[1 - 1] + rest[1].width /\ g[2] = g[2 - 1] + rest[2].width
      BY <1>2, <3>1
    <3>3. g[3] = g[3 - 1] + rest[3].width /\ g[4] = g[4 - 1] + rest[4].width
      BY <1>2, <3>1
    <3>4. 1 - 1 = 0 /\ 2 - 1 = 1 /\ 3 - 1 = 2 /\ 4 - 1 = 3
      OBVIOUS
    <3> QED
      BY <1>2, <2>2, <2>3, <3>2, <3>3, <3>4
  <2>6. Width(rest) >= g[4]
    <3>1. n = 4 \/ 4 < n
      BY <1>1, <2>1
    <3>2. 4 \in 0 .. n /\ n \in 0 .. n
      BY <1>1, <2>1
    <3>3. g[4] \in Nat /\ g[n] \in Nat /\ (4 < n => g[4] < g[n])
      BY <1>2, <3>2
    <3> QED
      BY <1>3, <3>1, <3>3
  <2>7. KindAt(rest, g[2]) = "dot"
    <3>1. 3 \in 1 .. n /\ 3 - 1 = 2
      BY <1>1, <2>1
    <3> QED
      BY <1>4, <2>2, <3>1
  <2>8. Width(rest) \in Int
    BY <1>1, <1>2, <1>3
  <2>9. CASE rest[2].width = 7
    <3>1. g[2] = 8 /\ g[3] = 9 /\ g[4] = 13
      BY <2>5, <2>9
    <3>2. Width(rest) >= 13 /\ KindAt(rest, 8) = "dot"
      BY <2>6, <2>7, <3>1
    <3> QED
      BY <1>7, <2>4, <3>1, <3>2 DEF PrefixWidth, g
  <2>10. CASE rest[2].width = 2
    <3>1. g[2] = 3 /\ g[3] = 4 /\ g[4] = 8
      BY <2>5, <2>10
    <3>2. Width(rest) >= 8 /\ KindAt(rest, 3) = "dot"
      BY <2>6, <2>7, <3>1
    <3>3. KindAt(rest, 8) # "dot"
      <4>1. SUFFICES ASSUME KindAt(rest, 8) = "dot"  PROVE FALSE
        OBVIOUS
      <4>2. PICK i \in 1 .. n : g[i - 1] = 8 /\ rest[i].kind = "dot"
        BY <4>1, KindAtOffset DEF g, n
      <4>3. i - 1 \in 0 .. n /\ 4 \in 0 .. n /\ i \in Nat
        BY <1>1, <2>1, <4>2
      <4>4. ~(i - 1 < 4) /\ ~(4 < i - 1)
        <5>1. i - 1 < 4 => g[i - 1] < g[4]
          BY <1>2, <4>3
        <5>2. 4 < i - 1 => g[4] < g[i - 1]
          BY <1>2, <4>3
        <5> QED
          BY <3>1, <4>2, <5>1, <5>2
      <4>5. i = 5
        BY <4>3, <4>4
      <4>6. rest[5 - 1].kind = "upper" /\ 5 - 1 = 4
        BY <4>2, <4>5 DEF DotsBehindAddress, n
      <4> QED
        BY <2>2, <4>6
    <3> QED
      BY <1>7, <2>4, <3>1, <3>2, <3>3 DEF PrefixWidth, g
  <2> QED
    BY <2>3, <2>9, <2>10
<1> QED
  BY <1>1, <1>6, <1>7

\* The text goes on behind the mark of the block.
LEMMA MarkSkipped ==
    ASSUME NEW prefix \in OhmaPrefixes, NEW first \in Nat, NEW txt, NEW n, NEW last,
           InBlocks(prefix, first, txt, n, last),
           NEW k \in 1 .. Len(txt), BlockAt(prefix, txt, k)
    PROVE  AfterMark(txt, k) = k + Len(prefix) + 1
<1> DEFINE rest == Rest(txt, k)
           p    == Len(prefix)
           marks == {i \in 1 .. Len(rest) : /\ Width(SubSeq(rest, 1, i - 1)) = PrefixWidth(rest)
                                            /\ rest[i].kind = "mark"}
<1>1. /\ rest \in Seq(OhmaTokens)
      /\ Len(rest) \in Nat /\ p \in {0, 3} /\ p + 1 <= Len(rest)
      /\ \A j \in 1 .. p : rest[j] = prefix[j]
      /\ rest[p + 1] = OhmaMark(1)
      /\ DotsBehindAddress(rest)
  BY RestFacts
<1> HIDE DEF rest
<1>2. PrefixWidth(rest) = WidthTo(rest)[p]
  BY <1>1, PrefixRecognised
<1>3. p + 1 \in 1 .. Len(rest) /\ p + 1 - 1 = p /\ p \in 0 .. Len(rest)
  BY <1>1
<1>4. \A i \in 1 .. Len(rest) : i \in marks <=> i = p + 1
  <2>1. SUFFICES ASSUME NEW i \in 1 .. Len(rest)  PROVE i \in marks <=> i = p + 1
    OBVIOUS
  <2>2. i - 1 \in 0 .. Len(rest)
    BY <1>1
  <2>3. Width(SubSeq(rest, 1, i - 1)) = WidthTo(rest)[i - 1]
    BY <1>1, <2>2, WidthOfFirst
  <2>4. WidthTo(rest)[i - 1] = WidthTo(rest)[p] => i - 1 = p
    <3>1. /\ WidthTo(rest)[i - 1] \in Nat /\ WidthTo(rest)[p] \in Nat
          /\ i - 1 < p => WidthTo(rest)[i - 1] < WidthTo(rest)[p]
          /\ p < i - 1 => WidthTo(rest)[p] < WidthTo(rest)[i - 1]
      BY <1>1, <1>3, <2>2, WidthGrows
    <3>2. i - 1 < p \/ p < i - 1 \/ i - 1 = p
      BY <1>3, <2>2
    <3> QED
      BY <3>1, <3>2
  <2>5. rest[p + 1].kind = "mark"
    BY <1>1 DEF OhmaMark, Token
  <2>6. i - 1 = p <=> i = p + 1
    BY <1>3
  <2> QED
    BY <1>2, <1>3, <2>3, <2>4, <2>5, <2>6
<1>5. marks = {p + 1}
  BY <1>3, <1>4
<1>6. AfterMark(txt, k) = k + (p + 1)
  <2>1. AfterMark(txt, k) = IF marks = {} THEN 0 ELSE k + (CHOOSE i \in marks : TRUE)
    BY DEF AfterMark, rest
  <2> HIDE DEF marks
  <2> QED
    BY <1>5, <2>1
<1> QED
  BY <1>1, <1>6

-----------------------------------------------------------------------------
(***************************************************************************)
(* The loop of restarts: where it ends.                                    *)
(***************************************************************************)

\* A set of naturals that is not empty has a minimum.
LEMMA MinOfNaturals ==
    ASSUME NEW S \in SUBSET Nat, S # {}
    PROVE  Min(S) \in S /\ \A i \in S : Min(S) <= i
<1>1. IsWellFoundedOn(OpToRel(<, Nat), Nat)
  BY NatLessThanWellFounded
<1>2. PICK m \in S : \A i \in S : ~(<<i, m>> \in OpToRel(<, Nat))
  BY <1>1, WFMin
<1>3. \A i \in S : ~(i < m)
  BY <1>2 DEF OpToRel
<1>4. m \in S /\ \A i \in S : m <= i
  BY <1>3
<1> QED
  BY <1>4 DEF Min

\* A function that is given by its value at another argument, or has one itself.
Refers(g, n, next, value) ==
    /\ g = [i \in 1 .. n |-> g[i]]
    /\ \A i \in 1 .. n : g[i] = IF next[i] = 0 THEN value[i] ELSE g[next[i]]

\* If it refers to itself only at greater arguments, it exists.
LEMMA Descending ==
    ASSUME NEW n \in Nat, NEW next, NEW value,
           \A i \in 1 .. n : next[i] = 0 \/ next[i] \in i + 1 .. n
    PROVE  \E g : Refers(g, n, next, value)
<1> DEFINE at(g, i) == g[i] = IF next[i] = 0 THEN value[i] ELSE g[next[i]]
           S == {m \in 0 .. n : \E g : \A i \in 1 .. n : n - m < i => at(g, i)}
<1>1. 0 \in S
  <2>1. \A i \in 1 .. n : ~(n - 0 < i)
    OBVIOUS
  <2> QED
    BY <2>1
<1>2. ASSUME NEW m \in 0 .. n - 1, m \in S  PROVE m + 1 \in S
  <2>1. PICK g : \A i \in 1 .. n : n - m < i => at(g, i)
    BY <1>2
  <2> DEFINE k == n - m
             h == [i \in 1 .. n |->
                     IF i = k THEN (IF next[k] = 0 THEN value[k] ELSE g[next[k]]) ELSE g[i]]
  <2>2. k \in 1 .. n
    OBVIOUS
  <2>3. \A i \in 1 .. n : h[i] = IF i = k THEN (IF next[k] = 0 THEN value[k] ELSE g[next[k]])
                                 ELSE g[i]
    OBVIOUS
  <2>4. ASSUME NEW i \in 1 .. n, n - (m + 1) < i  PROVE at(h, i)
    <3>1. i = k \/ k < i
      BY <2>4
    <3>2. next[i] # 0 => next[i] \in 1 .. n /\ next[i] # k
      BY <2>2, <3>1
    <3> HIDE DEF h, k
    <3>3. next[i] # 0 => h[next[i]] = g[next[i]]
      BY <2>3, <3>2
    <3>4. CASE i = k
      BY <2>2, <2>3, <3>3, <3>4
    <3>5. CASE i # k
      <4>1. at(g, i)
        BY <2>1, <2>2, <3>1, <3>5 DEF k
      <4> QED
        BY <2>3, <3>3, <3>5, <4>1
    <3> QED
      BY <3>4, <3>5
  <2>5. m + 1 \in 0 .. n
    OBVIOUS
  <2>6. \E f : \A i \in 1 .. n : n - (m + 1) < i => at(f, i)
    <3> HIDE DEF h, at
    <3> QED
      BY <2>4
  <2> QED
    BY <2>5, <2>6
<1>3. PICK g : \A i \in 1 .. n : at(g, i)
  <2>1. n \in S
    <3> HIDE DEF S
    <3>1. \A m \in 0 .. n : m \in S
      BY <1>1, <1>2, UpTo
    <3> QED
      BY <3>1
  <2>2. PICK g : \A i \in 1 .. n : n - n < i => at(g, i)
    BY <2>1
  <2>3. \A i \in 1 .. n : n - n < i
    OBVIOUS
  <2> QED
    BY <2>2, <2>3
<1> DEFINE f == [i \in 1 .. n |-> g[i]]
<1>4. \A i \in 1 .. n : f[i] = IF next[i] = 0 THEN value[i] ELSE f[next[i]]
  <2>1. SUFFICES ASSUME NEW i \in 1 .. n
                 PROVE  f[i] = IF next[i] = 0 THEN value[i] ELSE f[next[i]]
    OBVIOUS
  <2>2. next[i] # 0 => next[i] \in 1 .. n
    OBVIOUS
  <2> QED
    BY <1>3, <2>2
<1>5. f = [i \in 1 .. n |-> f[i]]
  OBVIOUS
<1> HIDE DEF f
<1> QED
  BY <1>4, <1>5 DEF Refers

\* From where a text is restarted that was begun at from, or zero.
RestartAt(txt, from) ==
    IF AfterMark(txt, from) = 0 \/ Repeats(txt, AfterMark(txt, from)) = {} THEN 0
    ELSE Min(Repeats(txt, AfterMark(txt, from)))

\* A text goes on behind where it was begun, and is restarted from further behind.
LEMMA RestartIsBehind ==
    ASSUME NEW T, NEW txt \in Seq(T), NEW from \in 1 .. Len(txt) + 1
    PROVE  /\ AfterMark(txt, from) = 0 \/ AfterMark(txt, from) \in from + 1 .. Len(txt) + 1
           /\ RestartAt(txt, from) = 0 \/
                 /\ RestartAt(txt, from) \in from + 1 .. Len(txt) + 1
                 /\ RestartAt(txt, from) \in Repeats(txt, AfterMark(txt, from))
                 /\ \A i \in Repeats(txt, AfterMark(txt, from)) : RestartAt(txt, from) <= i
           /\ AfterMark(txt, from) # 0 /\ Repeats(txt, AfterMark(txt, from)) # {} =>
                 RestartAt(txt, from) # 0
<1> DEFINE l == Len(txt)
           rest == Rest(txt, from)
           marks == {i \in 1 .. Len(rest) : /\ Width(SubSeq(rest, 1, i - 1)) = PrefixWidth(rest)
                                            /\ rest[i].kind = "mark"}
           ptr == AfterMark(txt, from)
           again == Repeats(txt, ptr)
<1>1. l \in Nat /\ Len(rest) = l - from + 1
  BY LastOnes DEF Rest
<1>2. ptr = IF marks = {} THEN 0 ELSE from + (CHOOSE i \in marks : TRUE)
  BY DEF AfterMark
<1>3. \A i \in marks : i \in 1 .. l - from + 1
  BY <1>1
<1> HIDE DEF l, rest, marks, ptr
<1>4. ptr = 0 \/ ptr \in from + 1 .. l + 1
  <2>1. CASE marks = {}
    BY <1>2, <2>1
  <2>2. CASE marks # {}
    <3>1. (CHOOSE i \in marks : TRUE) \in marks
      BY <2>2
    <3>2. PICK i \in marks : ptr = from + i
      BY <1>2, <2>2, <3>1
    <3>3. i \in 1 .. l - from + 1
      BY <1>3, <3>2
    <3> QED
      BY <1>1, <3>2, <3>3 DEF l
  <2> QED
    BY <2>1, <2>2
<1>5. RestartAt(txt, from) = IF ptr = 0 \/ again = {} THEN 0 ELSE Min(again)
  BY DEF RestartAt, ptr
<1>6. CASE ptr = 0 \/ again = {}
  BY <1>4, <1>5, <1>6 DEF l, ptr
<1>7. CASE ptr # 0 /\ again # {}
  <2>1. ptr \in from + 1 .. l + 1 /\ from \in 1 .. l + 1
    BY <1>4, <1>7 DEF l
  <2>2. \A i \in again : i \in ptr .. l
    BY DEF Repeats, l
  <2>3. again \in SUBSET Nat
    BY <1>1, <2>1, <2>2
  <2> HIDE DEF again
  <2>4. Min(again) \in again /\ \A i \in again : Min(again) <= i
    BY <1>7, <2>3, MinOfNaturals
  <2>5. Min(again) \in ptr .. l
    BY <2>2, <2>4
  <2>6. PICK m : m = Min(again)
    OBVIOUS
  <2>7. m \in from + 1 .. l + 1 /\ m # 0
    BY <1>1, <2>1, <2>5, <2>6
  <2>8. RestartAt(txt, from) = m
    BY <1>5, <1>7, <2>6
  <2> QED
    BY <1>4, <2>4, <2>6, <2>7, <2>8 DEF l, ptr, again
<1> QED
  BY <1>6, <1>7

\* The content is where the loop of restarts ends.
LEMMA ContentSteps ==
    ASSUME NEW T, NEW txt \in Seq(T)
    PROVE  \E g : /\ ContentAt(txt) = g[1]
                  /\ \A from \in 1 .. Len(txt) + 1 :
                        g[from] = IF RestartAt(txt, from) = 0 THEN AfterMark(txt, from)
                                  ELSE g[RestartAt(txt, from)]
<1> DEFINE n == Len(txt) + 1
           next == [i \in 1 .. n |-> RestartAt(txt, i)]
           value == [i \in 1 .. n |-> AfterMark(txt, i)]
           isAfter(g) == g = [from \in 1 .. n |->
                                LET ptr == AfterMark(txt, from)
                                IN  IF ptr = 0 \/ Repeats(txt, ptr) = {} THEN ptr
                                    ELSE g[Min(Repeats(txt, ptr))]]
           after == CHOOSE g : isAfter(g)
<1>1. n \in Nat /\ \A i \in 1 .. n : next[i] = RestartAt(txt, i) /\ value[i] = AfterMark(txt, i)
  OBVIOUS
<1>2. \A i \in 1 .. n : RestartAt(txt, i) = 0 \/ RestartAt(txt, i) \in i + 1 .. n
  BY RestartIsBehind
<1>3. ASSUME NEW g, NEW from \in 1 .. n
      PROVE  (IF RestartAt(txt, from) = 0 THEN AfterMark(txt, from) ELSE g[RestartAt(txt, from)])
             = LET ptr == AfterMark(txt, from)
               IN  IF ptr = 0 \/ Repeats(txt, ptr) = {} THEN ptr
                   ELSE g[Min(Repeats(txt, ptr))]
  <2>1. AfterMark(txt, from) # 0 /\ Repeats(txt, AfterMark(txt, from)) # {} =>
           RestartAt(txt, from) # 0
    BY RestartIsBehind
  <2> QED
    BY <2>1 DEF RestartAt
<1> HIDE DEF n
<1>4. PICK g : Refers(g, n, next, value)
  <2> HIDE DEF next, value
  <2>1. \A i \in 1 .. n : next[i] = 0 \/ next[i] \in i + 1 .. n
    BY <1>1, <1>2
  <2>2. n \in Nat
    BY <1>1
  <2> QED
    BY <2>1, <2>2, Descending
<1>5. isAfter(g)
  <2>1. \A i \in 1 .. n : g[i] = IF RestartAt(txt, i) = 0 THEN AfterMark(txt, i)
                                 ELSE g[RestartAt(txt, i)]
    BY <1>1, <1>4 DEF Refers
  <2>2. \A from \in 1 .. n : g[from] = LET ptr == AfterMark(txt, from)
                                       IN  IF ptr = 0 \/ Repeats(txt, ptr) = {} THEN ptr
                                           ELSE g[Min(Repeats(txt, ptr))]
    BY <1>3, <2>1
  <2> QED
    BY <1>4, <2>2 DEF Refers
<1>6. isAfter(after)
  <2> HIDE DEF isAfter
  <2> QED
    BY <1>5
<1>7. ContentAt(txt) = after[1]
  BY DEF ContentAt, n
<1>8. \A from \in 1 .. n :
         after[from] = IF RestartAt(txt, from) = 0 THEN AfterMark(txt, from)
                       ELSE after[RestartAt(txt, from)]
  <2> HIDE DEF after
  <2>1. SUFFICES ASSUME NEW from \in 1 .. n
                 PROVE  after[from] = IF RestartAt(txt, from) = 0 THEN AfterMark(txt, from)
                                      ELSE after[RestartAt(txt, from)]
    OBVIOUS
  <2>2. after[from] = LET ptr == AfterMark(txt, from)
                      IN  IF ptr = 0 \/ Repeats(txt, ptr) = {} THEN ptr
                          ELSE after[Min(Repeats(txt, ptr))]
    BY <1>6
  <2> QED
    BY <1>3, <2>2
<1> HIDE DEF after
<1> QED
  BY <1>7, <1>8 DEF n

\* What is behind a mark and repeats all before it is another block; and if there
\* is a block in front of it, it is not the last one.
LEMMA RepeatIsBlock ==
    ASSUME NEW prefix \in OhmaPrefixes, NEW first \in Nat, NEW txt, NEW n, NEW last,
           InBlocks(prefix, first, txt, n, last),
           NEW k \in 1 .. Len(txt), BlockAt(prefix, txt, k),
           NEW i \in Repeats(txt, k + Len(prefix) + 1)
    PROVE  /\ i \in 1 .. Len(txt) /\ BlockAt(prefix, txt, i)
           /\ k < i /\ i <= last
           /\ k > 1 => i < last
<1> DEFINE p == Len(prefix)
           l == Len(txt)
           ptr == k + p + 1
<1>1. p \in Nat
  BY PrefixFacts
<1>2. /\ l \in Nat /\ last \in Nat
      /\ BlockAt(prefix, txt, 1)
      /\ \A m \in 1 .. l : BlockAt(prefix, txt, m) => m <= last
  BY DEF InBlocks
<1>3. /\ i \in ptr .. l /\ i + ptr - 2 <= l
      /\ \A j \in 1 .. ptr - 1 : SameToken(txt[i + j - 1], txt[j])
  BY DEF Repeats
<1>4. txt[1 + p].kind = "mark" /\ txt[k + p].kind = "mark"
  BY <1>2 DEF BlockAt
<1> HIDE DEF p, l
<1>5. k \in Nat /\ k >= 1 /\ i \in Nat /\ i >= k + p + 1 /\ i + k + p - 1 <= l
  BY <1>1, <1>2, <1>3 DEF l
<1>6. 1 + p \in 1 .. ptr - 1 /\ k + p \in 1 .. ptr - 1
  BY <1>1, <1>5
<1>7. i + (1 + p) - 1 = i + p /\ i + (k + p) - 1 = i + k - 1 + p
  BY <1>1, <1>5
<1>8. txt[i + p].kind = "mark" /\ txt[i + k - 1 + p].kind = "mark"
  <2>1. SameToken(txt[i + (1 + p) - 1], txt[1 + p]) /\ SameToken(txt[i + (k + p) - 1], txt[k + p])
    BY <1>3, <1>6
  <2> QED
    BY <1>4, <1>7, <2>1 DEF SameToken
<1>9. i \in 1 .. l - p /\ i + k - 1 \in 1 .. l - p /\ i \in 1 .. l /\ i + k - 1 \in 1 .. l
  BY <1>1, <1>2, <1>5
<1>10. BlockAt(prefix, txt, i) /\ BlockAt(prefix, txt, i + k - 1)
  BY <1>8, <1>9 DEF BlockAt, p, l
<1>11. i <= last /\ i + k - 1 <= last
  BY <1>2, <1>9, <1>10
<1>12. k < i /\ (k > 1 => i < last)
  BY <1>1, <1>2, <1>5, <1>11
<1> QED
  BY <1>9, <1>10, <1>11, <1>12 DEF l

\* The second block repeats the first one.
LEMMA SecondRepeats ==
    ASSUME NEW prefix \in OhmaPrefixes, NEW first \in Nat, NEW txt, NEW n \in Nat, NEW last,
           InBlocks(prefix, first, txt, n, last), n > 1
    PROVE  LET second == BlockLength(prefix, first) + 1
           IN  /\ second \in 1 .. Len(txt)
               /\ BlockAt(prefix, txt, second)
               /\ second \in Repeats(txt, 1 + Len(prefix) + 1)
               /\ \A i \in Repeats(txt, 1 + Len(prefix) + 1) : second <= i
<1> DEFINE p == Len(prefix)
           l == Len(txt)
           b == BlockLength(prefix, first)
           block == OhmaBlock(prefix, first)
           second == b + 1
<1>1. p \in Nat /\ b = p + 1 + first
  <2>1. p \in {0, 3} /\ b = p + 1 + first
    BY BlockFacts
  <2> QED
    BY <2>1
<1>2. /\ l \in Nat /\ last \in Nat
      /\ BlockAt(prefix, txt, 1) /\ BlockAt(prefix, txt, second)
      /\ \A k \in 1 .. l : BlockAt(prefix, txt, k) =>
            \A j \in 1 .. b : txt[k + j - 1] = block[j]
      /\ \A k, m \in 1 .. l :
            BlockAt(prefix, txt, k) /\ BlockAt(prefix, txt, m) /\ k < m => k + b <= m
  BY DEF InBlocks
<1>3. second \in 1 .. l - p
  BY <1>2 DEF BlockAt
<1> HIDE DEF p, l, b, block
<1>4. /\ second \in 1 .. l /\ 1 \in 1 .. l
      /\ second \in 1 + p + 1 .. l /\ second + (1 + p + 1) - 2 <= l
  BY <1>1, <1>2, <1>3
<1>5. ASSUME NEW j \in 1 .. 1 + p + 1 - 1  PROVE SameToken(txt[second + j - 1], txt[j])
  <2>1. j \in 1 .. b /\ 1 + j - 1 = j
    BY <1>1, <1>5
  <2>2. txt[second + j - 1] = block[j] /\ txt[1 + j - 1] = block[j]
    BY <1>2, <1>4, <2>1
  <2> QED
    BY <2>1, <2>2 DEF SameToken
<1>6. second \in Repeats(txt, 1 + p + 1)
  <2> HIDE DEF second
  <2>1. PICK ptr : ptr = 1 + p + 1
    OBVIOUS
  <2>2. \A j \in 1 .. ptr - 1 : SameToken(txt[second + j - 1], txt[j])
    <3>1. SUFFICES ASSUME NEW j \in 1 .. ptr - 1
                   PROVE  SameToken(txt[second + j - 1], txt[j])
      OBVIOUS
    <3>2. j \in 1 .. 1 + p + 1 - 1
      BY <1>1, <2>1, <3>1
    <3> QED
      BY <1>5, <3>2
  <2>3. second \in ptr .. Len(txt) /\ second + ptr - 2 <= Len(txt)
    BY <1>4, <2>1 DEF l
  <2>4. second \in Repeats(txt, ptr)
    BY <2>2, <2>3 DEF Repeats
  <2> QED
    BY <2>1, <2>4
<1>7. ASSUME NEW i \in Repeats(txt, 1 + p + 1)  PROVE second <= i
  <2>1. i \in 1 .. l /\ BlockAt(prefix, txt, i) /\ 1 < i
    BY <1>2, <1>4, <1>7, RepeatIsBlock DEF p, l
  <2>2. 1 + b <= i
    BY <1>2, <1>4, <2>1
  <2> QED
    BY <1>1, <2>1, <2>2
<1> QED
  BY <1>2, <1>4, <1>6, <1>7 DEF p, l, b

\* From the last block there is no restart.
LEMMA NoRestart ==
    ASSUME NEW prefix \in OhmaPrefixes, NEW first \in Nat, NEW txt, NEW n, NEW last,
           InBlocks(prefix, first, txt, n, last)
    PROVE  /\ last \in 1 .. Len(txt)
           /\ AfterMark(txt, last) = last + Len(prefix) + 1
           /\ RestartAt(txt, last) = 0
<1>1. last \in Nat \ {0} /\ Len(txt) \in Nat /\ BlockAt(prefix, txt, last) /\ Len(prefix) \in Nat
  BY PrefixFacts DEF InBlocks
<1>2. last \in 1 .. Len(txt)
  BY <1>1 DEF BlockAt
<1>3. AfterMark(txt, last) = last + Len(prefix) + 1
  BY <1>1, <1>2, MarkSkipped
<1>4. Repeats(txt, last + Len(prefix) + 1) = {}
  <2>1. ASSUME NEW i \in Repeats(txt, last + Len(prefix) + 1)  PROVE FALSE
    <3>1. i \in 1 .. Len(txt) /\ last < i /\ i <= last
      BY <1>1, <1>2, <2>1, RepeatIsBlock
    <3> QED
      BY <1>1, <3>1
  <2> QED
    BY <2>1
<1> QED
  BY <1>2, <1>3, <1>4 DEF RestartAt

\* Of one or two blocks the content is behind the mark of the last one.
LEMMA ContentOfTwo ==
    ASSUME NEW prefix \in OhmaPrefixes, NEW first \in Nat, NEW txt, NEW n \in {1, 2}, NEW last,
           InBlocks(prefix, first, txt, n, last)
    PROVE  ContentAt(txt) = last + Len(prefix) + 1
<1>1. /\ last \in 1 .. Len(txt)
      /\ AfterMark(txt, last) = last + Len(prefix) + 1
      /\ RestartAt(txt, last) = 0
  BY NoRestart
<1>2. /\ txt \in Seq(OhmaTokens) /\ Len(txt) \in Nat /\ BlockAt(prefix, txt, 1)
      /\ n = 1 => last = 1
      /\ n = 2 => last = BlockLength(prefix, first) + 1
  BY DEF InBlocks
<1>3. PICK g : /\ ContentAt(txt) = g[1]
               /\ \A from \in 1 .. Len(txt) + 1 :
                     g[from] = IF RestartAt(txt, from) = 0 THEN AfterMark(txt, from)
                               ELSE g[RestartAt(txt, from)]
  BY <1>2, ContentSteps
<1>4. 1 \in 1 .. Len(txt) /\ 1 \in 1 .. Len(txt) + 1 /\ last \in 1 .. Len(txt) + 1
  BY <1>1, <1>2
<1>5. g[last] = last + Len(prefix) + 1
  BY <1>1, <1>3, <1>4
<1>6. CASE n = 1
  BY <1>2, <1>3, <1>5, <1>6
<1>7. CASE n = 2
  <2>1. /\ last \in Repeats(txt, 1 + Len(prefix) + 1)
        /\ \A i \in Repeats(txt, 1 + Len(prefix) + 1) : last <= i
    BY <1>2, <1>7, SecondRepeats
  <2>2. AfterMark(txt, 1) = 1 + Len(prefix) + 1 /\ Len(prefix) \in Nat
    BY <1>2, <1>4, MarkSkipped, PrefixFacts
  <2>3. /\ RestartAt(txt, 1) # 0
        /\ RestartAt(txt, 1) \in 2 .. Len(txt) + 1
        /\ RestartAt(txt, 1) \in Repeats(txt, 1 + Len(prefix) + 1)
        /\ \A i \in Repeats(txt, 1 + Len(prefix) + 1) : RestartAt(txt, 1) <= i
    <3>1. AfterMark(txt, 1) # 0 /\ Repeats(txt, AfterMark(txt, 1)) # {} /\ 1 + 1 = 2
      BY <2>1, <2>2
    <3>2. RestartAt(txt, 1) # 0
      BY <1>2, <1>4, <3>1, RestartIsBehind
    <3> QED
      BY <1>2, <1>4, <2>2, <3>1, <3>2, RestartIsBehind
  <2>4. RestartAt(txt, 1) = last
    <3>1. last <= RestartAt(txt, 1) /\ RestartAt(txt, 1) <= last
      BY <2>1, <2>3
    <3>2. RestartAt(txt, 1) \in Nat /\ last \in Nat
      BY <1>1, <2>3
    <3> QED
      BY <3>1, <3>2
  <2> QED
    BY <1>3, <1>4, <1>5, <2>3, <2>4
<1> QED
  BY <1>6, <1>7

\* Of more of them it has a mark: the loop does not get to the last one.
LEMMA ContentOfMany ==
    ASSUME NEW prefix \in OhmaPrefixes, NEW first \in Nat, NEW txt, NEW n \in Nat, NEW last,
           InBlocks(prefix, first, txt, n, last), n > 2
    PROVE  ContentAt(txt) \in 1 .. last + Len(prefix)
<1> DEFINE p == Len(prefix)
           l == Len(txt)
<1>1. /\ txt \in Seq(OhmaTokens) /\ l \in Nat /\ p \in Nat
      /\ last \in Nat /\ last > BlockLength(prefix, first) + 1
      /\ BlockAt(prefix, txt, 1)
  BY PrefixFacts DEF InBlocks
<1>2. last \in 1 .. l
  BY NoRestart
<1>3. PICK g : /\ ContentAt(txt) = g[1]
               /\ \A from \in 1 .. Len(txt) + 1 :
                     g[from] = IF RestartAt(txt, from) = 0 THEN AfterMark(txt, from)
                               ELSE g[RestartAt(txt, from)]
  BY <1>1, ContentSteps
<1> DEFINE S == {m \in 0 .. last : \A k \in 1 .. l :
                    BlockAt(prefix, txt, k) /\ k < last /\ last - m <= k =>
                       g[k] \in 1 .. last + p}
<1>4. 0 \in S
  <2>1. \A k \in 1 .. l : ~(k < last /\ last - 0 <= k)
    BY <1>1
  <2> QED
    BY <1>1, <2>1
<1>5. ASSUME NEW m \in 0 .. last - 1, m \in S  PROVE m + 1 \in S
  <2>1. m + 1 \in 0 .. last
    BY <1>1, <1>5
  <2>2. \A k \in 1 .. l : BlockAt(prefix, txt, k) /\ k < last /\ last - m <= k =>
                             g[k] \in 1 .. last + p
    BY <1>5
  <2>3. ASSUME NEW k \in 1 .. l, BlockAt(prefix, txt, k), k < last, last - (m + 1) <= k
        PROVE  g[k] \in 1 .. last + p
    <3>1. k \in 1 .. Len(txt) + 1 /\ k \in Nat
      BY <1>1
    <3>2. AfterMark(txt, k) = k + p + 1
      BY <2>3, MarkSkipped
    <3>3. CASE RestartAt(txt, k) = 0
      <4>1. g[k] = k + p + 1
        BY <1>3, <3>1, <3>2, <3>3
      <4> HIDE DEF p, l
      <4>2. k + p + 1 \in 1 .. last + p
        BY <1>1, <2>3, <3>1
      <4> QED
        BY <4>1, <4>2
    <3>4. CASE RestartAt(txt, k) # 0
      <4>1. PICK i : i = RestartAt(txt, k)
        OBVIOUS
      <4>2. /\ i \in Repeats(txt, k + p + 1)
            /\ \A j \in Repeats(txt, k + p + 1) : i <= j
        BY <1>1, <3>1, <3>2, <3>4, <4>1, RestartIsBehind
      <4>3. /\ i \in 1 .. l /\ BlockAt(prefix, txt, i)
            /\ k < i /\ i <= last
            /\ k > 1 => i < last
        BY <2>3, <4>2, RepeatIsBlock
      <4>4. k = 1 => i < last
        <5>1. SUFFICES ASSUME k = 1  PROVE i < last
          OBVIOUS
        <5>2. /\ BlockLength(prefix, first) + 1 \in 1 .. l
              /\ BlockLength(prefix, first) + 1 \in Repeats(txt, 1 + p + 1)
          BY SecondRepeats
        <5>3. i <= BlockLength(prefix, first) + 1
          BY <4>2, <5>1, <5>2
        <5> QED
          BY <1>1, <4>3, <5>2, <5>3
      <4>5. i < last /\ last - m <= i
        <5>1. k = 1 \/ k > 1
          BY <3>1
        <5> QED
          BY <1>1, <1>5, <2>3, <3>1, <4>3, <4>4, <5>1
      <4>6. g[i] \in 1 .. last + p
        BY <2>2, <4>3, <4>5
      <4> QED
        BY <1>3, <3>1, <3>4, <4>1, <4>6
    <3> QED
      BY <3>3, <3>4
  <2> QED
    BY <2>1, <2>3
<1>6. last \in S
  <2> HIDE DEF S
  <2>1. \A m \in 0 .. last : m \in S
    BY <1>1, <1>4, <1>5, UpTo
  <2> QED
    BY <1>1, <2>1
<1>7. 1 \in 1 .. l /\ 1 < last /\ last - last <= 1
  <2>1. BlockLength(prefix, first) \in Nat
    BY BlockFacts
  <2> QED
    BY <1>1, <1>2, <2>1
<1>8. g[1] \in 1 .. last + p
  BY <1>1, <1>6, <1>7
<1> QED
  BY <1>3, <1>8

-----------------------------------------------------------------------------
(***************************************************************************)
(* What is decoded of the content.                                         *)
(***************************************************************************)

\* The ends of line are taken off.
LEMMA ChompedFacts ==
    ASSUME NEW T, NEW txt \in Seq(T), NEW n \in 0 .. Len(txt),
           n > 0 => txt[n].kind # "eol",
           \A i \in n + 1 .. Len(txt) : txt[i].kind = "eol"
    PROVE  Chomped(txt) = SubSeq(txt, 1, n)
<1> DEFINE ends(m) == /\ m > 0 => txt[m].kind # "eol"
                      /\ \A i \in m + 1 .. Len(txt) : txt[i].kind = "eol"
<1>1. ends(n) /\ Len(txt) \in Nat
  OBVIOUS
<1>2. ASSUME NEW m \in 0 .. Len(txt), ends(m)  PROVE m = n
  <2>1. CASE m < n
    <3>1. n \in m + 1 .. Len(txt) /\ n > 0
      BY <1>1, <2>1
    <3> QED
      BY <1>1, <1>2, <3>1
  <2>2. CASE n < m
    <3>1. m \in n + 1 .. Len(txt) /\ m > 0
      BY <1>1, <2>2
    <3> QED
      BY <1>1, <1>2, <3>1
  <2> QED
    BY <1>1, <2>1, <2>2
<1> HIDE DEF ends
<1>3. (CHOOSE m \in 0 .. Len(txt) : ends(m)) = n
  BY <1>1, <1>2
<1> QED
  BY <1>3 DEF Chomped, ends

\* The text from a place up to the last mark or behind it, without what ends the line.
LEMMA ContentChomped ==
    ASSUME NEW txt \in Seq(OhmaTokens), NEW z, NEW groups \in Nat, NEW cut \in 0 .. 3,
           NEW eol \in Nat, ContentBehind(txt, z, groups, cut, eol), txt[z] = OhmaMark(1),
           NEW q \in 1 .. z + 1
    PROVE  LET body == Chomped(Rest(txt, q))
           IN  /\ body \in Seq(OhmaTokens)
               /\ Len(body) = z + groups + Len(CutGroup(cut)) - q + 1
               /\ \A i \in 1 .. Len(body) : body[i] = txt[q + i - 1]
<1> DEFINE c == Len(CutGroup(cut))
           l == Len(txt)
           rest == Rest(txt, q)
           n == z + groups + c - q + 1
<1>1. /\ z \in Nat \ {0} /\ l = z + groups + c + eol
      /\ \A j \in 1 .. groups : txt[z + j] = Quad(j)
      /\ cut > 0 => txt[z + groups + 1] = QuadCut(cut)
      /\ \A j \in 1 .. eol : txt[z + groups + c + j] = Eol
  BY DEF ContentBehind
<1>2. c = (IF cut > 0 THEN 1 ELSE 0) /\ c \in Nat
  <2>1. c = IF cut > 0 THEN 1 ELSE 0
    BY EndFacts
  <2> QED
    BY <2>1
<1>3. q \in 1 .. Len(txt) + 1 /\ l \in Nat /\ q \in Nat
  BY <1>1, <1>2
<1>4. /\ rest \in Seq(OhmaTokens)
      /\ Len(rest) = l - q + 1
      /\ \A i \in 1 .. l - q + 1 : rest[i] = txt[q + i - 1]
  BY <1>3, LastOnes DEF Rest
<1> HIDE DEF c, l, rest
<1>5. n \in 0 .. Len(rest) /\ Len(rest) = n + eol
  BY <1>1, <1>2, <1>3, <1>4
<1>6. n > 0 => rest[n].kind # "eol"
  <2>1. SUFFICES ASSUME n > 0  PROVE rest[n].kind # "eol"
    OBVIOUS
  <2>2. n \in 1 .. l - q + 1 /\ q + n - 1 = z + groups + c
    BY <1>1, <1>2, <1>3, <1>4, <1>5, <2>1
  <2>3. rest[n] = txt[z + groups + c]
    BY <1>4, <2>2
  <2>4. CASE cut > 0
    <3>1. rest[n] = QuadCut(cut)
      BY <1>1, <1>2, <2>3, <2>4
    <3> QED
      BY <3>1 DEF QuadCut, Token
  <2>5. CASE ~(cut > 0) /\ groups > 0
    <3>1. c = 0 /\ groups \in 1 .. groups /\ z + groups + c = z + groups
      BY <1>1, <1>2, <2>5
    <3>2. rest[n] = Quad(groups)
      BY <1>1, <2>3, <3>1
    <3> QED
      BY <3>2 DEF Quad, Token
  <2>6. CASE ~(cut > 0) /\ groups = 0
    <3>1. z + groups + c = z
      BY <1>1, <1>2, <2>6
    <3> QED
      BY <2>3, <3>1 DEF OhmaMark, Token
  <2> QED
    BY <2>4, <2>5, <2>6
<1>7. \A i \in n + 1 .. Len(rest) : rest[i].kind = "eol"
  <2>1. SUFFICES ASSUME NEW i \in n + 1 .. Len(rest)  PROVE rest[i].kind = "eol"
    OBVIOUS
  <2>2. /\ i \in 1 .. l - q + 1
        /\ i - n \in 1 .. eol
        /\ q + i - 1 = z + groups + c + (i - n)
    BY <1>1, <1>2, <1>3, <1>4, <1>5
  <2>3. rest[i] = Eol
    BY <1>1, <1>4, <2>2
  <2> QED
    BY <2>3 DEF Eol, Token
<1> HIDE DEF n
<1>8. Chomped(rest) = SubSeq(rest, 1, n)
  BY <1>4, <1>5, <1>6, <1>7, ChompedFacts
<1>9. /\ SubSeq(rest, 1, n) \in Seq(OhmaTokens)
      /\ Len(SubSeq(rest, 1, n)) = n
      /\ \A i \in 1 .. n : SubSeq(rest, 1, n)[i] = rest[i]
  BY <1>4, <1>5, FirstOnes
<1>10. ASSUME NEW i \in 1 .. n  PROVE rest[i] = txt[q + i - 1]
  <2>1. i \in 1 .. l - q + 1
    BY <1>3, <1>4, <1>5
  <2> QED
    BY <1>4, <2>1
<1> QED
  BY <1>8, <1>9, <1>10 DEF rest, n, c

\* Behind the last mark are the groups that arrived.
LEMMA ContentDecoded ==
    ASSUME NEW txt \in Seq(OhmaTokens), NEW z, NEW groups \in Nat, NEW cut \in 0 .. 3,
           NEW eol \in Nat, ContentBehind(txt, z, groups, cut, eol), txt[z] = OhmaMark(1)
    PROVE  LET decoded == OhmaDecode(Chomped(Rest(txt, z + 1)))
           IN  /\ groups = OhmaLength =>
                     decoded = OhmaResult("SUCCESS", [i \in 1 .. OhmaLength |-> i])
               /\ groups # OhmaLength => decoded.err # "SUCCESS"
<1> DEFINE body == Chomped(Rest(txt, z + 1))
           c == Len(CutGroup(cut))
           n == Len(body)
<1>1. /\ z \in Nat \ {0}
      /\ \A j \in 1 .. groups : txt[z + j] = Quad(j)
      /\ cut > 0 => txt[z + groups + 1] = QuadCut(cut)
  BY DEF ContentBehind
<1>2. c = (IF cut > 0 THEN 1 ELSE 0)
  BY EndFacts
<1>3. z + 1 \in 1 .. z + 1
  BY <1>1
<1>4. /\ body \in Seq(OhmaTokens)
      /\ n = z + groups + c - (z + 1) + 1
      /\ \A i \in 1 .. n : body[i] = txt[z + 1 + i - 1]
  BY <1>3, ContentChomped
<1> HIDE DEF c, n, body
<1>5. n = groups + c /\ c \in {0, 1} /\ n \in Nat
  <2>1. z \in Nat /\ c \in {0, 1}
    BY <1>1, <1>2
  <2>2. n = z + groups + c - (z + 1) + 1
    BY <1>4
  <2> QED
    BY <2>1, <2>2
<1>6. \A i \in 1 .. groups : body[i] = Quad(i)
  <2>1. SUFFICES ASSUME NEW i \in 1 .. groups  PROVE body[i] = Quad(i)
    OBVIOUS
  <2>2. i \in 1 .. n /\ z + 1 + i - 1 = z + i
    BY <1>1, <1>5
  <2> QED
    BY <1>1, <1>4, <2>2
<1>7. cut > 0 => n = groups + 1 /\ body[n] = QuadCut(cut)
  <2>1. SUFFICES ASSUME cut > 0  PROVE n = groups + 1 /\ body[n] = QuadCut(cut)
    OBVIOUS
  <2>2. n = groups + 1 /\ n \in 1 .. n /\ z + 1 + n - 1 = z + groups + 1
    BY <1>1, <1>2, <1>5, <2>1
  <2> QED
    BY <1>1, <1>4, <2>1, <2>2
<1>8. ~(cut > 0) => n = groups
  BY <1>2, <1>5
<1> DEFINE whole == IF body # <<>> /\ body[Len(body)].kind = "quad_cut" THEN Len(body) - 1
                    ELSE Len(body)
<1>9. whole = groups
  <2>1. CASE cut > 0
    <3>1. body # <<>>
      BY <1>4, <1>7, <2>1 DEF n
    <3>2. body[Len(body)].kind = "quad_cut"
      BY <1>7, <2>1 DEF QuadCut, Token, n
    <3>3. Len(body) - 1 = groups
      BY <1>7, <2>1 DEF n
    <3> QED
      BY <3>1, <3>2, <3>3
  <2>2. CASE ~(cut > 0)
    <3>1. body # <<>> => body[Len(body)].kind = "quad"
      <4>1. SUFFICES ASSUME body # <<>>  PROVE body[Len(body)].kind = "quad"
        OBVIOUS
      <4>2. groups \in 1 .. groups /\ Len(body) = groups
        BY <1>4, <1>8, <2>2, <4>1 DEF n
      <4> QED
        BY <1>6, <4>2 DEF Quad, Token
    <3> QED
      BY <1>8, <2>2, <3>1 DEF n
  <2> QED
    BY <2>1, <2>2
<1>10. WholeGroups(body) = [i \in 1 .. groups |-> i]
  <2>1. WholeGroups(body) = [i \in 1 .. groups |-> body[i].value]
    BY <1>9 DEF WholeGroups
  <2>2. \A i \in 1 .. groups : body[i].value = i
    <3>1. \A i \in 1 .. groups : Quad(i).value = i
      BY DEF Quad, Token
    <3> QED
      BY <1>6, <3>1
  <2> QED
    BY <2>1, <2>2
<1>11. CASE groups = OhmaLength
  <2>1. WholeGroups(body) = <<1, 2, 3>> /\ [i \in 1 .. OhmaLength |-> i] = <<1, 2, 3>>
    BY <1>10, <1>11 DEF OhmaLength
  <2>2. WholeGroups(body) # <<>> /\ Head(WholeGroups(body)) = 1
    BY <2>1
  <2>3. body # <<>>
    BY <1>4, <1>5, <1>11 DEF n, OhmaLength
  <2>4. \A i \in DOMAIN body : body[i].kind \in Base64Kinds
    <3>1. SUFFICES ASSUME NEW i \in 1 .. n  PROVE body[i].kind \in Base64Kinds
      BY <1>4 DEF n
    <3>2. CASE i \in 1 .. groups
      <4>1. Quad(i).kind \in Base64Kinds
        BY DEF Quad, Token, Base64Kinds
      <4> QED
        BY <1>6, <3>2, <4>1
    <3>3. CASE i \notin 1 .. groups
      <4>1. cut > 0 /\ i = n
        BY <1>2, <1>5, <3>3
      <4> QED
        BY <1>7, <4>1 DEF QuadCut, Token, Base64Kinds
    <3> QED
      BY <3>2, <3>3
  <2>5. OhmaDecode(body) = OhmaResult("SUCCESS", WholeGroups(body))
    BY <2>1, <2>2, <2>3, <2>4 DEF OhmaDecode
  <2> QED
    BY <1>11, <2>1, <2>5 DEF body
<1>12. CASE groups # OhmaLength
  <2>1. WholeGroups(body) # [i \in 1 .. OhmaLength |-> i]
    <3>1. DOMAIN WholeGroups(body) = 1 .. groups
      BY <1>10
    <3>2. 1 .. groups # 1 .. OhmaLength
      <4>1. groups < 3 \/ groups > 3
        BY <1>12 DEF OhmaLength
      <4>2. groups < 3 => 3 \notin 1 .. groups /\ 3 \in 1 .. OhmaLength
        BY DEF OhmaLength
      <4>3. groups > 3 => groups \in 1 .. groups /\ groups \notin 1 .. OhmaLength
        BY DEF OhmaLength
      <4> QED
        BY <4>1, <4>2, <4>3
    <3> QED
      BY <3>1, <3>2
  <2>2. OhmaDecode(body).err # "SUCCESS"
    BY <2>1 DEF OhmaDecode, NoOhma, OhmaResult
  <2> QED
    BY <1>12, <2>2 DEF body
<1> QED
  BY <1>11, <1>12

\* With a mark in it, a content is none.
LEMMA MarkNotDecoded ==
    ASSUME NEW txt \in Seq(OhmaTokens), NEW z, NEW groups \in Nat, NEW cut \in 0 .. 3,
           NEW eol \in Nat, ContentBehind(txt, z, groups, cut, eol), txt[z] = OhmaMark(1),
           NEW q \in 1 .. z
    PROVE  OhmaDecode(Chomped(Rest(txt, q))).err # "SUCCESS"
<1> DEFINE body == Chomped(Rest(txt, q))
           c == Len(CutGroup(cut))
           n == Len(body)
           i0 == z - q + 1
<1>1. /\ z \in Nat \ {0}
      /\ \A j \in 1 .. groups : txt[z + j] = Quad(j)
      /\ cut > 0 => txt[z + groups + 1] = QuadCut(cut)
  BY DEF ContentBehind
<1>2. c = (IF cut > 0 THEN 1 ELSE 0)
  BY EndFacts
<1>3. q \in 1 .. z + 1
  BY <1>1
<1>4. /\ body \in Seq(OhmaTokens)
      /\ n = z + groups + c - q + 1
      /\ \A i \in 1 .. n : body[i] = txt[q + i - 1]
  BY <1>3, ContentChomped
<1> HIDE DEF c, n, body
<1>5. /\ n = i0 + groups + c /\ c \in {0, 1} /\ n \in Nat /\ i0 \in 1 .. n
      /\ q + i0 - 1 = z /\ q + n - 1 = z + groups + c
  BY <1>1, <1>2, <1>4
<1>6. body[i0].value = -1
  <2>1. body[i0] = OhmaMark(1)
    BY <1>4, <1>5
  <2> QED
    BY <2>1 DEF OhmaMark, Token
<1>7. body[n] = txt[z + groups + c]
  <2> HIDE DEF i0
  <2>1. n \in 1 .. n
    BY <1>5
  <2> QED
    BY <1>4, <1>5, <2>1
<1> DEFINE whole == IF body # <<>> /\ body[Len(body)].kind = "quad_cut" THEN Len(body) - 1
                    ELSE Len(body)
<1>8. i0 \in 1 .. whole
  <2>1. CASE cut > 0
    <3>1. n - 1 = i0 + groups /\ i0 \in 1 .. n - 1
      BY <1>1, <1>2, <1>5, <2>1
    <3> QED
      BY <1>5, <3>1 DEF n
  <2>2. CASE ~(cut > 0)
    <3>1. c = 0
      BY <1>2, <2>2
    <3>2. body[n].kind # "quad_cut"
      <4>1. CASE groups = 0
        <5>1. z + groups + c = z
          BY <1>1, <3>1, <4>1
        <5> QED
          BY <1>7, <5>1 DEF OhmaMark, Token
      <4>2. CASE groups > 0
        <5>1. z + groups + c = z + groups /\ groups \in 1 .. groups
          BY <1>1, <3>1, <4>2
        <5>2. body[n] = Quad(groups)
          BY <1>1, <1>7, <5>1
        <5> QED
          BY <5>2 DEF Quad, Token
      <4> QED
        BY <4>1, <4>2
    <3> QED
      BY <1>5, <3>2 DEF n
  <2> QED
    BY <2>1, <2>2
<1>9. WholeGroups(body) # [i \in 1 .. OhmaLength |-> i]
  <2>1. WholeGroups(body) = [i \in 1 .. whole |-> body[i].value]
    BY DEF WholeGroups
  <2> HIDE DEF whole
  <2>2. DOMAIN WholeGroups(body) = 1 .. whole /\ WholeGroups(body)[i0] = -1
    BY <1>6, <1>8, <2>1
  <2>3. SUFFICES ASSUME WholeGroups(body) = [i \in 1 .. OhmaLength |-> i]  PROVE FALSE
    OBVIOUS
  <2>4. 1 .. whole = 1 .. OhmaLength
    BY <2>2, <2>3
  <2>5. i0 \in 1 .. OhmaLength
    BY <1>8, <2>4
  <2>6. WholeGroups(body)[i0] = i0
    BY <2>3, <2>5
  <2> HIDE DEF i0
  <2> QED
    BY <2>2, <2>5, <2>6 DEF OhmaLength
<1>10. OhmaDecode(body).err # "SUCCESS"
  BY <1>9 DEF OhmaDecode, NoOhma, OhmaResult
<1> QED
  BY <1>10 DEF body

\* What is made of a message is its groups, if all of them are there and its first
\* block has come no more than twice; otherwise it is no message without an error.
LEMMA OhmaParsed ==
    ASSUME NEW s, OhmaSending(s)
    PROVE  IF s.groups = OhmaLength /\ s.copies <= 2
           THEN OhmaParse(OhmaText(s)) = OhmaResult("SUCCESS", [i \in 1 .. OhmaLength |-> i])
           ELSE OhmaParse(OhmaText(s)).err # "SUCCESS"
<1> DEFINE txt == OhmaText(s)
<1>1. PICK last : /\ InBlocks(s.prefix, s.first, txt, s.copies, last)
                  /\ ContentBehind(txt, last + Len(s.prefix), s.groups, s.cut, s.eol)
  BY OhmaTextFacts
<1>2. /\ s.prefix \in OhmaPrefixes /\ s.groups \in Nat /\ s.first \in Nat
      /\ s.copies \in Nat \ {0} /\ s.cut \in 0 .. 3 /\ s.eol \in Nat
  <2>1. OhmaLength \in Nat
    BY DEF OhmaLength
  <2> QED
    BY <2>1 DEF OhmaSending, OhmaPrefixes
<1> DEFINE z == last + Len(s.prefix)
           q == ContentAt(txt)
<1> HIDE DEF txt
<1>3. txt \in Seq(OhmaTokens) /\ Len(txt) \in Nat /\ BlockAt(s.prefix, txt, last)
  BY <1>1 DEF InBlocks
<1>4. last \in 1 .. Len(txt) /\ Len(s.prefix) \in Nat
  BY <1>1, <1>2, NoRestart, PrefixFacts
<1>5. txt[z] = OhmaMark(1)
  <2>1. /\ \A j \in 1 .. BlockLength(s.prefix, s.first) :
              txt[last + j - 1] = OhmaBlock(s.prefix, s.first)[j]
    BY <1>1, <1>3, <1>4 DEF InBlocks
  <2>2. /\ OhmaBlock(s.prefix, s.first)[Len(s.prefix) + 1] = OhmaMark(1)
        /\ BlockLength(s.prefix, s.first) = Len(s.prefix) + 1 + s.first
    BY <1>2, BlockFacts
  <2>3. PICK p : p = Len(s.prefix) /\ p \in Nat
    BY <1>4
  <2>4. p + 1 \in 1 .. BlockLength(s.prefix, s.first) /\ last + (p + 1) - 1 = last + p
    BY <1>2, <1>4, <2>2, <2>3
  <2>5. txt[last + (p + 1) - 1] = OhmaMark(1)
    BY <2>1, <2>2, <2>3, <2>4
  <2> QED
    BY <2>3, <2>4, <2>5
<1>6. z \in Nat \ {0}
  BY <1>4
<1>7. ContentBehind(txt, z, s.groups, s.cut, s.eol)
  BY <1>1
<1>8. OhmaParse(txt) = IF q = 0 THEN NoOhma ELSE OhmaDecode(Chomped(Rest(txt, q)))
  BY DEF OhmaParse
<1> DEFINE decoded == OhmaDecode(Chomped(Rest(txt, z + 1)))
           whole == OhmaResult("SUCCESS", [i \in 1 .. OhmaLength |-> i])
<1>9. CASE s.copies <= 2
  <2>1. s.copies \in {1, 2}
    BY <1>2, <1>9
  <2>2. q = last + Len(s.prefix) + 1
    BY <1>1, <1>2, <2>1, ContentOfTwo
  <2>3. /\ s.groups = OhmaLength => decoded = whole
        /\ s.groups # OhmaLength => decoded.err # "SUCCESS"
    BY <1>2, <1>3, <1>5, <1>7, ContentDecoded
  <2> HIDE DEF z, q, decoded, whole
  <2>4. q = z + 1 /\ q # 0
    BY <1>6, <2>2 DEF z
  <2>5. OhmaParse(txt) = decoded
    BY <1>8, <2>4 DEF decoded
  <2> QED
    BY <1>9, <2>3, <2>5 DEF txt, whole
<1>10. CASE ~(s.copies <= 2)
  <2>1. s.copies \in Nat /\ s.copies > 2
    BY <1>2, <1>10
  <2>2. q \in 1 .. z
    BY <1>1, <1>2, <2>1, ContentOfMany
  <2> HIDE DEF txt, z, q
  <2>3. s.groups \in Nat /\ s.cut \in 0 .. 3 /\ s.eol \in Nat
    BY <1>2
  <2>4. OhmaDecode(Chomped(Rest(txt, q))).err # "SUCCESS"
    BY <1>3, <1>5, <1>7, <2>2, <2>3, MarkNotDecoded
  <2>5. q # 0
    BY <1>6, <2>2
  <2>6. OhmaParse(txt).err # "SUCCESS"
    BY <1>8, <2>4, <2>5
  <2> QED
    BY <1>10, <2>6 DEF txt
<1> QED
  BY <1>9, <1>10

\* The text of a message is passed to the parser of OHMA as it is.
LEMMA OhmaTextExtracted ==
    ASSUME NEW s, OhmaSending(s), NEW label, NEW dir
    PROVE  /\ Extracted(label, dir, OhmaText(s)) = OhmaText(s)
           /\ ArincParse(OhmaText(s)) = NoArinc
           /\ SingleTransfer(OhmaText(s)) = NoUnit
<1> DEFINE txt == OhmaText(s)
<1>1. txt \in Seq(OhmaTokens)
  <2>1. PICK last : InBlocks(s.prefix, s.first, txt, s.copies, last)
    BY OhmaTextFacts
  <2> QED
    BY <2>1 DEF InBlocks
<1> HIDE DEF txt
<1>2. \A i \in 1 .. Len(txt) :
         txt[i].kind \in {"slash", "upper", "dot", "mark", "quad", "quad_cut", "eol"}
  <2>1. \A i \in 1 .. Len(txt) : txt[i] \in OhmaTokens
    BY <1>1, ElementOfSeq
  <2> QED
    BY <2>1 DEF OhmaTokens
<1>3. ~Starts(txt, "sublabel") /\ ~Starts(txt, "frame")
  <2>1. txt # <<>> => 1 \in 1 .. Len(txt) /\ Head(txt) = txt[1]
    BY <1>1
  <2>2. txt # <<>> => Head(txt).kind # "sublabel" /\ Head(txt).kind # "frame"
    BY <1>2, <2>1
  <2> QED
    BY <2>2 DEF Starts
<1>4. Extracted(label, dir, txt) = txt
  BY <1>3 DEF Extracted, HasSublabel
<1>5. ArincParse(txt) = NoArinc
  <2>1. \A i \in 1 .. Len(txt) : txt[i].kind # "imi"
    BY <1>2
  <2> QED
    BY <1>1, <2>1, NoImi
<1>6. SingleTransfer(txt) = NoUnit
  BY <1>3 DEF SingleTransfer
<1> QED
  BY <1>4, <1>5, <1>6 DEF txt

\* The content of an OHMA message is decoded just when all of it is there, also
\* when the first block has come twice, however long the blocks are.
THEOREM OhmaDecoded == SenderSpec => []OhmaAsSent
<1>1. ASSUME NodeAsDecoded  PROVE OhmaAsSent
  <2> DEFINE complete == sent.groups = OhmaLength /\ sent.copies <= 2
             whole == OhmaResult("SUCCESS", [i \in 1 .. OhmaLength |-> i])
             text == OhmaText(sent)
  <2>1. SUFFICES ASSUME Returned, sent.app = "ohma"
                 PROVE  IF sent.label = "H1" /\ complete
                        THEN node = Node("ohma", whole)
                        ELSE node.app = "ohma" => node.msg.err # "SUCCESS"
    BY DEF OhmaAsSent
  <2>2. OhmaSending(sent) /\ node = NodeOf(sent.label, sent.dir, text)
    BY <1>1, <2>1, SendingIsSending DEF Returned
  <2>3. /\ Extracted(sent.label, sent.dir, text) = text
        /\ ArincParse(text) = NoArinc
        /\ SingleTransfer(text) = NoUnit
    BY <2>2, OhmaTextExtracted
  <2>4. IF complete THEN OhmaParse(text) = whole ELSE OhmaParse(text).err # "SUCCESS"
    BY <2>2, OhmaParsed
  <2>5. whole # NoOhma
    BY DEF NoOhma, OhmaResult
  <2> HIDE DEF complete, whole, text
  <2>6. /\ node.app = "ohma" => node = Node("ohma", OhmaParse(text))
        /\ sent.label = "H1" /\ OhmaParse(text) # NoOhma => node.app = "ohma"
    BY <2>2, <2>3, NodeOfText
  <2>7. CASE sent.label = "H1" /\ complete
    BY <2>4, <2>5, <2>6, <2>7
  <2>8. CASE ~(sent.label = "H1" /\ complete)
    <3>1. SUFFICES ASSUME node.app = "ohma"  PROVE node.msg.err # "SUCCESS"
      BY <2>8
    <3>2. node.msg = OhmaParse(text) /\ sent.label = "H1"
      BY <2>2, <2>6, <3>1, NodeOfText DEF Node
    <3> QED
      BY <2>4, <2>8, <3>2
  <2> QED
    BY <2>7, <2>8
<1> QED
  BY <1>1, NodeDecoded, PTL

-----------------------------------------------------------------------------
(***************************************************************************)
(* MIAM CORE: the octets that are sent of a data unit.                     *)
(***************************************************************************)

\* However the type is read, the identifier has so many octets.
LEMMA AppIdIsShort ==
    ASSUME NEW version, NEW type
    PROVE  AppIdLength(version, type) \in 0 .. 8
<1>1. \/ AppIdLength(version, type) \in {0, 2, 4, 6}
      \/ type \in 8 .. 15 /\ AppIdLength(version, type) = (type % 8) + 1
  BY DEF AppIdLength
<1>2. type \in 8 .. 15 => (type % 8) + 1 \in 0 .. 8
  OBVIOUS
<1> QED
  BY <1>1, <1>2

\* The identifier of the application is as long as its type says.
LEMMA AppIdFacts ==
    ASSUME NEW version, NEW type
    PROVE  /\ AppIdLength(version, type) \in 0 .. 8
           /\ AppId(version, type) \in Seq(Nat)
           /\ Len(AppId(version, type)) =
                 IF AppIdLength(version, type) = 0 THEN 2 ELSE AppIdLength(version, type)
<1> DEFINE n == AppIdLength(version, type)
           id == AppId(version, type)
<1>1. n \in 0 .. 8
  BY AppIdIsShort
<1> DEFINE l == IF n = 0 THEN 2 ELSE n
<1>2. id = [i \in 1 .. l |-> 64 + i]
  BY DEF AppId
<1> HIDE DEF n, id
<1>3. l \in Nat /\ \A i \in 1 .. l : id[i] \in Nat
  BY <1>1, <1>2
<1>4. id \in Seq(Nat) /\ Len(id) = l
  <2> HIDE DEF l
  <2>1. id = [i \in 1 .. l |-> id[i]]
    BY <1>2
  <2> QED
    BY <1>3, <2>1, IsSequence
<1> QED
  BY <1>1, <1>4 DEF n, id

\* A checksum is so many octets.
LEMMA ChecksumFacts ==
    ASSUME NEW version, NEW data
    PROVE  /\ CrcLength(version) \in {2, 4}
           /\ \E C : /\ Checksum(version, data) \in Seq(C)
                     /\ Len(Checksum(version, data)) = CrcLength(version)
<1> DEFINE crc == Checksum(version, data)
           n == CrcLength(version)
           C == {crc[i] : i \in 1 .. n}
<1>1. n \in {2, 4}
  BY DEF CrcLength
<1>2. crc = [i \in 1 .. n |-> crc[i]]
  <2> DEFINE full == la_crc32_arinc665(data)
             short == la_crc16_arinc(data)
  <2>1. crc = IF version = 1 THEN [i \in 1 .. 4 |-> 255 - full[i]]
              ELSE <<short \div 256, short % 256>>
    BY DEF Checksum
  <2>2. n = IF version = 1 THEN 4 ELSE 2
    BY DEF CrcLength
  <2> DEFINE pair == <<short \div 256, short % 256>>
  <2>3. pair = [i \in 1 .. 2 |-> pair[i]]
    OBVIOUS
  <2> HIDE DEF full, short, crc, n, pair
  <2>4. CASE version = 1
    BY <2>1, <2>2, <2>4
  <2>5. CASE version # 1
    <3>1. crc = pair /\ n = 2
      BY <2>1, <2>2, <2>5 DEF pair
    <3> QED
      BY <2>3, <3>1
  <2> QED
    BY <2>4, <2>5
<1>3. \A i \in 1 .. n : crc[i] \in C
  OBVIOUS
<1> HIDE DEF crc, n, C
<1>4. crc \in Seq(C) /\ Len(crc) = n
  <2>1. n \in Nat
    BY <1>1
  <2> QED
    BY <1>2, <1>3, <2>1, IsSequence
<1> QED
  BY <1>1, <1>4 DEF crc, n

\* What the header that is sent says: its version and type, the compression, how
\* long the unit is, the identifier and the checksum.
HeaderOf(s, S, h) ==
    LET at == TypeAt(s.version)
        id == AppId(s.version, s.type)
    IN  /\ h \in Seq(S) /\ Nat \subseteq S
        /\ Len(h) = at + Len(id) + CrcLength(s.version)
        /\ h[1] = s.version
        /\ h[at - 1] = s.compression \div 4
        /\ h[at] = (s.compression % 4) * 64 + s.type
        /\ \A i \in 1 .. Len(id) : h[at + i] = id[i]
        /\ \A i \in 1 .. CrcLength(s.version) :
              h[at + Len(id) + i] = Checksum(s.version, s.data)[i]
        /\ s.version = 1 => PduLength(h) = Len(h) + Len(BodySent(s))
        /\ TypeAt(s.version) \in {4, 14}

\* The front of a header, up to the identifier.
LongFront(a, b, c, d, x, y) == <<a, b, c, d>> \o RegistrationOctets \o <<2>> \o <<x, y>>

ShortFront(a, x, y) == <<a, 2>> \o <<x, y>>

\* What is where in the long one.
LEMMA LongFrontFacts ==
    ASSUME NEW a, NEW b, NEW c, NEW d, NEW x, NEW y, NEW S,
           a \in S, b \in S, c \in S, d \in S, x \in S, y \in S, Nat \subseteq S
    PROVE  LET long == LongFront(a, b, c, d, x, y)
           IN  /\ long \in Seq(S) /\ Len(long) = 14
               /\ long[1] = a /\ long[2] = b /\ long[3] = c /\ long[4] = d
               /\ long[13] = x /\ long[14] = y
<1> DEFINE p == <<a, b, c, d>>
           q == p \o RegistrationOctets
           r == q \o <<2>>
           long == r \o <<x, y>>
<1>1. RegistrationOctets \in Seq(S) /\ Len(RegistrationOctets) = 7
  BY DEF RegistrationOctets
<1>2. p \in Seq(S) /\ Len(p) = 4 /\ p[1] = a /\ p[2] = b /\ p[3] = c /\ p[4] = d
  OBVIOUS
<1>3. /\ <<2>> \in Seq(S) /\ Len(<<2>>) = 1
      /\ <<x, y>> \in Seq(S) /\ Len(<<x, y>>) = 2 /\ <<x, y>>[1] = x /\ <<x, y>>[2] = y
  OBVIOUS
<1>4. q \in Seq(S) /\ Len(q) = 11 /\ \A i \in 1 .. 4 : q[i] = p[i]
  <2> DEFINE o == RegistrationOctets
  <2>1. p \in Seq(S) /\ o \in Seq(S)
    BY <1>1, <1>2
  <2>2. Len(p) = 4 /\ Len(o) = 7
    BY <1>1, <1>2
  <2> HIDE DEF p, o
  <2>3. /\ p \o o \in Seq(S) /\ Len(p \o o) = Len(p) + Len(o)
        /\ \A i \in 1 .. Len(p) : (p \o o)[i] = p[i]
    BY <2>1, Concatenated
  <2> QED
    BY <2>2, <2>3 DEF o
<1>5. r \in Seq(S) /\ Len(r) = 12 /\ \A i \in 1 .. 4 : r[i] = q[i]
  <2> DEFINE o == <<2>>
  <2>1. q \in Seq(S) /\ o \in Seq(S)
    BY <1>3, <1>4
  <2>2. Len(q) = 11 /\ Len(o) = 1
    BY <1>3, <1>4
  <2> HIDE DEF q, o
  <2>3. /\ q \o o \in Seq(S) /\ Len(q \o o) = Len(q) + Len(o)
        /\ \A i \in 1 .. Len(q) : (q \o o)[i] = q[i]
    BY <2>1, Concatenated
  <2> QED
    BY <2>2, <2>3 DEF o
<1>6. /\ long \in Seq(S) /\ Len(long) = 14 /\ \A i \in 1 .. 4 : long[i] = r[i]
      /\ long[13] = x /\ long[14] = y
  <2> DEFINE t == <<x, y>>
  <2>1. t \in Seq(S) /\ Len(t) = 2 /\ t[1] = x /\ t[2] = y
    BY <1>3
  <2> HIDE DEF r, t
  <2>2. r \in Seq(S) /\ t \in Seq(S)
    BY <1>5, <2>1
  <2>3. /\ r \o t \in Seq(S) /\ Len(r \o t) = Len(r) + Len(t)
        /\ \A i \in 1 .. Len(r) : (r \o t)[i] = r[i]
        /\ \A i \in 1 .. Len(t) : (r \o t)[Len(r) + i] = t[i]
    BY <2>2, Concatenated
  <2>4. Len(r) = 12
    BY <1>5
  <2>5. (r \o t)[12 + 1] = t[1] /\ (r \o t)[12 + 2] = t[2] /\ \A i \in 1 .. 4 : i \in 1 .. 12
    BY <2>1, <2>3, <2>4
  <2> QED
    BY <2>1, <2>3, <2>4, <2>5 DEF t
<1> HIDE DEF long, p, q, r
<1>7. /\ long[1] = a /\ long[2] = b /\ long[3] = c /\ long[4] = d
  BY <1>2, <1>4, <1>5, <1>6
<1> QED
  BY <1>6, <1>7 DEF long, p, q, r, LongFront

\* What is where in the short one.
LEMMA ShortFrontFacts ==
    ASSUME NEW a, NEW x, NEW y, NEW S, a \in S, x \in S, y \in S, Nat \subseteq S
    PROVE  LET short == ShortFront(a, x, y)
           IN  /\ short \in Seq(S) /\ Len(short) = 4
               /\ short[1] = a /\ short[3] = x /\ short[4] = y
BY DEF ShortFront

\* The body as it is sent.
LEMMA BodyFacts ==
    ASSUME NEW s, MiamSending(s)
    PROVE  /\ BodySent(s) \in Seq(Nat)
           /\ s.compression # 1 => BodySent(s) = s.data
           /\ s.compression = 1 => /\ Len(BodySent(s)) = Len(s.data) + 1
                                   /\ \A i \in 1 .. Len(s.data) : BodySent(s)[i] = s.data[i]
                                   /\ BodySent(s)[Len(s.data) + 1] = StreamEnd
<1> DEFINE d == s.data
<1>1. d \in Seq(Nat)
  <2>1. d \in Seq(Octets) /\ Octets \subseteq Nat
    BY DEF MiamSending, Octets
  <2> HIDE DEF d
  <2> QED
    BY <2>1, SeqMonotonic
<1>2. BodySent(s) = IF s.compression = 1 THEN Append(d, StreamEnd) ELSE d
  BY DEF BodySent, Compressed
<1>3. StreamEnd \in Nat
  BY DEF StreamEnd
<1> HIDE DEF d
<1>4. /\ Append(d, StreamEnd) \in Seq(Nat)
      /\ Len(Append(d, StreamEnd)) = Len(d) + 1
      /\ \A i \in 1 .. Len(d) : Append(d, StreamEnd)[i] = d[i]
      /\ Append(d, StreamEnd)[Len(d) + 1] = StreamEnd
  BY <1>1, <1>3, AppendProperties
<1> QED
  BY <1>1, <1>2, <1>4 DEF d

\* The header that is sent says these things.
LEMMA HeaderFacts ==
    ASSUME NEW s, MiamSending(s)
    PROVE  \E S : HeaderOf(s, S, HeaderSent(s))
<1> DEFINE at  == TypeAt(s.version)
           id  == AppId(s.version, s.type)
           crc == Checksum(s.version, s.data)
           n   == CrcLength(s.version)
           len == 14 + Len(id) + 4 + Len(BodySent(s))
           x   == s.compression \div 4
           y   == (s.compression % 4) * 64 + s.type
           hi  == len \div 256
           lo  == len % 256
           long  == LongFront(1, 0, hi, lo, x, y)
           short == ShortFront(s.version, x, y)
           front == IF s.version = 1 THEN long ELSE short
<1>1. /\ s.version \in Octets /\ s.compression \in 0 .. 7 /\ s.type \in 0 .. 15
      /\ x \in Nat /\ y \in Nat
  <2>1. s.version \in Octets /\ s.compression \in 0 .. 7 /\ s.type \in 0 .. 15
    BY DEF MiamSending
  <2>2. ASSUME NEW c \in 0 .. 7, NEW t \in 0 .. 15
        PROVE  c \div 4 \in Nat /\ (c % 4) * 64 + t \in Nat
    OBVIOUS
  <2> QED
    BY <2>1, <2>2
<1>2. id \in Seq(Nat) /\ Len(id) \in Nat
  BY <1>1, AppIdFacts
<1>3. PICK C : crc \in Seq(C) /\ Len(crc) = n /\ n \in {2, 4}
  BY ChecksumFacts
<1>4. Len(BodySent(s)) \in Nat
  BY BodyFacts
<1>5. len \in Nat /\ hi \in Nat /\ lo \in Nat /\ 256 * hi + lo = len
  <2>1. len \in Nat
    BY <1>2, <1>4
  <2> HIDE DEF len
  <2> QED
    BY <2>1
<1> DEFINE S == Nat \cup C
<1>6. HeaderSent(s) = front \o id \o crc
  <2>1. TypeOctets(s) = <<x, y>>
    BY DEF TypeOctets
  <2> HIDE DEF x, y
  <2> QED
    BY <2>1, ZenonT(40) DEF HeaderSent, LongFront, ShortFront
<1>7. /\ s.version \in S /\ 1 \in S /\ 0 \in S /\ hi \in S /\ lo \in S
      /\ x \in S /\ y \in S /\ Nat \subseteq S
  <2>1. s.version \in Nat
    BY <1>1 DEF Octets
  <2> HIDE DEF hi, lo, x, y
  <2> QED
    BY <1>1, <1>5, <2>1
<1> HIDE DEF id, crc, x, y, n
<1>8. /\ id \in Seq(S) /\ crc \in Seq(S)
  <2>1. Nat \subseteq S /\ C \subseteq S
    OBVIOUS
  <2> HIDE DEF S
  <2> QED
    BY <1>2, <1>3, <2>1, SeqMonotonic
<1>9. /\ front \in Seq(S) /\ Len(front) = at
      /\ front[1] = s.version /\ front[at - 1] = x /\ front[at] = y
      /\ s.version = 1 => front[2] = 0 /\ front[3] = hi /\ front[4] = lo
      /\ at \in {4, 14} /\ (s.version = 1 => at = 14)
  <2>1. CASE s.version = 1
    <3>1. at = 14 /\ front = long
      BY <2>1 DEF TypeAt
    <3>2. /\ long \in Seq(S) /\ Len(long) = 14 /\ long[1] = 1 /\ long[2] = 0 /\ long[3] = hi
          /\ long[4] = lo /\ long[13] = x /\ long[14] = y
      <4>1. 1 \in S /\ 0 \in S /\ hi \in S /\ lo \in S /\ x \in S /\ y \in S /\ Nat \subseteq S
        BY <1>7
      <4> HIDE DEF S, hi, lo
      <4> QED
        BY <4>1, LongFrontFacts
    <3> HIDE DEF long, front, at
    <3> QED
      BY <2>1, <3>1, <3>2
  <2>2. CASE s.version # 1
    <3>1. at = 4 /\ front = short
      BY <2>2 DEF TypeAt
    <3>2. /\ short \in Seq(S) /\ Len(short) = 4 /\ short[1] = s.version
          /\ short[3] = x /\ short[4] = y
      <4>1. s.version \in S /\ x \in S /\ y \in S /\ Nat \subseteq S
        BY <1>7
      <4> HIDE DEF S
      <4> QED
        BY <4>1, ShortFrontFacts
    <3> HIDE DEF short, front, at
    <3> QED
      BY <2>2, <3>1, <3>2
  <2> QED
    BY <2>1, <2>2
<1> HIDE DEF front, S, at
<1> DEFINE a == front \o id
           h == a \o crc
<1>10. /\ a \in Seq(S) /\ Len(a) = Len(front) + Len(id)
       /\ \A i \in 1 .. Len(front) : a[i] = front[i]
       /\ \A i \in 1 .. Len(id) : a[Len(front) + i] = id[i]
  <2>1. front \in Seq(S) /\ id \in Seq(S)
    BY <1>8, <1>9
  <2> QED
    BY <2>1, Concatenated
<1> HIDE DEF a
<1>11. /\ h \in Seq(S) /\ Len(h) = Len(a) + Len(crc)
       /\ \A i \in 1 .. Len(a) : h[i] = a[i]
       /\ \A i \in 1 .. Len(crc) : h[Len(a) + i] = crc[i]
  <2>1. a \in Seq(S) /\ crc \in Seq(S)
    BY <1>8, <1>10
  <2> QED
    BY <2>1, Concatenated
<1> HIDE DEF h
<1>12. Len(front) = at /\ Len(a) = at + Len(id) /\ Len(h) = at + Len(id) + n
       /\ at \in Nat /\ Len(id) \in Nat
  BY <1>2, <1>3, <1>9, <1>10, <1>11
<1>13. \A i \in 1 .. at : h[i] = front[i]
  <2>1. ASSUME NEW i \in 1 .. at  PROVE h[i] = front[i]
    <3>1. i \in 1 .. Len(front) /\ i \in 1 .. Len(a)
      BY <1>12
    <3> QED
      BY <1>10, <1>11, <3>1
  <2> QED
    BY <2>1
<1>14. \A i \in 1 .. Len(id) : h[at + i] = id[i]
  <2>1. ASSUME NEW i \in 1 .. Len(id)  PROVE h[at + i] = id[i]
    <3>1. PICK j : j = at + i
      OBVIOUS
    <3>2. j \in 1 .. Len(a)
      BY <1>12, <3>1
    <3>3. h[j] = a[j]
      BY <1>11, <3>2
    <3> QED
      BY <1>10, <1>12, <3>1, <3>3
  <2> QED
    BY <2>1
<1>15. \A i \in 1 .. n : h[at + Len(id) + i] = crc[i]
  BY <1>3, <1>11, <1>12
<1>16. h[1] = s.version /\ h[at - 1] = x /\ h[at] = y
  <2>1. 1 \in 1 .. at /\ at - 1 \in 1 .. at /\ at \in 1 .. at
    BY <1>9
  <2> QED
    BY <1>9, <1>13, <2>1
<1>17. s.version = 1 => PduLength(h) = Len(h) + Len(BodySent(s))
  <2>1. SUFFICES ASSUME s.version = 1  PROVE PduLength(h) = Len(h) + Len(BodySent(s))
    OBVIOUS
  <2>2. at = 14 /\ n = 4
    BY <1>9, <2>1 DEF CrcLength, n
  <2>3. 2 \in 1 .. at /\ 3 \in 1 .. at /\ 4 \in 1 .. at
    BY <2>2
  <2>4. h[2] = 0 /\ h[3] = hi /\ h[4] = lo
    BY <1>9, <1>13, <2>1, <2>3
  <2>5. PduLength(h) = len
    <3>1. hi \in Nat /\ lo \in Nat /\ 256 * hi + lo = len
      BY <1>5
    <3> HIDE DEF hi, lo, len
    <3>2. PduLength(h) = (0 * 256 + hi) * 256 + lo
      BY <2>4 DEF PduLength
    <3> QED
      BY <3>1, <3>2
  <2> QED
    BY <1>4, <1>12, <2>2, <2>5
<1>18. HeaderOf(s, S, h)
  BY <1>7, <1>9, <1>11, <1>12, <1>14, <1>15, <1>16, <1>17 DEF HeaderOf, at, id, crc, n, x, y
<1> QED
  BY <1>6, <1>18 DEF h, a

-----------------------------------------------------------------------------
(***************************************************************************)
(* What arrives of the octets, and what is left of it without the padding. *)
(***************************************************************************)

\* Words are four octets.
LEMMA WordCount ==
    ASSUME NEW len \in Nat, NEW n \in Nat
    PROVE  LET pad   == (4 - (len % 4)) % 4
               words == (len + pad) \div 4
               l     == IF 4 * n < len + pad THEN 4 * n ELSE len + pad
           IN  /\ pad \in 0 .. 3 /\ l \in 0 .. len + pad
               /\ n = 0 => l = 0
               /\ n > 0 /\ len > 0 => l >= 4
               /\ n >= words => l = len + pad
               /\ n < words => l < len + pad /\ len > 0
<1> DEFINE pad   == (4 - (len % 4)) % 4
           words == (len + pad) \div 4
<1>1. pad \in 0 .. 3 /\ len + pad = 4 * words /\ words \in Nat
  <2> DEFINE q == len \div 4
             r == len % 4
  <2>1. len = 4 * q + r /\ r \in 0 .. 3 /\ q \in Nat
    OBVIOUS
  <2> HIDE DEF q
  <2>2. r = 0 \/ r = 1 \/ r = 2 \/ r = 3
    BY <2>1
  <2>3. CASE r = 0
    <3>1. pad = 0
      BY <2>3
    <3> QED
      BY <2>1, <2>3, <3>1
  <2>4. CASE r \in {1, 2, 3}
    <3>1. pad = 4 - r
      BY <2>4
    <3>2. len + pad = 4 * (q + 1)
      BY <2>1, <2>4, <3>1
    <3> HIDE DEF pad
    <3>3. words = q + 1
      BY <2>1, <3>2
    <3> QED
      BY <2>1, <2>4, <3>1, <3>2, <3>3
  <2> QED
    BY <2>2, <2>3, <2>4
<1> HIDE DEF pad, words
<1>2. n >= words => 4 * n >= len + pad
  BY <1>1
<1>3. n < words => 4 * n < len + pad /\ words > 0
  BY <1>1
<1>4. words > 0 => len > 0
  BY <1>1
<1>5. n > 0 /\ len > 0 => 4 * n >= 4 /\ len + pad >= 4
  BY <1>1
<1> QED
  BY <1>1, <1>2, <1>3, <1>4, <1>5 DEF pad, words

\* The words are the octets as far as they go, and whole if there are enough.
WordsOfOctets(S, octets, n, w, u, pad) ==
    /\ pad \in 0 .. 3
    /\ w \in Seq(S) /\ Len(w) \in Nat /\ Len(octets) \in Nat
    /\ \A i \in 1 .. Len(w) : i <= Len(octets) => w[i] = octets[i]
    /\ n = 0 => Len(w) = 0
    /\ n > 0 /\ Len(octets) > 0 => Len(w) >= 4
    /\ Len(w) >= pad => /\ u \in Seq(S) /\ Len(u) = Len(w) - pad /\ Len(u) <= Len(octets)
                        /\ \A i \in 1 .. Len(u) : u[i] = octets[i]
    /\ Len(w) < pad => u = w
    /\ n >= WordsOf(octets) => Len(w) = Len(octets) + pad
    /\ n < WordsOf(octets) => Len(w) < Len(octets) + pad /\ Len(octets) > 0

LEMMA WordsFacts ==
    ASSUME NEW S, NEW octets \in Seq(S), 0 \in S, NEW n \in Nat
    PROVE  WordsOfOctets(S, octets, n, FirstWords(octets, n),
                         Unpadded(FirstWords(octets, n), Padding(octets)), Padding(octets))
<1> DEFINE len == Len(octets)
           pad == Padding(octets)
           all == Padded(octets)
           l   == IF 4 * n < len + pad THEN 4 * n ELSE len + pad
           w   == FirstWords(octets, n)
           u   == Unpadded(w, pad)
           zeros == [i \in 1 .. pad |-> 0]
<1>1. len \in Nat
  BY LenProperties
<1>2. /\ pad \in 0 .. 3 /\ l \in 0 .. len + pad
      /\ n = 0 => l = 0
      /\ n > 0 /\ len > 0 => l >= 4
      /\ n >= (len + pad) \div 4 => l = len + pad
      /\ n < (len + pad) \div 4 => l < len + pad /\ len > 0
  BY <1>1, WordCount DEF Padding
<1> HIDE DEF pad, l
<1>3. zeros \in Seq(S) /\ Len(zeros) = pad
  BY <1>2
<1>4. /\ all \in Seq(S) /\ Len(all) = len + pad
      /\ \A i \in 1 .. len : all[i] = octets[i]
  <2>1. all = octets \o zeros
    BY DEF Padded, pad
  <2> HIDE DEF zeros
  <2> QED
    BY <1>3, <2>1, Concatenated
<1> HIDE DEF zeros
<1>5. w = SubSeq(all, 1, l)
  BY <1>4 DEF FirstWords, l
<1>6. WordsOf(octets) = (len + pad) \div 4
  BY <1>4 DEF WordsOf
<1>7. w \in Seq(S) /\ Len(w) = l /\ \A i \in 1 .. l : w[i] = all[i]
  <2> HIDE DEF all, w, len
  <2>1. l \in 0 .. Len(all)
    BY <1>2, <1>4
  <2> QED
    BY <1>4, <1>5, <2>1, FirstOnes
<1>8. u = IF Len(w) >= pad THEN SubSeq(w, 1, Len(w) - pad) ELSE w
  BY DEF Unpadded
<1> HIDE DEF all, w, u, len
<1>9. ASSUME Len(w) >= pad
      PROVE  /\ u \in Seq(S) /\ Len(u) = Len(w) - pad /\ Len(u) <= len
             /\ \A i \in 1 .. Len(u) : u[i] = octets[i]
  <2>1. PICK m : m = Len(w) - pad
    OBVIOUS
  <2>2. u = SubSeq(w, 1, m) /\ m \in 0 .. Len(w) /\ m <= len
    BY <1>1, <1>2, <1>7, <1>8, <1>9, <2>1
  <2>3. u \in Seq(S) /\ Len(u) = m /\ \A i \in 1 .. m : u[i] = w[i]
    BY <1>7, <2>2, FirstOnes
  <2>4. ASSUME NEW i \in 1 .. m  PROVE u[i] = octets[i]
    <3>1. i \in 1 .. l /\ i \in 1 .. len
      BY <1>1, <1>2, <1>7, <2>2
    <3> QED
      BY <1>4, <1>7, <2>3, <3>1
  <2> QED
    BY <2>1, <2>2, <2>3, <2>4
<1>10. \A i \in 1 .. Len(w) : i <= len => w[i] = octets[i]
  <2>1. ASSUME NEW i \in 1 .. Len(w), i <= len  PROVE w[i] = octets[i]
    <3>1. i \in 1 .. l /\ i \in 1 .. len
      BY <1>1, <1>2, <1>7, <2>1
    <3> QED
      BY <1>4, <1>7, <3>1
  <2> QED
    BY <2>1
<1>11. l \in Nat
  BY <1>1, <1>2
<1> QED
  BY <1>1, <1>2, <1>6, <1>7, <1>8, <1>9, <1>10, <1>11
     DEF WordsOfOctets, len, w, u, pad

-----------------------------------------------------------------------------
(***************************************************************************)
(* What is read of a header.                                               *)
(***************************************************************************)

\* Of a unit with data nothing behind the header.
LEMMA DataRead ==
    ASSUME NEW version, NEW S, NEW header \in Seq(S), NEW body
    PROVE  LET read == DataParse(version, header, body).read
           IN  read \in Nat /\ read >= 1 /\ (read > 1 => read <= Len(header))
<1> DEFINE at     == TypeAt(version)
           id_len == AppIdLength(version, header[at] % 16)
           crc    == CrcLength(version)
           end    == at + id_len + crc
           min    == MinHeader(version)
           unit   == DataParse(version, header, body)
<1>1. Len(header) \in Nat
  BY LenProperties
<1>2. at \in {4, 14} /\ crc \in {2, 4} /\ min \in Nat /\ at < min /\ id_len \in 0 .. 8
  BY AppIdIsShort DEF TypeAt, CrcLength, MinHeader
<1>3. RestFits(version, header, id_len) => Len(header) - at >= id_len + crc
  BY DEF RestFits
<1>4. \/ Len(header) < min /\ unit.read = 1
      \/ Len(header) >= min /\ unit.read = at
      \/ RestFits(version, header, id_len) /\ unit.read = end
  <2>1. CASE Len(header) < min
    BY <2>1 DEF DataParse, ErrorOnly, Unit
  <2>2. CASE Len(header) >= min /\ (id_len = 0 \/ ~RestFits(version, header, id_len))
    <3>1. ~(Len(header) < min) /\ (id_len = 0 \/ (id_len > 0 /\ ~RestFits(version, header, id_len)))
      BY <1>1, <1>2, <2>2
    <3> HIDE DEF min, id_len
    <3> QED
      BY <2>2, <3>1 DEF DataParse, Unit, min, id_len
  <2>3. CASE Len(header) >= min /\ id_len # 0 /\ RestFits(version, header, id_len)
    <3>1. ~(Len(header) < min)
      BY <1>1, <1>2, <2>3
    <3> QED
      BY <2>3, <3>1 DEF DataParse, Unit
  <2> QED
    BY <1>1, <1>2, <2>1, <2>2, <2>3
<1> HIDE DEF at, id_len, crc, min, unit
<1> QED
  BY <1>1, <1>2, <1>3, <1>4 DEF unit

\* Nor of any other.
LEMMA PduRead ==
    ASSUME NEW S, NEW pdu, pdu.header \in Seq(S), IsMiamCore(pdu)
    PROVE  LET read == PduParse(pdu).read
           IN  /\ read \in Nat /\ read >= 1
               /\ read > 1 => read <= Len(pdu.header) - pdu.hpad
<1> DEFINE version == FirstOctet(pdu.header) % 16
           type    == FirstOctet(pdu.header) \div 16
           header  == Unpadded(pdu.header, pdu.hpad)
           body    == BodyIn(pdu)
           unit    == PduParse(pdu)
<1>1. pdu.hpad \in 0 .. 3 /\ Len(pdu.header) >= pdu.hpad /\ Len(pdu.header) \in Nat
  BY LenProperties DEF IsMiamCore, Paddings
<1>2. header \in Seq(S) /\ Len(header) = Len(pdu.header) - pdu.hpad
  <2>1. PICK h : h = pdu.header
    OBVIOUS
  <2>2. PICK m : m = Len(h) - pdu.hpad
    OBVIOUS
  <2>3. header = SubSeq(h, 1, m)
    BY <1>1, <2>1, <2>2 DEF Unpadded
  <2>4. m \in 0 .. Len(h) /\ h \in Seq(S)
    BY <1>1, <2>1, <2>2
  <2> HIDE DEF header
  <2>5. header \in Seq(S) /\ Len(header) = m
    BY <2>3, <2>4, FirstOnes
  <2> QED
    BY <2>1, <2>2, <2>5
<1>3. unit = IF version \in {1, 2} THEN ParseByType(version, type, header, body)
             ELSE ErrorOnly("HDR_PDU_VERSION_UNKNOWN", 1)
  BY DEF PduParse
<1> HIDE DEF version, type, header, body, unit
<1>4. Len(header) \in Nat
  BY <1>2, LenProperties
<1>5. ASSUME NEW min \in Nat, min >= 1
      PROVE  LET read == HeaderParse(min, header).read
             IN  read \in Nat /\ read >= 1 /\ (read > 1 => read <= Len(header))
  BY <1>4, <1>5 DEF HeaderParse, ErrorOnly, Unit
<1>6. ParseByType(version, type, header, body) \in
         {DataParse(version, header, body), HeaderParse(20, header), HeaderParse(8, header),
          HeaderParse(13, header), ErrorOnly("HDR_PDU_TYPE_UNKNOWN", 1)}
  BY DEF ParseByType
<1>7. \A e : ErrorOnly(e, 1).read = 1
  BY DEF ErrorOnly, Unit
<1>8. unit.read \in Nat /\ unit.read >= 1 /\ (unit.read > 1 => unit.read <= Len(header))
  <2>1. CASE unit.read = 1
    BY <2>1
  <2>2. CASE unit = DataParse(version, header, body)
    BY <1>2, <2>2, DataRead
  <2>3. CASE unit \in {HeaderParse(20, header), HeaderParse(8, header), HeaderParse(13, header)}
    <3>1. PICK min \in {20, 8, 13} : unit = HeaderParse(min, header)
      BY <2>3
    <3> QED
      BY <1>5, <3>1
  <2> QED
    BY <1>3, <1>6, <1>7, <2>1, <2>2, <2>3
<1> QED
  BY <1>2, <1>8 DEF unit

\* What is sent is a pdu of which the header is octets.
LEMMA PduSentFacts ==
    ASSUME NEW s, MiamSending(s), NEW S, HeaderOf(s, S, HeaderSent(s))
    PROVE  LET pdu == PduSent(s)
               h   == HeaderSent(s)
               b   == BodySent(s)
           IN  /\ pdu.header = FirstWords(h, s.header) /\ pdu.hpad = Padding(h)
               /\ pdu.bpad = Padding(b) /\ pdu.delim = (s.header > 0)
               /\ s.garbled = 0 => pdu.body = FirstWords(b, s.body)
               /\ WordsOfOctets(S, h, s.header, pdu.header,
                                Unpadded(pdu.header, pdu.hpad), pdu.hpad)
               /\ WordsOfOctets(Nat, b, s.body, FirstWords(b, s.body),
                                Unpadded(FirstWords(b, s.body), pdu.bpad), pdu.bpad)
<1> DEFINE h == HeaderSent(s)
           b == BodySent(s)
           body == FirstWords(b, s.body)
           sentBody == [i \in DOMAIN body |->
                           IF i = s.garbled THEN (body[i] + 1) % 256 ELSE body[i]]
<1>1. h \in Seq(S) /\ 0 \in S
  BY DEF HeaderOf
<1>2. b \in Seq(Nat)
  BY BodyFacts
<1>3. s.header \in Nat /\ s.body \in Nat /\ s.garbled \in Nat
  BY DEF MiamSending
<1>4. WordsOfOctets(S, h, s.header, FirstWords(h, s.header),
                    Unpadded(FirstWords(h, s.header), Padding(h)), Padding(h))
  <2> HIDE DEF h
  <2> QED
    BY <1>1, <1>3, WordsFacts
<1>5. WordsOfOctets(Nat, b, s.body, body, Unpadded(body, Padding(b)), Padding(b))
  <2>1. 0 \in Nat
    OBVIOUS
  <2> HIDE DEF b
  <2> QED
    BY <1>2, <1>3, <2>1, WordsFacts
<1>6. PduSent(s) = [bpad |-> Padding(b), hpad |-> Padding(h), delim |-> s.header > 0,
                    header |-> FirstWords(h, s.header), body |-> sentBody]
  BY DEF PduSent
<1> HIDE DEF h, b
<1>7. s.garbled = 0 => sentBody = body
  <2>1. body \in Seq(Nat)
    BY <1>5 DEF WordsOfOctets
  <2> HIDE DEF body
  <2>2. DOMAIN body = 1 .. Len(body) /\ body = [i \in DOMAIN body |-> body[i]]
    BY <2>1
  <2> QED
    BY <2>2
<1> HIDE DEF body, sentBody
<1> QED
  BY <1>4, <1>5, <1>6, <1>7 DEF h, b, body

\* The parser of MIAM is given all of the text, and no other parser before it
\* takes it.
LEMMA MiamTextFacts ==
    ASSUME NEW s, NEW label, NEW dir
    PROVE  /\ Extracted(label, dir, MiamText(s)) = MiamText(s)
           /\ ArincParse(MiamText(s)) = NoArinc
           /\ SingleTransfer(MiamText(s)) = PduParse(PduSent(s))
<1> DEFINE pdu == PduSent(s)
           text == MiamText(s)
           T == {FrameId("T"), Pdu(pdu)}
<1>1. text = <<FrameId("T"), Pdu(pdu)>>
  BY DEF MiamText
<1>2. /\ FrameId("T").kind = "frame" /\ FrameId("T").value = "T"
      /\ Pdu(pdu).kind = "pdu" /\ Pdu(pdu).value = pdu
  BY DEF FrameId, Pdu, Token
<1> HIDE DEF pdu, text
<1>3. text \in Seq(T) /\ Len(text) = 2 /\ text[1] = FrameId("T") /\ text[2] = Pdu(pdu)
      /\ Head(text) = FrameId("T") /\ text # <<>>
  BY <1>1
<1>4. Starts(text, "frame") /\ ~Starts(text, "sublabel")
  BY <1>2, <1>3 DEF Starts
<1>5. Extracted(label, dir, text) = text
  BY <1>4 DEF Extracted, HasSublabel
<1>6. ArincParse(text) = NoArinc
  <2>1. \A i \in 1 .. Len(text) : text[i].kind # "imi"
    <3>1. ASSUME NEW i \in 1 .. 2  PROVE text[i].kind # "imi"
      <4>1. i = 1 \/ i = 2
        OBVIOUS
      <4> QED
        BY <1>2, <1>3, <4>1
    <3> QED
      BY <1>3, <3>1
  <2> QED
    BY <1>3, <2>1, NoImi
<1>7. SingleTransfer(text) = PduParse(pdu)
  BY <1>2, <1>3, <1>4 DEF SingleTransfer
<1> QED
  BY <1>5, <1>6, <1>7 DEF pdu, text

\* No octet of a header is read that has not arrived.
THEOREM MiamStaysInside == SenderSpec => []MiamReadsHeader
<1>1. ASSUME NodeAsDecoded  PROVE MiamReadsHeader
  <2> DEFINE pdu == PduSent(sent)
             text == MiamText(sent)
  <2>1. SUFFICES ASSUME IsMiamNode, node.msg.read > 1
                 PROVE  node.msg.read <= Len(pdu.header) - pdu.hpad
    BY DEF MiamReadsHeader
  <2>2. MiamSending(sent) /\ node = NodeOf(sent.label, sent.dir, text)
    BY <1>1, <2>1, SendingIsSending DEF IsMiamNode, Returned
  <2>3. /\ Extracted(sent.label, sent.dir, text) = text
        /\ SingleTransfer(text) = PduParse(pdu)
    BY MiamTextFacts
  <2>4. PICK S : HeaderOf(sent, S, HeaderSent(sent))
    BY <2>2, HeaderFacts
  <2>5. pdu.header \in Seq(S)
    BY <2>2, <2>4, PduSentFacts DEF WordsOfOctets
  <2> HIDE DEF pdu, text
  <2>6. node.msg = PduParse(pdu) /\ PduParse(pdu) # NoUnit
    <3>1. node.app = "miam"
      BY <2>1 DEF IsMiamNode
    <3> QED
      BY <2>2, <2>3, <3>1, NodeOfText DEF Node
  <2>7. IsMiamCore(pdu)
    BY <2>6 DEF PduParse
  <2> QED
    BY <2>1, <2>5, <2>6, <2>7, PduRead
<1> QED
  BY <1>1, NodeDecoded, PTL

-----------------------------------------------------------------------------
(***************************************************************************)
(* What the data of a unit is.                                             *)
(***************************************************************************)

\* A sequence of as many elements as another, which are the same, is the other.
LEMMA SameElements ==
    ASSUME NEW S, NEW T, NEW p \in Seq(S), NEW q \in Seq(T), Len(p) = Len(q),
           \A i \in 1 .. Len(p) : p[i] = q[i]
    PROVE  p = q
<1>1. p = [i \in 1 .. Len(p) |-> p[i]] /\ q = [i \in 1 .. Len(q) |-> q[i]]
  OBVIOUS
<1> QED
  BY <1>1

\* A compressed stream is had up to its last octet.
LEMMA InflatedIs ==
    ASSUME NEW S, NEW body \in Seq(S), NEW k \in 0 .. Len(body),
           \A i \in 1 .. k : body[i] # StreamEnd,
           k < Len(body) => body[k + 1] = StreamEnd
    PROVE  /\ Inflated(body).success <=> k < Len(body)
           /\ Inflated(body).data = SubSeq(body, 1, k)
<1> DEFINE ends(n) == /\ \A i \in 1 .. n : body[i] # StreamEnd
                      /\ n < Len(body) => body[n + 1] = StreamEnd
           N == CHOOSE n \in 0 .. Len(body) : ends(n)
<1>1. ends(k)
  OBVIOUS
<1>2. ASSUME NEW n \in 0 .. Len(body), ends(n)  PROVE n = k
  <2>1. n \in Nat /\ k \in Nat /\ Len(body) \in Nat /\ n <= Len(body) /\ k <= Len(body)
    BY LenProperties
  <2>2. CASE n < k
    <3>1. n + 1 \in 1 .. k /\ n < Len(body)
      BY <2>1, <2>2
    <3> QED
      BY <1>2, <3>1
  <2>3. CASE k < n
    <3>1. k + 1 \in 1 .. n /\ k < Len(body)
      BY <2>1, <2>3
    <3> QED
      BY <1>2, <3>1
  <2> QED
    BY <2>1, <2>2, <2>3
<1>3. /\ Inflated(body).success <=> N < Len(body)
      /\ Inflated(body).data = SubSeq(body, 1, N)
  BY Zenon DEF Inflated
<1> HIDE DEF ends
<1>4. N = k
  BY <1>1, <1>2
<1> QED
  BY <1>3, <1>4

\* What the header says of the compression and the type.
LEMMA TypeOctetsRead ==
    ASSUME NEW c \in 0 .. 7, NEW t \in 0 .. 15
    PROVE  LET x == c \div 4
               y == (c % 4) * 64 + t
           IN  y % 16 = t /\ (x * 4 + (y \div 64)) % 8 = c
<1>1. (c = 0 \/ c = 1 \/ c = 2 \/ c = 3 \/ c = 4 \/ c = 5 \/ c = 6 \/ c = 7)
  OBVIOUS
<1>2. ASSUME NEW b \in 0 .. 3  PROVE (b * 64 + t) % 16 = t /\ (b * 64 + t) \div 64 = b
  BY <1>2
<1>3. c % 4 \in 0 .. 3 /\ c \div 4 \in 0 .. 1 /\ c = (c \div 4) * 4 + (c % 4)
  BY <1>1
<1> DEFINE b == c % 4
           x == c \div 4
<1> HIDE DEF b, x
<1>4. (b * 64 + t) % 16 = t /\ (b * 64 + t) \div 64 = b /\ x * 4 + b = c
  BY <1>2, <1>3 DEF b, x
<1>5. (x * 4 + b) % 8 = c
  BY <1>4
<1> QED
  BY <1>4, <1>5 DEF b, x

-----------------------------------------------------------------------------
(***************************************************************************)
(* The body that is read.                                                  *)
(***************************************************************************)

\* As it arrived, when no octet of it is changed.
BodyLeft(s) == Unpadded(FirstWords(BodySent(s), s.body), Padding(BodySent(s)))

\* It is the beginning of what was sent, and all of it if all words arrived.
LEMMA BodyLeftFacts ==
    ASSUME NEW s, MiamSending(s)
    PROVE  /\ BodyLeft(s) \in Seq(Nat)
           /\ Len(BodyLeft(s)) \in Nat /\ Len(BodySent(s)) \in Nat
           /\ Len(BodyLeft(s)) <= Len(BodySent(s))
           /\ \A i \in 1 .. Len(BodyLeft(s)) : BodyLeft(s)[i] = BodySent(s)[i]
           /\ s.body >= WordsOf(BodySent(s)) => BodyLeft(s) = BodySent(s)
           /\ Len(BodyLeft(s)) = Len(BodySent(s)) => BodyLeft(s) = BodySent(s)
           /\ Len(BodyLeft(s)) = 0 => s.body = 0 \/ Len(BodySent(s)) = 0
<1> DEFINE b == BodySent(s)
           w == FirstWords(b, s.body)
           u == BodyLeft(s)
           pad == Padding(b)
<1>1. b \in Seq(Nat)
  BY BodyFacts
<1>2. s.body \in Nat
  BY DEF MiamSending
<1>3. WordsOfOctets(Nat, b, s.body, w, u, pad)
  <2>1. 0 \in Nat
    OBVIOUS
  <2> HIDE DEF b
  <2>2. u = Unpadded(w, pad)
    BY DEF BodyLeft, b
  <2> QED
    BY <1>1, <1>2, <2>1, <2>2, WordsFacts
<1> HIDE DEF b, w, u, pad
<1>4. /\ pad \in 0 .. 3
      /\ w \in Seq(Nat) /\ Len(w) \in Nat /\ Len(b) \in Nat
      /\ s.body = 0 => Len(w) = 0
      /\ s.body > 0 /\ Len(b) > 0 => Len(w) >= 4
      /\ Len(w) < pad => u = w
      /\ s.body >= WordsOf(b) => Len(w) = Len(b) + pad
      /\ s.body < WordsOf(b) => Len(w) < Len(b) + pad /\ Len(b) > 0
  BY <1>3 DEF WordsOfOctets
<1>5. Len(w) >= pad => /\ u \in Seq(Nat) /\ Len(u) = Len(w) - pad /\ Len(u) <= Len(b)
                       /\ \A i \in 1 .. Len(u) : u[i] = b[i]
  BY <1>3 DEF WordsOfOctets
<1>6. WordsOf(b) \in Nat
  BY <1>4 DEF WordsOf, Padded, pad
<1>7. Len(w) < pad => Len(w) = 0 /\ Len(b) > 0 /\ s.body = 0
  BY <1>2, <1>4, <1>6
<1>8. /\ u \in Seq(Nat) /\ Len(u) \in Nat /\ Len(u) <= Len(b)
      /\ \A i \in 1 .. Len(u) : u[i] = b[i]
  <2>1. CASE Len(w) >= pad
    BY <1>4, <1>5, <2>1
  <2>2. CASE Len(w) < pad
    <3>1. u = w /\ Len(w) = 0
      BY <1>4, <1>7, <2>2
    <3> QED
      BY <1>4, <3>1
  <2> QED
    BY <1>4, <2>1, <2>2
<1>9. Len(u) = Len(b) => u = b
  BY <1>1, <1>8, SameElements
<1>10. s.body >= WordsOf(b) => Len(u) = Len(b)
  <2>1. s.body >= WordsOf(b) => Len(w) = Len(b) + pad /\ Len(w) >= pad
    BY <1>4
  <2> QED
    BY <1>4, <1>5, <2>1
<1>11. Len(u) = 0 => s.body = 0 \/ Len(b) = 0
  <2>1. SUFFICES ASSUME Len(u) = 0, s.body > 0, Len(b) > 0  PROVE FALSE
    BY <1>2, <1>4
  <2>2. Len(w) >= 4 /\ Len(w) >= pad
    BY <1>4, <2>1
  <2> QED
    BY <1>4, <1>5, <2>1, <2>2
<1> QED
  BY <1>4, <1>8, <1>9, <1>10, <1>11 DEF u, b

\* The body that is read is as long as that, and the same if nothing is changed.
LEMMA BodyInFacts ==
    ASSUME NEW s, MiamSending(s)
    PROVE  /\ Len(BodyIn(PduSent(s))) = Len(BodyLeft(s))
           /\ BodyIn(PduSent(s)) = <<>> <=> Len(BodyLeft(s)) = 0
           /\ s.garbled = 0 => BodyIn(PduSent(s)) = BodyLeft(s)
<1> DEFINE b == BodySent(s)
           w == FirstWords(b, s.body)
           v == [i \in DOMAIN w |-> IF i = s.garbled THEN (w[i] + 1) % 256 ELSE w[i]]
           pad == Padding(b)
           cut(q) == IF Len(q) >= pad THEN SubSeq(q, 1, Len(q) - pad) ELSE q
<1>1. w \in Seq(Nat) /\ Len(w) \in Nat /\ pad \in 0 .. 3
  <2>1. b \in Seq(Nat) /\ s.body \in Nat /\ 0 \in Nat
    BY BodyFacts DEF MiamSending
  <2> HIDE DEF b
  <2>2. WordsOfOctets(Nat, b, s.body, w, Unpadded(w, pad), pad)
    BY <2>1, WordsFacts
  <2> QED
    BY <2>2 DEF WordsOfOctets
<1>2. PduSent(s).bpad = pad /\ PduSent(s).body = v
  BY DEF PduSent
<1> HIDE DEF w, b, pad, v
<1>3. BodyIn(PduSent(s)) = cut(v)
  <2>1. BodyIn(PduSent(s)) = Unpadded(PduSent(s).body, PduSent(s).bpad)
    BY <1>1, <1>2 DEF BodyIn, Paddings, Plain
  <2> QED
    BY <1>2, <2>1 DEF Unpadded
<1>4. BodyLeft(s) = cut(w)
  BY DEF BodyLeft, Unpadded, w, pad, b
<1> USE DEF v
<1>5. v \in Seq(Nat) /\ Len(v) = Len(w)
  <2>1. DOMAIN w = 1 .. Len(w) /\ \A i \in 1 .. Len(w) : w[i] \in Nat
    BY <1>1
  <2>2. v = [i \in 1 .. Len(w) |-> v[i]] /\ \A i \in 1 .. Len(w) : v[i] \in Nat
    BY <2>1
  <2> HIDE DEF v
  <2> QED
    BY <1>1, <2>2, IsSequence
<1>6. s.garbled = 0 => v = w
  <2>1. DOMAIN w = 1 .. Len(w) /\ w = [i \in DOMAIN w |-> w[i]]
    BY <1>1
  <2> QED
    BY <2>1
<1> HIDE DEF v
<1>7. ASSUME NEW q \in Seq(Nat), Len(q) = Len(w)
      PROVE  /\ cut(q) \in Seq(Nat)
             /\ Len(cut(q)) = IF Len(w) >= pad THEN Len(w) - pad ELSE Len(w)
  <2>1. CASE Len(w) >= pad
    <3>1. PICK m : m = Len(w) - pad
      OBVIOUS
    <3>2. m \in 0 .. Len(q) /\ cut(q) = SubSeq(q, 1, m)
      BY <1>1, <1>7, <2>1, <3>1
    <3>3. cut(q) \in Seq(Nat) /\ Len(cut(q)) = m
      BY <3>2, FirstOnes
    <3> QED
      BY <2>1, <3>1, <3>3
  <2>2. CASE Len(w) < pad
    <3>1. cut(q) = q
      BY <1>1, <1>7, <2>2
    <3> QED
      BY <1>1, <1>7, <2>2, <3>1
  <2> QED
    BY <1>1, <2>1, <2>2
<1>8. /\ cut(v) \in Seq(Nat) /\ cut(w) \in Seq(Nat) /\ Len(cut(v)) = Len(cut(w))
  BY <1>1, <1>5, <1>7
<1> HIDE DEF cut
<1>9. cut(v) = <<>> <=> Len(cut(v)) = 0
  BY <1>8
<1> QED
  BY <1>3, <1>4, <1>6, <1>8, <1>9

\* Of a compressed body all of the data is had, or it is an error.
LEMMA BodyDataRead ==
    ASSUME NEW s, MiamSending(s)
    PROVE  LET whole == BodyData(s.compression, BodySent(s))
               read  == BodyData(s.compression, BodyLeft(s))
           IN  /\ s.compression < 2 => whole.data = s.data /\ whole.err = {}
               /\ s.compression = 1 /\ Len(BodyLeft(s)) < Len(BodySent(s)) => read.err # {}
               /\ s.compression = 0 => BodySent(s) = s.data
               /\ \A body : BodyData(0, body).err = {} /\ BodyData(0, body).data = body
<1> DEFINE b == BodySent(s)
           u == BodyLeft(s)
           n == Len(s.data)
<1>1. s.compression \in 0 .. 7 /\ s.data \in Seq(Octets) /\ n \in Nat
  BY LenProperties DEF MiamSending
<1>2. \A body : BodyData(0, body) = [data |-> body, err |-> {}]
  BY DEF BodyData
<1>3. \A body : BodyData(1, body) =
         [data |-> Inflated(body).data,
          err |-> IF Inflated(body).success THEN {} ELSE {"BODY_INFLATE_FAILED"}]
  BY DEF BodyData
<1>4. s.compression = 0 => b = s.data
  BY BodyFacts
<1>5. CASE s.compression = 1
  <2>1. /\ b \in Seq(Nat) /\ Len(b) = n + 1 /\ b[n + 1] = StreamEnd
        /\ \A i \in 1 .. n : b[i] = s.data[i]
    BY <1>5, BodyFacts
  <2>2. \A i \in 1 .. n : b[i] # StreamEnd
    <3>1. ASSUME NEW i \in 1 .. n  PROVE b[i] # StreamEnd
      <4>1. s.data[i] \in Octets
        BY <1>1
      <4>2. \A x \in Octets : x # 256
        BY DEF Octets
      <4> QED
        BY <2>1, <4>1, <4>2 DEF StreamEnd
    <3> QED
      BY <3>1
  <2>3. /\ u \in Seq(Nat) /\ Len(u) \in Nat /\ Len(u) <= Len(b)
        /\ \A i \in 1 .. Len(u) : u[i] = b[i]
    BY BodyLeftFacts
  <2> HIDE DEF b, u, n
  <2>4. (Inflated(b).success <=> n < Len(b)) /\ Inflated(b).data = SubSeq(b, 1, n)
    <3>1. n \in 0 .. Len(b)
      BY <1>1, <2>1 DEF n
    <3> QED
      BY <2>1, <2>2, <3>1, InflatedIs
  <2>5. SubSeq(b, 1, n) = s.data
    <3>1. n \in 0 .. Len(b)
      BY <1>1, <2>1 DEF n
    <3>2. PICK t : t = SubSeq(b, 1, n)
      OBVIOUS
    <3>3. t \in Seq(Nat) /\ Len(t) = n /\ \A i \in 1 .. n : t[i] = b[i]
      BY <2>1, <3>1, <3>2, FirstOnes
    <3>4. t = s.data
      <4>1. Len(t) = Len(s.data) /\ \A i \in 1 .. Len(t) : t[i] = s.data[i]
        BY <2>1, <3>3 DEF n
      <4> QED
        BY <1>1, <3>3, <4>1, SameElements
    <3> QED
      BY <3>2, <3>4
  <2>6. n < Len(b)
    BY <1>1, <2>1
  <2>7. Len(u) < Len(b) => ~Inflated(u).success
    <3>1. SUFFICES ASSUME Len(u) < Len(b)  PROVE ~Inflated(u).success
      OBVIOUS
    <3>2. \A i \in 1 .. Len(u) : u[i] # StreamEnd
      <4>1. ASSUME NEW i \in 1 .. Len(u)  PROVE u[i] # StreamEnd
        <5>1. i \in 1 .. n
          BY <1>1, <2>1, <2>3, <3>1
        <5> QED
          BY <2>2, <2>3, <5>1
      <4> QED
        BY <4>1
    <3>3. Len(u) \in 0 .. Len(u) /\ ~(Len(u) < Len(u))
      BY <2>3
    <3>4. PICK k : k = Len(u)
      OBVIOUS
    <3>5. Inflated(u).success <=> k < Len(u)
      BY <2>3, <3>2, <3>3, <3>4, InflatedIs
    <3> QED
      BY <3>3, <3>4, <3>5
  <2> DEFINE err(ok) == IF ok THEN {} ELSE {"BODY_INFLATE_FAILED"}
  <2>8. \A body : /\ BodyData(1, body).data = Inflated(body).data
                  /\ BodyData(1, body).err = err(Inflated(body).success)
    BY <1>3
  <2>9. BodyData(1, b).data = s.data /\ BodyData(1, b).err = {}
    BY <2>4, <2>5, <2>6, <2>8, Zenon
  <2>10. Len(u) < Len(b) => BodyData(1, u).err # {}
    BY <2>7, <2>8
  <2> QED
    BY <1>2, <1>5, <2>9, <2>10 DEF b, u
<1>6. CASE s.compression = 0
  BY <1>2, <1>4, <1>6
<1>7. CASE s.compression \notin {0, 1}
  BY <1>1, <1>2, <1>7
<1> QED
  BY <1>5, <1>6, <1>7

-----------------------------------------------------------------------------
(***************************************************************************)
(* The data unit that is read.                                             *)
(***************************************************************************)

\* The octets of the header with the compression and the type are enough to know
\* them.
LEMMA FieldsRead ==
    ASSUME NEW s, MiamSending(s), NEW S, NEW h, HeaderOf(s, S, h), NEW g,
           g[TypeAt(s.version)] = h[TypeAt(s.version)],
           g[TypeAt(s.version) - 1] = h[TypeAt(s.version) - 1]
    PROVE  /\ AppIdLength(s.version, g[TypeAt(s.version)] % 16) = AppIdLength(s.version, s.type)
           /\ Compression(s.version, g) = s.compression
<1> DEFINE at == TypeAt(s.version)
           x  == s.compression \div 4
           y  == (s.compression % 4) * 64 + s.type
<1>1. g[at] = y /\ g[at - 1] = x
  BY DEF HeaderOf
<1>2. y % 16 = s.type /\ (x * 4 + (y \div 64)) % 8 = s.compression
  <2>1. s.compression \in 0 .. 7 /\ s.type \in 0 .. 15
    BY DEF MiamSending
  <2> QED
    BY <2>1, TypeOctetsRead
<1>3. Compression(s.version, g) = (g[at - 1] * 4 + (g[at] \div 64)) % 8
  BY DEF Compression
<1> HIDE DEF at, x, y
<1> QED
  BY <1>1, <1>2, <1>3 DEF at

\* How long the parts of the header are.
LEMMA HeaderLengths ==
    ASSUME NEW s, MiamSending(s), IsData(s), NEW S, NEW h, HeaderOf(s, S, h)
    PROVE  LET at == TypeAt(s.version)
               n  == AppIdLength(s.version, s.type)
               id == AppId(s.version, s.type)
               c  == CrcLength(s.version)
           IN  /\ at \in Nat /\ at > 1 /\ n \in 0 .. 8 /\ c \in {2, 4}
               /\ h \in Seq(S) /\ Len(h) \in Nat /\ Len(h) = at + Len(id) + c
               /\ Len(id) \in Nat /\ (n > 0 => Len(id) = n)
               /\ MinHeader(s.version) \in Nat /\ at < MinHeader(s.version)
               /\ Len(h) >= MinHeader(s.version)
<1> DEFINE at == TypeAt(s.version)
           n  == AppIdLength(s.version, s.type)
           id == AppId(s.version, s.type)
           c  == CrcLength(s.version)
<1>1. h \in Seq(S) /\ Len(h) = at + Len(id) + c
  BY DEF HeaderOf
<1>2. n \in 0 .. 8 /\ Len(id) = IF n = 0 THEN 2 ELSE n
  BY AppIdFacts
<1>3. s.version = 1 => n \in {0, 2, 4, 6}
  BY DEF AppIdLength
<1>4. \/ s.version = 1 /\ at = 14 /\ c = 4 /\ MinHeader(s.version) = 20
      \/ s.version = 2 /\ at = 4 /\ c = 2 /\ MinHeader(s.version) = 7
  BY DEF IsData, TypeAt, CrcLength, MinHeader
<1> HIDE DEF at, n, id, c
<1> QED
  BY <1>1, <1>2, <1>3, <1>4 DEF at, n, id, c

\* A header that is cut is an error.
LEMMA CutHeader ==
    ASSUME NEW s, MiamSending(s), IsData(s), NEW S, NEW h, HeaderOf(s, S, h),
           NEW g \in Seq(S), Len(g) < Len(h), \A i \in 1 .. Len(g) : g[i] = h[i], NEW body
    PROVE  DataParse(s.version, g, body).err # {}
<1> DEFINE at   == TypeAt(s.version)
           n    == AppIdLength(s.version, g[at] % 16)
           min  == MinHeader(s.version)
           unit == DataParse(s.version, g, body)
           t    == BodyTruncated(s.version, g, body)
<1>1. Len(g) \in Nat
  BY LenProperties
<1>2. CASE Len(g) < min
  BY <1>2 DEF DataParse, ErrorOnly, Unit
<1>3. CASE ~(Len(g) < min)
  <2>1. /\ at \in Nat /\ at > 1 /\ at < min /\ min \in Nat
        /\ Len(h) = at + Len(AppId(s.version, s.type)) + CrcLength(s.version)
        /\ CrcLength(s.version) \in {2, 4} /\ Len(AppId(s.version, s.type)) \in Nat
        /\ AppIdLength(s.version, s.type) \in 0 .. 8
        /\ AppIdLength(s.version, s.type) > 0 =>
              Len(AppId(s.version, s.type)) = AppIdLength(s.version, s.type)
    BY HeaderLengths
  <2>2. n = AppIdLength(s.version, s.type)
    <3>1. at \in 1 .. Len(g) /\ at - 1 \in 1 .. Len(g)
      BY <1>1, <1>3, <2>1
    <3>2. g[at] = h[at] /\ g[at - 1] = h[at - 1]
      BY <3>1
    <3> QED
      BY <3>2, FieldsRead
  <2>3. n > 0 => ~RestFits(s.version, g, n)
    BY <1>1, <2>1, <2>2 DEF RestFits
  <2>4. n = 0 \/ (n > 0 /\ ~RestFits(s.version, g, n))
    BY <2>1, <2>2, <2>3
  <2>5. Len(g) >= min
    BY <1>1, <1>3, <2>1
  <2> HIDE DEF min, n, t
  <2>6. unit.err \in {t \union {"HDR_APP_TYPE_UNKNOWN"}, t \union {"HDR_TRUNCATED"}}
    BY <1>3, <2>4, <2>5 DEF DataParse, Unit, min, n, t
  <2> QED
    BY <2>6
<1> QED
  BY <1>2, <1>3

\* What a unit is when all of the header is there.
UnitRead(s, unit, body, read, t) ==
    LET same == Checksum(s.version, read.data) = Checksum(s.version, s.data)
    IN  IF AppIdLength(s.version, s.type) = 0 THEN unit.err # {}
        ELSE /\ unit.err = t \union IF body = <<>> THEN {}
                                   ELSE read.err \union IF same THEN {} ELSE {"BODY_CRC_FAILED"}
             /\ unit.data = IF body = <<>> THEN <<>> ELSE read.data
             /\ IsPrefix(unit.app_id, AppId(s.version, s.type))

\* It is that.
LEMMA WholeHeader ==
    ASSUME NEW s, MiamSending(s), IsData(s), NEW S, NEW h, HeaderOf(s, S, h), NEW body
    PROVE  UnitRead(s, DataParse(s.version, h, body), body, BodyData(s.compression, body),
                    BodyTruncated(s.version, h, body))
<1> DEFINE at   == TypeAt(s.version)
           n    == AppIdLength(s.version, s.type)
           id   == AppId(s.version, s.type)
           c    == CrcLength(s.version)
           end  == at + n + c
           min  == MinHeader(s.version)
           unit == DataParse(s.version, h, body)
           read == BodyData(s.compression, body)
           t    == BodyTruncated(s.version, h, body)
           crc  == Checksum(s.version, s.data)
           part == SubSeq(h, at + n + 1, end)
           m    == IF n < 6 THEN n ELSE 6
           name == SubSeq(h, at + 1, at + m)
<1>1. /\ at \in Nat /\ at > 1 /\ n \in 0 .. 8 /\ c \in {2, 4}
      /\ h \in Seq(S) /\ Len(h) \in Nat /\ Len(h) = at + Len(id) + c
      /\ Len(id) \in Nat /\ (n > 0 => Len(id) = n)
      /\ min \in Nat /\ at < min /\ Len(h) >= min
  BY HeaderLengths
<1>2. AppIdLength(s.version, h[at] % 16) = n /\ Compression(s.version, h) = s.compression
  BY FieldsRead
<1>3. /\ \A i \in 1 .. Len(id) : h[at + i] = id[i]
      /\ \A i \in 1 .. c : h[at + Len(id) + i] = crc[i]
  BY DEF HeaderOf
<1> HIDE DEF at, n, id, c, end, min, unit, read, t, crc, part, name, m
<1>4. ~(Len(h) < min)
  BY <1>1
<1>5. CASE n = 0
  <2>1. unit.err = t \union {"HDR_APP_TYPE_UNKNOWN"}
    BY <1>1, <1>2, <1>4, <1>5, SMTT(20) DEF DataParse, Unit, at, n, min, unit, t
  <2> QED
    BY <1>5, <2>1 DEF n, unit, UnitRead
<1>6. CASE n # 0
  <2>1. RestFits(s.version, h, n)
    BY <1>1, <1>6 DEF RestFits, at, c
  <2>2. /\ unit.err = t \union IF body = <<>> THEN {} ELSE
              read.err \union IF Checksum(s.version, read.data) # part THEN {"BODY_CRC_FAILED"}
                              ELSE {}
        /\ unit.data = IF body = <<>> THEN <<>> ELSE read.data
        /\ unit.app_id = name
    BY <1>1, <1>2, <1>4, <1>6, <2>1
       DEF DataParse, Unit, at, n, c, end, min, unit, read, t, part, m, name
  <2>3. part = crc
    <3>1. PICK C : crc \in Seq(C) /\ Len(crc) = c
      BY ChecksumFacts DEF crc, c
    <3>2. at + n + 1 \in 1 .. Len(h) + 1 /\ end = Len(h) /\ Len(h) - (at + n + 1) + 1 = c
      BY <1>1, <1>6 DEF end
    <3>3. part \in Seq(S) /\ Len(part) = c
          /\ \A i \in 1 .. c : part[i] = h[at + n + 1 + i - 1]
      <4>1. PICK k : k = at + n + 1
        OBVIOUS
      <4> QED
        BY <1>1, <3>2, <4>1, LastOnes DEF part
    <3>4. ASSUME NEW i \in 1 .. c  PROVE part[i] = crc[i]
      <4>1. at + n + 1 + i - 1 = at + Len(id) + i
        BY <1>1, <1>6
      <4> QED
        BY <1>3, <3>3, <4>1
    <3> QED
      BY <3>1, <3>3, <3>4, SameElements
  <2>4. IsPrefix(name, id)
    <3>1. m \in 0 .. n /\ m \in Nat /\ at + m <= Len(h)
      BY <1>1, <1>6 DEF m
    <3>2. /\ name \in Seq(S) /\ Len(name) = m
          /\ \A i \in 1 .. m : name[i] = h[at + i]
      BY <1>1, <3>1 DEF name
    <3>3. id \in Seq(Nat)
      BY AppIdFacts DEF id
    <3>4. SubSeq(name, 1, m) = SubSeq(id, 1, m)
      <4> DEFINE p == SubSeq(name, 1, m)
                 q == SubSeq(id, 1, m)
      <4>1. m \in 0 .. Len(name) /\ m \in 0 .. Len(id)
        BY <1>1, <1>6, <3>1, <3>2
      <4>2. p \in Seq(S) /\ Len(p) = m /\ \A i \in 1 .. m : p[i] = name[i]
        BY <3>2, <4>1, FirstOnes
      <4>3. q \in Seq(Nat) /\ Len(q) = m /\ \A i \in 1 .. m : q[i] = id[i]
        BY <3>3, <4>1, FirstOnes
      <4> HIDE DEF p, q
      <4>4. ASSUME NEW i \in 1 .. m  PROVE p[i] = q[i]
        <5>1. i \in 1 .. Len(id)
          BY <1>1, <1>6, <3>1
        <5> QED
          BY <1>3, <3>2, <4>2, <4>3, <5>1
      <4> QED
        BY <4>2, <4>3, <4>4, SameElements DEF p, q
    <3> QED
      BY <1>1, <1>6, <3>1, <3>2, <3>4, SMTT(20) DEF IsPrefix
  <2> QED
    BY <1>6, <2>2, <2>3, <2>4 DEF n, id, unit, read, t, crc, UnitRead
<1> QED
  BY <1>5, <1>6

-----------------------------------------------------------------------------
(***************************************************************************)
(* The header as it arrives.                                               *)
(***************************************************************************)
HeaderLeft(s) == Unpadded(PduSent(s).header, PduSent(s).hpad)

\* It is the beginning of what was sent, and all of it if all words arrived; the
\* first word is there.
LEMMA HeaderLeftFacts ==
    ASSUME NEW s, MiamSending(s), NEW S, HeaderOf(s, S, HeaderSent(s))
    PROVE  /\ s.header >= WordsOf(HeaderSent(s)) =>
                 IsMiamCore(PduSent(s)) /\ HeaderLeft(s) = HeaderSent(s)
           /\ IsMiamCore(PduSent(s)) =>
                 /\ FirstOctet(PduSent(s).header) = s.version
                 /\ HeaderLeft(s) \in Seq(S)
                 /\ Len(HeaderLeft(s)) \in Nat /\ Len(HeaderLeft(s)) <= Len(HeaderSent(s))
                 /\ \A i \in 1 .. Len(HeaderLeft(s)) : HeaderLeft(s)[i] = HeaderSent(s)[i]
                 /\ Len(HeaderLeft(s)) = Len(HeaderSent(s)) => HeaderLeft(s) = HeaderSent(s)
<1> DEFINE h   == HeaderSent(s)
           pdu == PduSent(s)
           w   == pdu.header
           u   == HeaderLeft(s)
           pad == pdu.hpad
<1>1. /\ WordsOfOctets(S, h, s.header, w, u, pad)
      /\ pdu.delim = (s.header > 0)
      /\ pdu.bpad \in 0 .. 3
  <2>1. Padding(BodySent(s)) \in 0 .. 3
    BY PduSentFacts DEF WordsOfOctets
  <2> QED
    BY <2>1, PduSentFacts DEF HeaderLeft
<1>2. h \in Seq(S) /\ h[1] = s.version /\ Len(h) \in Nat /\ Len(h) > 0 /\ s.header \in Nat
  <2>1. h \in Seq(S) /\ h[1] = s.version
    BY DEF HeaderOf
  <2>2. /\ Len(h) = TypeAt(s.version) + Len(AppId(s.version, s.type)) + CrcLength(s.version)
        /\ TypeAt(s.version) \in {4, 14}
    BY DEF HeaderOf
  <2>3. Len(AppId(s.version, s.type)) \in Nat /\ CrcLength(s.version) \in {2, 4}
    BY AppIdFacts DEF CrcLength
  <2>4. s.header \in Nat
    BY DEF MiamSending
  <2> QED
    BY <2>1, <2>2, <2>3, <2>4
<1> HIDE DEF h, w, u, pad
<1>3. /\ pad \in 0 .. 3 /\ w \in Seq(S) /\ Len(w) \in Nat
      /\ \A i \in 1 .. Len(w) : i <= Len(h) => w[i] = h[i]
      /\ s.header = 0 => Len(w) = 0
      /\ s.header > 0 => Len(w) >= 4
      /\ s.header >= WordsOf(h) => Len(w) = Len(h) + pad
      /\ Len(w) >= pad => /\ u \in Seq(S) /\ Len(u) = Len(w) - pad /\ Len(u) <= Len(h)
                          /\ \A i \in 1 .. Len(u) : u[i] = h[i]
  BY <1>1, <1>2 DEF WordsOfOctets
<1>4. IsMiamCore(pdu) <=> s.header > 0 /\ Len(w) >= pad
  <2>1. pdu.bpad \in Paddings \union {Plain, NoBody} /\ pad \in Paddings
    BY <1>1, <1>3 DEF Paddings
  <2> QED
    BY <1>1, <2>1 DEF IsMiamCore, w, pad
<1>5. Len(w) >= pad => /\ u \in Seq(S) /\ Len(u) \in Nat /\ Len(u) <= Len(h)
                       /\ \A i \in 1 .. Len(u) : u[i] = h[i]
                       /\ Len(u) = Len(h) => u = h
  <2>1. SUFFICES ASSUME Len(w) >= pad
                 PROVE  /\ u \in Seq(S) /\ Len(u) \in Nat /\ Len(u) <= Len(h)
                        /\ \A i \in 1 .. Len(u) : u[i] = h[i]
                        /\ Len(u) = Len(h) => u = h
    OBVIOUS
  <2>2. u \in Seq(S) /\ Len(u) <= Len(h) /\ \A i \in 1 .. Len(u) : u[i] = h[i]
    BY <1>3, <2>1
  <2>3. Len(u) = Len(h) => u = h
    BY <1>2, <2>2, SameElements
  <2> QED
    BY <2>2, <2>3, LenProperties
<1>6. s.header >= WordsOf(h) => s.header > 0 /\ Len(w) >= pad /\ u = h
  <2>1. SUFFICES ASSUME s.header >= WordsOf(h)  PROVE s.header > 0 /\ Len(w) >= pad /\ u = h
    OBVIOUS
  <2>2. Len(w) = Len(h) + pad
    BY <1>3, <2>1
  <2>3. Len(w) > 0 /\ Len(w) >= pad
    BY <1>2, <1>3, <2>2
  <2>4. s.header > 0
    BY <1>2, <1>3, <2>3
  <2>5. Len(u) = Len(h)
    BY <1>2, <1>3, <2>2, <2>3
  <2> QED
    BY <1>5, <2>3, <2>4, <2>5
<1>7. s.header > 0 => FirstOctet(w) = s.version
  <2>1. SUFFICES ASSUME s.header > 0  PROVE FirstOctet(w) = s.version
    OBVIOUS
  <2>2. Len(w) >= 4 /\ 1 \in 1 .. Len(w) /\ 1 <= Len(h)
    BY <1>2, <1>3, <2>1
  <2>3. w # <<>> /\ Head(w) = w[1]
    BY <1>3, <2>2
  <2> QED
    BY <1>2, <1>3, <2>2, <2>3 DEF FirstOctet
<1> QED
  BY <1>4, <1>5, <1>6, <1>7 DEF h, w, u, pad

\* A unit with data is parsed as one.
LEMMA DataIsParsed ==
    ASSUME NEW s, MiamSending(s), IsData(s), NEW S, HeaderOf(s, S, HeaderSent(s)),
           IsMiamCore(PduSent(s))
    PROVE  PduParse(PduSent(s)) = DataParse(s.version, HeaderLeft(s), BodyIn(PduSent(s)))
<1> DEFINE pdu == PduSent(s)
           first == FirstOctet(pdu.header)
<1>1. first = s.version
  BY HeaderLeftFacts
<1>2. first % 16 = s.version /\ first \div 16 = 0 /\ s.version \in {1, 2}
  BY <1>1 DEF IsData
<1> HIDE DEF pdu, first
<1>3. PduParse(pdu) = ParseByType(s.version, 0, Unpadded(pdu.header, pdu.hpad), BodyIn(pdu))
  BY <1>2 DEF PduParse, first, pdu
<1> QED
  BY <1>3 DEF ParseByType, HeaderLeft, pdu

\* The length in the header of version 1 is that of the whole unit.
LEMMA NotTruncated ==
    ASSUME NEW s, MiamSending(s), IsData(s), NEW S, HeaderOf(s, S, HeaderSent(s)),
           NEW body, Len(body) \in Nat
    PROVE  LET t == BodyTruncated(s.version, HeaderSent(s), body)
           IN  /\ Len(body) >= Len(BodySent(s)) => t = {}
               /\ s.version = 1 /\ Len(body) < Len(BodySent(s)) => t # {}
<1>1. /\ Len(HeaderSent(s)) \in Nat /\ Len(BodySent(s)) \in Nat
      /\ s.version = 1 => PduLength(HeaderSent(s)) = Len(HeaderSent(s)) + Len(BodySent(s))
  BY HeaderLengths, BodyLeftFacts DEF HeaderOf
<1> QED
  BY <1>1 DEF BodyTruncated

\* What arrives undamaged is handed up without an error.
THEOREM MiamUndamaged == SenderSpec => []MiamDecoded
<1>1. ASSUME NodeAsDecoded  PROVE MiamDecoded
  <2> DEFINE pdu == PduSent(sent)
             text == MiamText(sent)
             h == HeaderSent(sent)
  <2>1. SUFFICES ASSUME Returned, sent.app = "miam", Undamaged(sent), sent.label \in MiamLabels
                 PROVE  /\ node.app = "miam"
                        /\ IsData(sent) /\ Supported(sent) =>
                              node.msg.err = {} /\ node.msg.data = sent.data
    BY DEF MiamDecoded
  <2>2. MiamSending(sent) /\ node = NodeOf(sent.label, sent.dir, text)
    BY <1>1, <2>1, SendingIsSending DEF Returned
  <2>3. /\ Extracted(sent.label, sent.dir, text) = text
        /\ SingleTransfer(text) = PduParse(pdu) /\ ArincParse(text) = NoArinc
    BY MiamTextFacts
  <2>4. PICK S : HeaderOf(sent, S, h)
    BY <2>2, HeaderFacts
  <2>5. /\ sent.header >= WordsOf(h) /\ sent.body >= WordsOf(BodySent(sent))
        /\ sent.garbled = 0
    BY <2>1 DEF Undamaged
  <2>6. IsMiamCore(pdu) /\ HeaderLeft(sent) = h
    BY <2>2, <2>4, <2>5, HeaderLeftFacts
  <2>7. pdu.header \in Seq(S)
    BY <2>2, <2>4, PduSentFacts DEF WordsOfOctets
  <2>8. PduParse(pdu) # NoUnit
    <3>1. PduParse(pdu).read >= 1 /\ PduParse(pdu).read \in Nat
      <4> HIDE DEF pdu
      <4> QED
        BY <2>6, <2>7, PduRead
    <3>2. NoUnit.read = 0
      BY DEF NoUnit, Unit
    <3> QED
      BY <3>1, <3>2
  <2> HIDE DEF pdu, text, h
  <2>9. node.app = "miam" /\ node.msg = PduParse(pdu)
    BY <2>1, <2>2, <2>3, <2>8, NodeOfText DEF Node
  <2>10. ASSUME IsData(sent), Supported(sent)
         PROVE  PduParse(pdu).err = {} /\ PduParse(pdu).data = sent.data
    <3> DEFINE b == BodySent(sent)
               read == BodyData(sent.compression, b)
               unit == DataParse(sent.version, h, b)
    <3>1. BodyIn(pdu) = b
      BY <2>2, <2>5, BodyInFacts, BodyLeftFacts DEF pdu
    <3>2. PduParse(pdu) = unit
      BY <2>2, <2>4, <2>6, <2>10, <3>1, DataIsParsed DEF pdu, h
    <3>3. /\ sent.compression < 2
          /\ AppIdLength(sent.version, sent.type) # 0
      <4>1. AppIdLength(sent.version, sent.type) \in 0 .. 8
        BY AppIdIsShort
      <4> QED
        BY <2>10, <4>1 DEF Supported
    <3>4. read.data = sent.data /\ read.err = {}
      BY <2>2, <3>3, BodyDataRead
    <3>5. BodyTruncated(sent.version, h, b) = {}
      <4>1. Len(b) \in Nat /\ Len(b) >= Len(b)
        BY <2>2, BodyLeftFacts
      <4> QED
        BY <2>2, <2>4, <2>10, <4>1, NotTruncated DEF h
    <3>6. b = <<>> => sent.data = <<>>
      <4>1. sent.compression = 0 => b = sent.data
        BY <2>2, BodyDataRead
      <4>2. sent.compression = 1 => Len(b) = Len(sent.data) + 1 /\ Len(sent.data) \in Nat
        BY <2>2, BodyFacts, LenProperties DEF MiamSending
      <4>3. sent.compression \in 0 .. 7
        BY <2>2 DEF MiamSending
      <4>4. b = <<>> => Len(b) = 0
        OBVIOUS
      <4> HIDE DEF b
      <4> QED
        BY <3>3, <4>1, <4>2, <4>3, <4>4
    <3>7. UnitRead(sent, unit, b, read, BodyTruncated(sent.version, h, b))
      BY <2>2, <2>4, <2>10, WholeHeader
    <3> HIDE DEF b, read, unit
    <3> DEFINE same == Checksum(sent.version, read.data) = Checksum(sent.version, sent.data)
    <3>8. /\ unit.err = BodyTruncated(sent.version, h, b) \union
                IF b = <<>> THEN {}
                ELSE read.err \union IF same THEN {} ELSE {"BODY_CRC_FAILED"}
          /\ unit.data = IF b = <<>> THEN <<>> ELSE read.data
      BY <3>3, <3>7 DEF UnitRead
    <3>9. same
      BY <3>4
    <3> HIDE DEF same
    <3> QED
      BY <3>2, <3>4, <3>5, <3>6, <3>8, <3>9
  <2> QED
    BY <2>9, <2>10
<1> QED
  BY <1>1, NodeDecoded, PTL

\* Data without an error is what was sent; else the body is missing, or a damaged
\* body has the checksum of what was sent.  A body that is cut needs the checksum
\* only where neither a length nor the end of a compressed stream shows it.
MiamIntactOrAlike ==
    IsMiamNode /\ IsData(sent) /\ node.msg.err = {} =>
        /\ \/ node.msg.data = sent.data \/ BodyMissing(sent)
           \/ /\ Checksum(sent.version, node.msg.data) = Checksum(sent.version, sent.data)
              /\ sent.garbled # 0 \/ (sent.version = 2 /\ sent.compression = 0)
        /\ IsPrefix(node.msg.app_id, AppId(sent.version, sent.type))

\* So data that is handed up is what was sent, but for damage that the checksum
\* does not show.
THEOREM MiamIntactUpToChecksum == SenderSpec => []MiamIntactOrAlike
<1>1. ASSUME NodeAsDecoded  PROVE MiamIntactOrAlike
  <2> DEFINE pdu == PduSent(sent)
             text == MiamText(sent)
             h == HeaderSent(sent)
             b == BodySent(sent)
             body == BodyIn(pdu)
             g == HeaderLeft(sent)
             id == AppId(sent.version, sent.type)
  <2>1. SUFFICES ASSUME IsMiamNode, IsData(sent), node.msg.err = {}
                 PROVE  /\ \/ node.msg.data = sent.data \/ BodyMissing(sent)
                           \/ /\ Checksum(sent.version, node.msg.data) =
                                    Checksum(sent.version, sent.data)
                              /\ sent.garbled # 0 \/ (sent.version = 2 /\ sent.compression = 0)
                        /\ IsPrefix(node.msg.app_id, id)
    BY DEF MiamIntactOrAlike
  <2>2. MiamSending(sent) /\ node = NodeOf(sent.label, sent.dir, text)
    BY <1>1, <2>1, SendingIsSending DEF IsMiamNode, Returned
  <2>3. /\ Extracted(sent.label, sent.dir, text) = text
        /\ SingleTransfer(text) = PduParse(pdu)
    BY MiamTextFacts
  <2>4. PICK S : HeaderOf(sent, S, h)
    BY <2>2, HeaderFacts
  <2> HIDE DEF pdu, text, h, b, body, g, id
  <2>5. node.msg = PduParse(pdu) /\ PduParse(pdu) # NoUnit
    <3>1. node.app = "miam"
      BY <2>1 DEF IsMiamNode
    <3> QED
      BY <2>2, <2>3, <3>1, NodeOfText DEF Node
  <2>6. IsMiamCore(pdu)
    BY <2>5 DEF PduParse
  <2>7. node.msg = DataParse(sent.version, g, body)
    BY <2>1, <2>2, <2>4, <2>5, <2>6, DataIsParsed DEF pdu, h, g, body
  <2>8. g = h
    <3>1. /\ g \in Seq(S) /\ Len(g) \in Nat /\ Len(g) <= Len(h)
          /\ \A i \in 1 .. Len(g) : g[i] = h[i]
          /\ Len(g) = Len(h) => g = h
      BY <2>2, <2>4, <2>6, HeaderLeftFacts DEF pdu, h, g
    <3>2. Len(h) \in Nat
      BY <2>1, <2>2, <2>4, HeaderLengths
    <3>3. ~(Len(g) < Len(h))
      <4>1. SUFFICES ASSUME Len(g) < Len(h)  PROVE FALSE
        OBVIOUS
      <4>2. DataParse(sent.version, g, body).err # {}
        BY <2>1, <2>2, <2>4, <3>1, <4>1, CutHeader
      <4> QED
        BY <2>1, <2>7, <4>2
    <3> QED
      BY <3>1, <3>2, <3>3
  <2> DEFINE unit == DataParse(sent.version, h, body)
             read == BodyData(sent.compression, body)
             same == Checksum(sent.version, read.data) = Checksum(sent.version, sent.data)
             t    == BodyTruncated(sent.version, h, body)
  <2>9. unit.err = {} /\ node.msg = unit
    BY <2>1, <2>7, <2>8
  <2>10. UnitRead(sent, unit, body, read, t)
    BY <2>1, <2>2, <2>4, WholeHeader
  <2>11. /\ t = {}
         /\ body # <<>> => read.err = {} /\ same
         /\ unit.data = IF body = <<>> THEN <<>> ELSE read.data
         /\ IsPrefix(unit.app_id, id)
    <3> HIDE DEF unit, read, same, t
    <3>1. /\ unit.err = t \union IF body = <<>> THEN {}
                                 ELSE read.err \union IF same THEN {} ELSE {"BODY_CRC_FAILED"}
          /\ unit.data = IF body = <<>> THEN <<>> ELSE read.data
          /\ IsPrefix(unit.app_id, id)
      BY <2>9, <2>10 DEF UnitRead, same, id
    <3> QED
      BY <2>9, <3>1
  <2> HIDE DEF unit, read, same, t
  <2>12. /\ Len(body) \in Nat /\ Len(b) \in Nat /\ Len(body) <= Len(b)
         /\ body = <<>> <=> Len(body) = 0
         /\ Len(body) = 0 => sent.body = 0 \/ Len(b) = 0
         /\ sent.garbled = 0 => body = BodyLeft(sent)
         /\ sent.garbled = 0 /\ Len(body) = Len(b) => body = b
    BY <2>2, BodyInFacts, BodyLeftFacts DEF body, pdu, b
  <2>13. sent.version = 1 => Len(body) = Len(b)
    <3>1. sent.version = 1 /\ Len(body) < Len(b) => t # {}
      BY <2>1, <2>2, <2>4, <2>12, NotTruncated DEF t, h, b
    <3> QED
      BY <2>11, <2>12, <3>1
  <2>14. \/ sent.compression = 1 /\ b # <<>> /\ Len(b) > 0
         \/ sent.compression # 1 /\ b = sent.data
    <3>1. sent.compression = 1 => Len(b) = Len(sent.data) + 1 /\ Len(sent.data) \in Nat
      BY <2>2, BodyFacts, LenProperties DEF MiamSending, b
    <3>2. sent.compression # 1 => b = sent.data
      BY <2>2, BodyFacts DEF b
    <3>3. Len(b) > 0 => b # <<>>
      OBVIOUS
    <3> QED
      BY <3>1, <3>2, <3>3
  <2>15. CASE body = <<>>
    <3>1. node.msg.data = <<>>
      BY <2>9, <2>11, <2>15
    <3>2. CASE Len(b) = 0
      <4>1. b = <<>> /\ b = sent.data
        BY <2>2, <2>14, <3>2, BodyFacts DEF b
      <4> QED
        BY <2>9, <2>11, <3>1, <4>1
    <3>3. CASE Len(b) # 0
      <4>1. sent.body = 0 /\ sent.version = 2
        BY <2>1, <2>12, <2>13, <2>15, <3>3 DEF IsData
      <4> QED
        BY <2>9, <2>11, <4>1 DEF BodyMissing
    <3> QED
      BY <3>2, <3>3
  <2>16. CASE body # <<>>
    <3>1. /\ node.msg.data = read.data /\ read.err = {}
          /\ Checksum(sent.version, read.data) = Checksum(sent.version, sent.data)
      BY <2>9, <2>11, <2>16 DEF same
    <3>2. sent.compression < 2 /\ sent.compression \in 0 .. 7
      <4>1. sent.compression \in 0 .. 7
        BY <2>2 DEF MiamSending
      <4>2. sent.compression \notin {0, 1} => read.err # {}
        BY DEF BodyData, read
      <4> QED
        BY <3>1, <4>1, <4>2
    <3>3. CASE sent.garbled # 0 \/ (sent.version = 2 /\ sent.compression = 0)
      BY <2>9, <2>11, <3>1, <3>3
    <3>4. CASE sent.garbled = 0 /\ (sent.version = 1 \/ sent.compression = 1)
      <4>1. Len(body) = Len(b)
        <5>1. CASE sent.version = 1
          BY <2>13, <5>1
        <5>2. CASE sent.compression = 1
          <6>1. sent.compression = 1 /\ Len(BodyLeft(sent)) < Len(b) =>
                   BodyData(sent.compression, BodyLeft(sent)).err # {}
            BY <2>2, BodyDataRead DEF b
          <6> QED
            BY <2>12, <3>1, <3>4, <5>2, <6>1 DEF read
        <5> QED
          BY <3>4, <5>1, <5>2
      <4>2. body = b
        BY <2>12, <3>4, <4>1
      <4>3. read.data = sent.data
        BY <2>2, <3>2, <4>2, BodyDataRead DEF read, b
      <4> QED
        BY <2>9, <2>11, <3>1, <4>3
    <3> QED
      BY <2>1, <3>2, <3>3, <3>4 DEF IsData
  <2> QED
    BY <2>15, <2>16
<1> QED
  BY <1>1, NodeDecoded, PTL
=============================================================================
