--------------------------- MODULE UtilitiesProofs ---------------------------
(***************************************************************************)
(* Proofs about the utilities.  The code that fills buffers:               *)
(* la_base85_decode and la_inflate, for texts, streams and limits of any   *)
(* size, la_vstring, for any limit and any size_t that holds twice the     *)
(* limit, and la_bitstream, for streams, chunks and words of any size.     *)
(* And JsonWriter: whatever the chain of nodes, and whatever each of them  *)
(* prints, the text is one JSON document, for any numbers of nodes, calls  *)
(* and open containers.                                                    *)
(***************************************************************************)
EXTENDS GrowingString, Base85, Inflate, BitStream, JsonWriter,
        SequenceTheorems, FiniteSetTheorems, WellFoundedInduction, TLAPS

(***************************************************************************)
(* Base85.  That words fit needs to know only that the buffer grew before  *)
(* the last word was stored.                                               *)
(***************************************************************************)
Base85Inv == Base85TypeOK /\ OutputFits

LEMMA GroupIsWord ==
    ASSUME NEW group \in [1 .. 5 -> Chars]
    PROVE  WordOf(group) \in Words
<1>1. group[1] \in Chars
    OBVIOUS
<1>2. group[1].word \in Words
    BY <1>1 DEF Chars
<1> QED
    BY <1>2 DEF WordOf, Words

LEMMA PutFits ==
    ASSUME Base85TypeOK, OutputFits, NEW word \in Words, Put(word)
    PROVE  /\ b85_out' \in Seq(Words)
           /\ b85_size' \in Nat
           /\ OutputFits'
<1>1. /\ b85_out \in Seq(Words)
      /\ Len(b85_out) \in Nat
      /\ b85_size \in Nat
    BY DEF Base85TypeOK
<1>2. /\ b85_out' = Append(b85_out, word)
      /\ b85_out' \in Seq(Words)
      /\ Len(b85_out') = Len(b85_out) + 1
    BY <1>1 DEF Put
<1>3. b85_size' = IF OutputTight THEN Grown ELSE b85_size
    BY DEF Put
<1>4. Grown \in Nat /\ Grown >= b85_size + 5
    BY <1>1 DEF Grown
<1>5. CASE OutputTight
    BY <1>1, <1>2, <1>3, <1>4, <1>5 DEF OutputFits, OutPos, OutputTight
<1>6. CASE ~OutputTight
    BY <1>1, <1>2, <1>3, <1>6 DEF OutputFits, OutPos, OutputTight
<1> QED
    BY <1>2, <1>5, <1>6

LEMMA Base85Step ==
    ASSUME Base85Inv, [Base85Next]_b85Vars
    PROVE  Base85Inv'
<1>1. /\ b85_text \in Seq(Chars)
      /\ Len(b85_text) \in Nat
      /\ b85_at \in 0 .. Len(b85_text)
      /\ Base85TypeOK
    BY DEF Base85Inv, Base85TypeOK
<1>2. ASSUME NEW text \in Base85Texts, Base85Decode(text)
      PROVE  Base85Inv'
    <2>1. text \in Seq(Chars) /\ Len(text) \in Nat
        BY Base85Assumption
    <2>2. /\ b85_text' = text
          /\ b85_at' = 0
          /\ b85_out' = <<>>
          /\ b85_size' = ((Len(text) \div 5) + 4) * 4
          /\ b85_pc' = "loop"
        BY <1>2 DEF Base85Decode
    <2>3. b85_size' \in Nat
        BY <2>1, <2>2
    <2> QED
        BY <2>1, <2>2, <2>3 DEF Base85Inv, Base85TypeOK, OutputFits, OutPos
<1>3. CASE DecodeZ
    <2>1. /\ Put(Zero)
          /\ b85_at' = b85_at + 1
          /\ CharsLeft > 0
          /\ b85_text' = b85_text
          /\ b85_pc' = b85_pc
        BY <1>3 DEF DecodeZ, AtZ, Put
    <2>2. Zero \in Words
        BY DEF Words
    <2>3. b85_at' \in 0 .. Len(b85_text')
        BY <1>1, <2>1 DEF CharsLeft
    <2> QED
        BY <1>1, <2>1, <2>2, <2>3, PutFits DEF Base85Inv, Base85TypeOK
<1>4. CASE DecodeGroup
    <2> DEFINE group == SubSeq(b85_text, b85_at + 1, b85_at + 5)
    <2>1. /\ Put(WordOf(group))
          /\ b85_at' = b85_at + 5
          /\ CharsLeft >= 5
          /\ b85_text' = b85_text
          /\ b85_pc' = b85_pc
        BY <1>4 DEF DecodeGroup, Put
    <2>2. b85_at' \in 0 .. Len(b85_text')
        BY <1>1, <2>1 DEF CharsLeft
    <2>3. group \in [1 .. 5 -> Chars]
        <3>1. b85_at + 5 <= Len(b85_text)
            BY <1>1, <2>1 DEF CharsLeft
        <3>2. group = [i \in 1 .. 5 |-> b85_text[b85_at + i]]
            BY <1>1, <3>1
        <3>3. \A i \in 1 .. 5 : b85_text[b85_at + i] \in Chars
            BY <1>1, <3>1
        <3> QED
            BY <3>2, <3>3
    <2>4. WordOf(group) \in Words
        BY <2>3, GroupIsWord
    <2> QED
        BY <1>1, <2>1, <2>2, <2>4, PutFits DEF Base85Inv, Base85TypeOK
<1>5. CASE Base85Returns
    BY <1>5 DEF Base85Returns, Base85Inv, Base85TypeOK, OutputFits, OutPos
<1>6. CASE UNCHANGED b85Vars
    BY <1>6 DEF b85Vars, Base85Inv, Base85TypeOK, OutputFits, OutPos
<1> QED
    BY <1>2, <1>3, <1>4, <1>5, <1>6 DEF Base85Next

(***************************************************************************)
(* la_base85_decode never stores a word outside its buffer.                *)
(***************************************************************************)
THEOREM Base85Fits == Base85Spec => []OutputFits
<1>1. Base85Init => Base85Inv
    BY DEF Base85Init, Base85Inv, Base85TypeOK, OutputFits, OutPos
<1>2. Base85Inv /\ [Base85Next]_b85Vars => Base85Inv'
    BY Base85Step
<1>3. Base85Inv => OutputFits
    BY DEF Base85Inv
<1> QED
    BY <1>1, <1>2, <1>3, PTL DEF Base85Spec

-----------------------------------------------------------------------------
(***************************************************************************)
(* What a sender of Base85 encodes: the characters of a sequence of words  *)
(* begin with those of each of its prefixes.                               *)
(***************************************************************************)
SentWords == Base85Words \union {Zero}

\* A set of naturals has a least element.
LEMMA LeastNatural ==
    ASSUME NEW S \in SUBSET Nat, S # {}
    PROVE  \E m \in S : \A n \in S : m <= n
<1>1. IsWellFoundedOn(OpToRel(<, Nat), Nat)
  BY NatLessThanWellFounded
<1>2. PICK m \in S : \A n \in S : ~(<<n, m>> \in OpToRel(<, Nat))
  BY <1>1, WFMin
<1>3. \A n \in S : ~(n < m)
  BY <1>2 DEF OpToRel
<1> QED
  BY <1>3

\* at holds the characters of the first n words, and of all shorter prefixes.
IsEncoding(at, words, n) ==
    at = [i \in 0 .. n |-> IF i = 0 THEN <<>> ELSE at[i - 1] \o CodeOf(words[i])]

Encoding(words) == CHOOSE at : IsEncoding(at, words, Len(words))

LEMMA EncodedIsLast ==
    ASSUME NEW words
    PROVE  Encoded(words) = Encoding(words)[Len(words)]
BY DEF Encoded, Encoding, IsEncoding

LEMMA EncodingSteps ==
    ASSUME NEW at, NEW words, NEW n \in Nat, IsEncoding(at, words, n)
    PROVE  /\ at[0] = <<>>
           /\ \A i \in 1 .. n : at[i] = at[i - 1] \o CodeOf(words[i])
<1>1. \A i \in 0 .. n : at[i] = IF i = 0 THEN <<>> ELSE at[i - 1] \o CodeOf(words[i])
  BY DEF IsEncoding
<1>2. 0 \in 0 .. n
  OBVIOUS
<1>3. \A i \in 1 .. n : i \in 0 .. n /\ i # 0
  OBVIOUS
<1> QED
  BY <1>1, <1>2, <1>3

\* An encoding is continued by one word more.
LEMMA EncodingContinues ==
    ASSUME NEW words, NEW n \in Nat, NEW r, IsEncoding(r, words, n)
    PROVE  \E at : IsEncoding(at, words, n + 1)
<1> DEFINE at == [i \in 0 .. n + 1 |-> IF i <= n THEN r[i] ELSE r[n] \o CodeOf(words[n + 1])]
<1>1. r[0] = <<>> /\ \A i \in 1 .. n : r[i] = r[i - 1] \o CodeOf(words[i])
  BY EncodingSteps
<1>2. ASSUME NEW i \in 0 .. n + 1
      PROVE  at[i] = IF i = 0 THEN <<>> ELSE at[i - 1] \o CodeOf(words[i])
  <2>1. CASE i = 0
    <3>1. at[0] = r[0]
      OBVIOUS
    <3> QED
      BY <1>1, <2>1, <3>1
  <2>2. CASE i \in 1 .. n
    <3>1. at[i] = r[i] /\ at[i - 1] = r[i - 1]
      BY <2>2
    <3>2. i # 0
      BY <2>2
    <3> HIDE DEF at
    <3> QED
      BY <1>1, <2>2, <3>1, <3>2
  <2>3. CASE i = n + 1
    <3>1. at[n + 1] = r[n] \o CodeOf(words[n + 1]) /\ at[n] = r[n]
      OBVIOUS
    <3>2. i # 0 /\ i - 1 = n
      BY <2>3
    <3> HIDE DEF at
    <3> QED
      BY <2>3, <3>1, <3>2
  <2> QED
    BY <2>1, <2>2, <2>3
<1>3. at = [i \in 0 .. n + 1 |-> at[i]]
  OBVIOUS
<1> HIDE DEF at
<1>4. at = [i \in 0 .. n + 1 |-> IF i = 0 THEN <<>> ELSE at[i - 1] \o CodeOf(words[i])]
  BY <1>2, <1>3
<1> QED
  BY <1>4 DEF IsEncoding

LEMMA EncodingExists ==
    ASSUME NEW words, NEW n \in Nat
    PROVE  \E at : IsEncoding(at, words, n)
<1> DEFINE S == {j \in Nat : ~ \E at : IsEncoding(at, words, j)}
<1>1. ASSUME S # {}  PROVE FALSE
  <2>1. PICK j \in S : \A l \in S : j <= l
    BY <1>1, LeastNatural
  <2>2. CASE j = 0
    <3> DEFINE at == [i \in 0 .. 0 |-> <<>>]
    <3>1. \A i \in 0 .. 0 : i = 0
      OBVIOUS
    <3>2. at = [i \in 0 .. 0 |-> IF i = 0 THEN <<>> ELSE at[i - 1] \o CodeOf(words[i])]
      BY <3>1
    <3> QED
      BY <2>1, <2>2, <3>2 DEF IsEncoding
  <2>3. CASE j # 0
    <3>1. j - 1 \in Nat /\ ~(j <= j - 1) /\ j - 1 + 1 = j
      BY <2>3
    <3>2. j - 1 \notin S
      BY <2>1, <3>1
    <3>3. PICK r : IsEncoding(r, words, j - 1)
      BY <3>1, <3>2
    <3> QED
      BY <2>1, <3>1, <3>3, EncodingContinues
  <2> QED
    BY <2>2, <2>3
<1> QED
  BY <1>1

\* Encodings of sequences with the same beginning agree on it.
LEMMA EncodingsAgree ==
    ASSUME NEW n \in Nat, NEW m \in Nat, NEW k \in Nat, k <= n, k <= m,
           NEW s, NEW t, \A i \in 1 .. k : s[i] = t[i],
           NEW r, IsEncoding(r, s, n), NEW u, IsEncoding(u, t, m)
    PROVE  r[k] = u[k]
<1> DEFINE S == {j \in 0 .. k : r[j] # u[j]}
<1>1. /\ r[0] = <<>> /\ \A i \in 1 .. n : r[i] = r[i - 1] \o CodeOf(s[i])
      /\ u[0] = <<>> /\ \A i \in 1 .. m : u[i] = u[i - 1] \o CodeOf(t[i])
  <2>1. r[0] = <<>> /\ \A i \in 1 .. n : r[i] = r[i - 1] \o CodeOf(s[i])
    BY EncodingSteps, ZenonT(30)
  <2>2. u[0] = <<>> /\ \A i \in 1 .. m : u[i] = u[i - 1] \o CodeOf(t[i])
    BY EncodingSteps, ZenonT(30)
  <2> QED
    BY <2>1, <2>2
<1>2. ASSUME S # {}  PROVE FALSE
  <2>1. S \in SUBSET Nat
    OBVIOUS
  <2>2. PICK j \in S : \A l \in S : j <= l
    BY <1>2, <2>1, LeastNatural
  <2>3. j \in 0 .. k /\ j # 0
    BY <1>1, <2>2
  <2>4. j - 1 \in 0 .. k /\ j \in 1 .. k /\ j \in 1 .. n /\ j \in 1 .. m /\ ~(j <= j - 1)
    BY <2>3
  <2>5. r[j - 1] = u[j - 1]
    BY <2>2, <2>4
  <2>6. r[j] = u[j]
    BY <1>1, <2>4, <2>5
  <2> QED
    BY <2>2, <2>6
<1> QED
  BY <1>2

\* The encoding of a sequence of words is one.
LEMMA EncodingIsEncoding ==
    ASSUME NEW words, Len(words) \in Nat
    PROVE  IsEncoding(Encoding(words), words, Len(words))
BY EncodingExists DEF Encoding

\* No words, no characters.
LEMMA EncodedNone == Encoded(<<>>) = <<>>
<1>1. Len(<<>>) = 0
  OBVIOUS
<1>2. IsEncoding(Encoding(<<>>), <<>>, 0)
  BY <1>1, EncodingIsEncoding
<1> QED
  BY <1>1, <1>2, EncodedIsLast, EncodingSteps

\* The characters of the last word follow those of the words before.
LEMMA EncodedAppend ==
    ASSUME NEW words \in Seq(SentWords), NEW word \in SentWords
    PROVE  Encoded(Append(words, word)) = Encoded(words) \o CodeOf(word)
<1> DEFINE n    == Len(words)
           more == Append(words, word)
<1>1. n \in Nat /\ Len(more) = n + 1 /\ more[n + 1] = word
  BY LenProperties, AppendProperties
<1>2. \A i \in 1 .. n : words[i] = more[i]
  BY AppendProperties
<1> HIDE DEF more
<1>3. IsEncoding(Encoding(words), words, n)
  BY <1>1, EncodingIsEncoding
<1>4. IsEncoding(Encoding(more), more, n + 1)
  <2>1. Len(more) \in Nat
    BY <1>1
  <2>2. IsEncoding(Encoding(more), more, Len(more))
    BY <2>1, EncodingIsEncoding
  <2> QED
    BY <1>1, <2>2
<1> HIDE DEF n
<1>5. Encoding(words)[n] = Encoding(more)[n]
  BY <1>1, <1>2, <1>3, <1>4, EncodingsAgree
<1>6. Encoding(more)[n + 1] = Encoding(more)[n] \o CodeOf(word)
  <2> DEFINE k == n + 1
             e == Encoding(more)
  <2>1. k \in Nat /\ k \in 1 .. k /\ k - 1 = n
    BY <1>1
  <2> HIDE DEF e
  <2>2. \A i \in 1 .. k : e[i] = e[i - 1] \o CodeOf(more[i])
    BY <1>4, <2>1, EncodingSteps DEF e
  <2> HIDE DEF k
  <2>3. e[k] = e[k - 1] \o CodeOf(more[k])
    BY <2>1, <2>2
  <2>4. more[k] = word
    BY <1>1 DEF k
  <2>5. e[k] = e[n] \o CodeOf(word)
    BY <2>1, <2>3, <2>4
  <2> QED
    BY <2>5 DEF k, e
<1> QED
  BY <1>1, <1>5, <1>6, EncodedIsLast DEF n, more

\* A word has five characters, or one.
LEMMA CodeIs ==
    ASSUME NEW word \in SentWords
    PROVE  /\ CodeOf(word) \in Seq(Chars)
           /\ Len(CodeOf(word)) = IF word = Zero THEN 1 ELSE 5
           /\ word = Zero => CodeOf(word)[1] = Z
           /\ word # Zero => \A i \in 1 .. 5 : CodeOf(word)[i] = Char(word, i)
<1>1. word \in Words /\ Zero \in Words
  BY DEF SentWords, Words
<1>2. \A w \in Words, p \in 0 .. 5 : Char(w, p) \in Chars
  BY DEF Char, Chars
<1>3. CASE word = Zero
  <2>1. CodeOf(word) = <<Z>> /\ Z \in Chars
    BY <1>1, <1>2, <1>3 DEF CodeOf, Z
  <2> QED
    BY <1>3, <2>1
<1>4. CASE word # Zero
  <2>1. CodeOf(word) = [i \in 1 .. 5 |-> Char(word, i)]
    BY <1>4 DEF CodeOf, Digits
  <2>2. \A i \in 1 .. 5 : i \in 0 .. 5
    OBVIOUS
  <2>3. \A i \in 1 .. 5 : Char(word, i) \in Chars
    BY <1>1, <1>2, <2>2
  <2>4. CodeOf(word) \in Seq(Chars) /\ Len(CodeOf(word)) = 5
    BY <2>1, <2>3
  <2> QED
    BY <1>4, <2>1, <2>4
<1> QED
  BY <1>3, <1>4

\* One prefix is the other and its next word.
LEMMA FirstWords ==
    ASSUME NEW words \in Seq(SentWords)
    PROVE  /\ Len(words) \in Nat
           /\ SubSeq(words, 1, 0) = <<>>
           /\ SubSeq(words, 1, Len(words)) = words
           /\ \A n \in 0 .. Len(words) : SubSeq(words, 1, n) \in Seq(SentWords)
           /\ \A n \in 0 .. Len(words) - 1 :
                 /\ words[n + 1] \in SentWords
                 /\ SubSeq(words, 1, n + 1) = Append(SubSeq(words, 1, n), words[n + 1])
<1>1. Len(words) \in Nat /\ \A i \in 1 .. Len(words) : words[i] \in SentWords
  BY LenProperties, ElementOfSeq
<1>2. SubSeq(words, 1, 0) = <<>> /\ SubSeq(words, 1, Len(words)) = words
  BY SubSeqEmpty, SubSeqFull
<1>3. ASSUME NEW n \in 0 .. Len(words)  PROVE SubSeq(words, 1, n) \in Seq(SentWords)
  <2>1. n \in Int /\ 1 \in Int /\ \A i \in 1 .. n : words[i] \in SentWords
    BY <1>1
  <2> QED
    BY <2>1, SubSeqProperties
<1>4. ASSUME NEW n \in 0 .. Len(words) - 1
      PROVE  /\ words[n + 1] \in SentWords
             /\ SubSeq(words, 1, n + 1) = Append(SubSeq(words, 1, n), words[n + 1])
  <2>1. /\ n \in 0 .. Len(words)
        /\ n + 1 \in 1 .. Len(words)
        /\ n + 1 - 1 = n
        /\ n + 1 \in 1 .. n + 1
    BY <1>1
  <2>2. words[n + 1] \in SentWords
    BY <1>1, <2>1
  <2>3. CASE n = 0
    <3>1. SubSeq(words, 1, 0 + 1) = SubSeq(words, 1, 0) \o <<words[0 + 1]>>
      <4>1. 1 \in 1 .. Len(words) /\ 1 \in 1 .. Len(words) /\ 0 + 1 = 1
        BY <2>1, <2>3
      <4>2. SubSeq(words, 1, 1) = SubSeq(words, 1, 1 - 1) \o <<words[1]>>
        BY <4>1, SubSeqRecursiveSecond
      <4> QED
        BY <4>1, <4>2
    <3> QED
      BY <1>3, <2>1, <2>2, <2>3, <3>1, AppendIsConcat
  <2>4. CASE n # 0
    <3>1. 1 \in 1 .. Len(words) /\ n + 1 \in 1 .. Len(words)
      BY <1>1, <2>1
    <3>2. SubSeq(words, 1, n + 1) = SubSeq(words, 1, n + 1 - 1) \o <<words[n + 1]>>
      BY <3>1, SubSeqRecursiveSecond
    <3> QED
      BY <1>3, <2>1, <2>2, <3>2, AppendIsConcat
  <2> QED
    BY <2>2, <2>3, <2>4
<1> QED
  BY <1>1, <1>2, <1>3, <1>4

\* The characters of one word more.
LEMMA EncodedFirstNext ==
    ASSUME NEW words \in Seq(SentWords), NEW n \in 0 .. Len(words) - 1
    PROVE  EncodedFirst(words, n + 1) = EncodedFirst(words, n) \o CodeOf(words[n + 1])
<1>1. Len(words) \in Nat
  BY FirstWords
<1>2. n \in 0 .. Len(words)
  BY <1>1
<1>3. /\ SubSeq(words, 1, n) \in Seq(SentWords)
      /\ words[n + 1] \in SentWords
      /\ SubSeq(words, 1, n + 1) = Append(SubSeq(words, 1, n), words[n + 1])
  BY <1>2, FirstWords
<1> QED
  BY <1>3, EncodedAppend DEF EncodedFirst

\* They are characters.
LEMMA EncodedFirstType ==
    ASSUME NEW words \in Seq(SentWords), NEW n \in 0 .. Len(words)
    PROVE  EncodedFirst(words, n) \in Seq(Chars)
<1> DEFINE S == {j \in 0 .. Len(words) : EncodedFirst(words, j) \notin Seq(Chars)}
<1>1. Len(words) \in Nat
  BY FirstWords
<1>2. ASSUME S # {}  PROVE FALSE
  <2>1. S \in SUBSET Nat
    BY <1>1
  <2>2. PICK j \in S : \A l \in S : j <= l
    BY <1>2, <2>1, LeastNatural
  <2>3. j \in 0 .. Len(words) /\ EncodedFirst(words, j) \notin Seq(Chars)
    BY <2>2
  <2>4. CASE j = 0
    <3>1. EncodedFirst(words, 0) = <<>>
      BY FirstWords, EncodedNone DEF EncodedFirst
    <3> QED
      BY <2>3, <2>4, <3>1, EmptySeq
  <2>5. CASE j # 0
    <3>1. /\ j - 1 \in 0 .. Len(words)
          /\ j - 1 \in 0 .. Len(words) - 1
          /\ j - 1 + 1 = j
          /\ ~(j <= j - 1)
      BY <1>1, <2>3, <2>5
    <3>2. EncodedFirst(words, j - 1) \in Seq(Chars)
      BY <2>2, <3>1
    <3>3. words[j - 1 + 1] \in SentWords
      BY <3>1, FirstWords
    <3>4. CodeOf(words[j - 1 + 1]) \in Seq(Chars)
      BY <3>3, CodeIs
    <3>5. EncodedFirst(words, j - 1 + 1) = EncodedFirst(words, j - 1) \o CodeOf(words[j - 1 + 1])
      BY <3>1, EncodedFirstNext
    <3>6. EncodedFirst(words, j - 1 + 1) \in Seq(Chars)
      BY <3>2, <3>4, <3>5, ConcatProperties
    <3> QED
      BY <2>3, <3>1, <3>6
  <2> QED
    BY <2>4, <2>5
<1> QED
  BY <1>2

\* The characters of some words begin with those of fewer.
LEMMA EncodedFirstIsPrefix ==
    ASSUME NEW words \in Seq(SentWords), NEW n \in 0 .. Len(words), NEW m \in n .. Len(words)
    PROVE  /\ Len(EncodedFirst(words, n)) <= Len(EncodedFirst(words, m))
           /\ \A i \in 1 .. Len(EncodedFirst(words, n)) :
                 EncodedFirst(words, m)[i] = EncodedFirst(words, n)[i]
<1> DEFINE Begins(j) ==
               /\ Len(EncodedFirst(words, n)) <= Len(EncodedFirst(words, j))
               /\ \A i \in 1 .. Len(EncodedFirst(words, n)) :
                     EncodedFirst(words, j)[i] = EncodedFirst(words, n)[i]
           S == {j \in n .. Len(words) : ~Begins(j)}
<1>1. Len(words) \in Nat
  BY FirstWords
<1>2. \A j \in 0 .. Len(words) :
        EncodedFirst(words, j) \in Seq(Chars) /\ Len(EncodedFirst(words, j)) \in Nat
  BY EncodedFirstType, LenProperties
<1>3. Begins(n)
  BY <1>2
<1> HIDE DEF Begins
<1>4. ASSUME S # {}  PROVE FALSE
  <2>1. S \in SUBSET Nat
    BY <1>1
  <2>2. PICK j \in S : \A l \in S : j <= l
    BY <1>4, <2>1, LeastNatural
  <2>3. j \in n .. Len(words) /\ ~Begins(j) /\ j # n
    BY <1>3, <2>2
  <2> DEFINE k == j - 1
  <2>4. /\ k \in n .. Len(words)
        /\ k \in 0 .. Len(words)
        /\ k \in 0 .. Len(words) - 1
        /\ k + 1 = j
        /\ ~(j <= k)
    BY <1>1, <2>3
  <2> HIDE DEF k
  <2>5. Begins(k)
    BY <2>2, <2>4
  <2>6. words[k + 1] \in SentWords
    BY <2>4, FirstWords
  <2>7. CodeOf(words[k + 1]) \in Seq(Chars) /\ Len(CodeOf(words[k + 1])) \in Nat
    BY <2>6, CodeIs, LenProperties
  <2>8. EncodedFirst(words, j) = EncodedFirst(words, k) \o CodeOf(words[k + 1])
    BY <2>4, EncodedFirstNext
  <2> DEFINE e == EncodedFirst(words, k)
             c == CodeOf(words[k + 1])
  <2>9. e \in Seq(Chars) /\ Len(e) \in Nat
    BY <1>2, <2>4
  <2> HIDE DEF e, c
  <2>10. /\ Len(e \o c) = Len(e) + Len(c)
         /\ \A i \in 1 .. Len(e) + Len(c) :
              (e \o c)[i] = IF i <= Len(e) THEN e[i] ELSE c[i - Len(e)]
    BY <2>7, <2>9, ConcatProperties DEF c
  <2>11. Len(c) \in Nat
    BY <2>7 DEF c
  <2>12. \A i \in 1 .. Len(e) : (e \o c)[i] = e[i]
    BY <2>9, <2>10, <2>11
  <2>13. Begins(j)
    <3>1. EncodedFirst(words, j) = e \o c
      BY <2>8 DEF e, c
    <3>2. /\ Len(EncodedFirst(words, n)) \in Nat
          /\ Len(EncodedFirst(words, n)) <= Len(e)
          /\ \A i \in 1 .. Len(EncodedFirst(words, n)) : e[i] = EncodedFirst(words, n)[i]
      BY <1>2, <2>5 DEF Begins, e
    <3> QED
      BY <2>9, <2>10, <2>11, <2>12, <3>1, <3>2 DEF Begins
  <2> QED
    BY <2>3, <2>13
<1>5. m \notin S
  BY <1>4
<1> QED
  BY <1>5 DEF Begins

\* The end of a word is one character, or five, behind the end of the last.
LEMMA NextWordEnds ==
    ASSUME NEW words \in Seq(SentWords), NEW n \in 0 .. Len(words) - 1
    PROVE  /\ Len(EncodedFirst(words, n)) \in Nat
           /\ Len(EncodedFirst(words, n + 1))
                = Len(EncodedFirst(words, n)) + IF words[n + 1] = Zero THEN 1 ELSE 5
           /\ Len(EncodedFirst(words, n + 1)) <= Len(Encoded(words))
           /\ Len(Encoded(words)) \in Nat
           /\ \A i \in 1 .. IF words[n + 1] = Zero THEN 1 ELSE 5 :
                 Encoded(words)[Len(EncodedFirst(words, n)) + i] = CodeOf(words[n + 1])[i]
<1> DEFINE e == EncodedFirst(words, n)
           c == CodeOf(words[n + 1])
           k == IF words[n + 1] = Zero THEN 1 ELSE 5
           f == EncodedFirst(words, n + 1)
<1>1. /\ Len(words) \in Nat
      /\ words[n + 1] \in SentWords
      /\ Encoded(words) = EncodedFirst(words, Len(words))
  BY FirstWords DEF EncodedFirst
<1>2. n \in 0 .. Len(words) /\ n + 1 \in 0 .. Len(words) /\ Len(words) \in n + 1 .. Len(words)
  BY <1>1
<1>3. e \in Seq(Chars) /\ Len(e) \in Nat
  BY <1>2, EncodedFirstType, LenProperties
<1>4. c \in Seq(Chars) /\ Len(c) = k /\ k \in Nat
  BY <1>1, CodeIs
<1>5. f = e \o c
  BY EncodedFirstNext
<1>6. Len(Encoded(words)) \in Nat
  <2>1. Len(words) \in 0 .. Len(words)
    BY <1>1
  <2> QED
    BY <1>1, <2>1, EncodedFirstType, LenProperties
<1>7. /\ Len(f) <= Len(Encoded(words))
      /\ \A i \in 1 .. Len(f) : Encoded(words)[i] = f[i]
  BY <1>1, <1>2, EncodedFirstIsPrefix
<1> HIDE DEF e, c, k, f
<1>8. /\ Len(f) = Len(e) + k
      /\ \A i \in 1 .. Len(e) + k : f[i] = IF i <= Len(e) THEN e[i] ELSE c[i - Len(e)]
  BY <1>3, <1>4, <1>5, ConcatProperties
<1>9. ASSUME NEW i \in 1 .. k  PROVE Encoded(words)[Len(e) + i] = c[i]
  <2>1. /\ Len(e) + i \in 1 .. Len(e) + k
        /\ ~(Len(e) + i <= Len(e))
        /\ Len(e) + i - Len(e) = i
    BY <1>3, <1>4
  <2> QED
    BY <1>7, <1>8, <2>1
<1> QED
  BY <1>3, <1>6, <1>7, <1>8, <1>9 DEF e, c, k, f

\* What the decoder meets where the words before have been decoded.
LEMMA NextWordMet ==
    ASSUME NEW words \in Seq(SentWords),
           NEW cut \in 0 .. Len(Encoded(words)),
           b85_text = SubSeq(Encoded(words), 1, cut),
           NEW n \in 0 .. Len(words),
           b85_at = Len(EncodedFirst(words, n)),
           b85_at < cut
    PROVE  /\ n < Len(words)
           /\ words[n + 1] = Zero => b85_text[b85_at + 1] = Z
           /\ words[n + 1] # Zero =>
                 /\ b85_text[b85_at + 1] # Z
                 /\ b85_at + 5 <= cut =>
                       \A i \in 1 .. 5 : b85_text[b85_at + i] = Char(words[n + 1], i)
<1> DEFINE w == words[n + 1]
           k == IF w = Zero THEN 1 ELSE 5
           E == Encoded(words)
<1>1. Len(words) \in Nat /\ EncodedFirst(words, Len(words)) = E
  BY FirstWords DEF EncodedFirst
<1>2. E \in Seq(Chars) /\ Len(E) \in Nat
  <2>1. Len(words) \in 0 .. Len(words)
    BY <1>1
  <2> QED
    BY <1>1, <2>1, EncodedFirstType, LenProperties
<1>3. n < Len(words)
  BY <1>1, <1>2
<1>4. n \in 0 .. Len(words) - 1 /\ w \in SentWords
  BY <1>1, <1>3, FirstWords
<1>5. /\ b85_at \in Nat
      /\ \A i \in 1 .. k : E[b85_at + i] = CodeOf(w)[i]
  BY <1>4, NextWordEnds
<1> HIDE DEF w, k, E
<1>6. \A i \in 1 .. cut : b85_text[i] = E[i]
  <2>1. cut \in Int /\ 1 \in Int /\ cut - 1 + 1 = cut
    BY <1>2 DEF E
  <2>2. \A i \in 1 .. cut : E[i] \in Chars
    BY <1>2, ElementOfSeq DEF E
  <2>3. \A i \in 1 .. cut - 1 + 1 : SubSeq(E, 1, cut)[i] = E[1 + i - 1]
    BY <2>1, <2>2, SubSeqProperties
  <2>4. b85_text = SubSeq(E, 1, cut)
    BY DEF E
  <2>5. \A i \in 1 .. cut : 1 + i - 1 = i
    OBVIOUS
  <2> QED
    BY <2>1, <2>3, <2>4, <2>5
<1>7. cut \in Nat
  BY <1>2 DEF E
<1>8. k = (IF w = Zero THEN 1 ELSE 5) /\ 1 \in 1 .. k
  BY DEF k
<1>9. b85_text[b85_at + 1] = CodeOf(w)[1]
  BY <1>5, <1>6, <1>7, <1>8
<1>10. ASSUME w = Zero  PROVE b85_text[b85_at + 1] = Z
  <2>1. CodeOf(w)[1] = Z
    BY <1>4, <1>10, CodeIs
  <2> QED
    BY <1>9, <2>1
<1>11. ASSUME w # Zero
       PROVE  /\ b85_text[b85_at + 1] # Z
              /\ b85_at + 5 <= cut => \A i \in 1 .. 5 : b85_text[b85_at + i] = Char(w, i)
  <2>1. \A i \in 1 .. 5 : CodeOf(w)[i] = Char(w, i)
    BY <1>4, <1>11, CodeIs
  <2>2. Char(w, 1) # Z
    BY DEF Char, Z
  <2>3. ASSUME b85_at + 5 <= cut, NEW i \in 1 .. 5
        PROVE  b85_text[b85_at + i] = Char(w, i)
    <3>1. b85_at + i \in 1 .. cut /\ i \in 1 .. k
      BY <1>5, <1>7, <1>8, <1>11, <2>3
    <3> QED
      BY <1>5, <1>6, <2>1, <3>1
  <2> QED
    BY <1>9, <2>1, <2>2, <2>3
<1> QED
  BY <1>3, <1>10, <1>11 DEF w

(***************************************************************************)
(* The inductive invariant: in the middle of a text that is the beginning  *)
(* of an encoding, the words decoded are the first ones, and the decoder   *)
(* is at the end of their characters.                                      *)
(***************************************************************************)
Reached(words, cut, n) ==
    /\ b85_out = SubSeq(words, 1, n)
    /\ b85_at = Len(EncodedFirst(words, n))
    /\ b85_pc = "done" /\ n < Len(words) => Len(EncodedFirst(words, n + 1)) > cut

DecodedSoFar ==
    b85_pc # "idle" =>
        \A words \in Base85Sent : \A cut \in 0 .. Len(Encoded(words)) :
            b85_text = SubSeq(Encoded(words), 1, cut) =>
                \E n \in 0 .. Len(words) : Reached(words, cut, n)

\* What a sequence of words sent is, and how long a text cut from it.
LEMMA SentIs ==
    ASSUME NEW words \in Base85Sent
    PROVE  /\ words \in Seq(SentWords)
           /\ Len(words) \in Nat
           /\ Encoded(words) \in Seq(Chars)
           /\ Len(Encoded(words)) \in Nat
           /\ \A cut \in 0 .. Len(Encoded(words)) : Len(SubSeq(Encoded(words), 1, cut)) = cut
<1>1. words \in Seq(SentWords)
  BY Base85Assumption DEF SentWords
<1>2. Len(words) \in Nat /\ EncodedFirst(words, Len(words)) = Encoded(words)
  BY <1>1, FirstWords DEF EncodedFirst
<1>3. Len(words) \in 0 .. Len(words)
  BY <1>2
<1>4. Encoded(words) \in Seq(Chars) /\ Len(Encoded(words)) \in Nat
  BY <1>1, <1>2, <1>3, EncodedFirstType, LenProperties
<1>5. ASSUME NEW cut \in 0 .. Len(Encoded(words))
      PROVE  Len(SubSeq(Encoded(words), 1, cut)) = cut
  <2>1. cut \in Int /\ 1 \in Int /\ cut \in Nat
    BY <1>4
  <2>2. \A i \in 1 .. cut : Encoded(words)[i] \in Chars
    BY <1>4, ElementOfSeq
  <2>3. Len(SubSeq(Encoded(words), 1, cut)) = IF 1 <= cut THEN cut - 1 + 1 ELSE 0
    BY <2>1, <2>2, SubSeqProperties
  <2> QED
    BY <2>1, <2>3
<1> QED
  BY <1>1, <1>2, <1>4, <1>5

\* A step that decodes the next word of a sequence.
LEMMA WordReached ==
    ASSUME NEW words \in Seq(SentWords), NEW cut, NEW n \in 0 .. Len(words) - 1,
           Reached(words, cut, n),
           b85_out' = Append(b85_out, words[n + 1]),
           b85_at' = b85_at + IF words[n + 1] = Zero THEN 1 ELSE 5,
           b85_pc' = "loop"
    PROVE  n + 1 \in 0 .. Len(words) /\ Reached(words, cut, n + 1)'
<1>1. Len(words) \in Nat /\ SubSeq(words, 1, n + 1) = Append(SubSeq(words, 1, n), words[n + 1])
  BY FirstWords
<1>2. Len(EncodedFirst(words, n + 1))
        = Len(EncodedFirst(words, n)) + IF words[n + 1] = Zero THEN 1 ELSE 5
  BY NextWordEnds
<1> QED
  BY <1>1, <1>2 DEF Reached

LEMMA DecodedSoFarStep ==
    ASSUME Base85TypeOK, DecodedSoFar, [Base85Next]_b85Vars
    PROVE  DecodedSoFar'
<1>1. b85_at \in 0 .. Len(b85_text) /\ Len(b85_text) \in Nat /\ b85_text \in Seq(Chars)
  BY DEF Base85TypeOK
<1>2. ASSUME NEW text \in Base85Texts, Base85Decode(text)
      PROVE  DecodedSoFar'
  <2>1. b85_out' = <<>> /\ b85_at' = 0 /\ b85_pc' = "loop"
    BY <1>2 DEF Base85Decode
  <2>2. ASSUME NEW words \in Base85Sent, NEW cut
        PROVE  0 \in 0 .. Len(words) /\ Reached(words, cut, 0)'
    <3>1. words \in Seq(SentWords) /\ Len(words) \in Nat
      BY SentIs
    <3>2. SubSeq(words, 1, 0) = <<>> /\ EncodedFirst(words, 0) = <<>>
      BY <3>1, FirstWords, EncodedNone DEF EncodedFirst
    <3>3. Len(<<>>) = 0
      OBVIOUS
    <3> QED
      BY <2>1, <3>1, <3>2, <3>3 DEF Reached
  <2> QED
    BY <2>2 DEF DecodedSoFar
<1>3. ASSUME b85_pc = "loop", b85_text' = b85_text,
             \A words \in Base85Sent : \A cut \in 0 .. Len(Encoded(words)) :
                 b85_text = SubSeq(Encoded(words), 1, cut) =>
                     \A n \in 0 .. Len(words) :
                         Reached(words, cut, n) =>
                             \E m \in 0 .. Len(words) : Reached(words, cut, m)'
      PROVE  DecodedSoFar'
  <2> SUFFICES ASSUME NEW words \in Base85Sent, NEW cut \in 0 .. Len(Encoded(words)),
                      b85_text = SubSeq(Encoded(words), 1, cut)
               PROVE  \E m \in 0 .. Len(words) : Reached(words, cut, m)'
    BY <1>3 DEF DecodedSoFar
  <2>1. PICK n \in 0 .. Len(words) : Reached(words, cut, n)
    BY <1>3 DEF DecodedSoFar
  <2> QED
    BY <1>3, <2>1
<1>4. ASSUME b85_pc = "loop", b85_text' = b85_text,
             NEW words \in Base85Sent, NEW cut \in 0 .. Len(Encoded(words)),
             b85_text = SubSeq(Encoded(words), 1, cut),
             NEW n \in 0 .. Len(words), Reached(words, cut, n)
      PROVE  /\ words \in Seq(SentWords)
             /\ Len(words) \in Nat
             /\ cut \in Nat
             /\ CharsLeft = cut - b85_at
             /\ b85_at \in Nat
             /\ b85_at < cut =>
                   /\ n \in 0 .. Len(words) - 1
                   /\ words[n + 1] = Zero => b85_text[b85_at + 1] = Z
                   /\ words[n + 1] # Zero =>
                         /\ b85_text[b85_at + 1] # Z
                         /\ b85_at + 5 <= cut =>
                               \A i \in 1 .. 5 : b85_text[b85_at + i] = Char(words[n + 1], i)
  <2>1. /\ words \in Seq(SentWords)
        /\ Len(words) \in Nat
        /\ Len(Encoded(words)) \in Nat
        /\ Len(b85_text) = cut
    BY <1>4, SentIs
  <2>2. cut \in Nat /\ CharsLeft = cut - b85_at /\ b85_at \in Nat
    BY <1>1, <2>1 DEF CharsLeft
  <2>3. b85_at = Len(EncodedFirst(words, n))
    BY <1>4 DEF Reached
  <2>4. ASSUME b85_at < cut
        PROVE  /\ n < Len(words)
               /\ words[n + 1] = Zero => b85_text[b85_at + 1] = Z
               /\ words[n + 1] # Zero =>
                     /\ b85_text[b85_at + 1] # Z
                     /\ b85_at + 5 <= cut =>
                           \A i \in 1 .. 5 : b85_text[b85_at + i] = Char(words[n + 1], i)
    BY <1>4, <2>1, <2>3, <2>4, NextWordMet
  <2>5. n < Len(words) => n \in 0 .. Len(words) - 1
    BY <2>1
  <2> QED
    BY <2>1, <2>2, <2>4, <2>5
<1>5. CASE DecodeZ
  <2>1. /\ b85_pc = "loop"
        /\ b85_pc' = "loop"
        /\ b85_text' = b85_text
        /\ b85_at' = b85_at + 1
        /\ b85_out' = Append(b85_out, Zero)
        /\ CharsLeft > 0
        /\ b85_text[b85_at + 1] = Z
    BY <1>5 DEF DecodeZ, Put, AtZ
  <2>2. ASSUME NEW words \in Base85Sent, NEW cut \in 0 .. Len(Encoded(words)),
               b85_text = SubSeq(Encoded(words), 1, cut),
               NEW n \in 0 .. Len(words), Reached(words, cut, n)
        PROVE  \E m \in 0 .. Len(words) : Reached(words, cut, m)'
    <3>1. /\ words \in Seq(SentWords)
          /\ cut \in Nat
          /\ b85_at \in Nat
          /\ CharsLeft = cut - b85_at
      BY <1>4, <2>1, <2>2
    <3>2. b85_at < cut
      BY <2>1, <3>1
    <3>3. n \in 0 .. Len(words) - 1 /\ words[n + 1] = Zero
      BY <1>4, <2>1, <2>2, <3>2
    <3>4. b85_out' = Append(b85_out, words[n + 1])
      BY <2>1, <3>3
    <3>5. b85_at' = b85_at + IF words[n + 1] = Zero THEN 1 ELSE 5
      BY <2>1, <3>3
    <3>6. n + 1 \in 0 .. Len(words) /\ Reached(words, cut, n + 1)'
      BY <2>1, <2>2, <3>1, <3>3, <3>4, <3>5, WordReached
    <3> QED
      BY <3>6
  <2> QED
    BY <1>3, <2>1, <2>2
<1>6. CASE DecodeGroup
  <2> DEFINE group == SubSeq(b85_text, b85_at + 1, b85_at + 5)
  <2>1. /\ b85_pc = "loop"
        /\ b85_pc' = "loop"
        /\ b85_text' = b85_text
        /\ b85_at' = b85_at + 5
        /\ b85_out' = Append(b85_out, WordOf(group))
        /\ CharsLeft >= 5
        /\ ~AtZ
    BY <1>6 DEF DecodeGroup, Put
  <2>2. b85_at \in Nat /\ b85_at + 5 <= Len(b85_text)
    BY <1>1, <2>1 DEF CharsLeft
  <2>3. b85_text[b85_at + 1] # Z
    BY <1>1, <2>1, <2>2 DEF AtZ, CharsLeft
  <2>4. \A i \in 1 .. 5 : group[i] = b85_text[b85_at + i]
    <3>1. group = [i \in 1 .. 5 |-> b85_text[b85_at + i]]
      BY <1>1, <2>2
    <3> QED
      BY <3>1
  <2> HIDE DEF group
  <2>5. ASSUME NEW words \in Base85Sent, NEW cut \in 0 .. Len(Encoded(words)),
               b85_text = SubSeq(Encoded(words), 1, cut),
               NEW n \in 0 .. Len(words), Reached(words, cut, n)
        PROVE  \E m \in 0 .. Len(words) : Reached(words, cut, m)'
    <3>1. /\ words \in Seq(SentWords)
          /\ cut \in Nat
          /\ b85_at \in Nat
          /\ CharsLeft = cut - b85_at
      BY <1>4, <2>1, <2>5
    <3>2. b85_at < cut /\ b85_at + 5 <= cut
      BY <2>1, <3>1
    <3>3. /\ n \in 0 .. Len(words) - 1
          /\ words[n + 1] # Zero
          /\ \A i \in 1 .. 5 : b85_text[b85_at + i] = Char(words[n + 1], i)
      BY <1>4, <2>1, <2>3, <2>5, <3>2
    <3>4. WordOf(group) = words[n + 1]
      <4>1. \A i \in 1 .. 5 : group[i] = Char(words[n + 1], i)
        BY <2>4, <3>3
      <4>2. 1 \in 1 .. 5
        OBVIOUS
      <4>3. group[1].word = words[n + 1]
        BY <4>1, <4>2 DEF Char
      <4> QED
        BY <4>1, <4>3 DEF WordOf
    <3>5. b85_out' = Append(b85_out, words[n + 1])
      BY <2>1, <3>4
    <3>6. b85_at' = b85_at + IF words[n + 1] = Zero THEN 1 ELSE 5
      BY <2>1, <3>3
    <3>7. n + 1 \in 0 .. Len(words) /\ Reached(words, cut, n + 1)'
      BY <2>1, <2>5, <3>1, <3>3, <3>5, <3>6, WordReached
    <3> QED
      BY <3>7
  <2> QED
    BY <1>3, <2>1, <2>5
<1>7. CASE Base85Returns
  <2>1. /\ b85_pc = "loop"
        /\ b85_text' = b85_text
        /\ b85_at' = b85_at
        /\ b85_out' = b85_out
        /\ CharsLeft < 5
        /\ ~AtZ
    BY <1>7 DEF Base85Returns
  <2>2. ASSUME NEW words \in Base85Sent, NEW cut \in 0 .. Len(Encoded(words)),
               b85_text = SubSeq(Encoded(words), 1, cut),
               NEW n \in 0 .. Len(words), Reached(words, cut, n)
        PROVE  \E m \in 0 .. Len(words) : Reached(words, cut, m)'
    <3>1. /\ words \in Seq(SentWords)
          /\ Len(words) \in Nat
          /\ cut \in Nat
          /\ b85_at \in Nat
          /\ CharsLeft = cut - b85_at
      BY <1>4, <2>1, <2>2
    <3>2. b85_at = Len(EncodedFirst(words, n)) /\ b85_out = SubSeq(words, 1, n)
      BY <2>2 DEF Reached
    <3>3. ASSUME n < Len(words)
          PROVE  Len(EncodedFirst(words, n + 1)) > cut
      <4>1. n \in 0 .. Len(words) - 1
        BY <3>1, <3>3
      <4>2. Len(EncodedFirst(words, n + 1)) = b85_at + IF words[n + 1] = Zero THEN 1 ELSE 5
        BY <3>1, <3>2, <4>1, NextWordEnds
      <4>3. CASE words[n + 1] = Zero
        <5>1. b85_at < cut => b85_text[b85_at + 1] = Z
          BY <1>4, <2>1, <2>2, <4>3
        <5>2. ~(CharsLeft > 0 /\ b85_text[b85_at + 1] = Z)
          BY <2>1 DEF AtZ
        <5>3. ~(b85_at < cut)
          BY <3>1, <5>1, <5>2
        <5> QED
          BY <3>1, <4>2, <4>3, <5>3
      <4>4. CASE words[n + 1] # Zero
        BY <2>1, <3>1, <4>2, <4>4
      <4> QED
        BY <4>3, <4>4
    <3> QED
      BY <2>1, <3>2, <3>3 DEF Reached
  <2> QED
    BY <1>3, <2>1, <2>2
<1>8. CASE UNCHANGED b85Vars
  BY <1>8 DEF b85Vars, DecodedSoFar, Reached
<1> QED
  BY <1>2, <1>5, <1>6, <1>7, <1>8 DEF Base85Next

(***************************************************************************)
(* la_base85_decode gives back the words a sender encoded: all of those    *)
(* whose characters have arrived, in order, for any sequence of words and  *)
(* wherever their text has been cut.                                       *)
(***************************************************************************)
THEOREM Base85Inverse == Base85Spec => []Base85RoundTrip
<1> DEFINE Inv == Base85Inv /\ DecodedSoFar
<1>1. Base85Init => Inv
  BY DEF Base85Init, Base85Inv, Base85TypeOK, OutputFits, OutPos, DecodedSoFar
<1>2. Inv /\ [Base85Next]_b85Vars => Inv'
  BY Base85Step, DecodedSoFarStep DEF Base85Inv
<1>3. Inv => Base85RoundTrip
  <2> SUFFICES ASSUME Inv, b85_pc = "done", NEW words \in Base85Sent,
                      NEW cut \in 0 .. Len(Encoded(words)),
                      b85_text = SubSeq(Encoded(words), 1, cut)
               PROVE  \E n \in 0 .. Len(words) :
                          /\ b85_out = SubSeq(words, 1, n)
                          /\ Len(EncodedFirst(words, n)) <= cut
                          /\ n < Len(words) => Len(EncodedFirst(words, n + 1)) > cut
    BY DEF Base85RoundTrip, WholeWordsDecoded
  <2>1. PICK n \in 0 .. Len(words) : Reached(words, cut, n)
    BY DEF DecodedSoFar
  <2>2. b85_at <= cut
    <3>1. Len(b85_text) = cut
      BY SentIs
    <3> QED
      BY <3>1 DEF Base85Inv, Base85TypeOK
  <2> QED
    BY <2>1, <2>2 DEF Reached
<1> HIDE DEF Inv
<1> QED
  BY <1>1, <1>2, <1>3, PTL DEF Base85Spec

-----------------------------------------------------------------------------
(***************************************************************************)
(* Inflate.  What inflate has returned goes with where the loop is, and    *)
(* tells how the stream ends, unless there was no buffer and no loop; when *)
(* the loop gives up, the buffer is full at the limit or the stream is     *)
(* truncated.                                                              *)
(***************************************************************************)
Larger == IF inf_chunk > MaxInflatedLen THEN inf_chunk ELSE MaxInflatedLen

InLimit ==
    /\ inf_out_len <= Larger + 1
    /\ inf_pc # "done" => inf_out_len <= Larger

ReturnsTell ==
    /\ inf_total <= inf_len
    /\ inf_pc \in {"idle", "inflate", "loop"} => inf_ret \in {"Z_OK", "Z_BUF_ERROR"}
    /\ inf_ret = "Z_STREAM_END" => inf_end = "complete" /\ inf_total = inf_len
    /\ inf_ret = "Z_DATA_ERROR" => inf_end = "bad"
    /\ (inf_pc = "loop" /\ inf_avail # 0) => inf_end = "truncated"
    /\ ~HasBuffer => inf_pc = "done"

GivenUp ==
    (inf_pc \in {"end", "done"} /\ HasBuffer /\ inf_ret \notin {"Z_STREAM_END", "Z_DATA_ERROR"}) =>
        inf_end = "truncated" \/ inf_len + inf_chunk > MaxInflatedLen

InflateInv ==
    /\ InflateTypeOK
    /\ TerminatorFits
    /\ InLimit
    /\ ReturnsTell
    /\ GivenUp

LEMMA InflateInitInv ==
    ASSUME InflateInit
    PROVE  InflateInv
<1> USE DEF InflateInit
<1>1. InflateTypeOK
    <2>1. inf_input \in BOOLEAN
        OBVIOUS
    <2>2. inf_end \in StreamEnds
        BY DEF StreamEnds
    <2> QED
        BY <2>1, <2>2 DEF InflateTypeOK
<1>2. TerminatorFits /\ InLimit
    BY InflateAssumption DEF HasBuffer, TerminatorFits, InLimit, Larger
<1>3. ReturnsTell /\ GivenUp
    BY DEF HasBuffer, ReturnsTell, GivenUp
<1> QED
    BY <1>1, <1>2, <1>3 DEF InflateInv

LEMMA InflateStep ==
    ASSUME InflateInv, [InflateNext]_inflateVars
    PROVE  InflateInv'
<1>inputs. \A in_len \in InflateInputs : in_len \in Nat /\ in_len > 0
    BY InflateAssumption
<1>contents. Contents \subseteq Nat
    BY InflateAssumption
<1>1. MaxInflatedLen \in Nat
    BY InflateAssumption
<1> USE <1>1 DEF InflateInv, InflateTypeOK, HasBuffer, TerminatorFits, InLimit, Larger, ReturnsTell, GivenUp
<1>2. ASSUME NEW in_len \in InflateInputs, NEW n \in Contents, NEW end \in StreamEnds,
             InflateStart(in_len, n, end)
      PROVE  InflateInv'
    <2>1. in_len \in Nat /\ in_len > 0 /\ n \in Nat
        BY <1>inputs, <1>contents
    <2>2. CASE InitSucceeds(in_len)
        BY <1>2, <2>1, <2>2 DEF InflateStart, InitSucceeds
    <2>3. CASE InitFails
        BY <1>2, <2>1, <2>3 DEF InflateStart, InitFails
    <2> QED
        BY <1>2, <2>2, <2>3 DEF InflateStart
<1>3. CASE ZlibInflate
    <2>1. Yield \in Nat /\ Yield <= inf_avail /\ Yield <= inf_len - inf_total
        BY DEF Yield
    <2>2. /\ inf_total' = inf_total + Yield
          /\ inf_avail' = inf_avail - Yield
          /\ inf_pc = "inflate"
          /\ inf_pc' = IF inf_ret' = "Z_BUF_ERROR" THEN "loop" ELSE "end"
          /\ UNCHANGED <<inf_len, inf_end, inf_chunk, inf_out_len>>
        BY <1>3 DEF ZlibInflate
    <2>3. /\ inf_total' \in Nat /\ inf_total' <= inf_len'
          /\ inf_avail' \in Nat
          /\ inf_total' + inf_avail' = inf_out_len'
        BY <2>1, <2>2
    <2>4. \/ /\ inf_total' = inf_len
             /\ inf_end = "complete"
             /\ inf_ret' = "Z_STREAM_END"
             /\ inf_input' = inf_input
          \/ /\ inf_total' = inf_len
             /\ inf_end = "bad"
             /\ inf_ret' = "Z_DATA_ERROR"
             /\ inf_input' = inf_input
          \/ /\ inf_end = "truncated"
             /\ inf_ret' = "Z_BUF_ERROR"
             /\ inf_input' = FALSE
          \/ /\ inf_avail' = 0
             /\ inf_ret' = "Z_BUF_ERROR"
             /\ inf_input' \in {inf_input, FALSE}
        BY <1>3 DEF ZlibInflate
    <2> QED
        BY <2>2, <2>3, <2>4
<1>4. CASE GrowOutput
    BY <1>4 DEF GrowOutput, LimitReached, FreeAfterGrowth
<1>5. CASE GiveUp
    <2>1. CASE inf_avail = 0 /\ LimitReached
        BY <1>5, <2>1 DEF GiveUp, LimitReached
    <2>2. CASE TruncatedInput
        BY <1>5, <2>2 DEF GiveUp, TruncatedInput
    <2> QED
        BY <1>5, <2>1, <2>2 DEF GiveUp
<1>6. CASE InflateReturns
    BY <1>6 DEF InflateReturns, WithTerminator
<1>7. CASE UNCHANGED inflateVars
    BY <1>7 DEF inflateVars
<1> QED
    BY <1>2, <1>3, <1>4, <1>5, <1>6, <1>7 DEF InflateNext, InflateLoop

LEMMA InflateAlways == InflateSpec => []InflateInv
<1>1. InflateInv /\ [InflateNext]_inflateVars => InflateInv'
    BY InflateStep
<1> QED
    BY <1>1, InflateInitInv, PTL DEF InflateSpec

(***************************************************************************)
(* The buffer that la_inflate returns has room for the terminator, and is  *)
(* no larger than the limit allows.                                        *)
(***************************************************************************)
THEOREM InflateBuffer == InflateSpec => []OutputInBuffer
<1>1. InflateInv => OutputInBuffer
    BY InflateAssumption DEF InflateInv, InLimit, Larger, AllocationBounded, OutputInBuffer
<1> QED
    BY <1>1, InflateAlways, PTL

(***************************************************************************)
(* la_inflate reports success for whole contents, and for all of those     *)
(* that the limit leaves room for.                                         *)
(***************************************************************************)
THEOREM InflateWhole == InflateSpec => []SuccessIsWhole
<1>1. InflateInv => SuccessIsWhole
    BY InflateAssumption
       DEF InflateInv, InflateTypeOK, ReturnsTell, GivenUp, SuccessIsWhole, Success
<1> QED
    BY <1>1, InflateAlways, PTL

-----------------------------------------------------------------------------
(***************************************************************************)
(* la_vstring.  The sums of la_vstring_grow never wrap around, as what is  *)
(* there and what is needed are at most the limit each (NeedIsExact).  Its *)
(* doubling may, where a size_t holds no more than twice the limit.  Then  *)
(* what is needed is more than the limit, so that whatever size the loop   *)
(* should find for it is not allowed: in the inductive invariant, the size *)
(* reached is no smaller than the buffer, or the need exceeds the limit.   *)
(***************************************************************************)
ModulusOK == size_modulus \in SizeModuli

PcOK == pc \in {"idle", "sprintf", "buffer", "print_again", "copy", "aborted"}

AddingOK == adding \in 0 .. SizeMax

NeededOK ==
    /\ space_needed \in 0 .. (SizeMax + 1)
    /\ pc = "sprintf" => space_needed = 1 + adding
    /\ pc = "buffer" => space_needed = adding

NewSizeOK ==
    /\ new_size \in Nat
    /\ pc \in {"sprintf", "buffer"} =>
          allocated_size <= new_size \/ len + space_needed > SizeMax

RoomMade ==
    /\ pc = "print_again" => len + 1 + adding < allocated_size
    /\ pc = "copy" => len + adding < allocated_size

BufferOK ==
    /\ len \in Nat
    /\ allocated_size \in Nat
    /\ InitialSize <= allocated_size
    /\ allocated_size <= SizeMax
    /\ len < allocated_size

WrittenOK ==
    /\ written \in Nat
    /\ written <= allocated_size

IInv ==
    /\ ModulusOK
    /\ PcOK
    /\ AddingOK
    /\ NeededOK
    /\ NewSizeOK
    /\ RoomMade
    /\ BufferOK
    /\ WrittenOK

(***************************************************************************)
(* A size that a size_t can hold is kept as it is.                         *)
(***************************************************************************)
LEMMA SizeIsExact ==
    ASSUME ModulusOK, NEW n \in Nat, n < 2 * (SizeMax + 1)
    PROVE  Size(n) = n
<1>1. size_modulus \in Nat /\ n < size_modulus
  BY SizeAssumption DEF ModulusOK
<1> QED BY <1>1 DEF Size

LEMMA InitHolds == StringInit => IInv
BY SizeAssumption
DEF StringInit, IInv, ModulusOK, PcOK, AddingOK, NeededOK, NewSizeOK, RoomMade, BufferOK, WrittenOK

LEMMA SprintfKeepsIInv ==
    ASSUME IInv, NEW n \in Lengths, AppendSprintf(n)
    PROVE  IInv'
<1>1. n \in Nat /\ n <= SizeMax /\ Size(1 + n) = 1 + n
  BY SizeIsExact, SizeAssumption DEF IInv
<1>2. CASE SprintfFits(n) /\ Write(n) /\ UNCHANGED adding
  BY <1>1, <1>2, SizeAssumption
  DEF IInv, ModulusOK, PcOK, AddingOK, NeededOK, NewSizeOK, RoomMade, BufferOK, WrittenOK,
      SprintfFits, SpaceLeft, Write
<1>3. CASE /\ StartGrowing(n, Size(1 + n), "sprintf")
           /\ written' = allocated_size
  BY <1>1, <1>3, SizeAssumption
  DEF IInv, ModulusOK, PcOK, AddingOK, NeededOK, NewSizeOK, RoomMade, BufferOK, WrittenOK,
      StartGrowing
<1> QED BY <1>2, <1>3 DEF AppendSprintf

LEMMA BufferKeepsIInv ==
    ASSUME IInv, NEW n \in Lengths, AppendBuffer(n)
    PROVE  IInv'
<1>1. n \in Nat /\ n <= SizeMax
  BY SizeAssumption
<1>2. CASE BufferFits(n) /\ Write(n) /\ UNCHANGED adding
  BY <1>1, <1>2, SizeAssumption
  DEF IInv, ModulusOK, PcOK, AddingOK, NeededOK, NewSizeOK, RoomMade, BufferOK, WrittenOK,
      BufferFits, SpaceLeft, Write
<1>3. CASE StartGrowing(n, n, "buffer") /\ UNCHANGED written
  BY <1>1, <1>3, SizeAssumption
  DEF IInv, ModulusOK, PcOK, AddingOK, NeededOK, NewSizeOK, RoomMade, BufferOK, WrittenOK,
      StartGrowing
<1> QED BY <1>2, <1>3 DEF AppendBuffer

(***************************************************************************)
(* The sum la_vstring_grow compares does not wrap.                         *)
(***************************************************************************)
LEMMA NeedIsExact ==
    ASSUME IInv
    PROVE  Size(len + space_needed) = len + space_needed
<1>1. len + space_needed \in Nat /\ len + space_needed < 2 * (SizeMax + 1)
  BY SizeAssumption DEF IInv, NeededOK, BufferOK
<1> QED BY <1>1, SizeIsExact DEF IInv

LEMMA DoubleKeepsIInv ==
    ASSUME IInv, Double
    PROVE  IInv'
<1>1. new_size \in Nat /\ len + space_needed \in Nat /\ new_size <= len + space_needed
  BY NeedIsExact, SizeAssumption
  DEF Double, LargeEnough, IInv, NewSizeOK, NeededOK, BufferOK
<1>2. new_size' \in Nat
  <2>1. size_modulus \in Nat /\ size_modulus > 0
    BY SizeAssumption DEF IInv, ModulusOK
  <2> QED BY <1>1, <2>1 DEF Double, Size
<1>3. new_size <= new_size' \/ len + space_needed > SizeMax
  <2>1. CASE new_size <= SizeMax
    <3>1. Size(2 * new_size) = 2 * new_size
      BY <1>1, <2>1, SizeIsExact, SizeAssumption DEF IInv
    <3> QED BY <1>1, <3>1 DEF Double
  <2>2. CASE new_size > SizeMax
    BY <1>1, <2>2, SizeAssumption
  <2> QED BY <1>1, <2>1, <2>2, SizeAssumption
<1> QED
  BY <1>1, <1>2, <1>3, SizeAssumption
  DEF Double, Growing, IInv, ModulusOK, PcOK, AddingOK, NeededOK, NewSizeOK, RoomMade,
      BufferOK, WrittenOK

LEMMA ReallocKeepsIInv ==
    ASSUME IInv, Realloc
    PROVE  IInv'
<1>1. new_size \in Nat /\ len + space_needed < new_size /\ new_size <= SizeMax
  BY NeedIsExact, SizeAssumption
  DEF Realloc, LargeEnough, SizeAllowed, IInv, NewSizeOK, NeededOK, BufferOK
<1>2. allocated_size <= new_size
  BY <1>1, SizeAssumption DEF Realloc, Growing, IInv, NewSizeOK, NeededOK, BufferOK
<1>3. BufferOK' /\ WrittenOK'
  BY <1>1, <1>2, SizeAssumption DEF Realloc, IInv, BufferOK, WrittenOK
<1>4. RoomMade'
  BY <1>1, SizeAssumption
  DEF Realloc, Growing, IInv, AddingOK, NeededOK, RoomMade, BufferOK
<1>5. ModulusOK' /\ PcOK' /\ AddingOK' /\ NeededOK' /\ NewSizeOK'
  BY <1>1 DEF Realloc, Growing, IInv, ModulusOK, PcOK, AddingOK, NeededOK, NewSizeOK
<1> QED BY <1>3, <1>4, <1>5 DEF IInv

LEMMA WriteKeepsIInv ==
    ASSUME IInv, PrintAgain \/ Copy
    PROVE  IInv'
BY SizeAssumption
DEF PrintAgain, Copy, Write, IInv, ModulusOK, PcOK, AddingOK, NeededOK, NewSizeOK,
    RoomMade, BufferOK, WrittenOK

LEMMA StepKeepsIInv ==
    ASSUME IInv, [StringNext]_stringVars
    PROVE  IInv'
<1>1. CASE \E n \in Lengths : AppendSprintf(n) \/ AppendBuffer(n)
  BY <1>1, SprintfKeepsIInv, BufferKeepsIInv
<1>2. CASE FinishAppend
  <2>1. CASE TooLarge
    BY <2>1
    DEF TooLarge, IInv, ModulusOK, PcOK, AddingOK, NeededOK, NewSizeOK, RoomMade,
        BufferOK, WrittenOK
  <2> QED
    BY <1>2, <2>1, DoubleKeepsIInv, ReallocKeepsIInv, WriteKeepsIInv DEF FinishAppend
<1>3. CASE UNCHANGED stringVars
  BY <1>3
  DEF stringVars, IInv, ModulusOK, PcOK, AddingOK, NeededOK, NewSizeOK, RoomMade, BufferOK, WrittenOK
<1> QED BY <1>1, <1>2, <1>3 DEF StringNext

LEMMA AlwaysIInv == StringSpec => []IInv
<1>1. StringInit => IInv
  BY InitHolds
<1>2. IInv /\ [StringNext]_stringVars => IInv'
  BY StepKeepsIInv
<1> QED BY <1>1, <1>2, PTL DEF StringSpec

(***************************************************************************)
(* The buffer of a la_vstring has room for the text and its NUL, and is    *)
(* never larger than LA_VSTR_SIZE_MAX.                                     *)
(***************************************************************************)
THEOREM StringWithinLimit == StringSpec => []StringTypeOK
<1>1. IInv => StringTypeOK
  <2> SUFFICES ASSUME IInv PROVE StringTypeOK
    OBVIOUS
  <2> QED
    BY SizeAssumption
    DEF IInv, ModulusOK, PcOK, AddingOK, NeededOK, NewSizeOK, BufferOK, WrittenOK, StringTypeOK
<1> QED BY <1>1, AlwaysIInv, PTL

(***************************************************************************)
(* No append writes outside the buffer (vstring.c), whatever the lengths,  *)
(* the limit and the width of size_t; also not where doubling wraps.       *)
(***************************************************************************)
THEOREM WritesInBuffer == StringSpec => []InBuffer
<1>1. IInv => InBuffer
  BY DEF IInv, WrittenOK, InBuffer
<1> QED BY <1>1, AlwaysIInv, PTL

(***************************************************************************)
(* The assertions after the buffer has grown (vstring.c) never fail.       *)
(***************************************************************************)
THEOREM RetrySucceeds == StringSpec => []SecondTimeFits
<1>1. IInv => SecondTimeFits
  <2> SUFFICES ASSUME IInv PROVE SecondTimeFits
    OBVIOUS
  <2>1. Size(1 + adding) = 1 + adding
    BY SizeIsExact, SizeAssumption DEF IInv, AddingOK
  <2>2. pc = "copy" => len + adding <= SizeMax /\ Size(len + adding) = len + adding
    BY SizeIsExact, SizeAssumption DEF IInv, AddingOK, BufferOK, RoomMade
  <2> QED
    BY <2>1, <2>2, SizeAssumption
    DEF IInv, AddingOK, BufferOK, RoomMade, SecondTimeFits, SpaceLeft
<1> QED BY <1>1, AlwaysIInv, PTL

-----------------------------------------------------------------------------

(***************************************************************************)
(* Bit streams, for streams, chunks and words of any size: what is read    *)
(* has been appended, nothing goes outside the buffer, and the stream is a *)
(* queue of bits.                                                          *)
(***************************************************************************)

(***************************************************************************)
(* Bit k of a chunk is a bit of one of its octets.                         *)
(***************************************************************************)
LEMMA BitOfOctet ==
    ASSUME NEW n \in 1 .. 8, NEW m \in Nat, NEW k \in 1 .. n * m
    PROVE  /\ ((k - 1) \div n) + 1 \in 1 .. m
           /\ 9 - n + ((k - 1) % n) \in 1 .. 8
<1>1. CASE n = 1
    BY <1>1, SMT
<1>2. CASE n = 2
    BY <1>2, SMT
<1>3. CASE n = 3
    BY <1>3, SMT
<1>4. CASE n = 4
    BY <1>4, SMT
<1>5. CASE n = 5
    BY <1>5, SMT
<1>6. CASE n = 6
    BY <1>6, SMT
<1>7. CASE n = 7
    BY <1>7, SMT
<1>8. CASE n = 8
    BY <1>8, SMT
<1> QED
    BY <1>1, <1>2, <1>3, <1>4, <1>5, <1>6, <1>7, <1>8

LEMMA ChunkLength ==
    ASSUME NEW n \in 1 .. 8, NEW m \in Nat
    PROVE  n * m \in Nat
OBVIOUS

LEMMA AppendedBitsType ==
    ASSUME NEW v \in Chunks, NEW n \in ChunkWidths
    PROVE  /\ n * Len(v) \in Nat
           /\ AppendedBits(v, n) \in Seq(Bit)
           /\ Len(AppendedBits(v, n)) = n * Len(v)
<1>1. /\ n \in 1 .. 8
      /\ v \in Seq(Octet)
      /\ Len(v) \in Nat
    BY StreamAssumption
<1>2. n * Len(v) \in Nat
    BY <1>1, ChunkLength
<1>3. ASSUME NEW k \in 1 .. n * Len(v)
      PROVE  v[((k - 1) \div n) + 1][9 - n + ((k - 1) % n)] \in Bit
    <2>1. /\ ((k - 1) \div n) + 1 \in 1 .. Len(v)
          /\ 9 - n + ((k - 1) % n) \in 1 .. 8
        BY <1>1, BitOfOctet
    <2>2. v[((k - 1) \div n) + 1] \in Octet
        BY <1>1, <2>1
    <2> QED
        BY <2>1, <2>2 DEF Octet
<1> QED
    BY <1>2, <1>3 DEF AppendedBits

LEMMA Position ==
    ASSUME NEW n \in 1 .. 8, NEW m \in Nat, NEW i \in 1 .. m, NEW j \in 1 .. n
    PROVE  LET k == n * (i - 1) + j
           IN  /\ k \in 1 .. n * m
               /\ ((k - 1) \div n) + 1 = i
               /\ (k - 1) % n = j - 1
<1>1. CASE n = 1
    BY <1>1, SMT
<1>2. CASE n = 2
    BY <1>2, SMT
<1>3. CASE n = 3
    BY <1>3, SMT
<1>4. CASE n = 4
    BY <1>4, SMT
<1>5. CASE n = 5
    BY <1>5, SMT
<1>6. CASE n = 6
    BY <1>6, SMT
<1>7. CASE n = 7
    BY <1>7, SMT
<1>8. CASE n = 8
    BY <1>8, SMT
<1> QED
    BY <1>1, <1>2, <1>3, <1>4, <1>5, <1>6, <1>7, <1>8

(***************************************************************************)
(* What is appended are the low bits of each octet, the highest first.     *)
(***************************************************************************)
LEMMA AppendsLowBits ==
    ASSUME NEW v \in Chunks, NEW n \in ChunkWidths
    PROVE  LowBits(AppendedBits(v, n), v, n)
<1>1. /\ n \in 1 .. 8
      /\ v \in Seq(Octet)
      /\ Len(v) \in Nat
    BY StreamAssumption
<1>2. ASSUME NEW i \in 1 .. Len(v), NEW j \in 1 .. n
      PROVE  AppendedBits(v, n)[n * (i - 1) + j] = v[i][8 - n + j]
    <2> DEFINE k == n * (i - 1) + j
    <2>1. /\ k \in 1 .. n * Len(v)
          /\ ((k - 1) \div n) + 1 = i
          /\ (k - 1) % n = j - 1
        BY <1>1, Position
    <2> HIDE DEF k
    <2>2. AppendedBits(v, n)[k] = v[((k - 1) \div n) + 1][9 - n + ((k - 1) % n)]
        BY <2>1 DEF AppendedBits
    <2>3. 9 - n + (j - 1) = 8 - n + j
        BY <1>1
    <2> QED
        BY <2>1, <2>2, <2>3 DEF k
<1> QED
    BY <1>2, AppendedBitsType DEF LowBits

(***************************************************************************)
(* The tests of the room left are not disturbed by the 32-bit arithmetic.  *)
(***************************************************************************)
LEMMA ChunkFitsExact ==
    ASSUME BitStreamTypeOK, NEW v \in Chunks, NEW n \in ChunkWidths
    PROVE  ChunkFits(v, n) <=> bs_end + n * Len(v) <= bs_len
<1> DEFINE size == n * Len(v)
<1>1. /\ size \in Nat
      /\ bs_len \in Nat
      /\ bs_end \in 0 .. bs_len
      /\ bs_len + size < WordModulus
      /\ WordModulus \in Nat
    BY StreamAssumption, AppendedBitsType DEF BitStreamTypeOK
<1> HIDE DEF size
<1>2. /\ size % WordModulus = size
      /\ (bs_end + size) % WordModulus = bs_end + size
    BY <1>1
<1> QED
    BY <1>2 DEF ChunkFits, Uint32, size

LEMMA WordThereExact ==
    ASSUME BitStreamTypeOK, NEW n \in ReadWidths
    PROVE  WordThere(n) <=> bs_start + n <= bs_end
<1>1. /\ n \in Nat
      /\ bs_len \in Nat
      /\ bs_end \in 0 .. bs_len
      /\ bs_start \in 0 .. bs_end
      /\ bs_len + n < WordModulus
      /\ WordModulus \in Nat
    BY StreamAssumption DEF BitStreamTypeOK
<1>2. (bs_start + n) % WordModulus = bs_start + n
    BY <1>1
<1> QED
    BY <1>2 DEF WordThere, Uint32

-----------------------------------------------------------------------------
LEMMA InitTyped == BitStreamInit => BitStreamTypeOK
BY StreamAssumption DEF BitStreamInit, BitStreamTypeOK, Bit

LEMMA FailedTyped == Failed.ret \in {0, -1} /\ Failed.word \in Seq(Bit)
BY DEF Failed

LEMMA AppendTyped ==
    ASSUME BitStreamTypeOK, NEW v \in Chunks, NEW n \in ChunkWidths, AppendMsbFirst(v, n)
    PROVE  BitStreamTypeOK'
<1> DEFINE bits == AppendedBits(v, n)
<1>1. /\ bits \in Seq(Bit)
      /\ Len(bits) = n * Len(v)
      /\ Len(bits) \in Nat
    BY AppendedBitsType
<1>2. /\ bs_len \in Nat
      /\ bs_end \in 0 .. bs_len
      /\ bs_start \in 0 .. bs_end
    BY StreamAssumption DEF BitStreamTypeOK
<1> HIDE DEF bits
<1>3. CASE ChunkFits(v, n)
    <2>1. bs_end + Len(bits) <= bs_len
        BY <1>1, <1>3, ChunkFitsExact
    <2>2. /\ bs_buf' = [i \in 1 .. bs_len |->
                           IF i > bs_end /\ i <= bs_end + Len(bits)
                           THEN bits[i - bs_end]
                           ELSE bs_buf[i]]
          /\ bs_end' = bs_end + Len(bits)
          /\ bs_answer' = [ret |-> 0, word |-> <<>>]
          /\ UNCHANGED <<bs_len, bs_start>>
        BY <1>3 DEF AppendMsbFirst, bits
    <2>3. bs_buf' \in [1 .. bs_len -> Bit]
        BY <1>1, <1>2, <2>1, <2>2 DEF BitStreamTypeOK
    <2>4. bs_end' \in 0 .. bs_len /\ bs_start \in 0 .. bs_end'
        BY <1>1, <1>2, <2>1, <2>2
    <2> QED
        BY <2>2, <2>3, <2>4 DEF BitStreamTypeOK
<1>4. CASE ~ChunkFits(v, n)
    <2>1. UNCHANGED <<bs_buf, bs_len, bs_start, bs_end>> /\ bs_answer' = Failed
        BY <1>4 DEF AppendMsbFirst
    <2> QED
        BY <2>1, FailedTyped DEF BitStreamTypeOK
<1> QED
    BY <1>3, <1>4

LEMMA ReadTyped ==
    ASSUME BitStreamTypeOK, NEW n \in ReadWidths, ReadWordMsbFirst(n)
    PROVE  BitStreamTypeOK'
<1>1. /\ n \in Nat
      /\ bs_len \in Nat
      /\ bs_end \in 0 .. bs_len
      /\ bs_start \in 0 .. bs_end
    BY StreamAssumption DEF BitStreamTypeOK
<1>2. CASE WordThere(n)
    <2>1. bs_start + n <= bs_end
        BY <1>2, WordThereExact
    <2>2. [i \in 1 .. n |-> bs_buf[bs_start + i]] \in Seq(Bit)
        BY <1>1, <2>1 DEF BitStreamTypeOK
    <2> QED
        BY <1>1, <1>2, <2>1, <2>2 DEF ReadWordMsbFirst, BitStreamTypeOK
<1>3. CASE ~WordThere(n)
    <2>1. UNCHANGED <<bs_buf, bs_len, bs_start, bs_end>> /\ bs_answer' = Failed
        BY <1>3 DEF ReadWordMsbFirst
    <2> QED
        BY <2>1, FailedTyped DEF BitStreamTypeOK
<1> QED
    BY <1>2, <1>3

(***************************************************************************)
(* The positions of la_bitstream stay in order, start <= end <= len, for   *)
(* all streams whose sizes 32 bits can hold: neither call goes outside the *)
(* buffer.                                                                 *)
(***************************************************************************)
THEOREM StreamInBuffer == BitStreamSpec => []BitStreamTypeOK
<1>1. BitStreamTypeOK /\ [BitStreamNext]_bsVars => BitStreamTypeOK'
    <2> SUFFICES ASSUME BitStreamTypeOK, [BitStreamNext]_bsVars PROVE BitStreamTypeOK'
        OBVIOUS
    <2>1. CASE \E v \in Chunks, n \in ChunkWidths : AppendMsbFirst(v, n)
        BY <2>1, AppendTyped
    <2>2. CASE \E n \in ReadWidths : ReadWordMsbFirst(n)
        BY <2>2, ReadTyped
    <2>3. CASE UNCHANGED bsVars
        BY <2>3 DEF bsVars, BitStreamTypeOK
    <2> QED
        BY <2>1, <2>2, <2>3 DEF BitStreamNext
<1> QED
    BY <1>1, InitTyped, PTL DEF BitStreamSpec

-----------------------------------------------------------------------------
LEMMA Concatenated ==
    ASSUME NEW s \in Seq(Bit), NEW t \in Seq(Bit)
    PROVE  s \o t = [i \in 1 .. Len(s) + Len(t) |->
                        IF i <= Len(s) THEN s[i] ELSE t[i - Len(s)]]
<1>1. /\ s \o t \in Seq(Bit)
      /\ Len(s \o t) = Len(s) + Len(t)
      /\ \A i \in 1 .. Len(s) + Len(t) :
            (s \o t)[i] = IF i <= Len(s) THEN s[i] ELSE t[i - Len(s)]
    OBVIOUS
<1>2. s \o t = [i \in 1 .. Len(s \o t) |-> (s \o t)[i]]
    <2> DEFINE u == s \o t
    <2>1. u \in Seq(Bit)
        BY <1>1
    <2> HIDE DEF u
    <2>2. u = [i \in 1 .. Len(u) |-> u[i]]
        BY <2>1
    <2> QED
        BY <2>2 DEF u
<1> QED
    BY <1>1, <1>2

LEMMA AppendIsPut ==
    ASSUME BitStreamTypeOK, NEW v \in Chunks, NEW n \in ChunkWidths, AppendMsbFirst(v, n)
    PROVE  Queue!Put(AppendedBits(v, n))
<1> DEFINE bits == AppendedBits(v, n)
           queue == SubSeq(bs_buf, bs_start + 1, bs_end)
<1>1. /\ bits \in Seq(Bit)
      /\ Len(bits) = n * Len(v)
      /\ Len(bits) \in Nat
    BY AppendedBitsType
<1>2. /\ bs_len \in Nat
      /\ bs_end \in 0 .. bs_len
      /\ bs_start \in 0 .. bs_end
      /\ bs_buf \in [1 .. bs_len -> Bit]
    BY StreamAssumption DEF BitStreamTypeOK
<1>3. CASE ChunkFits(v, n)
    <2>1. bs_end + Len(bits) <= bs_len
        BY <1>1, <1>3, ChunkFitsExact
    <2>2. /\ bs_buf' = [i \in 1 .. bs_len |->
                           IF i > bs_end /\ i <= bs_end + Len(bits)
                           THEN bits[i - bs_end]
                           ELSE bs_buf[i]]
          /\ bs_end' = bs_end + Len(bits)
          /\ bs_answer' = [ret |-> 0, word |-> <<>>]
          /\ UNCHANGED <<bs_len, bs_start>>
        BY <1>3 DEF AppendMsbFirst
    <2>3. SubSeq(bs_buf', bs_start + 1, bs_end') = queue \o bits
        <3> HIDE DEF bits
        <3> DEFINE end == bs_end + Len(bits)
        <3>1. /\ bs_buf' \in [1 .. bs_len -> Bit]
              /\ bs_buf' \in Seq(Bit)
              /\ bs_buf \in Seq(Bit)
            BY <1>1, <1>2, <2>1, <2>2
        <3>2. /\ end \in Nat
              /\ bs_start \in Nat
              /\ bs_end \in Nat
            BY <1>1, <1>2
        <3>3. SubSeq(bs_buf', bs_start + 1, end)
                = [i \in 1 .. end - bs_start |-> bs_buf'[bs_start + i]]
            BY <3>1, <3>2, <1>1, <1>2, <2>1
        <3>4. queue = [i \in 1 .. bs_end - bs_start |-> bs_buf[bs_start + i]]
            BY <3>1, <3>2, <1>2
        <3>5. queue \o bits
                = [i \in 1 .. end - bs_start |->
                      IF i <= bs_end - bs_start THEN bs_buf[bs_start + i]
                      ELSE bits[i - (bs_end - bs_start)]]
            <4>1. queue \in Seq(Bit) /\ Len(queue) = bs_end - bs_start
                BY <3>4, <1>2
            <4>2. \A i \in 1 .. Len(queue) : queue[i] = bs_buf[bs_start + i]
                BY <3>4, <4>1
            <4> HIDE DEF queue
            <4>3. queue \o bits
                    = [i \in 1 .. Len(queue) + Len(bits) |->
                          IF i <= Len(queue) THEN queue[i] ELSE bits[i - Len(queue)]]
                BY <4>1, <1>1, Concatenated
            <4>4. Len(queue) + Len(bits) = end - bs_start
                BY <4>1, <1>1, <1>2
            <4>5. ASSUME NEW i \in 1 .. end - bs_start
                  PROVE  (IF i <= Len(queue) THEN queue[i] ELSE bits[i - Len(queue)])
                           = IF i <= bs_end - bs_start THEN bs_buf[bs_start + i]
                             ELSE bits[i - (bs_end - bs_start)]
                BY <4>1, <4>2, <1>1, <1>2
            <4> HIDE DEF end
            <4> QED
                BY <4>3, <4>4, <4>5
        <3>6. ASSUME NEW i \in 1 .. end - bs_start
              PROVE  bs_buf'[bs_start + i]
                       = IF i <= bs_end - bs_start THEN bs_buf[bs_start + i]
                         ELSE bits[i - (bs_end - bs_start)]
            BY <1>1, <1>2, <2>1, <2>2, SMTT(30)
        <3>7. bs_end' = end
            BY <2>2
        <3> HIDE DEF end, queue
        <3>8. SubSeq(bs_buf', bs_start + 1, end) = queue \o bits
            BY <3>3, <3>5, <3>6
        <3> QED
            BY <3>7, <3>8
    <2>4. Len(bits) <= bs_len - bs_end
        BY <1>1, <1>2, <2>1
    <2>5. bs_len' - bs_end' = (bs_len - bs_end) - Len(bits)
        BY <1>1, <1>2, <2>2
    <2> QED
        BY <2>2, <2>3, <2>4, <2>5 DEF Queue!Put
<1>4. CASE ~ChunkFits(v, n)
    <2>1. Len(bits) > bs_len - bs_end
        BY <1>1, <1>2, <1>4, ChunkFitsExact
    <2> QED
        BY <1>4, <2>1 DEF AppendMsbFirst, Failed, Queue!Put
<1> QED
    BY <1>3, <1>4

LEMMA ReadIsTake ==
    ASSUME BitStreamTypeOK, NEW n \in ReadWidths, ReadWordMsbFirst(n)
    PROVE  Queue!Take(n)
<1> DEFINE queue == SubSeq(bs_buf, bs_start + 1, bs_end)
<1>1. /\ n \in Nat
      /\ bs_len \in Nat
      /\ bs_end \in 0 .. bs_len
      /\ bs_start \in 0 .. bs_end
      /\ bs_buf \in Seq(Bit)
      /\ Len(bs_buf) = bs_len
    BY StreamAssumption DEF BitStreamTypeOK
<1>2. /\ queue = [i \in 1 .. bs_end - bs_start |-> bs_buf[bs_start + i]]
      /\ queue \in Seq(Bit)
      /\ Len(queue) = bs_end - bs_start
    BY <1>1
<1>3. CASE WordThere(n)
    <2>1. bs_start + n <= bs_end
        BY <1>3, WordThereExact
    <2>2. n <= Len(queue)
        BY <1>1, <1>2, <2>1
    <2>3. SubSeq(queue, 1, n) = [i \in 1 .. n |-> bs_buf[bs_start + i]]
        <3> HIDE DEF queue
        <3> QED
            BY <1>1, <1>2, <2>2
    <2>4. SubSeq(bs_buf, (bs_start + n) + 1, bs_end) = SubSeq(queue, n + 1, Len(queue))
        <3>1. SubSeq(bs_buf, (bs_start + n) + 1, bs_end)
                = [i \in 1 .. bs_end - (bs_start + n) |-> bs_buf[(bs_start + n) + i]]
            BY <1>1, <2>1
        <3> HIDE DEF queue
        <3>2. SubSeq(queue, n + 1, Len(queue))
                = [i \in 1 .. bs_end - (bs_start + n) |-> queue[n + i]]
            BY <1>1, <1>2, <2>1
        <3>3. ASSUME NEW i \in 1 .. bs_end - (bs_start + n)
              PROVE  queue[n + i] = bs_buf[(bs_start + n) + i]
            <4>1. n + i \in 1 .. bs_end - bs_start
                BY <1>1, <2>1
            <4>2. bs_start + (n + i) = (bs_start + n) + i
                BY <1>1
            <4> QED
                BY <1>2, <4>1, <4>2
        <3> QED
            BY <3>1, <3>2, <3>3
    <2> QED
        BY <1>3, <2>2, <2>3, <2>4 DEF ReadWordMsbFirst, Queue!Take
<1>4. CASE ~WordThere(n)
    <2>1. n > Len(queue)
        BY <1>1, <1>2, <1>4, WordThereExact
    <2> QED
        BY <1>4, <2>1 DEF ReadWordMsbFirst, Failed, Queue!Take
<1> QED
    BY <1>3, <1>4

(***************************************************************************)
(* The stream is a queue of bits, in whatever portions bits are appended   *)
(* and read: see IsBitQueue.                                               *)
(***************************************************************************)
THEOREM ImplementsQueue == BitStreamSpec => IsBitQueue
<1>1. BitStreamInit => Queue!Init
    BY StreamAssumption DEF BitStreamInit, Queue!Init
<1>2. BitStreamTypeOK /\ [BitStreamNext]_bsVars => [Queue!Next]_(Queue!vars)
    <2> SUFFICES ASSUME BitStreamTypeOK, [BitStreamNext]_bsVars
                 PROVE  [Queue!Next]_(Queue!vars)
        OBVIOUS
    <2>1. ASSUME NEW v \in Chunks, NEW n \in ChunkWidths, AppendMsbFirst(v, n)
          PROVE  Queue!Next
        BY <2>1, AppendIsPut, AppendsLowBits DEF Queue!Next
    <2>2. ASSUME NEW n \in ReadWidths, ReadWordMsbFirst(n)
          PROVE  Queue!Next
        BY <2>2, ReadIsTake DEF Queue!Next
    <2>3. CASE UNCHANGED bsVars
        BY <2>3 DEF bsVars, Queue!vars
    <2> QED
        BY <2>1, <2>2, <2>3 DEF BitStreamNext
<1> QED
    BY <1>1, <1>2, StreamInBuffer, PTL DEF BitStreamSpec, IsBitQueue, Queue!Spec
-----------------------------------------------------------------------------
(***************************************************************************)
(* The automaton reads a text token by token: its runs exist, are unique,  *)
(* and the run over a longer text continues the run over a shorter one.    *)
(***************************************************************************)
Start == Reader(<<>>, "start")

\* run is what the automaton has made of the first n tokens, and all before.
IsRun(run, text, n) ==
    run = [i \in 0 .. n |-> IF i = 0 THEN Start ELSE Reads(run[i - 1], text[i])]

Run(text) == CHOOSE run : IsRun(run, text, Len(text))

LEMMA ReadIsLastOfRun ==
    ASSUME NEW text
    PROVE  ReadText(text) = Run(text)[Len(text)]
BY DEF ReadText, Run, IsRun, Start

\* What it is to be a run, step by step.
LEMMA RunSteps ==
    ASSUME NEW run, NEW text, NEW n \in Nat, IsRun(run, text, n)
    PROVE  /\ run[0] = Start
           /\ \A i \in 1 .. n : run[i] = Reads(run[i - 1], text[i])
<1>1. \A i \in 0 .. n : run[i] = IF i = 0 THEN Start ELSE Reads(run[i - 1], text[i])
  BY DEF IsRun
<1>2. 0 \in 0 .. n
  OBVIOUS
<1>3. \A i \in 1 .. n : i \in 0 .. n /\ i # 0
  OBVIOUS
<1> QED
  BY <1>1, <1>2, <1>3

\* A run over n tokens is continued by one more.
LEMMA RunContinues ==
    ASSUME NEW text, NEW n \in Nat, NEW r, IsRun(r, text, n)
    PROVE  \E run : IsRun(run, text, n + 1)
<1> DEFINE run == [i \in 0 .. n + 1 |-> IF i <= n THEN r[i] ELSE Reads(r[n], text[n + 1])]
<1>1. r[0] = Start /\ \A i \in 1 .. n : r[i] = Reads(r[i - 1], text[i])
  BY RunSteps
<1>2. ASSUME NEW i \in 0 .. n + 1
      PROVE  run[i] = IF i = 0 THEN Start ELSE Reads(run[i - 1], text[i])
  <2>1. CASE i = 0
    <3>1. run[0] = r[0]
      OBVIOUS
    <3> QED
      BY <1>1, <2>1, <3>1
  <2>2. CASE i \in 1 .. n
    <3>1. run[i] = r[i] /\ run[i - 1] = r[i - 1]
      BY <2>2
    <3>2. i # 0
      BY <2>2
    <3> HIDE DEF run
    <3> QED
      BY <1>1, <2>2, <3>1, <3>2
  <2>3. CASE i = n + 1
    <3>1. run[n + 1] = Reads(r[n], text[n + 1]) /\ run[n] = r[n]
      OBVIOUS
    <3>2. i # 0 /\ i - 1 = n
      BY <2>3
    <3> HIDE DEF run
    <3> QED
      BY <2>3, <3>1, <3>2
  <2> QED
    BY <2>1, <2>2, <2>3
<1>3. run = [i \in 0 .. n + 1 |-> run[i]]
  OBVIOUS
<1> HIDE DEF run
<1>4. run = [i \in 0 .. n + 1 |-> IF i = 0 THEN Start ELSE Reads(run[i - 1], text[i])]
  BY <1>2, <1>3
<1> QED
  BY <1>4 DEF IsRun

LEMMA RunExists ==
    ASSUME NEW text, NEW n \in Nat
    PROVE  \E run : IsRun(run, text, n)
<1> DEFINE S == {j \in Nat : ~ \E run : IsRun(run, text, j)}
<1>1. ASSUME S # {}  PROVE FALSE
  <2>1. PICK j \in S : \A l \in S : j <= l
    BY <1>1, LeastNatural
  <2>2. CASE j = 0
    <3> DEFINE run == [i \in 0 .. 0 |-> Start]
    <3>1. \A i \in 0 .. 0 : i = 0
      OBVIOUS
    <3>2. run = [i \in 0 .. 0 |-> IF i = 0 THEN Start ELSE Reads(run[i - 1], text[i])]
      BY <3>1
    <3> QED
      BY <2>1, <2>2, <3>2 DEF IsRun
  <2>3. CASE j # 0
    <3>1. j - 1 \in Nat /\ ~(j <= j - 1) /\ j - 1 + 1 = j
      BY <2>3
    <3>2. j - 1 \notin S
      BY <2>1, <3>1
    <3>3. PICK r : IsRun(r, text, j - 1)
      BY <3>1, <3>2
    <3> QED
      BY <2>1, <3>1, <3>3, RunContinues
  <2> QED
    BY <2>2, <2>3
<1> QED
  BY <1>1

\* Runs over texts with the same beginning agree on it.
LEMMA RunsAgree ==
    ASSUME NEW n \in Nat, NEW m \in Nat, NEW k \in Nat, k <= n, k <= m,
           NEW s, NEW t, \A i \in 1 .. k : s[i] = t[i],
           NEW r, IsRun(r, s, n), NEW u, IsRun(u, t, m)
    PROVE  r[k] = u[k]
<1> DEFINE S == {j \in 0 .. k : r[j] # u[j]}
<1>1. /\ r[0] = Start /\ \A i \in 1 .. n : r[i] = Reads(r[i - 1], s[i])
      /\ u[0] = Start /\ \A i \in 1 .. m : u[i] = Reads(u[i - 1], t[i])
  BY RunSteps
<1>2. ASSUME S # {}  PROVE FALSE
  <2>1. S \in SUBSET Nat
    OBVIOUS
  <2>2. PICK j \in S : \A l \in S : j <= l
    BY <1>2, <2>1, LeastNatural
  <2>3. j \in 0 .. k /\ j # 0
    BY <1>1, <2>2
  <2>4. j - 1 \in 0 .. k /\ j \in 1 .. k /\ j \in 1 .. n /\ j \in 1 .. m /\ ~(j <= j - 1)
    BY <2>3
  <2>5. r[j - 1] = u[j - 1]
    BY <2>2, <2>4
  <2>6. r[j] = u[j]
    BY <1>1, <2>4, <2>5
  <2> QED
    BY <2>2, <2>6
<1> QED
  BY <1>2

\* The run over a text is one.
LEMMA RunIsRun ==
    ASSUME NEW text, Len(text) \in Nat
    PROVE  IsRun(Run(text), text, Len(text))
BY RunExists DEF Run

\* Nothing has been read at first.
LEMMA ReadEmpty == ReadText(<<>>) = Start
<1>1. Len(<<>>) = 0
  OBVIOUS
<1>2. IsRun(Run(<<>>), <<>>, 0)
  BY <1>1, RunIsRun
<1> QED
  BY <1>1, <1>2, ReadIsLastOfRun, RunSteps

\* The last token is read after the others.
LEMMA ReadAppend ==
    ASSUME NEW text \in Seq(Token), NEW token \in Token
    PROVE  ReadText(Append(text, token)) = Reads(ReadText(text), token)
<1> DEFINE n    == Len(text)
           more == Append(text, token)
<1>1. n \in Nat /\ Len(more) = n + 1 /\ more[n + 1] = token
  BY LenProperties, AppendProperties
<1>2. \A i \in 1 .. n : text[i] = more[i]
  BY AppendProperties
<1> HIDE DEF more
<1>3. IsRun(Run(text), text, n)
  BY <1>1, RunIsRun
<1>4. IsRun(Run(more), more, n + 1)
  <2>1. Len(more) \in Nat
    BY <1>1
  <2>2. IsRun(Run(more), more, Len(more))
    BY <2>1, RunIsRun
  <2> QED
    BY <1>1, <2>2
<1> HIDE DEF n
<1>5. Run(text)[n] = Run(more)[n]
  BY <1>1, <1>2, <1>3, <1>4, RunsAgree
<1>6. Run(more)[n + 1] = Reads(Run(more)[n], token)
  <2>1. n + 1 \in Nat /\ n + 1 \in 1 .. n + 1 /\ n + 1 - 1 = n
    BY <1>1
  <2> QED
    BY <1>1, <1>4, <2>1, RunSteps
<1> QED
  BY <1>1, <1>5, <1>6, ReadIsLastOfRun DEF n, more

-----------------------------------------------------------------------------
(***************************************************************************)
(* What each function of json.c does to a text of which the reader is      *)
(* between two items of a container.                                       *)
(***************************************************************************)
Between(text, nest) ==
    /\ text \in Seq(Token)
    /\ text # <<>>
    /\ nest \in Seq(Container)
    /\ nest # <<>>
    /\ ReadText(text) = Reader(nest, IF Last(text) = "," THEN "item" ELSE "first")

\* Front takes back what Append has added.
LEMMA FrontOfAppend ==
    ASSUME NEW S, NEW s \in Seq(S), NEW e \in S
    PROVE  /\ Front(Append(s, e)) = s
           /\ Last(Append(s, e)) = e
<1> DEFINE more == Append(s, e)
           n    == Len(s)
<1>1. n \in Nat /\ more \in Seq(S) /\ Len(more) = n + 1 /\ more[n + 1] = e
  BY LenProperties, AppendProperties
<1>2. \A i \in 1 .. n : more[i] = s[i]
  BY AppendProperties
<1>3. Last(more) = e
  BY <1>1 DEF Last
<1>4. Front(more) = SubSeq(more, 1, n)
  BY <1>1 DEF Front
<1>5. \A i \in 1 .. n : more[i] \in S
  BY <1>2, ElementOfSeq
<1> HIDE DEF more
<1>6. /\ SubSeq(more, 1, n) \in Seq(S)
      /\ Len(SubSeq(more, 1, n)) = IF 1 <= n THEN n - 1 + 1 ELSE 0
      /\ \A i \in 1 .. n - 1 + 1 : SubSeq(more, 1, n)[i] = more[1 + i - 1]
  BY <1>1, <1>5, SubSeqProperties
<1>7. Len(Front(more)) = n /\ \A i \in 1 .. n : Front(more)[i] = s[i]
  BY <1>1, <1>2, <1>4, <1>6
<1>8. Front(more) = s
  BY <1>4, <1>6, <1>7, SeqEqual
<1> QED
  BY <1>3, <1>8 DEF more

LEMMA FrontAndLast ==
    ASSUME NEW S, NEW s \in Seq(S), s # <<>>
    PROVE  /\ Front(s) \in Seq(S)
           /\ Last(s) \in S
           /\ s = Append(Front(s), Last(s))
<1>1. PICK u \in Seq(S), e \in S : s = Append(u, e)
  BY SequenceEmptyOrAppend
<1> QED
  BY <1>1, FrontOfAppend

\* A token appended to a text, and what is made of it.
LEMMA TokenAppended ==
    ASSUME NEW text \in Seq(Token), NEW token \in Token
    PROVE  /\ Append(text, token) \in Seq(Token)
           /\ Append(text, token) # <<>>
           /\ Last(Append(text, token)) = token
           /\ ReadText(Append(text, token)) = Reads(ReadText(text), token)
BY AppendProperties, FrontOfAppend, ReadAppend

\* Two tokens appended at once.
LEMMA PairAppended ==
    ASSUME NEW text \in Seq(Token), NEW a \in Token, NEW b \in Token
    PROVE  text \o <<a, b>> = Append(Append(text, a), b)
<1> DEFINE s == text \o <<a, b>>
           t == Append(Append(text, a), b)
           n == Len(text)
<1>1. n \in Nat
  BY LenProperties
<1>2. <<a, b>> \in Seq(Token) /\ Len(<<a, b>>) = 2
  OBVIOUS
<1>3. s \in Seq(Token) /\ Len(s) = n + 2
  BY <1>2, ConcatProperties
<1>4. \A i \in 1 .. n + 2 : s[i] = IF i <= n THEN text[i] ELSE <<a, b>>[i - n]
  BY <1>2, ConcatProperties
<1>5. /\ Append(text, a) \in Seq(Token)
      /\ Len(Append(text, a)) = n + 1
      /\ Append(text, a)[n + 1] = a
      /\ \A i \in 1 .. n : Append(text, a)[i] = text[i]
  BY AppendProperties
<1>6. /\ t \in Seq(Token)
      /\ Len(t) = n + 1 + 1
      /\ t[n + 1 + 1] = b
      /\ \A i \in 1 .. n + 1 : t[i] = Append(text, a)[i]
  BY <1>5, AppendProperties
<1>7. ASSUME NEW i \in 1 .. n + 2  PROVE s[i] = t[i]
  <2>1. CASE i \in 1 .. n
    BY <1>1, <1>4, <1>5, <1>6, <2>1
  <2>2. CASE i = n + 1
    <3>1. s[i] = <<a, b>>[1]
      BY <1>1, <1>4, <2>2
    <3>2. t[i] = a
      BY <1>1, <1>5, <1>6, <2>2
    <3> QED
      BY <3>1, <3>2
  <2>3. CASE i = n + 2
    <3>1. s[i] = <<a, b>>[2]
      BY <1>1, <1>4, <2>3
    <3>2. t[i] = b
      BY <1>1, <1>6, <2>3
    <3> QED
      BY <3>1, <3>2
  <2> QED
    BY <1>1, <2>1, <2>2, <2>3
<1> QED
  BY <1>1, <1>3, <1>6, <1>7, SeqEqual

\* A reader's fields.
LEMMA ReaderFields ==
    ASSUME NEW nest, NEW may
    PROVE  Reader(nest, may).nest = nest /\ Reader(nest, may).may = may
BY DEF Reader

\* Where a reader between two items is.
LEMMA BetweenReads ==
    ASSUME NEW text, NEW nest, Between(text, nest)
    PROVE  /\ ReadText(text).nest = nest
           /\ ReadText(text).may = IF Last(text) = "," THEN "item" ELSE "first"
<1> DEFINE may == IF Last(text) = "," THEN "item" ELSE "first"
<1>1. ReadText(text) = Reader(nest, may)
  BY DEF Between
<1>2. Reader(nest, may).nest = nest /\ Reader(nest, may).may = may
  BY ReaderFields
<1> QED
  BY <1>1, <1>2

\* Without its last comma a text can be followed by an end.
LEMMA Trimmed ==
    ASSUME NEW text, NEW nest, Between(text, nest)
    PROVE  /\ TrimComma(text) \in Seq(Token)
           /\ ReadText(TrimComma(text)).nest = nest
           /\ ReadText(TrimComma(text)).may \in {"first", "more"}
<1>1. CASE Last(text) # ","
  BY <1>1, BetweenReads DEF Between, TrimComma
<1>2. CASE Last(text) = ","
  <2>1. /\ Front(text) \in Seq(Token)
        /\ text = Append(Front(text), ",")
    BY <1>2, FrontAndLast DEF Between
  <2>2. TrimComma(text) = Front(text)
    BY <1>2 DEF TrimComma, Between
  <2>3. ReadText(text) = Reads(ReadText(Front(text)), ",")
    BY <2>1, ReadAppend DEF Token
  <2>4. ReadText(text) = Reader(nest, "item")
    BY <1>2 DEF Between
  <2>5. Reads(ReadText(Front(text)), ",")
          = IF ReadText(Front(text)).may = "more"
            THEN Reader(ReadText(Front(text)).nest, "item")
            ELSE Reader(ReadText(Front(text)).nest, "bad")
    BY DEF Reads
  <2>6. ReadText(Front(text)).may = "more" /\ ReadText(Front(text)).nest = nest
    <3>1. ReadText(text).may = "item" /\ ReadText(text).nest = nest
      BY <2>4, ReaderFields
    <3>2. CASE ReadText(Front(text)).may = "more"
      <4>1. ReadText(text) = Reader(ReadText(Front(text)).nest, "item")
        BY <2>3, <2>5, <3>2
      <4> QED
        BY <3>1, <3>2, <4>1, ReaderFields
    <3>3. CASE ReadText(Front(text)).may # "more"
      <4>1. ReadText(text) = Reader(ReadText(Front(text)).nest, "bad")
        BY <2>3, <2>5, <3>3
      <4> QED
        BY <3>1, <4>1, ReaderFields
    <3> QED
      BY <3>2, <3>3
  <2> QED
    BY <2>1, <2>2, <2>6
<1> QED
  BY <1>1, <1>2

\* What has been printed of an item before its value: its key, if it has one.
LEMMA KeyPrinted ==
    ASSUME NEW text, NEW nest, Between(text, nest),
           NEW key \in BOOLEAN, key <=> Last(nest) = "object"
    PROVE  /\ PrintKey(text, key) \in Seq(Token)
           /\ ReadText(PrintKey(text, key)).nest = nest
           /\ ValueMayFollow(ReadText(PrintKey(text, key)))
<1>1. Last(nest) \in Container
  BY FrontAndLast DEF Between
<1>2. /\ ReadText(text).nest = nest
      /\ ReadText(text).may \in {"first", "item"}
      /\ In(ReadText(text)) = Last(nest)
  BY BetweenReads DEF Between, In
<1>3. CASE key
  <2>1. "key" \in Token
    BY DEF Token
  <2>2. /\ Append(text, "key") \in Seq(Token)
        /\ ReadText(Append(text, "key")) = Reads(ReadText(text), "key")
    BY <2>1, TokenAppended DEF Between
  <2>3. Reads(ReadText(text), "key") = Reader(nest, "value")
    BY <1>2, <1>3 DEF Reads
  <2> QED
    BY <1>3, <2>2, <2>3, ReaderFields DEF PrintKey, ValueMayFollow
<1>4. CASE ~key
  <2>1. Last(nest) = "array"
    BY <1>1, <1>4 DEF Container
  <2> QED
    BY <1>2, <1>4, <2>1 DEF PrintKey, ValueMayFollow, Between
<1> QED
  BY <1>3, <1>4

\* After a value and its comma the reader is in the same container.
LEMMA ValueKeeps ==
    ASSUME NEW text, NEW nest, Between(text, nest),
           NEW key \in BOOLEAN, key <=> Last(nest) = "object"
    PROVE  Between(AppendValue(text, key), nest)
<1> DEFINE t == PrintKey(text, key)
           v == Append(t, "value")
<1>1. t \in Seq(Token) /\ ReadText(t).nest = nest /\ ValueMayFollow(ReadText(t))
  BY KeyPrinted
<1> HIDE DEF t
<1>2. "value" \in Token /\ "," \in Token
  BY DEF Token
<1>3. nest \in Seq(Container) /\ nest # <<>>
  BY DEF Between
<1>4. v \in Seq(Token) /\ ReadText(v) = Reads(ReadText(t), "value")
  BY <1>1, <1>2, TokenAppended
<1>5. Reads(ReadText(t), "value") = Reader(nest, "more")
  BY <1>1, <1>3 DEF Reads
<1> HIDE DEF v
<1>6. /\ Append(v, ",") \in Seq(Token)
      /\ Append(v, ",") # <<>>
      /\ Last(Append(v, ",")) = ","
      /\ ReadText(Append(v, ",")) = Reads(ReadText(v), ",")
  BY <1>2, <1>4, TokenAppended
<1>7. ReadText(v).nest = nest /\ ReadText(v).may = "more"
  BY <1>4, <1>5, ReaderFields
<1>8. Reads(ReadText(v), ",") = Reader(nest, "item")
  BY <1>7 DEF Reads
<1>9. AppendValue(text, key) = Append(v, ",")
  BY <1>1, <1>2, PairAppended DEF AppendValue, v, t
<1> QED
  BY <1>3, <1>6, <1>8, <1>9 DEF Between

\* After the start of an object, or of an array, it is in that.
LEMMA StartOpens ==
    ASSUME NEW text, NEW nest, Between(text, nest),
           NEW key \in BOOLEAN, key <=> Last(nest) = "object"
    PROVE  /\ Between(ObjectStart(text, key), Append(nest, "object"))
           /\ Between(ArrayStart(text, key), Append(nest, "array"))
<1> DEFINE t == PrintKey(text, key)
<1>1. t \in Seq(Token) /\ ReadText(t).nest = nest /\ ValueMayFollow(ReadText(t))
  BY KeyPrinted
<1> HIDE DEF t
<1>2. "{" \in Token /\ "[" \in Token /\ "object" \in Container /\ "array" \in Container
  BY DEF Token, Container
<1>3. \A c \in Container : Append(nest, c) \in Seq(Container) /\ Append(nest, c) # <<>>
  <2>1. nest \in Seq(Container)
    BY DEF Between
  <2> QED
    BY <2>1, AppendProperties, SMTT(30)
<1>4. Reads(ReadText(t), "{") = Reader(Append(nest, "object"), "first")
  BY <1>1 DEF Reads
<1>5. Reads(ReadText(t), "[") = Reader(Append(nest, "array"), "first")
  BY <1>1 DEF Reads
<1>6. Between(Append(t, "{"), Append(nest, "object"))
  <2>1. /\ Append(t, "{") \in Seq(Token)
        /\ Append(t, "{") # <<>>
        /\ Last(Append(t, "{")) = "{"
        /\ ReadText(Append(t, "{")) = Reads(ReadText(t), "{")
    BY <1>1, <1>2, TokenAppended
  <2> QED
    BY <1>2, <1>3, <1>4, <2>1 DEF Between
<1>7. Between(Append(t, "["), Append(nest, "array"))
  <2>1. /\ Append(t, "[") \in Seq(Token)
        /\ Append(t, "[") # <<>>
        /\ Last(Append(t, "[")) = "["
        /\ ReadText(Append(t, "[")) = Reads(ReadText(t), "[")
    BY <1>1, <1>2, TokenAppended
  <2> QED
    BY <1>2, <1>3, <1>5, <2>1 DEF Between
<1> QED
  BY <1>6, <1>7 DEF ObjectStart, ArrayStart, t

\* The end of the innermost container is read as what it is.
LEMMA EndRead ==
    ASSUME NEW text, NEW nest, Between(text, nest),
           NEW token \in {"}", "]"},
           Last(nest) = IF token = "}" THEN "object" ELSE "array"
    PROVE  /\ Append(TrimComma(text), token) \in Seq(Token)
           /\ ReadText(Append(TrimComma(text), token))
                = Reader(Front(nest), IF Front(nest) = <<>> THEN "end" ELSE "more")
<1> DEFINE t == TrimComma(text)
<1>1. /\ t \in Seq(Token)
      /\ ReadText(t).nest = nest
      /\ ReadText(t).may \in {"first", "more"}
  BY Trimmed
<1> HIDE DEF t
<1>2. token \in Token
  BY DEF Token
<1>3. /\ Append(t, token) \in Seq(Token)
      /\ ReadText(Append(t, token)) = Reads(ReadText(t), token)
  BY <1>1, <1>2, TokenAppended
<1>4. In(ReadText(t)) = Last(nest)
  BY <1>1 DEF In, Between
<1>5. Reads(ReadText(t), token)
        = Reader(Front(nest), IF Front(nest) = <<>> THEN "end" ELSE "more")
  BY <1>1, <1>4 DEF Reads
<1> QED
  BY <1>3, <1>5 DEF t

\* After it and its comma the reader is in the container around it.
LEMMA EndCloses ==
    ASSUME NEW text, NEW nest, Between(text, nest), Front(nest) # <<>>
    PROVE  /\ Last(nest) = "object" => Between(ObjectEnd(text), Front(nest))
           /\ Last(nest) = "array" => Between(ArrayEnd(text), Front(nest))
<1>1. Front(nest) \in Seq(Container)
  BY FrontAndLast DEF Between
<1>2. ASSUME NEW token \in {"}", "]"},
             Last(nest) = IF token = "}" THEN "object" ELSE "array"
      PROVE  Between(TrimComma(text) \o <<token, ",">>, Front(nest))
  <2> DEFINE t == TrimComma(text)
             e == Append(t, token)
  <2>1. t \in Seq(Token)
    BY Trimmed
  <2> HIDE DEF t
  <2>2. e \in Seq(Token) /\ ReadText(e) = Reader(Front(nest), "more")
    BY <1>2, EndRead DEF t
  <2> HIDE DEF e
  <2>3. token \in Token /\ "," \in Token
    BY DEF Token
  <2>4. /\ Append(e, ",") \in Seq(Token)
        /\ Append(e, ",") # <<>>
        /\ Last(Append(e, ",")) = ","
        /\ ReadText(Append(e, ",")) = Reads(ReadText(e), ",")
    BY <2>2, <2>3, TokenAppended
  <2>5. ReadText(e).nest = Front(nest) /\ ReadText(e).may = "more"
    <3>1. /\ Reader(Front(nest), "more").nest = Front(nest)
          /\ Reader(Front(nest), "more").may = "more"
      BY ReaderFields
    <3> QED
      BY <2>2, <3>1
  <2>6. Reads(ReadText(e), ",") = Reader(Front(nest), "item")
    BY <2>5 DEF Reads
  <2>7. t \o <<token, ",">> = Append(e, ",")
    BY <2>1, <2>3, PairAppended DEF e
  <2> QED
    BY <1>1, <2>4, <2>6, <2>7 DEF Between, t
<1> QED
  BY <1>2 DEF ObjectEnd, ArrayEnd

\* The values of an octet string, one by one.
LEMMA OctetsStep ==
    ASSUME NEW text \in Seq(Token), NEW n \in Nat \ {0}
    PROVE  /\ text \o Octets(0) = text
           /\ text \o Octets(n) \in Seq(Token)
           /\ text \o Octets(n) = AppendValue(text \o Octets(n - 1), FALSE)
<1> DEFINE v == "value"
           c == ","
<1>1. v \in Token /\ c \in Token
  BY DEF Token
<1>7. <<v, c>> \in Seq(Token) /\ Len(<<v, c>>) = 2 /\ <<v, c>>[1] = v /\ <<v, c>>[2] = c
  <2> HIDE DEF v, c
  <2> QED
    BY <1>1
<1>2. ASSUME NEW m \in Nat
      PROVE  /\ Octets(m) \in Seq(Token)
             /\ Len(Octets(m)) = 2 * m
             /\ \A i \in 1 .. 2 * m : Octets(m)[i] = IF i % 2 = 1 THEN v ELSE c
  <2> DEFINE k == 2 * m
             octet(i) == IF i % 2 = 1 THEN v ELSE c
  <2>1. k \in Nat
    OBVIOUS
  <2>2. Octets(m) = [i \in 1 .. k |-> octet(i)]
    BY DEF Octets
  <2>3. \A i \in 1 .. k : octet(i) \in Token
    BY <1>1
  <2> HIDE DEF k, octet
  <2>4. Octets(m) \in Seq(Token) /\ Len(Octets(m)) = k
    BY <2>1, <2>2, <2>3
  <2>5. \A i \in 1 .. k : Octets(m)[i] = octet(i)
    BY <2>2
  <2> QED
    BY <2>4, <2>5 DEF k, octet
<1> HIDE DEF v, c
<1>3. text \o Octets(0) = text
  <2>1. Octets(0) = <<>>
    <3>1. 0 \in Nat /\ 2 * 0 = 0
      OBVIOUS
    <3>2. Octets(0) \in Seq(Token) /\ Len(Octets(0)) = 0
      BY <1>2, <3>1
    <3> HIDE DEF v, c
    <3> QED
      BY <3>2, EmptySeq
  <2> QED
    BY <2>1, ConcatEmptySeq
<1>4. Octets(n) = Octets(n - 1) \o <<v, c>>
  <2> DEFINE m == n - 1
             s == Octets(m) \o <<v, c>>
  <2>1. m \in Nat /\ n = m + 1 /\ 2 * n = 2 * m + 2
    OBVIOUS
  <2>2. <<v, c>> \in Seq(Token) /\ Len(<<v, c>>) = 2
    BY <1>7
  <2> HIDE DEF m
  <2>3. /\ s \in Seq(Token)
        /\ Len(s) = 2 * m + 2
        /\ \A i \in 1 .. 2 * m + 2 : s[i] = IF i <= 2 * m THEN Octets(m)[i] ELSE <<v, c>>[i - 2 * m]
    <3>1. Octets(m) \in Seq(Token) /\ Len(Octets(m)) = 2 * m
      BY <1>2, <2>1
    <3> QED
      BY <2>2, <3>1, ConcatProperties
  <2>4. /\ Octets(n) \in Seq(Token)
        /\ Len(Octets(n)) = 2 * m + 2
        /\ \A i \in 1 .. 2 * m + 2 : Octets(n)[i] = IF i % 2 = 1 THEN v ELSE c
    BY <1>2, <2>1
  <2>5. ASSUME NEW i \in 1 .. 2 * m + 2  PROVE Octets(n)[i] = s[i]
    <3>1. CASE i <= 2 * m
      <4>1. i \in 1 .. 2 * m
        BY <2>1, <3>1
      <4> HIDE DEF s
      <4>2. s[i] = Octets(m)[i]
        BY <2>3, <3>1
      <4>3. Octets(m)[i] = IF i % 2 = 1 THEN v ELSE c
        BY <1>2, <2>1, <4>1
      <4> QED
        BY <2>4, <4>2, <4>3
    <3>2. CASE i = 2 * m + 1
      <4>1. i % 2 = 1 /\ i - 2 * m = 1 /\ ~(i <= 2 * m)
        BY <2>1, <3>2
      <4> HIDE DEF s
      <4>2. s[i] = <<v, c>>[1]
        BY <2>3, <4>1
      <4> QED
        BY <1>7, <2>4, <4>1, <4>2
    <3>3. CASE i = 2 * m + 2
      <4>1. i % 2 # 1 /\ i - 2 * m = 2 /\ ~(i <= 2 * m)
        BY <2>1, <3>3
      <4> HIDE DEF s
      <4>2. s[i] = <<v, c>>[2]
        BY <2>3, <4>1
      <4> QED
        BY <1>7, <2>4, <4>1, <4>2
    <3>4. i <= 2 * m \/ i = 2 * m + 1 \/ i = 2 * m + 2
      BY <2>1
    <3> QED
      BY <3>1, <3>2, <3>3, <3>4
  <2> HIDE DEF s
  <2>6. Octets(n) = s
    BY <2>3, <2>4, <2>5, SeqEqual
  <2> QED
    BY <2>6 DEF s, m
<1>5. Octets(n - 1) \in Seq(Token) /\ Octets(n) \in Seq(Token)
  <2>1. n \in Nat /\ n - 1 \in Nat
    OBVIOUS
  <2> QED
    BY <1>2, <2>1
<1>6. text \o Octets(n) = (text \o Octets(n - 1)) \o <<v, c>>
  <2>1. <<v, c>> \in Seq(Token)
    BY <1>7
  <2> QED
    BY <1>4, <1>5, <2>1, ConcatAssociative, SMTT(30)
<1> QED
  BY <1>3, <1>5, <1>6, ConcatProperties DEF AppendValue, PrintKey, v, c

LEMMA OctetsKeep ==
    ASSUME NEW text, NEW nest, Between(text, nest), Last(nest) = "array",
           NEW n \in Nat
    PROVE  Between(text \o Octets(n), nest)
<1> DEFINE S == {j \in Nat : ~Between(text \o Octets(j), nest)}
<1>1. text \in Seq(Token)
  BY DEF Between
<1>2. ASSUME S # {}  PROVE FALSE
  <2>1. PICK j \in S : \A l \in S : j <= l
    BY <1>2, LeastNatural
  <2>2. CASE j = 0
    <3>1. text \o Octets(0) = text
      <4>1. 1 \in Nat \ {0}
        OBVIOUS
      <4> QED
        BY <1>1, <4>1, OctetsStep
    <3> QED
      BY <2>1, <2>2, <3>1
  <2>3. CASE j # 0
    <3>1. j \in Nat \ {0} /\ j - 1 \in Nat /\ ~(j <= j - 1)
      BY <2>3
    <3>2. Between(text \o Octets(j - 1), nest)
      BY <2>1, <3>1
    <3>3. Between(AppendValue(text \o Octets(j - 1), FALSE), nest)
      BY <3>2, ValueKeeps
    <3> QED
      BY <1>1, <2>1, <3>1, <3>3, OctetsStep
  <2> QED
    BY <2>2, <2>3
<1> QED
  BY <1>2

\* An octet string is an item like another.
LEMMA OctetStringKeeps ==
    ASSUME NEW text, NEW nest, Between(text, nest), NEW n \in Nat,
           NEW key \in BOOLEAN, key <=> Last(nest) = "object"
    PROVE  Between(AppendOctets(text, key, n), nest)
<1> DEFINE inner == Append(nest, "array")
           t     == ArrayStart(text, key) \o Octets(n)
<1>1. nest \in Seq(Container) /\ nest # <<>> /\ "array" \in Container
  BY DEF Between, Container
<1>2. Front(inner) = nest /\ Last(inner) = "array"
  BY <1>1, FrontOfAppend
<1>3. Between(ArrayStart(text, key), inner)
  BY StartOpens
<1> HIDE DEF inner
<1>4. Between(t, inner)
  BY <1>2, <1>3, OctetsKeep
<1> HIDE DEF t
<1>5. Between(ArrayEnd(t), Front(inner))
  BY <1>1, <1>2, <1>4, EndCloses
<1> QED
  BY <1>2, <1>5 DEF AppendOctets, t

-----------------------------------------------------------------------------
(***************************************************************************)
(* The containers the library takes to be open, as a function of the nodes *)
(* entered and of what the printing node has opened.                       *)
(***************************************************************************)
Keyed(nodes) == {n \in DOMAIN nodes : nodes[n]}

ObjectsOf(nodes) == [i \in 1 .. Cardinality(Keyed(nodes)) |-> "object"]

Nest(nodes, opened) == <<"object">> \o ObjectsOf(nodes) \o opened

\* A node that has a key is one object more, another is none.
LEMMA KeyedAppend ==
    ASSUME NEW nodes \in Seq(BOOLEAN), NEW key \in BOOLEAN
    PROVE  /\ Cardinality(Keyed(nodes)) \in Nat
           /\ Cardinality(Keyed(Append(nodes, key)))
                = Cardinality(Keyed(nodes)) + IF key THEN 1 ELSE 0
<1> DEFINE n    == Len(nodes)
           more == Append(nodes, key)
<1>1. /\ n \in Nat
      /\ DOMAIN nodes = 1 .. n
      /\ more \in Seq(BOOLEAN)
      /\ Len(more) = n + 1
      /\ more[n + 1] = key
      /\ \A i \in 1 .. n : more[i] = nodes[i]
  BY LenProperties, AppendProperties
<1>2. DOMAIN more = 1 .. n + 1
  BY <1>1, LenProperties
<1> HIDE DEF more
<1>3. IsFiniteSet(Keyed(nodes))
  <2>1. IsFiniteSet(1 .. n)
    BY <1>1, FS_Interval
  <2> QED
    BY <1>1, <2>1, FS_Subset DEF Keyed
<1>4. n + 1 \notin Keyed(nodes)
  BY <1>1 DEF Keyed
<1>5. 1 .. n + 1 = (1 .. n) \cup {n + 1}
  BY <1>1
<1>6. CASE key
  <2>1. Keyed(more) = Keyed(nodes) \cup {n + 1}
    <3>1. more[n + 1]
      BY <1>1, <1>6
    <3> QED
      BY <1>1, <1>2, <1>5, <3>1 DEF Keyed
  <2> QED
    BY <1>3, <1>4, <1>6, <2>1, FS_AddElement, FS_CardinalityType DEF more
<1>7. CASE ~key
  <2>1. Keyed(more) = Keyed(nodes)
    <3>1. ~more[n + 1]
      BY <1>1, <1>7
    <3> QED
      BY <1>1, <1>2, <1>5, <3>1 DEF Keyed
  <2> QED
    BY <1>3, <1>7, <2>1, FS_CardinalityType DEF more
<1> QED
  BY <1>6, <1>7

LEMMA ObjectsAre ==
    ASSUME NEW nodes \in Seq(BOOLEAN)
    PROVE  /\ ObjectsOf(nodes) \in Seq(Container)
           /\ Len(ObjectsOf(nodes)) = Cardinality(Keyed(nodes))
           /\ Cardinality(Keyed(nodes)) \in Nat
           /\ \A i \in 1 .. Cardinality(Keyed(nodes)) : ObjectsOf(nodes)[i] = "object"
<1> DEFINE k == Cardinality(Keyed(nodes))
<1>1. k \in Nat
  BY KeyedAppend
<1>2. ObjectsOf(nodes) = [i \in 1 .. k |-> "object"]
  BY DEF ObjectsOf
<1>3. "object" \in Container
  BY DEF Container
<1> HIDE DEF k
<1>4. ObjectsOf(nodes) \in Seq(Container) /\ Len(ObjectsOf(nodes)) = k
  BY <1>1, <1>2, <1>3
<1> QED
  BY <1>1, <1>2, <1>4 DEF k

\* Entering a node that has a key.
LEMMA ObjectsGrow ==
    ASSUME NEW nodes \in Seq(BOOLEAN)
    PROVE  /\ ObjectsOf(Append(nodes, TRUE)) = Append(ObjectsOf(nodes), "object")
           /\ ObjectsOf(Append(nodes, FALSE)) = ObjectsOf(nodes)
<1> DEFINE k == Cardinality(Keyed(nodes))
           s == ObjectsOf(nodes)
           m == ObjectsOf(Append(nodes, TRUE))
           t == Append(s, "object")
<1>1. s \in Seq(Container) /\ Len(s) = k /\ k \in Nat /\ \A i \in 1 .. k : s[i] = "object"
  BY ObjectsAre
<1>2. Append(nodes, TRUE) \in Seq(BOOLEAN)
  BY AppendProperties
<1>3. Cardinality(Keyed(Append(nodes, TRUE))) = k + 1
  BY KeyedAppend
<1>4. /\ m \in Seq(Container)
      /\ Len(m) = k + 1
      /\ \A i \in 1 .. k + 1 : m[i] = "object"
  BY <1>2, <1>3, ObjectsAre
<1>5. Cardinality(Keyed(Append(nodes, FALSE))) = k
  <2>1. Cardinality(Keyed(Append(nodes, FALSE))) = k + IF FALSE THEN 1 ELSE 0
    BY KeyedAppend
  <2>2. k \in Nat
    BY <1>1
  <2> HIDE DEF k
  <2>3. k + (IF FALSE THEN 1 ELSE 0) = k
    BY <2>2
  <2> QED
    BY <2>1, <2>3 DEF k
<1>6. ObjectsOf(Append(nodes, FALSE)) = s
  BY <1>5 DEF ObjectsOf
<1> HIDE DEF k, s, m
<1>7. "object" \in Container
  BY DEF Container
<1>8. /\ t \in Seq(Container)
      /\ Len(t) = k + 1
      /\ t[k + 1] = "object"
      /\ \A i \in 1 .. k : t[i] = s[i]
  BY <1>1, <1>7, AppendProperties
<1> HIDE DEF t
<1>9. \A i \in 1 .. k + 1 : t[i] = m[i]
  BY <1>1, <1>4, <1>8
<1>10. t = m
  BY <1>4, <1>8, <1>9, SeqEqual
<1> QED
  BY <1>6, <1>10 DEF t, m, s

\* The object of the document, and those of the nodes: objects.
LEMMA OuterObjects ==
    ASSUME NEW nodes \in Seq(BOOLEAN)
    PROVE  /\ <<"object">> \o ObjectsOf(nodes) \in Seq(Container)
           /\ <<"object">> \o ObjectsOf(nodes) # <<>>
           /\ Last(<<"object">> \o ObjectsOf(nodes)) = "object"
<1> DEFINE k == Cardinality(Keyed(nodes))
           s == ObjectsOf(nodes)
           o == <<"object">>
<1>1. s \in Seq(Container) /\ Len(s) = k /\ k \in Nat /\ \A i \in 1 .. k : s[i] = "object"
  BY ObjectsAre
<1>2. o \in Seq(Container) /\ Len(o) = 1 /\ o[1] = "object"
  BY DEF Container
<1> HIDE DEF k, s, o
<1>3. /\ o \o s \in Seq(Container)
      /\ Len(o \o s) = 1 + k
      /\ \A i \in 1 .. 1 + k : (o \o s)[i] = IF i <= 1 THEN o[i] ELSE s[i - 1]
  <2>1. /\ o \o s \in Seq(Container)
        /\ Len(o \o s) = Len(o) + Len(s)
        /\ \A i \in 1 .. Len(o) + Len(s) : (o \o s)[i] = IF i <= Len(o) THEN o[i] ELSE s[i - Len(o)]
    BY <1>1, <1>2, ConcatProperties
  <2> QED
    BY <1>1, <1>2, <2>1
<1>4. /\ 1 + k \in 1 .. 1 + k
      /\ 1 + k - 1 = k
      /\ 1 + k <= 1 => k = 0
      /\ ~(1 + k <= 1) => k \in 1 .. k
  BY <1>1
<1>5. (o \o s)[1 + k] = "object"
  BY <1>1, <1>2, <1>3, <1>4
<1>6. Last(o \o s) = "object"
  BY <1>3, <1>5 DEF Last
<1>7. o \o s # <<>>
  BY <1>1, <1>3, EmptySeq
<1> QED
  BY <1>3, <1>6, <1>7 DEF o, s

\* What the library takes to be open, and the last of it.
LEMMA NestIs ==
    ASSUME NEW nodes \in Seq(BOOLEAN), NEW opened \in Seq(Container)
    PROVE  /\ Nest(nodes, opened) \in Seq(Container)
           /\ Nest(nodes, opened) # <<>>
           /\ Last(Nest(nodes, opened)) = IF opened = <<>> THEN "object" ELSE Last(opened)
           /\ \A c \in Container : Nest(nodes, Append(opened, c)) = Append(Nest(nodes, opened), c)
           /\ opened # <<>> => /\ Front(Nest(nodes, opened)) = Nest(nodes, Front(opened))
                               /\ Front(Nest(nodes, opened)) # <<>>
<1> DEFINE outer == <<"object">> \o ObjectsOf(nodes)
<1>1. outer \in Seq(Container) /\ outer # <<>> /\ Last(outer) = "object"
  BY OuterObjects
<1>2. \A o \in Seq(Container) : Nest(nodes, o) = outer \o o
  BY DEF Nest
<1> HIDE DEF outer
<1>3. ASSUME NEW o \in Seq(Container)  PROVE outer \o o \in Seq(Container) /\ outer \o o # <<>>
  BY <1>1, ConcatProperties, ConcatEqualIffEmpty
<1>4. ASSUME NEW o \in Seq(Container), NEW c \in Container
      PROVE  outer \o Append(o, c) = Append(outer \o o, c)
  <2>1. Append(o, c) = o \o <<c>> /\ <<c>> \in Seq(Container)
    BY AppendIsConcat
  <2>2. outer \o (o \o <<c>>) = (outer \o o) \o <<c>>
    BY <1>1, <2>1, ConcatAssociative
  <2>3. Append(outer \o o, c) = (outer \o o) \o <<c>>
    BY <1>3, AppendIsConcat
  <2> QED
    BY <2>1, <2>2, <2>3
<1>5. ASSUME NEW c \in Container
      PROVE  Nest(nodes, Append(opened, c)) = Append(Nest(nodes, opened), c)
  <2>1. Append(opened, c) \in Seq(Container)
    BY AppendProperties
  <2> QED
    BY <1>2, <1>4, <2>1
<1>6. CASE opened = <<>>
  <2>1. outer \o <<>> = outer
    BY <1>1, ConcatEmptySeq
  <2> QED
    BY <1>1, <1>2, <1>3, <1>5, <1>6, <2>1
<1>7. CASE opened # <<>>
  <2>1. /\ Front(opened) \in Seq(Container)
        /\ Last(opened) \in Container
        /\ opened = Append(Front(opened), Last(opened))
    BY <1>7, FrontAndLast
  <2>2. outer \o opened = Append(outer \o Front(opened), Last(opened))
    BY <1>4, <2>1
  <2>3. outer \o Front(opened) \in Seq(Container) /\ outer \o Front(opened) # <<>>
    BY <1>3, <2>1
  <2>4. Front(outer \o opened) = outer \o Front(opened) /\ Last(outer \o opened) = Last(opened)
    <3> DEFINE inner == outer \o Front(opened)
    <3> HIDE DEF inner
    <3>1. /\ Front(Append(inner, Last(opened))) = inner
          /\ Last(Append(inner, Last(opened))) = Last(opened)
      BY <2>1, <2>3, FrontOfAppend DEF inner
    <3> QED
      BY <2>2, <3>1 DEF inner
  <2> QED
    BY <1>2, <1>3, <1>5, <1>7, <2>1, <2>3, <2>4
<1> QED
  BY <1>6, <1>7

\* With nothing open but the objects of nodes, nodes come and go like containers.
LEMMA NestOfNodes ==
    ASSUME NEW nodes \in Seq(BOOLEAN)
    PROVE  /\ Nest(Append(nodes, TRUE), <<>>) = Append(Nest(nodes, <<>>), "object")
           /\ Nest(Append(nodes, FALSE), <<>>) = Nest(nodes, <<>>)
           /\ Nest(<<>>, <<>>) = <<"object">>
<1> DEFINE s == ObjectsOf(nodes)
           o == <<"object">>
<1>1. o \in Seq(Container) /\ "object" \in Container /\ <<>> \in Seq(Container)
  BY DEF Container
<1>2. s \in Seq(Container) /\ Append(s, "object") \in Seq(Container)
  BY <1>1, ObjectsAre, AppendProperties
<1> HIDE DEF s, o
<1>3. /\ o \o s \in Seq(Container)
      /\ o \o Append(s, "object") \in Seq(Container)
      /\ o \o s \o <<>> = o \o s
      /\ o \o Append(s, "object") \o <<>> = o \o Append(s, "object")
  BY <1>1, <1>2, ConcatProperties, ConcatEmptySeq
<1>4. o \o Append(s, "object") = Append(o \o s, "object")
  <2>1. Append(s, "object") = s \o <<"object">> /\ <<"object">> \in Seq(Container)
    BY <1>1, <1>2, AppendIsConcat DEF o
  <2>2. o \o (s \o <<"object">>) = (o \o s) \o <<"object">>
    BY <1>1, <1>2, <2>1, ConcatAssociative
  <2>3. Append(o \o s, "object") = (o \o s) \o <<"object">>
    BY <1>1, <1>3, AppendIsConcat
  <2> QED
    BY <2>1, <2>2, <2>3
<1>5. Nest(<<>>, <<>>) = o
  <2>1. <<>> \in Seq(BOOLEAN)
    OBVIOUS
  <2>2. Keyed(<<>>) = {}
    BY DEF Keyed
  <2>3. Cardinality(Keyed(<<>>)) = 0
    BY <2>2, FS_EmptySet
  <2>4. ObjectsOf(<<>>) \in Seq(Container) /\ Len(ObjectsOf(<<>>)) = 0
    BY <2>1, <2>3, ObjectsAre
  <2>5. ObjectsOf(<<>>) = <<>>
    BY <2>4, EmptySeq
  <2> QED
    BY <1>1, <2>5, ConcatEmptySeq DEF Nest, o
<1> QED
  BY <1>3, <1>4, <1>5, ObjectsGrow DEF Nest, s, o

-----------------------------------------------------------------------------
(***************************************************************************)
(* The inductive invariant: while a document is being printed the reader   *)
(* is between two items of what the library takes to be open, which is     *)
(* more than NestingKnown says: a comma has been printed exactly if the    *)
(* container is not empty, and so taking it back is right when it ends.    *)
(***************************************************************************)
Printing == phase \in {"down", "format", "up"} => Between(str, Nest(path, open))

NothingYet == phase = "idle" => str = <<>> /\ path = <<>>

JsonIInv ==
    /\ JsonTypeOK
    /\ NothingYet
    /\ Printing
    /\ DocumentComplete

LEMMA JsonInitHolds == JsonInit => JsonIInv
<1>1. \A S : <<>> \in Seq(S)
  OBVIOUS
<1>2. 0 \in 0 .. MaxCalls
  BY JsonAssumption
<1> QED
  BY <1>1, <1>2 DEF JsonInit, JsonIInv, JsonTypeOK, NothingYet, Printing, DocumentComplete

\* A call of json.c by the node that prints, and what it has open after it.
LEMMA CallKeeps ==
    ASSUME JsonIInv, NEW text, Call(text), open' \in Seq(Container),
           Between(text, Nest(path, open'))
    PROVE  JsonIInv'
<1>1. calls' \in 0 .. MaxCalls
  BY JsonAssumption DEF Call, JsonIInv, JsonTypeOK
<1>2. JsonTypeOK'
  BY <1>1 DEF Call, JsonIInv, JsonTypeOK, Between
<1> QED
  BY <1>2 DEF Call, JsonIInv, NothingYet, Printing, DocumentComplete

\* What the printing node's own containers say of the innermost one.
LEMMA InnermostKnown ==
    ASSUME JsonIInv, phase = "format"
    PROVE  /\ Between(str, Nest(path, open))
           /\ path \in Seq(BOOLEAN)
           /\ open \in Seq(Container)
           /\ InObject \in BOOLEAN
           /\ InObject <=> Last(Nest(path, open)) = "object"
<1>1. path \in Seq(BOOLEAN) /\ open \in Seq(Container) /\ Between(str, Nest(path, open))
  BY DEF JsonIInv, JsonTypeOK, Printing
<1>2. Last(Nest(path, open)) = IF open = <<>> THEN "object" ELSE Last(open)
  BY <1>1, NestIs
<1> QED
  BY <1>1, <1>2 DEF InObject

LEMMA FormatJsonKeeps ==
    ASSUME JsonIInv, FormatJson
    PROVE  JsonIInv'
<1>1. phase = "format"
  BY DEF FormatJson, CallAppend, CallAppendOctets, CallObjectStart, CallArrayStart, CallEnd,
         FormatReturns, Call
<1> DEFINE key == InObject
<1>2. /\ Between(str, Nest(path, open))
      /\ path \in Seq(BOOLEAN)
      /\ open \in Seq(Container)
      /\ key \in BOOLEAN
      /\ key <=> Last(Nest(path, open)) = "object"
  BY <1>1, InnermostKnown
<1>3. CASE CallAppend
  <2>1. Call(AppendValue(str, key)) /\ open' = open
    BY <1>3 DEF CallAppend
  <2> HIDE DEF key
  <2>2. Between(AppendValue(str, key), Nest(path, open))
    BY <1>2, ValueKeeps
  <2> QED
    BY <1>2, <2>1, <2>2, CallKeeps
<1>4. ASSUME NEW n \in OctetCounts, CallAppendOctets(n)
      PROVE  JsonIInv'
  <2>1. Call(AppendOctets(str, key, n)) /\ open' = open
    BY <1>4 DEF CallAppendOctets
  <2>2. n \in Nat
    BY JsonAssumption
  <2> HIDE DEF key
  <2>3. Between(AppendOctets(str, key, n), Nest(path, open))
    BY <1>2, <2>2, OctetStringKeeps
  <2> QED
    BY <1>2, <2>1, <2>3, CallKeeps
<1>5. CASE CallObjectStart
  <2>1. Call(ObjectStart(str, key)) /\ open' = Append(open, "object")
    BY <1>5 DEF CallObjectStart
  <2> HIDE DEF key
  <2>2. "object" \in Container
    BY DEF Container
  <2>3. Between(ObjectStart(str, key), Append(Nest(path, open), "object"))
    BY <1>2, StartOpens
  <2>4. Nest(path, Append(open, "object")) = Append(Nest(path, open), "object")
    BY <1>2, <2>2, NestIs
  <2>5. Append(open, "object") \in Seq(Container)
    BY <1>2, <2>2, AppendProperties
  <2> QED
    BY <2>1, <2>3, <2>4, <2>5, CallKeeps
<1>6. CASE CallArrayStart
  <2>1. Call(ArrayStart(str, key)) /\ open' = Append(open, "array")
    BY <1>6 DEF CallArrayStart
  <2> HIDE DEF key
  <2>2. "array" \in Container
    BY DEF Container
  <2>3. Between(ArrayStart(str, key), Append(Nest(path, open), "array"))
    BY <1>2, StartOpens
  <2>4. Nest(path, Append(open, "array")) = Append(Nest(path, open), "array")
    BY <1>2, <2>2, NestIs
  <2>5. Append(open, "array") \in Seq(Container)
    BY <1>2, <2>2, AppendProperties
  <2> QED
    BY <2>1, <2>3, <2>4, <2>5, CallKeeps
<1>7. CASE CallEnd
  <2>1. /\ open # <<>>
        /\ open' = Front(open)
        /\ str' = IF Last(open) = "object" THEN ObjectEnd(str) ELSE ArrayEnd(str)
        /\ UNCHANGED <<phase, path, calls>>
    BY <1>7 DEF CallEnd
  <2>2. Last(open) \in Container /\ Front(open) \in Seq(Container)
    BY <1>2, <2>1, FrontAndLast
  <2>3. /\ Last(Nest(path, open)) = Last(open)
        /\ Front(Nest(path, open)) = Nest(path, Front(open))
        /\ Front(Nest(path, open)) # <<>>
    BY <1>2, <2>1, NestIs
  <2>4. Between(str', Nest(path, Front(open)))
    <3>1. Last(open) = "object" \/ Last(open) = "array"
      BY <2>2 DEF Container
    <3>2. CASE Last(open) = "object"
      BY <1>2, <2>1, <2>3, <3>2, EndCloses
    <3>3. CASE Last(open) = "array"
      BY <1>2, <2>1, <2>3, <3>3, EndCloses
    <3> QED
      BY <3>1, <3>2, <3>3
  <2>5. JsonTypeOK'
    BY <1>1, <2>1, <2>2, <2>4 DEF JsonIInv, JsonTypeOK, Between
  <2> QED
    BY <1>1, <2>1, <2>4, <2>5 DEF JsonIInv, NothingYet, Printing, DocumentComplete
<1>8. CASE FormatReturns
  BY <1>1, <1>8 DEF FormatReturns, JsonIInv, JsonTypeOK, NothingYet, Printing, DocumentComplete
<1> QED
  BY <1>3, <1>4, <1>5, <1>6, <1>7, <1>8 DEF FormatJson

LEMMA TreeStartKeeps ==
    ASSUME JsonIInv, TreeStart
    PROVE  JsonIInv'
<1>1. str = <<>> /\ path = <<>> /\ open = <<>>
  BY DEF JsonIInv, JsonTypeOK, NothingYet, TreeStart
<1>2. "{" \in Token /\ "object" \in Container /\ <<>> \in Seq(Token)
  BY DEF Token, Container
<1>3. str' = Append(<<>>, "{")
  BY <1>1 DEF TreeStart, ObjectStart, PrintKey
<1>4. /\ Append(<<>>, "{") \in Seq(Token)
      /\ Append(<<>>, "{") # <<>>
      /\ Last(Append(<<>>, "{")) = "{"
      /\ ReadText(Append(<<>>, "{")) = Reads(Start, "{")
  BY <1>2, TokenAppended, ReadEmpty
<1>5. Reads(Start, "{") = Reader(<<"object">>, "first")
  <2>1. Start.nest = <<>> /\ Start.may = "start"
    BY ReaderFields DEF Start
  <2>2. Append(<<>>, "object") = <<"object">>
    OBVIOUS
  <2> QED
    BY <2>1, <2>2 DEF Reads, ValueMayFollow
<1>6. Nest(<<>>, <<>>) = <<"object">>
  <2>1. <<>> \in Seq(BOOLEAN)
    OBVIOUS
  <2> QED
    BY <2>1, NestOfNodes
<1>7. <<"object">> \in Seq(Container) /\ <<"object">> # <<>>
  <2>1. <<>> \in Seq(BOOLEAN) /\ <<>> \in Seq(Container)
    OBVIOUS
  <2>2. Nest(<<>>, <<>>) \in Seq(Container) /\ Nest(<<>>, <<>>) # <<>>
    BY <2>1, NestIs
  <2> QED
    BY <1>6, <2>2
<1>8. Between(str', Nest(path', open'))
  BY <1>1, <1>3, <1>4, <1>5, <1>6, <1>7 DEF TreeStart, Between
<1> QED
  BY <1>8 DEF TreeStart, JsonIInv, JsonTypeOK, NothingYet, Printing, DocumentComplete, Between

LEMMA NodeStartKeeps ==
    ASSUME JsonIInv, NEW key \in BOOLEAN, NEW prints \in BOOLEAN, NodeStart(key, prints)
    PROVE  JsonIInv'
<1>1. open = <<>> /\ path \in Seq(BOOLEAN) /\ open \in Seq(Container)
  BY DEF JsonIInv, JsonTypeOK, NodeStart
<1>2. Between(str, Nest(path, <<>>))
  BY <1>1 DEF JsonIInv, Printing, NodeStart
<1>3. path' = Append(path, key) /\ path' \in Seq(BOOLEAN)
  BY <1>1, AppendProperties DEF NodeStart
<1>4. Between(str', Nest(path', <<>>))
  <2>1. CASE key
    <3>1. str' = ObjectStart(str, TRUE)
      BY <2>1 DEF NodeStart
    <3>2. Last(Nest(path, <<>>)) = "object"
      BY <1>1, NestIs
    <3>3. Between(ObjectStart(str, TRUE), Append(Nest(path, <<>>), "object"))
      BY <1>2, <3>2, StartOpens
    <3>4. Nest(Append(path, TRUE), <<>>) = Append(Nest(path, <<>>), "object")
      BY <1>1, NestOfNodes
    <3>5. key = TRUE
      BY <2>1
    <3> QED
      BY <1>3, <3>1, <3>3, <3>4, <3>5
  <2>2. CASE ~key
    <3>1. str' = str
      BY <2>2 DEF NodeStart
    <3>2. Nest(Append(path, FALSE), <<>>) = Nest(path, <<>>)
      BY <1>1, NestOfNodes
    <3>3. key = FALSE
      BY <2>2
    <3> QED
      BY <1>2, <1>3, <3>1, <3>2, <3>3
  <2> QED
    BY <2>1, <2>2
<1>5. open' = <<>> /\ calls' = calls /\ phase' \in {"down", "format"}
  BY <1>1 DEF NodeStart
<1>6. JsonTypeOK'
  <2>1. str' \in Seq(Token)
    BY <1>4 DEF Between
  <2>2. open' \in Seq(Container)
    BY <1>1, <1>5
  <2>3. phase' \in {"idle", "down", "format", "up", "done"}
    BY <1>5
  <2>4. calls' \in 0 .. MaxCalls
    BY <1>5 DEF JsonIInv, JsonTypeOK
  <2> QED
    BY <1>3, <1>5, <2>1, <2>2, <2>3, <2>4 DEF JsonTypeOK
<1> QED
  BY <1>4, <1>5, <1>6 DEF JsonIInv, NothingYet, Printing, DocumentComplete

LEMMA NodeEndKeeps ==
    ASSUME JsonIInv, NodeEnd
    PROVE  JsonIInv'
<1>1. open = <<>> /\ path \in Seq(BOOLEAN) /\ path # <<>>
  BY DEF JsonIInv, JsonTypeOK, NodeEnd
<1>2. Between(str, Nest(path, <<>>))
  BY <1>1 DEF JsonIInv, Printing, NodeEnd
<1> DEFINE p == Front(path)
<1>3. path' = p /\ p \in Seq(BOOLEAN) /\ Last(path) \in BOOLEAN /\ path = Append(p, Last(path))
  BY <1>1, FrontAndLast DEF NodeEnd
<1> HIDE DEF p
<1>4. /\ Nest(Append(p, TRUE), <<>>) = Append(Nest(p, <<>>), "object")
      /\ Nest(Append(p, FALSE), <<>>) = Nest(p, <<>>)
  BY <1>3, NestOfNodes
<1>5. Nest(p, <<>>) \in Seq(Container) /\ Nest(p, <<>>) # <<>>
  <2>1. <<>> \in Seq(Container)
    OBVIOUS
  <2> QED
    BY <1>3, <2>1, NestIs
<1>6. Between(str', Nest(p, <<>>))
  <2>1. CASE Last(path)
    <3>1. str' = ObjectEnd(str)
      BY <2>1 DEF NodeEnd
    <3>2. Last(path) = TRUE
      BY <1>3, <2>1
    <3>3. Nest(path, <<>>) = Append(Nest(p, <<>>), "object")
      BY <1>3, <1>4, <3>2
    <3>4. "object" \in Container
      BY DEF Container
    <3>5. Front(Nest(path, <<>>)) = Nest(p, <<>>) /\ Last(Nest(path, <<>>)) = "object"
      BY <1>5, <3>3, <3>4, FrontOfAppend
    <3>6. Between(ObjectEnd(str), Front(Nest(path, <<>>)))
      BY <1>2, <1>5, <3>5, EndCloses
    <3> QED
      BY <3>1, <3>5, <3>6
  <2>2. CASE ~Last(path)
    <3>1. str' = str
      BY <2>2 DEF NodeEnd
    <3>2. Last(path) = FALSE
      BY <1>3, <2>2
    <3> QED
      BY <1>2, <1>3, <1>4, <3>1, <3>2
  <2> QED
    BY <2>1, <2>2
<1>7. JsonTypeOK'
  BY <1>3, <1>6 DEF NodeEnd, JsonIInv, JsonTypeOK, Between
<1> QED
  BY <1>1, <1>3, <1>6, <1>7 DEF NodeEnd, JsonIInv, NothingYet, Printing, DocumentComplete

LEMMA TreeEndKeeps ==
    ASSUME JsonIInv, TreeEnd
    PROVE  JsonIInv'
<1>1. open = <<>> /\ path = <<>>
  BY DEF JsonIInv, JsonTypeOK, TreeEnd
<1>2. Nest(<<>>, <<>>) = <<"object">>
  <2>1. <<>> \in Seq(BOOLEAN)
    OBVIOUS
  <2> QED
    BY <2>1, NestOfNodes
<1>3. Between(str, <<"object">>)
  BY <1>1, <1>2 DEF JsonIInv, Printing, TreeEnd
<1>4. Last(<<"object">>) = "object" /\ Front(<<"object">>) = <<>>
  <2>1. <<>> \in Seq(Container) /\ "object" \in Container /\ Append(<<>>, "object") = <<"object">>
    BY DEF Container
  <2> QED
    BY <2>1, FrontOfAppend
<1> DEFINE t == TrimComma(str)
           e == Append(t, "}")
<1>5. e \in Seq(Token) /\ ReadText(e) = Reader(<<>>, "end")
  <2>1. "}" \in {"}", "]"}
    OBVIOUS
  <2> QED
    BY <1>3, <1>4, <2>1, EndRead
<1>6. t \in Seq(Token)
  BY <1>3, Trimmed
<1>7. str' = e
  <2>1. "}" \in Token /\ "," \in Token
    BY DEF Token
  <2> HIDE DEF t
  <2>2. ObjectEnd(str) = Append(e, ",")
    BY <1>6, <2>1, PairAppended DEF ObjectEnd, t
  <2>3. e \in Seq(Token)
    BY <1>5 DEF t
  <2> HIDE DEF e
  <2>4. Append(e, ",") # <<>> /\ Last(Append(e, ",")) = "," /\ Front(Append(e, ",")) = e
    <3>1. Append(e, ",") # <<>>
      BY <2>1, <2>3, AppendProperties
    <3> QED
      BY <2>1, <2>3, <3>1, FrontOfAppend
  <2>5. TrimComma(Append(e, ",")) = e
    BY <2>4 DEF TrimComma
  <2>6. str' = TrimComma(ObjectEnd(str))
    BY DEF TreeEnd
  <2> QED
    BY <2>2, <2>5, <2>6 DEF e
<1> HIDE DEF e
<1>8. Read' = Reader(<<>>, "end")
  BY <1>5, <1>7 DEF Read
<1> QED
  BY <1>5, <1>7, <1>8 DEF TreeEnd, JsonIInv, JsonTypeOK, NothingYet, Printing, DocumentComplete

LEMMA JsonStepKeeps ==
    JsonIInv /\ [JsonNext]_jsonVars => JsonIInv'
<1> SUFFICES ASSUME JsonIInv, [JsonNext]_jsonVars
             PROVE  JsonIInv'
  OBVIOUS
<1>1. CASE TreeStart
  BY <1>1, TreeStartKeeps
<1>2. CASE \E key, prints \in BOOLEAN : NodeStart(key, prints)
  BY <1>2, NodeStartKeeps
<1>3. CASE FormatJson
  BY <1>3, FormatJsonKeeps
<1>4. CASE LastNode
  BY <1>4 DEF LastNode, JsonIInv, JsonTypeOK, NothingYet, Printing, DocumentComplete
<1>5. CASE NodeEnd
  BY <1>5, NodeEndKeeps
<1>6. CASE TreeEnd
  BY <1>6, TreeEndKeeps
<1>7. CASE UNCHANGED jsonVars
  BY <1>7 DEF jsonVars, JsonIInv, JsonTypeOK, NothingYet, Printing, DocumentComplete, Read
<1> QED
  BY <1>1, <1>2, <1>3, <1>4, <1>5, <1>6, <1>7 DEF JsonNext

LEMMA JsonIInvGives == JsonIInv => JsonInv
<1> SUFFICES ASSUME JsonIInv
             PROVE  JsonTypeOK /\ NestingKnown /\ DocumentComplete
  BY DEF JsonInv
<1>1. <<"object">> \o Objects \o open = Nest(path, open)
  BY DEF Objects, Nest, ObjectsOf, Keyed
<1>2. CASE phase \in {"down", "format", "up"}
  <2>1. Between(str, Nest(path, open))
    BY <1>2 DEF JsonIInv, Printing
  <2>2. Read.nest = Nest(path, open) /\ Read.may # "bad"
    BY <2>1, BetweenReads DEF Read
  <2> QED
    BY <1>1, <2>2 DEF NestingKnown, JsonIInv
<1>3. CASE phase = "idle"
  <2>1. Read = Start
    BY <1>3, ReadEmpty DEF JsonIInv, NothingYet, Read
  <2>2. Read.may = "start"
    BY <2>1, ReaderFields DEF Start
  <2> QED
    BY <1>3, <2>2 DEF NestingKnown, JsonIInv
<1>4. CASE phase = "done"
  <2>1. Read = Reader(<<>>, "end")
    BY <1>4 DEF JsonIInv, DocumentComplete
  <2>2. Read.may = "end"
    BY <2>1, ReaderFields
  <2> QED
    BY <1>4, <2>2 DEF NestingKnown, JsonIInv
<1> QED
  BY <1>2, <1>3, <1>4 DEF JsonIInv, JsonTypeOK

(***************************************************************************)
(* Of la_proto_tree_format_json and json.c: at any time what has been      *)
(* printed is the beginning of a JSON document, read in the containers     *)
(* that the library takes to be open, and in the end it is one document,   *)
(* for every chain of nodes, every sequence of calls a node makes, every   *)
(* depth of containers and every length of an octet string.                *)
(***************************************************************************)
THEOREM JsonIsWellFormed == JsonSpec => []JsonInv
<1>1. JsonInit => JsonIInv
  BY JsonInitHolds
<1>2. JsonIInv /\ [JsonNext]_jsonVars => JsonIInv'
  BY JsonStepKeeps
<1>3. JsonIInv => JsonInv
  BY JsonIInvGives
<1> QED
  BY <1>1, <1>2, <1>3, PTL DEF JsonSpec
=============================================================================
