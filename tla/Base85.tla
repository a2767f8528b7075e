------------------------------- MODULE Base85 -------------------------------
(***************************************************************************)
(* la_base85_decode (miam-core.c): five characters make a word of four     *)
(* octets, and a 'z' alone makes one of zeros.  The buffer is sized by the *)
(* number of groups of five, so that it can only be too small for a text   *)
(* with many 'z', and grows in the loop, an iteration of which is a step.  *)
(*                                                                         *)
(* A character is a digit of a word, or the 'z'.  What a group yields that *)
(* is not the five digits of a word in their order is a word Garbage.      *)
(***************************************************************************)
EXTENDS Integers, Sequences

CONSTANTS
    Base85Words,    \* words other than Zero and Garbage
    Base85Texts,    \* texts to decode, none of them empty
    Base85Sent,     \* what senders encode: sequences of words
    Zero, Garbage

Char(word, place) == [word |-> word, place |-> place]

Z == Char(Zero, 0)

Words == Base85Words \union {Zero, Garbage}

Chars == [word : Words, place : 0 .. 5]

ASSUME Base85Assumption ==
    /\ Zero \notin Base85Words
    /\ Garbage \notin Base85Words \union {Zero}
    /\ Base85Texts \subseteq Seq(Chars) \ {<<>>}
    /\ Base85Sent \subseteq Seq(Base85Words \union {Zero})

VARIABLES
    b85_text,       \* the characters between str and end
    b85_at,         \* ptr, as the number of characters behind it
    b85_out,        \* the words in out; outpos is four times their number
    b85_size,       \* outsize
    b85_pc

b85Vars == <<b85_text, b85_at, b85_out, b85_size, b85_pc>>

Base85Init ==
    /\ b85_text = <<>>
    /\ b85_at = 0
    /\ b85_out = <<>>
    /\ b85_size = 0
    /\ b85_pc = "idle"

Base85Decode(text) ==
    /\ b85_pc = "idle"
    /\ b85_text' = text
    /\ b85_at' = 0
    /\ b85_out' = <<>>
    /\ b85_size' = ((Len(text) \div 5) + 4) * 4
    /\ b85_pc' = "loop"

OutPos == 4 * Len(b85_out)

\* Mutant: the buffer grows when it is full, whatever is to be stored.
BufferFull == OutPos >= b85_size

OutputTight == OutPos + 5 >= b85_size

Grown == (b85_size + 5) + ((b85_size + 5) \div 4)

Put(word) ==
    /\ b85_size' = IF OutputTight THEN Grown ELSE b85_size
    /\ b85_out' = Append(b85_out, word)
    /\ UNCHANGED <<b85_text, b85_pc>>

CharsLeft == Len(b85_text) - b85_at

\* Mutant: a 'z' is a digit like any other.
NoZ == FALSE

AtZ == CharsLeft > 0 /\ b85_text[b85_at + 1] = Z

DecodeZ ==
    /\ b85_pc = "loop"
    /\ AtZ
    /\ b85_at' = b85_at + 1
    /\ Put(Zero)

WordOf(group) ==
    LET word == group[1].word
    IN  IF \A i \in 1 .. 5 : group[i] = Char(word, i) THEN word ELSE Garbage

DecodeGroup ==
    /\ b85_pc = "loop"
    /\ ~AtZ
    /\ CharsLeft >= 5
    /\ b85_at' = b85_at + 5
    /\ Put(WordOf(SubSeq(b85_text, b85_at + 1, b85_at + 5)))

Base85Returns ==
    /\ b85_pc = "loop"
    /\ ~AtZ
    /\ CharsLeft < 5
    /\ b85_pc' = "done"
    /\ UNCHANGED <<b85_text, b85_at, b85_out, b85_size>>

Base85Next ==
    \/ \E text \in Base85Texts : Base85Decode(text)
    \/ DecodeZ
    \/ DecodeGroup
    \/ Base85Returns

Base85Spec == Base85Init /\ [][Base85Next]_b85Vars
-----------------------------------------------------------------------------
Base85TypeOK ==
    /\ b85_text \in Seq(Chars)
    /\ b85_at \in 0 .. Len(b85_text)
    /\ b85_out \in Seq(Words)
    /\ b85_size \in Nat
    /\ b85_pc \in {"idle", "loop", "done"}

(***************************************************************************)
(* The four octets of every word decoded are within the buffer, however    *)
(* many of the words are written as a single 'z'.                          *)
(***************************************************************************)
OutputFits == OutPos <= b85_size

(***************************************************************************)
(* The sender's side: each word has five digits, or is a 'z'.  Of a text   *)
(* that has been cut, exactly the words that arrived whole are decoded.    *)
(***************************************************************************)
Digits(word) == [i \in 1 .. 5 |-> Char(word, i)]

CodeOf(word) == IF word = Zero THEN <<Z>> ELSE Digits(word)

Encoded(words) ==
    LET at[n \in 0 .. Len(words)] ==
            IF n = 0 THEN <<>> ELSE at[n - 1] \o CodeOf(words[n])
    IN  at[Len(words)]

EncodedFirst(words, n) == Encoded(SubSeq(words, 1, n))

WholeWordsDecoded(words) ==
    \A cut \in 0 .. Len(Encoded(words)) :
        b85_text = SubSeq(Encoded(words), 1, cut) =>
            \E n \in 0 .. Len(words) :
                /\ b85_out = SubSeq(words, 1, n)
                /\ Len(EncodedFirst(words, n)) <= cut
                /\ n < Len(words) => Len(EncodedFirst(words, n + 1)) > cut

(***************************************************************************)
(* Decoding is the inverse of encoding, up to where a text has been cut.   *)
(***************************************************************************)
Base85RoundTrip == b85_pc = "done" => \A words \in Base85Sent : WholeWordsDecoded(words)
=============================================================================
