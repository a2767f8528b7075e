------------------------------ MODULE BitStream ------------------------------
(***************************************************************************)
(* la_bitstream (bitstream.c): octets are appended bit by bit to a buffer  *)
(* of bits, and words of any width are read from it.  ADS-C reads the      *)
(* fields of its reports this way (adsc.c).  The tests of the room left    *)
(* are in 32-bit unsigned arithmetic.                                      *)
(***************************************************************************)
EXTENDS Integers, Sequences

CONSTANTS
    StreamSizes,    \* sizes la_bitstream_init is called with, in bits
    Chunks,         \* sequences of octets appended; an octet is its 8 bits
    ChunkWidths,    \* how many bits of each octet are appended
    ReadWidths,     \* widths of the words read
    WordModulus     \* 2^32

Bit == {0, 1}

Octet == [1 .. 8 -> Bit]

\* No caller comes near 2^32 bits.
ASSUME StreamAssumption ==
    /\ WordModulus \in Nat
    /\ StreamSizes \subseteq Nat \ {0}
    /\ Chunks \subseteq Seq(Octet)
    /\ ChunkWidths \subseteq 1 .. 8
    /\ ReadWidths \subseteq Nat
    /\ \A size \in StreamSizes :
          /\ \A v \in Chunks, n \in ChunkWidths : size + n * Len(v) < WordModulus
          /\ \A n \in ReadWidths : size + n < WordModulus

VARIABLES
    bs_buf,             \* a bit per octet of the buffer
    bs_len,             \* its size
    bs_start, bs_end,   \* what has been read and what has been appended
    bs_answer           \* what the last call returned, and the bits of *ret

bsVars == <<bs_buf, bs_len, bs_start, bs_end, bs_answer>>

\* la_bitstream_init
BitStreamInit ==
    /\ bs_len \in StreamSizes
    /\ bs_buf = [i \in 1 .. bs_len |-> 0]
    /\ bs_start = 0
    /\ bs_end = 0
    /\ bs_answer = [ret |-> 0, word |-> <<>>]

Uint32(n) == n % WordModulus

Failed == [ret |-> -1, word |-> <<>>]

\* Mutant: the lowest bit first.
AppendedBitsLsbFirst(v, numbits) ==
    [k \in 1 .. Len(v) * numbits |-> v[((k - 1) \div numbits) + 1][8 - ((k - 1) % numbits)]]

\* The low numbits bits of each octet, the highest of them first.
AppendedBits(v, numbits) ==
    [k \in 1 .. numbits * Len(v) |->
        v[((k - 1) \div numbits) + 1][9 - numbits + ((k - 1) % numbits)]]

ChunkFits(v, numbits) == Uint32(bs_end + Uint32(numbits * Len(v))) <= bs_len

\* la_bitstream_append_msbfirst
AppendMsbFirst(v, numbits) ==
    \/ /\ ChunkFits(v, numbits)
       /\ LET bits == AppendedBits(v, numbits)
          IN  /\ bs_buf' = [i \in 1 .. bs_len |->
                               IF i > bs_end /\ i <= bs_end + Len(bits)
                               THEN bits[i - bs_end]
                               ELSE bs_buf[i]]
              /\ bs_end' = bs_end + Len(bits)
       /\ bs_answer' = [ret |-> 0, word |-> <<>>]
       /\ UNCHANGED <<bs_len, bs_start>>
    \/ /\ ~ChunkFits(v, numbits)
       /\ bs_answer' = Failed
       /\ UNCHANGED <<bs_buf, bs_len, bs_start, bs_end>>

WordThere(numbits) == Uint32(bs_start + numbits) <= bs_end

\* la_bitstream_read_word_msbfirst
ReadWordMsbFirst(numbits) ==
    \/ /\ WordThere(numbits)
       /\ bs_answer' = [ret |-> 0, word |-> [i \in 1 .. numbits |-> bs_buf[bs_start + i]]]
       /\ bs_start' = bs_start + numbits
       /\ UNCHANGED <<bs_buf, bs_len, bs_end>>
    \/ /\ ~WordThere(numbits)
       /\ bs_answer' = Failed
       /\ UNCHANGED <<bs_buf, bs_len, bs_start, bs_end>>

BitStreamNext ==
    \/ \E v \in Chunks, n \in ChunkWidths : AppendMsbFirst(v, n)
    \/ \E n \in ReadWidths : ReadWordMsbFirst(n)

BitStreamSpec == BitStreamInit /\ [][BitStreamNext]_bsVars

-----------------------------------------------------------------------------
\* Reading never passes what was appended, nor appending the buffer.
BitStreamTypeOK ==
    /\ bs_len \in StreamSizes
    /\ bs_buf \in [1 .. bs_len -> Bit]
    /\ bs_end \in 0 .. bs_len
    /\ bs_start \in 0 .. bs_end
    /\ bs_answer.ret \in {0, -1}
    /\ bs_answer.word \in Seq(Bit)

\* What appending n bits of each octet of v is meant to append.
LowBits(bits, v, n) ==
    /\ Len(bits) = n * Len(v)
    /\ \A i \in 1 .. Len(v), j \in 1 .. n : bits[n * (i - 1) + j] = v[i][8 - n + j]

(***************************************************************************)
(* Whatever is appended and read, in whatever portions, the stream is a    *)
(* queue of bits: a word read is made of the next bits appended, in their  *)
(* order and the highest of an octet first, and a call that fails takes    *)
(* and leaves nothing.                                                     *)
(***************************************************************************)
Queue ==
    INSTANCE BitQueue WITH
        Fields <- {bits \in {AppendedBits(v, n) : v \in Chunks, n \in ChunkWidths} :
                      \E v \in Chunks, n \in ChunkWidths : LowBits(bits, v, n)},
        Widths <- ReadWidths,
        queue <- SubSeq(bs_buf, bs_start + 1, bs_end),
        room <- bs_len - bs_end,
        answer <- bs_answer

IsBitQueue == Queue!Spec
=============================================================================
