---------------------------- MODULE GrowingString ----------------------------
(***************************************************************************)
(* la_vstring (vstring.c): a string that grows as text is appended, with a *)
(* final NUL kept in its buffer.  An append that finds too little room     *)
(* doubles the buffer until it has enough, and la_vstring_append_sprintf   *)
(* then prints a second time.  The limit is INT_MAX, so that twice the     *)
(* limit fits a size_t of any width the library is built for; but only a   *)
(* size_t wider than 32 bits holds every size the doubling can reach.      *)
(***************************************************************************)
EXTENDS Integers

CONSTANTS
    Lengths,        \* lengths of what is appended
    InitialSize,    \* LA_VSTR_INITIAL_SIZE
    SizeMax,        \* LA_VSTR_SIZE_MAX
    SizeModuli      \* 2^w for each width w of a size_t, in bits

\* SizeMax is INT_MAX, and a size_t has at least one bit more than an int's
\* value: on i686, SizeMax + 1 = 2^31 and the modulus is 2^32.  Lengths are
\* ints or lengths of buffers of that size.
ASSUME SizeAssumption ==
    /\ InitialSize \in Nat \ {0}
    /\ SizeMax \in Nat
    /\ SizeModuli \subseteq Nat
    /\ InitialSize <= SizeMax
    /\ \A m \in SizeModuli : 2 * (SizeMax + 1) <= m
    /\ Lengths \subseteq 0 .. SizeMax

VARIABLES
    size_modulus,           \* the one the library was built for
    len, allocated_size,    \* the fields of la_vstring
    pc,                     \* where a call is
    adding,                 \* the octets the call appends
    space_needed, new_size, \* la_vstring_grow's
    written                 \* octets of the buffer the last call wrote up to

stringVars == <<size_modulus, len, allocated_size, pc, adding, space_needed, new_size, written>>

StringInit ==
    /\ size_modulus \in SizeModuli
    /\ len = 0
    /\ allocated_size = InitialSize
    /\ pc = "idle"
    /\ adding = 0
    /\ space_needed = 0
    /\ new_size = 0
    /\ written = 1

Size(n) == n % size_modulus

SpaceLeft == allocated_size - len

\* The text and its NUL.
Write(n) ==
    /\ len' = len + n
    /\ written' = len + n + 1
    /\ pc' = "idle"
    /\ UNCHANGED <<size_modulus, allocated_size, space_needed, new_size>>

StartGrowing(n, needed, then) ==
    /\ adding' = n
    /\ space_needed' = needed
    /\ new_size' = allocated_size
    /\ pc' = then
    /\ UNCHANGED <<size_modulus, len, allocated_size>>

SprintfFits(n) == Size(1 + n) < SpaceLeft

\* What vsnprintf returns is n; result_size counts the NUL as well.  Without
\* the room, vsnprintf has filled the buffer with what fits.
AppendSprintf(n) ==
    /\ pc = "idle"
    /\ \/ /\ SprintfFits(n)
          /\ Write(n)
          /\ UNCHANGED adding
       \/ /\ ~SprintfFits(n)
          /\ StartGrowing(n, Size(1 + n), "sprintf")
          /\ written' = allocated_size

\* Mutant: a buffer may fill the string to the last octet.
BufferFitsExactly(n) == n <= SpaceLeft

BufferFits(n) == n < SpaceLeft

AppendBuffer(n) ==
    /\ pc = "idle"
    /\ n > 0
    /\ \/ /\ BufferFits(n)
          /\ Write(n)
          /\ UNCHANGED adding
       \/ /\ ~BufferFits(n)
          /\ StartGrowing(n, n, "buffer")
          /\ UNCHANGED written

\* Mutant: doubling stops when the text fits without its NUL.
FitsWithoutNul == Size(len + space_needed) <= new_size

\* The loop of la_vstring_grow has found a size.
LargeEnough == ~(Size(len + space_needed) >= new_size)

Growing == pc \in {"sprintf", "buffer"}

\* Mutant: it is the size allocated that is doubled.
DoubleAllocated ==
    /\ Growing
    /\ ~LargeEnough
    /\ new_size' = Size(2 * allocated_size)
    /\ UNCHANGED <<size_modulus, len, allocated_size, pc, adding, space_needed, written>>

Double ==
    /\ Growing
    /\ ~LargeEnough
    /\ new_size' = Size(2 * new_size)
    /\ UNCHANGED <<size_modulus, len, allocated_size, pc, adding, space_needed, written>>

\* la_assert(new_size <= LA_VSTR_SIZE_MAX)
SizeAllowed == new_size <= SizeMax

TooLarge ==
    /\ Growing
    /\ LargeEnough
    /\ ~SizeAllowed
    /\ pc' = "aborted"
    /\ UNCHANGED <<size_modulus, len, allocated_size, adding, space_needed, new_size, written>>

Realloc ==
    /\ Growing
    /\ LargeEnough
    /\ SizeAllowed
    /\ allocated_size' = new_size
    /\ pc' = IF pc = "sprintf" THEN "print_again" ELSE "copy"
    /\ UNCHANGED <<size_modulus, len, adding, space_needed, new_size, written>>

PrintAgain ==
    /\ pc = "print_again"
    /\ Write(adding)
    /\ adding' = 0

Copy ==
    /\ pc = "copy"
    /\ Write(adding)
    /\ adding' = 0

FinishAppend ==
    \/ Double
    \/ TooLarge
    \/ Realloc
    \/ PrintAgain
    \/ Copy

StringNext ==
    \/ \E n \in Lengths : AppendSprintf(n) \/ AppendBuffer(n)
    \/ FinishAppend

StringSpec == StringInit /\ [][StringNext]_stringVars /\ WF_stringVars(FinishAppend)

-----------------------------------------------------------------------------
\* la_vstring keeps a buffer no larger than the limit, with room for its NUL.
StringTypeOK ==
    /\ allocated_size \in InitialSize .. SizeMax
    /\ len \in 0 .. (allocated_size - 1)
    /\ pc \in {"idle", "sprintf", "buffer", "print_again", "copy", "aborted"}
    /\ adding \in Nat
    /\ space_needed \in Nat
    /\ new_size \in Nat
    /\ written \in Nat

(***************************************************************************)
(* Nothing is written outside the buffer, the NUL included, whichever way  *)
(* an append finds its room.                                               *)
(***************************************************************************)
InBuffer == written <= allocated_size

(***************************************************************************)
(* la_assert(result_size < space_left): printing a second time always has  *)
(* room, so the assertion never fails; nor does the one before the memcpy.  *)
(***************************************************************************)
SecondTimeFits ==
    /\ pc = "print_again" => Size(1 + adding) < SpaceLeft
    /\ pc = "copy" => Size(len + adding) <= SizeMax

(***************************************************************************)
(* The doubling ends: every append returns or is given up at the limit.    *)
(* On the wider size_t this holds for every append, as no sum comes near   *)
(* half of the modulus; on one of 32 bits, for the appends that need less  *)
(* than half of it.                                                        *)
(***************************************************************************)
BelowHalf == Growing => len + space_needed < size_modulus \div 2

AppendEnds == (pc # "idle" /\ BelowHalf) ~> pc \in {"idle", "aborted"}

(***************************************************************************)
(* la_assert(new_size <= LA_VSTR_SIZE_MAX): an append that needs more than *)
(* the limit is stopped there.  Not so with a size_t of 32 bits, where the *)
(* size reaches half of the modulus, doubles to 0 and never grows again.   *)
(***************************************************************************)
LimitIsEnforced == (Growing /\ len + space_needed >= SizeMax) ~> pc = "aborted"
=============================================================================
