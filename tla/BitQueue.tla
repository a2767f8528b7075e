------------------------------- MODULE BitQueue -------------------------------
(***************************************************************************)
(* What a bit stream promises the decoders that read fields from it: a     *)
(* queue of bits with room for so many.  Words come out in the order the   *)
(* octets went in, most significant bit first, and never with bits that    *)
(* were not put in.  Room is not given back.                               *)
(***************************************************************************)
EXTENDS Integers, Sequences

CONSTANTS
    Fields,         \* sequences of bits that may be put in
    Widths          \* widths of the words read

VARIABLES
    queue,          \* the bits not read yet
    room,           \* how many more can be put in
    answer          \* what the last call returned, and the bits of its word

vars == <<queue, room, answer>>

Init ==
    /\ queue = <<>>
    /\ room \in Nat
    /\ answer = [ret |-> 0, word |-> <<>>]

Put(bits) ==
    \/ /\ Len(bits) <= room
       /\ queue' = queue \o bits
       /\ room' = room - Len(bits)
       /\ answer' = [ret |-> 0, word |-> <<>>]
    \/ /\ Len(bits) > room
       /\ UNCHANGED <<queue, room>>
       /\ answer' = [ret |-> -1, word |-> <<>>]

Take(n) ==
    \/ /\ n <= Len(queue)
       /\ queue' = SubSeq(queue, n + 1, Len(queue))
       /\ answer' = [ret |-> 0, word |-> SubSeq(queue, 1, n)]
       /\ UNCHANGED room
    \/ /\ n > Len(queue)
       /\ answer' = [ret |-> -1, word |-> <<>>]
       /\ UNCHANGED <<queue, room>>

Next ==
    \/ \E bits \in Fields : Put(bits)
    \/ \E n \in Widths : Take(n)

Spec == Init /\ [][Next]_vars
=============================================================================
