--------------------------- MODULE MessageDelivery ---------------------------
(***************************************************************************)
(* What reassembly promises the layers above it: a payload handed up is    *)
(* the whole body of one message that was sent, never a mixture of two and *)
(* never one with a hole.  Where the protocol does not mark the first      *)
(* fragment of a message, a missing beginning goes unnoticed, and the      *)
(* payload is a body without some of its first parts.  A message may be    *)
(* lost, and it may be handed up more than once.                           *)
(***************************************************************************)
EXTENDS Sequences, Naturals

CONSTANTS
    Messages,
    Body,           \* the parts of each message, in order
    FirstMarked     \* the messages whose first part can be recognised

VARIABLES sent, received

Init == sent = {} /\ received = {}

Send(m) == sent' = sent \cup {m} /\ UNCHANGED received

Receive(m) ==
    /\ m \in sent
    /\ \E first \in 1 .. Len(Body[m]) :
          /\ m \in FirstMarked => first = 1
          /\ received' = received \cup {SubSeq(Body[m], first, Len(Body[m]))}
    /\ UNCHANGED sent

Next == \E m \in Messages : Send(m) \/ Receive(m)

Spec == Init /\ [][Next]_<<sent, received>>
=============================================================================
