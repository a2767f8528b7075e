------------------------------ MODULE ReasmLink ------------------------------
(***************************************************************************)
(* The reassembly engine between a radio link and the code that calls it.  *)
(* A sender divides messages into numbered fragments; the link loses,      *)
(* repeats, delays and reorders them.  The receiver does what acars.c,     *)
(* miam.c and ohma.c all do with a fragment: pass it to                    *)
(* la_reasm_fragment_add and, if that completes a message, fetch the       *)
(* payload at once; a fragment the engine skips is a message by itself.    *)
(***************************************************************************)
EXTENDS Reassembly

CONSTANTS
    Messages,       \* the messages to be sent
    MsgKey,         \* the key each message's header gives
    MsgLen,         \* the number of its fragments
    MsgStart,       \* the number of its first fragment
    Timeout,        \* the reassembly timeout, in seconds
    Lifetime,       \* seconds for which fragments of a message stay on the air
    MaxTime         \* bound on the clock

VARIABLES
    now,            \* the receiver's clock, in seconds
    sent_at,        \* when each message was sent; NULL before
    next_part,      \* on an orderly link: the part each message has reached
    delivered,      \* payloads handed to the layers above
    overdue         \* per key: calls its entry has survived after its timeout

allVars == <<fragment_table, frag_cnt, last, now, sent_at, next_part, delivered, overdue>>

At(t) == [tv_sec |-> t, tv_usec |-> 0]

Part(m, i) == [msg |-> m, part |-> i]
Body == [m \in Messages |-> [i \in 1 .. MsgLen[m] |-> Part(m, i)]]

\* Fragments are numbered from MsgStart, modulo the wrap if there is one.
SeqNum(m, i) ==
    LET n    == MsgStart[m] + i - 1
        wrap == Protocol[MsgKey[m]].seq_num_wrap
    IN  IF wrap = SEQ_WRAP_NONE THEN n ELSE n % wrap

(***************************************************************************)
(* The argument the callers build for part i.  OHMA names the number of    *)
(* parts and never marks the final one, ACARS marks it; a length is known  *)
(* only to MIAM, whose file transfers MCReassembly covers.                 *)
(***************************************************************************)
Info(m, i, t) ==
    LET p == Protocol[MsgKey[m]]
    IN  [msg_info           |-> MsgKey[m],
         msg_data           |-> Part(m, i),
         total_pdu_len      |-> 0,
         total_fragment_cnt |-> IF p.out_of_order /\ i = 1 THEN MsgLen[m] ELSE 0,
         rx_time            |-> At(t),
         reasm_timeout      |-> At(Timeout),
         seq_num            |-> SeqNum(m, i),
         seq_num_first      |-> p.seq_num_first,
         seq_num_wrap       |-> p.seq_num_wrap,
         is_final_fragment  |-> ~p.out_of_order /\ i = MsgLen[m],
         out_of_order       |-> p.out_of_order]

\* No two messages of a key whose numbers wrap share a number, whether or not
\* they are under way together: there are as few of them as that allows (ACARS
\* has 23 numbers, which uplinks take in turn).
ASSUME NumbersAssumption ==
    \A m, other \in Messages :
        /\ m # other
        /\ MsgKey[m] = MsgKey[other]
        /\ Protocol[MsgKey[m]].seq_num_wrap # SEQ_WRAP_NONE
        => {SeqNum(m, i) : i \in 1 .. MsgLen[m]}
             \cap {SeqNum(other, i) : i \in 1 .. MsgLen[other]} = {}

\* What the senders' constants are: the callers pass arguments the engine accepts.
ASSUME LinkAssumption ==
    /\ MsgKey \in [Messages -> Keys]
    /\ MsgLen \in [Messages -> Nat \ {0}]
    /\ MsgStart \in [Messages -> Nat]
    /\ Timeout \in Nat \ {0}
    /\ Lifetime \in Nat
    /\ MaxTime \in Nat
    /\ NULL \notin Nat
    /\ \A m \in Messages : \A i \in 1 .. MsgLen[m], t \in 0 .. MaxTime :
           Info(m, i, t) \in FragmentInfos

(***************************************************************************)
(* Where numbers wrap they are not reordered, and a message has no more    *)
(* parts than there are numbers.  A message begins with its protocol's     *)
(* first number if there is one, and its last part is not empty            *)
(* (MCReassembly shows what la_reasm_payload_get makes of empty ones).     *)
(***************************************************************************)
ASSUME SendersAssumption ==
    \A m \in Messages :
        LET p == Protocol[MsgKey[m]]
        IN  /\ p.seq_num_wrap # SEQ_WRAP_NONE =>
                   p.seq_num_wrap \in Nat \ {0} /\ ~p.out_of_order
            /\ \A i, j \in 1 .. MsgLen[m] : SeqNum(m, i) = SeqNum(m, j) => i = j
            /\ p.seq_num_first # SEQ_FIRST_NONE => SeqNum(m, 1) = p.seq_num_first
            /\ PayloadLen[Part(m, MsgLen[m])] > 0

LinkInit ==
    /\ Init
    /\ now = 0
    /\ sent_at = [m \in Messages |-> NULL]
    /\ next_part = [m \in Messages |-> 1]
    /\ delivered = {}
    /\ overdue = [k \in Keys |-> 0]

IsSent(m) == sent_at[m] # NULL
OnAir(m)  == IsSent(m) /\ now <= sent_at[m] + Lifetime

(***************************************************************************)
(* A key is reused only when fragments of the message before it can no     *)
(* longer arrive and an entry they left must have reached its timeout:     *)
(* message numbers and file identifiers go through a cycle first.  Uplinks *)
(* have no message number in their key and follow each other at once, but  *)
(* their block numbers continue from one message to the next.              *)
(***************************************************************************)
KeyFree(m) ==
    \A other \in Messages :
        MsgKey[other] = MsgKey[m] /\ IsSent(other) =>
            \/ Protocol[MsgKey[m]].seq_num_wrap # SEQ_WRAP_NONE
            \/ now > sent_at[other] + Lifetime + Timeout

Send(m) ==
    /\ ~IsSent(m)
    /\ KeyFree(m)
    /\ sent_at' = [sent_at EXCEPT ![m] = now]
    /\ UNCHANGED <<vars, now, next_part, delivered, overdue>>

\* The caller has a payload to fetch before it looks at the next fragment.
Fetching == last.status = "COMPLETE"

Accept(m, i) ==
    /\ ~Fetching
    /\ FragmentAdd(Info(m, i, now))
    /\ delivered' = IF last'.status = "SKIPPED"
                    THEN delivered \cup {<<Part(m, i)>>} ELSE delivered
    /\ overdue' = [k \in Keys |->
                      IF fragment_table'[k] # NULL /\ Outlived(fragment_table'[k], At(now))
                      THEN overdue[k] + 1 ELSE 0]
    /\ UNCHANGED <<now, sent_at>>

Fetch ==
    /\ Fetching
    /\ PayloadGet(last.key)
    /\ delivered' = IF last'.status = "PAYLOAD"
                    THEN delivered \cup {last'.payload} ELSE delivered
    /\ overdue' = [overdue EXCEPT ![last.key] = 0]
    /\ UNCHANGED <<now, sent_at, next_part>>

Tick ==
    /\ now < MaxTime
    /\ now' = now + 1
    /\ UNCHANGED <<vars, sent_at, next_part, delivered, overdue>>

-----------------------------------------------------------------------------
(***************************************************************************)
(* A radio link: any fragment on the air may arrive, any number of times,  *)
(* in any order, or not at all.                                            *)
(***************************************************************************)
RadioReceive(m, i) ==
    /\ OnAir(m)
    /\ Accept(m, i)
    /\ UNCHANGED next_part

RadioNext ==
    \/ \E m \in Messages : Send(m)
    \/ \E m \in Messages : \E i \in 1 .. MsgLen[m] : RadioReceive(m, i)
    \/ Fetch
    \/ Tick

RadioSpec == LinkInit /\ [][RadioNext]_allVars

(***************************************************************************)
(* An orderly link: the fragments of a message all arrive, in order and    *)
(* within its lifetime, which does not exceed the timeout.  The fragments  *)
(* of other messages arrive in between and the sender may repeat any       *)
(* fragment already received; where numbers wrap, only the latest, since   *)
(* an older one cannot be told from a fragment of the next message.        *)
(***************************************************************************)
OrderlyReceive(m) ==
    /\ OnAir(m)
    /\ next_part[m] <= MsgLen[m]
    /\ Accept(m, next_part[m])
    /\ next_part' = [next_part EXCEPT ![m] = @ + 1]

RepeatedReceive(m, i) ==
    /\ OnAir(m)
    /\ i < next_part[m]
    /\ Protocol[MsgKey[m]].seq_num_wrap # SEQ_WRAP_NONE => i = next_part[m] - 1
    /\ Accept(m, i)
    /\ UNCHANGED next_part

OrderlyTick ==
    /\ \A m \in Messages :
          IsSent(m) /\ next_part[m] <= MsgLen[m] => now < sent_at[m] + Lifetime
    /\ Tick

OrderlyNext ==
    \/ \E m \in Messages : Send(m)
    \/ \E m \in Messages : OrderlyReceive(m)
    \/ \E m \in Messages : \E i \in 1 .. MsgLen[m] : RepeatedReceive(m, i)
    \/ Fetch
    \/ OrderlyTick

(***************************************************************************)
(* The receiver fetches what is complete, and a fragment that can arrive   *)
(* again and again does: SF_allVars(OrderlyReceive(m)) with its enabling   *)
(* condition, which needs no look at la_reasm_fragment_add, spelled out.   *)
(***************************************************************************)
CanArrive(m) == ~Fetching /\ OnAir(m) /\ next_part[m] <= MsgLen[m]

Arrives(m) == next_part'[m] = next_part[m] + 1

OrderlySpec ==
    /\ LinkInit
    /\ [][OrderlyNext]_allVars
    /\ WF_allVars(Fetch)
    /\ \A m \in Messages : []<>CanArrive(m) => []<><<Arrives(m)>>_allVars

-----------------------------------------------------------------------------
LinkTypeOK ==
    /\ TypeOK
    /\ now \in 0 .. MaxTime
    /\ sent_at \in [Messages -> (0 .. MaxTime) \cup {NULL}]
    /\ next_part \in [Messages -> Nat]
    /\ \A m \in Messages : next_part[m] \in 1 .. MsgLen[m] + 1
    /\ delivered \subseteq Seq(Payloads)
    /\ overdue \in [Keys -> Nat]

(***************************************************************************)
(* Over any link, reassembly hands up only bodies of messages sent.        *)
(***************************************************************************)
Promise == INSTANCE MessageDelivery WITH
    sent <- {m \in Messages : IsSent(m)},
    received <- delivered,
    FirstMarked <- {m \in Messages : Protocol[MsgKey[m]].seq_num_first # SEQ_FIRST_NONE}

OnlyWholeMessages == Promise!Spec

(***************************************************************************)
(* Entries do not pile up: one whose timeout has passed is gone at the     *)
(* latest with the call after the next cleanup_interval ones, although     *)
(* nobody sends another fragment of its message.                           *)
(***************************************************************************)
StaleEntriesGo == \A k \in Keys : overdue[k] <= CleanupInterval

(***************************************************************************)
(* Of the link: sender, air and caller are in a state they can be in, and  *)
(* stale entries go.                                                       *)
(***************************************************************************)
LinkInv == LinkTypeOK /\ StaleEntriesGo

(***************************************************************************)
(* Over an orderly link no message is lost: repeated fragments, fragments  *)
(* of other messages, cleanups and remains of earlier messages under the   *)
(* same key do not keep it from being handed up whole.                     *)
(***************************************************************************)
EveryMessageArrives == \A m \in Messages : IsSent(m) ~> Body[m] \in delivered
=============================================================================
