----------------------------- MODULE MCReasmLink -----------------------------
(***************************************************************************)
(* Instances of ReasmLink: two messages each for a downlink key, an uplink *)
(* key (the first one wraps, 4, 5, 0) and an OHMA conversation.            *)
(***************************************************************************)
EXTENDS ReasmLink

CONSTANTS
    kd, ku, ko,                 \* a downlink, an uplink and an OHMA key
    d1, d2, u1, u2, o1, o2,     \* messages
    Groups                      \* bound: messages that are sent in one behaviour

MCKeyOf(m) == IF m \in {d1, d2} THEN kd ELSE IF m \in {u1, u2} THEN ku ELSE ko

MCMsgKey   == [m \in Messages |-> MCKeyOf(m)]
MCMsgLen   == [m \in Messages |-> IF m \in {u1, d1, o1} THEN 3 ELSE 2]
MCMsgStart == [m \in Messages |-> CASE m = u1 -> 4 [] m = u2 -> 1
                                    [] m \in {o1, o2} -> 1 [] OTHER -> 0]

MCPayloads   == UNION {{Part(m, i) : i \in 1 .. MCMsgLen[m]} : m \in Messages}
MCPayloadLen == [p \in MCPayloads |-> 1]

MCProtocol ==
    [k \in Keys |-> [out_of_order  |-> k = ko,
                     seq_num_first |-> IF k = ku THEN SEQ_FIRST_NONE
                                       ELSE IF k = ko THEN 1 ELSE 0,
                     seq_num_wrap  |-> IF k = ku THEN 6 ELSE SEQ_WRAP_NONE]]

\* The arguments the receiver ever passes.
MCFragmentInfos ==
    UNION {{Info(m, i, t) : i \in 1 .. MsgLen[m], t \in 0 .. MaxTime}
               : m \in Messages}

\* The steps of the radio link that send messages of one group.
Grouped == \E G \in Groups : {m \in Messages : IsSent(m)}' \subseteq G

MCRadioSpec == LinkInit /\ [][RadioNext /\ Grouped]_allVars
=============================================================================
