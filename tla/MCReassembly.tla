---------------------------- MODULE MCReassembly ----------------------------
(***************************************************************************)
(* Instances of Reassembly for TLC.  Each key belongs to one of the        *)
(* protocols that use the engine, with the fragments that protocol's       *)
(* caller builds: acars.c (downlinks and uplinks share a table), miam.c    *)
(* and ohma.c.  Arrival times range over all values in every step, so      *)
(* fragments come in any order and the clock goes backwards too.           *)
(***************************************************************************)
EXTENDS Reassembly

CONSTANTS
    Down, Up, File, Ohma,   \* the keys of each protocol
    OhmaPayloads,           \* the payloads of OHMA fragments
    a, empty,               \* payloads: one octet, and none
    LastSeq,                \* bound: fragments are numbered up to this,
    Long,                   \* or one more for these keys
    Seconds, Usecs,         \* the values of rx_time
    TimeoutUsec,            \* microseconds of the timeout
    MaxFragments,           \* bound: length of a fragment list
    Tables                  \* bound: sets of keys in use at the same time

MCKeys     == Down \cup Up \cup File \cup Ohma
MCPayloads == {a, empty}
MCPayloadLen == [p \in MCPayloads |-> IF p = a THEN 1 ELSE 0]

MCProtocol ==
    [k \in MCKeys |->
        [out_of_order  |-> k \in Ohma,
         seq_num_first |-> CASE k \in Up   -> SEQ_FIRST_NONE
                             [] k \in Ohma -> 1
                             [] OTHER      -> 0,
         seq_num_wrap  |-> IF k \in Up THEN LastSeq + 1 ELSE SEQ_WRAP_NONE]]

Kind(seq, payload, len, cnt, final) ==
    [seq_num |-> seq, msg_data |-> payload, total_pdu_len |-> len,
     total_fragment_cnt |-> cnt, is_final_fragment |-> final]

\* ACARS blocks carry text and mark the final one.
AcarsKinds == {Kind(n, a, 0, 0, final) : n \in 0 .. LastSeq, final \in BOOLEAN}

\* A MIAM file transfer request carries the length, its segments the text.
FileKinds ==
    {Kind(0, empty, LastSeq, 0, FALSE)}
        \cup {Kind(n, p, 0, 0, FALSE) : n \in 1 .. LastSeq, p \in {a, empty}}

\* An OHMA message names the number of its parts in the first one at least.
OhmaKinds(parts) ==
    {Kind(n, p, 0, parts, FALSE) : n \in {1, parts}, p \in OhmaPayloads}
        \cup {Kind(n, a, 0, 0, FALSE) : n \in 2 .. parts}

KindsOf(k) ==
    CASE k \in File  -> FileKinds
      [] k \in Ohma  -> OhmaKinds(IF k \in Long THEN LastSeq + 1 ELSE LastSeq)
      [] OTHER       -> AcarsKinds

Info(k, kind, t) ==
    [msg_info           |-> k,
     msg_data           |-> kind.msg_data,
     total_pdu_len      |-> kind.total_pdu_len,
     total_fragment_cnt |-> kind.total_fragment_cnt,
     rx_time            |-> t,
     reasm_timeout      |-> [tv_sec |-> 1, tv_usec |-> TimeoutUsec],
     seq_num            |-> kind.seq_num,
     seq_num_first      |-> MCProtocol[k].seq_num_first,
     seq_num_wrap       |-> MCProtocol[k].seq_num_wrap,
     is_final_fragment  |-> kind.is_final_fragment,
     out_of_order       |-> MCProtocol[k].out_of_order]

InfosOf ==
    [k \in MCKeys |->
        {Info(k, kind, t) : kind \in KindsOf(k), t \in [tv_sec : Seconds, tv_usec : Usecs]}]

\* Arguments rejected at once: no key, no timeout (an ACARS message of unknown
\* bearer), reordering together with wraparound.
InvalidInfos ==
    LET f == CHOOSE f \in UNION Range(InfosOf) : TRUE
    IN  {[f EXCEPT !.msg_info = NULL],
         [f EXCEPT !.reasm_timeout = ZeroTime],
         [f EXCEPT !.out_of_order = TRUE, !.seq_num_wrap = 8]}

MCFragmentInfos == UNION Range(InfosOf) \cup InvalidInfos

\* A table is one protocol's: only keys that share a table are in use together.
Together(k) == \E T \in Tables : {k} \cup Entries \subseteq T

\* The steps of Reassembly that keep the fragment lists within the bound.
Bounded(k) ==
    fragment_table'[k] # NULL => Len(fragment_table'[k].fragment_list) <= MaxFragments

MCNext ==
    \/ \E f \in InvalidInfos : RejectInvalidArgs(f)
    \/ \E k \in Keys :
          Together(k) /\ \E f \in InfosOf[k] : FragmentAdd(f) /\ Bounded(k)
    \/ \E k \in Keys : PayloadGet(k)

MCSpec == Init /\ [][MCNext]_vars
=============================================================================
