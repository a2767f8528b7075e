----------------------------- MODULE Reassembly -----------------------------
(***************************************************************************)
(* One reassembly table of libacars (reassembly.c): the fragments of every *)
(* message in progress, keyed by a protocol's packet identifier.  Callers  *)
(* run la_reasm_fragment_add for each fragment received and                *)
(* la_reasm_payload_get for the payload of a completed message.            *)
(*                                                                         *)
(* The library is single threaded, so each call is one step.  What makes   *)
(* the component hard is its input: fragments arrive lost, duplicated,     *)
(* reordered, late, with clocks that go backwards, and the messages of     *)
(* several keys are interleaved.                                           *)
(***************************************************************************)
EXTENDS Integers, Sequences, FiniteSetsExt, SequencesExt

CONSTANTS
    Keys,               \* packet identifiers the get_key callback can return
    Payloads,           \* fragment payloads
    PayloadLen,         \* msg_data_len of each payload
    FragmentInfos,      \* the arguments callers pass to la_reasm_fragment_add
    Protocol,           \* per key: how its protocol numbers fragments
    CleanupInterval,    \* cleanup_interval of the table
    NULL                \* msg_info == NULL; a lookup that found nothing

SEQ_FIRST_NONE    == -1
SEQ_WRAP_NONE     == -1
SEQ_UNINITIALIZED == -2
USEC_PER_SEC      == 1000000
USEC_CARRY        == 1000000000

(***************************************************************************)
(* struct timeval, with a normalised microsecond part.                     *)
(***************************************************************************)
Time     == [tv_sec : Nat, tv_usec : 0 .. USEC_PER_SEC - 1]
ZeroTime == [tv_sec |-> 0, tv_usec |-> 0]

FragmentInfo ==
    [msg_info           : Keys \cup {NULL},
     msg_data           : Payloads,
     total_pdu_len      : Int,
     total_fragment_cnt : Int,
     rx_time            : Time,
     reasm_timeout      : Time,
     seq_num            : Int,
     seq_num_first      : Int,
     seq_num_wrap       : Int,
     is_final_fragment  : BOOLEAN,
     out_of_order       : BOOLEAN]   \* flags & LA_ALLOW_OUT_OF_ORDER_DELIVERY

Fragment == [seq_num : Int, payload : Payloads]

TableEntry ==
    [prev_seq_num              : Int,
     frags_collected_total_len : Nat,
     total_pdu_len             : Nat,
     frags_collected_cnt       : Nat,
     total_fragment_cnt        : Nat,
     first_frag_rx_time        : Time,
     reasm_timeout             : Time,
     fragment_list             : Seq(Fragment)]

Status == {"UNKNOWN", "COMPLETE", "IN_PROGRESS", "SKIPPED", "DUPLICATE",
           "FRAG_OUT_OF_SEQUENCE", "ARGS_INVALID"}

\* The outcomes of la_reasm_payload_get: < 0, 0 and the payload's length.
GetOutcome == {"NOT_FOUND", "EMPTY", "PAYLOAD"}

ProtocolRecord == [out_of_order : BOOLEAN, seq_num_first : Int, seq_num_wrap : Int]

ArgsInvalid(f) ==
    \/ f.msg_info = NULL
    \/ f.reasm_timeout = ZeroTime
    \/ f.out_of_order /\ f.seq_num_wrap # SEQ_WRAP_NONE

(***************************************************************************)
(* What the callers owe the engine: sequence numbers are non-negative      *)
(* (reassembly.h), not below the protocol's first one, and a key always    *)
(* belongs to the same protocol.                                           *)
(***************************************************************************)
FollowsProtocol(f) ==
    /\ f.out_of_order  = Protocol[f.msg_info].out_of_order
    /\ f.seq_num_first = Protocol[f.msg_info].seq_num_first
    /\ f.seq_num_wrap  = Protocol[f.msg_info].seq_num_wrap
    /\ f.seq_num >= 0
    /\ f.seq_num >= f.seq_num_first

ASSUME ConstantsAssumption ==
    /\ NULL \notin Keys
    /\ NULL \notin TableEntry
    /\ PayloadLen \in [Payloads -> Nat]
    /\ FragmentInfos \subseteq FragmentInfo
    /\ Protocol \in [Keys -> ProtocolRecord]
    /\ CleanupInterval \in Nat \ {0}

ASSUME CallersAssumption ==
    \A f \in FragmentInfos : ArgsInvalid(f) \/ FollowsProtocol(f)

VARIABLES
    fragment_table,     \* the hash of la_reasm_table_entries
    frag_cnt,           \* calls counted since the last cleanup
    last                \* the last call: its key, arguments and result

vars == <<fragment_table, frag_cnt, last>>

LastCall ==
    [status  : Status \cup GetOutcome,
     key     : Keys \cup {NULL},
     seq_num : Int,
     rx_time : Time,
     payload : Seq(Payloads)]

TypeOK ==
    /\ fragment_table \in [Keys -> TableEntry \cup {NULL}]
    /\ frag_cnt \in 0 .. CleanupInterval
    /\ last \in LastCall

-----------------------------------------------------------------------------
(***************************************************************************)
(* Timeouts.  The code carries microseconds into seconds only above 1e9.   *)
(***************************************************************************)
\* Mutant: the seconds of the timeout are forgotten.
DeadlineWithoutSeconds(rx_first, timeout) ==
    [tv_sec |-> rx_first.tv_sec, tv_usec |-> rx_first.tv_usec + timeout.tv_usec]

Deadline(rx_first, timeout) ==
    LET sec  == rx_first.tv_sec + timeout.tv_sec
        usec == rx_first.tv_usec + timeout.tv_usec
    IN  IF usec > USEC_CARRY
        THEN [tv_sec |-> sec + 1, tv_usec |-> usec - USEC_CARRY]
        ELSE [tv_sec |-> sec, tv_usec |-> usec]

After(t, u) ==
    \/ t.tv_sec > u.tv_sec
    \/ t.tv_sec = u.tv_sec /\ t.tv_usec > u.tv_usec

TimedOut(rx_last, rx_first, timeout) ==
    timeout # ZeroTime /\ After(rx_last, Deadline(rx_first, timeout))

Expired(entry, now) ==
    TimedOut(now, entry.first_frag_rx_time, entry.reasm_timeout)

\* Mutant: the removal test is inverted.
CleanupOfUnexpired(table, now) ==
    [k \in Keys |-> IF table[k] # NULL /\ ~Expired(table[k], now)
                    THEN NULL ELSE table[k]]

Cleanup(table, now) ==
    [k \in Keys |-> IF table[k] # NULL /\ Expired(table[k], now)
                    THEN NULL ELSE table[k]]

-----------------------------------------------------------------------------
(***************************************************************************)
(* The entry a fragment meets: the stored one unless its timeout has       *)
(* expired, in which case it is removed and the search restarts.           *)
(***************************************************************************)
\* Mutant: the timeout is not checked when a fragment arrives.
CurrentEvenExpired(f) == fragment_table[f.msg_info]

Current(f) ==
    LET stored == fragment_table[f.msg_info]
    IN  IF stored # NULL /\ Expired(stored, f.rx_time) THEN NULL ELSE stored

NewEntry(f) ==
    [prev_seq_num              |-> SEQ_UNINITIALIZED,
     frags_collected_total_len |-> 0,
     total_pdu_len             |-> IF f.total_pdu_len > 0 THEN f.total_pdu_len ELSE 0,
     frags_collected_cnt       |-> 0,
     total_fragment_cnt        |-> IF f.total_pdu_len <= 0 /\ f.total_fragment_cnt > 0
                                   THEN f.total_fragment_cnt ELSE 0,
     first_frag_rx_time        |-> f.rx_time,
     reasm_timeout             |-> f.reasm_timeout,
     fragment_list             |-> <<>>]

Unfragmented(f) ==
    /\ f.is_final_fragment
    /\ IF f.out_of_order
       THEN f.seq_num_first # SEQ_FIRST_NONE /\ f.seq_num_first = f.seq_num
       ELSE f.seq_num_first = SEQ_FIRST_NONE \/ f.seq_num_first = f.seq_num

NotFirst(f) ==
    /\ ~f.out_of_order
    /\ f.seq_num_first # SEQ_FIRST_NONE
    /\ f.seq_num_first # f.seq_num

\* The fragment has an entry to be checked against, if need be a new one.
Admitted(f) ==
    Current(f) # NULL \/ (~Unfragmented(f) /\ ~NotFirst(f))

\* Mutant: the first fragment of a message always starts a new entry.
EntryRestarted(f) ==
    IF Current(f) # NULL /\ f.seq_num # f.seq_num_first THEN Current(f) ELSE NewEntry(f)

Entry(f) == IF Current(f) # NULL THEN Current(f) ELSE NewEntry(f)

\* Mutant: any fragment numbered 0 is taken for a wraparound.
PrevSeqNumAnyZero(e, f) ==
    IF f.seq_num_wrap # SEQ_WRAP_NONE /\ f.seq_num = 0 THEN -1 ELSE e.prev_seq_num

\* prev_seq_num once a wraparound of the sequence numbers has been noticed.
PrevSeqNum(e, f) ==
    IF /\ f.seq_num_wrap # SEQ_WRAP_NONE
       /\ f.seq_num = 0
       /\ f.seq_num_wrap = e.prev_seq_num + 1
    THEN -1
    ELSE e.prev_seq_num

SeqNumExists(list, seq_num) == \E i \in DOMAIN list : list[i].seq_num = seq_num

\* Mutant: the last fragment received is not compared with.
IsDuplicateButLast(e, f) ==
    IF f.out_of_order
    THEN SeqNumExists(e.fragment_list, f.seq_num)
    ELSE f.seq_num_wrap = SEQ_WRAP_NONE /\ f.seq_num < PrevSeqNum(e, f)

\* Mutant: one number too many counts as already received.
IsDuplicateOffByOne(e, f) ==
    IF f.out_of_order
    THEN SeqNumExists(e.fragment_list, f.seq_num)
    ELSE PrevSeqNum(e, f) # SEQ_UNINITIALIZED /\ f.seq_num <= PrevSeqNum(e, f) + 1

\* Mutant: reordering protocols are not searched for the number.
IsDuplicateUnsearched(e, f) ==
    \/ PrevSeqNum(e, f) = f.seq_num
    \/ f.seq_num_wrap = SEQ_WRAP_NONE /\ f.seq_num < PrevSeqNum(e, f)

IsDuplicate(e, f) ==
    IF f.out_of_order
    THEN SeqNumExists(e.fragment_list, f.seq_num)
    ELSE \/ PrevSeqNum(e, f) = f.seq_num
         \/ f.seq_num_wrap = SEQ_WRAP_NONE /\ f.seq_num < PrevSeqNum(e, f)

InSequence(e, f) ==
    \/ f.out_of_order
    \/ PrevSeqNum(e, f) = SEQ_UNINITIALIZED
    \/ PrevSeqNum(e, f) + 1 = f.seq_num

\* Mutant: the fragment goes to the end.
InsertLast(list, x) == Append(list, x)

\* Mutant: the fragment takes the place of the one it should precede.
InsertOver(list, x) ==
    LET larger == {i \in DOMAIN list : list[i].seq_num > x.seq_num}
    IN  IF larger = {} THEN Append(list, x) ELSE [list EXCEPT ![Min(larger)] = x]

\* la_list_insert_sorted: before the first element with a larger number.
InsertSorted(list, x) ==
    LET larger == {i \in DOMAIN list : list[i].seq_num > x.seq_num}
    IN  IF larger = {} THEN Append(list, x) ELSE InsertAt(list, Min(larger), x)

\* The entry with the fragment added, list and totals updated.
Extended(e, f) ==
    LET x == [seq_num |-> f.seq_num, payload |-> f.msg_data]
        late_len == /\ f.out_of_order
                    /\ e.total_pdu_len = 0
                    /\ f.total_pdu_len > 0
        late_cnt == /\ f.out_of_order
                    /\ ~late_len
                    /\ e.total_fragment_cnt = 0
                    /\ f.total_fragment_cnt > 0
    IN  [prev_seq_num              |-> IF f.out_of_order THEN e.prev_seq_num ELSE f.seq_num,
         frags_collected_total_len |-> e.frags_collected_total_len + PayloadLen[f.msg_data],
         total_pdu_len             |-> IF late_len THEN f.total_pdu_len ELSE e.total_pdu_len,
         frags_collected_cnt       |-> e.frags_collected_cnt + 1,
         total_fragment_cnt        |-> IF late_cnt THEN f.total_fragment_cnt
                                       ELSE e.total_fragment_cnt,
         first_frag_rx_time        |-> e.first_frag_rx_time,
         reasm_timeout             |-> e.reasm_timeout,
         fragment_list             |-> IF f.out_of_order
                                       THEN InsertSorted(e.fragment_list, x)
                                       ELSE Append(e.fragment_list, x)]

IsComplete(e, final) ==
    \/ /\ e.total_pdu_len > 0
       /\ e.frags_collected_total_len >= e.total_pdu_len
    \/ /\ e.total_pdu_len = 0
       /\ e.total_fragment_cnt > 0
       /\ e.frags_collected_cnt >= e.total_fragment_cnt
    \/ /\ e.total_pdu_len = 0
       /\ e.total_fragment_cnt = 0
       /\ final

-----------------------------------------------------------------------------
(***************************************************************************)
(* la_reasm_fragment_add: one action per way it returns.  Every way but    *)
(* the first ends in Return, which counts the call and, every so often,    *)
(* removes the entries that have expired by the time of this fragment.     *)
(***************************************************************************)
Reported(f, status) ==
    last' = [status |-> status, key |-> f.msg_info, seq_num |-> f.seq_num,
             rx_time |-> f.rx_time, payload |-> <<>>]

\* Mutant: the counter is not reset.
ReturnWithoutReset(f, entry, status) ==
    LET table == [fragment_table EXCEPT ![f.msg_info] = entry]
    IN  /\ Reported(f, status)
        /\ fragment_table' = IF frag_cnt + 1 > CleanupInterval
                             THEN Cleanup(table, f.rx_time) ELSE table
        /\ frag_cnt' = frag_cnt + 1

\* Mutant: the table is never cleaned.
ReturnWithoutCleanup(f, entry, status) ==
    /\ Reported(f, status)
    /\ fragment_table' = [fragment_table EXCEPT ![f.msg_info] = entry]
    /\ frag_cnt' = IF frag_cnt + 1 > CleanupInterval THEN 0 ELSE frag_cnt + 1

Return(f, entry, status) ==
    LET table == [fragment_table EXCEPT ![f.msg_info] = entry]
        due   == frag_cnt + 1 > CleanupInterval
    IN  /\ Reported(f, status)
        /\ fragment_table' = IF due THEN Cleanup(table, f.rx_time) ELSE table
        /\ frag_cnt' = IF due THEN 0 ELSE frag_cnt + 1

RejectInvalidArgs(f) ==
    /\ ArgsInvalid(f)
    /\ Reported(f, "ARGS_INVALID")
    /\ UNCHANGED <<fragment_table, frag_cnt>>

SkipUnfragmented(f) ==
    /\ ~ArgsInvalid(f)
    /\ Current(f) = NULL
    /\ Unfragmented(f)
    /\ Return(f, NULL, "SKIPPED")

RejectNotFirst(f) ==
    /\ ~ArgsInvalid(f)
    /\ Current(f) = NULL
    /\ NotFirst(f)
    /\ Return(f, NULL, "FRAG_OUT_OF_SEQUENCE")

SkipDuplicate(f) ==
    /\ ~ArgsInvalid(f)
    /\ Admitted(f)
    /\ IsDuplicate(Entry(f), f)
    /\ Return(f, Entry(f), "DUPLICATE")

\* Mutant: the entry is not removed.
AbortKeepingEntry(f) ==
    /\ ~ArgsInvalid(f)
    /\ Admitted(f)
    /\ ~IsDuplicate(Entry(f), f)
    /\ ~InSequence(Entry(f), f)
    /\ Return(f, Entry(f), "FRAG_OUT_OF_SEQUENCE")

AbortOutOfSequence(f) ==
    /\ ~ArgsInvalid(f)
    /\ Admitted(f)
    /\ ~IsDuplicate(Entry(f), f)
    /\ ~InSequence(Entry(f), f)
    /\ Return(f, NULL, "FRAG_OUT_OF_SEQUENCE")

AddFragment(f) ==
    /\ ~ArgsInvalid(f)
    /\ Admitted(f)
    /\ ~IsDuplicate(Entry(f), f)
    /\ InSequence(Entry(f), f)
    /\ LET e == Extended(Entry(f), f)
       IN  Return(f, e, IF IsComplete(e, f.is_final_fragment)
                        THEN "COMPLETE" ELSE "IN_PROGRESS")

FragmentAdd(f) ==
    \/ RejectInvalidArgs(f)
    \/ SkipUnfragmented(f)
    \/ RejectNotFirst(f)
    \/ SkipDuplicate(f)
    \/ AbortOutOfSequence(f)
    \/ AddFragment(f)

-----------------------------------------------------------------------------
(***************************************************************************)
(* la_reasm_payload_get for the message with key k.                        *)
(***************************************************************************)
PayloadsOf(list) == [i \in DOMAIN list |-> list[i].payload]

Got(k, outcome, payload) ==
    last' = [status |-> outcome, key |-> k, seq_num |-> 0,
             rx_time |-> ZeroTime, payload |-> payload]

PayloadNotFound(k) ==
    /\ fragment_table[k] = NULL
    /\ Got(k, "NOT_FOUND", <<>>)
    /\ UNCHANGED <<fragment_table, frag_cnt>>

PayloadEmpty(k) ==
    /\ fragment_table[k] # NULL
    /\ fragment_table[k].frags_collected_total_len < 1
    /\ Got(k, "EMPTY", <<>>)
    /\ UNCHANGED <<fragment_table, frag_cnt>>

PayloadTaken(k) ==
    /\ fragment_table[k] # NULL
    /\ fragment_table[k].frags_collected_total_len >= 1
    /\ Got(k, "PAYLOAD", PayloadsOf(fragment_table[k].fragment_list))
    /\ fragment_table' = [fragment_table EXCEPT ![k] = NULL]
    /\ UNCHANGED frag_cnt

PayloadGet(k) == PayloadNotFound(k) \/ PayloadEmpty(k) \/ PayloadTaken(k)

-----------------------------------------------------------------------------
\* la_reasm_table_new: an empty table; no call has been made.
Init ==
    /\ fragment_table = [k \in Keys |-> NULL]
    /\ frag_cnt = 0
    /\ last = [status |-> "UNKNOWN", key |-> NULL, seq_num |-> 0,
               rx_time |-> ZeroTime, payload |-> <<>>]

Next ==
    \/ \E f \in FragmentInfos : FragmentAdd(f)
    \/ \E k \in Keys : PayloadGet(k)

Spec == Init /\ [][Next]_vars

-----------------------------------------------------------------------------
(***************************************************************************)
(* Properties.                                                             *)
(***************************************************************************)
Entries == {k \in Keys : fragment_table[k] # NULL}

\* q is the number after p, counted modulo wrap if the numbers wrap.
Successor(p, q, wrap) ==
    q = p + 1 \/ (wrap # SEQ_WRAP_NONE /\ q = 0 /\ p + 1 = wrap)

(***************************************************************************)
(* A protocol that forbids reordering has, under every key, a gapless run  *)
(* of fragments: each is the successor of the one before, the run starts   *)
(* at the protocol's first number if it has one, and prev_seq_num, the     *)
(* only number the code compares with, is that of the last one.            *)
(***************************************************************************)
GaplessEntry(e, p) ==
    LET list == e.fragment_list
    IN  /\ list # <<>>
        /\ e.prev_seq_num = list[Len(list)].seq_num
        /\ p.seq_num_first # SEQ_FIRST_NONE => list[1].seq_num = p.seq_num_first
        /\ \A i \in 1 .. Len(list) - 1 :
               Successor(list[i].seq_num, list[i + 1].seq_num, p.seq_num_wrap)

InOrderGapless ==
    \A k \in Entries :
        ~Protocol[k].out_of_order => GaplessEntry(fragment_table[k], Protocol[k])

(***************************************************************************)
(* A protocol that allows reordering has its fragments stored in strictly  *)
(* increasing order whatever order they came in: insertion keeps the list  *)
(* sorted and no number is stored twice.                                   *)
(***************************************************************************)
Increasing(list) ==
    \A i, j \in DOMAIN list : i < j => list[i].seq_num < list[j].seq_num

OutOfOrderSorted ==
    \A k \in Entries :
        Protocol[k].out_of_order => Increasing(fragment_table[k].fragment_list)

(***************************************************************************)
(* Every entry is one the engine can go on with: it holds a fragment and   *)
(* counts what it holds, none precedes the first number of its protocol,   *)
(* it got its timeout from a caller, and, where numbers do not wrap, they  *)
(* are consecutive, so that a number below prev_seq_num is one it stores.  *)
(***************************************************************************)
Timeouts == {f.reasm_timeout : f \in {g \in FragmentInfos : ~ArgsInvalid(g)}}

EntrySound(e, p) ==
    LET list == e.fragment_list
    IN  /\ list # <<>>
        /\ e.frags_collected_cnt = Len(list)
        /\ e.reasm_timeout \in Timeouts
        /\ \A i \in DOMAIN list :
               list[i].seq_num >= 0 /\ list[i].seq_num >= p.seq_num_first
        /\ p.out_of_order => Increasing(list)
        /\ ~p.out_of_order => GaplessEntry(e, p)
        /\ ~p.out_of_order /\ p.seq_num_wrap = SEQ_WRAP_NONE =>
               \A i \in DOMAIN list : list[i].seq_num = list[1].seq_num + i - 1

EntriesSound == \A k \in Entries : EntrySound(fragment_table[k], Protocol[k])

\* The length of the payloads of a list together.
TotalLen(list) ==
    LET total[n \in 0 .. Len(list)] ==
            IF n = 0 THEN 0 ELSE total[n - 1] + PayloadLen[list[n].payload]
    IN  total[Len(list)]

(***************************************************************************)
(* The total length an entry keeps is that of its list:                    *)
(* la_reasm_payload_get allocates frags_collected_total_len bytes and      *)
(* copies the whole list into them.                                        *)
(***************************************************************************)
TotalsMatchList ==
    \A k \in Entries :
        fragment_table[k].frags_collected_total_len = TotalLen(fragment_table[k].fragment_list)

(***************************************************************************)
(* When la_reasm_fragment_add reports COMPLETE, the message is there to be *)
(* fetched and meets the completion rule: neither a restart nor the        *)
(* cleanup that ends the same call has taken it away.                      *)
(***************************************************************************)
CompleteIsReady ==
    last.status = "COMPLETE" =>
        /\ last.key \in Entries
        /\ IsComplete(fragment_table[last.key], TRUE)
        /\ SeqNumExists(fragment_table[last.key].fragment_list, last.seq_num)

(***************************************************************************)
(* A fragment is called a duplicate only if the entry under its key does   *)
(* hold a fragment of that number, although an in-order protocol compares  *)
(* with prev_seq_num alone.  (The one case left out, unknown first number  *)
(* and no wrap, cannot tell a duplicate from a fragment that precedes the  *)
(* first one received; no protocol of libacars is of that kind.)           *)
(***************************************************************************)
DuplicateIsStored ==
    last.status = "DUPLICATE" =>
        LET p == Protocol[last.key]
        IN  \/ /\ ~p.out_of_order
               /\ p.seq_num_first = SEQ_FIRST_NONE
               /\ p.seq_num_wrap = SEQ_WRAP_NONE
            \/ /\ last.key \in Entries
               /\ SeqNumExists(fragment_table[last.key].fragment_list, last.seq_num)

(***************************************************************************)
(* "Reassembly of this message has been aborted and its entry removed":    *)
(* after a fragment out of sequence, and after an unfragmented message, no *)
(* entry is left to swallow the fragments of the next message of that key. *)
(***************************************************************************)
NothingLeftBehind ==
    last.status \in {"FRAG_OUT_OF_SEQUENCE", "SKIPPED"} => last.key \notin Entries

(***************************************************************************)
(* "All fragments must be received before the timeout expires": the time   *)
(* from the first fragment to one accepted into the same entry, in         *)
(* microseconds, is at most the timeout.                                   *)
(***************************************************************************)
Usec(t) == t.tv_sec * USEC_PER_SEC + t.tv_usec

Outlived(entry, now) ==
    Usec(now) - Usec(entry.first_frag_rx_time) > Usec(entry.reasm_timeout)

NoStaleMix ==
    last.status \in {"COMPLETE", "IN_PROGRESS", "DUPLICATE"} =>
        /\ last.key \in Entries
        /\ ~Outlived(fragment_table[last.key], last.rx_time)

(***************************************************************************)
(* A call for one key leaves the messages of all other keys alone, except  *)
(* that its cleanup drops those whose timeout really has passed.           *)
(***************************************************************************)
LeavesOthers ==
    \A k \in Entries \ {last'.key} :
        \/ fragment_table'[k] = fragment_table[k]
        \/ fragment_table'[k] = NULL /\ Outlived(fragment_table[k], last'.rx_time)

OthersUntouched == [][LeavesOthers]_vars

(***************************************************************************)
(* Before its timeout a message loses nothing of what was received, in     *)
(* whatever order duplicates and retransmissions arrive: its entry goes    *)
(* only when it is fetched or a fragment out of sequence aborts it, and    *)
(* until then a call adds at most one fragment and leaves the others in    *)
(* the order they are in.                                                  *)
(***************************************************************************)
OneMoreAtMost(s, t) ==
    s = t \/ \E i \in DOMAIN t : s = RemoveAt(t, i)

KeepsFragments ==
    \A k \in Entries :
        \/ Expired(fragment_table[k], last'.rx_time)
        \/ /\ fragment_table'[k] = NULL
           /\ last'.key = k
           /\ last'.status \in {"FRAG_OUT_OF_SEQUENCE", "PAYLOAD"}
        \/ /\ fragment_table'[k] # NULL
           /\ OneMoreAtMost(fragment_table[k].fragment_list,
                            fragment_table'[k].fragment_list)

FragmentsKept == [][KeepsFragments]_vars

(***************************************************************************)
(* Statements of the documentation that the code does not keep.            *)
(***************************************************************************)
\* reassembly.c: la_reasm_payload_get "Returns the reassembled payload and removes
\* the packet data from reassembly table": called for a message just completed,
\* it leaves nothing under that key.
PayloadGetRemoves ==
    [][/\ last.status = "COMPLETE"
       /\ last'.status \in GetOutcome
       /\ last'.key = last.key
       => fragment_table'[last.key] = NULL]_vars

\* reassembly.c: la_reasm_timed_out "Checks if time difference between rx_first
\* and rx_last is greater than timeout", so no entry expires before that.
ExpiredMeansOutlived ==
    last.status \in Status =>
        \A k \in Entries :
            Expired(fragment_table[k], last.rx_time) => Outlived(fragment_table[k], last.rx_time)
=============================================================================
