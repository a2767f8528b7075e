-------------------------- MODULE ReassemblyProofs --------------------------
(***************************************************************************)
(* Proofs about Reassembly, for any keys, payloads, arguments and cleanup  *)
(* interval that satisfy the assumptions of that module.                   *)
(***************************************************************************)
EXTENDS Reassembly, SequenceTheorems, WellFoundedInduction, TLAPS

-----------------------------------------------------------------------------
(***************************************************************************)
(* Lemmas about the operators.                                             *)
(***************************************************************************)

\* Every non-empty set of naturals has the minimum that Min chooses.
LEMMA MinIsLeast ==
    ASSUME NEW S \in SUBSET Nat, S # {}
    PROVE  Min(S) \in S /\ \A n \in S : Min(S) <= n
<1>1. IsWellFoundedOn(OpToRel(<, Nat), Nat)
  BY NatLessThanWellFounded
<1>2. PICK m \in S : \A n \in S : ~(<<n, m>> \in OpToRel(<, Nat))
  BY <1>1, WFMin
<1>3. \A n \in S : ~(n < m)
  BY <1>2 DEF OpToRel
<1>4. \A n \in S : m <= n
  BY <1>3
<1> QED
  BY <1>4 DEF Min

\* The parts of a time are naturals, microseconds less than a second.
LEMMA UsecPerSec == USEC_PER_SEC \in Nat /\ USEC_PER_SEC > 0
BY SMT DEF USEC_PER_SEC

\* The zero of timeouts is a time.
LEMMA ZeroTimeType == ZeroTime \in Time
<1>1. 0 \in 0 .. USEC_PER_SEC - 1
  BY UsecPerSec
<1> QED
  BY <1>1 DEF ZeroTime, Time

\* The parts of a time are natural, microseconds less than a second.
LEMMA TimeParts ==
    ASSUME NEW t \in Time
    PROVE  t.tv_sec \in Nat /\ t.tv_usec \in Nat /\ t.tv_usec < USEC_PER_SEC
<1>1. t.tv_sec \in Nat /\ t.tv_usec \in 0 .. USEC_PER_SEC - 1
  BY DEF Time
<1> QED
  BY <1>1, UsecPerSec

\* The sum of two times never reaches the carry: the deadline is their
\* unnormalised sum.
LEMMA DeadlineIsSum ==
    ASSUME NEW t \in Time, NEW timeout \in Time
    PROVE  /\ Deadline(t, timeout).tv_sec = t.tv_sec + timeout.tv_sec
           /\ Deadline(t, timeout).tv_usec = t.tv_usec + timeout.tv_usec
<1>1. t.tv_usec + timeout.tv_usec <= USEC_CARRY
  BY TimeParts, SMT DEF USEC_CARRY, USEC_PER_SEC
<1>2. ~(t.tv_usec + timeout.tv_usec > USEC_CARRY)
  BY <1>1, TimeParts, SMT DEF USEC_CARRY
<1> QED
  BY <1>2 DEF Deadline

\* A fragment never outlives the deadline it sets itself: la_reasm_fragment_add
\* restarts at most once, and the cleanup ending a call that created an entry
\* leaves that entry in the table.
LEMMA FreshNotTimedOut ==
    ASSUME NEW t \in Time, NEW timeout \in Time
    PROVE  ~TimedOut(t, t, timeout)
BY DeadlineIsSum, TimeParts DEF TimedOut, After

\* An entry's times are times.
LEMMA EntryTimes ==
    ASSUME NEW e \in TableEntry
    PROVE  e.first_frag_rx_time \in Time /\ e.reasm_timeout \in Time
BY DEF TableEntry

\* What has outlived its timeout is found to be timed out.
LEMMA OutlivedIsTimedOut ==
    ASSUME NEW now \in Time, NEW e \in TableEntry, e.reasm_timeout # ZeroTime,
           Outlived(e, now)
    PROVE  Expired(e, now)
<1>1. /\ e.first_frag_rx_time \in Time
      /\ e.reasm_timeout \in Time
  BY EntryTimes
<1>2. After(now, Deadline(e.first_frag_rx_time, e.reasm_timeout))
  BY <1>1, DeadlineIsSum, TimeParts, SMT DEF Outlived, Usec, After, USEC_PER_SEC
<1> QED
  BY <1>2 DEF Expired, TimedOut

\* With timeouts of whole seconds the converse holds too.
LEMMA TimedOutIsOutlived ==
    ASSUME NEW now \in Time, NEW e \in TableEntry, e.reasm_timeout.tv_usec = 0,
           Expired(e, now)
    PROVE  Outlived(e, now)
<1>1. /\ e.first_frag_rx_time \in Time
      /\ e.reasm_timeout \in Time
  BY EntryTimes
<1> DEFINE first == e.first_frag_rx_time
           sec   == e.reasm_timeout.tv_sec
<1>2. \/ now.tv_sec > first.tv_sec + sec
      \/ now.tv_sec = first.tv_sec + sec /\ now.tv_usec > first.tv_usec
  BY <1>1, DeadlineIsSum, TimeParts DEF Expired, TimedOut, After
<1>3. now.tv_sec * USEC_PER_SEC + now.tv_usec
        > (first.tv_sec + sec) * USEC_PER_SEC + first.tv_usec
  <2>1. /\ now.tv_sec \in Nat /\ now.tv_usec \in Nat
        /\ first.tv_sec \in Nat /\ first.tv_usec \in Nat
        /\ first.tv_usec < USEC_PER_SEC
        /\ sec \in Nat
    BY <1>1, TimeParts
  <2> HIDE DEF first, sec
  <2>2. CASE now.tv_sec > first.tv_sec + sec
    <3>1. now.tv_sec * USEC_PER_SEC >= (first.tv_sec + sec) * USEC_PER_SEC + USEC_PER_SEC
      BY <2>1, <2>2, SMT DEF USEC_PER_SEC
    <3> QED
      BY <2>1, <3>1, UsecPerSec, SMT
  <2>3. CASE now.tv_sec = first.tv_sec + sec /\ now.tv_usec > first.tv_usec
    BY <2>1, <2>3, UsecPerSec, SMT
  <2> QED
    BY <1>2, <2>2, <2>3
<1> QED
  BY <1>1, <1>3, TimeParts, SMT DEF Outlived, Usec, USEC_PER_SEC

\* result is list with x inserted at position p: what follows is shifted by one.
IsInsertion(result, list, p, x) ==
    /\ result \in Seq(Fragment)
    /\ Len(result) = Len(list) + 1
    /\ \A i \in 1 .. Len(list) + 1 :
          result[i] = IF i < p THEN list[i] ELSE IF i = p THEN x ELSE list[i - 1]

\* The library's InsertAt does insert.
LEMMA InsertAtProperties ==
    ASSUME NEW s \in Seq(Fragment), NEW x \in Fragment,
           NEW p \in 1 .. Len(s) + 1
    PROVE  IsInsertion(InsertAt(s, p, x), s, p, x)
<1> DEFINE before == SubSeq(s, 1, p - 1)
           after  == SubSeq(s, p, Len(s))
           upto   == before \o <<x>>
<1>1. /\ before \in Seq(Fragment)
      /\ Len(before) = p - 1
      /\ \A i \in 1 .. p - 1 : before[i] = s[i]
  BY SubSeqProperties
<1>2. /\ after \in Seq(Fragment)
      /\ Len(after) = Len(s) - p + 1
      /\ \A i \in 1 .. Len(s) - p + 1 : after[i] = s[p + i - 1]
  BY SubSeqProperties
<1>3. <<x>> \in Seq(Fragment) /\ Len(<<x>>) = 1 /\ <<x>>[1] = x
  OBVIOUS
<1> HIDE DEF before, after
<1>4. /\ upto \in Seq(Fragment)
      /\ Len(upto) = p
      /\ \A i \in 1 .. p : upto[i] = IF i < p THEN s[i] ELSE x
  BY <1>1, <1>3, ConcatProperties
<1> HIDE DEF upto
<1>5. /\ upto \o after \in Seq(Fragment)
      /\ Len(upto \o after) = Len(s) + 1
      /\ \A i \in 1 .. Len(s) + 1 :
            (upto \o after)[i] = IF i <= p THEN upto[i] ELSE after[i - p]
  <2>1. /\ upto \o after \in Seq(Fragment)
        /\ Len(upto \o after) = Len(upto) + Len(after)
        /\ \A i \in 1 .. Len(upto) + Len(after) :
              (upto \o after)[i] = IF i <= Len(upto) THEN upto[i] ELSE after[i - Len(upto)]
    BY <1>2, <1>4, ConcatProperties
  <2>2. Len(upto) + Len(after) = Len(s) + 1
    BY <1>2, <1>4, LenProperties
  <2> QED
    BY <1>4, <2>1, <2>2
<1>6. InsertAt(s, p, x) = upto \o after
  BY DEF InsertAt, upto, before, after
<1> QED
  BY <1>2, <1>4, <1>5, <1>6 DEF IsInsertion

\* la_list_insert_sorted inserts behind the numbers up to its own.
LEMMA InsertSortedInserts ==
    ASSUME NEW list \in Seq(Fragment), NEW x \in Fragment
    PROVE  \E p \in 1 .. Len(list) + 1 :
              /\ IsInsertion(InsertSorted(list, x), list, p, x)
              /\ \A i \in 1 .. p - 1 : list[i].seq_num <= x.seq_num
              /\ p <= Len(list) => list[p].seq_num > x.seq_num
<1> DEFINE larger == {i \in DOMAIN list : list[i].seq_num > x.seq_num}
<1>1. /\ Len(list) \in Nat
      /\ DOMAIN list = 1 .. Len(list)
      /\ \A i \in 1 .. Len(list) : list[i].seq_num \in Int
      /\ x.seq_num \in Int
  <2>1. Len(list) \in Nat /\ DOMAIN list = 1 .. Len(list)
    BY LenProperties
  <2>2. \A i \in 1 .. Len(list) : list[i] \in Fragment
    BY ElementOfSeq
  <2> QED
    BY <2>1, <2>2 DEF Fragment
<1>2. CASE larger = {}
  <2>1. IsInsertion(InsertSorted(list, x), list, Len(list) + 1, x)
    BY <1>1, <1>2, AppendProperties DEF IsInsertion, InsertSorted
  <2>2. \A i \in 1 .. (Len(list) + 1) - 1 : list[i].seq_num <= x.seq_num
    BY <1>1, <1>2
  <2>3. Len(list) + 1 \in 1 .. Len(list) + 1 /\ ~(Len(list) + 1 <= Len(list))
    BY <1>1
  <2> QED
    BY <2>1, <2>2, <2>3
<1>3. CASE larger # {}
  <2>1. larger \in SUBSET Nat
    BY <1>1
  <2>2. PICK p \in larger : p = Min(larger) /\ \A i \in larger : p <= i
    BY <1>3, <2>1, MinIsLeast
  <2>3. p \in 1 .. Len(list) /\ p \in 1 .. Len(list) + 1
    BY <1>1, <2>2
  <2>4. IsInsertion(InsertAt(list, p, x), list, p, x)
    BY <2>3, InsertAtProperties
  <2>5. InsertSorted(list, x) = InsertAt(list, p, x)
    BY <1>3, <2>2 DEF InsertSorted
  <2>6. list[p].seq_num > x.seq_num
    BY <2>2
  <2>7. ASSUME NEW i \in 1 .. p - 1  PROVE list[i].seq_num <= x.seq_num
    <3>1. i \in 1 .. Len(list) /\ i < p
      BY <1>1, <2>3
    <3>2. ASSUME i \in larger  PROVE FALSE
      <4>1. p <= i
        BY <2>2, <3>2
      <4> QED
        BY <2>3, <3>1, <4>1
    <3> QED
      BY <1>1, <3>1, <3>2
  <2> QED
    BY <2>3, <2>4, <2>5, <2>6, <2>7
<1> QED
  BY <1>2, <1>3

\* On a list in increasing order, and for a new number, the list stays in
\* order and grows by that one fragment.
LEMMA InsertSortedKeepsOrder ==
    ASSUME NEW list \in Seq(Fragment), NEW x \in Fragment,
           Increasing(list), ~SeqNumExists(list, x.seq_num)
    PROVE  Increasing(InsertSorted(list, x))
<1> DEFINE result == InsertSorted(list, x)
<1>1. /\ Len(list) \in Nat
      /\ DOMAIN list = 1 .. Len(list)
      /\ \A i \in 1 .. Len(list) : list[i].seq_num \in Int
      /\ x.seq_num \in Int
  <2>1. Len(list) \in Nat /\ DOMAIN list = 1 .. Len(list)
    BY LenProperties
  <2>2. \A i \in 1 .. Len(list) : list[i] \in Fragment
    BY ElementOfSeq
  <2> QED
    BY <2>1, <2>2 DEF Fragment
<1>2. \A i \in 1 .. Len(list) : list[i].seq_num # x.seq_num
  BY <1>1 DEF SeqNumExists
<1>3. PICK p \in 1 .. Len(list) + 1 :
         /\ IsInsertion(result, list, p, x)
         /\ \A i \in 1 .. p - 1 : list[i].seq_num <= x.seq_num
         /\ p <= Len(list) => list[p].seq_num > x.seq_num
  BY InsertSortedInserts
<1> HIDE DEF result
<1>4. /\ DOMAIN result = 1 .. Len(list) + 1
      /\ \A i \in 1 .. Len(list) + 1 :
            result[i] = IF i < p THEN list[i] ELSE IF i = p THEN x ELSE list[i - 1]
  BY <1>3, LenProperties DEF IsInsertion
<1>5. \A i \in 1 .. Len(list) : list[i].seq_num > x.seq_num <=> i >= p
  <2> SUFFICES ASSUME NEW i \in 1 .. Len(list)
               PROVE  list[i].seq_num > x.seq_num <=> i >= p
    OBVIOUS
  <2>1. ASSUME i > p  PROVE list[i].seq_num > list[p].seq_num
    BY <1>1, <2>1 DEF Increasing
  <2> QED
    BY <1>1, <1>3, <2>1
<1>6. ASSUME NEW i \in 1 .. Len(list) + 1, NEW j \in 1 .. Len(list) + 1, i < j
      PROVE  result[i].seq_num < result[j].seq_num
  <2>1. CASE j < p
    BY <1>1, <1>4, <1>6, <2>1 DEF Increasing
  <2>2. CASE j = p
    BY <1>1, <1>2, <1>4, <1>5, <1>6, <2>2
  <2>3. CASE i = p
    <3>1. j - 1 \in 1 .. Len(list) /\ j - 1 >= p
      BY <1>1, <1>6, <2>3
    <3>2. list[j - 1].seq_num > x.seq_num
      BY <1>5, <3>1
    <3> QED
      BY <1>1, <1>4, <1>6, <2>3, <3>1, <3>2
  <2>4. CASE i < p /\ p < j
    <3>1. i \in 1 .. Len(list) /\ j - 1 \in 1 .. Len(list)
      BY <1>1, <2>4
    <3>2. list[i].seq_num < x.seq_num /\ x.seq_num < list[j - 1].seq_num
      BY <1>1, <1>2, <1>5, <2>4, <3>1
    <3> QED
      BY <1>1, <1>4, <2>4, <3>1, <3>2
  <2>5. CASE i > p
    <3>1. i - 1 \in 1 .. Len(list) /\ j - 1 \in 1 .. Len(list) /\ i - 1 < j - 1
      BY <1>1, <1>6, <2>5
    <3>2. list[i - 1].seq_num < list[j - 1].seq_num
      BY <1>1, <3>1 DEF Increasing
    <3> QED
      BY <1>1, <1>4, <1>6, <2>5, <3>2
  <2> QED
    BY <1>1, <1>6, <2>1, <2>2, <2>3, <2>4, <2>5
<1> QED
  BY <1>4, <1>6 DEF Increasing, result

-----------------------------------------------------------------------------
(***************************************************************************)
(* Type correctness.                                                       *)
(***************************************************************************)

\* What a call that is not rejected can rely on.
LEMMA ArgumentTypes ==
    ASSUME NEW f \in FragmentInfos, ~ArgsInvalid(f)
    PROVE  /\ f.msg_info \in Keys
           /\ f.msg_data \in Payloads
           /\ PayloadLen[f.msg_data] \in Nat
           /\ f.total_pdu_len \in Int
           /\ f.total_fragment_cnt \in Int
           /\ f.rx_time \in Time
           /\ f.reasm_timeout \in Time
           /\ f.reasm_timeout # ZeroTime
           /\ f.seq_num \in Int
           /\ f.seq_num_first \in Int
           /\ f.seq_num_wrap \in Int
           /\ f.is_final_fragment \in BOOLEAN
           /\ f.out_of_order \in BOOLEAN
           /\ FollowsProtocol(f)
<1>1. f \in FragmentInfo
  BY ConstantsAssumption
<1>2. f.msg_info \in Keys \cup {NULL} /\ f.msg_data \in Payloads
  BY <1>1 DEF FragmentInfo
<1>3. f.msg_info # NULL /\ f.reasm_timeout # ZeroTime
  BY DEF ArgsInvalid
<1>4. PayloadLen[f.msg_data] \in Nat
  BY <1>2, ConstantsAssumption
<1> QED
  BY <1>1, <1>2, <1>3, <1>4, CallersAssumption DEF FragmentInfo

\* Under a key there is an entry or none.
LEMMA StoredEntry ==
    ASSUME TypeOK, NEW k \in Keys
    PROVE  fragment_table[k] \in TableEntry \cup {NULL}
BY DEF TypeOK

\* Current finds the stored entry, not timed out, or nothing.
LEMMA CurrentEntry ==
    ASSUME TypeOK, NEW f \in FragmentInfos, ~ArgsInvalid(f), Current(f) # NULL
    PROVE  /\ fragment_table[f.msg_info] = Current(f)
           /\ Current(f) \in TableEntry
           /\ ~Expired(Current(f), f.rx_time)
<1>1. fragment_table[f.msg_info] \in TableEntry \cup {NULL}
  BY ArgumentTypes, StoredEntry
<1> QED
  BY <1>1 DEF Current

\* An entry just made has its type and is not expired.
LEMMA NewEntryType ==
    ASSUME NEW f \in FragmentInfos, ~ArgsInvalid(f)
    PROVE  NewEntry(f) \in TableEntry /\ ~Expired(NewEntry(f), f.rx_time)
<1>1. f.rx_time \in Time /\ f.reasm_timeout \in Time
  BY ArgumentTypes
<1>2. NewEntry(f) \in TableEntry
  <2>1. f.total_pdu_len \in Int /\ f.total_fragment_cnt \in Int
    BY ArgumentTypes
  <2>2. (IF f.total_pdu_len > 0 THEN f.total_pdu_len ELSE 0) \in Nat
    BY <2>1
  <2>3. (IF f.total_pdu_len <= 0 /\ f.total_fragment_cnt > 0
         THEN f.total_fragment_cnt ELSE 0) \in Nat
    BY <2>1
  <2>4. <<>> \in Seq(Fragment)
    OBVIOUS
  <2> QED
    BY <1>1, <2>2, <2>3, <2>4 DEF NewEntry, TableEntry, SEQ_UNINITIALIZED
<1>3. ~Expired(NewEntry(f), f.rx_time)
  BY <1>1, FreshNotTimedOut DEF Expired, NewEntry
<1> QED
  BY <1>2, <1>3

\* The entry a fragment is looked at with has its type and is not expired.
LEMMA EntryType ==
    ASSUME TypeOK, NEW f \in FragmentInfos, ~ArgsInvalid(f)
    PROVE  Entry(f) \in TableEntry /\ ~Expired(Entry(f), f.rx_time)
BY CurrentEntry, NewEntryType DEF Entry

\* An entry that gains a fragment keeps its type and its age.
LEMMA ExtendedType ==
    ASSUME NEW f \in FragmentInfos, ~ArgsInvalid(f), NEW e \in TableEntry
    PROVE  /\ Extended(e, f) \in TableEntry
           /\ Expired(Extended(e, f), f.rx_time) = Expired(e, f.rx_time)
<1> DEFINE x == [seq_num |-> f.seq_num, payload |-> f.msg_data]
<1>1. x \in Fragment
  BY ArgumentTypes DEF Fragment
<1>2. e.fragment_list \in Seq(Fragment)
  BY DEF TableEntry
<1>3. InsertSorted(e.fragment_list, x) \in Seq(Fragment)
  BY <1>1, <1>2, InsertSortedInserts DEF IsInsertion
<1>4. Append(e.fragment_list, x) \in Seq(Fragment)
  BY <1>1, <1>2, AppendProperties
<1>5. /\ e.prev_seq_num \in Int
      /\ e.frags_collected_total_len \in Nat
      /\ e.total_pdu_len \in Nat
      /\ e.frags_collected_cnt \in Nat
      /\ e.total_fragment_cnt \in Nat
      /\ e.first_frag_rx_time \in Time
      /\ e.reasm_timeout \in Time
  BY DEF TableEntry
<1>6. /\ f.seq_num \in Int
      /\ PayloadLen[f.msg_data] \in Nat
      /\ f.total_pdu_len \in Int
      /\ f.total_fragment_cnt \in Int
  BY ArgumentTypes
<1> HIDE DEF x
<1>7. Extended(e, f) \in TableEntry
  <2> DEFINE late_len == f.out_of_order /\ e.total_pdu_len = 0 /\ f.total_pdu_len > 0
             late_cnt == /\ f.out_of_order
                         /\ ~late_len
                         /\ e.total_fragment_cnt = 0
                         /\ f.total_fragment_cnt > 0
  <2>1. (IF late_len THEN f.total_pdu_len ELSE e.total_pdu_len) \in Nat
    BY <1>5, <1>6
  <2>2. (IF late_cnt THEN f.total_fragment_cnt ELSE e.total_fragment_cnt) \in Nat
    BY <1>5, <1>6
  <2>3. e.frags_collected_total_len + PayloadLen[f.msg_data] \in Nat
    BY <1>5, <1>6
  <2>4. e.frags_collected_cnt + 1 \in Nat
    BY <1>5
  <2>5. (IF f.out_of_order THEN InsertSorted(e.fragment_list, x)
                           ELSE Append(e.fragment_list, x)) \in Seq(Fragment)
    BY <1>3, <1>4
  <2>6. (IF f.out_of_order THEN e.prev_seq_num ELSE f.seq_num) \in Int
    BY <1>5, <1>6
  <2> QED
    BY <1>5, <2>1, <2>2, <2>3, <2>4, <2>5, <2>6 DEF Extended, TableEntry, x
<1>8. /\ Extended(e, f).first_frag_rx_time = e.first_frag_rx_time
      /\ Extended(e, f).reasm_timeout = e.reasm_timeout
  BY DEF Extended
<1> QED
  BY <1>7, <1>8 DEF Expired

\* What a call leaves in the table: the entry it passes to Return, and every
\* other entry as it was, but for those that a cleanup finds expired.
LEMMA ReturnEffect ==
    ASSUME TypeOK, NEW f \in FragmentInfos, ~ArgsInvalid(f),
           NEW entry \in TableEntry \cup {NULL}, NEW status \in Status,
           Return(f, entry, status)
    PROVE  /\ TypeOK'
           /\ last' = [status |-> status, key |-> f.msg_info, seq_num |-> f.seq_num,
                       rx_time |-> f.rx_time, payload |-> <<>>]
           /\ \A k \in Keys \ {f.msg_info} :
                 \/ fragment_table'[k] = fragment_table[k]
                 \/ /\ fragment_table[k] # NULL
                    /\ Expired(fragment_table[k], f.rx_time)
                    /\ fragment_table'[k] = NULL
           /\ \/ fragment_table'[f.msg_info] = entry
              \/ /\ entry # NULL
                 /\ Expired(entry, f.rx_time)
                 /\ fragment_table'[f.msg_info] = NULL
<1> DEFINE table == [fragment_table EXCEPT ![f.msg_info] = entry]
           due   == frag_cnt + 1 > CleanupInterval
<1>1. f.msg_info \in Keys /\ f.rx_time \in Time /\ f.seq_num \in Int
  BY ArgumentTypes
<1>2. /\ fragment_table' = IF due THEN Cleanup(table, f.rx_time) ELSE table
      /\ frag_cnt' = IF due THEN 0 ELSE frag_cnt + 1
      /\ last' = [status |-> status, key |-> f.msg_info, seq_num |-> f.seq_num,
                  rx_time |-> f.rx_time, payload |-> <<>>]
  BY DEF Return, Reported
<1>3. /\ table \in [Keys -> TableEntry \cup {NULL}]
      /\ table[f.msg_info] = entry
      /\ \A k \in Keys \ {f.msg_info} : table[k] = fragment_table[k]
  BY <1>1 DEF TypeOK
<1> HIDE DEF table
<1>4. /\ fragment_table' \in [Keys -> TableEntry \cup {NULL}]
      /\ \A k \in Keys : \/ fragment_table'[k] = table[k]
                         \/ /\ table[k] # NULL
                            /\ Expired(table[k], f.rx_time)
                            /\ fragment_table'[k] = NULL
  BY <1>2, <1>3 DEF Cleanup
<1>5. frag_cnt' \in 0 .. CleanupInterval
  BY <1>2, ConstantsAssumption DEF TypeOK
<1>6. last' \in LastCall
  <2>1. <<>> \in Seq(Payloads)
    OBVIOUS
  <2> QED
    BY <1>1, <1>2, <2>1 DEF LastCall
<1>7. TypeOK'
  BY <1>4, <1>5, <1>6 DEF TypeOK
<1> QED
  BY <1>1, <1>2, <1>3, <1>4, <1>7

-----------------------------------------------------------------------------
(***************************************************************************)
(* The entry that a fragment is added to, and the one that results.        *)
(***************************************************************************)

\* A fragment follows the protocol of its key.
LEMMA ProtocolOfFragment ==
    ASSUME NEW f \in FragmentInfos, ~ArgsInvalid(f)
    PROVE  LET p == Protocol[f.msg_info]
           IN  /\ p.out_of_order = f.out_of_order
               /\ p.out_of_order \in BOOLEAN
               /\ p.seq_num_first = f.seq_num_first
               /\ p.seq_num_wrap = f.seq_num_wrap
               /\ p.seq_num_first \in Int
               /\ p.seq_num_wrap \in Int
               /\ f.seq_num >= 0
               /\ f.seq_num >= p.seq_num_first
BY ArgumentTypes DEF FollowsProtocol

\* No fragment is a duplicate or out of sequence for an entry just created.
LEMMA NewEntryAdmits ==
    ASSUME NEW f \in FragmentInfos, ~ArgsInvalid(f)
    PROVE  ~IsDuplicate(NewEntry(f), f) /\ InSequence(NewEntry(f), f)
<1>1. /\ NewEntry(f).prev_seq_num = -2
      /\ NewEntry(f).fragment_list = <<>>
  BY DEF NewEntry, SEQ_UNINITIALIZED
<1>2. f.seq_num \in Int /\ f.seq_num >= 0 /\ f.seq_num_wrap \in Int
  BY ArgumentTypes, ProtocolOfFragment
<1>3. PrevSeqNum(NewEntry(f), f) = -2
  BY <1>1, <1>2 DEF PrevSeqNum, SEQ_WRAP_NONE
<1>4. ~SeqNumExists(<<>>, f.seq_num)
  BY DEF SeqNumExists
<1> QED
  BY <1>1, <1>2, <1>3, <1>4 DEF IsDuplicate, InSequence, SEQ_UNINITIALIZED

\* The numbers of a list of fragments, and of the list with one more.
LEMMA NumberTypes ==
    ASSUME NEW list \in Seq(Fragment)
    PROVE  /\ Len(list) \in Nat
           /\ DOMAIN list = 1 .. Len(list)
           /\ list = <<>> <=> Len(list) = 0
           /\ \A i \in 1 .. Len(list) : list[i].seq_num \in Int
<1>1. Len(list) \in Nat /\ DOMAIN list = 1 .. Len(list)
  BY LenProperties
<1>2. \A i \in 1 .. Len(list) : list[i] \in Fragment
  BY ElementOfSeq
<1>3. list = <<>> <=> Len(list) = 0
  BY EmptySeq
<1> QED
  BY <1>1, <1>2, <1>3 DEF Fragment

\* Out of order: a new number goes to its place.
LEMMA ExtendedOutOfOrder ==
    ASSUME NEW f \in FragmentInfos, ~ArgsInvalid(f), f.out_of_order,
           NEW e \in TableEntry,
           \A i \in DOMAIN e.fragment_list :
               /\ e.fragment_list[i].seq_num >= 0
               /\ e.fragment_list[i].seq_num >= f.seq_num_first,
           Increasing(e.fragment_list),
           ~SeqNumExists(e.fragment_list, f.seq_num)
    PROVE  LET list == Extended(e, f).fragment_list
           IN  /\ Len(list) = Len(e.fragment_list) + 1
               /\ \A i \in DOMAIN list :
                      list[i].seq_num >= 0 /\ list[i].seq_num >= f.seq_num_first
               /\ Increasing(list)
               /\ SeqNumExists(list, f.seq_num)
<1> DEFINE x    == [seq_num |-> f.seq_num, payload |-> f.msg_data]
           old  == e.fragment_list
           list == Extended(e, f).fragment_list
<1>1. x \in Fragment /\ x.seq_num = f.seq_num
  BY ArgumentTypes DEF Fragment
<1>2. old \in Seq(Fragment)
  BY DEF TableEntry
<1>3. list = InsertSorted(old, x)
  BY DEF Extended
<1> HIDE DEF x, list
<1>4. PICK p \in 1 .. Len(old) + 1 : IsInsertion(list, old, p, x)
  BY <1>1, <1>2, <1>3, InsertSortedInserts
<1>5. /\ DOMAIN list = 1 .. Len(old) + 1
      /\ \A i \in 1 .. Len(old) + 1 :
            list[i] = IF i < p THEN old[i] ELSE IF i = p THEN x ELSE old[i - 1]
  BY <1>4, LenProperties DEF IsInsertion
<1>6. Len(list) = Len(old) + 1
  BY <1>4 DEF IsInsertion
<1>7. Increasing(list)
  BY <1>1, <1>2, <1>3, InsertSortedKeepsOrder
<1>8. Len(old) \in Nat /\ DOMAIN old = 1 .. Len(old)
  BY <1>2, NumberTypes
<1>9. ASSUME NEW i \in DOMAIN list
      PROVE  list[i].seq_num >= 0 /\ list[i].seq_num >= f.seq_num_first
  <2>1. CASE i = p
    BY <1>1, <1>5, <2>1, ProtocolOfFragment
  <2>2. CASE i < p
    BY <1>5, <1>8, <2>2
  <2>3. CASE i > p
    <3>1. i - 1 \in 1 .. Len(old)
      BY <1>5, <1>8, <2>3
    <3> QED
      BY <1>5, <1>8, <2>3, <3>1
  <2> QED
    BY <1>5, <1>8, <2>1, <2>2, <2>3
<1>10. SeqNumExists(list, f.seq_num)
  <2>1. list[p].seq_num = f.seq_num /\ p \in DOMAIN list
    BY <1>1, <1>5
  <2> QED
    BY <2>1 DEF SeqNumExists
<1> QED
  BY <1>6, <1>7, <1>9, <1>10 DEF list

\* In order: a new entry begins with the fragment.
LEMMA BegunInOrder ==
    ASSUME NEW f \in FragmentInfos, ~ArgsInvalid(f), ~f.out_of_order, ~NotFirst(f)
    PROVE  EntrySound(Extended(NewEntry(f), f), Protocol[f.msg_info])
<1> DEFINE x == [seq_num |-> f.seq_num, payload |-> f.msg_data]
           e == Extended(NewEntry(f), f)
           p == Protocol[f.msg_info]
<1>1. e.fragment_list = <<x>>
  BY DEF Extended, NewEntry
<1>2. /\ e.prev_seq_num = f.seq_num
      /\ e.frags_collected_cnt = 1
      /\ e.reasm_timeout = f.reasm_timeout
  BY DEF Extended, NewEntry
<1>3. x.seq_num = f.seq_num
  OBVIOUS
<1>4. /\ ~p.out_of_order
      /\ p.seq_num_first = f.seq_num_first
      /\ f.seq_num \in Int
      /\ f.seq_num >= 0
      /\ f.seq_num >= p.seq_num_first
  BY ArgumentTypes, ProtocolOfFragment
<1> HIDE DEF x, e, p
<1>5. /\ <<x>> # <<>>
      /\ Len(<<x>>) = 1
      /\ DOMAIN <<x>> = 1 .. 1
      /\ <<x>>[1] = x
  OBVIOUS
<1>6. GaplessEntry(e, p)
  <2>1. p.seq_num_first # SEQ_FIRST_NONE => p.seq_num_first = f.seq_num
    BY <1>4 DEF NotFirst
  <2>2. \A i \in 1 .. 1 - 1 : FALSE
    OBVIOUS
  <2> QED
    BY <1>1, <1>2, <1>3, <1>5, <2>1, <2>2 DEF GaplessEntry
<1>7. e.reasm_timeout \in Timeouts
  BY <1>2 DEF Timeouts
<1>8. \A i \in DOMAIN <<x>> : i = 1 /\ <<x>>[i].seq_num = f.seq_num
  BY <1>3, <1>5
<1>9. EntrySound(e, p)
  BY <1>1, <1>2, <1>4, <1>5, <1>6, <1>7, <1>8 DEF EntrySound
<1> QED
  BY <1>9 DEF e, p

\* In order: the successor of the last fragment goes to the end.
LEMMA ContinuedInOrder ==
    ASSUME NEW f \in FragmentInfos, ~ArgsInvalid(f), ~f.out_of_order,
           NEW e \in TableEntry,
           EntrySound(e, Protocol[f.msg_info]),
           InSequence(e, f)
    PROVE  EntrySound(Extended(e, f), Protocol[f.msg_info])
<1> DEFINE x    == [seq_num |-> f.seq_num, payload |-> f.msg_data]
           p    == Protocol[f.msg_info]
           old  == e.fragment_list
           n    == Len(old)
           list == Append(old, x)
           next == Extended(e, f)
<1>1. /\ next.fragment_list = list
      /\ next.prev_seq_num = f.seq_num
      /\ next.frags_collected_cnt = e.frags_collected_cnt + 1
      /\ next.reasm_timeout = e.reasm_timeout
  BY DEF Extended
<1>2. /\ p.out_of_order = FALSE
      /\ p.seq_num_first = f.seq_num_first
      /\ p.seq_num_wrap = f.seq_num_wrap
      /\ p.seq_num_first \in Int
      /\ p.seq_num_wrap \in Int
      /\ f.seq_num \in Int
      /\ f.seq_num >= 0
      /\ f.seq_num >= p.seq_num_first
  BY ArgumentTypes, ProtocolOfFragment
<1>3. x \in Fragment /\ x.seq_num = f.seq_num
  BY ArgumentTypes DEF Fragment
<1>4. old \in Seq(Fragment) /\ e.frags_collected_cnt \in Nat
  BY DEF TableEntry
<1>5. /\ n \in Nat
      /\ DOMAIN old = 1 .. n
      /\ old = <<>> <=> n = 0
      /\ \A i \in 1 .. n : old[i].seq_num \in Int
  BY <1>4, NumberTypes
<1>6. /\ list \in Seq(Fragment)
      /\ Len(list) = n + 1
      /\ \A i \in 1 .. n : list[i] = old[i]
      /\ list[n + 1] = x
  BY <1>3, <1>4, AppendProperties
<1>7. DOMAIN list = 1 .. n + 1
  BY <1>6, NumberTypes
<1>8. /\ old # <<>>
      /\ e.frags_collected_cnt = n
      /\ e.reasm_timeout \in Timeouts
      /\ \A i \in 1 .. n : old[i].seq_num >= 0 /\ old[i].seq_num >= p.seq_num_first
      /\ GaplessEntry(e, p)
      /\ p.seq_num_wrap = SEQ_WRAP_NONE =>
             \A i \in 1 .. n : old[i].seq_num = old[1].seq_num + i - 1
  BY <1>2, <1>5 DEF EntrySound
<1> HIDE DEF x, p, next, list
<1>9. n >= 1 /\ 1 \in 1 .. n /\ n \in 1 .. n
  BY <1>5, <1>8
<1>10. /\ e.prev_seq_num = old[n].seq_num
       /\ p.seq_num_first # SEQ_FIRST_NONE => old[1].seq_num = p.seq_num_first
       /\ \A i \in 1 .. n - 1 :
              Successor(old[i].seq_num, old[i + 1].seq_num, p.seq_num_wrap)
  BY <1>8 DEF GaplessEntry
<1>11. e.prev_seq_num \in Int /\ e.prev_seq_num >= 0
  BY <1>5, <1>8, <1>9, <1>10
<1>12. /\ Successor(old[n].seq_num, f.seq_num, p.seq_num_wrap)
       /\ p.seq_num_wrap = SEQ_WRAP_NONE => f.seq_num = old[n].seq_num + 1
  <2>1. PrevSeqNum(e, f) # -2
    BY <1>11 DEF PrevSeqNum
  <2>2. PrevSeqNum(e, f) + 1 = f.seq_num
    BY <2>1 DEF InSequence, SEQ_UNINITIALIZED
  <2>3. CASE PrevSeqNum(e, f) = e.prev_seq_num
    BY <1>2, <1>10, <1>11, <2>2, <2>3 DEF Successor
  <2>4. CASE PrevSeqNum(e, f) # e.prev_seq_num
    <3>1. /\ f.seq_num_wrap # SEQ_WRAP_NONE
          /\ f.seq_num = 0
          /\ f.seq_num_wrap = e.prev_seq_num + 1
      BY <2>4 DEF PrevSeqNum
    <3> QED
      BY <1>2, <1>10, <3>1 DEF Successor
  <2> QED
    BY <2>3, <2>4
<1>13. GaplessEntry(next, p)
  <2>1. list # <<>>
    BY <1>5, <1>6, EmptySeq
  <2>2. next.prev_seq_num = list[Len(list)].seq_num
    BY <1>1, <1>3, <1>6
  <2>3. p.seq_num_first # SEQ_FIRST_NONE => list[1].seq_num = p.seq_num_first
    BY <1>6, <1>9, <1>10
  <2>4. ASSUME NEW i \in 1 .. Len(list) - 1
        PROVE  Successor(list[i].seq_num, list[i + 1].seq_num, p.seq_num_wrap)
    <3>1. i \in 1 .. n
      BY <1>5, <1>6
    <3>2. CASE i = n
      BY <1>3, <1>6, <1>9, <1>12, <3>2
    <3>3. CASE i # n
      <4>1. i \in 1 .. n - 1 /\ i + 1 \in 1 .. n
        BY <1>5, <3>1, <3>3
      <4> QED
        BY <1>6, <1>10, <3>1, <4>1
    <3> QED
      BY <3>2, <3>3
  <2> QED
    BY <1>1, <2>1, <2>2, <2>3, <2>4 DEF GaplessEntry
<1>14. \A i \in 1 .. n + 1 : i \in 1 .. n \/ i = n + 1
  BY <1>5
<1>15. \A i \in DOMAIN list : list[i].seq_num >= 0 /\ list[i].seq_num >= p.seq_num_first
  BY <1>2, <1>3, <1>6, <1>7, <1>8, <1>14
<1>16. p.seq_num_wrap = SEQ_WRAP_NONE =>
          \A i \in DOMAIN list : list[i].seq_num = list[1].seq_num + i - 1
  <2> SUFFICES ASSUME p.seq_num_wrap = SEQ_WRAP_NONE, NEW i \in 1 .. n + 1
               PROVE  list[i].seq_num = list[1].seq_num + i - 1
    BY <1>7
  <2>1. list[1] = old[1] /\ old[1].seq_num \in Int
    BY <1>5, <1>6, <1>9
  <2>2. CASE i \in 1 .. n
    BY <1>6, <1>8, <2>1, <2>2
  <2>3. CASE i = n + 1
    <3>1. f.seq_num = old[1].seq_num + n - 1 + 1
      BY <1>8, <1>9, <1>12
    <3>2. list[i].seq_num = f.seq_num /\ list[1].seq_num = old[1].seq_num
      BY <1>3, <1>6, <2>1, <2>3
    <3> HIDE DEF old, n
    <3> QED
      BY <1>5, <2>1, <2>3, <3>1, <3>2
  <2> QED
    BY <1>14, <2>2, <2>3
<1>17. list # <<>> /\ next.frags_collected_cnt = Len(list)
  BY <1>1, <1>5, <1>6, <1>8, EmptySeq
<1>18. EntrySound(next, p)
  BY <1>1, <1>2, <1>8, <1>13, <1>15, <1>16, <1>17 DEF EntrySound
<1> QED
  BY <1>18 DEF next, p

\* Out of order: from an empty or a sound entry to a sound entry.
LEMMA ExtendedOutOfOrderSound ==
    ASSUME NEW f \in FragmentInfos, ~ArgsInvalid(f), f.out_of_order,
           NEW e \in TableEntry,
           \/ e = NewEntry(f)
           \/ EntrySound(e, Protocol[f.msg_info]),
           ~IsDuplicate(e, f)
    PROVE  /\ EntrySound(Extended(e, f), Protocol[f.msg_info])
           /\ SeqNumExists(Extended(e, f).fragment_list, f.seq_num)
<1> DEFINE p    == Protocol[f.msg_info]
           old  == e.fragment_list
           next == Extended(e, f)
           list == next.fragment_list
<1>1. /\ p.out_of_order
      /\ p.seq_num_first = f.seq_num_first
      /\ f.reasm_timeout \in Timeouts
  BY ProtocolOfFragment DEF Timeouts
<1>2. /\ e.frags_collected_cnt = Len(old)
      /\ e.reasm_timeout \in Timeouts
      /\ Increasing(old)
      /\ \A i \in DOMAIN old :
             old[i].seq_num >= 0 /\ old[i].seq_num >= f.seq_num_first
  <2>1. CASE e = NewEntry(f)
    <3>1. /\ old = <<>>
          /\ e.frags_collected_cnt = 0
          /\ e.reasm_timeout = f.reasm_timeout
      BY <2>1 DEF NewEntry
    <3>2. Len(<<>>) = 0 /\ DOMAIN <<>> = {}
      OBVIOUS
    <3> QED
      BY <1>1, <3>1, <3>2 DEF Increasing
  <2>2. CASE EntrySound(e, p)
    BY <1>1, <2>2 DEF EntrySound
  <2> QED
    BY <2>1, <2>2
<1>3. ~SeqNumExists(old, f.seq_num)
  BY DEF IsDuplicate
<1>4. /\ Len(list) = Len(old) + 1
      /\ \A i \in DOMAIN list :
             list[i].seq_num >= 0 /\ list[i].seq_num >= f.seq_num_first
      /\ Increasing(list)
      /\ SeqNumExists(list, f.seq_num)
  BY <1>2, <1>3, ExtendedOutOfOrder
<1>5. /\ next.frags_collected_cnt = Len(old) + 1
      /\ next.reasm_timeout = e.reasm_timeout
  BY <1>2 DEF Extended
<1>6. list # <<>>
  BY <1>4 DEF SeqNumExists
<1> HIDE DEF p, next
<1>7. EntrySound(next, p)
  BY <1>1, <1>2, <1>4, <1>5, <1>6 DEF EntrySound
<1> QED
  BY <1>4, <1>7 DEF next, p

\* Whatever the call adds to is fit to be added to, and the result is sound,
\* holds the fragment and does not expire with it.
LEMMA AddedEntry ==
    ASSUME TypeOK, EntriesSound, NEW f \in FragmentInfos, ~ArgsInvalid(f),
           Admitted(f), ~IsDuplicate(Entry(f), f), InSequence(Entry(f), f)
    PROVE  /\ Extended(Entry(f), f) \in TableEntry
           /\ EntrySound(Extended(Entry(f), f), Protocol[f.msg_info])
           /\ ~Expired(Extended(Entry(f), f), f.rx_time)
           /\ SeqNumExists(Extended(Entry(f), f).fragment_list, f.seq_num)
<1> DEFINE e == Entry(f)
           p == Protocol[f.msg_info]
<1>1. e \in TableEntry /\ ~Expired(e, f.rx_time)
  BY EntryType
<1>2. \/ e = NewEntry(f) /\ ~Unfragmented(f) /\ ~NotFirst(f)
      \/ EntrySound(e, p)
  <2>1. CASE Current(f) # NULL
    <3>1. /\ fragment_table[f.msg_info] = e
          /\ f.msg_info \in Keys
          /\ e # NULL
      BY <2>1, CurrentEntry, ArgumentTypes DEF Entry
    <3> QED
      BY <3>1 DEF EntriesSound, Entries
  <2>2. CASE Current(f) = NULL
    BY <2>2 DEF Entry, Admitted
  <2> QED
    BY <2>1, <2>2
<1> HIDE DEF e, p
<1>3. Extended(e, f) \in TableEntry /\ ~Expired(Extended(e, f), f.rx_time)
  BY <1>1, ExtendedType
<1>4. ~IsDuplicate(e, f) /\ InSequence(e, f)
  BY DEF e
<1>5. /\ EntrySound(Extended(e, f), p)
      /\ SeqNumExists(Extended(e, f).fragment_list, f.seq_num)
  <2>1. CASE f.out_of_order
    BY <1>1, <1>2, <1>4, <2>1, ExtendedOutOfOrderSound DEF p
  <2>2. CASE ~f.out_of_order
    <3>1. EntrySound(Extended(e, f), p)
      <4>1. CASE e = NewEntry(f) /\ ~NotFirst(f)
        BY <2>2, <4>1, BegunInOrder DEF p
      <4>2. CASE EntrySound(e, p)
        BY <1>1, <1>4, <2>2, <4>2, ContinuedInOrder DEF p
      <4> QED
        BY <1>2, <4>1, <4>2
    <3> DEFINE x == [seq_num |-> f.seq_num, payload |-> f.msg_data]
    <3>2. x \in Fragment /\ x.seq_num = f.seq_num
      BY ArgumentTypes DEF Fragment
    <3>3. e.fragment_list \in Seq(Fragment)
      BY <1>1 DEF TableEntry
    <3>4. Extended(e, f).fragment_list = Append(e.fragment_list, x)
      BY <2>2 DEF Extended
    <3> HIDE DEF x
    <3>5. /\ DOMAIN Append(e.fragment_list, x) = 1 .. Len(e.fragment_list) + 1
          /\ Append(e.fragment_list, x)[Len(e.fragment_list) + 1] = x
          /\ Len(e.fragment_list) + 1 \in 1 .. Len(e.fragment_list) + 1
      BY <3>2, <3>3, AppendProperties, LenProperties
    <3>6. SeqNumExists(Extended(e, f).fragment_list, f.seq_num)
      BY <3>2, <3>4, <3>5 DEF SeqNumExists
    <3> QED
      BY <3>1, <3>6
  <2> QED
    BY <2>1, <2>2
<1> QED
  BY <1>3, <1>5 DEF e, p

\* What is called a duplicate is in the entry stored, which stays sound: where
\* numbers do not wrap they are consecutive, so a smaller one is in the list.
LEMMA DuplicateEntry ==
    ASSUME TypeOK, EntriesSound, NEW f \in FragmentInfos, ~ArgsInvalid(f),
           IsDuplicate(Entry(f), f)
    PROVE  /\ Entry(f) \in TableEntry
           /\ EntrySound(Entry(f), Protocol[f.msg_info])
           /\ ~Expired(Entry(f), f.rx_time)
           /\ \/ /\ ~f.out_of_order
                 /\ f.seq_num_first = SEQ_FIRST_NONE
                 /\ f.seq_num_wrap = SEQ_WRAP_NONE
              \/ SeqNumExists(Entry(f).fragment_list, f.seq_num)
<1> DEFINE e    == Entry(f)
           p    == Protocol[f.msg_info]
           list == e.fragment_list
<1>1. e \in TableEntry /\ ~Expired(e, f.rx_time)
  BY EntryType
<1>2. EntrySound(e, p)
  <2>1. Current(f) # NULL
    BY NewEntryAdmits DEF Entry
  <2>2. /\ fragment_table[f.msg_info] = e
        /\ f.msg_info \in Keys
        /\ e # NULL
    BY <2>1, CurrentEntry, ArgumentTypes DEF Entry
  <2> QED
    BY <2>2 DEF EntriesSound, Entries
<1> HIDE DEF e
<1>3. /\ Len(list) \in Nat
      /\ DOMAIN list = 1 .. Len(list)
      /\ list = <<>> <=> Len(list) = 0
      /\ \A i \in 1 .. Len(list) : list[i].seq_num \in Int
  BY <1>1, NumberTypes DEF TableEntry
<1>4. Len(list) >= 1
  BY <1>2, <1>3 DEF EntrySound
<1>5. CASE f.out_of_order
  BY <1>1, <1>2, <1>5 DEF IsDuplicate, e
<1>6. CASE ~f.out_of_order
  <2>1. /\ ~p.out_of_order
        /\ p.seq_num_first = f.seq_num_first
        /\ p.seq_num_wrap = f.seq_num_wrap
        /\ f.seq_num_first \in Int
        /\ f.seq_num \in Int
        /\ f.seq_num >= 0
        /\ f.seq_num >= f.seq_num_first
    BY <1>6, ArgumentTypes, ProtocolOfFragment
  <2>2. GaplessEntry(e, p)
    BY <1>2, <2>1 DEF EntrySound
  <2>3. e.prev_seq_num = list[Len(list)].seq_num
    BY <2>2 DEF GaplessEntry
  <2>4. CASE PrevSeqNum(e, f) = f.seq_num
    <3>1. e.prev_seq_num = f.seq_num
      BY <2>1, <2>4 DEF PrevSeqNum
    <3>2. Len(list) \in DOMAIN list /\ list[Len(list)].seq_num = f.seq_num
      BY <1>3, <1>4, <2>3, <3>1
    <3>3. SeqNumExists(list, f.seq_num)
      BY <3>2 DEF SeqNumExists
    <3> QED
      BY <1>1, <1>2, <3>3 DEF e
  <2>5. CASE /\ f.seq_num_wrap = SEQ_WRAP_NONE
             /\ f.seq_num < PrevSeqNum(e, f)
             /\ f.seq_num_first # SEQ_FIRST_NONE
    <3>1. f.seq_num < e.prev_seq_num
      BY <2>5 DEF PrevSeqNum
    <3>2. list[1].seq_num = f.seq_num_first
      BY <2>1, <2>2, <2>5 DEF GaplessEntry
    <3>3. \A i \in 1 .. Len(list) : list[i].seq_num = f.seq_num_first + i - 1
      BY <1>2, <1>3, <2>1, <2>5, <3>2 DEF EntrySound
    <3>4. e.prev_seq_num = f.seq_num_first + Len(list) - 1
      BY <1>3, <1>4, <2>3, <3>3
    <3>5. f.seq_num - f.seq_num_first + 1 \in 1 .. Len(list)
      BY <1>3, <2>1, <3>1, <3>4
    <3>6. list[f.seq_num - f.seq_num_first + 1].seq_num = f.seq_num
      BY <2>1, <3>3, <3>5
    <3>7. SeqNumExists(list, f.seq_num)
      BY <1>3, <3>5, <3>6 DEF SeqNumExists
    <3> QED
      BY <1>1, <1>2, <3>7 DEF e
  <2> QED
    BY <1>1, <1>2, <1>6, <2>1, <2>4, <2>5 DEF IsDuplicate, e
<1> QED
  BY <1>5, <1>6

-----------------------------------------------------------------------------
(***************************************************************************)
(* The invariant: sound entries, and a last call whose result agrees with  *)
(* what it left in the table.                                              *)
(***************************************************************************)
LastCallSound ==
    /\ CompleteIsReady
    /\ DuplicateIsStored
    /\ NothingLeftBehind
    /\ NoStaleMix

IInv == TypeOK /\ EntriesSound /\ LastCallSound

\* A sound entry that has not expired has not outlived its timeout either.
LEMMA SoundNotOutlived ==
    ASSUME NEW now \in Time, NEW e \in TableEntry, e.reasm_timeout \in Timeouts,
           ~Expired(e, now)
    PROVE  ~Outlived(e, now)
<1>1. e.reasm_timeout # ZeroTime
  BY ArgumentTypes DEF Timeouts
<1> QED
  BY <1>1, OutlivedIsTimedOut

\* Returning with no entry, or with a sound one that has not expired, leaves
\* exactly that under the key of the call and sound entries under all keys.
LEMMA ReturnSound ==
    ASSUME TypeOK, EntriesSound, NEW f \in FragmentInfos, ~ArgsInvalid(f),
           NEW entry \in TableEntry \cup {NULL},
           \/ entry = NULL
           \/ /\ EntrySound(entry, Protocol[f.msg_info])
              /\ ~Expired(entry, f.rx_time),
           NEW status \in Status,
           Return(f, entry, status)
    PROVE  /\ TypeOK'
           /\ EntriesSound'
           /\ fragment_table'[f.msg_info] = entry
           /\ entry # NULL => ~Outlived(entry, f.rx_time)
           /\ last'.status = status
           /\ last'.key = f.msg_info
           /\ last'.seq_num = f.seq_num
           /\ last'.rx_time = f.rx_time
<1>1. /\ TypeOK'
      /\ last' = [status |-> status, key |-> f.msg_info, seq_num |-> f.seq_num,
                  rx_time |-> f.rx_time, payload |-> <<>>]
      /\ \A k \in Keys \ {f.msg_info} :
            \/ fragment_table'[k] = fragment_table[k]
            \/ fragment_table'[k] = NULL
      /\ \/ fragment_table'[f.msg_info] = entry
         \/ /\ entry # NULL
            /\ Expired(entry, f.rx_time)
  BY ReturnEffect
<1>2. fragment_table'[f.msg_info] = entry
  BY <1>1
<1>3. EntriesSound'
  <2> SUFFICES ASSUME NEW k \in Keys, fragment_table'[k] # NULL
               PROVE  EntrySound(fragment_table'[k], Protocol[k])
    BY DEF EntriesSound, Entries
  <2>1. CASE k = f.msg_info
    BY <1>2, <2>1
  <2>2. CASE k # f.msg_info
    <3>1. fragment_table'[k] = fragment_table[k]
      BY <1>1, <2>2
    <3> QED
      BY <3>1 DEF EntriesSound, Entries
  <2> QED
    BY <2>1, <2>2
<1>4. entry # NULL => ~Outlived(entry, f.rx_time)
  <2> SUFFICES ASSUME entry # NULL  PROVE ~Outlived(entry, f.rx_time)
    OBVIOUS
  <2>1. entry \in TableEntry /\ entry.reasm_timeout \in Timeouts
    BY DEF EntrySound
  <2>2. f.rx_time \in Time
    BY ArgumentTypes
  <2> QED
    BY <2>1, <2>2, SoundNotOutlived
<1> QED
  BY <1>1, <1>2, <1>3, <1>4

\* Once its arguments are accepted, every way out of la_reasm_fragment_add is
\* a Return with an entry or none.
LEMMA ReturnsEntry ==
    ASSUME TypeOK, NEW f \in FragmentInfos, FragmentAdd(f), ~RejectInvalidArgs(f)
    PROVE  /\ ~ArgsInvalid(f)
           /\ \E entry \in TableEntry \cup {NULL}, status \in Status :
                 Return(f, entry, status)
<1>1. /\ "SKIPPED" \in Status
      /\ "FRAG_OUT_OF_SEQUENCE" \in Status
      /\ "DUPLICATE" \in Status
      /\ "COMPLETE" \in Status
      /\ "IN_PROGRESS" \in Status
  BY DEF Status
<1>2. CASE SkipUnfragmented(f)
  BY <1>1, <1>2 DEF SkipUnfragmented
<1>3. CASE RejectNotFirst(f)
  BY <1>1, <1>3 DEF RejectNotFirst
<1>4. CASE AbortOutOfSequence(f)
  BY <1>1, <1>4 DEF AbortOutOfSequence
<1>5. CASE SkipDuplicate(f)
  <2>1. ~ArgsInvalid(f) /\ Return(f, Entry(f), "DUPLICATE")
    BY <1>5 DEF SkipDuplicate
  <2>2. Entry(f) \in TableEntry
    BY <2>1, EntryType
  <2> QED
    BY <1>1, <2>1, <2>2
<1>6. CASE AddFragment(f)
  <2>1. /\ ~ArgsInvalid(f)
        /\ \E status \in {"COMPLETE", "IN_PROGRESS"} :
              Return(f, Extended(Entry(f), f), status)
    BY <1>6 DEF AddFragment
  <2>2. Extended(Entry(f), f) \in TableEntry
    BY <2>1, EntryType, ExtendedType
  <2> QED
    BY <1>1, <2>1, <2>2
<1> QED
  BY <1>2, <1>3, <1>4, <1>5, <1>6 DEF FragmentAdd

\* Every way la_reasm_fragment_add returns leads to a state of the invariant.
LEMMA FragmentAddSound ==
    ASSUME IInv, NEW f \in FragmentInfos, FragmentAdd(f)
    PROVE  IInv'
<1> USE DEF IInv
<1>1. CASE RejectInvalidArgs(f)
  <2>1. /\ fragment_table' = fragment_table
        /\ frag_cnt' = frag_cnt
        /\ last' = [status |-> "ARGS_INVALID", key |-> f.msg_info, seq_num |-> f.seq_num,
                    rx_time |-> f.rx_time, payload |-> <<>>]
    BY <1>1 DEF RejectInvalidArgs, Reported
  <2>2. last' \in LastCall
    <3>1. f \in FragmentInfo
      BY ConstantsAssumption
    <3>2. f.msg_info \in Keys \cup {NULL} /\ f.seq_num \in Int /\ f.rx_time \in Time
      BY <3>1 DEF FragmentInfo
    <3>3. <<>> \in Seq(Payloads) /\ "ARGS_INVALID" \in Status
      BY DEF Status
    <3> QED
      BY <2>1, <3>2, <3>3 DEF LastCall
  <2>3. TypeOK'
    BY <2>1, <2>2 DEF TypeOK
  <2>4. EntriesSound'
    BY <2>1 DEF EntriesSound, Entries
  <2>5. last'.status = "ARGS_INVALID"
    BY <2>1
  <2>6. LastCallSound'
    BY <2>5 DEF LastCallSound, CompleteIsReady, DuplicateIsStored, NothingLeftBehind, NoStaleMix
  <2> QED
    BY <2>3, <2>4, <2>6
<1>2. ASSUME NEW status \in {"SKIPPED", "FRAG_OUT_OF_SEQUENCE"},
             ~ArgsInvalid(f), Return(f, NULL, status)
      PROVE  IInv'
  <2>1. status \in Status
    BY DEF Status
  <2>2. /\ TypeOK'
        /\ EntriesSound'
        /\ fragment_table'[f.msg_info] = NULL
        /\ last'.status = status
        /\ last'.key = f.msg_info
    BY <1>2, <2>1, ReturnSound
  <2>3. LastCallSound'
    BY <2>2 DEF LastCallSound, CompleteIsReady, DuplicateIsStored, NothingLeftBehind,
                NoStaleMix, Entries
  <2> QED
    BY <2>2, <2>3
<1>3. CASE SkipUnfragmented(f)
  BY <1>2, <1>3 DEF SkipUnfragmented
<1>4. CASE RejectNotFirst(f)
  BY <1>2, <1>4 DEF RejectNotFirst
<1>5. CASE AbortOutOfSequence(f)
  BY <1>2, <1>5 DEF AbortOutOfSequence
<1>6. CASE SkipDuplicate(f)
  <2>1. /\ ~ArgsInvalid(f)
        /\ IsDuplicate(Entry(f), f)
        /\ Return(f, Entry(f), "DUPLICATE")
        /\ "DUPLICATE" \in Status
    BY <1>6 DEF SkipDuplicate, Status
  <2>2. /\ Entry(f) \in TableEntry
        /\ Entry(f) # NULL
        /\ EntrySound(Entry(f), Protocol[f.msg_info])
        /\ ~Expired(Entry(f), f.rx_time)
        /\ \/ /\ ~f.out_of_order
              /\ f.seq_num_first = SEQ_FIRST_NONE
              /\ f.seq_num_wrap = SEQ_WRAP_NONE
           \/ SeqNumExists(Entry(f).fragment_list, f.seq_num)
    BY <2>1, DuplicateEntry, ConstantsAssumption
  <2>3. /\ TypeOK'
        /\ EntriesSound'
        /\ fragment_table'[f.msg_info] = Entry(f)
        /\ ~Outlived(Entry(f), f.rx_time)
        /\ last'.status = "DUPLICATE"
        /\ last'.key = f.msg_info
        /\ last'.seq_num = f.seq_num
        /\ last'.rx_time = f.rx_time
    BY <2>1, <2>2, ReturnSound
  <2>4. /\ f.msg_info \in Keys
        /\ Protocol[f.msg_info].out_of_order = f.out_of_order
        /\ Protocol[f.msg_info].seq_num_first = f.seq_num_first
        /\ Protocol[f.msg_info].seq_num_wrap = f.seq_num_wrap
    BY <2>1, ArgumentTypes, ProtocolOfFragment
  <2>5. DuplicateIsStored'
    BY <2>2, <2>3, <2>4 DEF DuplicateIsStored, Entries
  <2>6. LastCallSound'
    BY <2>2, <2>3, <2>4, <2>5 DEF LastCallSound, CompleteIsReady, NothingLeftBehind, NoStaleMix,
                                  Entries
  <2> QED
    BY <2>3, <2>6
<1>7. CASE AddFragment(f)
  <2> DEFINE e == Extended(Entry(f), f)
  <2>1. PICK status \in {"COMPLETE", "IN_PROGRESS"} :
           /\ Return(f, e, status)
           /\ status = "COMPLETE" => IsComplete(e, f.is_final_fragment)
    BY <1>7 DEF AddFragment
  <2>2. ~ArgsInvalid(f) /\ status \in Status
    BY <1>7 DEF AddFragment, Status
  <2>3. /\ e \in TableEntry
        /\ e # NULL
        /\ EntrySound(e, Protocol[f.msg_info])
        /\ ~Expired(e, f.rx_time)
        /\ SeqNumExists(e.fragment_list, f.seq_num)
    BY <1>7, AddedEntry, ConstantsAssumption DEF AddFragment
  <2> HIDE DEF e
  <2>4. /\ TypeOK'
        /\ EntriesSound'
        /\ fragment_table'[f.msg_info] = e
        /\ ~Outlived(e, f.rx_time)
        /\ last'.status = status
        /\ last'.key = f.msg_info
        /\ last'.seq_num = f.seq_num
        /\ last'.rx_time = f.rx_time
    BY <2>1, <2>2, <2>3, ReturnSound
  <2>5. status = "COMPLETE" => IsComplete(e, TRUE)
    BY <2>1 DEF IsComplete
  <2>6. f.msg_info \in Keys
    BY <2>2, ArgumentTypes
  <2>7. CompleteIsReady'
    BY <2>3, <2>4, <2>5, <2>6 DEF CompleteIsReady, Entries
  <2>8. LastCallSound'
    BY <2>3, <2>4, <2>6, <2>7 DEF LastCallSound, DuplicateIsStored, NothingLeftBehind, NoStaleMix,
                                  Entries
  <2> QED
    BY <2>4, <2>8
<1> QED
  BY <1>1, <1>3, <1>4, <1>5, <1>6, <1>7 DEF FragmentAdd

\* So does every way la_reasm_payload_get returns.
LEMMA PayloadGetSound ==
    ASSUME IInv, NEW k \in Keys, PayloadGet(k)
    PROVE  IInv'
<1> USE DEF IInv
<1>1. PICK outcome \in GetOutcome, payload \in Seq(Payloads) : Got(k, outcome, payload)
  <2>1. CASE PayloadNotFound(k) \/ PayloadEmpty(k)
    <3>1. <<>> \in Seq(Payloads)
      OBVIOUS
    <3> QED
      BY <2>1, <3>1 DEF PayloadNotFound, PayloadEmpty, GetOutcome
  <2>2. CASE PayloadTaken(k)
    <3>1. fragment_table[k] \in TableEntry
      BY <2>2, StoredEntry DEF PayloadTaken
    <3>2. fragment_table[k].fragment_list \in Seq(Fragment)
      BY <3>1 DEF TableEntry
    <3>3. PayloadsOf(fragment_table[k].fragment_list) \in Seq(Payloads)
      <4> DEFINE list == fragment_table[k].fragment_list
      <4>1. /\ Len(list) \in Nat
            /\ DOMAIN list = 1 .. Len(list)
            /\ \A i \in 1 .. Len(list) : list[i] \in Fragment
        BY <3>2, LenProperties, ElementOfSeq
      <4> HIDE DEF list
      <4>2. \A i \in 1 .. Len(list) : list[i].payload \in Payloads
        BY <4>1 DEF Fragment
      <4>3. [i \in 1 .. Len(list) |-> list[i].payload] \in [1 .. Len(list) -> Payloads]
        BY <4>2
      <4>4. PayloadsOf(list) \in Seq(Payloads)
        BY <4>1, <4>3, SeqDef DEF PayloadsOf
      <4> QED
        BY <4>4 DEF list
    <3> QED
      BY <2>2, <3>3 DEF PayloadTaken, GetOutcome
  <2> QED
    BY <2>1, <2>2 DEF PayloadGet
<1>2. /\ \/ fragment_table' = fragment_table
         \/ fragment_table' = [fragment_table EXCEPT ![k] = NULL]
      /\ frag_cnt' = frag_cnt
  BY DEF PayloadGet, PayloadNotFound, PayloadEmpty, PayloadTaken
<1>3. last' \in LastCall
  <2>1. ZeroTime \in Time
    BY ZeroTimeType
  <2>2. last' = [status |-> outcome, key |-> k, seq_num |-> 0,
                 rx_time |-> ZeroTime, payload |-> payload]
    BY <1>1 DEF Got
  <2> QED
    BY <2>1, <2>2 DEF LastCall
<1>4. TypeOK'
  BY <1>2, <1>3 DEF TypeOK
<1>5. EntriesSound'
  BY <1>2 DEF EntriesSound, Entries, TypeOK
<1>6. last'.status \in GetOutcome
  BY <1>1 DEF Got
<1>7. LastCallSound'
  BY <1>6 DEF LastCallSound, CompleteIsReady, DuplicateIsStored, NothingLeftBehind,
              NoStaleMix, GetOutcome
<1> QED
  BY <1>4, <1>5, <1>7

\* A new table satisfies the invariant.
LEMMA InitSound == Init => IInv
<1> SUFFICES ASSUME Init  PROVE IInv
  OBVIOUS
<1>1. TypeOK
  <2>1. ZeroTime \in Time
    BY ZeroTimeType
  <2>2. <<>> \in Seq(Payloads)
    OBVIOUS
  <2> QED
    BY <2>1, <2>2, ConstantsAssumption DEF Init, TypeOK, LastCall, Status
<1>2. EntriesSound
  BY DEF Init, EntriesSound, Entries
<1>3. last.status = "UNKNOWN"
  BY DEF Init
<1>4. LastCallSound
  BY <1>3 DEF LastCallSound, CompleteIsReady, DuplicateIsStored, NothingLeftBehind, NoStaleMix
<1> QED
  BY <1>1, <1>2, <1>4 DEF IInv

\* Every call keeps the invariant.
LEMMA NextSound == IInv /\ [Next]_vars => IInv'
<1> SUFFICES ASSUME IInv, [Next]_vars  PROVE IInv'
  OBVIOUS
<1>1. ASSUME NEW f \in FragmentInfos, FragmentAdd(f)  PROVE IInv'
  BY <1>1, FragmentAddSound
<1>2. ASSUME NEW k \in Keys, PayloadGet(k)  PROVE IInv'
  BY <1>2, PayloadGetSound
<1>3. CASE UNCHANGED vars
  BY <1>3 DEF vars, IInv, TypeOK, EntriesSound, Entries, LastCallSound, CompleteIsReady,
              DuplicateIsStored, NothingLeftBehind, NoStaleMix
<1> QED
  BY <1>1, <1>2, <1>3 DEF Next

\* The invariant holds in every state of every behaviour.
THEOREM Invariance == Spec => []IInv
BY InitSound, NextSound, PTL DEF Spec

-----------------------------------------------------------------------------
(***************************************************************************)
(* What follows from the invariant in every state.                         *)
(***************************************************************************)

\* The table maps keys to well-formed entries and the cleanup counter never
\* passes cleanup_interval.
THEOREM TypeCorrectness == Spec => []TypeOK
BY Invariance, PTL DEF IInv

\* Every entry is one the engine can go on with.
THEOREM SoundEntries == Spec => []EntriesSound
BY Invariance, PTL DEF IInv

\* Under a protocol that forbids reordering the fragments stored are a gapless
\* run that ends in prev_seq_num.
THEOREM GaplessInOrder == Spec => []InOrderGapless
<1>1. IInv => InOrderGapless
  BY DEF IInv, EntriesSound, EntrySound, InOrderGapless, Entries
<1> QED
  BY <1>1, Invariance, PTL

\* Under one that allows reordering they are sorted, without duplicates.
THEOREM SortedOutOfOrder == Spec => []OutOfOrderSorted
<1>1. IInv => OutOfOrderSorted
  BY DEF IInv, EntriesSound, EntrySound, OutOfOrderSorted, Entries
<1> QED
  BY <1>1, Invariance, PTL

\* A message reported complete is there to be fetched.
THEOREM CompleteThere == Spec => []CompleteIsReady
BY Invariance, PTL DEF IInv, LastCallSound

\* A fragment called a duplicate is one the entry holds.
THEOREM DuplicateThere == Spec => []DuplicateIsStored
BY Invariance, PTL DEF IInv, LastCallSound

\* An aborted or an unfragmented message leaves no entry.
THEOREM AbortClears == Spec => []NothingLeftBehind
BY Invariance, PTL DEF IInv, LastCallSound

\* No fragment joins an entry that has outlived its timeout.
THEOREM FreshOnly == Spec => []NoStaleMix
BY Invariance, PTL DEF IInv, LastCallSound

-----------------------------------------------------------------------------
(***************************************************************************)
(* What a step may do to the entries of other keys.                        *)
(***************************************************************************)

\* Timeouts of libacars' own callers are whole seconds.
WholeSecondTimeouts == \A t \in Timeouts : t.tv_usec = 0

\* With timeouts of whole seconds, a call for one key leaves the entries of all
\* other keys as they are, unless they have outlived their timeout.
THEOREM OthersAlone ==
    ASSUME WholeSecondTimeouts
    PROVE  Spec => OthersUntouched
<1>1. IInv /\ [Next]_vars => [LeavesOthers]_vars
  <2> SUFFICES ASSUME IInv, Next  PROVE LeavesOthers
    OBVIOUS
  <2>1. ASSUME NEW f \in FragmentInfos, FragmentAdd(f)  PROVE LeavesOthers
    <3>1. CASE RejectInvalidArgs(f)
      BY <3>1 DEF RejectInvalidArgs, LeavesOthers
    <3>2. CASE ~RejectInvalidArgs(f)
      <4>1. PICK entry \in TableEntry \cup {NULL}, status \in Status :
               ~ArgsInvalid(f) /\ Return(f, entry, status)
        BY <2>1, <3>2, ReturnsEntry DEF IInv
      <4>2. /\ last'.key = f.msg_info
            /\ last'.rx_time = f.rx_time
            /\ \A k \in Keys \ {f.msg_info} :
                  \/ fragment_table'[k] = fragment_table[k]
                  \/ /\ fragment_table[k] # NULL
                     /\ Expired(fragment_table[k], f.rx_time)
                     /\ fragment_table'[k] = NULL
        BY <4>1, ReturnEffect DEF IInv
      <4>3. ASSUME NEW k \in Entries, Expired(fragment_table[k], f.rx_time)
            PROVE  Outlived(fragment_table[k], f.rx_time)
        <5>1. fragment_table[k] \in TableEntry
          BY StoredEntry DEF IInv, Entries
        <5>2. fragment_table[k].reasm_timeout \in Timeouts
          BY DEF IInv, EntriesSound, EntrySound
        <5>3. fragment_table[k].reasm_timeout.tv_usec = 0
          BY <5>2 DEF WholeSecondTimeouts
        <5>4. f.rx_time \in Time
          BY <4>1, ArgumentTypes
        <5> QED
          BY <4>3, <5>1, <5>3, <5>4, TimedOutIsOutlived
      <4> QED
        BY <4>2, <4>3 DEF LeavesOthers, Entries
    <3> QED
      BY <3>1, <3>2
  <2>2. ASSUME NEW k \in Keys, PayloadGet(k)  PROVE LeavesOthers
    <3>1. /\ last'.key = k
          /\ \/ fragment_table' = fragment_table
             \/ fragment_table' = [fragment_table EXCEPT ![k] = NULL]
      BY <2>2 DEF PayloadGet, PayloadNotFound, PayloadEmpty, PayloadTaken, Got
    <3> QED
      BY <3>1 DEF LeavesOthers, Entries, IInv, TypeOK
  <2> QED
    BY <2>1, <2>2 DEF Next
<1> QED
  BY <1>1, Invariance, PTL DEF Spec, OthersUntouched

-----------------------------------------------------------------------------
(***************************************************************************)
(* What a step may do to the fragments stored.                             *)
(***************************************************************************)

\* What was inserted can be removed again.
LEMMA RemoveInserted ==
    ASSUME NEW s \in Seq(Fragment), NEW r, NEW x, NEW p \in 1 .. Len(s) + 1,
           IsInsertion(r, s, p, x)
    PROVE  s = RemoveAt(r, p) /\ p \in DOMAIN r
<1> DEFINE n      == Len(s)
           before == SubSeq(r, 1, p - 1)
           after  == SubSeq(r, p + 1, Len(r))
<1>1. /\ r \in Seq(Fragment)
      /\ Len(r) = n + 1
      /\ n \in Nat
      /\ p \in Int
      /\ DOMAIN r = 1 .. n + 1
      /\ \A i \in 1 .. n + 1 :
            r[i] = IF i < p THEN s[i] ELSE IF i = p THEN x ELSE s[i - 1]
  BY LenProperties DEF IsInsertion
<1>2. \A i \in 1 .. n + 1 : r[i] \in Fragment
  BY <1>1, ElementOfSeq
<1>3. /\ before \in Seq(Fragment)
      /\ Len(before) = p - 1
      /\ \A i \in 1 .. p - 1 : before[i] = r[i]
  BY <1>1, <1>2, SubSeqProperties
<1>4. /\ after \in Seq(Fragment)
      /\ Len(after) = n + 1 - p
      /\ \A i \in 1 .. n + 1 - p : after[i] = r[p + i]
  BY <1>1, <1>2, SubSeqProperties
<1>5. RemoveAt(r, p) = before \o after
  BY DEF RemoveAt
<1> HIDE DEF before, after
<1>6. /\ before \o after \in Seq(Fragment)
      /\ Len(before \o after) = Len(before) + Len(after)
      /\ \A i \in 1 .. Len(before) + Len(after) :
            (before \o after)[i] = IF i <= Len(before) THEN before[i]
                                   ELSE after[i - Len(before)]
  BY <1>3, <1>4, ConcatProperties
<1>7. Len(before \o after) = n
  BY <1>1, <1>3, <1>4, <1>6
<1>8. ASSUME NEW i \in 1 .. n  PROVE s[i] = (before \o after)[i]
  <2>1. CASE i < p
    BY <1>1, <1>3, <1>4, <1>6, <2>1
  <2>2. CASE i >= p
    <3>1. (before \o after)[i] = after[i - (p - 1)]
      BY <1>1, <1>3, <1>4, <1>6, <2>2
    <3>2. after[i - (p - 1)] = r[i + 1]
      <4>1. i - (p - 1) \in 1 .. n + 1 - p /\ p + (i - (p - 1)) = i + 1
        BY <1>1, <2>2
      <4> QED
        BY <1>4, <4>1
    <3>3. r[i + 1] = s[i]
      BY <1>1, <2>2
    <3> QED
      BY <3>1, <3>2, <3>3
  <2>3. i < p \/ i >= p
    BY <1>1
  <2> QED
    BY <2>1, <2>2, <2>3
<1>9. s = before \o after
  BY <1>6, <1>7, <1>8, SeqEqual
<1> QED
  BY <1>1, <1>5, <1>9

\* A fragment added is the only change to the list.
LEMMA ExtendedAddsOne ==
    ASSUME NEW f \in FragmentInfos, ~ArgsInvalid(f), NEW e \in TableEntry
    PROVE  OneMoreAtMost(e.fragment_list, Extended(e, f).fragment_list)
<1> DEFINE x    == [seq_num |-> f.seq_num, payload |-> f.msg_data]
           old  == e.fragment_list
           list == Extended(e, f).fragment_list
<1>1. x \in Fragment
  BY ArgumentTypes DEF Fragment
<1>2. old \in Seq(Fragment) /\ Len(old) \in Nat
  BY LenProperties DEF TableEntry
<1>3. list = IF f.out_of_order THEN InsertSorted(old, x) ELSE Append(old, x)
  BY DEF Extended
<1> HIDE DEF x, old, list
<1>4. \E p \in 1 .. Len(old) + 1 : IsInsertion(list, old, p, x)
  <2>1. CASE f.out_of_order
    BY <1>1, <1>2, <1>3, <2>1, InsertSortedInserts
  <2>2. CASE ~f.out_of_order
    <3>1. IsInsertion(Append(old, x), old, Len(old) + 1, x)
      BY <1>1, <1>2, AppendProperties DEF IsInsertion
    <3>2. Len(old) + 1 \in 1 .. Len(old) + 1
      BY <1>2
    <3> QED
      BY <1>3, <2>2, <3>1, <3>2
  <2> QED
    BY <2>1, <2>2
<1>5. \E p \in DOMAIN list : old = RemoveAt(list, p)
  BY <1>2, <1>4, RemoveInserted
<1> QED
  BY <1>5 DEF OneMoreAtMost, old, list

\* Before its timeout an entry goes only when fetched or aborted, and until
\* then gains at most one fragment a call and loses none.
THEOREM NothingLost == Spec => FragmentsKept
<1>1. IInv /\ [Next]_vars => [KeepsFragments]_vars
  <2> SUFFICES ASSUME IInv, Next, NEW k \in Entries,
                      ~Expired(fragment_table[k], last'.rx_time)
               PROVE  \/ /\ fragment_table'[k] = NULL
                         /\ last'.key = k
                         /\ last'.status \in {"FRAG_OUT_OF_SEQUENCE", "PAYLOAD"}
                      \/ /\ fragment_table'[k] # NULL
                         /\ OneMoreAtMost(fragment_table[k].fragment_list,
                                          fragment_table'[k].fragment_list)
    BY DEF KeepsFragments
  <2> DEFINE e == fragment_table[k]
  <2>1. k \in Keys /\ e # NULL /\ e \in TableEntry
    BY StoredEntry DEF Entries, IInv
  <2>2. CASE fragment_table'[k] = e
    BY <2>1, <2>2 DEF OneMoreAtMost
  <2>3. ASSUME NEW f \in FragmentInfos, FragmentAdd(f), ~RejectInvalidArgs(f)
        PROVE  \/ fragment_table'[k] = e
               \/ /\ fragment_table'[k] = NULL
                  /\ last'.key = k
                  /\ last'.status = "FRAG_OUT_OF_SEQUENCE"
               \/ /\ fragment_table'[k] # NULL
                  /\ OneMoreAtMost(e.fragment_list, fragment_table'[k].fragment_list)
    <3>1. /\ ~ArgsInvalid(f)
          /\ last'.rx_time = f.rx_time
          /\ last'.key = f.msg_info
      BY <2>3 DEF FragmentAdd, SkipUnfragmented, RejectNotFirst, SkipDuplicate,
                  AbortOutOfSequence, AddFragment, Return, Reported
    <3>2. CASE f.msg_info = k
      <4>1. Current(f) = e /\ Entry(f) = e
        BY <2>1, <3>1, <3>2 DEF Current, Entry
      <4>2. CASE AbortOutOfSequence(f)
        <5>1. Return(f, NULL, "FRAG_OUT_OF_SEQUENCE") /\ "FRAG_OUT_OF_SEQUENCE" \in Status
          BY <4>2 DEF AbortOutOfSequence, Status
        <5> QED
          BY <3>1, <3>2, <5>1, ReturnSound DEF IInv
      <4>3. CASE SkipDuplicate(f)
        <5>1. Return(f, e, "DUPLICATE") /\ "DUPLICATE" \in Status
          BY <4>1, <4>3 DEF SkipDuplicate, Status
        <5>2. ~Expired(e, f.rx_time)
          BY <3>1
        <5> QED
          BY <2>1, <3>1, <3>2, <5>1, <5>2, ReturnEffect DEF IInv
      <4>4. CASE AddFragment(f)
        <5>1. /\ \E status \in {"COMPLETE", "IN_PROGRESS"} :
                    Return(f, Extended(e, f), status)
              /\ "COMPLETE" \in Status /\ "IN_PROGRESS" \in Status
          BY <4>1, <4>4 DEF AddFragment, Status
        <5>2. /\ Extended(e, f) \in TableEntry
              /\ Extended(e, f) # NULL
              /\ ~Expired(Extended(e, f), f.rx_time)
          BY <2>1, <3>1, ExtendedType, ConstantsAssumption
        <5>3. fragment_table'[k] = Extended(e, f)
          BY <3>1, <3>2, <5>1, <5>2, ReturnEffect DEF IInv
        <5> QED
          BY <2>1, <3>1, <5>2, <5>3, ExtendedAddsOne
      <4> QED
        BY <2>1, <2>3, <4>1, <4>2, <4>3, <4>4
           DEF FragmentAdd, SkipUnfragmented, RejectNotFirst
    <3>3. CASE f.msg_info # k
      <4>1. \/ fragment_table'[k] = e
            \/ Expired(e, f.rx_time)
        <5>1. PICK entry \in TableEntry \cup {NULL}, status \in Status :
                 Return(f, entry, status)
          BY <2>3, <3>1, ReturnsEntry DEF IInv
        <5> QED
          BY <2>1, <3>1, <3>3, <5>1, ReturnEffect DEF IInv
      <4> QED
        BY <3>1, <4>1
    <3> QED
      BY <3>2, <3>3
  <2>4. ASSUME NEW f \in FragmentInfos, RejectInvalidArgs(f)
        PROVE  fragment_table'[k] = e
    BY <2>4 DEF RejectInvalidArgs
  <2>5. ASSUME NEW m \in Keys, PayloadGet(m)
        PROVE  \/ fragment_table'[k] = e
               \/ /\ fragment_table'[k] = NULL
                  /\ last'.key = k
                  /\ last'.status = "PAYLOAD"
    BY <2>1, <2>5 DEF PayloadGet, PayloadNotFound, PayloadEmpty, PayloadTaken, Got, IInv, TypeOK
  <2> QED
    BY <2>2, <2>3, <2>4, <2>5 DEF Next
<1> QED
  BY <1>1, Invariance, PTL DEF Spec, FragmentsKept
-----------------------------------------------------------------------------
(***************************************************************************)
(* The total length of a list, a sum computed position by position: that   *)
(* such a sum exists, and what an insertion adds to it, are inductions on  *)
(* the position, by its least counterexample.                              *)
(***************************************************************************)

\* s holds the sums of the first n lengths of list.
IsTotals(s, list, n) ==
    s = [i \in 0 .. n |-> IF i = 0 THEN 0 ELSE s[i - 1] + PayloadLen[list[i].payload]]

Totals(list) == CHOOSE s : IsTotals(s, list, Len(list))

\* The total is the last of them.
LEMMA TotalLenIsLast ==
    ASSUME NEW list
    PROVE  TotalLen(list) = Totals(list)[Len(list)]
BY DEF TotalLen, Totals, IsTotals

\* They exist.
LEMMA TotalsExist ==
    ASSUME NEW list, NEW n \in Nat
    PROVE  \E s : IsTotals(s, list, n)
<1> DEFINE S == {j \in Nat : ~ \E s : IsTotals(s, list, j)}
<1>1. ASSUME S # {}  PROVE FALSE
  <2>1. PICK j \in S : \A l \in S : j <= l
    BY <1>1, MinIsLeast
  <2>2. j \in Nat /\ ~ \E s : IsTotals(s, list, j)
    BY <2>1
  <2>3. CASE j = 0
    <3> DEFINE s == [i \in 0 .. 0 |-> 0]
    <3>1. \A i \in 0 .. 0 : i = 0
      OBVIOUS
    <3>2. s = [i \in 0 .. 0 |-> IF i = 0 THEN 0 ELSE s[i - 1] + PayloadLen[list[i].payload]]
      BY <3>1
    <3> QED
      BY <2>2, <2>3, <3>2 DEF IsTotals
  <2>4. CASE j # 0
    <3>1. j - 1 \in Nat /\ ~(j <= j - 1)
      BY <2>2, <2>4
    <3>2. j - 1 \notin S
      BY <2>1, <3>1
    <3>3. PICK r : IsTotals(r, list, j - 1)
      BY <3>1, <3>2
    <3> DEFINE len(i) == PayloadLen[list[i].payload]
               s      == [i \in 0 .. j |-> IF i <= j - 1 THEN r[i] ELSE r[j - 1] + len(i)]
    <3> HIDE DEF len
    <3>4. r = [i \in 0 .. j - 1 |-> IF i = 0 THEN 0 ELSE r[i - 1] + len(i)]
      BY <3>3 DEF IsTotals, len
    <3>5. \A i \in 0 .. j - 1 : r[i] = IF i = 0 THEN 0 ELSE r[i - 1] + len(i)
      BY <3>4
    <3>6. ASSUME NEW i \in 0 .. j
          PROVE  s[i] = IF i = 0 THEN 0 ELSE s[i - 1] + len(i)
      <4>1. CASE i = 0
        BY <2>2, <3>1, <3>5, <4>1
      <4>2. CASE i # 0 /\ i <= j - 1
        <5>1. i \in 0 .. j - 1 /\ i - 1 \in 0 .. j - 1 /\ i - 1 \in 0 .. j
          BY <2>2, <4>2
        <5>2. s[i] = r[i] /\ s[i - 1] = r[i - 1]
          BY <4>2, <5>1
        <5> QED
          BY <3>5, <4>2, <5>1, <5>2
      <4>3. CASE i # 0 /\ i = j
        <5>1. j - 1 \in 0 .. j
          BY <2>2, <4>3
        <5>2. s[j] = r[j - 1] + len(j) /\ s[j - 1] = r[j - 1]
          BY <2>2, <5>1
        <5> QED
          BY <4>3, <5>2
      <4> QED
        BY <2>2, <4>1, <4>2, <4>3
    <3>7. s = [i \in 0 .. j |-> IF i = 0 THEN 0 ELSE s[i - 1] + len(i)]
      <4>1. s = [i \in 0 .. j |-> s[i]]
        OBVIOUS
      <4> HIDE DEF s
      <4> QED
        BY <3>6, <4>1
    <3> HIDE DEF s
    <3>8. IsTotals(s, list, j)
      BY <3>7 DEF IsTotals, len
    <3> QED
      BY <2>2, <3>8
  <2> QED
    BY <2>3, <2>4
<1> QED
  BY <1>1

\* The sums start at 0 and each adds the next length.
LEMMA TotalsAdd ==
    ASSUME NEW list \in Seq(Fragment)
    PROVE  /\ Totals(list)[0] = 0
           /\ \A i \in 1 .. Len(list) :
                 Totals(list)[i] = Totals(list)[i - 1] + PayloadLen[list[i].payload]
           /\ \A i \in 1 .. Len(list) : PayloadLen[list[i].payload] \in Nat
           /\ \A i \in 0 .. Len(list) : Totals(list)[i] \in Nat
<1> DEFINE n      == Len(list)
           s      == Totals(list)
           len(i) == PayloadLen[list[i].payload]
<1>1. n \in Nat
  BY LenProperties
<1>2. IsTotals(s, list, n)
  BY <1>1, TotalsExist DEF Totals
<1>3. \A i \in 1 .. n : len(i) \in Nat
  <2> SUFFICES ASSUME NEW i \in 1 .. n  PROVE PayloadLen[list[i].payload] \in Nat
    OBVIOUS
  <2>1. list[i] \in Fragment
    BY ElementOfSeq
  <2>2. list[i].payload \in Payloads
    BY <2>1 DEF Fragment
  <2> QED
    BY <2>2, ConstantsAssumption
<1> HIDE DEF n, len
<1>4. s = [i \in 0 .. n |-> IF i = 0 THEN 0 ELSE s[i - 1] + len(i)]
  BY <1>2 DEF IsTotals, len
<1> HIDE DEF s
<1>5. \A i \in 0 .. n : s[i] = IF i = 0 THEN 0 ELSE s[i - 1] + len(i)
  BY <1>4
<1>6. s[0] = 0
  BY <1>1, <1>5
<1>7. \A i \in 1 .. n : s[i] = s[i - 1] + len(i)
  BY <1>5
<1>8. \A i \in 0 .. n : s[i] \in Nat
  <2> DEFINE S == {i \in 0 .. n : s[i] \notin Nat}
  <2>1. ASSUME S # {}  PROVE FALSE
    <3>1. S \in SUBSET Nat
      OBVIOUS
    <3>2. PICK j \in S : \A l \in S : j <= l
      BY <2>1, <3>1, MinIsLeast
    <3>3. j \in 0 .. n /\ s[j] \notin Nat
      BY <3>2
    <3>4. j # 0
      BY <1>6, <3>3
    <3>a. j \in 0 .. n
      BY <3>3
    <3>5. j - 1 \in 0 .. n /\ j \in 1 .. n /\ ~(j <= j - 1)
      BY <1>1, <3>4, <3>a
    <3>6. s[j - 1] \in Nat
      BY <3>2, <3>5
    <3> QED
      BY <1>3, <1>7, <3>3, <3>5, <3>6
  <2> QED
    BY <2>1
<1> QED
  BY <1>3, <1>6, <1>7, <1>8 DEF n, s, len

\* Inserting a fragment adds its length to the total.
LEMMA TotalOfInsertion ==
    ASSUME NEW list \in Seq(Fragment), NEW next, NEW x \in Fragment,
           NEW p \in 1 .. Len(list) + 1, IsInsertion(next, list, p, x)
    PROVE  /\ TotalLen(next) = TotalLen(list) + PayloadLen[x.payload]
           /\ TotalLen(list) \in Nat
<1> DEFINE n  == Len(list)
           s  == Totals(list)
           t  == Totals(next)
           lx == PayloadLen[x.payload]
           Inserted(j) == t[j] = IF j < p THEN s[j] ELSE s[j - 1] + lx
<1>1. /\ n \in Nat
      /\ next \in Seq(Fragment)
      /\ Len(next) = n + 1
      /\ \A i \in 1 .. n + 1 :
            next[i] = IF i < p THEN list[i] ELSE IF i = p THEN x ELSE list[i - 1]
  BY LenProperties DEF IsInsertion
<1>2. /\ s[0] = 0
      /\ \A i \in 1 .. n : s[i] = s[i - 1] + PayloadLen[list[i].payload]
      /\ \A i \in 1 .. n : PayloadLen[list[i].payload] \in Nat
      /\ \A i \in 0 .. n : s[i] \in Nat
  BY TotalsAdd
<1>3. /\ t[0] = 0
      /\ \A i \in 1 .. n + 1 : t[i] = t[i - 1] + PayloadLen[next[i].payload]
  BY <1>1, TotalsAdd
<1>4. lx \in Nat
  <2>1. x.payload \in Payloads
    BY DEF Fragment
  <2> QED
    BY <2>1, ConstantsAssumption
<1> HIDE DEF n, s, t, lx
<1>5. p \in 1 .. n + 1
  BY DEF n
<1>6. \A j \in 0 .. n + 1 : Inserted(j)
  <2> DEFINE S == {j \in 0 .. n + 1 : ~Inserted(j)}
  <2>1. ASSUME S # {}  PROVE FALSE
    <3>1. S \in SUBSET Nat
      OBVIOUS
    <3>2. PICK j \in S : \A l \in S : j <= l
      BY <2>1, <3>1, MinIsLeast
    <3>3. j \in 0 .. n + 1 /\ ~Inserted(j)
      BY <3>2
    <3>4. j # 0
      BY <1>2, <1>3, <1>5, <3>3
    <3>5. j - 1 \in 0 .. n + 1 /\ j \in 1 .. n + 1 /\ ~(j <= j - 1)
      BY <1>1, <3>3, <3>4
    <3>6. Inserted(j - 1)
      <4>1. j - 1 \notin S
        BY <3>2, <3>5
      <4> QED
        BY <3>5, <4>1
    <3>7. t[j] = t[j - 1] + PayloadLen[next[j].payload]
      BY <1>3, <3>5
    <3> HIDE DEF S
    <3>8. CASE j < p
      <4>1. j \in 1 .. n /\ next[j] = list[j] /\ j - 1 < p
        BY <1>1, <1>5, <3>5, <3>8
      <4> QED
        BY <1>2, <3>3, <3>6, <3>7, <3>8, <4>1
    <3>9. CASE j = p
      <4>1. next[j] = x /\ j - 1 < p /\ ~(j < p)
        BY <1>1, <1>5, <3>5, <3>9
      <4>2. t[j] = s[j - 1] + lx
        BY <3>6, <3>7, <4>1 DEF lx
      <4> QED
        BY <3>3, <4>1, <4>2
    <3>10. CASE j > p
      <4>1. /\ next[j] = list[j - 1]
            /\ ~(j - 1 < p)
            /\ ~(j < p)
            /\ j - 1 \in 1 .. n
            /\ (j - 1) - 1 \in 0 .. n
        BY <1>1, <1>5, <3>5, <3>10
      <4>2. t[j] = (s[(j - 1) - 1] + lx) + PayloadLen[list[j - 1].payload]
        BY <3>6, <3>7, <4>1
      <4>3. /\ s[j - 1] = s[(j - 1) - 1] + PayloadLen[list[j - 1].payload]
            /\ s[(j - 1) - 1] \in Nat
            /\ PayloadLen[list[j - 1].payload] \in Nat
        BY <1>2, <4>1
      <4>4. t[j] = s[j - 1] + lx
        BY <1>4, <4>2, <4>3
      <4> QED
        BY <3>3, <4>1, <4>4
    <3> QED
      BY <1>5, <3>5, <3>8, <3>9, <3>10
  <2> QED
    BY <2>1
<1>7. t[n + 1] = s[n] + lx /\ s[n] \in Nat
  <2>1. n + 1 \in 0 .. n + 1 /\ ~(n + 1 < p) /\ (n + 1) - 1 = n /\ n \in 0 .. n
    BY <1>1, <1>5
  <2> QED
    BY <1>2, <1>6, <2>1
<1>8. TotalLen(next) = t[n + 1] /\ TotalLen(list) = s[n]
  BY <1>1, TotalLenIsLast DEF t, s, n
<1> QED
  BY <1>7, <1>8 DEF lx

\* An empty list has no length.
LEMMA TotalOfEmpty == TotalLen(<<>>) = 0
<1>1. <<>> \in Seq(Fragment) /\ Len(<<>>) = 0
  OBVIOUS
<1>2. Totals(<<>>)[0] = 0
  BY <1>1, TotalsAdd
<1> QED
  BY <1>1, <1>2, TotalLenIsLast

TotalMatches(e) == e.frags_collected_total_len = TotalLen(e.fragment_list)

\* Adding a fragment keeps the total right.
LEMMA ExtendedTotal ==
    ASSUME NEW f \in FragmentInfos, ~ArgsInvalid(f), NEW e \in TableEntry, TotalMatches(e)
    PROVE  TotalMatches(Extended(e, f))
<1> DEFINE x    == [seq_num |-> f.seq_num, payload |-> f.msg_data]
           old  == e.fragment_list
           list == Extended(e, f).fragment_list
<1>1. x \in Fragment /\ x.payload = f.msg_data
  BY ArgumentTypes DEF Fragment
<1>2. old \in Seq(Fragment) /\ Len(old) \in Nat
  BY LenProperties DEF TableEntry
<1>3. list = IF f.out_of_order THEN InsertSorted(old, x) ELSE Append(old, x)
  BY DEF Extended
<1>4. Extended(e, f).frags_collected_total_len =
          e.frags_collected_total_len + PayloadLen[f.msg_data]
  BY DEF Extended
<1> HIDE DEF x, old, list
<1>5. \E p \in 1 .. Len(old) + 1 : IsInsertion(list, old, p, x)
  <2>1. CASE f.out_of_order
    BY <1>1, <1>2, <1>3, <2>1, InsertSortedInserts
  <2>2. CASE ~f.out_of_order
    <3>1. IsInsertion(Append(old, x), old, Len(old) + 1, x)
      BY <1>1, <1>2, AppendProperties DEF IsInsertion
    <3>2. Len(old) + 1 \in 1 .. Len(old) + 1
      BY <1>2
    <3> QED
      BY <1>3, <2>2, <3>1, <3>2
  <2> QED
    BY <2>1, <2>2
<1>6. TotalLen(list) = TotalLen(old) + PayloadLen[f.msg_data]
  BY <1>1, <1>2, <1>5, TotalOfInsertion
<1> QED
  BY <1>4, <1>6 DEF TotalMatches, old, list

\* Every call keeps the totals right.
LEMMA NextTotals == IInv /\ TotalsMatchList /\ [Next]_vars => TotalsMatchList'
<1> SUFFICES ASSUME IInv, TotalsMatchList, [Next]_vars, NEW k \in Keys,
                    fragment_table'[k] # NULL
             PROVE  TotalMatches(fragment_table'[k])
  BY DEF TotalsMatchList, Entries, TotalMatches
<1>1. ASSUME fragment_table'[k] = fragment_table[k]  PROVE TotalMatches(fragment_table'[k])
  BY <1>1 DEF TotalsMatchList, Entries, TotalMatches
<1>2. ASSUME NEW f \in FragmentInfos, FragmentAdd(f), ~RejectInvalidArgs(f)
      PROVE  TotalMatches(fragment_table'[k])
  <2>1. ~ArgsInvalid(f) /\ TypeOK
    BY <1>2, ReturnsEntry DEF IInv
  <2>2. f.msg_info \in Keys
    BY <2>1, ArgumentTypes
  <2>3. Entry(f) \in TableEntry /\ TotalMatches(Entry(f))
    <3>1. CASE Current(f) # NULL
      BY <2>1, <2>2, <3>1, CurrentEntry DEF Entry, TotalsMatchList, Entries, TotalMatches
    <3>2. CASE Current(f) = NULL
      <4>1. TotalMatches(NewEntry(f))
        BY TotalOfEmpty DEF NewEntry, TotalMatches
      <4> QED
        BY <2>1, <3>2, <4>1, NewEntryType DEF Entry
    <3> QED
      BY <3>1, <3>2
  <2>4. Extended(Entry(f), f) \in TableEntry /\ TotalMatches(Extended(Entry(f), f))
    BY <2>1, <2>3, ExtendedType, ExtendedTotal
  <2>5. \E entry \in {NULL, Entry(f), Extended(Entry(f), f)}, status \in Status :
           Return(f, entry, status)
    <3>1. /\ "SKIPPED" \in Status
          /\ "FRAG_OUT_OF_SEQUENCE" \in Status
          /\ "DUPLICATE" \in Status
          /\ "COMPLETE" \in Status
          /\ "IN_PROGRESS" \in Status
      BY DEF Status
    <3>2. CASE AddFragment(f)
      <4>1. \E status \in {"COMPLETE", "IN_PROGRESS"} :
               Return(f, Extended(Entry(f), f), status)
        BY <3>2 DEF AddFragment
      <4> QED
        BY <3>1, <4>1
    <3> QED
      BY <1>2, <3>1, <3>2
         DEF FragmentAdd, SkipUnfragmented, RejectNotFirst, AbortOutOfSequence, SkipDuplicate
  <2>6. PICK entry \in {NULL, Entry(f), Extended(Entry(f), f)}, status \in Status :
           Return(f, entry, status)
    BY <2>5
  <2>7. CASE k = f.msg_info
    <3>1. fragment_table'[k] = entry
      BY <2>1, <2>3, <2>4, <2>6, <2>7, ReturnEffect
    <3> QED
      BY <2>3, <2>4, <3>1
  <2>8. CASE k # f.msg_info
    <3>1. fragment_table'[k] = fragment_table[k]
      BY <2>1, <2>3, <2>4, <2>6, <2>8, ReturnEffect
    <3> QED
      BY <1>1, <3>1
  <2> QED
    BY <2>7, <2>8
<1>3. ASSUME NEW f \in FragmentInfos, RejectInvalidArgs(f)
      PROVE  TotalMatches(fragment_table'[k])
  BY <1>1, <1>3 DEF RejectInvalidArgs
<1>4. ASSUME NEW j \in Keys, PayloadGet(j)  PROVE TotalMatches(fragment_table'[k])
  <2>1. \/ fragment_table' = fragment_table
        \/ fragment_table' = [fragment_table EXCEPT ![j] = NULL]
    BY <1>4 DEF PayloadGet, PayloadNotFound, PayloadEmpty, PayloadTaken
  <2>2. fragment_table'[k] = fragment_table[k]
    BY <2>1 DEF IInv, TypeOK
  <2> QED
    BY <1>1, <2>2
<1>5. CASE UNCHANGED vars
  BY <1>1, <1>5 DEF vars
<1> QED
  BY <1>2, <1>3, <1>4, <1>5 DEF Next

\* The length that la_reasm_payload_get allocates is that of what it copies.
THEOREM TotalsRight == Spec => []TotalsMatchList
<1>1. Init => TotalsMatchList
  BY DEF Init, TotalsMatchList, Entries
<1> QED
  BY <1>1, NextTotals, Invariance, PTL DEF Spec

-----------------------------------------------------------------------------
(***************************************************************************)
(* What a call with a fragment of a protocol that forbids reordering may   *)
(* do: for callers, who know what their fragments are.                     *)
(***************************************************************************)

\* The entry e is s with the fragment at the end.
LongerBy(s, f, e) ==
    /\ e.prev_seq_num = f.seq_num
    /\ e.frags_collected_total_len = s.frags_collected_total_len + PayloadLen[f.msg_data]
    /\ e.total_pdu_len = s.total_pdu_len
    /\ e.total_fragment_cnt = s.total_fragment_cnt
    /\ e.first_frag_rx_time = s.first_frag_rx_time
    /\ e.reasm_timeout = s.reasm_timeout
    /\ e.fragment_list = Append(s.fragment_list, [seq_num |-> f.seq_num, payload |-> f.msg_data])

\* The fragment begins an entry, or goes on with the one there is.
MakesEntry(f, e) ==
    LET s == fragment_table[f.msg_info]
    IN  \/ ~Unfragmented(f) /\ ~NotFirst(f) /\ LongerBy(NewEntry(f), f, e)
        \/ /\ s # NULL
           /\ ~Expired(s, f.rx_time)
           /\ ~IsDuplicate(s, f)
           /\ InSequence(s, f)
           /\ LongerBy(s, f, e)

InOrderOutcome(f) ==
    LET s    == fragment_table[f.msg_info]
        next == fragment_table'[f.msg_info]
    IN  \/ last'.status = "SKIPPED" /\ Unfragmented(f) /\ next = NULL
        \/ /\ last'.status = "FRAG_OUT_OF_SEQUENCE"
           /\ NotFirst(f) \/ (s # NULL /\ ~IsDuplicate(s, f) /\ ~InSequence(s, f))
           /\ next = NULL
        \/ last'.status = "DUPLICATE" /\ s # NULL /\ next \in {s, NULL}
        \/ \E e \in TableEntry :
              /\ MakesEntry(f, e)
              /\ next \in {e, NULL}
              /\ last'.status = IF IsComplete(e, f.is_final_fragment)
                                THEN "COMPLETE" ELSE "IN_PROGRESS"

\* A fragment in order is added at the end.
LEMMA ExtendedInOrder ==
    ASSUME NEW f \in FragmentInfos, ~f.out_of_order, NEW e \in TableEntry
    PROVE  LongerBy(e, f, Extended(e, f))
BY DEF Extended, LongerBy

\* The ways a call returns, for a fragment in order.
LEMMA InOrderCall ==
    ASSUME TypeOK, NEW f \in FragmentInfos, ~f.out_of_order, FragmentAdd(f)
    PROVE  /\ TypeOK'
           /\ last'.status \in Status
           /\ \A k \in Keys \ {f.msg_info} : fragment_table'[k] \in {fragment_table[k], NULL}
           /\ \/ /\ ArgsInvalid(f)
                 /\ last'.status = "ARGS_INVALID"
                 /\ fragment_table' = fragment_table
              \/ ~ArgsInvalid(f) /\ InOrderOutcome(f)
<1>1. CASE RejectInvalidArgs(f)
  <2>1. /\ ArgsInvalid(f)
        /\ fragment_table' = fragment_table
        /\ frag_cnt' = frag_cnt
        /\ last' = [status |-> "ARGS_INVALID", key |-> f.msg_info, seq_num |-> f.seq_num,
                    rx_time |-> f.rx_time, payload |-> <<>>]
    BY <1>1 DEF RejectInvalidArgs, Reported
  <2>2. f.msg_info \in Keys \cup {NULL} /\ f.seq_num \in Int /\ f.rx_time \in Time
    BY ConstantsAssumption DEF FragmentInfo
  <2>3. <<>> \in Seq(Payloads) /\ "ARGS_INVALID" \in Status
    BY DEF Status
  <2>4. last' \in LastCall /\ last'.status = "ARGS_INVALID"
    BY <2>1, <2>2, <2>3 DEF LastCall
  <2>5. TypeOK'
    BY <2>1, <2>4 DEF TypeOK
  <2> QED
    BY <2>1, <2>3, <2>4, <2>5
<1>2. ASSUME ~ArgsInvalid(f), NEW entry \in TableEntry \cup {NULL}, NEW status \in Status,
             Return(f, entry, status)
      PROVE  /\ TypeOK'
             /\ last'.status = status
             /\ \A k \in Keys \ {f.msg_info} : fragment_table'[k] \in {fragment_table[k], NULL}
             /\ fragment_table'[f.msg_info] \in {entry, NULL}
  BY <1>2, ReturnEffect
<1>3. /\ "SKIPPED" \in Status
      /\ "FRAG_OUT_OF_SEQUENCE" \in Status
      /\ "DUPLICATE" \in Status
      /\ "COMPLETE" \in Status
      /\ "IN_PROGRESS" \in Status
  BY DEF Status
<1> DEFINE s == fragment_table[f.msg_info]
<1>4. ASSUME ~ArgsInvalid(f), Current(f) # NULL
      PROVE  s = Current(f) /\ s = Entry(f) /\ ~Expired(s, f.rx_time)
  BY <1>4, CurrentEntry DEF Entry
<1>5. ASSUME ~ArgsInvalid(f), IsDuplicate(Entry(f), f) \/ ~InSequence(Entry(f), f)
      PROVE  Current(f) # NULL
  BY <1>5, NewEntryAdmits DEF Entry
<1>6. CASE SkipUnfragmented(f)
  <2>1. ~ArgsInvalid(f) /\ Unfragmented(f) /\ Return(f, NULL, "SKIPPED")
    BY <1>6 DEF SkipUnfragmented
  <2> QED
    BY <1>2, <1>3, <2>1 DEF InOrderOutcome
<1>7. CASE RejectNotFirst(f)
  <2>1. ~ArgsInvalid(f) /\ NotFirst(f) /\ Return(f, NULL, "FRAG_OUT_OF_SEQUENCE")
    BY <1>7 DEF RejectNotFirst
  <2> QED
    BY <1>2, <1>3, <2>1 DEF InOrderOutcome
<1>8. CASE SkipDuplicate(f)
  <2>1. ~ArgsInvalid(f) /\ IsDuplicate(Entry(f), f) /\ Return(f, Entry(f), "DUPLICATE")
    BY <1>8 DEF SkipDuplicate
  <2>2. s = Entry(f) /\ s # NULL /\ Entry(f) \in TableEntry
    BY <1>4, <1>5, <2>1, EntryType
  <2> QED
    BY <1>2, <1>3, <2>1, <2>2 DEF InOrderOutcome
<1>9. CASE AbortOutOfSequence(f)
  <2>1. /\ ~ArgsInvalid(f)
        /\ ~IsDuplicate(Entry(f), f)
        /\ ~InSequence(Entry(f), f)
        /\ Return(f, NULL, "FRAG_OUT_OF_SEQUENCE")
    BY <1>9 DEF AbortOutOfSequence
  <2>2. s = Entry(f) /\ s # NULL
    BY <1>4, <1>5, <2>1
  <2> QED
    BY <1>2, <1>3, <2>1, <2>2 DEF InOrderOutcome
<1>10. CASE AddFragment(f)
  <2> DEFINE e      == Extended(Entry(f), f)
             status == IF IsComplete(e, f.is_final_fragment) THEN "COMPLETE" ELSE "IN_PROGRESS"
  <2>1. /\ ~ArgsInvalid(f)
        /\ Admitted(f)
        /\ ~IsDuplicate(Entry(f), f)
        /\ InSequence(Entry(f), f)
        /\ Return(f, e, status)
    BY <1>10 DEF AddFragment
  <2>2. Entry(f) \in TableEntry /\ e \in TableEntry /\ LongerBy(Entry(f), f, e)
    BY <2>1, EntryType, ExtendedType, ExtendedInOrder
  <2>3. status \in Status
    BY <1>3
  <2>4. MakesEntry(f, e)
    <3>1. CASE Current(f) # NULL
      BY <1>4, <2>1, <2>2, <3>1 DEF MakesEntry
    <3>2. CASE Current(f) = NULL
      <4>1. Entry(f) = NewEntry(f) /\ ~Unfragmented(f) /\ ~NotFirst(f)
        BY <2>1, <3>2 DEF Entry, Admitted
      <4> QED
        BY <2>2, <4>1 DEF MakesEntry
    <3> QED
      BY <3>1, <3>2
  <2>5. last'.status = status /\ fragment_table'[f.msg_info] \in {e, NULL} /\ TypeOK'
        /\ \A k \in Keys \ {f.msg_info} : fragment_table'[k] \in {fragment_table[k], NULL}
    <3> HIDE DEF e, status
    <3> QED
      BY <1>2, <2>1, <2>2, <2>3
  <2>6. InOrderOutcome(f)
    BY <2>2, <2>4, <2>5 DEF InOrderOutcome
  <2> QED
    BY <2>1, <2>3, <2>5, <2>6
<1> QED
  BY <1>1, <1>6, <1>7, <1>8, <1>9, <1>10 DEF FragmentAdd
=============================================================================
