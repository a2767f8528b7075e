--------------------------- MODULE ReasmLinkProofs ---------------------------
(***************************************************************************)
(* Proofs about ReasmLink, for any messages, keys, timeout, lifetime and   *)
(* length of the run that satisfy the assumptions of that module: the      *)
(* engine implements MessageDelivery over a lossy link, and stale entries  *)
(* go.                                                                     *)
(***************************************************************************)
EXTENDS ReasmLink, ReassemblyProofs

-----------------------------------------------------------------------------
(***************************************************************************)
(* The invariant.  Every entry holds fragments of one message only.        *)
(***************************************************************************)

\* What the engine stores of part i of message m.
Piece(m, i) == [seq_num |-> SeqNum(m, i), payload |-> Part(m, i)]

Marked(m) == Protocol[MsgKey[m]].seq_num_first # SEQ_FIRST_NONE

\* The parts of m that an entry can begin with.
Beginnings(m) == {first \in 1 .. MsgLen[m] : Marked(m) => first = 1}

\* The list is that of consecutive parts of m, from part first on.
RunOf(list, m, first) ==
    /\ first + Len(list) - 1 <= MsgLen[m]
    /\ \A j \in 1 .. Len(list) : list[j] = Piece(m, first + j - 1)

\* The entry was begun by a fragment of m while that was on the air.
BegunBy(e, m) ==
    \E t \in 0 .. MaxTime :
        /\ e.first_frag_rx_time = At(t)
        /\ sent_at[m] <= t
        /\ t <= sent_at[m] + Lifetime

\* All that the entry holds is of m: a run of parts, or where reordering is
\* allowed a choice of them; and no length but perhaps the count is known.
HoldsOnly(e, m) ==
    LET list == e.fragment_list
    IN  /\ e.total_pdu_len = 0
        /\ e.reasm_timeout = At(Timeout)
        /\ \A j \in DOMAIN list : PayloadLen[list[j].payload] <= e.frags_collected_total_len
        /\ IF Protocol[MsgKey[m]].out_of_order
           THEN /\ e.total_fragment_cnt \in {0, MsgLen[m]}
                /\ \A j \in DOMAIN list : \E i \in 1 .. MsgLen[m] : list[j] = Piece(m, i)
           ELSE /\ e.total_fragment_cnt = 0
                /\ \E first \in Beginnings(m) : RunOf(list, m, first)

\* The payload is all of m, from a part it can begin with.
WholeOf(list, m) ==
    \E first \in Beginnings(m) :
        PayloadsOf(list) = SubSeq(Body[m], first, Len(Body[m]))

\* In order the final part is still missing.
Unfinished(list, m) ==
    ~Protocol[MsgKey[m]].out_of_order =>
        \A j \in DOMAIN list : list[j] # Piece(m, MsgLen[m])

EntryOf(k, m) ==
    /\ MsgKey[m] = k
    /\ IsSent(m)
    /\ BegunBy(fragment_table[k], m)
    /\ HoldsOnly(fragment_table[k], m)
    /\ IF Fetching /\ last.key = k
       THEN WholeOf(fragment_table[k].fragment_list, m)
       ELSE Unfinished(fragment_table[k].fragment_list, m)

EntriesOfMessages == \A k \in Entries : \E m \in Messages : EntryOf(k, m)

\* Where numbers do not wrap, a key is reused only after everything of the
\* message before it is off the air and has timed out.
SentApart ==
    \A m, other \in Messages :
        /\ m # other
        /\ MsgKey[m] = MsgKey[other]
        /\ Protocol[MsgKey[m]].seq_num_wrap = SEQ_WRAP_NONE
        /\ IsSent(m)
        /\ IsSent(other)
        => \/ sent_at[m] > sent_at[other] + Lifetime + Timeout
           \/ sent_at[other] > sent_at[m] + Lifetime + Timeout

SentBefore == \A m \in Messages : IsSent(m) => sent_at[m] <= now

\* Calls an entry survives after its timeout are calls since the last cleanup.
OverdueCounted == \A k \in Keys : overdue[k] <= frag_cnt

LinkIInv ==
    /\ IInv
    /\ LinkTypeOK
    /\ SentBefore
    /\ SentApart
    /\ OverdueCounted
    /\ EntriesOfMessages

-----------------------------------------------------------------------------
(***************************************************************************)
(* Lemmas about the numbers and the arguments of the callers.              *)
(***************************************************************************)

\* The remainder is the one the division leaves.
LEMMA RemainderUnique ==
    ASSUME NEW w \in Nat \ {0}, NEW q \in Int, NEW r \in 0 .. w - 1
    PROVE  (w * q + r) % w = r
OBVIOUS

\* The next number modulo a wrap: one more, or 0 after the last.
LEMMA NextNumber ==
    ASSUME NEW n \in Nat, NEW w \in Nat \ {0}
    PROVE  /\ n % w \in 0 .. w - 1
           /\ (n % w) + 1 < w => (n + 1) % w = (n % w) + 1
           /\ (n % w) + 1 = w => (n + 1) % w = 0
<1> DEFINE r == n % w
           q == n \div w
<1>1. r \in 0 .. w - 1 /\ n = w * q + r /\ q \in Int
  OBVIOUS
<1> HIDE DEF r, q
<1>2. ASSUME r + 1 < w  PROVE (n + 1) % w = r + 1
  <2>1. r + 1 \in 0 .. w - 1 /\ n + 1 = w * q + (r + 1)
    BY <1>1, <1>2
  <2> QED
    BY <1>1, <2>1, RemainderUnique
<1>3. ASSUME r + 1 = w  PROVE (n + 1) % w = 0
  <2>1. w * (q + 1) = w * q + w
    BY <1>1
  <2>2. n + 1 = w * (q + 1) + 0 /\ 0 \in 0 .. w - 1 /\ q + 1 \in Int
    BY <1>1, <1>3, <2>1
  <2> QED
    BY <2>2, RemainderUnique
<1> QED
  BY <1>1, <1>2, <1>3 DEF r

\* The constants of a message.
LEMMA MessageFacts ==
    ASSUME NEW m \in Messages
    PROVE  /\ MsgKey[m] \in Keys
           /\ MsgLen[m] \in Nat \ {0}
           /\ MsgStart[m] \in Nat
           /\ 1 \in 1 .. MsgLen[m]
           /\ MsgLen[m] \in 1 .. MsgLen[m]
           /\ Protocol[MsgKey[m]].out_of_order \in BOOLEAN
           /\ Protocol[MsgKey[m]].seq_num_first \in Int
           /\ Protocol[MsgKey[m]].seq_num_wrap \in Int
BY LinkAssumption, ConstantsAssumption DEF ProtocolRecord

\* The numbers of a message, and which one follows which.
LEMMA Numbers ==
    ASSUME NEW m \in Messages, NEW i \in 1 .. MsgLen[m]
    PROVE  LET wrap == Protocol[MsgKey[m]].seq_num_wrap
           IN  /\ SeqNum(m, i) \in Nat
               /\ wrap = SEQ_WRAP_NONE => /\ SeqNum(m, i) = MsgStart[m] + i - 1
                                          /\ SeqNum(m, i + 1) = SeqNum(m, i) + 1
               /\ wrap # SEQ_WRAP_NONE =>
                      /\ SeqNum(m, i) < wrap
                      /\ SeqNum(m, i) + 1 < wrap => SeqNum(m, i + 1) = SeqNum(m, i) + 1
                      /\ SeqNum(m, i) + 1 = wrap => SeqNum(m, i + 1) = 0
<1> DEFINE wrap == Protocol[MsgKey[m]].seq_num_wrap
           n    == MsgStart[m] + i - 1
<1>1. n \in Nat /\ MsgStart[m] + (i + 1) - 1 = n + 1 /\ MsgStart[m] \in Nat
  BY MessageFacts
<1>2. CASE wrap = SEQ_WRAP_NONE
  BY <1>1, <1>2 DEF SeqNum
<1>3. CASE wrap # SEQ_WRAP_NONE
  <2>1. wrap \in Nat \ {0}
    BY <1>3, SendersAssumption
  <2>2. SeqNum(m, i) = n % wrap /\ SeqNum(m, i + 1) = (n + 1) % wrap
    BY <1>1, <1>3 DEF SeqNum
  <2> HIDE DEF wrap, n
  <2>3. /\ n % wrap \in 0 .. wrap - 1
        /\ (n % wrap) + 1 < wrap => (n + 1) % wrap = (n % wrap) + 1
        /\ (n % wrap) + 1 = wrap => (n + 1) % wrap = 0
    BY <1>1, <2>1, NextNumber
  <2>4. SeqNum(m, i) \in Nat /\ SeqNum(m, i) < wrap
    BY <2>1, <2>2, <2>3
  <2> QED
    BY <1>3, <2>2, <2>3, <2>4 DEF wrap
<1> QED
  BY <1>2, <1>3

\* No call of the receiver is rejected for its arguments.
LEMMA InfoFacts ==
    ASSUME NEW m \in Messages, NEW i \in 1 .. MsgLen[m], NEW t \in 0 .. MaxTime
    PROVE  /\ Info(m, i, t) \in FragmentInfos
           /\ ~ArgsInvalid(Info(m, i, t))
<1> DEFINE f == Info(m, i, t)
<1>1. f \in FragmentInfos
  BY LinkAssumption
<1>2. /\ f.msg_info = MsgKey[m]
      /\ f.reasm_timeout = At(Timeout)
      /\ f.out_of_order = Protocol[MsgKey[m]].out_of_order
      /\ f.seq_num_wrap = Protocol[MsgKey[m]].seq_num_wrap
  BY DEF Info
<1>3. MsgKey[m] # NULL
  BY MessageFacts, ConstantsAssumption
<1>4. At(Timeout) # ZeroTime
  BY LinkAssumption DEF At, ZeroTime
<1>5. Protocol[MsgKey[m]].out_of_order => Protocol[MsgKey[m]].seq_num_wrap = SEQ_WRAP_NONE
  BY SendersAssumption
<1> HIDE DEF f
<1>6. ~ArgsInvalid(f)
  BY <1>2, <1>3, <1>4, <1>5 DEF ArgsInvalid
<1> QED
  BY <1>1, <1>6 DEF f

\* What the caller passes for a part.
LEMMA InfoFields ==
    ASSUME NEW m \in Messages, NEW i \in 1 .. MsgLen[m], NEW t \in 0 .. MaxTime
    PROVE  LET f == Info(m, i, t)
               p == Protocol[MsgKey[m]]
           IN  /\ f.msg_info = MsgKey[m]
               /\ f.msg_data = Part(m, i)
               /\ f.total_pdu_len = 0
               /\ f.total_fragment_cnt = IF p.out_of_order /\ i = 1 THEN MsgLen[m] ELSE 0
               /\ f.rx_time = At(t)
               /\ f.reasm_timeout = At(Timeout)
               /\ f.seq_num = SeqNum(m, i)
               /\ f.seq_num_first = p.seq_num_first
               /\ f.seq_num_wrap = p.seq_num_wrap
               /\ f.is_final_fragment = (~p.out_of_order /\ i = MsgLen[m])
               /\ f.out_of_order = p.out_of_order
BY DEF Info

-----------------------------------------------------------------------------
(***************************************************************************)
(* Lemmas about lists of parts.                                            *)
(***************************************************************************)

\* Numbers that increase from 1 on are at least their positions.
LEMMA IncreasingBelow ==
    ASSUME NEW n \in Nat, NEW d \in [1 .. n -> Int],
           \A j \in 1 .. n : d[j] >= 1,
           \A j, l \in 1 .. n : j < l => d[j] < d[l]
    PROVE  \A j \in 1 .. n : d[j] >= j
<1> DEFINE S == {j \in 1 .. n : d[j] < j}
<1>1. ASSUME S # {}  PROVE FALSE
  <2>1. PICK j \in S : \A l \in S : j <= l
    <3>1. S \in SUBSET Nat
      OBVIOUS
    <3> QED
      BY <1>1, <3>1, MinIsLeast
  <2>2. j \in 1 .. n /\ d[j] < j /\ d[j] >= 1 /\ d[j] \in Int
    BY <2>1
  <2>3. j - 1 \in 1 .. n
    BY <2>2
  <2>4. d[j - 1] >= j - 1 /\ d[j - 1] \in Int
    <3>1. j - 1 \notin S
      BY <2>1, <2>2
    <3> QED
      BY <2>3, <3>1
  <2>5. d[j - 1] < d[j]
    BY <2>2, <2>3
  <2> QED
    BY <2>2, <2>4, <2>5
<1> QED
  BY <1>1

\* As many increasing numbers as there are below a bound are all of them.
LEMMA IncreasingFills ==
    ASSUME NEW n \in Nat, NEW d \in [1 .. n -> Int],
           \A j \in 1 .. n : d[j] >= 1 /\ d[j] <= n,
           \A j, l \in 1 .. n : j < l => d[j] < d[l]
    PROVE  \A j \in 1 .. n : d[j] = j
<1> DEFINE S == {c \in 0 .. n - 1 : d[n - c] > n - c}
<1>1. ASSUME S # {}  PROVE FALSE
  <2>1. PICK c \in S : \A b \in S : c <= b
    <3>1. S \in SUBSET Nat
      OBVIOUS
    <3> QED
      BY <1>1, <3>1, MinIsLeast
  <2>2. c \in 0 .. n - 1 /\ n - c \in 1 .. n /\ d[n - c] > n - c /\ d[n - c] <= n
    BY <2>1
  <2>3. c - 1 \in 0 .. n - 1 /\ n - (c - 1) \in 1 .. n /\ n - c < n - (c - 1)
    BY <2>2
  <2>4. d[n - (c - 1)] <= n - (c - 1)
    <3>1. ASSUME c - 1 \in S  PROVE FALSE
      <4>1. c <= c - 1
        BY <2>1, <3>1
      <4> QED
        BY <2>2, <4>1
    <3> QED
      BY <2>3, <3>1
  <2>5. d[n - c] < d[n - (c - 1)]
    BY <2>2, <2>3
  <2>6. d[n - c] \in Int /\ d[n - (c - 1)] \in Int
    BY <2>2, <2>3
  <2> QED
    BY <2>2, <2>4, <2>5, <2>6
<1>2. \A j \in 1 .. n : d[j] <= j
  <2> SUFFICES ASSUME NEW j \in 1 .. n  PROVE d[j] <= j
    OBVIOUS
  <2>1. n - j \in 0 .. n - 1 /\ n - (n - j) = j /\ d[j] \in Int
    OBVIOUS
  <2>2. n - j \notin S
    BY <1>1
  <2> QED
    BY <2>1, <2>2
<1>3. \A j \in 1 .. n : d[j] >= j
  BY IncreasingBelow
<1> QED
  BY <1>2, <1>3

\* The parts of a message are payloads, and its body is the sequence of them.
LEMMA BodyParts ==
    ASSUME NEW m \in Messages
    PROVE  /\ Body[m] \in Seq(Payloads)
           /\ Len(Body[m]) = MsgLen[m]
           /\ \A i \in 1 .. MsgLen[m] : Part(m, i) \in Payloads /\ Body[m][i] = Part(m, i)
<1>1. ASSUME NEW i \in 1 .. MsgLen[m]  PROVE Part(m, i) \in Payloads
  <2>1. 0 \in 0 .. MaxTime
    BY LinkAssumption
  <2>2. Info(m, i, 0).msg_data \in Payloads
    BY <2>1, InfoFacts, ArgumentTypes
  <2> QED
    BY <2>1, <2>2, InfoFields
<1>2. Body[m] = [i \in 1 .. MsgLen[m] |-> Part(m, i)]
  BY DEF Body
<1>3. MsgLen[m] \in Nat
  BY MessageFacts
<1>4. Body[m] \in [1 .. MsgLen[m] -> Payloads]
  BY <1>1, <1>2
<1>5. Body[m] \in Seq(Payloads)
  BY <1>3, <1>4, SeqDef
<1>6. Len(Body[m]) = MsgLen[m]
  BY <1>2, <1>3, <1>5, LenProperties
<1> QED
  BY <1>1, <1>2, <1>5, <1>6

\* The payloads of a run that reaches the final part are all of the message
\* from where the run begins.
LEMMA RunIsWhole ==
    ASSUME NEW m \in Messages, NEW list \in Seq(Fragment), NEW first \in Beginnings(m),
           RunOf(list, m, first),
           first + Len(list) - 1 = MsgLen[m]
    PROVE  WholeOf(list, m)
<1> DEFINE n == Len(list)
           a == PayloadsOf(list)
           b == SubSeq(Body[m], first, Len(Body[m]))
<1>1. /\ n \in Nat
      /\ DOMAIN list = 1 .. n
      /\ MsgLen[m] \in Nat
      /\ first \in 1 .. MsgLen[m]
  BY LenProperties, MessageFacts DEF Beginnings
<1>2. \A j \in 1 .. n : first + j - 1 \in 1 .. MsgLen[m]
  BY <1>1
<1>3. a = [j \in 1 .. n |-> Part(m, first + j - 1)]
  <2>1. ASSUME NEW j \in 1 .. n
        PROVE  list[j].payload = Part(m, first + j - 1)
    <3>1. list[j] = Piece(m, first + j - 1)
      BY DEF RunOf
    <3> QED
      BY <3>1 DEF Piece
  <2> QED
    BY <1>1, <2>1 DEF PayloadsOf
<1>4. a \in Seq(Payloads) /\ Len(a) = n
  <2>1. a \in [1 .. n -> Payloads]
    BY <1>2, <1>3, BodyParts
  <2>2. a \in Seq(Payloads)
    BY <1>1, <2>1, SeqDef
  <2> QED
    BY <1>1, <1>3, <2>2, LenProperties
<1>5. /\ b \in Seq(Payloads)
      /\ Len(b) = n
      /\ \A j \in 1 .. n : b[j] = Body[m][first + j - 1]
  <2>1. Body[m] \in Seq(Payloads) /\ Len(Body[m]) = MsgLen[m]
    BY BodyParts
  <2>2. first \in 1 .. Len(Body[m]) + 1 /\ Len(Body[m]) \in first - 1 .. Len(Body[m])
    BY <1>1, <2>1
  <2>3. Len(Body[m]) - first + 1 = n
    BY <1>1, <2>1
  <2> HIDE DEF n
  <2> QED
    BY <2>1, <2>2, <2>3, SubSeqProperties
<1>6. \A j \in 1 .. n : a[j] = b[j]
  BY <1>2, <1>3, <1>5, BodyParts
<1> HIDE DEF a, b
<1>7. a = b
  BY <1>4, <1>5, <1>6, SeqEqual
<1> QED
  BY <1>7 DEF a, b, WholeOf

\* Where reordering is allowed, as many parts as the message has are all.
LEMMA AllPartsAreWhole ==
    ASSUME NEW m \in Messages, NEW list \in Seq(Fragment),
           Protocol[MsgKey[m]].out_of_order,
           Increasing(list),
           \A j \in DOMAIN list : \E i \in 1 .. MsgLen[m] : list[j] = Piece(m, i),
           Len(list) >= MsgLen[m]
    PROVE  WholeOf(list, m)
<1> DEFINE n     == Len(list)
           len   == MsgLen[m]
           start == MsgStart[m]
           d     == [j \in 1 .. n |-> list[j].seq_num - start + 1]
<1>1. /\ n \in Nat
      /\ DOMAIN list = 1 .. n
      /\ len \in Nat
      /\ start \in Nat
      /\ \A j \in 1 .. n : list[j].seq_num \in Int
  BY NumberTypes, MessageFacts
<1>2. Protocol[MsgKey[m]].seq_num_wrap = SEQ_WRAP_NONE
  BY SendersAssumption
<1>3. \A j \in 1 .. n : \E i \in 1 .. len : list[j] = Piece(m, i) /\ list[j].seq_num = start + i - 1
  <2> SUFFICES ASSUME NEW j \in 1 .. n
               PROVE  \E i \in 1 .. len :
                          list[j] = Piece(m, i) /\ list[j].seq_num = start + i - 1
    OBVIOUS
  <2>1. PICK i \in 1 .. len : list[j] = Piece(m, i)
    BY <1>1
  <2>2. list[j].seq_num = SeqNum(m, i)
    BY <2>1 DEF Piece
  <2> QED
    BY <1>2, <2>1, <2>2, Numbers
<1> HIDE DEF n, len, start
<1>4. \A j \in 1 .. n : d[j] \in 1 .. len /\ list[j] = Piece(m, d[j])
  <2> SUFFICES ASSUME NEW j \in 1 .. n  PROVE d[j] \in 1 .. len /\ list[j] = Piece(m, d[j])
    OBVIOUS
  <2>1. PICK i \in 1 .. len : list[j] = Piece(m, i) /\ list[j].seq_num = start + i - 1
    BY <1>3
  <2>2. d[j] = i
    BY <1>1, <2>1
  <2> QED
    BY <2>1, <2>2
<1>5. d \in [1 .. n -> Int]
  BY <1>1
<1>6. \A j, l \in 1 .. n : j < l => d[j] < d[l]
  <2>1. \A j, l \in 1 .. n : j < l => list[j].seq_num < list[l].seq_num
    BY <1>1 DEF Increasing
  <2> QED
    BY <1>1, <2>1
<1> HIDE DEF d
<1>7. n = len
  <2>1. \A j \in 1 .. n : d[j] >= j
    <3>1. \A j \in 1 .. n : d[j] >= 1
      BY <1>4
    <3> QED
      BY <1>1, <1>5, <1>6, <3>1, IncreasingBelow
  <2>2. n >= len
    BY DEF n, len
  <2>3. CASE n = 0
    BY <1>1, <2>2, <2>3
  <2>4. CASE n # 0
    <3>1. n \in 1 .. n /\ d[n] \in 1 .. len /\ d[n] >= n
      BY <1>1, <1>4, <2>1, <2>4
    <3> QED
      BY <1>1, <2>2, <3>1
  <2> QED
    BY <2>3, <2>4
<1>8. \A j \in 1 .. n : d[j] = j
  <2>1. \A j \in 1 .. n : d[j] >= 1 /\ d[j] <= n
    BY <1>1, <1>4, <1>7
  <2> QED
    BY <1>1, <1>5, <1>6, <2>1, IncreasingFills
<1>9. RunOf(list, m, 1) /\ 1 + n - 1 = len
  <2>1. \A j \in 1 .. n : list[j] = Piece(m, 1 + j - 1)
    <3> SUFFICES ASSUME NEW j \in 1 .. n  PROVE list[j] = Piece(m, 1 + j - 1)
      OBVIOUS
    <3>1. 1 + j - 1 = j
      OBVIOUS
    <3> QED
      BY <1>4, <1>8, <3>1
  <2>2. 1 + n - 1 = len
    BY <1>1, <1>7
  <2> QED
    BY <1>1, <2>1, <2>2 DEF RunOf, n, len
<1>10. 1 \in Beginnings(m)
  BY MessageFacts DEF Beginnings
<1> QED
  BY <1>9, <1>10, RunIsWhole DEF n, len

-----------------------------------------------------------------------------
(***************************************************************************)
(* Lemmas about an entry that gains a part.                                *)
(***************************************************************************)

\* Seconds are times.
LEMMA AtType ==
    ASSUME NEW t \in Nat
    PROVE  At(t) \in Time /\ At(t).tv_sec = t /\ At(t).tv_usec = 0
<1>1. 0 \in 0 .. USEC_PER_SEC - 1
  BY UsecPerSec
<1> QED
  BY <1>1 DEF At, Time

\* When an entry of the link expires.
LEMMA ExpiresAt ==
    ASSUME NEW e, NEW t \in Nat, NEW u \in Nat,
           e.first_frag_rx_time = At(t), e.reasm_timeout = At(Timeout)
    PROVE  Expired(e, At(u)) <=> u > t + Timeout
<1>1. Timeout \in Nat /\ Timeout # 0
  BY LinkAssumption
<1>2. At(Timeout) # ZeroTime
  BY <1>1 DEF At, ZeroTime
<1>3. /\ Deadline(At(t), At(Timeout)).tv_sec = t + Timeout
      /\ Deadline(At(t), At(Timeout)).tv_usec = 0
  BY <1>1, AtType, DeadlineIsSum
<1>4. At(u).tv_sec = u /\ At(u).tv_usec = 0
  BY AtType
<1> QED
  BY <1>1, <1>2, <1>3, <1>4 DEF Expired, TimedOut, After

\* A part is told from every other by its number, of messages that can be
\* under way together.
LEMMA NumberIdentifies ==
    ASSUME NEW m \in Messages, NEW other \in Messages, MsgKey[m] = MsgKey[other],
           NEW i \in 1 .. MsgLen[m], NEW j \in 1 .. MsgLen[other],
           SeqNum(m, i) = SeqNum(other, j),
           Protocol[MsgKey[m]].seq_num_wrap = SEQ_WRAP_NONE => other = m
    PROVE  other = m /\ i = j
<1>1. other = m
  <2>1. ASSUME other # m  PROVE FALSE
    <3>1. {SeqNum(m, a) : a \in 1 .. MsgLen[m]}
            \cap {SeqNum(other, b) : b \in 1 .. MsgLen[other]} = {}
      BY <2>1, NumbersAssumption
    <3>2. SeqNum(m, i) \in {SeqNum(m, a) : a \in 1 .. MsgLen[m]}
      OBVIOUS
    <3>3. SeqNum(other, j) \in {SeqNum(other, b) : b \in 1 .. MsgLen[other]}
      OBVIOUS
    <3> QED
      BY <3>1, <3>2, <3>3
  <2> QED
    BY <2>1
<1>2. i = j
  BY <1>1, SendersAssumption
<1> QED
  BY <1>1, <1>2

\* What Extended does to the fields of an entry whose length is not known.
LEMMA ExtendedFields ==
    ASSUME NEW m \in Messages, NEW i \in 1 .. MsgLen[m], NEW t \in 0 .. MaxTime,
           NEW e \in TableEntry, e.total_pdu_len = 0
    PROVE  LET f    == Info(m, i, t)
               next == Extended(e, f)
               ooo  == Protocol[MsgKey[m]].out_of_order
           IN  /\ next.total_pdu_len = 0
               /\ next.reasm_timeout = e.reasm_timeout
               /\ next.first_frag_rx_time = e.first_frag_rx_time
               /\ next.total_fragment_cnt = IF ooo /\ i = 1 /\ e.total_fragment_cnt = 0
                                            THEN MsgLen[m] ELSE e.total_fragment_cnt
               /\ next.fragment_list = IF ooo THEN InsertSorted(e.fragment_list, Piece(m, i))
                                       ELSE Append(e.fragment_list, Piece(m, i))
               /\ next.frags_collected_total_len =
                      e.frags_collected_total_len + PayloadLen[Part(m, i)]
               /\ Piece(m, i) \in Fragment
               /\ PayloadLen[Part(m, i)] \in Nat
<1> DEFINE f == Info(m, i, t)
<1>1. /\ f.msg_data = Part(m, i)
      /\ f.total_pdu_len = 0
      /\ f.total_fragment_cnt = IF Protocol[MsgKey[m]].out_of_order /\ i = 1
                                THEN MsgLen[m] ELSE 0
      /\ f.seq_num = SeqNum(m, i)
      /\ f.out_of_order = Protocol[MsgKey[m]].out_of_order
  BY InfoFields
<1>2. /\ f.msg_data \in Payloads
      /\ PayloadLen[f.msg_data] \in Nat
      /\ f.seq_num \in Int
  BY InfoFacts, ArgumentTypes
<1>3. MsgLen[m] \in Nat \ {0} /\ Protocol[MsgKey[m]].out_of_order \in BOOLEAN
  BY MessageFacts
<1>4. e.total_pdu_len = 0 /\ e.total_fragment_cnt \in Nat
  BY DEF TableEntry
<1> HIDE DEF f
<1>5. Piece(m, i) \in Fragment
  BY <1>1, <1>2 DEF Piece, Fragment
<1>6. Piece(m, i) = [seq_num |-> f.seq_num, payload |-> f.msg_data]
  BY <1>1 DEF Piece
<1>7. ~(f.total_pdu_len > 0)
  BY <1>1
<1>8. f.total_fragment_cnt > 0 <=> (Protocol[MsgKey[m]].out_of_order /\ i = 1)
  BY <1>1, <1>3
<1>9. Extended(e, f).total_pdu_len = 0
  BY <1>4, <1>7 DEF Extended
<1>10. Extended(e, f).total_fragment_cnt =
          IF Protocol[MsgKey[m]].out_of_order /\ i = 1 /\ e.total_fragment_cnt = 0
          THEN MsgLen[m] ELSE e.total_fragment_cnt
  BY <1>1, <1>7, <1>8 DEF Extended
<1>11. /\ Extended(e, f).reasm_timeout = e.reasm_timeout
       /\ Extended(e, f).first_frag_rx_time = e.first_frag_rx_time
       /\ Extended(e, f).frags_collected_total_len =
              e.frags_collected_total_len + PayloadLen[Part(m, i)]
       /\ Extended(e, f).fragment_list =
              IF Protocol[MsgKey[m]].out_of_order
              THEN InsertSorted(e.fragment_list, Piece(m, i))
              ELSE Append(e.fragment_list, Piece(m, i))
  BY <1>1, <1>6 DEF Extended
<1> QED
  BY <1>1, <1>2, <1>5, <1>9, <1>10, <1>11 DEF f

\* Whichever way a list is extended, its elements are the old ones and the new.
LEMMA ExtendedElements ==
    ASSUME NEW list \in Seq(Fragment), NEW x \in Fragment,
           NEW next \in {InsertSorted(list, x), Append(list, x)}
    PROVE  /\ next \in Seq(Fragment)
           /\ Len(next) = Len(list) + 1
           /\ \A j \in DOMAIN next : next[j] = x \/ \E l \in DOMAIN list : next[j] = list[l]
<1>1. Len(list) \in Nat /\ DOMAIN list = 1 .. Len(list)
  BY LenProperties
<1>2. PICK p \in 1 .. Len(list) + 1 : IsInsertion(next, list, p, x)
  <2>1. CASE next = InsertSorted(list, x)
    BY <2>1, InsertSortedInserts
  <2>2. CASE next = Append(list, x)
    <3>1. IsInsertion(Append(list, x), list, Len(list) + 1, x)
      BY <1>1, AppendProperties DEF IsInsertion
    <3>2. Len(list) + 1 \in 1 .. Len(list) + 1
      BY <1>1
    <3> QED
      BY <2>2, <3>1, <3>2
  <2> QED
    BY <2>1, <2>2
<1>3. /\ next \in Seq(Fragment)
      /\ Len(next) = Len(list) + 1
      /\ \A j \in 1 .. Len(list) + 1 :
            next[j] = IF j < p THEN list[j] ELSE IF j = p THEN x ELSE list[j - 1]
  BY <1>2 DEF IsInsertion
<1>4. DOMAIN next = 1 .. Len(list) + 1
  BY <1>3, LenProperties
<1>5. ASSUME NEW j \in DOMAIN next
      PROVE  next[j] = x \/ \E l \in DOMAIN list : next[j] = list[l]
  <2>1. CASE j < p
    <3>1. j \in DOMAIN list
      BY <1>1, <1>4, <2>1
    <3> QED
      BY <1>3, <1>4, <2>1, <3>1
  <2>2. CASE j = p
    BY <1>3, <1>4, <2>2
  <2>3. CASE j > p
    <3>1. j - 1 \in DOMAIN list
      BY <1>1, <1>4, <2>3
    <3> QED
      BY <1>3, <1>4, <2>3, <3>1
  <2> QED
    BY <1>1, <1>4, <2>1, <2>2, <2>3
<1> QED
  BY <1>3, <1>5

\* No part is longer than the total the entry keeps.
LEMMA LengthsCounted ==
    ASSUME NEW m \in Messages, NEW i \in 1 .. MsgLen[m], NEW t \in 0 .. MaxTime,
           NEW e \in TableEntry, e.total_pdu_len = 0,
           \A j \in DOMAIN e.fragment_list :
               PayloadLen[e.fragment_list[j].payload] <= e.frags_collected_total_len
    PROVE  LET next == Extended(e, Info(m, i, t))
           IN  \A j \in DOMAIN next.fragment_list :
                   PayloadLen[next.fragment_list[j].payload] <= next.frags_collected_total_len
<1> DEFINE next  == Extended(e, Info(m, i, t))
           list  == next.fragment_list
           total == e.frags_collected_total_len
           len   == PayloadLen[Part(m, i)]
<1>1. /\ list \in {InsertSorted(e.fragment_list, Piece(m, i)),
                   Append(e.fragment_list, Piece(m, i))}
      /\ next.frags_collected_total_len = total + len
      /\ Piece(m, i) \in Fragment
      /\ len \in Nat
  <2>1. /\ list = IF Protocol[MsgKey[m]].out_of_order
                 THEN InsertSorted(e.fragment_list, Piece(m, i))
                 ELSE Append(e.fragment_list, Piece(m, i))
        /\ next.frags_collected_total_len = total + len
        /\ Piece(m, i) \in Fragment
        /\ len \in Nat
    BY ExtendedFields
  <2> QED
    BY <2>1
<1>2. e.fragment_list \in Seq(Fragment) /\ total \in Nat
  BY DEF TableEntry
<1> HIDE DEF list, next, total, len
<1>3. ASSUME NEW j \in DOMAIN list  PROVE PayloadLen[list[j].payload] <= total + len
  <2>1. CASE list[j] = Piece(m, i)
    <3>1. PayloadLen[list[j].payload] = len
      BY <2>1 DEF Piece, len
    <3> QED
      BY <1>1, <1>2, <3>1
  <2>2. CASE \E l \in DOMAIN e.fragment_list : list[j] = e.fragment_list[l]
    <3>1. PICK l \in DOMAIN e.fragment_list : list[j] = e.fragment_list[l]
      BY <2>2
    <3>2. PayloadLen[list[j].payload] <= total
      BY <3>1 DEF total
    <3>3. PayloadLen[list[j].payload] \in Nat
      <4>1. e.fragment_list[l] \in Fragment
        <5>1. DOMAIN e.fragment_list = 1 .. Len(e.fragment_list)
          BY <1>2, LenProperties
        <5> QED
          BY <1>2, <3>1, <5>1, ElementOfSeq
      <4>2. list[j].payload \in Payloads
        BY <3>1, <4>1 DEF Fragment
      <4> QED
        BY <4>2, ConstantsAssumption
    <3> QED
      BY <1>1, <1>2, <3>2, <3>3
  <2> QED
    BY <1>1, <1>2, <2>1, <2>2, ExtendedElements
<1> QED
  BY <1>1, <1>3 DEF list, next

\* In order, a run gains the part that comes after it.
LEMMA RunExtended ==
    ASSUME NEW m \in Messages, NEW i \in 1 .. MsgLen[m], NEW t \in 0 .. MaxTime,
           ~Protocol[MsgKey[m]].out_of_order,
           NEW e \in TableEntry,
           e.total_pdu_len = 0, e.reasm_timeout = At(Timeout), e.total_fragment_cnt = 0,
           \A j \in DOMAIN e.fragment_list :
               PayloadLen[e.fragment_list[j].payload] <= e.frags_collected_total_len,
           NEW first \in Beginnings(m), RunOf(e.fragment_list, m, first),
           i = first + Len(e.fragment_list)
    PROVE  LET next == Extended(e, Info(m, i, t))
           IN  /\ HoldsOnly(next, m)
               /\ i = MsgLen[m] => WholeOf(next.fragment_list, m)
               /\ i # MsgLen[m] => Unfinished(next.fragment_list, m)
<1> DEFINE next == Extended(e, Info(m, i, t))
           old  == e.fragment_list
           n    == Len(old)
           list == next.fragment_list
<1>1. /\ next.total_pdu_len = 0
      /\ next.reasm_timeout = At(Timeout)
      /\ next.total_fragment_cnt = 0
      /\ list = Append(old, Piece(m, i))
      /\ Piece(m, i) \in Fragment
  BY ExtendedFields
<1>2. \A j \in DOMAIN list : PayloadLen[list[j].payload] <= next.frags_collected_total_len
  BY LengthsCounted
<1>3. /\ old \in Seq(Fragment)
      /\ n \in Nat
      /\ first \in 1 .. MsgLen[m]
      /\ MsgLen[m] \in Nat
  BY LenProperties, MessageFacts DEF TableEntry, Beginnings
<1>4. i = first + n /\ \A j \in 1 .. n : old[j] = Piece(m, first + j - 1)
  BY DEF RunOf
<1> HIDE DEF next, n
<1>5. /\ list \in Seq(Fragment)
      /\ Len(list) = n + 1
      /\ \A j \in 1 .. n : list[j] = old[j]
      /\ list[n + 1] = Piece(m, i)
      /\ DOMAIN list = 1 .. n + 1
  BY <1>1, <1>3, AppendProperties, LenProperties DEF n
<1> HIDE DEF list, old
<1>6. \A j \in 1 .. n + 1 : list[j] = Piece(m, first + j - 1)
  <2> SUFFICES ASSUME NEW j \in 1 .. n + 1  PROVE list[j] = Piece(m, first + j - 1)
    OBVIOUS
  <2>1. CASE j \in 1 .. n
    BY <1>4, <1>5, <2>1
  <2>2. CASE j = n + 1
    <3>1. first + j - 1 = i
      BY <1>3, <1>4, <2>2
    <3> QED
      BY <1>5, <2>2, <3>1
  <2> QED
    BY <1>3, <2>1, <2>2
<1>7. RunOf(list, m, first)
  <2>1. first + Len(list) - 1 <= MsgLen[m]
    BY <1>3, <1>4, <1>5
  <2> QED
    BY <1>5, <1>6, <2>1 DEF RunOf
<1>8. HoldsOnly(next, m)
  BY <1>1, <1>2, <1>7 DEF HoldsOnly, list
<1>9. ASSUME i = MsgLen[m]  PROVE WholeOf(list, m)
  <2>1. first + Len(list) - 1 = MsgLen[m]
    BY <1>3, <1>4, <1>5, <1>9
  <2> QED
    BY <1>5, <1>7, <2>1, RunIsWhole
<1>10. ASSUME i # MsgLen[m]  PROVE Unfinished(list, m)
  <2> SUFFICES ASSUME NEW j \in DOMAIN list, list[j] = Piece(m, MsgLen[m])  PROVE FALSE
    BY DEF Unfinished
  <2>1. j \in 1 .. n + 1 /\ list[j] = Piece(m, first + j - 1)
    BY <1>5, <1>6
  <2>2. first + j - 1 < MsgLen[m]
    <3>1. i = first + n /\ i < MsgLen[m]
      BY <1>3, <1>4, <1>10
    <3>2. first \in Nat /\ j \in Nat /\ j <= n + 1
      BY <1>3, <2>1
    <3> QED
      BY <1>3, <3>1, <3>2
  <2>3. Part(m, first + j - 1) = Part(m, MsgLen[m])
    BY <2>1 DEF Piece
  <2>4. first + j - 1 = MsgLen[m]
    BY <2>3 DEF Part
  <2> QED
    BY <1>3, <2>1, <2>2, <2>4
<1> QED
  BY <1>8, <1>9, <1>10 DEF list, next

\* Where reordering is allowed, an entry gains any part of its message.
LEMMA ChoiceExtended ==
    ASSUME NEW m \in Messages, NEW i \in 1 .. MsgLen[m], NEW t \in 0 .. MaxTime,
           Protocol[MsgKey[m]].out_of_order,
           NEW e \in TableEntry, HoldsOnly(e, m),
           Increasing(Extended(e, Info(m, i, t)).fragment_list)
    PROVE  LET next == Extended(e, Info(m, i, t))
           IN  /\ HoldsOnly(next, m)
               /\ Len(next.fragment_list) >= MsgLen[m] => WholeOf(next.fragment_list, m)
<1> DEFINE next == Extended(e, Info(m, i, t))
           old  == e.fragment_list
           list == next.fragment_list
<1>1. /\ e.total_pdu_len = 0
      /\ e.reasm_timeout = At(Timeout)
      /\ e.total_fragment_cnt \in {0, MsgLen[m]}
      /\ \A j \in DOMAIN old : \E l \in 1 .. MsgLen[m] : old[j] = Piece(m, l)
      /\ \A j \in DOMAIN old : PayloadLen[old[j].payload] <= e.frags_collected_total_len
  BY DEF HoldsOnly
<1>2. /\ next.total_pdu_len = 0
      /\ next.reasm_timeout = At(Timeout)
      /\ next.total_fragment_cnt \in {0, MsgLen[m]}
      /\ list = InsertSorted(old, Piece(m, i))
      /\ Piece(m, i) \in Fragment
  BY <1>1, ExtendedFields
<1>3. \A j \in DOMAIN list : PayloadLen[list[j].payload] <= next.frags_collected_total_len
  BY <1>1, LengthsCounted
<1>4. old \in Seq(Fragment)
  BY DEF TableEntry
<1> HIDE DEF next, list, old
<1>5. /\ list \in Seq(Fragment)
      /\ \A j \in DOMAIN list : list[j] = Piece(m, i) \/ \E l \in DOMAIN old : list[j] = old[l]
  BY <1>2, <1>4, ExtendedElements
<1>6. \A j \in DOMAIN list : \E l \in 1 .. MsgLen[m] : list[j] = Piece(m, l)
  BY <1>1, <1>5
<1>7. HoldsOnly(next, m)
  BY <1>2, <1>3, <1>6 DEF HoldsOnly, list
<1>8. ASSUME Len(list) >= MsgLen[m]  PROVE WholeOf(list, m)
  <2>1. Increasing(list)
    BY DEF list, next
  <2> QED
    BY <1>5, <1>6, <1>8, <2>1, AllPartsAreWhole
<1> QED
  BY <1>7, <1>8 DEF list, next

\* A part that begins an entry is one its message can begin with.
LEMMA BeginsRun ==
    ASSUME NEW m \in Messages, NEW i \in 1 .. MsgLen[m], NEW t \in 0 .. MaxTime,
           ~Protocol[MsgKey[m]].out_of_order, ~NotFirst(Info(m, i, t))
    PROVE  i \in Beginnings(m)
<1>1. ASSUME Marked(m)  PROVE i = 1
  <2>1. SeqNum(m, i) = Protocol[MsgKey[m]].seq_num_first
    BY <1>1, InfoFields DEF NotFirst, Marked
  <2>2. SeqNum(m, 1) = Protocol[MsgKey[m]].seq_num_first
    BY <1>1, SendersAssumption DEF Marked
  <2>3. 1 \in 1 .. MsgLen[m]
    BY MessageFacts
  <2> QED
    BY <2>1, <2>2, <2>3, SendersAssumption
<1> QED
  BY <1>1 DEF Beginnings

\* In order, the part in sequence has the number after that of the last one.
LEMMA FollowsLast ==
    ASSUME NEW m \in Messages, NEW i \in 1 .. MsgLen[m], NEW t \in 0 .. MaxTime,
           NEW other \in Messages, MsgKey[other] = MsgKey[m],
           NEW j \in 1 .. MsgLen[other],
           ~Protocol[MsgKey[m]].out_of_order,
           NEW e \in TableEntry, e.prev_seq_num = SeqNum(other, j),
           InSequence(e, Info(m, i, t))
    PROVE  SeqNum(m, i) = SeqNum(other, j + 1)
<1> DEFINE f    == Info(m, i, t)
           wrap == Protocol[MsgKey[m]].seq_num_wrap
           prev == SeqNum(other, j)
<1>1. /\ f.seq_num = SeqNum(m, i)
      /\ f.seq_num_wrap = wrap
      /\ ~f.out_of_order
  BY InfoFields
<1>2. /\ SeqNum(m, i) \in Nat
      /\ wrap # SEQ_WRAP_NONE => SeqNum(m, i) < wrap
  BY Numbers
<1>3. /\ prev \in Nat
      /\ wrap = SEQ_WRAP_NONE => SeqNum(other, j + 1) = prev + 1
      /\ wrap # SEQ_WRAP_NONE => /\ prev < wrap
                                 /\ prev + 1 < wrap => SeqNum(other, j + 1) = prev + 1
                                 /\ prev + 1 = wrap => SeqNum(other, j + 1) = 0
  BY Numbers
<1>4. wrap \in Int
  BY MessageFacts
<1> HIDE DEF f, wrap, prev
<1>5. PrevSeqNum(e, f) \in {-1, prev}
  BY DEF PrevSeqNum, prev
<1>6. PrevSeqNum(e, f) + 1 = SeqNum(m, i)
  BY <1>1, <1>3, <1>5 DEF InSequence, SEQ_UNINITIALIZED, f
<1>7. CASE PrevSeqNum(e, f) = prev
  BY <1>2, <1>3, <1>4, <1>6, <1>7 DEF prev
<1>8. CASE PrevSeqNum(e, f) # prev
  <2>1. f.seq_num = 0 /\ wrap # SEQ_WRAP_NONE /\ wrap = prev + 1
    BY <1>1, <1>8 DEF PrevSeqNum, prev
  <2> QED
    BY <1>1, <1>3, <2>1 DEF prev
<1> QED
  BY <1>7, <1>8

-----------------------------------------------------------------------------
(***************************************************************************)
(* The entry that a fragment on the air meets, and the one that results.   *)
(***************************************************************************)

\* The times of the link are seconds on its clock.
LEMMA Clock ==
    ASSUME LinkIInv
    PROVE  /\ now \in 0 .. MaxTime
           /\ \A m \in Messages : IsSent(m) => sent_at[m] \in Nat /\ sent_at[m] <= now
           /\ MaxTime \in Nat /\ Timeout \in Nat /\ Lifetime \in Nat
<1>1. now \in 0 .. MaxTime /\ sent_at \in [Messages -> (0 .. MaxTime) \cup {NULL}]
  BY DEF LinkIInv, LinkTypeOK
<1>2. \A m \in Messages : IsSent(m) => sent_at[m] \in 0 .. MaxTime
  BY <1>1 DEF IsSent
<1> QED
  BY <1>1, <1>2, LinkAssumption DEF LinkIInv, SentBefore

\* Where numbers do not wrap, an entry that has not expired is of the message
\* whose fragments are on the air.
LEMMA StoredMessage ==
    ASSUME LinkIInv, NEW m \in Messages, OnAir(m),
           fragment_table[MsgKey[m]] # NULL,
           ~Expired(fragment_table[MsgKey[m]], At(now))
    PROVE  \E other \in Messages :
               /\ EntryOf(MsgKey[m], other)
               /\ Protocol[MsgKey[m]].seq_num_wrap = SEQ_WRAP_NONE => other = m
<1> DEFINE e == fragment_table[MsgKey[m]]
<1>1. PICK other \in Messages : EntryOf(MsgKey[m], other)
  <2>1. MsgKey[m] \in Entries
    BY MessageFacts DEF Entries
  <2> QED
    BY <2>1 DEF LinkIInv, EntriesOfMessages
<1>2. PICK t \in 0 .. MaxTime :
         e.first_frag_rx_time = At(t) /\ sent_at[other] <= t /\ t <= sent_at[other] + Lifetime
  BY <1>1 DEF EntryOf, BegunBy
<1>3. e.reasm_timeout = At(Timeout)
  BY <1>1 DEF EntryOf, HoldsOnly
<1>4. /\ now \in Nat /\ t \in Nat
      /\ Timeout \in Nat /\ Lifetime \in Nat
      /\ IsSent(m) /\ sent_at[m] \in Nat /\ sent_at[m] <= now /\ now <= sent_at[m] + Lifetime
      /\ IsSent(other) /\ sent_at[other] \in Nat /\ sent_at[other] <= now
  BY <1>1, Clock DEF OnAir, EntryOf
<1> HIDE DEF e
<1>5. now <= t + Timeout
  <2>1. Expired(e, At(now)) <=> now > t + Timeout
    BY <1>2, <1>3, <1>4, ExpiresAt
  <2> QED
    BY <1>4, <2>1 DEF e
<1>6. ASSUME Protocol[MsgKey[m]].seq_num_wrap = SEQ_WRAP_NONE, other # m  PROVE FALSE
  <2>1. \/ sent_at[m] > sent_at[other] + Lifetime + Timeout
        \/ sent_at[other] > sent_at[m] + Lifetime + Timeout
    BY <1>1, <1>4, <1>6 DEF LinkIInv, SentApart, EntryOf
  <2> QED
    BY <1>2, <1>4, <1>5, <2>1
<1> QED
  BY <1>1, <1>6

\* In order, what a stored entry is ready to receive is the next part of its
\* message.
LEMMA NextOfRun ==
    ASSUME NEW m \in Messages, NEW i \in 1 .. MsgLen[m], NEW t \in 0 .. MaxTime,
           NEW other \in Messages, MsgKey[other] = MsgKey[m],
           Protocol[MsgKey[m]].seq_num_wrap = SEQ_WRAP_NONE => other = m,
           ~Protocol[MsgKey[m]].out_of_order,
           NEW e \in TableEntry,
           GaplessEntry(e, Protocol[MsgKey[m]]),
           NEW first \in Beginnings(other), RunOf(e.fragment_list, other, first),
           Unfinished(e.fragment_list, other),
           InSequence(e, Info(m, i, t))
    PROVE  other = m /\ i = first + Len(e.fragment_list)
<1> DEFINE list == e.fragment_list
           n    == Len(list)
           j    == first + n - 1
<1>1. /\ list \in Seq(Fragment)
      /\ list # <<>>
      /\ e.prev_seq_num = list[n].seq_num
  BY DEF GaplessEntry, TableEntry
<1>2. /\ n \in Nat
      /\ n >= 1
      /\ DOMAIN list = 1 .. n
      /\ first \in 1 .. MsgLen[other]
      /\ MsgLen[other] \in Nat
  BY <1>1, NumberTypes, MessageFacts DEF Beginnings
<1>3. /\ j <= MsgLen[other]
      /\ list[n] = Piece(other, j)
  <2>1. n \in 1 .. n
    BY <1>2
  <2> QED
    BY <2>1 DEF RunOf
<1>4. list[n] # Piece(other, MsgLen[other])
  BY <1>2 DEF Unfinished
<1>5. j \in 1 .. MsgLen[other] /\ j + 1 \in 1 .. MsgLen[other]
  <2>1. j # MsgLen[other]
    BY <1>3, <1>4
  <2> HIDE DEF n
  <2> QED
    BY <1>2, <1>3, <2>1
<1>6. e.prev_seq_num = SeqNum(other, j)
  BY <1>1, <1>3 DEF Piece
<1> HIDE DEF j
<1>7. SeqNum(m, i) = SeqNum(other, j + 1)
  BY <1>5, <1>6, FollowsLast
<1>8. other = m /\ i = j + 1
  BY <1>5, <1>7, NumberIdentifies
<1> QED
  BY <1>2, <1>8 DEF j

\* A part that is added leaves an entry with parts of its message only, which
\* is reported complete exactly when it holds all of it.
LEMMA AddedOfMessage ==
    ASSUME LinkIInv, ~Fetching, NEW m \in Messages, OnAir(m), NEW i \in 1 .. MsgLen[m],
           Admitted(Info(m, i, now)),
           ~IsDuplicate(Entry(Info(m, i, now)), Info(m, i, now)),
           InSequence(Entry(Info(m, i, now)), Info(m, i, now))
    PROVE  LET f    == Info(m, i, now)
               next == Extended(Entry(f), f)
           IN  /\ BegunBy(next, m)
               /\ HoldsOnly(next, m)
               /\ IF IsComplete(next, f.is_final_fragment)
                  THEN WholeOf(next.fragment_list, m)
                  ELSE Unfinished(next.fragment_list, m)
<1> DEFINE f    == Info(m, i, now)
           k    == MsgKey[m]
           e    == Entry(f)
           next == Extended(e, f)
           list == next.fragment_list
<1>1. /\ now \in 0 .. MaxTime
      /\ IsSent(m) /\ sent_at[m] \in Nat /\ sent_at[m] <= now /\ now <= sent_at[m] + Lifetime
      /\ Timeout \in Nat
      /\ TypeOK /\ EntriesSound
  BY Clock DEF OnAir, LinkIInv, IInv
<1>2. /\ f \in FragmentInfos
      /\ ~ArgsInvalid(f)
      /\ f.msg_info = k
      /\ f.rx_time = At(now)
      /\ f.reasm_timeout = At(Timeout)
      /\ f.is_final_fragment = (~Protocol[k].out_of_order /\ i = MsgLen[m])
      /\ f.out_of_order = Protocol[k].out_of_order
      /\ f.total_pdu_len = 0
      /\ f.total_fragment_cnt = IF Protocol[k].out_of_order /\ i = 1 THEN MsgLen[m] ELSE 0
  BY <1>1, InfoFacts, InfoFields
<1>3. e \in TableEntry
  BY <1>1, <1>2, EntryType
<1>4. /\ next \in TableEntry
      /\ EntrySound(next, Protocol[k])
  BY <1>1, <1>2, AddedEntry
<1>5. CASE Current(f) = NULL
  <2>1. /\ e = NewEntry(f)
        /\ ~NotFirst(f)
    BY <1>5 DEF Entry, Admitted
  <2>2. /\ e.fragment_list = <<>>
        /\ e.total_pdu_len = 0
        /\ e.reasm_timeout = At(Timeout)
        /\ e.first_frag_rx_time = At(now)
        /\ e.total_fragment_cnt \in {0, MsgLen[m]}
        /\ ~Protocol[k].out_of_order => e.total_fragment_cnt = 0
    BY <1>2, <2>1 DEF NewEntry
  <2>3. /\ next.first_frag_rx_time = At(now)
        /\ next.total_fragment_cnt \in {0, MsgLen[m]}
    BY <1>1, <1>3, <2>2, ExtendedFields
  <2>4. BegunBy(next, m)
    BY <1>1, <2>3 DEF BegunBy
  <2>5. /\ DOMAIN <<>> = {} /\ Len(<<>>) = 0
        /\ \A j \in DOMAIN e.fragment_list : FALSE
    BY <2>2
  <2>6. CASE Protocol[k].out_of_order
    <3>1. HoldsOnly(e, m)
      BY <2>2, <2>5, <2>6 DEF HoldsOnly
    <3>2. Increasing(list)
      BY <1>4, <2>6 DEF EntrySound
    <3>3. /\ HoldsOnly(next, m)
          /\ Len(list) >= MsgLen[m] => WholeOf(list, m)
      BY <1>1, <1>3, <2>6, <3>1, <3>2, ChoiceExtended
    <3>4. ASSUME IsComplete(next, f.is_final_fragment)  PROVE Len(list) >= MsgLen[m]
      <4>1. ~f.is_final_fragment
        BY <1>2, <2>6
      <4>2. next.total_pdu_len = 0 /\ next.total_fragment_cnt \in {0, MsgLen[m]}
        BY <2>6, <3>3 DEF HoldsOnly
      <4>3. next.frags_collected_cnt = Len(list)
        BY <1>4 DEF EntrySound
      <4> HIDE DEF next, f
      <4> QED
        BY <3>4, <4>1, <4>2, <4>3 DEF IsComplete
    <3>5. Unfinished(list, m)
      BY <2>6 DEF Unfinished
    <3> QED
      BY <2>4, <3>3, <3>4, <3>5
  <2>7. CASE ~Protocol[k].out_of_order
    <3>1. i \in Beginnings(m)
      BY <1>1, <2>1, <2>7, BeginsRun
    <3>2. RunOf(e.fragment_list, m, i) /\ i = i + Len(e.fragment_list)
      BY <2>2, <2>5, MessageFacts DEF RunOf
    <3>3. /\ HoldsOnly(next, m)
          /\ i = MsgLen[m] => WholeOf(list, m)
          /\ i # MsgLen[m] => Unfinished(list, m)
      BY <1>1, <1>3, <2>2, <2>5, <2>7, <3>1, <3>2, RunExtended
    <3>4. IsComplete(next, f.is_final_fragment) <=> i = MsgLen[m]
      <4>1. f.is_final_fragment <=> i = MsgLen[m]
        BY <1>2, <2>7
      <4>2. next.total_pdu_len = 0 /\ next.total_fragment_cnt = 0
        BY <2>7, <3>3 DEF HoldsOnly
      <4> HIDE DEF next, f
      <4> QED
        BY <4>1, <4>2 DEF IsComplete
    <3> QED
      BY <2>4, <3>3, <3>4
  <2> QED
    BY <2>6, <2>7
<1>6. CASE Current(f) # NULL
  <2>1. /\ e = Current(f)
        /\ fragment_table[k] = e
        /\ e # NULL
        /\ ~Expired(e, At(now))
    BY <1>1, <1>2, <1>6, CurrentEntry DEF Entry
  <2>2. PICK other \in Messages :
           /\ EntryOf(k, other)
           /\ Protocol[k].seq_num_wrap = SEQ_WRAP_NONE => other = m
    BY <2>1, StoredMessage
  <2>3. /\ MsgKey[other] = k
        /\ BegunBy(e, other)
        /\ HoldsOnly(e, other)
        /\ Unfinished(e.fragment_list, other)
    BY <2>1, <2>2 DEF EntryOf
  <2>4. e.total_pdu_len = 0 /\ e.reasm_timeout = At(Timeout)
    BY <2>3 DEF HoldsOnly
  <2>5. next.first_frag_rx_time = e.first_frag_rx_time
    BY <1>1, <1>3, <2>4, ExtendedFields
  <2>6. EntrySound(e, Protocol[k])
    <3>1. k \in Entries
      BY <2>1, MessageFacts DEF Entries
    <3> QED
      BY <1>1, <2>1, <3>1 DEF EntriesSound
  <2>7. CASE Protocol[k].out_of_order
    <3>1. other = m
      <4>1. Protocol[k].seq_num_wrap = SEQ_WRAP_NONE
        BY <2>7, SendersAssumption
      <4> QED
        BY <2>2, <4>1
    <3>2. BegunBy(next, m)
      BY <2>3, <2>5, <3>1 DEF BegunBy
    <3>3. Increasing(list)
      BY <1>4, <2>7 DEF EntrySound
    <3>4. /\ HoldsOnly(next, m)
          /\ Len(list) >= MsgLen[m] => WholeOf(list, m)
      BY <1>1, <1>3, <2>3, <2>7, <3>1, <3>3, ChoiceExtended
    <3>5. ASSUME IsComplete(next, f.is_final_fragment)  PROVE Len(list) >= MsgLen[m]
      <4>1. ~f.is_final_fragment
        BY <1>2, <2>7
      <4>2. next.total_pdu_len = 0 /\ next.total_fragment_cnt \in {0, MsgLen[m]}
        BY <2>7, <3>4 DEF HoldsOnly
      <4>3. next.frags_collected_cnt = Len(list)
        BY <1>4 DEF EntrySound
      <4> HIDE DEF next, f
      <4> QED
        BY <3>5, <4>1, <4>2, <4>3 DEF IsComplete
    <3>6. Unfinished(list, m)
      BY <2>7 DEF Unfinished
    <3> QED
      BY <3>2, <3>4, <3>5, <3>6
  <2>8. CASE ~Protocol[k].out_of_order
    <3>1. GaplessEntry(e, Protocol[k])
      BY <2>6, <2>8 DEF EntrySound
    <3>2. PICK first \in Beginnings(other) : RunOf(e.fragment_list, other, first)
      BY <2>3, <2>8 DEF HoldsOnly
    <3>3. other = m /\ i = first + Len(e.fragment_list)
      BY <1>1, <1>3, <2>2, <2>3, <2>8, <3>1, <3>2, NextOfRun
    <3>4. BegunBy(next, m)
      BY <2>3, <2>5, <3>3 DEF BegunBy
    <3>5. /\ e.total_fragment_cnt = 0
          /\ \A j \in DOMAIN e.fragment_list :
                 PayloadLen[e.fragment_list[j].payload] <= e.frags_collected_total_len
      BY <2>3, <2>8, <3>3 DEF HoldsOnly
    <3>6. /\ HoldsOnly(next, m)
          /\ i = MsgLen[m] => WholeOf(list, m)
          /\ i # MsgLen[m] => Unfinished(list, m)
      BY <1>1, <1>3, <2>4, <2>8, <3>2, <3>3, <3>5, RunExtended
    <3>7. IsComplete(next, f.is_final_fragment) <=> i = MsgLen[m]
      <4>1. f.is_final_fragment <=> i = MsgLen[m]
        BY <1>2, <2>8
      <4>2. next.total_pdu_len = 0 /\ next.total_fragment_cnt = 0
        BY <2>8, <3>6 DEF HoldsOnly
      <4> HIDE DEF next, f
      <4> QED
        BY <4>1, <4>2 DEF IsComplete
    <3> QED
      BY <3>4, <3>6, <3>7
  <2> QED
    BY <2>7, <2>8
<1> QED
  BY <1>5, <1>6

-----------------------------------------------------------------------------
(***************************************************************************)
(* A fragment of a message on the air keeps the invariant, and hands up    *)
(* nothing but a whole message.                                            *)
(***************************************************************************)

\* A message in one fragment is handed up whole.
LEMMA SinglePart ==
    ASSUME NEW m \in Messages, NEW i \in 1 .. MsgLen[m], NEW t \in 0 .. MaxTime,
           Unfragmented(Info(m, i, t)), i = MsgLen[m]
    PROVE  \E first \in Beginnings(m) :
               <<Part(m, i)>> = SubSeq(Body[m], first, Len(Body[m]))
<1>1. ~Protocol[MsgKey[m]].out_of_order
  <2>1. Info(m, i, t).is_final_fragment
    BY DEF Unfragmented
  <2>2. Info(m, i, t).is_final_fragment = (~Protocol[MsgKey[m]].out_of_order /\ i = MsgLen[m])
    BY InfoFields
  <2> QED
    BY <2>1, <2>2
<1>2. i \in Beginnings(m)
  <2>1. ~NotFirst(Info(m, i, t))
    BY <1>1, InfoFields DEF Unfragmented, NotFirst
  <2> QED
    BY <1>1, <2>1, BeginsRun
<1>3. Piece(m, i) \in Fragment
  <2>1. Info(m, i, t).msg_data = Part(m, i) /\ Info(m, i, t).seq_num = SeqNum(m, i)
    BY InfoFields
  <2>2. Part(m, i) \in Payloads /\ SeqNum(m, i) \in Int
    BY <2>1, InfoFacts, ArgumentTypes
  <2> QED
    BY <2>2 DEF Piece, Fragment
<1>4. /\ <<Piece(m, i)>> \in Seq(Fragment)
      /\ Len(<<Piece(m, i)>>) = 1
      /\ DOMAIN <<Piece(m, i)>> = 1 .. 1
      /\ <<Piece(m, i)>>[1] = Piece(m, i)
  BY <1>3
<1>5. RunOf(<<Piece(m, i)>>, m, i) /\ i + Len(<<Piece(m, i)>>) - 1 = MsgLen[m]
  <2>1. MsgLen[m] \in Nat
    BY MessageFacts
  <2>2. \A j \in 1 .. 1 : j = 1 /\ i + j - 1 = i
    BY <2>1
  <2> QED
    BY <1>4, <2>1, <2>2 DEF RunOf
<1>6. PICK first \in Beginnings(m) :
         PayloadsOf(<<Piece(m, i)>>) = SubSeq(Body[m], first, Len(Body[m]))
  BY <1>2, <1>4, <1>5, RunIsWhole DEF WholeOf
<1>7. PayloadsOf(<<Piece(m, i)>>) = <<Part(m, i)>>
  <2>1. PayloadsOf(<<Piece(m, i)>>) = [j \in 1 .. 1 |-> <<Piece(m, i)>>[j].payload]
    BY <1>4 DEF PayloadsOf
  <2>2. \A j \in 1 .. 1 : <<Piece(m, i)>>[j].payload = Part(m, i)
    BY <1>4 DEF Piece
  <2>3. <<Part(m, i)>> = [j \in 1 .. 1 |-> Part(m, i)]
    OBVIOUS
  <2> QED
    BY <2>1, <2>2, <2>3
<1> QED
  BY <1>6, <1>7

\* What the entry under the key of a call is, in terms of messages.
EntryAfter(entry, k, status) ==
    \E m \in Messages :
        /\ MsgKey[m] = k
        /\ IsSent(m)
        /\ BegunBy(entry, m)
        /\ HoldsOnly(entry, m)
        /\ IF status = "COMPLETE"
           THEN WholeOf(entry.fragment_list, m)
           ELSE Unfinished(entry.fragment_list, m)

\* What la_reasm_fragment_add leaves under the key of a fragment on the air.
LEMMA ReturnedOfMessage ==
    ASSUME LinkIInv, ~Fetching, NEW m \in Messages, OnAir(m), NEW i \in 1 .. MsgLen[m],
           FragmentAdd(Info(m, i, now))
    PROVE  \E entry \in TableEntry \cup {NULL}, status \in Status :
               /\ Return(Info(m, i, now), entry, status)
               /\ entry # NULL => /\ ~Expired(entry, At(now))
                                  /\ EntryAfter(entry, MsgKey[m], status)
               /\ status = "SKIPPED" =>
                      \E first \in Beginnings(m) :
                          <<Part(m, i)>> = SubSeq(Body[m], first, Len(Body[m]))
<1> DEFINE f == Info(m, i, now)
           k == MsgKey[m]
<1>1. /\ now \in 0 .. MaxTime
      /\ IsSent(m)
      /\ TypeOK /\ EntriesSound
  BY Clock DEF OnAir, LinkIInv, IInv
<1>2. /\ f \in FragmentInfos
      /\ ~ArgsInvalid(f)
      /\ f.msg_info = k
      /\ f.rx_time = At(now)
      /\ f.is_final_fragment = (~Protocol[k].out_of_order /\ i = MsgLen[m])
      /\ k \in Keys
  BY <1>1, InfoFacts, InfoFields, MessageFacts
<1>3. /\ "SKIPPED" \in Status
      /\ "FRAG_OUT_OF_SEQUENCE" \in Status
      /\ "DUPLICATE" \in Status
      /\ "COMPLETE" \in Status
      /\ "IN_PROGRESS" \in Status
  BY DEF Status
<1> HIDE DEF f
<1>4. CASE RejectInvalidArgs(f)
  BY <1>2, <1>4 DEF RejectInvalidArgs
<1>5. CASE SkipUnfragmented(f)
  <2>1. Return(f, NULL, "SKIPPED") /\ Unfragmented(f)
    BY <1>5 DEF SkipUnfragmented
  <2>2. i = MsgLen[m]
    BY <1>2, <2>1 DEF Unfragmented
  <2>3. \E first \in Beginnings(m) : <<Part(m, i)>> = SubSeq(Body[m], first, Len(Body[m]))
    BY <1>1, <2>1, <2>2, SinglePart DEF f
  <2> QED
    BY <1>3, <2>1, <2>3 DEF f
<1>6. CASE RejectNotFirst(f) \/ AbortOutOfSequence(f)
  <2>1. Return(f, NULL, "FRAG_OUT_OF_SEQUENCE")
    BY <1>6 DEF RejectNotFirst, AbortOutOfSequence
  <2> QED
    BY <1>3, <2>1 DEF f
<1>7. CASE SkipDuplicate(f)
  <2> DEFINE e == Entry(f)
  <2>1. Return(f, e, "DUPLICATE") /\ IsDuplicate(e, f)
    BY <1>7 DEF SkipDuplicate
  <2>2. e \in TableEntry /\ ~Expired(e, At(now))
    BY <1>1, <1>2, <2>1, DuplicateEntry
  <2>3. Current(f) # NULL
    BY <1>2, <2>1, NewEntryAdmits DEF Entry
  <2>4. fragment_table[k] = e /\ e # NULL
    BY <1>1, <1>2, <2>3, CurrentEntry DEF Entry
  <2>5. EntryAfter(e, k, "DUPLICATE")
    <3>1. PICK other \in Messages : EntryOf(k, other)
      BY <1>2, <2>4 DEF LinkIInv, EntriesOfMessages, Entries
    <3>2. /\ MsgKey[other] = k
          /\ IsSent(other)
          /\ BegunBy(e, other)
          /\ HoldsOnly(e, other)
          /\ Unfinished(e.fragment_list, other)
      BY <2>4, <3>1 DEF EntryOf
    <3> HIDE DEF e
    <3> QED
      BY <3>2 DEF EntryAfter
  <2> HIDE DEF e
  <2> QED
    BY <1>3, <2>1, <2>2, <2>5 DEF f
<1>8. CASE AddFragment(f)
  <2> DEFINE next   == Extended(Entry(f), f)
             status == IF IsComplete(next, f.is_final_fragment)
                       THEN "COMPLETE" ELSE "IN_PROGRESS"
  <2>1. /\ Return(f, next, status)
        /\ Admitted(f)
        /\ ~IsDuplicate(Entry(f), f)
        /\ InSequence(Entry(f), f)
    BY <1>8 DEF AddFragment
  <2>2. next \in TableEntry /\ ~Expired(next, At(now))
    BY <1>1, <1>2, <2>1, AddedEntry
  <2>3. /\ BegunBy(next, m)
        /\ HoldsOnly(next, m)
        /\ IF IsComplete(next, f.is_final_fragment)
           THEN WholeOf(next.fragment_list, m)
           ELSE Unfinished(next.fragment_list, m)
    BY <2>1, AddedOfMessage DEF f
  <2>4. /\ status = "COMPLETE" <=> IsComplete(next, f.is_final_fragment)
        /\ status \in {"COMPLETE", "IN_PROGRESS"}
    OBVIOUS
  <2> HIDE DEF next, status
  <2>5. EntryAfter(next, k, status)
    BY <1>1, <2>3, <2>4 DEF EntryAfter
  <2> QED
    BY <1>3, <2>1, <2>2, <2>4, <2>5 DEF f
<1> QED
  BY <1>4, <1>5, <1>6, <1>7, <1>8 DEF FragmentAdd, f

\* A payload that was handed up in this step is the rest of message m.
HandsUp(m) ==
    \E first \in Beginnings(m) :
        delivered' = delivered \cup {SubSeq(Body[m], first, Len(Body[m]))}

\* The rest of a message is a sequence of payloads.
LEMMA RestType ==
    ASSUME NEW m \in Messages, NEW first \in Beginnings(m)
    PROVE  SubSeq(Body[m], first, Len(Body[m])) \in Seq(Payloads)
<1>1. Body[m] \in Seq(Payloads) /\ Len(Body[m]) = MsgLen[m] /\ MsgLen[m] \in Nat
  BY BodyParts, MessageFacts
<1>2. first \in 1 .. Len(Body[m]) + 1 /\ Len(Body[m]) \in first - 1 .. Len(Body[m])
  BY <1>1 DEF Beginnings
<1> QED
  BY <1>1, <1>2, SubSeqProperties

\* An entry of a message is one after a step that sends nothing.
LEMMA EntryOfAfter ==
    ASSUME NEW k \in Keys, NEW m \in Messages, sent_at' = sent_at,
           MsgKey[m] = k,
           IsSent(m),
           BegunBy(fragment_table'[k], m),
           HoldsOnly(fragment_table'[k], m),
           IF last'.status = "COMPLETE" /\ last'.key = k
           THEN WholeOf(fragment_table'[k].fragment_list, m)
           ELSE Unfinished(fragment_table'[k].fragment_list, m)
    PROVE  EntryOf(k, m)'
BY DEF EntryOf, IsSent, BegunBy, Fetching

\* A fragment of a message on the air, however the link chose it.
LEMMA AcceptSound ==
    ASSUME LinkIInv, NEW m \in Messages, OnAir(m), NEW i \in 1 .. MsgLen[m],
           Accept(m, i),
           next_part' \in [Messages -> Nat],
           \A n \in Messages : next_part'[n] \in 1 .. MsgLen[n] + 1
    PROVE  LinkIInv' /\ (delivered' = delivered \/ HandsUp(m))
<1> DEFINE f == Info(m, i, now)
           k == MsgKey[m]
<1>1. /\ ~Fetching
      /\ FragmentAdd(f)
      /\ delivered' = IF last'.status = "SKIPPED"
                      THEN delivered \cup {<<Part(m, i)>>} ELSE delivered
      /\ overdue' = [kk \in Keys |->
                        IF fragment_table'[kk] # NULL /\ Outlived(fragment_table'[kk], At(now))
                        THEN overdue[kk] + 1 ELSE 0]
      /\ now' = now
      /\ sent_at' = sent_at
  BY DEF Accept
<1>2. /\ IInv /\ TypeOK /\ LinkTypeOK
      /\ now \in 0 .. MaxTime
      /\ f \in FragmentInfos
      /\ ~ArgsInvalid(f)
      /\ f.msg_info = k
      /\ f.rx_time = At(now)
      /\ k \in Keys
  BY Clock, InfoFacts, InfoFields, MessageFacts DEF LinkIInv, LinkTypeOK
<1>3. IInv'
  BY <1>1, <1>2, FragmentAddSound
<1>4. PICK entry \in TableEntry \cup {NULL}, status \in Status :
         /\ Return(f, entry, status)
         /\ entry # NULL => ~Expired(entry, At(now)) /\ EntryAfter(entry, k, status)
         /\ status = "SKIPPED" =>
                \E first \in Beginnings(m) :
                    <<Part(m, i)>> = SubSeq(Body[m], first, Len(Body[m]))
  BY <1>1, ReturnedOfMessage
<1> HIDE DEF f, k
<1>5. /\ last'.status = status
      /\ last'.key = k
      /\ \A kk \in Keys \ {k} : fragment_table'[kk] = fragment_table[kk]
                                \/ fragment_table'[kk] = NULL
      /\ fragment_table'[k] = entry
  <2>1. /\ last' = [status |-> status, key |-> f.msg_info, seq_num |-> f.seq_num,
                    rx_time |-> f.rx_time, payload |-> <<>>]
        /\ \A kk \in Keys \ {f.msg_info} :
              \/ fragment_table'[kk] = fragment_table[kk]
              \/ /\ fragment_table[kk] # NULL
                 /\ Expired(fragment_table[kk], f.rx_time)
                 /\ fragment_table'[kk] = NULL
        /\ \/ fragment_table'[f.msg_info] = entry
           \/ /\ entry # NULL
              /\ Expired(entry, f.rx_time)
              /\ fragment_table'[f.msg_info] = NULL
    BY <1>2, <1>4, ReturnEffect
  <2> QED
    BY <1>2, <1>4, <2>1
<1>6. delivered' = delivered \/ HandsUp(m)
  BY <1>1, <1>4, <1>5 DEF HandsUp
<1>7. delivered' \subseteq Seq(Payloads)
  <2>1. delivered \subseteq Seq(Payloads)
    BY <1>2 DEF LinkTypeOK
  <2>2. CASE HandsUp(m)
    BY <2>1, <2>2, RestType DEF HandsUp
  <2> QED
    BY <1>6, <2>1, <2>2
<1>8. overdue' \in [Keys -> Nat]
  BY <1>1, <1>2 DEF LinkTypeOK
<1>9. LinkTypeOK'
  BY <1>1, <1>2, <1>3, <1>7, <1>8 DEF LinkTypeOK, IInv
<1>10. SentBefore' /\ SentApart'
  BY <1>1 DEF LinkIInv, SentBefore, SentApart, IsSent
<1>11. EntriesOfMessages'
  <2> SUFFICES ASSUME NEW kk \in Keys, fragment_table'[kk] # NULL
               PROVE  \E n \in Messages : EntryOf(kk, n)'
    BY DEF EntriesOfMessages, Entries
  <2>1. CASE kk = k
    <3>1. PICK n \in Messages :
             /\ MsgKey[n] = kk
             /\ IsSent(n)
             /\ BegunBy(fragment_table'[kk], n)
             /\ HoldsOnly(fragment_table'[kk], n)
             /\ IF status = "COMPLETE"
                THEN WholeOf(fragment_table'[kk].fragment_list, n)
                ELSE Unfinished(fragment_table'[kk].fragment_list, n)
      BY <1>4, <1>5, <2>1 DEF EntryAfter
    <3>2. EntryOf(kk, n)'
      BY <1>1, <1>5, <2>1, <3>1, EntryOfAfter
    <3> QED
      BY <3>2
  <2>2. CASE kk # k
    <3>1. fragment_table'[kk] = fragment_table[kk]
      BY <1>5, <2>2
    <3>2. PICK n \in Messages : EntryOf(kk, n)
      BY <3>1 DEF LinkIInv, EntriesOfMessages, Entries
    <3>3. /\ MsgKey[n] = kk
          /\ IsSent(n)
          /\ BegunBy(fragment_table'[kk], n)
          /\ HoldsOnly(fragment_table'[kk], n)
          /\ Unfinished(fragment_table'[kk].fragment_list, n)
      BY <1>1, <3>1, <3>2 DEF EntryOf
    <3>4. last'.key # kk
      BY <1>5, <2>2
    <3>5. EntryOf(kk, n)'
      BY <1>1, <3>3, <3>4, EntryOfAfter
    <3> QED
      BY <3>5
  <2> QED
    BY <2>1, <2>2
<1>12. OverdueCounted'
  <2> SUFFICES ASSUME NEW kk \in Keys  PROVE overdue'[kk] <= frag_cnt'
    BY DEF OverdueCounted
  <2>1. /\ frag_cnt \in Nat
        /\ CleanupInterval \in Nat
        /\ overdue[kk] \in Nat
        /\ overdue[kk] <= frag_cnt
    BY <1>2, ConstantsAssumption DEF TypeOK, LinkTypeOK, LinkIInv, OverdueCounted
  <2>2. overdue'[kk] = IF fragment_table'[kk] # NULL /\ Outlived(fragment_table'[kk], At(now))
                       THEN overdue[kk] + 1 ELSE 0
    BY <1>1
  <2>3. CASE frag_cnt + 1 > CleanupInterval
    <3>1. /\ frag_cnt' = 0
          /\ fragment_table' = Cleanup([fragment_table EXCEPT ![f.msg_info] = entry], At(now))
      BY <1>2, <1>4, <2>3 DEF Return
    <3>2. fragment_table'[kk] # NULL => ~Expired(fragment_table'[kk], At(now))
      BY <3>1 DEF Cleanup
    <3>3. ASSUME fragment_table'[kk] # NULL
          PROVE  ~Outlived(fragment_table'[kk], At(now))
      <4>1. /\ fragment_table'[kk] \in TableEntry
            /\ fragment_table'[kk].reasm_timeout \in Timeouts
        BY <1>3, <3>3 DEF IInv, TypeOK, EntriesSound, Entries, EntrySound
      <4>2. At(now) \in Time
        BY <1>2, AtType
      <4> QED
        BY <3>2, <3>3, <4>1, <4>2, SoundNotOutlived
    <3> QED
      BY <2>2, <3>1, <3>3
  <2>4. CASE ~(frag_cnt + 1 > CleanupInterval)
    <3>1. frag_cnt' = frag_cnt + 1
      BY <1>4, <2>4 DEF Return
    <3> QED
      BY <2>1, <2>2, <3>1
  <2> QED
    BY <2>3, <2>4
<1> QED
  BY <1>3, <1>6, <1>9, <1>10, <1>11, <1>12 DEF LinkIInv

-----------------------------------------------------------------------------
(***************************************************************************)
(* The other steps.                                                        *)
(***************************************************************************)

\* An entry that holds all of a message has something to be fetched.
LEMMA WholeHasLength ==
    ASSUME NEW m \in Messages, NEW e \in TableEntry,
           HoldsOnly(e, m), WholeOf(e.fragment_list, m)
    PROVE  e.frags_collected_total_len >= 1
<1> DEFINE list == e.fragment_list
           n    == Len(list)
           len  == MsgLen[m]
<1>1. /\ list \in Seq(Fragment)
      /\ n \in Nat
      /\ DOMAIN list = 1 .. n
      /\ e.frags_collected_total_len \in Nat
  BY LenProperties DEF TableEntry
<1>2. PICK first \in Beginnings(m) : PayloadsOf(list) = SubSeq(Body[m], first, Len(Body[m]))
  BY DEF WholeOf
<1>3. /\ Body[m] \in Seq(Payloads)
      /\ Len(Body[m]) = len
      /\ Body[m][len] = Part(m, len)
      /\ len \in Nat
      /\ first \in 1 .. len
  BY BodyParts, MessageFacts DEF Beginnings
<1> DEFINE rest == SubSeq(Body[m], first, len)
<1>4. /\ rest \in Seq(Payloads)
      /\ Len(rest) = len - first + 1
      /\ rest[len - first + 1] = Body[m][len]
  <2>1. first \in 1 .. Len(Body[m]) + 1 /\ len \in first - 1 .. Len(Body[m])
    BY <1>3
  <2>2. /\ rest \in Seq(Payloads)
        /\ Len(rest) = len - first + 1
        /\ \A j \in 1 .. len - first + 1 : rest[j] = Body[m][first + j - 1]
    BY <1>3, <2>1, SubSeqProperties
  <2>3. len - first + 1 \in 1 .. len - first + 1 /\ first + (len - first + 1) - 1 = len
    BY <1>3
  <2> HIDE DEF rest, len
  <2> QED
    BY <2>2, <2>3
<1>5. PayloadsOf(list) = rest
  BY <1>2, <1>3
<1> HIDE DEF rest, len
<1>6. DOMAIN PayloadsOf(list) = 1 .. len - first + 1
  BY <1>4, <1>5, LenProperties
<1>7. len - first + 1 \in DOMAIN list
  BY <1>3, <1>6 DEF PayloadsOf
<1>8. list[len - first + 1].payload = Part(m, len)
  <2>1. PayloadsOf(list)[len - first + 1] = list[len - first + 1].payload
    BY <1>7 DEF PayloadsOf
  <2> QED
    BY <1>3, <1>4, <1>5, <2>1
<1>9. PayloadLen[Part(m, len)] <= e.frags_collected_total_len
  BY <1>7, <1>8 DEF HoldsOnly
<1>10. PayloadLen[Part(m, len)] > 0 /\ PayloadLen[Part(m, len)] \in Nat
  <2>1. Part(m, len) \in Payloads
    BY BodyParts, MessageFacts DEF len
  <2> QED
    BY <2>1, ConstantsAssumption, SendersAssumption DEF len
<1> QED
  BY <1>1, <1>9, <1>10

\* The caller fetches what was reported complete: a whole message.
LEMMA FetchSound ==
    ASSUME LinkIInv, Fetch
    PROVE  /\ LinkIInv'
           /\ \E m \in Messages : IsSent(m) /\ HandsUp(m)
<1> DEFINE k == last.key
           e == fragment_table[k]
<1>1. /\ Fetching
      /\ PayloadGet(k)
      /\ delivered' = IF last'.status = "PAYLOAD"
                      THEN delivered \cup {last'.payload} ELSE delivered
      /\ overdue' = [overdue EXCEPT ![k] = 0]
      /\ now' = now /\ sent_at' = sent_at /\ next_part' = next_part
  BY DEF Fetch
<1>2. /\ IInv /\ TypeOK /\ LinkTypeOK
      /\ CompleteIsReady
      /\ fragment_table \in [Keys -> TableEntry \cup {NULL}]
      /\ frag_cnt \in Nat
  BY ConstantsAssumption DEF LinkIInv, IInv, LastCallSound, TypeOK
<1>3. k \in Keys /\ e # NULL /\ e \in TableEntry
  BY <1>1, <1>2 DEF CompleteIsReady, Fetching, Entries
<1>4. PICK m \in Messages : EntryOf(k, m)
  BY <1>3 DEF LinkIInv, EntriesOfMessages, Entries
<1>5. /\ IsSent(m)
      /\ HoldsOnly(e, m)
      /\ WholeOf(e.fragment_list, m)
  BY <1>1, <1>4 DEF EntryOf
<1>6. e.frags_collected_total_len >= 1 /\ e.frags_collected_total_len \in Nat
  BY <1>3, <1>5, WholeHasLength DEF TableEntry
<1> HIDE DEF k
<1>7. PayloadTaken(k)
  BY <1>1, <1>3, <1>6 DEF PayloadGet, PayloadNotFound, PayloadEmpty
<1>8. /\ last' = [status |-> "PAYLOAD", key |-> k, seq_num |-> 0, rx_time |-> ZeroTime,
                  payload |-> PayloadsOf(e.fragment_list)]
      /\ fragment_table' = [fragment_table EXCEPT ![k] = NULL]
      /\ frag_cnt' = frag_cnt
  BY <1>7 DEF PayloadTaken, Got
<1>9. HandsUp(m)
  BY <1>1, <1>5, <1>8 DEF HandsUp, WholeOf
<1>10. IInv'
  BY <1>1, <1>2, <1>3, PayloadGetSound
<1>11. LinkTypeOK'
  <2>1. delivered' \subseteq Seq(Payloads)
    BY <1>2, <1>9, RestType DEF HandsUp, LinkTypeOK
  <2>2. overdue' \in [Keys -> Nat]
    BY <1>1, <1>2 DEF LinkTypeOK
  <2> QED
    BY <1>1, <1>2, <1>10, <2>1, <2>2 DEF LinkTypeOK, IInv
<1>12. SentBefore' /\ SentApart'
  BY <1>1 DEF LinkIInv, SentBefore, SentApart, IsSent
<1>13. OverdueCounted'
  <2> SUFFICES ASSUME NEW kk \in Keys  PROVE overdue'[kk] <= frag_cnt'
    BY DEF OverdueCounted
  <2>1. overdue'[kk] = 0 \/ overdue'[kk] = overdue[kk]
    BY <1>1, <1>2 DEF LinkTypeOK
  <2> QED
    BY <1>2, <1>8, <2>1 DEF LinkIInv, OverdueCounted
<1>14. EntriesOfMessages'
  <2> SUFFICES ASSUME NEW kk \in Keys, fragment_table'[kk] # NULL
               PROVE  \E n \in Messages : EntryOf(kk, n)'
    BY DEF EntriesOfMessages, Entries
  <2>1. kk # k /\ fragment_table'[kk] = fragment_table[kk]
    BY <1>2, <1>8
  <2>2. PICK n \in Messages : EntryOf(kk, n)
    BY <2>1 DEF LinkIInv, EntriesOfMessages, Entries
  <2>3. /\ MsgKey[n] = kk
        /\ IsSent(n)
        /\ BegunBy(fragment_table'[kk], n)
        /\ HoldsOnly(fragment_table'[kk], n)
        /\ Unfinished(fragment_table'[kk].fragment_list, n)
    BY <2>1, <2>2 DEF EntryOf, k
  <2>4. last'.status # "COMPLETE"
    BY <1>8
  <2>5. EntryOf(kk, n)'
    BY <1>1, <2>3, <2>4, EntryOfAfter
  <2> QED
    BY <2>5
<1> QED
  BY <1>5, <1>9, <1>10, <1>11, <1>12, <1>13, <1>14 DEF LinkIInv

\* The parts of the invariant that speak of the table alone.
LEMMA TableUnchanged ==
    ASSUME IInv, UNCHANGED vars
    PROVE  IInv'
BY NextSound

\* Sending changes nothing at the receiver.
LEMMA SendSound ==
    ASSUME LinkIInv, NEW m \in Messages, Send(m)
    PROVE  LinkIInv'
<1>1. /\ ~IsSent(m)
      /\ KeyFree(m)
      /\ sent_at' = [sent_at EXCEPT ![m] = now]
      /\ UNCHANGED vars
      /\ fragment_table' = fragment_table /\ frag_cnt' = frag_cnt /\ last' = last
      /\ now' = now /\ next_part' = next_part /\ delivered' = delivered /\ overdue' = overdue
  BY DEF Send, vars
<1>2. /\ now \in 0 .. MaxTime
      /\ \A n \in Messages : IsSent(n) => sent_at[n] \in Nat /\ sent_at[n] <= now
      /\ MaxTime \in Nat /\ Timeout \in Nat /\ Lifetime \in Nat
  BY Clock
<1>3. sent_at \in [Messages -> (0 .. MaxTime) \cup {NULL}] /\ LinkTypeOK /\ IInv
  BY DEF LinkIInv, LinkTypeOK
<1>4. now # NULL /\ now \in Nat
  BY <1>2, LinkAssumption
<1>5. /\ sent_at'[m] = now
      /\ \A n \in Messages \ {m} : sent_at'[n] = sent_at[n]
  BY <1>1, <1>3
<1>6. LinkTypeOK' /\ IInv'
  <2>1. IInv'
    BY <1>1, <1>3, TableUnchanged
  <2>2. sent_at' \in [Messages -> (0 .. MaxTime) \cup {NULL}]
    BY <1>1, <1>2, <1>3
  <2> QED
    BY <1>1, <1>3, <2>1, <2>2 DEF LinkTypeOK, IInv
<1>7. SentBefore'
  <2> SUFFICES ASSUME NEW n \in Messages, sent_at'[n] # NULL  PROVE sent_at'[n] <= now
    BY <1>1 DEF SentBefore, IsSent
  <2>1. CASE n = m
    BY <1>4, <1>5, <2>1
  <2>2. CASE n # m
    BY <1>2, <1>5, <2>2 DEF IsSent
  <2> QED
    BY <2>1, <2>2
<1>8. SentApart'
  <2> SUFFICES ASSUME NEW n \in Messages, NEW other \in Messages, n # other,
                      MsgKey[n] = MsgKey[other],
                      Protocol[MsgKey[n]].seq_num_wrap = SEQ_WRAP_NONE,
                      sent_at'[n] # NULL, sent_at'[other] # NULL
               PROVE  \/ sent_at'[n] > sent_at'[other] + Lifetime + Timeout
                      \/ sent_at'[other] > sent_at'[n] + Lifetime + Timeout
    BY DEF SentApart, IsSent
  <2>1. CASE n = m
    <3>1. IsSent(other) /\ sent_at'[other] = sent_at[other]
      BY <1>5, <2>1 DEF IsSent
    <3>2. now > sent_at[other] + Lifetime + Timeout
      BY <2>1, <1>1, <3>1 DEF KeyFree
    <3> QED
      BY <1>5, <2>1, <3>1, <3>2
  <2>2. CASE other = m
    <3>1. IsSent(n) /\ sent_at'[n] = sent_at[n]
      BY <1>5, <2>2 DEF IsSent
    <3>2. now > sent_at[n] + Lifetime + Timeout
      BY <2>2, <1>1, <3>1 DEF KeyFree
    <3> QED
      BY <1>5, <2>2, <3>1, <3>2
  <2>3. CASE n # m /\ other # m
    BY <1>5, <2>3 DEF LinkIInv, SentApart, IsSent
  <2> QED
    BY <2>1, <2>2, <2>3
<1>9. OverdueCounted'
  BY <1>1 DEF LinkIInv, OverdueCounted
<1>10. EntriesOfMessages'
  <2> SUFFICES ASSUME NEW k \in Keys, fragment_table[k] # NULL
               PROVE  \E n \in Messages : EntryOf(k, n)'
    BY <1>1 DEF EntriesOfMessages, Entries
  <2>1. PICK n \in Messages : EntryOf(k, n)
    BY DEF LinkIInv, EntriesOfMessages, Entries
  <2>2. n # m /\ sent_at'[n] = sent_at[n]
    BY <1>1, <1>5, <2>1 DEF EntryOf
  <2>3. EntryOf(k, n)'
    BY <1>1, <2>1, <2>2 DEF EntryOf, IsSent, BegunBy, Fetching
  <2> QED
    BY <2>3
<1> QED
  BY <1>6, <1>7, <1>8, <1>9, <1>10 DEF LinkIInv

\* Nor does the clock.
LEMMA TickSound ==
    ASSUME LinkIInv, Tick
    PROVE  LinkIInv'
<1>1. /\ now < MaxTime
      /\ now' = now + 1
      /\ UNCHANGED vars
      /\ fragment_table' = fragment_table /\ frag_cnt' = frag_cnt /\ last' = last
      /\ sent_at' = sent_at /\ next_part' = next_part /\ delivered' = delivered
      /\ overdue' = overdue
  BY DEF Tick, vars
<1>2. /\ now \in 0 .. MaxTime
      /\ \A n \in Messages : IsSent(n) => sent_at[n] \in Nat /\ sent_at[n] <= now
      /\ MaxTime \in Nat
  BY Clock
<1>3. LinkTypeOK /\ IInv
  BY DEF LinkIInv
<1>4. now' \in 0 .. MaxTime
  BY <1>1, <1>2
<1>5. IInv'
  BY <1>1, <1>3, TableUnchanged
<1>6. LinkTypeOK'
  BY <1>1, <1>3, <1>4, <1>5 DEF LinkTypeOK, IInv
<1>7. SentBefore'
  BY <1>1, <1>2 DEF SentBefore, IsSent
<1>8. SentApart' /\ OverdueCounted'
  BY <1>1 DEF LinkIInv, SentApart, IsSent, OverdueCounted
<1>9. EntriesOfMessages'
  BY <1>1 DEF LinkIInv, EntriesOfMessages, Entries, EntryOf, IsSent, BegunBy, Fetching
<1> QED
  BY <1>5, <1>6, <1>7, <1>8, <1>9 DEF LinkIInv

-----------------------------------------------------------------------------
(***************************************************************************)
(* The theorems, over the lossy link and over the orderly one.             *)
(***************************************************************************)

\* A new table, a clock at 0 and nothing sent.
LEMMA LinkInitSound == LinkInit => LinkIInv
<1> SUFFICES ASSUME LinkInit  PROVE LinkIInv
  OBVIOUS
<1>1. /\ Init
      /\ now = 0
      /\ sent_at = [m \in Messages |-> NULL]
      /\ next_part = [m \in Messages |-> 1]
      /\ delivered = {}
      /\ overdue = [k \in Keys |-> 0]
  BY DEF LinkInit
<1>2. IInv
  BY <1>1, InitSound
<1>3. \A m \in Messages : ~IsSent(m)
  BY <1>1 DEF IsSent
<1>4. \A m \in Messages : 1 \in 1 .. MsgLen[m] + 1
  BY MessageFacts
<1>5. LinkTypeOK
  BY <1>1, <1>2, <1>4, LinkAssumption DEF LinkTypeOK, IInv
<1>6. SentBefore /\ SentApart
  BY <1>3 DEF SentBefore, SentApart
<1>7. OverdueCounted
  BY <1>1 DEF Init, OverdueCounted
<1>8. EntriesOfMessages
  BY <1>1 DEF Init, EntriesOfMessages, Entries
<1> QED
  BY <1>2, <1>5, <1>6, <1>7, <1>8 DEF LinkIInv

\* A step of either link.
LinkNext == RadioNext \/ OrderlyNext

\* What a step of either link is to the receiver.
LEMMA LinkSteps ==
    ASSUME LinkIInv, LinkNext
    PROVE  \/ \E m \in Messages : Send(m)
           \/ \E m \in Messages : \E i \in 1 .. MsgLen[m] :
                 /\ OnAir(m)
                 /\ Accept(m, i)
                 /\ next_part' \in [Messages -> Nat]
                 /\ \A n \in Messages : next_part'[n] \in 1 .. MsgLen[n] + 1
           \/ Fetch
           \/ Tick
<1>1. /\ next_part \in [Messages -> Nat]
      /\ \A n \in Messages : next_part[n] \in 1 .. MsgLen[n] + 1
  BY DEF LinkIInv, LinkTypeOK
<1>2. CASE RadioNext
  BY <1>1, <1>2 DEF RadioNext, RadioReceive
<1>3. CASE OrderlyNext
  <2>1. ASSUME NEW m \in Messages, OrderlyReceive(m)
        PROVE  \E i \in 1 .. MsgLen[m] :
                  /\ OnAir(m)
                  /\ Accept(m, i)
                  /\ next_part' \in [Messages -> Nat]
                  /\ \A n \in Messages : next_part'[n] \in 1 .. MsgLen[n] + 1
    <3>1. /\ OnAir(m)
          /\ next_part[m] <= MsgLen[m]
          /\ Accept(m, next_part[m])
          /\ next_part' = [next_part EXCEPT ![m] = @ + 1]
      BY <2>1 DEF OrderlyReceive
    <3>2. next_part[m] \in 1 .. MsgLen[m] /\ next_part[m] + 1 \in 1 .. MsgLen[m] + 1
      BY <1>1, <3>1, MessageFacts
    <3>3. \A n \in Messages : next_part'[n] \in 1 .. MsgLen[n] + 1
      <4> SUFFICES ASSUME NEW n \in Messages
                   PROVE  next_part'[n] \in 1 .. MsgLen[n] + 1
        OBVIOUS
      <4>1. CASE n = m
        BY <1>1, <3>1, <3>2, <4>1
      <4>2. CASE n # m
        BY <1>1, <3>1, <4>2
      <4> QED
        BY <4>1, <4>2
    <3>4. next_part' \in [Messages -> Nat]
      BY <1>1, <3>1
    <3> QED
      BY <3>1, <3>2, <3>3, <3>4
  <2>2. ASSUME NEW m \in Messages, NEW i \in 1 .. MsgLen[m], RepeatedReceive(m, i)
        PROVE  /\ OnAir(m)
               /\ Accept(m, i)
               /\ next_part' \in [Messages -> Nat]
               /\ \A n \in Messages : next_part'[n] \in 1 .. MsgLen[n] + 1
    BY <1>1, <2>2 DEF RepeatedReceive
  <2> QED
    BY <1>3, <2>1, <2>2 DEF OrderlyNext, OrderlyTick
<1> QED
  BY <1>2, <1>3 DEF LinkNext

\* Every step keeps the invariant.
LEMMA LinkNextSound == LinkIInv /\ [LinkNext]_allVars => LinkIInv'
<1> SUFFICES ASSUME LinkIInv, [LinkNext]_allVars  PROVE LinkIInv'
  OBVIOUS
<1>1. CASE LinkNext
  BY <1>1, LinkSteps, SendSound, AcceptSound, FetchSound, TickSound
<1>2. CASE UNCHANGED allVars
  <2>1. /\ fragment_table' = fragment_table /\ frag_cnt' = frag_cnt /\ last' = last
        /\ now' = now /\ sent_at' = sent_at /\ next_part' = next_part
        /\ delivered' = delivered /\ overdue' = overdue
        /\ UNCHANGED vars
    BY <1>2 DEF allVars, vars
  <2>2. IInv'
    BY <2>1, TableUnchanged DEF LinkIInv
  <2>3. LinkTypeOK' /\ SentBefore' /\ SentApart' /\ OverdueCounted'
    BY <2>1, <2>2 DEF LinkIInv, LinkTypeOK, IInv, SentBefore, SentApart, IsSent, OverdueCounted
  <2>4. EntriesOfMessages'
    BY <2>1 DEF LinkIInv, EntriesOfMessages, Entries, EntryOf, IsSent, BegunBy, Fetching
  <2> QED
    BY <2>2, <2>3, <2>4 DEF LinkIInv
<1> QED
  BY <1>1, <1>2

\* The invariant implies that stale entries go.
LEMMA LinkInvFollows == LinkIInv => LinkInv
<1> SUFFICES ASSUME LinkIInv  PROVE LinkInv
  OBVIOUS
<1>1. LinkTypeOK
  BY DEF LinkIInv
<1>2. ASSUME NEW k \in Keys  PROVE overdue[k] <= CleanupInterval
  <2>1. /\ overdue[k] \in Nat
        /\ overdue[k] <= frag_cnt
        /\ frag_cnt \in 0 .. CleanupInterval
        /\ CleanupInterval \in Nat
    BY ConstantsAssumption DEF LinkIInv, LinkTypeOK, TypeOK, OverdueCounted
  <2> QED
    BY <2>1
<1> QED
  BY <1>1, <1>2 DEF LinkInv, StaleEntriesGo

\* Over a link that loses, repeats, delays and reorders fragments the state
\* stays well-formed, and an entry whose timeout has passed is gone after
\* cleanup_interval more calls.
THEOREM StaleGo == RadioSpec => []LinkInv
<1>1. [RadioNext]_allVars => [LinkNext]_allVars
  BY DEF LinkNext
<1> QED
  BY <1>1, LinkInitSound, LinkNextSound, LinkInvFollows, PTL DEF RadioSpec

-----------------------------------------------------------------------------
(***************************************************************************)
(* Refinement: the payloads handed up are bodies of messages sent.         *)
(***************************************************************************)

\* Nothing is sent and nothing received at first.
LEMMA InitMapped == LinkInit => Promise!Init
BY DEF LinkInit, IsSent, Promise!Init

\* Handing up the rest of a message is receiving it.
LEMMA HandedUpMapped ==
    ASSUME NEW m \in Messages, IsSent(m), HandsUp(m), sent_at' = sent_at
    PROVE  Promise!Receive(m)
<1>1. PICK first \in Beginnings(m) :
         delivered' = delivered \cup {SubSeq(Body[m], first, Len(Body[m]))}
  BY DEF HandsUp
<1>2. first \in 1 .. Len(Body[m])
  BY BodyParts DEF Beginnings
<1>3. m \in {n \in Messages : Protocol[MsgKey[n]].seq_num_first # SEQ_FIRST_NONE} => first = 1
  BY DEF Beginnings, Marked
<1>4. {n \in Messages : IsSent(n)}' = {n \in Messages : IsSent(n)}
  BY DEF IsSent
<1>5. m \in {n \in Messages : IsSent(n)}
  OBVIOUS
<1> QED
  BY <1>1, <1>2, <1>3, <1>4, <1>5 DEF Promise!Receive

\* Every step is one of the abstract specification or a stutter.
LEMMA StepMapped ==
    ASSUME LinkIInv, [LinkNext]_allVars
    PROVE  [Promise!Next]_<<{m \in Messages : IsSent(m)}, delivered>>
<1>1. ASSUME sent_at' = sent_at, delivered' = delivered
      PROVE  UNCHANGED <<{m \in Messages : IsSent(m)}, delivered>>
  BY <1>1 DEF IsSent
<1>2. ASSUME NEW m \in Messages, Send(m)  PROVE Promise!Next
  <2>1. /\ delivered' = delivered
        /\ sent_at' = [sent_at EXCEPT ![m] = now]
    BY <1>2 DEF Send
  <2>2. now # NULL /\ sent_at \in [Messages -> (0 .. MaxTime) \cup {NULL}]
    BY Clock, LinkAssumption DEF LinkIInv, LinkTypeOK
  <2>3. \A n \in Messages : sent_at'[n] # NULL <=> (n = m \/ sent_at[n] # NULL)
    BY <2>1, <2>2
  <2>4. {n \in Messages : IsSent(n)}' = {n \in Messages : IsSent(n)} \cup {m}
    BY <2>3 DEF IsSent
  <2>5. Promise!Send(m)
    BY <2>1, <2>4 DEF Promise!Send
  <2> QED
    BY <2>5 DEF Promise!Next
<1>3. ASSUME NEW m \in Messages, NEW i \in 1 .. MsgLen[m], OnAir(m), Accept(m, i),
             next_part' \in [Messages -> Nat],
             \A n \in Messages : next_part'[n] \in 1 .. MsgLen[n] + 1
      PROVE  [Promise!Next]_<<{n \in Messages : IsSent(n)}, delivered>>
  <2>1. delivered' = delivered \/ HandsUp(m)
    BY <1>3, AcceptSound
  <2>2. sent_at' = sent_at /\ IsSent(m)
    BY <1>3 DEF Accept, OnAir
  <2>3. CASE HandsUp(m)
    BY <2>2, <2>3, HandedUpMapped DEF Promise!Next
  <2> QED
    BY <1>1, <2>1, <2>2, <2>3
<1>4. CASE Fetch
  <2>1. PICK m \in Messages : IsSent(m) /\ HandsUp(m)
    BY <1>4, FetchSound
  <2>2. sent_at' = sent_at
    BY <1>4 DEF Fetch
  <2>3. Promise!Receive(m)
    BY <2>1, <2>2, HandedUpMapped
  <2> QED
    BY <2>3 DEF Promise!Next
<1>5. CASE Tick
  BY <1>1, <1>5 DEF Tick
<1>6. CASE UNCHANGED allVars
  BY <1>1, <1>6 DEF allVars
<1> QED
  BY <1>2, <1>3, <1>4, <1>5, <1>6, LinkSteps

\* Whatever a link does to the fragments, a payload handed up is the whole
\* body of one message that was sent; only where the first fragment cannot be
\* recognised may the beginning be missing.
THEOREM WholeMessages == RadioSpec => OnlyWholeMessages
<1>1. [RadioNext]_allVars => [LinkNext]_allVars
  BY DEF LinkNext
<1>2. LinkIInv /\ [LinkNext]_allVars
        => [Promise!Next]_<<{m \in Messages : IsSent(m)}, delivered>>
  BY StepMapped
<1> QED
  BY <1>1, <1>2, LinkInitSound, LinkNextSound, InitMapped, PTL
     DEF RadioSpec, OnlyWholeMessages, Promise!Spec

\* The same over the orderly link, whose delivery EveryMessageArrives is about.
THEOREM OrderlyWholeMessages == OrderlySpec => OnlyWholeMessages /\ []LinkInv
<1>1. [OrderlyNext]_allVars => [LinkNext]_allVars
  BY DEF LinkNext
<1>2. OrderlySpec => LinkInit /\ [][OrderlyNext]_allVars
  BY PTL DEF OrderlySpec
<1>3. LinkIInv /\ [LinkNext]_allVars
        => [Promise!Next]_<<{m \in Messages : IsSent(m)}, delivered>>
  BY StepMapped
<1> QED
  BY <1>1, <1>2, <1>3, LinkInitSound, LinkNextSound, LinkInvFollows, InitMapped, PTL
     DEF OnlyWholeMessages, Promise!Spec
=============================================================================
