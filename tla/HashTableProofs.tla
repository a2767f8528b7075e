-------------------------- MODULE HashTableProofs --------------------------
(***************************************************************************)
(* Proofs about HashTable, for any keys, hash function, number of buckets  *)
(* and memory: it owns what it stores, and it implements KeyedMap.         *)
(***************************************************************************)
EXTENDS HashTable, SequenceTheorems, FunctionTheorems, FiniteSetTheorems, TLAPS

-----------------------------------------------------------------------------
(***************************************************************************)
(* The inductive invariant.  Pointers are collected from nodes behind the  *)
(* cursor, so that none can be collected again.                            *)
(***************************************************************************)
Behind(c) ==
    \E b \in Buckets : \E i \in DOMAIN buckets[b] :
        /\ buckets[b][i].key = c
        /\ b < cursor.bucket \/ (b = cursor.bucket /\ i < cursor.node)

CollectedBehind ==
    /\ phase = "idle" => keys_to_delete = <<>>
    /\ phase = "collecting" => \A c \in Range(keys_to_delete) : Behind(c)

IInv == TypeOK /\ EachKeyOnce /\ Owned /\ CollectedKeysLive /\ CollectedBehind

-----------------------------------------------------------------------------
(***************************************************************************)
(* Sequences.                                                              *)
(***************************************************************************)

\* RemoveAt moves the elements after the position down by one.
LEMMA RemoveAtProperties ==
    ASSUME NEW S, NEW s \in Seq(S), NEW n \in 1 .. Len(s)
    PROVE  /\ RemoveAt(s, n) \in Seq(S)
           /\ Len(RemoveAt(s, n)) = Len(s) - 1
           /\ \A j \in 1 .. Len(s) - 1 :
                 RemoveAt(s, n)[j] = IF j < n THEN s[j] ELSE s[j + 1]
<1> DEFINE before == SubSeq(s, 1, n - 1)
           after  == SubSeq(s, n + 1, Len(s))
<1>1. /\ Len(s) \in Nat
      /\ before \in Seq(S)
      /\ after \in Seq(S)
  BY LenProperties, SubSeqProperties
<1>2. /\ Len(before) = n - 1
      /\ \A j \in 1 .. n - 1 : before[j] = s[j]
  BY <1>1, SubSeqProperties
<1>3. /\ Len(after) = Len(s) - n
      /\ \A j \in 1 .. Len(s) - n : after[j] = s[n + j]
  <2>1. CASE n = Len(s)
    BY <1>1, <2>1, SubSeqProperties
  <2>2. CASE n < Len(s)
    BY <1>1, <2>2, SubSeqProperties
  <2> QED
    BY <1>1, <2>1, <2>2
<1>4. RemoveAt(s, n) = before \o after
  BY DEF RemoveAt
<1> HIDE DEF before, after
<1>5. /\ RemoveAt(s, n) \in Seq(S)
      /\ Len(RemoveAt(s, n)) = Len(s) - 1
  BY <1>1, <1>2, <1>3, <1>4, ConcatProperties
<1>6. ASSUME NEW j \in 1 .. Len(s) - 1
      PROVE  RemoveAt(s, n)[j] = IF j < n THEN s[j] ELSE s[j + 1]
  <2>1. CASE j < n
    BY <1>1, <1>2, <1>3, <1>4, <2>1, ConcatProperties
  <2>2. CASE ~(j < n)
    <3>1. /\ j - (n - 1) \in 1 .. Len(s) - n
          /\ n + (j - (n - 1)) = j + 1
      BY <1>1, <2>2
    <3>2. RemoveAt(s, n)[j] = after[j - (n - 1)]
      BY <1>1, <1>2, <1>3, <1>4, <2>2, ConcatProperties
    <3> QED
      BY <1>3, <2>2, <3>1, <3>2
  <2> QED
    BY <2>1, <2>2
<1> QED
  BY <1>5, <1>6

\* An injective sequence stays so when one more, or one less, is in it.
LEMMA AppendKeepsInjective ==
    ASSUME NEW S, NEW s \in Seq(S), NEW x \in S, IsInjective(s), x \notin Range(s)
    PROVE  IsInjective(Append(s, x)) /\ Range(Append(s, x)) = Range(s) \cup {x}
<1>1. /\ Len(Append(s, x)) = Len(s) + 1
      /\ DOMAIN Append(s, x) = 1 .. Len(s) + 1
      /\ DOMAIN s = 1 .. Len(s)
      /\ Len(s) \in Nat
      /\ \A i \in 1 .. Len(s) : Append(s, x)[i] = s[i]
      /\ Append(s, x)[Len(s) + 1] = x
  BY AppendProperties, LenProperties
<1>2. IsInjective(Append(s, x))
  <2>1. SUFFICES ASSUME NEW i \in 1 .. Len(s) + 1, NEW j \in 1 .. Len(s) + 1,
                        Append(s, x)[i] = Append(s, x)[j]
                 PROVE  i = j
    BY <1>1 DEF IsInjective
  <2>2. CASE i \in 1 .. Len(s) /\ j \in 1 .. Len(s)
    BY <1>1, <2>1, <2>2 DEF IsInjective
  <2>3. CASE i = Len(s) + 1 \/ j = Len(s) + 1
    BY <1>1, <2>1, <2>3 DEF Range
  <2> QED
    BY <1>1, <2>2, <2>3
<1>3. Range(Append(s, x)) = Range(s) \cup {x}
  BY <1>1 DEF Range
<1> QED
  BY <1>2, <1>3

\* Without its head, a sequence without repetitions loses that element only.
LEMMA TailKeepsInjective ==
    ASSUME NEW S, NEW s \in Seq(S), s # <<>>, IsInjective(s)
    PROVE  /\ Head(s) \in Range(s)
           /\ IsInjective(Tail(s))
           /\ Range(Tail(s)) = Range(s) \ {Head(s)}
<1>1. /\ DOMAIN s = 1 .. Len(s)
      /\ Len(s) \in Nat \ {0}
      /\ Head(s) = s[1]
      /\ DOMAIN Tail(s) = 1 .. Len(s) - 1
      /\ \A i \in 1 .. Len(s) - 1 : Tail(s)[i] = s[i + 1]
  BY HeadTailProperties, EmptySeq, LenProperties
<1>2. IsInjective(Tail(s))
  BY <1>1 DEF IsInjective
<1>3. Range(Tail(s)) \subseteq Range(s) \ {Head(s)}
  BY <1>1 DEF Range, IsInjective
<1>4. ASSUME NEW i \in 1 .. Len(s), s[i] # Head(s)
      PROVE  s[i] \in Range(Tail(s))
  <2>1. i - 1 \in 1 .. Len(s) - 1 /\ (i - 1) + 1 = i
    BY <1>1, <1>4
  <2> QED
    BY <1>1, <2>1 DEF Range
<1>5. Range(s) \ {Head(s)} \subseteq Range(Tail(s))
  BY <1>1, <1>4 DEF Range
<1>6. Head(s) \in Range(s)
  BY <1>1 DEF Range
<1> QED
  BY <1>2, <1>3, <1>5, <1>6

-----------------------------------------------------------------------------
(***************************************************************************)
(* Where keys are found.                                                   *)
(***************************************************************************)
\* What buckets hold has its type.
LEMMA BucketTypes ==
    ASSUME TypeOK, NEW b \in Buckets
    PROVE  /\ buckets[b] \in Seq(Element)
           /\ DOMAIN buckets[b] = 1 .. Len(buckets[b])
           /\ Len(buckets[b]) \in Nat
           /\ \A i \in DOMAIN buckets[b] :
                 /\ buckets[b][i] \in Element
                 /\ buckets[b][i].key \in KeyCells
                 /\ buckets[b][i].value \in ValueCells
                 /\ KeyAt(b, i) \in Keys \cup {NULL}
<1>1. buckets[b] \in Seq(Element)
  BY DEF TypeOK
<1>2. /\ DOMAIN buckets[b] = 1 .. Len(buckets[b])
      /\ Len(buckets[b]) \in Nat
      /\ \A i \in DOMAIN buckets[b] : buckets[b][i] \in Element
  BY <1>1, LenProperties, ElementOfSeq
<1> QED
  BY <1>1, <1>2 DEF TypeOK, Element, KeyAt

\* The key of any element is found where the element is.
LEMMA FoundAt ==
    ASSUME TypeOK, EachKeyOnce, NEW b \in Buckets, NEW i \in DOMAIN buckets[b],
           NEW k, k = KeyAt(b, i)
    PROVE  /\ k \in Keys
           /\ Hash[k] = b
           /\ Found(k)
           /\ Node(k) = i
           /\ ElementOf(k) = buckets[b][i]
<1>1. k \in Keys /\ Hash[k] = b
  BY BucketTypes DEF EachKeyOnce
<1>2. Matches(k) = {i}
  BY <1>1 DEF Matches, EachKeyOnce, KeyAt
<1>3. i \in Int
  BY BucketTypes
<1>4. Node(k) = i
  BY <1>2, <1>3 DEF Node, Min
<1> QED
  BY <1>1, <1>2, <1>4 DEF Found, ElementOf

\* A key that is found is that of an element of its bucket.
LEMMA FoundNode ==
    ASSUME TypeOK, EachKeyOnce, NEW k \in Keys, Found(k)
    PROVE  /\ Hash[k] \in Buckets
           /\ Node(k) \in DOMAIN buckets[Hash[k]]
           /\ KeyAt(Hash[k], Node(k)) = k
<1>1. Hash[k] \in Buckets
  BY HashAssumption
<1>2. PICK i \in DOMAIN buckets[Hash[k]] : KeyAt(Hash[k], i) = k
  BY DEF Found, Matches, KeyAt
<1>3. Node(k) = i
  BY <1>1, <1>2, FoundAt
<1> QED
  BY <1>1, <1>2, <1>3

\* What is stored, by its place.
LEMMA StoredAt ==
    ASSUME NEW e
    PROVE  e \in Stored <=> \E b \in Buckets : \E i \in DOMAIN buckets[b] : e = buckets[b][i]
BY DEF Stored, Range

\* No two elements share a key cell.
LEMMA KeyCellOnce ==
    ASSUME TypeOK, EachKeyOnce,
           NEW b \in Buckets, NEW i \in DOMAIN buckets[b],
           NEW d \in Buckets, NEW j \in DOMAIN buckets[d],
           buckets[b][i].key = buckets[d][j].key
    PROVE  b = d /\ i = j
<1>1. KeyAt(b, i) = KeyAt(d, j)
  BY DEF KeyAt
<1> QED
  BY <1>1 DEF EachKeyOnce

-----------------------------------------------------------------------------
(***************************************************************************)
(* Unlinking a node.                                                       *)
(***************************************************************************)

\* The place, before the node of k was unlinked, of what is at b, i afterwards.
Old(k, b, i) == IF b = Hash[k] /\ i >= Node(k) THEN i + 1 ELSE i

\* After Unlink, each place of a bucket holds what was at its old place, and all
\* other nodes have kept one.
LEMMA UnlinkedPlaces ==
    ASSUME TypeOK, EachKeyOnce, NEW k \in Keys, Unlink(k), NEW b \in Buckets
    PROVE  /\ buckets' \in [Buckets -> Seq(Element)]
           /\ \A i \in DOMAIN buckets'[b] :
                 /\ i \in Nat
                 /\ Old(k, b, i) \in DOMAIN buckets[b]
                 /\ buckets'[b][i] = buckets[b][Old(k, b, i)]
                 /\ ~(b = Hash[k] /\ Old(k, b, i) = Node(k))
           /\ \A i \in DOMAIN buckets[b] :
                 (b = Hash[k] /\ i = Node(k)) \/ \E j \in DOMAIN buckets'[b] : Old(k, b, j) = i
<1> DEFINE h == Hash[k]
           n == Node(k)
<1>1. /\ h \in Buckets
      /\ n \in 1 .. Len(buckets[h])
      /\ buckets[h] \in Seq(Element)
      /\ Len(buckets[h]) \in Nat
  BY FoundNode, BucketTypes DEF Unlink
<1>2. /\ RemoveAt(buckets[h], n) \in Seq(Element)
      /\ Len(RemoveAt(buckets[h], n)) = Len(buckets[h]) - 1
      /\ \A j \in 1 .. Len(buckets[h]) - 1 :
            RemoveAt(buckets[h], n)[j] = IF j < n THEN buckets[h][j] ELSE buckets[h][j + 1]
  BY <1>1, RemoveAtProperties
<1>3. buckets' = [buckets EXCEPT ![h] = RemoveAt(buckets[h], n)]
  BY DEF Unlink
<1>4. buckets' \in [Buckets -> Seq(Element)]
  BY <1>1, <1>2, <1>3 DEF TypeOK
<1>5. CASE b = h
  <2>1. buckets'[b] = RemoveAt(buckets[h], n)
    BY <1>1, <1>3, <1>5 DEF TypeOK
  <2>2. DOMAIN buckets'[b] = 1 .. Len(buckets[h]) - 1
    BY <1>2, <2>1, LenProperties
  <2>3. DOMAIN buckets[b] = 1 .. Len(buckets[h])
    BY <1>1, <1>5, LenProperties
  <2>4. ASSUME NEW i \in 1 .. Len(buckets[h]) - 1
        PROVE  /\ i \in Nat
               /\ Old(k, b, i) \in 1 .. Len(buckets[h])
               /\ buckets'[b][i] = buckets[b][Old(k, b, i)]
               /\ Old(k, b, i) # n
    <3>1. CASE i < n
      BY <1>1, <1>2, <1>5, <2>1, <3>1 DEF Old
    <3>2. CASE ~(i < n)
      BY <1>1, <1>2, <1>5, <2>1, <3>2 DEF Old
    <3> QED
      BY <3>1, <3>2
  <2>5. ASSUME NEW i \in 1 .. Len(buckets[h]), i # n
        PROVE  \E j \in 1 .. Len(buckets[h]) - 1 : Old(k, b, j) = i
    <3>1. CASE i < n
      BY <1>1, <3>1 DEF Old
    <3>2. CASE i > n
      <4>1. i - 1 \in 1 .. Len(buckets[h]) - 1 /\ i - 1 >= n /\ (i - 1) + 1 = i
        BY <1>1, <3>2
      <4> QED
        BY <1>5, <4>1 DEF Old
    <3> QED
      BY <1>1, <2>5, <3>1, <3>2
  <2> QED
    BY <1>4, <1>5, <2>2, <2>3, <2>4, <2>5
<1>6. CASE b # h
  <2>1. buckets'[b] = buckets[b]
    BY <1>3, <1>6 DEF TypeOK
  <2>2. \A i \in DOMAIN buckets[b] : i \in Nat /\ Old(k, b, i) = i
    BY <1>6, BucketTypes DEF Old
  <2> QED
    BY <1>4, <1>6, <2>1, <2>2
<1> QED
  BY <1>5, <1>6

\* The effect of Unlink: the element of k, its key and its value are gone, and
\* nothing else is.
LEMMA UnlinkEffect ==
    ASSUME TypeOK, EachKeyOnce, NEW k \in Keys, Unlink(k)
    PROVE  /\ ElementOf(k) \in Stored
           /\ ElementOf(k) \in Element
           /\ Stored' = Stored \ {ElementOf(k)}
           /\ key_at' = [key_at EXCEPT ![ElementOf(k).key] = NULL]
           /\ values' = values \ {ElementOf(k).value}
           /\ \A e \in Stored : e.key = ElementOf(k).key => e = ElementOf(k)
<1>1. /\ Hash[k] \in Buckets
      /\ Node(k) \in DOMAIN buckets[Hash[k]]
      /\ ElementOf(k) = buckets[Hash[k]][Node(k)]
  BY FoundNode DEF Unlink, ElementOf
<1>2. ElementOf(k) \in Stored /\ ElementOf(k) \in Element
  BY <1>1, StoredAt, BucketTypes
<1>3. \A b \in Buckets : \A i \in DOMAIN buckets[b] :
          buckets[b][i].key = ElementOf(k).key => b = Hash[k] /\ i = Node(k)
  BY <1>1, KeyCellOnce
<1>4. \A e \in Stored : e.key = ElementOf(k).key => e = ElementOf(k)
  BY <1>1, <1>3, StoredAt
<1>5. ASSUME NEW e
      PROVE  e \in Stored' <=> \E b \in Buckets : \E i \in DOMAIN buckets'[b] : e = buckets'[b][i]
  BY DEF Stored, Range
<1>6. ASSUME NEW e \in Stored'
      PROVE  e \in Stored \ {ElementOf(k)}
  <2>0. PICK b \in Buckets : \E i \in DOMAIN buckets'[b] : e = buckets'[b][i]
    BY <1>5, <1>6
  <2>1. PICK i \in DOMAIN buckets'[b] : e = buckets'[b][i]
    BY <2>0
  <2>2. /\ Old(k, b, i) \in DOMAIN buckets[b]
        /\ e = buckets[b][Old(k, b, i)]
        /\ ~(b = Hash[k] /\ Old(k, b, i) = Node(k))
    BY <2>1, UnlinkedPlaces
  <2>3. e \in Stored
    BY <2>2, StoredAt
  <2>4. e.key # ElementOf(k).key
    BY <1>3, <2>2
  <2> QED
    BY <2>3, <2>4
<1>7. ASSUME NEW e \in Stored, e # ElementOf(k)
      PROVE  e \in Stored'
  <2>0. PICK b \in Buckets : \E i \in DOMAIN buckets[b] : e = buckets[b][i]
    BY StoredAt
  <2>1. PICK i \in DOMAIN buckets[b] : e = buckets[b][i]
    BY <2>0
  <2>2. ~(b = Hash[k] /\ i = Node(k))
    BY <1>1, <1>7, <2>1
  <2>3. PICK j \in DOMAIN buckets'[b] : Old(k, b, j) = i
    BY <2>2, UnlinkedPlaces
  <2>4. buckets'[b][j] = e
    BY <2>1, <2>3, UnlinkedPlaces
  <2> QED
    BY <1>5, <2>4
<1>8. Stored' = Stored \ {ElementOf(k)}
  BY <1>6, <1>7
<1> QED
  BY <1>2, <1>4, <1>8 DEF Unlink

\* The keys of all other elements are as they were.
LEMMA UnlinkedKeys ==
    ASSUME TypeOK, EachKeyOnce, NEW k \in Keys, Unlink(k),
           NEW b \in Buckets, NEW i \in DOMAIN buckets'[b]
    PROVE  KeyAt(b, i)' = KeyAt(b, Old(k, b, i)) /\ KeyAt(b, i)' # k
<1>1. /\ Hash[k] \in Buckets
      /\ Node(k) \in DOMAIN buckets[Hash[k]]
      /\ ElementOf(k) = buckets[Hash[k]][Node(k)]
      /\ KeyAt(Hash[k], Node(k)) = k
  BY FoundNode DEF Unlink, ElementOf
<1>2. /\ Old(k, b, i) \in DOMAIN buckets[b]
      /\ buckets'[b][i] = buckets[b][Old(k, b, i)]
      /\ ~(b = Hash[k] /\ Old(k, b, i) = Node(k))
  BY UnlinkedPlaces
<1>3. /\ buckets'[b][i].key # ElementOf(k).key
      /\ buckets'[b][i].key \in KeyCells
  BY <1>1, <1>2, KeyCellOnce, BucketTypes
<1>4. key_at' = [key_at EXCEPT ![ElementOf(k).key] = NULL]
  BY DEF Unlink
<1>5. KeyAt(b, i)' = KeyAt(b, Old(k, b, i))
  BY <1>2, <1>3, <1>4 DEF KeyAt, TypeOK
<1>6. KeyAt(b, Old(k, b, i)) # k
  BY <1>1, <1>2 DEF EachKeyOnce
<1> QED
  BY <1>5, <1>6

\* Unlinking a node keeps each key once and frees just what it held.
LEMMA UnlinkSound ==
    ASSUME TypeOK, EachKeyOnce, Owned, NEW k \in Keys, Unlink(k)
    PROVE  /\ buckets' \in [Buckets -> Seq(Element)]
           /\ key_at' \in [KeyCells -> Keys \cup {NULL}]
           /\ values' \subseteq ValueCells
           /\ EachKeyOnce'
           /\ Owned'
<1>1. buckets' \in [Buckets -> Seq(Element)]
  BY UnlinkedPlaces, FoundNode DEF Unlink
<1>2. key_at' \in [KeyCells -> Keys \cup {NULL}] /\ values' \subseteq ValueCells
  BY UnlinkEffect DEF TypeOK
<1>3. EachKeyOnce'
  <2>1. SUFFICES ASSUME NEW b \in Buckets,
                        NEW i \in DOMAIN buckets'[b], NEW j \in DOMAIN buckets'[b]
                 PROVE  /\ KeyAt(b, i)' # NULL
                        /\ Hash[KeyAt(b, i)'] = b
                        /\ KeyAt(b, i)' = KeyAt(b, j)' => i = j
    BY DEF EachKeyOnce
  <2>2. /\ Old(k, b, i) \in DOMAIN buckets[b]
        /\ Old(k, b, j) \in DOMAIN buckets[b]
        /\ KeyAt(b, i)' = KeyAt(b, Old(k, b, i))
        /\ KeyAt(b, j)' = KeyAt(b, Old(k, b, j))
    BY UnlinkedPlaces, UnlinkedKeys
  <2>3. KeyAt(b, i)' = KeyAt(b, j)' => Old(k, b, i) = Old(k, b, j)
    BY <2>2 DEF EachKeyOnce
  <2>4. Old(k, b, i) = Old(k, b, j) => i = j
    <3>1. i \in Nat /\ j \in Nat
      BY UnlinkedPlaces
    <3>2. Node(k) \in Nat
      BY FoundNode, BucketTypes DEF Unlink
    <3> QED
      BY <3>1, <3>2 DEF Old
  <2> QED
    BY <2>2, <2>3, <2>4 DEF EachKeyOnce
<1>4. KeysOwned'
  <2>1. \A c \in KeyCells : key_at'[c] # NULL <=> key_at[c] # NULL /\ c # ElementOf(k).key
    BY UnlinkEffect DEF TypeOK, Element
  <2>2. {e.key : e \in Stored'} = {e.key : e \in Stored} \ {ElementOf(k).key}
    BY UnlinkEffect
  <2> QED
    BY <2>1, <2>2 DEF Owned, KeysOwned
<1>5. ASSUME NEW b \in Buckets, NEW d \in Buckets,
             NEW i \in DOMAIN buckets'[b], NEW j \in DOMAIN buckets'[d],
             buckets'[b][i].value = buckets'[d][j].value
      PROVE  b = d /\ i = j
  <2>1. /\ Old(k, b, i) \in DOMAIN buckets[b]
        /\ Old(k, d, j) \in DOMAIN buckets[d]
        /\ buckets'[b][i] = buckets[b][Old(k, b, i)]
        /\ buckets'[d][j] = buckets[d][Old(k, d, j)]
    BY UnlinkedPlaces
  <2>2. b = d /\ Old(k, b, i) = Old(k, d, j)
    BY <1>5, <2>1 DEF Owned, ValuesOwned
  <2>3. i \in Nat /\ j \in Nat
    BY UnlinkedPlaces
  <2>4. Node(k) \in Nat
    BY FoundNode, BucketTypes DEF Unlink
  <2> QED
    BY <2>2, <2>3, <2>4 DEF Old
<1>6. \A e \in Stored : e.value = ElementOf(k).value => e = ElementOf(k)
  BY UnlinkEffect, StoredAt DEF Owned, ValuesOwned
<1>7. values' = {e.value : e \in Stored'}
  BY <1>6, UnlinkEffect DEF Owned, ValuesOwned
<1> QED
  BY <1>1, <1>2, <1>3, <1>4, <1>5, <1>7 DEF Owned, ValuesOwned

-----------------------------------------------------------------------------
(***************************************************************************)
(* Inserting.                                                              *)
(***************************************************************************)

\* A new value takes the place of the old one; all keys stay as they are.
LEMMA ReplaceEffect ==
    ASSUME TypeOK, EachKeyOnce, NEW k \in Keys, NEW c \in KeyCells, NEW v \in ValueCells,
           key_at[c] = NULL, InsertReplacing(k, c, v)
    PROVE  /\ key_at' = key_at
           /\ buckets' \in [Buckets -> Seq(Element)]
           /\ buckets'[Hash[k]][Node(k)] = [key |-> ElementOf(k).key, value |-> v]
           /\ \A b \in Buckets : DOMAIN buckets'[b] = DOMAIN buckets[b]
           /\ \A b \in Buckets : \A i \in DOMAIN buckets[b] :
                 /\ buckets'[b][i].key = buckets[b][i].key
                 /\ (b = Hash[k] /\ i = Node(k)) \/ buckets'[b][i] = buckets[b][i]
<1> DEFINE h == Hash[k]
           n == Node(k)
           e == [key |-> ElementOf(k).key, value |-> v]
<1>1. /\ h \in Buckets
      /\ n \in DOMAIN buckets[h]
      /\ ElementOf(k) = buckets[h][n]
      /\ buckets[h][n] \in Element
      /\ DOMAIN buckets[h] = 1 .. Len(buckets[h])
      /\ Len(buckets[h]) \in Nat
      /\ buckets[h] \in Seq(Element)
  BY FoundNode, BucketTypes DEF InsertReplacing, ElementOf
<1>2. [buckets[h][n] EXCEPT !.value = v] = e /\ e \in Element
  BY <1>1 DEF Element
<1>3. buckets' = [buckets EXCEPT ![h] = [buckets[h] EXCEPT ![n] = e]]
  BY <1>1, <1>2 DEF InsertReplacing, TypeOK
<1>4. [buckets[h] EXCEPT ![n] = e] \in Seq(Element)
  BY <1>1, <1>2, ExceptSeq
<1>5. buckets' \in [Buckets -> Seq(Element)]
  BY <1>1, <1>3, <1>4 DEF TypeOK
<1>6. key_at' = key_at
  BY DEF InsertReplacing, TypeOK
<1>7. ASSUME NEW b \in Buckets
      PROVE  /\ DOMAIN buckets'[b] = DOMAIN buckets[b]
             /\ \A i \in DOMAIN buckets[b] :
                   IF b = h /\ i = n THEN buckets'[b][i] = e
                   ELSE buckets'[b][i] = buckets[b][i]
  BY <1>1, <1>3 DEF TypeOK
<1>8. buckets'[h][n] = e
  BY <1>1, <1>7
<1>9. ASSUME NEW b \in Buckets, NEW i \in DOMAIN buckets[b]
      PROVE  /\ buckets'[b][i].key = buckets[b][i].key
             /\ (b = h /\ i = n) \/ buckets'[b][i] = buckets[b][i]
  BY <1>1, <1>7, <1>8
<1> QED
  BY <1>5, <1>6, <1>7, <1>8, <1>9

\* Replacing a value keeps each key once and frees the old value and the new key.
LEMMA ReplaceSound ==
    ASSUME TypeOK, EachKeyOnce, Owned,
           NEW k \in Keys, NEW c \in KeyCells, NEW v \in ValueCells,
           key_at[c] = NULL, v \notin values, InsertReplacing(k, c, v)
    PROVE  /\ EachKeyOnce'
           /\ Owned'
           /\ Stored' = (Stored \ {ElementOf(k)}) \cup {[key |-> ElementOf(k).key, value |-> v]}
<1> DEFINE new == [key |-> ElementOf(k).key, value |-> v]
<1>1. /\ Hash[k] \in Buckets
      /\ Node(k) \in DOMAIN buckets[Hash[k]]
      /\ ElementOf(k) = buckets[Hash[k]][Node(k)]
      /\ ElementOf(k) \in Stored
  BY FoundNode, StoredAt DEF InsertReplacing, ElementOf
<1>2. ASSUME NEW b \in Buckets, NEW i \in DOMAIN buckets'[b]
      PROVE  i \in DOMAIN buckets[b] /\ KeyAt(b, i)' = KeyAt(b, i)
  <2>1. i \in DOMAIN buckets[b]
    BY ReplaceEffect
  <2>2. buckets'[b][i].key = buckets[b][i].key /\ key_at' = key_at
    BY <2>1, ReplaceEffect
  <2> QED
    BY <2>1, <2>2 DEF KeyAt
<1>3. EachKeyOnce'
  BY <1>2 DEF EachKeyOnce
<1>4. ASSUME NEW e
      PROVE  e \in Stored' <=> \E b \in Buckets : \E i \in DOMAIN buckets'[b] : e = buckets'[b][i]
  BY DEF Stored, Range
<1>5. ASSUME NEW e \in Stored'
      PROVE  e = new \/ (e \in Stored /\ e # ElementOf(k))
  <2>1. PICK b \in Buckets : \E i \in DOMAIN buckets'[b] : e = buckets'[b][i]
    BY <1>4, <1>5
  <2>2. PICK i \in DOMAIN buckets[b] : e = buckets'[b][i]
    BY <2>1, ReplaceEffect
  <2>3. CASE b = Hash[k] /\ i = Node(k)
    BY <2>2, <2>3, ReplaceEffect
  <2>4. CASE ~(b = Hash[k] /\ i = Node(k))
    <3>1. e = buckets[b][i]
      BY <2>2, <2>4, ReplaceEffect
    <3>2. e.key # ElementOf(k).key
      BY <1>1, <2>4, <3>1, KeyCellOnce
    <3> QED
      BY <3>1, <3>2, StoredAt
  <2> QED
    BY <2>3, <2>4
<1>6. new \in Stored'
  <2>1. /\ Node(k) \in DOMAIN buckets'[Hash[k]]
        /\ buckets'[Hash[k]][Node(k)] = new
    BY <1>1, ReplaceEffect
  <2> QED
    BY <1>1, <1>4, <2>1
<1>7. ASSUME NEW e \in Stored, e # ElementOf(k)
      PROVE  e \in Stored'
  <2>1. PICK b \in Buckets : \E i \in DOMAIN buckets[b] : e = buckets[b][i]
    BY StoredAt
  <2>2. PICK i \in DOMAIN buckets[b] : e = buckets[b][i]
    BY <2>1
  <2>3. i \in DOMAIN buckets'[b] /\ e = buckets'[b][i]
    BY <1>1, <1>7, <2>2, ReplaceEffect
  <2> QED
    BY <1>4, <2>3
<1>8. Stored' = (Stored \ {ElementOf(k)}) \cup {new}
  BY <1>5, <1>6, <1>7
<1>9. KeysOwned'
  <2>1. {e.key : e \in Stored'} = {e.key : e \in Stored}
    <3>1. new.key = ElementOf(k).key
      OBVIOUS
    <3> HIDE DEF new
    <3> QED
      BY <1>1, <1>8, <3>1
  <2> QED
    BY <2>1, ReplaceEffect DEF Owned, KeysOwned
<1>10. ValuesOwned'
  <2>0. \A b \in Buckets : \A i \in DOMAIN buckets[b] :
            (b = Hash[k] /\ i = Node(k)) \/ buckets'[b][i].value = buckets[b][i].value
    BY ReplaceEffect
  <2>1. \A e \in Stored : e.value \in values
    BY DEF Owned, ValuesOwned
  <2>2. \A b \in Buckets : \A i \in DOMAIN buckets[b] : buckets[b][i].value # v
    BY <2>1, StoredAt
  <2>3. ASSUME NEW b \in Buckets, NEW d \in Buckets,
               NEW i \in DOMAIN buckets'[b], NEW j \in DOMAIN buckets'[d],
               buckets'[b][i].value = buckets'[d][j].value
        PROVE  b = d /\ i = j
    <3>1. i \in DOMAIN buckets[b] /\ j \in DOMAIN buckets[d]
      BY ReplaceEffect
    <3>2. (b = Hash[k] /\ i = Node(k)) \/ buckets'[b][i].value = buckets[b][i].value
      BY <2>0, <3>1
    <3>3. (d = Hash[k] /\ j = Node(k)) \/ buckets'[d][j].value = buckets[d][j].value
      BY <2>0, <3>1
    <3>4. buckets[b][i].value = buckets[d][j].value => b = d /\ i = j
      BY <3>1 DEF Owned, ValuesOwned
    <3>5. buckets'[Hash[k]][Node(k)].value = v
      <4> buckets'[Hash[k]][Node(k)] = new
        BY <1>1, ReplaceEffect
      <4> QED
        OBVIOUS
    <3> QED
      BY <2>2, <2>3, <3>1, <3>2, <3>3, <3>4, <3>5
  <2>4. \A e \in Stored : e.value = ElementOf(k).value => e = ElementOf(k)
    BY <1>1, StoredAt DEF Owned, ValuesOwned
  <2>5. values' = (values \ {ElementOf(k).value}) \cup {v}
    BY DEF InsertReplacing
  <2>6. values = {e.value : e \in Stored}
    BY DEF Owned, ValuesOwned
  <2>7. new.value = v
    OBVIOUS
  <2> HIDE DEF new
  <2>8. {e.value : e \in Stored'} = {e.value : e \in Stored \ {ElementOf(k)}} \cup {v}
    BY <1>8, <2>7
  <2>9. {e.value : e \in Stored \ {ElementOf(k)}} = values \ {ElementOf(k).value}
    BY <2>4, <2>6
  <2> QED
    BY <2>3, <2>5, <2>8, <2>9 DEF ValuesOwned
<1> QED
  BY <1>3, <1>8, <1>9, <1>10 DEF Owned

\* A new element is the last one of its key's bucket.
LEMMA AppendEffect ==
    ASSUME TypeOK, NEW k \in Keys, NEW c \in KeyCells, NEW v \in ValueCells,
           InsertAppending(k, c, v)
    PROVE  /\ buckets' \in [Buckets -> Seq(Element)]
           /\ \A b \in Buckets : \A i \in DOMAIN buckets[b] :
                 i \in DOMAIN buckets'[b] /\ buckets'[b][i] = buckets[b][i]
           /\ \A b \in Buckets : \A i \in DOMAIN buckets'[b] :
                 i \in DOMAIN buckets[b] \/ (b = Hash[k] /\ i = Len(buckets[b]) + 1)
           /\ Len(buckets[Hash[k]]) + 1 \in DOMAIN buckets'[Hash[k]]
           /\ buckets'[Hash[k]][Len(buckets[Hash[k]]) + 1] = [key |-> c, value |-> v]
<1> DEFINE h == Hash[k]
           e == [key |-> c, value |-> v]
<1>1. /\ h \in Buckets
      /\ buckets[h] \in Seq(Element)
      /\ DOMAIN buckets[h] = 1 .. Len(buckets[h])
      /\ Len(buckets[h]) \in Nat
      /\ e \in Element
  BY HashAssumption, BucketTypes DEF Element
<1>2. buckets' = [buckets EXCEPT ![h] = Append(buckets[h], e)]
  BY DEF InsertAppending
<1> HIDE DEF e
<1>3. /\ Append(buckets[h], e) \in Seq(Element)
      /\ DOMAIN Append(buckets[h], e) = 1 .. Len(buckets[h]) + 1
      /\ \A i \in 1 .. Len(buckets[h]) : Append(buckets[h], e)[i] = buckets[h][i]
      /\ Append(buckets[h], e)[Len(buckets[h]) + 1] = e
  BY <1>1, AppendProperties, LenProperties
<1>4. buckets' \in [Buckets -> Seq(Element)]
  BY <1>1, <1>2, <1>3 DEF TypeOK
<1>5. buckets'[h] = Append(buckets[h], e)
  BY <1>1, <1>2 DEF TypeOK
<1>6. ASSUME NEW b \in Buckets, b # h
      PROVE  buckets'[b] = buckets[b]
  BY <1>1, <1>2, <1>6 DEF TypeOK
<1>7. ASSUME NEW b \in Buckets, NEW i \in DOMAIN buckets[b]
      PROVE  i \in DOMAIN buckets'[b] /\ buckets'[b][i] = buckets[b][i]
  <2>1. CASE b = h
    BY <1>1, <1>3, <1>5, <2>1
  <2>2. CASE b # h
    BY <1>6, <2>2
  <2> QED
    BY <2>1, <2>2
<1>8. ASSUME NEW b \in Buckets, NEW i \in DOMAIN buckets'[b]
      PROVE  i \in DOMAIN buckets[b] \/ (b = h /\ i = Len(buckets[b]) + 1)
  <2>1. CASE b = h
    BY <1>1, <1>3, <1>5, <2>1
  <2>2. CASE b # h
    BY <1>6, <2>2
  <2> QED
    BY <2>1, <2>2
<1>9. Len(buckets[h]) + 1 \in DOMAIN buckets'[h] /\ buckets'[h][Len(buckets[h]) + 1] = e
  BY <1>1, <1>3, <1>5
<1> QED
  BY <1>4, <1>7, <1>8, <1>9 DEF e

\* No element has a free key cell, or a value that is not in use.
LEMMA CellsInUse ==
    ASSUME TypeOK, Owned, NEW b \in Buckets, NEW i \in DOMAIN buckets[b]
    PROVE  key_at[buckets[b][i].key] # NULL /\ buckets[b][i].value \in values
<1>1. buckets[b][i] \in Stored
  BY StoredAt
<1>2. buckets[b][i].key \in {e.key : e \in Stored} /\ buckets[b][i].value \in {e.value : e \in Stored}
  BY <1>1
<1> QED
  BY <1>2 DEF Owned, KeysOwned, ValuesOwned

\* Appending a key that is not found keeps each key once and all memory owned.
LEMMA AppendSound ==
    ASSUME TypeOK, EachKeyOnce, Owned,
           NEW k \in Keys, NEW c \in KeyCells, NEW v \in ValueCells,
           key_at[c] = NULL, v \notin values, InsertAppending(k, c, v)
    PROVE  /\ EachKeyOnce'
           /\ Owned'
           /\ Stored' = Stored \cup {[key |-> c, value |-> v]}
<1> DEFINE new == [key |-> c, value |-> v]
           last == Len(buckets[Hash[k]]) + 1
<1>1. /\ Hash[k] \in Buckets
      /\ k # NULL
      /\ new.key = c
      /\ new.value = v
      /\ last \notin DOMAIN buckets[Hash[k]]
      /\ last \in DOMAIN buckets'[Hash[k]]
      /\ buckets'[Hash[k]][last] = new
  BY HashAssumption, BucketTypes, AppendEffect
<1>2. key_at' = [key_at EXCEPT ![c] = k] /\ values' = values \cup {v}
  BY DEF InsertAppending
<1> HIDE DEF new, last
<1>3. ASSUME NEW b \in Buckets, NEW i \in DOMAIN buckets'[b], b = Hash[k], i = last
      PROVE  KeyAt(b, i)' = k
  <2>1. buckets'[b][i].key = c
    BY <1>1, <1>3
  <2>2. key_at'[c] = k
    BY <1>2 DEF TypeOK
  <2> QED
    BY <2>1, <2>2 DEF KeyAt
<1>4. ASSUME NEW b \in Buckets, NEW i \in DOMAIN buckets[b]
      PROVE  /\ i \in DOMAIN buckets'[b]
             /\ buckets'[b][i] = buckets[b][i]
             /\ buckets[b][i].value # v
             /\ KeyAt(b, i)' = KeyAt(b, i)
             /\ KeyAt(b, i) # k
  <2>1. i \in DOMAIN buckets'[b] /\ buckets'[b][i] = buckets[b][i]
    BY AppendEffect
  <2>2. buckets[b][i].key # c /\ buckets[b][i].value # v /\ buckets[b][i].key \in KeyCells
    BY CellsInUse, BucketTypes
  <2>3. KeyAt(b, i)' = KeyAt(b, i)
    BY <1>2, <2>1, <2>2 DEF KeyAt, TypeOK
  <2>4. KeyAt(b, i) # k
    BY FoundAt DEF InsertAppending
  <2> QED
    BY <2>1, <2>2, <2>3, <2>4
<1>5. ASSUME NEW b \in Buckets, NEW i \in DOMAIN buckets'[b]
      PROVE  i \in DOMAIN buckets[b] \/ (b = Hash[k] /\ i = last)
  BY AppendEffect DEF last
<1>6. EachKeyOnce'
  <2>1. SUFFICES ASSUME NEW b \in Buckets,
                        NEW i \in DOMAIN buckets'[b], NEW j \in DOMAIN buckets'[b]
                 PROVE  /\ KeyAt(b, i)' # NULL
                        /\ Hash[KeyAt(b, i)'] = b
                        /\ KeyAt(b, i)' = KeyAt(b, j)' => i = j
    BY DEF EachKeyOnce
  <2>2. CASE i \in DOMAIN buckets[b] /\ j \in DOMAIN buckets[b]
    BY <1>4, <2>2 DEF EachKeyOnce
  <2>3. CASE i \in DOMAIN buckets[b] /\ b = Hash[k] /\ j = last
    BY <1>3, <1>4, <2>3 DEF EachKeyOnce
  <2>4. CASE b = Hash[k] /\ i = last
    BY <1>1, <1>3, <1>4, <1>5, <2>4
  <2> QED
    BY <1>5, <2>2, <2>3, <2>4
<1>7. ASSUME NEW e
      PROVE  e \in Stored' <=> \E b \in Buckets : \E i \in DOMAIN buckets'[b] : e = buckets'[b][i]
  BY DEF Stored, Range
<1>8. Stored' = Stored \cup {new}
  <2>1. ASSUME NEW e \in Stored'
        PROVE  e \in Stored \cup {new}
    <3>1. PICK b \in Buckets : \E i \in DOMAIN buckets'[b] : e = buckets'[b][i]
      BY <1>7, <2>1
    <3>2. PICK i \in DOMAIN buckets'[b] : e = buckets'[b][i]
      BY <3>1
    <3>3. CASE i \in DOMAIN buckets[b]
      BY <1>4, <3>2, <3>3, StoredAt
    <3>4. CASE b = Hash[k] /\ i = last
      BY <1>1, <3>2, <3>4
    <3> QED
      BY <1>5, <3>3, <3>4
  <2>2. ASSUME NEW e \in Stored
        PROVE  e \in Stored'
    <3>1. PICK b \in Buckets : \E i \in DOMAIN buckets[b] : e = buckets[b][i]
      BY StoredAt
    <3>2. PICK i \in DOMAIN buckets[b] : e = buckets[b][i]
      BY <3>1
    <3>3. i \in DOMAIN buckets'[b] /\ e = buckets'[b][i]
      BY <1>4, <3>2
    <3> QED
      BY <1>7, <3>3
  <2>3. new \in Stored'
    BY <1>1, <1>7
  <2> QED
    BY <2>1, <2>2, <2>3
<1>9. KeysOwned'
  <2>1. {e.key : e \in Stored'} = {e.key : e \in Stored} \cup {c}
    BY <1>1, <1>8
  <2>2. \A d \in KeyCells : key_at'[d] # NULL <=> key_at[d] # NULL \/ d = c
    BY <1>1, <1>2 DEF TypeOK
  <2> QED
    BY <2>1, <2>2 DEF Owned, KeysOwned
<1>10. values' = {e.value : e \in Stored'}
  <2>1. {e.value : e \in Stored'} = {e.value : e \in Stored} \cup {v}
    BY <1>1, <1>8
  <2> QED
    BY <1>2, <2>1 DEF Owned, ValuesOwned
<1>11. ASSUME NEW b \in Buckets, NEW d \in Buckets,
              NEW i \in DOMAIN buckets'[b], NEW j \in DOMAIN buckets'[d],
              buckets'[b][i].value = buckets'[d][j].value
       PROVE  b = d /\ i = j
  <2>1. CASE i \in DOMAIN buckets[b] /\ j \in DOMAIN buckets[d]
    BY <1>4, <1>11, <2>1 DEF Owned, ValuesOwned
  <2>2. CASE i \in DOMAIN buckets[b] /\ d = Hash[k] /\ j = last
    BY <1>1, <1>4, <1>11, <2>2
  <2>3. CASE b = Hash[k] /\ i = last
    BY <1>1, <1>4, <1>5, <1>11, <2>3
  <2> QED
    BY <1>5, <2>1, <2>2, <2>3
<1> QED
  BY <1>6, <1>8, <1>9, <1>10, <1>11 DEF Owned, ValuesOwned, new

-----------------------------------------------------------------------------
(***************************************************************************)
(* Destroying.                                                             *)
(***************************************************************************)
\* la_hash_destroy frees all there is.
LEMMA DestroySound ==
    ASSUME TypeOK, Owned, HashDestroy
    PROVE  /\ buckets' \in [Buckets -> Seq(Element)]
           /\ key_at' \in [KeyCells -> Keys \cup {NULL}]
           /\ values' \subseteq ValueCells
           /\ EachKeyOnce'
           /\ Owned'
           /\ Stored' = {}
<1>1. buckets' = [b \in Buckets |-> <<>>]
  BY DEF HashDestroy
<1>2. ASSUME NEW b \in Buckets
      PROVE  buckets'[b] = <<>> /\ DOMAIN buckets'[b] = {}
  BY <1>1, EmptySeq, LenProperties
<1>3. buckets' \in [Buckets -> Seq(Element)]
  BY <1>1
<1>4. Stored' = {}
  BY <1>2 DEF Stored, Range
<1>5. key_at' \in [KeyCells -> Keys \cup {NULL}] /\ values' \subseteq ValueCells
  BY DEF HashDestroy, TypeOK
<1>6. EachKeyOnce'
  BY <1>2 DEF EachKeyOnce
<1>7. \A c \in KeyCells : key_at'[c] = NULL
  BY DEF HashDestroy, Owned, KeysOwned
<1>8. values' = {}
  BY DEF HashDestroy, Owned, ValuesOwned
<1>9. KeysOwned' /\ ValuesOwned'
  BY <1>2, <1>4, <1>7, <1>8 DEF KeysOwned, ValuesOwned
<1> QED
  BY <1>3, <1>4, <1>5, <1>6, <1>9 DEF Owned

-----------------------------------------------------------------------------
(***************************************************************************)
(* Collecting, and the invariant.                                          *)
(***************************************************************************)
\* What leaves memory alone keeps what is said of it.
LEMMA MemoryKept ==
    ASSUME EachKeyOnce, Owned, UNCHANGED memory
    PROVE  EachKeyOnce' /\ Owned' /\ Stored' = Stored
BY DEF memory, EachKeyOnce, Owned, KeysOwned, ValuesOwned, KeyAt, Stored

\* With nothing collected, there is nothing to say of what is.
LEMMA NothingCollected ==
    ASSUME keys_to_delete = <<>>, UNCHANGED keys_to_delete
    PROVE  CollectedKeysLive'
<1>1. keys_to_delete' = <<>> /\ DOMAIN keys_to_delete' = {}
  BY EmptySeq, LenProperties
<1> QED
  BY <1>1 DEF CollectedKeysLive, Range, IsInjective

\* While la_hash_foreach_remove does not run, any call keeps the invariant that
\* does so with what is in memory.
LEMMA IdleSound ==
    ASSUME IInv, phase = "idle", UNCHANGED <<phase, cursor, keys_to_delete>>,
           buckets' \in [Buckets -> Seq(Element)],
           key_at' \in [KeyCells -> Keys \cup {NULL}],
           values' \subseteq ValueCells,
           result' \in Nat \cup ValueCells \cup {NULL},
           EachKeyOnce', Owned'
    PROVE  IInv'
<1>1. keys_to_delete = <<>>
  BY DEF IInv, CollectedBehind
<1>2. TypeOK'
  BY DEF IInv, TypeOK
<1>3. CollectedKeysLive'
  BY <1>1, NothingCollected
<1>4. CollectedBehind'
  BY <1>1 DEF CollectedBehind
<1> QED
  BY <1>2, <1>3, <1>4 DEF IInv

\* la_hash_lookup keeps the invariant, and returns a value or NULL.
LEMMA LookupSound ==
    ASSUME IInv, NEW k \in Keys, HashLookup(k)
    PROVE  IInv'
<1>1. result' \in ValueCells \cup {NULL}
  <2>1. CASE Found(k)
    <3>1. ElementOf(k).value \in ValueCells
      BY <2>1, FoundNode, BucketTypes DEF ElementOf, IInv
    <3> QED
      BY <2>1, <3>1 DEF HashLookup
  <2>2. CASE ~Found(k)
    BY <2>2 DEF HashLookup
  <2> QED
    BY <2>1, <2>2
<1>2. EachKeyOnce' /\ Owned'
  BY MemoryKept DEF HashLookup, IInv
<1>3. /\ buckets' \in [Buckets -> Seq(Element)]
      /\ key_at' \in [KeyCells -> Keys \cup {NULL}]
      /\ values' \subseteq ValueCells
  BY DEF HashLookup, memory, IInv, TypeOK
<1>4. phase = "idle" /\ UNCHANGED <<phase, cursor, keys_to_delete>>
  BY DEF HashLookup
<1> QED
  BY <1>1, <1>2, <1>3, <1>4, IdleSound

\* la_hash_insert keeps the invariant, both ways.
LEMMA InsertSound ==
    ASSUME IInv, NEW k \in Keys, NEW c \in KeyCells, NEW v \in ValueCells, HashInsert(k, c, v)
    PROVE  IInv'
<1>1. /\ phase = "idle"
      /\ key_at[c] = NULL
      /\ v \notin values
      /\ UNCHANGED <<phase, cursor, keys_to_delete>>
  BY DEF HashInsert
<1>2. CASE InsertReplacing(k, c, v)
  <2>1. EachKeyOnce' /\ Owned' /\ buckets' \in [Buckets -> Seq(Element)] /\ key_at' = key_at
    BY <1>1, <1>2, ReplaceSound, ReplaceEffect DEF IInv
  <2>2. values' \subseteq ValueCells /\ result' = 1
    BY <1>2 DEF InsertReplacing, IInv, TypeOK
  <2>3. key_at' \in [KeyCells -> Keys \cup {NULL}]
    BY <2>1 DEF IInv, TypeOK
  <2> QED
    BY <1>1, <2>1, <2>2, <2>3, IdleSound
<1>3. CASE InsertAppending(k, c, v)
  <2>1. EachKeyOnce' /\ Owned' /\ buckets' \in [Buckets -> Seq(Element)]
    BY <1>1, <1>3, AppendSound, AppendEffect DEF IInv
  <2>2. values' \subseteq ValueCells /\ result' = 0
    BY <1>3 DEF InsertAppending, IInv, TypeOK
  <2>3. key_at' \in [KeyCells -> Keys \cup {NULL}]
    BY <1>3 DEF InsertAppending, IInv, TypeOK
  <2> QED
    BY <1>1, <2>1, <2>2, <2>3, IdleSound
<1> QED
  BY <1>2, <1>3 DEF HashInsert

\* What la_hash_remove does to memory, for a key that is found and for one that is not.
LEMMA UnlinkedSound ==
    ASSUME TypeOK, EachKeyOnce, Owned, NEW k \in Keys, Unlinked(k)
    PROVE  /\ buckets' \in [Buckets -> Seq(Element)]
           /\ key_at' \in [KeyCells -> Keys \cup {NULL}]
           /\ values' \subseteq ValueCells
           /\ EachKeyOnce'
           /\ Owned'
<1>1. CASE Unlink(k)
  BY <1>1, UnlinkSound
<1>2. CASE UNCHANGED memory
  BY <1>2, MemoryKept DEF memory, TypeOK
<1> QED
  BY <1>1, <1>2 DEF Unlinked

\* la_hash_remove keeps the invariant.
LEMMA RemoveSound ==
    ASSUME IInv, NEW k \in Keys, HashRemove(k)
    PROVE  IInv'
<1>1. /\ buckets' \in [Buckets -> Seq(Element)]
      /\ key_at' \in [KeyCells -> Keys \cup {NULL}]
      /\ values' \subseteq ValueCells
      /\ EachKeyOnce'
      /\ Owned'
  BY UnlinkedSound DEF HashRemove, IInv
<1>2. /\ phase = "idle"
      /\ UNCHANGED <<phase, cursor, keys_to_delete>>
      /\ result' \in Nat
  BY DEF HashRemove
<1> QED
  BY <1>1, <1>2, IdleSound

\* What the cursor has passed stays behind it.
LEMMA StaysBehind ==
    ASSUME TypeOK, cursor' \in [bucket : Nat, node : Nat \ {0}], UNCHANGED buckets,
           \/ cursor'.bucket = cursor.bucket /\ cursor'.node = cursor.node + 1
           \/ cursor'.bucket = cursor.bucket + 1,
           NEW c, Behind(c)
    PROVE  Behind(c)'
<1>1. PICK b \in Buckets : \E i \in DOMAIN buckets[b] :
         /\ buckets[b][i].key = c
         /\ b < cursor.bucket \/ (b = cursor.bucket /\ i < cursor.node)
  BY DEF Behind
<1>2. PICK i \in DOMAIN buckets[b] :
         /\ buckets[b][i].key = c
         /\ b < cursor.bucket \/ (b = cursor.bucket /\ i < cursor.node)
  BY <1>1
<1>3. /\ b \in Int
      /\ i \in Nat
      /\ cursor.bucket \in Nat
      /\ cursor.node \in Nat
  BY BucketTypes, HashAssumption DEF TypeOK, Buckets
<1>4. b < cursor'.bucket \/ (b = cursor'.bucket /\ i < cursor'.node)
  BY <1>2, <1>3
<1> QED
  BY <1>2, <1>4 DEF Behind

\* Looking at a node, and collecting its key, keeps the invariant.
LEMMA VisitSound ==
    ASSUME IInv, NEW chosen \in BOOLEAN, Visit(chosen)
    PROVE  IInv'
<1> DEFINE b == cursor.bucket
           n == cursor.node
<1>0. PICK c : c = Visited.key
  OBVIOUS
<1>1. /\ phase = "collecting"
      /\ b \in Buckets
      /\ n \in DOMAIN buckets[b]
      /\ c = buckets[b][n].key
      /\ b \in Nat
      /\ n \in Nat \ {0}
  BY <1>0 DEF Visit, Visiting, Visited, IInv, TypeOK
<1>2. /\ UNCHANGED <<memory, phase, result>>
      /\ UNCHANGED buckets
      /\ cursor' = [cursor EXCEPT !.node = @ + 1]
      /\ keys_to_delete' = IF chosen THEN Append(keys_to_delete, c) ELSE keys_to_delete
  BY <1>0 DEF Visit, memory
<1>3. /\ cursor' \in [bucket : Nat, node : Nat \ {0}]
      /\ cursor'.bucket = b
      /\ cursor'.node = n + 1
  <2>1. cursor \in [bucket : Nat, node : Nat \ {0}]
    BY DEF IInv, TypeOK
  <2>2. cursor.node + 1 \in Nat \ {0}
    BY <2>1
  <2> QED
    BY <1>2, <2>1, <2>2
<1>4. EachKeyOnce' /\ Owned' /\ Stored' = Stored
  BY <1>2, MemoryKept DEF IInv
<1>5. c \in KeyCells
  BY <1>1, BucketTypes DEF IInv
<1>6. buckets[b][n] \in Stored
  BY <1>1, StoredAt
<1>7. c \in {e.key : e \in Stored}
  BY <1>1, <1>6
<1>8. c \notin Range(keys_to_delete)
  <2>1. ASSUME Behind(c)
        PROVE  FALSE
    <3>1. PICK d \in Buckets : \E i \in DOMAIN buckets[d] :
             /\ buckets[d][i].key = c
             /\ d < b \/ (d = b /\ i < n)
      BY <2>1 DEF Behind
    <3>2. PICK i \in DOMAIN buckets[d] :
             /\ buckets[d][i].key = c
             /\ d < b \/ (d = b /\ i < n)
      BY <3>1
    <3>3. d = b /\ i = n
      BY <1>1, <3>2, KeyCellOnce DEF IInv
    <3> QED
      BY <1>1, <3>2, <3>3
  <2> QED
    BY <1>1, <2>1 DEF IInv, CollectedBehind
<1>9. ASSUME NEW d, Behind(d)
      PROVE  Behind(d)'
  BY <1>2, <1>3, <1>9, StaysBehind DEF IInv
<1>10. Behind(c)'
  <2>1. /\ n \in DOMAIN buckets'[b]
        /\ buckets'[b][n].key = c
        /\ n < cursor'.node
    BY <1>1, <1>2, <1>3
  <2> QED
    BY <1>1, <1>3, <2>1 DEF Behind
<1>11. /\ keys_to_delete \in Seq(KeyCells)
       /\ IsInjective(keys_to_delete)
       /\ Range(keys_to_delete) \subseteq {e.key : e \in Stored}
       /\ \A d \in Range(keys_to_delete) : Behind(d)
  BY <1>1 DEF IInv, TypeOK, CollectedKeysLive, CollectedBehind
<1> HIDE DEF b, n
<1>12. /\ keys_to_delete' \in Seq(KeyCells)
       /\ IsInjective(keys_to_delete')
       /\ Range(keys_to_delete') \subseteq Range(keys_to_delete) \cup {c}
  <2>1. CASE chosen
    BY <1>2, <1>5, <1>8, <1>11, <2>1, AppendKeepsInjective, AppendProperties
  <2>2. CASE ~chosen
    BY <1>2, <1>11, <2>2
  <2> QED
    BY <2>1, <2>2
<1>13. TypeOK'
  BY <1>2, <1>3, <1>12 DEF IInv, TypeOK, memory
<1>14. CollectedKeysLive'
  BY <1>4, <1>7, <1>11, <1>12 DEF CollectedKeysLive
<1>15. \A d \in Range(keys_to_delete') : Behind(d)'
  BY <1>9, <1>10, <1>11, <1>12
<1>16. CollectedBehind'
  BY <1>1, <1>2, <1>15 DEF CollectedBehind
<1> QED
  BY <1>4, <1>13, <1>14, <1>16 DEF IInv

\* Removing a collected key keeps the invariant: no other collected key is freed.
LEMMA RemoveCollectedSound ==
    ASSUME IInv, RemoveCollected
    PROVE  IInv'
<1> DEFINE c == Head(keys_to_delete)
           k == key_at[c]
<1>1. /\ phase = "removing"
      /\ keys_to_delete # <<>>
      /\ Unlinked(k)
      /\ keys_to_delete' = Tail(keys_to_delete)
      /\ UNCHANGED <<phase, cursor, result>>
  BY DEF RemoveCollected
<1>2. /\ TypeOK
      /\ EachKeyOnce
      /\ Owned
      /\ keys_to_delete \in Seq(KeyCells)
      /\ IsInjective(keys_to_delete)
      /\ Range(keys_to_delete) \subseteq {e.key : e \in Stored}
  BY DEF IInv, TypeOK, CollectedKeysLive
<1>3. /\ c \in Range(keys_to_delete)
      /\ IsInjective(Tail(keys_to_delete))
      /\ Range(Tail(keys_to_delete)) = Range(keys_to_delete) \ {c}
      /\ Tail(keys_to_delete) \in Seq(KeyCells)
  BY <1>1, <1>2, TailKeepsInjective, HeadTailProperties
<1>4. k \in Keys /\ Found(k) /\ ElementOf(k).key = c
  <2>1. PICK e \in Stored : e.key = c
    BY <1>2, <1>3
  <2>2. PICK b \in Buckets : \E i \in DOMAIN buckets[b] : e = buckets[b][i]
    BY StoredAt
  <2>3. PICK i \in DOMAIN buckets[b] : e = buckets[b][i]
    BY <2>2
  <2>4. k = KeyAt(b, i)
    BY <2>1, <2>3 DEF KeyAt
  <2>5. k \in Keys /\ Found(k) /\ ElementOf(k) = e
    BY <1>2, <2>3, <2>4, FoundAt
  <2> QED
    BY <2>1, <2>5
<1> HIDE DEF c, k
<1>5. /\ buckets' \in [Buckets -> Seq(Element)]
      /\ key_at' \in [KeyCells -> Keys \cup {NULL}]
      /\ values' \subseteq ValueCells
      /\ EachKeyOnce'
      /\ Owned'
  BY <1>1, <1>2, <1>4, UnlinkedSound
<1>6. Unlink(k)
  BY <1>1, <1>4 DEF Unlinked
<1>7. Stored' = Stored \ {ElementOf(k)}
  BY <1>2, <1>4, <1>6, UnlinkEffect
<1>8. Range(keys_to_delete') \subseteq {e.key : e \in Stored'}
  <2>1. SUFFICES ASSUME NEW d \in Range(keys_to_delete'), NEW e \in Stored, e.key = d
                 PROVE  e \in Stored'
    BY <1>1, <1>2, <1>3
  <2>2. d # c
    BY <1>1, <1>3
  <2> QED
    BY <1>4, <1>7, <2>1, <2>2
<1>9. TypeOK'
  BY <1>1, <1>2, <1>3, <1>5 DEF TypeOK
<1>10. CollectedKeysLive'
  BY <1>1, <1>3, <1>8 DEF CollectedKeysLive
<1>11. CollectedBehind'
  BY <1>1 DEF CollectedBehind
<1> QED
  BY <1>5, <1>9, <1>10, <1>11 DEF IInv

\* A new table satisfies the invariant.
LEMMA InitSound ==
    ASSUME Init
    PROVE  IInv
<1>1. \A b \in Buckets : buckets[b] = <<>> /\ DOMAIN buckets[b] = {}
  BY EmptySeq, LenProperties DEF Init
<1>2. Stored = {}
  BY <1>1 DEF Stored, Range
<1>3. TypeOK
  BY DEF Init, TypeOK, Start
<1>4. EachKeyOnce
  BY <1>1 DEF EachKeyOnce
<1>5. Owned
  BY <1>1, <1>2 DEF Init, Owned, KeysOwned, ValuesOwned
<1>6. keys_to_delete = <<>> /\ DOMAIN keys_to_delete = {} /\ phase = "idle"
  BY EmptySeq, LenProperties DEF Init
<1>7. CollectedKeysLive /\ CollectedBehind
  BY <1>6 DEF CollectedKeysLive, CollectedBehind, Range, IsInjective
<1> QED
  BY <1>3, <1>4, <1>5, <1>7 DEF IInv

\* Every step keeps the invariant.
LEMMA StepSound ==
    ASSUME IInv, [Next]_vars
    PROVE  IInv'
<1>1. ASSUME NEW k \in Keys, HashLookup(k)
      PROVE  IInv'
  BY <1>1, LookupSound
<1>2. ASSUME NEW k \in Keys, HashRemove(k)
      PROVE  IInv'
  BY <1>2, RemoveSound
<1>3. ASSUME NEW k \in Keys, NEW c \in KeyCells, NEW v \in ValueCells, HashInsert(k, c, v)
      PROVE  IInv'
  BY <1>3, InsertSound
<1>4. CASE ForeachRemove
  <2>1. keys_to_delete = <<>> /\ UNCHANGED <<memory, keys_to_delete, result>>
    BY <1>4 DEF ForeachRemove, IInv, CollectedBehind
  <2>2. TypeOK'
    BY <1>4 DEF ForeachRemove, Start, IInv, TypeOK, memory
  <2>3. EachKeyOnce' /\ Owned' /\ CollectedKeysLive'
    BY <2>1, MemoryKept, NothingCollected DEF IInv
  <2>4. Range(keys_to_delete') = {}
    BY <2>1, EmptySeq, LenProperties DEF Range
  <2>5. CollectedBehind'
    BY <2>1, <2>4 DEF CollectedBehind
  <2> QED
    BY <2>2, <2>3, <2>5 DEF IInv
<1>5. ASSUME NEW chosen \in BOOLEAN, Visit(chosen)
      PROVE  IInv'
  BY <1>5, VisitSound
<1>6. CASE NextBucket
  <2>1. /\ phase = "collecting"
        /\ cursor.bucket \in Nat
        /\ cursor' = [bucket |-> cursor.bucket + 1, node |-> 1]
        /\ UNCHANGED <<memory, phase, keys_to_delete, result>>
    BY <1>6 DEF NextBucket, IInv, TypeOK
  <2>2. cursor' \in [bucket : Nat, node : Nat \ {0}] /\ cursor'.bucket = cursor.bucket + 1
    BY <2>1
  <2>3. TypeOK'
    BY <2>1, <2>2 DEF IInv, TypeOK, memory
  <2>4. EachKeyOnce' /\ Owned' /\ Stored' = Stored
    BY <2>1, MemoryKept DEF IInv
  <2>5. CollectedKeysLive'
    BY <2>1, <2>4 DEF IInv, CollectedKeysLive
  <2>6. ASSUME NEW c \in Range(keys_to_delete')
        PROVE  Behind(c)'
    <3>1. Behind(c) /\ UNCHANGED buckets
      BY <2>1 DEF IInv, CollectedBehind, memory
    <3> QED
      BY <2>2, <3>1, StaysBehind DEF IInv
  <2>7. CollectedBehind'
    BY <2>1, <2>6 DEF CollectedBehind
  <2> QED
    BY <2>3, <2>4, <2>5, <2>7 DEF IInv
<1>7. CASE AllVisited
  <2>1. phase' = "removing" /\ UNCHANGED <<memory, cursor, keys_to_delete>>
    BY <1>7 DEF AllVisited
  <2>2. result' \in Nat
    BY <1>7, LenProperties DEF AllVisited, IInv, TypeOK
  <2>3. TypeOK'
    BY <2>1, <2>2 DEF IInv, TypeOK, memory
  <2>4. EachKeyOnce' /\ Owned' /\ Stored' = Stored
    BY <2>1, MemoryKept DEF IInv
  <2>5. CollectedKeysLive' /\ CollectedBehind'
    BY <2>1, <2>4 DEF IInv, CollectedKeysLive, CollectedBehind
  <2> QED
    BY <2>3, <2>4, <2>5 DEF IInv
<1>8. CASE RemoveCollected
  BY <1>8, RemoveCollectedSound
<1>9. CASE AllRemoved
  <2>1. /\ phase' = "idle"
        /\ keys_to_delete = <<>>
        /\ UNCHANGED <<memory, cursor, keys_to_delete, result>>
    BY <1>9 DEF AllRemoved
  <2>2. TypeOK'
    BY <2>1 DEF IInv, TypeOK, memory
  <2>3. EachKeyOnce' /\ Owned' /\ CollectedKeysLive'
    BY <2>1, MemoryKept, NothingCollected DEF IInv
  <2>4. CollectedBehind'
    BY <2>1 DEF CollectedBehind
  <2> QED
    BY <2>2, <2>3, <2>4 DEF IInv
<1>10. CASE HashDestroy
  <2>1. phase = "idle" /\ UNCHANGED <<phase, cursor, keys_to_delete>> /\ result' = NULL
    BY <1>10 DEF HashDestroy
  <2>2. TypeOK /\ Owned
    BY DEF IInv
  <2> QED
    BY <1>10, <2>1, <2>2, DestroySound, IdleSound
<1>11. CASE UNCHANGED vars
  <2>1. UNCHANGED <<memory, phase, cursor, keys_to_delete, result>>
    BY <1>11 DEF vars, memory
  <2>2. TypeOK' /\ CollectedBehind'
    BY <2>1 DEF IInv, TypeOK, CollectedBehind, Behind, memory
  <2>3. EachKeyOnce' /\ Owned' /\ Stored' = Stored
    BY <2>1, MemoryKept DEF IInv
  <2>4. CollectedKeysLive'
    BY <2>1, <2>3 DEF IInv, CollectedKeysLive
  <2> QED
    BY <2>2, <2>3, <2>4 DEF IInv
<1> QED
  BY <1>1, <1>2, <1>3, <1>4, <1>5, <1>6, <1>7, <1>8, <1>9, <1>10, <1>11 DEF Next

\* The inductive invariant holds in every state of a table.
THEOREM Invariance == Spec => []IInv
<1>1. Init => IInv
  BY InitSound
<1>2. IInv /\ [Next]_vars => IInv'
  BY StepSound
<1> QED
  BY <1>1, <1>2, PTL DEF Spec

\* Every variable has its type, whatever is inserted, removed or destroyed.
THEOREM TypeCorrect == Spec => []TypeOK
<1>1. IInv => TypeOK
  BY DEF IInv
<1> QED
  BY <1>1, Invariance, PTL

\* Each key is stored once, in its own bucket, so that what la_hash_lookup and
\* la_hash_remove find is all there is of it.
THEOREM KeysStoredOnce == Spec => []EachKeyOnce
<1>1. IInv => EachKeyOnce
  BY DEF IInv
<1> QED
  BY <1>1, Invariance, PTL

\* No key and no value that was handed over is leaked, shared or freed early.
THEOREM MemoryOwned == Spec => []Owned
<1>1. IInv => Owned
  BY DEF IInv
<1> QED
  BY <1>1, Invariance, PTL

\* The pointers la_hash_foreach_remove has collected outlive its removals.
THEOREM CollectedPointersLive == Spec => []CollectedKeysLive
<1>1. IInv => CollectedKeysLive
  BY DEF IInv
<1> QED
  BY <1>1, Invariance, PTL

-----------------------------------------------------------------------------
(***************************************************************************)
(* The table is a map.  Its contents are those of the elements that no     *)
(* la_hash_foreach_remove has doomed.                                      *)
(***************************************************************************)
Live == {e \in Stored : phase = "removing" => e.key \notin Range(keys_to_delete)}

Holds(k, v) == \E e \in Live : key_at[e.key] = k /\ e.value = v

ContentsExact ==
    /\ Contents \in [Keys -> ValueCells \cup {NULL}]
    /\ \A k \in Keys, v \in ValueCells : Contents[k] = v <=> Holds(k, v)

\* What is stored is found by its key.
LEMMA StoredFound ==
    ASSUME TypeOK, EachKeyOnce, NEW e \in Stored
    PROVE  /\ e \in Element
           /\ key_at[e.key] \in Keys
           /\ Found(key_at[e.key])
           /\ ElementOf(key_at[e.key]) = e
<1>1. PICK b \in Buckets : \E i \in DOMAIN buckets[b] : e = buckets[b][i]
  BY StoredAt
<1>2. PICK i \in DOMAIN buckets[b] : e = buckets[b][i]
  BY <1>1
<1>3. key_at[e.key] = KeyAt(b, i)
  BY <1>2 DEF KeyAt
<1> QED
  BY <1>2, <1>3, FoundAt, BucketTypes

\* What is found is stored.
LEMMA FoundStored ==
    ASSUME TypeOK, EachKeyOnce, NEW k \in Keys, Found(k)
    PROVE  ElementOf(k) \in Stored /\ key_at[ElementOf(k).key] = k
BY FoundNode, StoredAt DEF ElementOf, KeyAt

\* The contents are a map, and hold a value under a key just if a live element does.
LEMMA ContentsAreExact ==
    ASSUME IInv
    PROVE  ContentsExact
<1>1. TypeOK /\ EachKeyOnce
  BY DEF IInv
<1>2. ASSUME NEW k \in Keys
      PROVE  Contents[k] = IF Found(k) /\ ElementOf(k) \in Live THEN ElementOf(k).value ELSE NULL
  BY <1>1, FoundStored DEF Contents, Live
<1>3. ASSUME NEW k \in Keys, Found(k)
      PROVE  ElementOf(k).value \in ValueCells
  BY <1>1, <1>3, FoundNode, BucketTypes DEF ElementOf
<1>4. Contents \in [Keys -> ValueCells \cup {NULL}]
  BY <1>2, <1>3 DEF Contents
<1>5. ASSUME NEW k \in Keys, NEW v \in ValueCells, Contents[k] = v
      PROVE  Holds(k, v)
  <2>1. v # NULL
    BY HashAssumption
  <2>2. Found(k) /\ ElementOf(k) \in Live /\ ElementOf(k).value = v
    BY <1>2, <1>5, <2>1
  <2> QED
    BY <1>1, <2>2, FoundStored DEF Holds
<1>6. ASSUME NEW k \in Keys, NEW v \in ValueCells, Holds(k, v)
      PROVE  Contents[k] = v
  <2>1. PICK e \in Live : key_at[e.key] = k /\ e.value = v
    BY <1>6 DEF Holds
  <2>2. Found(k) /\ ElementOf(k) = e
    BY <1>1, <2>1, StoredFound DEF Live
  <2> QED
    BY <1>2, <2>1, <2>2
<1> QED
  BY <1>4, <1>5, <1>6 DEF ContentsExact

\* The contents after a step are those of which the elements are told.
LEMMA ContentsAfter ==
    ASSUME ContentsExact', NEW f \in [Keys -> ValueCells \cup {NULL}],
           \A k \in Keys, v \in ValueCells : Holds(k, v)' <=> f[k] = v
    PROVE  Contents' = f
<1>1. Contents' \in [Keys -> ValueCells \cup {NULL}]
  BY DEF ContentsExact
<1>2. \A k \in Keys, v \in ValueCells : Contents'[k] = v <=> Holds(k, v)'
  BY DEF ContentsExact
<1>3. \A k \in Keys, v \in ValueCells : Contents'[k] = v <=> f[k] = v
  BY <1>2
<1>4. \A k \in Keys : Contents'[k] = f[k]
  BY <1>1, <1>3
<1> QED
  BY <1>1, <1>4

\* Contents depend on no more than this.
LEMMA ContentsKept ==
    ASSUME UNCHANGED <<memory, keys_to_delete>>,
           (phase = "removing" /\ keys_to_delete # <<>>) <=> (phase' = "removing" /\ keys_to_delete' # <<>>)
    PROVE  Contents' = Contents
<1>1. keys_to_delete = <<>> => Range(keys_to_delete) = {}
  BY EmptySeq, LenProperties DEF Range
<1>2. /\ buckets' = buckets
      /\ key_at' = key_at
      /\ keys_to_delete' = keys_to_delete
  BY DEF memory
<1>3. \A k \in Keys : Found(k)' = Found(k) /\ ElementOf(k)' = ElementOf(k)
  BY <1>2 DEF Found, Matches, Node, ElementOf
<1>4. ASSUME NEW c
      PROVE  (phase' = "removing" => c \notin Range(keys_to_delete'))
                <=> (phase = "removing" => c \notin Range(keys_to_delete))
  BY <1>1, <1>2
<1> QED
  BY <1>3, <1>4 DEF Contents

\* Outside la_hash_foreach_remove's second pass, all that is stored is live.
LEMMA AllLive ==
    ASSUME phase # "removing"
    PROVE  Live = Stored
BY DEF Live

\* la_hash_lookup is the lookup of the map.
LEMMA LookupMapped ==
    ASSUME NEW k \in Keys, HashLookup(k)
    PROVE  Map!Lookup(k)
<1>1. Contents' = Contents
  BY ContentsKept DEF HashLookup, memory
<1>2. result' = Contents[k]
  BY DEF HashLookup, Contents
<1> QED
  BY <1>1, <1>2 DEF Map!Lookup

\* Unlinking the element of k takes k, and no other key, from a map.
LEMMA UnlinkHolds ==
    ASSUME IInv, NEW k \in Keys, Unlink(k), Live' = Live \ {ElementOf(k)},
           NEW j \in Keys, NEW v \in ValueCells
    PROVE  Holds(j, v)' <=> j # k /\ Holds(j, v)
<1>1. /\ ElementOf(k) \in Element
      /\ key_at' = [key_at EXCEPT ![ElementOf(k).key] = NULL]
      /\ \A e \in Stored : e.key = ElementOf(k).key => e = ElementOf(k)
  BY UnlinkEffect DEF IInv
<1>2. key_at[ElementOf(k).key] = k
  BY FoundStored DEF Unlink, IInv
<1>3. \A e \in Stored : e \in Element /\ (key_at[e.key] = k => e = ElementOf(k))
  BY StoredFound DEF IInv
<1>4. \A e \in Live : e \in Stored
  BY DEF Live
<1>5. ASSUME NEW e \in Live, e # ElementOf(k)
      PROVE  key_at'[e.key] = key_at[e.key]
  <2>1. e.key # ElementOf(k).key /\ e.key \in KeyCells
    BY <1>1, <1>3, <1>4, <1>5 DEF Element
  <2> QED
    BY <1>1, <2>1 DEF IInv, TypeOK
<1>6. ASSUME Holds(j, v)'
      PROVE  j # k /\ Holds(j, v)
  <2>1. PICK e \in Live' : key_at'[e.key] = j /\ e.value = v
    BY <1>6 DEF Holds
  <2>2. e \in Live /\ e # ElementOf(k)
    BY <2>1
  <2>3. key_at[e.key] = j
    BY <1>5, <2>1, <2>2
  <2>4. j # k
    BY <1>3, <1>4, <2>2, <2>3
  <2> QED
    BY <2>1, <2>2, <2>3, <2>4 DEF Holds
<1>7. ASSUME j # k, Holds(j, v)
      PROVE  Holds(j, v)'
  <2>1. PICK e \in Live : key_at[e.key] = j /\ e.value = v
    BY <1>7 DEF Holds
  <2>2. e # ElementOf(k)
    BY <1>2, <1>7, <2>1
  <2>3. e \in Live' /\ key_at'[e.key] = j
    BY <1>5, <2>1, <2>2
  <2> QED
    BY <2>1, <2>3 DEF Holds
<1> QED
  BY <1>6, <1>7

\* la_hash_remove is the removal of the map.
LEMMA RemoveMapped ==
    ASSUME IInv, ContentsExact, ContentsExact', NEW k \in Keys, HashRemove(k)
    PROVE  Map!Remove(k)
<1>1. /\ phase = "idle"
      /\ phase' = phase
      /\ keys_to_delete' = keys_to_delete
      /\ Unlinked(k)
      /\ result' = IF Found(k) THEN 1 ELSE 0
  BY DEF HashRemove
<1>2. Contents \in [Keys -> ValueCells \cup {NULL}]
  BY DEF ContentsExact
<1>3. Contents[k] # NULL <=> Found(k)
  <2>1. Found(k) => ElementOf(k).value \in ValueCells
    BY FoundNode, BucketTypes DEF ElementOf, IInv
  <2> QED
    BY <1>1, <2>1, HashAssumption DEF Contents
<1>4. CASE Unlink(k)
  <2> DEFINE f == [Contents EXCEPT ![k] = NULL]
  <2>1. Live = Stored /\ Live' = Stored'
    BY <1>1 DEF Live
  <2>2. Live' = Live \ {ElementOf(k)}
    BY <1>4, <2>1, UnlinkEffect DEF IInv
  <2>3. f \in [Keys -> ValueCells \cup {NULL}]
    BY <1>2
  <2>4. ASSUME NEW j \in Keys, NEW v \in ValueCells
        PROVE  Holds(j, v)' <=> f[j] = v
    <3>1. Holds(j, v)' <=> j # k /\ Contents[j] = v
      BY <1>4, <2>2, UnlinkHolds DEF ContentsExact
    <3>2. v # NULL
      BY HashAssumption
    <3> QED
      BY <1>2, <3>1, <3>2
  <2> HIDE DEF f
  <2>5. Contents' = f
    BY <2>3, <2>4, ContentsAfter
  <2> QED
    BY <1>1, <1>3, <2>5 DEF f, Map!Remove, Map!Present
<1>5. CASE ~Found(k) /\ UNCHANGED memory
  <2>1. Contents' = Contents
    BY <1>1, <1>5, ContentsKept
  <2>2. [Contents EXCEPT ![k] = NULL] = Contents
    BY <1>2, <1>3, <1>5
  <2> QED
    BY <1>1, <1>3, <1>5, <2>1, <2>2 DEF Map!Remove, Map!Present
<1> QED
  BY <1>1, <1>4, <1>5 DEF Unlinked

\* la_hash_insert is the insertion of the map.
LEMMA InsertMapped ==
    ASSUME IInv, ContentsExact, ContentsExact',
           NEW k \in Keys, NEW c \in KeyCells, NEW v \in ValueCells, HashInsert(k, c, v)
    PROVE  Map!Insert(k, v)
<1> DEFINE f == [Contents EXCEPT ![k] = v]
<1>1. /\ phase = "idle"
      /\ phase' = phase
      /\ key_at[c] = NULL
      /\ v \notin values
  BY DEF HashInsert
<1>2. /\ TypeOK
      /\ EachKeyOnce
      /\ Owned
      /\ v # NULL
  BY HashAssumption DEF IInv
<1>3. Live = Stored /\ Live' = Stored'
  BY <1>1 DEF Live
<1>4. Contents \in [Keys -> ValueCells \cup {NULL}]
  BY DEF ContentsExact
<1>5. f \in [Keys -> ValueCells \cup {NULL}]
  BY <1>4
<1>6. ASSUME NEW j \in Keys
      PROVE  Contents[j] # v
  <2>1. ASSUME Holds(j, v)
        PROVE  FALSE
    <3>1. PICK e \in Stored : e.value = v
      BY <1>3, <2>1 DEF Holds
    <3> QED
      BY <1>1, <1>2, <3>1 DEF Owned, ValuesOwned
  <2> QED
    BY <2>1 DEF ContentsExact
<1>7. Contents[k] # NULL <=> Found(k)
  <2>1. Found(k) => ElementOf(k).value \in ValueCells
    BY <1>2, FoundNode, BucketTypes DEF ElementOf
  <2> QED
    BY <1>1, <2>1, HashAssumption DEF Contents
<1>8. ASSUME NEW j \in Keys, NEW w \in ValueCells
      PROVE  f[j] = w <=> IF j = k THEN w = v ELSE Holds(j, w)
  BY <1>4 DEF ContentsExact
<1> HIDE DEF f
<1>9. CASE InsertReplacing(k, c, v)
  <2> DEFINE new == [key |-> ElementOf(k).key, value |-> v]
  <2>1. Stored' = (Stored \ {ElementOf(k)}) \cup {new} /\ key_at' = key_at
    BY <1>1, <1>2, <1>9, ReplaceSound, ReplaceEffect
  <2>2. Found(k) /\ result' = 1
    BY <1>9 DEF InsertReplacing
  <2>3. key_at[new.key] = k /\ new.value = v
    BY <1>2, <2>2, FoundStored
  <2> HIDE DEF new
  <2>4. \A e \in Stored : key_at[e.key] = k <=> e = ElementOf(k)
    BY <1>2, <2>2, StoredFound, FoundStored
  <2>5. ASSUME NEW j \in Keys, NEW w \in ValueCells
        PROVE  Holds(j, w)' <=> f[j] = w
    <3>1. Holds(j, w)' <=> \E e \in Stored' : key_at[e.key] = j /\ e.value = w
      BY <1>3, <2>1 DEF Holds
    <3>2. Holds(j, w) <=> \E e \in Stored : key_at[e.key] = j /\ e.value = w
      BY <1>3 DEF Holds
    <3>3. CASE j = k
      BY <1>8, <2>1, <2>3, <2>4, <3>1, <3>3
    <3>4. CASE j # k
      BY <1>8, <2>1, <2>3, <2>4, <3>1, <3>2, <3>4
    <3> QED
      BY <3>3, <3>4
  <2>6. Contents' = f
    BY <1>5, <2>5, ContentsAfter
  <2> QED
    BY <1>6, <1>7, <2>2, <2>6 DEF f, Map!Insert, Map!Present
<1>10. CASE InsertAppending(k, c, v)
  <2> DEFINE new == [key |-> c, value |-> v]
  <2>1. /\ Stored' = Stored \cup {new}
        /\ key_at' = [key_at EXCEPT ![c] = k]
        /\ ~Found(k)
        /\ result' = 0
    BY <1>1, <1>2, <1>10, AppendSound DEF InsertAppending
  <2>2. new.key = c /\ new.value = v /\ key_at'[c] = k
    BY <1>2, <2>1 DEF TypeOK
  <2> HIDE DEF new
  <2>3. \A e \in Stored : e.key \in KeyCells /\ key_at[e.key] \in Keys /\ key_at[e.key] # k
    BY <1>2, <2>1, StoredFound DEF Element
  <2>4. \A e \in Stored : key_at'[e.key] = key_at[e.key]
    BY <1>1, <1>2, <2>1, <2>3, HashAssumption DEF TypeOK
  <2>5. ASSUME NEW j \in Keys, NEW w \in ValueCells
        PROVE  Holds(j, w)' <=> f[j] = w
    <3>1. Holds(j, w)' <=> \E e \in Stored' : key_at'[e.key] = j /\ e.value = w
      BY <1>3 DEF Holds
    <3>2. Holds(j, w) <=> \E e \in Stored : key_at[e.key] = j /\ e.value = w
      BY <1>3 DEF Holds
    <3>3. CASE j = k
      BY <1>8, <2>1, <2>2, <2>3, <2>4, <3>1, <3>3
    <3>4. CASE j # k
      BY <1>8, <2>1, <2>2, <2>3, <2>4, <3>1, <3>2, <3>4
    <3> QED
      BY <3>3, <3>4
  <2>6. Contents' = f
    BY <1>5, <2>5, ContentsAfter
  <2> QED
    BY <1>6, <1>7, <2>1, <2>6 DEF f, Map!Insert, Map!Present
<1> QED
  BY <1>9, <1>10 DEF HashInsert

\* Removing one by one what has been collected changes nothing that was not
\* promised when it had been.
LEMMA RemoveCollectedMapped ==
    ASSUME IInv, ContentsExact, ContentsExact', RemoveCollected
    PROVE  Contents' = Contents
<1>0. PICK c : c = Head(keys_to_delete)
  OBVIOUS
<1>1. PICK k : k = key_at[c]
  OBVIOUS
<1>2. /\ phase = "removing"
      /\ phase' = "removing"
      /\ Unlinked(k)
      /\ keys_to_delete' = Tail(keys_to_delete)
      /\ keys_to_delete # <<>>
  BY <1>0, <1>1 DEF RemoveCollected
<1>3. /\ c \in Range(keys_to_delete)
      /\ Range(keys_to_delete') = Range(keys_to_delete) \ {c}
      /\ Range(keys_to_delete) \subseteq {e.key : e \in Stored}
  BY <1>0, <1>2, TailKeepsInjective DEF IInv, TypeOK, CollectedKeysLive
<1>4. k \in Keys /\ Found(k) /\ ElementOf(k).key = c
  <2>1. PICK e \in Stored : e.key = c
    BY <1>3
  <2> QED
    BY <1>1, <2>1, StoredFound DEF IInv
<1>5. Unlink(k)
  BY <1>2, <1>4 DEF Unlinked
<1>6. /\ Stored' = Stored \ {ElementOf(k)}
      /\ \A e \in Stored : e.key = ElementOf(k).key => e = ElementOf(k)
  BY <1>4, <1>5, UnlinkEffect DEF IInv
<1>7. Live = {e \in Stored : e.key \notin Range(keys_to_delete)}
  BY <1>2 DEF Live
<1>8. Live' = {e \in Stored' : e.key \notin Range(keys_to_delete')}
  BY <1>2 DEF Live
<1>9. Live' = Live \ {ElementOf(k)} /\ ElementOf(k) \notin Live
  BY <1>3, <1>4, <1>6, <1>7, <1>8
<1>10. ASSUME NEW j \in Keys, NEW v \in ValueCells
       PROVE  Holds(j, v)' <=> Contents[j] = v
  <2>1. Holds(j, v)' <=> j # k /\ Holds(j, v)
    BY <1>4, <1>5, <1>9, UnlinkHolds
  <2>2. ~Holds(k, v)
    <3>1. \A e \in Stored : key_at[e.key] = k => e = ElementOf(k)
      BY StoredFound DEF IInv
    <3>2. \A e \in Live : e \in Stored
      BY DEF Live
    <3> QED
      BY <1>9, <3>1, <3>2 DEF Holds
  <2> QED
    BY <2>1, <2>2 DEF ContentsExact
<1>11. Contents \in [Keys -> ValueCells \cup {NULL}]
  BY DEF ContentsExact
<1> QED
  BY <1>10, <1>11, ContentsAfter

\* la_hash_destroy empties the map.
LEMMA DestroyMapped ==
    ASSUME IInv, ContentsExact', HashDestroy
    PROVE  Map!Destroy
<1> DEFINE f == [k \in Keys |-> NULL]
<1>1. Stored' = {} /\ result' = NULL
  BY DestroySound DEF IInv, HashDestroy
<1>2. Live' = {}
  BY <1>1 DEF Live
<1>3. \A k \in Keys, v \in ValueCells : ~Holds(k, v)'
  BY <1>2 DEF Holds
<1>4. \A k \in Keys, v \in ValueCells : f[k] # v
  BY HashAssumption
<1>5. f \in [Keys -> ValueCells \cup {NULL}]
  OBVIOUS
<1> HIDE DEF f
<1>6. Contents' = f
  BY <1>3, <1>4, <1>5, ContentsAfter
<1> QED
  BY <1>1, <1>6 DEF f, Map!Destroy

\* A sequence without repetitions is as long as its image under an operator
\* that tells its elements apart is large.
LEMMA LengthCounts ==
    ASSUME NEW S, NEW s \in Seq(S), NEW T, NEW f \in [DOMAIN s -> T],
           \A i, j \in DOMAIN s : f[i] = f[j] => i = j,
           \A t \in T : \E i \in DOMAIN s : f[i] = t
    PROVE  Cardinality(T) = Len(s)
<1>1. DOMAIN s = 1 .. Len(s) /\ Len(s) \in Nat
  BY LenProperties
<1>2. f \in Bijection(DOMAIN s, T)
  BY Fun_IsBij
<1>3. ExistsBijection(1 .. Len(s), T)
  BY <1>1, <1>2 DEF ExistsBijection
<1> QED
  BY <1>1, <1>3, FS_CountingElements

\* The removal takes effect, and is reported, when all nodes have been visited.
LEMMA AllVisitedMapped ==
    ASSUME IInv, ContentsExact, ContentsExact', AllVisited
    PROVE  \E S \in SUBSET Keys : Map!RemoveAll(S)
<1> DEFINE S == {key_at[c] : c \in Range(keys_to_delete)}
           f == [k \in Keys |-> IF k \in S THEN NULL ELSE Contents[k]]
<1>1. /\ phase = "collecting"
      /\ phase' = "removing"
      /\ result' = Len(keys_to_delete)
      /\ UNCHANGED <<memory, keys_to_delete>>
  BY DEF AllVisited
<1>2. /\ TypeOK
      /\ EachKeyOnce
      /\ keys_to_delete \in Seq(KeyCells)
      /\ IsInjective(keys_to_delete)
      /\ Range(keys_to_delete) \subseteq {e.key : e \in Stored}
  BY DEF IInv, TypeOK, CollectedKeysLive
<1>3. Stored' = Stored /\ key_at' = key_at
  BY <1>1, MemoryKept DEF IInv, memory
<1>4. Live = Stored
  BY <1>1 DEF Live
<1>5. Live' = {e \in Stored : e.key \notin Range(keys_to_delete)}
  BY <1>1, <1>3 DEF Live
<1>6. ASSUME NEW c \in Range(keys_to_delete)
      PROVE  \E e \in Stored : e.key = c /\ key_at[c] \in Keys /\ ElementOf(key_at[c]) = e
  <2>1. PICK e \in Stored : e.key = c
    BY <1>2
  <2> QED
    BY <1>2, <2>1, StoredFound
<1>7. S \in SUBSET Keys
  BY <1>6
<1>8. \A e \in Stored : key_at[e.key] \in S <=> e.key \in Range(keys_to_delete)
  <2>1. SUFFICES ASSUME NEW e \in Stored, key_at[e.key] \in S
                 PROVE  e.key \in Range(keys_to_delete)
    OBVIOUS
  <2>2. PICK c \in Range(keys_to_delete) : key_at[c] = key_at[e.key]
    BY <2>1
  <2>3. PICK d \in Stored : d.key = c /\ ElementOf(key_at[c]) = d
    BY <1>6
  <2>4. ElementOf(key_at[e.key]) = e
    BY <1>2, StoredFound
  <2> QED
    BY <2>2, <2>3, <2>4
<1>9. Contents \in [Keys -> ValueCells \cup {NULL}]
  BY DEF ContentsExact
<1>10. f \in [Keys -> ValueCells \cup {NULL}]
  BY <1>9
<1>11. ASSUME NEW k \in Keys, NEW v \in ValueCells
       PROVE  Holds(k, v)' <=> f[k] = v
  <2>1. Holds(k, v)' <=> \E e \in Live' : key_at[e.key] = k /\ e.value = v
    BY <1>3 DEF Holds
  <2>2. Contents[k] = v <=> \E e \in Stored : key_at[e.key] = k /\ e.value = v
    BY <1>4 DEF ContentsExact, Holds
  <2>3. v # NULL
    BY HashAssumption
  <2>4. f[k] = v <=> k \notin S /\ Contents[k] = v
    BY <2>3
  <2> QED
    BY <1>5, <1>8, <2>1, <2>2, <2>4
<1>12. S \subseteq Map!Present
  <2>1. SUFFICES ASSUME NEW c \in Range(keys_to_delete)
                 PROVE  Contents[key_at[c]] # NULL
    BY <1>7 DEF Map!Present
  <2>2. PICK e \in Stored : e.key = c /\ key_at[c] \in Keys
    BY <1>6
  <2>3. e.value \in ValueCells /\ Holds(key_at[c], e.value)
    BY <1>2, <1>4, <2>2, StoredFound DEF Holds, Element
  <2> QED
    BY <2>2, <2>3, HashAssumption DEF ContentsExact
<1>13. Cardinality(S) = Len(keys_to_delete)
  <2> DEFINE g == [i \in DOMAIN keys_to_delete |-> key_at[keys_to_delete[i]]]
  <2>1. g \in [DOMAIN keys_to_delete -> S]
    BY DEF Range
  <2>2. \A t \in S : \E i \in DOMAIN keys_to_delete : g[i] = t
    BY DEF Range
  <2>3. ASSUME NEW i \in DOMAIN keys_to_delete, NEW j \in DOMAIN keys_to_delete, g[i] = g[j]
        PROVE  i = j
    <3>1. keys_to_delete[i] \in Range(keys_to_delete) /\ keys_to_delete[j] \in Range(keys_to_delete)
      BY DEF Range
    <3>2. key_at[keys_to_delete[i]] = key_at[keys_to_delete[j]]
      BY <2>3
    <3>3. keys_to_delete[i] = keys_to_delete[j]
      BY <1>6, <3>1, <3>2
    <3> QED
      BY <1>2, <3>3 DEF IsInjective
  <2> HIDE DEF S, g
  <2> QED
    BY <1>2, <2>1, <2>2, <2>3, LengthCounts
<1> HIDE DEF f
<1>14. Contents' = f
  BY <1>10, <1>11, ContentsAfter
<1> HIDE DEF S
<1>15. S \cap Map!Present = S
  BY <1>12
<1>16. Map!Cardinality(S) = Cardinality(S)
  BY DEF Cardinality, Map!Cardinality, IsFiniteSet, Map!IsFiniteSet
<1>17. Map!RemoveAll(S)
  BY <1>1, <1>13, <1>14, <1>15, <1>16 DEF f, Map!RemoveAll
<1> QED
  BY <1>7, <1>17

\* Every step of the table is a step of the map or leaves it as it is.
LEMMA StepMapped ==
    ASSUME IInv, ContentsExact, ContentsExact', [Next]_vars
    PROVE  [Map!Next]_<<Contents, result>>
<1>1. ASSUME NEW k \in Keys, HashLookup(k)
      PROVE  Map!Next
  BY <1>1, LookupMapped DEF Map!Next
<1>2. ASSUME NEW k \in Keys, HashRemove(k)
      PROVE  Map!Next
  BY <1>2, RemoveMapped DEF Map!Next
<1>3. ASSUME NEW k \in Keys, NEW c \in KeyCells, NEW v \in ValueCells, HashInsert(k, c, v)
      PROVE  Map!Next
  BY <1>3, InsertMapped DEF Map!Next
<1>4. CASE ForeachRemove
  BY <1>4, ContentsKept DEF ForeachRemove
<1>5. ASSUME NEW chosen \in BOOLEAN, Visit(chosen)
      PROVE  UNCHANGED <<Contents, result>>
  <2>1. /\ phase = "collecting"
        /\ phase' = "collecting"
        /\ UNCHANGED <<memory, result>>
    BY <1>5 DEF Visit, Visiting
  <2>2. \A k \in Keys : Found(k)' = Found(k) /\ ElementOf(k)' = ElementOf(k)
    BY <2>1 DEF Found, Matches, Node, ElementOf, memory
  <2> QED
    BY <2>1, <2>2 DEF Contents
<1>6. CASE NextBucket
  BY <1>6, ContentsKept DEF NextBucket
<1>7. CASE AllVisited
  BY <1>7, AllVisitedMapped DEF Map!Next
<1>8. CASE RemoveCollected
  BY <1>8, RemoveCollectedMapped DEF RemoveCollected
<1>9. CASE AllRemoved
  BY <1>9, ContentsKept DEF AllRemoved
<1>10. CASE HashDestroy
  BY <1>10, DestroyMapped DEF Map!Next
<1>11. CASE UNCHANGED vars
  BY <1>11, ContentsKept DEF vars, memory
<1> QED
  BY <1>1, <1>2, <1>3, <1>4, <1>5, <1>6, <1>7, <1>8, <1>9, <1>10, <1>11 DEF Next

\* The hash table implements a map on which every call takes effect at once.
THEOREM ImplementsMap == Spec => IsMap
<1>1. Init => Map!Init
  <2>1. SUFFICES ASSUME Init
                 PROVE  Map!Init
    OBVIOUS
  <2>2. \A k \in Keys : Matches(k) = {}
    BY <2>1, HashAssumption, EmptySeq, LenProperties DEF Init, Matches
  <2> QED
    BY <2>1, <2>2 DEF Init, Map!Init, Contents, Found
<1>2. IInv => ContentsExact
  BY ContentsAreExact
<1>3. IInv /\ ContentsExact /\ ContentsExact' /\ [Next]_vars => [Map!Next]_<<Contents, result>>
  BY StepMapped
<1> QED
  BY <1>1, <1>2, <1>3, Invariance, PTL DEF Spec, IsMap, Map!Spec
=============================================================================
