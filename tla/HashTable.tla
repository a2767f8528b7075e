----------------------------- MODULE HashTable -----------------------------
(***************************************************************************)
(* The hash table of libacars (hash.c) over its linked lists (list.c).     *)
(* Keys and values are allocated by the user and belong to the table once  *)
(* inserted; it frees them with the functions the user has given.  The     *)
(* memory they live in is modelled, so that a cell freed twice, used after *)
(* it has been freed, or never freed, shows.                               *)
(*                                                                         *)
(* Each call is one step, except for la_hash_foreach_remove: it collects   *)
(* pointers to keys and then removes the entries one by one, which frees   *)
(* what these pointers are to.                                             *)
(***************************************************************************)
EXTENDS Integers, Sequences, FiniteSetsExt, SequencesExt

CONSTANTS
    Keys,           \* what compare_keys tells apart
    KeyCells,       \* memory for keys
    ValueCells,     \* memory for values
    LA_HASH_SIZE,   \* number of buckets
    Hash,           \* la_hash_get_bucket of each key
    NULL            \* no entry; the content of memory that is free

Buckets == 0 .. LA_HASH_SIZE - 1

ASSUME HashAssumption ==
    /\ LA_HASH_SIZE \in Nat \ {0}
    /\ Hash \in [Keys -> Buckets]
    /\ NULL \notin Keys \cup ValueCells

VARIABLES
    buckets,            \* per bucket: its list of elements, pointers to key and value
    key_at,             \* the key in each key cell; NULL if the cell is free
    values,             \* the value cells in use
    phase,              \* of la_hash_foreach_remove, or "idle"
    cursor,             \* its first pass: the bucket and the node it looks at
    keys_to_delete,     \* its list of pointers to keys
    result              \* what the last call returned; true and false are 1 and 0

vars == <<buckets, key_at, values, phase, cursor, keys_to_delete, result>>

memory == <<buckets, key_at, values>>

Element == [key : KeyCells, value : ValueCells]

TypeOK ==
    /\ buckets \in [Buckets -> Seq(Element)]
    /\ key_at \in [KeyCells -> Keys \cup {NULL}]
    /\ values \subseteq ValueCells
    /\ phase \in {"idle", "collecting", "removing"}
    /\ cursor \in [bucket : Nat, node : Nat \ {0}]
    /\ keys_to_delete \in Seq(KeyCells)
    /\ result \in Nat \cup ValueCells \cup {NULL}

Start == [bucket |-> 0, node |-> 1]

\* la_hash_new
Init ==
    /\ buckets = [b \in Buckets |-> <<>>]
    /\ key_at = [c \in KeyCells |-> NULL]
    /\ values = {}
    /\ phase = "idle"
    /\ cursor = Start
    /\ keys_to_delete = <<>>
    /\ result = NULL

-----------------------------------------------------------------------------
(***************************************************************************)
(* la_hash_lookup_list_node: the search of the key's bucket stops at the   *)
(* first node whose key compares equal.                                    *)
(***************************************************************************)
Matches(k) == {i \in DOMAIN buckets[Hash[k]] : key_at[buckets[Hash[k]][i].key] = k}

Found(k) == Matches(k) # {}

Node(k) == Min(Matches(k))

ElementOf(k) == buckets[Hash[k]][Node(k)]

HashLookup(k) ==
    /\ phase = "idle"
    /\ result' = IF Found(k) THEN ElementOf(k).value ELSE NULL
    /\ UNCHANGED <<memory, phase, cursor, keys_to_delete>>

(***************************************************************************)
(* la_hash_insert with a key and a value that the user has just allocated. *)
(* If the key is there already, its old value is freed and so is the new   *)
(* key, whose cell is in use during the call only.                         *)
(***************************************************************************)
\* Mutant: the new key is not freed.
InsertKeepingKey(k, c, v) ==
    /\ Found(k)
    /\ buckets' = [buckets EXCEPT ![Hash[k]][Node(k)].value = v]
    /\ key_at' = [key_at EXCEPT ![c] = k]
    /\ values' = (values \ {ElementOf(k).value}) \cup {v}
    /\ result' = 1

InsertReplacing(k, c, v) ==
    /\ Found(k)
    /\ buckets' = [buckets EXCEPT ![Hash[k]][Node(k)].value = v]
    /\ key_at' = [key_at EXCEPT ![c] = NULL]
    /\ values' = (values \ {ElementOf(k).value}) \cup {v}
    /\ result' = 1

\* Mutant: the table is not searched for the key.
InsertUnsearched(k, c, v) ==
    /\ buckets' = [buckets EXCEPT ![Hash[k]] = Append(@, [key |-> c, value |-> v])]
    /\ key_at' = [key_at EXCEPT ![c] = k]
    /\ values' = values \cup {v}
    /\ result' = 0

InsertAppending(k, c, v) ==
    /\ ~Found(k)
    /\ buckets' = [buckets EXCEPT ![Hash[k]] = Append(@, [key |-> c, value |-> v])]
    /\ key_at' = [key_at EXCEPT ![c] = k]
    /\ values' = values \cup {v}
    /\ result' = 0

HashInsert(k, c, v) ==
    /\ phase = "idle"
    /\ key_at[c] = NULL
    /\ v \notin values
    /\ InsertReplacing(k, c, v) \/ InsertAppending(k, c, v)
    /\ UNCHANGED <<phase, cursor, keys_to_delete>>

(***************************************************************************)
(* la_hash_remove: the node is unlinked, its key and its value are freed.  *)
(***************************************************************************)
\* Mutant: the bucket's list is cut at the node although others precede it.
UnlinkPreceding(k) ==
    /\ Found(k)
    /\ buckets' = [buckets EXCEPT ![Hash[k]] = SubSeq(@, Node(k) + 1, Len(@))]
    /\ key_at' = [key_at EXCEPT ![ElementOf(k).key] = NULL]
    /\ values' = values \ {ElementOf(k).value}

Unlink(k) ==
    /\ Found(k)
    /\ buckets' = [buckets EXCEPT ![Hash[k]] = RemoveAt(@, Node(k))]
    /\ key_at' = [key_at EXCEPT ![ElementOf(k).key] = NULL]
    /\ values' = values \ {ElementOf(k).value}

Unlinked(k) == Unlink(k) \/ (~Found(k) /\ UNCHANGED memory)

HashRemove(k) ==
    /\ phase = "idle"
    /\ Unlinked(k)
    /\ result' = IF Found(k) THEN 1 ELSE 0
    /\ UNCHANGED <<phase, cursor, keys_to_delete>>

(***************************************************************************)
(* la_hash_foreach_remove.  The first pass visits all nodes and collects   *)
(* pointers to the keys of those if_func chooses; the second one calls     *)
(* la_hash_remove with each pointer.                                       *)
(***************************************************************************)
ForeachRemove ==
    /\ phase = "idle"
    /\ phase' = "collecting"
    /\ cursor' = Start
    /\ UNCHANGED <<memory, keys_to_delete, result>>

Visiting ==
    /\ phase = "collecting"
    /\ cursor.bucket \in Buckets
    /\ cursor.node \in DOMAIN buckets[cursor.bucket]

Visited == buckets[cursor.bucket][cursor.node]

\* Mutant: a chosen node is visited again.
VisitAgain(chosen) ==
    /\ Visiting
    /\ keys_to_delete' = IF chosen THEN Append(keys_to_delete, Visited.key)
                                   ELSE keys_to_delete
    /\ cursor' = IF chosen THEN cursor ELSE [cursor EXCEPT !.node = @ + 1]
    /\ UNCHANGED <<memory, phase, result>>

\* chosen: what if_func returns for the node.
Visit(chosen) ==
    /\ Visiting
    /\ keys_to_delete' = IF chosen THEN Append(keys_to_delete, Visited.key)
                                   ELSE keys_to_delete
    /\ cursor' = [cursor EXCEPT !.node = @ + 1]
    /\ UNCHANGED <<memory, phase, result>>

NextBucket ==
    /\ phase = "collecting"
    /\ cursor.bucket \in Buckets
    /\ ~Visiting
    /\ cursor' = [bucket |-> cursor.bucket + 1, node |-> 1]
    /\ UNCHANGED <<memory, phase, keys_to_delete, result>>

AllVisited ==
    /\ phase = "collecting"
    /\ cursor.bucket \notin Buckets
    /\ phase' = "removing"
    /\ result' = Len(keys_to_delete)
    /\ UNCHANGED <<memory, cursor, keys_to_delete>>

\* A key that has been freed already could not be looked for.
RemoveCollected ==
    /\ phase = "removing"
    /\ keys_to_delete # <<>>
    /\ key_at[Head(keys_to_delete)] # NULL
    /\ Unlinked(key_at[Head(keys_to_delete)])
    /\ keys_to_delete' = Tail(keys_to_delete)
    /\ UNCHANGED <<phase, cursor, result>>

AllRemoved ==
    /\ phase = "removing"
    /\ keys_to_delete = <<>>
    /\ phase' = "idle"
    /\ UNCHANGED <<memory, cursor, keys_to_delete, result>>

(***************************************************************************)
(* la_hash_destroy frees all that is stored; the user goes on with a new   *)
(* table.                                                                  *)
(***************************************************************************)
Stored == UNION {Range(buckets[b]) : b \in Buckets}

HashDestroy ==
    /\ phase = "idle"
    /\ buckets' = [b \in Buckets |-> <<>>]
    /\ key_at' = [c \in KeyCells |-> IF c \in {e.key : e \in Stored} THEN NULL ELSE key_at[c]]
    /\ values' = values \ {e.value : e \in Stored}
    /\ result' = NULL
    /\ UNCHANGED <<phase, cursor, keys_to_delete>>

Next ==
    \/ \E k \in Keys : HashLookup(k) \/ HashRemove(k)
    \/ \E k \in Keys, c \in KeyCells, v \in ValueCells : HashInsert(k, c, v)
    \/ ForeachRemove
    \/ \E chosen \in BOOLEAN : Visit(chosen)
    \/ NextBucket
    \/ AllVisited
    \/ RemoveCollected
    \/ AllRemoved
    \/ HashDestroy

Spec == Init /\ [][Next]_vars

-----------------------------------------------------------------------------
KeyAt(b, i) == key_at[buckets[b][i].key]

(***************************************************************************)
(* Every element is in the bucket of its key and its key is in use; no key *)
(* is stored twice.  An element in another bucket, or a second one, would  *)
(* never be found, nor removed by the key collected for it.                *)
(***************************************************************************)
EachKeyOnce ==
    \A b \in Buckets : \A i, j \in DOMAIN buckets[b] :
        /\ KeyAt(b, i) # NULL
        /\ Hash[KeyAt(b, i)] = b
        /\ KeyAt(b, i) = KeyAt(b, j) => i = j

(***************************************************************************)
(* What the user has handed over is freed once and in time: the cells in   *)
(* use are exactly those of the elements stored, so that none is lost, and *)
(* no two elements share one, so that none is freed while another still    *)
(* points to it.                                                           *)
(***************************************************************************)
KeysOwned == {c \in KeyCells : key_at[c] # NULL} = {e.key : e \in Stored}

ValuesOwned ==
    /\ values = {e.value : e \in Stored}
    /\ \A b, d \in Buckets : \A i \in DOMAIN buckets[b], j \in DOMAIN buckets[d] :
          buckets[b][i].value = buckets[d][j].value => b = d /\ i = j

Owned == KeysOwned /\ ValuesOwned

(***************************************************************************)
(* The pointers la_hash_foreach_remove has collected are still to keys of  *)
(* the table when la_hash_remove gets them, however many it has freed, and *)
(* none is there twice.                                                    *)
(***************************************************************************)
CollectedKeysLive ==
    /\ Range(keys_to_delete) \subseteq {e.key : e \in Stored}
    /\ IsInjective(keys_to_delete)

(***************************************************************************)
(* The table is a map: every call reports and does what it would do to a   *)
(* map from keys to values, and the two passes of la_hash_foreach_remove   *)
(* remove all chosen entries, and no others, as if at once.                *)
(***************************************************************************)
Contents ==
    [k \in Keys |->
        IF Found(k) /\ (phase = "removing" => ElementOf(k).key \notin Range(keys_to_delete))
        THEN ElementOf(k).value ELSE NULL]

Map == INSTANCE KeyedMap WITH Values <- ValueCells, contents <- Contents

IsMap == Map!Spec
=============================================================================
