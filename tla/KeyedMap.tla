------------------------------ MODULE KeyedMap ------------------------------
(***************************************************************************)
(* What a hash table promises its users, the reassembly tables and the     *)
(* configuration: a map from keys to values on which each operation, also  *)
(* the removal of all entries that satisfy a condition, takes effect at    *)
(* once and reports what it did.                                           *)
(***************************************************************************)
EXTENDS FiniteSets

CONSTANTS Keys, Values, NULL

VARIABLES contents, result

Init == contents = [k \in Keys |-> NULL] /\ result = NULL

Present == {k \in Keys : contents[k] # NULL}

Lookup(k) == result' = contents[k] /\ UNCHANGED contents

Insert(k, v) ==
    /\ v \notin {contents[other] : other \in Keys}
    /\ contents' = [contents EXCEPT ![k] = v]
    /\ result' = IF k \in Present THEN 1 ELSE 0

Remove(k) ==
    /\ contents' = [contents EXCEPT ![k] = NULL]
    /\ result' = IF k \in Present THEN 1 ELSE 0

RemoveAll(S) ==
    /\ contents' = [k \in Keys |-> IF k \in S THEN NULL ELSE contents[k]]
    /\ result' = Cardinality(S \cap Present)

Destroy == contents' = [k \in Keys |-> NULL] /\ result' = NULL

Next ==
    \/ \E k \in Keys : Lookup(k) \/ Remove(k)
    \/ \E k \in Keys, v \in Values : Insert(k, v)
    \/ \E S \in SUBSET Keys : RemoveAll(S)
    \/ Destroy

Spec == Init /\ [][Next]_<<contents, result>>
=============================================================================
