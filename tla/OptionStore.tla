----------------------------- MODULE OptionStore -----------------------------
(***************************************************************************)
(* What the configuration promises an application: named options, each     *)
(* with a type and a value, that have their defaults from the start.  An   *)
(* option of another type than asked for counts as non-existent.           *)
(***************************************************************************)
CONSTANTS Names, Values, Defaults, NULL

VARIABLES store, result

vars == <<store, result>>

Types == DOMAIN Values

Item(type, value) == [type |-> type, value |-> value]

\* What a call returns, and the item it has read or was asked to set.
Returned(ok, item) == [ok |-> ok, item |-> item]

Init == store = Defaults /\ result = NULL

Set(n, type, value) ==
    /\ store' = [store EXCEPT ![n] = Item(type, value)]
    /\ result' = Returned(TRUE, Item(type, value))

SetNothing == result' = Returned(FALSE, NULL) /\ UNCHANGED store

Get(n, type) ==
    /\ LET found == store[n] # NULL /\ store[n].type = type
       IN  result' = Returned(found, IF found THEN store[n] ELSE NULL)
    /\ UNCHANGED store

Unset(n) ==
    /\ store' = [store EXCEPT ![n] = NULL]
    /\ result' = Returned(store[n] # NULL, NULL)

Reset == store' = Defaults /\ result' = NULL

Close == store' = [n \in Names |-> NULL] /\ result' = NULL

Next ==
    \/ \E n \in Names, type \in Types : \E v \in Values[type] : Set(n, type, v)
    \/ SetNothing
    \/ \E n \in Names, type \in Types : Get(n, type)
    \/ \E n \in Names : Unset(n)
    \/ Reset
    \/ Close

Spec == Init /\ [][Next]_vars
=============================================================================
