---------------------------- MODULE Configuration ----------------------------
(***************************************************************************)
(* The options of the library (configuration.c): one global la_hash of     *)
(* typed items, made on first use.  An item of type string owns a copy of  *)
(* its text, and la_config_get_str lends the application a pointer to it,  *)
(* which the application may well pass back to la_config_set_str.          *)
(***************************************************************************)
EXTENDS Integers, FiniteSets

CONSTANTS
    Names,              \* names of options
    Values,             \* per type, its values; texts for "string"
    Defaults,           \* config_defaults: an item or NULL for each name
    Cells,              \* memory for texts
    NULL                \* a NULL pointer; no such option

Types == {"boolean", "integer", "double", "string"}

\* An item of type string has a cell for its value, or NULL.
Item == [type : Types \ {"string"}, value : UNION {Values[t] : t \in Types \ {"string"}}]
            \cup [type : {"string"}, value : Cells \cup {NULL}]

\* None of the defaults is a text.
ASSUME ConfigAssumption ==
    /\ DOMAIN Values = Types
    /\ NULL \in Values["string"]
    /\ NULL \notin Cells
    /\ NULL \notin Item
    /\ \A t \in Types : \A v \in Values[t] : NULL # [type |-> t, value |-> v]
    /\ Cells \cap Values["string"] = {}
    /\ \A n \in Names :
          \/ Defaults[n] = NULL
          \/ \E t \in Types \ {"string"} : \E v \in Values[t] : Defaults[n] = [type |-> t, value |-> v]
    /\ Defaults \in [Names -> Item \cup {NULL}]

Texts == Values["string"] \ {NULL}

VARIABLES
    config,         \* the global pointer: "NULL", "table", or "freed" table
    items,          \* the items in the table
    text_at,        \* the text in each cell; NULL if it is not allocated
    borrowed,       \* the pointer the application last got from la_config_get_str
    result          \* the return value of the last call

vars == <<config, items, text_at, borrowed, result>>

Init ==
    /\ config = "NULL"
    /\ items = [n \in Names |-> NULL]
    /\ text_at = [c \in Cells |-> NULL]
    /\ borrowed = NULL
    /\ result = NULL

-----------------------------------------------------------------------------
\* What a call returns, and the item it has read or was asked to set.
Returned(ok, item) == [ok |-> ok, item |-> item]

(***************************************************************************)
(* The table a call works on: if there is none, la_config_init makes one.  *)
(***************************************************************************)
Items == IF config = "NULL" THEN Defaults ELSE items

\* The cell an item owns, if any, is freed with it (la_config_item_destroy).
CellsOf(item) ==
    IF item # NULL /\ item.type = "string" /\ item.value # NULL THEN {item.value} ELSE {}

\* Mutant: the text is left behind.
KeptTexts(cells) == text_at

TextsWithout(cells) == [c \in Cells |-> IF c \in cells THEN NULL ELSE text_at[c]]

\* A pointer is of use to the application while its text is there.
StillBorrowed(texts) == IF borrowed \in Cells /\ texts[borrowed] # NULL THEN borrowed ELSE NULL

\* la_config_destroy leaves config pointing to what was the table, so it has to
\* be the application's last call.
Usable == config # "freed"

-----------------------------------------------------------------------------
\* la_config_set_bool, _int and _double.
SetPlain(n, type, value) ==
    /\ Usable
    /\ type # "string"
    /\ config' = "table"
    /\ items' = [Items EXCEPT ![n] = [type |-> type, value |-> value]]
    /\ text_at' = TextsWithout(CellsOf(Items[n]))
    /\ borrowed' = StillBorrowed(text_at')
    /\ result' = Returned(TRUE, [type |-> type, value |-> value])

\* The text a pointer given by the application points to: its own text or one
\* it got from la_config_get_str.
Pointed(src) == IF src \in Cells THEN text_at[src] ELSE src

\* Mutant: the old text, which may be the argument, is freed before it is copied.
CopyAfterFree(n, src) ==
    IF src \in CellsOf(Items[n]) THEN CHOOSE t \in Texts : t # text_at[src]
    ELSE Pointed(src)

\* The text strdup copies, before the old item goes.
Copied(n, src) == Pointed(src)

SetStrNull(n) ==
    /\ Usable
    /\ config' = "table"
    /\ items' = [Items EXCEPT ![n] = [type |-> "string", value |-> NULL]]
    /\ text_at' = TextsWithout(CellsOf(Items[n]))
    /\ borrowed' = StillBorrowed(text_at')
    /\ result' = Returned(TRUE, [type |-> "string", value |-> NULL])

SetStr(n, src, c) ==
    /\ Usable
    /\ text_at[c] = NULL
    /\ config' = "table"
    /\ items' = [Items EXCEPT ![n] = [type |-> "string", value |-> c]]
    /\ text_at' = [TextsWithout(CellsOf(Items[n])) EXCEPT ![c] = Copied(n, src)]
    /\ borrowed' = IF borrowed \in CellsOf(Items[n]) THEN NULL ELSE borrowed
    /\ result' = Returned(TRUE, [type |-> "string", value |-> Pointed(src)])

SetNullName ==
    /\ result' = Returned(FALSE, NULL)
    /\ UNCHANGED <<config, items, text_at, borrowed>>

Found(n, type) == Items[n] # NULL /\ Items[n].type = type

\* The value as the application sees it: of a string, the text.
Seen(item) ==
    IF item.type = "string" /\ item.value # NULL
    THEN [type |-> "string", value |-> text_at[item.value]] ELSE item

\* la_config_get_bool, _int, _double and _str.
Get(n, type) ==
    /\ Usable
    /\ config' = "table"
    /\ items' = Items
    /\ result' = Returned(Found(n, type), IF Found(n, type) THEN Seen(Items[n]) ELSE NULL)
    /\ borrowed' = IF Found(n, type) /\ type = "string" THEN Items[n].value ELSE borrowed
    /\ UNCHANGED text_at

Unset(n) ==
    /\ Usable
    /\ config' = "table"
    /\ items' = [Items EXCEPT ![n] = NULL]
    /\ text_at' = TextsWithout(CellsOf(Items[n]))
    /\ borrowed' = StillBorrowed(text_at')
    /\ result' = Returned(Items[n] # NULL, NULL)

\* la_config_init destroys a table there is and makes a new one.
ConfigInit ==
    /\ Usable
    /\ config' = "table"
    /\ items' = Defaults
    /\ text_at' = TextsWithout(UNION {CellsOf(items[n]) : n \in Names})
    /\ borrowed' = NULL
    /\ result' = NULL

\* la_config_destroy leaves the pointer as it is, unless it is NULL.
Destroy ==
    /\ Usable
    /\ config' = IF config = "NULL" THEN "NULL" ELSE "freed"
    /\ items' = [n \in Names |-> NULL]
    /\ text_at' = TextsWithout(UNION {CellsOf(items[n]) : n \in Names})
    /\ borrowed' = NULL
    /\ result' = NULL

\* The texts set_str is called with: the application's own or a borrowed one.
Sources == Texts \cup ({borrowed} \ {NULL})

Next ==
    \/ \E n \in Names, type \in Types \ {"string"} :
          \E v \in Values[type] : SetPlain(n, type, v)
    \/ \E n \in Names : SetStrNull(n)
    \/ \E n \in Names, src \in Sources, c \in Cells : SetStr(n, src, c)
    \/ SetNullName
    \/ \E n \in Names, type \in Types : Get(n, type)
    \/ \E n \in Names : Unset(n)
    \/ ConfigInit
    \/ Destroy

Spec == Init /\ [][Next]_vars

-----------------------------------------------------------------------------
TypeOK ==
    /\ config \in {"NULL", "table", "freed"}
    /\ items \in [Names -> Item \cup {NULL}]
    /\ text_at \in [Cells -> Texts \cup {NULL}]
    /\ borrowed \in Cells \cup {NULL}

(***************************************************************************)
(* The texts allocated are exactly those of the items, each of one item:   *)
(* changing an option's type, setting it to NULL, to its own text or to    *)
(* that of another option neither leaks a text nor frees one in use; and a *)
(* pointer the application may still use is one of them.                   *)
(***************************************************************************)
TextsOwned ==
    /\ \A c \in Cells : text_at[c] # NULL <=> \E n \in Names : c \in CellsOf(items[n])
    /\ \A n, m \in Names : CellsOf(items[n]) \cap CellsOf(items[m]) # {} => n = m
    /\ borrowed # NULL => text_at[borrowed] # NULL

(***************************************************************************)
(* To the application the configuration is an OptionStore that has its     *)
(* defaults from the start: it reads what it last wrote, with its type.    *)
(***************************************************************************)
Store == INSTANCE OptionStore WITH
    store <- IF config = "NULL" THEN Defaults
             ELSE [n \in Names |-> IF items[n] = NULL THEN NULL ELSE Seen(items[n])]

IsStore == Store!Spec
=============================================================================
