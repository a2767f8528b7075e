------------------------- MODULE ConfigurationProofs -------------------------
(***************************************************************************)
(* Proofs about Configuration for any options, values, defaults and memory *)
(* for texts: no text is leaked or freed early, and the configuration      *)
(* implements OptionStore.                                                 *)
(***************************************************************************)
EXTENDS Configuration, TLAPS

(***************************************************************************)
(* The inductive invariant: types, ownership, and no items without a table.*)
(***************************************************************************)
NoItems == config # "table" => \A n \in Names : items[n] = NULL

IInv == TypeOK /\ TextsOwned /\ NoItems

\* The store the application sees, as in Configuration, and one item of it.
View(item, texts) ==
    IF item # NULL /\ item.type = "string" /\ item.value # NULL
    THEN [type |-> "string", value |-> texts[item.value]] ELSE item

AbsStore ==
    IF config = "NULL" THEN Defaults
    ELSE [n \in Names |-> IF items[n] = NULL THEN NULL ELSE Seen(items[n])]

OptItem == Item \cup {NULL}

LEMMA CellsOfItem ==
    ASSUME NEW item \in OptItem
    PROVE  /\ CellsOf(item) \subseteq Cells
           /\ \A c \in CellsOf(item) : item # NULL /\ item.type = "string" /\ item.value = c
           /\ item # NULL /\ item.type = "string" /\ item.value # NULL
                => CellsOf(item) = {item.value}
           /\ item # NULL => item.type \in Types
BY ConfigAssumption DEF CellsOf, OptItem, Item, Types

LEMMA DefaultsOwnNothing ==
    ASSUME NEW n \in Names
    PROVE  /\ Defaults[n] \in OptItem
           /\ CellsOf(Defaults[n]) = {}
           /\ \A texts : View(Defaults[n], texts) = Defaults[n]
BY ConfigAssumption DEF CellsOf, OptItem, View

(***************************************************************************)
(* What the invariant says of items holds of the table a call works on.    *)
(***************************************************************************)
LEMMA ItemsOwned ==
    ASSUME IInv, Usable
    PROVE  /\ Items \in [Names -> OptItem]
           /\ \A c \in Cells : text_at[c] # NULL <=> \E n \in Names : c \in CellsOf(Items[n])
           /\ \A n, m \in Names : CellsOf(Items[n]) \cap CellsOf(Items[m]) # {} => n = m
           /\ AbsStore = [n \in Names |-> View(Items[n], text_at)]
<1>1. CASE config = "NULL"
  <2>1. Items = Defaults /\ AbsStore = Defaults
    BY <1>1 DEF Items, AbsStore
  <2>2. \A n \in Names : CellsOf(items[n]) = {}
    BY <1>1 DEF IInv, NoItems, CellsOf
  <2>3. \A c \in Cells : text_at[c] = NULL
    BY <2>2 DEF IInv, TextsOwned
  <2>4. Defaults \in [Names -> OptItem]
    BY ConfigAssumption DEF OptItem
  <2>5. Defaults = [n \in Names |-> View(Defaults[n], text_at)]
    BY <2>4, DefaultsOwnNothing
  <2> QED BY <2>1, <2>3, <2>4, <2>5, DefaultsOwnNothing
<1>2. CASE config # "NULL"
  <2>1. Items = items
    BY <1>2 DEF Items
  <2>2. AbsStore = [n \in Names |-> View(items[n], text_at)]
    BY <1>2 DEF AbsStore, View, Seen
  <2> QED BY <2>1, <2>2 DEF IInv, TypeOK, TextsOwned, OptItem
<1> QED BY <1>1, <1>2

(***************************************************************************)
(* One option is replaced: its text is freed, and what the new item owns   *)
(* was free and now has a text.                                            *)
(***************************************************************************)
Replaces(n, item) ==
    /\ config' = "table"
    /\ items' = [Items EXCEPT ![n] = item]
    /\ text_at' \in [Cells -> Texts \cup {NULL}]
    /\ \A c \in Cells :
          IF c \in CellsOf(item)
          THEN text_at[c] = NULL /\ text_at'[c] # NULL
          ELSE text_at'[c] = IF c \in CellsOf(Items[n]) THEN NULL ELSE text_at[c]

LEMMA ReplaceOwned ==
    ASSUME IInv, Usable, NEW n \in Names, NEW item \in OptItem, Replaces(n, item)
    PROVE  /\ items' \in [Names -> OptItem]
           /\ \A c \in Cells : text_at'[c] # NULL <=> \E m \in Names : c \in CellsOf(items'[m])
           /\ \A m, k \in Names : CellsOf(items'[m]) \cap CellsOf(items'[k]) # {} => m = k
<1>1. items' \in [Names -> OptItem] /\ items'[n] = item
  BY ItemsOwned DEF Replaces
<1>2. \A m \in Names \ {n} : items'[m] = Items[m]
  BY ItemsOwned DEF Replaces
<1>3. \A m \in Names : CellsOf(Items[m]) \subseteq Cells
  BY ItemsOwned, CellsOfItem
<1>4. CellsOf(item) \subseteq Cells
  BY CellsOfItem
<1>5. \A c \in Cells : \A m \in Names : c \in CellsOf(Items[m]) => text_at[c] # NULL
  BY ItemsOwned
<1>6. ASSUME NEW c \in Cells
      PROVE  text_at'[c] # NULL <=> \E m \in Names : c \in CellsOf(items'[m])
  <2>1. CASE c \in CellsOf(item)
    BY <2>1, <1>1 DEF Replaces
  <2>2. CASE c \notin CellsOf(item) /\ c \in CellsOf(Items[n])
    <3>1. text_at'[c] = NULL
      BY <2>2 DEF Replaces
    <3>2. \A m \in Names \ {n} : c \notin CellsOf(Items[m])
      BY <2>2, ItemsOwned
    <3> QED BY <2>2, <3>1, <3>2, <1>1, <1>2
  <2>3. CASE c \notin CellsOf(item) /\ c \notin CellsOf(Items[n])
    <3>1. text_at'[c] = text_at[c]
      BY <2>3 DEF Replaces
    <3>2. text_at[c] # NULL <=> \E m \in Names : c \in CellsOf(Items[m])
      BY ItemsOwned
    <3> QED BY <2>3, <3>1, <3>2, <1>1, <1>2
  <2> QED BY <2>1, <2>2, <2>3
<1>7. ASSUME NEW m \in Names, NEW k \in Names,
             CellsOf(items'[m]) \cap CellsOf(items'[k]) # {}, m # k
      PROVE  FALSE
  <2>1. PICK c : c \in CellsOf(items'[m]) /\ c \in CellsOf(items'[k])
    BY <1>7
  <2>2. CASE m # n /\ k # n
    BY <2>1, <2>2, <1>2, <1>7, ItemsOwned
  <2>3. CASE m = n \/ k = n
    <3>1. c \in CellsOf(item) /\ \E j \in Names \ {n} : c \in CellsOf(Items[j])
      BY <2>1, <2>3, <1>1, <1>2, <1>7
    <3>2. text_at[c] = NULL
      BY <3>1, <1>4 DEF Replaces
    <3> QED BY <3>1, <3>2, <1>4, <1>5
  <2> QED BY <2>2, <2>3
<1> QED BY <1>1, <1>6, <1>7

\* The application sees only that option change.
LEMMA ReplaceSeen ==
    ASSUME IInv, Usable, NEW n \in Names, NEW item \in OptItem, Replaces(n, item)
    PROVE  AbsStore' = [AbsStore EXCEPT ![n] = View(item, text_at')]
<1>1. AbsStore' = [m \in Names |-> View(items'[m], text_at')]
  BY DEF AbsStore, View, Replaces, Seen
<1>2. items'[n] = item /\ \A m \in Names \ {n} : items'[m] = Items[m]
  BY ItemsOwned DEF Replaces
<1>3. ASSUME NEW m \in Names \ {n}
      PROVE  View(items'[m], text_at') = View(Items[m], text_at)
  <2> DEFINE it == Items[m]
  <2>1. it \in OptItem /\ items'[m] = it
    BY ItemsOwned, <1>2
  <2>2. CASE it # NULL /\ it.type = "string" /\ it.value # NULL
    <3>1. CellsOf(it) = {it.value} /\ it.value \in Cells
      BY <2>1, <2>2, CellsOfItem
    <3>2. text_at[it.value] # NULL /\ it.value \notin CellsOf(Items[n])
      BY <3>1, ItemsOwned
    <3>3. text_at'[it.value] = text_at[it.value]
      BY <3>1, <3>2 DEF Replaces
    <3> QED BY <2>1, <3>3 DEF View
  <2>3. CASE ~(it # NULL /\ it.type = "string" /\ it.value # NULL)
    BY <2>1, <2>3 DEF View
  <2> QED BY <2>2, <2>3
<1>4. AbsStore = [m \in Names |-> View(Items[m], text_at)]
  BY ItemsOwned
<1> QED BY <1>1, <1>2, <1>3, <1>4

-----------------------------------------------------------------------------
(***************************************************************************)
(* The calls that change an option.                                        *)
(***************************************************************************)
LEMMA TextsWithoutTypes ==
    ASSUME IInv, NEW S
    PROVE  /\ TextsWithout(S) \in [Cells -> Texts \cup {NULL}]
           /\ \A c \in Cells : TextsWithout(S)[c] = IF c \in S THEN NULL ELSE text_at[c]
BY DEF IInv, TypeOK, TextsWithout

LEMMA SetPlainReplaces ==
    ASSUME IInv, NEW n \in Names, NEW type \in Types \ {"string"}, NEW v \in Values[type],
           SetPlain(n, type, v)
    PROVE  /\ Usable
           /\ [type |-> type, value |-> v] \in OptItem
           /\ CellsOf([type |-> type, value |-> v]) = {}
           /\ Replaces(n, [type |-> type, value |-> v])
           /\ borrowed' \in Cells \cup {NULL}
           /\ borrowed' # NULL => text_at'[borrowed'] # NULL
<1> DEFINE item == [type |-> type, value |-> v]
<1>1. item \in OptItem
  BY DEF OptItem, Item
<1>2. CellsOf(item) = {}
  BY DEF CellsOf
<1>3. Replaces(n, item)
  BY <1>2, TextsWithoutTypes DEF SetPlain, Replaces
<1>4. borrowed' \in Cells \cup {NULL} /\ (borrowed' # NULL => text_at'[borrowed'] # NULL)
  BY DEF SetPlain, StillBorrowed
<1> QED BY <1>1, <1>2, <1>3, <1>4 DEF SetPlain

LEMMA SetStrNullReplaces ==
    ASSUME IInv, NEW n \in Names, SetStrNull(n)
    PROVE  /\ Usable
           /\ [type |-> "string", value |-> NULL] \in OptItem
           /\ Replaces(n, [type |-> "string", value |-> NULL])
           /\ borrowed' \in Cells \cup {NULL}
           /\ borrowed' # NULL => text_at'[borrowed'] # NULL
<1> DEFINE item == [type |-> "string", value |-> NULL]
<1>1. item \in OptItem
  BY DEF OptItem, Item
<1>2. CellsOf(item) = {}
  BY DEF CellsOf
<1>3. Replaces(n, item)
  BY <1>2, TextsWithoutTypes DEF SetStrNull, Replaces
<1>4. borrowed' \in Cells \cup {NULL} /\ (borrowed' # NULL => text_at'[borrowed'] # NULL)
  BY DEF SetStrNull, StillBorrowed
<1> QED BY <1>1, <1>3, <1>4 DEF SetStrNull

LEMMA PointedIsText ==
    ASSUME IInv, NEW src \in Sources
    PROVE  Pointed(src) \in Texts
BY ConfigAssumption DEF IInv, TypeOK, TextsOwned, Sources, Pointed, Texts

LEMMA SetStrReplaces ==
    ASSUME IInv, NEW n \in Names, NEW src \in Sources, NEW c \in Cells, SetStr(n, src, c)
    PROVE  /\ Usable
           /\ [type |-> "string", value |-> c] \in OptItem
           /\ Replaces(n, [type |-> "string", value |-> c])
           /\ text_at'[c] = Pointed(src)
           /\ borrowed' \in Cells \cup {NULL}
           /\ borrowed' # NULL => text_at'[borrowed'] # NULL
<1> DEFINE item == [type |-> "string", value |-> c]
<1>1. item \in OptItem
  BY DEF OptItem, Item
<1>2. CellsOf(item) = {c}
  <2>1. item # NULL /\ c # NULL
    BY ConfigAssumption DEF Item
  <2> QED BY <2>1 DEF CellsOf
<1>3. text_at'[c] = Pointed(src) /\ Pointed(src) \in Texts /\ Pointed(src) # NULL
  BY PointedIsText, TextsWithoutTypes DEF SetStr, Copied, Texts
<1>4. text_at' \in [Cells -> Texts \cup {NULL}]
  BY <1>3, TextsWithoutTypes DEF SetStr, Copied
<1>5. \A d \in Cells \ {c} :
         text_at'[d] = IF d \in CellsOf(Items[n]) THEN NULL ELSE text_at[d]
  BY TextsWithoutTypes DEF SetStr
<1>6. Replaces(n, item)
  BY <1>2, <1>3, <1>4, <1>5 DEF SetStr, Replaces
<1>7. borrowed' \in Cells \cup {NULL} /\ (borrowed' # NULL => text_at'[borrowed'] # NULL)
  <2>1. borrowed \in Cells \cup {NULL} /\ (borrowed # NULL => text_at[borrowed] # NULL)
    BY DEF IInv, TypeOK, TextsOwned
  <2>2. CASE borrowed' = NULL
    BY <2>2
  <2>3. CASE borrowed' # NULL
    <3>1. borrowed' = borrowed /\ borrowed \notin CellsOf(Items[n])
      BY <2>3 DEF SetStr
    <3> QED BY <2>1, <2>3, <3>1, <1>3, <1>5
  <2> QED BY <2>2, <2>3
<1> QED BY <1>1, <1>3, <1>6, <1>7 DEF SetStr

LEMMA UnsetReplaces ==
    ASSUME IInv, NEW n \in Names, Unset(n)
    PROVE  /\ Usable
           /\ Replaces(n, NULL)
           /\ borrowed' \in Cells \cup {NULL}
           /\ borrowed' # NULL => text_at'[borrowed'] # NULL
<1>1. CellsOf(NULL) = {}
  BY DEF CellsOf
<1>2. Replaces(n, NULL)
  BY <1>1, TextsWithoutTypes DEF Unset, Replaces
<1>3. borrowed' \in Cells \cup {NULL} /\ (borrowed' # NULL => text_at'[borrowed'] # NULL)
  BY DEF Unset, StillBorrowed
<1> QED BY <1>2, <1>3 DEF Unset

-----------------------------------------------------------------------------
(***************************************************************************)
(* The invariant is kept.                                                  *)
(***************************************************************************)
LEMMA InitHolds == Init => IInv
<1> SUFFICES ASSUME Init PROVE IInv
  OBVIOUS
<1>1. \A n \in Names : CellsOf(items[n]) = {}
  BY DEF Init, CellsOf
<1>2. TypeOK
  BY DEF Init, TypeOK
<1>3. TextsOwned
  BY <1>1 DEF Init, TextsOwned
<1>4. NoItems
  BY DEF Init, NoItems
<1> QED BY <1>2, <1>3, <1>4 DEF IInv

LEMMA ReplaceKeepsIInv ==
    ASSUME IInv, Usable, NEW n \in Names, NEW item \in OptItem, Replaces(n, item),
           borrowed' \in Cells \cup {NULL},
           borrowed' # NULL => text_at'[borrowed'] # NULL
    PROVE  IInv'
<1>1. TypeOK'
  BY ReplaceOwned DEF IInv, TypeOK, Replaces, OptItem
<1>2. TextsOwned'
  BY ReplaceOwned DEF TextsOwned, CellsOf
<1>3. NoItems'
  BY DEF NoItems, Replaces
<1> QED BY <1>1, <1>2, <1>3 DEF IInv

LEMMA GetKeepsIInv ==
    ASSUME IInv, NEW n \in Names, NEW type \in Types, Get(n, type)
    PROVE  IInv'
<1>1. Usable /\ items' = Items /\ text_at' = text_at /\ config' = "table"
  BY DEF Get
<1>2. borrowed' \in Cells \cup {NULL} /\ (borrowed' # NULL => text_at[borrowed'] # NULL)
  <2>1. CASE Found(n, type) /\ type = "string"
    <3>1. Items[n] \in OptItem /\ Items[n] # NULL /\ Items[n].type = "string"
      BY <1>1, <2>1, ItemsOwned DEF Found
    <3>2. borrowed' = Items[n].value
      BY <2>1 DEF Get
    <3>3. Items[n].value \in Cells \cup {NULL}
      BY <3>1, ConfigAssumption DEF OptItem, Item
    <3>4. CASE Items[n].value # NULL
      <4>1. CellsOf(Items[n]) = {Items[n].value}
        BY <3>1, <3>4, CellsOfItem
      <4> QED BY <1>1, <3>2, <3>3, <3>4, <4>1, ItemsOwned
    <3> QED BY <3>2, <3>3, <3>4
  <2>2. CASE ~(Found(n, type) /\ type = "string")
    BY <2>2 DEF Get, IInv, TypeOK, TextsOwned
  <2> QED BY <2>1, <2>2
<1>3. TypeOK'
  BY <1>1, <1>2, ItemsOwned DEF IInv, TypeOK, OptItem, Get
<1>4. TextsOwned'
  BY <1>1, <1>2, ItemsOwned DEF TextsOwned, CellsOf
<1>5. NoItems'
  BY <1>1 DEF NoItems
<1> QED BY <1>3, <1>4, <1>5 DEF IInv

\* The whole table goes: la_config_init and la_config_destroy.
LEMMA AllTextsFreed ==
    ASSUME IInv
    PROVE  /\ TextsWithout(UNION {CellsOf(items[n]) : n \in Names}) \in [Cells -> Texts \cup {NULL}]
           /\ \A c \in Cells : TextsWithout(UNION {CellsOf(items[n]) : n \in Names})[c] = NULL
<1>1. \A c \in Cells : text_at[c] # NULL => c \in UNION {CellsOf(items[n]) : n \in Names}
  BY DEF IInv, TextsOwned
<1> QED BY <1>1, TextsWithoutTypes

LEMMA ConfigInitKeepsIInv ==
    ASSUME IInv, ConfigInit
    PROVE  IInv'
<1>1. \A n \in Names : CellsOf(items'[n]) = {} /\ items'[n] \in OptItem
  BY DefaultsOwnNothing DEF ConfigInit
<1>2. text_at' \in [Cells -> Texts \cup {NULL}] /\ \A c \in Cells : text_at'[c] = NULL
  BY AllTextsFreed DEF ConfigInit
<1>3. TypeOK'
  BY <1>2, ConfigAssumption DEF ConfigInit, IInv, TypeOK
<1>4. TextsOwned'
  BY <1>1, <1>2 DEF ConfigInit, TextsOwned, CellsOf
<1>5. NoItems'
  BY DEF ConfigInit, NoItems
<1> QED BY <1>3, <1>4, <1>5 DEF IInv

LEMMA DestroyKeepsIInv ==
    ASSUME IInv, Destroy
    PROVE  IInv'
<1>1. \A n \in Names : items'[n] = NULL /\ CellsOf(items'[n]) = {}
  BY DEF Destroy, CellsOf
<1>2. text_at' \in [Cells -> Texts \cup {NULL}] /\ \A c \in Cells : text_at'[c] = NULL
  BY AllTextsFreed DEF Destroy
<1>3. TypeOK'
  BY <1>2 DEF Destroy, IInv, TypeOK
<1>4. TextsOwned'
  BY <1>1, <1>2 DEF Destroy, TextsOwned, CellsOf
<1>5. NoItems'
  BY <1>1 DEF NoItems
<1> QED BY <1>3, <1>4, <1>5 DEF IInv

LEMMA StepKeepsIInv ==
    ASSUME IInv, [Next]_vars
    PROVE  IInv'
<1>1. ASSUME NEW n \in Names, NEW type \in Types \ {"string"}, NEW v \in Values[type],
             SetPlain(n, type, v)
      PROVE  IInv'
  BY <1>1, SetPlainReplaces, ReplaceKeepsIInv
<1>2. ASSUME NEW n \in Names, SetStrNull(n)
      PROVE  IInv'
  BY <1>2, SetStrNullReplaces, ReplaceKeepsIInv
<1>3. ASSUME NEW n \in Names, NEW src \in Sources, NEW c \in Cells, SetStr(n, src, c)
      PROVE  IInv'
  BY <1>3, SetStrReplaces, ReplaceKeepsIInv
<1>4. ASSUME NEW n \in Names, Unset(n)
      PROVE  IInv'
  <2>1. NULL \in OptItem
    BY DEF OptItem
  <2> QED BY <1>4, <2>1, UnsetReplaces, ReplaceKeepsIInv
<1>5. CASE SetNullName \/ UNCHANGED vars
  <2>1. UNCHANGED <<config, items, text_at, borrowed>>
    BY <1>5 DEF SetNullName, vars
  <2> QED BY <2>1 DEF IInv, TypeOK, TextsOwned, NoItems, CellsOf
<1> QED
  BY <1>1, <1>2, <1>3, <1>4, <1>5, GetKeepsIInv, ConfigInitKeepsIInv, DestroyKeepsIInv
  DEF Next

LEMMA AlwaysIInv == Spec => []IInv
<1>1. Init => IInv
  BY InitHolds
<1>2. IInv /\ [Next]_vars => IInv'
  BY StepKeepsIInv
<1> QED BY <1>1, <1>2, PTL DEF Spec

(***************************************************************************)
(* Each item's text is there as long as the item, and no longer            *)
(* (la_config_option_set, la_config_item_destroy).                         *)
(***************************************************************************)
THEOREM TextsAreOwned == Spec => []TextsOwned
<1>1. IInv => TextsOwned
  BY DEF IInv
<1> QED BY <1>1, AlwaysIInv, PTL

(***************************************************************************)
(* Every item, cell and result stays one of the kinds configuration.c      *)
(* handles.                                                                *)
(***************************************************************************)
THEOREM TypeIsCorrect == Spec => []TypeOK
<1>1. IInv => TypeOK
  BY DEF IInv
<1> QED BY <1>1, AlwaysIInv, PTL

-----------------------------------------------------------------------------
(***************************************************************************)
(* Refinement: the store of the abstract specification is AbsStore.        *)
(***************************************************************************)
LEMMA AbsTypes ==
    ASSUME IInv
    PROVE  DOMAIN Values = Types /\ Store!Types = Types
BY ConfigAssumption DEF Store!Types

LEMMA SeenOfItem ==
    ASSUME IInv, Usable, NEW n \in Names
    PROVE  /\ AbsStore[n] # NULL <=> Items[n] # NULL
           /\ Items[n] # NULL =>
                AbsStore[n].type = Items[n].type /\ AbsStore[n] = Seen(Items[n])
<1>1. AbsStore[n] = View(Items[n], text_at) /\ Items[n] \in OptItem
  BY ItemsOwned
<1>2. CASE Items[n] # NULL /\ Items[n].type = "string" /\ Items[n].value # NULL
  <2> DEFINE text == text_at[Items[n].value]
  <2>1. CellsOf(Items[n]) = {Items[n].value} /\ CellsOf(Items[n]) \subseteq Cells
    BY <1>1, <1>2, CellsOfItem
  <2>2. text # NULL
    BY <2>1, ItemsOwned
  <2>3. text \in Values["string"] /\ "string" \in Types
    BY <2>1, <2>2 DEF IInv, TypeOK, Texts, Types
  <2>4. NULL # [type |-> "string", value |-> text]
    BY <2>3, ConfigAssumption
  <2> QED BY <1>1, <1>2, <2>4 DEF View, Seen
<1>3. CASE ~(Items[n] # NULL /\ Items[n].type = "string" /\ Items[n].value # NULL)
  BY <1>1, <1>3 DEF View, Seen
<1> QED BY <1>2, <1>3

LEMMA InitIsInit == Init => Store!Init
BY DEF Init, Store!Init

LEMMA SetPlainIsSet ==
    ASSUME IInv, NEW n \in Names, NEW type \in Types \ {"string"}, NEW v \in Values[type],
           SetPlain(n, type, v)
    PROVE  Store!Next
<1> DEFINE item == [type |-> type, value |-> v]
<1>1. AbsStore' = [AbsStore EXCEPT ![n] = View(item, text_at')]
  BY SetPlainReplaces, ReplaceSeen
<1>2. View(item, text_at') = item
  BY DEF View
<1>3. Store!Set(n, type, v)
  BY <1>1, <1>2 DEF SetPlain, AbsStore, Returned, Store!Set, Store!Item, Store!Returned
<1> QED BY <1>3, AbsTypes DEF Store!Next

LEMMA SetStrNullIsSet ==
    ASSUME IInv, NEW n \in Names, SetStrNull(n)
    PROVE  Store!Next
<1> DEFINE item == [type |-> "string", value |-> NULL]
<1>1. AbsStore' = [AbsStore EXCEPT ![n] = View(item, text_at')]
  BY SetStrNullReplaces, ReplaceSeen
<1>2. View(item, text_at') = item
  BY DEF View
<1>3. Store!Set(n, "string", NULL)
  BY <1>1, <1>2 DEF SetStrNull, AbsStore, Returned, Store!Set, Store!Item, Store!Returned
<1>4. "string" \in Types /\ NULL \in Values["string"]
  BY ConfigAssumption DEF Types
<1> QED BY <1>3, <1>4, AbsTypes DEF Store!Next

LEMMA SetStrIsSet ==
    ASSUME IInv, NEW n \in Names, NEW src \in Sources, NEW c \in Cells, SetStr(n, src, c)
    PROVE  Store!Next
<1> DEFINE item == [type |-> "string", value |-> c]
<1>0. PICK text \in Texts : text = Pointed(src)
  BY PointedIsText
<1>1. AbsStore' = [AbsStore EXCEPT ![n] = View(item, text_at')]
  BY SetStrReplaces, ReplaceSeen
<1>2. View(item, text_at') = [type |-> "string", value |-> text]
  <2>1. item # NULL /\ c # NULL
    BY ConfigAssumption DEF Item
  <2> QED BY <1>0, <2>1, SetStrReplaces DEF View
<1>3. Store!Set(n, "string", text)
  BY <1>0, <1>1, <1>2 DEF SetStr, AbsStore, Returned, Store!Set, Store!Item, Store!Returned
<1>4. "string" \in Types /\ text \in Values["string"]
  BY DEF Types, Texts
<1> QED BY <1>3, <1>4, AbsTypes DEF Store!Next

LEMMA UnsetIsUnset ==
    ASSUME IInv, NEW n \in Names, Unset(n)
    PROVE  Store!Next
<1>1. AbsStore' = [AbsStore EXCEPT ![n] = View(NULL, text_at')]
  BY UnsetReplaces, ReplaceSeen DEF OptItem
<1>2. View(NULL, text_at') = NULL
  BY DEF View
<1>3. AbsStore[n] # NULL <=> Items[n] # NULL
  BY SeenOfItem, UnsetReplaces
<1>4. Store!Unset(n)
  BY <1>1, <1>2, <1>3 DEF Unset, AbsStore, Returned, Store!Unset, Store!Returned
<1> QED BY <1>4 DEF Store!Next

LEMMA GetIsGet ==
    ASSUME IInv, NEW n \in Names, NEW type \in Types, Get(n, type)
    PROVE  Store!Next
<1>1. Usable /\ items' = Items /\ text_at' = text_at /\ config' = "table"
  BY DEF Get
<1>2. AbsStore' = AbsStore
  <2>1. AbsStore' = [m \in Names |-> View(items'[m], text_at')]
    BY <1>1 DEF AbsStore, View, Seen
  <2> QED BY <1>1, <2>1, ItemsOwned
<1>3. /\ AbsStore[n] # NULL <=> Items[n] # NULL
      /\ Items[n] # NULL => AbsStore[n].type = Items[n].type /\ AbsStore[n] = Seen(Items[n])
  BY <1>1, SeenOfItem
<1>4. Store!Get(n, type)
  BY <1>2, <1>3 DEF Get, Found, AbsStore, Returned, Store!Get, Store!Returned
<1> QED BY <1>4, AbsTypes DEF Store!Next

LEMMA ConfigInitIsReset ==
    ASSUME IInv, ConfigInit
    PROVE  Store!Next
<1>1. AbsStore' = [m \in Names |-> View(Defaults[m], text_at')]
  BY DEF ConfigInit, AbsStore, View, Seen
<1>2. AbsStore' = Defaults
  BY <1>1, DefaultsOwnNothing, ConfigAssumption
<1>3. Store!Reset
  BY <1>2 DEF ConfigInit, AbsStore, Store!Reset
<1> QED BY <1>3 DEF Store!Next

LEMMA DestroyIsClose ==
    ASSUME IInv, Destroy
    PROVE  Store!Next
<1>1. CASE config = "NULL"
  <2>1. Store!Reset
    BY <1>1 DEF Destroy, Store!Reset
  <2> QED BY <2>1 DEF Store!Next
<1>2. CASE config # "NULL"
  <2>1. Store!Close
    BY <1>2 DEF Destroy, Store!Close
  <2> QED BY <2>1 DEF Store!Next
<1> QED BY <1>1, <1>2

LEMMA StepIsStep ==
    ASSUME IInv, [Next]_vars
    PROVE  [Store!Next]_(Store!vars)
<1>1. CASE SetNullName
  <2>1. AbsStore' = AbsStore
    BY <1>1 DEF SetNullName, AbsStore, Seen
  <2>2. Store!SetNothing
    BY <1>1, <2>1 DEF SetNullName, AbsStore, Returned, Store!SetNothing, Store!Returned
  <2> QED BY <2>2 DEF Store!Next
<1>2. CASE UNCHANGED vars
  <2>1. AbsStore' = AbsStore /\ result' = result
    BY <1>2 DEF vars, AbsStore, Seen
  <2> QED BY <2>1 DEF AbsStore, Store!vars
<1> QED
  BY <1>1, <1>2, SetPlainIsSet, SetStrNullIsSet, SetStrIsSet, UnsetIsUnset, GetIsGet,
     ConfigInitIsReset, DestroyIsClose
  DEF Next

(***************************************************************************)
(* The configuration (configuration.c) implements the store of options its *)
(* documentation describes.                                                *)
(***************************************************************************)
THEOREM ImplementsStore == Spec => IsStore
<1>1. Init => Store!Init
  BY InitIsInit
<1>2. IInv /\ [Next]_vars => [Store!Next]_(Store!vars)
  BY StepIsStep
<1> QED BY <1>1, <1>2, AlwaysIInv, PTL DEF Spec, IsStore, Store!Spec
=============================================================================
