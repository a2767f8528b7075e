------------------------------ MODULE JsonWriter ------------------------------
(***************************************************************************)
(* A protocol tree is printed as JSON: la_proto_tree_format_json           *)
(* (libacars.c) goes down the chain of nodes, opens an object for each     *)
(* that has a key, lets the node's own function print into it, and closes  *)
(* the objects on its way back.  The functions of json.c put a comma after *)
(* everything they print and take it back when a container ends.           *)
(***************************************************************************)
EXTENDS Naturals, Sequences, SequencesExt

CONSTANTS
    MaxNodes,       \* bound: length of a chain of nodes
    MaxCalls,       \* bound: calls the nodes' format_json make
    MaxDepth,       \* bound: containers it has open at once
    OctetCounts     \* lengths of the octet strings they print

ASSUME JsonAssumption ==
    /\ MaxNodes \in Nat
    /\ MaxCalls \in Nat
    /\ MaxDepth \in Nat
    /\ OctetCounts \subseteq Nat

VARIABLES
    str,            \* the text, as tokens
    phase,          \* "idle", "down", "format", "up" or "done"
    path,           \* per node entered: does its type have a json_key?
    open,           \* the containers opened by the node that prints
    calls           \* the calls made by nodes that print

jsonVars == <<str, phase, path, open, calls>>

JsonInit ==
    /\ str = <<>>
    /\ phase = "idle"
    /\ path = <<>>
    /\ open = <<>>
    /\ calls = 0

-----------------------------------------------------------------------------
(***************************************************************************)
(* json.c.  Escaped strings, numbers and literals are all "value".         *)
(***************************************************************************)
TrimComma(text) == IF text # <<>> /\ Last(text) = "," THEN Front(text) ELSE text

PrintKey(text, key) == IF key THEN Append(text, "key") ELSE text

AppendValue(text, key) == PrintKey(text, key) \o <<"value", ",">>

ObjectStart(text, key) == Append(PrintKey(text, key), "{")

ObjectEnd(text) == TrimComma(text) \o <<"}", ",">>

ArrayStart(text, key) == Append(PrintKey(text, key), "[")

ArrayEnd(text) == TrimComma(text) \o <<"]", ",">>

\* la_json_append_octet_string: an array of n values, each with its comma.
Octets(n) == [i \in 1 .. 2 * n |-> IF i % 2 = 1 THEN "value" ELSE ","]

AppendOctets(text, key, n) == ArrayEnd(ArrayStart(text, key) \o Octets(n))

-----------------------------------------------------------------------------
(***************************************************************************)
(* A node's format_json: calls of json.c, in which what is put into an     *)
(* object has a key, what is put into an array has none, and every         *)
(* container opened is closed.  (A call that is given a NULL buffer prints *)
(* nothing.)                                                               *)
(***************************************************************************)
InObject == open = <<>> \/ Last(open) = "object"

Call(text) ==
    /\ phase = "format"
    /\ calls < MaxCalls
    /\ str' = text
    /\ calls' = calls + 1
    /\ UNCHANGED <<phase, path>>

CallAppend == Call(AppendValue(str, InObject)) /\ UNCHANGED open

CallAppendOctets(n) == Call(AppendOctets(str, InObject, n)) /\ UNCHANGED open

CallObjectStart ==
    /\ Len(open) < MaxDepth
    /\ Call(ObjectStart(str, InObject))
    /\ open' = Append(open, "object")

CallArrayStart ==
    /\ Len(open) < MaxDepth
    /\ Call(ArrayStart(str, InObject))
    /\ open' = Append(open, "array")

\* Containers are closed whatever the bound on calls.
CallEnd ==
    /\ phase = "format"
    /\ open # <<>>
    /\ str' = IF Last(open) = "object" THEN ObjectEnd(str) ELSE ArrayEnd(str)
    /\ open' = Front(open)
    /\ UNCHANGED <<phase, path, calls>>

FormatReturns ==
    /\ phase = "format"
    /\ open = <<>>
    /\ phase' = "down"
    /\ UNCHANGED <<str, path, open, calls>>

FormatJson ==
    \/ CallAppend
    \/ \E n \in OctetCounts : CallAppendOctets(n)
    \/ CallObjectStart
    \/ CallArrayStart
    \/ CallEnd
    \/ FormatReturns

-----------------------------------------------------------------------------
\* la_proto_tree_format_json: la_json_start.
TreeStart ==
    /\ phase = "idle"
    /\ str' = ObjectStart(str, FALSE)
    /\ phase' = "down"
    /\ UNCHANGED <<path, open, calls>>

\* la_proto_node_format_json, up to the call for the next node.  A node whose
\* type has no key is passed over; one without data or function is empty.
NodeStart(key, prints) ==
    /\ phase = "down"
    /\ Len(path) < MaxNodes
    /\ path' = Append(path, key)
    /\ str' = IF key THEN ObjectStart(str, TRUE) ELSE str
    /\ phase' = IF key /\ prints THEN "format" ELSE "down"
    /\ UNCHANGED <<open, calls>>

LastNode ==
    /\ phase = "down"
    /\ path # <<>>
    /\ phase' = "up"
    /\ UNCHANGED <<str, path, open, calls>>

\* Mutant: the object of a node is closed even if none was opened.
NodeEndAlways ==
    /\ phase = "up"
    /\ path # <<>>
    /\ str' = ObjectEnd(str)
    /\ path' = Front(path)
    /\ UNCHANGED <<phase, open, calls>>

\* ... and after it.
NodeEnd ==
    /\ phase = "up"
    /\ path # <<>>
    /\ str' = IF Last(path) THEN ObjectEnd(str) ELSE str
    /\ path' = Front(path)
    /\ UNCHANGED <<phase, open, calls>>

\* la_json_end
TreeEnd ==
    /\ phase = "up"
    /\ path = <<>>
    /\ str' = TrimComma(ObjectEnd(str))
    /\ phase' = "done"
    /\ UNCHANGED <<path, open, calls>>

JsonNext ==
    \/ TreeStart
    \/ \E key, prints \in BOOLEAN : NodeStart(key, prints)
    \/ FormatJson
    \/ LastNode
    \/ NodeEnd
    \/ TreeEnd

JsonSpec == JsonInit /\ [][JsonNext]_jsonVars

-----------------------------------------------------------------------------
Token     == {"{", "}", "[", "]", ",", "key", "value"}
Container == {"object", "array"}

JsonTypeOK ==
    /\ str \in Seq(Token)
    /\ phase \in {"idle", "down", "format", "up", "done"}
    /\ path \in Seq(BOOLEAN)
    /\ open \in Seq(Container)
    /\ calls \in 0 .. MaxCalls
    /\ phase # "format" => open = <<>>

(***************************************************************************)
(* RFC 8259 as an automaton: the containers it is in, and what may follow. *)
(*   start   a value;   first  an item or the end of an empty container;   *)
(*   item    the value of a key, or an item after a comma;                 *)
(*   more    a comma or an end;   end  nothing;   bad  it was no JSON.     *)
(***************************************************************************)
Reader(nest, may) == [nest |-> nest, may |-> may]

In(r) == IF r.nest = <<>> THEN "document" ELSE Last(r.nest)

ValueMayFollow(r) ==
    \/ r.may = "start"
    \/ r.may = "value"
    \/ In(r) = "array" /\ r.may \in {"first", "item"}

Reads(r, token) ==
    LET bad == Reader(r.nest, "bad")
        after(nest) == IF nest = <<>> THEN "end" ELSE "more"
    IN  CASE token = "key" ->
               IF In(r) = "object" /\ r.may \in {"first", "item"}
               THEN Reader(r.nest, "value") ELSE bad
          [] token = "value" ->
               IF ValueMayFollow(r) THEN Reader(r.nest, after(r.nest)) ELSE bad
          [] token \in {"{", "["} ->
               IF ValueMayFollow(r)
               THEN Reader(Append(r.nest, IF token = "{" THEN "object" ELSE "array"), "first")
               ELSE bad
          [] token \in {"}", "]"} ->
               IF r.may \in {"first", "more"} /\ In(r) = (IF token = "}" THEN "object" ELSE "array")
               THEN Reader(Front(r.nest), after(Front(r.nest))) ELSE bad
          [] token = "," ->
               IF r.may = "more" THEN Reader(r.nest, "item") ELSE bad

\* What the automaton has made of a text.
ReadText(text) ==
    LET run[i \in 0 .. Len(text)] ==
            IF i = 0 THEN Reader(<<>>, "start") ELSE Reads(run[i - 1], text[i])
    IN  run[Len(text)]

Read == ReadText(str)

(***************************************************************************)
(* Whatever the chain of nodes and whatever they print, the result is one  *)
(* JSON document: every container closed, no comma too many or missing.    *)
(***************************************************************************)
DocumentComplete == phase = "done" => Read = Reader(<<>>, "end")

(***************************************************************************)
(* At any time what has been printed can become JSON, and a reader of it   *)
(* is in the containers the library takes to be open: the document, the    *)
(* objects of the keyed nodes entered, and the printing node's own.        *)
(***************************************************************************)
Objects == [i \in 1 .. Cardinality({n \in DOMAIN path : path[n]}) |-> "object"]

NestingKnown ==
    /\ Read.may # "bad"
    /\ phase \in {"down", "format", "up"} => Read.nest = <<"object">> \o Objects \o open

(***************************************************************************)
(* Of the writer: containers are closed when a format_json returns, what   *)
(* has been printed is the beginning of a document at any time, and one    *)
(* document in the end.                                                    *)
(***************************************************************************)
JsonInv == JsonTypeOK /\ NestingKnown /\ DocumentComplete
=============================================================================
