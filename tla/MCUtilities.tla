---------------------------- MODULE MCUtilities ----------------------------
(***************************************************************************)
(* Instances of the modules about the library's own utilities, which do    *)
(* not depend on one another.  One behaviour is about one of them, the     *)
(* subject; the variables of the others keep their initial values.         *)
(* (Init, Next and vars are Configuration's.)                              *)
(***************************************************************************)
EXTENDS GrowingString, JsonWriter, BitStream, Base85, Inflate, Configuration

CONSTANTS bearer, callsign,     \* options
          v0, v1,               \* values of the types other than string
          x, y                  \* texts

VARIABLE subject

utilityVars == <<stringVars, jsonVars, bsVars, b85Vars, inflateVars, vars, subject>>

Subjects == {"vstring", "json", "bitstream", "base85", "inflate", "config"}

\* With another subject, the stream is of one size and size_t of one width.
UtilitiesInit ==
    /\ subject \in Subjects
    /\ StringInit
    /\ JsonInit
    /\ BitStreamInit
    /\ Base85Init
    /\ InflateInit
    /\ Init
    /\ subject # "bitstream" => bs_len = CHOOSE size \in StreamSizes : TRUE
    /\ subject # "vstring" => size_modulus = CHOOSE m \in SizeModuli : TRUE

StringStep ==
    /\ subject = "vstring"
    /\ StringNext
    /\ UNCHANGED <<jsonVars, bsVars, b85Vars, inflateVars, vars, subject>>

JsonStep ==
    /\ subject = "json"
    /\ JsonNext
    /\ UNCHANGED <<stringVars, bsVars, b85Vars, inflateVars, vars, subject>>

BitStreamStep ==
    /\ subject = "bitstream"
    /\ BitStreamNext
    /\ UNCHANGED <<stringVars, jsonVars, b85Vars, inflateVars, vars, subject>>

Base85Step ==
    /\ subject = "base85"
    /\ Base85Next
    /\ UNCHANGED <<stringVars, jsonVars, bsVars, inflateVars, vars, subject>>

InflateStep ==
    /\ subject = "inflate"
    /\ InflateNext
    /\ UNCHANGED <<stringVars, jsonVars, bsVars, b85Vars, vars, subject>>

ConfigStep ==
    /\ subject = "config"
    /\ Next
    /\ UNCHANGED <<stringVars, jsonVars, bsVars, b85Vars, inflateVars, subject>>

UtilitiesNext ==
    \/ StringStep
    \/ JsonStep
    \/ BitStreamStep
    \/ Base85Step
    \/ InflateStep
    \/ ConfigStep

\* A call of a function of the library goes on until it returns.
UtilitiesSpec ==
    /\ UtilitiesInit
    /\ [][UtilitiesNext]_utilityVars
    /\ WF_stringVars(subject = "vstring" /\ FinishAppend)
    /\ WF_inflateVars(subject = "inflate" /\ InflateLoop)

\* Every loop of these functions ends, whatever its input; that of
\* la_vstring_grow, as long as its sizes fit a size_t.
LoopsEnd == AppendEnds /\ InflateEnds

-----------------------------------------------------------------------------
MCLengths == 0 .. SizeMax

\* Octets whose bits differ in every place, and none in its neighbours.
MCChunks ==
    LET a == <<1, 0, 0, 1, 0, 1, 1, 0>>
        b == <<0, 1, 0, 0, 1, 1, 0, 1>>
    IN  {<<>>, <<a>>, <<b, a>>}

\* Up to four words, and up to 16 words that are all zero, each cut anywhere.
MCSentWords ==
    UNION {[1 .. n -> Base85Words \union {Zero}] : n \in 1 .. 4}
        \union {[i \in 1 .. n |-> Zero] : n \in 5 .. 16}

MCTexts ==
    UNION {{SubSeq(Encoded(words), 1, cut) : cut \in 1 .. Len(Encoded(words))} : words \in MCSentWords}

MCContents == 0 .. 50

MCValues == [boolean |-> {v0, v1}, integer |-> {v0, v1}, double |-> {v0}, string |-> {x, y, NULL}]

MCDefaults ==
    [n \in Names |-> IF n = bearer THEN [type |-> "integer", value |-> v1] ELSE NULL]
=============================================================================
