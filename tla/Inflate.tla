------------------------------ MODULE Inflate -------------------------------
(***************************************************************************)
(* la_inflate (util.c): zlib's inflate is called until it has written the  *)
(* whole content, into a buffer that starts at four times the size of the  *)
(* input and grows by as much, up to a limit.  The callers then store a    *)
(* terminator after the content.  If zlib cannot be initialised, there is  *)
(* no buffer, and la_inflate returns at once.  Of the stream the model     *)
(* keeps what it does to the loop: how long its content is and how it ends. *)
(***************************************************************************)
EXTENDS Integers

CONSTANTS
    InflateInputs,      \* sizes of compressed data
    Contents,           \* how much a stream yields until it ends, in octets
    MaxInflatedLen      \* MAX_INFLATED_LEN

\* A stream is complete, or stops too early, or goes wrong.
StreamEnds == {"complete", "truncated", "bad"}

ASSUME InflateAssumption ==
    /\ InflateInputs \subseteq Nat \ {0}
    /\ Contents \subseteq Nat
    /\ MaxInflatedLen \in Nat

VARIABLES
    inf_len,        \* of Contents
    inf_end,        \* of StreamEnds
    inf_chunk,      \* chunk_len
    inf_out_len,    \* the size of outbuf
    inf_avail,      \* avail_out of the stream
    inf_input,      \* whether avail_in is positive
    inf_total,      \* total_out of the stream
    inf_ret,        \* what inflate has returned
    inf_pc

inflateVars ==
    <<inf_len, inf_end, inf_chunk, inf_out_len, inf_avail, inf_input, inf_total, inf_ret, inf_pc>>

InflateInit ==
    /\ inf_len = 0
    /\ inf_end = "complete"
    /\ inf_chunk = 0
    /\ inf_out_len = 0
    /\ inf_avail = 0
    /\ inf_input = FALSE
    /\ inf_total = 0
    /\ inf_ret = "Z_OK"
    /\ inf_pc = "idle"

\* inflateInit2 succeeds, and the first buffer is allocated.
InitSucceeds(in_len) ==
    /\ inf_chunk' = 4 * in_len
    /\ inf_out_len' = 4 * in_len
    /\ inf_avail' = 4 * in_len
    /\ inf_input' = TRUE
    /\ inf_ret' = "Z_OK"
    /\ inf_pc' = "inflate"

\* zlib has no memory for its state: the result is all zero, with buf NULL.
InitFails ==
    /\ inf_ret' = "Z_MEM_ERROR"
    /\ inf_pc' = "done"
    /\ UNCHANGED <<inf_chunk, inf_out_len, inf_avail, inf_input>>

InflateStart(in_len, len, end) ==
    /\ inf_pc = "idle"
    /\ inf_len' = len
    /\ inf_end' = end
    /\ inf_total' = 0
    /\ InitSucceeds(in_len) \/ InitFails

Yield == IF inf_len - inf_total < inf_avail THEN inf_len - inf_total ELSE inf_avail

\* A call of zlib's inflate with Z_FINISH.  When the buffer is full all input
\* may have been consumed or not, and the end of the stream is noticed now or
\* by the next call, which writes nothing.
ZlibInflate ==
    /\ inf_pc = "inflate"
    /\ inf_total' = inf_total + Yield
    /\ inf_avail' = inf_avail - Yield
    /\ \/ /\ inf_total' = inf_len
          /\ inf_end = "complete"
          /\ inf_ret' = "Z_STREAM_END"
          /\ UNCHANGED inf_input
       \/ /\ inf_total' = inf_len
          /\ inf_end = "bad"
          /\ inf_ret' = "Z_DATA_ERROR"
          /\ UNCHANGED inf_input
       \/ /\ inf_total' = inf_len
          /\ inf_end = "truncated"
          /\ inf_ret' = "Z_BUF_ERROR"
          /\ inf_input' = FALSE
       \/ /\ Yield > 0
          /\ inf_avail' = 0
          /\ inf_ret' = "Z_BUF_ERROR"
          /\ inf_input' \in {inf_input, FALSE}
    /\ inf_pc' = IF inf_ret' = "Z_BUF_ERROR" THEN "loop" ELSE "end"
    /\ UNCHANGED <<inf_len, inf_end, inf_chunk, inf_out_len>>

LimitReached == inf_out_len + inf_chunk > MaxInflatedLen

FreeAfterGrowth == inf_chunk

GrowOutput ==
    /\ inf_pc = "loop"
    /\ inf_avail = 0
    /\ ~LimitReached
    /\ inf_out_len' = inf_out_len + inf_chunk
    /\ inf_avail' = FreeAfterGrowth
    /\ inf_pc' = "inflate"
    /\ UNCHANGED <<inf_len, inf_end, inf_chunk, inf_input, inf_total, inf_ret>>

TruncatedInput == inf_avail # 0 /\ ~inf_input

GiveUp ==
    /\ inf_pc = "loop"
    /\ \/ inf_avail = 0 /\ LimitReached
       \/ TruncatedInput
    /\ inf_pc' = "end"
    /\ UNCHANGED <<inf_len, inf_end, inf_chunk, inf_out_len, inf_avail, inf_input, inf_total, inf_ret>>

\* Mutant: no octet is added to a full buffer.
AsItIs == inf_out_len

WithTerminator == IF inf_avail = 0 THEN inf_out_len + 1 ELSE inf_out_len

InflateReturns ==
    /\ inf_pc = "end"
    /\ inf_out_len' = WithTerminator
    /\ inf_pc' = "done"
    /\ UNCHANGED <<inf_len, inf_end, inf_chunk, inf_avail, inf_input, inf_total, inf_ret>>

InflateLoop ==
    \/ ZlibInflate
    \/ GrowOutput
    \/ GiveUp
    \/ InflateReturns

InflateNext ==
    \/ \E in_len \in InflateInputs, len \in Contents, end \in StreamEnds : InflateStart(in_len, len, end)
    \/ InflateLoop

\* la_inflate is one function: it goes on until it returns.
InflateSpec == InflateInit /\ [][InflateNext]_inflateVars /\ WF_inflateVars(InflateLoop)
-----------------------------------------------------------------------------
\* Mutant: only data errors are failures.
NoDataError == inf_ret # "Z_DATA_ERROR"

Success == inf_ret = "Z_STREAM_END"

HasBuffer == inf_ret # "Z_MEM_ERROR"

\* What zlib has written and what it may still write is the buffer.
InflateTypeOK ==
    /\ inf_len \in Nat
    /\ inf_end \in StreamEnds
    /\ inf_chunk \in Nat
    /\ inf_out_len \in Nat
    /\ inf_avail \in Nat
    /\ inf_input \in BOOLEAN
    /\ inf_total \in Nat
    /\ inf_ret \in {"Z_OK", "Z_MEM_ERROR", "Z_BUF_ERROR", "Z_DATA_ERROR", "Z_STREAM_END"}
    /\ inf_pc \in {"idle", "inflate", "loop", "end", "done"}
    /\ inf_pc # "done" => inf_total + inf_avail = inf_out_len

(***************************************************************************)
(* The terminator that the callers store after the content is inside the   *)
(* buffer, also when the content fills it exactly.  Without a buffer there *)
(* is no place for it: la_miam_core_v1_data_parse and its sibling for      *)
(* version 2 store it all the same, la_ohma_parse_and_reassemble does not. *)
(***************************************************************************)
TerminatorFits == inf_pc = "done" /\ HasBuffer => inf_total < inf_out_len

(***************************************************************************)
(* However much a stream would yield, no more is allocated than the limit  *)
(* or the first estimate, and the terminator.                              *)
(***************************************************************************)
AllocationBounded ==
    inf_out_len <= (IF inf_chunk > MaxInflatedLen THEN inf_chunk ELSE MaxInflatedLen) + 1

(***************************************************************************)
(* The buffer la_inflate returns is neither too small nor too large.       *)
(***************************************************************************)
OutputInBuffer == TerminatorFits /\ AllocationBounded

(***************************************************************************)
(* Success is reported for a complete stream only, with all of its         *)
(* content, and always when zlib works and the limit leaves room for it.   *)
(***************************************************************************)
SuccessIsWhole ==
    inf_pc = "done" =>
        /\ Success => inf_end = "complete" /\ inf_total = inf_len
        /\ (HasBuffer /\ inf_end = "complete" /\ inf_len + inf_chunk <= MaxInflatedLen) => Success

\* The loop ends for every stream.
InflateEnds == inf_pc = "inflate" ~> inf_pc = "done"
=============================================================================
