# A verification of libacars in TLA+

libacars decodes the payloads of ACARS messages: an application receives blocks
from a radio, hands each to a parser of the library and gets back a tree of
protocol nodes to print as text or JSON.  What the library keeps between calls
is the *reassembly engine*, which collects the fragments of long messages, the
hash tables it stores them in, and the configuration.  The engine is where the
library can go wrong in ways a unit test hardly reaches, because its input is
whatever a radio link makes of what was sent, so it is what this project models,
checks and proves things about first.  The rest is decoding: loops over input
that may end anywhere, buffers that grow, checksums, and formats of which the
project says what they owe the other end.

Paths below are relative to the repository, `src/libacars/` unless said
otherwise.

## 1. Inventory

| component | state | operations | what makes it correct |
|---|---|---|---|
| Reassembly engine (`reassembly.c`) | a context: a list of tables, one per protocol; a table: a hash of entries keyed by packet identifiers, a counter of calls; an entry: fragment list, previous number, totals, time of the first fragment, timeout | `la_reasm_ctx_new`, `la_reasm_table_new`, `la_reasm_table_lookup`, `la_reasm_fragment_add`, `la_reasm_payload_get`, `la_reasm_ctx_destroy` | a payload handed up is a whole message; messages of different keys do not disturb each other; nothing is kept for ever; nothing is lost that arrives in time |
| Hash table (`hash.c`) | 173 buckets, lists of key and value pointers it owns | new, lookup, insert, remove, `foreach_remove`, destroy | behaves as a map; frees every key and value once |
| Linked list (`list.c`) | nodes | append, insert, prepend, `insert_sorted`, free | sorted insertion is stable and loses nothing |
| ACARS parser (`acars.c`) | none of its own; a table in the context | parses a block, builds a fragment from its block identifier or message number, reassembles, decodes applications | each message decoded once, complete; uplinks wrap at 23 blocks |
| MIAM ACARS CF (`miam.c`) | a table in the context | frames: single transfer, file transfer request, segment, accept, abort, xoff, xon | a file is the segments of one request |
| MIAM CORE (`miam-core.c`) | none | decodes the BASE85 header and body of a PDU, parses a data unit, decompresses its body | data without an error is the data that was sent; no read past the header; the output buffer grows in time |
| OHMA (`ohma.c`) | a table in the context | finds the start of a message, skips a repeated first block, decodes base64, inflates, reassembles by conversation identifier | content just when all of it is there; parts in any order |
| Configuration (`configuration.c`) | one global hash of typed options | lazy init, set, get, unset, destroy | a value is read with the type it was set with |
| Protocol tree (`libacars.c`), JSON writer (`json.c`), growing strings (`vstring.c`) | a chain of nodes; a string buffer | format, append, object and array start and end | balanced JSON, commas in the right places; room for the terminator |
| Bit streams (`bitstream.c`) | a buffer and two positions in it | append, read | a queue of bits, in its buffer |
| CRC (`crc.c`), codecs, `la_inflate` (`util.c`) | none; a buffer that grows | checksums, hex and base64, inflation | against their definitions; the inflate loop ends and grows its buffer |
| ARINC 622 (`arinc.c`) | none | finds the application's name behind a ground address, decodes octets, checks their checksum, passes them on | a message is recognised as what it is; a good checksum means all has arrived |
| ADS-C (`adsc.c`) | a static pointer to the table of tags; a list of tags while it runs | loops over tags, groups and requests | reads inside the message, ends, and shows the tags that arrived |
| CPDLC (`cpdlc.c`, `asn1-util.c`) over the PER codecs of `asn1/` | none | decodes one of two types by the direction of the message | what arrives whole is what was sent; what does not is an error |
| Media Advisory (`media-adv.c`) | none | checks a fixed format | valid just when all characters are |
| Dictionaries, formatting (`asn1-format-*.c`, `*_format_*`) | none | tables and layouts | - |
| `src/examples` | none | command line front ends | - |

How they interact:

- Everything runs in the caller's thread, call by call; there are no callbacks
  into the library and no locks.  The hazards are therefore not those of threads
  but of *input*: which fragments arrive, in which order, how often, when, and
  for which of several messages in progress.
- `la_acars_parse_and_reassemble` (`acars.c`), `la_miam_file_segment_parse` and its
  sibling for requests (`miam.c`) and `la_ohma_parse_and_reassemble` (`ohma.c`) find
  or make their table in the context the application passes, build a
  `la_reasm_fragment_info`, call `la_reasm_fragment_add`, and if it returns
  `LA_REASM_COMPLETE` call `la_reasm_payload_get` before they return.
- The engine asks the protocol for a key (`get_key`, `get_tmp_key`) and keeps the
  entry under it in a `la_hash`; every so many calls it removes the expired
  entries with `la_hash_foreach_remove`.
- `la_acars_decode_apps` tries the applications by the label of the message:
  ARINC 622, which passes octets on to ADS-C or CPDLC, MIAM, OHMA, Media Advisory.
  The first that knows the text makes a node of it.
- The arrival time is an argument.  The engine has no timer: an entry goes only
  when some call happens to look.

What is hard, in short (each item with its line is under "hazards" in
`PROJECT.json`): loss, repetition and reordering of fragments; wraparound of
block numbers; late fragments of finished messages that start an entry of their
own; keys used again; clocks that jump; cleanup in the middle of other messages;
totals that become known late; the arithmetic of timeouts; ownership of keys
across a two-pass removal; use of the configuration after its destruction;
messages that end anywhere, lengths that are subtracted before they are compared,
output larger than estimated, and state that one message leaves for the next.

## 2. The modules

| module | what it is |
|---|---|
| `Reassembly` | one reassembly table: `la_reasm_fragment_add`, one action per way it returns, and `la_reasm_payload_get` |
| `ReassemblyProofs` | theorems about `Reassembly`, for all values of its constants |
| `MCReassembly` | instances of `Reassembly` for TLC: the fragments `acars.c`, `miam.c` and `ohma.c` build, and any order of calls |
| `ReasmLink` | composition: sender, radio link, the engine, and the caller that fetches payloads |
| `MCReasmLink` | instances of `ReasmLink` |
| `ReasmLinkProofs` | theorems about `ReasmLink`, and that it implements `MessageDelivery` |
| `MessageDelivery` | the abstract specification: what reassembly promises the layers above |
| `HashTable` | `hash.c` over `list.c`: buckets, and the memory of keys and values |
| `MCHashTable` | an instance of `HashTable` |
| `KeyedMap` | the abstract specification of the hash table: a map |
| `HashTableProofs` | theorems about `HashTable`, and that it implements `KeyedMap` |
| `AcarsDecoder` | composition: `acars.c` and `miam.c` over two instances of `Reassembly` in one context |
| `MCAcarsDecoder` | instances of `AcarsDecoder`: files and the blocks they are sent in |
| `AcarsDecoderProofs` | theorems about `AcarsDecoder`, and that it implements `MessageDelivery` |
| `Configuration` | `configuration.c`: typed options and the memory of their texts |
| `OptionStore` | the abstract specification of the configuration |
| `ConfigurationProofs` | theorems about `Configuration`, and that it implements `OptionStore` |
| `GrowingString` | `vstring.c`: appends and the growth of the buffer |
| `JsonWriter` | `json.c` and the traversal of the protocol tree in `libacars.c` |
| `BitStream` | `bitstream.c` |
| `BitQueue` | the abstract specification of a bit stream |
| `Base85`, `Inflate` | the two decoders with a buffer that grows: `la_base85_decode` (`miam-core.c`), `la_inflate` (`util.c`) |
| `UtilitiesProofs` | theorems about both, about `GrowingString`, `JsonWriter`, and `BitStream`: that it implements `BitQueue` |
| `MCUtilities` | instances of `GrowingString`, `JsonWriter`, `BitStream`, `Base85`, `Inflate` and `Configuration` |
| `Adsc` | the parser of `adsc.c`, every iteration of its loops a step |
| `AdscProofs` | theorems about `Adsc`, for messages of any length; that it follows the reports of `AdscSender` |
| `Crc`, `AppText` | the checksums of `crc.c`; texts of applications as rows of tokens |
| `Arinc622`, `MiamCore`, `Ohma`, `MediaAdv` | the parsers of `arinc.c`, `miam-core.c`, `ohma.c`, `media-adv.c` |
| `Uper` | the unaligned PER codecs of `asn1/` |
| `AsnTypes`, `FansTypes`, `FansMessages` | kinds of descriptors; the 213 types of CPDLC in `asn1/`, one definition for each file |
| `CpdlcParser` | `cpdlc.c` and `la_asn1_decode_as` |
| `AcarsApps` | composition: `la_acars_decode_apps` over all of these |
| `AdscSender`, `CpdlcSender`, `AppsSender` | the other end: messages, what may happen to them on the way, and what the decoder owes |
| `MCApplications` | the messages that TLC sends |
| `AppsProofs` | theorems about `AppsSender`, for every set of messages, and about the checksum of ARINC 622 |

### 2.1 `Reassembly`

| model | code |
|---|---|
| `fragment_table[k]`, a `TableEntry` or `NULL` | `la_reasm_table.fragment_table`, one `la_reasm_table_entry` per key |
| `frag_cnt` | `la_reasm_table.frag_cnt` |
| `last` | the return value of the last call and the arguments properties refer to; no action reads it |
| `FragmentInfo` | `la_reasm_fragment_info`; `msg_info` is the key `get_key` derives from it |
| `Protocol[k]` | the constants of the protocol a key belongs to: ordering flag, first number, wrap |
| `RejectInvalidArgs` | the three early returns of `la_reasm_fragment_add` |
| `SkipUnfragmented` | `LA_REASM_SKIPPED` |
| `RejectNotFirst` | the first fragment seen is not the first of a message |
| `SkipDuplicate` | `LA_REASM_DUPLICATE` |
| `AbortOutOfSequence` | a gap: entry removed, `LA_REASM_FRAG_OUT_OF_SEQUENCE` |
| `AddFragment` | the fragment is appended or inserted, totals updated, `COMPLETE` or `IN_PROGRESS` |
| `Return` | the common end: count the call, clean up when due |
| `PayloadNotFound`, `PayloadEmpty`, `PayloadTaken` | the three ways out of `la_reasm_payload_get` |

A call is one step: the library is single threaded and a call does not block.
The hash is a function from keys to entries; `la_list_append` and
`la_list_insert_sorted` are operators on sequences.  Payload contents are model
values with a length.  `goto restart` after an expired entry is found is the
operator `Current`: the second search finds nothing.  Times are seconds and
microseconds, and the comparison of deadlines is translated with its carry, since
one property is about it.

Assumptions, in the module: `ConstantsAssumption` gives the constants their types.
`CallersAssumption` is what `reassembly.h` asks of callers: numbers are not
negative and not below the protocol's first one, and a key always belongs to one
protocol.  (`acars.c` computes the number from a character and can produce a
negative one, see 3.3.)

### 2.2 `ReasmLink` and `MessageDelivery`

Messages have a key, a length and a first number.  `Send` puts one on the air,
where its fragments stay for `Lifetime` seconds.  On a *radio* link any of them
may arrive, any number of times, in any order or never (`RadioSpec`).  On an
*orderly* link (`OrderlySpec`) they arrive in order, within the lifetime, with
repetitions and interleaved with those of other messages.  `Accept` is what all
callers do with a fragment, `Fetch` the `la_reasm_payload_get` that follows a
`COMPLETE` before anything else happens.

`KeyFree` says when the sender may use a key again: when the fragments of the
last message under it are off the air and an entry they left has reached its
timeout.  Downlink message numbers, file identifiers and conversation
identifiers go through a cycle first.  Uplinks follow each other at once, under
one key; there the block numbers go on from one message to the next, and
`NumbersAssumption` says that two messages of such a key share no number.  It says so of all
messages of the key, not only of those under way together, so there are no more of
them than the numbers allow (23 in ACARS, taken in turn).
`SendersAssumption` says what the senders keep to: no message has more parts than
there are numbers, it begins with the first number its protocol prescribes, no protocol
both wraps and reorders, and the last part of a message is not empty (what
`la_reasm_payload_get` makes of an empty one is in `reasm_empty_payload`).

`MessageDelivery` is the promise: what is handed up is the body of one message
that was sent, without its first parts where the protocol does not mark the
first fragment (uplinks).  A message may be lost, and may be handed up more than
once.  The refinement maps `sent` to the messages sent and `received` to the
payloads delivered; TLC checks `Promise!Spec` as a property of `RadioSpec`, one group
of messages at a time (`MCRadioSpec`), and `ReasmLinkProofs` proves it.

### 2.3 `HashTable` and `KeyedMap`

| model | code |
|---|---|
| `buckets[b]`, a sequence of pairs of cells | `la_hash.buckets[b]`, a list of `la_hash_element` |
| `key_at[c]` | the key in the memory at `c`, `NULL` when it is free |
| `values` | the values that are allocated |
| `HashLookup`, `HashInsert`, `HashRemove`, `HashDestroy` | `la_hash_lookup`, `_insert`, `_remove`, `_destroy`; the first ends in `la_hash_lookup_list_node`, here `Matches`, `Node`, `ElementOf` |
| `ForeachRemove`, `Visit`, `NextBucket`, `AllVisited`, `RemoveCollected`, `AllRemoved` | the two passes of `la_hash_foreach_remove`, node by node |
| `result` | the last return value |

Comparing a key that has been freed would be undefined; `RemoveCollected` can
take a collected pointer only if its key is still there, so that a table that
freed one would deadlock, and `CollectedKeysLive` says directly that it never
does.  All users in the library give both destroy functions and insert memory
they have just allocated, and so does the model (`key_at[c] = NULL`, `v \notin
values` before the call).  After `la_hash_destroy` the user goes on with a new
table in the same memory.  `if_func` may choose any nodes (`chosen`); it is called
once per node and does not touch the table.

`KeyedMap` has the same operations on a function from keys to values, with the
removal of any set of keys as one step.  `Contents` maps a table to such a
function: while the second pass runs, entries whose keys are collected count as
removed already.

`Reassembly` does not extend `HashTable`: it uses the map, which is what the
refinement is for.

### 2.4 `AcarsDecoder`

| model | code |
|---|---|
| `Acars`, `Miam` | two tables, instances of `Reassembly` with the variables `acars_*` and `miam_*` |
| `rtables` | the list of tables of the `la_reasm_ctx` |
| `config` | the options `decode_fragments` and `acars_bearer` |
| `pc` | where `la_acars_parse_and_reassemble` is: after reassembly (`text`), before the applications (`apps`), in `la_miam_file_segment_parse` (`segment`), returned (`done`) |
| `msg` | the fields of `la_acars_msg` that decide something |
| `decoded` | complete files passed to `la_miam_core_pdu_parse` |
| `ParseBlock`, `RejectBlock`, `EmptyUplink` | the parser up to `la_reasm_fragment_add`, its `goto fail`, and the uplink without text |
| `SeqNum`, `ReasmTimeout`, `AcarsInfo` | the arguments computed from the header and the bearer's profile |
| `TakeReassembled`, `TakeOwnText` | whose text becomes `msg->txt` |
| `Withheld`, `WithholdText` | `decode_fragments` while a message is not complete |
| `FileTransferRequest`, `FileSegment`, `FileComplete`, `SegmentOnly`, `OtherText` | the MIAM frames |
| `TreeDestroy`, `Configure`, `ContextDestroy` | what the application does between calls |

A text is a sequence of pieces, one per block, so that what a frame looks like
when it is handed on too early is visible: a segment is recognised by its first
piece, a request only when it is whole, since its length is checked.  Of the
applications only MIAM has state; `OtherText` stands for the rest.  The link is that of
`ReasmLink`, one level up: the sender sends files, and `IdFree` gives a file
identifier the same rest that `KeyFree` gives keys.  The abort frame is therefore
without effect in the model as in the code.  Blocks with a wrong CRC that parse
are reassembled by the code like any other; the model damages blocks only so
that they are rejected.

Assumptions: `FilesAssumption` says what a file is, a request and segments numbered
without a gap, which is what the senders' end of MIAM does.  `HeadersAssumption` says
how blocks are numbered, and that two messages under one key have no number in
common: the key of a downlink contains its message number, so that there it says
that message numbers are not used twice (a key used again is the subject of `ReasmLink`),
and two uplinks under a key are consecutive ones of a sender that goes on counting.
`OptionsAssumption` gives the timeouts and intervals their types: those of a bearer with
a profile are not zero in the code, and a bearer without one has no timeouts.

### 2.5 `Configuration` and `OptionStore`

| model | code |
|---|---|
| `config` | the global pointer: `NULL`, a table, or a table that has been freed |
| `items[n]` | the `la_config_item` of an option; of a string, the cell of its text |
| `text_at[c]` | the text in a cell, `NULL` when it is free |
| `borrowed` | the pointer the application got from `la_config_get_str`, as long as it is of use |
| `Items` | the table a call works on, made by `la_config_init` if there was none |
| `SetPlain`, `SetStrNull`, `SetStr`, `SetNullName` | the four `la_config_set_*` |
| `Get`, `Unset`, `ConfigInit`, `Destroy` | the functions of these names |

The hash is the map that `HashTable` is proved to implement, and `CellsOf` what its
destructor of values frees.  An application may pass back a borrowed text,
also to the option it belongs to.  Every call is guarded by `Usable`: the model is of
applications for which `la_config_destroy` is the last call, since it leaves the
global pointer to the table it has freed.

`OptionStore` is what the documentation describes: options with types and
values that start with their defaults.  Its `result` includes what was asked
for, so that the text stored is tied to the text given.

### 2.6 `GrowingString`

`len`, `allocated_size`, `space_needed` and `new_size` are the code's variables; `written` is how
far the last call wrote, NUL included.  One append is several steps (`pc`):
the first attempt, each doubling, the assertion on the size, the reallocation,
and the second attempt.  Sums and the doubling are taken modulo `size_modulus`, as a
`size_t` does; which width the library is built for is chosen at the start from
`SizeModuli`.  `SizeAssumption` is what `INT_MAX` and `size_t` have in common on every
platform: twice the limit and one fits, which on i686 is 2^32 - 1, the largest number there is.  There, sums do not wrap
but the doubling can, from 2^31 to 0 (finding 4).  After the assertion has failed
(`aborted`) nothing more happens.

### 2.7 `JsonWriter`

The output is a sequence of tokens: brackets, commas, `key` and `value`.  The
functions of `json.c` are operators on it.  `NodeStart`, `LastNode` and `NodeEnd` are the
recursion of `la_proto_node_format_json` on its way down and up; in between a node's
`format_json` (`FormatJson`) makes any calls that a well-behaved one makes: keys in
objects, none in arrays, every container closed.  That the functions in `adsc.c`,
`cpdlc.c`, `miam*.c` and `media-adv.c` are well behaved is assumed.

The reader (`Reads`) is the grammar of JSON as an automaton, written
independently of the writer.

### 2.8 `BitStream` and `BitQueue`

`bs_start`, `bs_end` and `bs_len` are the fields of `la_bitstream_t`; the tests of the
room (`ChunkFits`) and of the bits there are (`WordThere`) add and multiply modulo
`WordModulus`, as 32-bit unsigned numbers do.  `StreamAssumption` keeps sizes far
enough below it, as all callers do.  `AppendMsbFirst` and `ReadWordMsbFirst` are the two
calls; a word is the sequence of its bits.  `BitQueue` is what ADS-C relies on.

### 2.9 `Base85` and `Inflate`

One iteration of a loop is a step.  In `Base85` (`b85_size`, `b85_out`, `b85_at`) a `z` stands
for a whole word, so the estimate by groups of five characters can be too small, and
the buffer grows by a quarter (`Grown`).  A character is the digit of a word it is at
the place of; a group that is not the five digits of one word makes `Garbage`.

In `Inflate`, zlib is external: `ZlibInflate` yields as much of the content as there is room
for, and returns what it returns for a stream that is complete, truncated or bad.
`InflateStart` has both outcomes of `inflateInit2`, `InitSucceeds` and `InitFails`; after the
second there is no buffer (`HasBuffer`) and `la_inflate` returns without success.  The
models of MIAM CORE and OHMA that call it take zlib to work.
`GrowOutput`, `GiveUp`, `TruncatedInput` and `InflateReturns` are the branches of the loop.

### 2.10 `Adsc`

| model | code |
|---|---|
| `adsc_buf`, `adsc_at` | `buf` with `len`, and how far the pointer has moved |
| `adsc_read` | how far the call has read: a ghost for `AdscReadsInside` |
| `adsc_table` | the static `tag_table`, set by the direction at each call and left for the next |
| `adsc_tags`, `adsc_err` | `tag_list` and `err` of the message; a tag with data and no type is one `la_adsc_tag_destroy` cannot free |
| `adsc_pc` | which loop: over tags (`tags`), groups of a non-compliance (`groups`), items of a contract request (`request`), or the disconnect's reason (`reason`) |
| `UnknownTag`, `EmptyTag`, `FixedTag`, `NackTag`, `NoncompTag`, `NoncompGroup`, `NoncompReturns`, `RequestTag`, `RequestItem`, `RequestReturns` | the parsers of the tags, with their tests of the length |
| `AdscReturns`, `AdscDestroy` | the end of `la_adsc_parse`, and `la_adsc_destroy` |

Fields with a fixed layout are read through a bit stream; the model keeps how many
bits they take (`Fields`) and that they fit.

### 2.11 Applications

`AppText` has a text as a row of tokens, each with the number of characters it stands
for, since parsers tell messages by characters at certain places and by their
length.  `Arinc622` finds the name of the application and checks the ground address
before it, decodes the digits after it, and takes the checksum of `Crc` over name,
registration and octets.  The length without the checksum, `LenStripped`, is handed to the parsers
beside the octets: with less than two octets of payload it is negative, as the `int`
is that `arinc.c:191` makes of it.  `la_adsc_parse` takes it for no octets; `CpdlcParse`
fails, since less than no bits are left (`per_support.c:47`).  `MiamCore` takes a PDU as its parts (padding, delimiter, the
octets `Base85` gives) and follows the parser of data units, error by error.  `Ohma`
has the search for the start of a message and the skipping of a repeated first
block; `MediaAdv` the format, character by character.  `AcarsApps` has the choice by
label, the sublabel and MFI in front of the text of `H1`, and the node that results.
`node.next` is the node that `la_cpdlc_parse` makes, linked to that of ARINC 622; that of
ADS-C is in the variables of `Adsc`, whose parser takes over from `DecodeApps`.

`AppsSender` makes texts from what is to be sent.  A *sending* is a record: what is
sent, how much of it arrives, which character is changed, the label and direction it
arrives with.  `sent` keeps it, and the properties compare it with what was decoded.
What may be sent is the constant `Sendings`, of which `SendingsAssumption` says what
makes a record a sending: any reports of the tables of `adsc.c`, well formed or bad in
one of the ways `IsReport` lists; any data; blocks, links and texts of any number and length.
`MCApplications` gives TLC a set of them, and its `MCNext` leaves out of `SenderNext` the
sendings of other applications when ADS-C has left a table, which they do not look at.

### 2.12 CPDLC

`Uper` is a description of the codecs by what they do with bits: `uper_decode` goes through
a type's descriptor, of which `FansTypes` and `FansMessages` keep what PER looks at (bits and
bounds of numbers and sizes, alternatives, optional members).  A descriptor refers to
others by their names, as the C ones do by pointers, and `asn_DEF` is the table of all of
them by name.  The recursion of the C decoder over a type and the rest of the bits is one
recursive function of both, that of the encoder one of how deep a value is.  Operators have
the names of the C functions they translate.  A value is a number and the values it is
made of, for all types alike.  Facts about the types that the codecs of the model rely
on: none refers to itself, so the guard of the stack never stops a decoder; none is
extensible, has defaults, or a size that is not constrained.  Decoded numbers and sizes
are not compared with the upper bounds of their constraints (`asn_check_constraints` is
never called), and the model's are not either.

libacars does not use the encoders.  They are modelled, without the values that they
refuse, because the other end uses such a thing, and is the reference that decoding
is checked against.

## 3. What is checked

All runs are exhaustive within their bounds.

| run | question | properties |
|---|---|---|
| `reasm_tables` | the engine alone, any fragments at any times: a downlink and an uplink of `acars.c`, two files of `miam.c` (an empty first fragment gives the length), two conversations of `ohma.c` (parts in any order) | `TypeOK`, `InOrderGapless`, `CompleteIsReady`, `NothingLeftBehind`, `DuplicateIsStored`, `NoStaleMix`, `OutOfOrderSorted`, `TotalsMatchList`, `OthersUntouched`, `FragmentsKept` |
| `link_radio` | lossy link: two downlinks with one message number and an uplink; two uplinks at once, the first wraps; or two messages of one conversation | `LinkInv`, `OnlyWholeMessages` |
| `link_orderly` | orderly link | `EveryMessageArrives` |
| `hash_map` | a hash table of two buckets, four keys | `EachKeyOnce`, `Owned`, `CollectedKeysLive`, `IsMap` |
| `acars_radio` | lossy link: two files under one identifier as downlinks, or two as uplinks, whose messages share a key and wrap; the bearer changed, contexts started over | `DecoderInv`, `OnlyWholeFiles` |
| `acars_orderly` | two files, orderly link with repetitions | `EveryFileDecoded` |
| `utilities` | growing strings, JSON, bit streams, BASE85, inflation, the options and their texts, one at a time | `InBuffer`, `SecondTimeFits`, `JsonInv`, `OutputFits`, `Base85RoundTrip`, `OutputInBuffer`, `SuccessIsWhole`, `IsBitQueue`, `LoopsEnd`, `TextsOwned`, `IsStore` |
| `applications` | messages of all applications, whole, cut, changed, repeated, under other labels and in either direction | `AdscReadsInside`, `OnlyFailedTagLeaks`, `ArincAsSent`, `AllAsSent`, `CpdlcAsSent`, `MiamAsSent`, `OhmaAsSent`, `MediaAsSent`, `AdscEnds` |
| `reasm_usec`, `reasm_empty_payload`, `acars_fragments`, `vstring_i686` | four statements of comments, documentation and an assertion | each violated, see 3.3 |

The type invariants that no run checks by itself are proved (section 4), or are part of
`LinkInv`, `DecoderInv` and `JsonInv`.

### 3.1 The properties

- `InOrderGapless`, `OutOfOrderSorted`: what a list of fragments looks like,
  whatever was lost, repeated or reordered.  The in-order code looks only at
  `prev_seq_num`; that this is enough, with wraparound, is the point.
- `TotalsMatchList`: `la_reasm_payload_get` allocates the total and copies the list.
- `CompleteIsReady`: neither the restart nor the cleanup at the end of the same
  call takes away what that call completed.
- `DuplicateIsStored`: a fragment is dropped as a duplicate only if it is stored.
- `NothingLeftBehind`: an aborted message leaves nothing for the next one to join.
- `NoStaleMix`: no fragment joins an entry that has outlived its timeout, measured
  in microseconds and not by the code's own comparison.
- `OthersUntouched`: a call for one key changes no other entry, except that
  cleanup drops those that really have outlived their timeout.
- `FragmentsKept`: until its timeout an entry goes only when it is fetched or
  aborted, and loses no fragment.
- `OnlyWholeMessages` (refinement): ghosts of finished messages, keys used
  again, timeouts and cleanups never make a payload of two messages or with a hole.
- `StaleEntriesGo` (in `LinkInv`): an entry past its timeout survives at most
  `cleanup_interval` further calls, though nobody sends another fragment of it.
- `EveryMessageArrives` (liveness): over an orderly link, every message sent is
  handed up whole.

- `EachKeyOnce`: a second element of a key, or one in the wrong bucket, would never
  be found, freed or expired.
- `Owned`: keys and values in use are those of the elements stored, each of one
  element: nothing leaks, nothing is freed twice.
- `CollectedKeysLive`: no pointer collected by `la_hash_foreach_remove` is to a key that
  its own removals have freed.
- `IsMap` (refinement): the table is a map, and the removal of all chosen entries
  takes effect as if at once.

- `SegmentsWhole` (in `DecoderInv`): no segment enters the table of files before its ACARS message was
  complete.  For downlinks with `decode_fragments` off; 3.3 says what happens otherwise.
- `OnlyWholeFiles` (refinement): two levels of reassembly with timeouts and cleanups
  of their own, the bearer changed in between and tables destroyed, hand up only
  files that were sent.
- `EveryFileDecoded` (liveness): over an orderly link both levels complete, although
  repeated blocks are duplicates below and whole frames duplicates above.

- `TextsOwned`: no text is leaked, freed early or owned by two options, and what the
  application holds is still there.
- `IsStore` (refinement): the application reads what it last wrote, with its type,
  and defaults from the start, though the table is made late.

- `InBuffer`, `SecondTimeFits`: no write past the buffer; the assertions after growth
  hold.  The two appends need different room and share one function to make it.
- `LoopsEnd` (liveness): the doubling loop of strings ends (`AppendEnds`: while what an append
  needs is below half of the modulus, which on the wider `size_t` is always), and so does
  `la_inflate`, whose zlib says the same of a full buffer and of input that stops too early.
- `LimitIsEnforced` (liveness): an append past the limit ends at the assertion that is there
  for it.
- `OutputFits`, `Base85RoundTrip`: no word is stored past a buffer whose size is an
  estimate, and decoding undoes encoding up to where a text is cut.
- `OutputInBuffer`, `SuccessIsWhole`: there is room for the terminator behind inflated
  content if there is a buffer, growth stops at the limit, and success means the whole content.
- `IsBitQueue` (refinement): bits come out in the order they went in, whatever the
  widths, and none that were not put in.

- `AdscReadsInside`, `AdscEnds`: wherever a message ends, no parser of a tag reads past it, and
  the loops end.
- `OnlyFailedTagLeaks`: at most the last tag, and only of a message with an error, is one
  that the destructor does not know how to free.
- `AllAsSent`: the tags are those of the reports that arrived, in the table of this
  message's direction, whatever the last message was.
- `ArincAsSent`: recognised just when addressed, and the checksum is good just when all of it
  arrived unchanged: `ArincRecognised`, `ArincWholeChecked`, and `ArincCutChecked` for a message
  that was cut.
- `CpdlcAsSent`: a whole message is decoded to what was sent; one that is cut, goes on, or has an
  alternative that there is not, is an error, also where so little is left that the length
  becomes negative; a changed one is never decoded to
  anything but what its bits encode.
- `MiamAsSent`, `OhmaAsSent`, `MediaAsSent`: data without an error is what was sent, and
  all that arrives undamaged is decoded.  `MiamAsSent` is three statements, `MiamIntact`,
  `MiamDecoded`, and `MiamReadsHeader`: that no octet behind a header that was cut is read.

- `DocumentComplete`, `NestingKnown` (in `JsonInv`): whatever is nested in whatever, commas and
  brackets come out right, and the library and a reader agree on what is open.

### 3.2 Bounds, and why they are enough

- *Two keys* of the same or different protocols in a table: the code treats keys
  alike, and one other key is enough to be disturbed.  `reasm_tables` has three
  tables in one run; `Tables` allows entries of one of them at a time, as the library
  never mixes them.
- *`LastSeq` 2*, one more part in one of the OHMA conversations (`Long`), lists of at
  most `MaxFragments` 3: first, middle, last, a gap and, for uplinks, a wrap after
  `LastSeq`.  `Bounded` in `MCReassembly` cuts off
  only calls that would make a list longer (uplinks go round and round).
- *`Seconds` {0, 1, 2}, timeout 1 s*: in every step the arrival time is any of
  them, so an entry is met before, at and after its deadline, and the clock goes
  backwards.  `reasm_usec` adds half-way microseconds and a timeout of 1.6 s.
- *`CleanupInterval` 1* instead of the callers' 20 or the default 100:
  cleanups happen between any two steps.
- *`MaxTime` 3, `Timeout` 1, `Lifetime` 1* in the link runs: time for a message to be
  sent, expire, and a second one to be sent under its key.  `Lifetime` is not longer
  than `Timeout`, so that a message on an orderly link can arrive.
- *`Groups`* in `link_radio` and `acars_radio`: one behaviour sends the messages (files)
  of one group.  Each group has two that share a key or an identifier; the groups
  differ in protocol.
- *Messages of two and three fragments*, the wrapping one numbered 4, 5, 0.
- *Four keys, three of them in one of two buckets*, and one more cell for keys and
  values than can be stored: first, middle, last and only nodes of a bucket are
  unlinked, a second bucket is visited, and a call always has fresh memory.
  Cells are interchangeable (`CellSymmetry`): no operation compares or orders them,
  and the run has no liveness property.
- *Files* of a request, a segment of two blocks and, for some, a second segment of
  one block: a message in progress and complete, a file
  in progress and complete.  The downlinks of `acars_radio` share their identifier, so
  that the second follows the first at its timeout; otherwise files are interleaved.  Uplinks start at block identifier `V`, so that they wrap after `W`.
- *Two options and three cells*: a text can move from one option to the other, and
  there is always a free cell for a new one.
- *A limit of 31 and an initial size of 4*: as `INT_MAX` and 256, one less than a
  power of two and a power of two; every length up to the limit, at every length of
  the string, through up to four doublings and past the limit.  The moduli are 64, which
  is to the limit as 2^32 is to `INT_MAX`, and 128, which stands for all wider ones:
  the doubling passes the limit without reaching it.
- *Three nodes and three calls* on the way: a node without a key between two with
  one, empty containers, containers in containers, a container that ends with one.
- *Bit streams of 8 and 20 bits*, chunks of up to two octets of which 3 or 8 bits are
  appended, words of 1, 5 and 12 bits: room and bits run out in the middle of both.
  The modulus of 64 is above all sums.
- *BASE85 texts of up to four words* from three, and of up to 16 zero words, each
  cut anywhere: the buffer grows twice.
- *Inflation of 1, 3 and 10 octets* to up to 50 with a limit of 36: the limit is met
  exactly, by one octet, and not at all, and content fills a buffer exactly.
- *ADS-C messages* of one or two reports of every kind of parser, cut after every
  digit (of two reports, every octet); all openings, addresses and labels with a short
  one; in either order of directions, since a message leaves its table to the next.
- *CPDLC messages* with each of the elements of both directions (183 and 129, and
  one more that there is not), six samples of each, which between them have the bounds,
  the greatest number the bits can hold, sizes, alternatives and optional members; for
  four elements of each direction, of which one is a route clearance of some two hundred
  octets, up to 100 digits cut off, and each of the first 100 digits changed.
- *MIAM units* of both versions with every length of the application's identifier, up to 7
  words of header and 2 of body; *OHMA* of 3 groups with the first block once to three
  times; *Media Advisory* of up to 13 characters, cut anywhere.
- `acars_*`, `utilities` and `vstring_i686` set `CHECK_DEADLOCK FALSE`: clocks stop at
  their bound, a destroyed configuration, an aborted string, a finished document and
  a decoder that has returned have no next call.
- The link runs set `CHECK_DEADLOCK FALSE`: with the clock at its bound, all
  messages sent and none on the air, nothing more happens.  The engine alone
  (`reasm_*`) never stops, and deadlock is checked there.

*Fairness* (only `OrderlySpec`): weak fairness of `Fetch`, because the callers fetch
in the same call that got `COMPLETE`; and each fragment that can arrive again and
again does, which is what an orderly link means.  The second is strong fairness
of `OrderlyReceive` with its enabling condition written out as `CanArrive`.  The
clock of an orderly link waits for fragments that are due (`OrderlyTick`).  On an
orderly link a wrapping protocol sees only its latest fragment repeated: an
older one cannot be told from a block of the next message, and aborts the
message.

`OrderlySpec` of `AcarsDecoder` assumes the same of the link.  Every call returns
(`[]<>(pc \in {"idle", "done"})`): some step of `Decode` is always possible while it runs, so
this is its weak fairness without trying the engine to see that it is enabled.
And the application destroys the tree it got (weak fairness of `TreeDestroy`).
`GrowingString`, `Inflate` and `Adsc` assume weak fairness of the steps of one call (`FinishAppend`,
`InflateLoop`, `AdscParserStep`): each is one function that goes on until it returns.

### 3.3 Where code and documentation disagree

1. `reasm_usec`: `la_reasm_timed_out` carries microseconds into seconds only above
   1e9, so a timeout with a microsecond part can expire almost a second early.
   The timeouts in libacars are whole seconds; applications that set their own
   are exposed.
2. `reasm_empty_payload`: a completed message whose fragments are all empty is not
   removed when it is fetched, and the next message of that key is taken for
   duplicates until the timeout.
3. `acars_fragments`: with `decode_fragments` on, a MIAM file with a segment that takes more
   than one block is lost.  The text of the first block is registered as the
   segment, and the complete one dropped as its duplicate.
4. `vstring_i686`: with a `size_t` of 32 bits, an append after which a string would have
   2^31 octets or more doubles the size from 2^31 to 0, which is never large enough; the loop
   does not end, and the assertion behind it that should stop such strings is not
   evaluated.  In the trace the size goes 4, 8, 16, 32, 0.  `LimitIsEnforced` holds with 128.

Met while modelling, without a run:

- Cleanup runs with every (`cleanup_interval` + 1)th call (`reassembly.c:435`), not with
  every `cleanup_interval`th (`src/doc/API_REFERENCE.md:1532`).  `StaleEntriesGo` is stated
  with the bound the code has.
- With reordering, the total length is taken from whichever fragment names one
  first (`reassembly.c:386`), not from the first fragment (`src/doc/API_REFERENCE.md:1618`).
- `acars.c:444` gives the engine a negative number when the block identifier of an
  uplink is less than `A`; `reassembly.h:56` asks for non-negative ones.
- After `la_config_destroy` the global pointer still points to the freed table
  (`configuration.c:186`), so that the initialisation "on first read or modification"
  (`src/doc/API_REFERENCE.md:2326`) does not happen a second time.
- The text of an uplink block out of sequence is handed on to the applications
  although it is only a part (`acars.c:471`), so that `SegmentsWhole` is false for uplinks;
  the size of the file then keeps it from being completed.

- The identifier of a data unit of MIAM version 2 is cut to six characters
  (`app_id[6]`), though the header can have seven or eight and the field has room for them.
- Of an OHMA message whose first block comes three times only one copy is skipped, and
  nothing is decoded.
- An ARINC 622 message with less than two octets of digits in its payload has a length that
  wraps when the checksum is subtracted (`arinc.c:191`).  The parser of ADS-C takes it for no
  octets and reports no error; that of CPDLC, whose test for an empty message is for zero
  (`cpdlc.c:39`), hands it to the PER decoder, where the negative number of bits fails the first
  read and is an error.
- When `inflateInit2` fails, `la_inflate` returns no buffer (`util.c:391`); `miam-core.c:592`
  and `miam-core.c:997` store a NUL through it, below a comment that says "The buffer is larger
  than len anyway" (`miam-core.c:591`).  The parser of OHMA looks at success first (`ohma.c:197`).
- A data unit of MIAM version 2 without any of its body is handed up without an error:
  nothing in it says how long it is.
- A block with a wrong CRC is parsed and reassembled like any other (`acars.c:299`); the
  node only says so.
- Numbers of CPDLC outside their constraints are decoded and shown.

## 4. What is proved

`ReassemblyProofs` proves, for all sets of keys and payloads, all arguments, all
arrival times and every cleanup interval, from `ConstantsAssumption` and
`CallersAssumption`:

| theorem | statement |
|---|---|
| `Invariance` | `Spec => []IInv` |
| `TypeCorrectness` | `Spec => []TypeOK` |
| `SoundEntries` | `Spec => []EntriesSound` |
| `TotalsRight` | `Spec => []TotalsMatchList` |
| `GaplessInOrder` | `Spec => []InOrderGapless` |
| `SortedOutOfOrder` | `Spec => []OutOfOrderSorted` |
| `CompleteThere` | `Spec => []CompleteIsReady` |
| `DuplicateThere` | `Spec => []DuplicateIsStored` |
| `AbortClears` | `Spec => []NothingLeftBehind` |
| `FreshOnly` | `Spec => []NoStaleMix` |
| `NothingLost` | `Spec => FragmentsKept` |
| `OthersAlone` | `Spec => OthersUntouched`, if timeouts are whole seconds (`WholeSecondTimeouts`) |

The invariant is `IInv == TypeOK /\ EntriesSound /\ LastCallSound`.  None of the safety
properties is inductive alone.  That a duplicate is stored depends on the list
being consecutive from its first number up to `prev_seq_num`; that it is
consecutive depends on the guard `InSequence`, which compares with `prev_seq_num`
only, so it must be the last number of the list, and on `SEQ_UNINITIALIZED` not
being a number of any fragment; completion without a list would make
`CompleteIsReady` false, so no entry is empty.  `LastCallSound` says of the last
call what the properties about results need: if it was a fragment accepted or a
duplicate, its entry is there, holds the number and has not outlived its timeout;
if it was aborted or skipped, no entry is.  The cleanup at the end of the same
call could break the first; `FreshNotTimedOut` and `SoundNotOutlived` show that it
does not, because the entry was looked at with the same time before.

The argument has three layers: lemmas about time (`DeadlineIsSum`,
`OutlivedIsTimedOut`: the code's comparison never lets an entry live too long;
`TimedOutIsOutlived`: for whole seconds it is exact), lemmas about sequences
(`InsertSortedInserts`, `InsertSortedKeepsOrder`, `RemoveInserted`), lemmas about an
entry (`BegunInOrder`, `ContinuedInOrder`, `ExtendedOutOfOrderSound`), and then one
step per way a call returns (`FragmentAddSound`, `PayloadGetSound`).  `Min` of the
community modules is a `CHOOSE`; `MinIsLeast` finds the least number by the
well-foundedness of the order on naturals, not by induction over the set.

`OthersAlone` needs `WholeSecondTimeouts` because of the carry of finding 1: without
it the theorem is false.

`TotalsRight` is about the sum of the lengths in a list, a recursive function of the list.
What it returns for a list with one more fragment, at its end or inside, is an
induction over a concrete list, which is done by a least counterexample: a set of
naturals that is not empty has a least element (`WFMin`), and the number before it is not
in the set.

`ReasmLinkProofs` proves, for any messages, timeouts, lifetimes and keys that
`LinkAssumption`, `NumbersAssumption` and `SendersAssumption` allow:

| theorem | statement |
|---|---|
| `WholeMessages` | `RadioSpec => OnlyWholeMessages`: the engine implements `MessageDelivery` |
| `StaleGo` | `RadioSpec => []LinkInv`, in which no entry outlives its timeout by more than a cleanup interval of calls |
| `OrderlyWholeMessages` | `OrderlySpec => OnlyWholeMessages /\ []LinkInv` |

Neither follows from what the engine guarantees alone, which knows nothing of messages.
The invariant `LinkIInv` adds to the engine's `IInv` that every entry holds fragments of one
message, begun while that was on the air (`EntriesOfMessages`).  In order, these are a
run of its parts, from the first unless the protocol marks none (`RunOf`); out of order,
any choice of them, with the length `MsgLen` if it is known.  Each other clause is
needed for that: that a fragment of another message under the key never continues an
entry follows from `SentApart` and from when the entry was begun where numbers do not
wrap, and from `NumbersAssumption` where they do; and `Unfinished`, that the final part is not in an
entry that is not being fetched, is what tells a finished message from one in
progress.  When the engine says `COMPLETE`, the run reaches the final part, or as
many numbers as parts are there and none is twice, so that all are there
(`AllPartsAreWhole`).  `OverdueCounted` compares the calls an entry has survived
with `frag_cnt`, and gives `StaleGo`.

`AcarsDecoderProofs` proves, for any files, frames, headers, profiles of timeouts, intervals
and lifetimes that `FilesAssumption`, `HeadersAssumption` and `OptionsAssumption` allow:

| theorem | statement |
|---|---|
| `WholeFiles` | `RadioSpec => OnlyWholeFiles`: `acars.c` and `miam.c` together implement `MessageDelivery` |
| `OrderlyWholeFiles` | `OrderlySpec => OnlyWholeFiles`, the same over the orderly link |
| `WholeSegments` | `RadioSpec \/ OrderlySpec => []DecoderInv`, if `OptionsValid` |

`WholeFiles` holds whatever the options are, though with `decode_fragments` or a bearer without a
profile parts of segments reach `miam.c`.  There they are stored as if they were the segment.
What saves the file is its length: the length of what is stored is at most that of
the segments (`HoldsFile`), every part is shorter, and the engine says `COMPLETE` only
when the lengths agree, so that then every part is all of its segment (`WholeFile`).  `WholeSegments` says when this is not
needed: `OptionsValid` is that fragments are not decoded and the bearer has a profile,
which is so in the run `acars_radio`.

Both tables are instances of `ReassemblyProofs` (`AcarsEngine`, `MiamEngine`), whose lemmas about
one call are used as they are, for the arguments that `AcarsInfo` and `MiamInfo` make
(`AcarsCall`, `MiamCall`).  The invariant `DecoderIInv` says of the first table that an entry is a
run of blocks of one frame that goes on after them, or is the complete one that the
call in progress is about to fetch (`AcarsEntries`); of the text that is passed on that it is of successive
blocks of the frame received (`TextSound`); of the second that an entry has the beginnings
of a file's first segments, and was begun while that file was on the air (`MiamEntries`).
That the next block or segment continues the same frame or file, and not another under its
key or identifier, is `NextBlock` for blocks, from their numbers, and `SentApart` for
files, from when they were sent: a second file under an identifier finds an entry that
has timed out, which the engine starts again.  For `WholeSegments` the invariant
`WholeIInv` adds that a text passed on of a segment is its frame's whole text (`WholePassedOn`).  The texts of
files are flattened sequences; what flattening does with one more sequence (`FlattenAppend`) is again
proved by a least counterexample.

`HashTableProofs` proves, for all keys, hash functions, numbers of buckets and memory
(`HashAssumption`: the number is positive, the hash is that of a bucket, `NULL` is
neither key nor value):

| theorem | statement |
|---|---|
| `TypeCorrect` | `Spec => []TypeOK` |
| `KeysStoredOnce` | `Spec => []EachKeyOnce` |
| `MemoryOwned` | `Spec => []Owned` |
| `CollectedPointersLive` | `Spec => []CollectedKeysLive` |
| `ImplementsMap` | `Spec => IsMap` |

Its invariant adds `CollectedBehind` to these: what has been collected belongs to a
node behind the cursor, so that the node visited cannot have been collected
before; without it `CollectedKeysLive` is not inductive.  The lemmas `UnlinkedPlaces`
and `UnlinkEffect`, `ReplaceEffect` and `AppendEffect` say what a call does to the places of a
bucket, and from these follow, once, that keys stay unique and memory owned, and
what the map becomes.  For the refinement `ContentsExact` describes the map by the
elements: a key has a value just if a live element holds both.  As a state
predicate that always holds it can be used before and after a step
(`ContentsAfter`), so that each call only needs to say which elements it adds or
takes.  That the count `la_hash_foreach_remove` returns is right is `LengthCounts`: the
collected keys are distinct, so there are as many as pointers.

`ConfigurationProofs` proves, for all options, values, defaults that are no texts and
cells (`ConfigAssumption`):

| theorem | statement |
|---|---|
| `TextsAreOwned` | `Spec => []TextsOwned` |
| `ImplementsStore` | `Spec => IsStore` |
| `TypeIsCorrect` | `Spec => []TypeOK` |

Its invariant adds to `TypeOK` and `TextsOwned` that there are no items without a table
(`NoItems`), so that what holds of `items` holds of `Items`, the table a call works on
(`ItemsOwned`).  All setters and `Unset` are one argument, `Replaces`: one item is
replaced, its text freed, and what the new one owns was free before.

`UtilitiesProofs` proves, for texts, streams and limits of any size, and any initial size and
width of `size_t` that `SizeAssumption` allows:

| theorem | statement |
|---|---|
| `Base85Fits` | `Base85Spec => []OutputFits` |
| `Base85Inverse` | `Base85Spec => []Base85RoundTrip` |
| `InflateBuffer` | `InflateSpec => []OutputInBuffer` |
| `InflateWhole` | `InflateSpec => []SuccessIsWhole` |
| `StringWithinLimit` | `StringSpec => []StringTypeOK` |
| `WritesInBuffer` | `StringSpec => []InBuffer` |
| `RetrySucceeds` | `StringSpec => []SecondTimeFits` |

For `Base85Inverse` the invariant says where the decoder is in an encoding, of which any
beginning may have arrived (`DecodedSoFar`): some first words have been decoded and the
decoder is at the end of their characters, of which there are one or five for each; and if
it has returned before the last word, what was cut off is in the next one.  The encoding is
a recursive function of the words.

The invariant of `Inflate` ties what zlib returned last to what it has written and to
the room it had: success is the only way to leave the loop with the stream at its end,
and room is added only below the limit.  That of `GrowingString` says what a call needs
while it grows the buffer: no more than twice the limit and one, so that no sum wraps on any
width (`SizeIsExact`).  The doubling may wrap.  But it only does from above the limit,
where what is needed is above the limit as well; so whatever it becomes then, a size that
is found large enough is either the one the code meant or one the assertion stops.

Of `BitStream` it proves, for all sizes and chunks that `StreamAssumption` allows:

| theorem | statement |
|---|---|
| `StreamInBuffer` | `BitStreamSpec => []BitStreamTypeOK`, in which `bs_start <= bs_end <= bs_len` |
| `ImplementsQueue` | `BitStreamSpec => IsBitQueue` |

No sum wraps, since positions are below the size and the size far below the modulus;
the rest is where a bit of a chunk of octets is to be found (`BitOfOctet`), and that
appending and reading sequences are what the two loops over bits do.

Of `JsonWriter` it proves `JsonIsWellFormed`, `JsonSpec => []JsonInv`: for any chain of nodes, with or
without keys, any calls they make, any nesting, and octet strings of any length, the
text is one JSON document.  The invariant `JsonIInv` relates the reader to what the writer
has in hand: while the tree is printed, the containers the reader has open are
the object of the tree, one object for each node on the way that has a key, and
those the current node has opened (`Nest`); and the last token is a comma exactly if the
innermost of them has an item (`Between`), which is all that the writer looks at
when it closes a container.
The reader is a recursive function of the text; `ReadAppend`, that one more token is one
more step of the automaton, is again proved by a least counterexample.

`AdscProofs` proves, for every message of any length and any sequence of calls:

| theorem | statement |
|---|---|
| `AdscTypes` | `AdscSpec => []AdscTypeOK` |
| `AdscStaysInside` | `AdscSpec => []AdscReadsInside` |
| `AdscLeaksAtMostOne` | `AdscSpec => []OnlyFailedTagLeaks` |
| `AdscGetsOn` | `AdscSpec => AdscAdvances`: an iteration that stays in its loop uses up octets |

Its invariant is `AdscTypeOK /\ AdscReadsInside /\ TagsSound`.  `OnlyFailedTagLeaks` is about a
parser that has returned and so not inductive: `TagsSound` says of every moment that a tag
without a type is the last one, and that either its own loop is running or parsing has
failed at it.  `AdscGetsOn` is what termination needs in every message; that the parser
therefore ends is `AdscEnds`, left to TLC.

`AppsProofs` proves, for every set of sendings that `SendingsAssumption` allows:

| theorem | statement |
|---|---|
| `ReportsDecoded` | `SenderSpec => []AllAsSent` |
| `ArincTakenAsSent` | `SenderSpec => []ArincRecognised` |
| `WholeIsChecked` | `SenderSpec => []ArincWholeChecked` |
| `OhmaDecoded` | `SenderSpec => []OhmaAsSent` |
| `MediaDecoded` | `SenderSpec => []MediaAsSent` |
| `MiamStaysInside` | `SenderSpec => []MiamReadsHeader` |
| `MiamUndamaged` | `SenderSpec => []MiamDecoded` |
| `MiamIntactUpToChecksum` | `SenderSpec => []MiamIntactOrAlike`: data without an error is what was sent, or data with the same checksum |

All but the first rest on the invariant `NodeAsDecoded`: the node is what the parsers make of
the text of the last sending.  What is left is what they make of a text of any length, which
is about sequences, and for which an argument by a least counterexample stands in for
induction (`UpTo`): the width of a text, the place of a character, the octets of a
flattened row of reports, the words of a padded row of octets.

- *ADS-C*.  `ReportsDecoded` is about a parser that runs for many steps.  Its invariant
  `SendingFollowed` says that after each of them the parser is where the reports say: between
  two reports, or between two groups or items of one, with the tags of those before it
  (`Followed`).  `AdscProofs` has that every step keeps it (`FollowedStays`), wherever the message ends;
  `AppsProofs` that the envelope gives the parser the octets that arrived, and no others
  (`ArincDecoded`), so that it begins there (`SendingBegins`).  Where it
  returns, the tags are those of the whole reports (`WholeAre`, `FailedAsSent`).
- *ARINC 622*.  What is left of the text in front of the name of the application, when sublabel, MFI
  and slash have been looked for, decides whether a payload is found (`GuessDecided`), and it is a
  ground address just when the message was opened and addressed as the code expects, for every
  label, direction and address (`FrontDecided`); a sublabel or MFI that is left makes no
  address (`NoAddress`).  The digits are cut in pairs wherever the message ends, and an
  odd one is left (`ArincDigits`).  A whole message is the octets of the front and the
  protected ones with their checksum, which is good (`SentIsGood`); a changed digit
  changes one octet, in the message or in the checksum (`AnotherOctet`, `ChangedIsBad`).
- *OHMA*.  The first block comes `copies` times.  While all that is in front of the content comes again
  in it, the code starts over from there.  The theorem says where that ends: it goes forward, to
  the beginning of a later copy, and by then what would have to come again has grown by a
  block; of two copies the content behind the second is taken, of more than two the content that is
  taken has a mark in it, which is not BASE64.
- *Media Advisory*.  The characters of the text are those of the header, the links and the slash,
  as far as they arrive, and each check of the code is about one of these places.
- *MIAM CORE*.  The words of a unit are its octets and the padding of the last word; what is left
  without the padding is what was sent, as far as it arrives.  A header that is cut is always an error, since
  each field is read only if it is there; of a version 1 body the length in the header says how much
  there must be; a compressed one, cut, is not a whole stream.  What remains is damage that keeps the
  checksum, and an uncompressed body of version 2 that is cut, where the checksum is the only sign.

Of the checksum of ARINC 622 it proves, for octets of any number:

| theorem | statement |
|---|---|
| `OneOctetTells` | octets that differ in just one have different checksums |
| `ChecksumGood` | octets with their own checksum, inverted, behind them leave 7439 (0x1d0f), which is what `arinc.c` compares with |

One turn of the loop is one to one in the register for each octet, and in the octet for each
register (`ShiftedTells`, `LoopTells`), so that a register that is wrong once stays wrong while the octets
that follow are the same.  For the first, `LowerOctetTells` says that the lower octets of the 256 entries of
the table are different: each bit of an entry is an exclusive or of bits of its octet, which ones is found by
following a row of sixteen bits through eight shifts (`ShiftMoves`, `EightMoves`, `TableBits`).
For the second, the inverted checksum behind leaves the register whatever the octets
were, which takes two entries (`TwoEntries`).

Only model-checked:

- `CpdlcAsSent`: that the PER codecs are inverse to each other is an induction over types and
  values, of which there are 213 and no bound;
- `ArincCutChecked`, the last part of `ArincAsSent`, and `MiamIntact`: there are octets whose checksum is
  still good, or the same, when they are cut, so neither holds for every message.  TLC checks the two
  for all sendings of the run; what holds for all is `WholeIsChecked` and `MiamIntactUpToChecksum`;
- liveness (`EveryMessageArrives`, `EveryFileDecoded`, `LoopsEnd`, `AdscEnds`), which the prover cannot do.

## 5. What is not modelled

- *Formatting* (`asn1-format-*.c`, the `format_text` and `format_json` functions), and the
  values of fields that are only printed: layout without control.  The dictionaries
  are tables for it.
- *BER, DER and XER* in `asn1/`, printing and comparing of structures: libacars calls
  none of them.  The constraint checks: nothing calls them.
- *Extensions, defaults and fragmented lengths* of PER, which no type of CPDLC has; the
  partial structures of a decoder that failed, which are freed whole.
- `la_crc16_ccitt`: `AcarsDecoder` takes a block as damaged or not.
- zlib and jansson, which are external: what inflation yields is in
  `Inflate`; whether the content is well-formed JSON only changes how it is printed.
- `list.c` by itself: its operations are sequences in `Reassembly` and `HashTable`.
- What a call does after `la_config_destroy`; a sequence number that a caller makes
  negative; the abort frame of a file whose identifier is used again at once.  The
  models assume callers that keep to the interface; the hazards say which.
- The example programs and build files.

With more effort: OHMA as a caller over a link that reorders but loses nothing.
