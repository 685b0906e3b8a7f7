---------------------------- MODULE RangeRequest ----------------------------
(***************************************************************************)
(* parseRangeHeader of src/src/modules/stream/stream.service.ts, and a     *)
(* browser that plays a file through the direct branch of streamFile: each *)
(* response carries one slice of the file, of at most MaxChunk bytes.      *)
(*                                                                         *)
(* A header is a record: form "none" (no Range header), "other" (not of    *)
(* the one form the code accepts) or "bytes" with the two numbers of       *)
(* bytes=first-last, each of which may be missing (Blank) or have so many  *)
(* digits that parseInt returns Infinity (Infinite).                       *)
(***************************************************************************)
EXTENDS Integers

CONSTANTS
    MaxChunk,   \* MAX_STREAM_CHUNK_BYTES, 10 MB
    Blank,      \* a number the header leaves out
    Infinite,   \* a number beyond the doubles, from 309 digits on
    FileSize,   \* the sizes a file may have
    Position    \* the numbers a header may name

ASSUME ChunkAssumption == MaxChunk \in Nat \ {0}

ASSUME BlankAssumption == Blank \notin Int /\ Infinite \notin Int /\ Infinite # Blank

ASSUME SizeAssumption == FileSize \subseteq Nat /\ Position \subseteq Nat

Headers(numbers) ==
    [form : {"none", "other"}]
      \cup [form : {"bytes"}, first : numbers \cup {Blank, Infinite},
                              last : numbers \cup {Blank, Infinite}]
Header == Headers(Position)

Smaller(a, b) == IF a <= b THEN a ELSE b

\* What the function returns: a slice, or one of its two 400 errors.
Slice(start, end) ==
    [kind |-> "slice", start |-> start, end |-> end, chunkSize |-> end - start + 1,
     partial |-> TRUE]
Malformed == [kind |-> "malformed"]
Unsatisfiable == [kind |-> "unsatisfiable"]

WholeFile(total) ==
    IF total <= MaxChunk
      THEN [Slice(0, total - 1) EXCEPT !.partial = FALSE]
      ELSE Slice(0, MaxChunk - 1)

\* Mutants of Cut: the limit off by one; the last byte of the file never served.
CutOffByOne(start, wish, total) ==
    LET end == Smaller(wish, Smaller(start + MaxChunk, total - 1))
    IN  IF start >= total \/ start > end THEN Unsatisfiable ELSE Slice(start, end)
CutShort(start, wish, total) ==
    LET end == Smaller(wish, Smaller(start + MaxChunk - 1, total - 2))
    IN  IF start >= total \/ start > end THEN Unsatisfiable ELSE Slice(start, end)

\* The range from start to wish, cut to MaxChunk bytes and to the file.
Cut(start, wish, total) ==
    LET end == Smaller(wish, Smaller(start + MaxChunk - 1, total - 1))
    IN  IF start >= total \/ start > end \/ end >= total
          THEN Unsatisfiable
          ELSE Slice(start, end)

\* Mutant of FirstByte: the first number is taken as already served.
FirstByteExclusive(first) == IF first = Blank THEN 0 ELSE first + 1

\* bytes=first-last: a missing first is 0, a missing last is the end of the file.
FirstByte(first) == IF first = Blank THEN 0 ELSE first
LastByte(last, total) == IF last = Blank THEN total - 1 ELSE last

\* A number that is not finite.
TooLong(header) == Infinite \in {header.first, header.last}

parseRangeHeader(header, total) ==
    CASE header.form = "none"  -> WholeFile(total)
      [] header.form = "other" -> Malformed
      [] header.form = "bytes" /\ TooLong(header) -> Malformed
      [] header.form = "bytes" /\ ~TooLong(header) ->
             Cut(FirstByte(header.first), LastByte(header.last, total), total)

-----------------------------------------------------------------------------
(* The browser (external) and the responses. *)

VARIABLES
    size,       \* the file's length
    position,   \* the next byte the player needs
    played,     \* the bytes it got so far
    response    \* the last response, as parseRangeHeader made it, with its header

vars == <<size, position, played, response>>

NoResponse == [header |-> [form |-> "none"], result |-> Malformed]

Bytes(result) == IF result.kind = "slice" THEN result.start..result.end ELSE {}

Init ==
    /\ size \in FileSize
    /\ position = 0
    /\ played = {}
    /\ response = NoResponse

\* The direct branch of streamFile answers a request with this header.
Respond(header) ==
    response' = [header |-> header, result |-> parseRangeHeader(header, size)]

\* The player asks for what follows, with no header the first time if it likes.
PlayOn ==
    /\ position < size
    /\ \/ position = 0 /\ Respond([form |-> "none"])
       \/ Respond([form |-> "bytes", first |-> position, last |-> Blank])
    /\ played' = played \cup Bytes(response'.result)
    /\ position' = IF response'.result.kind = "slice" THEN response'.result.end + 1
                                                      ELSE position
    /\ UNCHANGED size

\* A probe of any other range does not move the player.
Probe(header) ==
    /\ Respond(header)
    /\ UNCHANGED <<size, position, played>>

Next == PlayOn \/ \E header \in Header : Probe(header)

Spec == Init /\ [][Next]_vars /\ WF_vars(PlayOn)

-----------------------------------------------------------------------------
(* Properties. *)

AnyHeader == Headers(Nat)

TypeOK ==
    /\ size \in Nat
    /\ position \in Nat
    /\ played \subseteq Nat
    /\ response.header \in AnyHeader

\* The reference, by RFC 9110: bytes=first-last names the bytes of the file from first to
\* last, bytes=first- all from first on. The form bytes=-n, the last n bytes, is left out:
\* the code takes it for bytes=0-n, against the "full HTTP Range request support" of
\* README.md:346.
Named(header, total) ==
    {i \in 0..total - 1 :
        /\ header.first <= i
        /\ header.last # Blank => i <= header.last}
FirstOnes(S) == {i \in S : \A j \in S : i < j + MaxChunk}

NamesBytes(header) == header.form = "bytes" /\ header.first # Blank /\ ~TooLong(header)

\* Of a range with a first number, parseRangeHeader serves exactly the first MaxChunk of the
\* bytes asked for that the file has, and refuses it exactly when the file has none of them.
ServesNamedBytes ==
    LET h == response.header
        r == response.result
    IN  NamesBytes(h) =>
            /\ Bytes(r) = FirstOnes(Named(h, size))
            /\ r.kind = "unsatisfiable" <=> Named(h, size) = {}

\* Whatever the header, a response stays in the file and under the limit, and its
\* Content-Length is the number of bytes createReadStream is asked for. Only the
\* empty file without a header has no byte to stream.
ResponseFits ==
    LET r == response.result
    IN  r.kind = "slice" =>
            /\ 0 <= r.start /\ r.end < size
            /\ r.chunkSize = r.end - r.start + 1
            /\ r.chunkSize \in 0..MaxChunk
            /\ r.chunkSize = 0 => size = 0
            /\ ~r.partial => r.chunkSize = size

\* The player has every byte up to its position: chunks neither overlap nor leave gaps.
PlayedInOrder == position <= size /\ played = 0..position - 1

\* The last response is the function's answer to its header for this file.
Answers == response = NoResponse \/ response.result = parseRangeHeader(response.header, size)

\* Chunk after chunk, the player reaches the end of the file.
PlaysToTheEnd == <>(position = size)

=============================================================================
