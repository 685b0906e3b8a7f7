------------------------- MODULE RangeRequestProofs -------------------------
(***************************************************************************)
(* What parseRangeHeader returns for every file size, every limit and every *)
(* pair of numbers, and the playback invariant that rests on it.           *)
(***************************************************************************)
EXTENDS RangeRequest, TLAPS

\* Where a slice ends: the first of the three limits.
End(start, wish, total) == Smaller(wish, Smaller(start + MaxChunk - 1, total - 1))

\* The last byte of a chunk is the least of its three limits.
LEMMA EndIsLimit ==
    \A start \in Nat, wish \in Int, total \in Nat :
        /\ End(start, wish, total) \in Int
        /\ \A i \in Int : i <= End(start, wish, total)
                            <=> i <= wish /\ i < start + MaxChunk /\ i < total
<1> TAKE start \in Nat, wish \in Int, total \in Nat
<1>1. MaxChunk \in Nat
    BY ChunkAssumption
<1>2. QED
    BY <1>1 DEF End, Smaller

\* A range that does not meet the file is refused.
LEMMA CutRefused ==
    \A start \in Nat, wish \in Int, total \in Nat :
        start >= total \/ start > wish => Cut(start, wish, total) = Unsatisfiable
<1> TAKE start \in Nat, wish \in Int, total \in Nat
<1>1. MaxChunk \in Nat \ {0}
    BY ChunkAssumption
<1>2. QED
    BY <1>1 DEF Cut, Smaller

\* Any other is given the slice from its start to the limit, which is not empty.
LEMMA CutGiven ==
    \A start \in Nat, wish \in Int, total \in Nat :
        start < total /\ start <= wish =>
            /\ Cut(start, wish, total) = Slice(start, End(start, wish, total))
            /\ End(start, wish, total) \in Nat
            /\ start <= End(start, wish, total)
            /\ End(start, wish, total) < start + MaxChunk
            /\ End(start, wish, total) < total
<1> TAKE start \in Nat, wish \in Int, total \in Nat
<1>1. MaxChunk \in Nat \ {0}
    BY ChunkAssumption
<1>2. QED
    BY <1>1 DEF Cut, End, Smaller

\* A slice lies in the file, is not empty, keeps the limit and starts where asked.
LEMMA CutFits ==
    \A start \in Nat, wish \in Int, total \in Nat :
        LET r == Cut(start, wish, total)
        IN  r.kind = "slice" =>
                /\ r.start = start
                /\ r.end \in Nat /\ start <= r.end /\ r.end < total
                /\ r.chunkSize = r.end - r.start + 1
                /\ r.chunkSize \in 1..MaxChunk
                /\ r.partial = TRUE
<1> TAKE start \in Nat, wish \in Int, total \in Nat
<1> DEFINE e == End(start, wish, total)
           r == Cut(start, wish, total)
<1> HIDE DEF e
<1> SUFFICES ASSUME r.kind = "slice"
             PROVE  /\ r.start = start
                    /\ r.end \in Nat /\ start <= r.end /\ r.end < total
                    /\ r.chunkSize = r.end - r.start + 1
                    /\ r.chunkSize \in 1..MaxChunk
                    /\ r.partial = TRUE
    OBVIOUS
<1>1. start < total /\ start <= wish
    BY CutRefused DEF Unsatisfiable
<1>2. /\ r = Slice(start, e)
      /\ e \in Nat /\ start <= e /\ e < start + MaxChunk /\ e < total
    BY <1>1, CutGiven DEF e
<1>3. r.start = start /\ r.end = e /\ r.chunkSize = e - start + 1 /\ r.partial = TRUE
    BY <1>2 DEF Slice
<1>4. MaxChunk \in Nat
    BY ChunkAssumption
<1>5. e - start + 1 \in 1..MaxChunk
    BY <1>2, <1>4
<1>6. QED
    BY <1>2, <1>3, <1>5

\* It holds the first MaxChunk of the bytes wanted, and is refused when the file
\* has none of them.
Wanted(start, wish, total) == {i \in 0..total - 1 : start <= i /\ i <= wish}

\* Cut serves the first bytes of those wanted, and refuses only if none are.
LEMMA CutServes ==
    \A start \in Nat, wish \in Int, total \in Nat :
        /\ Bytes(Cut(start, wish, total)) = FirstOnes(Wanted(start, wish, total))
        /\ Cut(start, wish, total).kind = "unsatisfiable" <=> Wanted(start, wish, total) = {}
<1> TAKE start \in Nat, wish \in Int, total \in Nat
<1> DEFINE S == Wanted(start, wish, total)
           e == End(start, wish, total)
           r == Cut(start, wish, total)
<1> HIDE DEF S, e, r
<1>1. CASE start >= total \/ start > wish
  <2>1. S = {}
      BY <1>1 DEF S, Wanted
  <2>2. r = Unsatisfiable
      BY <1>1, CutRefused DEF r
  <2>3. FirstOnes(S) = {}
      BY <2>1 DEF FirstOnes
  <2>4. Bytes(r) = {} /\ r.kind = "unsatisfiable"
      BY <2>2 DEF Bytes, Unsatisfiable
  <2>5. QED
      BY <2>1, <2>3, <2>4 DEF S, r
<1>2. CASE start < total /\ start <= wish
  <2>1. r = Slice(start, e) /\ e \in Nat
      BY <1>2, CutGiven DEF r, e
  <2>2. start \in S /\ \A i \in S : start <= i /\ i \in Nat
      BY <1>2 DEF S, Wanted
  <2>3. FirstOnes(S) = {i \in S : i < start + MaxChunk}
    <3>1. MaxChunk \in Nat
        BY ChunkAssumption
    <3>2. \A i \in S : (\A j \in S : i < j + MaxChunk) <=> i < start + MaxChunk
        BY <2>2, <3>1
    <3>3. QED
        BY <3>2 DEF FirstOnes
  <2>4. {i \in S : i < start + MaxChunk} = start..e
    <3>1. \A i \in Int : i <= e <=> i <= wish /\ i < start + MaxChunk /\ i < total
        BY EndIsLimit DEF e
    <3>2. \A i : i \in S <=> i \in Int /\ start <= i /\ i <= wish /\ i < total
        BY DEF S, Wanted
    <3>3. QED
        BY <2>1, <3>1, <3>2
  <2>5. r.kind = "slice" /\ r.start = start /\ r.end = e
      BY <2>1 DEF Slice
  <2>6. Bytes(r) = FirstOnes(S)
      BY <2>3, <2>4, <2>5 DEF Bytes
  <2>7. S # {} /\ r.kind # "unsatisfiable"
      BY <2>2, <2>5
  <2>8. QED
      BY <2>6, <2>7 DEF S, r
<1>3. QED
    BY <1>1, <1>2

\* The numbers of a header, with what stands for the missing ones.
LEMMA ByteTypes ==
    ASSUME NEW first \in Nat \cup {Blank}, NEW last \in Nat \cup {Blank}, NEW total \in Nat
    PROVE  FirstByte(first) \in Nat /\ LastByte(last, total) \in Int
BY DEF FirstByte, LastByte

\* A header that is not refused for a number too long has numbers, or misses them.
LEMMA HeaderNumbers ==
    ASSUME NEW h \in AnyHeader, h.form = "bytes", ~TooLong(h)
    PROVE  h.first \in Nat \cup {Blank} /\ h.last \in Nat \cup {Blank}
<1>1. h.first \in Nat \cup {Blank, Infinite} /\ h.last \in Nat \cup {Blank, Infinite}
    BY DEF AnyHeader, Headers
<1>2. QED
    BY <1>1 DEF TooLong

\* The two numbers of a header name the bytes that FirstByte and LastByte say.
LEMMA NamedBytes ==
    ASSUME NEW h \in AnyHeader, NamesBytes(h), NEW total \in Nat
    PROVE  Named(h, total) = Wanted(FirstByte(h.first), LastByte(h.last, total), total)
<1>1. h.first \in Nat /\ h.last \in Nat \cup {Blank}
    BY HeaderNumbers DEF NamesBytes
<1>2. FirstByte(h.first) = h.first
    BY DEF NamesBytes, FirstByte
<1>3. \A i \in 0..total - 1 : (h.last # Blank => i <= h.last) <=> i <= LastByte(h.last, total)
    BY <1>1 DEF LastByte
<1>4. QED
    BY <1>2, <1>3 DEF Named, Wanted

-----------------------------------------------------------------------------

Inv == TypeOK /\ PlayedInOrder /\ Answers

\* A player that has nothing has it in order.
LEMMA InitInv == Init => Inv
<1> SUFFICES ASSUME Init
             PROVE  Inv
    OBVIOUS
<1>1. size \in Nat /\ position = 0 /\ played = {} /\ response = NoResponse
    BY SizeAssumption DEF Init
<1>2. NoResponse.header \in AnyHeader
    BY DEF NoResponse, AnyHeader, Headers
<1>3. 0..-1 = {}
    OBVIOUS
<1>4. QED
    BY <1>1, <1>2, <1>3 DEF Inv, TypeOK, PlayedInOrder, Answers

\* One more chunk for the player starts where it stands.
LEMMA PlayOnInv ==
    ASSUME Inv, PlayOn
    PROVE  Inv'
<1> DEFINE r == response'.result
<1>1. position \in Nat /\ size \in Nat /\ position < size /\ size' = size
      /\ played = 0..position - 1
    BY DEF Inv, TypeOK, PlayedInOrder, PlayOn
<1>2. response'.header \in AnyHeader /\ r = parseRangeHeader(response'.header, size)
    BY <1>1 DEF PlayOn, Respond, AnyHeader, Headers
<1>3. /\ r.kind = "slice" /\ r.start = position
      /\ r.end \in Nat /\ position <= r.end /\ r.end < size
  <2>1. CASE position = 0 /\ Respond([form |-> "none"])
      BY <1>1, <2>1, ChunkAssumption DEF Respond, parseRangeHeader, WholeFile, Slice
  <2>2. CASE Respond([form |-> "bytes", first |-> position, last |-> Blank])
    <3> DEFINE wish == LastByte(Blank, size)
    <3>1. FirstByte(position) = position /\ wish \in Int /\ position <= wish
        BY <1>1, BlankAssumption DEF FirstByte, LastByte
    <3> HIDE DEF wish
    <3>2. r = Cut(position, wish, size)
        BY <1>1, <2>2, <3>1, BlankAssumption DEF Respond, parseRangeHeader, TooLong, wish
    <3>3. r = Slice(position, End(position, wish, size))
        BY <1>1, <3>1, <3>2, CutGiven
    <3>4. r.kind = "slice"
        BY <3>3 DEF Slice
    <3> HIDE DEF r
    <3>5. QED
        BY <1>1, <3>1, <3>2, <3>4, CutFits
  <2>3. QED
      BY <2>1, <2>2 DEF PlayOn
<1>4. position' = r.end + 1 /\ played' = played \cup r.start..r.end
    BY <1>3 DEF PlayOn, Bytes
<1>5. played' = 0..position' - 1
    BY <1>1, <1>3, <1>4
<1>6. TypeOK' /\ PlayedInOrder'
    BY <1>1, <1>2, <1>3, <1>4, <1>5 DEF TypeOK, PlayedInOrder
<1>7. Answers'
    BY <1>1, <1>2 DEF Answers
<1>8. QED
    BY <1>6, <1>7 DEF Inv

\* Whatever is asked for, the bytes played stay in order.
LEMMA NextInv == Inv /\ [Next]_vars => Inv'
<1> SUFFICES ASSUME Inv, [Next]_vars
             PROVE  Inv'
    OBVIOUS
<1>1. ASSUME NEW header \in Header, Probe(header)
      PROVE  Inv'
    BY <1>1, SizeAssumption
       DEF Inv, Probe, Respond, TypeOK, PlayedInOrder, Answers, Header, Headers, AnyHeader
<1>2. CASE UNCHANGED vars
    BY <1>2 DEF vars, Inv, TypeOK, PlayedInOrder, Answers
<1>3. QED
    BY <1>1, <1>2, PlayOnInv DEF Next

\* The invariant of the player.
LEMMA SpecInv == Spec => []Inv
<1>1. Spec => Init /\ [][Next]_vars
    BY PTL DEF Spec
<1>2. QED
    BY <1>1, InitInv, NextInv, PTL

\* The chunks a player gets follow one another: no gap, no byte twice.
THEOREM PlaybackInOrder == Spec => []PlayedInOrder
<1>1. Inv => PlayedInOrder
    BY DEF Inv
<1>2. QED
    BY <1>1, SpecInv, PTL

\* Every response keeps to the file and to the limit.
THEOREM ResponsesFit == Spec => []ResponseFits
<1>1. Inv => ResponseFits
  <2> SUFFICES ASSUME Inv, response.result.kind = "slice"
               PROVE  ResponseFits
      BY DEF ResponseFits
  <2> DEFINE h == response.header
             r == response.result
  <2>1. size \in Nat /\ h \in AnyHeader /\ r = parseRangeHeader(h, size)
      BY DEF Inv, TypeOK, Answers, NoResponse, Malformed
  <2>2. CASE h.form = "none"
      BY <2>1, <2>2, ChunkAssumption DEF parseRangeHeader, WholeFile, Slice, ResponseFits
  <2>3. CASE h.form = "bytes"
    <3> DEFINE first == FirstByte(h.first)
               wish == LastByte(h.last, size)
    <3>0. ~TooLong(h)
        BY <2>1, <2>3 DEF parseRangeHeader, Malformed
    <3>1. first \in Nat /\ wish \in Int
        BY <2>1, <2>3, <3>0, HeaderNumbers, ByteTypes
    <3>2. r = Cut(first, wish, size)
        BY <2>1, <2>3, <3>0 DEF parseRangeHeader
    <3> HIDE DEF first, wish
    <3>3. /\ r.start = first
          /\ r.end \in Nat /\ first <= r.end /\ r.end < size
          /\ r.chunkSize = r.end - r.start + 1
          /\ r.chunkSize \in 1..MaxChunk
          /\ r.partial = TRUE
        BY <2>1, <3>1, <3>2, CutFits
    <3>4. MaxChunk \in Nat
        BY ChunkAssumption
    <3>5. QED
        BY <2>1, <3>1, <3>3, <3>4 DEF ResponseFits
  <2>4. h.form # "other"
      BY <2>1 DEF parseRangeHeader, Malformed
  <2>5. QED
      BY <2>1, <2>2, <2>3, <2>4 DEF AnyHeader, Headers
<1>2. QED
    BY <1>1, SpecInv, PTL

\* Every response to a range with a first number holds exactly the bytes it should.
THEOREM ResponsesServe == Spec => []ServesNamedBytes
<1>1. Inv => ServesNamedBytes
  <2> SUFFICES ASSUME Inv, NamesBytes(response.header)
               PROVE  ServesNamedBytes
      BY DEF ServesNamedBytes
  <2> DEFINE h == response.header
             first == FirstByte(h.first)
             wish == LastByte(h.last, size)
  <2>1. size \in Nat /\ h \in AnyHeader /\ response.result = parseRangeHeader(h, size)
      BY DEF Inv, TypeOK, Answers, NoResponse, NamesBytes
  <2>2. /\ first \in Nat /\ wish \in Int
        /\ Named(h, size) = Wanted(first, wish, size)
      BY <2>1, HeaderNumbers, NamedBytes, ByteTypes DEF NamesBytes
  <2>3. response.result = Cut(first, wish, size)
      BY <2>1 DEF parseRangeHeader, NamesBytes
  <2> HIDE DEF first, wish
  <2>4. /\ Bytes(Cut(first, wish, size)) = FirstOnes(Wanted(first, wish, size))
        /\ Cut(first, wish, size).kind = "unsatisfiable" <=> Wanted(first, wish, size) = {}
      BY <2>1, <2>2, CutServes
  <2>5. QED
      BY <2>2, <2>3, <2>4 DEF ServesNamedBytes
<1>2. QED
    BY <1>1, SpecInv, PTL

=============================================================================
