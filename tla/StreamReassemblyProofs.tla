----------------------- MODULE StreamReassemblyProofs -----------------------
(***************************************************************************)
(* The safety of StreamReassembly for every stream, capacity and integer   *)
(* width: its invariants together are inductive.  They say that the        *)
(* Reassembler is Assembling the stream.                                   *)
(***************************************************************************)
EXTENDS StreamReassembly, TCPLemmas

\* Byte number i of the stream, counted from 0 as the code does
Byte == [i \in Nat |-> Stream[i + 1]]

IInv == Assembling(Bytes, Byte, Capacity, N, reassembler)

\* The positions known: those written and those stored
Known == KnownIndices(reassembler)

\* The parameters' types: what the assumptions say of the stream.
LEMMA StreamFacts ==
    /\ N \in Nat
    /\ Stream \in [1 .. N -> Bytes]
    /\ Capacity \in Nat /\ UINT64_MAX \in Nat /\ N + Capacity < UINT64_MAX
<1>1. Stream \in Seq(Bytes)
    BY StreamAssumption DEF Bytes
<1>2. N \in Nat /\ Stream \in [1 .. N -> Bytes]
    BY <1>1, LenProperties DEF N
<1> QED BY <1>2, StreamAssumption, WidthAssumption DEF N, UINT64_MAX

\* The same, for the steps of arithmetic.
LEMMA StreamNumbers ==
    N \in Nat /\ Capacity \in Nat /\ UINT64_MAX \in Nat
    /\ N + Capacity < UINT64_MAX
BY StreamFacts

\* Byte takes the bytes from the stream.
LEMMA ByteFacts ==
    /\ Elements(Bytes, Byte, N)
    /\ \A i \in Nat : Byte[i] = Stream[i + 1]
<1>1. \A i \in Nat : Byte[i] = Stream[i + 1]
    BY DEF Byte
<1>2. ASSUME NEW i \in 0 .. N - 1
      PROVE  Byte[i] \in Bytes
    <2>1. i \in Nat /\ i + 1 \in 1 .. N
        BY StreamNumbers
    <2> QED BY <1>1, <2>1, StreamFacts
<1> QED BY <1>1, <1>2 DEF Elements

\* The invariant in terms of the module's names.
LEMMA StateFacts ==
    ASSUME IInv
    PROVE  /\ Pushed \in 0 .. N /\ Popped \in 0 .. N /\ Popped <= Pushed
           /\ Len(Out.buffer) \in Nat /\ Popped + Len(Out.buffer) = Pushed
           /\ Pushed <= Popped + Capacity
           /\ PendingIndices(reassembler) \subseteq 0 .. N - 1
           /\ \A i \in PendingIndices(reassembler) :
                 Pushed < i /\ i < Popped + Capacity
           /\ Out.stream_closed \in BOOLEAN
           /\ reassembler.end_of_stream \in {N, UINT64_MAX}
           /\ Out.stream_closed <=>
                 (reassembler.end_of_stream = N /\ Pushed = N)
           /\ FirstUnacceptable(reassembler) = Popped + Capacity
<1>1. OutputOK(Bytes, Byte, Capacity, N, Out)
    BY DEF IInv, Assembling, Out
<1>2. PendingOK(Bytes, Byte, Capacity, N, reassembler) /\ EndOK(N, reassembler)
    BY DEF IInv, Assembling
<1>3. Pushed = reassembler.output.total_pushed
      /\ Popped = reassembler.output.total_popped /\ Out = reassembler.output
    BY DEF Pushed, Popped, BytesPushed, BytesPopped, Out
<1>4. /\ Pushed \in 0 .. N /\ Popped \in Nat /\ Out.stream_closed \in BOOLEAN
      /\ Popped + Len(Out.buffer) = Pushed /\ Pushed <= Popped + Capacity
      /\ Out.buffer \in Seq(Bytes)
    BY <1>1, <1>3 DEF OutputOK
<1>5. Len(Out.buffer) \in Nat
    BY <1>4, LenProperties
<1>6. Popped <= Pushed /\ Popped \in 0 .. N
    <2> DEFINE h == Len(Out.buffer)
    <2>1. h \in Nat /\ Popped \in Nat /\ Popped + h = Pushed /\ Pushed \in 0 .. N
        BY <1>4, <1>5
    <2> HIDE DEF h
    <2> QED BY <2>1, StreamNumbers
<1>7. FirstUnacceptable(reassembler) = Popped + Capacity
    <2> DEFINE h == Len(Out.buffer)
    <2>1. h \in Nat /\ Popped \in Nat /\ Popped + h = Pushed
        BY <1>4, <1>5
    <2>2. Out.capacity = Capacity
        BY <1>3 DEF IInv, Assembling, IsReassembler
    <2>3. FirstUnacceptable(reassembler) = Pushed + (Capacity - h)
        BY <1>3, <2>2 DEF FirstUnacceptable, AvailableCapacity, BytesPushed
    <2> HIDE DEF h
    <2> QED BY <2>1, <2>3, StreamNumbers
<1>8. \A i \in PendingIndices(reassembler) :
          i \in 0 .. N - 1 /\ Pushed < i /\ i < Popped + Capacity
    BY <1>2, <1>3 DEF PendingOK
<1>9. /\ reassembler.end_of_stream \in {N, UINT64_MAX}
      /\ Out.stream_closed <=> (reassembler.end_of_stream = N /\ Pushed = N)
    BY <1>2, <1>3 DEF EndOK
<1> QED BY <1>4, <1>5, <1>6, <1>7, <1>8, <1>9

LEMMA KnownPositions == Known = (0 .. Pushed - 1) \cup PendingIndices(reassembler)
BY DEF Known, KnownIndices, Pushed, BytesPushed, Out

\* It implies the four invariants of StreamReassembly.
LEMMA InvTypeOK == IInv => TypeOK
<1> SUFFICES ASSUME IInv PROVE TypeOK
    OBVIOUS
<1> DEFINE outs == [capacity : {Capacity}, error : {FALSE},
                    total_pushed : 0 .. N, buffer : Seq(Bytes),
                    stream_closed : BOOLEAN, total_popped : 0 .. N]
           no   == FALSE
           rest == reassembler.unassembled
           end  == reassembler.end_of_stream
           pushed == Out.total_pushed
           popped == Out.total_popped
           held   == Out.buffer
           closed == Out.stream_closed
<1>1. /\ pushed \in 0 .. N /\ popped \in 0 .. N /\ closed \in BOOLEAN
      /\ PendingIndices(reassembler) \subseteq 0 .. N - 1
      /\ end \in {N, UINT64_MAX}
    BY StateFacts DEF Pushed, Popped, BytesPushed, BytesPopped
<1>2. held \in Seq(Bytes) /\ rest \in [PendingIndices(reassembler) -> Bytes]
    BY DEF IInv, Assembling, OutputOK, PendingOK, Out
<1>3. /\ Out = [capacity |-> Capacity, error |-> no, total_pushed |-> pushed,
                buffer |-> held, stream_closed |-> closed,
                total_popped |-> popped]
      /\ reassembler = [output |-> Out, unassembled |-> rest,
                        end_of_stream |-> end]
    BY DEF IInv, Assembling, IsReassembler, Out
<1>4. no \in {FALSE}
    OBVIOUS
<1> HIDE DEF no, rest, end, pushed, popped, held, closed
<1>5. Out \in outs
    BY <1>1, <1>2, <1>3, <1>4
<1> HIDE DEF outs
<1>6. reassembler \in [output : outs, unassembled : {rest},
                       end_of_stream : {N, UINT64_MAX}]
    BY <1>1, <1>3, <1>5
<1> QED BY <1>1, <1>2, <1>6 DEF TypeOK, outs, rest

LEMMA InvBytesInPlace == IInv => BytesInPlace
<1> SUFFICES ASSUME IInv PROVE BytesInPlace
    OBVIOUS
<1>1. Popped \in Nat /\ Popped + Len(Out.buffer) = Pushed
    BY StateFacts
<1>2. ASSUME NEW k \in 1 .. Len(Out.buffer)
      PROVE  Out.buffer[k] = Stream[Popped + k]
    <2> DEFINE j == Popped + k - 1
    <2>1. Out.buffer[k] = Byte[j]
        BY DEF IInv, Assembling, OutputOK, Out, Popped, BytesPopped
    <2>2. j \in Nat /\ j + 1 = Popped + k
        BY <1>1
    <2> HIDE DEF j
    <2> QED BY <2>1, <2>2, ByteFacts
<1>3. ASSUME NEW i \in PendingIndices(reassembler)
      PROVE  reassembler.unassembled[i] = Stream[i + 1]
    <2>1. i \in Nat
        BY StateFacts
    <2>2. reassembler.unassembled[i] = Byte[i]
        BY DEF IInv, Assembling, PendingOK
    <2> QED BY <2>1, <2>2, ByteFacts
<1> QED BY <1>1, <1>2, <1>3 DEF BytesInPlace

LEMMA InvPendingInsideWindow == IInv => PendingInsideWindow
BY StateFacts DEF PendingInsideWindow

LEMMA InvClosedAtEnd == IInv => ClosedAtEnd
BY StateFacts DEF ClosedAtEnd

\* A new Reassembler satisfies the invariant.
LEMMA InitInv == Init => IInv /\ Known = {}
BY StreamNumbers, NewAssembling DEF Init, IInv, Known

\* A substring of the stream is one that InsertKeeps speaks of: its bytes inside
\* the window become known.
LEMMA InsertSubstringInv ==
    ASSUME IInv, NEW first \in 0 .. N, NEW len \in 0 .. N,
           NEW is_last \in BOOLEAN, InsertSubstring(first, len, is_last)
    PROVE  /\ IInv'
           /\ Known' = Known \cup {i \in first .. first + len - 1 :
                                      i < Popped + Capacity}
           /\ Popped' = Popped
           /\ reassembler'.end_of_stream =
                 IF is_last THEN N ELSE reassembler.end_of_stream
<1> DEFINE data == [k \in 1 .. len |-> Stream[first + k]]
<1>1. /\ first + len <= N /\ first \in Nat /\ len \in Nat
      /\ is_last => first + len = N
      /\ reassembler' = Insert(reassembler, first, data, is_last)
    BY StreamNumbers DEF InsertSubstring
<1>2. data \in Seq(Bytes) /\ Len(data) = len
    <2>1. \A k \in 1 .. len : first + k \in 1 .. N
        BY <1>1, StreamNumbers
    <2>2. data \in [1 .. len -> Bytes]
        BY <2>1, StreamFacts
    <2> HIDE DEF data
    <2> QED BY <1>1, <2>2, FunctionIsSequence
<1>3. ASSUME NEW i \in StoredIndices(reassembler, first, data)
      PROVE  i < N /\ data[i - first + 1] = Byte[i]
    <2>1. i \in first .. first + len - 1
        <3> HIDE DEF data
        <3> QED BY <1>2 DEF StoredIndices
    <2>2. /\ i - first + 1 \in 1 .. len /\ first + (i - first + 1) = i + 1
          /\ i \in Nat /\ i < N
        BY <2>1, <1>1, StreamNumbers
    <2>3. data[i - first + 1] = Stream[first + (i - first + 1)]
        BY <2>2
    <2> HIDE DEF data
    <2> QED BY <2>2, <2>3, ByteFacts
<1>4. EndIndex(reassembler, first, data, is_last)
          = IF is_last THEN N ELSE reassembler.end_of_stream
    <2> HIDE DEF data
    <2>1. CASE is_last
        <3>1. U64(first + len) = N
            BY <2>1, <1>1, StreamNumbers, WidthAssumption DEF U64, UINT64_MAX
        <3> QED BY <2>1, <3>1, <1>2 DEF EndIndex
    <2>2. CASE ~ is_last
        BY <2>2 DEF EndIndex
    <2> QED BY <2>1, <2>2
<1>5. Known \cup StoredIndices(reassembler, first, data)
          = Known \cup {i \in first .. first + len - 1 : i < Popped + Capacity}
    <2> HIDE DEF data
    <2> DEFINE S == {i \in first .. first + len - 1 :
                        Pushed <= i /\ i < Popped + Capacity}
    <2>1. FirstUnacceptable(reassembler) = Popped + Capacity
        BY StateFacts
    <2>2. StoredIndices(reassembler, first, data) = S
        BY <2>1, <1>2 DEF StoredIndices, Pushed, Out
    <2>3. Pushed \in Nat /\ Popped \in Nat
        BY StateFacts, StreamNumbers
    <2>4. \A i \in first .. first + len - 1 : i < Pushed => i \in Known
        BY <1>1, <2>3, KnownPositions
    <2> QED BY <1>1, <2>2, <2>3, <2>4, StreamNumbers
<1> HIDE DEF data
<1>6. StoresFrom(Byte, N, reassembler, first, data)
    BY <1>3 DEF StoresFrom
<1>7. EndIndex(reassembler, first, data, is_last) \in
          {N, reassembler.end_of_stream}
    BY <1>4
<1>8. N < UINT64_MAX
    BY StreamNumbers
<1>9. /\ IInv'
      /\ Known' = Known \cup StoredIndices(reassembler, first, data)
      /\ Popped' = Popped
      /\ reassembler'.end_of_stream = EndIndex(reassembler, first, data, is_last)
    <2>1. Assembling(Bytes, Byte, Capacity, N, reassembler)
        BY DEF IInv
    <2> DEFINE t == Insert(reassembler, first, data, is_last)
    <2>2. /\ Assembling(Bytes, Byte, Capacity, N, t)
          /\ KnownIndices(t) = KnownIndices(reassembler)
                \cup StoredIndices(reassembler, first, data)
          /\ t.output.total_popped = reassembler.output.total_popped
          /\ t.end_of_stream = EndIndex(reassembler, first, data, is_last)
        <3>1. InsertAssembles(Bytes, Byte, Capacity, N, reassembler, first,
                              data, is_last)
            BY <1>1, <1>2, <1>6, <1>7, <1>8, <2>1, StreamNumbers, ByteFacts, InsertKeeps
        <3> QED BY <3>1 DEF InsertAssembles
    <2>3. reassembler' = t
        BY <1>1
    <2> HIDE DEF t
    <2> QED BY <2>2, <2>3 DEF IInv, Known, Popped, BytesPopped, Out
<1> QED BY <1>4, <1>5, <1>9

\* So is a byte at the index before the first one, of which nothing is stored.
LEMMA InsertInvalidIndexInv ==
    ASSUME IInv, NEW i \in 1 .. N, InsertInvalidIndex(<<Stream[i]>>)
    PROVE  /\ IInv' /\ Known' = Known /\ Popped' = Popped
           /\ reassembler'.end_of_stream = reassembler.end_of_stream
<1> DEFINE data == <<Stream[i]>>
           no   == FALSE
<1>1. data \in Seq(Bytes)
    BY StreamFacts
<1>2. reassembler' = Insert(reassembler, UINT64_MAX, data, no)
    BY DEF InsertInvalidIndex
<1>3. no \in BOOLEAN
    OBVIOUS
<1>4. EndIndex(reassembler, UINT64_MAX, data, no) = reassembler.end_of_stream
    BY DEF EndIndex
<1> HIDE DEF data, no
<1>5. Popped \in 0 .. N
    BY StateFacts
<1>6. FirstUnacceptable(reassembler) \in Nat
      /\ FirstUnacceptable(reassembler) < UINT64_MAX
    BY <1>5, StateFacts, StreamNumbers
<1>7. StoredIndices(reassembler, UINT64_MAX, data) = {}
    <2>1. Len(data) \in Nat
        BY <1>1, LenProperties
    <2>2. \A k \in UINT64_MAX .. UINT64_MAX + Len(data) - 1 :
              ~ (k < FirstUnacceptable(reassembler))
        BY <2>1, <1>6, StreamNumbers
    <2> QED BY <2>2 DEF StoredIndices
<1>8. StoresFrom(Byte, N, reassembler, UINT64_MAX, data)
    BY <1>7 DEF StoresFrom
<1>9. N < UINT64_MAX
    BY StreamNumbers
<1>10. /\ IInv'
       /\ Known' = Known \cup StoredIndices(reassembler, UINT64_MAX, data)
       /\ Popped' = Popped
       /\ reassembler'.end_of_stream =
             EndIndex(reassembler, UINT64_MAX, data, no)
    <2>1. Assembling(Bytes, Byte, Capacity, N, reassembler)
        BY DEF IInv
    <2>2. EndIndex(reassembler, UINT64_MAX, data, no) \in
              {N, reassembler.end_of_stream}
        BY <1>4
    <2> DEFINE t == Insert(reassembler, UINT64_MAX, data, no)
    <2>3. /\ Assembling(Bytes, Byte, Capacity, N, t)
          /\ KnownIndices(t) = KnownIndices(reassembler)
                \cup StoredIndices(reassembler, UINT64_MAX, data)
          /\ t.output.total_popped = reassembler.output.total_popped
          /\ t.end_of_stream = EndIndex(reassembler, UINT64_MAX, data, no)
        <3>1. InsertAssembles(Bytes, Byte, Capacity, N, reassembler,
                              UINT64_MAX, data, no)
            BY <1>1, <1>3, <1>8, <1>9, <2>1, <2>2, StreamNumbers, ByteFacts, InsertKeeps
        <3> QED BY <3>1 DEF InsertAssembles
    <2>4. reassembler' = t
        BY <1>2
    <2> HIDE DEF t
    <2> QED BY <2>3, <2>4 DEF IInv, Known, Popped, BytesPopped, Out
<1> QED BY <1>4, <1>7, <1>10

\* The reader takes bytes from the front of the buffer: the window moves on,
\* and the bytes left are still those of the stream.
LEMMA ReaderPopInv ==
    ASSUME IInv, NEW len \in 1 .. Capacity, ReaderPop(len)
    PROVE  /\ IInv' /\ Known' = Known
           /\ Popped' = Popped + len /\ Popped + len <= Pushed
           /\ reassembler'.end_of_stream = reassembler.end_of_stream
           /\ Out'.stream_closed = Out.stream_closed
<1>1. len \in Nat /\ len <= Len(reassembler.output.buffer)
    BY StreamNumbers DEF ReaderPop, Peek, Out
<1>2. reassembler' = [reassembler EXCEPT !.output = Pop(@, len)]
    BY DEF ReaderPop, Out
<1>3. Assembling(Bytes, Byte, Capacity, N, reassembler)
    BY DEF IInv
<1>4. /\ IInv' /\ Known' = Known /\ Popped' = Popped + len
      /\ reassembler'.end_of_stream = reassembler.end_of_stream
      /\ Out'.stream_closed = Out.stream_closed
    <2> DEFINE t == [reassembler EXCEPT !.output = Pop(@, len)]
    <2>1. /\ Assembling(Bytes, Byte, Capacity, N, t)
          /\ KnownIndices(t) = KnownIndices(reassembler)
          /\ t.output.total_popped = reassembler.output.total_popped + len
          /\ t.output.stream_closed = reassembler.output.stream_closed
          /\ t.end_of_stream = reassembler.end_of_stream
        <3>1. PopAssembles(Bytes, Byte, Capacity, N, reassembler, len)
            BY <1>1, <1>3, StreamNumbers, PopKeepsAssembling
        <3> QED BY <3>1 DEF PopAssembles
    <2>2. reassembler' = t
        BY <1>2
    <2> HIDE DEF t
    <2> QED BY <2>1, <2>2 DEF IInv, Known, Popped, BytesPopped, Out
<1>5. Popped + len <= Pushed
    <2> DEFINE h == Len(Out.buffer)
    <2>1. h \in Nat /\ Popped \in Nat /\ Popped + h = Pushed /\ len <= h
        BY <1>1, StateFacts DEF Out
    <2> HIDE DEF h
    <2> QED BY <2>1, <1>1
<1> QED BY <1>4, <1>5

(***************************************************************************)
(* Every step preserves the invariant: Reassembler::insert whatever        *)
(* substring comes (reassembler.cc:7-45), and the reader's pop.           *)
(***************************************************************************)
THEOREM Invariance == Spec => []IInv
<1>1. Init => IInv
    BY InitInv
<1>2. IInv /\ [Next]_vars => IInv'
    <2> SUFFICES ASSUME IInv, [Next]_vars PROVE IInv'
        OBVIOUS
    <2>1. ASSUME NEW first \in 0 .. N, NEW len \in 0 .. N,
                 NEW is_last \in BOOLEAN,
                 InsertSubstring(first, len, is_last)
          PROVE  IInv'
        BY <2>1, InsertSubstringInv
    <2>2. ASSUME NEW i \in 1 .. N, InsertInvalidIndex(<<Stream[i]>>)
          PROVE  IInv'
        BY <2>2, InsertInvalidIndexInv
    <2>3. ASSUME NEW len \in 1 .. Capacity, ReaderPop(len)
          PROVE  IInv'
        BY <2>3, ReaderPopInv
    <2>4. CASE UNCHANGED vars
        BY <2>4 DEF vars, IInv
    <2> QED BY <2>1, <2>2, <2>3, <2>4 DEF Next
<1> QED BY <1>1, <1>2, PTL DEF Spec

\* The Reassembler's fields keep their types (reassembler.hh:45-49): the stored
\* bytes are bytes of the stream, at indices of the stream.
THEOREM TypeCorrect == Spec => []TypeOK
BY InvTypeOK, Invariance, PTL

\* No byte is lost, repeated or misplaced, for every stream, capacity, integer
\* width, order of arrival and overlap (reassembler.cc:7-45).
THEOREM Integrity == Spec => []BytesInPlace
BY InvBytesInPlace, Invariance, PTL

\* The Reassembler and its output together never hold more than the capacity,
\* and nothing that could be written is held back (reassembler.hh:19-28).
THEOREM WithinCapacity == Spec => []PendingInsideWindow
BY InvPendingInsideWindow, Invariance, PTL

\* The output is closed exactly when the whole stream was written
\* (reassembler.cc:42-44).
THEOREM Closing == Spec => []ClosedAtEnd
BY InvClosedAtEnd, Invariance, PTL
-----------------------------------------------------------------------------
(* The Reassembler implements StreamWindow *)

\* The output is closed when the end was announced and every position is known:
\* an unknown one would be the first not written.
EndsWhenKnown ==
    Out.stream_closed = (reassembler.end_of_stream = N /\ Known = 0 .. N - 1)

LEMMA ClosedWhenKnown == IInv => EndsWhenKnown
<1> SUFFICES ASSUME IInv
             PROVE  Out.stream_closed =
                        (reassembler.end_of_stream = N /\ Known = 0 .. N - 1)
    BY DEF EndsWhenKnown
<1>1. /\ Pushed \in 0 .. N /\ Out.stream_closed \in BOOLEAN
      /\ PendingIndices(reassembler) \subseteq 0 .. N - 1
      /\ \A i \in PendingIndices(reassembler) : Pushed < i
    BY StateFacts
<1>2. Pushed = N => Known = 0 .. N - 1
    BY <1>1, StreamNumbers, KnownPositions
<1>3. Pushed # N => Known # 0 .. N - 1
    <2>1. Pushed \notin Known
        BY <1>1, StreamNumbers, KnownPositions
    <2>2. Pushed # N => Pushed \in 0 .. N - 1
        BY <1>1, StreamNumbers
    <2> QED BY <2>1, <2>2
<1>4. Out.stream_closed <=> (reassembler.end_of_stream = N /\ Pushed = N)
    BY StateFacts
<1> QED BY <1>1, <1>2, <1>3, <1>4

\* A byte outside the window is not stored, an accepted one is never
\* forgotten, none is given to the reader after a gap, and the stream ends with
\* its last byte: every step of the Reassembler (reassembler.cc:7-45) is a step
\* of StreamWindow or changes nothing in it.
THEOREM ImplementsWindow == Spec => WindowSpec
<1>1. Init => Window!Init
    <2> SUFFICES ASSUME Init PROVE Window!Init
        OBVIOUS
    <2>1. /\ Pushed = 0 /\ Popped = 0 /\ PendingIndices(reassembler) = {}
          /\ reassembler.end_of_stream = UINT64_MAX
          /\ Out.stream_closed = FALSE
        <3>1. reassembler = [output |-> [capacity |-> Capacity, error |-> FALSE,
                                 total_pushed |-> 0, buffer |-> <<>>,
                                 stream_closed |-> FALSE, total_popped |-> 0],
                             unassembled |-> <<>>, end_of_stream |-> UINT64_MAX]
            BY DEF Init, NewReassembler, NewByteStream
        <3>2. DOMAIN <<>> = {}
            OBVIOUS
        <3> QED BY <3>1, <3>2 DEF Pushed, Popped, Out, BytesPushed,
                   BytesPopped, PendingIndices
    <2> QED BY <2>1, StreamNumbers DEF Window!Init
<1>2. IInv' => EndsWhenKnown'
    BY ClosedWhenKnown, PTL
<1>4. Known' = (0 .. Pushed - 1)' \cup PendingIndices(reassembler)'
    BY DEF Known, KnownIndices, Pushed, BytesPushed, Out
<1>3. IInv /\ [Next]_vars => [Window!Next]_(Window!vars)
    <2> SUFFICES ASSUME IInv, [Next]_vars
                 PROVE  Window!Next \/ UNCHANGED Window!vars
        OBVIOUS
    <2> DEFINE end == reassembler.end_of_stream
    <2>1. ASSUME NEW first \in 0 .. N, NEW len \in 0 .. N,
                 NEW is_last \in BOOLEAN,
                 InsertSubstring(first, len, is_last)
          PROVE  Window!Next
        <3> DEFINE last == first + len - 1
        <3>1. first + len <= N /\ (is_last => first + len = N)
            BY <2>1 DEF InsertSubstring
        <3>2. last \in -1 .. N - 1 /\ (is_last => last = N - 1)
            BY <3>1, StreamNumbers
        <3>3. /\ IInv' /\ Popped' = Popped
              /\ Known' = Known \cup {i \in first .. last : i < Popped + Capacity}
              /\ end' = IF is_last THEN N ELSE end
            BY <2>1, InsertSubstringInv
        <3>4. Out'.stream_closed = (end' = N /\ Known' = 0 .. N - 1)
            BY <3>3, <1>2 DEF EndsWhenKnown
        <3>5. (end' = N) = (end = N \/ is_last)
            BY <3>3
        <3> HIDE DEF last, end
        <3>6. Window!Learn(first, last, is_last)
            BY <3>2, <3>3, <3>4, <3>5, KnownPositions, <1>4
               DEF Window!Learn, Window!Positions, end
        <3> QED BY <3>2, <3>6 DEF Window!Next
    <2>2. ASSUME NEW i \in 1 .. N, InsertInvalidIndex(<<Stream[i]>>)
          PROVE  UNCHANGED Window!vars
        <3>1. IInv' /\ Known' = Known /\ Popped' = Popped /\ end' = end
            BY <2>2, InsertInvalidIndexInv
        <3>2. Out'.stream_closed = Out.stream_closed
            BY <3>1, <1>2, ClosedWhenKnown DEF EndsWhenKnown
        <3> HIDE DEF end
        <3> QED BY <3>1, <3>2, <1>4, KnownPositions DEF Window!vars, end
    <2>3. ASSUME NEW len \in 1 .. Capacity, ReaderPop(len)
          PROVE  Window!Next
        <3>1. /\ Known' = Known /\ Popped' = Popped + len
              /\ Popped + len <= Pushed /\ end' = end
              /\ Out'.stream_closed = Out.stream_closed
            BY <2>3, ReaderPopInv
        <3>2. Popped \in Nat /\ Pushed \in 0 .. N
            BY StateFacts, StreamNumbers
        <3> DEFINE n == Popped + len
        <3>3. n \in 1 .. N /\ Popped < n /\ n <= Pushed /\ Popped' = n
            BY <3>1, <3>2, StreamNumbers
        <3> HIDE DEF n
        <3>4. 0 .. n - 1 \subseteq Known
            BY <3>2, <3>3, KnownPositions
        <3> HIDE DEF end
        <3>5. (end' = N) = (end = N)
            BY <3>1
        <3>6. Window!Take(n)
            BY <3>1, <3>3, <3>4, <3>5, <1>4, KnownPositions
               DEF Window!Take, end
        <3> QED BY <3>3, <3>6 DEF Window!Next
    <2>4. CASE UNCHANGED vars
        BY <2>4 DEF vars, Window!vars, Out, Pushed, Popped, BytesPushed,
           BytesPopped, PendingIndices
    <2> QED BY <2>1, <2>2, <2>3, <2>4 DEF Next
<1> QED BY <1>1, <1>3, Invariance, PTL DEF Spec, WindowSpec, Window!Spec
=============================================================================
