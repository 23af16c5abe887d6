---------------------------- MODULE Reassembler ----------------------------
(***************************************************************************)
(* src/reassembler: indexed substrings of a stream, put back in order.     *)
(* The object is a record: output is the ByteStream it writes into,        *)
(* unassembled the map from the indices of stored bytes to the bytes,      *)
(* end_of_stream the index after the last byte (UINT64_MAX: not known).    *)
(***************************************************************************)
EXTENDS ByteStream

NewReassembler(capacity) ==
    [output |-> NewByteStream(capacity), unassembled |-> <<>>,
     end_of_stream |-> UINT64_MAX]

\* Reassembler::count_bytes_pending is the size of this set
PendingIndices(r) == DOMAIN r.unassembled

\* first_unacceptable_index of insert()
FirstUnacceptable(r) == BytesPushed(r.output) + AvailableCapacity(r.output)

\* Mutated form of StoredIndices: off by one at the right edge
StoredIndicesPastEdge(r, first_index, data) ==
    {i \in first_index .. first_index + Len(data) - 1 :
        BytesPushed(r.output) <= i /\ i <= FirstUnacceptable(r)}

\* The indices of data that insert() stores: those not yet written to the
\* output and not beyond its capacity
StoredIndices(r, first_index, data) ==
    {i \in first_index .. first_index + Len(data) - 1 :
        BytesPushed(r.output) <= i /\ i < FirstUnacceptable(r)}

\* Mutated form of Stored: a skipped byte does not advance the position in data
StoredShifted(r, first_index, data) ==
    LET new   == StoredIndices(r, first_index, data)
        first == Greater(first_index, BytesPushed(r.output))
    IN  [i \in new \cup PendingIndices(r) |->
            IF i \in new THEN data[i - first + 1] ELSE r.unassembled[i]]

\* SECTION 1 of insert(): the map after the bytes of data went into it
Stored(r, first_index, data) ==
    LET new == StoredIndices(r, first_index, data)
    IN  [i \in new \cup PendingIndices(r) |->
            IF i \in new THEN data[i - first_index + 1] ELSE r.unassembled[i]]

\* The first index from 'from' on that is not a key: where SECTION 2 stops
FirstGap(from, keys) ==
    CHOOSE g \in {from} \cup {k + 1 : k \in keys} :
        /\ g >= from /\ g \notin keys
        /\ \A i \in from .. g - 1 : i \in keys

\* The bytes of a map at the indices from .. to - 1, in order
Run(map, from, to) == [k \in 1 .. to - from |-> map[from + k - 1]]

\* Mutated form of Rest: the pushed bytes are not erased
RestKeepsAll(map, from) == map

\* What the map keeps when the bytes before index 'from' were pushed
Rest(map, from) == [i \in {k \in DOMAIN map : k >= from} |-> map[i]]

\* Mutated form of EndIndex: the last byte's index, not the one after it
EndIndexOfLastByte(r, first_index, data, is_last_substring) ==
    IF is_last_substring THEN U64(first_index + Len(data) - 1)
                         ELSE r.end_of_stream

EndIndex(r, first_index, data, is_last_substring) ==
    IF is_last_substring THEN U64(first_index + Len(data)) ELSE r.end_of_stream

\* Mutated form of Insert: the end mark closes the stream at once
InsertClosesEarly(r, first_index, data, is_last_substring) ==
    LET from == BytesPushed(r.output)
        map  == Stored(r, first_index, data)
        gap  == FirstGap(from, DOMAIN map)
        out  == Push(r.output, Run(map, from, gap))
    IN  [output |-> IF is_last_substring THEN Close(out) ELSE out,
         unassembled |-> Rest(map, gap),
         end_of_stream |-> EndIndex(r, first_index, data, is_last_substring)]

(***************************************************************************)
(* Reassembler::insert.  SECTION 2 pushes one byte at a time; pushing the  *)
(* whole run at once leaves the same output, since push stops at the same  *)
(* byte.  The stream is closed when every byte before its end was written. *)
(***************************************************************************)
Insert(r, first_index, data, is_last_substring) ==
    LET from == BytesPushed(r.output)
        map  == Stored(r, first_index, data)
        gap  == FirstGap(from, DOMAIN map)
        end  == EndIndex(r, first_index, data, is_last_substring)
        out  == Push(r.output, Run(map, from, gap))
    IN  [output |-> IF gap = end THEN Close(out) ELSE out,
         unassembled |-> Rest(map, gap), end_of_stream |-> end]
=============================================================================
