----------------------------- MODULE ByteStream -----------------------------
(***************************************************************************)
(* src/byte_stream: a flow-controlled FIFO of bytes, as a record with one  *)
(* operator per method of its Writer and Reader interfaces.  A method that *)
(* changes the object returns the new record.                              *)
(***************************************************************************)
EXTENDS MachineInt, Sequences

NewByteStream(capacity) ==
    [capacity |-> capacity, error |-> FALSE, total_pushed |-> 0,
     buffer |-> <<>>, stream_closed |-> FALSE, total_popped |-> 0]

SetError(b) == [b EXCEPT !.error = TRUE]
HasError(b) == b.error

(* Writer *)

AvailableCapacity(b) == b.capacity - Len(b.buffer)
BytesPushed(b)       == b.total_pushed
IsClosed(b)          == b.stream_closed

\* Writer::push: byte by byte until the buffer is full; the rest is dropped
Push(b, data) ==
    LET n == Lesser(AvailableCapacity(b), Len(data))
    IN  [b EXCEPT !.buffer = @ \o SubSeq(data, 1, n), !.total_pushed = @ + n]

Close(b) == [b EXCEPT !.stream_closed = TRUE]

(* Reader *)

Peek(b)          == b.buffer
BytesBuffered(b) == U64(b.total_pushed - b.total_popped)
BytesPopped(b)   == b.total_popped

IsFinished(b) == b.stream_closed /\ b.total_pushed = b.total_popped

\* Reader::pop: erase clamps len to the buffer, the counter does not
Pop(b, len) ==
    [b EXCEPT !.buffer = SubSeq(@, len + 1, Len(@)), !.total_popped = @ + len]

\* read(): what the helper puts into out.  peek returns the whole buffer, so
\* its loop runs at most once; the caller pops Len of the result.
ReadOut(b, max_len) == SubSeq(Peek(b), 1, Lesser(BytesBuffered(b), max_len))
=============================================================================
