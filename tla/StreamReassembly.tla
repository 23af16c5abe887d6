-------------------------- MODULE StreamReassembly --------------------------
(***************************************************************************)
(* A Reassembler between a peer that sends substrings of a stream in any   *)
(* order, overlapping and repeated, and a reader that takes bytes from its *)
(* output at any pace.  The stream is a sequence of bytes; substrings are  *)
(* cut from it, so overlapping ones agree.                                 *)
(***************************************************************************)
EXTENDS Reassembler

CONSTANTS
    Stream,     \* the bytes the peer sends
    Capacity    \* of the ByteStream the Reassembler writes into

ASSUME StreamAssumption ==
    /\ Stream \in Seq({Stream[i] : i \in DOMAIN Stream})
    /\ Capacity \in Nat
    /\ Len(Stream) + Capacity < UINT64_MAX

VARIABLE reassembler

vars == reassembler

N == Len(Stream)
Out == reassembler.output
Pushed == BytesPushed(Out)
Popped == BytesPopped(Out)

Init == reassembler = NewReassembler(Capacity)

(***************************************************************************)
(* The substring of len bytes at index first arrives.  One that reaches    *)
(* the end of the stream may carry the end mark (the FIN flag) or not.     *)
(***************************************************************************)
InsertSubstring(first, len, is_last) ==
    /\ first + len <= N
    /\ is_last => first + len = N
    /\ reassembler' = Insert(reassembler, first,
                             [k \in 1 .. len |-> Stream[first + k]], is_last)

\* A byte before the first one of the stream: the index TCPReceiver::receive
\* computes for a keep-alive that repeats the SYN's sequence number
InsertInvalidIndex(data) ==
    reassembler' = Insert(reassembler, UINT64_MAX, data, FALSE)

ReaderPop(len) ==
    /\ len <= Len(Peek(Out))
    /\ reassembler' = [reassembler EXCEPT !.output = Pop(Out, len)]

Next ==
    \/ \E first \in 0 .. N, len \in 0 .. N, is_last \in BOOLEAN :
          InsertSubstring(first, len, is_last)
    \/ \E i \in 1 .. N : InsertInvalidIndex(<<Stream[i]>>)
    \/ \E len \in 1 .. Capacity : ReaderPop(len)

Spec == Init /\ [][Next]_vars
-----------------------------------------------------------------------------
Bytes == {Stream[i] : i \in DOMAIN Stream}

TypeOK ==
    /\ reassembler.unassembled \in [PendingIndices(reassembler) -> Bytes]
    /\ PendingIndices(reassembler) \subseteq 0 .. N - 1
    /\ reassembler \in
          [output : [capacity : {Capacity}, error : {FALSE},
                     total_pushed : 0 .. N, buffer : Seq(Bytes),
                     stream_closed : BOOLEAN, total_popped : 0 .. N],
           unassembled : {reassembler.unassembled},
           end_of_stream : {N, UINT64_MAX}]

(***************************************************************************)
(* What the reader finds in the buffer is the stream, from the first byte  *)
(* it has not taken: no byte lost, repeated or misplaced, whatever the     *)
(* order and overlap of the substrings.  The bytes stored for later are    *)
(* those of the stream at their indices.                                   *)
(***************************************************************************)
BytesInPlace ==
    /\ Popped + Len(Out.buffer) = Pushed
    /\ \A k \in 1 .. Len(Out.buffer) : Out.buffer[k] = Stream[Popped + k]
    /\ \A i \in PendingIndices(reassembler) :
          reassembler.unassembled[i] = Stream[i + 1]

(***************************************************************************)
(* The bytes held for later lie strictly between the last byte written and *)
(* the end of the capacity: what the Reassembler and its output hold       *)
(* together never exceeds the capacity, and a byte that could be written   *)
(* is never held back (reassembler.hh:19-28).                              *)
(***************************************************************************)
PendingInsideWindow ==
    /\ Pushed <= Popped + Capacity
    /\ \A i \in PendingIndices(reassembler) :
          Pushed < i /\ i < Popped + Capacity

(***************************************************************************)
(* The output is closed exactly when the end is known and every byte was   *)
(* written, also when the end mark came first or without a byte.           *)
(***************************************************************************)
ClosedAtEnd ==
    Out.stream_closed <=> (reassembler.end_of_stream = N /\ Pushed = N)

(***************************************************************************)
(* The Reassembler implements StreamWindow: the positions it knows are     *)
(* those written and those stored.  A step that stores a byte outside the  *)
(* window, forgets one it accepted or gives the reader one after a gap is  *)
(* no step of StreamWindow.                                                *)
(***************************************************************************)
Window == INSTANCE StreamWindow WITH
    Length    <- N,
    known     <- (0 .. Pushed - 1) \cup PendingIndices(reassembler),
    taken     <- Popped,
    announced <- reassembler.end_of_stream = N,
    ended     <- Out.stream_closed

WindowSpec == Window!Spec
=============================================================================
