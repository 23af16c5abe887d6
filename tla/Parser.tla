------------------------------- MODULE Parser -------------------------------
(***************************************************************************)
(* util/parser and util/checksum.hh: reading a list of buffers as if it    *)
(* were one, writing one, and the Internet checksum.  A byte is a number   *)
(* below 256, a buffer a sequence of bytes.                                *)
(***************************************************************************)
EXTENDS Integers, Sequences

LOCAL INSTANCE SequencesExt

LOCAL AtMost(a, b) == IF a <= b THEN a ELSE b

\* The n bytes of an integer in network order, and the integer they stand for
Bytes(value, n) == [i \in 1 .. n |-> (value \div 256 ^ (n - i)) % 256]
Number(bytes)   == FoldLeft(LAMBDA n, b : 256 * n + b, 0, bytes)

Concatenated(buffers) == FlattenSeq(buffers)

(* Parser: a BufferList and the error flag *)

NewParser(buffers) ==
    [buffers |-> buffers, skip |-> 0, size |-> Len(Concatenated(buffers)),
     error |-> FALSE]

SetParserError(p) == [p EXCEPT !.error = TRUE]

\* BufferList::peek, of a list that is not empty.  substr throws if skip_ is
\* beyond the end of the first buffer.
FrontView(p)  == SubSeq(Head(p.buffers), p.skip + 1, Len(Head(p.buffers)))
SkipsTooFar(p) == p.size > 0 /\ p.skip > Len(Head(p.buffers))

\* One round of the loop of remove_prefix, with len bytes still to remove
RemoveRound(removing, buffer) ==
    LET p     == removing.parser
        now   == AtMost(removing.len, Len(FrontView(p)))
        empty == p.skip + now = Len(Head(p.buffers))
    IN  IF removing.len = 0 \/ p.buffers = <<>> THEN removing
        ELSE [len    |-> removing.len - now,
              parser |-> [p EXCEPT !.size = @ - now,
                                   !.buffers = IF empty THEN Tail(@) ELSE @,
                                   !.skip = IF empty THEN 0 ELSE @ + now]]

\* Parser::remove_prefix: a round for each buffer is enough
RemovePrefix(p, len) ==
    FoldLeft(RemoveRound, [parser |-> p, len |-> len], p.buffers).parser

\* BufferList::truncate: the first buffers, up to len bytes of them, counted
\* from where the first one begins and not from skip_ on
Truncate(p, len) ==
    LET Before(i) == Len(Concatenated(SubSeq(p.buffers, 1, i - 1)))
        kept == SelectSeq([i \in DOMAIN p.buffers |-> i],
                          LAMBDA i : Before(i) < len)
    IN  IF p.size <= len THEN p
        ELSE [p EXCEPT !.size = len,
                       !.buffers =
                          [i \in DOMAIN kept |->
                             SubSeq(@[i], 1, AtMost(Len(@[i]),
                                                    len - Before(i)))]]

\* BufferList::buffer and dump_all: the buffers that are left
Remaining(p) ==
    IF p.size = 0 THEN <<>> ELSE <<FrontView(p)>> \o Tail(p.buffers)

\* Parser::integer into a field of n bytes, which stays zero after an error
ReadInteger(reading, n) ==
    LET p     == reading.parser
        short == p.error \/ n > p.size
    IN  [parser |-> IF short THEN SetParserError(p) ELSE RemovePrefix(p, n),
         fields |-> Append(reading.fields,
                           IF short THEN Bytes(0, n)
                           ELSE SubSeq(Concatenated(Remaining(p)), 1, n))]

\* A header, an integer after the other, of layout[i] bytes each
ReadIntegers(p, layout) ==
    FoldLeft(ReadInteger, [parser |-> p, fields |-> <<>>], layout)

(* Serializer: the buffers that are complete, and the one of the integers *)

NewSerializer == [output |-> <<>>, buffer |-> <<>>]

WriteInteger(s, bytes) == [s EXCEPT !.buffer = @ \o bytes]
WriteIntegers(s, fields) == FoldLeft(WriteInteger, s, fields)

FlushSerializer(s) ==
    IF s.buffer = <<>> THEN s
    ELSE [output |-> Append(s.output, s.buffer), buffer |-> <<>>]

WriteBuffer(s, buffer) ==
    IF buffer = <<>> THEN s
    ELSE [FlushSerializer(s) EXCEPT !.output = Append(@, buffer)]
WriteBuffers(s, buffers) == FoldLeft(WriteBuffer, s, buffers)

Finish(s) == FlushSerializer(s).output

(* InternetChecksum; sum_ stays below 2^32 for what an IPv4 datagram holds *)

NewChecksum(sum) == [sum |-> sum, parity |-> FALSE]

AddByte(c, byte) ==
    [sum    |-> c.sum + (IF c.parity THEN byte ELSE 256 * byte),
     parity |-> ~c.parity]

\* Mutated form of AddBuffer: each buffer begins with a high byte
AddBufferAligned(c, buffer) ==
    FoldLeft(AddByte, [c EXCEPT !.parity = FALSE], buffer)

AddBuffer(c, buffer) == FoldLeft(AddByte, c, buffer)
AddBuffers(c, buffers) == FoldLeft(AddBuffer, c, buffers)

CarryAround(sum) ==
    IF sum > 65535 THEN (sum \div 65536) + (sum % 65536) ELSE sum

\* value(): two rounds take any 32-bit sum below 2^16
ChecksumValue(c) == 65535 - CarryAround(CarryAround(c.sum))
=============================================================================
