------------------------- MODULE StreamCopyProofs -------------------------
(***************************************************************************)
(* The safety of StreamCopy for every size of the buffers, the kernel's    *)
(* streams and the integers, and however much is copied: what the event    *)
(* loop knows of its rules, and that each direction is a BytePipe.         *)
(***************************************************************************)
EXTENDS StreamCopy, SequenceTheorems, TLAPS
-----------------------------------------------------------------------------
(* The inductive invariant *)

IsStream(s) ==
    /\ s \in [bytes : Seq(Nat), shut : BOOLEAN]
    /\ Len(s.bytes) <= Room

IsBuffer(b) ==
    /\ b \in [capacity : {buffer_size}, error : BOOLEAN, total_pushed : Nat,
              buffer : Seq(Nat), stream_closed : BOOLEAN, total_popped : Nat]
    /\ Len(b.buffer) <= buffer_size
    /\ b.total_pushed = b.total_popped + Len(b.buffer)

\* A piece of the numbers that a writer writes, from this one on
Numbered(bytes, from) == \A k \in 1 .. Len(bytes) : bytes[k] = from + k - 1

\* Nothing is left to be read, and nothing will be.
Exhausted(source) == source.shut /\ source.bytes = <<>>

\* One direction of the copy: what is on its way from the writer to the reader is
\* what was written and not yet read, in this order, and the end is read, and
\* shown, when all of it was.
Carries(source, stream, sink, wrote, got, eof, shown) ==
    /\ IsStream(source) /\ IsBuffer(stream) /\ IsStream(sink)
    /\ wrote \in Nat /\ got \in Nat
    /\ wrote = got + Len(sink.bytes) + Len(stream.buffer) + Len(source.bytes)
    /\ Numbered(sink.bytes, got) /\ Numbered(stream.buffer, got + Len(sink.bytes))
    /\ Numbered(source.bytes, got + Len(sink.bytes) + Len(stream.buffer))
    /\ eof => Exhausted(source)
    /\ shown => Exhausted(source) /\ stream.stream_closed /\ stream.buffer = <<>>

FieldNames == {"stdin", "to_socket", "from_socket", "stdout", "outbound", "inbound",
               "outbound_shutdown", "inbound_shutdown", "eof", "closed", "serviced",
               "failed"}

\* These fields and no others
HasFields(v) == v = [name \in FieldNames |-> v[name]]

IsProcess(v) ==
    /\ HasFields(v)
    /\ v.outbound_shutdown \in BOOLEAN /\ v.inbound_shutdown \in BOOLEAN
    /\ v.serviced \in BOOLEAN /\ v.failed \in BOOLEAN
    /\ v.closed \subseteq {"output"}

\* Both directions; and who has shut what, and who has left, when there is an
\* error or a failure.
Sound(v, u, f) ==
    /\ IsProcess(v)
    /\ Carries(v.stdin, v.outbound, v.to_socket, u.wrote, f.got,
               "input" \in v.eof, v.outbound_shutdown)
    /\ Carries(v.from_socket, v.inbound, v.stdout, f.wrote, u.got,
               "socket" \in v.eof, "output" \in v.closed)
    /\ v.inbound_shutdown => "output" \in v.closed
    /\ v.outbound.error \/ v.inbound.error => u.left
    /\ v.stdout.shut => u.left
    /\ v.to_socket.shut => v.outbound_shutdown \/ f.left
    /\ v.failed => u.left \/ f.left

\* What the rules that fill and drain a byte stream leave behind when they are
\* gone: the stream is closed, and the end was shown to whoever still reads.  As
\* long as it is drained the stream is closed only at the end of its source.
Tied(source, stream, filled, drained, shown, gone) ==
    /\ stream.stream_closed => Exhausted(source) \/ ~ drained
    /\ ~ filled => stream.stream_closed
    /\ ~ drained => shown \/ gone

\* The rules with these names are left.
Ruled(v, names, u, f) ==
    /\ Tied(v.stdin, v.outbound, 1 \in names, 2 \in names,
            v.outbound_shutdown, f.left)
    /\ Tied(v.from_socket, v.inbound, 3 \in names, 4 \in names,
            "output" \in v.closed, u.left)

\* What a callback needs to do something
RoomFor(name, v) ==
    /\ name = 1 => Len(v.outbound.buffer) < buffer_size
    /\ name = 2 => Len(v.to_socket.bytes) < Room
    /\ name = 3 => Len(v.inbound.buffer) < buffer_size
    /\ name = 4 => Len(v.stdout.bytes) < Room

\* What is still true, when a result of poll is looked at, of what it says
PollHolds(v, u, f, rule, asked, revents) ==
    /\ "ERR" \in revents => rule.name = 4 /\ u.left
    /\ EventLoop!HungUp(rule, asked, revents) =>
          \/ rule.name = 1 /\ Exhausted(v.stdin)
          \/ rule.name = 2 /\ (v.outbound_shutdown \/ f.left)
    /\ asked \cap revents # {} => RoomFor(rule.name, v)

FourRules == <<EventLoop!Rule(1, "input", "IN"), EventLoop!Rule(2, "socket", "OUT"),
               EventLoop!Rule(3, "socket", "IN"), EventLoop!Rule(4, "output", "OUT")>>

AnyRule == {FourRules[k] : k \in 1 .. 4}

\* Some of the four rules, in the order they were added
IsRules(rules) ==
    /\ rules \in Seq(AnyRule)
    /\ \A k, l \in 1 .. Len(rules) : k < l => rules[k].name < rules[l].name

Names(rules) == {rules[k].name : k \in 1 .. Len(rules)}

IsParty(p) == p = [wrote |-> p.wrote, got |-> p.got, left |-> p.left]
              /\ p.left \in BOOLEAN

IInv ==
    /\ IsParty(user) /\ IsParty(far) /\ Sound(w, user, far)
    /\ loop = [at |-> loop.at, rules |-> loop.rules, asked |-> loop.asked,
               revents |-> loop.revents]
    /\ loop.at \in {"poll", "serve", "exit"}
    /\ IsRules(loop.rules)
    /\ loop.at # "exit" => Ruled(w, Names(loop.rules), user, far)
    /\ loop.at = "serve" =>
          \A i \in 1 .. Len(loop.rules) :
              PollHolds(w, user, far, loop.rules[i], loop.asked[i], loop.revents[i])
    /\ loop.at = "exit" =>
          user.left \/ far.left \/ (w.outbound_shutdown /\ "output" \in w.closed)
-----------------------------------------------------------------------------
(* Bytes in buffers *)

\* The parameters' types.
LEMMA Sizes ==
    /\ Room \in Nat /\ Room > 0 /\ kReadBufferSize \in Nat /\ kReadBufferSize > 0
    /\ buffer_size \in Nat /\ buffer_size > 0 /\ buffer_size < Mod64
    /\ Mod64 \in Nat
BY DescriptorAssumption, CopyAssumption, WidthAssumption DEF UInt64

\* The two parts of a piece are pieces.
LEMMA Parts ==
    ASSUME NEW bytes \in Seq(Nat), NEW n \in 0 .. Len(bytes), NEW from \in Nat,
           Numbered(bytes, from)
    PROVE  /\ SubSeq(bytes, 1, n) \in Seq(Nat) /\ Len(SubSeq(bytes, 1, n)) = n
           /\ Numbered(SubSeq(bytes, 1, n), from)
           /\ SubSeq(bytes, n + 1, Len(bytes)) \in Seq(Nat)
           /\ Len(SubSeq(bytes, n + 1, Len(bytes))) = Len(bytes) - n
           /\ Numbered(SubSeq(bytes, n + 1, Len(bytes)), from + n)
<1> DEFINE front == SubSeq(bytes, 1, n)
           back  == SubSeq(bytes, n + 1, Len(bytes))
<1>1. Len(bytes) \in Nat /\ \A i \in 1 .. Len(bytes) : bytes[i] \in Nat
    BY LenProperties, ElementOfSeq
<1>2. /\ front \in Seq(Nat) /\ Len(front) = n
      /\ \A i \in 1 .. n : front[i] = bytes[i]
    <2>1. \A i \in 1 .. n : bytes[i] \in Nat
        BY <1>1
    <2>2. /\ SubSeq(bytes, 1, n) \in Seq(Nat)
          /\ Len(SubSeq(bytes, 1, n)) = (IF 1 <= n THEN n - 1 + 1 ELSE 0)
          /\ \A i \in 1 .. n - 1 + 1 : SubSeq(bytes, 1, n)[i] = bytes[1 + i - 1]
        BY <2>1, SubSeqProperties
    <2> QED BY <2>2, <1>1
<1>3. /\ back \in Seq(Nat) /\ Len(back) = Len(bytes) - n
      /\ \A i \in 1 .. Len(bytes) - n : back[i] = bytes[n + i]
    <2> DEFINE m == n + 1
               l == Len(bytes)
    <2>1. m \in Int /\ l \in Int /\ \A i \in m .. l : bytes[i] \in Nat
        BY <1>1
    <2>5. back = SubSeq(bytes, m, l)
        OBVIOUS
    <2> HIDE DEF m, l, back
    <2>2. /\ SubSeq(bytes, m, l) \in Seq(Nat)
          /\ Len(SubSeq(bytes, m, l)) = (IF m <= l THEN l - m + 1 ELSE 0)
          /\ \A i \in 1 .. l - m + 1 : SubSeq(bytes, m, l)[i] = bytes[m + i - 1]
        BY <2>1, SubSeqProperties
    <2>3. l - m + 1 = Len(bytes) - n /\ m = n + 1 /\ l = Len(bytes)
        BY <1>1 DEF m, l
    <2>4. ASSUME NEW i \in 1 .. Len(bytes) - n
          PROVE  back[i] = bytes[n + i]
        <3>1. i \in 1 .. l - m + 1 /\ m + i - 1 = n + i
            BY <1>1, <2>3
        <3>2. back[i] = bytes[m + i - 1]
            BY <2>2, <2>5, <3>1
        <3> QED BY <3>1, <3>2
    <2>6. Len(back) = Len(bytes) - n
        <3>1. Len(back) = IF m <= l THEN l - m + 1 ELSE 0
            BY <2>2, <2>5
        <3>2. m \in Int /\ l \in Int /\ n \in Int /\ n <= l /\ m = n + 1 /\ l = Len(bytes)
            BY <1>1, <2>3
        <3> QED BY <3>1, <3>2
    <2> QED BY <2>2, <2>4, <2>5, <2>6
<1> HIDE DEF front, back
<1>4. Numbered(front, from)
    <2> SUFFICES ASSUME NEW i \in 1 .. n
                 PROVE  front[i] = from + i - 1
        BY <1>2 DEF Numbered
    <2>1. i \in 1 .. Len(bytes)
        BY <1>1
    <2> QED BY <1>2, <2>1 DEF Numbered
<1>5. Numbered(back, from + n)
    <2> SUFFICES ASSUME NEW i \in 1 .. Len(bytes) - n
                 PROVE  back[i] = from + n + i - 1
        BY <1>3 DEF Numbered
    <2>1. n + i \in 1 .. Len(bytes)
        BY <1>1
    <2>2. bytes[n + i] = from + (n + i) - 1
        BY <2>1 DEF Numbered
    <2> QED BY <1>1, <1>3, <2>2
<1> QED BY <1>2, <1>3, <1>4, <1>5 DEF front, back

\* Two pieces that follow each other are one.
LEMMA Together ==
    ASSUME NEW front \in Seq(Nat), NEW back \in Seq(Nat), NEW from \in Nat,
           Numbered(front, from), Numbered(back, from + Len(front))
    PROVE  /\ front \o back \in Seq(Nat)
           /\ Len(front \o back) = Len(front) + Len(back)
           /\ Numbered(front \o back, from)
<1>1. Len(front) \in Nat /\ Len(back) \in Nat
    BY LenProperties
<1>2. /\ front \o back \in Seq(Nat) /\ Len(front \o back) = Len(front) + Len(back)
      /\ \A i \in 1 .. Len(front) + Len(back) :
            (front \o back)[i] = IF i <= Len(front) THEN front[i]
                                 ELSE back[i - Len(front)]
    BY ConcatProperties
<1>3. ASSUME NEW i \in 1 .. Len(front) + Len(back)
      PROVE  (front \o back)[i] = from + i - 1
    <2>1. CASE i <= Len(front)
        BY <1>1, <1>2, <2>1 DEF Numbered
    <2>2. CASE i > Len(front)
        <3> DEFINE j == i - Len(front)
        <3>1. j \in 1 .. Len(back) /\ i = Len(front) + j
            BY <1>1, <2>2
        <3>2. back[j] = from + Len(front) + j - 1
            BY <3>1 DEF Numbered
        <3>3. (front \o back)[i] = back[j]
            BY <1>2, <2>2, <1>1
        <3> HIDE DEF j
        <3> QED BY <1>1, <3>1, <3>2, <3>3
    <2> QED BY <1>1, <2>1, <2>2
<1> QED BY <1>2, <1>3 DEF Numbered

\* The empty sequence, as SMT sees it
LEMMA EmptyIff ==
    ASSUME NEW bytes \in Seq(Nat)
    PROVE  Len(bytes) \in Nat /\ (bytes = <<>> <=> Len(bytes) = 0)
BY EmptySeq, LenProperties
-----------------------------------------------------------------------------
(* Steps of one direction *)

\* What Carries says of its three buffers.
LEMMA CarriesFacts ==
    ASSUME NEW source, NEW stream, NEW sink, NEW wrote, NEW got, NEW eof, NEW shown,
           Carries(source, stream, sink, wrote, got, eof, shown)
    PROVE  /\ source \in [bytes : Seq(Nat), shut : BOOLEAN]
           /\ sink \in [bytes : Seq(Nat), shut : BOOLEAN]
           /\ stream \in [capacity : {buffer_size}, error : BOOLEAN,
                          total_pushed : Nat, buffer : Seq(Nat),
                          stream_closed : BOOLEAN, total_popped : Nat]
           /\ Len(source.bytes) \in Nat /\ Len(source.bytes) <= Room
           /\ Len(sink.bytes) \in Nat /\ Len(sink.bytes) <= Room
           /\ Len(stream.buffer) \in Nat /\ Len(stream.buffer) <= buffer_size
           /\ stream.total_pushed = stream.total_popped + Len(stream.buffer)
           /\ wrote \in Nat /\ got \in Nat
           /\ wrote = got + Len(sink.bytes) + Len(stream.buffer) + Len(source.bytes)
<1>1. IsStream(source) /\ IsStream(sink) /\ IsBuffer(stream)
    BY DEF Carries
<1>2. /\ source.bytes \in Seq(Nat) /\ sink.bytes \in Seq(Nat)
      /\ stream.buffer \in Seq(Nat)
    BY <1>1 DEF IsStream, IsBuffer
<1>3. /\ Len(source.bytes) \in Nat /\ Len(sink.bytes) \in Nat
      /\ Len(stream.buffer) \in Nat
    BY <1>2, EmptyIff
<1> QED BY <1>1, <1>3 DEF Carries, IsStream, IsBuffer

\* The counters of a ByteStream say what it holds.
LEMMA BufferedIs ==
    ASSUME NEW stream, IsBuffer(stream)
    PROVE  /\ BytesBuffered(stream) = Len(stream.buffer)
           /\ stream.buffer = <<>> <=> Len(stream.buffer) = 0
           /\ IsFinished(stream) <=> (stream.stream_closed /\ stream.buffer = <<>>)
<1>1. stream.buffer \in Seq(Nat)
    BY DEF IsBuffer
<1>2. /\ Len(stream.buffer) \in Nat
      /\ stream.buffer = <<>> <=> Len(stream.buffer) = 0
    BY <1>1, EmptyIff
<1>3. /\ stream.total_popped \in Nat /\ Len(stream.buffer) <= buffer_size
      /\ stream.total_pushed = stream.total_popped + Len(stream.buffer)
    BY DEF IsBuffer
<1>4. stream.total_pushed - stream.total_popped = Len(stream.buffer)
    BY <1>2, <1>3
<1>5. U64(Len(stream.buffer)) = Len(stream.buffer)
    BY <1>2, <1>3, Sizes DEF U64
<1>6. stream.total_pushed = stream.total_popped <=> Len(stream.buffer) = 0
    BY <1>2, <1>3
<1> QED BY <1>2, <1>4, <1>5, <1>6 DEF BytesBuffered, IsFinished

\* What is read from the source fits into the stream.
LEMMA FillCarries ==
    ASSUME NEW source, NEW stream, NEW sink, NEW wrote, NEW got, NEW eof, NEW shown,
           Carries(source, stream, sink, wrote, got, eof, shown),
           Len(stream.buffer) < buffer_size
    PROVE  LET size == AvailableCapacity(stream)
           IN  Carries(AfterRead(source, size), Push(stream, ReadData(source, size)),
                       sink, wrote, got, eof, shown)
<1> DEFINE size == AvailableCapacity(stream)
           n    == ReadLength(source, size)
           data == ReadData(source, size)
           from == got + Len(sink.bytes) + Len(stream.buffer)
           s    == AfterRead(source, size)
           b    == Push(stream, data)
<1>1. /\ source \in [bytes : Seq(Nat), shut : BOOLEAN]
      /\ stream \in [capacity : {buffer_size}, error : BOOLEAN,
                     total_pushed : Nat, buffer : Seq(Nat),
                     stream_closed : BOOLEAN, total_popped : Nat]
      /\ Len(source.bytes) \in Nat /\ Len(source.bytes) <= Room
      /\ Len(sink.bytes) \in Nat /\ got \in Nat
      /\ Len(stream.buffer) \in Nat
      /\ stream.total_pushed = stream.total_popped + Len(stream.buffer)
      /\ wrote = got + Len(sink.bytes) + Len(stream.buffer) + Len(source.bytes)
    BY CarriesFacts
<1>2. size \in Nat /\ size > 0 /\ size = buffer_size - Len(stream.buffer)
    BY <1>1, Sizes DEF AvailableCapacity
<1>3. n \in 0 .. Len(source.bytes) /\ n <= size
    <2> HIDE DEF size
    <2> QED BY <1>1, <1>2 DEF ReadLength, AtMost
<1> HIDE DEF n
<1>4. source.bytes \in Seq(Nat) /\ stream.buffer \in Seq(Nat)
      /\ from \in Nat /\ Numbered(source.bytes, from)
      /\ Numbered(stream.buffer, got + Len(sink.bytes))
    BY <1>1 DEF Carries
<1>5. /\ data \in Seq(Nat) /\ Len(data) = n /\ Numbered(data, from)
      /\ SubSeq(source.bytes, n + 1, Len(source.bytes)) \in Seq(Nat)
      /\ Len(SubSeq(source.bytes, n + 1, Len(source.bytes))) = Len(source.bytes) - n
      /\ Numbered(SubSeq(source.bytes, n + 1, Len(source.bytes)), from + n)
    <2> HIDE DEF from
    <2> QED BY <1>3, <1>4, Parts DEF ReadData, n
<1>6. /\ s.bytes = SubSeq(source.bytes, n + 1, Len(source.bytes))
      /\ s.shut = source.shut /\ s \in [bytes : Seq(Nat), shut : BOOLEAN]
    <2> DEFINE rest == SubSeq(source.bytes, n + 1, Len(source.bytes))
    <2>1. s = [source EXCEPT !.bytes = rest]
        BY DEF AfterRead, n
    <2>2. rest \in Seq(Nat)
        BY <1>5
    <2> HIDE DEF s, rest
    <2>3. s.bytes = rest /\ s.shut = source.shut
          /\ s \in [bytes : Seq(Nat), shut : BOOLEAN]
        BY <1>1, <2>1, <2>2
    <2> QED BY <2>3 DEF rest
<1>7. Lesser(AvailableCapacity(stream), Len(data)) = n
    <2> HIDE DEF data
    <2>1. n \in Int /\ n <= size
        BY <1>1, <1>3
    <2> QED BY <1>2, <1>5, <2>1 DEF Lesser
<1> HIDE DEF data, from, s
<1>8. /\ SubSeq(data, 1, n) \in Seq(Nat) /\ Len(SubSeq(data, 1, n)) = n
      /\ Numbered(SubSeq(data, 1, n), from)
    <2>1. n \in 0 .. Len(data)
        BY <1>1, <1>3, <1>5
    <2> QED BY <1>4, <1>5, <2>1, Parts
<1> DEFINE taken  == SubSeq(data, 1, n)
           buffer == stream.buffer \o taken
<1>9. b = [stream EXCEPT !.buffer = buffer, !.total_pushed = @ + n]
    BY <1>7 DEF Push
<1>10. /\ buffer \in Seq(Nat) /\ Len(buffer) = Len(stream.buffer) + n
       /\ Numbered(buffer, got + Len(sink.bytes))
    <2>1. got + Len(sink.bytes) \in Nat
          /\ from = got + Len(sink.bytes) + Len(stream.buffer)
        BY <1>1 DEF from
    <2> HIDE DEF taken
    <2>2. taken \in Seq(Nat) /\ Len(taken) = n
          /\ Numbered(taken, got + Len(sink.bytes) + Len(stream.buffer))
        BY <1>8, <2>1 DEF taken
    <2> QED BY <1>4, <2>1, <2>2, Together
<1> HIDE DEF buffer, b
<1>11. /\ b \in [capacity : {buffer_size}, error : BOOLEAN, total_pushed : Nat,
                 buffer : Seq(Nat), stream_closed : BOOLEAN, total_popped : Nat]
       /\ b.buffer = buffer /\ b.total_pushed = stream.total_pushed + n
       /\ b.total_popped = stream.total_popped
       /\ b.stream_closed = stream.stream_closed
    <2>1. stream.total_pushed + n \in Nat
        BY <1>1, <1>3
    <2> QED BY <1>1, <1>9, <1>10, <2>1
<1>12. IsBuffer(b)
    <2>1. /\ Len(b.buffer) <= buffer_size
          /\ b.total_pushed = b.total_popped + Len(b.buffer)
        <3> DEFINE l == Len(stream.buffer)
                   h == Len(b.buffer)
        <3>1. /\ stream.total_popped \in Nat /\ l \in Nat /\ n \in Nat
              /\ n <= buffer_size - l /\ h = l + n
              /\ b.total_popped = stream.total_popped
              /\ b.total_pushed = stream.total_popped + l + n
            BY <1>1, <1>2, <1>3, <1>10, <1>11
        <3> HIDE DEF l, h
        <3>2. h <= buffer_size /\ b.total_pushed = b.total_popped + h
            BY <3>1, Sizes
        <3> QED BY <3>2 DEF h
    <2> QED BY <1>11, <2>1 DEF IsBuffer
<1>13. IsStream(s) /\ Len(s.bytes) = Len(source.bytes) - n
       /\ s.shut = source.shut /\ Numbered(s.bytes, from + n)
    BY <1>1, <1>3, <1>5, <1>6, Sizes DEF IsStream
<1>14. Numbered(s.bytes, got + Len(sink.bytes) + Len(b.buffer))
       /\ wrote = got + Len(sink.bytes) + Len(b.buffer) + Len(s.bytes)
    <2> DEFINE a == Len(sink.bytes)
               l == Len(stream.buffer)
               h == Len(b.buffer)
               r == Len(source.bytes)
               t == Len(s.bytes)
    <2>1. /\ got \in Int /\ a \in Int /\ l \in Int /\ r \in Int /\ n \in Int
          /\ h = l + n /\ t = r - n /\ from = got + a + l /\ wrote = got + a + l + r
        BY <1>1, <1>3, <1>10, <1>11, <1>13 DEF from
    <2> HIDE DEF a, l, h, r, t
    <2>2. from + n = got + a + h /\ wrote = got + a + h + t
        BY <2>1
    <2> QED BY <1>13, <2>2 DEF a, h, t
<1>15. /\ Exhausted(source) => Exhausted(s)
       /\ shown => b.buffer = <<>>
    <2>1. Exhausted(source) => Len(source.bytes) = 0 /\ s.shut
        BY <1>4, <1>13, EmptyIff DEF Exhausted
    <2>2. Exhausted(source) => n = 0 /\ Len(s.bytes) = 0
        BY <2>1, <1>3, <1>13
    <2>3. s.bytes \in Seq(Nat)
        BY <1>5, <1>6
    <2>4. Exhausted(source) => Exhausted(s)
        BY <2>1, <2>2, <2>3, EmptyIff DEF Exhausted
    <2>5. shown => Exhausted(source) /\ Len(stream.buffer) = 0
        BY <1>4, EmptyIff DEF Carries
    <2>6. shown => Len(b.buffer) = 0
        BY <1>1, <1>10, <1>11, <2>2, <2>5
    <2> QED BY <1>10, <1>11, <2>4, <2>6, EmptyIff
<1>16. Carries(s, b, sink, wrote, got, eof, shown)
    BY <1>10, <1>11, <1>12, <1>13, <1>14, <1>15 DEF Carries
<1> QED BY <1>16 DEF s, b, data, size

\* What is written to the sink is popped from the stream.
LEMMA DrainCarries ==
    ASSUME NEW source, NEW stream, NEW sink, NEW wrote, NEW got, NEW eof, NEW shown,
           Carries(source, stream, sink, wrote, got, eof, shown)
    PROVE  LET n == Taken(sink, Peek(stream))
           IN  /\ Carries(source, Pop(stream, n), AfterWrite(sink, Peek(stream)),
                          wrote, got, eof, shown)
               /\ n \in Nat
               /\ n = 0 => Len(sink.bytes) >= Room \/ stream.buffer = <<>>
               /\ Len(AfterWrite(sink, Peek(stream)).bytes) = Len(sink.bytes) + n
<1> DEFINE data == stream.buffer
           n    == Taken(sink, data)
           k    == AfterWrite(sink, data)
           b    == Pop(stream, n)
           from == got + Len(sink.bytes)
<1>1. /\ source \in [bytes : Seq(Nat), shut : BOOLEAN]
      /\ sink \in [bytes : Seq(Nat), shut : BOOLEAN]
      /\ stream \in [capacity : {buffer_size}, error : BOOLEAN,
                     total_pushed : Nat, buffer : Seq(Nat),
                     stream_closed : BOOLEAN, total_popped : Nat]
      /\ Len(source.bytes) \in Nat
      /\ Len(sink.bytes) \in Nat /\ Len(sink.bytes) <= Room /\ got \in Nat
      /\ Len(stream.buffer) \in Nat /\ Len(stream.buffer) <= buffer_size
      /\ stream.total_pushed = stream.total_popped + Len(stream.buffer)
      /\ wrote = got + Len(sink.bytes) + Len(stream.buffer) + Len(source.bytes)
    BY CarriesFacts
<1>2. /\ data \in Seq(Nat) /\ sink.bytes \in Seq(Nat)
      /\ from \in Nat /\ Numbered(data, from) /\ Numbered(sink.bytes, got)
    BY <1>1 DEF Carries
<1>3. /\ n \in 0 .. Len(data) /\ Len(sink.bytes) + n <= Room
      /\ n = 0 => Len(sink.bytes) >= Room \/ Len(data) = 0
    BY <1>1, Sizes DEF Taken, AtMost
<1> HIDE DEF n
<1> DEFINE taken == SubSeq(data, 1, n)
           rest  == SubSeq(data, n + 1, Len(data))
           bytes == sink.bytes \o taken
<1>4. /\ taken \in Seq(Nat) /\ Len(taken) = n /\ Numbered(taken, from)
      /\ rest \in Seq(Nat) /\ Len(rest) = Len(data) - n /\ Numbered(rest, from + n)
    <2> HIDE DEF data, from
    <2> QED BY <1>2, <1>3, Parts
<1>5. /\ bytes \in Seq(Nat) /\ Len(bytes) = Len(sink.bytes) + n
      /\ Numbered(bytes, got)
    <2> HIDE DEF taken
    <2> QED BY <1>1, <1>2, <1>4, Together DEF from
<1>6. k = [sink EXCEPT !.bytes = bytes]
    BY DEF AfterWrite, n
<1>7. b = [stream EXCEPT !.buffer = rest, !.total_popped = @ + n]
    BY DEF Pop
<1> HIDE DEF data, taken, rest, bytes, k, b
<1>8. /\ k.bytes = bytes /\ k.shut = sink.shut /\ IsStream(k)
    <2>1. Len(bytes) <= Room
        BY <1>3, <1>5
    <2>2. /\ k.bytes = bytes /\ k.shut = sink.shut
          /\ k \in [bytes : Seq(Nat), shut : BOOLEAN]
        BY <1>1, <1>5, <1>6
    <2> QED BY <2>1, <2>2 DEF IsStream
<1>9. /\ b.buffer = rest /\ b.total_popped = stream.total_popped + n
      /\ b.total_pushed = stream.total_pushed /\ b.stream_closed = stream.stream_closed
      /\ b \in [capacity : {buffer_size}, error : BOOLEAN, total_pushed : Nat,
                buffer : Seq(Nat), stream_closed : BOOLEAN, total_popped : Nat]
    <2>1. stream.total_popped + n \in Nat
        BY <1>1, <1>3
    <2> QED BY <1>1, <1>4, <1>7, <2>1
<1>10. /\ Len(rest) \in Nat /\ Len(rest) <= buffer_size
       /\ b.total_pushed = b.total_popped + Len(rest)
       /\ from + n = got + Len(bytes)
       /\ wrote = got + Len(bytes) + Len(rest) + Len(source.bytes)
       /\ got + Len(bytes) + Len(rest) = got + Len(sink.bytes) + Len(data)
    <2> DEFINE a == Len(sink.bytes)
               l == Len(data)
               h == Len(bytes)
               r == Len(source.bytes)
               t == Len(rest)
               u == stream.total_popped
    <2>1. /\ got \in Int /\ a \in Int /\ l \in Int /\ r \in Int /\ n \in 0 .. l
          /\ u \in Int /\ h = a + n /\ t = l - n /\ from = got + a
          /\ wrote = got + a + l + r /\ b.total_popped = u + n
          /\ b.total_pushed = u + l /\ l <= buffer_size
        BY <1>1, <1>3, <1>4, <1>5, <1>9 DEF data
    <2> HIDE DEF a, l, h, r, t, u, from
    <2>2. /\ t \in Nat /\ t <= buffer_size /\ b.total_pushed = b.total_popped + t
          /\ from + n = got + h /\ wrote = got + h + t + r
          /\ got + h + t = got + a + l
        BY <2>1, Sizes
    <2> QED BY <2>2 DEF a, l, h, r, t
<1>11. IsBuffer(b)
    BY <1>9, <1>10 DEF IsBuffer
<1>12. /\ Numbered(b.buffer, got + Len(k.bytes))
       /\ Numbered(source.bytes, got + Len(k.bytes) + Len(b.buffer))
    <2>1. Numbered(source.bytes, got + Len(sink.bytes) + Len(data))
        BY DEF Carries, data
    <2> QED BY <1>4, <1>8, <1>9, <1>10, <2>1
<1>13. shown => b.buffer = <<>>
    <2>1. shown => Len(data) = 0
        BY <1>2, EmptyIff DEF Carries, data
    <2>2. shown => Len(rest) = 0
        <3> DEFINE l == Len(data)
                   t == Len(rest)
        <3>1. n \in 0 .. l /\ t = l - n /\ (shown => l = 0)
            BY <1>3, <1>4, <2>1
        <3> HIDE DEF l, t
        <3>2. shown => t = 0
            BY <3>1
        <3> QED BY <3>2 DEF t
    <2> QED BY <1>4, <1>9, <2>2, EmptyIff
<1>14. Carries(source, b, k, wrote, got, eof, shown)
    BY <1>1, <1>5, <1>8, <1>9, <1>10, <1>11, <1>12, <1>13 DEF Carries
<1>15. /\ n \in Nat /\ Len(k.bytes) = Len(sink.bytes) + n
       /\ n = 0 => Len(sink.bytes) >= Room \/ data = <<>>
    BY <1>1, <1>2, <1>3, <1>5, <1>8, EmptyIff DEF data
<1> QED BY <1>14, <1>15 DEF Peek, b, k, data, n

\* Closing the stream, an error of it and shutting the sink change no bytes.
LEMMA CloseCarries ==
    ASSUME NEW source, NEW stream, NEW sink, NEW wrote, NEW got, NEW eof, NEW shown,
           Carries(source, stream, sink, wrote, got, eof, shown)
    PROVE  /\ Carries(source, Close(stream), sink, wrote, got, eof, shown)
           /\ Carries(source, SetError(stream), sink, wrote, got, eof, shown)
           /\ Carries(source, stream, ShutStream(sink), wrote, got, eof, shown)
           /\ Carries(ShutStream(source), stream, sink, wrote, got, eof, shown)
<1>1. IsStream(source) /\ IsBuffer(stream) /\ IsStream(sink)
    BY DEF Carries
<1> DEFINE b == Close(stream)
           e == SetError(stream)
           k == ShutStream(sink)
           s == ShutStream(source)
<1>2. /\ b.buffer = stream.buffer /\ b.stream_closed = TRUE /\ IsBuffer(b)
    BY <1>1 DEF Close, IsBuffer
<1>3. /\ e.buffer = stream.buffer /\ e.stream_closed = stream.stream_closed
      /\ IsBuffer(e)
    BY <1>1 DEF SetError, IsBuffer
<1>4. k.bytes = sink.bytes /\ IsStream(k)
    BY <1>1 DEF ShutStream, IsStream
<1>5. s.bytes = source.bytes /\ s.shut = TRUE /\ IsStream(s)
    BY <1>1 DEF ShutStream, IsStream
<1> HIDE DEF b, e, k, s
<1>6. Carries(source, b, sink, wrote, got, eof, shown)
    BY <1>2 DEF Carries
<1>7. Carries(source, e, sink, wrote, got, eof, shown)
    BY <1>3 DEF Carries
<1>8. Carries(source, stream, k, wrote, got, eof, shown)
    BY <1>4 DEF Carries
<1>9. Carries(s, stream, sink, wrote, got, eof, shown)
    BY <1>5 DEF Carries, Exhausted
<1> QED BY <1>6, <1>7, <1>8, <1>9 DEF b, e, k, s

\* The end may be read and shown when it is reached.
LEMMA EndCarries ==
    ASSUME NEW source, NEW stream, NEW sink, NEW wrote, NEW got, NEW eof, NEW shown,
           Carries(source, stream, sink, wrote, got, eof, shown), Exhausted(source)
    PROVE  /\ Carries(source, stream, sink, wrote, got, TRUE, shown)
           /\ IsFinished(stream) => Carries(source, stream, sink, wrote, got, eof, TRUE)
<1>1. IsFinished(stream) => stream.stream_closed /\ stream.buffer = <<>>
    BY BufferedIs DEF Carries
<1> QED BY <1>1 DEF Carries

\* The writer writes as much as there is room for.
LEMMA WriterCarries ==
    ASSUME NEW source, NEW stream, NEW sink, NEW wrote, NEW got, NEW eof, NEW shown,
           Carries(source, stream, sink, wrote, got, eof, shown),
           ~ source.shut, NEW len \in Nat, len <= Room - Len(source.bytes)
    PROVE  Carries(AfterWrite(source, NextBytes(wrote, len)), stream, sink,
                   wrote + len, got, eof, shown)
<1> DEFINE data == NextBytes(wrote, len)
           s    == AfterWrite(source, data)
           from == got + Len(sink.bytes) + Len(stream.buffer)
<1>1. /\ source \in [bytes : Seq(Nat), shut : BOOLEAN]
      /\ Len(source.bytes) \in Nat /\ got \in Nat /\ wrote \in Nat
      /\ Len(sink.bytes) \in Nat /\ Len(stream.buffer) \in Nat
      /\ wrote = from + Len(source.bytes)
    BY CarriesFacts
<1>2. source.bytes \in Seq(Nat) /\ Numbered(source.bytes, from) /\ from \in Nat
    <2>1. source.bytes \in Seq(Nat) /\ from \in Nat
        <3> DEFINE a == Len(sink.bytes)
                   l == Len(stream.buffer)
        <3>1. got \in Nat /\ a \in Nat /\ l \in Nat /\ from = got + a + l
            BY <1>1
        <3> HIDE DEF a, l, from
        <3>2. from \in Nat
            BY <3>1
        <3> QED BY <1>1, <3>2
    <2>2. Numbered(source.bytes, from)
        BY DEF Carries
    <2> QED BY <2>1, <2>2
<1>3. data \in Seq(Nat) /\ Len(data) = len /\ Numbered(data, wrote)
    <2>1. data = [k \in 1 .. len |-> wrote + k - 1]
        BY DEF NextBytes
    <2>2. data \in [1 .. len -> Nat]
        <3>1. ASSUME NEW k \in 1 .. len
              PROVE  wrote + k - 1 \in Nat
            BY CarriesFacts
        <3> QED BY <2>1, <3>1
    <2>3. data \in Seq(Nat) /\ Len(data) = len
        BY <2>2
    <2> QED BY <2>1, <2>3 DEF Numbered
<1> HIDE DEF data, from
<1>4. Taken(source, data) = len
    <2> DEFINE r == Len(source.bytes)
    <2>1. r \in Nat /\ len <= Room - r /\ Taken(source, data) = AtMost(Room - r, len)
        BY <1>1, <1>3 DEF Taken
    <2> HIDE DEF r
    <2> QED BY <2>1, Sizes DEF AtMost
<1>5. SubSeq(data, 1, len) \in Seq(Nat) /\ Len(SubSeq(data, 1, len)) = len
      /\ Numbered(SubSeq(data, 1, len), wrote)
    BY <1>1, <1>3, Parts
<1> DEFINE bytes == source.bytes \o SubSeq(data, 1, len)
<1>6. /\ bytes \in Seq(Nat) /\ Len(bytes) = Len(source.bytes) + len
      /\ Numbered(bytes, from)
    BY <1>1, <1>2, <1>5, Together
<1>7. s = [source EXCEPT !.bytes = bytes]
    BY <1>4 DEF AfterWrite
<1> HIDE DEF bytes, s
<1>8. s.bytes = bytes /\ s.shut = source.shut /\ IsStream(s)
    <2>1. Len(bytes) <= Room
        BY <1>1, <1>6, Sizes
    <2>2. s.bytes = bytes /\ s.shut = source.shut
          /\ s \in [bytes : Seq(Nat), shut : BOOLEAN]
        BY <1>1, <1>6, <1>7
    <2> QED BY <2>1, <2>2 DEF IsStream
<1>9. wrote + len \in Nat /\ wrote + len = from + Len(s.bytes)
    <2> DEFINE r == Len(source.bytes)
               t == Len(s.bytes)
    <2>1. from \in Nat /\ r \in Nat /\ wrote = from + r /\ t = r + len
        BY <1>1, <1>2, <1>6, <1>8
    <2> HIDE DEF r, t
    <2>2. wrote + len \in Nat /\ wrote + len = from + t
        BY <2>1
    <2> QED BY <2>2 DEF t
<1>10. Carries(s, stream, sink, wrote + len, got, eof, shown)
    BY <1>1, <1>6, <1>8, <1>9 DEF Carries, Exhausted, from
<1> QED BY <1>10 DEF s, data

\* The reader reads some of what is there.
LEMMA ReaderCarries ==
    ASSUME NEW source, NEW stream, NEW sink, NEW wrote, NEW got, NEW eof, NEW shown,
           Carries(source, stream, sink, wrote, got, eof, shown)
    PROVE  LET n == ReadLength(sink, 0)
           IN  /\ Carries(source, stream, AfterRead(sink, 0), wrote, got + n, eof, shown)
               /\ got + n + Len(AfterRead(sink, 0).bytes) = got + Len(sink.bytes)
               /\ Len(AfterRead(sink, 0).bytes) <= Len(sink.bytes)
               /\ AfterRead(sink, 0).shut = sink.shut
<1> DEFINE n == ReadLength(sink, 0)
           k == AfterRead(sink, 0)
           bytes == SubSeq(sink.bytes, n + 1, Len(sink.bytes))
<1>1. /\ sink \in [bytes : Seq(Nat), shut : BOOLEAN]
      /\ Len(source.bytes) \in Nat /\ got \in Nat /\ wrote \in Nat
      /\ Len(sink.bytes) \in Nat /\ Len(stream.buffer) \in Nat
      /\ Len(sink.bytes) <= Room
      /\ wrote = got + Len(sink.bytes) + Len(stream.buffer) + Len(source.bytes)
    BY CarriesFacts
<1>2. n \in 0 .. Len(sink.bytes)
    BY <1>1, Sizes DEF ReadLength, AtMost
<1>3. k = [sink EXCEPT !.bytes = bytes]
    BY DEF AfterRead
<1> HIDE DEF n
<1>4. /\ bytes \in Seq(Nat) /\ Len(bytes) = Len(sink.bytes) - n
      /\ Numbered(bytes, got + n)
    <2>1. sink.bytes \in Seq(Nat) /\ Numbered(sink.bytes, got)
        BY <1>1 DEF Carries
    <2> QED BY <1>1, <1>2, <2>1, Parts
<1> HIDE DEF bytes, k
<1>5. k.bytes = bytes /\ k.shut = sink.shut /\ IsStream(k)
    <2>1. Len(bytes) <= Room
        BY <1>1, <1>2, <1>4, Sizes
    <2>2. k.bytes = bytes /\ k.shut = sink.shut
          /\ k \in [bytes : Seq(Nat), shut : BOOLEAN]
        BY <1>1, <1>3, <1>4
    <2> QED BY <2>1, <2>2 DEF IsStream
<1>6. got + n \in Nat /\ got + n + Len(k.bytes) = got + Len(sink.bytes)
      /\ Len(k.bytes) <= Len(sink.bytes)
    <2> DEFINE a == Len(sink.bytes)
               h == Len(k.bytes)
    <2>1. got \in Nat /\ a \in Nat /\ n \in 0 .. a /\ h = a - n
        BY <1>1, <1>2, <1>4, <1>5
    <2> HIDE DEF a, h
    <2>2. got + n \in Nat /\ got + n + h = got + a /\ h <= a
        BY <2>1
    <2> QED BY <2>2 DEF a, h
<1>7. Carries(source, stream, k, wrote, got + n, eof, shown)
    BY <1>1, <1>4, <1>5, <1>6 DEF Carries
<1> QED BY <1>5, <1>6, <1>7 DEF k, n
-----------------------------------------------------------------------------
(* The rules that are left, in the middle of a loop through them *)

\* kept are those of the first i rules that are still there; the others were not
\* looked at yet.
Ordered(kept, rules, i) ==
    /\ IsRules(kept) /\ IsRules(rules)
    /\ \A k \in 1 .. Len(kept) : \A l \in i + 1 .. Len(rules) :
          kept[k].name < rules[l].name

Left(kept, rules, i) ==
    Names(kept) \cup {rules[l].name : l \in i + 1 .. Len(rules)}

\* The four rules are told apart by their names.
LEMMA RuleIs ==
    ASSUME NEW rule \in AnyRule
    PROVE  /\ rule.name \in 1 .. 4
           /\ rule.name = 1 => rule.fd = "input" /\ rule.direction = "IN"
           /\ rule.name = 2 => rule.fd = "socket" /\ rule.direction = "OUT"
           /\ rule.name = 3 => rule.fd = "socket" /\ rule.direction = "IN"
           /\ rule.name = 4 => rule.fd = "output" /\ rule.direction = "OUT"
<1>1. PICK k \in 1 .. 4 : rule = FourRules[k]
    BY DEF AnyRule
<1>2. rule \in {FourRules[1], FourRules[2], FourRules[3], FourRules[4]}
    BY <1>1
<1> QED BY <1>2 DEF FourRules, EventLoop!Rule

\* A sequence of rules is a function on its indices.
LEMMA RulesFacts ==
    ASSUME NEW rules, IsRules(rules)
    PROVE  /\ Len(rules) \in Nat /\ DOMAIN rules = 1 .. Len(rules)
           /\ \A k \in 1 .. Len(rules) :
                 rules[k] \in AnyRule /\ rules[k].name \in 1 .. 4
<1>1. rules \in Seq(AnyRule)
    BY DEF IsRules
<1>2. Len(rules) \in Nat /\ DOMAIN rules = 1 .. Len(rules)
    BY <1>1, LenProperties
<1>3. \A k \in 1 .. Len(rules) : rules[k] \in AnyRule
    BY <1>1, ElementOfSeq
<1> QED BY <1>2, <1>3, RuleIs

\* Before the first rule
LEMMA NoneKept ==
    ASSUME NEW rules, IsRules(rules)
    PROVE  Ordered(<<>>, rules, 0) /\ Left(<<>>, rules, 0) = Names(rules)
<1>1. <<>> \in Seq(AnyRule) /\ Len(<<>>) = 0
    BY EmptySeq
<1>2. IsRules(<<>>) /\ Names(<<>>) = {}
    BY <1>1 DEF IsRules, Names
<1>3. 0 + 1 .. Len(rules) = 1 .. Len(rules)
    BY RulesFacts
<1> QED BY <1>1, <1>2, <1>3 DEF Ordered, Left, Names

\* Rule number i is kept.
LEMMA KeepRule ==
    ASSUME NEW rules, NEW kept, NEW i \in 1 .. Len(rules),
           Ordered(kept, rules, i - 1)
    PROVE  /\ Ordered(Append(kept, rules[i]), rules, i)
           /\ Left(Append(kept, rules[i]), rules, i) = Left(kept, rules, i - 1)
           /\ rules[i].name \in Left(kept, rules, i - 1)
           /\ Len(Append(kept, rules[i])) = Len(kept) + 1
           /\ \A k \in 1 .. Len(kept) + 1 : Append(kept, rules[i])[k] =
                 IF k = Len(kept) + 1 THEN rules[i] ELSE kept[k]
<1> DEFINE more == Append(kept, rules[i])
           n == Len(kept)
           all == Len(rules)
<1>1. /\ IsRules(kept) /\ IsRules(rules)
      /\ \A k \in 1 .. n : \A l \in (i - 1) + 1 .. all : kept[k].name < rules[l].name
    BY DEF Ordered
<1>2. /\ n \in Nat /\ all \in Nat /\ kept \in Seq(AnyRule)
      /\ \A k \in 1 .. n : kept[k] \in AnyRule /\ kept[k].name \in 1 .. 4
      /\ \A k \in 1 .. all : rules[k] \in AnyRule /\ rules[k].name \in 1 .. 4
    BY <1>1, RulesFacts DEF IsRules
<1>3. /\ \A k \in 1 .. n : \A l \in i .. all : kept[k].name < rules[l].name
      /\ \A k, l \in 1 .. n : k < l => kept[k].name < kept[l].name
      /\ \A k, l \in 1 .. all : k < l => rules[k].name < rules[l].name
    <2>1. (i - 1) + 1 = i
        BY <1>2
    <2> QED BY <1>1, <2>1 DEF IsRules
<1>4. /\ more \in Seq(AnyRule) /\ Len(more) = n + 1
      /\ \A k \in 1 .. n + 1 : more[k] = IF k = n + 1 THEN rules[i] ELSE kept[k]
    <2> DEFINE rule == rules[i]
    <2>1. rule \in AnyRule
        BY <1>2
    <2> HIDE DEF rule
    <2>2. /\ Append(kept, rule) \in Seq(AnyRule)
          /\ Len(Append(kept, rule)) = Len(kept) + 1
          /\ \A k \in 1 .. Len(kept) + 1 : Append(kept, rule)[k] =
                IF k = Len(kept) + 1 THEN rule ELSE kept[k]
        BY <1>2, <2>1, AppendProperties
    <2> QED BY <2>2 DEF rule
<1> HIDE DEF more, n, all
<1>5. i \in 1 .. all
    BY DEF all
<1>6. \A k, l \in 1 .. n + 1 : k < l => more[k].name < more[l].name
    <2> SUFFICES ASSUME NEW k \in 1 .. n + 1, NEW l \in 1 .. n + 1, k < l
                 PROVE  more[k].name < more[l].name
        OBVIOUS
    <2>1. k \in 1 .. n /\ more[k] = kept[k]
        BY <1>2, <1>4
    <2>2. CASE l = n + 1
        BY <1>2, <1>3, <1>4, <1>5, <2>1, <2>2
    <2>3. CASE l # n + 1
        BY <1>2, <1>3, <1>4, <2>1, <2>3
    <2> QED BY <2>2, <2>3
<1>7. \A k \in 1 .. n + 1 : \A l \in i + 1 .. all : more[k].name < rules[l].name
    <2> SUFFICES ASSUME NEW k \in 1 .. n + 1, NEW l \in i + 1 .. all
                 PROVE  more[k].name < rules[l].name
        OBVIOUS
    <2>1. l \in i .. all /\ l \in 1 .. all /\ i < l
        BY <1>2, <1>5
    <2>2. CASE k = n + 1
        BY <1>3, <1>4, <1>5, <2>1, <2>2
    <2>3. CASE k # n + 1
        BY <1>2, <1>3, <1>4, <2>1, <2>3
    <2> QED BY <2>2, <2>3
<1>8. Ordered(more, rules, i)
    BY <1>1, <1>4, <1>6, <1>7 DEF Ordered, IsRules, all
<1>9. Names(more) = Names(kept) \cup {rules[i].name}
    <2>1. \A k \in 1 .. n : k \in 1 .. n + 1 /\ more[k] = kept[k]
        BY <1>2, <1>4
    <2>2. n + 1 \in 1 .. n + 1 /\ more[n + 1] = rules[i]
        BY <1>2, <1>4
    <2>3. \A k \in 1 .. n + 1 : k \in 1 .. n \/ k = n + 1
        BY <1>2
    <2> QED BY <1>4, <2>1, <2>2, <2>3 DEF Names, n
<1>10. {rules[l].name : l \in (i - 1) + 1 .. all}
           = {rules[i].name} \cup {rules[l].name : l \in i + 1 .. all}
    <2>1. (i - 1) + 1 .. all = {i} \cup (i + 1 .. all)
        BY <1>2, <1>5
    <2> QED BY <2>1
<1>11. Left(more, rules, i) = Left(kept, rules, i - 1)
       /\ rules[i].name \in Left(kept, rules, i - 1)
    BY <1>9, <1>10 DEF Left, all
<1> QED BY <1>4, <1>8, <1>11 DEF more, n

\* Rule number i is not kept.
LEMMA DropRule ==
    ASSUME NEW rules, NEW kept, NEW i \in 1 .. Len(rules),
           Ordered(kept, rules, i - 1)
    PROVE  /\ Ordered(kept, rules, i)
           /\ Left(kept, rules, i) = Left(kept, rules, i - 1) \ {rules[i].name}
<1> DEFINE n == Len(kept)
           all == Len(rules)
<1>1. /\ IsRules(kept) /\ IsRules(rules)
      /\ \A k \in 1 .. n : \A l \in (i - 1) + 1 .. all : kept[k].name < rules[l].name
    BY DEF Ordered
<1>2. /\ n \in Nat /\ all \in Nat
      /\ \A k \in 1 .. n : kept[k].name \in 1 .. 4
      /\ \A k \in 1 .. all : rules[k].name \in 1 .. 4
    BY <1>1, RulesFacts
<1> HIDE DEF n, all
<1>3. i \in 1 .. all
    BY DEF all
<1>4. (i - 1) + 1 .. all = {i} \cup (i + 1 .. all)
    BY <1>2, <1>3
<1>5. Ordered(kept, rules, i)
    BY <1>1, <1>4 DEF Ordered, n, all
<1>6. \A k \in 1 .. n : kept[k].name # rules[i].name
    <2> SUFFICES ASSUME NEW k \in 1 .. n PROVE kept[k].name # rules[i].name
        OBVIOUS
    <2>1. kept[k].name < rules[i].name
        BY <1>1, <1>4
    <2> QED BY <1>2, <1>3, <2>1
<1>7. \A l \in i + 1 .. all : rules[l].name # rules[i].name
    <2> SUFFICES ASSUME NEW l \in i + 1 .. all PROVE rules[l].name # rules[i].name
        OBVIOUS
    <2>1. l \in 1 .. all /\ i < l
        BY <1>2, <1>3
    <2>2. rules[i].name < rules[l].name
        BY <1>1, <1>3, <2>1 DEF IsRules, all
    <2> QED BY <1>2, <1>3, <2>1, <2>2
<1>8. {rules[l].name : l \in (i - 1) + 1 .. all}
          = {rules[i].name} \cup {rules[l].name : l \in i + 1 .. all}
    BY <1>4
<1>9. /\ rules[i].name \notin Names(kept)
      /\ rules[i].name \notin {rules[l].name : l \in i + 1 .. all}
    BY <1>6, <1>7 DEF Names, n
<1> QED BY <1>5, <1>8, <1>9 DEF Left, all

\* After the last rule
LEMMA AllLooked ==
    ASSUME NEW rules, NEW kept, Ordered(kept, rules, Len(rules))
    PROVE  IsRules(kept) /\ Left(kept, rules, Len(rules)) = Names(kept)
<1>1. Len(rules) \in Nat
    BY RulesFacts DEF Ordered
<1>2. Len(rules) + 1 .. Len(rules) = {}
    BY <1>1
<1> QED BY <1>2 DEF Ordered, Left
-----------------------------------------------------------------------------
(* What the four functions of the rules keep *)

\* Of these two states one follows from the other by closing byte streams.
Untouched(v, old) ==
    /\ v.stdin = old.stdin /\ v.to_socket = old.to_socket
    /\ v.from_socket = old.from_socket /\ v.stdout = old.stdout
    /\ v.outbound.buffer = old.outbound.buffer
    /\ v.inbound.buffer = old.inbound.buffer
    /\ v.outbound_shutdown = old.outbound_shutdown
    /\ v.closed = old.closed

\* The bytes only go forward, and an end that was shown stays.
Advances(v, old) ==
    /\ v.stdin.shut = old.stdin.shut /\ v.from_socket.shut = old.from_socket.shut
    /\ Len(v.to_socket.bytes) \in Nat /\ Len(old.to_socket.bytes) \in Nat
    /\ Len(v.to_socket.bytes) >= Len(old.to_socket.bytes)
    /\ Len(v.stdout.bytes) \in Nat /\ Len(old.stdout.bytes) \in Nat
    /\ Len(v.stdout.bytes) >= Len(old.stdout.bytes)
    /\ old.outbound_shutdown => v.outbound_shutdown
    /\ "output" \in old.closed => "output" \in v.closed

\* Why a rule may go
MayGo(name, v, u, f) ==
    /\ name = 1 => Exhausted(v.stdin)
    /\ name = 2 => v.outbound_shutdown \/ f.left
    /\ name = 3 => Exhausted(v.from_socket)
    /\ name = 4 => "output" \in v.closed \/ u.left

\* A cancelled rule does to its stream what makes it safe to drop the rule.
LEMMA CancelKeeps ==
    ASSUME NEW v, NEW u, NEW f, NEW names, NEW name \in 1 .. 4,
           Sound(v, u, f), Ruled(v, names, u, f), MayGo(name, v, u, f)
    PROVE  LET t == CopyCancel(name, v)
           IN  /\ Sound(t, u, f) /\ Ruled(t, names \ {name}, u, f)
               /\ Untouched(t, v)
               /\ t.outbound.error = v.outbound.error
               /\ t.inbound.error = v.inbound.error
<1>1. IsProcess(v)
    BY DEF Sound
<1>2. IsBuffer(v.outbound) /\ IsBuffer(v.inbound)
    BY DEF Sound, Carries
<1>3. CASE name \in {1, 2}
    <2> DEFINE b == Close(v.outbound)
               t == [v EXCEPT !.outbound = b]
    <2>1. CopyCancel(name, v) = t
        BY <1>3 DEF CopyCancel
    <2>2. /\ b.buffer = v.outbound.buffer /\ b.stream_closed = TRUE
          /\ b.error = v.outbound.error
        BY <1>2 DEF Close, IsBuffer
    <2>3. Carries(v.stdin, b, v.to_socket, u.wrote, f.got,
                  "input" \in v.eof, v.outbound_shutdown)
        BY CloseCarries DEF Sound
    <2> HIDE DEF b
    <2>4. /\ IsProcess(t) /\ t.outbound = b /\ t.inbound = v.inbound
          /\ t.stdin = v.stdin /\ t.to_socket = v.to_socket
          /\ t.from_socket = v.from_socket /\ t.stdout = v.stdout
          /\ t.outbound_shutdown = v.outbound_shutdown
          /\ t.inbound_shutdown = v.inbound_shutdown
          /\ t.eof = v.eof /\ t.closed = v.closed /\ t.failed = v.failed
        BY <1>1 DEF IsProcess, HasFields
    <2> HIDE DEF t
    <2>5. Sound(t, u, f)
        BY <2>2, <2>3, <2>4 DEF Sound
    <2>6. Ruled(t, names \ {name}, u, f)
        BY <1>3, <2>2, <2>4 DEF Ruled, Tied, MayGo
    <2>7. Untouched(t, v)
        BY <2>2, <2>4 DEF Untouched
    <2> QED BY <2>1, <2>2, <2>4, <2>5, <2>6, <2>7
<1>4. CASE name \in {3, 4}
    <2> DEFINE b == Close(v.inbound)
               t == [v EXCEPT !.inbound = b]
    <2>1. CopyCancel(name, v) = t
        BY <1>4 DEF CopyCancel
    <2>2. /\ b.buffer = v.inbound.buffer /\ b.stream_closed = TRUE
          /\ b.error = v.inbound.error
        BY <1>2 DEF Close, IsBuffer
    <2>3. Carries(v.from_socket, b, v.stdout, f.wrote, u.got,
                  "socket" \in v.eof, "output" \in v.closed)
        BY CloseCarries DEF Sound
    <2> HIDE DEF b
    <2>4. /\ IsProcess(t) /\ t.inbound = b /\ t.outbound = v.outbound
          /\ t.stdin = v.stdin /\ t.to_socket = v.to_socket
          /\ t.from_socket = v.from_socket /\ t.stdout = v.stdout
          /\ t.outbound_shutdown = v.outbound_shutdown
          /\ t.inbound_shutdown = v.inbound_shutdown
          /\ t.eof = v.eof /\ t.closed = v.closed /\ t.failed = v.failed
        BY <1>1 DEF IsProcess, HasFields
    <2> HIDE DEF t
    <2>5. Sound(t, u, f)
        BY <2>2, <2>3, <2>4 DEF Sound
    <2>6. Ruled(t, names \ {name}, u, f)
        BY <1>4, <2>2, <2>4 DEF Ruled, Tied, MayGo
    <2>7. Untouched(t, v)
        BY <2>2, <2>4 DEF Untouched
    <2> QED BY <2>1, <2>2, <2>4, <2>5, <2>6, <2>7
<1> QED BY <1>3, <1>4

\* Only the reader of standard output that left causes an error.
LEMMA ErrorKeeps ==
    ASSUME NEW v, NEW u, NEW f, NEW names, NEW name,
           Sound(v, u, f), Ruled(v, names, u, f), u.left
    PROVE  LET t == CopyError(name, v)
           IN  Sound(t, u, f) /\ Ruled(t, names, u, f) /\ Untouched(t, v)
<1> DEFINE b == SetError(v.outbound)
           c == SetError(v.inbound)
           first == [v EXCEPT !.outbound = b]
           t == [first EXCEPT !.inbound = c]
<1>1. IsProcess(v) /\ IsBuffer(v.outbound) /\ IsBuffer(v.inbound)
    BY DEF Sound, Carries
<1>2. CopyError(name, v) = t
    BY DEF CopyError
<1>3. /\ b.buffer = v.outbound.buffer /\ b.stream_closed = v.outbound.stream_closed
      /\ c.buffer = v.inbound.buffer /\ c.stream_closed = v.inbound.stream_closed
    BY <1>1 DEF SetError, IsBuffer
<1>4. /\ Carries(v.stdin, b, v.to_socket, u.wrote, f.got,
                 "input" \in v.eof, v.outbound_shutdown)
      /\ Carries(v.from_socket, c, v.stdout, f.wrote, u.got,
                 "socket" \in v.eof, "output" \in v.closed)
    BY CloseCarries DEF Sound
<1> HIDE DEF b, c
<1>9. /\ IsProcess(first) /\ first.outbound = b /\ first.inbound = v.inbound
      /\ first.stdin = v.stdin /\ first.to_socket = v.to_socket
      /\ first.from_socket = v.from_socket /\ first.stdout = v.stdout
      /\ first.outbound_shutdown = v.outbound_shutdown
      /\ first.inbound_shutdown = v.inbound_shutdown
      /\ first.eof = v.eof /\ first.closed = v.closed /\ first.failed = v.failed
    BY <1>1 DEF IsProcess, HasFields
<1> HIDE DEF first
<1>5. /\ IsProcess(t) /\ t.outbound = b /\ t.inbound = c
      /\ t.stdin = v.stdin /\ t.to_socket = v.to_socket
      /\ t.from_socket = v.from_socket /\ t.stdout = v.stdout
      /\ t.outbound_shutdown = v.outbound_shutdown
      /\ t.inbound_shutdown = v.inbound_shutdown
      /\ t.eof = v.eof /\ t.closed = v.closed /\ t.failed = v.failed
    BY <1>9 DEF IsProcess, HasFields
<1> HIDE DEF t
<1>6. Sound(t, u, f)
    BY <1>4, <1>5 DEF Sound
<1>7. Ruled(t, names, u, f)
    BY <1>3, <1>5 DEF Ruled, Tied
<1>8. Untouched(t, v)
    BY <1>3, <1>5 DEF Untouched
<1> QED BY <1>2, <1>6, <1>7, <1>8

\* Closing a stream awakens no rule that stands before the one it was closed by.
LEMMA CancelQuietens ==
    ASSUME NEW v, NEW u, NEW f, Sound(v, u, f),
           NEW name \in 1 .. 4, NEW other \in 1 .. 4, other < name,
           ~ CopyInterest(other, v)
    PROVE  ~ CopyInterest(other, CopyCancel(name, v))
<1> DEFINE t == CopyCancel(name, v)
<1>1. IsProcess(v) /\ IsBuffer(v.outbound) /\ IsBuffer(v.inbound)
    BY DEF Sound, Carries
<1>2. CASE name = 2
    <2> DEFINE b == Close(v.outbound)
    <2>1. other = 1
        BY <1>2
    <2>2. b.stream_closed = TRUE
        BY <1>1 DEF Close, IsBuffer
    <2> HIDE DEF b
    <2>3. t = [v EXCEPT !.outbound = b]
        BY <1>2 DEF CopyCancel, b
    <2>4. t.outbound = b
        BY <1>1, <2>3 DEF IsProcess, HasFields, FieldNames
    <2> HIDE DEF t
    <2>5. ~ MayFill(t, "outbound")
        BY <2>2, <2>4 DEF MayFill, IsClosed
    <2> QED BY <2>1, <2>5 DEF CopyInterest, t
<1>3. CASE name \in {3, 4}
    <2> DEFINE b == Close(v.inbound)
    <2>1. b.stream_closed = TRUE /\ b.error = v.inbound.error
        BY <1>1 DEF Close, IsBuffer
    <2> HIDE DEF b
    <2>2. t = [v EXCEPT !.inbound = b]
        BY <1>3 DEF CopyCancel, b
    <2>3. /\ t.inbound = b /\ t.outbound = v.outbound
          /\ t.outbound_shutdown = v.outbound_shutdown
        BY <1>1, <2>2 DEF IsProcess, HasFields, FieldNames
    <2> HIDE DEF t
    <2>4. CASE other = 1
        <3>1. ~ MayFill(v, "outbound")
            BY <2>4 DEF CopyInterest
        <3>2. ~ MayFill(t, "outbound")
            BY <2>1, <2>3, <3>1 DEF MayFill, HasError
        <3> QED BY <2>4, <3>2 DEF CopyInterest, t
    <2>5. CASE other = 2
        <3>1. ~ MayDrain(v, "outbound", v.outbound_shutdown)
            BY <2>5 DEF CopyInterest
        <3>2. ~ MayDrain(t, "outbound", t.outbound_shutdown)
            BY <2>3, <3>1 DEF MayDrain
        <3> QED BY <2>5, <3>2 DEF CopyInterest, t
    <2>6. CASE other = 3
        <3>1. ~ MayFill(t, "inbound")
            BY <2>1, <2>3 DEF MayFill, IsClosed
        <3> QED BY <2>6, <3>1 DEF CopyInterest, t
    <2> QED BY <1>3, <2>4, <2>5, <2>6
<1> QED BY <1>2, <1>3

\* The fields by name
LEMMA Fields ==
    /\ "stdin" \in FieldNames /\ "to_socket" \in FieldNames
    /\ "from_socket" \in FieldNames /\ "stdout" \in FieldNames
    /\ "outbound" \in FieldNames /\ "inbound" \in FieldNames
    /\ "outbound_shutdown" \in FieldNames /\ "inbound_shutdown" \in FieldNames
    /\ "eof" \in FieldNames /\ "closed" \in FieldNames
    /\ "serviced" \in FieldNames /\ "failed" \in FieldNames
BY DEF FieldNames

\* One field changes.
LEMMA SetOne ==
    ASSUME NEW v, HasFields(v), NEW name \in FieldNames, NEW x
    PROVE  LET t == [v EXCEPT ![name] = x]
           IN  /\ HasFields(t) /\ t[name] = x
               /\ \A g \in FieldNames \ {name} : t[g] = v[g]
BY DEF HasFields

\* What the callbacks of rules 1 and 3 change
FillChanges(t, v, fd, source, stream) ==
    LET size == AvailableCapacity(v[stream])
        e == IF v[source].bytes = <<>> /\ v[source].shut
             THEN v.eof \cup {fd} ELSE v.eof
        b == Push(v[stream], ReadData(v[source], size))
    IN  /\ HasFields(t) /\ t.serviced = TRUE /\ t.eof = e
        /\ t[source] = AfterRead(v[source], size)
        /\ t[stream] = IF fd \in e THEN Close(b) ELSE b
        /\ \A g \in FieldNames \ {source, stream, "eof", "serviced"} : t[g] = v[g]

\* What Fill changes, field by field
LEMMA FillIs ==
    ASSUME NEW v, HasFields(v), NEW fd,
           NEW source \in {"stdin", "from_socket"},
           NEW stream \in {"outbound", "inbound"}
    PROVE  FillChanges(Fill(v, fd, source, stream), v, fd, source, stream)
<1> DEFINE size == AvailableCapacity(v[stream])
           e == IF v[source].bytes = <<>> /\ v[source].shut
                THEN v.eof \cup {fd} ELSE v.eof
           s == AfterRead(v[source], size)
           b == Push(v[stream], ReadData(v[source], size))
           v1 == [v EXCEPT !.serviced = TRUE]
           v2 == [v1 EXCEPT !.eof = e]
           v3 == [v2 EXCEPT ![source] = AfterRead(v2[source], size)]
           v4 == [v3 EXCEPT ![stream] = Push(v3[stream], ReadData(v[source], size))]
           v5 == [v4 EXCEPT ![stream] = Close(v4[stream])]
<1>1. Fill(v, fd, source, stream) = IF fd \in v4.eof THEN v5 ELSE v4
    <2>1. v1.eof = v.eof
        BY DEF HasFields, FieldNames
    <2> QED BY <2>1 DEF Fill, Reading
<1> HIDE DEF e, size
<1>2. /\ HasFields(v1) /\ v1.serviced = TRUE
      /\ \A g \in FieldNames \ {"serviced"} : v1[g] = v[g]
    BY SetOne, Fields
<1> HIDE DEF v1
<1>3. /\ HasFields(v2) /\ v2.eof = e
      /\ \A g \in FieldNames \ {"eof"} : v2[g] = v1[g]
    BY <1>2, SetOne, Fields
<1> HIDE DEF v2
<1>4. /\ HasFields(v3) /\ v3[source] = AfterRead(v2[source], size)
      /\ \A g \in FieldNames \ {source} : v3[g] = v2[g]
    BY <1>3, SetOne, Fields
<1> HIDE DEF v3
<1>5. /\ HasFields(v4) /\ v4[stream] = Push(v3[stream], ReadData(v[source], size))
      /\ \A g \in FieldNames \ {stream} : v4[g] = v3[g]
    BY <1>4, SetOne, Fields
<1> HIDE DEF v4
<1>6. /\ HasFields(v5) /\ v5[stream] = Close(v4[stream])
      /\ \A g \in FieldNames \ {stream} : v5[g] = v4[g]
    BY <1>5, SetOne, Fields
<1> HIDE DEF v5
<1>7. /\ v2[source] = v[source] /\ v3[stream] = v[stream]
      /\ v4.serviced = TRUE /\ v4.eof = e /\ v4[source] = s /\ v4[stream] = b
      /\ \A g \in FieldNames \ {source, stream, "eof", "serviced"} : v4[g] = v[g]
    <2>1. /\ v2[source] = v[source] /\ v3[stream] = v[stream]
          /\ v4.serviced = TRUE /\ v4.eof = e /\ v4[source] = v3[source]
          /\ \A g \in FieldNames \ {source, stream, "eof", "serviced"} : v4[g] = v[g]
        BY <1>2, <1>3, <1>4, <1>5 DEF FieldNames
    <2> QED BY <2>1, <1>4, <1>5
<1>8. /\ v5.serviced = TRUE /\ v5.eof = e /\ v5[source] = s /\ v5[stream] = Close(b)
      /\ \A g \in FieldNames \ {source, stream, "eof", "serviced"} : v5[g] = v[g]
    BY <1>6, <1>7 DEF FieldNames
<1>9. CASE fd \in e
    BY <1>1, <1>6, <1>7, <1>8, <1>9 DEF e, size, FillChanges
<1>10. CASE fd \notin e
    BY <1>1, <1>5, <1>7, <1>10 DEF e, size, FillChanges
<1> QED BY <1>9, <1>10

\* What the callbacks of rules 2 and 4 change, when there is something to write
DrainChanges(t, v, stream, sink) ==
    LET data == Peek(v[stream])
        n == Taken(v[sink], data)
    IN  /\ HasFields(t) /\ t.serviced = TRUE
        /\ t.failed <=> v.failed \/ v[sink].shut \/ (n = 0 /\ data # <<>>)
        /\ t.failed \in BOOLEAN
        /\ t[stream] = Pop(v[stream], n)
        /\ t[sink] = AfterWrite(v[sink], data)
        /\ \A g \in FieldNames \ {stream, sink, "failed", "serviced"} : t[g] = v[g]

\* What Drain changes, field by field
LEMMA DrainIs ==
    ASSUME NEW v, HasFields(v), v.failed \in BOOLEAN,
           NEW stream \in {"outbound", "inbound"},
           NEW sink \in {"to_socket", "stdout"}, BytesBuffered(v[stream]) # 0
    PROVE  DrainChanges(Drain(v, stream, sink), v, stream, sink)
<1> DEFINE data == Peek(v[stream])
           n == Taken(v[sink], data)
           fails == \/ v.failed \/ v[sink].shut
                    \/ n = 0 /\ data # <<>>
           v1 == [v EXCEPT !.serviced = TRUE]
           v2 == [v1 EXCEPT !.failed = fails]
           v3 == [v2 EXCEPT ![stream] = Pop(v2[stream], n)]
           v4 == [v3 EXCEPT ![sink] = AfterWrite(v3[sink], data)]
<1>1. Drain(v, stream, sink) = v4
    <2>1. v1.failed = v.failed
        BY DEF HasFields, FieldNames
    <2> QED BY <2>1 DEF Drain, Writing
<1> HIDE DEF n, data, fails
<1>2. /\ HasFields(v1) /\ v1.serviced = TRUE
      /\ \A g \in FieldNames \ {"serviced"} : v1[g] = v[g]
    BY SetOne, Fields
<1> HIDE DEF v1
<1>3. /\ HasFields(v2) /\ v2.failed = fails
      /\ \A g \in FieldNames \ {"failed"} : v2[g] = v1[g]
    BY <1>2, SetOne, Fields
<1> HIDE DEF v2
<1>4. /\ HasFields(v3) /\ v3[stream] = Pop(v2[stream], n)
      /\ \A g \in FieldNames \ {stream} : v3[g] = v2[g]
    BY <1>3, SetOne, Fields
<1> HIDE DEF v3
<1>5. /\ HasFields(v4) /\ v4[sink] = AfterWrite(v3[sink], data)
      /\ \A g \in FieldNames \ {sink} : v4[g] = v3[g]
    BY <1>4, SetOne, Fields
<1> HIDE DEF v4
<1>6. /\ v2[stream] = v[stream] /\ v3[sink] = v[sink]
      /\ v4.serviced = TRUE /\ v4.failed = fails /\ v4[stream] = v3[stream]
      /\ \A g \in FieldNames \ {stream, sink, "failed", "serviced"} : v4[g] = v[g]
    BY <1>2, <1>3, <1>4, <1>5 DEF FieldNames
<1>7. fails \in BOOLEAN
    BY DEF fails
<1>8. v4[stream] = Pop(v[stream], n) /\ v4[sink] = AfterWrite(v[sink], data)
    BY <1>4, <1>5, <1>6
<1> QED BY <1>1, <1>5, <1>6, <1>7, <1>8 DEF n, data, fails, DrainChanges

\* What is left of a callback when it returns
LEMMA CheckedIs ==
    ASSUME NEW v, HasFields(v), v.failed \in BOOLEAN, NEW rule
    PROVE  LET t == EventLoop!BusyWaitChecked(v, rule)
           IN  /\ HasFields(t) /\ t.serviced = FALSE /\ t.failed \in BOOLEAN
               /\ t.failed <=> \/ v.failed
                               \/ /\ ~ v.serviced /\ rule.fd \notin v.closed
                                  /\ CopyInterest(rule.name, v)
               /\ \A g \in FieldNames \ {"failed", "serviced"} : t[g] = v[g]
<1> DEFINE fails == \/ v.failed
                    \/ /\ ~ v.serviced /\ rule.fd \notin v.closed
                       /\ CopyInterest(rule.name, v)
           v1 == [v EXCEPT !.serviced = FALSE]
           v2 == [v1 EXCEPT !.failed = fails]
<1>1. EventLoop!BusyWaitChecked(v, rule) = v2
    <2>1. v1.failed = v.failed
        BY DEF HasFields, FieldNames
    <2> QED BY <2>1 DEF EventLoop!BusyWaitChecked
<1>2. /\ HasFields(v1) /\ v1.serviced = FALSE
      /\ \A g \in FieldNames \ {"serviced"} : v1[g] = v[g]
    BY SetOne, Fields
<1> HIDE DEF v1, fails
<1>3. /\ HasFields(v2) /\ v2.failed = fails
      /\ \A g \in FieldNames \ {"failed"} : v2[g] = v1[g]
    BY <1>2, SetOne, Fields
<1> HIDE DEF v2
<1>4. /\ v2.serviced = FALSE
      /\ \A g \in FieldNames \ {"failed", "serviced"} : v2[g] = v[g]
    BY <1>2, <1>3 DEF FieldNames
<1>5. fails \in BOOLEAN
    BY DEF fails
<1> QED BY <1>1, <1>3, <1>4, <1>5 DEF fails
-----------------------------------------------------------------------------
(* The callbacks *)

\* What the operations of a ByteStream do to its flags
LEMMA FlagsKept ==
    ASSUME NEW stream, IsBuffer(stream), NEW data, NEW n
    PROVE  /\ Push(stream, data).stream_closed = stream.stream_closed
           /\ Push(stream, data).error = stream.error
           /\ Pop(stream, n).stream_closed = stream.stream_closed
           /\ Pop(stream, n).error = stream.error
           /\ Close(stream).stream_closed = TRUE
           /\ Close(stream).error = stream.error
BY DEF IsBuffer, Push, Pop, Close

\* What the operations of a kernel stream do to its flag
LEMMA ShutKept ==
    ASSUME NEW stream, IsStream(stream), NEW data, NEW size
    PROVE  /\ AfterRead(stream, size).shut = stream.shut
           /\ AfterWrite(stream, data).shut = stream.shut
           /\ ShutStream(stream).bytes = stream.bytes
           /\ ShutStream(stream).shut = TRUE
BY DEF IsStream, AfterRead, AfterWrite, ShutStream

\* A byte stream is filled from its source, and closed when this is at its end.
FillTied(source, stream, sink, wrote, got, eof, shown, filled, drained, gone) ==
    LET size == AvailableCapacity(stream)
        e == eof \/ Exhausted(source)
        s == AfterRead(source, size)
        b == Push(stream, ReadData(source, size))
        c == IF e THEN Close(b) ELSE b
    IN  /\ Carries(s, c, sink, wrote, got, e, shown)
        /\ Tied(s, c, filled, drained, shown, gone)
        /\ s.shut = source.shut /\ c.error = stream.error

\* Filling a byte stream keeps the order of the bytes, and closes it at the end only.
LEMMA FillTies ==
    ASSUME NEW source, NEW stream, NEW sink, NEW wrote, NEW got,
           NEW eof \in BOOLEAN, NEW shown, NEW filled, NEW drained, NEW gone,
           Carries(source, stream, sink, wrote, got, eof, shown),
           Tied(source, stream, filled, drained, shown, gone),
           Len(stream.buffer) < buffer_size
    PROVE  FillTied(source, stream, sink, wrote, got, eof, shown,
                    filled, drained, gone)
<1> DEFINE size == AvailableCapacity(stream)
           e == eof \/ Exhausted(source)
           s == AfterRead(source, size)
           b == Push(stream, ReadData(source, size))
           c == IF e THEN Close(b) ELSE b
<1>1. Carries(source, stream, sink, wrote, got, Exhausted(source), shown)
    BY DEF Carries
<1>2. Carries(s, b, sink, wrote, got, Exhausted(source), shown)
    BY <1>1, FillCarries
<1>3. /\ s.shut = source.shut /\ b.stream_closed = stream.stream_closed
      /\ b.error = stream.error
    <2>1. IsBuffer(stream) /\ IsStream(source)
        BY DEF Carries
    <2> QED BY <2>1, FlagsKept, ShutKept
<1>4. e => Exhausted(source)
    BY DEF Carries
<1> HIDE DEF s, b, e
<1>5. IsBuffer(b) /\ (Exhausted(source) => Exhausted(s))
    BY <1>2 DEF Carries
<1>6. /\ Close(b).stream_closed = TRUE /\ Close(b).error = b.error
    BY <1>5, FlagsKept
<1>7. Carries(s, Close(b), sink, wrote, got, Exhausted(source), shown)
    BY <1>2, CloseCarries
<1>8. Carries(s, c, sink, wrote, got, Exhausted(source), shown)
    BY <1>2, <1>7
<1>9. /\ c.error = stream.error
      /\ c.stream_closed => stream.stream_closed \/ e
      /\ stream.stream_closed => c.stream_closed
    BY <1>3, <1>6
<1> HIDE DEF c
<1>10. Carries(s, c, sink, wrote, got, e, shown)
    BY <1>4, <1>8 DEF Carries
<1>11. Tied(s, c, filled, drained, shown, gone)
    BY <1>4, <1>5, <1>9 DEF Tied
<1> QED BY <1>3, <1>9, <1>10, <1>11 DEF size, e, s, b, c, FillTied

\* A byte stream is emptied into its sink, which has room.
DrainTied(source, stream, sink, wrote, got, eof, shown, filled, drained, gone) ==
    LET n == Taken(sink, Peek(stream))
        b == Pop(stream, n)
        k == AfterWrite(sink, Peek(stream))
    IN  /\ Carries(source, b, k, wrote, got, eof, shown)
        /\ Tied(source, b, filled, drained, shown, gone)
        /\ n # 0 /\ ~ shown
        /\ Len(k.bytes) \in Nat /\ Len(k.bytes) >= Len(sink.bytes)
        /\ k.shut = sink.shut /\ b.error = stream.error

\* Draining a byte stream keeps the order of the bytes, whatever part the sink takes.
LEMMA DrainTies ==
    ASSUME NEW source, NEW stream, NEW sink, NEW wrote, NEW got, NEW eof, NEW shown,
           NEW filled, NEW drained, NEW gone,
           Carries(source, stream, sink, wrote, got, eof, shown),
           Tied(source, stream, filled, drained, shown, gone),
           Len(sink.bytes) < Room, BytesBuffered(stream) # 0
    PROVE  DrainTied(source, stream, sink, wrote, got, eof, shown,
                     filled, drained, gone)
<1> DEFINE n == Taken(sink, Peek(stream))
           b == Pop(stream, n)
           k == AfterWrite(sink, Peek(stream))
<1>1. IsBuffer(stream) /\ IsStream(sink)
    BY DEF Carries
<1>2. stream.buffer # <<>>
    BY <1>1, BufferedIs
<1>3. /\ Len(sink.bytes) \in Nat /\ Room \in Nat
      /\ ~ (Len(sink.bytes) >= Room)
    BY CarriesFacts, Sizes
<1>4. /\ Carries(source, b, k, wrote, got, eof, shown)
      /\ n \in Nat /\ (n = 0 => Len(sink.bytes) >= Room \/ stream.buffer = <<>>)
      /\ Len(k.bytes) = Len(sink.bytes) + n
    BY DrainCarries
<1>5. /\ k.shut = sink.shut /\ b.stream_closed = stream.stream_closed
      /\ b.error = stream.error
    BY <1>1, FlagsKept, ShutKept
<1> HIDE DEF n, b, k
<1>6. n # 0 /\ ~ shown
    BY <1>2, <1>3, <1>4 DEF Carries
<1>7. Len(k.bytes) \in Nat /\ Len(k.bytes) >= Len(sink.bytes)
    BY <1>3, <1>4
<1>8. Tied(source, b, filled, drained, shown, gone)
    BY <1>5 DEF Tied
<1> QED BY <1>4, <1>5, <1>6, <1>7, <1>8 DEF n, b, k, DrainTied

\* What the loop counts and forgets again is no part of what is said of the state.
LEMMA SameSound ==
    ASSUME NEW v, NEW t, NEW u, NEW f, NEW names, IsProcess(v),
           HasFields(t), t.serviced \in BOOLEAN, t.failed \in BOOLEAN,
           \A g \in FieldNames \ {"failed", "serviced"} : t[g] = v[g]
    PROVE  /\ IsProcess(t)
           /\ Sound(v, u, f) /\ (t.failed => v.failed) => Sound(t, u, f)
           /\ Ruled(v, names, u, f) => Ruled(t, names, u, f)
           /\ \A old : Advances(v, old) => Advances(t, old)
<1>1. /\ t.stdin = v.stdin /\ t.to_socket = v.to_socket
      /\ t.from_socket = v.from_socket /\ t.stdout = v.stdout
      /\ t.outbound = v.outbound /\ t.inbound = v.inbound
      /\ t.outbound_shutdown = v.outbound_shutdown
      /\ t.inbound_shutdown = v.inbound_shutdown
      /\ t.eof = v.eof /\ t.closed = v.closed
    BY DEF FieldNames
<1>2. IsProcess(t)
    BY <1>1 DEF IsProcess
<1> QED BY <1>1, <1>2 DEF Sound, Ruled, Advances

\* The bytes stand still when nothing happens to them.
LEMMA AdvancesSelf ==
    ASSUME NEW v, NEW u, NEW f, Sound(v, u, f)
    PROVE  Advances(v, v)
<1>1. /\ Len(v.to_socket.bytes) \in Nat /\ Len(v.stdout.bytes) \in Nat
    BY CarriesFacts DEF Sound
<1> QED BY <1>1 DEF Advances

\* A callback does its work, and does not wait busily.
Works(t, v, rule, names, u, f) ==
    /\ Sound(t, u, f) /\ Ruled(t, names, u, f) /\ Advances(t, v)
    /\ ~ t.serviced /\ rule.fd \notin t.closed => ~ CopyInterest(rule.name, t)

\* From standard input to the outbound byte stream
LEMMA Rule1Works ==
    ASSUME NEW v, NEW u, NEW f, NEW names, NEW rule,
           Sound(v, u, f), Ruled(v, names, u, f),
           rule.name = 1, RoomFor(1, v)
    PROVE  Works(CopyCallback(1, v), v, rule, names, u, f)
<1> DEFINE t == Fill(v, "input", "stdin", "outbound")
           size == AvailableCapacity(v.outbound)
           eof == "input" \in v.eof
           e == IF v.stdin.bytes = <<>> /\ v.stdin.shut
                THEN v.eof \cup {"input"} ELSE v.eof
           s == AfterRead(v.stdin, size)
           b == Push(v.outbound, ReadData(v.stdin, size))
           c == IF eof \/ Exhausted(v.stdin) THEN Close(b) ELSE b
           shown == v.outbound_shutdown
<1>1. IsProcess(v) /\ HasFields(v) /\ Len(v.outbound.buffer) < buffer_size
    BY DEF Sound, IsProcess, RoomFor
<1>2. /\ Carries(v.stdin, v.outbound, v.to_socket, u.wrote, f.got, eof, shown)
      /\ Tied(v.stdin, v.outbound, 1 \in names, 2 \in names, shown, f.left)
    BY DEF Sound, Ruled
<1>3. /\ Carries(s, c, v.to_socket, u.wrote, f.got,
                 eof \/ Exhausted(v.stdin), shown)
      /\ Tied(s, c, 1 \in names, 2 \in names, shown, f.left)
      /\ s.shut = v.stdin.shut /\ c.error = v.outbound.error
    <2>1. eof \in BOOLEAN
        OBVIOUS
    <2>2. FillTied(v.stdin, v.outbound, v.to_socket, u.wrote, f.got, eof, shown,
                   1 \in names, 2 \in names, f.left)
        <3> HIDE DEF eof, shown
        <3> QED BY <2>1, <1>1, <1>2, FillTies, Zenon
    <2> QED BY <2>2 DEF FillTied
<1>4. /\ "input" \in e <=> eof \/ Exhausted(v.stdin)
      /\ "socket" \in e <=> "socket" \in v.eof
    BY DEF Exhausted
<1>5. /\ HasFields(t) /\ t.serviced = TRUE /\ t.eof = e /\ t.stdin = s
      /\ t.outbound = IF "input" \in e THEN Close(b) ELSE b
      /\ \A g \in FieldNames \ {"stdin", "outbound", "eof", "serviced"} : t[g] = v[g]
    <2>1. FillChanges(t, v, "input", "stdin", "outbound")
        BY <1>1, FillIs
    <2> HIDE DEF t
    <2> QED BY <2>1 DEF FillChanges
<1>6. t.outbound = c
    BY <1>4, <1>5
<1> HIDE DEF t, s, b, c, e, eof
<1>7. /\ t.to_socket = v.to_socket /\ t.from_socket = v.from_socket
      /\ t.stdout = v.stdout /\ t.inbound = v.inbound
      /\ t.outbound_shutdown = v.outbound_shutdown
      /\ t.inbound_shutdown = v.inbound_shutdown
      /\ t.closed = v.closed /\ t.failed = v.failed
    BY <1>5 DEF FieldNames
<1>8. IsProcess(t)
    BY <1>1, <1>5, <1>7 DEF IsProcess
<1>9. Sound(t, u, f)
    BY <1>3, <1>4, <1>5, <1>6, <1>7, <1>8 DEF Sound
<1>10. Ruled(t, names, u, f)
    BY <1>3, <1>5, <1>6, <1>7 DEF Ruled
<1>11. Advances(t, v)
    <2>1. Advances(v, v)
        BY AdvancesSelf
    <2> QED BY <1>3, <1>5, <1>7, <2>1 DEF Advances
<1> QED BY <1>5, <1>9, <1>10, <1>11 DEF Works, CopyCallback, t

\* From the socket to the inbound byte stream
LEMMA Rule3Works ==
    ASSUME NEW v, NEW u, NEW f, NEW names, NEW rule,
           Sound(v, u, f), Ruled(v, names, u, f),
           rule.name = 3, RoomFor(3, v)
    PROVE  Works(CopyCallback(3, v), v, rule, names, u, f)
<1> DEFINE t == Fill(v, "socket", "from_socket", "inbound")
           size == AvailableCapacity(v.inbound)
           eof == "socket" \in v.eof
           e == IF v.from_socket.bytes = <<>> /\ v.from_socket.shut
                THEN v.eof \cup {"socket"} ELSE v.eof
           s == AfterRead(v.from_socket, size)
           b == Push(v.inbound, ReadData(v.from_socket, size))
           c == IF eof \/ Exhausted(v.from_socket) THEN Close(b) ELSE b
           shown == "output" \in v.closed
<1>1. IsProcess(v) /\ HasFields(v) /\ Len(v.inbound.buffer) < buffer_size
    BY DEF Sound, IsProcess, RoomFor
<1>2. /\ Carries(v.from_socket, v.inbound, v.stdout, f.wrote, u.got, eof, shown)
      /\ Tied(v.from_socket, v.inbound, 3 \in names, 4 \in names, shown, u.left)
    BY DEF Sound, Ruled
<1>3. /\ Carries(s, c, v.stdout, f.wrote, u.got,
                 eof \/ Exhausted(v.from_socket), shown)
      /\ Tied(s, c, 3 \in names, 4 \in names, shown, u.left)
      /\ s.shut = v.from_socket.shut /\ c.error = v.inbound.error
    <2>1. eof \in BOOLEAN
        OBVIOUS
    <2>2. FillTied(v.from_socket, v.inbound, v.stdout, f.wrote, u.got, eof, shown,
                   3 \in names, 4 \in names, u.left)
        <3> HIDE DEF eof, shown
        <3> QED BY <2>1, <1>1, <1>2, FillTies, Zenon
    <2> QED BY <2>2 DEF FillTied
<1>4. /\ "socket" \in e <=> eof \/ Exhausted(v.from_socket)
      /\ "input" \in e <=> "input" \in v.eof
    BY DEF Exhausted
<1>5. /\ HasFields(t) /\ t.serviced = TRUE /\ t.eof = e /\ t.from_socket = s
      /\ t.inbound = IF "socket" \in e THEN Close(b) ELSE b
      /\ \A g \in FieldNames \ {"from_socket", "inbound", "eof", "serviced"} :
            t[g] = v[g]
    <2>1. FillChanges(t, v, "socket", "from_socket", "inbound")
        BY <1>1, FillIs
    <2> HIDE DEF t
    <2> QED BY <2>1 DEF FillChanges
<1>6. t.inbound = c
    BY <1>4, <1>5
<1> HIDE DEF t, s, b, c, e, eof
<1>7. /\ t.to_socket = v.to_socket /\ t.stdin = v.stdin
      /\ t.stdout = v.stdout /\ t.outbound = v.outbound
      /\ t.outbound_shutdown = v.outbound_shutdown
      /\ t.inbound_shutdown = v.inbound_shutdown
      /\ t.closed = v.closed /\ t.failed = v.failed
    BY <1>5 DEF FieldNames
<1>8. IsProcess(t)
    BY <1>1, <1>5, <1>7 DEF IsProcess
<1>9. Sound(t, u, f)
    BY <1>3, <1>4, <1>5, <1>6, <1>7, <1>8 DEF Sound
<1>10. Ruled(t, names, u, f)
    BY <1>3, <1>5, <1>6, <1>7 DEF Ruled
<1>11. Advances(t, v)
    <2>1. Advances(v, v)
        BY AdvancesSelf
    <2> QED BY <1>3, <1>5, <1>7, <2>1 DEF Advances
<1> QED BY <1>5, <1>9, <1>10, <1>11 DEF Works, CopyCallback, t

\* The first half of the callback of rule 2
LEMMA Rule2Drains ==
    ASSUME NEW v, NEW u, NEW f, NEW names,
           Sound(v, u, f), Ruled(v, names, u, f), RoomFor(2, v)
    PROVE  LET t == Drain(v, "outbound", "to_socket")
           IN  /\ Sound(t, u, f) /\ Ruled(t, names, u, f) /\ Advances(t, v)
               /\ ~ t.serviced => t = v /\ BytesBuffered(v.outbound) = 0
<1> DEFINE t == Drain(v, "outbound", "to_socket")
           n == Taken(v.to_socket, Peek(v.outbound))
           b == Pop(v.outbound, n)
           k == AfterWrite(v.to_socket, Peek(v.outbound))
           eof == "input" \in v.eof
           shown == v.outbound_shutdown
<1>1. IsProcess(v) /\ HasFields(v) /\ v.failed \in BOOLEAN /\ Advances(v, v)
      /\ Len(v.to_socket.bytes) < Room
    BY AdvancesSelf DEF Sound, IsProcess, RoomFor
<1>2. CASE BytesBuffered(v.outbound) = 0
    <2>1. t = v
        BY <1>2 DEF Drain
    <2> QED BY <1>1, <1>2, <2>1
<1>3. CASE BytesBuffered(v.outbound) # 0
    <2>1. /\ Carries(v.stdin, v.outbound, v.to_socket, u.wrote, f.got, eof, shown)
          /\ Tied(v.stdin, v.outbound, 1 \in names, 2 \in names, shown, f.left)
        BY DEF Sound, Ruled
    <2>2. /\ Carries(v.stdin, b, k, u.wrote, f.got, eof, shown)
          /\ Tied(v.stdin, b, 1 \in names, 2 \in names, shown, f.left)
          /\ n # 0 /\ ~ shown
          /\ Len(k.bytes) \in Nat /\ Len(k.bytes) >= Len(v.to_socket.bytes)
          /\ k.shut = v.to_socket.shut /\ b.error = v.outbound.error
        <3>1. DrainTied(v.stdin, v.outbound, v.to_socket, u.wrote, f.got, eof, shown,
                        1 \in names, 2 \in names, f.left)
            <4> HIDE DEF eof, shown
            <4> QED BY <1>1, <1>3, <2>1, DrainTies, Zenon
        <3> QED BY <3>1 DEF DrainTied
    <2>3. /\ HasFields(t) /\ t.serviced = TRUE /\ t.failed \in BOOLEAN
          /\ t.failed <=> \/ v.failed \/ v.to_socket.shut
                          \/ n = 0 /\ Peek(v.outbound) # <<>>
          /\ t.outbound = b /\ t.to_socket = k
          /\ \A g \in FieldNames \ {"outbound", "to_socket", "failed", "serviced"} :
                t[g] = v[g]
        <3>1. DrainChanges(t, v, "outbound", "to_socket")
            BY <1>1, <1>3, DrainIs
        <3> HIDE DEF t
        <3> QED BY <3>1 DEF DrainChanges
    <2> HIDE DEF t, b, k, n
    <2>4. /\ t.stdin = v.stdin /\ t.from_socket = v.from_socket
          /\ t.stdout = v.stdout /\ t.inbound = v.inbound
          /\ t.outbound_shutdown = v.outbound_shutdown
          /\ t.inbound_shutdown = v.inbound_shutdown
          /\ t.closed = v.closed /\ t.eof = v.eof
        BY <2>3 DEF FieldNames
    <2>5. IsProcess(t)
        BY <1>1, <2>3, <2>4 DEF IsProcess
    <2>6. t.failed => u.left \/ f.left
        BY <2>2, <2>3 DEF Sound
    <2>7. Sound(t, u, f)
        BY <2>2, <2>3, <2>4, <2>5, <2>6 DEF Sound
    <2>8. Ruled(t, names, u, f)
        BY <2>2, <2>3, <2>4 DEF Ruled
    <2>9. Advances(t, v)
        BY <1>1, <2>2, <2>3, <2>4 DEF Advances
    <2> QED BY <2>3, <2>7, <2>8, <2>9 DEF t
<1> QED BY <1>2, <1>3

\* The first half of the callback of rule 4
LEMMA Rule4Drains ==
    ASSUME NEW v, NEW u, NEW f, NEW names,
           Sound(v, u, f), Ruled(v, names, u, f), RoomFor(4, v)
    PROVE  LET t == Drain(v, "inbound", "stdout")
           IN  /\ Sound(t, u, f) /\ Ruled(t, names, u, f) /\ Advances(t, v)
               /\ ~ t.serviced => t = v /\ BytesBuffered(v.inbound) = 0
<1> DEFINE t == Drain(v, "inbound", "stdout")
           n == Taken(v.stdout, Peek(v.inbound))
           b == Pop(v.inbound, n)
           k == AfterWrite(v.stdout, Peek(v.inbound))
           eof == "socket" \in v.eof
           shown == "output" \in v.closed
<1>1. IsProcess(v) /\ HasFields(v) /\ v.failed \in BOOLEAN /\ Advances(v, v)
      /\ Len(v.stdout.bytes) < Room
    BY AdvancesSelf DEF Sound, IsProcess, RoomFor
<1>2. CASE BytesBuffered(v.inbound) = 0
    <2>1. t = v
        BY <1>2 DEF Drain
    <2> QED BY <1>1, <1>2, <2>1
<1>3. CASE BytesBuffered(v.inbound) # 0
    <2>1. /\ Carries(v.from_socket, v.inbound, v.stdout, f.wrote, u.got, eof, shown)
          /\ Tied(v.from_socket, v.inbound, 3 \in names, 4 \in names, shown, u.left)
        BY DEF Sound, Ruled
    <2>2. /\ Carries(v.from_socket, b, k, f.wrote, u.got, eof, shown)
          /\ Tied(v.from_socket, b, 3 \in names, 4 \in names, shown, u.left)
          /\ n # 0 /\ ~ shown
          /\ Len(k.bytes) \in Nat /\ Len(k.bytes) >= Len(v.stdout.bytes)
          /\ k.shut = v.stdout.shut /\ b.error = v.inbound.error
        <3>1. DrainTied(v.from_socket, v.inbound, v.stdout, f.wrote, u.got, eof, shown,
                        3 \in names, 4 \in names, u.left)
            <4> HIDE DEF eof, shown
            <4> QED BY <1>1, <1>3, <2>1, DrainTies, Zenon
        <3> QED BY <3>1 DEF DrainTied
    <2>3. /\ HasFields(t) /\ t.serviced = TRUE /\ t.failed \in BOOLEAN
          /\ t.failed <=> \/ v.failed \/ v.stdout.shut
                          \/ n = 0 /\ Peek(v.inbound) # <<>>
          /\ t.inbound = b /\ t.stdout = k
          /\ \A g \in FieldNames \ {"inbound", "stdout", "failed", "serviced"} :
                t[g] = v[g]
        <3>1. DrainChanges(t, v, "inbound", "stdout")
            BY <1>1, <1>3, DrainIs
        <3> HIDE DEF t
        <3> QED BY <3>1 DEF DrainChanges
    <2> HIDE DEF t, b, k, n
    <2>4. /\ t.stdin = v.stdin /\ t.from_socket = v.from_socket
          /\ t.to_socket = v.to_socket /\ t.outbound = v.outbound
          /\ t.outbound_shutdown = v.outbound_shutdown
          /\ t.inbound_shutdown = v.inbound_shutdown
          /\ t.closed = v.closed /\ t.eof = v.eof
        BY <2>3 DEF FieldNames
    <2>5. IsProcess(t)
        BY <1>1, <2>3, <2>4 DEF IsProcess
    <2>6. t.failed => u.left \/ f.left
        BY <2>2, <2>3 DEF Sound
    <2>7. Sound(t, u, f)
        BY <2>2, <2>3, <2>4, <2>5, <2>6 DEF Sound
    <2>8. Ruled(t, names, u, f)
        BY <2>2, <2>3, <2>4 DEF Ruled
    <2>9. Advances(t, v)
        BY <1>1, <2>2, <2>3, <2>4 DEF Advances
    <2> QED BY <2>3, <2>7, <2>8, <2>9 DEF t
<1> QED BY <1>2, <1>3

\* From the outbound byte stream to the socket, which is shut after the last byte
LEMMA Rule2Works ==
    ASSUME NEW v, NEW u, NEW f, NEW names, NEW rule,
           Sound(v, u, f), Ruled(v, names, u, f),
           rule.name = 2, 2 \in names, RoomFor(2, v)
    PROVE  Works(CopyCallback(2, v), v, rule, names, u, f)
<1> DEFINE t == Drain(v, "outbound", "to_socket")
           z == EndOutbound(t)
<1>1. /\ Sound(t, u, f) /\ Ruled(t, names, u, f) /\ Advances(t, v)
      /\ ~ t.serviced => t = v /\ BytesBuffered(v.outbound) = 0
    BY Rule2Drains
<1> HIDE DEF t
<1>2. CASE ~ IsFinished(t.outbound)
    <2>1. z = t
        BY <1>2 DEF EndOutbound
    <2>2. ASSUME ~ t.serviced PROVE ~ CopyInterest(2, t)
        <3>1. ~ MayDrain(t, "outbound", t.outbound_shutdown)
            BY <1>1, <1>2, <2>2 DEF MayDrain
        <3> QED BY <3>1 DEF CopyInterest
    <2> QED BY <1>1, <2>1, <2>2 DEF Works, CopyCallback, t
<1>3. CASE IsFinished(t.outbound)
    <2> DEFINE k == ShutStream(t.to_socket)
               v1 == [t EXCEPT !.to_socket = k]
               v2 == [v1 EXCEPT !.outbound_shutdown = TRUE]
               v3 == [v2 EXCEPT !.serviced = TRUE]
               eof == "input" \in t.eof
               shown == t.outbound_shutdown
    <2>1. z = v3
        BY <1>3 DEF EndOutbound
    <2>2. /\ IsProcess(t) /\ HasFields(t) /\ IsBuffer(t.outbound) /\ IsStream(t.to_socket)
          /\ Carries(t.stdin, t.outbound, t.to_socket, u.wrote, f.got, eof, shown)
        BY <1>1 DEF Sound, IsProcess, Carries
    <2>3. Exhausted(t.stdin)
        <3>1. t.outbound.stream_closed
            BY <1>3, <2>2, BufferedIs
        <3> QED BY <1>1, <3>1 DEF Ruled, Tied
    <2>4. Carries(t.stdin, t.outbound, k, u.wrote, f.got, eof, TRUE)
        <3> HIDE DEF eof, shown
        <3>1. Carries(t.stdin, t.outbound, t.to_socket, u.wrote, f.got, eof, TRUE)
            BY <1>3, <2>2, <2>3, EndCarries, Zenon
        <3> QED BY <3>1, CloseCarries
    <2>5. k.bytes = t.to_socket.bytes
        BY <2>2, ShutKept
    <2> HIDE DEF k, z
    <2>6. /\ HasFields(v1) /\ v1.to_socket = k
          /\ \A g \in FieldNames \ {"to_socket"} : v1[g] = t[g]
        BY <2>2, SetOne, Fields
    <2> HIDE DEF v1
    <2>7. /\ HasFields(v2) /\ v2.outbound_shutdown = TRUE
          /\ \A g \in FieldNames \ {"outbound_shutdown"} : v2[g] = v1[g]
        BY <2>6, SetOne, Fields
    <2> HIDE DEF v2
    <2>8. /\ HasFields(v3) /\ v3.serviced = TRUE
          /\ \A g \in FieldNames \ {"serviced"} : v3[g] = v2[g]
        BY <2>7, SetOne, Fields
    <2> HIDE DEF v3
    <2>9. /\ z.stdin = t.stdin /\ z.to_socket = k /\ z.outbound = t.outbound
          /\ z.from_socket = t.from_socket /\ z.inbound = t.inbound
          /\ z.stdout = t.stdout /\ z.outbound_shutdown = TRUE
          /\ z.inbound_shutdown = t.inbound_shutdown
          /\ z.closed = t.closed /\ z.eof = t.eof /\ z.failed = t.failed
          /\ z.serviced = TRUE /\ HasFields(z)
        BY <2>1, <2>6, <2>7, <2>8 DEF FieldNames
    <2>10. IsProcess(z)
        BY <2>2, <2>9 DEF IsProcess
    <2>11. Sound(z, u, f)
        BY <1>1, <2>4, <2>9, <2>10 DEF Sound
    <2>12. Ruled(z, names, u, f)
        BY <1>1, <2>9 DEF Ruled, Tied
    <2>13. Advances(z, v)
        BY <1>1, <2>5, <2>9 DEF Advances
    <2> QED BY <2>9, <2>11, <2>12, <2>13 DEF Works, CopyCallback, z, t
<1> QED BY <1>2, <1>3

\* From the inbound byte stream to standard output, which is closed after the last byte
LEMMA Rule4Works ==
    ASSUME NEW v, NEW u, NEW f, NEW names, NEW rule,
           Sound(v, u, f), Ruled(v, names, u, f),
           rule.name = 4, rule.fd = "output", 4 \in names, RoomFor(4, v)
    PROVE  Works(CopyCallback(4, v), v, rule, names, u, f)
<1> DEFINE t == Drain(v, "inbound", "stdout")
           z == EndInbound(t)
<1>1. /\ Sound(t, u, f) /\ Ruled(t, names, u, f) /\ Advances(t, v)
      /\ ~ t.serviced => t = v /\ BytesBuffered(v.inbound) = 0
    BY Rule4Drains
<1> HIDE DEF t
<1>2. CASE ~ IsFinished(t.inbound)
    <2>1. z = t
        BY <1>2 DEF EndInbound
    <2>2. ASSUME ~ t.serviced PROVE ~ CopyInterest(4, t)
        <3>1. ~ MayDrain(t, "inbound", t.inbound_shutdown)
            BY <1>1, <1>2, <2>2 DEF MayDrain
        <3> QED BY <3>1 DEF CopyInterest
    <2> QED BY <1>1, <2>1, <2>2 DEF Works, CopyCallback, t
<1>3. CASE IsFinished(t.inbound)
    <2> DEFINE eofs == t.eof \cup {"output"}
               all == t.closed \cup {"output"}
               v1 == [t EXCEPT !.eof = eofs]
               v2 == [v1 EXCEPT !.closed = all]
               v3 == [v2 EXCEPT !.inbound_shutdown = TRUE]
               eof == "socket" \in t.eof
               shown == "output" \in t.closed
    <2>1. z = v3
        <3>1. v1.closed = t.closed
            BY <1>1 DEF Sound, IsProcess, HasFields, FieldNames
        <3> QED BY <1>3, <3>1 DEF EndInbound, Closing
    <2>2. /\ IsProcess(t) /\ HasFields(t) /\ IsBuffer(t.inbound)
          /\ Carries(t.from_socket, t.inbound, t.stdout, f.wrote, u.got, eof, shown)
        BY <1>1 DEF Sound, IsProcess, Carries
    <2>3. Exhausted(t.from_socket)
        <3>1. t.inbound.stream_closed
            BY <1>3, <2>2, BufferedIs
        <3> QED BY <1>1, <3>1 DEF Ruled, Tied
    <2>4. Carries(t.from_socket, t.inbound, t.stdout, f.wrote, u.got, eof, TRUE)
        <3> HIDE DEF eof, shown
        <3> QED BY <1>3, <2>2, <2>3, EndCarries, Zenon
    <2>5. /\ "output" \in all /\ all \subseteq {"output"}
          /\ ("input" \in eofs <=> "input" \in t.eof)
          /\ ("socket" \in eofs <=> "socket" \in t.eof)
        BY <2>2 DEF IsProcess
    <2> HIDE DEF z, eofs, all
    <2>6. /\ HasFields(v1) /\ v1.eof = eofs
          /\ \A g \in FieldNames \ {"eof"} : v1[g] = t[g]
        BY <2>2, SetOne, Fields
    <2> HIDE DEF v1
    <2>7. /\ HasFields(v2) /\ v2.closed = all
          /\ \A g \in FieldNames \ {"closed"} : v2[g] = v1[g]
        BY <2>6, SetOne, Fields
    <2> HIDE DEF v2
    <2>8. /\ HasFields(v3) /\ v3.inbound_shutdown = TRUE
          /\ \A g \in FieldNames \ {"inbound_shutdown"} : v3[g] = v2[g]
        BY <2>7, SetOne, Fields
    <2> HIDE DEF v3
    <2>9. /\ z.stdin = t.stdin /\ z.to_socket = t.to_socket /\ z.outbound = t.outbound
          /\ z.from_socket = t.from_socket /\ z.inbound = t.inbound
          /\ z.stdout = t.stdout /\ z.outbound_shutdown = t.outbound_shutdown
          /\ z.inbound_shutdown = TRUE
          /\ z.closed = all /\ z.eof = eofs /\ z.failed = t.failed
          /\ z.serviced = t.serviced /\ HasFields(z)
        BY <2>1, <2>6, <2>7, <2>8 DEF FieldNames
    <2>10. IsProcess(z)
        BY <2>2, <2>5, <2>9 DEF IsProcess
    <2>11. Sound(z, u, f)
        <3>1. Carries(z.from_socket, z.inbound, z.stdout, f.wrote, u.got,
                      "socket" \in z.eof, "output" \in z.closed)
            BY <2>4, <2>5, <2>9 DEF Carries
        <3>2. Carries(z.stdin, z.outbound, z.to_socket, u.wrote, f.got,
                      "input" \in z.eof, z.outbound_shutdown)
            BY <1>1, <2>5, <2>9 DEF Sound, Carries
        <3> QED BY <1>1, <2>5, <2>9, <2>10, <3>1, <3>2 DEF Sound
    <2>12. Ruled(z, names, u, f)
        BY <1>1, <2>5, <2>9 DEF Ruled, Tied
    <2>13. Advances(z, v)
        BY <1>1, <2>5, <2>9 DEF Advances
    <2> QED BY <2>5, <2>9, <2>11, <2>12, <2>13 DEF Works, CopyCallback, z, t
<1> QED BY <1>2, <1>3

\* A ready rule is called: it does its work, and the loop does not fail.
LEMMA CalledKeeps ==
    ASSUME NEW v, NEW u, NEW f, NEW names, NEW rule \in AnyRule,
           Sound(v, u, f), Ruled(v, names, u, f),
           rule.name \in names, RoomFor(rule.name, v)
    PROVE  LET t == EventLoop!Called(v, rule)
           IN  Sound(t, u, f) /\ Ruled(t, names, u, f) /\ Advances(t, v)
<1> DEFINE v0 == [v EXCEPT !.serviced = FALSE]
           z == CopyCallback(rule.name, v0)
           t == EventLoop!BusyWaitChecked(z, rule)
<1>1. IsProcess(v) /\ HasFields(v) /\ v.failed \in BOOLEAN /\ Advances(v, v)
    BY AdvancesSelf DEF Sound, IsProcess
<1>2. /\ HasFields(v0) /\ v0.serviced = FALSE
      /\ \A g \in FieldNames \ {"serviced"} : v0[g] = v[g]
    BY <1>1, SetOne, Fields
<1>3. EventLoop!Called(v, rule) = t
    BY DEF EventLoop!Called
<1> HIDE DEF v0
<1>4. /\ v0.failed = v.failed /\ v0.serviced \in BOOLEAN /\ v0.failed \in BOOLEAN
      /\ \A g \in FieldNames \ {"failed", "serviced"} : v0[g] = v[g]
    BY <1>1, <1>2 DEF FieldNames
<1>5. Sound(v0, u, f) /\ Ruled(v0, names, u, f) /\ Advances(v0, v)
    BY <1>1, <1>2, <1>4, SameSound
<1>6. RoomFor(rule.name, v0)
    BY <1>4 DEF RoomFor, FieldNames
<1>7. Works(z, v0, rule, names, u, f)
    <2>1. /\ rule.name \in 1 .. 4
          /\ rule.name = 4 => rule.fd = "output"
        BY RuleIs
    <2>2. CASE rule.name = 1
        BY <1>5, <1>6, <2>2, Rule1Works
    <2>3. CASE rule.name = 2
        BY <1>5, <1>6, <2>3, Rule2Works
    <2>4. CASE rule.name = 3
        BY <1>5, <1>6, <2>4, Rule3Works
    <2>5. CASE rule.name = 4
        BY <1>5, <1>6, <2>1, <2>5, Rule4Works
    <2> QED BY <2>1, <2>2, <2>3, <2>4, <2>5
<1> HIDE DEF z
<1>8. Sound(z, u, f) /\ Ruled(z, names, u, f) /\ Advances(z, v0)
      /\ (~ z.serviced /\ rule.fd \notin z.closed => ~ CopyInterest(rule.name, z))
    BY <1>7 DEF Works
<1>9. IsProcess(z) /\ HasFields(z) /\ z.failed \in BOOLEAN
    BY <1>8 DEF Sound, IsProcess
<1>10. /\ HasFields(t) /\ t.serviced = FALSE /\ t.failed \in BOOLEAN
       /\ t.failed <=> \/ z.failed
                       \/ /\ ~ z.serviced /\ rule.fd \notin z.closed
                          /\ CopyInterest(rule.name, z)
       /\ \A g \in FieldNames \ {"failed", "serviced"} : t[g] = z[g]
    BY <1>9, CheckedIs
<1> HIDE DEF t
<1>11. Sound(t, u, f) /\ Ruled(t, names, u, f) /\ Advances(t, v0)
    <2>1. t.failed => z.failed
        BY <1>8, <1>10
    <2>2. t.serviced \in BOOLEAN
        BY <1>10
    <2> QED BY <1>8, <1>9, <1>10, <2>1, <2>2, SameSound
<1>12. Advances(t, v)
    <2>1. /\ v0.stdin = v.stdin /\ v0.from_socket = v.from_socket
          /\ v0.to_socket = v.to_socket /\ v0.stdout = v.stdout
          /\ v0.outbound_shutdown = v.outbound_shutdown /\ v0.closed = v.closed
        BY <1>4 DEF FieldNames
    <2> QED BY <1>11, <2>1 DEF Advances
<1> QED BY <1>3, <1>11, <1>12
-----------------------------------------------------------------------------
(* Before poll *)

\* What poll is asked for: nothing, for a rule that is not interested, and for one
\* that fills a byte stream only when this has room.
Asks(asked, rules, v) ==
    /\ asked \in Seq(SUBSET {"IN", "OUT"}) /\ Len(asked) = Len(rules)
    /\ \A k \in 1 .. Len(rules) :
          /\ asked[k] \in {{}, {rules[k].direction}}
          /\ asked[k] = {} => ~ CopyInterest(rules[k].name, v)
          /\ asked[k] # {} /\ rules[k].name \in {1, 3} => RoomFor(rules[k].name, v)

\* What the first i of the rules c.rules were arranged to, from the state c.w
ArrangeInv(c, i, acc) ==
    /\ acc = [w |-> acc.w, rules |-> acc.rules, asked |-> acc.asked]
    /\ Sound(acc.w, c.user, c.far) /\ Untouched(acc.w, c.w)
    /\ Ordered(acc.rules, c.rules, i)
    /\ Ruled(acc.w, Left(acc.rules, c.rules, i), c.user, c.far)
    /\ Asks(acc.asked, acc.rules, acc.w)

Arranging == INSTANCE FoldProofs WITH Op <- EventLoop!ArrangeRule, Inv <- ArrangeInv

\* A rule is dropped here only at the end of what it reads or writes.
LEMMA DefunctMayGo ==
    ASSUME NEW v, NEW u, NEW f, NEW rule \in AnyRule, Sound(v, u, f),
           EventLoop!Defunct(v, rule)
    PROVE  MayGo(rule.name, v, u, f)
<1>1. /\ rule.name \in 1 .. 4
      /\ rule.name = 1 => rule.fd = "input" /\ rule.direction = "IN"
      /\ rule.name = 2 => rule.fd = "socket" /\ rule.direction = "OUT"
      /\ rule.name = 3 => rule.fd = "socket" /\ rule.direction = "IN"
      /\ rule.name = 4 => rule.fd = "output" /\ rule.direction = "OUT"
    BY RuleIs
<1>2. /\ v.closed \subseteq {"output"}
      /\ "input" \in v.eof => Exhausted(v.stdin)
      /\ "socket" \in v.eof => Exhausted(v.from_socket)
    BY DEF Sound, IsProcess, Carries
<1> QED BY <1>1, <1>2 DEF MayGo, EventLoop!Defunct

\* A rule that is asked about has room for what it reads.
LEMMA InterestHasRoom ==
    ASSUME NEW v, NEW u, NEW f, Sound(v, u, f), NEW name \in {1, 3},
           CopyInterest(name, v)
    PROVE  RoomFor(name, v)
<1>1. /\ IsBuffer(v.outbound) /\ IsBuffer(v.inbound)
      /\ Len(v.outbound.buffer) \in Nat /\ Len(v.inbound.buffer) \in Nat
    BY CarriesFacts DEF Sound, Carries
<1>2. v.outbound.capacity = buffer_size /\ v.inbound.capacity = buffer_size
    BY <1>1 DEF IsBuffer
<1>3. CASE name = 1
    <2> DEFINE a == Len(v.outbound.buffer)
    <2>1. a \in Nat /\ buffer_size - a > 0
        BY <1>1, <1>2, <1>3 DEF CopyInterest, MayFill, AvailableCapacity
    <2> HIDE DEF a
    <2>2. a < buffer_size
        BY <2>1, Sizes
    <2> QED BY <1>3, <2>2 DEF RoomFor, a
<1>4. CASE name = 3
    <2> DEFINE a == Len(v.inbound.buffer)
    <2>1. a \in Nat /\ buffer_size - a > 0
        BY <1>1, <1>2, <1>4 DEF CopyInterest, MayFill, AvailableCapacity
    <2> HIDE DEF a
    <2>2. a < buffer_size
        BY <2>1, Sizes
    <2> QED BY <1>4, <2>2 DEF RoomFor, a
<1> QED BY <1>3, <1>4

\* One round of the loop that sets up the pollfds
LEMMA ArrangeStep ==
    ASSUME NEW c, NEW i \in 1 .. Len(c.rules), NEW acc, ArrangeInv(c, i - 1, acc)
    PROVE  ArrangeInv(c, i, EventLoop!ArrangeRule(acc, c.rules[i]))
<1> DEFINE rule == c.rules[i]
           v == acc.w
           u == c.user
           f == c.far
           names == Left(acc.rules, c.rules, i - 1)
           next == EventLoop!ArrangeRule(acc, rule)
<1>1. /\ acc = [w |-> v, rules |-> acc.rules, asked |-> acc.asked]
      /\ Sound(v, u, f) /\ Untouched(v, c.w)
      /\ Ordered(acc.rules, c.rules, i - 1) /\ Ruled(v, names, u, f)
      /\ Asks(acc.asked, acc.rules, v)
    BY DEF ArrangeInv
<1>2. /\ rule \in AnyRule /\ IsRules(c.rules) /\ IsRules(acc.rules)
      /\ rule.name \in 1 .. 4 /\ Len(c.rules) \in Nat
    BY <1>1, RulesFacts DEF Ordered
<1>3. /\ Len(acc.rules) \in Nat
      /\ \A k \in 1 .. Len(acc.rules) :
            acc.rules[k].name \in 1 .. 4 /\ acc.rules[k].name < rule.name
    <2>1. i \in (i - 1) + 1 .. Len(c.rules)
        BY <1>2
    <2> QED BY <1>1, <1>2, <2>1, RulesFacts DEF Ordered
<1>4. CASE EventLoop!Defunct(v, rule)
    <2> DEFINE t == CopyCancel(rule.name, v)
    <2>1. /\ Sound(t, u, f) /\ Ruled(t, names \ {rule.name}, u, f) /\ Untouched(t, v)
        BY <1>1, <1>2, <1>4, DefunctMayGo, CancelKeeps
    <2>2. /\ Ordered(acc.rules, c.rules, i)
          /\ Left(acc.rules, c.rules, i) = names \ {rule.name}
        BY <1>1, DropRule
    <2>3. Asks(acc.asked, acc.rules, t)
        <3> SUFFICES ASSUME NEW k \in 1 .. Len(acc.rules)
                     PROVE  /\ acc.asked[k] = {} => ~ CopyInterest(acc.rules[k].name, t)
                            /\ acc.asked[k] # {} /\ acc.rules[k].name \in {1, 3} =>
                                  RoomFor(acc.rules[k].name, t)
            BY <1>1 DEF Asks
        <3>1. acc.asked[k] = {} => ~ CopyInterest(acc.rules[k].name, t)
            BY <1>1, <1>2, <1>3, CancelQuietens DEF Asks
        <3>2. acc.asked[k] # {} /\ acc.rules[k].name \in {1, 3} =>
                 RoomFor(acc.rules[k].name, v)
            BY <1>1 DEF Asks
        <3> HIDE DEF t
        <3> QED BY <2>1, <3>1, <3>2 DEF RoomFor, Untouched
    <2>4. Untouched(t, c.w)
        <3> HIDE DEF t
        <3> QED BY <1>1, <2>1 DEF Untouched
    <2>5. next = [acc EXCEPT !.w = t]
        BY <1>4 DEF EventLoop!ArrangeRule
    <2> HIDE DEF t, next, names
    <2>6. /\ next.w = t /\ next.rules = acc.rules /\ next.asked = acc.asked
          /\ next = [w |-> next.w, rules |-> next.rules, asked |-> next.asked]
        BY <1>1, <2>5
    <2> QED BY <2>1, <2>2, <2>3, <2>4, <2>6 DEF ArrangeInv, next
<1>5. CASE ~ EventLoop!Defunct(v, rule)
    <2> DEFINE event == IF CopyInterest(rule.name, v) THEN {rule.direction} ELSE {}
               rules == Append(acc.rules, rule)
               asked == Append(acc.asked, event)
               n == Len(acc.rules)
    <2>1. next = [acc EXCEPT !.rules = rules, !.asked = asked]
        BY <1>5 DEF EventLoop!ArrangeRule
    <2>2. /\ Ordered(rules, c.rules, i) /\ Left(rules, c.rules, i) = names
          /\ Len(rules) = n + 1
          /\ \A k \in 1 .. n + 1 : rules[k] = IF k = n + 1 THEN rule ELSE acc.rules[k]
        BY <1>1, KeepRule
    <2>3. event \in SUBSET {"IN", "OUT"}
        BY <1>2, RuleIs
    <2>4. event = {} => ~ CopyInterest(rule.name, v)
        OBVIOUS
    <2>5. event # {} /\ rule.name \in {1, 3} => RoomFor(rule.name, v)
        BY <1>1, InterestHasRoom
    <2>6. event \in {{}, {rule.direction}}
        OBVIOUS
    <2> HIDE DEF event
    <2>7. /\ asked \in Seq(SUBSET {"IN", "OUT"}) /\ Len(asked) = n + 1
          /\ \A k \in 1 .. n + 1 : asked[k] = IF k = n + 1 THEN event ELSE acc.asked[k]
        <3>1. acc.asked \in Seq(SUBSET {"IN", "OUT"}) /\ Len(acc.asked) = n
            BY <1>1 DEF Asks
        <3> QED BY <2>3, <3>1, AppendProperties
    <2> HIDE DEF rules, asked, next, names, rule
    <2>8. Asks(asked, rules, v)
        <3> SUFFICES ASSUME NEW k \in 1 .. n + 1
                     PROVE  /\ asked[k] \in {{}, {rules[k].direction}}
                            /\ asked[k] = {} => ~ CopyInterest(rules[k].name, v)
                            /\ asked[k] # {} /\ rules[k].name \in {1, 3} =>
                                  RoomFor(rules[k].name, v)
            BY <2>2, <2>7 DEF Asks
        <3>1. CASE k = n + 1
            BY <2>2, <2>4, <2>5, <2>6, <2>7, <3>1
        <3>2. CASE k # n + 1
            <4>1. k \in 1 .. n
                BY <1>3, <3>2
            <4> QED BY <1>1, <2>2, <2>7, <3>2, <4>1 DEF Asks
        <3> QED BY <3>1, <3>2
    <2>9. /\ next.w = v /\ next.rules = rules /\ next.asked = asked
          /\ next = [w |-> next.w, rules |-> next.rules, asked |-> next.asked]
        BY <1>1, <2>1
    <2> QED BY <1>1, <2>2, <2>8, <2>9 DEF ArrangeInv, next, rule
<1> QED BY <1>4, <1>5

\* All rules are arranged.
LEMMA ArrangedIs ==
    ASSUME NEW v, NEW u, NEW f, NEW rules, IsRules(rules),
           Sound(v, u, f), Ruled(v, Names(rules), u, f)
    PROVE  LET arranged == EventLoop!Arranged(rules, v)
           IN  /\ Sound(arranged.w, u, f) /\ Untouched(arranged.w, v)
               /\ IsRules(arranged.rules)
               /\ Ruled(arranged.w, Names(arranged.rules), u, f)
               /\ Asks(arranged.asked, arranged.rules, arranged.w)
<1> DEFINE c == [rules |-> rules, w |-> v, user |-> u, far |-> f]
           base == [w |-> v, rules |-> <<>>, asked |-> <<>>]
           n == Len(rules)
<1>1. n \in Nat /\ DOMAIN rules = 1 .. n /\ c.rules = rules
    BY RulesFacts
<1>2. ArrangeInv(c, 0, base)
    <2>1. Ordered(<<>>, rules, 0) /\ Left(<<>>, rules, 0) = Names(rules)
        BY NoneKept
    <2>2. Asks(<<>>, <<>>, v)
        BY DEF Asks
    <2>3. Untouched(v, v)
        BY DEF Untouched
    <2> QED BY <2>1, <2>2, <2>3 DEF ArrangeInv
<1>3. ASSUME NEW i \in 1 .. n, NEW acc, ArrangeInv(c, i - 1, acc)
      PROVE  ArrangeInv(c, i, EventLoop!ArrangeRule(acc, rules[i]))
    <2>1. i \in 1 .. Len(c.rules)
        BY <1>1
    <2> HIDE DEF c
    <2> QED BY <1>1, <1>3, <2>1, ArrangeStep
<1>4. EventLoop!Arranged(rules, v) = Arranging!Fold(base, rules)
    BY DEF EventLoop!Arranged, Arranging!Fold, Arranging!FoldLeft,
           Arranging!MapThenFoldSet, Arranging!Max, EventLoop!FoldLeft,
           EventLoop!MapThenFoldSet, EventLoop!Max
<1>5. ArrangeInv(c, n, Arranging!Fold(base, rules))
    <2> HIDE DEF c, base, n
    <2> QED BY <1>1, <1>2, <1>3, Arranging!FoldInvariant
<1> DEFINE arranged == EventLoop!Arranged(rules, v)
<1>6. /\ Sound(arranged.w, u, f) /\ Untouched(arranged.w, v)
      /\ Ordered(arranged.rules, rules, n)
      /\ Ruled(arranged.w, Left(arranged.rules, rules, n), u, f)
      /\ Asks(arranged.asked, arranged.rules, arranged.w)
    BY <1>4, <1>5 DEF ArrangeInv
<1> HIDE DEF arranged
<1>7. IsRules(arranged.rules) /\ Left(arranged.rules, rules, n) = Names(arranged.rules)
    BY <1>6, AllLooked
<1> QED BY <1>6, <1>7 DEF arranged
-----------------------------------------------------------------------------
(* After poll *)

\* What poll says of a rule
Reported(v, rule, asked) == CopyStatus(rule.fd, v) \cap ({"ERR", "HUP"} \cup asked)

\* It is true when poll says so.
LEMMA PollSays ==
    ASSUME NEW v, NEW u, NEW f, Sound(v, u, f), NEW rule \in AnyRule,
           NEW asked, asked \in {{}, {rule.direction}},
           asked # {} /\ rule.name \in {1, 3} => RoomFor(rule.name, v)
    PROVE  PollHolds(v, u, f, rule, asked, Reported(v, rule, asked))
<1> DEFINE status == CopyStatus(rule.fd, v)
           revents == status \cap ({"ERR", "HUP"} \cup asked)
<1>1. /\ rule.name \in 1 .. 4
      /\ rule.name = 1 => rule.fd = "input" /\ rule.direction = "IN"
      /\ rule.name = 2 => rule.fd = "socket" /\ rule.direction = "OUT"
      /\ rule.name = 3 => rule.fd = "socket" /\ rule.direction = "IN"
      /\ rule.name = 4 => rule.fd = "output" /\ rule.direction = "OUT"
    BY RuleIs
<1>2. /\ v.stdout.shut => u.left
      /\ v.to_socket.shut => v.outbound_shutdown \/ f.left
    BY DEF Sound
<1>3. CASE rule.name = 1
    <2>1. /\ "ERR" \notin status
          /\ "HUP" \in status => v.stdin.shut
          /\ "IN" \in status <=> v.stdin.bytes # <<>>
        BY <1>1, <1>3 DEF CopyStatus
    <2> HIDE DEF status
    <2>2. EventLoop!HungUp(rule, asked, revents) => Exhausted(v.stdin)
        BY <1>1, <1>3, <2>1 DEF EventLoop!HungUp, Exhausted
    <2> QED BY <1>3, <2>1, <2>2 DEF PollHolds, Reported, status
<1>4. CASE rule.name = 2
    <2>1. /\ "ERR" \notin status
          /\ "HUP" \in status => v.to_socket.shut
          /\ "OUT" \in status => Len(v.to_socket.bytes) < Room
        BY <1>1, <1>4 DEF CopyStatus, SocketStatus
    <2> HIDE DEF status
    <2>2. EventLoop!HungUp(rule, asked, revents) => v.outbound_shutdown \/ f.left
        BY <1>2, <2>1 DEF EventLoop!HungUp
    <2>3. asked \cap revents # {} => RoomFor(2, v)
        BY <1>1, <1>4, <2>1 DEF RoomFor
    <2> QED BY <1>4, <2>1, <2>2, <2>3 DEF PollHolds, Reported, status
<1>5. CASE rule.name = 3
    <2>1. /\ "ERR" \notin status
          /\ "HUP" \in status => v.from_socket.shut
          /\ "IN" \in status <=> v.from_socket.bytes # <<>> \/ v.from_socket.shut
        BY <1>1, <1>5 DEF CopyStatus, SocketStatus
    <2> HIDE DEF status
    <2>2. ~ EventLoop!HungUp(rule, asked, revents)
        BY <1>1, <1>5, <2>1 DEF EventLoop!HungUp
    <2> QED BY <1>5, <2>1, <2>2 DEF PollHolds, Reported, status
<1>6. CASE rule.name = 4
    <2>1. /\ "ERR" \in status => v.stdout.shut
          /\ "HUP" \notin status
          /\ "OUT" \in status => Len(v.stdout.bytes) < Room
        BY <1>1, <1>6 DEF CopyStatus
    <2> HIDE DEF status
    <2>2. ~ EventLoop!HungUp(rule, asked, revents)
        BY <2>1 DEF EventLoop!HungUp
    <2>3. asked \cap revents # {} => RoomFor(4, v)
        BY <1>1, <1>6, <2>1 DEF RoomFor
    <2> QED BY <1>2, <1>6, <2>1, <2>2, <2>3 DEF PollHolds, Reported, status
<1> QED BY <1>1, <1>3, <1>4, <1>5, <1>6

\* Two steps forward are one.
LEMMA AdvancesOn ==
    ASSUME NEW v, NEW t, NEW old, Advances(v, old), Advances(t, v)
    PROVE  Advances(t, old)
<1> DEFINE a == Len(t.to_socket.bytes)
           b == Len(v.to_socket.bytes)
           c == Len(old.to_socket.bytes)
           d == Len(t.stdout.bytes)
           e == Len(v.stdout.bytes)
           g == Len(old.stdout.bytes)
<1>1. /\ a \in Nat /\ b \in Nat /\ c \in Nat /\ a >= b /\ b >= c
      /\ d \in Nat /\ e \in Nat /\ g \in Nat /\ d >= e /\ e >= g
    BY DEF Advances
<1> HIDE DEF a, b, c, d, e, g
<1>2. a >= c /\ d >= g
    BY <1>1
<1> QED BY <1>1, <1>2 DEF Advances, a, b, c, d, e, g

\* Closing byte streams moves no bytes.
LEMMA UntouchedAdvances ==
    ASSUME NEW v, NEW old, NEW u, NEW f, Sound(v, u, f), Untouched(v, old)
    PROVE  Advances(v, old)
<1>1. Advances(v, v)
    BY AdvancesSelf
<1> QED BY <1>1 DEF Advances, Untouched

\* What the first i results of poll were served to, from the state c.w
ServeInv(c, i, acc) ==
    /\ acc = [w |-> acc.w, rules |-> acc.rules, success |-> acc.success,
              polled |-> acc.polled]
    /\ acc.polled = c.loop /\ acc.success \in BOOLEAN
    /\ Sound(acc.w, c.user, c.far) /\ Advances(acc.w, c.w)
    /\ Ordered(acc.rules, c.loop.rules, i)
    /\ Ruled(acc.w, Left(acc.rules, c.loop.rules, i), c.user, c.far)
    /\ ~ acc.success => Untouched(acc.w, c.w)

Serving == INSTANCE FoldProofs WITH Op <- EventLoop!ServeRule, Inv <- ServeInv

\* A rule that an error or a hangup was reported for is dropped.
LEMMA ServeDrops ==
    ASSUME NEW c, NEW i \in 1 .. Len(c.loop.rules), NEW acc, NEW t,
           ServeInv(c, i - 1, acc), ~ acc.success, Sound(t, c.user, c.far),
           Ruled(t, Left(acc.rules, c.loop.rules, i - 1) \ {c.loop.rules[i].name},
                 c.user, c.far),
           Untouched(t, acc.w)
    PROVE  ServeInv(c, i, [acc EXCEPT !.w = t])
<1> DEFINE next == [acc EXCEPT !.w = t]
<1>1. /\ next.w = t /\ next.rules = acc.rules /\ next.success = acc.success
      /\ next.polled = acc.polled
      /\ next = [w |-> next.w, rules |-> next.rules, success |-> next.success,
                 polled |-> next.polled]
    BY DEF ServeInv
<1> HIDE DEF next
<1>2. /\ Ordered(acc.rules, c.loop.rules, i)
      /\ Left(acc.rules, c.loop.rules, i)
             = Left(acc.rules, c.loop.rules, i - 1) \ {c.loop.rules[i].name}
    BY DropRule DEF ServeInv
<1>3. Untouched(t, c.w)
    BY DEF Untouched, ServeInv
<1>4. Advances(t, c.w)
    BY <1>3, UntouchedAdvances
<1> QED BY <1>1, <1>2, <1>3, <1>4 DEF ServeInv, next

\* A rule is kept, and called if it is ready.
LEMMA ServeKeeps ==
    ASSUME NEW c, NEW i \in 1 .. Len(c.loop.rules), NEW acc, NEW t,
           NEW success \in BOOLEAN,
           ServeInv(c, i - 1, acc), Sound(t, c.user, c.far),
           Ruled(t, Left(acc.rules, c.loop.rules, i - 1), c.user, c.far),
           Advances(t, c.w), ~ success => Untouched(t, c.w)
    PROVE  ServeInv(c, i, [acc EXCEPT !.rules = Append(@, c.loop.rules[i]),
                                      !.success = success, !.w = t])
<1> DEFINE rules == Append(acc.rules, c.loop.rules[i])
           v1 == [acc EXCEPT !.rules = rules]
           v2 == [v1 EXCEPT !.success = success]
           next == [v2 EXCEPT !.w = t]
<1>1. /\ Ordered(rules, c.loop.rules, i)
      /\ Left(rules, c.loop.rules, i) = Left(acc.rules, c.loop.rules, i - 1)
    BY KeepRule DEF ServeInv
<1> HIDE DEF rules
<1>2. /\ next.w = t /\ next.rules = rules /\ next.success = success
      /\ next.polled = acc.polled
      /\ next = [w |-> next.w, rules |-> next.rules, success |-> next.success,
                 polled |-> next.polled]
    <2>1. v1 = [w |-> acc.w, rules |-> rules, success |-> acc.success,
                polled |-> acc.polled]
        BY DEF ServeInv
    <2> HIDE DEF v1
    <2>2. v2 = [w |-> acc.w, rules |-> rules, success |-> success,
                polled |-> acc.polled]
        BY <2>1
    <2> HIDE DEF v2
    <2>3. next = [w |-> t, rules |-> rules, success |-> success,
                  polled |-> acc.polled]
        BY <2>2
    <2> QED BY <2>3
<1> HIDE DEF next
<1>3. ServeInv(c, i, next)
    BY <1>1, <1>2 DEF ServeInv
<1> QED BY <1>3 DEF next, v2, v1, rules

\* One round of the loop through the results of poll
LEMMA ServeStep ==
    ASSUME NEW c, NEW i \in 1 .. Len(c.loop.rules), NEW acc, ServeInv(c, i - 1, acc),
           PollHolds(c.w, c.user, c.far, c.loop.rules[i], c.loop.asked[i],
                     c.loop.revents[i])
    PROVE  ServeInv(c, i, EventLoop!ServeRule(acc, i))
<1> DEFINE rule == c.loop.rules[i]
           asked == c.loop.asked[i]
           revents == c.loop.revents[i]
           ready == asked \cap revents # {}
           v == acc.w
           u == c.user
           f == c.far
           names == Left(acc.rules, c.loop.rules, i - 1)
           next == EventLoop!ServeRule(acc, i)
<1>1. /\ acc = [w |-> v, rules |-> acc.rules, success |-> acc.success,
                polled |-> c.loop]
      /\ acc.polled = c.loop /\ acc.success \in BOOLEAN
      /\ Sound(v, u, f) /\ Advances(v, c.w)
      /\ Ordered(acc.rules, c.loop.rules, i - 1) /\ Ruled(v, names, u, f)
      /\ ~ acc.success => Untouched(v, c.w)
    BY DEF ServeInv
<1>2. /\ rule \in AnyRule /\ rule.name \in 1 .. 4 /\ rule.name \in names
    <2>1. rule.name \in names
        BY <1>1, KeepRule
    <2> QED BY <1>1, <2>1, RulesFacts DEF Ordered
<1>3. CASE acc.success \/ revents = {}
    <2>1. next = [acc EXCEPT !.rules = Append(@, rule)]
        BY <1>1, <1>3 DEF EventLoop!ServeRule
    <2>2. [acc EXCEPT !.rules = Append(@, rule)]
             = [acc EXCEPT !.rules = Append(@, rule), !.success = acc.success, !.w = v]
        BY <1>1
    <2>3. ServeInv(c, i, [acc EXCEPT !.rules = Append(@, rule),
                                     !.success = acc.success, !.w = v])
        BY <1>1, ServeKeeps
    <2> QED BY <2>1, <2>2, <2>3
<1>4. CASE ~ acc.success /\ revents # {} /\ "ERR" \in revents
    <2> DEFINE e == CopyError(rule.name, v)
               t == CopyCancel(rule.name, e)
               more == [acc EXCEPT !.w = t]
    <2>1. next = more
        BY <1>1, <1>4 DEF EventLoop!ServeRule
    <2>2. rule.name = 4 /\ u.left
        BY <1>4 DEF PollHolds
    <2>3. Sound(e, u, f) /\ Ruled(e, names, u, f) /\ Untouched(e, v)
        BY <1>1, <2>2, ErrorKeeps
    <2> HIDE DEF e
    <2>4. MayGo(rule.name, e, u, f)
        BY <2>2 DEF MayGo
    <2>5. Sound(t, u, f) /\ Ruled(t, names \ {rule.name}, u, f) /\ Untouched(t, e)
        BY <1>2, <2>3, <2>4, CancelKeeps
    <2> HIDE DEF t
    <2>6. Untouched(t, v)
        BY <2>3, <2>5 DEF Untouched
    <2>7. ServeInv(c, i, more)
        BY <1>4, <2>5, <2>6, ServeDrops
    <2> HIDE DEF more, next
    <2> QED BY <2>1, <2>7 DEF next
<1>5. CASE ~ acc.success /\ revents # {} /\ "ERR" \notin revents
           /\ EventLoop!HungUp(rule, asked, revents)
    <2> DEFINE t == CopyCancel(rule.name, v)
               more == [acc EXCEPT !.w = t]
    <2>1. next = more
        BY <1>1, <1>5 DEF EventLoop!ServeRule
    <2>2. MayGo(rule.name, v, u, f)
        BY <1>1, <1>5 DEF PollHolds, MayGo, Untouched
    <2>3. Sound(t, u, f) /\ Ruled(t, names \ {rule.name}, u, f) /\ Untouched(t, v)
        BY <1>1, <1>2, <2>2, CancelKeeps
    <2> HIDE DEF t
    <2>4. ServeInv(c, i, more)
        BY <1>5, <2>3, ServeDrops
    <2> HIDE DEF more, next
    <2> QED BY <2>1, <2>4 DEF next
<1>6. CASE ~ acc.success /\ revents # {} /\ "ERR" \notin revents
           /\ ~ EventLoop!HungUp(rule, asked, revents)
    <2> DEFINE t == IF ready THEN EventLoop!Called(v, rule) ELSE v
               more == [acc EXCEPT !.rules = Append(@, rule), !.success = ready, !.w = t]
    <2>1. next = more
        BY <1>1, <1>6 DEF EventLoop!ServeRule
    <2> HIDE DEF next
    <2>2. CASE ready
        <3> DEFINE z == EventLoop!Called(v, rule)
        <3>1. RoomFor(rule.name, v)
            BY <1>1, <1>6, <2>2 DEF PollHolds, RoomFor, Untouched
        <3>2. Sound(z, u, f) /\ Ruled(z, names, u, f) /\ Advances(z, v)
            BY <1>1, <1>2, <3>1, CalledKeeps
        <3>3. t = z
            BY <2>2
        <3> HIDE DEF z, t
        <3>4. Advances(z, c.w)
            BY <1>1, <3>2, AdvancesOn
        <3>5. Sound(t, u, f) /\ Ruled(t, names, u, f) /\ Advances(t, c.w)
            BY <3>2, <3>3, <3>4
        <3>6. ready \in BOOLEAN
            OBVIOUS
        <3>7. ready
            BY <2>2
        <3> HIDE DEF ready
        <3>8. ServeInv(c, i, more)
            BY <3>5, <3>6, <3>7, ServeKeeps
        <3> HIDE DEF more
        <3> QED BY <2>1, <3>8 DEF next
    <2>3. CASE ~ ready
        <3>1. t = v
            BY <2>3
        <3>2. ready \in BOOLEAN
            OBVIOUS
        <3> HIDE DEF ready, t
        <3>3. ServeInv(c, i, more)
            BY <1>1, <1>6, <3>1, <3>2, ServeKeeps
        <3> HIDE DEF more
        <3> QED BY <2>1, <3>3 DEF next
    <2> QED BY <2>2, <2>3
<1> QED BY <1>1, <1>3, <1>4, <1>5, <1>6

\* All results of poll are served.
LEMMA ServedIs ==
    ASSUME NEW v, NEW u, NEW f, NEW polled, IsRules(polled.rules),
           Sound(v, u, f), Ruled(v, Names(polled.rules), u, f),
           \A i \in 1 .. Len(polled.rules) :
               PollHolds(v, u, f, polled.rules[i], polled.asked[i], polled.revents[i])
    PROVE  LET served == EventLoop!Served(polled, v)
           IN  /\ Sound(served.w, u, f) /\ Advances(served.w, v)
               /\ IsRules(served.rules)
               /\ Ruled(served.w, Names(served.rules), u, f)
<1> DEFINE c == [loop |-> polled, w |-> v, user |-> u, far |-> f]
           base == [w |-> v, rules |-> <<>>, success |-> FALSE, polled |-> polled]
           n == Len(polled.rules)
           s == [i \in DOMAIN polled.rules |-> i]
<1>1. /\ n \in Nat /\ DOMAIN polled.rules = 1 .. n /\ c.loop = polled
      /\ DOMAIN s = 1 .. n /\ \A i \in 1 .. n : s[i] = i
    BY RulesFacts
<1>2. ServeInv(c, 0, base)
    <2>1. Ordered(<<>>, polled.rules, 0)
          /\ Left(<<>>, polled.rules, 0) = Names(polled.rules)
        BY NoneKept
    <2>2. Untouched(v, v)
        BY DEF Untouched
    <2>3. Advances(v, v)
        BY AdvancesSelf
    <2> QED BY <2>1, <2>2, <2>3 DEF ServeInv
<1>3. ASSUME NEW i \in 1 .. n, NEW acc, ServeInv(c, i - 1, acc)
      PROVE  ServeInv(c, i, EventLoop!ServeRule(acc, s[i]))
    <2>1. i \in 1 .. Len(c.loop.rules) /\ s[i] = i
        BY <1>1
    <2>2. PollHolds(c.w, c.user, c.far, c.loop.rules[i], c.loop.asked[i],
                    c.loop.revents[i])
        OBVIOUS
    <2> HIDE DEF c, s
    <2> QED BY <1>3, <2>1, <2>2, ServeStep
<1>4. EventLoop!Served(polled, v) = Serving!Fold(base, s)
    BY DEF EventLoop!Served, Serving!Fold, Serving!FoldLeft,
           Serving!MapThenFoldSet, Serving!Max, EventLoop!FoldLeft,
           EventLoop!MapThenFoldSet, EventLoop!Max
<1>5. ServeInv(c, n, Serving!Fold(base, s))
    <2> HIDE DEF c, base, n, s
    <2> QED BY <1>1, <1>2, <1>3, Serving!FoldInvariant
<1> DEFINE served == EventLoop!Served(polled, v)
<1>6. /\ Sound(served.w, u, f) /\ Advances(served.w, v)
      /\ Ordered(served.rules, polled.rules, n)
      /\ Ruled(served.w, Left(served.rules, polled.rules, n), u, f)
    BY <1>4, <1>5 DEF ServeInv
<1> HIDE DEF served
<1>7. IsRules(served.rules) /\ Left(served.rules, polled.rules, n) = Names(served.rules)
    BY <1>6, AllLooked
<1> QED BY <1>6, <1>7 DEF served
-----------------------------------------------------------------------------
(* The steps of the loop *)

\* A byte stream that nothing is done about, neither to fill nor to drain it, is
\* at its end.
LEMMA QuietIsFinished ==
    ASSUME NEW stream, IsBuffer(stream), ~ (BytesBuffered(stream) > 0),
           AvailableCapacity(stream) > 0 => stream.stream_closed
    PROVE  IsFinished(stream)
<1>1. stream.buffer \in Seq(Nat) /\ stream.capacity = buffer_size
    BY DEF IsBuffer
<1>2. Len(stream.buffer) \in Nat
    BY <1>1, EmptyIff
<1>3. stream.buffer = <<>> /\ Len(stream.buffer) = 0
    <2>1. ~ (Len(stream.buffer) > 0)
        BY BufferedIs
    <2> QED BY <1>2, <2>1, BufferedIs
<1>4. AvailableCapacity(stream) > 0
    BY <1>1, <1>3, Sizes DEF AvailableCapacity
<1> QED BY <1>3, <1>4, BufferedIs

\* No rule is interested.
LEMMA ExitHolds ==
    ASSUME NEW v, NEW u, NEW f, NEW rules, NEW asked, IsRules(rules),
           Sound(v, u, f), Ruled(v, Names(rules), u, f), Asks(asked, rules, v),
           \A k \in DOMAIN asked : asked[k] = {}
    PROVE  u.left \/ f.left \/ (v.outbound_shutdown /\ "output" \in v.closed)
<1> SUFFICES ASSUME ~ u.left, ~ f.left
             PROVE  v.outbound_shutdown /\ "output" \in v.closed
    OBVIOUS
<1>1. ~ HasError(v.outbound) /\ ~ HasError(v.inbound)
    BY DEF Sound, HasError
<1>2. \A name \in Names(rules) : ~ CopyInterest(name, v)
    <2>1. DOMAIN asked = 1 .. Len(rules)
        BY RulesFacts, LenProperties DEF Asks
    <2> QED BY <2>1 DEF Asks, Names
<1>3. v.outbound_shutdown
    <2> SUFFICES ASSUME ~ (v.outbound_shutdown) PROVE FALSE
        OBVIOUS
    <2>1. 2 \in Names(rules)
        BY DEF Ruled, Tied
    <2>2. ~ v.outbound_shutdown
        BY DEF Sound
    <2>3. ~ (BytesBuffered(v.outbound) > 0) /\ ~ IsFinished(v.outbound)
        <3>1. ~ CopyInterest(2, v)
            BY <1>2, <2>1
        <3>2. ~ MayDrain(v, "outbound", v.outbound_shutdown)
            BY <3>1 DEF CopyInterest
        <3> QED BY <2>2, <3>2 DEF MayDrain
    <2>4. AvailableCapacity(v.outbound) > 0 => v.outbound.stream_closed
        <3>1. CASE 1 \in Names(rules)
            <4>1. ~ CopyInterest(1, v)
                BY <1>2, <3>1
            <4>2. ~ MayFill(v, "outbound")
                BY <4>1 DEF CopyInterest
            <4> QED BY <1>1, <4>2 DEF MayFill, IsClosed
        <3>2. CASE 1 \notin Names(rules)
            BY <3>2 DEF Ruled, Tied
        <3> QED BY <3>1, <3>2
    <2>5. IsBuffer(v.outbound)
        BY DEF Sound, Carries
    <2> QED BY <2>3, <2>4, <2>5, QuietIsFinished
<1>4. "output" \in v.closed
    <2> SUFFICES ASSUME ~ ("output" \in v.closed) PROVE FALSE
        OBVIOUS
    <2>1. 4 \in Names(rules)
        BY DEF Ruled, Tied
    <2>2. ~ v.inbound_shutdown
        BY DEF Sound
    <2>3. ~ (BytesBuffered(v.inbound) > 0) /\ ~ IsFinished(v.inbound)
        <3>1. ~ CopyInterest(4, v)
            BY <1>2, <2>1
        <3>2. ~ MayDrain(v, "inbound", v.inbound_shutdown)
            BY <3>1 DEF CopyInterest
        <3> QED BY <2>2, <3>2 DEF MayDrain
    <2>4. AvailableCapacity(v.inbound) > 0 => v.inbound.stream_closed
        <3>1. CASE 3 \in Names(rules)
            <4>1. ~ CopyInterest(3, v)
                BY <1>2, <3>1
            <4>2. ~ MayFill(v, "inbound")
                BY <4>1 DEF CopyInterest
            <4> QED BY <1>1, <4>2 DEF MayFill, IsClosed
        <3>2. CASE 3 \notin Names(rules)
            BY <3>2 DEF Ruled, Tied
        <3> QED BY <3>1, <3>2
    <2>5. IsBuffer(v.inbound)
        BY DEF Sound, Carries
    <2> QED BY <2>3, <2>4, <2>5, QuietIsFinished
<1> QED BY <1>3, <1>4

\* The first half of wait_next_event: what poll then says is true.
LEMMA PollKeeps ==
    ASSUME IInv, Poll
    PROVE  IInv' /\ Sound(w', user, far) /\ Advances(w', w)
<1> DEFINE arranged == Arranged
<1>1. /\ IsParty(user) /\ IsParty(far) /\ Sound(w, user, far) /\ IsRules(loop.rules)
      /\ Ruled(w, Names(loop.rules), user, far) /\ user' = user /\ far' = far
    BY DEF IInv, Poll
<1>2. /\ w' = arranged.w
      /\ loop' = [at |-> "serve", rules |-> arranged.rules,
                  asked |-> arranged.asked, revents |-> EventLoop!Polled(arranged)]
    BY DEF Poll, PollAfter
<1>3. /\ Sound(arranged.w, user, far) /\ Untouched(arranged.w, w)
      /\ IsRules(arranged.rules)
      /\ Ruled(arranged.w, Names(arranged.rules), user, far)
      /\ Asks(arranged.asked, arranged.rules, arranged.w)
    BY <1>1, ArrangedIs DEF Arranged
<1> HIDE DEF arranged
<1>4. Advances(arranged.w, w)
    BY <1>3, UntouchedAdvances
<1>5. ASSUME NEW i \in 1 .. Len(arranged.rules)
      PROVE  PollHolds(arranged.w, user, far, arranged.rules[i], arranged.asked[i],
                       EventLoop!Polled(arranged)[i])
    <2> DEFINE rule == arranged.rules[i]
               asked == arranged.asked[i]
    <2>1. rule \in AnyRule /\ i \in DOMAIN arranged.rules
        BY <1>3, RulesFacts
    <2>2. /\ asked \in {{}, {rule.direction}}
          /\ asked # {} /\ rule.name \in {1, 3} => RoomFor(rule.name, arranged.w)
        BY <1>3 DEF Asks
    <2>3. EventLoop!Polled(arranged)[i]
             = Reported(arranged.w, rule, asked)
        BY <2>1 DEF EventLoop!Polled, Reported
    <2> HIDE DEF rule, asked
    <2>4. PollHolds(arranged.w, user, far, rule, asked,
                    Reported(arranged.w, rule, asked))
        BY <1>3, <2>1, <2>2, PollSays
    <2> QED BY <2>3, <2>4 DEF rule, asked
<1>6. IInv'
    <2> DEFINE revents == EventLoop!Polled(arranged)
    <2> HIDE DEF revents
    <2>1. /\ loop'.at = "serve" /\ loop'.rules = arranged.rules
          /\ loop'.asked = arranged.asked /\ loop'.revents = revents
          /\ loop' = [at |-> loop'.at, rules |-> loop'.rules, asked |-> loop'.asked,
                      revents |-> loop'.revents]
        BY <1>2 DEF revents
    <2>2. \A i \in 1 .. Len(loop'.rules) :
              PollHolds(w', user', far', loop'.rules[i], loop'.asked[i],
                        loop'.revents[i])
        BY <1>1, <1>2, <1>5, <2>1 DEF revents
    <2> QED BY <1>1, <1>2, <1>3, <2>1, <2>2 DEF IInv
<1> QED BY <1>2, <1>3, <1>4, <1>6

\* The second half of wait_next_event, which acts on what poll said
LEMMA ServeHolds ==
    ASSUME IInv, Serve
    PROVE  IInv' /\ Sound(w', user, far) /\ Advances(w', w)
<1> DEFINE served == EventLoop!Served(loop, w)
<1>1. /\ IsParty(user) /\ IsParty(far) /\ Sound(w, user, far) /\ IsRules(loop.rules)
      /\ Ruled(w, Names(loop.rules), user, far) /\ user' = user /\ far' = far
      /\ \A i \in 1 .. Len(loop.rules) :
            PollHolds(w, user, far, loop.rules[i], loop.asked[i], loop.revents[i])
    BY DEF IInv, Serve
<1>2. /\ w' = served.w
      /\ loop' = [at |-> "poll", rules |-> served.rules, asked |-> <<>>,
                  revents |-> <<>>]
    BY DEF Serve, ServeAfter
<1>3. /\ Sound(served.w, user, far) /\ Advances(served.w, w)
      /\ IsRules(served.rules)
      /\ Ruled(served.w, Names(served.rules), user, far)
    BY <1>1, ServedIs
<1> HIDE DEF served
<1>4. /\ loop'.at = "poll" /\ loop'.rules = served.rules
      /\ loop' = [at |-> loop'.at, rules |-> loop'.rules, asked |-> loop'.asked,
                  revents |-> loop'.revents]
    BY <1>2
<1> QED BY <1>1, <1>2, <1>3, <1>4 DEF IInv

\* wait_next_event finds no rule that is interested in anything.
LEMMA ExitKeeps ==
    ASSUME IInv, Exit
    PROVE  IInv' /\ Sound(w', user, far) /\ Advances(w', w)
<1> DEFINE arranged == Arranged
<1>1. /\ IsParty(user) /\ IsParty(far) /\ Sound(w, user, far) /\ IsRules(loop.rules)
      /\ Ruled(w, Names(loop.rules), user, far) /\ user' = user /\ far' = far
      /\ loop = [at |-> loop.at, rules |-> loop.rules, asked |-> loop.asked,
                 revents |-> loop.revents]
    BY DEF IInv, Exit
<1>2. /\ w' = arranged.w /\ loop' = [loop EXCEPT !.at = "exit"]
      /\ \A k \in DOMAIN arranged.asked : arranged.asked[k] = {}
    BY DEF Exit, ExitAfter, EventLoop!NothingToPoll
<1>3. /\ Sound(arranged.w, user, far) /\ Untouched(arranged.w, w)
      /\ IsRules(arranged.rules)
      /\ Ruled(arranged.w, Names(arranged.rules), user, far)
      /\ Asks(arranged.asked, arranged.rules, arranged.w)
    BY <1>1, ArrangedIs DEF Arranged
<1> HIDE DEF arranged
<1>4. Advances(arranged.w, w)
    BY <1>3, UntouchedAdvances
<1>5. user.left \/ far.left
      \/ (arranged.w.outbound_shutdown /\ "output" \in arranged.w.closed)
    BY <1>2, <1>3, ExitHolds
<1>6. /\ loop'.at = "exit" /\ loop'.rules = loop.rules
      /\ loop' = [at |-> loop'.at, rules |-> loop'.rules, asked |-> loop'.asked,
                  revents |-> loop'.revents]
    BY <1>1, <1>2
<1>7. IInv'
    BY <1>1, <1>2, <1>3, <1>5, <1>6 DEF IInv
<1> QED BY <1>2, <1>3, <1>4, <1>7
-----------------------------------------------------------------------------
(* The steps of the user and of the far end of the socket *)

\* What the others change behind the back of the loop only adds to what is known:
\* an end stays an end, who left stays away, and there is no less room.
Later(v, u, f, v0, u0, f0) ==
    /\ Exhausted(v0.stdin) => Exhausted(v.stdin)
    /\ Exhausted(v0.from_socket) => Exhausted(v.from_socket)
    /\ v.outbound = v0.outbound /\ v.inbound = v0.inbound
    /\ v.outbound_shutdown = v0.outbound_shutdown /\ v.closed = v0.closed
    /\ u0.left => u.left
    /\ f0.left => f.left
    /\ Len(v0.to_socket.bytes) < Room => Len(v.to_socket.bytes) < Room
    /\ Len(v0.stdout.bytes) < Room => Len(v.stdout.bytes) < Room

\* The steps of the abstract streams
UploadStep == [Upload!Next]_(Upload!vars)

DownloadStep == [Download!Next]_(Download!vars)

\* What a step of the others keeps
Outside ==
    /\ IsParty(user') /\ IsParty(far') /\ Sound(w', user', far')
    /\ Later(w', user', far', w, user, far)
    /\ loop' = loop
    /\ UploadStep /\ DownloadStep

\* What the loop knows of its rules and of the results of poll remains true.
LEMMA OutsideKeeps ==
    ASSUME IInv, Outside
    PROVE  IInv'
<1>1. /\ Later(w', user', far', w, user, far) /\ loop' = loop
      /\ IsParty(user') /\ IsParty(far') /\ Sound(w', user', far')
    BY DEF Outside
<1>2. ASSUME NEW names, Ruled(w, names, user, far)
      PROVE  Ruled(w', names, user', far')
    BY <1>1, <1>2 DEF Ruled, Tied, Later
<1>3. ASSUME NEW rule, NEW asked, NEW revents,
             PollHolds(w, user, far, rule, asked, revents)
      PROVE  PollHolds(w', user', far', rule, asked, revents)
    <2>1. RoomFor(rule.name, w) => RoomFor(rule.name, w')
        BY <1>1 DEF RoomFor, Later
    <2> QED BY <1>1, <1>3, <2>1 DEF PollHolds, Later
<1>4. loop.at # "exit" => Ruled(w', Names(loop.rules), user', far')
    BY <1>2 DEF IInv
<1>5. loop.at = "serve" =>
          \A i \in 1 .. Len(loop.rules) :
              PollHolds(w', user', far', loop.rules[i], loop.asked[i], loop.revents[i])
    BY <1>3 DEF IInv
<1>6. loop.at = "exit" =>
          user'.left \/ far'.left \/ (w'.outbound_shutdown /\ "output" \in w'.closed)
    BY <1>1 DEF IInv, Later
<1>7. /\ loop = [at |-> loop.at, rules |-> loop.rules, asked |-> loop.asked,
                 revents |-> loop.revents]
      /\ loop.at \in {"poll", "serve", "exit"} /\ IsRules(loop.rules)
    BY DEF IInv
<1> QED BY <1>1, <1>4, <1>5, <1>6, <1>7 DEF IInv

\* Only the streams of the kernel change.
OnlyStreams(v, old) ==
    /\ HasFields(v)
    /\ \A g \in FieldNames \ {"stdin", "to_socket", "from_socket", "stdout"} :
          v[g] = old[g]

\* These streams still carry what they should.
StillCarries(v, u, f, v0, u0, f0) ==
    /\ OnlyStreams(v, v0)
    /\ Carries(v.stdin, v0.outbound, v.to_socket, u.wrote, f.got,
               "input" \in v0.eof, v0.outbound_shutdown)
    /\ Carries(v.from_socket, v0.inbound, v.stdout, f.wrote, u.got,
               "socket" \in v0.eof, "output" \in v0.closed)
    /\ u0.left => u.left
    /\ f0.left => f.left
    /\ v.stdout.shut => u.left
    /\ v.to_socket.shut => v0.outbound_shutdown \/ f.left
    /\ Exhausted(v0.stdin) => Exhausted(v.stdin)
    /\ Exhausted(v0.from_socket) => Exhausted(v.from_socket)
    /\ Len(v0.to_socket.bytes) < Room => Len(v.to_socket.bytes) < Room
    /\ Len(v0.stdout.bytes) < Room => Len(v.stdout.bytes) < Room

\* A step outside the process keeps its streams sound when each still carries the same
\* copy, and leaves what poll said true.
LEMMA StreamsChange ==
    ASSUME NEW v0, NEW u0, NEW f0, NEW v, NEW u, NEW f,
           Sound(v0, u0, f0), StillCarries(v, u, f, v0, u0, f0)
    PROVE  /\ Sound(v, u, f) /\ Later(v, u, f, v0, u0, f0)
           /\ v.outbound_shutdown = v0.outbound_shutdown /\ v.closed = v0.closed
<1>1. /\ v.outbound = v0.outbound /\ v.inbound = v0.inbound
      /\ v.outbound_shutdown = v0.outbound_shutdown
      /\ v.inbound_shutdown = v0.inbound_shutdown /\ v.eof = v0.eof
      /\ v.closed = v0.closed /\ v.serviced = v0.serviced /\ v.failed = v0.failed
      /\ HasFields(v)
    BY DEF StillCarries, OnlyStreams, FieldNames
<1>2. IsProcess(v)
    BY <1>1 DEF Sound, IsProcess
<1>3. Sound(v, u, f)
    BY <1>1, <1>2 DEF Sound, StillCarries
<1>4. Later(v, u, f, v0, u0, f0)
    BY <1>1 DEF Later, StillCarries
<1> QED BY <1>1, <1>3, <1>4

\* One of these streams changes to x.
StreamIs(v, old, name, x) ==
    /\ OnlyStreams(v, old) /\ v[name] = x
    /\ \A g \in {"stdin", "to_socket", "from_socket", "stdout"} \ {name} :
          v[g] = old[g]

\* One of the kernel's streams changes, and nothing else of the process.
LEMMA OneStream ==
    ASSUME NEW v, HasFields(v), NEW x,
           NEW name \in {"stdin", "to_socket", "from_socket", "stdout"}
    PROVE  StreamIs([v EXCEPT ![name] = x], v, name, x)
<1> DEFINE t == [v EXCEPT ![name] = x]
<1>1. /\ HasFields(t) /\ t[name] = x
      /\ \A g \in FieldNames \ {name} : t[g] = v[g]
    BY SetOne, Fields
<1> HIDE DEF t
<1> QED BY <1>1 DEF StreamIs, OnlyStreams, FieldNames, t

\* What the invariant says of the streams
LEMMA Streams ==
    ASSUME IInv
    PROVE  /\ IsParty(user) /\ IsParty(far) /\ Sound(w, user, far) /\ HasFields(w)
           /\ Carries(w.stdin, w.outbound, w.to_socket, user.wrote, far.got,
                      "input" \in w.eof, w.outbound_shutdown)
           /\ Carries(w.from_socket, w.inbound, w.stdout, far.wrote, user.got,
                      "socket" \in w.eof, "output" \in w.closed)
           /\ w.stdout.shut => user.left
           /\ w.to_socket.shut => w.outbound_shutdown \/ far.left
           /\ IsStream(w.stdin) /\ IsStream(w.to_socket)
           /\ IsStream(w.from_socket) /\ IsStream(w.stdout)
BY DEF IInv, Sound, IsProcess, Carries

\* The user writes what the next bytes of the stream are.
LEMMA UserWriteIs ==
    ASSUME IInv, NEW len \in 1 .. UserBytes, UserWrite(len)
    PROVE  Outside
<1> DEFINE s == AfterWrite(w.stdin, NextBytes(user.wrote, len))
           t == [w EXCEPT !.stdin = s]
           eof == "input" \in w.eof
           shown == w.outbound_shutdown
<1>1. /\ IsParty(user) /\ IsParty(far) /\ Sound(w, user, far) /\ HasFields(w)
      /\ Carries(w.stdin, w.outbound, w.to_socket, user.wrote, far.got, eof,
              shown)
      /\ IsStream(w.stdin)
    BY Streams
<1>2. /\ ~ w.stdin.shut /\ len <= Room - Len(w.stdin.bytes) /\ w' = t
      /\ user' = [user EXCEPT !.wrote = @ + len] /\ loop' = loop /\ far' = far
    BY DEF UserWrite
<1>3. /\ IsParty(user') /\ user'.wrote = user.wrote + len /\ user'.got = user.got
      /\ user'.left = user.left
    BY <1>1, <1>2 DEF IsParty
<1>4. user.wrote \in Nat /\ len \in Nat /\ len > 0
    BY <1>1, CopyAssumption DEF Carries
<1>5. Carries(s, w.outbound, w.to_socket, user.wrote + len, far.got, eof,
        shown)
    <2> HIDE DEF eof, shown
    <2> QED BY <1>1, <1>2, <1>4, WriterCarries
<1>6. s.shut = w.stdin.shut
    BY <1>1, ShutKept
<1> HIDE DEF s
<1>7. /\ OnlyStreams(t, w) /\ t.stdin = s /\ t.to_socket = w.to_socket
      /\ t.from_socket = w.from_socket /\ t.stdout = w.stdout
    <2>1. StreamIs(t, w, "stdin", s)
        BY <1>1, OneStream
    <2> HIDE DEF t
    <2> QED BY <2>1 DEF StreamIs
<1> HIDE DEF t
<1>8. /\ Sound(t, user', far) /\ Later(t, user', far, w, user, far)
      /\ t.outbound_shutdown = w.outbound_shutdown /\ t.closed = w.closed
    <2>1. ~ Exhausted(w.stdin)
        BY <1>2 DEF Exhausted
    <2>2. StillCarries(t, user', far, w, user, far)
        BY <1>3, <1>5, <1>7, <2>1, Streams DEF StillCarries
    <2> QED BY <1>1, <2>2, StreamsChange
<1>9. UploadStep
    <2>1. user'.wrote \in Nat /\ user'.wrote > user.wrote
        BY <1>3, <1>4
    <2>2. w.stdin.shut = FALSE
        BY <1>1, <1>2 DEF IsStream
    <2> QED BY <1>2, <1>6, <1>7, <1>8, <2>1, <2>2
            DEF UploadStep, Upload!Next, Upload!Write, Upload!vars
<1>10. DownloadStep
    BY <1>2, <1>3, <1>7, <1>8 DEF DownloadStep, Download!vars
<1> QED BY <1>1, <1>2, <1>3, <1>8, <1>9, <1>10 DEF Outside

\* The user closes standard input.
LEMMA UserCloseIs ==
    ASSUME IInv, UserClose
    PROVE  Outside
<1> DEFINE s == ShutStream(w.stdin)
           t == [w EXCEPT !.stdin = s]
           eof == "input" \in w.eof
           shown == w.outbound_shutdown
<1>1. /\ IsParty(user) /\ IsParty(far) /\ Sound(w, user, far) /\ HasFields(w)
      /\ Carries(w.stdin, w.outbound, w.to_socket, user.wrote, far.got, eof,
              shown)
      /\ IsStream(w.stdin)
    BY Streams
<1>2. w' = t /\ loop' = loop /\ user' = user /\ far' = far
    BY DEF UserClose
<1>3. Carries(s, w.outbound, w.to_socket, user.wrote, far.got, eof,
        shown)
    <2> HIDE DEF eof, shown
    <2> QED BY <1>1, CloseCarries
<1>4. s.bytes = w.stdin.bytes /\ s.shut = TRUE
    BY <1>1, ShutKept
<1> HIDE DEF s
<1>5. /\ OnlyStreams(t, w) /\ t.stdin = s /\ t.to_socket = w.to_socket
      /\ t.from_socket = w.from_socket /\ t.stdout = w.stdout
    <2>1. StreamIs(t, w, "stdin", s)
        BY <1>1, OneStream
    <2> HIDE DEF t
    <2> QED BY <2>1 DEF StreamIs
<1> HIDE DEF t
<1>6. /\ Sound(t, user, far) /\ Later(t, user, far, w, user, far)
      /\ t.outbound_shutdown = w.outbound_shutdown /\ t.closed = w.closed
    <2>1. Exhausted(w.stdin) => Exhausted(s)
        BY <1>4 DEF Exhausted
    <2>2. StillCarries(t, user, far, w, user, far)
        BY <1>3, <1>5, <2>1, Streams DEF StillCarries
    <2> QED BY <1>1, <2>2, StreamsChange
<1>7. UploadStep
    BY <1>2, <1>4, <1>5, <1>6
       DEF UploadStep, Upload!Next, Upload!Finish, Upload!vars
<1>8. DownloadStep
    BY <1>2, <1>5, <1>6 DEF DownloadStep, Download!vars
<1> QED BY <1>1, <1>2, <1>6, <1>7, <1>8 DEF Outside

\* The user reads some of what was copied.
LEMMA UserReadIs ==
    ASSUME IInv, UserRead
    PROVE  Outside
<1> DEFINE n == ReadLength(w.stdout, 0)
           s == AfterRead(w.stdout, 0)
           t == [w EXCEPT !.stdout = s]
           eof == "socket" \in w.eof
           shown == "output" \in w.closed
<1>1. /\ IsParty(user) /\ IsParty(far) /\ Sound(w, user, far) /\ HasFields(w)
      /\ Carries(w.from_socket, w.inbound, w.stdout, far.wrote, user.got, eof,
              shown)
      /\ Len(w.stdout.bytes) \in Nat /\ Room \in Nat
    BY Streams, CarriesFacts, Sizes
<1>2. /\ w' = t /\ user' = [user EXCEPT !.got = @ + n] /\ loop' = loop /\ far' = far
    BY DEF UserRead
<1>3. /\ IsParty(user') /\ user'.wrote = user.wrote /\ user'.got = user.got + n
      /\ user'.left = user.left
    BY <1>1, <1>2 DEF IsParty
<1>4. /\ Carries(w.from_socket, w.inbound, s, far.wrote, user.got + n, eof,
              shown)
      /\ user.got + n + Len(s.bytes) = user.got + Len(w.stdout.bytes)
      /\ Len(s.bytes) <= Len(w.stdout.bytes) /\ s.shut = w.stdout.shut
    <2> HIDE DEF eof, shown
    <2> QED BY <1>1, ReaderCarries
<1>5. Len(w.stdout.bytes) < Room => Len(s.bytes) < Room
    <2>1. IsStream(s)
        BY <1>4 DEF Carries
    <2>2. Len(s.bytes) \in Nat
        BY <2>1, EmptyIff DEF IsStream
    <2> QED BY <1>1, <1>4, <2>2
<1> HIDE DEF s, n
<1>6. /\ OnlyStreams(t, w) /\ t.stdout = s /\ t.stdin = w.stdin
      /\ t.to_socket = w.to_socket /\ t.from_socket = w.from_socket
    <2>1. StreamIs(t, w, "stdout", s)
        BY <1>1, OneStream
    <2> HIDE DEF t
    <2> QED BY <2>1 DEF StreamIs
<1> HIDE DEF t
<1>7. /\ Sound(t, user', far) /\ Later(t, user', far, w, user, far)
      /\ t.outbound_shutdown = w.outbound_shutdown /\ t.closed = w.closed
    <2>1. StillCarries(t, user', far, w, user, far)
        BY <1>3, <1>4, <1>5, <1>6, Streams DEF StillCarries
    <2> QED BY <1>1, <2>1, StreamsChange
<1>8. DownloadStep
    BY <1>2, <1>3, <1>4, <1>6, <1>7 DEF DownloadStep, Download!vars
<1>9. UploadStep
    BY <1>2, <1>3, <1>6, <1>7 DEF UploadStep, Upload!vars
<1> QED BY <1>1, <1>2, <1>3, <1>7, <1>8, <1>9 DEF Outside

\* The reader of standard output ends.
LEMMA UserLeaveIs ==
    ASSUME IInv, UserLeave
    PROVE  Outside
<1> DEFINE s == ShutStream(w.stdout)
           t == [w EXCEPT !.stdout = s]
           eof == "socket" \in w.eof
           shown == "output" \in w.closed
<1>1. /\ IsParty(user) /\ IsParty(far) /\ Sound(w, user, far) /\ HasFields(w)
      /\ Carries(w.from_socket, w.inbound, w.stdout, far.wrote, user.got, eof,
              shown)
      /\ IsStream(w.stdout)
    BY Streams
<1>2. /\ w' = t /\ user' = [user EXCEPT !.left = TRUE] /\ loop' = loop /\ far' = far
    BY DEF UserLeave
<1>3. /\ IsParty(user') /\ user'.wrote = user.wrote /\ user'.got = user.got
      /\ user'.left = TRUE
    BY <1>1, <1>2 DEF IsParty
<1>4. Carries(w.from_socket, w.inbound, s, far.wrote, user.got, eof,
        shown)
    <2> HIDE DEF eof, shown
    <2> QED BY <1>1, CloseCarries
<1>5. s.bytes = w.stdout.bytes
    BY <1>1, ShutKept
<1> HIDE DEF s
<1>6. /\ OnlyStreams(t, w) /\ t.stdout = s /\ t.stdin = w.stdin
      /\ t.to_socket = w.to_socket /\ t.from_socket = w.from_socket
    <2>1. StreamIs(t, w, "stdout", s)
        BY <1>1, OneStream
    <2> HIDE DEF t
    <2> QED BY <2>1 DEF StreamIs
<1> HIDE DEF t
<1>7. /\ Sound(t, user', far) /\ Later(t, user', far, w, user, far)
      /\ t.outbound_shutdown = w.outbound_shutdown /\ t.closed = w.closed
    <2>1. StillCarries(t, user', far, w, user, far)
        BY <1>3, <1>4, <1>5, <1>6, Streams DEF StillCarries
    <2> QED BY <1>1, <2>1, StreamsChange
<1>8. UploadStep /\ DownloadStep
    BY <1>2, <1>3, <1>5, <1>6, <1>7
       DEF UploadStep, DownloadStep, Upload!vars, Download!vars
<1> QED BY <1>1, <1>2, <1>3, <1>7, <1>8 DEF Outside

\* The far end writes what the next bytes of its stream are.
LEMMA FarWriteIs ==
    ASSUME IInv, NEW len \in 1 .. FarBytes, FarWrite(len)
    PROVE  Outside
<1> DEFINE s == AfterWrite(w.from_socket, NextBytes(far.wrote, len))
           t == [w EXCEPT !.from_socket = s]
           eof == "socket" \in w.eof
           shown == "output" \in w.closed
<1>1. /\ IsParty(user) /\ IsParty(far) /\ Sound(w, user, far) /\ HasFields(w)
      /\ Carries(w.from_socket, w.inbound, w.stdout, far.wrote, user.got, eof,
              shown)
      /\ IsStream(w.from_socket)
    BY Streams
<1>2. /\ ~ w.from_socket.shut /\ len <= Room - Len(w.from_socket.bytes) /\ w' = t
      /\ far' = [far EXCEPT !.wrote = @ + len] /\ loop' = loop /\ user' = user
    BY DEF FarWrite
<1>3. /\ IsParty(far') /\ far'.wrote = far.wrote + len /\ far'.got = far.got
      /\ far'.left = far.left
    BY <1>1, <1>2 DEF IsParty
<1>4. far.wrote \in Nat /\ len \in Nat /\ len > 0
    BY <1>1, CopyAssumption DEF Carries
<1>5. Carries(s, w.inbound, w.stdout, far.wrote + len, user.got, eof,
        shown)
    <2> HIDE DEF eof, shown
    <2> QED BY <1>1, <1>2, <1>4, WriterCarries
<1>6. s.shut = w.from_socket.shut
    BY <1>1, ShutKept
<1> HIDE DEF s
<1>7. /\ OnlyStreams(t, w) /\ t.from_socket = s /\ t.stdin = w.stdin
      /\ t.to_socket = w.to_socket /\ t.stdout = w.stdout
    <2>1. StreamIs(t, w, "from_socket", s)
        BY <1>1, OneStream
    <2> HIDE DEF t
    <2> QED BY <2>1 DEF StreamIs
<1> HIDE DEF t
<1>8. /\ Sound(t, user, far') /\ Later(t, user, far', w, user, far)
      /\ t.outbound_shutdown = w.outbound_shutdown /\ t.closed = w.closed
    <2>1. ~ Exhausted(w.from_socket)
        BY <1>2 DEF Exhausted
    <2>2. StillCarries(t, user, far', w, user, far)
        BY <1>3, <1>5, <1>7, <2>1, Streams DEF StillCarries
    <2> QED BY <1>1, <2>2, StreamsChange
<1>9. DownloadStep
    <2>1. far'.wrote \in Nat /\ far'.wrote > far.wrote
        BY <1>3, <1>4
    <2>2. w.from_socket.shut = FALSE
        BY <1>1, <1>2 DEF IsStream
    <2> QED BY <1>2, <1>6, <1>7, <1>8, <2>1, <2>2
            DEF DownloadStep, Download!Next, Download!Write, Download!vars
<1>10. UploadStep
    BY <1>2, <1>3, <1>7, <1>8 DEF UploadStep, Upload!vars
<1> QED BY <1>1, <1>2, <1>3, <1>8, <1>9, <1>10 DEF Outside

\* The far end says that it writes no more.
LEMMA FarCloseIs ==
    ASSUME IInv, FarClose
    PROVE  Outside
<1> DEFINE s == ShutStream(w.from_socket)
           t == [w EXCEPT !.from_socket = s]
           eof == "socket" \in w.eof
           shown == "output" \in w.closed
<1>1. /\ IsParty(user) /\ IsParty(far) /\ Sound(w, user, far) /\ HasFields(w)
      /\ Carries(w.from_socket, w.inbound, w.stdout, far.wrote, user.got, eof,
              shown)
      /\ IsStream(w.from_socket)
    BY Streams
<1>2. w' = t /\ loop' = loop /\ user' = user /\ far' = far
    BY DEF FarClose
<1>3. Carries(s, w.inbound, w.stdout, far.wrote, user.got, eof,
        shown)
    <2> HIDE DEF eof, shown
    <2> QED BY <1>1, CloseCarries
<1>4. s.bytes = w.from_socket.bytes /\ s.shut = TRUE
    BY <1>1, ShutKept
<1> HIDE DEF s
<1>5. /\ OnlyStreams(t, w) /\ t.from_socket = s /\ t.stdin = w.stdin
      /\ t.to_socket = w.to_socket /\ t.stdout = w.stdout
    <2>1. StreamIs(t, w, "from_socket", s)
        BY <1>1, OneStream
    <2> HIDE DEF t
    <2> QED BY <2>1 DEF StreamIs
<1> HIDE DEF t
<1>6. /\ Sound(t, user, far) /\ Later(t, user, far, w, user, far)
      /\ t.outbound_shutdown = w.outbound_shutdown /\ t.closed = w.closed
    <2>1. Exhausted(w.from_socket) => Exhausted(s)
        BY <1>4 DEF Exhausted
    <2>2. StillCarries(t, user, far, w, user, far)
        BY <1>3, <1>5, <2>1, Streams DEF StillCarries
    <2> QED BY <1>1, <2>2, StreamsChange
<1>7. DownloadStep
    BY <1>2, <1>4, <1>5, <1>6
       DEF DownloadStep, Download!Next, Download!Finish, Download!vars
<1>8. UploadStep
    BY <1>2, <1>5, <1>6 DEF UploadStep, Upload!vars
<1> QED BY <1>1, <1>2, <1>6, <1>7, <1>8 DEF Outside

\* The far end reads some of what was copied.
LEMMA FarReadIs ==
    ASSUME IInv, FarRead
    PROVE  Outside
<1> DEFINE n == ReadLength(w.to_socket, 0)
           s == AfterRead(w.to_socket, 0)
           t == [w EXCEPT !.to_socket = s]
           eof == "input" \in w.eof
           shown == w.outbound_shutdown
<1>1. /\ IsParty(user) /\ IsParty(far) /\ Sound(w, user, far) /\ HasFields(w)
      /\ Carries(w.stdin, w.outbound, w.to_socket, user.wrote, far.got, eof,
              shown)
      /\ Len(w.to_socket.bytes) \in Nat /\ Room \in Nat
    BY Streams, CarriesFacts, Sizes
<1>2. /\ w' = t /\ far' = [far EXCEPT !.got = @ + n] /\ loop' = loop /\ user' = user
    BY DEF FarRead
<1>3. /\ IsParty(far') /\ far'.wrote = far.wrote /\ far'.got = far.got + n
      /\ far'.left = far.left
    BY <1>1, <1>2 DEF IsParty
<1>4. /\ Carries(w.stdin, w.outbound, s, user.wrote, far.got + n, eof,
              shown)
      /\ far.got + n + Len(s.bytes) = far.got + Len(w.to_socket.bytes)
      /\ Len(s.bytes) <= Len(w.to_socket.bytes) /\ s.shut = w.to_socket.shut
    <2> HIDE DEF eof, shown
    <2> QED BY <1>1, ReaderCarries
<1>5. Len(w.to_socket.bytes) < Room => Len(s.bytes) < Room
    <2>1. IsStream(s)
        BY <1>4 DEF Carries
    <2>2. Len(s.bytes) \in Nat
        BY <2>1, EmptyIff DEF IsStream
    <2> QED BY <1>1, <1>4, <2>2
<1> HIDE DEF s, n
<1>6. /\ OnlyStreams(t, w) /\ t.to_socket = s /\ t.stdin = w.stdin
      /\ t.from_socket = w.from_socket /\ t.stdout = w.stdout
    <2>1. StreamIs(t, w, "to_socket", s)
        BY <1>1, OneStream
    <2> HIDE DEF t
    <2> QED BY <2>1 DEF StreamIs
<1> HIDE DEF t
<1>7. /\ Sound(t, user, far') /\ Later(t, user, far', w, user, far)
      /\ t.outbound_shutdown = w.outbound_shutdown /\ t.closed = w.closed
    <2>1. StillCarries(t, user, far', w, user, far)
        BY <1>3, <1>4, <1>5, <1>6, Streams DEF StillCarries
    <2> QED BY <1>1, <2>1, StreamsChange
<1>8. UploadStep
    BY <1>2, <1>3, <1>4, <1>6, <1>7 DEF UploadStep, Upload!vars
<1>9. DownloadStep
    BY <1>2, <1>3, <1>6, <1>7 DEF DownloadStep, Download!vars
<1> QED BY <1>1, <1>2, <1>3, <1>7, <1>8, <1>9 DEF Outside

\* The far end leaves, and both directions of the socket with it.
LEMMA FarLeaveIs ==
    ASSUME IInv, FarLeave
    PROVE  Outside
<1> DEFINE s == ShutStream(w.from_socket)
           k == ShutStream(w.to_socket)
           v == [w EXCEPT !.from_socket = s]
           t == [v EXCEPT !.to_socket = k]
           eof == "socket" \in w.eof
           shown == "output" \in w.closed
           read == "input" \in w.eof
<1>1. /\ IsParty(user) /\ IsParty(far) /\ Sound(w, user, far) /\ HasFields(w)
      /\ Carries(w.from_socket, w.inbound, w.stdout, far.wrote, user.got, eof,
                 shown)
      /\ Carries(w.stdin, w.outbound, w.to_socket, user.wrote, far.got, read,
                 w.outbound_shutdown)
      /\ IsStream(w.from_socket) /\ IsStream(w.to_socket)
    BY Streams
<1>2. /\ w' = t /\ far' = [far EXCEPT !.left = TRUE] /\ loop' = loop /\ user' = user
    <2>1. v.to_socket = w.to_socket
        BY <1>1 DEF HasFields, FieldNames
    <2> QED BY <2>1 DEF FarLeave
<1>3. /\ IsParty(far') /\ far'.wrote = far.wrote /\ far'.got = far.got
      /\ far'.left = TRUE
    BY <1>1, <1>2 DEF IsParty
<1>4. Carries(s, w.inbound, w.stdout, far.wrote, user.got, eof, shown)
    <2> HIDE DEF eof, shown
    <2> QED BY <1>1, CloseCarries
<1>5. Carries(w.stdin, w.outbound, k, user.wrote, far.got, read, w.outbound_shutdown)
    <2> HIDE DEF read
    <2> QED BY <1>1, CloseCarries
<1>6. /\ s.bytes = w.from_socket.bytes /\ s.shut = TRUE
      /\ k.bytes = w.to_socket.bytes
    BY <1>1, ShutKept
<1> HIDE DEF s, k
<1>7. /\ OnlyStreams(t, w) /\ t.from_socket = s /\ t.to_socket = k
      /\ t.stdin = w.stdin /\ t.stdout = w.stdout
    <2>1. StreamIs(v, w, "from_socket", s)
        BY <1>1, OneStream
    <2> HIDE DEF v
    <2>2. HasFields(v)
        BY <2>1 DEF StreamIs, OnlyStreams
    <2>3. StreamIs(t, v, "to_socket", k)
        BY <2>2, OneStream
    <2> HIDE DEF t
    <2> QED BY <2>1, <2>3 DEF StreamIs, OnlyStreams
<1> HIDE DEF t
<1>8. /\ Sound(t, user, far') /\ Later(t, user, far', w, user, far)
      /\ t.outbound_shutdown = w.outbound_shutdown /\ t.closed = w.closed
    <2>1. Exhausted(w.from_socket) => Exhausted(s)
        BY <1>6 DEF Exhausted
    <2>2. StillCarries(t, user, far', w, user, far)
        BY <1>3, <1>4, <1>5, <1>6, <1>7, <2>1, Streams DEF StillCarries
    <2> QED BY <1>1, <2>2, StreamsChange
<1>9. UploadStep
    BY <1>2, <1>3, <1>6, <1>7, <1>8 DEF UploadStep, Upload!vars
<1>10. DownloadStep
    BY <1>2, <1>3, <1>6, <1>7, <1>8
       DEF DownloadStep, Download!Next, Download!Finish, Download!vars
<1> QED BY <1>1, <1>2, <1>3, <1>8, <1>9, <1>10 DEF Outside
-----------------------------------------------------------------------------
(* The invariant *)

\* The first state of the streams
LEMMA NothingYet ==
    /\ IsStream(NewStream) /\ IsBuffer(NewByteStream(buffer_size))
    /\ NewStream.shut = FALSE /\ NewByteStream(buffer_size).error = FALSE
    /\ NewByteStream(buffer_size).stream_closed = FALSE
    /\ Carries(NewStream, NewByteStream(buffer_size), NewStream, 0, 0, FALSE, FALSE)
<1> DEFINE s == NewStream
           b == NewByteStream(buffer_size)
<1>1. <<>> \in Seq(Nat) /\ Len(<<>>) = 0
    BY EmptySeq
<1>2. s.bytes = <<>> /\ s.shut = FALSE /\ IsStream(s)
    BY <1>1, Sizes DEF NewStream, IsStream
<1>3. b.buffer = <<>> /\ b.error = FALSE /\ b.stream_closed = FALSE /\ IsBuffer(b)
    BY <1>1, Sizes DEF NewByteStream, IsBuffer
<1>4. Numbered(<<>>, 0)
    BY <1>1 DEF Numbered
<1> HIDE DEF s, b
<1>5. Carries(s, b, s, 0, 0, FALSE, FALSE)
    BY <1>1, <1>2, <1>3, <1>4 DEF Carries
<1> QED BY <1>2, <1>3, <1>5 DEF s, b

\* The four rules are told apart, and none is gone.
LEMMA AllRules ==
    IsRules(FourRules) /\ Names(FourRules) = 1 .. 4
<1>1. Len(FourRules) = 4
    BY DEF FourRules
<1>2. \A k \in 1 .. 4 : FourRules[k].name = k
    BY DEF FourRules, EventLoop!Rule
<1>3. FourRules \in Seq(AnyRule)
    <2>1. FourRules = [k \in 1 .. 4 |-> FourRules[k]]
        BY DEF FourRules
    <2>2. \A k \in 1 .. 4 : FourRules[k] \in AnyRule
        BY DEF AnyRule
    <2> QED BY <2>1, <2>2
<1>4. \A k, l \in 1 .. 4 : k < l => FourRules[k].name < FourRules[l].name
    BY <1>2
<1>5. Names(FourRules) = 1 .. 4
    BY <1>1, <1>2 DEF Names
<1> QED BY <1>1, <1>3, <1>4, <1>5 DEF IsRules

\* The program starts with its four rules and nothing on its way.
LEMMA InitHolds ==
    ASSUME Init
    PROVE  IInv
<1> DEFINE s == NewStream
           b == NewByteStream(buffer_size)
<1>1. /\ IsStream(s) /\ IsBuffer(b) /\ s.shut = FALSE /\ b.error = FALSE
      /\ b.stream_closed = FALSE /\ Carries(s, b, s, 0, 0, FALSE, FALSE)
    BY NothingYet
<1> HIDE DEF s, b
<1>2. /\ w = [stdin |-> s, to_socket |-> s, from_socket |-> s, stdout |-> s,
              outbound |-> b, inbound |-> b,
              outbound_shutdown |-> FALSE, inbound_shutdown |-> FALSE,
              eof |-> {}, closed |-> {}, serviced |-> FALSE, failed |-> FALSE]
      /\ loop = [at |-> "poll", asked |-> <<>>, revents |-> <<>>, rules |-> FourRules]
      /\ user = [wrote |-> 0, got |-> 0, left |-> FALSE]
      /\ far = [wrote |-> 0, got |-> 0, left |-> FALSE]
    BY DEF Init, FourRules, s, b
<1>3. HasFields(w)
    BY <1>2 DEF HasFields, FieldNames
<1>4. /\ w.stdin = s /\ w.to_socket = s /\ w.from_socket = s /\ w.stdout = s
      /\ w.outbound = b /\ w.inbound = b
      /\ w.outbound_shutdown = FALSE /\ w.inbound_shutdown = FALSE
      /\ w.eof = {} /\ w.closed = {} /\ w.serviced = FALSE /\ w.failed = FALSE
    BY <1>2
<1>5. /\ user.wrote = 0 /\ user.got = 0 /\ user.left = FALSE /\ IsParty(user)
      /\ far.wrote = 0 /\ far.got = 0 /\ far.left = FALSE /\ IsParty(far)
    BY <1>2 DEF IsParty
<1>6. IsProcess(w)
    BY <1>3, <1>4 DEF IsProcess
<1>7. Sound(w, user, far)
    <2>1. Carries(w.stdin, w.outbound, w.to_socket, user.wrote, far.got,
                  "input" \in w.eof, w.outbound_shutdown)
        BY <1>1, <1>4, <1>5 DEF Carries
    <2>2. Carries(w.from_socket, w.inbound, w.stdout, far.wrote, user.got,
                  "socket" \in w.eof, "output" \in w.closed)
        BY <1>1, <1>4, <1>5 DEF Carries
    <2> QED BY <1>1, <1>4, <1>6, <2>1, <2>2 DEF Sound
<1>8. /\ loop.at = "poll" /\ loop.rules = FourRules
      /\ loop = [at |-> loop.at, rules |-> loop.rules, asked |-> loop.asked,
                 revents |-> loop.revents]
    BY <1>2
<1>9. Ruled(w, Names(FourRules), user, far)
    BY <1>1, <1>4, AllRules DEF Ruled, Tied
<1> QED BY <1>5, <1>7, <1>8, <1>9, AllRules DEF IInv

\* Bytes that go forward arrive, and the end is shown when all of them have.
LEMMA Arrives ==
    ASSUME NEW source, NEW stream, NEW sink, NEW wrote, NEW got, NEW eof, NEW shown,
           NEW source2, NEW stream2, NEW sink2, NEW eof2, NEW shown2,
           Carries(source, stream, sink, wrote, got, eof, shown),
           Carries(source2, stream2, sink2, wrote, got, eof2, shown2),
           source2.shut = source.shut, Len(sink2.bytes) >= Len(sink.bytes)
    PROVE  LET old == got + Len(sink.bytes)
               new == got + Len(sink2.bytes)
           IN  /\ new \in old .. wrote
               /\ shown => new = old
               /\ shown2 => source.shut /\ new = wrote
<1> DEFINE a == Len(sink.bytes)
           b == Len(stream.buffer)
           c == Len(source.bytes)
           a2 == Len(sink2.bytes)
           b2 == Len(stream2.buffer)
           c2 == Len(source2.bytes)
<1>1. /\ a \in Nat /\ b \in Nat /\ c \in Nat /\ wrote = got + a + b + c
      /\ a2 \in Nat /\ b2 \in Nat /\ c2 \in Nat /\ wrote = got + a2 + b2 + c2
      /\ got \in Nat /\ a2 >= a
    BY CarriesFacts
<1>2. Len(<<>>) = 0
    BY EmptySeq
<1>3. /\ shown => b = 0 /\ c = 0
      /\ shown2 => b2 = 0 /\ c2 = 0 /\ source.shut
    BY <1>2 DEF Carries, Exhausted
<1> HIDE DEF a, b, c, a2, b2, c2
<1>4. /\ got + a2 \in got + a .. wrote
      /\ shown => got + a2 = got + a
      /\ shown2 => got + a2 = wrote
    BY <1>1, <1>3
<1> QED BY <1>3, <1>4 DEF a, a2

\* Whatever was written has arrived when the end is shown.
LEMMA AllArrived ==
    ASSUME NEW source, NEW stream, NEW sink, NEW wrote, NEW got, NEW eof, NEW shown,
           Carries(source, stream, sink, wrote, got, eof, shown)
    PROVE  shown => got + Len(sink.bytes) = wrote
<1>1. /\ Len(sink.bytes) \in Nat /\ got \in Nat
      /\ wrote = got + Len(sink.bytes) + Len(stream.buffer) + Len(source.bytes)
    BY CarriesFacts
<1>2. shown => Len(stream.buffer) = 0 /\ Len(source.bytes) = 0
    BY EmptySeq DEF Carries, Exhausted
<1> DEFINE a == Len(sink.bytes)
           b == Len(stream.buffer)
           c == Len(source.bytes)
<1>3. a \in Nat /\ got \in Nat /\ wrote = got + a + b + c
    BY <1>1
<1>4. shown => b = 0 /\ c = 0
    BY <1>2
<1> HIDE DEF a, b, c
<1>5. shown => got + a = wrote
    BY <1>3, <1>4
<1> QED BY <1>5 DEF a

\* What the loop does are steps of both streams.
LEMMA LoopArrives ==
    ASSUME Sound(w, user, far), Sound(w', user, far), Advances(w', w),
           user' = user, far' = far
    PROVE  UploadStep /\ DownloadStep
<1>1. UploadStep
    <2> DEFINE eof == "input" \in w.eof
               eof2 == "input" \in w'.eof
               shown == w.outbound_shutdown
               shown2 == w'.outbound_shutdown
               old == far.got + Len(w.to_socket.bytes)
               new == far.got + Len(w'.to_socket.bytes)
    <2>1. /\ Carries(w.stdin, w.outbound, w.to_socket, user.wrote, far.got, eof, shown)
          /\ Carries(w'.stdin, w'.outbound, w'.to_socket, user.wrote, far.got, eof2,
                     shown2)
          /\ w'.stdin.shut = w.stdin.shut
          /\ Len(w'.to_socket.bytes) >= Len(w.to_socket.bytes)
          /\ shown2 \in BOOLEAN /\ (shown => shown2)
        BY DEF Sound, Advances, IsProcess
    <2>2. /\ new \in old .. user.wrote
          /\ shown => new = old
          /\ shown2 => w.stdin.shut /\ new = user.wrote
        <3> HIDE DEF eof, eof2, shown, shown2
        <3> QED BY <2>1, Arrives
    <2> QED BY <2>1, <2>2 DEF UploadStep, Upload!Next, Upload!Arrive
<1>2. DownloadStep
    <2> DEFINE eof == "socket" \in w.eof
               eof2 == "socket" \in w'.eof
               shown == "output" \in w.closed
               shown2 == "output" \in w'.closed
               old == user.got + Len(w.stdout.bytes)
               new == user.got + Len(w'.stdout.bytes)
    <2>1. /\ Carries(w.from_socket, w.inbound, w.stdout, far.wrote, user.got, eof, shown)
          /\ Carries(w'.from_socket, w'.inbound, w'.stdout, far.wrote, user.got, eof2,
                     shown2)
          /\ w'.from_socket.shut = w.from_socket.shut
          /\ Len(w'.stdout.bytes) >= Len(w.stdout.bytes)
          /\ shown2 \in BOOLEAN /\ (shown => shown2)
        BY DEF Sound, Advances
    <2>2. /\ new \in old .. far.wrote
          /\ shown => new = old
          /\ shown2 => w.from_socket.shut /\ new = far.wrote
        <3> HIDE DEF eof, eof2, shown, shown2
        <3> QED BY <2>1, Arrives
    <2> QED BY <2>1, <2>2 DEF DownloadStep, Download!Next, Download!Arrive
<1> QED BY <1>1, <1>2

\* Every step keeps the invariant and is one of both streams.
LEMMA NextHolds ==
    ASSUME IInv, Next
    PROVE  IInv' /\ UploadStep /\ DownloadStep
<1>1. Sound(w, user, far)
    BY DEF IInv
<1>2. CASE Poll
    <2>1. user' = user /\ far' = far
        BY <1>2 DEF Poll
    <2> QED BY <1>1, <1>2, <2>1, PollKeeps, LoopArrives
<1>3. CASE Serve
    <2>1. user' = user /\ far' = far
        BY <1>3 DEF Serve
    <2> QED BY <1>1, <1>3, <2>1, ServeHolds, LoopArrives
<1>4. CASE Exit
    <2>1. user' = user /\ far' = far
        BY <1>4 DEF Exit
    <2> QED BY <1>1, <1>4, <2>1, ExitKeeps, LoopArrives
<1>5. ASSUME NEW len \in 1 .. UserBytes, UserWrite(len)
      PROVE  Outside
    BY <1>5, UserWriteIs
<1>6. ASSUME NEW len \in 1 .. FarBytes, FarWrite(len)
      PROVE  Outside
    BY <1>6, FarWriteIs
<1>7. ASSUME \/ UserClose \/ UserRead \/ UserLeave
             \/ FarClose \/ FarRead \/ FarLeave
      PROVE  Outside
    BY <1>7, UserCloseIs, UserReadIs, UserLeaveIs, FarCloseIs, FarReadIs, FarLeaveIs
<1>8. ASSUME Outside
      PROVE  IInv' /\ UploadStep /\ DownloadStep
    <2>1. IInv'
        BY <1>8, OutsideKeeps
    <2> QED BY <1>8, <2>1 DEF Outside
<1> QED BY <1>2, <1>3, <1>4, <1>5, <1>6, <1>7, <1>8 DEF Next, LoopStep

\* A stutter keeps the invariant and is a stutter of both pipes.
LEMMA StutterHolds ==
    ASSUME IInv, UNCHANGED vars
    PROVE  IInv' /\ UploadStep /\ DownloadStep
<1>1. w' = w /\ loop' = loop /\ user' = user /\ far' = far
    BY DEF vars
<1>2. IInv'
    BY <1>1 DEF IInv
<1> QED BY <1>1, <1>2 DEF UploadStep, DownloadStep, Upload!vars, Download!vars

(***************************************************************************)
(* The inductive invariant: in each direction the bytes between writer and *)
(* reader are those that were written and not read, in their order; a rule *)
(* is only ever dropped when its stream is at its end or who was to get it *)
(* has left; and what poll said still holds when it is acted upon          *)
(* (eventloop.cc:115-224, bidirectional_stream_copy.cc:36-122).            *)
(***************************************************************************)
THEOREM Invariance == Spec => []IInv
<1>1. Init => IInv
    BY InitHolds
<1>2. IInv /\ [Next]_vars => IInv'
    BY NextHolds, StutterHolds
<1> QED BY <1>1, <1>2, PTL DEF Spec

(***************************************************************************)
(* The loop exits by itself only when both directions were copied to their *)
(* end, if nobody left (eventloop.cc:157-159).                             *)
(***************************************************************************)
THEOREM ExitsComplete == Spec => []ExitIsComplete
<1>1. IInv => ExitIsComplete
    <2> SUFFICES ASSUME IInv, loop.at = "exit", ~ user.left, ~ far.left
                 PROVE  /\ w.outbound_shutdown /\ "output" \in w.closed
                        /\ far.got + Len(w.to_socket.bytes) = user.wrote
                        /\ user.got + Len(w.stdout.bytes) = far.wrote
        BY DEF ExitIsComplete
    <2>1. w.outbound_shutdown /\ "output" \in w.closed
        BY DEF IInv
    <2>2. far.got + Len(w.to_socket.bytes) = user.wrote
        <3> DEFINE eof == "input" \in w.eof
        <3>1. Carries(w.stdin, w.outbound, w.to_socket, user.wrote, far.got, eof,
                      w.outbound_shutdown)
            BY Streams
        <3> HIDE DEF eof
        <3> QED BY <2>1, <3>1, AllArrived
    <2>3. user.got + Len(w.stdout.bytes) = far.wrote
        <3> DEFINE eof == "socket" \in w.eof
                   shown == "output" \in w.closed
        <3>1. Carries(w.from_socket, w.inbound, w.stdout, far.wrote, user.got, eof, shown)
            BY Streams
        <3>2. shown
            BY <2>1
        <3> HIDE DEF eof, shown
        <3> QED BY <3>1, <3>2, AllArrived
    <2> QED BY <2>1, <2>2, <2>3
<1> QED BY <1>1, Invariance, PTL

(***************************************************************************)
(* Nothing but a reader that leaves ends the process: no rule waits        *)
(* busily, no write finds a full pipe or a stream that was shut by the     *)
(* loop itself (eventloop.cc:212, file_descriptor.cc write).               *)
(***************************************************************************)
THEOREM OnlyLeavingFails == Spec => []FailsOnlyWhenLeft
<1>1. IInv => FailsOnlyWhenLeft
    BY DEF IInv, Sound, FailsOnlyWhenLeft
<1> QED BY <1>1, Invariance, PTL

\* What the readers find is what was written after the bytes they have read.
InOrder == Numbered(w.to_socket.bytes, far.got) /\ Numbered(w.stdout.bytes, user.got)

(***************************************************************************)
(* The bytes are copied in the order in which they were written, none of   *)
(* them twice and none left out, however they are cut into reads and       *)
(* writes (bidirectional_stream_copy.cc:36-122).                           *)
(***************************************************************************)
THEOREM CopiedInOrder == Spec => []InOrder
<1>1. IInv => InOrder
    BY Streams DEF Carries, InOrder
<1> QED BY <1>1, Invariance, PTL

(***************************************************************************)
(* Each direction is a BytePipe: every step of the loop, of the user and   *)
(* of the far end is one of its steps, or none                             *)
(* (bidirectional_stream_copy.cc:36-122).                                  *)
(***************************************************************************)
THEOREM CopyIsPipes == Spec => CopyPipes
<1>1. Init => Upload!Init /\ Download!Init
    <2> SUFFICES ASSUME Init PROVE Upload!Init /\ Download!Init
        OBVIOUS
    <2>1. /\ w.stdin = NewStream /\ w.to_socket = NewStream
          /\ w.from_socket = NewStream /\ w.stdout = NewStream
          /\ w.outbound_shutdown = FALSE /\ w.closed = {}
        BY DEF Init
    <2>2. /\ user.wrote = 0 /\ user.got = 0 /\ far.wrote = 0 /\ far.got = 0
        BY DEF Init
    <2>3. NewStream.bytes = <<>> /\ NewStream.shut = FALSE
        BY DEF NewStream
    <2>4. Len(<<>>) = 0
        BY EmptySeq
    <2> QED BY <2>1, <2>2, <2>3, <2>4 DEF Upload!Init, Download!Init
<1>2. IInv /\ [Next]_vars => [Upload!Next]_(Upload!vars) /\ [Download!Next]_(Download!vars)
    BY NextHolds, StutterHolds DEF UploadStep, DownloadStep
<1> QED BY <1>1, <1>2, Invariance, PTL DEF Spec, CopyPipes, Upload!Spec, Download!Spec
=============================================================================
