------------------------- MODULE ConnectionProofs -------------------------
(***************************************************************************)
(* The safety of TCPConnection, for all streams, capacities, timeouts,     *)
(* initial sequence numbers and integer widths, over a network that loses, *)
(* repeats and reorders messages at will.                                  *)
(***************************************************************************)
EXTENDS TCPConnection, TCPLemmas

-----------------------------------------------------------------------------
(* The inductive invariant *)

\* The stream of host h, as its sender and the other host's receiver see it
Cfg(h) ==
    [isn |-> Config[h].isn, rto |-> Config[h].rt_timeout,
     capacity |-> Config[h].send_capacity, length |-> ToWrite[h],
     reach |-> ToWrite[h] + 2, byte |-> [i \in Nat |-> <<h, i>>],
     alphabet |-> {h} \X Nat, errors |-> {FALSE}]

\* A receiver r of what sender s has sent: it assembles the bytes that the sender
\* took from its stream, and knows their end only from a FIN.
ReceiverSide(c, capacity, r, s) ==
    /\ r = [ISN |-> r.ISN, reassembler |-> r.reassembler]
    /\ Assembling(c.alphabet, c.byte, capacity, s.input.total_popped,
                  r.reassembler)
    /\ r.reassembler.end_of_stream # UINT64_MAX => s.FINsent
    /\ r.ISN \in {NULLOPT, c.isn}
    /\ r.ISN # NULLOPT => s.abs_seqno > 0

\* What the receiver has acknowledged, at the most
Received(r) == IF r.ISN = NULLOPT THEN 0 ELSE AbsAckno(r)

\* A sender message that s has sent at some time
Carried(c, s, msg) ==
    LET n == First(c, msg)
    IN  /\ msg \in Msgs(c) /\ n \in Nat /\ msg.seqno = Wrap(n, c.isn)
        /\ msg.SYN <=> (n = 0 /\ SequenceLength(msg) > 0)
        /\ n + SequenceLength(msg) <= s.abs_seqno
        /\ Len(msg.payload) > 0 =>
              n + Bit(msg.SYN) + Len(msg.payload) <= 1 + s.input.total_popped
        /\ msg.FIN => s.FINsent /\ n + SequenceLength(msg) = s.abs_seqno
        /\ \A k \in 1 .. Len(msg.payload) :
              msg.payload[k] = c.byte[n - 1 + Bit(msg.SYN) + k - 1]

\* A receiver message that r has sent at some time, of the stream of c; only a
\* client sends one without ackno.
Acknowledges(c, host, r, msg) ==
    /\ msg = [ackno |-> msg.ackno, window_size |-> msg.window_size,
              RST |-> FALSE]
    /\ msg.window_size \in Nat
    /\ \/ msg.ackno = NULLOPT /\ host = Client
       \/ \E a \in 1 .. Received(r) : msg.ackno = Wrap(a, c.isn)

\* A message of host h, which is p
MessageOf(h, p, msg) ==
    /\ msg = [sender |-> msg.sender, receiver |-> msg.receiver]
    /\ Carried(Cfg(h), p.sender, msg.sender)
    /\ Acknowledges(Cfg(Other(h)), h, p.receiver, msg.receiver)

IsPeer(p) ==
    /\ p = [sender |-> p.sender, receiver |-> p.receiver,
            rt_timeout |-> p.rt_timeout,
            linger_after_streams_finish |-> p.linger_after_streams_finish,
            since_receipt |-> p.since_receipt]
    /\ p.linger_after_streams_finish \in BOOLEAN

\* Host h, which is p, and what of its stream has reached the other host, q
Direction(h, p, q) ==
    /\ Good(Cfg(h), p.sender)
    /\ ReceiverSide(Cfg(h), Config[Other(h)].recv_capacity, q.receiver, p.sender)

\* Host h, which is p, does not linger when the other host, q, sent its FIN first
LingerOK(p, q) == ~p.linger_after_streams_finish => q.sender.FINsent

\* When the stream has ended and nothing is outstanding, the FIN was sent.
FINFollows(s) == IsFinished(s.input) /\ s.outstanding = <<>> => s.FINsent

\* The server's adapter waits until it sees the client's SYN.
ListeningOK ==
    /\ listening \in BOOLEAN
    /\ listening => /\ peer[Server].sender.abs_seqno = 0
                    /\ peer[Server].sender.abs_ackno = 0
    /\ ~listening => peer[Server].receiver.ISN # NULLOPT

IInv ==
    /\ peer = [h \in Hosts |-> peer[h]] /\ net = [h \in Hosts |-> net[h]]
    /\ ListeningOK
    /\ \A h \in Hosts :
          /\ IsPeer(peer[h])
          /\ Direction(h, peer[h], peer[Other(h)])
          /\ LingerOK(peer[h], peer[Other(h)]) /\ FINFollows(peer[h].sender)
          /\ \A msg \in net[Other(h)] : MessageOf(h, peer[h], msg)
    /\ \E h \in Hosts : peer[h].linger_after_streams_finish

\* The sender s of stream c, whose receiver is r, was not told of more than r
\* received.
AckOK(c, s, r) == AckPlaced(c, s) /\ s.abs_ackno <= Received(r)

AckInv ==
    \A h \in Hosts : AckOK(Cfg(h), peer[h].sender, peer[Other(h)].receiver)

-----------------------------------------------------------------------------
(* What a sender sends *)

\* Sender t is what sender s became: it gave out more numbers, or none.
Advances(s, t) ==
    /\ t.abs_seqno >= s.abs_seqno
    /\ t.input.total_popped >= s.input.total_popped
    /\ s.FINsent => t.FINsent /\ t.abs_seqno = s.abs_seqno
                    /\ t.input.total_popped = s.input.total_popped

\* The numbers of a sender
LEMMA SenderNumbers ==
    ASSUME NEW c, IsConfig(c), NEW s, Good(c, s)
    PROVE  /\ s.abs_seqno \in Nat /\ s.abs_seqno <= c.length + 2
           /\ s.input.total_popped \in Nat /\ s.input.total_popped <= c.length
           /\ s.input.total_pushed \in Nat
           /\ s.input.total_popped <= s.input.total_pushed
           /\ s.FINsent \in BOOLEAN
           /\ s.abs_seqno = 0 => s.input.total_popped = 0 /\ ~ s.FINsent
           /\ s.abs_seqno > 0 => s.abs_seqno = 1 + s.input.total_popped
                                                   + (IF s.FINsent THEN 1 ELSE 0)
           /\ s.FINsent => IsFinished(s.input)
<1>1. /\ s.abs_seqno \in 0 .. c.length + 2
      /\ s.input.total_popped \in 0 .. c.length
      /\ s.input.total_pushed \in 0 .. c.length
      /\ s.input.total_popped <= s.input.total_pushed
    BY GoodFacts
<1>2. c.length \in Nat
    BY Numbers
<1>3. FieldsOK(s) /\ Accounted(s)
    BY DEF Good
<1> DEFINE seqno == s.abs_seqno
           popped == s.input.total_popped
           length == c.length
           pushed == s.input.total_pushed
<1>4. /\ seqno = IF seqno = 0 THEN 0 ELSE 1 + popped + Bit(s.FINsent)
      /\ seqno = 0 => popped = 0 /\ ~ s.FINsent
      /\ s.FINsent => IsFinished(s.input)
    BY <1>3 DEF Accounted
<1>5. s.FINsent \in BOOLEAN
    BY <1>3 DEF FieldsOK
<1>6. /\ seqno \in 0 .. length + 2 /\ popped \in 0 .. length
      /\ pushed \in 0 .. length /\ popped <= pushed /\ length \in Nat
    BY <1>1, <1>2
<1> HIDE DEF seqno, popped, length, pushed
<1>7. /\ seqno \in Nat /\ seqno <= length + 2 /\ popped \in Nat
      /\ popped <= length /\ pushed \in Nat
    BY <1>6
<1>8. seqno > 0 => seqno = 1 + popped + (IF s.FINsent THEN 1 ELSE 0)
    BY <1>4, <1>7 DEF Bit
<1> QED BY <1>4, <1>5, <1>6, <1>7, <1>8 DEF seqno, popped, length, pushed

\* What push() leaves behind has advanced.
LEMMA PushedAdvances ==
    ASSUME NEW c, IsConfig(c), NEW s, Good(c, s), NEW t, Good(c, t), PushedOn(c, s, t)
    PROVE  Advances(s, t)
<1> DEFINE a == s.abs_seqno
           b == t.abs_seqno
           x == s.input.total_popped
           y == t.input.total_popped
           n == s.input.total_pushed
<1>1. /\ a \in Nat /\ x \in Nat /\ n \in Nat /\ x <= n /\ s.FINsent \in BOOLEAN
      /\ a = 0 => x = 0 /\ ~ s.FINsent
      /\ a > 0 => a = 1 + x + (IF s.FINsent THEN 1 ELSE 0)
    BY SenderNumbers
<1>2. /\ b \in Nat /\ y \in Nat /\ t.FINsent \in BOOLEAN
      /\ b = 0 => y = 0 /\ ~ t.FINsent
      /\ b > 0 => b = 1 + y + (IF t.FINsent THEN 1 ELSE 0)
      /\ t.FINsent => IsFinished(t.input)
    BY SenderNumbers
<1>3. /\ b >= a /\ t.input.total_pushed = n
      /\ s.FINsent => t.FINsent /\ b = a
    BY DEF PushedOn
<1>4. t.FINsent => y = n
    BY <1>2, <1>3 DEF IsFinished
<1> HIDE DEF a, b, x, y, n
<1>5. y >= x /\ (s.FINsent => y = x)
    BY <1>1, <1>2, <1>3, <1>4
<1> QED BY <1>3, <1>5 DEF Advances, a, b, x, y

\* A sender that sent nothing new has advanced by nothing.
LEMMA SameStreamAdvances ==
    ASSUME NEW c, IsConfig(c), NEW s, Good(c, s), NEW t, SameStream(s, t)
    PROVE  Advances(s, t)
<1>1. s.abs_seqno \in Nat /\ s.input.total_popped \in Nat
    BY SenderNumbers
<1> QED BY <1>1 DEF SameStream, Advances

\* Two advances are one.
LEMMA AdvancesTransitive ==
    ASSUME NEW c, IsConfig(c), NEW s, Good(c, s), NEW t, Good(c, t),
           NEW u, Good(c, u), Advances(s, t), Advances(t, u)
    PROVE  Advances(s, u)
<1>1. /\ s.abs_seqno \in Nat /\ s.input.total_popped \in Nat
      /\ t.abs_seqno \in Nat /\ t.input.total_popped \in Nat
      /\ u.abs_seqno \in Nat /\ u.input.total_popped \in Nat
    BY SenderNumbers
<1> QED BY <1>1 DEF Advances

\* A sent message stays one.
LEMMA CarriedStays ==
    ASSUME NEW c, IsConfig(c), NEW s, Good(c, s), NEW t, Good(c, t),
           Advances(s, t), NEW msg, Carried(c, s, msg)
    PROVE  Carried(c, t, msg)
<1> DEFINE n == First(c, msg)
           len == SequenceLength(msg)
           held == Len(msg.payload)
           syn == Bit(msg.SYN)
<1>1. /\ s.abs_seqno \in Nat /\ s.input.total_popped \in Nat
      /\ t.abs_seqno \in Nat /\ t.input.total_popped \in Nat
    BY SenderNumbers
<1>2. /\ msg \in Msgs(c) /\ n \in Nat /\ msg.seqno = Wrap(n, c.isn)
      /\ msg.SYN <=> (n = 0 /\ len > 0)
      /\ n + len <= s.abs_seqno
      /\ held > 0 => n + syn + held <= 1 + s.input.total_popped
      /\ msg.FIN => s.FINsent /\ n + len = s.abs_seqno
    BY DEF Carried
<1>3. \A k \in 1 .. Len(msg.payload) :
          msg.payload[k] = c.byte[First(c, msg) - 1 + Bit(msg.SYN) + k - 1]
    BY DEF Carried
<1>4. len \in Nat /\ held \in Nat /\ syn \in 0 .. 1
    BY <1>2, LengthIs
<1>5. /\ t.abs_seqno >= s.abs_seqno
      /\ t.input.total_popped >= s.input.total_popped
      /\ s.FINsent => t.FINsent /\ t.abs_seqno = s.abs_seqno
    BY DEF Advances
<1> HIDE DEF n, len, held, syn
<1>6. /\ n + len <= t.abs_seqno
      /\ held > 0 => n + syn + held <= 1 + t.input.total_popped
      /\ msg.FIN => t.FINsent /\ n + len = t.abs_seqno
    BY <1>1, <1>2, <1>4, <1>5
<1> QED BY <1>2, <1>3, <1>6 DEF Carried, n, len, held, syn

-----------------------------------------------------------------------------
(* What a receiver takes *)

\* The configurations of the hosts are those of a sender; a stream is shorter
\* than the largest index.
LEMMA ConfigIs ==
    ASSUME NEW h \in Hosts
    PROVE  /\ IsConfig(Cfg(h)) /\ Cfg(h).errors = {FALSE}
           /\ Other(h) \in Hosts /\ Other(Other(h)) = h /\ Other(h) # h
           /\ Config[h].recv_capacity \in Nat
<1>1. /\ Config[h].isn \in UInt32 /\ Config[h].rt_timeout \in Nat \ {0}
      /\ Config[h].send_capacity \in Nat /\ Config[h].recv_capacity \in Nat
      /\ ToWrite[h] \in Nat /\ 2 * (ToWrite[h] + 2) < Mod32
    BY ConnectionAssumption DEF Hosts
<1>2. \A i \in Nat : <<h, i>> \in {h} \X Nat
    OBVIOUS
<1>3. \A i \in Nat : Cfg(h).byte[i] = <<h, i>>
    BY DEF Cfg
<1>4. /\ Cfg(h).isn = Config[h].isn /\ Cfg(h).rto = Config[h].rt_timeout
      /\ Cfg(h).capacity = Config[h].send_capacity
      /\ Cfg(h).length = ToWrite[h] /\ Cfg(h).reach = ToWrite[h] + 2
      /\ Cfg(h).alphabet = {h} \X Nat /\ Cfg(h).errors = {FALSE}
    BY DEF Cfg
<1>5. \A i \in Nat : Cfg(h).byte[i] \in Cfg(h).alphabet
    BY <1>2, <1>3, <1>4
<1>6. IsConfig(Cfg(h))
    <2> DEFINE n == ToWrite[h]
    <2>1. n + 2 <= n + 2 /\ n + 2 \in Nat
        BY <1>1
    <2> HIDE DEF n
    <2> QED BY <1>1, <1>4, <1>5, <2>1 DEF IsConfig, n
<1> QED BY <1>1, <1>4, <1>6, ConnectionAssumption DEF Hosts, Other

\* Whatever is counted of a stream fits into 64 bits.
LEMMA StreamIsShort ==
    ASSUME NEW c, IsConfig(c)
    PROVE  /\ UINT64_MAX \in Nat /\ c.length + 2 < UINT64_MAX
           /\ c.isn \in Int /\ c.isn # NULLOPT /\ UINT64_MAX = U64(-1)
           /\ \A n \in 0 .. c.length + 2 : U64(n) = n
<1>1. /\ c.length \in Nat /\ c.reach \in Nat /\ c.isn \in 0 .. Mod32 - 1
      /\ Mod32 \in Nat /\ Mod64 \in Nat /\ Mod32 > 1
      /\ 2 * c.reach < Mod32 /\ 4 * Mod32 <= Mod64 /\ c.length + 2 <= c.reach
    BY Numbers DEF UInt32
<1> QED BY <1>1 DEF UINT64_MAX, U64, NULLOPT

\* Receiver u is what receiver r became.
ReceiverGrows(r, u) ==
    /\ u.reassembler.output.total_pushed >= r.reassembler.output.total_pushed
    /\ r.reassembler.output.stream_closed => u.reassembler.output.stream_closed
    /\ r.ISN # NULLOPT => u.ISN # NULLOPT

\* The sender may go on.
LEMMA ReceiverStays ==
    ASSUME NEW c, IsConfig(c), NEW s, Good(c, s), NEW t, Good(c, t),
           Advances(s, t), NEW capacity \in Nat, NEW r,
           ReceiverSide(c, capacity, r, s)
    PROVE  ReceiverSide(c, capacity, r, t)
<1> DEFINE limit == s.input.total_popped
           more  == t.input.total_popped
           A     == c.alphabet
           byte  == c.byte
           end   == r.reassembler.end_of_stream
<1>1. /\ s.abs_seqno \in Nat /\ limit \in Nat /\ t.abs_seqno \in Nat
      /\ more \in Nat /\ more <= c.length
    BY SenderNumbers
<1>2. UINT64_MAX \in Nat /\ c.length + 2 < UINT64_MAX /\ c.length \in Nat
    BY StreamIsShort, Numbers
<1>3. /\ t.abs_seqno >= s.abs_seqno /\ limit <= more
      /\ s.FINsent => t.FINsent /\ limit = more
    BY <1>1 DEF Advances
<1>4. /\ Assembling(A, byte, capacity, limit, r.reassembler)
      /\ end # UINT64_MAX => s.FINsent
      /\ r.ISN # NULLOPT => s.abs_seqno > 0
      /\ r.ISN \in {NULLOPT, c.isn}
      /\ r = [ISN |-> r.ISN, reassembler |-> r.reassembler]
    BY DEF ReceiverSide
<1>5. more < UINT64_MAX
    <2> HIDE DEF more
    <2> QED BY <1>1, <1>2
<1>6. r.reassembler.end_of_stream = UINT64_MAX \/ limit = more
    BY <1>3, <1>4
<1>7. Assembling(A, byte, capacity, more, r.reassembler)
    <2> HIDE DEF A, byte, limit, more, end
    <2> QED BY <1>1, <1>2, <1>3, <1>4, <1>5, <1>6, AssemblingGrows
<1>8. r.ISN # NULLOPT => t.abs_seqno > 0
    <2> DEFINE a == s.abs_seqno
               b == t.abs_seqno
    <2>1. a \in Nat /\ b \in Nat /\ b >= a /\ (r.ISN # NULLOPT => a > 0)
        BY <1>1, <1>3, <1>4
    <2> HIDE DEF a, b
    <2>2. r.ISN # NULLOPT => b > 0
        BY <2>1
    <2> QED BY <2>2 DEF b
<1> QED BY <1>3, <1>4, <1>7, <1>8 DEF ReceiverSide

\* What receive() knows of a message of the other host: where its payload
\* belongs in the stream
LEMMA CarriedFacts ==
    ASSUME NEW c, IsConfig(c), NEW s, Good(c, s), NEW msg, Carried(c, s, msg),
           NEW p \in 0 .. c.length
    PROVE  LET n     == Unwrap(msg.seqno, c.isn, p)
               len   == Len(msg.payload)
               limit == s.input.total_popped
               index == IF msg.SYN THEN 0 ELSE U64(n - 1)
           IN  /\ msg.SYN \in BOOLEAN /\ msg.FIN \in BOOLEAN
               /\ msg.payload \in Seq(c.alphabet)
               /\ msg.SYN => msg.seqno = c.isn /\ s.abs_seqno > 0
               /\ index \in Nat /\ len \in Nat
               /\ len > 0 => index + len <= limit
               /\ msg.FIN => index + len = limit /\ s.FINsent
               /\ \A i \in index .. index + len - 1 :
                     msg.payload[i - index + 1] = c.byte[i]
<1> DEFINE n     == First(c, msg)
           seqno == s.abs_seqno
           limit == s.input.total_popped
           size  == SequenceLength(msg)
           held  == Len(msg.payload)
           syn   == Bit(msg.SYN)
           fin   == Bit(msg.FIN)
           index == IF msg.SYN THEN 0 ELSE U64(n - 1)
<1>1. /\ seqno \in Nat /\ limit \in Nat /\ seqno <= c.length + 2
      /\ limit <= c.length /\ s.FINsent \in BOOLEAN
      /\ seqno > 0 => seqno = 1 + limit + (IF s.FINsent THEN 1 ELSE 0)
    BY SenderNumbers
<1>2. /\ msg \in Msgs(c) /\ n \in Nat /\ msg.seqno = Wrap(n, c.isn)
      /\ msg.SYN <=> (n = 0 /\ size > 0)
      /\ n + size <= seqno
      /\ held > 0 => n + syn + held <= 1 + limit
      /\ msg.FIN => s.FINsent /\ n + size = seqno
    BY DEF Carried
<1>3. \A k \in 1 .. Len(msg.payload) :
          msg.payload[k] = c.byte[First(c, msg) - 1 + Bit(msg.SYN) + k - 1]
    BY DEF Carried
<1>4. /\ held \in Nat /\ size \in Nat /\ syn \in 0 .. 1 /\ fin \in 0 .. 1
      /\ size = syn + held + fin
    BY <1>2, LengthIs
<1>5. /\ msg.SYN \in BOOLEAN /\ msg.FIN \in BOOLEAN
      /\ msg.payload \in Seq(c.alphabet)
    BY <1>2 DEF Msgs
<1>6. /\ syn = (IF msg.SYN THEN 1 ELSE 0) /\ fin = (IF msg.FIN THEN 1 ELSE 0)
    BY DEF Bit
<1>7. c.length \in Nat /\ c.reach \in Nat /\ c.length + 2 <= c.reach
    BY Numbers
<1>8. Unwrap(msg.seqno, c.isn, p) = n
    <2>1. n \in 0 .. c.reach
        <3> HIDE DEF n, seqno, limit, size, held, syn, fin
        <3> QED BY <1>1, <1>2, <1>4, <1>7
    <2> HIDE DEF n
    <2> QED BY <1>2, <2>1, NumberSurvives
<1>9. msg.SYN => msg.seqno = c.isn
    <2>1. c.isn \in 0 .. Mod32 - 1 /\ Mod32 \in Nat /\ Mod32 > 1
        BY Numbers DEF UInt32
    <2>2. Wrap(0, c.isn) = c.isn
        BY <2>1 DEF Wrap, WrapAdd
    <2> QED BY <1>2, <2>2
<1>10. /\ UINT64_MAX \in Nat /\ UINT64_MAX = U64(-1)
       /\ \A x \in 0 .. c.length + 2 : U64(x) = x
    BY StreamIsShort
<1>11. n > 0 => U64(n - 1) = n - 1
    <2>1. n > 0 => n - 1 \in 0 .. c.length + 2
        <3> HIDE DEF n, seqno, limit, size, held, syn, fin
        <3> QED BY <1>1, <1>2, <1>4, <1>7
    <2> QED BY <1>10, <2>1
<1>12. n = 0 => U64(n - 1) = UINT64_MAX
    BY <1>10
<1>13. index = IF msg.SYN THEN 0 ELSE IF n > 0 THEN n - 1 ELSE UINT64_MAX
    <2> HIDE DEF n
    <2> QED BY <1>2, <1>11, <1>12
<1> HIDE DEF n, seqno, limit, size, held, syn, fin, index
<1>14. index \in Nat
    BY <1>2, <1>10, <1>13
<1>15. held > 0 \/ msg.FIN => msg.SYN \/ n > 0
    BY <1>2, <1>4, <1>6
<1>16. msg.SYN \/ n > 0 => index = n - 1 + syn
    <2>1. CASE msg.SYN
        <3>1. n = 0 /\ syn = 1 /\ index = 0
            BY <1>2, <1>6, <1>13, <2>1
        <3> QED BY <3>1
    <2>2. CASE ~ msg.SYN
        <3>1. syn = 0 /\ (n > 0 => index = n - 1)
            BY <1>6, <1>13, <2>2
        <3> QED BY <1>2, <2>2, <3>1
    <2> QED BY <2>1, <2>2
<1>17. held > 0 => index + held <= limit
    BY <1>2, <1>4, <1>14, <1>15, <1>16, <1>1
<1>18. msg.FIN => index + held = limit
    BY <1>1, <1>2, <1>4, <1>6, <1>14, <1>15, <1>16
<1>19. msg.SYN => seqno > 0
    BY <1>1, <1>2, <1>4
<1>20. ASSUME NEW i \in index .. index + held - 1
       PROVE  msg.payload[i - index + 1] = c.byte[i]
    <2>1. held > 0 /\ i - index + 1 \in 1 .. held
        BY <1>4, <1>14
    <2>2. index = n - 1 + syn
        BY <2>1, <1>15, <1>16
    <2>3. n - 1 + syn + (i - index + 1) - 1 = i
        BY <2>2, <1>2, <1>4, <1>14
    <2>4. msg.payload[i - index + 1]
             = c.byte[n - 1 + syn + (i - index + 1) - 1]
        BY <1>3, <2>1 DEF n, syn, held
    <2> QED BY <2>3, <2>4
<1> QED BY <1>2, <1>4, <1>5, <1>8, <1>9, <1>14, <1>17, <1>18, <1>19, <1>20
        DEF n, held, limit, seqno, index

\* The receiver after a message
Takes(c, capacity, s, r, msg) ==
    LET u == TCPReceiverReceive(r, msg)
    IN  /\ ReceiverSide(c, capacity, u, s) /\ ReceiverGrows(r, u)
        /\ msg.SYN => u.ISN # NULLOPT

\* Whatever the other host sent at any time, the receiver still assembles the
\* stream: what is late, repeated or comes too early does no harm.
LEMMA ReceiverTakes ==
    ASSUME NEW c, IsConfig(c), c.errors = {FALSE}, NEW capacity \in Nat,
           NEW s, Good(c, s), NEW r, ReceiverSide(c, capacity, r, s),
           NEW msg, Carried(c, s, msg)
    PROVE  Takes(c, capacity, s, r, msg)
<1> DEFINE u     == TCPReceiverReceive(r, msg)
           R     == r.reassembler
           isn   == IF msg.SYN THEN msg.seqno ELSE r.ISN
           limit == s.input.total_popped
           A     == c.alphabet
           byte  == c.byte
           p     == R.output.total_pushed
           index == IF msg.SYN THEN 0
                    ELSE U64(Unwrap(msg.seqno, c.isn, p) - 1)
           held  == Len(msg.payload)
<1>1. /\ limit \in Nat /\ limit <= c.length /\ c.length \in Nat
      /\ s.abs_seqno \in Nat
    BY SenderNumbers, Numbers
<1>2. /\ Assembling(A, byte, capacity, limit, R)
      /\ R.end_of_stream # UINT64_MAX => s.FINsent
      /\ r.ISN \in {NULLOPT, c.isn} /\ (r.ISN # NULLOPT => s.abs_seqno > 0)
      /\ r = [ISN |-> r.ISN, reassembler |-> r.reassembler]
    BY DEF ReceiverSide
<1>3. p \in Nat /\ p <= limit
    <2> HIDE DEF A, byte, limit, R, p
    <2>1. R.output.total_pushed \in Nat /\ R.output.total_pushed <= limit
        BY <1>1, <1>2, AssemblingFacts
    <2> QED BY <2>1 DEF p
<1>4. p \in 0 .. c.length
    <2> HIDE DEF p, limit
    <2> QED BY <1>1, <1>3
<1>5. /\ msg.SYN \in BOOLEAN /\ msg.FIN \in BOOLEAN /\ msg.payload \in Seq(A)
      /\ msg.SYN => msg.seqno = c.isn /\ s.abs_seqno > 0
      /\ index \in Nat /\ held \in Nat
      /\ held > 0 => index + held <= limit
      /\ msg.FIN => index + held = limit /\ s.FINsent
      /\ \A i \in index .. index + held - 1 :
            msg.payload[i - index + 1] = byte[i]
    <2> HIDE DEF p
    <2> QED BY <1>4, CarriedFacts
<1>6. msg.RST = FALSE
    BY DEF Carried, Msgs
<1>7. u = [ISN |-> isn,
           reassembler |-> IF isn = NULLOPT THEN R
                           ELSE Insert(R, StreamIndex(r, msg, isn),
                                       msg.payload, msg.FIN)]
    BY <1>6 DEF TCPReceiverReceive
<1>8. isn \in {NULLOPT, c.isn} /\ (isn # NULLOPT => s.abs_seqno > 0)
    BY <1>2, <1>5
<1>9. /\ UINT64_MAX \in Nat /\ c.length + 2 < UINT64_MAX
      /\ c.isn \in Int /\ c.isn # NULLOPT
      /\ \A x \in 0 .. c.length + 2 : U64(x) = x
    BY StreamIsShort
<1>10. r.ISN # NULLOPT => isn # NULLOPT
    BY <1>5, <1>9
<1>11. msg.SYN => isn # NULLOPT
    BY <1>5, <1>9
<1>12. CASE isn = NULLOPT
    <2>1. u = r
        BY <1>2, <1>7, <1>10, <1>11, <1>12
    <2>2. ReceiverGrows(r, u)
        <3> HIDE DEF u
        <3> QED BY <1>3, <2>1 DEF ReceiverGrows
    <2> QED BY <1>11, <1>12, <2>1, <2>2 DEF Takes
<1>13. CASE isn # NULLOPT
    <2> DEFINE t == Insert(R, index, msg.payload, msg.FIN)
    <2>1. isn = c.isn
        BY <1>8, <1>13
    <2>2. StreamIndex(r, msg, isn) = index
        BY <2>1 DEF StreamIndex, Inbound, BytesPushed
    <2>3. u = [ISN |-> c.isn, reassembler |-> t]
        BY <1>7, <1>13, <2>1, <2>2
    <2>4. StoresFrom(byte, limit, R, index, msg.payload)
        <3> SUFFICES ASSUME NEW i \in StoredIndices(R, index, msg.payload)
                     PROVE  i < limit /\ msg.payload[i - index + 1] = byte[i]
            BY DEF StoresFrom
        <3>1. i \in index .. index + held - 1
            BY DEF StoredIndices
        <3>2. msg.payload[i - index + 1] = byte[i]
            BY <1>5, <3>1
        <3>3. i < limit
            <4>1. /\ index \in Nat /\ held \in Nat
                  /\ held > 0 => index + held <= limit
                BY <1>5
            <4> HIDE DEF index, held, limit, byte, R
            <4> QED BY <1>1, <3>1, <4>1
        <3> QED BY <3>2, <3>3
    <2>5. EndIndex(R, index, msg.payload, msg.FIN)
             = IF msg.FIN THEN limit ELSE R.end_of_stream
        <3>1. msg.FIN => index + held = limit
            BY <1>5
        <3>2. U64(limit) = limit
            <4>1. limit \in 0 .. c.length + 2
                <5> HIDE DEF limit
                <5> QED BY <1>1
            <4> QED BY <1>9, <4>1
        <3> QED BY <3>1, <3>2 DEF EndIndex
    <2>6. Elements(A, byte, limit)
        <3>1. \A i \in Nat : byte[i] \in A
            BY Values
        <3>2. \A i \in 0 .. limit - 1 : i \in Nat
            OBVIOUS
        <3> QED BY <3>1, <3>2 DEF Elements
    <2>7. limit < UINT64_MAX
        <3> HIDE DEF limit
        <3> QED BY <1>1, <1>9
    <2>8. InsertAssembles(A, byte, capacity, limit, R, index, msg.payload, msg.FIN)
        <3>1. msg.FIN \in BOOLEAN /\ msg.payload \in Seq(A) /\ index \in Nat
            BY <1>5
        <3>2. EndIndex(R, index, msg.payload, msg.FIN) \in {limit, R.end_of_stream}
            BY <2>5
        <3>3. limit \in Nat /\ UINT64_MAX \in Nat
            BY <1>1, <1>9
        <3>4. Assembling(A, byte, capacity, limit, R)
            BY <1>2
        <3> HIDE DEF A, byte, limit, R, index, p, held, isn, u, t
        <3> QED BY <2>4, <2>6, <2>7, <3>1, <3>2, <3>3, <3>4, InsertKeeps
    <2>9. /\ Assembling(A, byte, capacity, limit, t)
          /\ t.output.total_pushed >= R.output.total_pushed
          /\ R.output.stream_closed => t.output.stream_closed
          /\ t.end_of_stream = IF msg.FIN THEN limit ELSE R.end_of_stream
        BY <2>5, <2>8 DEF InsertAssembles
    <2>10. t.end_of_stream # UINT64_MAX => s.FINsent
        BY <1>2, <1>5, <2>9
    <2> HIDE DEF t, u
    <2>11. u.ISN = c.isn /\ u.reassembler = t
        BY <2>3
    <2>12. u = [ISN |-> u.ISN, reassembler |-> u.reassembler]
        BY <2>3, <2>11
    <2>13. ReceiverSide(c, capacity, u, s)
        BY <1>8, <2>1, <1>13, <2>9, <2>10, <2>11, <2>12 DEF ReceiverSide
    <2>14. ReceiverGrows(r, u)
        BY <1>9, <2>9, <2>11 DEF ReceiverGrows
    <2> QED BY <1>9, <2>11, <2>13, <2>14 DEF Takes, u
<1> QED BY <1>12, <1>13

-----------------------------------------------------------------------------
(* What is sent *)

\* What is outstanding was sent.
LEMMA QueueCarried ==
    ASSUME NEW c, IsConfig(c), NEW s, Good(c, s), NEW i \in 1 .. Len(s.outstanding)
    PROVE  Carried(c, s, s.outstanding[i])
<1> DEFINE queue == s.outstanding
           msg   == queue[i]
           next  == s.abs_seqno
           fin   == s.FINsent
           limit == s.input.total_popped
           n     == First(c, msg)
           size  == SequenceLength(msg)
           held  == Len(msg.payload)
           syn   == Bit(msg.SYN)
           end   == Bit(msg.FIN)
           last  == Len(queue)
<1>1. /\ next \in Nat /\ limit \in Nat /\ fin \in BOOLEAN
      /\ next > 0 => next = 1 + limit + (IF fin THEN 1 ELSE 0)
    BY SenderNumbers
<1>2. InOrder(c, queue, next, fin) /\ last \in Nat
    BY GoodFacts DEF Good
<1>3. msg \in Msgs(c) /\ Placed(c, queue, i, next, fin)
    BY <1>1, <1>2, PlacedFacts DEF InOrder
<1>4. /\ n \in Nat /\ msg.seqno = Wrap(n, c.isn) /\ size > 0
      /\ n + size <= next
      /\ n + size = IF i = last THEN next ELSE First(c, queue[i + 1])
      /\ msg.SYN <=> n = 0
      /\ msg.FIN <=> (fin /\ i = last)
      /\ \A k \in 1 .. Len(msg.payload) :
            msg.payload[k] = c.byte[First(c, msg) - 1 + Bit(msg.SYN) + k - 1]
    BY <1>3 DEF Placed
<1>5. /\ held \in Nat /\ size \in Nat /\ syn \in 0 .. 1 /\ end \in 0 .. 1
      /\ size = syn + held + end
    BY <1>3, LengthIs
<1>6. end = IF msg.FIN THEN 1 ELSE 0
    BY DEF Bit
<1>7. i # last => n + size < next
    <2> SUFFICES ASSUME i # last
                 PROVE  n + size < next
        OBVIOUS
    <2> DEFINE j == i + 1
               m == First(c, queue[j])
               z == SequenceLength(queue[j])
    <2>1. j \in 1 .. Len(queue)
        BY <1>2
    <2>2. /\ m \in Nat /\ z \in Nat /\ z > 0 /\ m + z <= next
        <3> HIDE DEF j, queue, next, fin
        <3> QED BY <1>1, <1>2, <2>1, PlacedFacts
    <2>3. n + size = m
        BY <1>4
    <2> HIDE DEF n, size, next, m, z
    <2> QED BY <1>1, <1>4, <1>5, <2>2, <2>3
<1> HIDE DEF n, size, held, syn, end, next, limit, fin, last
<1>8. n + syn + held <= 1 + limit
    <2>1. next > 0 /\ next = 1 + limit + (IF fin THEN 1 ELSE 0)
        BY <1>1, <1>4, <1>5
    <2>2. CASE ~ fin
        BY <1>1, <1>4, <1>5, <2>1, <2>2
    <2>3. CASE fin /\ i = last
        <3>1. end = 1 /\ n + size = next /\ next = 2 + limit
            BY <1>1, <1>4, <1>6, <2>1, <2>3
        <3> QED BY <1>1, <1>4, <1>5, <3>1
    <2>4. CASE fin /\ i # last
        <3>1. n + size < next /\ next = 2 + limit
            BY <1>1, <1>7, <2>1, <2>4
        <3> QED BY <1>1, <1>4, <1>5, <3>1
    <2> QED BY <1>1, <2>2, <2>3, <2>4
<1>9. msg.FIN => fin /\ n + size = next
    BY <1>4
<1> QED BY <1>3, <1>4, <1>8, <1>9 DEF Carried, n, size, held, syn, next, limit, fin

\* An empty message carries the next number.
LEMMA EmptyCarried ==
    ASSUME NEW c, IsConfig(c), NEW s, Good(c, s)
    PROVE  Carried(c, s, MakeEmptyMessage(s))
<1> DEFINE msg   == MakeEmptyMessage(s)
           seqno == s.abs_seqno
           no    == FALSE
           empty == <<>>
<1> HIDE DEF no, empty
<1>1. /\ seqno \in Nat /\ seqno <= c.length + 2 /\ s.isn = c.isn
      /\ c.length \in Nat /\ c.reach \in Nat /\ c.length + 2 <= c.reach
    BY SenderNumbers, GoodFacts, Numbers
<1>2. msg = [seqno |-> Wrap(seqno, c.isn), SYN |-> no, payload |-> empty,
             FIN |-> no, RST |-> s.input.error]
    BY <1>1 DEF MakeEmptyMessage, SenderMessage, HasError, no, empty
<1>3. s.input.error \in c.errors
    BY DEF Good, InputOK
<1>4. seqno \in 0 .. c.reach /\ 0 \in 0 .. c.length
    <2> HIDE DEF seqno
    <2> QED BY <1>1
<1>5. Unwrap(Wrap(seqno, c.isn), c.isn, 0) = seqno
    <2> HIDE DEF seqno
    <2> QED BY <1>4, NumberSurvives
<1>6. Wrap(seqno, c.isn) \in UInt32
    <2>1. c.isn \in UInt32
        BY Numbers
    <2> QED BY <1>1, <2>1, RemainderOfWrapped
<1>7. empty \in Seq(c.alphabet) /\ no \in BOOLEAN /\ Len(empty) = 0
    BY DEF no, empty
<1>8. msg \in Msgs(c)
    BY <1>2, <1>3, <1>6, <1>7 DEF Msgs
<1> HIDE DEF msg
<1>9. /\ msg.seqno = Wrap(seqno, c.isn) /\ msg.SYN = no /\ msg.payload = empty
      /\ msg.FIN = no
    BY <1>2
<1>10. First(c, msg) = seqno
    BY <1>5, <1>9 DEF First
<1>11. SequenceLength(msg) = 0
    BY <1>7, <1>9 DEF SequenceLength, Bit, no
<1>12. 1 .. Len(msg.payload) = {} /\ Len(msg.payload) = 0
    BY <1>7, <1>9
<1> DEFINE n    == First(c, msg)
           size == SequenceLength(msg)
<1>13. /\ n \in Nat /\ msg.seqno = Wrap(n, c.isn)
       /\ n + size <= s.abs_seqno /\ ~ (size > 0) /\ ~ (Len(msg.payload) > 0)
    <2>1. n = seqno /\ size = 0 /\ Len(msg.payload) = 0 /\ seqno \in Nat
        BY <1>1, <1>10, <1>11, <1>12
    <2>2. n + size <= seqno
        <3> HIDE DEF n, size, seqno
        <3> QED BY <2>1
    <2> QED BY <1>9, <2>1, <2>2
<1>14. ~ msg.SYN /\ ~ msg.FIN
    BY <1>9 DEF no
<1>15. \A k \in 1 .. Len(msg.payload) :
           msg.payload[k] = c.byte[n - 1 + Bit(msg.SYN) + k - 1]
    BY <1>12
<1>16. msg.SYN <=> (n = 0 /\ size > 0)
    BY <1>13, <1>14
<1>17. Len(msg.payload) > 0 =>
           n + Bit(msg.SYN) + Len(msg.payload) <= 1 + s.input.total_popped
    BY <1>13
<1>18. msg.FIN => s.FINsent /\ n + size = s.abs_seqno
    BY <1>14
<1>19. n \in Nat /\ msg.seqno = Wrap(n, c.isn) /\ n + size <= s.abs_seqno
    BY <1>13
<1>20. Carried(c, s, msg)
    BY <1>8, <1>15, <1>16, <1>17, <1>18, <1>19 DEF Carried, n, size
<1> QED BY <1>20 DEF msg

\* The messages msgs were sent by s.
AllCarried(c, s, msgs) == \A msg \in ToSet(msgs) : Carried(c, s, msg)

\* What push() sends is in the queue, and so it is carried.
LEMMA PushSends ==
    ASSUME NEW c, IsConfig(c), NEW s, Good(c, s)
    PROVE  AllCarried(c, TCPSenderPush(s).sender, TCPSenderPush(s).sent)
<1> DEFINE r == TCPSenderPush(s)
           t == r.sender
<1>1. /\ Good(c, t) /\ r.sent \in Seq(Msgs(c))
      /\ \A i \in 1 .. Len(r.sent) :
            \E k \in 1 .. Len(t.outstanding) : r.sent[i] = t.outstanding[k]
    <2>1. Good(c, t)
        BY PushKeeps
    <2>2. r.sent \in Seq(Msgs(c))
        BY PushKeeps
    <2>3. \A i \in 1 .. Len(r.sent) :
             \E k \in 1 .. Len(t.outstanding) : r.sent[i] = t.outstanding[k]
        BY PushKeeps
    <2> QED BY <2>1, <2>2, <2>3
<1> HIDE DEF r, t
<1>2. DOMAIN r.sent = 1 .. Len(r.sent)
    BY <1>1
<1>3. \A k \in 1 .. Len(t.outstanding) : Carried(c, t, t.outstanding[k])
    BY <1>1, QueueCarried
<1>4. \A msg \in ToSet(r.sent) : Carried(c, t, msg)
    BY <1>1, <1>2, <1>3 DEF ToSet
<1> QED BY <1>4 DEF AllCarried, r, t

\* What tick() sends again was in the queue; before the SYN it sends nothing.
LEMMA TickSends ==
    ASSUME NEW c, IsConfig(c), NEW s, Good(c, s), NEW ms \in Nat
    PROVE  /\ AllCarried(c, TCPSenderTick(s, ms).sender, TCPSenderTick(s, ms).sent)
           /\ s.abs_seqno = 0 => TCPSenderTick(s, ms).sent = <<>>
<1> DEFINE r == TCPSenderTick(s, ms)
           t == r.sender
<1>1. Good(c, t) /\ t.outstanding = s.outstanding
    BY TickKeeps DEF SameQueue
<1>2. CASE ~ TimeoutExpires(s, ms)
    <2>1. r.sent = <<>>
        BY <1>2 DEF TCPSenderTick
    <2>2. ToSet(r.sent) = {}
        BY <2>1 DEF ToSet
    <2> QED BY <2>1, <2>2 DEF AllCarried
<1>3. CASE TimeoutExpires(s, ms)
    <2>1. s.outstanding # <<>>
        BY <1>3 DEF TimeoutExpires, Good, Timed
    <2>2. s.outstanding \in Seq(Msgs(c)) /\ Len(s.outstanding) \in Nat
        BY GoodFacts
    <2>3. 1 \in 1 .. Len(s.outstanding) /\ Head(s.outstanding) = s.outstanding[1]
        BY <2>1, <2>2
    <2>4. r.sent = <<s.outstanding[1]>>
        BY <1>3, <2>3 DEF TCPSenderTick
    <2>5. ToSet(r.sent) = {s.outstanding[1]}
        BY <2>4 DEF ToSet
    <2>6. 1 \in 1 .. Len(t.outstanding)
        BY <1>1, <2>3
    <2>7. Carried(c, t, t.outstanding[1])
        <3> HIDE DEF t, r
        <3> QED BY <1>1, <2>6, QueueCarried
    <2>8. s.abs_seqno # 0
        <3> DEFINE m == First(c, s.outstanding[1])
                   z == SequenceLength(s.outstanding[1])
        <3>1. s.abs_seqno \in Nat
            BY SenderNumbers
        <3>2. m \in Nat /\ z \in Nat /\ z > 0 /\ m + z <= s.abs_seqno
            <4>1. InOrder(c, s.outstanding, s.abs_seqno, s.FINsent)
                BY DEF Good
            <4> QED BY <2>3, <3>1, <4>1, PlacedFacts
        <3> HIDE DEF m, z
        <3> QED BY <3>1, <3>2
    <2> QED BY <1>1, <2>5, <2>7, <2>8 DEF AllCarried
<1> QED BY <1>2, <1>3

\* No receiver acknowledges more than was sent.
LEMMA ReceivedWasSent ==
    ASSUME NEW c, IsConfig(c), NEW capacity \in Nat, NEW s, Good(c, s),
           NEW r, ReceiverSide(c, capacity, r, s)
    PROVE  /\ Received(r) \in Nat /\ Received(r) <= s.abs_seqno
           /\ r.ISN # NULLOPT => r.ISN = c.isn /\ AbsAckno(r) = Received(r)
                                 /\ Received(r) > 0
           /\ IsClosed(Inbound(r)) => s.FINsent
           /\ AvailableCapacity(Inbound(r)) \in Nat /\ ~ HasError(Inbound(r))
           /\ BytesPushed(Inbound(r)) \in Nat /\ IsClosed(Inbound(r)) \in BOOLEAN
           /\ BytesPushed(Inbound(r)) <= s.input.total_popped
           /\ IsClosed(Inbound(r)) =>
                 BytesPushed(Inbound(r)) = s.input.total_popped
<1> DEFINE R      == r.reassembler
           out    == R.output
           p      == out.total_pushed
           closed == out.stream_closed
           limit  == s.input.total_popped
           seqno  == s.abs_seqno
           A      == c.alphabet
           byte   == c.byte
<1>1. /\ seqno \in Nat /\ limit \in Nat /\ limit <= c.length
      /\ s.FINsent \in BOOLEAN
      /\ seqno > 0 => seqno = 1 + limit + (IF s.FINsent THEN 1 ELSE 0)
    BY SenderNumbers
<1>2. /\ Assembling(A, byte, capacity, limit, R)
      /\ R.end_of_stream # UINT64_MAX => s.FINsent
      /\ r.ISN \in {NULLOPT, c.isn} /\ (r.ISN # NULLOPT => seqno > 0)
    BY DEF ReceiverSide
<1>3. /\ p \in Nat /\ p <= limit /\ out.error = FALSE
      /\ AvailableCapacity(out) \in Nat
    <2> HIDE DEF A, byte, limit, R, p
    <2>1. R.output.total_pushed \in Nat /\ R.output.total_pushed <= limit
          /\ AvailableCapacity(R.output) \in Nat
        BY <1>1, <1>2, AssemblingFacts
    <2>2. R.output.error = FALSE
        BY <1>2 DEF Assembling, IsReassembler
    <2> QED BY <2>1, <2>2 DEF p
<1>4. /\ closed \in BOOLEAN
      /\ closed <=> (R.end_of_stream = limit /\ p = limit)
    BY <1>2 DEF Assembling, OutputOK, EndOK
<1>5. closed => s.FINsent
    <2>1. UINT64_MAX \in Nat /\ c.length + 2 < UINT64_MAX /\ c.length \in Nat
        BY StreamIsShort, Numbers
    <2>2. limit # UINT64_MAX
        <3> HIDE DEF limit
        <3> QED BY <1>1, <2>1
    <2> QED BY <1>2, <1>4, <2>2
<1>6. AbsAckno(r) = p + 1 + (IF closed THEN 1 ELSE 0)
    BY DEF AbsAckno, Inbound, BytesPushed, IsClosed, Bit
<1>7. Received(r) = IF r.ISN = NULLOPT THEN 0 ELSE AbsAckno(r)
    BY DEF Received
<1>8. /\ BytesPushed(Inbound(r)) = p /\ IsClosed(Inbound(r)) = closed
      /\ ~ HasError(Inbound(r)) /\ AvailableCapacity(Inbound(r)) \in Nat
    BY <1>3 DEF BytesPushed, IsClosed, HasError, Inbound
<1>9. closed => p = limit
    BY <1>4
<1> HIDE DEF p, closed, limit, seqno, R, out
<1>10. AbsAckno(r) \in Nat /\ AbsAckno(r) > 0
    BY <1>3, <1>6
<1>11. seqno > 0 => AbsAckno(r) <= seqno
    <2>1. CASE closed
        BY <1>1, <1>3, <1>5, <1>6, <2>1
    <2>2. CASE ~ closed
        BY <1>1, <1>3, <1>6, <2>2
    <2> QED BY <2>1, <2>2
<1>12. Received(r) \in Nat /\ Received(r) <= seqno
    BY <1>1, <1>2, <1>7, <1>10, <1>11
<1>13. r.ISN # NULLOPT => r.ISN = c.isn /\ AbsAckno(r) = Received(r)
                          /\ Received(r) > 0
    BY <1>2, <1>7, <1>10
<1> QED BY <1>3, <1>4, <1>5, <1>8, <1>9, <1>12, <1>13 DEF seqno, limit

\* What a receiver says is an ackno of what it received, or none at first.
LEMMA SendIs ==
    ASSUME NEW c, IsConfig(c), NEW capacity \in Nat, NEW s, Good(c, s),
           NEW r, ReceiverSide(c, capacity, r, s),
           NEW host, host = Client \/ r.ISN # NULLOPT
    PROVE  Acknowledges(c, host, r, TCPReceiverSend(r))
<1> DEFINE no    == FALSE
           ackno == IF r.ISN = NULLOPT THEN NULLOPT ELSE Wrap(AbsAckno(r), r.ISN)
           w     == Lesser(AvailableCapacity(Inbound(r)), UINT16_MAX)
           msg   == TCPReceiverSend(r)
<1> HIDE DEF no
<1>1. /\ r.ISN # NULLOPT => r.ISN = c.isn /\ AbsAckno(r) = Received(r)
                            /\ Received(r) > 0
      /\ AvailableCapacity(Inbound(r)) \in Nat /\ HasError(Inbound(r)) = no
      /\ Received(r) \in Nat
    <2>1. HasError(Inbound(r)) \in BOOLEAN /\ ~ HasError(Inbound(r))
        <3>1. HasError(Inbound(r)) = FALSE
            BY DEF HasError, Inbound, ReceiverSide, Assembling, IsReassembler
        <3> QED BY <3>1
    <2> QED BY <2>1, ReceivedWasSent DEF no
<1>2. w \in Nat
    <2>1. Mod16 \in Nat /\ Mod16 > 0
        BY Numbers
    <2> QED BY <1>1, <2>1 DEF Lesser, UINT16_MAX
<1>3. msg = [ackno |-> ackno, window_size |-> w, RST |-> no]
    BY <1>1 DEF TCPReceiverSend, ReceiverMessage
<1> HIDE DEF msg, w
<1>4. /\ msg.ackno = ackno /\ msg.window_size = w /\ msg.RST = no
      /\ msg = [ackno |-> msg.ackno, window_size |-> msg.window_size, RST |-> no]
    BY <1>3
<1>5. CASE r.ISN = NULLOPT
    BY <1>2, <1>4, <1>5 DEF Acknowledges, msg, no
<1>6. CASE r.ISN # NULLOPT
    <2> DEFINE a == Received(r)
    <2>1. a \in Nat /\ a > 0 /\ ackno = Wrap(a, c.isn)
        BY <1>1, <1>6
    <2> HIDE DEF a, ackno
    <2>2. a \in 1 .. a
        BY <2>1
    <2>3. \E x \in 1 .. Received(r) : msg.ackno = Wrap(x, c.isn)
        BY <1>4, <2>1, <2>2 DEF a
    <2> QED BY <1>2, <1>4, <2>3 DEF Acknowledges, msg, no
<1> QED BY <1>5, <1>6

\* What was received stays received.
LEMMA ReceivedGrows ==
    ASSUME NEW c, IsConfig(c), NEW capacity \in Nat, NEW s, Good(c, s),
           NEW r, ReceiverSide(c, capacity, r, s),
           NEW u, ReceiverSide(c, capacity, u, s), ReceiverGrows(r, u)
    PROVE  Received(r) <= Received(u)
<1> DEFINE p == BytesPushed(Inbound(r))
           q == BytesPushed(Inbound(u))
           x == IsClosed(Inbound(r))
           y == IsClosed(Inbound(u))
<1>1. /\ p \in Nat /\ q \in Nat /\ x \in BOOLEAN /\ y \in BOOLEAN
      /\ Received(r) \in Nat /\ Received(u) \in Nat
      /\ r.ISN # NULLOPT => AbsAckno(r) = Received(r)
      /\ u.ISN # NULLOPT => AbsAckno(u) = Received(u)
    BY ReceivedWasSent
<1>2. q >= p /\ (x => y) /\ (r.ISN # NULLOPT => u.ISN # NULLOPT)
    BY DEF ReceiverGrows, BytesPushed, IsClosed, Inbound
<1>3. /\ AbsAckno(r) = p + 1 + (IF x THEN 1 ELSE 0)
      /\ AbsAckno(u) = q + 1 + (IF y THEN 1 ELSE 0)
    BY DEF AbsAckno, Bit
<1>4. r.ISN = NULLOPT => Received(r) = 0
    BY DEF Received
<1> HIDE DEF p, q, x, y
<1>5. AbsAckno(r) <= AbsAckno(u)
    BY <1>1, <1>2, <1>3
<1> QED BY <1>1, <1>2, <1>4, <1>5

\* An old ackno is still one of a byte received.
LEMMA AcknowledgesStays ==
    ASSUME NEW c, NEW host, NEW r, NEW u, Received(r) \in Nat,
           Received(u) \in Nat, Received(r) <= Received(u),
           NEW msg, Acknowledges(c, host, r, msg)
    PROVE  Acknowledges(c, host, u, msg)
<1>1. 1 .. Received(r) \subseteq 1 .. Received(u)
    <2> DEFINE a == Received(r)
               b == Received(u)
    <2>1. a \in Nat /\ b \in Nat /\ a <= b
        OBVIOUS
    <2> HIDE DEF a, b
    <2>2. 1 .. a \subseteq 1 .. b
        BY <2>1
    <2> QED BY <2>2 DEF a, b
<1> QED BY <1>1 DEF Acknowledges

\* Without resets, a message is on the wire what it was.
LEMMA WireIs ==
    ASSUME NEW c, c.errors = {FALSE}, NEW msg \in Msgs(c), NEW r,
           r = [ackno |-> r.ackno, window_size |-> r.window_size, RST |-> FALSE]
    PROVE  OnWire(TCPMessage(msg, r)) = [sender |-> msg, receiver |-> r]
<1> DEFINE no == FALSE
           m  == TCPMessage(msg, r)
<1> HIDE DEF no
<1>1. msg.RST = no /\ r.RST = no
    <2>1. msg.RST \in c.errors
        BY DEF Msgs
    <2>2. r = [ackno |-> r.ackno, window_size |-> r.window_size, RST |-> no]
        BY DEF no
    <2>3. r.RST = no
        BY <2>2
    <2> QED BY <2>1, <2>3 DEF no
<1>2. [msg EXCEPT !.RST = no] = msg
    BY <1>1 DEF Msgs
<1>3. [r EXCEPT !.RST = no] = r
    <2>1. r = [ackno |-> r.ackno, window_size |-> r.window_size, RST |-> no]
        BY DEF no
    <2> QED BY <2>1
<1>4. (m.sender.RST \/ m.receiver.RST) = no
    BY <1>1 DEF TCPMessage, no
<1>5. OnWire(m) = [m EXCEPT !.sender.RST = no, !.receiver.RST = no]
    BY <1>4 DEF OnWire
<1> DEFINE m1 == [m EXCEPT !.sender = [msg EXCEPT !.RST = no]]
<1>6. m1 = m
    BY <1>2 DEF TCPMessage
<1>7. OnWire(m) = [m EXCEPT !.receiver = [r EXCEPT !.RST = no]]
    BY <1>2, <1>3, <1>5 DEF TCPMessage
<1> QED BY <1>3, <1>7 DEF TCPMessage

\* The messages that a host sends with its receiver's answer
AllOf(h, p, msgs) == \A msg \in msgs : MessageOf(h, p, msg)

\* Messages that carry what receiver().send() says are messages of the host.
LEMMA WithReceiverSends ==
    ASSUME NEW h \in Hosts, NEW p, NEW msgs, AllCarried(Cfg(h), p.sender, msgs),
           NEW a, a.receiver = p.receiver,
           Acknowledges(Cfg(Other(h)), h, p.receiver, TCPReceiverSend(p.receiver))
    PROVE  AllOf(h, p, ToSet(WithReceiver(a, msgs)))
<1> DEFINE r == TCPReceiverSend(p.receiver)
<1>1. r = [ackno |-> r.ackno, window_size |-> r.window_size, RST |-> FALSE]
    BY DEF Acknowledges
<1>2. Cfg(h).errors = {FALSE}
    BY ConfigIs
<1> SUFFICES ASSUME NEW i \in DOMAIN msgs
             PROVE  MessageOf(h, p, OnWire(TCPMessage(msgs[i], r)))
    BY DEF AllOf, ToSet, WithReceiver
<1>3. Carried(Cfg(h), p.sender, msgs[i]) /\ msgs[i] \in Msgs(Cfg(h))
    BY DEF AllCarried, ToSet, Carried
<1> DEFINE m == OnWire(TCPMessage(msgs[i], r))
<1> HIDE DEF r
<1>4. m = [sender |-> msgs[i], receiver |-> r]
    BY <1>1, <1>2, <1>3, WireIs
<1> HIDE DEF m
<1>5. m.sender = msgs[i] /\ m.receiver = r
    BY <1>4
<1>6. MessageOf(h, p, m)
    BY <1>3, <1>4, <1>5 DEF MessageOf, r
<1> QED BY <1>6 DEF m, r

-----------------------------------------------------------------------------
(* A step of one host *)

\* The program writes, or closes its stream, or does nothing.
InputStep(a, b) ==
    \/ b.total_pushed = a.total_pushed /\ b.stream_closed = a.stream_closed
    \/ /\ b.total_pushed > a.total_pushed
       /\ ~ a.stream_closed /\ ~ b.stream_closed
    \/ b.total_pushed = a.total_pushed /\ b.stream_closed

AckStep(h, s, t, r) ==
    EmptyAcknoIgnored /\ AckOK(Cfg(h), s, r) => AckOK(Cfg(h), t, r)

\* Host h, which was p, is u after a step in which it sent messages, while the
\* other host is q.
HostStep(h, p, q, u, sent) ==
    /\ IsPeer(u) /\ Good(Cfg(h), u.sender) /\ Advances(p.sender, u.sender)
    /\ ReceiverSide(Cfg(Other(h)), Config[h].recv_capacity, u.receiver, q.sender)
    /\ ReceiverGrows(p.receiver, u.receiver)
    /\ AllOf(h, u, sent) /\ LingerOK(u, q)
    /\ \/ u.linger_after_streams_finish = p.linger_after_streams_finish
       \/ ~ u.sender.FINsent
    /\ InputStep(p.sender.input, u.sender.input)
    /\ AckStep(h, p.sender, u.sender, q.receiver)

\* A message of a host is one of what the host became.
LEMMA MessageStays ==
    ASSUME NEW h \in Hosts, NEW p, NEW q, NEW u, NEW sent,
           HostStep(h, p, q, u, sent), Good(Cfg(h), p.sender),
           Good(Cfg(Other(h)), q.sender),
           ReceiverSide(Cfg(Other(h)), Config[h].recv_capacity, p.receiver,
                        q.sender),
           NEW msg, MessageOf(h, p, msg)
    PROVE  MessageOf(h, u, msg)
<1> DEFINE c == Cfg(h)
           d == Cfg(Other(h))
           n == Config[h].recv_capacity
<1>1. IsConfig(c) /\ IsConfig(d) /\ n \in Nat
    BY ConfigIs
<1>2. /\ Good(c, u.sender) /\ Advances(p.sender, u.sender)
      /\ ReceiverSide(d, n, u.receiver, q.sender)
      /\ ReceiverGrows(p.receiver, u.receiver)
    BY DEF HostStep
<1>3. /\ Carried(c, p.sender, msg.sender)
      /\ Acknowledges(d, h, p.receiver, msg.receiver)
      /\ msg = [sender |-> msg.sender, receiver |-> msg.receiver]
    BY DEF MessageOf
<1> HIDE DEF c, d, n
<1>4. Carried(c, u.sender, msg.sender)
    BY <1>1, <1>2, <1>3, CarriedStays DEF c
<1>5. ReceiverSide(d, n, p.receiver, q.sender) /\ Good(d, q.sender)
    BY DEF d, n
<1>6. /\ Received(p.receiver) <= Received(u.receiver)
      /\ Received(p.receiver) \in Nat /\ Received(u.receiver) \in Nat
    BY <1>1, <1>2, <1>5, ReceivedGrows, ReceivedWasSent
<1>7. Acknowledges(d, h, u.receiver, msg.receiver)
    BY <1>3, <1>6, AcknowledgesStays
<1> QED BY <1>3, <1>4, <1>7 DEF MessageOf, c, d

\* A step of one host keeps the invariant: the other host's messages and what it
\* assembled still fit the new sender, and its sender fits the new receiver.
LEMMA HostStepKeeps ==
    ASSUME IInv, NEW h \in Hosts, NEW u, NEW sent,
           HostStep(h, peer[h], peer[Other(h)], u, sent),
           peer' = [peer EXCEPT ![h] = u],
           net' = [net EXCEPT ![Other(h)] = @ \cup sent], ListeningOK',
           FINFollows(u.sender)
    PROVE  IInv'
<1> DEFINE o == Other(h)
           p == peer[h]
           q == peer[o]
<1>1. o \in Hosts /\ Other(o) = h /\ o # h /\ Hosts = {h, o}
    BY ConfigIs DEF Hosts, Other
<1>2. IsConfig(Cfg(h)) /\ IsConfig(Cfg(o)) /\ Config[o].recv_capacity \in Nat
    BY <1>1, ConfigIs
<1>3. /\ peer' = [x \in Hosts |-> peer'[x]] /\ peer'[h] = u /\ peer'[o] = q
    BY <1>1 DEF IInv
<1>4. /\ net' = [x \in Hosts |-> net'[x]]
      /\ net'[o] = net[o] \cup sent /\ net'[h] = net[h]
    BY <1>1 DEF IInv
<1>5. /\ IsPeer(p) /\ IsPeer(q) /\ Direction(h, p, q) /\ Direction(o, q, p)
      /\ LingerOK(p, q) /\ LingerOK(q, p) /\ FINFollows(q.sender)
      /\ \A msg \in net[o] : MessageOf(h, p, msg)
      /\ \A msg \in net[h] : MessageOf(o, q, msg)
    BY <1>1 DEF IInv
<1>6. /\ IsPeer(u) /\ Good(Cfg(h), u.sender) /\ Advances(p.sender, u.sender)
      /\ ReceiverSide(Cfg(o), Config[h].recv_capacity, u.receiver, q.sender)
      /\ AllOf(h, u, sent) /\ LingerOK(u, q)
      /\ \/ u.linger_after_streams_finish = p.linger_after_streams_finish
         \/ ~ u.sender.FINsent
    BY DEF HostStep
<1>7. /\ Good(Cfg(h), p.sender) /\ Good(Cfg(o), q.sender)
      /\ ReceiverSide(Cfg(h), Config[o].recv_capacity, q.receiver, p.sender)
      /\ ReceiverSide(Cfg(o), Config[h].recv_capacity, p.receiver, q.sender)
    BY <1>1, <1>5 DEF Direction
<1>8. Direction(h, u, q)
    <2>1. ReceiverSide(Cfg(h), Config[o].recv_capacity, q.receiver, u.sender)
        BY <1>2, <1>6, <1>7, ReceiverStays
    <2> QED BY <1>6, <2>1 DEF Direction
<1>9. Direction(o, q, u)
    BY <1>1, <1>6, <1>7 DEF Direction
<1>10. LingerOK(q, u)
    BY <1>5, <1>6 DEF LingerOK, Advances
<1>11. \A msg \in net'[o] : MessageOf(h, u, msg)
    <2> TAKE msg \in net'[o]
    <2>1. CASE msg \in net[o]
        <3> HIDE DEF p, q
        <3> QED BY <1>5, <1>7, <2>1, MessageStays DEF p, q
    <2>2. CASE msg \in sent
        BY <1>6, <2>2 DEF AllOf
    <2> QED BY <1>4, <2>1, <2>2
<1>12. \A msg \in net'[h] : MessageOf(o, q, msg)
    BY <1>4, <1>5
<1>13. u.linger_after_streams_finish \/ q.linger_after_streams_finish
    <2>1. p.linger_after_streams_finish \/ q.linger_after_streams_finish
        BY <1>1 DEF IInv
    <2>2. ~ q.linger_after_streams_finish => u.sender.FINsent
        BY <1>10 DEF LingerOK
    <2> QED BY <1>6, <2>1, <2>2
<1>14. \A x \in Hosts :
          /\ IsPeer(peer'[x])
          /\ Direction(x, peer'[x], peer'[Other(x)])
          /\ LingerOK(peer'[x], peer'[Other(x)]) /\ FINFollows(peer'[x].sender)
          /\ \A msg \in net'[Other(x)] : MessageOf(x, peer'[x], msg)
    <2> TAKE x \in Hosts
    <2>1. CASE x = h
        BY <1>3, <1>6, <1>8, <1>11, <2>1
    <2>2. CASE x = o
        BY <1>1, <1>3, <1>5, <1>9, <1>10, <1>12, <2>2
    <2> QED BY <1>1, <2>1, <2>2
<1>15. \E x \in Hosts : peer'[x].linger_after_streams_finish
    BY <1>1, <1>3, <1>13
<1> QED BY <1>3, <1>4, <1>14, <1>15 DEF IInv

\* What push() changes of a peer
LEMMA PeerIs ==
    ASSUME NEW p, IsPeer(p), NEW s
    PROVE  LET u == [p EXCEPT !.sender = s]
           IN  /\ IsPeer(u) /\ u.sender = s /\ u.receiver = p.receiver
               /\ u.linger_after_streams_finish = p.linger_after_streams_finish
               /\ u.since_receipt = p.since_receipt
               /\ u.rt_timeout = p.rt_timeout
BY DEF IsPeer

\* A sender that has nothing to send into its window waits for an answer, or
\* sent its FIN, or its stream goes on.
LEMMA StuckFollows ==
    ASSUME NEW c, IsConfig(c), NEW s, Good(c, s), Stuck(s)
    PROVE  FINFollows(s)
<1> SUFFICES ASSUME IsFinished(s.input), s.outstanding = <<>>
             PROVE  s.FINsent
    BY DEF FINFollows
<1>1. SequenceNumbersInFlight(s) = 0
    BY InFlightIs
<1>2. RemainingWindow(s) # 0
    <2>1. s.window_size \in Nat
        BY DEF Good, FieldsOK
    <2> QED BY <1>1, <2>1 DEF RemainingWindow
<1> QED BY <1>2 DEF Stuck

\* A host that pushes at the end of a step
LEMMA PushFollows ==
    ASSUME NEW h \in Hosts, NEW p, Good(Cfg(h), p.sender),
           NEW q, Good(Cfg(Other(h)), q.sender),
           NEW v, HostStep(h, p, q, v, {}),
           v.linger_after_streams_finish = p.linger_after_streams_finish,
           h = Client \/ v.receiver.ISN # NULLOPT
    PROVE  LET u == PeerPush(v).peer
           IN  /\ HostStep(h, p, q, u, ToSet(PeerPush(v).sent))
               /\ u.linger_after_streams_finish = p.linger_after_streams_finish
               /\ u.receiver = v.receiver /\ FINFollows(u.sender)
<1> DEFINE r == TCPSenderPush(v.sender)
           u == [v EXCEPT !.sender = r.sender]
           c == Cfg(h)
           d == Cfg(Other(h))
           n == Config[h].recv_capacity
           sent == WithReceiver(v, r.sent)
<1>1. PeerPush(v) = [peer |-> u, sent |-> sent]
    BY DEF PeerPush, Sending
<1>2. /\ IsPeer(v) /\ Good(c, v.sender) /\ Advances(p.sender, v.sender)
      /\ ReceiverSide(d, n, v.receiver, q.sender)
      /\ ReceiverGrows(p.receiver, v.receiver) /\ LingerOK(v, q)
    BY DEF HostStep
<1>3. IsConfig(c) /\ IsConfig(d) /\ n \in Nat
    BY ConfigIs
<1>4. Good(c, r.sender) /\ PushedOn(c, v.sender, r.sender)
    <2> HIDE DEF c
    <2> QED BY <1>2, <1>3, PushKeeps
<1>5. AllCarried(c, r.sender, r.sent)
    <2> HIDE DEF c
    <2> QED BY <1>2, <1>3, PushSends
<1>6. Acknowledges(d, h, v.receiver, TCPReceiverSend(v.receiver))
    <2>1. Good(d, q.sender)
        OBVIOUS
    <2> HIDE DEF d, n
    <2> QED BY <1>2, <1>3, <2>1, SendIs
<1> HIDE DEF r
<1>7. /\ IsPeer(u) /\ u.sender = r.sender /\ u.receiver = v.receiver
      /\ u.linger_after_streams_finish = v.linger_after_streams_finish
    BY <1>2, PeerIs
<1> HIDE DEF u
<1>8. Advances(p.sender, u.sender)
    <2>1. Advances(v.sender, r.sender)
        <3> HIDE DEF c
        <3> QED BY <1>2, <1>3, <1>4, PushedAdvances
    <2>2. Good(c, p.sender)
        OBVIOUS
    <2> HIDE DEF c
    <2> QED BY <1>2, <1>3, <1>4, <1>7, <2>1, <2>2, AdvancesTransitive
<1>9. AllOf(h, u, ToSet(sent))
    <2> HIDE DEF sent
    <2> QED BY <1>5, <1>6, <1>7, WithReceiverSends DEF sent
<1>10. LingerOK(u, q)
    BY <1>2, <1>7 DEF LingerOK
<1>11. InputStep(p.sender.input, u.sender.input)
    BY <1>4, <1>7 DEF HostStep, InputStep, PushedOn
<1>12. AckStep(h, p.sender, u.sender, q.receiver)
    BY <1>4, <1>7 DEF HostStep, AckStep, AckOK, PushedOn
<1>13. HostStep(h, p, q, u, ToSet(sent))
    BY <1>2, <1>4, <1>7, <1>8, <1>9, <1>10, <1>11, <1>12 DEF HostStep
<1>14. FINFollows(u.sender)
    <2>1. Stuck(r.sender)
        <3> HIDE DEF c
        <3> QED BY <1>2, <1>3, PushKeeps DEF r
    <2>2. FINFollows(r.sender)
        <3> HIDE DEF c
        <3> QED BY <1>3, <1>4, <2>1, StuckFollows
    <2> QED BY <1>7, <2>2
<1> HIDE DEF sent
<1>15. PeerPush(v).peer = u /\ PeerPush(v).sent = sent
    BY <1>1
<1> QED BY <1>7, <1>13, <1>14, <1>15

\* What the invariant says of host h, which is p, while the other one is q
PairOK(h, p, q) ==
    /\ IsPeer(p) /\ Good(Cfg(h), p.sender) /\ Good(Cfg(Other(h)), q.sender)
    /\ ReceiverSide(Cfg(Other(h)), Config[h].recv_capacity, p.receiver, q.sender)
    /\ ReceiverSide(Cfg(h), Config[Other(h)].recv_capacity, q.receiver, p.sender)
    /\ LingerOK(p, q) /\ FINFollows(p.sender)

\* The invariant, as a host h sees it
LEMMA PairIs ==
    ASSUME IInv, NEW h \in Hosts
    PROVE  /\ PairOK(h, peer[h], peer[Other(h)])
           /\ \A msg \in net[h] : MessageOf(Other(h), peer[Other(h)], msg)
<1> DEFINE o == Other(h)
<1>1. o \in Hosts /\ Other(o) = h
    BY ConfigIs
<1>2. /\ IsPeer(peer[h]) /\ Direction(h, peer[h], peer[o])
      /\ LingerOK(peer[h], peer[o]) /\ FINFollows(peer[h].sender)
    BY <1>1 DEF IInv
<1>3. Direction(o, peer[o], peer[h])
    BY <1>1 DEF IInv
<1>4. \A msg \in net[h] : MessageOf(o, peer[o], msg)
    BY <1>1 DEF IInv
<1> HIDE DEF o
<1>5. PairOK(h, peer[h], peer[o])
    BY <1>1, <1>2, <1>3 DEF Direction, PairOK, o
<1> QED BY <1>4, <1>5 DEF o

\* A step that does not concern the receiver
LEMMA SenderFollows ==
    ASSUME NEW h \in Hosts, NEW p, NEW q, PairOK(h, p, q), NEW v, IsPeer(v),
           v.receiver = p.receiver,
           v.linger_after_streams_finish = p.linger_after_streams_finish,
           Good(Cfg(h), v.sender), Advances(p.sender, v.sender),
           InputStep(p.sender.input, v.sender.input),
           AckStep(h, p.sender, v.sender, q.receiver),
           NEW sent, AllOf(h, v, sent)
    PROVE  HostStep(h, p, q, v, sent)
<1>1. /\ ReceiverSide(Cfg(Other(h)), Config[h].recv_capacity, v.receiver, q.sender)
      /\ LingerOK(v, q)
    BY DEF PairOK, LingerOK
<1>2. ReceiverGrows(p.receiver, v.receiver)
    <2>1. BytesPushed(Inbound(p.receiver)) \in Nat
        <3> DEFINE d == Cfg(Other(h))
                   n == Config[h].recv_capacity
        <3>1. /\ IsConfig(d) /\ n \in Nat /\ Good(d, q.sender)
              /\ ReceiverSide(d, n, p.receiver, q.sender)
            BY ConfigIs DEF PairOK
        <3> HIDE DEF d, n
        <3> QED BY <3>1, ReceivedWasSent
    <2>2. p.receiver.reassembler.output.total_pushed \in Nat
        BY <2>1 DEF BytesPushed, Inbound
    <2> QED BY <2>2 DEF ReceiverGrows
<1> QED BY <1>1, <1>2 DEF HostStep

\* Numbers, queue and acknowledgement stay.
LEMMA SameQueueAck ==
    ASSUME NEW h, NEW s, NEW t, SameQueue(s, t), NEW r
    PROVE  AckStep(h, s, t, r)
BY DEF AckStep, AckOK, SameQueue, AckPlaced

\* No message is no message.
LEMMA NothingSent ==
    ASSUME NEW h, NEW p
    PROVE  AllOf(h, p, {})
BY DEF AllOf

\* The program writes or closes its stream.
LEMMA InputFollows ==
    ASSUME NEW h \in Hosts, NEW p, NEW q, PairOK(h, p, q),
           NEW b, InputOK(Cfg(h), b),
           b.total_popped = p.sender.input.total_popped,
           ~ p.sender.FINsent, InputStep(p.sender.input, b)
    PROVE  LET v == [p EXCEPT !.sender = [p.sender EXCEPT !.input = b]]
           IN  /\ HostStep(h, p, q, v, {}) /\ v.receiver = p.receiver
               /\ v.linger_after_streams_finish = p.linger_after_streams_finish
<1> DEFINE s == p.sender
           t == [s EXCEPT !.input = b]
           v == [p EXCEPT !.sender = t]
           c == Cfg(h)
<1>1. IsConfig(c) /\ Good(c, s) /\ IsPeer(p)
    BY ConfigIs DEF PairOK
<1>2. Good(c, t) /\ SameQueue(s, t)
    <2> HIDE DEF c
    <2> QED BY <1>1, NewInputKeeps DEF c
<1>3. t.input = b /\ t.abs_seqno = s.abs_seqno
    <2>1. s = [input |-> s.input, isn |-> c.isn, initial_RTO_ms |-> c.rto,
               outstanding |-> s.outstanding, RTO |-> s.RTO,
               timer_time |-> s.timer_time, timer_on |-> s.timer_on,
               abs_seqno |-> s.abs_seqno, abs_ackno |-> s.abs_ackno,
               consecutive_retransmissions |-> s.consecutive_retransmissions,
               window_size |-> s.window_size, FINsent |-> s.FINsent]
        BY <1>1 DEF Good, IsSender, Sender
    <2> QED BY <2>1
<1> HIDE DEF t
<1>4. /\ IsPeer(v) /\ v.sender = t /\ v.receiver = p.receiver
      /\ v.linger_after_streams_finish = p.linger_after_streams_finish
    BY <1>1, PeerIs
<1> HIDE DEF v
<1>5. Advances(s, t)
    <2>1. s.abs_seqno \in Nat /\ s.input.total_popped \in Nat
        <3> HIDE DEF c
        <3> QED BY <1>1, SenderNumbers
    <2> QED BY <1>3, <2>1 DEF Advances
<1>6. AckStep(h, s, t, q.receiver)
    BY <1>2, SameQueueAck
<1>7. AllOf(h, v, {})
    BY NothingSent
<1>8. HostStep(h, p, q, v, {})
    BY <1>2, <1>3, <1>4, <1>5, <1>6, <1>7, SenderFollows
<1> QED BY <1>4, <1>8 DEF v, t

-----------------------------------------------------------------------------
(* The actions *)

\* The step is one of host h, which becomes u and sends messages.
Moves(h, u, sent) ==
    /\ HostStep(h, peer[h], peer[Other(h)], u, sent) /\ FINFollows(u.sender)
    /\ peer' = [peer EXCEPT ![h] = u]
    /\ net' = [net EXCEPT ![Other(h)] = @ \cup sent]
    /\ ListeningOK'

HostMoves(h) == \E u, sent : Moves(h, u, sent)

\* Whoever waits for the client's SYN goes on waiting, or has seen it.
LEMMA StillListening ==
    ASSUME IInv, NEW h \in Hosts, NEW u, peer' = [peer EXCEPT ![h] = u],
           UNCHANGED listening,
           h = Server =>
              IF listening THEN u.sender.abs_seqno = 0 /\ u.sender.abs_ackno = 0
              ELSE u.receiver.ISN # NULLOPT
    PROVE  ListeningOK'
<1>1. Server \in Hosts /\ peer'[Server] = IF h = Server THEN u ELSE peer[Server]
    BY DEF IInv, Hosts
<1>2. listening \in BOOLEAN /\ listening' = listening
    BY DEF IInv, ListeningOK
<1>3. CASE h = Server
    <2>1. peer'[Server] = u
        BY <1>1, <1>3
    <2> QED BY <1>2, <1>3, <2>1 DEF ListeningOK
<1>4. CASE h # Server
    <2>1. peer'[Server] = peer[Server]
        BY <1>1, <1>4
    <2> QED BY <1>2, <2>1 DEF ListeningOK, IInv
<1> QED BY <1>3, <1>4

\* The end of a step that pushes: what happened before is v.
LEMMA PushMoves ==
    ASSUME IInv, NEW h \in Hosts, NEW v,
           HostStep(h, peer[h], peer[Other(h)], v, {}),
           v.linger_after_streams_finish = peer[h].linger_after_streams_finish,
           v.receiver = peer[h].receiver, h = Server => ~ listening,
           Transmitting(h, PeerPush(v)), UNCHANGED listening
    PROVE  HostMoves(h)
<1> DEFINE p    == peer[h]
           q    == peer[Other(h)]
           u    == PeerPush(v).peer
           sent == ToSet(PeerPush(v).sent)
<1>1. PairOK(h, p, q)
    BY PairIs
<1>2. h = Client \/ v.receiver.ISN # NULLOPT
    BY DEF IInv, ListeningOK, Hosts
<1>3. /\ HostStep(h, p, q, u, sent) /\ u.receiver = p.receiver
      /\ FINFollows(u.sender)
    BY <1>1, <1>2, PushFollows DEF PairOK
<1>4. /\ peer' = [peer EXCEPT ![h] = u]
      /\ net' = [net EXCEPT ![Other(h)] = @ \cup sent]
    BY DEF Transmitting
<1> HIDE DEF u, sent
<1>5. ListeningOK'
    <2>1. h = Server => u.receiver.ISN # NULLOPT
        BY <1>3 DEF IInv, ListeningOK
    <2> QED BY <1>4, <2>1, StillListening
<1>6. Moves(h, u, sent)
    BY <1>3, <1>4, <1>5 DEF Moves
<1> QED BY <1>6 DEF HostMoves

\* A host that changed nothing yet
LEMMA HostStays ==
    ASSUME NEW h \in Hosts, NEW p, NEW q, PairOK(h, p, q)
    PROVE  HostStep(h, p, q, p, {})
<1>1. IsPeer(p) /\ Good(Cfg(h), p.sender)
    BY DEF PairOK
<1>2. Advances(p.sender, p.sender)
    <2>1. IsConfig(Cfg(h))
        BY ConfigIs
    <2>2. p.sender.abs_seqno \in Nat /\ p.sender.input.total_popped \in Nat
        BY <1>1, <2>1, SenderNumbers
    <2> QED BY <2>2 DEF Advances
<1>3. InputStep(p.sender.input, p.sender.input)
    BY DEF InputStep
<1>4. AckStep(h, p.sender, p.sender, q.receiver)
    BY DEF AckStep
<1> QED BY <1>1, <1>2, <1>3, <1>4, SenderFollows, NothingSent

\* push() of the client sends the SYN.
LEMMA ConnectMoves ==
    ASSUME IInv, Connect
    PROVE  HostMoves(Client)
<1>1. Client \in Hosts /\ Client # Server
    BY ConnectionAssumption DEF Hosts
<1>2. HostStep(Client, peer[Client], peer[Other(Client)], peer[Client], {})
    BY <1>1, PairIs, HostStays
<1> QED BY <1>1, <1>2, PushMoves DEF Connect

\* A host that may write knows that the other one is there.
LEMMA WriterKnows ==
    ASSUME IInv, NEW h \in Hosts, MayWrite(h)
    PROVE  /\ h = Server => ~ listening
           /\ ~ peer[h].sender.input.stream_closed /\ ~ peer[h].sender.FINsent
<1>1. peer[h].sender.abs_ackno > 0 /\ ~ peer[h].sender.input.stream_closed
    BY DEF MayWrite, Established, Finished, IsClosed, Outbound
<1>2. h = Server => ~ listening
    BY <1>1 DEF IInv, ListeningOK
<1>3. Good(Cfg(h), peer[h].sender)
    BY PairIs DEF PairOK
<1>4. ~ peer[h].sender.FINsent
    BY <1>1, <1>3 DEF Good, Accounted, IsFinished
<1> QED BY <1>1, <1>2, <1>4

\* The program writes len bytes, of which as many as fit are taken, and pushes.
LEMMA WriteMoves ==
    ASSUME IInv, NEW h \in Hosts, NEW len \in 1 .. ToWrite[h], AppWrite(h, len)
    PROVE  HostMoves(h)
<1> DEFINE p == peer[h]
           q == peer[Other(h)]
           b == p.sender.input
           c == Cfg(h)
           data == [k \in 1 .. len |-> <<h, Written(h) + k - 1>>]
           e == Push(b, data)
           v == [p EXCEPT !.sender = [p.sender EXCEPT !.input = e]]
<1>1. PairOK(h, p, q) /\ IsConfig(c) /\ ToWrite[h] \in Nat
    BY PairIs, ConfigIs, ConnectionAssumption DEF Hosts
<1>2. /\ MayWrite(h) /\ len <= AvailableCapacity(b)
      /\ b.total_pushed + len <= ToWrite[h]
      /\ Transmitting(h, PeerPush(v)) /\ UNCHANGED listening
    BY DEF AppWrite, Outbound, Written, BytesPushed
<1>3. /\ h = Server => ~ listening
      /\ ~ b.stream_closed /\ ~ p.sender.FINsent
    BY <1>2, WriterKnows
<1>4. InputOK(c, b) /\ b.total_pushed \in Nat /\ b.stream_closed \in BOOLEAN
    <2>1. InputOK(c, b)
        BY <1>1 DEF PairOK, Good
    <2> HIDE DEF b, c
    <2>2. b.total_pushed \in 0 .. c.length /\ b.stream_closed \in BOOLEAN
        BY <2>1 DEF InputOK
    <2> QED BY <2>1, <2>2
<1>5. len \in Nat /\ len > 0
    BY <1>1
<1>6. data = [k \in 1 .. len |-> c.byte[b.total_pushed + k - 1]]
    <2> DEFINE n == b.total_pushed
    <2>1. \A k \in 1 .. len : n + k - 1 \in Nat
        <3>1. n \in Nat
            BY <1>4
        <3> HIDE DEF n
        <3> QED BY <1>5, <3>1
    <2>2. \A k \in 1 .. len : c.byte[n + k - 1] = <<h, n + k - 1>>
        BY <2>1 DEF Cfg
    <2>3. Written(h) = n
        BY DEF Written, BytesPushed, Outbound
    <2> HIDE DEF n, c
    <2>4. \A k \in 1 .. len : <<h, Written(h) + k - 1>> = c.byte[n + k - 1]
        BY <2>2, <2>3
    <2> QED BY <2>4 DEF n
<1>7. /\ InputOK(c, e) /\ e.total_popped = b.total_popped
      /\ e.total_pushed = b.total_pushed + Lesser(AvailableCapacity(b), len)
      /\ e.stream_closed = b.stream_closed
    <2>1. b.total_pushed + len <= c.length
        BY <1>2 DEF Cfg
    <2> HIDE DEF c, b, data
    <2> QED BY <1>1, <1>4, <1>5, <1>6, <2>1, WriteKeeps
<1>8. e.total_pushed > b.total_pushed
    <2> DEFINE n == b.total_pushed
               a == AvailableCapacity(b)
               m == e.total_pushed
    <2>1. n \in Nat /\ len <= a /\ m = n + Lesser(a, len)
        BY <1>2, <1>4, <1>7
    <2>2. a \in Int
        <3>1. Len(b.buffer) \in Nat /\ b.capacity \in Nat
            <4>1. b.buffer \in Seq(c.alphabet) /\ b.capacity = c.capacity
                BY <1>4 DEF InputOK
            <4>2. c.capacity \in Nat
                BY <1>1, Numbers
            <4> QED BY <4>1, <4>2
        <3> QED BY <3>1 DEF AvailableCapacity
    <2> HIDE DEF n, a, m
    <2>3. m > n
        BY <1>5, <2>1, <2>2 DEF Lesser
    <2> QED BY <2>3 DEF n, m
<1> HIDE DEF e
<1>9. InputStep(b, e)
    BY <1>3, <1>7, <1>8 DEF InputStep
<1>10. /\ HostStep(h, p, q, v, {}) /\ v.receiver = p.receiver
       /\ v.linger_after_streams_finish = p.linger_after_streams_finish
    BY <1>1, <1>3, <1>7, <1>9, InputFollows
<1> HIDE DEF v
<1> QED BY <1>2, <1>3, <1>10, PushMoves

\* The program closes its stream, and pushes the FIN if the window allows it.
LEMMA CloseMoves ==
    ASSUME IInv, NEW h \in Hosts, AppClose(h)
    PROVE  HostMoves(h)
<1> DEFINE p == peer[h]
           q == peer[Other(h)]
           b == p.sender.input
           c == Cfg(h)
           e == Close(b)
           v == [p EXCEPT !.sender = [p.sender EXCEPT !.input = e]]
<1>1. PairOK(h, p, q) /\ IsConfig(c)
    BY PairIs, ConfigIs
<1>2. MayWrite(h) /\ Transmitting(h, PeerPush(v)) /\ UNCHANGED listening
    BY DEF AppClose
<1>3. (h = Server => ~ listening) /\ ~ p.sender.FINsent
    BY <1>2, WriterKnows
<1>4. InputOK(c, b)
    BY <1>1 DEF PairOK, Good
<1>5. /\ InputOK(c, e) /\ e.total_popped = b.total_popped
      /\ e.total_pushed = b.total_pushed /\ e.stream_closed
    <2> HIDE DEF c
    <2> QED BY <1>1, <1>4, CloseKeeps
<1> HIDE DEF e
<1>6. InputStep(b, e)
    BY <1>5 DEF InputStep
<1>7. /\ HostStep(h, p, q, v, {}) /\ v.receiver = p.receiver
      /\ v.linger_after_streams_finish = p.linger_after_streams_finish
    BY <1>1, <1>3, <1>5, <1>6, InputFollows
<1> HIDE DEF v
<1> QED BY <1>2, <1>3, <1>7, PushMoves

\* The program reads: the window grows, nothing that was assembled changes.
LEMMA ReadMoves ==
    ASSUME IInv, NEW h \in Hosts, NEW len \in 1 .. ToWrite[Other(h)],
           AppRead(h, len)
    PROVE  HostMoves(h)
<1> DEFINE p == peer[h]
           q == peer[Other(h)]
           d == Cfg(Other(h))
           n == Config[h].recv_capacity
           A == d.alphabet
           byte == d.byte
           limit == q.sender.input.total_popped
           r == p.receiver
           R == r.reassembler
           T == [R EXCEPT !.output = Pop(@, len)]
           t == [r EXCEPT !.reassembler = T]
           u == [p EXCEPT !.receiver = t]
<1>1. PairOK(h, p, q) /\ IsConfig(d) /\ n \in Nat /\ ToWrite[Other(h)] \in Nat
    BY PairIs, ConfigIs, ConnectionAssumption DEF Hosts
<1>2. /\ len <= BytesBuffered(R.output) /\ peer' = [peer EXCEPT ![h] = u]
      /\ UNCHANGED <<net, listening>>
    BY DEF AppRead, InboundStream, Inbound
<1>3. len \in Nat
    BY <1>1
<1>4. /\ Assembling(A, byte, n, limit, R)
      /\ R.end_of_stream # UINT64_MAX => q.sender.FINsent
      /\ r.ISN \in {NULLOPT, d.isn}
      /\ r.ISN # NULLOPT => q.sender.abs_seqno > 0
      /\ r = [ISN |-> r.ISN, reassembler |-> r.reassembler]
    BY <1>1 DEF PairOK, ReceiverSide
<1>5. limit \in Nat /\ limit <= d.length
    <2>1. Good(d, q.sender)
        BY <1>1 DEF PairOK
    <2> HIDE DEF d
    <2> QED BY <1>1, <2>1, SenderNumbers
<1>6. len <= Len(R.output.buffer) /\ R.output.total_pushed \in Nat
    <2> DEFINE x == R.output.total_pushed
               y == R.output.total_popped
               z == Len(R.output.buffer)
    <2>1. x \in Nat /\ y \in Nat /\ z \in Nat /\ y + z = x /\ x <= limit
        <3> HIDE DEF A, byte, limit, R, x, y, z, n
        <3>1. /\ R.output.total_pushed \in Nat /\ R.output.total_popped \in Nat
              /\ Len(R.output.buffer) \in Nat /\ R.output.total_pushed <= limit
            BY <1>1, <1>4, <1>5, AssemblingFacts
        <3>2. R.output.total_popped + Len(R.output.buffer) = R.output.total_pushed
            BY <1>4 DEF Assembling, OutputOK
        <3> QED BY <3>1, <3>2 DEF x, y, z
    <2>2. \A i \in 0 .. d.length + 2 : U64(i) = i
        BY <1>1, StreamIsShort
    <2>3. d.length \in Nat
        BY <1>1, Numbers
    <2>4. BytesBuffered(R.output) = U64(x - y)
        BY DEF BytesBuffered
    <2> HIDE DEF x, y, z, limit, d, A, byte
    <2>5. x - y = z /\ z \in 0 .. d.length + 2
        BY <1>5, <2>1, <2>3
    <2> QED BY <1>2, <2>1, <2>2, <2>4, <2>5 DEF x, z
<1>7. PopAssembles(A, byte, n, limit, R, len)
    <2> HIDE DEF A, byte, limit, R, n
    <2> QED BY <1>1, <1>3, <1>4, <1>5, <1>6, PopKeepsAssembling
<1>8. /\ Assembling(A, byte, n, limit, T)
      /\ T.output.total_pushed = R.output.total_pushed
      /\ T.output.stream_closed = R.output.stream_closed
      /\ T.end_of_stream = R.end_of_stream
    BY <1>7 DEF PopAssembles
<1> HIDE DEF T
<1>9. t.ISN = r.ISN /\ t.reassembler = T
      /\ t = [ISN |-> t.ISN, reassembler |-> t.reassembler]
    BY <1>4
<1> HIDE DEF t
<1>10. /\ IsPeer(u) /\ u.sender = p.sender /\ u.receiver = t
       /\ u.linger_after_streams_finish = p.linger_after_streams_finish
    BY <1>1 DEF PairOK, IsPeer
<1> HIDE DEF u
<1>11. ReceiverSide(d, n, t, q.sender)
    BY <1>4, <1>8, <1>9 DEF ReceiverSide
<1>12. ReceiverGrows(r, t)
    BY <1>6, <1>8, <1>9 DEF ReceiverGrows
<1>13. /\ Good(Cfg(h), p.sender) /\ Advances(p.sender, p.sender)
       /\ InputStep(p.sender.input, p.sender.input)
       /\ AckStep(h, p.sender, p.sender, q.receiver) /\ LingerOK(p, q)
       /\ FINFollows(p.sender)
    BY <1>1, HostStays DEF HostStep, PairOK
<1>14. LingerOK(u, q) /\ AllOf(h, u, {})
    BY <1>10, <1>13, NothingSent DEF LingerOK
<1>15. HostStep(h, p, q, u, {}) /\ FINFollows(u.sender)
    BY <1>10, <1>11, <1>12, <1>13, <1>14 DEF HostStep
<1>16. net' = [net EXCEPT ![Other(h)] = @ \cup {}]
    BY <1>2 DEF IInv
<1>17. ListeningOK'
    <2>1. h = Server =>
              IF listening THEN u.sender.abs_seqno = 0 /\ u.sender.abs_ackno = 0
              ELSE u.receiver.ISN # NULLOPT
        BY <1>9, <1>10 DEF IInv, ListeningOK
    <2> QED BY <1>2, <2>1, StillListening
<1>18. Moves(h, u, {})
    BY <1>2, <1>15, <1>16, <1>17 DEF Moves
<1> QED BY <1>18 DEF HostMoves

\* Time passes: a host retransmits what it sent, or gives up lingering.
LEMMA TickMoves ==
    ASSUME IInv, NEW h \in Hosts, NEW ms \in TickMs, Tick(h, ms)
    PROVE  HostMoves(h)
<1> DEFINE p == peer[h]
           q == peer[Other(h)]
           c == Cfg(h)
           d == Cfg(Other(h))
           n == Config[h].recv_capacity
           s == p.sender
           since == Lesser(p.since_receipt + ms, LingerTime(p))
           v == [p EXCEPT !.since_receipt = since]
           r == TCPSenderTick(s, ms)
           t == r.sender
           u == [v EXCEPT !.sender = t]
           sent == ToSet(WithReceiver(v, r.sent))
<1>1. PairOK(h, p, q) /\ IsConfig(c) /\ IsConfig(d) /\ n \in Nat /\ ms \in Nat
    BY PairIs, ConfigIs, ConnectionAssumption
<1>2. PeerTick(p, ms) = [peer |-> u, sent |-> WithReceiver(v, r.sent)]
    BY DEF PeerTick, Sending
<1>3. /\ peer' = [peer EXCEPT ![h] = u]
      /\ net' = [net EXCEPT ![Other(h)] = @ \cup sent]
      /\ UNCHANGED listening
    BY <1>2 DEF Tick, Transmitting
<1>4. Good(c, s)
    BY <1>1 DEF PairOK
<1>5. /\ Good(c, t) /\ SameQueue(s, t) /\ t.input = s.input
      /\ t.FINsent = s.FINsent
    <2> HIDE DEF c, s
    <2> QED BY <1>1, <1>4, TickKeeps
<1>6. /\ AllCarried(c, t, r.sent) /\ (s.abs_seqno = 0 => r.sent = <<>>)
    <2> HIDE DEF c, s
    <2> QED BY <1>1, <1>4, TickSends
<1> HIDE DEF r
<1>7. /\ IsPeer(v) /\ v.sender = s /\ v.receiver = p.receiver
      /\ v.linger_after_streams_finish = p.linger_after_streams_finish
    <2> HIDE DEF since
    <2> QED BY <1>1 DEF PairOK, IsPeer
<1> HIDE DEF v
<1>8. /\ IsPeer(u) /\ u.sender = t /\ u.receiver = p.receiver
      /\ u.linger_after_streams_finish = p.linger_after_streams_finish
    BY <1>7, PeerIs
<1> HIDE DEF u
<1>9. Advances(s, t)
    <2>1. s.abs_seqno \in Nat /\ s.input.total_popped \in Nat
        <3> HIDE DEF c, s
        <3> QED BY <1>1, <1>4, SenderNumbers
    <2> QED BY <1>5, <2>1 DEF Advances, SameQueue
<1>10. InputStep(s.input, t.input)
    BY <1>5 DEF InputStep
<1>11. AckStep(h, s, t, q.receiver)
    BY <1>5, SameQueueAck
<1>12. AllOf(h, u, sent)
    <2>1. CASE h = Client \/ p.receiver.ISN # NULLOPT
        <3>1. Acknowledges(d, h, p.receiver, TCPReceiverSend(p.receiver))
            <4>1. Good(d, q.sender) /\ ReceiverSide(d, n, p.receiver, q.sender)
                BY <1>1 DEF PairOK
            <4> HIDE DEF d, n
            <4> QED BY <1>1, <2>1, <4>1, SendIs
        <3> QED BY <1>6, <1>7, <1>8, <3>1, WithReceiverSends
    <2>2. CASE ~ (h = Client \/ p.receiver.ISN # NULLOPT)
        <3>1. s.abs_seqno = 0
            BY <2>2 DEF IInv, ListeningOK, Hosts
        <3>2. r.sent = <<>>
            BY <1>6, <3>1
        <3>3. sent = {}
            BY <3>2 DEF ToSet, WithReceiver
        <3> QED BY <3>3, NothingSent
    <2> QED BY <2>1, <2>2
<1> HIDE DEF sent
<1>13. HostStep(h, p, q, u, sent)
    BY <1>1, <1>5, <1>8, <1>9, <1>10, <1>11, <1>12, SenderFollows
<1>14. FINFollows(u.sender)
    <2>1. FINFollows(s)
        BY <1>1 DEF PairOK
    <2> QED BY <1>5, <1>8, <2>1 DEF FINFollows, SameQueue
<1>15. ListeningOK'
    <2>1. h = Server =>
              IF listening THEN u.sender.abs_seqno = 0 /\ u.sender.abs_ackno = 0
              ELSE u.receiver.ISN # NULLOPT
        BY <1>5, <1>8 DEF IInv, ListeningOK, SameQueue
    <2> QED BY <1>3, <2>1, StillListening
<1>16. Moves(h, u, sent)
    BY <1>3, <1>13, <1>14, <1>15 DEF Moves
<1> QED BY <1>16 DEF HostMoves

\* The number that a message acknowledges is one that the receiver received, or
\* the 0 of an empty ackno.
LEMMA AcknoIs ==
    ASSUME NEW h \in Hosts, NEW s, Good(Cfg(h), s), NEW capacity \in Nat,
           NEW r, ReceiverSide(Cfg(h), capacity, r, s),
           NEW m, Acknowledges(Cfg(h), Other(h), r, m)
    PROVE  LET abs == AcknoOf(s, m, 0)
           IN  /\ abs \in Nat
               /\ \/ abs <= Received(r)
                  \/ h = Server /\ abs = Unwrap(0, Config[Server].isn,
                                                s.input.total_popped)
<1> DEFINE c == Cfg(h)
           w == m.window_size
           no == FALSE
<1> HIDE DEF no
<1>1. IsConfig(c) /\ Good(c, s)
    BY ConfigIs
<1>2. m = [ackno |-> m.ackno, window_size |-> w, RST |-> no]
    BY DEF Acknowledges, no
<1>3. CASE m.ackno = NULLOPT /\ Other(h) = Client
    <2>1. m = ReceiverMessage(NULLOPT, w, FALSE)
        BY <1>2, <1>3 DEF ReceiverMessage, no
    <2> HIDE DEF c
    <2>2. /\ AcknoOf(s, m, 0) = Unwrap(0, c.isn, s.input.total_popped)
          /\ AcknoOf(s, m, 0) \in Nat
        BY <1>1, <2>1, NoAckno
    <2>3. h = Server
        BY <1>3, ConfigIs DEF Hosts, Other
    <2>4. c.isn = Config[Server].isn
        BY <2>3 DEF c, Cfg
    <2> QED BY <2>2, <2>3, <2>4
<1>4. CASE \E a \in 1 .. Received(r) : m.ackno = Wrap(a, c.isn)
    <2>1. PICK a \in 1 .. Received(r) : m.ackno = Wrap(a, c.isn)
        BY <1>4
    <2>2. m = ReceiverMessage(Wrap(a, c.isn), w, no)
        BY <1>2, <2>1 DEF ReceiverMessage
    <2>3. a \in 1 .. c.reach /\ a \in Nat /\ a <= Received(r)
        <3>1. Received(r) \in Nat /\ Received(r) <= s.abs_seqno
            <4> HIDE DEF c
            <4> QED BY <1>1, ReceivedWasSent DEF c
        <3>2. s.abs_seqno \in Nat /\ s.abs_seqno <= c.length + 2
            <4> HIDE DEF c
            <4> QED BY <1>1, SenderNumbers
        <3>3. c.length \in Nat /\ c.reach \in Nat /\ c.length + 2 <= c.reach
            BY <1>1, Numbers
        <3> DEFINE x == Received(r)
                   y == s.abs_seqno
        <3> HIDE DEF x, y, c
        <3>4. a \in 1 .. x /\ x \in Nat /\ x <= y /\ y \in Nat /\ y <= c.length + 2
            BY <2>1, <3>1, <3>2 DEF x, y
        <3>5. a \in 1 .. c.reach /\ a \in Nat /\ a <= x
            BY <3>3, <3>4
        <3> QED BY <3>5 DEF x
    <2> HIDE DEF c
    <2>4. AcknoOf(s, m, 0) = a
        BY <1>1, <2>2, <2>3, PeersAckno
    <2> QED BY <2>3, <2>4
<1> QED BY <1>3, <1>4 DEF Acknowledges

\* Half the space is too much for the 0 to be a number close to the stream.
LEMMA EmptyIsFar ==
    ASSUME NEW isn \in UInt32, NEW limit \in Nat, isn + limit < Mod32,
           NEW p \in Nat, p < Mod32
    PROVE  Unwrap(0, isn, p) \notin 1 .. limit
<1> DEFINE n == IF isn = 0 THEN 0 ELSE Mod32 - isn
           u == Unwrap(0, isn, p)
<1>1. /\ Mod32 \in Nat /\ Mod32 > 1 /\ Mod64 \in Nat
      /\ isn \in 0 .. Mod32 - 1
    BY Widths DEF UInt32
<1>2. Mod32 < Mod64
    <2>1. PICK k \in Nat : k >= 4 /\ Mod64 = k * Mod32
        BY Widths
    <2>2. k * Mod32 >= 4 * Mod32
        BY <1>1, <2>1
    <2> QED BY <1>1, <2>1, <2>2
<1>3. n \in UInt64 /\ p \in UInt64
    BY <1>1, <1>2 DEF UInt64
<1>4. Wrap(n, isn) = 0
    <2>1. CASE isn = 0
        BY <1>1, <2>1 DEF Wrap, WrapAdd
    <2>2. CASE isn # 0
        <3>1. n % Mod32 = n
            BY <1>1, <2>2
        <3>2. isn + n = Mod32
            BY <1>1, <2>2
        <3> QED BY <1>1, <3>1, <3>2 DEF Wrap, WrapAdd
    <2> QED BY <2>1, <2>2
<1>5. Wrap(u, isn) = 0
    <2>1. Wrap(Unwrap(Wrap(n, isn), isn, p), isn) = Wrap(n, isn)
        <3> HIDE DEF n
        <3> QED BY <1>3, UnwrapClosest
    <2> QED BY <1>4, <2>1
<1> SUFFICES ASSUME u \in 1 .. limit
             PROVE  FALSE
    OBVIOUS
<1> HIDE DEF u
<1>6. u \in 0 .. Mod32 - 1 /\ u > 0
    BY <1>1
<1>7. u % Mod32 = u
    BY <1>1, <1>6
<1>8. Wrap(u, isn) = isn + u
    <2>1. isn + u \in 0 .. Mod32 - 1
        BY <1>1
    <2>2. (isn + u) % Mod32 = isn + u
        BY <1>1, <2>1
    <2> QED BY <1>7, <2>2 DEF Wrap, WrapAdd
<1> QED BY <1>1, <1>5, <1>6, <1>8

\* The sender after a message of the other host's receiver: if it knew of no
\* more than was received, it still does not.
LEMMA ReceiveAcks ==
    ASSUME NEW h \in Hosts, NEW s, Good(Cfg(h), s), NEW capacity \in Nat,
           NEW r, ReceiverSide(Cfg(h), capacity, r, s),
           NEW m, Acknowledges(Cfg(h), Other(h), r, m)
    PROVE  LET t == TCPSenderReceive(s, m, 0)
           IN  Good(Cfg(h), t) /\ SameStream(s, t) /\ AckStep(h, s, t, r)
<1> DEFINE c == Cfg(h)
           t == TCPSenderReceive(s, m, 0)
           abs == AcknoOf(s, m, 0)
           seqno == s.abs_seqno
           flight == SequenceNumbersInFlight(s)
           ackno == s.abs_ackno
           got == Received(r)
           length == c.length
           popped == s.input.total_popped
<1>1. IsConfig(c) /\ Good(c, s) /\ ReceiverSide(c, capacity, r, s)
    BY ConfigIs
<1>2. m.window_size \in Nat /\ ~ m.RST
    <2> DEFINE no == FALSE
    <2> HIDE DEF no
    <2>1. /\ m = [ackno |-> m.ackno, window_size |-> m.window_size, RST |-> no]
          /\ m.window_size \in Nat
        BY DEF Acknowledges, no
    <2>2. m.RST = no
        BY <2>1
    <2> QED BY <2>1, <2>2 DEF no
<1>3. /\ abs \in Nat
      /\ \/ abs <= got
         \/ h = Server /\ abs = Unwrap(0, Config[Server].isn, popped)
    BY AcknoIs
<1>4. /\ Good(c, t) /\ SameStream(s, t) /\ QueueAfter(c, s, t, abs)
    <2> HIDE DEF c
    <2> QED BY <1>1, <1>2, <1>3, ReceiveKeeps
<1> HIDE DEF t
<1>5. ASSUME EmptyAcknoIgnored, AckOK(c, s, r)
      PROVE  AckOK(c, t, r)
    <2>1. AckPlaced(c, s) /\ ackno <= got /\ ackno <= seqno
        BY <1>5 DEF AckOK, AckPlaced
    <2>2. /\ seqno \in Nat /\ ackno \in Nat /\ flight \in Nat /\ flight <= seqno
          /\ got \in Nat /\ got <= seqno /\ length \in Nat
          /\ seqno <= length + 2 /\ popped \in Nat /\ popped <= length
        <3>1. ackno \in Nat
            BY <1>1 DEF Good, FieldsOK
        <3> HIDE DEF c
        <3>2. /\ seqno \in Nat /\ flight \in Nat /\ flight <= seqno
              /\ got \in Nat /\ got <= seqno /\ length \in Nat
              /\ seqno <= length + 2
            BY <1>1, SenderNumbers, InFlightIs, ReceivedWasSent, Numbers
        <3>3. popped \in Nat /\ popped <= length
            BY <1>1, SenderNumbers
        <3> QED BY <3>1, <3>2, <3>3
    <2>3. abs <= got \/ abs > ackno + flight
        <3> SUFFICES ASSUME h = Server, ~ (abs <= got),
                            abs = Unwrap(0, Config[Server].isn, popped)
                     PROVE  abs > ackno + flight
            BY <1>3
        <3> DEFINE isn == Config[Server].isn
                   limit == 2 * (length + 2)
        <3>1. isn \in UInt32 /\ isn + limit < Mod32 /\ length = ToWrite[Server]
            BY <1>5, ConnectionAssumption, Numbers DEF EmptyAcknoIgnored, Cfg
        <3>2. Mod32 \in Nat /\ isn \in Nat /\ limit \in Nat
            <4>1. Mod32 \in Nat
                BY Widths
            <4> HIDE DEF isn, length
            <4> QED BY <2>2, <3>1, <4>1 DEF UInt32
        <3>3. popped < Mod32
            <4> HIDE DEF popped, length, isn
            <4> QED BY <2>2, <3>1, <3>2
        <3>4. abs \notin 1 .. limit
            <4> HIDE DEF isn, limit, popped
            <4> QED BY <2>2, <3>1, <3>2, <3>3, EmptyIsFar DEF isn
        <3> HIDE DEF abs, got, ackno, flight, seqno, length, isn
        <3>5. abs > 0 /\ abs > limit
            BY <1>3, <2>2, <3>2, <3>4
        <3> QED BY <1>3, <2>1, <2>2, <3>5
    <2>4. AckPlaced(c, t)
        <3>1. abs <= seqno \/ abs > ackno + flight
            <4> HIDE DEF abs, got, ackno, flight, seqno
            <4> QED BY <1>3, <2>2, <2>3
        <3>2. t.abs_seqno = s.abs_seqno
            BY <1>4 DEF SameStream
        <3> HIDE DEF c, abs
        <3> QED BY <1>1, <1>3, <1>4, <2>1, <3>1, <3>2, ReceivedIsPlaced
    <2>5. t.abs_ackno <= got
        <3>1. \/ abs > ackno /\ abs <= ackno + flight /\ t.abs_ackno = abs
              \/ t.abs_ackno = ackno
            BY <1>4 DEF QueueAfter
        <3> DEFINE x == t.abs_ackno
        <3> HIDE DEF abs, got, ackno, flight, seqno, x
        <3>2. x <= got
            <4>1. (x = abs /\ abs <= ackno + flight) \/ x = ackno
                BY <3>1 DEF x
            <4> QED BY <1>3, <2>1, <2>2, <2>3, <4>1
        <3> QED BY <3>2 DEF x
    <2> QED BY <2>4, <2>5 DEF AckOK
<1> QED BY <1>4, <1>5 DEF AckStep, t

\* What the peer is before it pushes and replies
Taken(p, msg) ==
    [p EXCEPT !.since_receipt = 0,
              !.receiver = TCPReceiverReceive(@, msg.sender),
              !.sender   = TCPSenderReceive(@, msg.receiver, 0)]

\* Receiving changes the receiver, the sender and the time since, one by one.
LEMMA TakenIs ==
    ASSUME NEW p, IsPeer(p), NEW msg
    PROVE  LET v == Taken(p, msg)
           IN  /\ IsPeer(v)
               /\ v.receiver = TCPReceiverReceive(p.receiver, msg.sender)
               /\ v.sender = TCPSenderReceive(p.sender, msg.receiver, 0)
               /\ v.linger_after_streams_finish = p.linger_after_streams_finish
<1> DEFINE r == TCPReceiverReceive(p.receiver, msg.sender)
           s == TCPSenderReceive(p.sender, msg.receiver, 0)
           zero == 0
           w == [p EXCEPT !.since_receipt = zero, !.receiver = r, !.sender = s]
           linger == p.linger_after_streams_finish
           v == [sender |-> s, receiver |-> r, rt_timeout |-> p.rt_timeout,
                 linger_after_streams_finish |-> linger, since_receipt |-> zero]
<1>1. Taken(p, msg) = w
    BY DEF Taken
<1> HIDE DEF r, s, zero
<1>2. p = [sender |-> p.sender, receiver |-> p.receiver,
           rt_timeout |-> p.rt_timeout, linger_after_streams_finish |-> linger,
           since_receipt |-> p.since_receipt] /\ linger \in BOOLEAN
    BY DEF IsPeer
<1>3. w = v
    <2> DEFINE w1 == [p EXCEPT !.since_receipt = zero]
               w2 == [w1 EXCEPT !.receiver = r]
               w3 == [w2 EXCEPT !.sender = s]
    <2>1. w = w3
        OBVIOUS
    <2>2. w1 = [sender |-> p.sender, receiver |-> p.receiver,
                rt_timeout |-> p.rt_timeout,
                linger_after_streams_finish |-> linger, since_receipt |-> zero]
        BY <1>2
    <2> HIDE DEF w, w1
    <2>3. w2 = [sender |-> p.sender, receiver |-> r,
                rt_timeout |-> p.rt_timeout,
                linger_after_streams_finish |-> linger, since_receipt |-> zero]
        BY <2>2
    <2> HIDE DEF w2
    <2>4. w3 = v
        BY <2>3
    <2> QED BY <2>1, <2>4
<1> HIDE DEF w, linger
<1>4. /\ IsPeer(v) /\ v.receiver = r /\ v.sender = s
      /\ v.linger_after_streams_finish = linger
    BY <1>2 DEF IsPeer
<1> HIDE DEF v
<1> QED BY <1>1, <1>3, <1>4 DEF r, s, linger

\* A host that has taken a message, and has not answered yet, keeps its part
\* of the invariant.
LEMMA TakenFollows ==
    ASSUME NEW h \in Hosts, NEW p, NEW q, PairOK(h, p, q),
           NEW msg, MessageOf(Other(h), q, msg)
    PROVE  LET v == Taken(p, msg)
           IN  /\ HostStep(h, p, q, v, {})
               /\ v.linger_after_streams_finish = p.linger_after_streams_finish
               /\ msg.sender.SYN => v.receiver.ISN # NULLOPT
<1> DEFINE o == Other(h)
           c == Cfg(h)
           d == Cfg(o)
           n == Config[h].recv_capacity
           k == Config[o].recv_capacity
           v == Taken(p, msg)
           r == TCPReceiverReceive(p.receiver, msg.sender)
           t == TCPSenderReceive(p.sender, msg.receiver, 0)
<1>1. /\ IsConfig(c) /\ IsConfig(d) /\ d.errors = {FALSE} /\ n \in Nat
      /\ k \in Nat /\ Other(o) = h
    BY ConfigIs
<1>2. /\ IsPeer(p) /\ Good(c, p.sender) /\ Good(d, q.sender)
      /\ ReceiverSide(d, n, p.receiver, q.sender)
      /\ ReceiverSide(c, k, q.receiver, p.sender) /\ LingerOK(p, q)
    BY DEF PairOK
<1>3. /\ Carried(d, q.sender, msg.sender)
      /\ Acknowledges(c, o, q.receiver, msg.receiver)
    BY <1>1 DEF MessageOf
<1>4. Takes(d, n, q.sender, p.receiver, msg.sender)
    <2> HIDE DEF d, n
    <2> QED BY <1>1, <1>2, <1>3, ReceiverTakes
<1>5. /\ ReceiverSide(d, n, r, q.sender) /\ ReceiverGrows(p.receiver, r)
      /\ msg.sender.SYN => r.ISN # NULLOPT
    BY <1>4 DEF Takes
<1>6. Good(c, t) /\ SameStream(p.sender, t) /\ AckStep(h, p.sender, t, q.receiver)
    <2> HIDE DEF k
    <2> QED BY <1>1, <1>2, <1>3, ReceiveAcks
<1> HIDE DEF r, t
<1>7. /\ IsPeer(v) /\ v.receiver = r /\ v.sender = t
      /\ v.linger_after_streams_finish = p.linger_after_streams_finish
    BY <1>2, TakenIs DEF r, t
<1> HIDE DEF v
<1>8. Advances(p.sender, t)
    <2> HIDE DEF c
    <2> QED BY <1>1, <1>2, <1>6, SameStreamAdvances
<1>9. InputStep(p.sender.input, t.input)
    BY <1>6 DEF SameStream, InputStep
<1>10. LingerOK(v, q) /\ AllOf(h, v, {})
    BY <1>2, <1>7, NothingSent DEF LingerOK
<1>11. HostStep(h, p, q, v, {})
    BY <1>5, <1>6, <1>7, <1>8, <1>9, <1>10 DEF HostStep
<1> QED BY <1>5, <1>7, <1>11 DEF v

\* The reply, and the end of lingering
LEMMA ReplyFollows ==
    ASSUME NEW h \in Hosts, NEW p, NEW q, Good(Cfg(Other(h)), q.sender),
           NEW pushed, pushed = [peer |-> pushed.peer, sent |-> pushed.sent],
           HostStep(h, p, q, pushed.peer, ToSet(pushed.sent)),
           FINFollows(pushed.peer.sender),
           h = Client \/ pushed.peer.receiver.ISN # NULLOPT,
           pushed.peer.linger_after_streams_finish
              = p.linger_after_streams_finish,
           NEW need
    PROVE  LET reply == Reply(pushed, need)
               u == LingerUpdated(reply.peer)
           IN  /\ HostStep(h, p, q, u, ToSet(reply.sent)) /\ FINFollows(u.sender)
               /\ u.receiver = pushed.peer.receiver
<1> DEFINE v == pushed.peer
           reply == Reply(pushed, need)
           empty == <<MakeEmptyMessage(v.sender)>>
           linger == v.linger_after_streams_finish
                       /\ ~(IsClosed(InboundStream(v)) /\ ~IsFinished(Outbound(v)))
           u == [v EXCEPT !.linger_after_streams_finish = linger]
           c == Cfg(h)
           d == Cfg(Other(h))
           n == Config[h].recv_capacity
<1>1. IsConfig(c) /\ IsConfig(d) /\ n \in Nat
    BY ConfigIs
<1>2. /\ IsPeer(v) /\ Good(c, v.sender) /\ Advances(p.sender, v.sender)
      /\ ReceiverSide(d, n, v.receiver, q.sender)
      /\ ReceiverGrows(p.receiver, v.receiver)
      /\ AllOf(h, v, ToSet(pushed.sent)) /\ LingerOK(v, q)
      /\ InputStep(p.sender.input, v.sender.input)
      /\ AckStep(h, p.sender, v.sender, q.receiver)
    BY DEF HostStep
<1>3. AllOf(h, v, ToSet(WithReceiver(v, empty)))
    <2>1. Carried(c, v.sender, MakeEmptyMessage(v.sender))
        <3> HIDE DEF c, v
        <3> QED BY <1>1, <1>2, EmptyCarried
    <2>2. AllCarried(c, v.sender, empty)
        <3> DEFINE m == MakeEmptyMessage(v.sender)
        <3> HIDE DEF m, c, v
        <3>1. ToSet(<<m>>) = {m}
            BY DEF ToSet
        <3> QED BY <2>1, <3>1 DEF AllCarried, m
    <2>3. Acknowledges(d, h, v.receiver, TCPReceiverSend(v.receiver))
        <3>1. Good(d, q.sender)
            OBVIOUS
        <3>2. h = Client \/ v.receiver.ISN # NULLOPT
            OBVIOUS
        <3> HIDE DEF d, n, v
        <3> QED BY <1>1, <1>2, <3>1, <3>2, SendIs
    <2> HIDE DEF empty, v
    <2> QED BY <2>2, <2>3, WithReceiverSends DEF v
<1>4. reply.peer = v /\ AllOf(h, v, ToSet(reply.sent))
    <2>1. CASE need /\ pushed.sent = <<>>
        <3>1. reply = [pushed EXCEPT !.sent = WithReceiver(v, empty)]
            BY <2>1 DEF Reply
        <3> DEFINE x == WithReceiver(v, empty)
        <3>2. pushed = [peer |-> v, sent |-> pushed.sent]
            OBVIOUS
        <3> HIDE DEF x, reply, v
        <3>3. reply = [peer |-> v, sent |-> x]
            BY <3>1, <3>2 DEF x
        <3>4. reply.peer = v /\ reply.sent = x
            BY <3>3
        <3> QED BY <1>3, <3>4 DEF x
    <2>2. CASE ~ (need /\ pushed.sent = <<>>)
        <3>1. reply = pushed
            BY <2>2 DEF Reply
        <3> QED BY <1>2, <3>1
    <2> QED BY <2>1, <2>2
<1>5. LingerUpdated(v) = u
    BY DEF LingerUpdated
<1>6. linger \in BOOLEAN
    BY <1>2 DEF IsPeer
<1>7. ~ linger => LingerOK(v, q) /\ q.sender.FINsent
    <2>1. IsClosed(InboundStream(v)) => q.sender.FINsent
        <3>1. Good(d, q.sender) /\ InboundStream(v) = Inbound(v.receiver)
            BY DEF InboundStream
        <3> HIDE DEF d, n
        <3> QED BY <1>1, <1>2, <3>1, ReceivedWasSent
    <2> QED BY <1>2, <2>1 DEF LingerOK
<1>8. linger = v.linger_after_streams_finish \/ ~ v.sender.FINsent
    <2>1. v.sender.FINsent => IsFinished(Outbound(v))
        BY <1>2 DEF Good, Accounted, Outbound
    <2>2. v.linger_after_streams_finish \in BOOLEAN
        BY <1>2 DEF IsPeer
    <2> QED BY <2>1, <2>2
<1> HIDE DEF linger
<1>9. /\ IsPeer(u) /\ u.sender = v.sender /\ u.receiver = v.receiver
      /\ u.linger_after_streams_finish = linger
    BY <1>2, <1>6 DEF IsPeer
<1> HIDE DEF u, reply
<1>10. AllOf(h, u, ToSet(reply.sent))
    BY <1>4, <1>9 DEF AllOf, MessageOf
<1>11. LingerOK(u, q)
    BY <1>7, <1>9 DEF LingerOK
<1>12. HostStep(h, p, q, u, ToSet(reply.sent))
    BY <1>2, <1>8, <1>9, <1>10, <1>11 DEF HostStep
<1>13. FINFollows(u.sender)
    BY <1>9
<1> QED BY <1>4, <1>5, <1>9, <1>12, <1>13 DEF reply

\* A message arrives, and the host pushes what it may and answers.
LEMMA ReceiveMoves ==
    ASSUME IInv, NEW h \in Hosts, NEW msg \in net[h], Receive(h, msg)
    PROVE  HostMoves(h)
<1> DEFINE p == peer[h]
           q == peer[Other(h)]
           v == Taken(p, msg)
           pushed == PeerPush(v)
           reply == Reply(pushed, NeedSend(p, msg))
           u == LingerUpdated(reply.peer)
           result == PeerReceive(p, msg, 0)
<1>1. PairOK(h, p, q) /\ MessageOf(Other(h), q, msg)
    BY PairIs
<1>2. /\ HostStep(h, p, q, v, {})
      /\ v.linger_after_streams_finish = p.linger_after_streams_finish
      /\ msg.sender.SYN => v.receiver.ISN # NULLOPT
    BY <1>1, TakenFollows
<1>3. h = Client \/ v.receiver.ISN # NULLOPT
    <2>1. CASE h = Server /\ listening
        <3>1. msg.sender.SYN
            BY <2>1 DEF Receive, Accepts
        <3> QED BY <1>2, <3>1
    <2>2. CASE h = Server /\ ~ listening
        <3>1. p.receiver.ISN # NULLOPT
            BY <2>2 DEF IInv, ListeningOK
        <3> QED BY <1>2, <3>1 DEF HostStep, ReceiverGrows
    <2> QED BY <2>1, <2>2 DEF Hosts
<1> HIDE DEF v
<1>4. /\ HostStep(h, p, q, pushed.peer, ToSet(pushed.sent))
      /\ pushed.peer.linger_after_streams_finish = p.linger_after_streams_finish
      /\ pushed.peer.receiver = v.receiver /\ FINFollows(pushed.peer.sender)
    BY <1>1, <1>2, <1>3, PushFollows DEF PairOK
<1>5. pushed = [peer |-> pushed.peer, sent |-> pushed.sent]
    BY DEF PeerPush, Sending
<1> HIDE DEF pushed
<1>6. /\ HostStep(h, p, q, u, ToSet(reply.sent)) /\ FINFollows(u.sender)
      /\ u.receiver = pushed.peer.receiver
    BY <1>1, <1>3, <1>4, <1>5, ReplyFollows DEF PairOK
<1>7. result.peer = u /\ result.sent = reply.sent
    <2>1. result = [reply EXCEPT !.peer = LingerUpdated(@)]
        BY DEF PeerReceive, Receive, Taken, v, pushed
    <2>2. reply = [peer |-> reply.peer, sent |-> reply.sent]
        BY <1>5 DEF Reply
    <2> HIDE DEF result, reply
    <2>3. result = [peer |-> u, sent |-> reply.sent]
        BY <2>1, <2>2
    <2> HIDE DEF u
    <2> QED BY <2>3
<1> HIDE DEF u, reply
<1>8. /\ peer' = [peer EXCEPT ![h] = u]
      /\ net' = [net EXCEPT ![Other(h)] = @ \cup ToSet(reply.sent)]
    <2> HIDE DEF result
    <2> QED BY <1>7 DEF Receive, Transmitting, result
<1>9. ListeningOK'
    <2>1. listening' = (listening /\ h # Server)
        BY DEF Receive
    <2>2. CASE h = Server
        <3>1. Server \in Hosts /\ peer'[Server] = u
            BY <1>8, <2>2 DEF IInv, Hosts
        <3>2. u.receiver.ISN # NULLOPT
            BY <1>3, <1>4, <1>6, <2>2, ConnectionAssumption
        <3> QED BY <2>1, <2>2, <3>1, <3>2 DEF ListeningOK
    <2>3. CASE h # Server
        <3>1. UNCHANGED listening
            BY <2>1, <2>3 DEF IInv, ListeningOK
        <3> QED BY <1>8, <2>3, <3>1, StillListening
    <2> QED BY <2>2, <2>3
<1>10. Moves(h, u, ToSet(reply.sent))
    BY <1>6, <1>8, <1>9 DEF Moves
<1> QED BY <1>10 DEF HostMoves

\* Each step is one of a host, or the network loses something.
Loses ==
    /\ UNCHANGED <<peer, listening>>
    /\ net' = [x \in Hosts |-> net'[x]]
    /\ \A x \in Hosts : net'[x] \subseteq net[x]

\* Every step is a move of one host or a loss.
LEMMA StepIs ==
    ASSUME IInv, [Next]_vars
    PROVE  Loses \/ \E h \in Hosts : HostMoves(h)
<1>1. CASE Connect
    BY <1>1, ConnectMoves DEF Hosts
<1>2. ASSUME NEW h \in Hosts, AppNext(h)
      PROVE  HostMoves(h)
    BY <1>2, WriteMoves, CloseMoves, ReadMoves DEF AppNext
<1>3. ASSUME NEW h \in Hosts, NEW msg \in net[h], Receive(h, msg)
      PROVE  HostMoves(h)
    BY <1>3, ReceiveMoves
<1>4. ASSUME NEW h \in Hosts, NEW msg \in net[h], Lose(h, msg)
      PROVE  Loses
    BY <1>4 DEF Lose, Loses, IInv
<1>5. ASSUME NEW h \in Hosts, NEW ms \in TickMs, Tick(h, ms)
      PROVE  HostMoves(h)
    BY <1>5, TickMoves
<1>6. CASE UNCHANGED vars
    BY <1>6 DEF vars, Loses, IInv
<1> QED BY <1>1, <1>2, <1>3, <1>4, <1>5, <1>6 DEF Next

\* A network with fewer messages keeps the invariant.
LEMMA LosesKeeps ==
    ASSUME IInv, Loses
    PROVE  IInv'
<1>1. peer' = peer /\ listening' = listening
    BY DEF Loses
<1>2. ListeningOK'
    BY <1>1 DEF IInv, ListeningOK
<1>3. \A h \in Hosts : net'[Other(h)] \subseteq net[Other(h)]
    BY ConfigIs DEF Loses
<1>4. \A h \in Hosts :
          /\ IsPeer(peer'[h])
          /\ Direction(h, peer'[h], peer'[Other(h)])
          /\ LingerOK(peer'[h], peer'[Other(h)]) /\ FINFollows(peer'[h].sender)
          /\ \A msg \in net'[Other(h)] : MessageOf(h, peer'[h], msg)
    BY <1>1, <1>3 DEF IInv
<1>5. /\ peer' = [h \in Hosts |-> peer'[h]] /\ net' = [h \in Hosts |-> net'[h]]
      /\ \E h \in Hosts : peer'[h].linger_after_streams_finish
    BY <1>1 DEF IInv, Loses
<1> QED BY <1>2, <1>4, <1>5 DEF IInv

\* A move of a host keeps the invariant.
LEMMA MovesKeeps ==
    ASSUME IInv, NEW h \in Hosts, HostMoves(h)
    PROVE  IInv'
<1>1. PICK u, sent : Moves(h, u, sent)
    BY DEF HostMoves
<1> QED BY <1>1, HostStepKeeps DEF Moves

\* The initial states
LEMMA InitInv == Init => IInv
<1> SUFFICES ASSUME Init
             PROVE  IInv
    OBVIOUS
<1>1. Client \in Hosts /\ Server \in Hosts
    BY DEF Hosts
<1> DEFINE New(h) == NewTCPPeer(Config[h], 0)
<1>2. /\ peer = [h \in Hosts |-> peer[h]] /\ net = [h \in Hosts |-> net[h]]
      /\ \A h \in Hosts : net[h] = {} /\ peer[h] = New(h)
    BY DEF Init
<1>3. ASSUME NEW h \in Hosts
      PROVE  /\ IsPeer(New(h)) /\ Good(Cfg(h), New(h).sender)
             /\ New(h).linger_after_streams_finish = TRUE
             /\ New(h).sender.abs_seqno = 0 /\ New(h).sender.abs_ackno = 0
             /\ New(h).sender.input.total_popped = 0
             /\ FINFollows(New(h).sender)
             /\ New(h).receiver.ISN = NULLOPT
             /\ New(h).receiver.reassembler
                   = NewReassembler(Config[h].recv_capacity)
             /\ New(h).receiver = [ISN |-> New(h).receiver.ISN,
                                   reassembler |-> New(h).receiver.reassembler]
    <2> DEFINE c == Cfg(h)
               yes == TRUE
               zero == 0
               s == NewTCPSender(c.capacity, c.isn, c.rto, 0)
               r == NewTCPReceiver(Config[h].recv_capacity)
               p == [sender |-> s, receiver |-> r,
                     rt_timeout |-> Config[h].rt_timeout,
                     linger_after_streams_finish |-> yes, since_receipt |-> zero]
    <2>1. New(h) = p
        BY DEF NewTCPPeer, Cfg
    <2>2. Good(c, s)
        <3>1. IsConfig(c) /\ 0 \in Nat
            BY ConfigIs
        <3> HIDE DEF c
        <3> QED BY <3>1, InitGood
    <2>3. /\ s.abs_seqno = 0 /\ s.abs_ackno = 0 /\ s.input.total_popped = 0
          /\ ~ s.input.stream_closed
        BY DEF NewTCPSender, NewByteStream
    <2>4. /\ r.ISN = NULLOPT /\ r = [ISN |-> r.ISN, reassembler |-> r.reassembler]
          /\ r.reassembler = NewReassembler(Config[h].recv_capacity)
        <3> DEFINE x == NewReassembler(Config[h].recv_capacity)
                   y == NULLOPT
        <3>1. r = [reassembler |-> x, ISN |-> y]
            BY DEF NewTCPReceiver
        <3> HIDE DEF x, y, r
        <3>2. r.ISN = y /\ r.reassembler = x
              /\ r = [ISN |-> r.ISN, reassembler |-> r.reassembler]
            BY <3>1
        <3> QED BY <3>2 DEF x, y
    <2> HIDE DEF s, r, yes, zero, c
    <2>5. /\ p.sender = s /\ p.receiver = r
          /\ p.linger_after_streams_finish = yes
          /\ p.rt_timeout = Config[h].rt_timeout /\ p.since_receipt = zero
        OBVIOUS
    <2>6. IsPeer(p)
        <3>1. yes \in BOOLEAN
            BY DEF yes
        <3> QED BY <3>1 DEF IsPeer
    <2> HIDE DEF p
    <2>7. FINFollows(p.sender)
        BY <2>3, <2>5 DEF FINFollows, IsFinished
    <2> HIDE DEF New
    <2> QED BY <2>1, <2>2, <2>3, <2>4, <2>5, <2>6, <2>7 DEF yes, c
<1> HIDE DEF New
<1>4. ASSUME NEW h \in Hosts, NEW g \in Hosts
      PROVE  ReceiverSide(Cfg(h), Config[g].recv_capacity, New(g).receiver,
                          New(h).sender)
    <2> DEFINE n == Config[g].recv_capacity
               c == Cfg(h)
               A == c.alphabet
               byte == c.byte
               limit == New(h).sender.input.total_popped
               r == New(g).receiver
    <2>1. n \in Nat /\ IsConfig(c)
        BY ConfigIs
    <2>2. UINT64_MAX \in Nat /\ c.length + 2 < UINT64_MAX /\ c.length \in Nat
        BY <2>1, StreamIsShort, Numbers
    <2>3. limit = 0
        BY <1>3
    <2>4. limit \in Nat /\ limit < UINT64_MAX
        <3> HIDE DEF limit
        <3> QED BY <2>2, <2>3
    <2>5. Assembling(A, byte, n, limit, NewReassembler(n))
        <3> HIDE DEF A, byte, n, limit
        <3> QED BY <2>1, <2>2, <2>4, NewAssembling
    <2>6. /\ r.ISN = NULLOPT /\ r = [ISN |-> r.ISN, reassembler |-> r.reassembler]
          /\ r.reassembler = NewReassembler(n)
        BY <1>3
    <2>7. NewReassembler(n).end_of_stream = UINT64_MAX
        BY DEF NewReassembler
    <2> QED BY <2>5, <2>6, <2>7 DEF ReceiverSide
<1>5. ListeningOK
    <2>1. listening = TRUE
        BY DEF Init
    <2>2. peer[Server].sender.abs_seqno = 0 /\ peer[Server].sender.abs_ackno = 0
        BY <1>1, <1>2, <1>3
    <2> QED BY <2>1, <2>2 DEF ListeningOK
<1>6. ASSUME NEW h \in Hosts
      PROVE  /\ IsPeer(peer[h])
             /\ Direction(h, peer[h], peer[Other(h)])
             /\ LingerOK(peer[h], peer[Other(h)]) /\ FINFollows(peer[h].sender)
             /\ \A msg \in net[Other(h)] : MessageOf(h, peer[h], msg)
    <2>1. Other(h) \in Hosts
        BY ConfigIs
    <2>2. peer[h] = New(h) /\ peer[Other(h)] = New(Other(h)) /\ net[Other(h)] = {}
        BY <1>2, <2>1
    <2>3. Direction(h, peer[h], peer[Other(h)])
        BY <1>3, <1>4, <2>1, <2>2 DEF Direction
    <2>4. LingerOK(peer[h], peer[Other(h)])
        BY <1>3, <2>2 DEF LingerOK
    <2> QED BY <1>3, <2>2, <2>3, <2>4
<1>7. \E h \in Hosts : peer[h].linger_after_streams_finish
    BY <1>1, <1>2, <1>3
<1> QED BY <1>2, <1>5, <1>6, <1>7 DEF IInv

-----------------------------------------------------------------------------
(* The theorems *)

(***************************************************************************)
(* Whatever the network loses, repeats or reorders, both senders stay      *)
(* sound, both receivers assemble what was sent, and every message on the  *)
(* network is one that was sent at some time (tcp_peer.hh:63-117).         *)
(***************************************************************************)
THEOREM Invariance == Spec => []IInv
<1>1. IInv /\ [Next]_vars => IInv'
    BY StepIs, LosesKeeps, MovesKeeps
<1> QED BY <1>1, InitInv, PTL DEF Spec

(***************************************************************************)
(* The bytes ready for a program are those that the other one wrote, in    *)
(* order and without gap (tcp_receiver.cc:10-37, reassembler.cc).          *)
(***************************************************************************)
THEOREM BytesArriveIntact == Spec => []StreamIntact
<1>1. IInv => StreamIntact
    <2> SUFFICES ASSUME IInv, NEW h \in Hosts,
                        NEW k \in 1 .. Len(InboundStream(peer[h]).buffer)
                 PROVE  InboundStream(peer[h]).buffer[k]
                          = <<Other(h), BytesPopped(InboundStream(peer[h])) + k - 1>>
        BY DEF StreamIntact
    <2> DEFINE d == Cfg(Other(h))
               n == Config[h].recv_capacity
               limit == peer[Other(h)].sender.input.total_popped
               out == peer[h].receiver.reassembler.output
    <2>1. ReceiverSide(d, n, peer[h].receiver, peer[Other(h)].sender)
        BY PairIs DEF PairOK
    <2>2. OutputOK(d.alphabet, d.byte, n, limit, out)
        BY <2>1 DEF ReceiverSide, Assembling
    <2>3. InboundStream(peer[h]) = out
        BY DEF InboundStream, Inbound
    <2> HIDE DEF out
    <2>4. out.buffer[k] = d.byte[out.total_popped + k - 1]
        BY <2>2, <2>3 DEF OutputOK
    <2>5. out.total_popped \in Nat /\ k \in Nat /\ k > 0
        <3>1. out.buffer \in Seq(d.alphabet) /\ out.total_popped \in Nat
            BY <2>2 DEF OutputOK
        <3>2. Len(out.buffer) \in Nat
            BY <3>1
        <3> QED BY <2>3, <3>1, <3>2
    <2>6. out.total_popped + k - 1 \in Nat
        BY <2>5
    <2>7. d.byte[out.total_popped + k - 1]
             = <<Other(h), out.total_popped + k - 1>>
        BY <2>6 DEF Cfg
    <2> QED BY <2>3, <2>4, <2>7 DEF BytesPopped
<1> QED BY <1>1, Invariance, PTL

(***************************************************************************)
(* Not both hosts stop lingering: the one that closes its stream after the *)
(* other's end arrived goes, the other one stays (tcp_peer.hh:79-82).      *)
(***************************************************************************)
THEOREM OneLingers == Spec => []SomebodyLingers
<1>1. IInv => SomebodyLingers
    BY DEF IInv, SomebodyLingers
<1> QED BY <1>1, Invariance, PTL

-----------------------------------------------------------------------------
(* The streams as pipes *)

\* What has arrived at h was written by the other host.
ArrivalOK(h) ==
    /\ Arrived(h) \in Nat /\ Written(Other(h)) \in Nat
    /\ Arrived(h) <= Written(Other(h))
    /\ IsClosed(InboundStream(peer[h])) \in BOOLEAN
    /\ IsClosed(InboundStream(peer[h])) =>
          Finished(Other(h)) /\ Arrived(h) = Written(Other(h))

ArrivalsOK == \A h \in Hosts : ArrivalOK(h)

\* Nothing arrives that was not written, and the end only after everything.
LEMMA ArrivalsAreOK == IInv => ArrivalsOK
<1> SUFFICES ASSUME IInv, NEW h \in Hosts
             PROVE  ArrivalOK(h)
    BY DEF ArrivalsOK
<1> DEFINE d == Cfg(Other(h))
           n == Config[h].recv_capacity
           r == peer[h].receiver
           s == peer[Other(h)].sender
           got == BytesPushed(Inbound(r))
           closed == IsClosed(Inbound(r))
           sent == s.input.total_popped
           all == s.input.total_pushed
<1>1. /\ IsConfig(d) /\ n \in Nat /\ Good(d, s) /\ ReceiverSide(d, n, r, s)
    BY PairIs, ConfigIs DEF PairOK
<1>2. /\ got \in Nat /\ closed \in BOOLEAN /\ got <= sent
      /\ closed => got = sent /\ s.FINsent
    <2> HIDE DEF d, n, r, s
    <2> QED BY <1>1, ReceivedWasSent
<1>3. /\ sent \in Nat /\ all \in Nat /\ sent <= all
      /\ s.FINsent => IsFinished(s.input)
    <2> HIDE DEF d, s
    <2> QED BY <1>1, SenderNumbers
<1>4. /\ Arrived(h) = got /\ Written(Other(h)) = all
      /\ IsClosed(InboundStream(peer[h])) = closed
      /\ Finished(Other(h)) = s.input.stream_closed
    BY DEF Arrived, Written, BytesPushed, InboundStream, IsClosed, Finished, Outbound
<1>5. closed => s.input.stream_closed /\ all = sent
    BY <1>2, <1>3 DEF IsFinished
<1> HIDE DEF got, closed, sent, all
<1>6. got <= all /\ (closed => got = all)
    BY <1>2, <1>3, <1>5
<1> QED BY <1>2, <1>3, <1>4, <1>5, <1>6 DEF ArrivalOK

\* A step of host h, for the pipe it writes and for the one it reads
WriterMoves(h) ==
    /\ \/ /\ ~ Finished(h) /\ Written(h)' \in Nat /\ Written(h)' > Written(h)
          /\ Finished(h)' = Finished(h)
       \/ Finished(h)' = TRUE /\ Written(h)' = Written(h)
       \/ Written(h)' = Written(h) /\ Finished(h)' = Finished(h)
    /\ Arrived(Other(h))' = Arrived(Other(h))
    /\ IsClosed(InboundStream(peer[Other(h)]))'
          = IsClosed(InboundStream(peer[Other(h)]))

ReaderMoves(h) ==
    /\ Arrived(h)' \in Arrived(h) .. Written(Other(h))
    /\ IsClosed(InboundStream(peer[h])) => Arrived(h)' = Arrived(h)
    /\ IsClosed(InboundStream(peer[h]))' \in BOOLEAN
    /\ IsClosed(InboundStream(peer[h])) => IsClosed(InboundStream(peer[h]))'
    /\ IsClosed(InboundStream(peer[h]))' =>
          Finished(Other(h)) /\ Arrived(h)' = Written(Other(h))
    /\ Written(Other(h))' = Written(Other(h))
    /\ Finished(Other(h))' = Finished(Other(h))

\* What a move of host h does to the two pipes: it may write into one and may take
\* from the other.
LEMMA PipesMove ==
    ASSUME IInv, ArrivalsOK', NEW h \in Hosts, HostMoves(h)
    PROVE  WriterMoves(h) /\ ReaderMoves(h)
<1>1. PICK u, sent : Moves(h, u, sent)
    BY DEF HostMoves
<1> DEFINE o == Other(h)
           p == peer[h]
<1>2. o \in Hosts /\ o # h /\ Other(o) = h
    BY ConfigIs
<1>3. peer'[h] = u /\ peer'[o] = peer[o]
    BY <1>1, <1>2 DEF Moves, IInv
<1>4. /\ InputStep(p.sender.input, u.sender.input)
      /\ ReceiverGrows(p.receiver, u.receiver)
    BY <1>1 DEF Moves, HostStep
<1>5. ArrivalOK(h)' /\ ArrivalOK(o)'
    BY <1>2 DEF ArrivalsOK
<1>6. ArrivalOK(h)
    BY ArrivalsAreOK DEF ArrivalsOK
<1>7. /\ Written(o)' = Written(o) /\ Finished(o)' = Finished(o)
      /\ Arrived(o)' = Arrived(o)
      /\ IsClosed(InboundStream(peer[o]))' = IsClosed(InboundStream(peer[o]))
    BY <1>3 DEF Written, Finished, Arrived
<1>8. /\ Written(h) = p.sender.input.total_pushed
      /\ Finished(h) = p.sender.input.stream_closed
      /\ Arrived(h) = p.receiver.reassembler.output.total_pushed
      /\ IsClosed(InboundStream(peer[h]))
            = p.receiver.reassembler.output.stream_closed
    BY DEF Written, Finished, Arrived, BytesPushed, IsClosed, InboundStream,
           Inbound, Outbound
<1>9. /\ Written(h)' = u.sender.input.total_pushed
      /\ Finished(h)' = u.sender.input.stream_closed
      /\ Arrived(h)' = u.receiver.reassembler.output.total_pushed
      /\ IsClosed(InboundStream(peer[h]))'
            = u.receiver.reassembler.output.stream_closed
    BY <1>3 DEF Written, Finished, Arrived, BytesPushed, IsClosed, InboundStream,
           Inbound, Outbound
<1>10. /\ Good(Cfg(h), p.sender) /\ Good(Cfg(h), u.sender)
    BY <1>1, PairIs DEF PairOK, Moves, HostStep
<1>11. /\ p.sender.input.stream_closed \in BOOLEAN
       /\ u.sender.input.stream_closed \in BOOLEAN
    BY <1>10 DEF Good, InputOK
<1>12. Written(h)' \in Nat
    BY <1>2, <1>5 DEF ArrivalOK
<1>13. WriterMoves(h)
    BY <1>4, <1>7, <1>8, <1>9, <1>11, <1>12 DEF WriterMoves, InputStep
<1>14. ReaderMoves(h)
    <2> DEFINE a == Arrived(h)
               b == Arrived(h)'
               w == Written(o)
               x == IsClosed(InboundStream(peer[h]))
               y == IsClosed(InboundStream(peer[h]))'
    <2>1. /\ a \in Nat /\ w \in Nat /\ a <= w /\ x \in BOOLEAN
          /\ x => a = w
        BY <1>6 DEF ArrivalOK
    <2>2. /\ b \in Nat /\ b <= Written(o)' /\ y \in BOOLEAN
          /\ y => Finished(o)' /\ b = Written(o)'
        BY <1>5 DEF ArrivalOK
    <2>3. b >= a /\ (x => y)
        BY <1>4, <1>8, <1>9 DEF ReceiverGrows
    <2>4. b \in Nat /\ b <= w /\ (y => Finished(o) /\ b = w)
        BY <1>7, <2>2
    <2> HIDE DEF a, b, w, x, y
    <2>5. b \in a .. w /\ (x => b = a)
        BY <2>1, <2>3, <2>4
    <2> QED BY <1>7, <2>2, <2>3, <2>4, <2>5 DEF ReaderMoves, a, b, w, x, y
<1> QED BY <1>13, <1>14

(***************************************************************************)
(* Each direction of the connection implements a reliable byte pipe: the   *)
(* reader gets a prefix of what was written, nothing twice and nothing     *)
(* that was not written, and the end after all of it.                      *)
(***************************************************************************)
THEOREM ImplementsPipe == Spec => PipeSpec
<1>1. Client # Server /\ Client \in Hosts /\ Server \in Hosts
      /\ Other(Client) = Server /\ Other(Server) = Client /\ Hosts = {Client, Server}
    BY ConnectionAssumption DEF Hosts, Other
<1>2. Init => Upstream!Init /\ Downstream!Init
    <2> SUFFICES ASSUME Init
                 PROVE  \A h \in Hosts :
                           /\ Written(h) = 0 /\ Finished(h) = FALSE
                           /\ Arrived(h) = 0
                           /\ IsClosed(InboundStream(peer[h])) = FALSE
        BY <1>1 DEF Upstream!Init, Downstream!Init
    <2> TAKE h \in Hosts
    <2>1. peer[h] = NewTCPPeer(Config[h], 0)
        BY DEF Init
    <2>2. /\ Outbound(peer[h]) = NewByteStream(Config[h].send_capacity)
          /\ InboundStream(peer[h]) = NewByteStream(Config[h].recv_capacity)
        BY <2>1 DEF NewTCPPeer, Outbound, InboundStream, Inbound, NewTCPSender,
                    NewTCPReceiver, NewReassembler
    <2> QED BY <2>2 DEF NewByteStream, Written, Finished, Arrived, BytesPushed,
                        IsClosed
<1>3. IInv /\ ArrivalsOK' /\ [Next]_vars =>
          [Upstream!Next]_(Upstream!vars) /\ [Downstream!Next]_(Downstream!vars)
    <2> SUFFICES ASSUME IInv, ArrivalsOK', [Next]_vars
                 PROVE  /\ [Upstream!Next]_(Upstream!vars)
                        /\ [Downstream!Next]_(Downstream!vars)
        OBVIOUS
    <2>1. CASE Loses
        <3>1. peer' = peer
            BY <2>1 DEF Loses
        <3>2. UNCHANGED <<Upstream!vars, Downstream!vars>>
            BY <3>1 DEF Upstream!vars, Downstream!vars, Written, Finished, Arrived
        <3> QED BY <3>2
    <2>2. CASE HostMoves(Client)
        <3>1. WriterMoves(Client) /\ ReaderMoves(Client)
            BY <1>1, <2>2, PipesMove
        <3>2. Upstream!Write \/ Upstream!Finish \/ UNCHANGED Upstream!vars
            BY <1>1, <3>1 DEF WriterMoves, Upstream!Write, Upstream!Finish,
                              Upstream!vars
        <3>3. Downstream!Arrive
            BY <1>1, <3>1 DEF ReaderMoves, Downstream!Arrive
        <3> QED BY <3>2, <3>3 DEF Upstream!Next, Downstream!Next
    <2>3. CASE HostMoves(Server)
        <3>1. WriterMoves(Server) /\ ReaderMoves(Server)
            BY <1>1, <2>3, PipesMove
        <3>2. Downstream!Write \/ Downstream!Finish \/ UNCHANGED Downstream!vars
            BY <1>1, <3>1 DEF WriterMoves, Downstream!Write, Downstream!Finish,
                              Downstream!vars
        <3>3. Upstream!Arrive
            BY <1>1, <3>1 DEF ReaderMoves, Upstream!Arrive
        <3> QED BY <3>2, <3>3 DEF Upstream!Next, Downstream!Next
    <2> QED BY <1>1, <2>1, <2>2, <2>3, StepIs
<1> QED BY <1>2, <1>3, Invariance, ArrivalsAreOK, PTL
        DEF Spec, PipeSpec, Upstream!Spec, Downstream!Spec

-----------------------------------------------------------------------------
(* Acknowledgements *)

\* If no sender was told of more than was received, none is after a step.
LEMMA AcksFollow ==
    ASSUME EmptyAcknoIgnored, IInv, AckInv, [Next]_vars
    PROVE  AckInv'
<1>1. CASE Loses
    <2>1. peer' = peer
        BY <1>1 DEF Loses
    <2> QED BY <2>1 DEF AckInv
<1>2. ASSUME NEW h \in Hosts, HostMoves(h)
      PROVE  AckInv'
    <2>1. PICK u, sent : Moves(h, u, sent)
        BY <1>2 DEF HostMoves
    <2> DEFINE o == Other(h)
               p == peer[h]
               q == peer[o]
               d == Cfg(o)
               n == Config[h].recv_capacity
    <2>2. o \in Hosts /\ o # h /\ Other(o) = h /\ Hosts = {h, o}
        BY ConfigIs DEF Hosts, Other
    <2>3. peer'[h] = u /\ peer'[o] = q
        BY <2>1, <2>2 DEF Moves, IInv
    <2>4. AckOK(Cfg(h), p.sender, q.receiver) /\ AckOK(d, q.sender, p.receiver)
        BY <2>2 DEF AckInv
    <2>5. AckOK(Cfg(h), u.sender, q.receiver)
        BY <2>1, <2>4 DEF Moves, HostStep, AckStep
    <2>6. AckOK(d, q.sender, u.receiver)
        <3>1. /\ IsConfig(d) /\ n \in Nat /\ Good(d, q.sender)
              /\ ReceiverSide(d, n, p.receiver, q.sender)
            BY PairIs, ConfigIs DEF PairOK
        <3>2. /\ ReceiverSide(d, n, u.receiver, q.sender)
              /\ ReceiverGrows(p.receiver, u.receiver)
            BY <2>1 DEF Moves, HostStep
        <3> DEFINE x == Received(p.receiver)
                   y == Received(u.receiver)
                   a == q.sender.abs_ackno
        <3>3. x <= y /\ x \in Nat /\ y \in Nat
            <4> HIDE DEF d, n, p, q
            <4> QED BY <3>1, <3>2, ReceivedGrows, ReceivedWasSent
        <3>4. a \in Nat /\ a <= x
            BY <2>4, <3>1 DEF AckOK, Good, FieldsOK
        <3> HIDE DEF x, y, a
        <3>5. a <= y
            BY <3>3, <3>4
        <3> QED BY <2>4, <3>5 DEF AckOK, y, a
    <2>7. \A x \in Hosts :
              AckOK(Cfg(x), peer'[x].sender, peer'[Other(x)].receiver)
        <3> TAKE x \in Hosts
        <3>1. CASE x = h
            BY <2>3, <2>5, <3>1
        <3>2. CASE x = o
            BY <2>2, <2>3, <2>6, <3>2
        <3> QED BY <2>2, <3>1, <3>2
    <2> QED BY <2>7 DEF AckInv
<1> QED BY <1>1, <1>2, StepIs

\* Nothing was acknowledged at first.
LEMMA InitAcks == Init => AckInv
<1> SUFFICES ASSUME Init, NEW h \in Hosts
             PROVE  AckOK(Cfg(h), peer[h].sender, peer[Other(h)].receiver)
    BY DEF AckInv
<1>1. Other(h) \in Hosts
    BY ConfigIs
<1>2. /\ peer[h] = NewTCPPeer(Config[h], 0)
      /\ peer[Other(h)] = NewTCPPeer(Config[Other(h)], 0)
    BY <1>1 DEF Init
<1>3. /\ peer[h].sender.abs_ackno = 0 /\ peer[h].sender.abs_seqno = 0
      /\ peer[h].sender.outstanding = <<>>
      /\ peer[Other(h)].receiver.ISN = NULLOPT
    BY <1>2 DEF NewTCPPeer, NewTCPSender, NewTCPReceiver
<1>4. Received(peer[Other(h)].receiver) = 0
    BY <1>3 DEF Received
<1> QED BY <1>3, <1>4 DEF AckOK, AckPlaced

\* Nothing is taken as acknowledged that the peer has not received, provided that
\* the server's numbers are such that the 0 read from an empty ackno is out of range
\* (TCPSender::receive() and ack_received() in tcp_sender.cc).
THEOREM AcksInvariance ==
    ASSUME EmptyAcknoIgnored
    PROVE  Spec => []AckInv
<1>1. IInv /\ AckInv /\ [Next]_vars => AckInv'
    BY AcksFollow
<1> QED BY <1>1, InitAcks, Invariance, PTL DEF Spec

(***************************************************************************)
(* A sender throws away only what the other host's receiver has written to *)
(* its stream, if the 0 read from an empty ackno acknowledges nothing      *)
(* (tcp_sender.cc:103-131).                                                *)
(***************************************************************************)
THEOREM AckedWasThere ==
    ASSUME EmptyAcknoIgnored
    PROVE  Spec => []AckedWasReceived
<1>1. IInv /\ AckInv => AckedWasReceived
    <2> SUFFICES ASSUME IInv, AckInv, NEW h \in Hosts
                 PROVE  peer[h].sender.abs_ackno <=
                            IF ~HasAckno(peer[Other(h)]) THEN 0
                            ELSE 1 + Arrived(Other(h))
                                   + Bit(IsClosed(InboundStream(peer[Other(h)])))
        BY DEF AckedWasReceived
    <2> DEFINE o == Other(h)
               r == peer[o].receiver
               a == peer[h].sender.abs_ackno
               n == Arrived(o)
               b == Bit(IsClosed(InboundStream(peer[o])))
    <2>1. a <= Received(r)
        BY DEF AckInv, AckOK
    <2>2. Received(r) = IF r.ISN = NULLOPT THEN 0 ELSE n + 1 + b
        BY DEF Received, AbsAckno, Arrived, InboundStream
    <2>3. HasAckno(peer[o]) <=> r.ISN # NULLOPT
        BY DEF HasAckno
    <2>4. n \in Nat /\ b \in Nat
        <3>1. ArrivalOK(o)
            BY ArrivalsAreOK, ConfigIs DEF ArrivalsOK
        <3> QED BY <3>1 DEF ArrivalOK, Bit
    <2> HIDE DEF n, b
    <2>5. n + 1 + b = 1 + n + b
        BY <2>4
    <2> QED BY <2>1, <2>2, <2>3, <2>5 DEF n, b
<1> QED BY <1>1, Invariance, AcksInvariance, PTL

(***************************************************************************)
(* active() turns false without an error only when both streams arrived in *)
(* full (tcp_peer.hh:38-48).                                               *)
(***************************************************************************)
THEOREM OverIsOver ==
    ASSUME EmptyAcknoIgnored
    PROVE  Spec => []OverIsComplete
<1>1. IInv /\ AckInv => OverIsComplete
    <2> SUFFICES ASSUME IInv, AckInv, NEW h \in Hosts, ~ Active(peer[h])
                 PROVE  /\ Finished(h) /\ Finished(Other(h))
                        /\ IsClosed(InboundStream(peer[h]))
                        /\ IsClosed(InboundStream(peer[Other(h)]))
                        /\ Arrived(Other(h)) = Written(h)
        BY DEF OverIsComplete
    <2> DEFINE o == Other(h)
               p == peer[h]
               q == peer[o]
               s == p.sender
               r == q.receiver
               c == Cfg(h)
               d == Cfg(o)
               n == Config[h].recv_capacity
               m == Config[o].recv_capacity
    <2>1. o \in Hosts /\ Other(o) = h /\ IsConfig(c) /\ IsConfig(d)
          /\ n \in Nat /\ m \in Nat
        BY ConfigIs
    <2>2. /\ Good(c, s) /\ Good(d, q.sender) /\ FINFollows(s)
          /\ ReceiverSide(d, n, p.receiver, q.sender)
          /\ ReceiverSide(c, m, r, s)
        BY PairIs DEF PairOK
    <2>3. ~ HasError(InboundStream(p)) /\ ~ HasError(Outbound(p))
        <3>1. ~ HasError(Inbound(p.receiver))
            <4> HIDE DEF d, n, p, q
            <4> QED BY <2>1, <2>2, ReceivedWasSent
        <3>2. s.input.error \in c.errors /\ c.errors = {FALSE}
            BY <2>2, ConfigIs DEF Good, InputOK
        <3> QED BY <3>1, <3>2 DEF HasError, Outbound, InboundStream
    <2>4. /\ ~ (SequenceNumbersInFlight(s) > 0) /\ IsFinished(s.input)
          /\ IsClosed(InboundStream(p))
        BY <2>3 DEF Active, Outbound
    <2>5. s.outstanding = <<>>
        <3>1. /\ SequenceNumbersInFlight(s) \in Nat
              /\ SequenceNumbersInFlight(s) = 0 <=> s.outstanding = <<>>
            <4> HIDE DEF c, s
            <4> QED BY <2>1, <2>2, InFlightIs
        <3> QED BY <2>4, <3>1
    <2>6. s.FINsent
        BY <2>2, <2>4, <2>5 DEF FINFollows
    <2>7. s.abs_ackno = s.abs_seqno /\ s.abs_ackno <= Received(r)
        BY <2>5 DEF AckInv, AckOK, AckPlaced
    <2> DEFINE got    == BytesPushed(Inbound(r))
               closed == IsClosed(Inbound(r))
               sent   == s.input.total_popped
               all    == s.input.total_pushed
    <2>8. /\ s.abs_seqno \in Nat /\ sent \in Nat /\ all \in Nat /\ sent <= all
          /\ s.abs_seqno = 0 => ~ s.FINsent
          /\ s.abs_seqno > 0 => s.abs_seqno = 1 + sent + (IF s.FINsent THEN 1 ELSE 0)
        <3> HIDE DEF c, s
        <3> QED BY <2>1, <2>2, SenderNumbers
    <2>9. /\ got \in Nat /\ closed \in BOOLEAN /\ got <= sent
          /\ closed => got = sent
          /\ Received(r) \in Nat
          /\ r.ISN # NULLOPT => AbsAckno(r) = Received(r)
        <3> HIDE DEF c, s, r, m
        <3> QED BY <2>1, <2>2, ReceivedWasSent
    <2>10. AbsAckno(r) = got + 1 + (IF closed THEN 1 ELSE 0)
        BY DEF AbsAckno, Bit
    <2>11. r.ISN = NULLOPT => Received(r) = 0
        BY DEF Received
    <2>12. sent = all /\ s.input.stream_closed
        BY <2>4 DEF IsFinished
    <2>13. /\ Arrived(o) = got /\ IsClosed(InboundStream(q)) = closed
           /\ Written(h) = all /\ Finished(h) = s.input.stream_closed
        BY DEF Arrived, Written, Finished, InboundStream, Outbound, BytesPushed,
               IsClosed
    <2> HIDE DEF got, closed, sent, all
    <2>14. s.abs_seqno = 2 + sent
        BY <2>6, <2>8
    <2>15. closed /\ got = all
        <3> DEFINE x == s.abs_seqno
                   y == s.abs_ackno
                   z == Received(r)
        <3>1. x = 2 + sent /\ y = x /\ y <= z /\ sent \in Nat /\ z \in Nat
            BY <2>7, <2>8, <2>9, <2>14
        <3>2. r.ISN # NULLOPT => z = got + 1 + (IF closed THEN 1 ELSE 0)
            BY <2>9, <2>10
        <3>3. r.ISN = NULLOPT => z = 0
            BY <2>11
        <3> HIDE DEF x, y, z, r
        <3>4. z >= 2 + sent
            BY <3>1
        <3>5. z = got + 1 + (IF closed THEN 1 ELSE 0)
            BY <3>1, <3>2, <3>3, <3>4
        <3> QED BY <2>9, <2>12, <3>1, <3>4, <3>5
    <2>16. Finished(o)
        <3>1. ArrivalOK(h)
            BY ArrivalsAreOK DEF ArrivalsOK
        <3> QED BY <2>4, <3>1 DEF ArrivalOK
    <2> QED BY <2>4, <2>12, <2>13, <2>15, <2>16
<1> QED BY <1>1, Invariance, AcksInvariance, PTL
=============================================================================
