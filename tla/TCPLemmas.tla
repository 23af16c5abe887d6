----------------------------- MODULE TCPLemmas -----------------------------
(***************************************************************************)
(* What the proofs about TCP need of its parts: sequence numbers survive   *)
(* the wire, for every width of the integers, zero point and checkpoint; a *)
(* TCPSender stays sound under each of its operations, whatever stream it  *)
(* sends and whoever answers; and a Reassembler goes on assembling the     *)
(* stream, for any stream and capacity.                                    *)
(***************************************************************************)
EXTENDS TCPSender, SequenceTheorems, TLAPS
-----------------------------------------------------------------------------
(* Sequence numbers *)

LEMMA Widths ==
    /\ Mod32 \in Nat /\ Mod32 > 1 /\ Mod64 \in Nat
    /\ \E k \in Nat : k >= 4 /\ Mod64 = k * Mod32
<1>1. Mod32 \in Nat /\ Mod32 > 1 /\ Mod64 \in Nat
    BY WidthAssumption
<1>2. PICK k \in 4 .. Mod64 : Mod64 = k * Mod32
    BY WidthAssumption
<1> QED BY <1>1, <1>2

\* A number is its block of m numbers and its place in the block, and these are
\* the only ones.
LEMMA Division ==
    ASSUME NEW a \in Int, NEW m \in Nat, m > 0
    PROVE  /\ a \div m \in Int /\ a % m \in 0 .. m - 1
           /\ a = (a \div m) * m + (a % m)
OBVIOUS

LEMMA RemainderIs ==
    ASSUME NEW q \in Int, NEW m \in Nat, m > 0, NEW r \in 0 .. m - 1
    PROVE  (q * m + r) % m = r
OBVIOUS

\* Two places in blocks that lie apart
LEMMA BlocksApart ==
    ASSUME NEW m \in Nat, NEW q \in Int, NEW p \in Int, q < p
    PROVE  q * m + m <= p * m
OBVIOUS

\* What unwrap subtracts to find the place in the block
LEMMA RemainderOfWrapped ==
    ASSUME NEW n \in Nat, NEW zero_point \in UInt32
    PROVE  /\ Wrap(n, zero_point) \in UInt32
           /\ (Wrap(n, zero_point) - zero_point) % Mod32 = n % Mod32
<1> DEFINE r == n % Mod32
           raw == Wrap(n, zero_point)
<1>1. Mod32 \in Nat /\ Mod32 > 1 /\ zero_point \in 0 .. Mod32 - 1
    BY Widths DEF UInt32
<1>2. r \in 0 .. Mod32 - 1
    BY <1>1, Division
<1>3. raw = (zero_point + r) % Mod32
    BY DEF Wrap, WrapAdd
<1> HIDE DEF r, raw
<1>4. CASE zero_point + r < Mod32
    <2>1. 0 * Mod32 + (zero_point + r) = zero_point + r
        BY <1>1, <1>2
    <2>2. (0 * Mod32 + (zero_point + r)) % Mod32 = zero_point + r
        BY <1>1, <1>2, <1>4, RemainderIs
    <2>3. raw = zero_point + r
        BY <1>3, <2>1, <2>2
    <2>4. raw - zero_point = 0 * Mod32 + r
        BY <1>1, <1>2, <2>3
    <2>5. (0 * Mod32 + r) % Mod32 = r
        BY <1>1, <1>2, RemainderIs
    <2> QED BY <1>1, <1>2, <1>4, <2>3, <2>4, <2>5 DEF r, raw, UInt32
<1>5. CASE zero_point + r >= Mod32
    <2>1. 1 * Mod32 + (zero_point + r - Mod32) = zero_point + r
        BY <1>1, <1>2
    <2>2. (1 * Mod32 + (zero_point + r - Mod32)) % Mod32
              = zero_point + r - Mod32
        BY <1>1, <1>2, <1>5, RemainderIs
    <2>3. raw = zero_point + r - Mod32
        BY <1>3, <2>1, <2>2
    <2>4. raw - zero_point = (-1) * Mod32 + r
        BY <1>1, <1>2, <2>3
    <2>5. ((-1) * Mod32 + r) % Mod32 = r
        BY <1>1, <1>2, RemainderIs
    <2> QED BY <1>1, <1>2, <1>5, <2>3, <2>4, <2>5 DEF r, raw, UInt32
<1> QED BY <1>1, <1>2, <1>4, <1>5

\* Two numbers with the same sequence number have the same place in their
\* blocks, and the other way round.
LEMMA SameOnWire ==
    ASSUME NEW m \in Nat, NEW n \in Nat, NEW zero_point \in UInt32
    PROVE  Wrap(m, zero_point) = Wrap(n, zero_point) <=> m % Mod32 = n % Mod32
<1>1. Wrap(m, zero_point) = Wrap(n, zero_point) => m % Mod32 = n % Mod32
    <2>1. /\ (Wrap(m, zero_point) - zero_point) % Mod32 = m % Mod32
          /\ (Wrap(n, zero_point) - zero_point) % Mod32 = n % Mod32
        BY RemainderOfWrapped
    <2> QED BY <2>1
<1>2. m % Mod32 = n % Mod32 => Wrap(m, zero_point) = Wrap(n, zero_point)
    BY DEF Wrap
<1> QED BY <1>1, <1>2

(***************************************************************************)
(* unwrap returns a 64-bit number with the sequence number it was given,   *)
(* and none that has it is closer to the checkpoint                        *)
(* (wrapping_integers.cc:14-30), whatever wraps around in between.         *)
(***************************************************************************)
THEOREM UnwrapClosest ==
    ASSUME NEW n \in UInt64, NEW zero_point \in UInt32, NEW checkpoint \in UInt64
    PROVE  LET u == Unwrap(Wrap(n, zero_point), zero_point, checkpoint)
           IN  /\ u \in UInt64 /\ Wrap(u, zero_point) = Wrap(n, zero_point)
               /\ \A m \in UInt64 :
                     Wrap(m, zero_point) = Wrap(n, zero_point)
                        => Distance(u, checkpoint) <= Distance(m, checkpoint)
<1> DEFINE u == Unwrap(Wrap(n, zero_point), zero_point, checkpoint)
           r == n % Mod32
           s == checkpoint % Mod32
           p == checkpoint \div Mod32
           block == p * Mod32
           med == block + r
           low == U64(med - Mod32)
           high == U64(med + Mod32)
<1>1. PICK k \in Nat : k >= 4 /\ Mod64 = k * Mod32
    BY Widths
<1>2. /\ Mod32 \in Nat /\ Mod32 > 1 /\ Mod64 \in Nat
      /\ n \in 0 .. Mod64 - 1 /\ checkpoint \in 0 .. Mod64 - 1
    BY Widths DEF UInt64
<1>3. (Wrap(n, zero_point) - zero_point) % Mod32 = r
    BY <1>2, RemainderOfWrapped
<1>4. u = IF /\ med >= Mod32 /\ Distance(low, checkpoint) < Distance(med, checkpoint)
             /\ Distance(low, checkpoint) < Distance(high, checkpoint)
          THEN low
          ELSE IF Distance(high, checkpoint) < Distance(med, checkpoint)
          THEN high ELSE med
    BY <1>3 DEF Unwrap
<1>5. /\ r \in 0 .. Mod32 - 1 /\ s \in 0 .. Mod32 - 1 /\ p \in Int
      /\ checkpoint = block + s
    BY <1>2, Division
<1>6. p >= 0 /\ p <= k - 1
    <2> HIDE DEF s, p
    <2>1. CASE p < 0
        BY <1>2, <1>5, <2>1, BlocksApart
    <2>2. CASE k <= p
        BY <1>1, <1>2, <1>5, <2>2
    <2> QED BY <1>1, <1>5, <2>1, <2>2
<1>7. /\ block \in Nat /\ block + Mod32 <= Mod64
      /\ p = 0 => block = 0
      /\ p >= 1 => block >= Mod32
      /\ p <= k - 2 => block + Mod32 + Mod32 <= Mod64
      /\ p = k - 1 => block + Mod32 = Mod64 /\ block >= Mod32 + Mod32 + Mod32
    <2> HIDE DEF p
    <2> QED BY <1>1, <1>2, <1>5, <1>6
<1> HIDE DEF r, s, p, block
<1>8. /\ med \in UInt64
      /\ med >= Mod32 <=> p >= 1
      /\ p >= 1 => low = med - Mod32
      /\ p <= k - 2 => high = med + Mod32
      /\ p = k - 1 => high = r
    BY <1>1, <1>2, <1>5, <1>6, <1>7 DEF U64, UInt64
<1> HIDE DEF med, low, high
<1>9. med = block + r
    BY DEF med

\* A wrapped number is never the closest.
<1>10. p = k - 1 => ~ (Distance(high, checkpoint) < Distance(med, checkpoint))
                    /\ Distance(high, checkpoint) > Mod32
    BY <1>1, <1>2, <1>5, <1>7, <1>8, <1>9 DEF Distance
<1>11. \/ u = med
       \/ p >= 1 /\ u = low
       \/ p <= k - 2 /\ u = high
    <2>1. p <= k - 2 \/ p = k - 1
        BY <1>1, <1>5, <1>6
    <2> QED BY <1>4, <1>8, <1>10, <2>1
<1>12. /\ Distance(u, checkpoint) <= Distance(med, checkpoint)
       /\ p >= 1 => Distance(u, checkpoint) <= Distance(low, checkpoint)
       /\ p <= k - 2 => Distance(u, checkpoint) <= Distance(high, checkpoint)
    <2>1. checkpoint \in Int /\ med \in Int
        BY <1>2, <1>8 DEF UInt64
    <2>2. low \in Int /\ high \in Int
        BY <1>2, <2>1, Widths DEF low, high, U64
    <2>3. /\ Distance(low, checkpoint) \in Int
          /\ Distance(med, checkpoint) \in Int
          /\ Distance(high, checkpoint) \in Int
        BY <2>1, <2>2 DEF Distance
    <2>4. p >= 1 /\ ~ (Distance(low, checkpoint) < Distance(high, checkpoint))
             /\ p <= k - 2
             => Distance(med, checkpoint) <= Distance(high, checkpoint)
                \/ Distance(high, checkpoint) <= Distance(low, checkpoint)
        BY <2>3
    <2>5. p = k - 1 => Distance(med, checkpoint) <= Distance(high, checkpoint)
        BY <1>10, <2>3
    <2> QED BY <1>4, <1>8, <1>10, <2>3, <2>4, <2>5
<1>13. u \in UInt64 /\ \E q \in Int : u = q * Mod32 + r
    <2>1. /\ med = p * Mod32 + r /\ med - Mod32 = (p - 1) * Mod32 + r
          /\ med + Mod32 = (p + 1) * Mod32 + r
        BY <1>2, <1>5, <1>9 DEF block
    <2>2. CASE u = med
        BY <1>5, <1>8, <2>1, <2>2
    <2>3. CASE p >= 1 /\ u = low
        <3>1. u \in UInt64
            BY <1>2, <1>8, <2>3 DEF UInt64
        <3>2. u = (p - 1) * Mod32 + r /\ p - 1 \in Int
            BY <1>5, <1>8, <2>1, <2>3
        <3> QED BY <3>1, <3>2
    <2>4. CASE p <= k - 2 /\ u = high
        <3>1. u \in UInt64
            BY <1>2, <1>5, <1>7, <1>8, <1>9, <2>4 DEF UInt64
        <3>2. u = (p + 1) * Mod32 + r /\ p + 1 \in Int
            BY <1>5, <1>8, <2>1, <2>4
        <3> QED BY <3>1, <3>2
    <2> QED BY <1>11, <2>2, <2>3, <2>4
<1>14. Wrap(u, zero_point) = Wrap(n, zero_point)
    <2>1. PICK q \in Int : u = q * Mod32 + r
        BY <1>13
    <2>2. u % Mod32 = r
        BY <1>2, <1>5, <2>1, RemainderIs
    <2>3. u \in Nat /\ n \in Nat
        BY <1>2, <1>13 DEF UInt64
    <2> HIDE DEF u
    <2> QED BY <2>2, <2>3, SameOnWire DEF r
<1>15. ASSUME NEW m \in UInt64, Wrap(m, zero_point) = Wrap(n, zero_point)
       PROVE  Distance(u, checkpoint) <= Distance(m, checkpoint)
    <2> DEFINE t == m \div Mod32
    <2>1. m \in 0 .. Mod64 - 1 /\ m \in Nat /\ n \in Nat
        BY <1>2 DEF UInt64
    <2>2. m % Mod32 = r
        BY <1>15, <2>1, SameOnWire DEF r
    <2>3. t \in Int /\ m = t * Mod32 + r
        BY <1>2, <2>1, <2>2, Division
    <2> HIDE DEF t, u
    <2>4. t >= 0 /\ t <= k - 1
        <3>1. CASE t < 0
            BY <1>2, <1>5, <2>1, <2>3, <3>1, BlocksApart
        <3>2. CASE k <= t
            <4>1. k * Mod32 <= t * Mod32
                BY <1>1, <1>2, <2>3, <3>2
            <4> QED BY <1>1, <1>2, <1>5, <2>1, <2>3, <4>1
        <3> QED BY <1>1, <2>3, <3>1, <3>2
    <2>5. CASE t = p
        BY <1>9, <1>12, <2>3, <2>5 DEF block
    <2>6. CASE t < p
        <3>1. t * Mod32 + Mod32 <= block /\ t * Mod32 \in Int
            BY <1>2, <1>5, <2>3, <2>6 DEF block
        <3>2. p >= 1 /\ low = block + r - Mod32
            <4>1. p >= 1
                BY <1>5, <2>3, <2>4, <2>6
            <4>2. low = med - Mod32
                BY <4>1, <1>8
            <4> QED BY <4>1, <4>2, <1>2, <1>5, <1>7, <1>9
        <3>3. Distance(low, checkpoint) <= Distance(m, checkpoint)
            <4> DEFINE b == t * Mod32
            <4>1. b + Mod32 <= block /\ b \in Int /\ m = b + r
                BY <2>3, <3>1
            <4> HIDE DEF b
            <4> QED BY <1>2, <1>5, <1>7, <3>2, <4>1 DEF Distance
        <3>4. Distance(u, checkpoint) <= Distance(low, checkpoint)
            BY <1>12, <3>2
        <3>5. /\ Distance(u, checkpoint) \in Int /\ Distance(m, checkpoint) \in Int
              /\ Distance(low, checkpoint) \in Int
            BY <1>2, <1>5, <1>7, <1>13, <2>1, <3>2 DEF Distance, UInt64
        <3> QED BY <3>3, <3>4, <3>5
    <2>7. CASE p < t
        <3>1. block + Mod32 <= t * Mod32 /\ t * Mod32 \in Int
            BY <1>2, <1>5, <2>3, <2>7 DEF block
        <3>2. p <= k - 2 /\ high = block + r + Mod32
            BY <1>1, <1>2, <1>5, <1>7, <1>8, <1>9, <2>3, <2>4, <2>7
        <3>3. Distance(high, checkpoint) <= Distance(m, checkpoint)
            <4> DEFINE b == t * Mod32
            <4>1. block + Mod32 <= b /\ b \in Int /\ m = b + r
                BY <2>3, <3>1
            <4> HIDE DEF b
            <4> QED BY <1>2, <1>5, <1>7, <3>2, <4>1 DEF Distance
        <3>4. Distance(u, checkpoint) <= Distance(high, checkpoint)
            BY <1>12, <3>2
        <3>5. /\ Distance(u, checkpoint) \in Int /\ Distance(m, checkpoint) \in Int
              /\ Distance(high, checkpoint) \in Int
            BY <1>2, <1>5, <1>7, <1>13, <2>1, <3>2 DEF Distance, UInt64
        <3> QED BY <3>3, <3>4, <3>5
    <2> QED BY <1>5, <2>3, <2>5, <2>6, <2>7
<1> HIDE DEF u
<1>16. u = Unwrap(Wrap(n, zero_point), zero_point, checkpoint)
    BY DEF u
<1> QED BY <1>13, <1>14, <1>15, <1>16

(***************************************************************************)
(* A number within half the 32-bit space of the checkpoint survives the    *)
(* trip over the wire (wrapping_integers.cc:7-30).                         *)
(***************************************************************************)
THEOREM SurvivesWire ==
    ASSUME NEW n \in UInt64, NEW zero_point \in UInt32,
           NEW checkpoint \in UInt64, 2 * Distance(n, checkpoint) < Mod32
    PROVE  Unwrap(Wrap(n, zero_point), zero_point, checkpoint) = n
<1> DEFINE u == Unwrap(Wrap(n, zero_point), zero_point, checkpoint)
<1>1. /\ u \in UInt64 /\ Wrap(u, zero_point) = Wrap(n, zero_point)
      /\ Distance(u, checkpoint) <= Distance(n, checkpoint)
    BY UnwrapClosest
<1> HIDE DEF u
<1>2. /\ Mod32 \in Nat /\ Mod32 > 1
      /\ u \in Nat /\ n \in Nat /\ checkpoint \in Nat
    BY <1>1, Widths DEF UInt64
<1>3. u % Mod32 = n % Mod32
    BY <1>1, <1>2, SameOnWire
<1> DEFINE q == u \div Mod32
           p == n \div Mod32
           r == n % Mod32
<1>4. /\ q \in Int /\ p \in Int /\ r \in Int
      /\ u = q * Mod32 + r /\ n = p * Mod32 + r
    BY <1>2, <1>3, Division
<1>5. u - n < Mod32 /\ n - u < Mod32
    BY <1>1, <1>2 DEF Distance
<1> HIDE DEF q, p, r
<1>6. CASE q < p
    BY <1>2, <1>4, <1>5, <1>6, BlocksApart
<1>7. CASE p < q
    BY <1>2, <1>4, <1>5, <1>7, BlocksApart
<1>8. CASE p = q
    BY <1>4, <1>8 DEF u
<1> QED BY <1>4, <1>6, <1>7, <1>8
-----------------------------------------------------------------------------
(* The sender *)

(***************************************************************************)
(* The parameters of a sender: its ISN, initial timeout and capacity, the  *)
(* length and the bytes of its stream, the largest number that messages to *)
(* it may hold, and the values its error flag may take.                    *)
(***************************************************************************)
IsConfig(c) ==
    /\ c.isn \in UInt32 /\ c.rto \in Nat \ {0} /\ c.capacity \in Nat
    /\ c.length \in Nat /\ c.reach \in Nat
    /\ c.length + 2 <= c.reach /\ 2 * c.reach < Mod32
    /\ \A i \in Nat : c.byte[i] \in c.alphabet
    /\ c.errors \subseteq BOOLEAN /\ FALSE \in c.errors

(***************************************************************************)
(* The first sequence number of a message, whatever the sender has become  *)
(* since it was sent.                                                      *)
(***************************************************************************)
First(c, msg) == Unwrap(msg.seqno, c.isn, 0)

Msgs(c) == [seqno : UInt32, SYN : BOOLEAN, payload : Seq(c.alphabet),
            FIN : BOOLEAN, RST : c.errors]

\* The parameters' types
LEMMA Numbers ==
    ASSUME NEW c, IsConfig(c)
    PROVE  /\ c.length \in Nat /\ c.reach \in Nat /\ c.capacity \in Nat
           /\ c.rto \in Nat /\ c.rto > 0 /\ c.isn \in UInt32
           /\ MAX_PAYLOAD_SIZE \in Nat /\ MAX_PAYLOAD_SIZE > 0
           /\ Mod32 \in Nat /\ Mod64 \in Nat /\ Mod32 > 1
           /\ Mod16 \in Nat /\ Mod16 > 0
           /\ 2 * c.reach < Mod32 /\ 4 * Mod32 <= Mod64
           /\ c.length + 2 <= c.reach
<1>1. PICK k \in Nat : k >= 4 /\ Mod64 = k * Mod32
    BY Widths
<1>2. Mod32 \in Nat /\ Mod32 > 1 /\ Mod64 \in Nat
    BY Widths
<1>3. 4 * Mod32 <= Mod64
    BY <1>1, <1>2
<1>4. /\ c.length \in Nat /\ c.reach \in Nat /\ c.capacity \in Nat
      /\ c.rto \in Nat /\ c.rto > 0 /\ c.isn \in UInt32
      /\ 2 * c.reach < Mod32 /\ c.length + 2 <= c.reach
    BY DEF IsConfig
<1> QED BY <1>2, <1>3, <1>4, PayloadAssumption, WidthAssumption

\* The parameters that are not numbers
LEMMA Values ==
    ASSUME NEW c, IsConfig(c)
    PROVE  /\ \A i \in Nat : c.byte[i] \in c.alphabet
           /\ c.errors \subseteq BOOLEAN /\ FALSE \in c.errors
BY DEF IsConfig

LEMMA LengthIs ==
    ASSUME NEW c, IsConfig(c), NEW msg \in Msgs(c)
    PROVE  /\ Len(msg.payload) \in Nat /\ SequenceLength(msg) \in Nat
           /\ Bit(msg.SYN) \in 0 .. 1 /\ Bit(msg.FIN) \in 0 .. 1
           /\ SequenceLength(msg) =
                 Bit(msg.SYN) + Len(msg.payload) + Bit(msg.FIN)
<1>1. msg.payload \in Seq(c.alphabet)
    BY DEF Msgs
<1>2. Len(msg.payload) \in Nat
    BY <1>1, LenProperties
<1>3. Bit(msg.SYN) \in 0 .. 1 /\ Bit(msg.FIN) \in 0 .. 1
    BY DEF Bit
<1> QED BY <1>2, <1>3 DEF SequenceLength

\* A number the sender may have sent is found again, whatever byte of the
\* stream is the checkpoint.
LEMMA NumberSurvives ==
    ASSUME NEW c, IsConfig(c), NEW n \in 0 .. c.reach, NEW p \in 0 .. c.length
    PROVE  Unwrap(Wrap(n, c.isn), c.isn, p) = n
<1>1. 2 * Distance(n, p) < Mod32
    BY Numbers DEF Distance
<1>2. n \in UInt64 /\ p \in UInt64
    BY Numbers DEF UInt64
<1> QED BY <1>1, <1>2, Numbers, SurvivesWire
-----------------------------------------------------------------------------
(* The inductive invariant *)

\* What is outstanding is contiguous and ends at number next, each message
\* holds what belongs at its place.
Placed(c, queue, i, next, fin) ==
    LET msg == queue[i]
    IN  /\ First(c, msg) \in Nat /\ msg.seqno = Wrap(First(c, msg), c.isn)
        /\ SequenceLength(msg) > 0
        /\ First(c, msg) + SequenceLength(msg) <= next
        /\ First(c, msg) + SequenceLength(msg) =
              IF i = Len(queue) THEN next ELSE First(c, queue[i + 1])
        /\ msg.SYN <=> First(c, msg) = 0
        /\ msg.FIN <=> (fin /\ i = Len(queue))
        /\ Len(msg.payload) <= MAX_PAYLOAD_SIZE
        /\ \A k \in 1 .. Len(msg.payload) :
              msg.payload[k] = c.byte[First(c, msg) - 1 + Bit(msg.SYN) + k - 1]

InOrder(c, queue, next, fin) ==
    /\ queue \in Seq(Msgs(c))
    /\ \A i \in 1 .. Len(queue) : Placed(c, queue, i, next, fin)

InputOK(c, b) ==
    /\ b = [capacity |-> c.capacity, error |-> b.error,
            total_pushed |-> b.total_pushed, buffer |-> b.buffer,
            stream_closed |-> b.stream_closed,
            total_popped |-> b.total_popped]
    /\ b.error \in c.errors /\ b.stream_closed \in BOOLEAN
    /\ b.total_pushed \in 0 .. c.length /\ b.total_popped \in Nat
    /\ b.buffer \in Seq(c.alphabet) /\ Len(b.buffer) <= c.capacity
    /\ b.total_popped + Len(b.buffer) = b.total_pushed
    /\ \A k \in 1 .. Len(b.buffer) : b.buffer[k] = c.byte[b.total_popped + k - 1]

\* A sender, by the members that change
Sender(c, input, queue, rto, time, on, seqno, ackno, retx, window, fin) ==
    [input |-> input, isn |-> c.isn, initial_RTO_ms |-> c.rto,
     outstanding |-> queue, RTO |-> rto, timer_time |-> time,
     timer_on |-> on, abs_seqno |-> seqno, abs_ackno |-> ackno,
     consecutive_retransmissions |-> retx, window_size |-> window,
     FINsent |-> fin]

IsSender(c, s) ==
    s = Sender(c, s.input, s.outstanding, s.RTO, s.timer_time, s.timer_on,
               s.abs_seqno, s.abs_ackno, s.consecutive_retransmissions,
               s.window_size, s.FINsent)

FieldsOK(s) ==
    /\ s.RTO \in Nat /\ s.RTO > 0 /\ s.timer_time \in Nat
    /\ s.timer_on \in BOOLEAN /\ s.abs_seqno \in Nat /\ s.abs_ackno \in Nat
    /\ s.consecutive_retransmissions \in Nat /\ s.window_size \in Nat
    /\ s.FINsent \in BOOLEAN

Accounted(s) ==
    /\ s.abs_seqno = IF s.abs_seqno = 0 THEN 0
                     ELSE 1 + s.input.total_popped + Bit(s.FINsent)
    /\ s.abs_seqno = 0 => s.input.total_popped = 0 /\ ~ s.FINsent
    /\ s.FINsent => IsFinished(s.input)

Timed(s) ==
    /\ s.timer_on <=> s.outstanding # <<>>
    /\ s.timer_on => s.timer_time < s.RTO

Good(c, s) ==
    /\ IsSender(c, s) /\ InputOK(c, s.input) /\ FieldsOK(s)
    /\ Accounted(s) /\ InOrder(c, s.outstanding, s.abs_seqno, s.FINsent)
    /\ Timed(s)

LEMMA SenderFields ==
    ASSUME NEW c, IsConfig(c), NEW input, NEW queue, NEW rto, NEW time, NEW on,
           NEW seqno, NEW ackno,
           NEW retx, NEW window, NEW fin, NEW s,
           s = Sender(c, input, queue, rto, time, on, seqno, ackno, retx, window, fin)
    PROVE  /\ s.input = input /\ s.outstanding = queue /\ s.RTO = rto
           /\ s.timer_time = time /\ s.timer_on = on /\ s.abs_seqno = seqno
           /\ s.abs_ackno = ackno /\ s.consecutive_retransmissions = retx
           /\ s.window_size = window /\ s.FINsent = fin
           /\ s.isn = c.isn /\ s.initial_RTO_ms = c.rto
           /\ IsSender(c, s)
<1>1. /\ s.input = input /\ s.outstanding = queue /\ s.RTO = rto
      /\ s.timer_time = time /\ s.timer_on = on /\ s.abs_seqno = seqno
      /\ s.abs_ackno = ackno /\ s.consecutive_retransmissions = retx
      /\ s.window_size = window /\ s.FINsent = fin
      /\ s.isn = c.isn /\ s.initial_RTO_ms = c.rto
    BY DEF Sender
<1> QED BY <1>1 DEF IsSender

LEMMA GoodFacts ==
    ASSUME NEW c, IsConfig(c), NEW s, Good(c, s)
    PROVE  /\ s.isn = c.isn /\ s.initial_RTO_ms = c.rto
           /\ s.input.total_popped \in 0 .. c.length
           /\ s.input.total_pushed \in 0 .. c.length
           /\ s.input.total_popped <= s.input.total_pushed
           /\ Len(s.input.buffer) \in Nat
           /\ Len(s.input.buffer) = s.input.total_pushed - s.input.total_popped
           /\ BytesBuffered(s.input) = Len(s.input.buffer)
           /\ BytesPopped(s.input) = s.input.total_popped
           /\ s.abs_seqno \in 0 .. c.length + 2
           /\ s.outstanding \in Seq(Msgs(c)) /\ Len(s.outstanding) \in Nat
<1>1. s.isn = c.isn /\ s.initial_RTO_ms = c.rto
    BY DEF Good, IsSender, Sender
<1> DEFINE pushed == s.input.total_pushed
           popped == s.input.total_popped
           held == Len(s.input.buffer)
<1>2. /\ pushed \in 0 .. c.length /\ popped \in Nat
      /\ s.input.buffer \in Seq(c.alphabet) /\ popped + held = pushed
    BY DEF Good, InputOK
<1>3. held \in Nat
    BY <1>2, LenProperties
<1>4. BytesBuffered(s.input) = U64(pushed - popped)
    BY DEF BytesBuffered
<1>5. s.abs_seqno \in Nat /\ Bit(s.FINsent) \in 0 .. 1
      /\ (s.abs_seqno = 0 \/ s.abs_seqno = 1 + popped + Bit(s.FINsent))
    BY DEF Good, FieldsOK, Accounted, Bit
<1>6. s.outstanding \in Seq(Msgs(c)) /\ Len(s.outstanding) \in Nat
    <2>1. s.outstanding \in Seq(Msgs(c))
        BY DEF Good, InOrder
    <2> QED BY <2>1, LenProperties
<1>7. BytesPopped(s.input) = popped
    BY DEF BytesPopped
<1> HIDE DEF pushed, popped, held
<1>8. /\ popped \in 0 .. c.length /\ popped <= pushed
      /\ held = pushed - popped
    BY <1>2, <1>3, Numbers
<1>9. U64(pushed - popped) = held
    <2> DEFINE length == c.length
               reach == c.reach
    <2>1. /\ pushed \in 0 .. length /\ popped \in 0 .. length /\ popped <= pushed
          /\ length \in Nat /\ reach \in Nat /\ length + 2 <= reach
          /\ Mod32 \in Nat /\ Mod64 \in Nat
          /\ 2 * reach < Mod32 /\ 4 * Mod32 <= Mod64
        BY <1>2, <1>8, Numbers
    <2> HIDE DEF length, reach
    <2>2. pushed - popped >= 0 /\ pushed - popped < Mod64
        BY <2>1
    <2>3. U64(pushed - popped) = pushed - popped
        BY <2>1, <2>2 DEF U64
    <2> QED BY <1>8, <2>3
<1>10. s.abs_seqno \in 0 .. c.length + 2
    <2> DEFINE next == s.abs_seqno
               bit == Bit(s.FINsent)
               length == c.length
    <2>1. /\ next \in Nat /\ bit \in 0 .. 1 /\ length \in Nat
          /\ next = 0 \/ next = 1 + popped + bit
          /\ popped \in 0 .. length
        BY <1>5, <1>8, Numbers
    <2> HIDE DEF next, bit, length
    <2>2. next \in 0 .. length + 2
        BY <2>1
    <2> QED BY <2>2 DEF next, length
<1> QED BY <1>1, <1>2, <1>3, <1>4, <1>6, <1>7, <1>8, <1>9, <1>10
        DEF pushed, popped, held

\* What Placed says, one by one
LEMMA PlacedFacts ==
    ASSUME NEW c, IsConfig(c), NEW queue, NEW next \in Nat, NEW fin,
           InOrder(c, queue, next, fin),
           NEW i \in 1 .. Len(queue)
    PROVE  /\ queue[i] \in Msgs(c)
           /\ First(c, queue[i]) \in Nat /\ SequenceLength(queue[i]) \in Nat
           /\ SequenceLength(queue[i]) > 0
           /\ First(c, queue[i]) + SequenceLength(queue[i]) <= next
           /\ First(c, queue[i]) + SequenceLength(queue[i]) =
                 IF i = Len(queue) THEN next ELSE First(c, queue[i + 1])
<1>1. queue[i] \in Msgs(c)
    BY ElementOfSeq DEF InOrder
<1> QED BY <1>1, LengthIs DEF InOrder, Placed
-----------------------------------------------------------------------------
(* The numbers in flight *)

AddLength(sum, msg) == sum + SequenceLength(msg)

\* The lengths of the first i messages add up to the distance they reach.
SumSoFar(of, i, sum) ==
    /\ i = 0 => sum = 0
    /\ i # 0 => sum = First(of.c, of.queue[i]) + SequenceLength(of.queue[i])
                         - First(of.c, of.queue[1])

Flight == INSTANCE FoldProofs WITH Op <- AddLength, Inv <- SumSoFar

LEMMA FlightIs ==
    ASSUME NEW s
    PROVE  SequenceNumbersInFlight(s) = Flight!Fold(0, s.outstanding)
BY DEF Flight!Fold, Flight!FoldLeft, Flight!MapThenFoldSet, Flight!Max, AddLength,
   SequenceNumbersInFlight, FoldLeft, MapThenFoldSet, Max

LEMMA SumIs ==
    ASSUME NEW c, IsConfig(c), NEW queue, NEW next \in Nat, NEW fin,
           InOrder(c, queue, next, fin)
    PROVE  Flight!Fold(0, queue) = IF queue = <<>> THEN 0 ELSE next - First(c, queue[1])
<1> DEFINE n == Len(queue)
           of == [c |-> c, queue |-> queue]
<1>8. of.c = c /\ of.queue = queue
    OBVIOUS
<1> HIDE DEF of
<1>1. queue \in Seq(Msgs(c)) /\ n \in Nat /\ DOMAIN queue = 1 .. n
    <2>1. queue \in Seq(Msgs(c))
        BY DEF InOrder
    <2> QED BY <2>1, LenProperties
<1>2. \A i \in 1 .. n :
          /\ First(c, queue[i]) \in Nat /\ SequenceLength(queue[i]) \in Nat
          /\ First(c, queue[i]) + SequenceLength(queue[i]) =
                IF i = n THEN next ELSE First(c, queue[i + 1])
    BY PlacedFacts
<1>3. SumSoFar(of, 0, 0)
    BY DEF SumSoFar
<1> HIDE DEF n
<1>4. ASSUME NEW i \in 1 .. n, NEW acc, SumSoFar(of, i - 1, acc)
      PROVE  SumSoFar(of, i, AddLength(acc, queue[i]))
    <2>1. CASE i = 1
        <3>1. acc = 0
            BY <1>4, <1>8, <2>1 DEF SumSoFar
        <3> QED BY <1>2, <1>8, <2>1, <3>1 DEF SumSoFar, AddLength
    <2>2. CASE i # 1
        <3> DEFINE j == i - 1
        <3>1. j \in 1 .. n /\ j # 0 /\ j # n /\ j + 1 = i /\ i # 0
            BY <1>1, <2>2
        <3>2. SumSoFar(of, j, acc)
            BY <1>4
        <3> HIDE DEF j
        <3>5. acc = First(c, queue[j]) + SequenceLength(queue[j]) - First(c, queue[1])
            BY <1>8, <3>1, <3>2 DEF SumSoFar
        <3>6. First(c, queue[j]) + SequenceLength(queue[j]) = First(c, queue[i])
            BY <1>2, <3>1
        <3>4. /\ First(c, queue[i]) \in Nat /\ SequenceLength(queue[i]) \in Nat
              /\ First(c, queue[1]) \in Nat
              /\ First(c, queue[j]) \in Nat /\ SequenceLength(queue[j]) \in Nat
            BY <1>1, <1>2, <3>1
        <3>3. acc = First(c, queue[i]) - First(c, queue[1])
            BY <3>4, <3>5, <3>6
        <3> QED BY <1>8, <3>1, <3>3, <3>4 DEF SumSoFar, AddLength
    <2> QED BY <2>1, <2>2
<1>5. SumSoFar(of, n, Flight!Fold(0, queue))
    BY <1>1, <1>3, <1>4, Flight!FoldInvariant
<1>6. CASE queue = <<>>
    <2>1. n = 0
        BY <1>6 DEF n
    <2> QED BY <1>5, <1>6, <1>8, <2>1 DEF SumSoFar
<1>7. CASE queue # <<>>
    <2>1. n # 0 /\ n \in 1 .. n
        BY <1>1, <1>7, EmptySeq DEF n
    <2> QED BY <1>2, <1>5, <1>7, <1>8, <2>1 DEF SumSoFar
<1> QED BY <1>6, <1>7

LEMMA InFlightIs ==
    ASSUME NEW c, IsConfig(c), NEW s, Good(c, s)
    PROVE  /\ SequenceNumbersInFlight(s) =
                 IF s.outstanding = <<>> THEN 0
                 ELSE s.abs_seqno - First(c, s.outstanding[1])
           /\ SequenceNumbersInFlight(s) \in Nat
           /\ SequenceNumbersInFlight(s) = 0 <=> s.outstanding = <<>>
           /\ SequenceNumbersInFlight(s) <= s.abs_seqno
<1> DEFINE queue == s.outstanding
           next == s.abs_seqno
<1>1. InOrder(c, queue, next, s.FINsent) /\ next \in Nat /\ queue \in Seq(Msgs(c))
    BY GoodFacts DEF Good, FieldsOK
<1>2. SequenceNumbersInFlight(s) =
          IF queue = <<>> THEN 0 ELSE next - First(c, queue[1])
    BY <1>1, SumIs, FlightIs
<1>3. ASSUME queue # <<>>
      PROVE  First(c, queue[1]) \in Nat /\ First(c, queue[1]) < next
    <2>1. 1 \in 1 .. Len(queue)
        <3> HIDE DEF queue
        <3> QED BY <1>1, <1>3, EmptySeq
    <2> HIDE DEF queue, next
    <2>2. /\ First(c, queue[1]) \in Nat /\ SequenceLength(queue[1]) \in Nat
          /\ SequenceLength(queue[1]) > 0
          /\ First(c, queue[1]) + SequenceLength(queue[1]) <= next
        BY <1>1, <2>1, PlacedFacts
    <2> QED BY <1>1, <2>2
<1> HIDE DEF queue, next
<1>4. /\ SequenceNumbersInFlight(s) \in Nat
      /\ SequenceNumbersInFlight(s) = 0 <=> queue = <<>>
      /\ SequenceNumbersInFlight(s) <= next
    BY <1>1, <1>2, <1>3
<1> QED BY <1>2, <1>4 DEF queue, next

\* The sender finds where an outstanding message begins and ends.
LEMMA EndIs ==
    ASSUME NEW c, IsConfig(c), NEW s, Good(c, s), NEW i \in 1 .. Len(s.outstanding)
    PROVE  OutstandingEnd(s, s.outstanding[i]) =
               First(c, s.outstanding[i]) + SequenceLength(s.outstanding[i])
<1> DEFINE msg == s.outstanding[i]
<1>1. /\ InOrder(c, s.outstanding, s.abs_seqno, s.FINsent)
      /\ s.abs_seqno \in 0 .. c.length + 2 /\ s.abs_seqno \in Nat
    BY GoodFacts, Numbers DEF Good
<1>2. First(c, msg) \in Nat /\ SequenceLength(msg) \in Nat
      /\ First(c, msg) + SequenceLength(msg) <= s.abs_seqno
    BY <1>1, PlacedFacts
<1>3. First(c, msg) \in 0 .. c.reach
    <2> DEFINE first == First(c, msg)
               size == SequenceLength(msg)
               next == s.abs_seqno
               length == c.length
               reach == c.reach
    <2>1. /\ first \in Nat /\ size \in Nat /\ first + size <= next
          /\ next \in 0 .. length + 2 /\ length \in Nat /\ reach \in Nat
          /\ length + 2 <= reach
        BY <1>1, <1>2, Numbers
    <2> HIDE DEF first, size, next, length, reach
    <2>2. first \in 0 .. reach
        BY <2>1
    <2> QED BY <2>2 DEF first, reach
<1>4. msg.seqno = Wrap(First(c, msg), c.isn)
    BY <1>1 DEF InOrder, Placed
<1>5. BytesPopped(s.input) \in 0 .. c.length /\ s.isn = c.isn
    BY GoodFacts
<1>6. Unwrap(msg.seqno, s.isn, BytesPopped(s.input)) = First(c, msg)
    BY <1>3, <1>4, <1>5, NumberSurvives
<1> QED BY <1>6 DEF OutstandingEnd
-----------------------------------------------------------------------------
(* push() *)

\* The streams' operations keep it sound.
LEMMA InputKeeps ==
    ASSUME NEW c, IsConfig(c), TRUE \in c.errors, NEW b, InputOK(c, b)
    PROVE  InputOK(c, SetError(b)) /\ SetError(b).error = TRUE
           /\ SetError(b).total_pushed = b.total_pushed
           /\ SetError(b).total_popped = b.total_popped
           /\ SetError(b).stream_closed = b.stream_closed
           /\ SetError(b).buffer = b.buffer
<1> DEFINE e == SetError(b)
<1>1. e = [capacity |-> c.capacity, error |-> TRUE,
           total_pushed |-> b.total_pushed, buffer |-> b.buffer,
           stream_closed |-> b.stream_closed,
           total_popped |-> b.total_popped]
    <2>1. b = [capacity |-> c.capacity, error |-> b.error,
               total_pushed |-> b.total_pushed, buffer |-> b.buffer,
               stream_closed |-> b.stream_closed,
               total_popped |-> b.total_popped]
        BY DEF InputOK
    <2> DEFINE pushed == b.total_pushed
               bytes == b.buffer
               closed == b.stream_closed
               popped == b.total_popped
               old == b.error
    <2>2. b = [capacity |-> c.capacity, error |-> old, total_pushed |-> pushed,
               buffer |-> bytes, stream_closed |-> closed,
               total_popped |-> popped]
        BY <2>1
    <2> DEFINE yes == TRUE
    <2>3. e = [b EXCEPT !.error = yes]
        BY DEF SetError
    <2> HIDE DEF pushed, bytes, closed, popped, old, yes
    <2>4. e = [capacity |-> c.capacity, error |-> yes, total_pushed |-> pushed,
               buffer |-> bytes, stream_closed |-> closed,
               total_popped |-> popped]
        BY <2>2, <2>3
    <2> HIDE DEF e
    <2> QED BY <2>4 DEF pushed, bytes, closed, popped, yes
<1> HIDE DEF e
<1>2. InputOK(c, e)
    BY <1>1 DEF InputOK
<1> QED BY <1>1, <1>2 DEF e

\* Taking n bytes
LEMMA PopKeeps ==
    ASSUME NEW c, IsConfig(c), NEW b, InputOK(c, b), NEW n \in 0 .. Len(b.buffer)
    PROVE  /\ InputOK(c, Pop(b, n))
           /\ Pop(b, n).error = b.error
           /\ Pop(b, n).total_pushed = b.total_pushed
           /\ Pop(b, n).total_popped = b.total_popped + n
           /\ Pop(b, n).stream_closed = b.stream_closed
<1> DEFINE f    == b.buffer
           g    == SubSeq(f, n + 1, Len(f))
           half == [b EXCEPT !.buffer = SubSeq(@, n + 1, Len(@))]
           e    == Pop(b, n)
           popped == b.total_popped + n
<1>1. f \in Seq(c.alphabet) /\ Len(f) \in Nat /\ n \in Nat /\ n <= Len(f)
      /\ b.total_popped \in Nat /\ Len(f) <= c.capacity
      /\ b.total_popped + Len(f) = b.total_pushed
      /\ \A k \in 1 .. Len(f) : f[k] = c.byte[b.total_popped + k - 1]
    <2>1. f \in Seq(c.alphabet)
        BY DEF InputOK
    <2> QED BY <2>1, LenProperties DEF InputOK
<1>2. g \in Seq(c.alphabet) /\ Len(g) = Len(f) - n
      /\ \A k \in 1 .. Len(g) : g[k] = f[n + k]
    <2>1. \A i \in n + 1 .. Len(f) : f[i] \in c.alphabet
        <3>1. \A i \in n + 1 .. Len(f) : i \in 1 .. Len(f)
            BY <1>1
        <3> HIDE DEF f
        <3> QED BY <1>1, <3>1, ElementOfSeq
    <2>2. /\ g \in Seq(c.alphabet)
          /\ Len(g) = IF n + 1 <= Len(f) THEN Len(f) - (n + 1) + 1 ELSE 0
          /\ \A i \in 1 .. Len(f) - (n + 1) + 1 : g[i] = f[n + 1 + i - 1]
        <3> DEFINE A == c.alphabet
        <3>1. n + 1 \in Int /\ Len(f) \in Int
            BY <1>1
        <3>2. \A i \in n + 1 .. Len(f) : f[i] \in A
            BY <2>1
        <3> HIDE DEF f, A
        <3>3. /\ g \in Seq(A)
              /\ Len(g) = IF n + 1 <= Len(f) THEN Len(f) - (n + 1) + 1 ELSE 0
              /\ \A i \in 1 .. Len(f) - (n + 1) + 1 : g[i] = f[n + 1 + i - 1]
            BY <3>1, <3>2, SubSeqProperties
        <3> QED BY <3>3 DEF A
    <2> HIDE DEF g, f
    <2>3. Len(g) = Len(f) - n /\ Len(f) - (n + 1) + 1 = Len(f) - n
        BY <2>2, <1>1
    <2>4. \A k \in 1 .. Len(g) : n + 1 + k - 1 = n + k
        BY <2>3, <1>1
    <2> QED BY <2>2, <2>3, <2>4
<1>3. e = [half EXCEPT !.total_popped = @ + n]
    BY DEF Pop
<1>4. half = [b EXCEPT !.buffer = g]
    OBVIOUS
<1> HIDE DEF g, half
<1>5. half = [capacity |-> c.capacity, error |-> b.error,
              total_pushed |-> b.total_pushed, buffer |-> g,
              stream_closed |-> b.stream_closed,
              total_popped |-> b.total_popped]
    BY <1>4 DEF InputOK
<1>6. e = [capacity |-> c.capacity, error |-> b.error,
           total_pushed |-> b.total_pushed, buffer |-> g,
           stream_closed |-> b.stream_closed, total_popped |-> popped]
    BY <1>3, <1>5
<1> HIDE DEF e
<1>7. /\ popped \in Nat /\ Len(g) <= c.capacity
      /\ popped + Len(g) = b.total_pushed
      /\ \A k \in 1 .. Len(g) : g[k] = c.byte[popped + k - 1]
    <2> HIDE DEF f
    <2>1. ASSUME NEW k \in 1 .. Len(g)
          PROVE  g[k] = c.byte[(b.total_popped + n) + k - 1]
        <3>1. n + k \in 1 .. Len(f) /\ g[k] = f[n + k]
            BY <1>1, <1>2, <2>1
        <3> DEFINE j == n + k
        <3>2. f[j] = c.byte[b.total_popped + j - 1]
            BY <1>1, <3>1
        <3>3. b.total_popped + j - 1 = (b.total_popped + n) + k - 1
            BY <1>1, <1>2
        <3> HIDE DEF j
        <3> QED BY <3>1, <3>2, <3>3 DEF j
    <2>2. /\ popped \in Nat /\ Len(g) <= c.capacity
          /\ popped + Len(g) = b.total_pushed
        <3> DEFINE h == Len(f)
                   l == Len(g)
                   room == c.capacity
                   was == b.total_popped
        <3>1. /\ h \in Nat /\ n \in Nat /\ n <= h /\ was \in Nat /\ h <= room
              /\ was + h = b.total_pushed /\ l = h - n /\ room \in Nat
            BY <1>1, <1>2, Numbers
        <3> HIDE DEF h, l, room, was
        <3>2. was + n \in Nat /\ l <= room /\ was + n + l = b.total_pushed
            BY <3>1
        <3> QED BY <3>2 DEF l, room, was
    <2> QED BY <2>1, <2>2
<1> HIDE DEF popped
<1>8. InputOK(c, e)
    BY <1>2, <1>6, <1>7 DEF InputOK
<1>9. /\ e.error = b.error /\ e.total_pushed = b.total_pushed
      /\ e.total_popped = popped /\ e.stream_closed = b.stream_closed
    BY <1>6
<1> QED BY <1>8, <1>9 DEF e, popped

\* A round of push()'s loop that is not its last: the guard of PushRound
Sends(s) ==
    /\ RemainingWindow(s) # 0 /\ ~ s.FINsent
    /\ SequenceLength(NextMessage(s)) # 0

LEMMA RemainingIs ==
    ASSUME NEW c, IsConfig(c), NEW s, Good(c, s)
    PROVE  /\ RemainingWindow(s) \in Nat
           /\ RemainingWindow(s) # 0 =>
                 RemainingWindow(s) + SequenceNumbersInFlight(s)
                     = Greater(s.window_size, 1)
           /\ RemainingWindow(s) = 0 =>
                 Greater(s.window_size, 1) <= SequenceNumbersInFlight(s)
<1>1. s.window_size \in Nat /\ SequenceNumbersInFlight(s) \in Nat
    BY InFlightIs DEF Good, FieldsOK
<1> QED BY <1>1 DEF RemainingWindow, Greater

\* The message push() builds when the window is open
LEMMA NextMessageIs ==
    ASSUME NEW c, IsConfig(c), NEW s, Good(c, s), RemainingWindow(s) # 0, ~ s.FINsent
    PROVE  LET msg == NextMessage(s)
               n   == Len(msg.payload)
               b   == s.input
               syn == Bit(s.abs_seqno = 0)
           IN  /\ msg \in Msgs(c) /\ msg.seqno = Wrap(s.abs_seqno, c.isn)
               /\ msg.SYN = (s.abs_seqno = 0)
               /\ n = Lesser(BytesToRead(s), MAX_PAYLOAD_SIZE)
               /\ n \in 0 .. Len(b.buffer) /\ n <= MAX_PAYLOAD_SIZE
               /\ n <= RemainingWindow(s) - syn
               /\ BytesToRead(s) = Lesser(Len(b.buffer), RemainingWindow(s) - syn)
               /\ \A k \in 1 .. n : msg.payload[k] = c.byte[b.total_popped + k - 1]
               /\ msg.FIN = ((b.stream_closed /\ b.total_pushed = b.total_popped + n)
                                /\ RemainingWindow(s) - syn - n > 0)
               /\ SequenceLength(msg) <= RemainingWindow(s)
<1> DEFINE msg == NextMessage(s)
           b == s.input
           rem == RemainingWindow(s)
           syn == Bit(s.abs_seqno = 0)
           held == Len(b.buffer)
           max == Lesser(BytesToRead(s), MAX_PAYLOAD_SIZE)
           payload == SubSeq(b.buffer, 1, Lesser(held, max))
           m == Len(payload)
           fin == IsFinished(Pop(b, m)) /\ rem - syn - m > 0
<1>1. rem \in Nat /\ rem > 0
    BY RemainingIs
<1>2. syn \in 0 .. 1 /\ syn = Bit(s.abs_seqno = 0)
    BY DEF Bit
<1>3. /\ held \in Nat /\ b.buffer \in Seq(c.alphabet) /\ InputOK(c, b)
      /\ BytesBuffered(b) = held
      /\ \A k \in 1 .. held : b.buffer[k] = c.byte[b.total_popped + k - 1]
    BY GoodFacts DEF Good, InputOK
<1>4. BytesToRead(s) = Lesser(held, rem - syn)
    BY <1>3 DEF BytesToRead
<1>5. MAX_PAYLOAD_SIZE \in Nat /\ MAX_PAYLOAD_SIZE > 0
    BY Numbers
<1>6. msg = SenderMessage(Wrap(s.abs_seqno, s.isn), s.abs_seqno = 0, payload,
                          fin, HasError(b))
    BY <1>3 DEF NextMessage, ReadOut, Peek
<1>7. /\ max \in 0 .. held /\ max <= rem - syn /\ max <= MAX_PAYLOAD_SIZE
      /\ Lesser(held, max) = max
    <2> HIDE DEF held, rem, syn
    <2> QED BY <1>1, <1>2, <1>3, <1>4, <1>5 DEF Lesser
<1> HIDE DEF max
<1>8. payload \in Seq(c.alphabet) /\ m = max
      /\ \A k \in 1 .. m : payload[k] = c.byte[b.total_popped + k - 1]
    <2> DEFINE f == b.buffer
    <2>1. payload = SubSeq(f, 1, max)
        BY <1>7
    <2>2. f \in Seq(c.alphabet) /\ max \in 0 .. Len(f) /\ Len(f) \in Nat
        BY <1>3, <1>7
    <2>3. \A k \in 1 .. Len(f) : f[k] = c.byte[b.total_popped + k - 1]
        BY <1>3
    <2> HIDE DEF f, payload
    <2>4. \A i \in 1 .. max : f[i] \in c.alphabet
        <3>1. \A i \in 1 .. max : i \in 1 .. Len(f)
            BY <2>2
        <3> QED BY <2>2, <3>1, ElementOfSeq
    <2>6. max \in Int /\ 1 \in Int
        BY <2>2
    <2>5. /\ SubSeq(f, 1, max) \in Seq(c.alphabet)
          /\ Len(SubSeq(f, 1, max)) = IF 1 <= max THEN max - 1 + 1 ELSE 0
          /\ \A i \in 1 .. max - 1 + 1 : SubSeq(f, 1, max)[i] = f[1 + i - 1]
        <3> DEFINE A == c.alphabet
        <3>1. \A i \in 1 .. max : f[i] \in A
            BY <2>4
        <3> HIDE DEF A
        <3>2. /\ SubSeq(f, 1, max) \in Seq(A)
              /\ Len(SubSeq(f, 1, max)) = IF 1 <= max THEN max - 1 + 1 ELSE 0
              /\ \A i \in 1 .. max - 1 + 1 : SubSeq(f, 1, max)[i] = f[1 + i - 1]
            BY <2>6, <3>1, SubSeqProperties
        <3> QED BY <3>2 DEF A
    <2>7. payload \in Seq(c.alphabet) /\ Len(payload) = max
        BY <2>1, <2>2, <2>5
    <2>8. ASSUME NEW k \in 1 .. max
          PROVE  payload[k] = c.byte[b.total_popped + k - 1]
        <3>1. payload[k] = f[k]
            BY <2>1, <2>2, <2>5
        <3> QED BY <2>2, <2>3, <3>1
    <2> QED BY <2>7, <2>8
<1> HIDE DEF payload
<1>9. /\ Pop(b, m).stream_closed = b.stream_closed
      /\ Pop(b, m).total_pushed = b.total_pushed
      /\ Pop(b, m).total_popped = b.total_popped + m
    <2>1. m \in 0 .. Len(b.buffer)
        BY <1>7, <1>8
    <2> HIDE DEF m
    <2> QED BY <1>3, <2>1, PopKeeps
<1>10. fin = ((b.stream_closed /\ b.total_pushed = b.total_popped + m)
                 /\ rem - syn - m > 0)
    BY <1>9 DEF IsFinished
<1>11. /\ msg.seqno = Wrap(s.abs_seqno, c.isn) /\ msg.SYN = (s.abs_seqno = 0)
       /\ msg.payload = payload /\ msg.FIN = fin
    BY <1>6, GoodFacts DEF SenderMessage
<1>12. msg \in Msgs(c)
    <2>1. Wrap(s.abs_seqno, c.isn) \in UInt32 /\ s.isn = c.isn
        <3>1. s.abs_seqno \in Nat
            BY DEF Good, FieldsOK
        <3> QED BY <3>1, GoodFacts, Numbers, RemainderOfWrapped
    <2>2. fin \in BOOLEAN
        BY <1>10
    <2>3. HasError(b) \in c.errors
        BY <1>3 DEF InputOK, HasError
    <2> HIDE DEF fin
    <2> QED BY <1>6, <1>8, <2>1, <2>2, <2>3 DEF SenderMessage, Msgs
<1>13. SequenceLength(msg) <= rem
    <2>1. SequenceLength(msg) = syn + m + Bit(fin)
        <3>1. Bit(msg.SYN) = syn
            BY <1>11
        <3> QED BY <1>11, <3>1 DEF SequenceLength
    <2>2. Bit(fin) \in 0 .. 1 /\ (Bit(fin) = 1 => rem - syn - m > 0)
        BY DEF Bit
    <2>3. m \in Nat /\ m <= rem - syn
        BY <1>7, <1>8
    <2> HIDE DEF m, syn, rem, fin
    <2> QED BY <1>1, <1>2, <2>1, <2>2, <2>3
<1> HIDE DEF msg, fin
<1>14. /\ m = Lesser(BytesToRead(s), MAX_PAYLOAD_SIZE)
       /\ m \in 0 .. held /\ m <= MAX_PAYLOAD_SIZE /\ m <= rem - syn
    BY <1>7, <1>8 DEF max
<1> QED BY <1>4, <1>8, <1>10, <1>11, <1>12, <1>13, <1>14 DEF msg

\* What AfterSending changes, as one record
LEMMA AfterSendingIs ==
    ASSUME NEW c, IsConfig(c), NEW s, IsSender(c, s), NEW msg
    PROVE  AfterSending(s, msg) =
               Sender(c, Pop(s.input, Len(msg.payload)), Append(s.outstanding, msg),
                      s.RTO, IF s.timer_on THEN s.timer_time ELSE 0, TRUE,
                      s.abs_seqno + SequenceLength(msg), s.abs_ackno,
                      s.consecutive_retransmissions, s.window_size,
                      s.FINsent \/ msg.FIN)
<1> DEFINE input == Pop(s.input, Len(msg.payload))
           fin   == s.FINsent \/ msg.FIN
           queue == Append(s.outstanding, msg)
           seqno == s.abs_seqno + SequenceLength(msg)
           yes   == TRUE
           time  == IF s.timer_on THEN s.timer_time ELSE 0
           h1 == [s EXCEPT !.input = input]
           h2 == [h1 EXCEPT !.FINsent = fin]
           h3 == [h2 EXCEPT !.outstanding = queue]
           h4 == [h3 EXCEPT !.abs_seqno = seqno]
           h5 == [h4 EXCEPT !.timer_on = yes]
           h6 == [h5 EXCEPT !.timer_time = time]
<1>1. AfterSending(s, msg) = h6
    BY DEF AfterSending
<1> DEFINE old == Sender(c, s.input, s.outstanding, s.RTO, s.timer_time, s.timer_on,
                         s.abs_seqno, s.abs_ackno, s.consecutive_retransmissions,
                         s.window_size, s.FINsent)
<1>2. h1 = Sender(c, input, s.outstanding, s.RTO, s.timer_time, s.timer_on,
                  s.abs_seqno, s.abs_ackno, s.consecutive_retransmissions,
                  s.window_size, s.FINsent)
    <2> DEFINE t == s
    <2>1. t = Sender(c, s.input, s.outstanding, s.RTO, s.timer_time, s.timer_on,
               s.abs_seqno, s.abs_ackno, s.consecutive_retransmissions,
               s.window_size, s.FINsent) /\ h1 = [t EXCEPT !.input = input]
      BY DEF IsSender
    <2> HIDE DEF input, t, h1
    <2> QED BY <2>1 DEF Sender
<1> HIDE DEF input, fin, queue, seqno, yes, time
<1> HIDE DEF h1
<1>3. h2 = Sender(c, input, s.outstanding, s.RTO, s.timer_time, s.timer_on,
                  s.abs_seqno, s.abs_ackno, s.consecutive_retransmissions,
                  s.window_size, fin)
    BY <1>2 DEF Sender
<1> HIDE DEF h2
<1>4. h3 = Sender(c, input, queue, s.RTO, s.timer_time, s.timer_on,
                  s.abs_seqno, s.abs_ackno, s.consecutive_retransmissions,
                  s.window_size, fin)
    BY <1>3 DEF Sender
<1> HIDE DEF h3
<1>5. h4 = Sender(c, input, queue, s.RTO, s.timer_time, s.timer_on,
                  seqno, s.abs_ackno, s.consecutive_retransmissions,
                  s.window_size, fin)
    BY <1>4 DEF Sender
<1> HIDE DEF h4
<1>6. h5 = Sender(c, input, queue, s.RTO, s.timer_time, yes,
                  seqno, s.abs_ackno, s.consecutive_retransmissions,
                  s.window_size, fin)
    BY <1>5 DEF Sender
<1> HIDE DEF h5
<1>7. h6 = Sender(c, input, queue, s.RTO, time, yes,
                  seqno, s.abs_ackno, s.consecutive_retransmissions,
                  s.window_size, fin)
    BY <1>6 DEF Sender
<1> QED BY <1>1, <1>7 DEF h6, input, queue, seqno, yes, fin, time

\* A message that begins where the others end is the last of them.
LEMMA AppendKeeps ==
    ASSUME NEW c, IsConfig(c), NEW queue, NEW next \in Nat,
           InOrder(c, queue, next, FALSE),
           NEW msg \in Msgs(c), First(c, msg) = next, msg.seqno = Wrap(next, c.isn),
           SequenceLength(msg) > 0, msg.SYN <=> next = 0,
           Len(msg.payload) <= MAX_PAYLOAD_SIZE,
           \A k \in 1 .. Len(msg.payload) :
              msg.payload[k] = c.byte[next - 1 + Bit(msg.SYN) + k - 1]
    PROVE  InOrder(c, Append(queue, msg), next + SequenceLength(msg), msg.FIN)
<1> DEFINE q == Append(queue, msg)
           n == Len(queue)
           end == next + SequenceLength(msg)
           fin == msg.FIN
<1>1. queue \in Seq(Msgs(c)) /\ n \in Nat
    <2>1. queue \in Seq(Msgs(c))
        BY DEF InOrder
    <2> QED BY <2>1, LenProperties
<1>2. q \in Seq(Msgs(c)) /\ Len(q) = n + 1 /\ q[n + 1] = msg
      /\ \A i \in 1 .. n : q[i] = queue[i]
    BY <1>1, AppendProperties
<1>3. SequenceLength(msg) \in Nat
    BY LengthIs
<1> HIDE DEF q, n
<1>4. Placed(c, q, n + 1, end, fin)
    <2>1. n + 1 = Len(q)
        BY <1>2
    <2> HIDE DEF fin
    <2>2. /\ First(c, q[n + 1]) = next /\ q[n + 1].seqno = Wrap(next, c.isn)
          /\ SequenceLength(q[n + 1]) = SequenceLength(msg) /\ q[n + 1] = msg
        BY <1>2
    <2> HIDE DEF end
    <2>3. end = next + SequenceLength(msg) /\ fin = msg.FIN
        BY DEF end, fin
    <2>4. end <= end
        BY <2>3, <1>3
    <2>5. \A k \in 1 .. Len(q[n + 1].payload) :
            q[n + 1].payload[k] =
                c.byte[First(c, q[n + 1]) - 1 + Bit(q[n + 1].SYN) + k - 1]
        BY <2>2
    <2> QED BY <2>1, <2>2, <2>3, <2>4, <2>5 DEF Placed
<1>5. ASSUME NEW i \in 1 .. n
      PROVE  Placed(c, q, i, end, fin)
    <2>1. Placed(c, queue, i, next, FALSE) /\ i # Len(q) /\ q[i] = queue[i]
        <3>1. i # Len(q) /\ q[i] = queue[i]
            BY <1>1, <1>2
        <3>2. Placed(c, queue, i, next, FALSE)
            BY DEF InOrder, n
        <3> QED BY <3>1, <3>2
    <2>2. First(c, queue[i]) + SequenceLength(queue[i]) = First(c, q[i + 1])
        <3>1. CASE i = n
            BY <1>2, <2>1, <3>1 DEF Placed, n
        <3>2. CASE i # n
            <4>1. i + 1 \in 1 .. n
                BY <1>1, <3>2
            <4> QED BY <1>2, <2>1, <3>2, <4>1 DEF Placed, n
        <3> QED BY <3>1, <3>2
    <2>3. /\ First(c, queue[i]) \in Nat /\ SequenceLength(queue[i]) \in Nat
          /\ First(c, queue[i]) + SequenceLength(queue[i]) <= next
        BY PlacedFacts DEF n
    <2>4. First(c, queue[i]) + SequenceLength(queue[i]) <= end
        BY <1>3, <2>3
    <2>5. ~ queue[i].FIN
        <3>1. queue[i].FIN <=> FALSE
            BY <2>1 DEF Placed
        <3> QED BY <3>1
    <2> HIDE DEF end, fin
    <2> QED BY <2>1, <2>2, <2>4, <2>5 DEF Placed
<1>6. \A i \in 1 .. Len(q) : i = n + 1 \/ i \in 1 .. n
    BY <1>1, <1>2
<1> QED BY <1>2, <1>4, <1>5, <1>6 DEF InOrder, q

\* So are the messages without those at the front.
LEMMA RestKeeps ==
    ASSUME NEW c, IsConfig(c), NEW queue, NEW next \in Nat, NEW fin,
           InOrder(c, queue, next, fin),
           NEW n \in 0 .. Len(queue)
    PROVE  /\ InOrder(c, SubSeq(queue, n + 1, Len(queue)), next, fin)
           /\ SubSeq(queue, n + 1, Len(queue)) = <<>> <=> n = Len(queue)
           /\ n < Len(queue) =>
                 SubSeq(queue, n + 1, Len(queue))[1] = queue[n + 1]
<1> DEFINE q == SubSeq(queue, n + 1, Len(queue))
           max == Len(queue)
<1>1. queue \in Seq(Msgs(c)) /\ max \in Nat /\ n \in Nat /\ n <= max
    <2>1. queue \in Seq(Msgs(c))
        BY DEF InOrder
    <2> QED BY <2>1, LenProperties
<1>2. q \in Seq(Msgs(c)) /\ Len(q) = max - n
      /\ \A i \in 1 .. Len(q) : q[i] = queue[n + i]
    <2>1. \A i \in n + 1 .. max : queue[i] \in Msgs(c)
        <3>1. \A i \in n + 1 .. max : i \in 1 .. max
            BY <1>1
        <3> QED BY <1>1, <3>1, ElementOfSeq
    <2>3. n + 1 \in Int /\ max \in Int
        BY <1>1
    <2>2. /\ q \in Seq(Msgs(c))
          /\ Len(q) = IF n + 1 <= max THEN max - (n + 1) + 1 ELSE 0
          /\ \A i \in 1 .. max - (n + 1) + 1 : q[i] = queue[n + 1 + i - 1]
        <3> HIDE DEF max
        <3>1. q = SubSeq(queue, n + 1, max)
            BY DEF max
        <3> HIDE DEF q
        <3> QED BY <1>1, <2>1, <2>3, <3>1, SubSeqProperties
    <2> HIDE DEF q, max
    <2>4. Len(q) = max - n /\ max - (n + 1) + 1 = max - n
        BY <2>2, <1>1
    <2>5. \A i \in 1 .. Len(q) : n + 1 + i - 1 = n + i
        BY <2>4, <1>1
    <2> QED BY <2>2, <2>4, <2>5
<1> HIDE DEF q
<1>3. ASSUME NEW i \in 1 .. Len(q)
      PROVE  Placed(c, q, i, next, fin)
    <2> DEFINE j == n + i
    <2>1. j \in 1 .. max /\ (i = Len(q) <=> j = max) /\ q[i] = queue[j]
          /\ i \in Nat
        <3> HIDE DEF max
        <3> QED BY <1>1, <1>2
    <2>2. i # Len(q) => q[i + 1] = queue[j + 1]
        <3> HIDE DEF max
        <3>1. i # Len(q) => i + 1 \in 1 .. Len(q) /\ n + (i + 1) = n + i + 1
            BY <1>1, <1>2
        <3> QED BY <1>2, <3>1
    <2> HIDE DEF j
    <2>3. Placed(c, queue, j, next, fin)
        BY <2>1 DEF InOrder
    <2> QED BY <2>1, <2>2, <2>3 DEF Placed
<1>4. q = <<>> <=> n = max
    <2> HIDE DEF max
    <2>1. q = <<>> <=> Len(q) = 0
        BY <1>2, EmptySeq
    <2> QED BY <1>1, <1>2, <2>1
<1>5. n < max => q[1] = queue[n + 1]
    <2> HIDE DEF max
    <2>1. n < max => 1 \in 1 .. Len(q)
        BY <1>1, <1>2
    <2> QED BY <1>1, <1>2, <2>1
<1>6. InOrder(c, q, next, fin)
    BY <1>2, <1>3 DEF InOrder
<1> QED BY <1>4, <1>5, <1>6 DEF q

\* The end of an outstanding message
After(c, msg) == First(c, msg) + SequenceLength(msg)

\* The highest ackno lies inside the oldest outstanding message.
AckPlaced(c, s) ==
    /\ s.abs_ackno <= s.abs_seqno
    /\ IF s.outstanding = <<>> THEN s.abs_ackno = s.abs_seqno
       ELSE /\ First(c, s.outstanding[1]) <= s.abs_ackno
            /\ s.abs_ackno < After(c, s.outstanding[1])

SameTimeout(s, t) ==
    /\ t.RTO = s.RTO
    /\ t.consecutive_retransmissions = s.consecutive_retransmissions

\* The timeout stays, doubles, or is the initial one again.
TimeoutStep(c, s, t) ==
    \/ SameTimeout(s, t)
    \/ /\ t.RTO = s.RTO * 2
       /\ t.consecutive_retransmissions = s.consecutive_retransmissions + 1
    \/ t.RTO = c.rto /\ t.consecutive_retransmissions = 0

\* A round that sends keeps the sender sound, and stays in the window.
LEMMA RoundKeeps ==
    ASSUME NEW c, IsConfig(c), NEW s, Good(c, s), Sends(s)
    PROVE  LET msg == NextMessage(s)
               t   == AfterSending(s, msg)
           IN  /\ Good(c, t) /\ t.window_size = s.window_size /\ SameTimeout(s, t)
               /\ t.abs_seqno > s.abs_seqno
               /\ SequenceNumbersInFlight(t) <= Greater(t.window_size, 1)
               /\ SequenceNumbersInFlight(t) =
                     SequenceNumbersInFlight(s) + SequenceLength(msg)
               /\ Len(t.input.buffer) = Len(s.input.buffer) - Len(msg.payload)
               /\ t.FINsent = msg.FIN /\ (AckPlaced(c, s) => AckPlaced(c, t))
               /\ msg \in Msgs(c) /\ t.outstanding = Append(s.outstanding, msg)
               /\ t.abs_ackno = s.abs_ackno
               /\ t.input.total_pushed = s.input.total_pushed
               /\ t.input.stream_closed = s.input.stream_closed
               /\ IsFinished(t.input) =
                     (s.input.stream_closed
                        /\ s.input.total_pushed =
                              s.input.total_popped + Len(msg.payload))
<1> DEFINE msg == NextMessage(s)
           t   == AfterSending(s, msg)
           n   == Len(msg.payload)
           b   == s.input
           len == SequenceLength(msg)
           next == s.abs_seqno
           syn == Bit(next = 0)
           queue == Append(s.outstanding, msg)
           time == IF s.timer_on THEN s.timer_time ELSE 0
           fin == s.FINsent \/ msg.FIN
           input == Pop(b, n)
<1>1. /\ msg \in Msgs(c) /\ msg.seqno = Wrap(next, c.isn)
      /\ msg.SYN = (next = 0)
      /\ n \in 0 .. Len(b.buffer) /\ n <= MAX_PAYLOAD_SIZE
      /\ \A k \in 1 .. n : msg.payload[k] = c.byte[b.total_popped + k - 1]
      /\ msg.FIN = ((b.stream_closed /\ b.total_pushed = b.total_popped + n)
                       /\ RemainingWindow(s) - syn - n > 0)
      /\ len <= RemainingWindow(s)
    BY NextMessageIs DEF Sends
<1>2. /\ len \in Nat /\ len > 0 /\ Bit(msg.SYN) = syn /\ Bit(msg.FIN) \in 0 .. 1
      /\ len = syn + n + Bit(msg.FIN)
    <2>1. len \in Nat /\ len # 0 /\ Bit(msg.FIN) \in 0 .. 1
          /\ len = Bit(msg.SYN) + n + Bit(msg.FIN)
        BY <1>1, LengthIs DEF Sends
    <2>2. Bit(msg.SYN) = syn
        BY <1>1
    <2> HIDE DEF msg
    <2> QED BY <2>1, <2>2
<1>3. t = Sender(c, input, queue, s.RTO, time, TRUE, next + len, s.abs_ackno,
                 s.consecutive_retransmissions, s.window_size, fin)
    BY AfterSendingIs DEF Good
<1>4. /\ IsSender(c, t) /\ t.input = input /\ t.outstanding = queue
      /\ t.RTO = s.RTO /\ t.timer_time = time /\ t.timer_on = TRUE
      /\ t.abs_seqno = next + len /\ t.abs_ackno = s.abs_ackno
      /\ t.consecutive_retransmissions = s.consecutive_retransmissions
      /\ t.window_size = s.window_size /\ t.FINsent = fin
    <2> DEFINE seqno == next + len
               yes   == TRUE
    <2>1. t = Sender(c, input, queue, s.RTO, time, yes, seqno, s.abs_ackno,
                     s.consecutive_retransmissions, s.window_size, fin)
        BY <1>3
    <2> HIDE DEF t, input, queue, time, fin, seqno, yes
    <2>2. /\ IsSender(c, t) /\ t.input = input /\ t.outstanding = queue
          /\ t.RTO = s.RTO /\ t.timer_time = time /\ t.timer_on = yes
          /\ t.abs_seqno = seqno /\ t.abs_ackno = s.abs_ackno
          /\ t.consecutive_retransmissions = s.consecutive_retransmissions
          /\ t.window_size = s.window_size /\ t.FINsent = fin
        BY <2>1, SenderFields
    <2> QED BY <2>2 DEF seqno, yes
<1> HIDE DEF msg, t
<1>5. fin = msg.FIN /\ fin \in BOOLEAN
    <2>1. msg.FIN \in BOOLEAN
        BY <1>1 DEF Msgs
    <2> QED BY <2>1 DEF Sends
<1>6. /\ InputOK(c, input) /\ input.total_pushed = b.total_pushed
      /\ input.total_popped = b.total_popped + n
      /\ input.stream_closed = b.stream_closed
    BY <1>1, PopKeeps DEF Good
<1>7. next \in 0 .. c.reach /\ next \in Nat
    BY GoodFacts, Numbers
<1>8. First(c, msg) = next
    BY <1>1, <1>7, Numbers, NumberSurvives DEF First
<1>9. /\ b.total_popped \in Nat
      /\ IF next = 0 THEN b.total_popped = 0 ELSE next = 1 + b.total_popped
    <2>1. Bit(s.FINsent) = 0
        BY DEF Sends, Bit
    <2>2. b.total_popped \in Nat
        BY DEF Good, InputOK
    <2> QED BY <1>7, <2>1, <2>2 DEF Good, Accounted
<1>10. syn = (IF next = 0 THEN 1 ELSE 0)
    BY DEF Bit
<1>11. \A k \in 1 .. n :
           msg.payload[k] = c.byte[next - 1 + Bit(msg.SYN) + k - 1]
    <2> SUFFICES ASSUME NEW k \in 1 .. n
                 PROVE  msg.payload[k] = c.byte[next - 1 + syn + k - 1]
        BY <1>2
    <2>1. msg.payload[k] = c.byte[b.total_popped + k - 1]
        BY <1>1
    <2> HIDE DEF syn, next
    <2>2. k \in Int
        BY <1>1
    <2>3. b.total_popped + k - 1 = next - 1 + syn + k - 1
        BY <1>7, <1>9, <1>10, <2>2
    <2> QED BY <2>1, <2>3
<1> HIDE DEF input, fin, time, b, len
<1>12. InOrder(c, queue, next + len, fin)
    <2>1. InOrder(c, s.outstanding, next, FALSE)
        <3>1. s.FINsent = FALSE
            BY DEF Good, FieldsOK, Sends
        <3> QED BY <3>1 DEF Good
    <2>2. msg.SYN <=> next = 0
        BY <1>1
    <2> HIDE DEF next
    <2>3. InOrder(c, queue, next + len, msg.FIN)
        BY <1>1, <1>2, <1>7, <1>8, <1>11, <2>1, <2>2, AppendKeeps DEF len, n
    <2> QED BY <1>5, <2>3
<1>13. Accounted(t)
    <2>1. Bit(fin) = Bit(msg.FIN)
        BY <1>5
    <2>2. fin => IsFinished(t.input)
        BY <1>1, <1>4, <1>5, <1>6 DEF IsFinished
    <2> HIDE DEF syn, next
    <2>3. n \in Nat
        BY <1>1
    <2> HIDE DEF n
    <2>4. /\ next + len # 0
          /\ next + len = 1 + (b.total_popped + n) + Bit(fin)
        BY <1>2, <1>7, <1>9, <1>10, <2>1, <2>3
    <2>5. t.abs_seqno # 0
          /\ t.abs_seqno = 1 + t.input.total_popped + Bit(t.FINsent)
        BY <1>4, <1>6, <2>4
    <2> QED BY <1>4, <2>2, <2>5 DEF Accounted
<1>14. FieldsOK(t) /\ Timed(t)
    <2>1. time \in Nat /\ time < s.RTO
        BY DEF Good, FieldsOK, Timed, time
    <2>2. queue # <<>>
        BY <1>1, AppendProperties, GoodFacts
    <2>3. next + len \in Nat
        BY <1>2, <1>7
    <2> HIDE DEF queue
    <2> QED BY <1>4, <1>5, <2>1, <2>2, <2>3 DEF Good, FieldsOK, Timed
<1>15. Good(c, t)
    BY <1>4, <1>6, <1>12, <1>13, <1>14 DEF Good
<1>16. t.abs_seqno > s.abs_seqno
    BY <1>2, <1>4, <1>7
<1>17. SequenceNumbersInFlight(t) = SequenceNumbersInFlight(s) + len
    <2>1. SequenceNumbersInFlight(t) = (next + len) - First(c, queue[1])
        <3>1. queue # <<>>
            BY <1>1, AppendProperties, GoodFacts
        <3> HIDE DEF queue, next
        <3>2. t.outstanding # <<>>
            BY <1>4, <3>1
        <3>3. SequenceNumbersInFlight(t) =
                  t.abs_seqno - First(c, t.outstanding[1])
            BY <1>15, <3>2, InFlightIs
        <3> QED BY <1>4, <3>3
    <2>2. CASE s.outstanding = <<>>
        <3>1. First(c, queue[1]) = next
            BY <1>8, <2>2, <1>1, AppendProperties, GoodFacts
        <3>2. SequenceNumbersInFlight(s) = 0
            BY <2>2, InFlightIs
        <3> QED BY <1>2, <1>7, <2>1, <3>1, <3>2
    <2>3. CASE s.outstanding # <<>>
        <3>1. queue[1] = s.outstanding[1] /\ 1 \in 1 .. Len(s.outstanding)
            BY <1>1, <2>3, AppendProperties, EmptySeq, GoodFacts
        <3>2. SequenceNumbersInFlight(s) = next - First(c, queue[1])
            BY <2>3, <3>1, InFlightIs
        <3>3. First(c, queue[1]) \in Nat
            BY <1>7, <3>1, PlacedFacts DEF Good
        <3> HIDE DEF queue, next
        <3> QED BY <1>2, <1>7, <2>1, <3>2, <3>3
    <2> QED BY <2>2, <2>3
<1>18. SequenceNumbersInFlight(t) <= Greater(t.window_size, 1)
    <2>1. /\ RemainingWindow(s) + SequenceNumbersInFlight(s) =
                Greater(s.window_size, 1)
          /\ SequenceNumbersInFlight(s) \in Nat /\ RemainingWindow(s) \in Nat
        BY RemainingIs, InFlightIs DEF Sends
    <2>2. Greater(s.window_size, 1) \in Nat
        BY <2>1
    <2>3. SequenceNumbersInFlight(t) <= Greater(s.window_size, 1)
        BY <1>1, <1>2, <1>17, <2>1, <2>2
    <2> QED BY <1>4, <2>3
<1>19. Len(t.input.buffer) = Len(b.buffer) - n
    <2>1. /\ Len(t.input.buffer) = t.input.total_pushed - t.input.total_popped
          /\ Len(s.input.buffer) = s.input.total_pushed - s.input.total_popped
          /\ s.input.total_pushed \in Nat /\ s.input.total_popped \in Nat
        BY <1>15, GoodFacts
    <2>2. n \in Nat
        BY <1>1
    <2> HIDE DEF n
    <2> QED BY <1>4, <1>6, <2>1, <2>2 DEF b
<1>20. t.FINsent = msg.FIN /\ IsFinished(t.input) =
             (b.stream_closed /\ b.total_pushed = b.total_popped + n)
    BY <1>4, <1>5, <1>6 DEF IsFinished
<1>21. ASSUME AckPlaced(c, s)
       PROVE  AckPlaced(c, t)
    <2>0. queue # <<>> /\ t.abs_ackno = s.abs_ackno /\ t.outstanding = queue
          /\ t.abs_seqno = next + len
        BY <1>1, <1>4, AppendProperties, GoodFacts
    <2>1. CASE s.outstanding = <<>>
        <3>1. queue[1] = msg
            BY <2>1, <1>1, AppendProperties, GoodFacts
        <3>2. s.abs_ackno = next
            BY <1>21, <2>1 DEF AckPlaced
        <3> HIDE DEF queue, next
        <3>3. /\ First(c, queue[1]) = next /\ After(c, queue[1]) = next + len
              /\ next <= s.abs_ackno /\ s.abs_ackno < next + len
              /\ s.abs_ackno <= next + len
            BY <1>2, <1>7, <1>8, <3>1, <3>2 DEF After, len
        <3> QED BY <2>0, <3>3 DEF AckPlaced
    <2>2. CASE s.outstanding # <<>>
        <3>1. queue[1] = s.outstanding[1]
            BY <1>1, <2>2, AppendProperties, EmptySeq, GoodFacts
        <3>2. /\ First(c, queue[1]) <= s.abs_ackno /\ s.abs_ackno < After(c, queue[1])
              /\ s.abs_ackno <= next
            BY <1>21, <2>2, <3>1 DEF AckPlaced
        <3>3. s.abs_ackno \in Nat
            BY DEF Good, FieldsOK
        <3> HIDE DEF queue, next
        <3>4. s.abs_ackno <= next + len
            BY <1>2, <1>7, <3>2, <3>3
        <3> QED BY <2>0, <3>2, <3>4 DEF AckPlaced
    <2> QED BY <2>1, <2>2
<1> QED BY <1>1, <1>4, <1>6, <1>15, <1>16, <1>17, <1>18, <1>19, <1>20, <1>21
        DEF msg, t, n, b, len, SameTimeout

\* Nothing is left to send, or no room to send it.
Stuck(s) ==
    \/ RemainingWindow(s) = 0
    \/ s.FINsent
    \/ s.abs_seqno > 0 /\ BytesBuffered(s.input) = 0 /\ ~ IsFinished(s.input)

\* Sender t is sender s after some messages more.
PushedOn(c, s, t) ==
    /\ t.window_size = s.window_size /\ SameTimeout(s, t)
    /\ t.abs_ackno = s.abs_ackno /\ t.abs_seqno >= s.abs_seqno
    /\ t.abs_seqno > s.abs_seqno =>
          SequenceNumbersInFlight(t) <= Greater(s.window_size, 1)
    /\ s.FINsent => t.FINsent /\ t.abs_seqno = s.abs_seqno
    /\ t.input.total_pushed = s.input.total_pushed
    /\ t.input.stream_closed = s.input.stream_closed
    /\ AckPlaced(c, s) => AckPlaced(c, t)

\* The rounds of push() that have begun with a sender: each that did not end
\* the loop took a byte, and what was sent is outstanding.
PushState(of, round, acc) ==
    /\ acc = [sender |-> acc.sender, sent |-> acc.sent, ended |-> acc.ended]
    /\ Good(of.c, acc.sender) /\ acc.ended \in BOOLEAN
    /\ acc.ended => Stuck(acc.sender)
    /\ ~ acc.ended =>
          Len(acc.sender.input.buffer) + round <= Len(of.start.input.buffer)
    /\ PushedOn(of.c, of.start, acc.sender)
    /\ acc.sent \in Seq(Msgs(of.c))
    /\ \A i \in 1 .. Len(acc.sent) :
          \E k \in 1 .. Len(acc.sender.outstanding) :
              acc.sent[i] = acc.sender.outstanding[k]

Rounds == INSTANCE FoldProofs WITH Op <- PushRound, Inv <- PushState

\* A round that cannot send has nothing to send.
LEMMA NotSendingIsStuck ==
    ASSUME NEW c, IsConfig(c), NEW s, Good(c, s), ~ Sends(s)
    PROVE  Stuck(s)
<1> DEFINE msg == NextMessage(s)
           n   == Len(msg.payload)
           b   == s.input
           rem == RemainingWindow(s)
           syn == Bit(s.abs_seqno = 0)
           held == Len(b.buffer)
           len == SequenceLength(msg)
<1> SUFFICES ASSUME rem # 0, ~ s.FINsent
             PROVE  s.abs_seqno > 0 /\ BytesBuffered(b) = 0 /\ ~ IsFinished(b)
    BY DEF Stuck
<1>1. len = 0
    BY DEF Sends
<1>2. /\ msg \in Msgs(c) /\ msg.SYN = (s.abs_seqno = 0)
      /\ n = Lesser(BytesToRead(s), MAX_PAYLOAD_SIZE)
      /\ BytesToRead(s) = Lesser(held, rem - syn)
      /\ msg.FIN = ((b.stream_closed /\ b.total_pushed = b.total_popped + n)
                       /\ rem - syn - n > 0)
    BY NextMessageIs
<1>3. /\ n \in Nat /\ Bit(msg.SYN) \in 0 .. 1 /\ Bit(msg.FIN) \in 0 .. 1
      /\ len = Bit(msg.SYN) + n + Bit(msg.FIN)
    BY <1>2, LengthIs
<1>4. Bit(msg.SYN) = syn
    BY <1>2
<1>5. /\ held \in Nat /\ s.abs_seqno \in Nat /\ BytesBuffered(b) = held
      /\ b.total_popped \in Nat /\ rem \in Nat
    BY GoodFacts, RemainingIs
<1> HIDE DEF msg, n, held, rem, len
<1>6. n = 0 /\ syn = 0 /\ Bit(msg.FIN) = 0
    <2> HIDE DEF syn
    <2> QED BY <1>1, <1>3, <1>4
<1>7. s.abs_seqno > 0 /\ ~ msg.FIN
    BY <1>5, <1>6 DEF Bit
<1>8. held = 0
    <2> HIDE DEF syn
    <2> QED BY <1>2, <1>5, <1>6, Numbers DEF Lesser
<1>9. ~ (b.stream_closed /\ b.total_pushed = b.total_popped)
    <2>1. rem - syn - n > 0
        <3> HIDE DEF syn
        <3> QED BY <1>5, <1>6
    <2>2. b.total_popped + n = b.total_popped
        BY <1>5, <1>6
    <2> QED BY <1>2, <1>7, <2>1, <2>2
<1> QED BY <1>5, <1>7, <1>8, <1>9 DEF IsFinished

\* Neither has the sender after a round that reads less than a full payload.
LEMMA LastRoundIsStuck ==
    ASSUME NEW c, IsConfig(c), NEW s, Good(c, s), Sends(s),
           BytesToRead(s) < MAX_PAYLOAD_SIZE
    PROVE  Stuck(AfterSending(s, NextMessage(s)))
<1> DEFINE msg == NextMessage(s)
           t   == AfterSending(s, msg)
           n   == Len(msg.payload)
           b   == s.input
           rem == RemainingWindow(s)
           syn == Bit(s.abs_seqno = 0)
           held == Len(b.buffer)
           len == SequenceLength(msg)
           max == BytesToRead(s)
           closed == b.stream_closed /\ b.total_pushed = b.total_popped + n
<1>1. /\ msg \in Msgs(c) /\ msg.SYN = (s.abs_seqno = 0)
      /\ n = Lesser(max, MAX_PAYLOAD_SIZE)
      /\ max = Lesser(held, rem - syn)
      /\ msg.FIN = (closed /\ rem - syn - n > 0)
      /\ len <= rem /\ n \in 0 .. held
    BY NextMessageIs DEF Sends
<1>2. /\ n \in Nat /\ Bit(msg.SYN) \in 0 .. 1 /\ Bit(msg.FIN) \in 0 .. 1
      /\ len = Bit(msg.SYN) + n + Bit(msg.FIN)
    BY <1>1, LengthIs
<1>3. Bit(msg.SYN) = syn
    BY <1>1
<1>4. /\ Good(c, t) /\ t.abs_seqno > s.abs_seqno
      /\ t.window_size = s.window_size
      /\ SequenceNumbersInFlight(t) = SequenceNumbersInFlight(s) + len
      /\ Len(t.input.buffer) = held - n
      /\ t.FINsent = msg.FIN /\ IsFinished(t.input) = closed
    BY RoundKeeps
<1>5. /\ held \in Nat /\ s.abs_seqno \in Nat /\ rem \in Nat /\ rem # 0
      /\ BytesBuffered(t.input) = Len(t.input.buffer)
      /\ t.abs_seqno \in Nat
    <2> HIDE DEF t
    <2>1. held \in Nat /\ s.abs_seqno \in Nat
        BY GoodFacts
    <2>2. rem \in Nat /\ rem # 0
        BY RemainingIs DEF Sends
    <2>3. /\ BytesBuffered(t.input) = Len(t.input.buffer)
          /\ t.abs_seqno \in Nat
        <3>1. Good(c, t)
            BY <1>4
        <3> QED BY <3>1, GoodFacts
    <2> QED BY <2>1, <2>2, <2>3
<1>6. /\ SequenceNumbersInFlight(s) \in Nat
      /\ rem + SequenceNumbersInFlight(s) = Greater(s.window_size, 1)
      /\ RemainingWindow(t) \in Nat
      /\ RemainingWindow(t) # 0 =>
            RemainingWindow(t) + SequenceNumbersInFlight(t)
                = Greater(t.window_size, 1)
    BY <1>4, InFlightIs, RemainingIs DEF Sends
<1> HIDE DEF msg, t, n, held, rem, len, max, closed
<1>7. len = rem => RemainingWindow(t) = 0
    BY <1>4, <1>5, <1>6
<1>8. n = max
    <2>1. max \in Int
        BY <1>1, <1>2, <1>3, <1>5 DEF Lesser
    <2> QED BY <1>1, <2>1, Numbers DEF Lesser, max
<1>9. CASE n # held
    <2>1. n = rem - syn
        BY <1>1, <1>8, <1>9 DEF Lesser
    <2> HIDE DEF syn
    <2>3. syn \in 0 .. 1
        BY <1>2, <1>3
    <2>4. ~ (rem - syn - n > 0)
        BY <1>2, <1>5, <2>1, <2>3
    <2>5. Bit(msg.FIN) = 0
        BY <1>1, <2>4 DEF Bit
    <2>2. len = rem
        BY <1>2, <1>3, <1>5, <2>1, <2>3, <2>5
    <2> QED BY <1>7, <2>2 DEF Stuck, t, msg
<1>10. CASE n = held
    <2>1. BytesBuffered(t.input) = 0 /\ t.abs_seqno > 0
        BY <1>4, <1>5, <1>10
    <2>2. CASE ~ IsFinished(t.input)
        BY <2>1, <2>2 DEF Stuck, t, msg
    <2>3. CASE t.FINsent
        BY <2>3 DEF Stuck, t, msg
    <2>4. CASE IsFinished(t.input) /\ ~ t.FINsent
        <3>1. ~ (rem - syn - n > 0)
            BY <1>1, <1>4, <2>4
        <3> HIDE DEF syn
        <3>2. len = rem
            BY <1>1, <1>2, <1>3, <1>5, <3>1
        <3> QED BY <1>7, <3>2 DEF Stuck, t, msg
    <2> QED BY <2>2, <2>3, <2>4
<1> QED BY <1>9, <1>10

\* A round more that sends
LEMMA PushedFollows ==
    ASSUME NEW c, IsConfig(c), NEW a, a.abs_seqno \in Nat,
           NEW s, Good(c, s), PushedOn(c, a, s), Sends(s)
    PROVE  PushedOn(c, a, AfterSending(s, NextMessage(s)))
<1> DEFINE msg == NextMessage(s)
           t   == AfterSending(s, msg)
<1>1. /\ Good(c, t) /\ t.window_size = s.window_size /\ SameTimeout(s, t)
      /\ t.abs_seqno > s.abs_seqno /\ t.abs_ackno = s.abs_ackno
      /\ SequenceNumbersInFlight(t) <= Greater(t.window_size, 1)
      /\ t.input.total_pushed = s.input.total_pushed
      /\ t.input.stream_closed = s.input.stream_closed
      /\ AckPlaced(c, s) => AckPlaced(c, t)
    BY RoundKeeps
<1>2. ~ s.FINsent
    BY DEF Sends
<1>3. s.abs_seqno \in Nat /\ t.abs_seqno \in Nat
    <2> HIDE DEF t
    <2> QED BY <1>1, GoodFacts
<1> HIDE DEF msg, t
<1>4. t.abs_seqno >= a.abs_seqno
    BY <1>1, <1>3 DEF PushedOn
<1>5. SameTimeout(a, t)
    BY <1>1 DEF PushedOn, SameTimeout
<1>6. PushedOn(c, a, t)
    BY <1>1, <1>2, <1>4, <1>5 DEF PushedOn
<1> QED BY <1>6 DEF t, msg

\* One round more
LEMMA RoundFollows ==
    ASSUME NEW c, IsConfig(c), NEW a, Len(a.input.buffer) \in Nat,
           a.abs_seqno \in Nat, NEW of, of.c = c, of.start = a,
           NEW i \in Nat, i > 0, NEW acc, PushState(of, i - 1, acc)
    PROVE  PushState(of, i, PushRound(acc, i))
<1> DEFINE s   == acc.sender
           msg == NextMessage(s)
           t   == AfterSending(s, msg)
           last == BytesToRead(s) < MAX_PAYLOAD_SIZE
           next == PushRound(acc, i)
           j == i - 1
<1>1. /\ acc = [sender |-> s, sent |-> acc.sent, ended |-> acc.ended]
      /\ Good(c, s) /\ acc.ended \in BOOLEAN /\ PushedOn(c, a, s)
      /\ acc.ended => Stuck(s)
      /\ ~ acc.ended => Len(s.input.buffer) + j <= Len(a.input.buffer)
      /\ acc.sent \in Seq(Msgs(c))
      /\ \A m \in 1 .. Len(acc.sent) :
            \E k \in 1 .. Len(s.outstanding) : acc.sent[m] = s.outstanding[k]
    BY DEF PushState
<1>2. CASE acc.ended \/ ~ Sends(s)
    <2> DEFINE yes  == TRUE
               sent == acc.sent
    <2>1. next = [acc EXCEPT !.ended = yes]
        BY <1>2 DEF PushRound, Sends
    <2> HIDE DEF yes, next
    <2>2. next = [sender |-> s, sent |-> sent, ended |-> yes]
        <3>1. acc = [sender |-> s, sent |-> sent, ended |-> acc.ended]
            BY <1>1
        <3> HIDE DEF s, sent
        <3> QED BY <2>1, <3>1
    <2>3. Stuck(s)
        BY <1>1, <1>2, NotSendingIsStuck
    <2> HIDE DEF s
    <2>4. next.sender = s /\ next.sent = sent /\ next.ended = TRUE
        <3> HIDE DEF sent
        <3> QED BY <2>2 DEF yes
    <2>5. next = [sender |-> next.sender, sent |-> next.sent, ended |-> next.ended]
        <3> HIDE DEF sent
        <3> QED BY <2>2, <2>4 DEF yes
    <2>6. PushState(of, i, next)
        BY <1>1, <2>3, <2>4, <2>5 DEF PushState
    <2> QED BY <2>6 DEF next
<1>3. CASE ~ acc.ended /\ Sends(s)
    <2> DEFINE sent == Append(acc.sent, msg)
               queue == Append(s.outstanding, msg)
    <2>1. next = [sender |-> t, sent |-> sent, ended |-> last]
        BY <1>3 DEF PushRound, Sends
    <2>2. /\ Good(c, t) /\ PushedOn(c, a, t)
          /\ Len(t.input.buffer) = Len(s.input.buffer) - Len(msg.payload)
          /\ t.outstanding = queue /\ msg \in Msgs(c)
        BY <1>1, <1>3, RoundKeeps, PushedFollows
    <2>3. last => Stuck(t)
        BY <1>1, <1>3, LastRoundIsStuck
    <2>4. ~ last => Len(msg.payload) > 0 /\ Len(msg.payload) \in Nat
        <3>1. /\ Len(msg.payload) = Lesser(BytesToRead(s), MAX_PAYLOAD_SIZE)
              /\ Len(msg.payload) \in 0 .. Len(s.input.buffer)
              /\ BytesToRead(s) = Lesser(Len(s.input.buffer),
                     RemainingWindow(s) - Bit(s.abs_seqno = 0))
            BY <1>1, <1>3, NextMessageIs DEF Sends
        <3>2. BytesToRead(s) \in Int
            <4>1. Bit(s.abs_seqno = 0) \in 0 .. 1
                BY DEF Bit
            <4>2. RemainingWindow(s) \in Nat /\ Len(s.input.buffer) \in Nat
                BY <1>1, RemainingIs, GoodFacts
            <4> QED BY <3>1, <4>1, <4>2 DEF Lesser
        <3> HIDE DEF s, msg
        <3> QED BY <3>1, <3>2, Numbers DEF Lesser
    <2>5. Len(s.input.buffer) \in Nat
        BY <1>1, GoodFacts
    <2>6. s.outstanding \in Seq(Msgs(c))
        BY <1>1, GoodFacts
    <2> HIDE DEF s, t, msg, next, last
    <2>7. /\ sent \in Seq(Msgs(c)) /\ Len(sent) = Len(acc.sent) + 1
          /\ sent[Len(sent)] = msg /\ Len(acc.sent) \in Nat
          /\ \A m \in 1 .. Len(acc.sent) : sent[m] = acc.sent[m]
        BY <1>1, <2>2, AppendProperties, LenProperties
    <2>8. /\ Len(queue) = Len(s.outstanding) + 1 /\ queue[Len(queue)] = msg
          /\ Len(s.outstanding) \in Nat
          /\ \A k \in 1 .. Len(s.outstanding) : queue[k] = s.outstanding[k]
        BY <2>2, <2>6, AppendProperties, LenProperties
    <2> HIDE DEF sent, queue
    <2>9. \A m \in 1 .. Len(sent) :
              \E k \in 1 .. Len(t.outstanding) : sent[m] = t.outstanding[k]
        <3> SUFFICES ASSUME NEW m \in 1 .. Len(sent)
                     PROVE  \E k \in 1 .. Len(queue) : sent[m] = queue[k]
            BY <2>2
        <3>1. CASE m = Len(sent)
            BY <2>7, <2>8, <3>1
        <3>2. CASE m # Len(sent)
            <4>1. m \in 1 .. Len(acc.sent)
                BY <2>7, <3>2
            <4>2. PICK k \in 1 .. Len(s.outstanding) : acc.sent[m] = s.outstanding[k]
                BY <1>1, <4>1
            <4>3. k \in 1 .. Len(queue) /\ sent[m] = queue[k]
                BY <2>7, <2>8, <4>1, <4>2
            <4> QED BY <4>3
        <3> QED BY <3>1, <3>2
    <2>10. /\ next.sender = t /\ next.ended = last /\ next.sent = sent
           /\ next = [sender |-> next.sender, sent |-> next.sent, ended |-> next.ended]
        BY <2>1
    <2>11. ~ last => Len(t.input.buffer) + i <= Len(a.input.buffer)
        <3> DEFINE e == Len(t.input.buffer)
                   b == Len(s.input.buffer)
                   m == Len(msg.payload)
                   d == Len(a.input.buffer)
        <3>1. b + j <= d /\ e = b - m /\ b \in Nat /\ d \in Nat
            BY <1>1, <1>3, <2>2, <2>5
        <3>2. ~ last => m > 0 /\ m \in Nat
            BY <2>4
        <3> HIDE DEF e, b, m, d
        <3>3. ~ last => e + i <= d
            BY <3>1, <3>2
        <3> QED BY <3>3 DEF e, d
    <2>12. last \in BOOLEAN
        BY DEF last
    <2>13. PushState(of, i, next)
        BY <2>2, <2>3, <2>7, <2>9, <2>10, <2>11, <2>12 DEF PushState
    <2> QED BY <2>13 DEF next
<1> QED BY <1>1, <1>2, <1>3

(***************************************************************************)
(* What push() leaves: a sound sender that has nothing to send into the    *)
(* window; what it sent lies in the window and is outstanding.             *)
(***************************************************************************)
LEMMA PushKeeps ==
    ASSUME NEW c, IsConfig(c), NEW s, Good(c, s)
    PROVE  LET r == TCPSenderPush(s)
               t == r.sender
           IN  /\ Good(c, t) /\ Stuck(t) /\ PushedOn(c, s, t)
               /\ r.sent \in Seq(Msgs(c))
               /\ \A i \in 1 .. Len(r.sent) :
                     \E k \in 1 .. Len(t.outstanding) :
                         r.sent[i] = t.outstanding[k]
<1> DEFINE held == BytesBuffered(s.input)
           rounds == [round \in 1 .. held + 2 |-> round]
           base == [sender |-> s, sent |-> <<>>, ended |-> FALSE]
           acc == Rounds!Fold(base, rounds)
           n == held + 2
           of == [c |-> c, start |-> s]
<1>1. TCPSenderPush(s) = acc
    BY DEF TCPSenderPush, Rounds!Fold, Rounds!FoldLeft, Rounds!MapThenFoldSet,
           Rounds!Max, FoldLeft, MapThenFoldSet, Max
<1>2. held \in Nat /\ held = Len(s.input.buffer) /\ n \in Nat
      /\ s.abs_seqno \in Nat
    BY GoodFacts
<1>3. DOMAIN rounds = 1 .. n /\ \A i \in 1 .. n : rounds[i] = i
    OBVIOUS
<1>8. of.c = c /\ of.start = s
    OBVIOUS
<1> HIDE DEF held, of
<1>4. PushState(of, 0, base)
    <2>1. base.sender = s /\ base.ended = FALSE /\ base.sent = <<>>
          /\ base = [sender |-> base.sender, sent |-> base.sent, ended |-> base.ended]
        OBVIOUS
    <2> HIDE DEF base
    <2>2. ~ (s.abs_seqno > s.abs_seqno) /\ s.abs_seqno >= s.abs_seqno
          /\ Len(s.input.buffer) + 0 <= Len(s.input.buffer)
        BY <1>2
    <2>3. <<>> \in Seq(Msgs(c)) /\ Len(<<>>) = 0 /\ 1 .. 0 = {}
        OBVIOUS
    <2>4. PushedOn(c, s, s)
        BY <2>2 DEF PushedOn, SameTimeout
    <2>5. \A i \in 1 .. Len(base.sent) :
              \E k \in 1 .. Len(s.outstanding) : base.sent[i] = s.outstanding[k]
        BY <2>1, <2>3
    <2> QED BY <1>8, <2>1, <2>2, <2>3, <2>4, <2>5 DEF PushState
<1> HIDE DEF base, rounds
<1>5. ASSUME NEW i \in 1 .. n, NEW a, PushState(of, i - 1, a)
      PROVE  PushState(of, i, PushRound(a, rounds[i]))
    <2>1. i \in Nat /\ i > 0 /\ rounds[i] = i
        BY <1>2, <1>3
    <2>2. Len(s.input.buffer) \in Nat
        BY <1>2
    <2> HIDE DEF n
    <2> QED BY <1>2, <1>5, <1>8, <2>1, <2>2, RoundFollows
<1> HIDE DEF n
<1>6. PushState(of, n, acc)
    BY <1>2, <1>3, <1>4, <1>5, Rounds!FoldInvariant
<1> HIDE DEF acc
<1>7. acc.ended
    <2> SUFFICES ASSUME ~ acc.ended PROVE FALSE
        OBVIOUS
    <2>1. Len(acc.sender.input.buffer) + n <= Len(s.input.buffer)
        BY <1>6, <1>8 DEF PushState
    <2>2. Len(acc.sender.input.buffer) \in Nat
        <3>1. Good(c, acc.sender)
            BY <1>6, <1>8 DEF PushState
        <3> QED BY <3>1, GoodFacts
    <2> DEFINE a == Len(acc.sender.input.buffer)
    <2>3. a + n <= held /\ a \in Nat /\ n = held + 2
        BY <1>2, <2>1, <2>2 DEF n
    <2> HIDE DEF a
    <2> QED BY <1>2, <2>3
<1> QED BY <1>1, <1>6, <1>7, <1>8 DEF PushState
-----------------------------------------------------------------------------
(* The other operations *)

\* Only push() gives out numbers; everything else may change.
LEMMA OthersKeep ==
    ASSUME NEW c, IsConfig(c), NEW s, Good(c, s), NEW t, IsSender(c, t),
           t.abs_seqno = s.abs_seqno,
           t.FINsent = s.FINsent, InputOK(c, t.input),
           t.input.total_popped = s.input.total_popped,
           t.FINsent => IsFinished(t.input),
           InOrder(c, t.outstanding, s.abs_seqno, s.FINsent),
           FieldsOK(t), Timed(t)
    PROVE  Good(c, t)
<1>1. Accounted(t)
    BY DEF Good, Accounted
<1> QED BY <1>1 DEF Good

\* What the stream holds, and what was sent of it, stays.
SameStream(s, t) ==
    /\ t.abs_seqno = s.abs_seqno
    /\ t.input.total_pushed = s.input.total_pushed
    /\ t.input.total_popped = s.input.total_popped
    /\ t.input.stream_closed = s.input.stream_closed
    /\ t.FINsent = s.FINsent

\* What is outstanding, and what is acknowledged, stays.
SameQueue(s, t) ==
    /\ t.abs_seqno = s.abs_seqno /\ t.abs_ackno = s.abs_ackno
    /\ t.outstanding = s.outstanding

\* The program's calls on the stream
LEMMA NewInputKeeps ==
    ASSUME NEW c, IsConfig(c), NEW s, Good(c, s), NEW input, InputOK(c, input),
           input.total_popped = s.input.total_popped,
           s.FINsent => IsFinished(input)
    PROVE  LET t == [s EXCEPT !.input = input]
           IN  Good(c, t) /\ SameQueue(s, t) /\ SameTimeout(s, t)
<1> DEFINE t == [s EXCEPT !.input = input]
<1>1. t = Sender(c, input, s.outstanding, s.RTO, s.timer_time, s.timer_on,
                 s.abs_seqno, s.abs_ackno, s.consecutive_retransmissions,
                 s.window_size, s.FINsent)
    BY DEF Good, IsSender, Sender
<1> HIDE DEF t
<1>2. /\ t.input = input /\ t.outstanding = s.outstanding /\ t.RTO = s.RTO
      /\ t.timer_time = s.timer_time /\ t.timer_on = s.timer_on
      /\ t.abs_seqno = s.abs_seqno /\ t.abs_ackno = s.abs_ackno
      /\ t.consecutive_retransmissions = s.consecutive_retransmissions
      /\ t.window_size = s.window_size /\ t.FINsent = s.FINsent
      /\ IsSender(c, t)
    BY <1>1, SenderFields
<1>3. FieldsOK(t) /\ Timed(t)
    BY <1>2 DEF Good, FieldsOK, Timed
<1>4. InOrder(c, t.outstanding, s.abs_seqno, s.FINsent)
    BY <1>2 DEF Good
<1>5. Good(c, t)
    BY <1>2, <1>3, <1>4, OthersKeep
<1> QED BY <1>2, <1>5 DEF t, SameQueue, SameTimeout

LEMMA CloseKeeps ==
    ASSUME NEW c, IsConfig(c), NEW b, InputOK(c, b)
    PROVE  /\ InputOK(c, Close(b)) /\ Close(b).total_popped = b.total_popped
           /\ Close(b).total_pushed = b.total_pushed /\ Close(b).stream_closed
           /\ IsFinished(b) => IsFinished(Close(b))
<1> DEFINE e == Close(b)
           yes == TRUE
<1>1. e = [b EXCEPT !.stream_closed = yes]
    BY DEF Close
<1> HIDE DEF e, yes
<1>2. e = [capacity |-> c.capacity, error |-> b.error,
           total_pushed |-> b.total_pushed, buffer |-> b.buffer,
           stream_closed |-> yes, total_popped |-> b.total_popped]
    BY <1>1 DEF InputOK
<1>3. /\ e.capacity = c.capacity /\ e.error = b.error
      /\ e.total_pushed = b.total_pushed /\ e.buffer = b.buffer
      /\ e.stream_closed = yes /\ e.total_popped = b.total_popped
    BY <1>2
<1>4. InputOK(c, e)
    BY <1>2, <1>3 DEF InputOK, yes
<1>5. IsFinished(b) => IsFinished(e)
    BY <1>3 DEF IsFinished, yes
<1> QED BY <1>3, <1>4, <1>5 DEF e, yes

\* Writing len bytes, of which those that find room are taken
LEMMA WriteKeeps ==
    ASSUME NEW c, IsConfig(c), NEW b, InputOK(c, b), NEW len \in Nat,
           b.total_pushed + len <= c.length
    PROVE  LET e == Push(b, [k \in 1 .. len |-> c.byte[b.total_pushed + k - 1]])
           IN  /\ InputOK(c, e) /\ e.total_popped = b.total_popped
               /\ e.total_pushed =
                     b.total_pushed + Lesser(AvailableCapacity(b), len)
               /\ e.stream_closed = b.stream_closed
<1> DEFINE data == [k \in 1 .. len |-> c.byte[b.total_pushed + k - 1]]
           e == Push(b, data)
           f == b.buffer
           n == Lesser(AvailableCapacity(b), Len(data))
           new == SubSeq(data, 1, n)
           g == f \o new
           pushed == b.total_pushed + n
           half == [b EXCEPT !.buffer = g]
<1>1. /\ f \in Seq(c.alphabet) /\ Len(f) \in Nat /\ Len(f) <= c.capacity
      /\ b.total_pushed \in Nat /\ b.total_popped \in Nat
      /\ b.total_popped + Len(f) = b.total_pushed
      /\ \A k \in 1 .. Len(f) : f[k] = c.byte[b.total_popped + k - 1]
      /\ b.capacity = c.capacity
    <2>1. f \in Seq(c.alphabet) /\ b.total_pushed \in 0 .. c.length
        BY DEF InputOK
    <2>2. Len(f) \in Nat
        BY <2>1, LenProperties
    <2> QED BY <2>1, <2>2, Numbers DEF InputOK
<1>2. data \in Seq(c.alphabet) /\ Len(data) = len
      /\ \A k \in 1 .. len : data[k] = c.byte[b.total_pushed + k - 1]
    <2> DEFINE p == b.total_pushed
    <2>1. p \in Nat
        BY <1>1
    <2> HIDE DEF p
    <2>6. \A k \in 1 .. len : p + k - 1 \in Nat
        BY <2>1
    <2>2. [k \in 1 .. len |-> c.byte[p + k - 1]] \in [1 .. len -> c.alphabet]
        BY <2>6, Values
    <2>3. data \in [1 .. len -> c.alphabet]
        BY <2>2 DEF p
    <2>4. \A k \in 1 .. len : data[k] = c.byte[b.total_pushed + k - 1]
        OBVIOUS
    <2> HIDE DEF data
    <2>5. data \in Seq(c.alphabet) /\ Len(data) = len
        BY <2>3, SeqDef, LenProperties
    <2> QED BY <2>4, <2>5
<1>3. n \in 0 .. len /\ n <= c.capacity - Len(f)
    <2>1. AvailableCapacity(b) = c.capacity - Len(f) /\ Len(data) = len
        BY <1>1, <1>2 DEF AvailableCapacity
    <2> DEFINE a == c.capacity - Len(f)
    <2>2. a \in Nat
        <3> DEFINE h == Len(f)
                   room == c.capacity
        <3>1. h \in Nat /\ h <= room /\ room \in Nat
            BY <1>1, Numbers
        <3> HIDE DEF h, room
        <3>2. room - h \in Nat
            BY <3>1
        <3> QED BY <3>2 DEF h, room
    <2>3. n = Lesser(a, len)
        BY <2>1
    <2> HIDE DEF n, a
    <2>4. n \in 0 .. len /\ n <= a
        BY <2>2, <2>3 DEF Lesser
    <2> QED BY <2>4 DEF a
<1>4. e = [half EXCEPT !.total_pushed = pushed]
    BY DEF Push
<1>12. half = [b EXCEPT !.buffer = g]
    OBVIOUS
<1> HIDE DEF data, n
<1>5. new \in Seq(c.alphabet) /\ Len(new) = n /\ \A k \in 1 .. n : new[k] = data[k]
    <2>1. n \in Nat /\ n <= len /\ n \in Int /\ 1 \in Int
        BY <1>3
    <2>2. \A i \in 1 .. n : i \in 1 .. Len(data)
        BY <1>2, <2>1
    <2>3. \A i \in 1 .. n : data[i] \in c.alphabet
        BY <1>2, <2>2, ElementOfSeq
    <2>4. /\ new \in Seq(c.alphabet)
          /\ Len(new) = IF 1 <= n THEN n - 1 + 1 ELSE 0
          /\ \A i \in 1 .. n - 1 + 1 : new[i] = data[1 + i - 1]
        <3> DEFINE A == c.alphabet
        <3>1. \A i \in 1 .. n : data[i] \in A
            BY <2>3
        <3> HIDE DEF A
        <3>2. /\ new \in Seq(A)
              /\ Len(new) = IF 1 <= n THEN n - 1 + 1 ELSE 0
              /\ \A i \in 1 .. n - 1 + 1 : new[i] = data[1 + i - 1]
            BY <2>1, <3>1, SubSeqProperties
        <3> QED BY <3>2 DEF A
    <2> HIDE DEF new
    <2>5. \A k \in 1 .. n : 1 + k - 1 = k /\ k \in 1 .. n - 1 + 1
        BY <2>1
    <2> QED BY <2>1, <2>4, <2>5
<1> HIDE DEF new
<1>6. /\ g \in Seq(c.alphabet) /\ Len(g) = Len(f) + n
      /\ \A k \in 1 .. Len(g) : g[k] = c.byte[b.total_popped + k - 1]
    <2>1. /\ g \in Seq(c.alphabet) /\ Len(g) = Len(f) + Len(new)
          /\ \A i \in 1 .. Len(f) + Len(new) :
                g[i] = IF i <= Len(f) THEN f[i] ELSE new[i - Len(f)]
        <3>1. g = f \o new
            OBVIOUS
        <3> HIDE DEF f, g
        <3>2. f \in Seq(c.alphabet) /\ new \in Seq(c.alphabet)
            BY <1>1, <1>5
        <3> QED BY <3>1, <3>2, ConcatProperties
    <2>2. ASSUME NEW k \in 1 .. Len(g)
          PROVE  g[k] = c.byte[b.total_popped + k - 1]
        <3>0. k \in 1 .. Len(f) + n /\ n \in Nat
            BY <1>3, <1>5, <2>1
        <3> HIDE DEF f, g
        <3>1. CASE k <= Len(f)
            <4>1. k \in 1 .. Len(f) /\ g[k] = f[k]
                BY <1>1, <1>5, <2>1, <3>0, <3>1
            <4> QED BY <1>1, <4>1
        <3>2. CASE k > Len(f)
            <4> DEFINE j == k - Len(f)
            <4>1. j \in 1 .. n /\ k = Len(f) + j
                BY <1>1, <3>0, <3>2
            <4>2. g[k] = new[j]
                BY <1>1, <1>5, <2>1, <3>0, <3>2
            <4> HIDE DEF j
            <4>3. j \in 1 .. len
                BY <1>3, <4>1
            <4>4. g[k] = c.byte[b.total_pushed + j - 1]
                BY <1>2, <1>5, <4>1, <4>2, <4>3
            <4>5. b.total_pushed + j - 1 = b.total_popped + k - 1
                BY <1>1, <4>1
            <4> QED BY <4>4, <4>5
        <3> QED BY <1>1, <3>0, <3>1, <3>2
    <2>3. Len(g) = Len(f) + n
        BY <1>5, <2>1
    <2> QED BY <2>1, <2>2, <2>3
<1> HIDE DEF e, f, g, pushed, half
<1>7. half = [capacity |-> c.capacity, error |-> b.error,
              total_pushed |-> b.total_pushed, buffer |-> g,
              stream_closed |-> b.stream_closed,
              total_popped |-> b.total_popped]
    BY <1>12 DEF InputOK
<1>8. e = [capacity |-> c.capacity, error |-> b.error,
           total_pushed |-> pushed, buffer |-> g,
           stream_closed |-> b.stream_closed,
           total_popped |-> b.total_popped]
    BY <1>4, <1>7
<1>9. /\ e.error = b.error /\ e.total_pushed = pushed /\ e.buffer = g
      /\ e.stream_closed = b.stream_closed /\ e.total_popped = b.total_popped
    BY <1>8
<1>10. /\ pushed \in 0 .. c.length /\ Len(g) <= c.capacity
       /\ b.total_popped + Len(g) = pushed
    <2> DEFINE held == Len(f)
               old == b.total_pushed
               popped == b.total_popped
               size == Len(g)
               all == c.length
               most == c.capacity
    <2>1. /\ held \in Nat /\ old \in Nat /\ popped \in Nat /\ n \in 0 .. len
          /\ popped + held = old /\ size = held + n /\ n <= most - held
          /\ old + len <= all /\ all \in Nat /\ most \in Nat
          /\ pushed = old + n
        BY <1>1, <1>3, <1>6, Numbers DEF pushed
    <2> HIDE DEF held, old, popped, size, all, most
    <2>2. pushed \in 0 .. all /\ size <= most /\ popped + size = pushed
        BY <2>1
    <2> QED BY <2>2 DEF size, all, most, popped
<1>11. InputOK(c, e)
    BY <1>1, <1>6, <1>8, <1>9, <1>10 DEF InputOK
<1>13. pushed = b.total_pushed + Lesser(AvailableCapacity(b), len)
    BY <1>2 DEF pushed, n
<1> QED BY <1>9, <1>11, <1>13 DEF e, data

\* A tick, in which the oldest message may be sent again
LEMMA TickKeeps ==
    ASSUME NEW c, IsConfig(c), NEW s, Good(c, s), NEW ms \in Nat
    PROVE  LET t == TCPSenderTick(s, ms).sender
           IN  /\ Good(c, t) /\ SameQueue(s, t) /\ TimeoutStep(c, s, t)
               /\ t.input = s.input /\ t.FINsent = s.FINsent
               /\ t.window_size = s.window_size
<1> DEFINE t == TCPSenderTick(s, ms).sender
<1> DEFINE Kept == /\ Good(c, t) /\ SameQueue(s, t) /\ TimeoutStep(c, s, t)
                   /\ t.input = s.input /\ t.FINsent = s.FINsent
                   /\ t.window_size = s.window_size
<1> SUFFICES Kept
    OBVIOUS
<1>1. ASSUME NEW rto \in Nat, NEW retx \in Nat, NEW time \in Nat,
             rto > 0, s.timer_on => time < rto,
             \/ rto = s.RTO /\ retx = s.consecutive_retransmissions
             \/ rto = s.RTO * 2 /\ retx = s.consecutive_retransmissions + 1,
             t = Sender(c, s.input, s.outstanding, rto, time, s.timer_on,
                        s.abs_seqno, s.abs_ackno, retx, s.window_size, s.FINsent)
      PROVE  Kept
    <2> HIDE DEF t
    <2>1. /\ t.input = s.input /\ t.outstanding = s.outstanding /\ t.RTO = rto
          /\ t.timer_time = time /\ t.timer_on = s.timer_on
          /\ t.abs_seqno = s.abs_seqno /\ t.abs_ackno = s.abs_ackno
          /\ t.consecutive_retransmissions = retx
          /\ t.window_size = s.window_size /\ t.FINsent = s.FINsent
          /\ IsSender(c, t)
        BY <1>1, SenderFields
    <2>2. FieldsOK(t) /\ Timed(t)
        BY <1>1, <2>1 DEF Good, FieldsOK, Timed
    <2>3. /\ InOrder(c, t.outstanding, s.abs_seqno, s.FINsent) /\ InputOK(c, t.input)
          /\ t.FINsent => IsFinished(t.input)
        BY <2>1 DEF Good, Accounted
    <2>4. Good(c, t)
        BY <2>1, <2>2, <2>3, OthersKeep
    <2> QED BY <1>1, <2>1, <2>4 DEF SameQueue, TimeoutStep, SameTimeout
<1> DEFINE retx == s.consecutive_retransmissions
           time == s.timer_time
<1>2. /\ s = Sender(c, s.input, s.outstanding, s.RTO, time, s.timer_on,
                    s.abs_seqno, s.abs_ackno, retx, s.window_size, s.FINsent)
      /\ s.RTO \in Nat /\ s.RTO > 0 /\ time \in Nat /\ retx \in Nat
      /\ s.window_size \in Nat
      /\ s.timer_on => time < s.RTO
      /\ retx = s.consecutive_retransmissions
    BY DEF Good, FieldsOK, IsSender, Timed
<1>3. CASE TimeoutExpires(s, ms)
    <2> DEFINE back == BackedOff(s)
    <2>1. t = [back EXCEPT !.timer_time = 0]
        BY <1>3 DEF TCPSenderTick
    <2>2. ASSUME NEW rto, NEW again,
                 back = Sender(c, s.input, s.outstanding, rto, time, s.timer_on,
                               s.abs_seqno, s.abs_ackno, again, s.window_size,
                               s.FINsent)
          PROVE  t = Sender(c, s.input, s.outstanding, rto, 0, s.timer_on,
                            s.abs_seqno, s.abs_ackno, again, s.window_size,
                            s.FINsent)
        <3> HIDE DEF t, back, time
        <3> QED BY <2>1, <2>2 DEF Sender
    <2>3. CASE s.window_size > 0
        <3> DEFINE half == [s EXCEPT !.consecutive_retransmissions = retx + 1]
                   again == retx + 1
                   rto == s.RTO * 2
        <3>1. back = [half EXCEPT !.RTO = rto]
            BY <2>3 DEF BackedOff
        <3>2. half = [s EXCEPT !.consecutive_retransmissions = again]
            OBVIOUS
        <3>6. /\ again \in Nat /\ rto \in Nat /\ rto > 0
              /\ rto = s.RTO * 2 /\ again = s.consecutive_retransmissions + 1
              /\ s.timer_on => 0 < rto
            <4> HIDE DEF retx
            <4> QED BY <1>2
        <3> HIDE DEF half, back, again, rto, retx, time
        <3>3. half = Sender(c, s.input, s.outstanding, s.RTO, time, s.timer_on,
                            s.abs_seqno, s.abs_ackno, again, s.window_size,
                            s.FINsent)
            BY <1>2, <3>2 DEF Sender
        <3>4. back = Sender(c, s.input, s.outstanding, rto, time, s.timer_on,
                            s.abs_seqno, s.abs_ackno, again, s.window_size,
                            s.FINsent)
            BY <3>1, <3>3 DEF Sender
        <3>5. t = Sender(c, s.input, s.outstanding, rto, 0, s.timer_on,
                         s.abs_seqno, s.abs_ackno, again, s.window_size,
                         s.FINsent)
            BY <2>2, <3>4
        <3> HIDE DEF t
        <3> QED BY <1>1, <3>5, <3>6
    <2>4. CASE ~ (s.window_size > 0)
        <3>1. back = s
            BY <2>4 DEF BackedOff
        <3>2. t = Sender(c, s.input, s.outstanding, s.RTO, 0, s.timer_on,
                         s.abs_seqno, s.abs_ackno, retx, s.window_size,
                         s.FINsent)
            <4> HIDE DEF t, back
            <4> QED BY <1>2, <2>2, <3>1
        <3> HIDE DEF t, retx
        <3> QED BY <1>1, <1>2, <3>2
    <2> QED BY <2>3, <2>4
<1>4. CASE ~ TimeoutExpires(s, ms)
    <2>1. CASE s.timer_on
        <3> DEFINE later == time + ms
        <3>1. t = [s EXCEPT !.timer_time = later]
            BY <1>4, <2>1 DEF TCPSenderTick
        <3>2. later \in Nat /\ later < s.RTO
            BY <1>2, <1>4, <2>1 DEF TimeoutExpires
        <3> HIDE DEF t, later, time, retx
        <3>3. t = Sender(c, s.input, s.outstanding, s.RTO, later, s.timer_on,
                         s.abs_seqno, s.abs_ackno, retx, s.window_size,
                         s.FINsent)
            BY <1>2, <3>1 DEF Sender
        <3> QED BY <1>1, <1>2, <3>2, <3>3
    <2>2. CASE ~ s.timer_on
        <3>1. t = s
            BY <1>4, <2>2 DEF TCPSenderTick
        <3> QED BY <3>1 DEF SameQueue, TimeoutStep, SameTimeout
    <2> QED BY <2>1, <2>2
<1> QED BY <1>3, <1>4

\* An empty queue is one with nothing in flight.
LEMMA EmptyIs ==
    ASSUME NEW c, IsConfig(c), NEW s, NEW next \in Nat, NEW fin,
           InOrder(c, s.outstanding, next, fin)
    PROVE  SequenceNumbersInFlight(s) = 0 <=> s.outstanding = <<>>
<1> DEFINE queue == s.outstanding
<1>1. SequenceNumbersInFlight(s) =
          IF queue = <<>> THEN 0 ELSE next - First(c, queue[1])
    BY SumIs, FlightIs
<1>2. queue \in Seq(Msgs(c))
    BY DEF InOrder
<1>3. ASSUME queue # <<>>
      PROVE  First(c, queue[1]) \in Nat /\ First(c, queue[1]) < next
    <2>1. 1 \in 1 .. Len(queue)
        <3> HIDE DEF queue
        <3> QED BY <1>2, <1>3, EmptySeq
    <2>2. /\ First(c, queue[1]) \in Nat /\ SequenceLength(queue[1]) \in Nat
          /\ SequenceLength(queue[1]) > 0
          /\ First(c, queue[1]) + SequenceLength(queue[1]) <= next
        BY <2>1, PlacedFacts
    <2> HIDE DEF queue
    <2> QED BY <2>2
<1> HIDE DEF queue
<1>4. SequenceNumbersInFlight(s) = 0 <=> queue = <<>>
    BY <1>1, <1>3
<1> QED BY <1>4 DEF queue

\* What is popped from the queue is a prefix, and all that is acknowledged.
LEMMA UnacknowledgedIs ==
    ASSUME NEW s, NEW abs, Len(s.outstanding) \in Nat
    PROVE  \E n \in 0 .. Len(s.outstanding) :
              /\ Unacknowledged(s, abs) =
                    SubSeq(s.outstanding, n + 1, Len(s.outstanding))
              /\ \A i \in 1 .. n : OutstandingEnd(s, s.outstanding[i]) <= abs
              /\ n < Len(s.outstanding) =>
                    ~ (OutstandingEnd(s, s.outstanding[n + 1]) <= abs)
<1> DEFINE max == Len(s.outstanding)
           Acked(i) == OutstandingEnd(s, s.outstanding[i]) <= abs
           Right(n) == /\ \A i \in 1 .. n : Acked(i)
                       /\ n < max => ~ Acked(n + 1)
           T == {i \in 1 .. max : ~ Acked(i)}
           n == CHOOSE k \in 0 .. max : Right(k)
<1> HIDE DEF Acked, max
<1>1. \E k \in 0 .. max : Right(k)
    <2>0. max \in Nat
        BY DEF max
    <2>1. CASE T = {}
        <3>1. Right(max) /\ max \in 0 .. max
            BY <2>0, <2>1
        <3> QED BY <3>1
    <2>2. CASE T # {}
        <3>1. T \subseteq Nat
            BY <2>0
        <3>2. PICK m \in T : \A j \in T : m <= j
            <4> HIDE DEF T
            <4> QED BY <2>2, <3>1, Flight!LeastElement
        <3> DEFINE k == m - 1
        <3>3. k \in 0 .. max /\ k + 1 = m /\ \A i \in 1 .. k : i \in 1 .. max /\ i < m
            BY <2>0, <3>2
        <3>4. \A i \in 1 .. k : Acked(i)
            BY <2>0, <3>2, <3>3
        <3>5. ~ Acked(k + 1)
            BY <3>2, <3>3
        <3> HIDE DEF k
        <3>6. Right(k)
            BY <3>4, <3>5
        <3> HIDE DEF Right
        <3> QED BY <3>3, <3>6
    <2> QED BY <2>1, <2>2
<1>2. n \in 0 .. max /\ Right(n)
    <2> HIDE DEF Right
    <2> QED BY <1>1
<1>3. Unacknowledged(s, abs) = SubSeq(s.outstanding, n + 1, max)
    BY DEF Unacknowledged, Acked, max
<1> HIDE DEF n
<1> QED BY <1>2, <1>3 DEF max, Acked

\* Queue q is queue without the messages that ackno abs acknowledges in full.
Trimmed(c, queue, q, abs) ==
    \E n \in 0 .. Len(queue) :
        /\ q = SubSeq(queue, n + 1, Len(queue))
        /\ \A i \in 1 .. n : After(c, queue[i]) <= abs
        /\ n < Len(queue) => ~ (After(c, queue[n + 1]) <= abs)

\* The acknowledgement number receive() finds in a message
AcknoOf(s, msg, nullopt_read) ==
    Unwrap(IF msg.ackno = NULLOPT THEN nullopt_read ELSE msg.ackno, s.isn,
           BytesPopped(s.input))

\* What receive() does to the queue
QueueAfter(c, s, r, abs) ==
    IF abs > s.abs_ackno /\ abs <= s.abs_ackno + SequenceNumbersInFlight(s)
    THEN r.abs_ackno = abs /\ Trimmed(c, s.outstanding, r.outstanding, abs)
    ELSE r.abs_ackno = s.abs_ackno /\ r.outstanding = s.outstanding

\* The timer stops with the last message that leaves the queue.
LEMMA StopTimerKeeps ==
    ASSUME NEW c, IsConfig(c), NEW s, Good(c, s), NEW u, IsSender(c, u),
           u.abs_seqno = s.abs_seqno,
           u.FINsent = s.FINsent, InputOK(c, u.input),
           u.input.total_popped = s.input.total_popped,
           u.FINsent => IsFinished(u.input),
           InOrder(c, u.outstanding, s.abs_seqno, s.FINsent), FieldsOK(u),
           u.timer_on = s.timer_on, u.timer_on => u.timer_time < u.RTO,
           s.outstanding = <<>> => u.outstanding = <<>>
    PROVE  LET t == StopTimer(u)
           IN  /\ Good(c, t) /\ t.abs_seqno = s.abs_seqno
               /\ t.outstanding = u.outstanding /\ t.abs_ackno = u.abs_ackno
               /\ SameTimeout(u, t) /\ t.input = u.input
               /\ t.FINsent = u.FINsent
<1> DEFINE t == StopTimer(u)
           no == FALSE
           on == IF u.outstanding = <<>> THEN FALSE ELSE u.timer_on
<1>1. s.abs_seqno \in Nat
    BY GoodFacts
<1>2. SequenceNumbersInFlight(u) = 0 <=> u.outstanding = <<>>
    BY <1>1, EmptyIs
<1>3. t = Sender(c, u.input, u.outstanding, u.RTO, u.timer_time, on,
                 u.abs_seqno, u.abs_ackno, u.consecutive_retransmissions,
                 u.window_size, u.FINsent)
    <2>1. CASE u.outstanding = <<>>
        <3>1. t = [u EXCEPT !.timer_on = no] /\ on = no
            BY <1>2, <2>1 DEF StopTimer
        <3> HIDE DEF no, t, on
        <3> QED BY <3>1 DEF IsSender, Sender
    <2>2. CASE u.outstanding # <<>>
        <3>1. t = u /\ on = u.timer_on
            BY <1>2, <2>2 DEF StopTimer
        <3> HIDE DEF t, on
        <3> QED BY <3>1 DEF IsSender
    <2> QED BY <2>1, <2>2
<1> HIDE DEF t
<1>4. on \in BOOLEAN /\ (on <=> u.outstanding # <<>>)
      /\ (on => u.timer_time < u.RTO)
    BY DEF Good, Timed, FieldsOK
<1> HIDE DEF on
<1>5. /\ t.input = u.input /\ t.outstanding = u.outstanding /\ t.RTO = u.RTO
      /\ t.timer_time = u.timer_time /\ t.timer_on = on
      /\ t.abs_seqno = u.abs_seqno /\ t.abs_ackno = u.abs_ackno
      /\ t.consecutive_retransmissions = u.consecutive_retransmissions
      /\ t.window_size = u.window_size /\ t.FINsent = u.FINsent
      /\ IsSender(c, t)
    BY <1>3, SenderFields
<1>6. FieldsOK(t) /\ Timed(t)
    BY <1>4, <1>5 DEF FieldsOK, Timed
<1>7. Good(c, t)
    BY <1>5, <1>6, OthersKeep
<1> QED BY <1>5, <1>7 DEF t, SameTimeout

\* A message of the peer's receiver
LEMMA ReceiveKeeps ==
    ASSUME NEW c, IsConfig(c), NEW s, Good(c, s), NEW msg,
           msg.window_size \in Nat, msg.RST => TRUE \in c.errors,
           NEW nullopt_read, AcknoOf(s, msg, nullopt_read) \in Nat
    PROVE  LET r == TCPSenderReceive(s, msg, nullopt_read)
           IN  /\ Good(c, r) /\ TimeoutStep(c, s, r)
               /\ SameStream(s, r)
               /\ QueueAfter(c, s, r, AcknoOf(s, msg, nullopt_read))
<1> DEFINE r == TCPSenderReceive(s, msg, nullopt_read)
           abs == AcknoOf(s, msg, nullopt_read)
           input == IF msg.RST THEN SetError(s.input) ELSE s.input
           window == msg.window_size
           new == [s EXCEPT !.input = IF msg.RST THEN SetError(@) ELSE @,
                            !.window_size = msg.window_size]
           u == IF abs > s.abs_ackno THEN NewAck(new, abs) ELSE new
           far == abs > s.abs_ackno + SequenceNumbersInFlight(s)
<1> SUFFICES /\ Good(c, r) /\ TimeoutStep(c, s, r)
             /\ SameStream(s, r)
             /\ QueueAfter(c, s, r, abs)
    OBVIOUS
<1>1. r = IF far THEN new ELSE StopTimer(u)
    BY DEF TCPSenderReceive, AcknoOf
<1>2. /\ InputOK(c, input) /\ input.total_popped = s.input.total_popped
      /\ input.total_pushed = s.input.total_pushed
      /\ input.stream_closed = s.input.stream_closed
      /\ s.FINsent => IsFinished(input)
    BY InputKeeps DEF Good, Accounted, IsFinished
<1>3. new = Sender(c, input, s.outstanding, s.RTO, s.timer_time, s.timer_on,
                   s.abs_seqno, s.abs_ackno, s.consecutive_retransmissions,
                   window, s.FINsent)
    <2> DEFINE half == [s EXCEPT !.input = input]
    <2>1. new = [half EXCEPT !.window_size = window]
        OBVIOUS
    <2>2. half = [s EXCEPT !.input = input]
        OBVIOUS
    <2> HIDE DEF input, half, new, window
    <2>3. half = Sender(c, input, s.outstanding, s.RTO, s.timer_time, s.timer_on,
                        s.abs_seqno, s.abs_ackno, s.consecutive_retransmissions,
                        s.window_size, s.FINsent)
        BY <2>2 DEF Good, IsSender, Sender
    <2> QED BY <2>1, <2>3 DEF Sender
<1> HIDE DEF new, input, r, abs
<1>4. /\ new.input = input /\ new.outstanding = s.outstanding
      /\ new.RTO = s.RTO /\ new.timer_time = s.timer_time
      /\ new.timer_on = s.timer_on /\ new.abs_seqno = s.abs_seqno
      /\ new.abs_ackno = s.abs_ackno
      /\ new.consecutive_retransmissions = s.consecutive_retransmissions
      /\ new.window_size = window /\ new.FINsent = s.FINsent
      /\ new.isn = c.isn /\ new.initial_RTO_ms = c.rto /\ IsSender(c, new)
    <2> HIDE DEF window
    <2> QED BY <1>3, SenderFields
<1>5. FieldsOK(new) /\ Timed(new)
    BY <1>4 DEF Good, FieldsOK, Timed
<1>6. InOrder(c, new.outstanding, s.abs_seqno, s.FINsent)
    BY <1>4 DEF Good
<1>7. s.abs_seqno \in Nat /\ s.abs_ackno \in Nat /\ abs \in Nat
      /\ SequenceNumbersInFlight(s) \in Nat
    BY InFlightIs DEF Good, FieldsOK, abs
<1>8. CASE far
    <2>1. r = new
        BY <1>1, <1>8
    <2>2. Good(c, new)
        BY <1>2, <1>4, <1>5, <1>6, OthersKeep
    <2>3. QueueAfter(c, s, r, abs)
        BY <1>4, <1>7, <1>8, <2>1 DEF QueueAfter
    <2>4. SameStream(s, r)
        BY <1>2, <1>4, <2>1 DEF SameStream
    <2> QED BY <1>4, <2>1, <2>2, <2>3, <2>4 DEF TimeoutStep, SameTimeout
<1>9. CASE ~ far /\ ~ (abs > s.abs_ackno)
    <2>1. r = StopTimer(new)
        BY <1>1, <1>9
    <2>2. /\ Good(c, r) /\ r.abs_seqno = s.abs_seqno
          /\ r.outstanding = new.outstanding /\ r.abs_ackno = new.abs_ackno
          /\ SameTimeout(new, r) /\ r.input = new.input
          /\ r.FINsent = new.FINsent
        BY <1>2, <1>4, <1>5, <1>6, <2>1, StopTimerKeeps DEF Timed
    <2>3. TimeoutStep(c, s, r)
        BY <1>4, <2>2 DEF TimeoutStep, SameTimeout
    <2>4. SameStream(s, r)
        BY <1>2, <1>4, <2>2 DEF SameStream
    <2> QED BY <1>4, <1>9, <2>2, <2>3, <2>4 DEF QueueAfter
<1>10. CASE ~ far /\ abs > s.abs_ackno
    <2> DEFINE ack == NewAck(new, abs)
               queue == Unacknowledged(new, abs)
               zero == 0
    <2>1. r = StopTimer(ack)
        BY <1>1, <1>10
    <2>2. ack = Sender(c, input, queue, c.rto, zero, s.timer_on, s.abs_seqno,
                       abs, zero, window, s.FINsent)
        <3> DEFINE rto == new.initial_RTO_ms
                   h1 == [new EXCEPT !.RTO = rto]
                   h2 == [h1 EXCEPT !.timer_time = zero]
                   h3 == [h2 EXCEPT !.abs_ackno = abs]
                   h4 == [h3 EXCEPT !.consecutive_retransmissions = zero]
                   h5 == [h4 EXCEPT !.outstanding = queue]
        <3>1. ack = h5
            BY DEF NewAck
        <3> HIDE DEF ack, queue, window, zero, rto
        <3>2. h1 = Sender(c, input, s.outstanding, rto, s.timer_time, s.timer_on,
                          s.abs_seqno, s.abs_ackno,
                          s.consecutive_retransmissions, window, s.FINsent)
            BY <1>3 DEF Sender
        <3> HIDE DEF h1
        <3>3. h2 = Sender(c, input, s.outstanding, rto, zero, s.timer_on,
                          s.abs_seqno, s.abs_ackno,
                          s.consecutive_retransmissions, window, s.FINsent)
            BY <3>2 DEF Sender
        <3> HIDE DEF h2
        <3>4. h3 = Sender(c, input, s.outstanding, rto, zero, s.timer_on,
                          s.abs_seqno, abs,
                          s.consecutive_retransmissions, window, s.FINsent)
            BY <3>3 DEF Sender
        <3> HIDE DEF h3
        <3>5. h4 = Sender(c, input, s.outstanding, rto, zero, s.timer_on,
                          s.abs_seqno, abs, zero, window, s.FINsent)
            BY <3>4 DEF Sender
        <3> HIDE DEF h4
        <3>6. h5 = Sender(c, input, queue, rto, zero, s.timer_on,
                          s.abs_seqno, abs, zero, window, s.FINsent)
            BY <3>5 DEF Sender
        <3> QED BY <1>4, <3>1, <3>6 DEF h5, rto
    <2> HIDE DEF ack, queue
    <2>3. /\ ack.input = input /\ ack.outstanding = queue
          /\ ack.RTO = c.rto /\ ack.timer_time = zero
          /\ ack.timer_on = s.timer_on /\ ack.abs_seqno = s.abs_seqno
          /\ ack.abs_ackno = abs /\ ack.consecutive_retransmissions = zero
          /\ ack.window_size = window /\ ack.FINsent = s.FINsent
          /\ IsSender(c, ack)
        <3> HIDE DEF window, zero
        <3> QED BY <2>2, SenderFields
    <2>4. FieldsOK(ack) /\ (ack.timer_on => ack.timer_time < ack.RTO)
        BY <1>7, <2>3, Numbers DEF Good, FieldsOK
    <2>5. /\ InOrder(c, queue, s.abs_seqno, s.FINsent)
          /\ s.outstanding = <<>> => queue = <<>>
          /\ Trimmed(c, s.outstanding, queue, abs)
        <3>1. /\ Len(s.outstanding) \in Nat
              /\ InOrder(c, s.outstanding, s.abs_seqno, s.FINsent)
            BY GoodFacts DEF Good
        <3>2. PICK n \in 0 .. Len(s.outstanding) :
                 /\ queue = SubSeq(s.outstanding, n + 1, Len(s.outstanding))
                 /\ \A i \in 1 .. n : OutstandingEnd(new, s.outstanding[i]) <= abs
                 /\ n < Len(s.outstanding) =>
                       ~ (OutstandingEnd(new, s.outstanding[n + 1]) <= abs)
            BY <1>4, <3>1, UnacknowledgedIs DEF queue
        <3>3. \A i \in 1 .. Len(s.outstanding) :
                 OutstandingEnd(new, s.outstanding[i]) = After(c, s.outstanding[i])
            <4>1. \A i \in 1 .. Len(s.outstanding) :
                     OutstandingEnd(s, s.outstanding[i]) = After(c, s.outstanding[i])
                BY EndIs DEF After
            <4>2. new.isn = s.isn /\ BytesPopped(new.input) = BytesPopped(s.input)
                BY <1>2, <1>4, GoodFacts DEF BytesPopped
            <4> QED BY <4>1, <4>2 DEF OutstandingEnd
        <3>4. Trimmed(c, s.outstanding, queue, abs)
            <4> DEFINE max == Len(s.outstanding)
            <4>1. \A i \in 1 .. n : i \in 1 .. max
                BY <3>1, <3>2
            <4>2. n < max => n + 1 \in 1 .. max
                BY <3>1, <3>2
            <4> HIDE DEF max
            <4>3. \A i \in 1 .. n : After(c, s.outstanding[i]) <= abs
                BY <3>2, <3>3, <4>1 DEF max
            <4>4. n < max => ~ (After(c, s.outstanding[n + 1]) <= abs)
                BY <3>2, <3>3, <4>2 DEF max
            <4> QED BY <3>2, <4>3, <4>4 DEF Trimmed, max
        <3>5. InOrder(c, queue, s.abs_seqno, s.FINsent)
              /\ (queue = <<>> <=> n = Len(s.outstanding))
            BY <1>7, <3>1, <3>2, RestKeeps
        <3>6. s.outstanding = <<>> => Len(s.outstanding) = 0
            OBVIOUS
        <3> QED BY <3>1, <3>2, <3>4, <3>5, <3>6
    <2>6. /\ Good(c, r) /\ r.abs_seqno = s.abs_seqno
          /\ r.outstanding = ack.outstanding /\ r.abs_ackno = ack.abs_ackno
          /\ SameTimeout(ack, r) /\ r.input = ack.input
          /\ r.FINsent = ack.FINsent
        BY <1>2, <2>1, <2>3, <2>4, <2>5, StopTimerKeeps
    <2>7. QueueAfter(c, s, r, abs)
        BY <1>7, <1>10, <2>3, <2>5, <2>6 DEF QueueAfter
    <2>8. TimeoutStep(c, s, r)
        BY <2>3, <2>6 DEF TimeoutStep, SameTimeout, zero
    <2>9. SameStream(s, r)
        BY <1>2, <2>3, <2>6 DEF SameStream
    <2> QED BY <2>6, <2>7, <2>8, <2>9
<1> QED BY <1>8, <1>9, <1>10
-----------------------------------------------------------------------------
LEMMA InitGood ==
    ASSUME NEW c, IsConfig(c), NEW abs_ackno \in Nat
    PROVE  Good(c, NewTCPSender(c.capacity, c.isn, c.rto, abs_ackno))
<1> DEFINE input == NewByteStream(c.capacity)
           queue == <<>>
           zero  == 0
           one   == 1
           no    == FALSE
           s     == NewTCPSender(c.capacity, c.isn, c.rto, abs_ackno)
<1>1. s = Sender(c, input, queue, c.rto, zero, no, zero, abs_ackno, zero,
                 one, no)
    BY DEF NewTCPSender, Sender
<1>2. /\ input = [capacity |-> c.capacity, error |-> FALSE, total_pushed |-> 0,
                  buffer |-> <<>>, stream_closed |-> FALSE, total_popped |-> 0]
      /\ <<>> \in Seq(c.alphabet) /\ Len(<<>>) = 0
    BY DEF NewByteStream
<1>3. InputOK(c, input) /\ input.total_popped = 0
    <2> HIDE DEF input
    <2>1. /\ input.capacity = c.capacity /\ input.error = FALSE
          /\ input.total_pushed = 0 /\ input.buffer = <<>>
          /\ input.stream_closed = FALSE /\ input.total_popped = 0
        BY <1>2
    <2>2. input = [capacity |-> c.capacity, error |-> input.error,
                   total_pushed |-> input.total_pushed, buffer |-> input.buffer,
                   stream_closed |-> input.stream_closed,
                   total_popped |-> input.total_popped]
        BY <1>2, <2>1
    <2>3. input.buffer \in Seq(c.alphabet) /\ Len(input.buffer) = 0
        BY <1>2, <2>1
    <2>4. /\ Len(input.buffer) <= c.capacity
          /\ input.total_popped + Len(input.buffer) = input.total_pushed
          /\ \A k \in 1 .. Len(input.buffer) :
                input.buffer[k] = c.byte[input.total_popped + k - 1]
          /\ input.total_pushed \in 0 .. c.length
          /\ input.total_popped \in Nat
        <3>1. Len(input.buffer) = 0 /\ input.total_popped = 0
              /\ input.total_pushed = 0
            BY <2>1, <2>3
        <3> QED BY <3>1, Numbers
    <2>5. input.error \in c.errors /\ input.stream_closed \in BOOLEAN
        BY <2>1, Values
    <2>6. InputOK(c, input)
        BY <2>2, <2>3, <2>4, <2>5 DEF InputOK
    <2> QED BY <2>1, <2>6
<1>4. queue \in Seq(Msgs(c)) /\ Len(queue) = 0
    OBVIOUS
<1>5. InOrder(c, queue, 0, FALSE)
    BY <1>4 DEF InOrder
<1> HIDE DEF input, queue, zero, one, no, s
<1>6. /\ s.input = input /\ s.outstanding = queue /\ s.RTO = c.rto
      /\ s.timer_time = zero /\ s.timer_on = no /\ s.abs_seqno = zero
      /\ s.abs_ackno = abs_ackno /\ s.consecutive_retransmissions = zero
      /\ s.window_size = one /\ s.FINsent = no /\ IsSender(c, s)
    BY <1>1, SenderFields
<1>7. FieldsOK(s) /\ Timed(s)
    <2>1. zero \in Nat /\ one \in Nat /\ no \in BOOLEAN
        BY DEF zero, one, no
    <2>2. FieldsOK(s)
        BY <1>6, <2>1, Numbers DEF FieldsOK
    <2>3. queue = <<>> /\ ~ no
        BY DEF queue, no
    <2>4. Timed(s)
        BY <1>6, <2>3 DEF Timed
    <2> QED BY <2>2, <2>4
<1>8. Accounted(s) /\ InOrder(c, s.outstanding, s.abs_seqno, s.FINsent)
    BY <1>3, <1>5, <1>6 DEF Accounted, zero, no
<1>9. Good(c, s)
    BY <1>3, <1>6, <1>7, <1>8 DEF Good
<1> QED BY <1>9 DEF s

\* Whatever an empty optional yields is some absolute number.
LEMMA UnwrapsToNat ==
    ASSUME NEW raw \in Int, NEW zero_point \in Int, NEW checkpoint \in Nat
    PROVE  Unwrap(raw, zero_point, checkpoint) \in Nat
<1> DEFINE r     == (raw - zero_point) % Mod32
           block == (checkpoint \div Mod32) * Mod32
           med   == block + r
           low   == U64(med - Mod32)
           high  == U64(med + Mod32)
<1>1. Mod32 \in Nat /\ Mod32 > 1 /\ Mod64 \in Nat
    BY Widths
<1>2. r \in Nat
    <2> DEFINE d == raw - zero_point
    <2>1. d \in Int
        OBVIOUS
    <2> HIDE DEF d
    <2>2. d % Mod32 \in 0 .. Mod32 - 1
        BY <1>1, <2>1, Division
    <2> QED BY <1>1, <2>2 DEF d
<1>3. block \in Nat
    <2>1. checkpoint \div Mod32 \in Nat
        BY <1>1
    <2> QED BY <1>1, <2>1
<1> HIDE DEF r, block
<1>4. med \in Nat
    BY <1>2, <1>3
<1> HIDE DEF med
<1>5. med >= Mod32 => low \in Nat
    BY <1>1, <1>4 DEF U64
<1>6. high \in Nat
    BY <1>1, <1>4 DEF U64
<1>7. \/ Unwrap(raw, zero_point, checkpoint) = low /\ med >= Mod32
      \/ Unwrap(raw, zero_point, checkpoint) = high
      \/ Unwrap(raw, zero_point, checkpoint) = med
    BY DEF Unwrap, med, block, r
<1> HIDE DEF low, high
<1> QED BY <1>4, <1>5, <1>6, <1>7

\* The acknowledgement numbers the peer's messages hold
LEMMA PeersAckno ==
    ASSUME NEW c, IsConfig(c), NEW s, Good(c, s), NEW w, NEW rst,
           NEW ackno \in 1 .. c.reach
    PROVE  AcknoOf(s, ReceiverMessage(Wrap(ackno, c.isn), w, rst), 0) = ackno
<1> DEFINE raw == Wrap(ackno, c.isn)
           msg == ReceiverMessage(raw, w, rst)
<1>1. ackno \in Nat /\ ackno \in 0 .. c.reach
    BY Numbers
<1>2. raw \in 0 .. Mod32 - 1
    BY <1>1, Numbers, RemainderOfWrapped DEF UInt32
<1>3. BytesPopped(s.input) \in 0 .. c.length /\ s.isn = c.isn
    BY GoodFacts
<1>4. Unwrap(raw, c.isn, BytesPopped(s.input)) = ackno
    BY <1>1, <1>3, NumberSurvives
<1> HIDE DEF raw
<1>5. msg.ackno = raw /\ msg.ackno # NULLOPT
    BY <1>2, Numbers DEF ReceiverMessage, NULLOPT
<1> HIDE DEF msg
<1>6. AcknoOf(s, msg, 0) = ackno
    BY <1>3, <1>4, <1>5 DEF AcknoOf
<1> QED BY <1>6 DEF msg, raw

LEMMA NoAckno ==
    ASSUME NEW c, IsConfig(c), NEW s, Good(c, s), NEW w
    PROVE  /\ AcknoOf(s, ReceiverMessage(NULLOPT, w, FALSE), 0)
                 = Unwrap(0, c.isn, s.input.total_popped)
           /\ AcknoOf(s, ReceiverMessage(NULLOPT, w, FALSE), 0) \in Nat
<1> DEFINE msg == ReceiverMessage(NULLOPT, w, FALSE)
<1>1. msg.ackno = NULLOPT
    BY DEF ReceiverMessage
<1>2. /\ BytesPopped(s.input) \in 0 .. c.length /\ s.isn = c.isn
      /\ BytesPopped(s.input) = s.input.total_popped
    BY GoodFacts
<1> HIDE DEF msg
<1>3. AcknoOf(s, msg, 0) = Unwrap(0, c.isn, s.input.total_popped)
    BY <1>1, <1>2 DEF AcknoOf
<1>4. s.input.total_popped \in Nat /\ c.isn \in Int /\ 0 \in Int
    BY <1>2, Numbers DEF UInt32
<1>5. Unwrap(0, c.isn, s.input.total_popped) \in Nat
    BY <1>4, UnwrapsToNat
<1> QED BY <1>3, <1>5 DEF msg

\* A true ackno moves the mark into the oldest message that is left.
LEMMA ReceivedIsPlaced ==
    ASSUME NEW c, IsConfig(c), NEW s, Good(c, s), AckPlaced(c, s), NEW t,
           t.abs_seqno = s.abs_seqno,
           NEW abs \in Nat, QueueAfter(c, s, t, abs),
           \/ abs <= s.abs_seqno
           \/ abs > s.abs_ackno + SequenceNumbersInFlight(s)
    PROVE  AckPlaced(c, t)
<1> DEFINE queue  == s.outstanding
           max    == Len(queue)
           next   == s.abs_seqno
           ackno  == s.abs_ackno
           flight == SequenceNumbersInFlight(s)
           q      == t.outstanding
<1>1. /\ next \in Nat /\ ackno \in Nat /\ flight \in Nat /\ max \in Nat
      /\ queue = <<>> => flight = 0
      /\ queue \in Seq(Msgs(c)) /\ InOrder(c, queue, next, s.FINsent)
    BY GoodFacts, InFlightIs DEF Good, FieldsOK
<1>2. CASE ~ (abs > ackno /\ abs <= ackno + flight)
    <2>1. t.abs_ackno = s.abs_ackno /\ t.outstanding = s.outstanding
        BY <1>2 DEF QueueAfter
    <2> QED BY <2>1 DEF AckPlaced
<1>3. CASE abs > ackno /\ abs <= ackno + flight
    <2> HIDE DEF flight
    <2>1. t.abs_ackno = abs /\ Trimmed(c, queue, q, abs)
        BY <1>3 DEF QueueAfter, flight
    <2>2. abs <= next
        BY <1>1, <1>3 DEF flight
    <2>3. queue # <<>>
        <3> HIDE DEF queue, ackno
        <3> QED BY <1>1, <1>3
    <2>4. First(c, queue[1]) <= ackno
        BY <2>3 DEF AckPlaced
    <2>5. PICK n \in 0 .. max :
             /\ q = SubSeq(queue, n + 1, max)
             /\ \A i \in 1 .. n : After(c, queue[i]) <= abs
             /\ n < max => ~ (After(c, queue[n + 1]) <= abs)
        BY <2>1 DEF Trimmed
    <2>6. /\ q = <<>> <=> n = max
          /\ n < max => q[1] = queue[n + 1]
        BY <1>1, <2>5, RestKeeps
    <2>7. \A i \in 1 .. max :
             /\ First(c, queue[i]) \in Nat /\ After(c, queue[i]) \in Nat
             /\ After(c, queue[i]) = IF i = max THEN next ELSE First(c, queue[i + 1])
        <3> TAKE i \in 1 .. max
        <3> DEFINE first == First(c, queue[i])
                   size == SequenceLength(queue[i])
        <3> HIDE DEF queue, next
        <3>1. /\ first \in Nat /\ size \in Nat
              /\ first + size = IF i = max THEN next ELSE First(c, queue[i + 1])
            BY <1>1, PlacedFacts
        <3> HIDE DEF first, size, max
        <3>2. first + size \in Nat
            BY <3>1
        <3> QED BY <3>1, <3>2 DEF After, first, size
    <2>8. max > 0 /\ max \in 1 .. max
        <3> DEFINE A == Msgs(c)
        <3>1. queue \in Seq(A)
            BY <1>1
        <3> HIDE DEF queue, A
        <3>2. max \in Nat \ {0}
            BY <2>3, <3>1, EmptySeq
        <3> HIDE DEF max
        <3> QED BY <3>2
    <2> HIDE DEF queue, q, next, ackno, max
    <2>9. CASE n = max
        <3>1. After(c, queue[max]) <= abs /\ After(c, queue[max]) = next
            BY <2>5, <2>7, <2>8, <2>9
        <3>2. abs = next
            BY <1>1, <2>2, <3>1
        <3> QED BY <2>1, <2>2, <2>6, <2>9, <3>2 DEF AckPlaced, q, next
    <2>10. CASE n # max
        <3> DEFINE j == n + 1
        <3>1. n < max /\ j \in 1 .. max
            BY <1>1, <2>5, <2>10
        <3>2. q # <<>> /\ q[1] = queue[j] /\ ~ (After(c, queue[j]) <= abs)
            BY <2>5, <2>6, <2>10, <3>1
        <3>3. First(c, queue[j]) <= abs
            <4>1. CASE n = 0
                <5>1. First(c, queue[j]) <= ackno
                    BY <2>4, <4>1
                <5> HIDE DEF j
                <5> QED BY <1>1, <1>3, <2>7, <3>1, <5>1
            <4>2. CASE n # 0
                <5>1. n \in 1 .. n /\ n \in 1 .. max
                    BY <1>1, <2>5, <3>1, <4>2
                <5>2. /\ After(c, queue[n]) <= abs
                      /\ After(c, queue[n]) = First(c, queue[j])
                    BY <2>5, <2>7, <2>10, <5>1
                <5> QED BY <5>2
            <4> QED BY <4>1, <4>2
        <3> HIDE DEF j
        <3>4. abs < After(c, queue[j])
            BY <2>7, <3>1, <3>2
        <3> QED BY <2>1, <2>2, <3>2, <3>3, <3>4 DEF AckPlaced, q, next
    <2> QED BY <2>9, <2>10
<1> QED BY <1>2, <1>3

-----------------------------------------------------------------------------
(* The Reassembler and the ByteStream, for any streams and capacities *)

\* FirstGap exists: it is the first index from 'from' on that is no key, when
\* the keys have an upper bound (SECTION 2 of insert terminates).
LEMMA FirstGapProperties ==
    ASSUME NEW from \in Nat, NEW bound \in Nat, NEW keys,
           keys \subseteq Int, \A k \in keys : k < bound
    PROVE  /\ FirstGap(from, keys) \in Nat
           /\ FirstGap(from, keys) >= from
           /\ FirstGap(from, keys) \notin keys
           /\ \A i \in from .. FirstGap(from, keys) - 1 : i \in keys
<1> DEFINE T == {g \in Nat : g >= from /\ g \notin keys}
           Gap(g) == /\ g >= from /\ g \notin keys
                     /\ \A i \in from .. g - 1 : i \in keys
           Candidates == {from} \cup {k + 1 : k \in keys}
<1>1. T # {}
    <2>1. from + bound \in T
        OBVIOUS
    <2> QED BY <2>1
<1>2. PICK m \in T : \A n \in T : m <= n
    BY <1>1, Flight!LeastElement
<1>3. Gap(m)
    <2>1. ASSUME NEW i \in from .. m - 1, i \notin keys
          PROVE  FALSE
        BY <2>1, <1>2
    <2> QED BY <2>1
<1>4. m \in Candidates
    <2>1. CASE m = from
        BY <2>1
    <2>2. CASE m # from
        <3>1. m - 1 \in from .. m - 1
            BY <2>2
        <3>2. m - 1 \in keys
            BY <3>1, <1>3
        <3> QED BY <3>2
    <2> QED BY <2>1, <2>2
<1>5. FirstGap(from, keys) = CHOOSE g \in Candidates : Gap(g)
    BY DEF FirstGap
<1>6. FirstGap(from, keys) \in Candidates /\ Gap(FirstGap(from, keys))
    <2> HIDE DEF Gap, Candidates
    <2>1. \E g \in Candidates : Gap(g)
        BY <1>3, <1>4
    <2> QED BY <2>1, <1>5
<1>7. \A g \in Candidates : g >= from => g \in Nat
    OBVIOUS
<1> QED BY <1>6, <1>7

\* A function on 1 .. n is a sequence of length n.
LEMMA FunctionIsSequence ==
    ASSUME NEW S, NEW n \in Nat, NEW f \in [1 .. n -> S]
    PROVE  f \in Seq(S) /\ Len(f) = n
<1>1. f \in Seq(S)
    BY SeqDef
<1>2. Len(f) \in Nat /\ DOMAIN f = 1 .. Len(f)
    BY <1>1, LenProperties
<1>3. 1 .. Len(f) = 1 .. n
    BY <1>2
<1> QED BY <1>1, <1>2, <1>3

\* One sequence after another (a name that provers do not take apart)
Joined(front, back) == front \o back

\* A byte stream with room for all of data takes all of it, in order.
LEMMA PushAll ==
    ASSUME NEW S, NEW b, NEW data \in Seq(S),
           NEW c \in Nat, NEW e, NEW p, NEW f \in Seq(S), NEW s, NEW q,
           b = [capacity |-> c, error |-> e, total_pushed |-> p, buffer |-> f,
                stream_closed |-> s, total_popped |-> q],
           c - Len(f) >= Len(data)
    PROVE  Push(b, data) =
               [capacity |-> c, error |-> e, total_pushed |-> p + Len(data),
                buffer |-> Joined(f, data), stream_closed |-> s,
                total_popped |-> q]
<1> DEFINE n    == Lesser(AvailableCapacity(b), Len(data))
           half == [b EXCEPT !.buffer = @ \o SubSeq(data, 1, n)]
<1>1. n = Len(data)
    BY LenProperties DEF Lesser, AvailableCapacity
<1>2. SubSeq(data, 1, n) = data
    BY <1>1, SubSeqFull
<1>3. Push(b, data) = [half EXCEPT !.total_pushed = @ + n]
    BY DEF Push
<1> HIDE DEF n
<1> DEFINE g == Joined(f, data)
<1>4. half = [capacity |-> c, error |-> e, total_pushed |-> p,
              buffer |-> g, stream_closed |-> s, total_popped |-> q]
    <2>1. b.buffer \o SubSeq(data, 1, n) = g
        BY <1>2 DEF Joined
    <2>2. half = [b EXCEPT !.buffer = g]
        BY <2>1
    <2> HIDE DEF g, half
    <2> QED BY <2>2
<1> HIDE DEF half
<1> QED BY <1>1, <1>3, <1>4

\* Taking bytes that are in the buffer leaves the others, in order.
LEMMA PopProperties ==
    ASSUME NEW S, NEW b, NEW len \in Nat,
           NEW c, NEW e, NEW p, NEW f \in Seq(S), NEW s, NEW q,
           b = [capacity |-> c, error |-> e, total_pushed |-> p, buffer |-> f,
                stream_closed |-> s, total_popped |-> q],
           len <= Len(f)
    PROVE  \E g \in Seq(S) :
              /\ Len(g) = Len(f) - len
              /\ \A k \in 1 .. Len(g) : g[k] = f[len + k]
              /\ Pop(b, len) =
                    [capacity |-> c, error |-> e, total_pushed |-> p,
                     buffer |-> g, stream_closed |-> s,
                     total_popped |-> q + len]
<1> DEFINE g    == SubSeq(f, len + 1, Len(f))
           half == [b EXCEPT !.buffer = SubSeq(@, len + 1, Len(@))]
<1>1. Len(f) \in Nat
    BY LenProperties
<1>2. g \in Seq(S) /\ Len(g) = Len(f) - len
      /\ \A k \in 1 .. Len(g) : g[k] = f[len + k]
    <2>1. \A i \in len + 1 .. Len(f) : f[i] \in S
        <3>1. \A i \in len + 1 .. Len(f) : i \in 1 .. Len(f)
            BY <1>1
        <3> QED BY <3>1, ElementOfSeq
    <2>2. /\ g \in Seq(S)
          /\ Len(g) = IF len + 1 <= Len(f) THEN Len(f) - (len + 1) + 1 ELSE 0
          /\ \A i \in 1 .. Len(f) - (len + 1) + 1 : g[i] = f[len + 1 + i - 1]
        BY <2>1, <1>1, SubSeqProperties
    <2> HIDE DEF g
    <2>3. Len(g) = Len(f) - len /\ Len(f) - (len + 1) + 1 = Len(f) - len
        BY <2>2, <1>1
    <2>4. \A k \in 1 .. Len(g) : len + 1 + k - 1 = len + k
        BY <2>3, <1>1
    <2> QED BY <2>2, <2>3, <2>4
<1>3. Pop(b, len) = [half EXCEPT !.total_popped = @ + len]
    BY DEF Pop
<1>4. half = [b EXCEPT !.buffer = g]
    OBVIOUS
<1> HIDE DEF g, half
<1>5. half = [capacity |-> c, error |-> e, total_pushed |-> p,
              buffer |-> g, stream_closed |-> s, total_popped |-> q]
    BY <1>4
<1>6. Pop(b, len) = [capacity |-> c, error |-> e, total_pushed |-> p,
                     buffer |-> g, stream_closed |-> s,
                     total_popped |-> q + len]
    BY <1>3, <1>5
<1> QED BY <1>2, <1>6
-----------------------------------------------------------------------------
(***************************************************************************)
(* A Reassembler of a stream of which byte[i] is byte number i, and of     *)
(* which limit bytes exist so far: what it holds is of the stream, inside  *)
(* the window and in its place, and its output is closed when the end is   *)
(* known and reached.                                                      *)
(***************************************************************************)
IsReassembler(capacity, r) ==
    /\ r = [output |-> r.output, unassembled |-> r.unassembled,
            end_of_stream |-> r.end_of_stream]
    /\ r.output = [capacity |-> capacity, error |-> FALSE,
                   total_pushed |-> r.output.total_pushed,
                   buffer |-> r.output.buffer,
                   stream_closed |-> r.output.stream_closed,
                   total_popped |-> r.output.total_popped]

OutputOK(S, byte, capacity, limit, out) ==
    /\ out.buffer \in Seq(S) /\ out.stream_closed \in BOOLEAN
    /\ out.total_pushed \in 0 .. limit /\ out.total_popped \in Nat
    /\ out.total_popped + Len(out.buffer) = out.total_pushed
    /\ out.total_pushed <= out.total_popped + capacity
    /\ \A k \in 1 .. Len(out.buffer) :
          out.buffer[k] = byte[out.total_popped + k - 1]

PendingOK(S, byte, capacity, limit, r) ==
    /\ r.unassembled \in [PendingIndices(r) -> S]
    /\ \A i \in PendingIndices(r) :
          /\ i \in 0 .. limit - 1
          /\ r.output.total_pushed < i
          /\ i < r.output.total_popped + capacity
          /\ r.unassembled[i] = byte[i]

EndOK(limit, r) ==
    /\ r.end_of_stream \in {limit, UINT64_MAX}
    /\ r.output.stream_closed <=>
          (r.end_of_stream = limit /\ r.output.total_pushed = limit)

Assembling(S, byte, capacity, limit, r) ==
    /\ IsReassembler(capacity, r)
    /\ OutputOK(S, byte, capacity, limit, r.output)
    /\ PendingOK(S, byte, capacity, limit, r) /\ EndOK(limit, r)

\* The indices known: those written and those stored
KnownIndices(r) == (0 .. r.output.total_pushed - 1) \cup PendingIndices(r)

LEMMA AssemblingFacts ==
    ASSUME NEW S, NEW byte, NEW capacity \in Nat, NEW limit \in Nat, NEW r,
           Assembling(S, byte, capacity, limit, r)
    PROVE  /\ r.output.total_pushed \in Nat /\ r.output.total_popped \in Nat
           /\ r.output.total_pushed <= limit
           /\ r.output.total_popped <= r.output.total_pushed
           /\ r.output.buffer \in Seq(S) /\ Len(r.output.buffer) \in Nat
           /\ Len(r.output.buffer) <= capacity
           /\ r.output.total_popped + Len(r.output.buffer) = r.output.total_pushed
           /\ r.output.capacity = capacity /\ r.output.error = FALSE
           /\ AvailableCapacity(r.output) \in Nat
           /\ FirstUnacceptable(r) = r.output.total_popped + capacity
<1> DEFINE pushed == r.output.total_pushed
           popped == r.output.total_popped
           held   == Len(r.output.buffer)
<1>1. r.output.buffer \in Seq(S) /\ pushed \in 0 .. limit /\ popped \in Nat
      /\ popped + held = pushed /\ pushed <= popped + capacity
    BY DEF Assembling, OutputOK
<1>2. held \in Nat
    BY <1>1, LenProperties
<1>3. r.output.capacity = capacity /\ r.output.error = FALSE
    BY DEF Assembling, IsReassembler
<1>4. /\ AvailableCapacity(r.output) = capacity - held
      /\ FirstUnacceptable(r) = pushed + (capacity - held)
    BY <1>3 DEF AvailableCapacity, FirstUnacceptable, BytesPushed
<1> HIDE DEF pushed, popped, held
<1>5. /\ pushed \in Nat /\ pushed <= limit /\ popped <= pushed
      /\ held <= capacity /\ capacity - held \in Nat
      /\ pushed + (capacity - held) = popped + capacity
    BY <1>1, <1>2
<1> QED BY <1>1, <1>2, <1>3, <1>4, <1>5 DEF pushed, popped, held

\* More of the stream may come into being while its end is not known.
LEMMA AssemblingGrows ==
    ASSUME NEW S, NEW byte, NEW capacity \in Nat, NEW limit \in Nat, NEW r,
           Assembling(S, byte, capacity, limit, r),
           NEW more \in Nat, limit <= more, more < UINT64_MAX,
           UINT64_MAX \in Nat,
           r.end_of_stream = UINT64_MAX \/ limit = more
    PROVE  Assembling(S, byte, capacity, more, r)
<1>1. CASE limit = more
    BY <1>1
<1>2. CASE r.end_of_stream = UINT64_MAX
    <2>1. OutputOK(S, byte, capacity, more, r.output)
        BY DEF Assembling, OutputOK
    <2>2. PendingOK(S, byte, capacity, more, r)
        BY DEF Assembling, PendingOK
    <2>3. EndOK(more, r)
        BY <1>2 DEF Assembling, EndOK
    <2> QED BY <2>1, <2>2, <2>3 DEF Assembling
<1> QED BY <1>1, <1>2

LEMMA NewAssembling ==
    ASSUME NEW S, NEW byte, NEW capacity \in Nat, NEW limit \in Nat,
           UINT64_MAX \in Nat, limit < UINT64_MAX
    PROVE  /\ Assembling(S, byte, capacity, limit, NewReassembler(capacity))
           /\ KnownIndices(NewReassembler(capacity)) = {}
<1> DEFINE r == NewReassembler(capacity)
           no == FALSE
           zero == 0
           none == <<>>
<1>1. r = [output |-> [capacity |-> capacity, error |-> no,
                       total_pushed |-> zero, buffer |-> none,
                       stream_closed |-> no, total_popped |-> zero],
           unassembled |-> none, end_of_stream |-> UINT64_MAX]
    BY DEF NewReassembler, NewByteStream
<1>2. none \in Seq(S) /\ Len(none) = 0 /\ DOMAIN none = {} /\ none \in [{} -> S]
    <2>1. <<>> \in Seq(S) /\ Len(<<>>) = 0 /\ DOMAIN <<>> = {}
        OBVIOUS
    <2>2. <<>> \in [DOMAIN <<>> -> S]
        BY <2>1, LenProperties
    <2> QED BY <2>1, <2>2
<1> HIDE DEF r, no, zero, none
<1>3. /\ r.output.total_pushed = zero /\ r.output.total_popped = zero
      /\ r.output.buffer = none /\ r.output.stream_closed = no
      /\ r.output.capacity = capacity /\ r.output.error = no
      /\ r.unassembled = none /\ r.end_of_stream = UINT64_MAX
    BY <1>1
<1>4. PendingIndices(r) = {}
    BY <1>2, <1>3 DEF PendingIndices
<1>5. IsReassembler(capacity, r)
    BY <1>1, <1>3 DEF IsReassembler, no
<1>6. OutputOK(S, byte, capacity, limit, r.output)
    <2>1. zero = 0 /\ Len(none) = 0 /\ no \in BOOLEAN /\ none \in Seq(S)
        BY <1>2 DEF zero, no
    <2>2. /\ zero \in 0 .. limit /\ zero \in Nat /\ zero + Len(none) = zero
          /\ zero <= zero + capacity
        BY <2>1
    <2>3. \A k \in 1 .. Len(none) : none[k] = byte[zero + k - 1]
        BY <2>1
    <2> QED BY <1>3, <2>1, <2>2, <2>3 DEF OutputOK
<1>7. PendingOK(S, byte, capacity, limit, r)
    BY <1>2, <1>3, <1>4 DEF PendingOK
<1>8. EndOK(limit, r)
    BY <1>3 DEF EndOK, no
<1>9. KnownIndices(r) = {}
    BY <1>3, <1>4 DEF KnownIndices, zero
<1> QED BY <1>5, <1>6, <1>7, <1>8, <1>9 DEF Assembling, r

\* The first limit bytes of the stream are elements of S
Elements(S, byte, limit) == \A i \in 0 .. limit - 1 : byte[i] \in S

\* What is stored of data at index first is of the stream and in its place
StoresFrom(byte, limit, r, first, data) ==
    \A i \in StoredIndices(r, first, data) :
        i < limit /\ data[i - first + 1] = byte[i]

\* The Reassembler after insert(): more is known, and the reader's side is as
\* it was
InsertAssembles(S, byte, capacity, limit, r, first, data, is_last) ==
    LET t == Insert(r, first, data, is_last)
    IN  /\ Assembling(S, byte, capacity, limit, t)
        /\ KnownIndices(t) = KnownIndices(r) \cup StoredIndices(r, first, data)
        /\ t.output.total_popped = r.output.total_popped
        /\ t.output.total_pushed >= r.output.total_pushed
        /\ r.output.stream_closed => t.output.stream_closed
        /\ t.end_of_stream = EndIndex(r, first, data, is_last)

\* A substring whose storable bytes are those of the stream at their indices
\* leaves the Reassembler assembling, wherever it begins, and adds these indices
\* to the known ones.
LEMMA InsertKeeps ==
    ASSUME NEW S, NEW byte, NEW capacity \in Nat, NEW limit \in Nat, NEW r,
           Assembling(S, byte, capacity, limit, r),
           Elements(S, byte, limit),
           NEW first \in Nat, NEW data \in Seq(S), NEW is_last \in BOOLEAN,
           StoresFrom(byte, limit, r, first, data),
           EndIndex(r, first, data, is_last) \in {limit, r.end_of_stream},
           UINT64_MAX \in Nat, limit < UINT64_MAX
    PROVE  InsertAssembles(S, byte, capacity, limit, r, first, data, is_last)
<1> DEFINE from   == BytesPushed(r.output)
           popped == r.output.total_popped
           held   == r.output.buffer
           new    == StoredIndices(r, first, data)
           map    == Stored(r, first, data)
           gap    == FirstGap(from, DOMAIN map)
           end    == EndIndex(r, first, data, is_last)
           run    == Run(map, from, gap)
           out    == Push(r.output, run)
           t      == Insert(r, first, data, is_last)
<1> SUFFICES /\ Assembling(S, byte, capacity, limit, t)
             /\ KnownIndices(t) = KnownIndices(r) \cup new
             /\ t.output.total_popped = popped
             /\ t.output.total_pushed >= r.output.total_pushed
             /\ r.output.stream_closed => t.output.stream_closed
             /\ t.end_of_stream = end
    BY DEF InsertAssembles
<1>1. /\ from = r.output.total_pushed /\ from \in Nat /\ popped \in Nat
      /\ from <= limit /\ popped <= from /\ from <= popped + capacity
      /\ held \in Seq(S) /\ Len(held) \in Nat /\ popped + Len(held) = from
      /\ FirstUnacceptable(r) = popped + capacity
    <2>1. from = r.output.total_pushed
        BY DEF BytesPushed
    <2>2. r.output.total_pushed <= popped + capacity
        BY DEF Assembling, OutputOK
    <2> HIDE DEF new, map, gap, end, run, out, t
    <2>3. /\ r.output.total_pushed \in Nat /\ r.output.total_popped \in Nat
          /\ r.output.total_pushed <= limit
          /\ r.output.total_popped <= r.output.total_pushed
          /\ r.output.buffer \in Seq(S) /\ Len(r.output.buffer) \in Nat
        BY AssemblingFacts
    <2> DEFINE h == Len(held)
    <2>4. /\ r.output.total_popped + Len(r.output.buffer) = r.output.total_pushed
          /\ r.output.capacity = capacity
        BY DEF Assembling, OutputOK, IsReassembler
    <2>5. /\ from \in Nat /\ popped \in Nat /\ h \in Nat /\ popped + h = from
          /\ FirstUnacceptable(r) = from + (capacity - h)
        BY <2>1, <2>3, <2>4 DEF popped, held, FirstUnacceptable, AvailableCapacity
    <2>6. /\ from <= limit /\ popped <= from /\ from <= popped + capacity
          /\ held \in Seq(S)
        BY <2>1, <2>2, <2>3 DEF popped, held
    <2> HIDE DEF h, from, popped, held
    <2>7. from + (capacity - h) = popped + capacity
        BY <2>5
    <2> QED BY <2>1, <2>5, <2>6, <2>7 DEF h
<1>2. Len(data) \in Nat
    BY LenProperties
<1>3. \A i \in new : /\ i \in from .. popped + capacity - 1
                     /\ i \in 0 .. limit - 1
                     /\ data[i - first + 1] = byte[i]
    <2>1. \A i \in new : i < limit /\ data[i - first + 1] = byte[i]
        BY DEF StoresFrom
    <2>2. \A i \in new : /\ i \in first .. first + Len(data) - 1
                         /\ from <= i /\ i < FirstUnacceptable(r)
        BY DEF StoredIndices
    <2> HIDE DEF new, from, popped, held
    <2> QED BY <2>1, <2>2, <1>1, <1>2
<1>4. \A i \in PendingIndices(r) :
          /\ i \in from + 1 .. popped + capacity - 1
          /\ i \in 0 .. limit - 1
          /\ r.unassembled[i] = byte[i]
    <2>1. \A i \in PendingIndices(r) :
              /\ i \in 0 .. limit - 1
              /\ r.output.total_pushed < i
              /\ i < popped + capacity
              /\ r.unassembled[i] = byte[i]
        BY DEF Assembling, PendingOK
    <2> HIDE DEF popped, held, from
    <2> QED BY <2>1, <1>1
<1>5. DOMAIN map = new \cup PendingIndices(r)
    BY DEF Stored
<1>6. \A i \in DOMAIN map :
          /\ i \in from .. popped + capacity - 1
          /\ i \in 0 .. limit - 1
          /\ map[i] = byte[i]
    <2>1. \A i \in DOMAIN map :
              map[i] = IF i \in new THEN data[i - first + 1]
                                    ELSE r.unassembled[i]
        BY DEF Stored
    <2> HIDE DEF map, new, from, popped, held
    <2> QED BY <2>1, <1>1, <1>3, <1>4, <1>5
<1>7. /\ gap \in Nat /\ gap >= from /\ gap \notin DOMAIN map
      /\ \A i \in from .. gap - 1 : i \in DOMAIN map
    <2> HIDE DEF map
    <2>1. DOMAIN map \subseteq Int /\ \A k \in DOMAIN map : k < limit
        BY <1>6
    <2>2. from \in Nat
        BY <1>1
    <2> HIDE DEF from
    <2> QED BY <2>1, <2>2, FirstGapProperties
<1> HIDE DEF from, popped, held
<1>8. /\ from \in Nat /\ popped \in Nat /\ from <= limit /\ popped <= from
        /\ from <= popped + capacity
    BY <1>1
<1>9. gap \in Nat /\ gap >= from /\ gap - from \in Nat /\ from + (gap - from) = gap
    <2>1. gap \in Nat /\ gap >= from
        BY <1>7
    <2> HIDE DEF gap, new, map, end, run, out, t
    <2> QED BY <2>1, <1>8
<1>10. gap <= limit /\ gap <= popped + capacity
    <2> HIDE DEF map, gap
    <2>1. CASE gap = from
        BY <2>1, <1>1
    <2>2. CASE gap # from
        <3>1. gap - 1 \in from .. gap - 1
            BY <2>2, <1>1, <1>7
        <3>2. gap - 1 \in DOMAIN map
            BY <3>1, <1>7
        <3> QED BY <3>2, <1>1, <1>6, <1>7
    <2> QED BY <2>1, <2>2
<1>11. /\ run \in Seq(S) /\ Len(run) = gap - from
      /\ \A k \in 1 .. gap - from : run[k] = byte[from + k - 1]
    <2> HIDE DEF map, gap
    <2>1. gap - from \in Nat
        BY <1>1, <1>7
    <2>2. run = [k \in 1 .. gap - from |-> map[from + k - 1]]
        BY DEF Run
    <2>3. \A k \in 1 .. gap - from :
              map[from + k - 1] = byte[from + k - 1] /\ byte[from + k - 1] \in S
        <3>1. ASSUME NEW k \in 1 .. gap - from
              PROVE  /\ map[from + k - 1] = byte[from + k - 1]
                     /\ byte[from + k - 1] \in S
            <4>1. from + k - 1 \in from .. gap - 1
                <5> HIDE DEF new, end, out, t
                <5> QED BY <1>9, <1>8
            <4>2. from + k - 1 \in DOMAIN map
                BY <4>1, <1>7
            <4> QED BY <4>2, <1>6 DEF Elements
        <3> QED BY <3>1
    <2> HIDE DEF run
    <2>4. run \in [1 .. gap - from -> S]
        BY <2>2, <2>3
    <2>5. run \in Seq(S) /\ Len(run) = gap - from
        BY <2>1, <2>4, FunctionIsSequence
    <2> QED BY <2>2, <2>3, <2>5
<1> DEFINE buffer == held \o run
<1>12. /\ buffer \in Seq(S) /\ Len(buffer) = Len(held) + (gap - from)
       /\ \A k \in 1 .. Len(buffer) :
             buffer[k] = IF k <= Len(held) THEN held[k] ELSE run[k - Len(held)]
    <2> HIDE DEF run, gap
    <2>1. held \in Seq(S) /\ run \in Seq(S) /\ Len(run) = gap - from
        BY <1>1, <1>11
    <2>2. /\ held \o run \in Seq(S)
          /\ Len(held \o run) = Len(held) + Len(run)
          /\ \A i \in 1 .. Len(held) + Len(run) :
                (held \o run)[i] = IF i <= Len(held) THEN held[i]
                                                     ELSE run[i - Len(held)]
        BY <2>1, ConcatProperties
    <2> QED BY <2>1, <2>2
<1> DEFINE was    == r.output.stream_closed
           closed == was \/ gap = end
           rest   == Rest(map, gap)
<1>13. was \in BOOLEAN
    BY DEF Assembling, OutputOK
<1>14. out = [capacity |-> capacity, error |-> FALSE, total_pushed |-> gap,
              buffer |-> buffer, stream_closed |-> was, total_popped |-> popped]
    <2>1. r.output = [capacity |-> capacity, error |-> FALSE,
                      total_pushed |-> from, buffer |-> held,
                      stream_closed |-> was, total_popped |-> popped]
        BY <1>1 DEF Assembling, IsReassembler, held, popped
    <2> HIDE DEF run, gap, was
    <2>2. run \in Seq(S) /\ Len(run) = gap - from
        BY <1>11
    <2>3. capacity - Len(held) >= Len(run) /\ from + Len(run) = gap
        <3> DEFINE h == Len(held)
                   n == Len(run)
        <3>1. h \in Nat /\ popped + h = from /\ n = gap - from
            BY <2>2, <1>1
        <3> HIDE DEF h, n, new, map, end, out, t
        <3>2. capacity - h >= n /\ from + n = gap
            BY <3>1, <1>9, <1>8, <1>10
        <3> QED BY <3>2 DEF h, n
    <2> HIDE DEF new, map, end, out, t
    <2>4. Push(r.output, run) =
              [capacity |-> capacity, error |-> FALSE,
               total_pushed |-> from + Len(run), buffer |-> Joined(held, run),
               stream_closed |-> was, total_popped |-> popped]
        <3>1. held \in Seq(S) /\ run \in Seq(S)
            BY <1>1, <1>11
        <3>2. capacity - Len(held) >= Len(run)
            BY <2>3
        <3> DEFINE no == FALSE
        <3>3. r.output = [capacity |-> capacity, error |-> no,
                          total_pushed |-> from, buffer |-> held,
                          stream_closed |-> was, total_popped |-> popped]
            BY <2>1
        <3> HIDE DEF no
        <3>4. Push(r.output, run) =
                  [capacity |-> capacity, error |-> no,
                   total_pushed |-> from + Len(run),
                   buffer |-> Joined(held, run), stream_closed |-> was,
                   total_popped |-> popped]
            BY <3>1, <3>2, <3>3, PushAll
        <3> QED BY <3>4 DEF no
    <2>5. out = Push(r.output, run) /\ buffer = Joined(held, run)
        BY DEF out, Joined
    <2> HIDE DEF buffer
    <2> QED BY <2>3, <2>4, <2>5
<1> HIDE DEF out
<1>15. t = [output |-> IF gap = end THEN Close(out) ELSE out,
            unassembled |-> rest, end_of_stream |-> end]
    BY DEF Insert, from, out
<1> HIDE DEF t, buffer, run
<1>16. t = [output |-> [capacity |-> capacity, error |-> FALSE,
                        total_pushed |-> gap, buffer |-> buffer,
                        stream_closed |-> closed, total_popped |-> popped],
            unassembled |-> rest, end_of_stream |-> end]
    <2> HIDE DEF gap, end, rest, was
    <2>1. CASE gap = end
        <3>1. TRUE = closed
            BY <2>1
        <3>2. Close(out) = [out EXCEPT !.stream_closed = closed]
            BY <3>1 DEF Close
        <3> HIDE DEF closed
        <3>3. Close(out) = [capacity |-> capacity, error |-> FALSE,
                            total_pushed |-> gap, buffer |-> buffer,
                            stream_closed |-> closed, total_popped |-> popped]
            BY <3>2, <1>14
        <3> QED BY <2>1, <3>3, <1>15
    <2>2. CASE gap # end
        <3>1. closed = was
            BY <2>2, <1>13
        <3> HIDE DEF closed
        <3> QED BY <2>2, <3>1, <1>14, <1>15
    <2> QED BY <2>1, <2>2
<1>17. /\ t.output.capacity = capacity /\ t.output.error = FALSE
       /\ t.output.total_pushed = gap /\ t.output.buffer = buffer
       /\ t.output.stream_closed = closed /\ t.output.total_popped = popped
       /\ t.unassembled = rest /\ t.end_of_stream = end
    <2> HIDE DEF gap, rest, end, closed
    <2> QED BY <1>16
<1>18. IsReassembler(capacity, t)
    <2> HIDE DEF gap, rest, end, closed
    <2> QED BY <1>16, <1>17 DEF IsReassembler
<1>19. /\ rest \in [DOMAIN rest -> S]
       /\ \A i \in DOMAIN rest : /\ i \in DOMAIN map /\ i \in 0 .. limit - 1
                                 /\ gap < i /\ i < popped + capacity
                                 /\ rest[i] = byte[i]
    <2> HIDE DEF map, gap
    <2>1. /\ DOMAIN rest = {k \in DOMAIN map : k >= gap}
          /\ \A i \in DOMAIN rest : rest[i] = map[i]
          /\ rest = [i \in DOMAIN rest |-> rest[i]]
        BY DEF Rest
    <2> HIDE DEF rest
    <2>2. \A i \in DOMAIN rest : /\ i \in DOMAIN map /\ i \in 0 .. limit - 1
                                 /\ gap < i /\ i < popped + capacity
                                 /\ rest[i] = byte[i]
        BY <2>1, <1>1, <1>6, <1>7
    <2>3. \A i \in DOMAIN rest : rest[i] \in S
        BY <2>2 DEF Elements
    <2> QED BY <2>1, <2>2, <2>3
<1>20. OutputOK(S, byte, capacity, limit, t.output)
    <2> HIDE DEF gap, end
    <2>1. closed \in BOOLEAN
        OBVIOUS
    <2> HIDE DEF closed
    <2>2. popped + Len(buffer) = gap
        <3> DEFINE h == Len(held)
                   l == Len(buffer)
        <3>1. h \in Nat /\ popped + h = from /\ l = h + (gap - from)
            BY <1>1, <1>12
        <3> HIDE DEF h, l, new, map, rest, was
        <3>2. popped + l = gap
            BY <3>1, <1>8, <1>9
        <3> QED BY <3>2 DEF l
    <2>3. ASSUME NEW k \in 1 .. Len(buffer)
          PROVE  buffer[k] = byte[popped + k - 1]
        <3>1. CASE k <= Len(held)
            <4>1. k \in 1 .. Len(held)
                BY <3>1
            <4>2. held[k] = byte[popped + k - 1]
                BY <4>1 DEF Assembling, OutputOK, held, popped
            <4> QED BY <3>1, <4>2, <1>12
        <3>2. CASE ~ (k <= Len(held))
            <4> DEFINE h == Len(held)
                       j == k - h
            <4>1. /\ h \in Nat /\ popped + h = from /\ k \in 1 .. h + (gap - from)
                  /\ ~ (k <= h)
                BY <3>2, <1>12, <1>1
            <4>7. j \in 1 .. gap - from /\ from + j - 1 = popped + k - 1
                <5> HIDE DEF h, new, map, end, rest, closed
                <5> QED BY <4>1, <1>8, <1>9
            <4>2. buffer[k] = run[j]
                BY <3>2, <1>12
            <4> HIDE DEF j
            <4>3. run[j] = byte[from + j - 1]
                BY <4>7, <1>11
            <4> QED BY <4>7, <4>2, <4>3
        <3> QED BY <3>1, <3>2
    <2>4. gap \in 0 .. limit /\ gap <= popped + capacity
        BY <1>7, <1>10
    <2> QED BY <2>1, <2>2, <2>3, <2>4, <1>1, <1>12, <1>17 DEF OutputOK
<1>21. PendingOK(S, byte, capacity, limit, t)
    <2> HIDE DEF gap, end, closed, rest, map
    <2>1. PendingIndices(t) = DOMAIN rest
        BY <1>17 DEF PendingIndices
    <2> QED BY <2>1, <1>17, <1>19 DEF PendingOK
<1>22. /\ end \in {limit, UINT64_MAX}
       /\ was => end = limit /\ gap = limit
       /\ gap = end => end = limit
    <2>1. r.end_of_stream \in {limit, UINT64_MAX}
        BY DEF Assembling, EndOK
    <2>2. was => r.end_of_stream = limit /\ from = limit
        BY <1>1 DEF Assembling, EndOK
    <2>3. end \in {limit, r.end_of_stream}
        OBVIOUS
    <2> HIDE DEF gap, end, was
    <2> QED BY <2>1, <2>2, <2>3, <1>7, <1>10
<1>23. EndOK(limit, t)
    <2> HIDE DEF gap, end, was
    <2>1. closed <=> (end = limit /\ gap = limit)
        BY <1>22
    <2> HIDE DEF closed
    <2> QED BY <2>1, <1>17, <1>22 DEF EndOK
<1>24. KnownIndices(t) = KnownIndices(r) \cup new
    <2>1. PendingIndices(t) = DOMAIN rest
        BY <1>17 DEF PendingIndices
    <2>2. DOMAIN rest = {k \in DOMAIN map : k >= gap}
        BY DEF Rest
    <2>3. KnownIndices(t) = (0 .. gap - 1) \cup {k \in DOMAIN map : k >= gap}
        BY <2>1, <2>2, <1>17 DEF KnownIndices
    <2>4. KnownIndices(r) = (0 .. from - 1) \cup PendingIndices(r)
        BY <1>1 DEF KnownIndices
    <2> HIDE DEF map, gap, new
    <2>5. (0 .. gap - 1) \cup {k \in DOMAIN map : k >= gap}
              = (0 .. from - 1) \cup DOMAIN map
        <3> DEFINE D == DOMAIN map
        <3>1. /\ \A i \in D : i \in Nat /\ i >= from
              /\ \A i \in from .. gap - 1 : i \in D
            BY <1>6, <1>7, <1>8
        <3> HIDE DEF D
        <3>2. (0 .. gap - 1) \cup {k \in D : k >= gap} = (0 .. from - 1) \cup D
            BY <3>1, <1>8, <1>9
        <3> QED BY <3>2 DEF D
    <2> QED BY <2>3, <2>4, <2>5, <1>5
<1>25. /\ t.output.total_pushed >= r.output.total_pushed
       /\ was => t.output.stream_closed
    <2> HIDE DEF gap, end, was
    <2> QED BY <1>1, <1>7, <1>17
<1>26. Assembling(S, byte, capacity, limit, t)
    BY <1>18, <1>20, <1>21, <1>23 DEF Assembling
<1> HIDE DEF gap, end, new
<1> QED BY <1>17, <1>24, <1>25, <1>26

\* The Reassembler after the reader took len bytes
PopAssembles(S, byte, capacity, limit, r, len) ==
    LET t == [r EXCEPT !.output = Pop(@, len)]
    IN  /\ Assembling(S, byte, capacity, limit, t)
        /\ KnownIndices(t) = KnownIndices(r)
        /\ t.output.total_popped = r.output.total_popped + len
        /\ t.output.total_pushed = r.output.total_pushed
        /\ t.output.stream_closed = r.output.stream_closed
        /\ t.end_of_stream = r.end_of_stream

\* The reader takes bytes from the front of the buffer: the window moves on,
\* and what is left is still of the stream and in its place.
LEMMA PopKeepsAssembling ==
    ASSUME NEW S, NEW byte, NEW capacity \in Nat, NEW limit \in Nat, NEW r,
           Assembling(S, byte, capacity, limit, r),
           NEW len \in Nat, len <= Len(r.output.buffer)
    PROVE  PopAssembles(S, byte, capacity, limit, r, len)
<1> DEFINE pushed == r.output.total_pushed
           popped == r.output.total_popped
           held   == r.output.buffer
           was    == r.output.stream_closed
           rest   == r.unassembled
           end    == r.end_of_stream
           next   == Pop(r.output, len)
           t      == [r EXCEPT !.output = next]
<1> SUFFICES /\ Assembling(S, byte, capacity, limit, t)
             /\ KnownIndices(t) = KnownIndices(r)
             /\ t.output.total_popped = popped + len
             /\ t.output.total_pushed = pushed
             /\ t.output.stream_closed = was
             /\ t.end_of_stream = end
    BY DEF PopAssembles
<1>1. /\ r = [output |-> r.output, unassembled |-> rest, end_of_stream |-> end]
      /\ r.output = [capacity |-> capacity, error |-> FALSE,
                     total_pushed |-> pushed, buffer |-> held,
                     stream_closed |-> was, total_popped |-> popped]
    BY DEF Assembling, IsReassembler
<1>2. /\ pushed \in Nat /\ popped \in Nat /\ held \in Seq(S)
      /\ Len(held) \in Nat /\ popped + Len(held) = pushed
      /\ pushed \in 0 .. limit /\ pushed <= popped + capacity
      /\ was \in BOOLEAN
      /\ \A k \in 1 .. Len(held) : held[k] = byte[popped + k - 1]
    BY AssemblingFacts DEF Assembling, OutputOK
<1> HIDE DEF pushed, popped, held, was
<1>3. PICK g \in Seq(S) :
          /\ Len(g) = Len(held) - len
          /\ \A k \in 1 .. Len(g) : g[k] = held[len + k]
          /\ next = [capacity |-> capacity, error |-> FALSE,
                     total_pushed |-> pushed, buffer |-> g,
                     stream_closed |-> was, total_popped |-> popped + len]
    BY <1>1, <1>2, PopProperties DEF held
<1> HIDE DEF next, rest, end
<1>4. t = [output |-> next, unassembled |-> rest, end_of_stream |-> end]
    BY <1>1
<1> HIDE DEF t
<1>5. /\ t.output = next /\ t.unassembled = rest /\ t.end_of_stream = end
      /\ next.total_pushed = pushed /\ next.total_popped = popped + len
      /\ next.buffer = g /\ next.stream_closed = was
      /\ next.capacity = capacity /\ next.error = FALSE
    BY <1>3, <1>4
<1>6. IsReassembler(capacity, t)
    BY <1>3, <1>4, <1>5 DEF IsReassembler
<1>7. OutputOK(S, byte, capacity, limit, next)
    <2> DEFINE h == Len(held)
    <2>1. h \in Nat /\ popped + h = pushed /\ Len(g) = h - len /\ len <= h
        BY <1>2, <1>3 DEF held
    <2>2. ASSUME NEW k \in 1 .. Len(g)
          PROVE  g[k] = byte[popped + len + k - 1]
        <3> DEFINE j == len + k
        <3> HIDE DEF h
        <3>1. j \in 1 .. h /\ popped + j - 1 = popped + len + k - 1
            BY <2>1, <1>2
        <3>2. g[k] = held[j]
            BY <1>3
        <3> HIDE DEF j
        <3>3. held[j] = byte[popped + j - 1]
            BY <3>1, <1>2 DEF h
        <3> QED BY <3>1, <3>2, <3>3
    <2> HIDE DEF h
    <2>3. /\ popped + len \in Nat /\ popped + len + Len(g) = pushed
          /\ pushed <= popped + len + capacity
        BY <2>1, <1>2
    <2> QED BY <2>2, <2>3, <1>2, <1>5 DEF OutputOK
<1>8. PendingIndices(t) = PendingIndices(r)
    BY <1>5 DEF PendingIndices, rest
<1>9. PendingOK(S, byte, capacity, limit, t)
    <2>1. /\ rest \in [PendingIndices(r) -> S]
          /\ \A i \in PendingIndices(r) :
                /\ i \in 0 .. limit - 1 /\ pushed < i
                /\ i < popped + capacity /\ rest[i] = byte[i]
        BY DEF Assembling, PendingOK, rest, pushed, popped
    <2>2. \A i \in PendingIndices(r) : i < popped + len + capacity
        BY <2>1, <1>2
    <2> QED BY <2>1, <2>2, <1>5, <1>8 DEF PendingOK
<1>10. EndOK(limit, t)
    <2>1. /\ end \in {limit, UINT64_MAX}
          /\ was <=> (end = limit /\ pushed = limit)
        BY DEF Assembling, EndOK, end, was, pushed
    <2> QED BY <2>1, <1>5 DEF EndOK
<1>11. KnownIndices(t) = KnownIndices(r)
    BY <1>5, <1>8 DEF KnownIndices, pushed
<1> QED BY <1>5, <1>6, <1>7, <1>9, <1>10, <1>11 DEF Assembling
=============================================================================
