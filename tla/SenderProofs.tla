---------------------------- MODULE SenderProofs ----------------------------
(***************************************************************************)
(* The safety of SenderAlone for any stream, buffer, window, payload size, *)
(* integer width and first sequence number.                                *)
(***************************************************************************)
EXTENDS SenderAlone, TCPLemmas

\* The parameters of this sender; byte i of its stream is the number i.
Alone ==
    [isn |-> ISN, rto |-> InitialRTO, capacity |-> Capacity,
     length |-> StreamLength, reach |-> StreamLength + 2 + Beyond,
     byte |-> [i \in Nat |-> i], alphabet |-> Nat, errors |-> BOOLEAN]

IInv == Good(Alone, sender)

LEMMA AloneIs ==
    /\ IsConfig(Alone) /\ Alone.isn = ISN /\ Alone.rto = InitialRTO
    /\ Alone.capacity = Capacity /\ Alone.length = StreamLength
    /\ Alone.reach = StreamLength + 2 + Beyond
    /\ Alone.alphabet = Nat /\ Alone.errors = BOOLEAN
    /\ \A i \in Nat : Alone.byte[i] = i
<1>1. /\ Alone.isn = ISN /\ Alone.rto = InitialRTO
      /\ Alone.capacity = Capacity /\ Alone.length = StreamLength
      /\ Alone.reach = StreamLength + 2 + Beyond
      /\ Alone.alphabet = Nat /\ Alone.errors = BOOLEAN
      /\ \A i \in Nat : Alone.byte[i] = i
    BY DEF Alone
<1>2. /\ ISN \in UInt32 /\ InitialRTO \in Nat \ {0} /\ Capacity \in Nat
      /\ StreamLength \in Nat /\ Beyond \in Nat /\ Mod32 \in Nat
      /\ 2 * (StreamLength + Beyond + 2) < Mod32
    BY SenderAssumption, Widths
<1>3. /\ Alone.isn \in UInt32 /\ Alone.rto \in Nat \ {0}
      /\ Alone.capacity \in Nat /\ Alone.length \in Nat
      /\ Alone.reach \in Nat /\ Alone.length + 2 <= Alone.reach
      /\ 2 * Alone.reach < Mod32
    BY <1>1, <1>2
<1>4. /\ \A i \in Nat : Alone.byte[i] \in Alone.alphabet
      /\ Alone.errors \subseteq BOOLEAN /\ FALSE \in Alone.errors
    BY <1>1
<1>5. IsConfig(Alone)
    BY <1>3, <1>4 DEF IsConfig
<1> QED BY <1>1, <1>5

\* The constants, as numbers
LEMMA Constants ==
    /\ StreamLength \in Nat /\ Beyond \in Nat /\ Capacity \in Nat
    /\ InitialRTO \in Nat /\ InitialRTO > 0 /\ ISN \in UInt32
    /\ Mod32 \in Nat /\ Mod64 \in Nat /\ Mod16 \in Nat /\ Mod16 > 0
    /\ 2 * (StreamLength + Beyond + 2) < Mod32
BY SenderAssumption, Widths, WidthAssumption
-----------------------------------------------------------------------------
\* The acknowledgement numbers a message may bring
Acknos(s) == {ackno \in 1 .. StreamLength + 2 + Beyond :
                 ackno <= s.abs_seqno + Beyond}
             \cup {Unwrap(0, ISN, s.input.total_popped)}

Received(s, t) ==
    /\ t.abs_seqno = s.abs_seqno
    /\ \E abs \in Acknos(s) : abs \in Nat /\ QueueAfter(Alone, s, t, abs)

\* What a step does: only push() gives out numbers, only a message that
\* arrives takes from the queue.
LEMMA StepKeeps ==
    ASSUME IInv, [Next]_vars
    PROVE  /\ IInv' /\ TimeoutStep(Alone, sender, sender')
           /\ \/ PushStream
              \/ SameQueue(sender, sender')
              \/ Received(sender, sender')
<1> DEFINE s == sender
           t == sender'
<1> SUFFICES /\ Good(Alone, t) /\ TimeoutStep(Alone, s, t)
             /\ PushStream \/ SameQueue(s, t) \/ Received(s, t)
    BY DEF IInv
<1>1. Good(Alone, s)
    BY DEF IInv
<1>2. ASSUME NEW len \in 1 .. Capacity, Write(len)
      PROVE  Good(Alone, t) /\ TimeoutStep(Alone, s, t) /\ SameQueue(s, t)
    <2> DEFINE b == s.input
               input == Push(b, [k \in 1 .. len |-> b.total_pushed + k - 1])
    <2>1. /\ ~ b.stream_closed /\ b.total_pushed + len <= StreamLength
          /\ t = [s EXCEPT !.input = input] /\ len \in Nat
        BY <1>2, Constants DEF Write, IsClosed, BytesPushed
    <2>2. InputOK(Alone, b)
        BY <1>1 DEF Good
    <2>5. input = Push(b, [k \in 1 .. len |-> Alone.byte[b.total_pushed + k - 1]])
        <3>1. b.total_pushed \in Nat
            BY <2>2 DEF InputOK
        <3>2. \A k \in 1 .. len : b.total_pushed + k - 1 \in Nat
            BY <2>1, <3>1
        <3>3. \A k \in 1 .. len :
                  Alone.byte[b.total_pushed + k - 1] = b.total_pushed + k - 1
            BY <3>2, AloneIs
        <3> QED BY <3>3
    <2>6. b.total_pushed + len <= Alone.length
        BY <2>1, AloneIs
    <2> HIDE DEF input
    <2>3. InputOK(Alone, input) /\ input.total_popped = b.total_popped
        BY AloneIs, <2>1, <2>2, <2>5, <2>6, WriteKeeps
    <2>4. ~ s.FINsent
        BY <1>1, <2>1 DEF Good, Accounted, IsFinished
    <2> HIDE DEF input, t, s
    <2> QED BY AloneIs, <1>1, <2>1, <2>3, <2>4, NewInputKeeps DEF TimeoutStep
<1>3. ASSUME CloseStream
      PROVE  Good(Alone, t) /\ TimeoutStep(Alone, s, t) /\ SameQueue(s, t)
    <2> DEFINE input == Close(s.input)
    <2>1. t = [s EXCEPT !.input = input]
        BY <1>3 DEF CloseStream
    <2>2. /\ InputOK(Alone, input) /\ input.total_popped = s.input.total_popped
          /\ s.FINsent => IsFinished(input)
        BY AloneIs, <1>1, CloseKeeps DEF Good, Accounted
    <2> HIDE DEF input, t, s
    <2> QED BY AloneIs, <1>1, <2>1, <2>2, NewInputKeeps DEF TimeoutStep
<1>4. ASSUME PushStream
      PROVE  Good(Alone, t) /\ TimeoutStep(Alone, s, t)
    BY AloneIs, <1>1, <1>4, PushKeeps DEF PushStream, PushedOn, TimeoutStep
<1>5. ASSUME NEW ackno \in 1 .. StreamLength + 2 + Beyond, NEW w \in Windows,
             NEW rst \in BOOLEAN, ReceiveAck(ackno, w, rst),
             ackno <= s.abs_seqno + Beyond
      PROVE  Good(Alone, t) /\ TimeoutStep(Alone, s, t) /\ Received(s, t)
    <2> DEFINE msg == ReceiverMessage(Wrap(ackno, ISN), w, rst)
    <2>1. AcknoOf(s, msg, 0) = ackno /\ ackno \in Nat /\ ackno \in Acknos(s)
        <3>1. ackno \in Nat
            BY Constants
        <3> QED BY AloneIs, <1>1, <1>5, <3>1, PeersAckno DEF Acknos
    <2>2. msg.window_size \in Nat
        <3>1. w \in Nat
            BY SenderAssumption, Constants DEF UINT16_MAX
        <3> QED BY <3>1 DEF ReceiverMessage
    <2>3. t = TCPSenderReceive(s, msg, 0)
        BY <1>5 DEF ReceiveAck
    <2> HIDE DEF msg, t, s
    <2>4. Good(Alone, t) /\ SameStream(s, t) /\ TimeoutStep(Alone, s, t)
          /\ QueueAfter(Alone, s, t, AcknoOf(s, msg, 0))
        <3>1. msg.RST => TRUE \in Alone.errors
            BY AloneIs
        <3>2. IsConfig(Alone) /\ AcknoOf(s, msg, 0) \in Nat
            BY AloneIs, <2>1
        <3> QED BY <1>1, <2>2, <2>3, <3>1, <3>2, ReceiveKeeps
    <2> QED BY <2>1, <2>4 DEF Received, SameStream
<1>6. ASSUME NEW w \in Windows, ReceiveWithoutAckno(w)
      PROVE  Good(Alone, t) /\ TimeoutStep(Alone, s, t) /\ Received(s, t)
    <2> DEFINE msg == ReceiverMessage(NULLOPT, w, FALSE)
    <2>1. AcknoOf(s, msg, 0) \in Nat /\ AcknoOf(s, msg, 0) \in Acknos(s)
        BY AloneIs, <1>1, NoAckno DEF Acknos
    <2>2. msg.window_size \in Nat
        <3>1. w \in Nat
            BY SenderAssumption, Constants DEF UINT16_MAX
        <3> QED BY <3>1 DEF ReceiverMessage
    <2>3. t = TCPSenderReceive(s, msg, 0)
        BY <1>6 DEF ReceiveWithoutAckno
    <2> HIDE DEF msg, t, s
    <2>4. Good(Alone, t) /\ SameStream(s, t) /\ TimeoutStep(Alone, s, t)
          /\ QueueAfter(Alone, s, t, AcknoOf(s, msg, 0))
        <3>1. msg.RST => TRUE \in Alone.errors
            BY AloneIs
        <3>2. IsConfig(Alone) /\ AcknoOf(s, msg, 0) \in Nat
            BY AloneIs, <2>1
        <3> QED BY <1>1, <2>2, <2>3, <3>1, <3>2, ReceiveKeeps
    <2> QED BY <2>1, <2>4 DEF Received, SameStream
<1>7. ASSUME NEW ms \in Ticks, Tick(ms)
      PROVE  Good(Alone, t) /\ TimeoutStep(Alone, s, t) /\ SameQueue(s, t)
    <2>1. t = TCPSenderTick(s, ms).sender /\ ms \in Nat
        BY <1>7, SenderAssumption DEF Tick
    <2> HIDE DEF t, s
    <2> QED BY AloneIs, <1>1, <2>1, TickKeeps
<1>8. ASSUME UNCHANGED vars
      PROVE  Good(Alone, t) /\ TimeoutStep(Alone, s, t) /\ SameQueue(s, t)
    BY <1>1, <1>8 DEF vars, SameQueue, TimeoutStep, SameTimeout
<1> QED BY <1>2, <1>3, <1>4, <1>5, <1>6, <1>7, <1>8 DEF Next

(***************************************************************************)
(* The sender is sound in every reachable state, whatever its              *)
(* uninitialized member holds and whatever the peer acknowledges.          *)
(***************************************************************************)
THEOREM Invariance == Spec => []IInv
<1>1. Init => IInv
    <2> SUFFICES ASSUME NEW abs_ackno \in FirstAcknos,
                        sender = NewTCPSender(Capacity, ISN, InitialRTO, abs_ackno)
                 PROVE  IInv
        BY DEF Init
    <2>1. abs_ackno \in Nat
        BY SenderAssumption, Constants DEF UInt64
    <2> QED BY AloneIs, <2>1, InitGood DEF IInv
<1>2. IInv /\ [Next]_vars => IInv'
    BY StepKeeps
<1> QED BY <1>1, <1>2, PTL DEF Spec

(***************************************************************************)
(* Each number given out is that of the SYN, of one byte of the stream or  *)
(* of the FIN (tcp_sender.cc:30-88).                                       *)
(***************************************************************************)
THEOREM EveryNumberIsOfAByte == Spec => []SeqnosAccounted
<1>1. IInv => SeqnosAccounted
    <2> SUFFICES ASSUME Good(Alone, sender) PROVE SeqnosAccounted
        BY DEF IInv
    <2>1. Accounted(sender) /\ BytesPopped(sender.input) = sender.input.total_popped
        BY AloneIs, GoodFacts DEF Good
    <2> QED BY <2>1 DEF Accounted, SeqnosAccounted
<1> QED BY <1>1, Invariance, PTL

(***************************************************************************)
(* The queue of what may be retransmitted is contiguous, ends at the next  *)
(* number to be sent, and holds what was sent (tcp_sender.cc:69-81 and     *)
(* :118-129), whatever acknowledgements came in between.                   *)
(***************************************************************************)
THEOREM RetransmitsWhatWasSent == Spec => []OutstandingContiguous
<1>1. IInv => OutstandingContiguous
    <2> SUFFICES ASSUME Good(Alone, sender) PROVE OutstandingContiguous
        BY DEF IInv
    <2> DEFINE queue == sender.outstanding
               next  == sender.abs_seqno
               max   == Len(queue)
    <2>1. /\ queue \in Seq(Msgs(Alone)) /\ max \in Nat
          /\ next \in Nat /\ InOrder(Alone, queue, next, sender.FINsent)
        BY AloneIs, GoodFacts DEF Good, FieldsOK
    <2>2. ASSUME NEW i \in 1 .. max
          PROVE  /\ End(i) = After(Alone, queue[i]) /\ Start(i) = First(Alone, queue[i])
                 /\ First(Alone, queue[i]) \in Nat
                 /\ After(Alone, queue[i]) =
                       IF i = max THEN next ELSE First(Alone, queue[i + 1])
        <3>1. End(i) = After(Alone, queue[i])
            BY AloneIs, EndIs DEF End, Queue, After
        <3>2. /\ First(Alone, queue[i]) \in Nat /\ SequenceLength(queue[i]) \in Nat
              /\ After(Alone, queue[i]) =
                    IF i = max THEN next ELSE First(Alone, queue[i + 1])
            BY AloneIs, <2>1, PlacedFacts DEF After
        <3>3. Start(i) = End(i) - SequenceLength(queue[i])
            BY DEF Start, End, Queue
        <3> HIDE DEF queue
        <3>4. Start(i) = First(Alone, queue[i])
            BY <3>1, <3>2, <3>3 DEF After
        <3> QED BY <3>1, <3>2, <3>4
    <2> HIDE DEF queue, next, max
    <2>3. queue # <<>> => End(max) = next
        <3>1. queue # <<>> => max \in 1 .. max
            BY <2>1, EmptySeq DEF max
        <3> QED BY <2>2, <3>1
    <2>4. ASSUME NEW i \in 1 .. max
          PROVE  /\ i > 1 => End(i - 1) = Start(i)
                 /\ queue[i].SYN <=> Start(i) = 0
                 /\ queue[i].FIN <=> (sender.FINsent /\ i = max)
                 /\ Len(queue[i].payload) <= MAX_PAYLOAD_SIZE
                 /\ \A k \in 1 .. Len(queue[i].payload) :
                       queue[i].payload[k] = Start(i) - 1 + Bit(queue[i].SYN) + k - 1
        <3>1. i > 1 => End(i - 1) = Start(i)
            <4> SUFFICES ASSUME i > 1 PROVE End(i - 1) = Start(i)
                OBVIOUS
            <4> DEFINE j == i - 1
            <4>1. j \in 1 .. max /\ j # max /\ j + 1 = i
                BY <2>1
            <4> HIDE DEF j
            <4>2. End(j) = Start(i)
                BY <2>2, <4>1
            <4> QED BY <4>2 DEF j
        <3>2. Placed(Alone, queue, i, next, sender.FINsent)
            BY <2>1 DEF InOrder, max
        <3>3. Start(i) = First(Alone, queue[i])
            BY <2>2
        <3>4. /\ queue[i].SYN <=> First(Alone, queue[i]) = 0
              /\ queue[i].FIN <=> (sender.FINsent /\ i = max)
              /\ Len(queue[i].payload) <= MAX_PAYLOAD_SIZE
              /\ \A k \in 1 .. Len(queue[i].payload) :
                    queue[i].payload[k]
                        = First(Alone, queue[i]) - 1 + Bit(queue[i].SYN) + k - 1
            <4>1. /\ queue[i].SYN <=> First(Alone, queue[i]) = 0
                  /\ queue[i].FIN <=> (sender.FINsent /\ i = max)
                  /\ Len(queue[i].payload) <= MAX_PAYLOAD_SIZE
                  /\ \A k \in 1 .. Len(queue[i].payload) :
                        queue[i].payload[k] =
                            Alone.byte[First(Alone, queue[i]) - 1
                                          + Bit(queue[i].SYN) + k - 1]
                BY <3>2 DEF Placed, max
            <4> DEFINE first == First(Alone, queue[i])
                       syn == Bit(queue[i].SYN)
            <4>2. first \in Nat /\ syn \in Nat /\ (first = 0 => syn = 1)
                BY <2>2, <4>1 DEF Bit
            <4> HIDE DEF first, syn
            <4>3. \A k \in 1 .. Len(queue[i].payload) : first - 1 + syn + k - 1 \in Nat
                BY <4>2
            <4>4. \A k \in 1 .. Len(queue[i].payload) :
                      Alone.byte[first - 1 + syn + k - 1] = first - 1 + syn + k - 1
                BY <4>3, AloneIs
            <4> QED BY <4>1, <4>4 DEF first, syn
        <3> QED BY <3>1, <3>3, <3>4
    <2>5. Queue = queue /\ Len(Queue) = max
        BY DEF Queue, queue, max
    <2> QED BY <2>3, <2>4, <2>5 DEF OutstandingContiguous, next
<1> QED BY <1>1, Invariance, PTL

Doubled == sender.RTO = InitialRTO * 2 ^ sender.consecutive_retransmissions

\* What the proof needs of powers, of which the provers know nothing
Powers ==
    /\ 2 ^ 0 = 1
    /\ \A n \in Nat : 2 ^ n \in Nat /\ 2 ^ (n + 1) = 2 ^ n * 2

(***************************************************************************)
(* The timer runs exactly while something is outstanding and has not       *)
(* expired: tick never reads the front of an empty queue                   *)
(* (tcp_sender.cc:140-150).  It counts to the initial timeout, doubled     *)
(* with each consecutive retransmission.  Powers is a fact of arithmetic.  *)
(***************************************************************************)
THEOREM TimerFollows ==
    ASSUME Powers
    PROVE  Spec => []TimerFollowsQueue
<1>1. Init => Doubled
    <2> SUFFICES ASSUME NEW abs_ackno,
                        sender = NewTCPSender(Capacity, ISN, InitialRTO, abs_ackno)
                 PROVE  Doubled
        BY DEF Init
    <2> DEFINE power == 2 ^ 0
    <2>1. sender.RTO = InitialRTO /\ sender.consecutive_retransmissions = 0
        BY DEF NewTCPSender
    <2>2. power = 1
        BY DEF Powers
    <2>3. InitialRTO * power = InitialRTO
        BY <2>2, Constants
    <2> QED BY <2>1, <2>3 DEF Doubled
<1>2. IInv /\ Doubled /\ [Next]_vars => Doubled'
    <2> SUFFICES ASSUME IInv, Doubled, [Next]_vars
                 PROVE  Doubled'
        OBVIOUS
    <2> DEFINE n == sender.consecutive_retransmissions
    <2>1. n \in Nat
        BY DEF IInv, Good, FieldsOK
    <2>2. TimeoutStep(Alone, sender, sender')
        BY StepKeeps
    <2>3. CASE SameTimeout(sender, sender')
        BY <2>3 DEF SameTimeout, Doubled
    <2>4. CASE /\ sender'.RTO = sender.RTO * 2
               /\ sender'.consecutive_retransmissions = n + 1
        <3> DEFINE power == 2 ^ n
                   more  == 2 ^ (n + 1)
        <3>1. power \in Nat /\ more = power * 2
            BY <2>1 DEF Powers
        <3>2. sender.RTO = InitialRTO * power
            BY DEF Doubled
        <3> HIDE DEF power
        <3>3. sender.RTO * 2 = InitialRTO * more
            BY <3>1, <3>2, Constants
        <3> QED BY <2>4, <3>3 DEF Doubled
    <2>5. CASE sender'.RTO = Alone.rto /\ sender'.consecutive_retransmissions = 0
        <3> DEFINE power == 2 ^ 0
        <3>1. power = 1
            BY DEF Powers
        <3>2. InitialRTO * power = InitialRTO
            BY <3>1, Constants
        <3> QED BY <2>5, <3>2, AloneIs DEF Doubled
    <2> QED BY <2>2, <2>3, <2>4, <2>5 DEF TimeoutStep
<1>3. IInv /\ Doubled => TimerFollowsQueue
    BY DEF IInv, Good, Timed, TimerFollowsQueue, Queue, Doubled
<1>4. Spec => []Doubled
    BY <1>1, <1>2, Invariance, PTL DEF Spec
<1> QED BY <1>3, <1>4, Invariance, PTL

(***************************************************************************)
(* Nothing new is sent outside the window (tcp_sender.cc:37-47).           *)
(***************************************************************************)
THEOREM StaysInWindow == Spec => WindowRespected
<1> DEFINE A == sender'.abs_seqno > sender.abs_seqno
                   => InFlight' <= Greater(sender'.window_size, 1)
<1>1. IInv /\ [Next]_vars => A
    <2> SUFFICES ASSUME IInv, [Next]_vars PROVE A
        OBVIOUS
    <2>1. CASE PushStream
        <3>1. LET t == TCPSenderPush(sender).sender
              IN  t.abs_seqno > sender.abs_seqno =>
                     SequenceNumbersInFlight(t) <= Greater(t.window_size, 1)
            BY AloneIs, PushKeeps DEF IInv, PushedOn
        <3> QED BY <2>1, <3>1 DEF PushStream, InFlight
    <2>2. CASE ~ PushStream
        <3>1. sender'.abs_seqno = sender.abs_seqno
            BY <2>2, StepKeeps DEF SameQueue, Received
        <3>2. sender.abs_seqno \in Nat
            BY AloneIs, GoodFacts DEF IInv
        <3> QED BY <3>1, <3>2
    <2> QED BY <2>1, <2>2
<1>2. Spec => [][A]_vars
    BY <1>1, Invariance, PTL DEF Spec
<1> QED BY <1>2 DEF WindowRespected

(***************************************************************************)
(* push() leaves nothing behind that the window has room for, wherever its *)
(* loop ends: in the first round too, after which nothing has changed      *)
(* (tcp_sender.cc:44-49, 64-88).                                           *)
(***************************************************************************)
THEOREM PushIsComplete == Spec => []PushSendsAll
<1>1. IInv => PushSendsAll
    <2> SUFFICES ASSUME Good(Alone, sender) PROVE PushSendsAll
        BY DEF IInv
    <2> DEFINE t == TCPSenderPush(sender).sender
    <2>1. Stuck(t)
        BY AloneIs, PushKeeps
    <2> HIDE DEF t
    <2>2. NothingSendable(t)
        BY <2>1 DEF Stuck, NothingSendable
    <2> QED BY <2>2 DEF t, PushSendsAll
<1> QED BY <1>1, Invariance, PTL
-----------------------------------------------------------------------------
(* Acknowledgements *)

(***************************************************************************)
(* Acknowledgements are what the peer has received, abs_ackno_ starts at   *)
(* zero, and the zero that a missing ackno yields acknowledges nothing by  *)
(* accident: no point of the stream is so close to where 32-bit numbers    *)
(* wrap.  Without any of the three the property fails.                     *)
(***************************************************************************)
TrueAcknos ==
    /\ FirstAcknos = {0} /\ Beyond = 0
    /\ \A p \in 0 .. StreamLength :
          Unwrap(0, ISN, p) \notin 1 .. 2 * (StreamLength + 2)

LEMMA AckStaysPlaced ==
    ASSUME TrueAcknos
    PROVE  Spec => []AckPlaced(Alone, sender)
<1>1. Init => AckPlaced(Alone, sender)
    <2> SUFFICES ASSUME sender = NewTCPSender(Capacity, ISN, InitialRTO, 0)
                 PROVE  AckPlaced(Alone, sender)
        BY DEF Init, TrueAcknos
    <2> DEFINE s == sender
    <2>1. s.abs_ackno = 0 /\ s.abs_seqno = 0 /\ s.outstanding = <<>>
        BY DEF NewTCPSender
    <2> QED BY <2>1 DEF AckPlaced
<1>2. IInv /\ AckPlaced(Alone, sender) /\ [Next]_vars => AckPlaced(Alone, sender')
    <2> SUFFICES ASSUME IInv, AckPlaced(Alone, sender), [Next]_vars
                 PROVE  AckPlaced(Alone, sender')
        OBVIOUS
    <2>1. Good(Alone, sender)
        BY DEF IInv
    <2>2. CASE PushStream
        BY AloneIs, <2>1, <2>2, PushKeeps DEF PushStream, PushedOn
    <2>3. CASE SameQueue(sender, sender')
        BY <2>3 DEF SameQueue, AckPlaced
    <2>4. CASE Received(sender, sender')
        <3>1. PICK abs \in Acknos(sender) :
                 abs \in Nat /\ QueueAfter(Alone, sender, sender', abs)
            BY <2>4 DEF Received
        <3>2. /\ sender.abs_seqno \in 0 .. StreamLength + 2
              /\ sender.input.total_popped \in 0 .. StreamLength
              /\ SequenceNumbersInFlight(sender) <= sender.abs_seqno
              /\ SequenceNumbersInFlight(sender) \in Nat
              /\ sender.abs_ackno <= sender.abs_seqno /\ sender.abs_ackno \in Nat
            BY AloneIs, <2>1, GoodFacts, InFlightIs DEF Good, FieldsOK, AckPlaced
        <3>3. \/ abs <= sender.abs_seqno
              \/ abs > 2 * (StreamLength + 2)
            <4>1. CASE abs <= sender.abs_seqno + Beyond
                BY <3>2, <4>1, Constants DEF TrueAcknos
            <4>2. CASE abs = Unwrap(0, ISN, sender.input.total_popped)
                <5>1. abs \notin 1 .. 2 * (StreamLength + 2)
                    BY <3>2, <4>2 DEF TrueAcknos
                <5> QED BY <3>1, <3>2, <5>1, Constants
            <4> QED BY <4>1, <4>2 DEF Acknos
        <3>4. \/ abs <= sender.abs_seqno
              \/ abs > sender.abs_ackno + SequenceNumbersInFlight(sender)
            BY <3>1, <3>2, <3>3, Constants
        <3>5. sender'.abs_seqno = sender.abs_seqno
            BY <2>4 DEF Received
        <3> QED BY AloneIs, <2>1, <3>1, <3>4, <3>5, ReceivedIsPlaced
    <2> QED BY <2>2, <2>3, <2>4, StepKeeps
<1>3. AckPlaced(Alone, sender)' <=> AckPlaced(Alone, sender')
    BY DEF AckPlaced, After, First
<1> QED BY <1>1, <1>2, <1>3, Invariance, PTL DEF Spec

(***************************************************************************)
(* What is not acknowledged is outstanding, and what is acknowledged in    *)
(* full is not (tcp_sender.cc:108-135), if the acknowledgements are true.  *)
(***************************************************************************)
THEOREM NothingUnackedIsLost ==
    ASSUME TrueAcknos
    PROVE  Spec => []UnackedIsOutstanding
<1>1. IInv /\ AckPlaced(Alone, sender) => UnackedIsOutstanding
    <2> SUFFICES ASSUME Good(Alone, sender), AckPlaced(Alone, sender)
                 PROVE  UnackedIsOutstanding
        BY DEF IInv
    <2> DEFINE queue == sender.outstanding
    <2>1. CASE queue = <<>>
        BY <2>1 DEF AckPlaced, UnackedIsOutstanding, Queue
    <2>2. CASE queue # <<>>
        <3>1. 1 \in 1 .. Len(queue)
            <4>1. queue \in Seq(Msgs(Alone))
                BY AloneIs, GoodFacts
            <4> HIDE DEF queue
            <4> QED BY <2>2, <4>1, EmptySeq
        <3>2. InOrder(Alone, queue, sender.abs_seqno, sender.FINsent)
              /\ sender.abs_seqno \in Nat
            BY DEF Good, FieldsOK
        <3>3. First(Alone, queue[1]) \in Nat /\ SequenceLength(queue[1]) \in Nat
            BY AloneIs, <3>1, <3>2, PlacedFacts
        <3>4. End(1) = After(Alone, queue[1])
            BY AloneIs, <3>1, EndIs DEF End, Queue, After
        <3>5. Start(1) = End(1) - SequenceLength(queue[1])
            BY DEF Start, End, Queue
        <3>6. First(Alone, queue[1]) <= sender.abs_ackno
              /\ sender.abs_ackno < After(Alone, queue[1])
            BY <2>2 DEF AckPlaced
        <3> HIDE DEF queue
        <3>7. Start(1) = First(Alone, queue[1])
            BY <3>3, <3>4, <3>5 DEF After
        <3> QED BY <2>2, <3>4, <3>6, <3>7 DEF UnackedIsOutstanding, Queue, queue
    <2> QED BY <2>1, <2>2
<1> QED BY <1>1, AckStaysPlaced, Invariance, PTL
=============================================================================
