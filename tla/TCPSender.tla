----------------------------- MODULE TCPSender -----------------------------
(***************************************************************************)
(* src/tcp_sender: cuts the outbound stream into segments that fit the     *)
(* peer's window, keeps them until they are acknowledged and retransmits   *)
(* the oldest when the timer expires.  Methods that take a transmit        *)
(* function return the sender and the sequence of messages transmitted.    *)
(***************************************************************************)
EXTENDS TCPMessages, SequencesExt

\* abs_ackno_ has no initializer in the code: its first value is a parameter
NewTCPSender(capacity, isn, initial_RTO_ms, abs_ackno) ==
    [input |-> NewByteStream(capacity), isn |-> isn,
     initial_RTO_ms |-> initial_RTO_ms, outstanding |-> <<>>,
     RTO |-> initial_RTO_ms, timer_time |-> 0, timer_on |-> FALSE,
     abs_seqno |-> 0, abs_ackno |-> abs_ackno,
     consecutive_retransmissions |-> 0, window_size |-> 1, FINsent |-> FALSE]

SequenceNumbersInFlight(s) ==
    FoldLeft(LAMBDA sum, msg : sum + SequenceLength(msg), 0, s.outstanding)

\* TCPSender::make_empty_message
MakeEmptyMessage(s) ==
    SenderMessage(Wrap(s.abs_seqno, s.isn), FALSE, <<>>, FALSE,
                  HasError(s.input))

\* Mutated form of RemainingWindow: a closed window is not probed
RemainingWindowNoProbe(s) ==
    LET in_flight == SequenceNumbersInFlight(s)
    IN  IF in_flight < s.window_size THEN s.window_size - in_flight ELSE 0

\* remaining_window_size at the head of push()'s loop: a zero window counts
\* as one when nothing is in flight
RemainingWindow(s) ==
    LET in_flight == SequenceNumbersInFlight(s)
    IN  IF s.window_size = 0 /\ in_flight = 0 THEN 1
        ELSE IF in_flight < s.window_size THEN s.window_size - in_flight
        ELSE 0

\* Number of payload bytes that the stream and the window allow
BytesToRead(s) ==
    Lesser(BytesBuffered(s.input), RemainingWindow(s) - Bit(s.abs_seqno = 0))

\* Mutated form of NextMessage: FIN is added when the window has no room left
NextMessageFINOverWindow(s) ==
    LET payload == ReadOut(s.input, Lesser(BytesToRead(s), MAX_PAYLOAD_SIZE))
        rest    == Pop(s.input, Len(payload))
    IN  SenderMessage(Wrap(s.abs_seqno, s.isn), s.abs_seqno = 0, payload,
                      IsFinished(rest), HasError(s.input))

\* Mutated form of NextMessage: the payload is not split
NextMessageUnsplit(s) ==
    LET syn     == s.abs_seqno = 0
        payload == ReadOut(s.input, BytesToRead(s))
        rest    == Pop(s.input, Len(payload))
        room    == RemainingWindow(s) - Bit(syn) - Len(payload)
    IN  SenderMessage(Wrap(s.abs_seqno, s.isn), syn, payload,
                      IsFinished(rest) /\ room > 0, HasError(s.input))

\* The message one round of push()'s loop builds
NextMessage(s) ==
    LET syn     == s.abs_seqno = 0
        payload == ReadOut(s.input, Lesser(BytesToRead(s), MAX_PAYLOAD_SIZE))
        rest    == Pop(s.input, Len(payload))
        room    == RemainingWindow(s) - Bit(syn) - Len(payload)
    IN  SenderMessage(Wrap(s.abs_seqno, s.isn), syn, payload,
                      IsFinished(rest) /\ room > 0, HasError(s.input))

\* Mutated form of AfterSending: that the FIN was sent is not remembered
AfterSendingForgetsFIN(s, msg) ==
    [s EXCEPT
       !.input = Pop(@, Len(msg.payload)),
       !.outstanding = Append(@, msg), !.abs_seqno = @ + SequenceLength(msg),
       !.timer_on = TRUE, !.timer_time = IF s.timer_on THEN @ ELSE 0]

\* The sender after it transmitted a new message
AfterSending(s, msg) ==
    [s EXCEPT
       !.input = Pop(@, Len(msg.payload)), !.FINsent = @ \/ msg.FIN,
       !.outstanding = Append(@, msg), !.abs_seqno = @ + SequenceLength(msg),
       !.timer_on = TRUE, !.timer_time = IF s.timer_on THEN @ ELSE 0]

\* Mutated form of PushRound: a message that has only the FIN is not sent
PushRoundNoLoneFIN(acc, round) ==
    LET s   == acc.sender
        msg == NextMessage(s)
    IN  IF acc.ended \/ RemainingWindow(s) = 0 \/ s.FINsent
              \/ (~msg.SYN /\ msg.payload = <<>>)
        THEN [acc EXCEPT !.ended = TRUE]
        ELSE [sender |-> AfterSending(s, msg),
              sent   |-> Append(acc.sent, msg),
              ended  |-> BytesToRead(s) < MAX_PAYLOAD_SIZE]

\* One round of push()'s loop; nothing changes once the loop has ended
PushRound(acc, round) ==
    LET s   == acc.sender
        msg == NextMessage(s)
    IN  IF acc.ended \/ RemainingWindow(s) = 0 \/ s.FINsent
              \/ SequenceLength(msg) = 0
        THEN [acc EXCEPT !.ended = TRUE]
        ELSE [sender |-> AfterSending(s, msg),
              sent   |-> Append(acc.sent, msg),
              ended  |-> BytesToRead(s) < MAX_PAYLOAD_SIZE]

\* TCPSender::push: every round but the last reads MAX_PAYLOAD_SIZE bytes, so
\* the loop ends within one round per buffered byte and two more
TCPSenderPush(s) ==
    FoldLeft(PushRound, [sender |-> s, sent |-> <<>>, ended |-> FALSE],
             [round \in 1 .. BytesBuffered(s.input) + 2 |-> round])

\* The absolute sequence number after the last of an outstanding message
OutstandingEnd(s, msg) ==
    Unwrap(msg.seqno, s.isn, BytesPopped(s.input)) + SequenceLength(msg)

\* Mutated form of Unacknowledged: a segment goes with its first byte's ack
UnacknowledgedPartial(s, abs_ackno) ==
    SelectSeq(s.outstanding,
        LAMBDA msg : abs_ackno <=
            Unwrap(msg.seqno, s.isn, BytesPopped(s.input)))

\* The queue after the fully acknowledged messages at its front were popped
Unacknowledged(s, abs_ackno) ==
    LET Acked(i) == OutstandingEnd(s, s.outstanding[i]) <= abs_ackno
        n == CHOOSE n \in 0 .. Len(s.outstanding) :
                /\ \A i \in 1 .. n : Acked(i)
                /\ n < Len(s.outstanding) => ~Acked(n + 1)
    IN  SubSeq(s.outstanding, n + 1, Len(s.outstanding))

\* Mutated form of NewAck: the retransmission timeout is not reset
NewAckKeepsRTO(s, abs_ackno) ==
    [s EXCEPT !.timer_time = 0, !.abs_ackno = abs_ackno,
              !.consecutive_retransmissions = 0,
              !.outstanding = Unacknowledged(s, abs_ackno)]

\* The sender after an ackno that acknowledges something new
NewAck(s, abs_ackno) ==
    [s EXCEPT !.RTO = s.initial_RTO_ms, !.timer_time = 0,
              !.abs_ackno = abs_ackno, !.consecutive_retransmissions = 0,
              !.outstanding = Unacknowledged(s, abs_ackno)]

StopTimer(s) ==
    IF SequenceNumbersInFlight(s) = 0 THEN [s EXCEPT !.timer_on = FALSE] ELSE s

(***************************************************************************)
(* TCPSender::receive.  The code unwraps *msg.ackno without asking whether *)
(* there is one: nullopt_read is the value an empty optional yields.  The  *)
(* window is taken from every message, also from one whose ackno is        *)
(* ignored.                                                                *)
(***************************************************************************)
TCPSenderReceive(s, msg, nullopt_read) ==
    LET raw == IF msg.ackno = NULLOPT THEN nullopt_read ELSE msg.ackno
        abs == Unwrap(raw, s.isn, BytesPopped(s.input))
        new == [s EXCEPT !.input = IF msg.RST THEN SetError(@) ELSE @,
                         !.window_size = msg.window_size]
    IN  IF abs > s.abs_ackno + SequenceNumbersInFlight(s) THEN new
        ELSE StopTimer(IF abs > s.abs_ackno THEN NewAck(new, abs) ELSE new)

\* Does this tick reach the retransmission timeout?
TimeoutExpires(s, ms) == s.timer_on /\ s.timer_time + ms >= s.RTO

\* Exponential backoff, but not while the peer's window is closed
BackedOff(s) ==
    IF s.window_size > 0
    THEN [s EXCEPT !.consecutive_retransmissions = @ + 1, !.RTO = @ * 2]
    ELSE s

\* TCPSender::tick
TCPSenderTick(s, ms) ==
    IF TimeoutExpires(s, ms)
    THEN [sender |-> [BackedOff(s) EXCEPT !.timer_time = 0],
          sent   |-> <<Head(s.outstanding)>>]
    ELSE [sender |-> IF s.timer_on THEN [s EXCEPT !.timer_time = @ + ms]
                                   ELSE s,
          sent   |-> <<>>]
=============================================================================
