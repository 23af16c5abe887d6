---------------------------- MODULE SenderAlone ----------------------------
(***************************************************************************)
(* A TCPSender between the program that uses it (writes bytes, closes the  *)
(* stream, calls push and tick when it likes) and a peer whose receiver    *)
(* messages arrive in any order: any acknowledgement number up to what was *)
(* sent, any window, repeated and out of date.  The bytes of the stream    *)
(* are their indices, so one that is moved is told apart.                  *)
(***************************************************************************)
EXTENDS TCPSender

CONSTANTS
    Capacity,      \* of the outbound ByteStream
    ISN, InitialRTO,
    StreamLength,  \* bound: bytes the program writes
    Windows,       \* window sizes the peer advertises
    Ticks,         \* milliseconds between two calls of tick
    MaxRetx,       \* bound: consecutive retransmissions
    Beyond,        \* how far an ackno may lie beyond what was sent
    FirstAcknos    \* what abs_ackno_, which has no initializer, may hold

ASSUME SenderAssumption ==
    /\ Capacity \in Nat /\ InitialRTO \in Nat \ {0} /\ StreamLength \in Nat
    /\ ISN \in UInt32 /\ Windows \subseteq 0 .. UINT16_MAX
    /\ FirstAcknos \subseteq UInt64
    /\ Ticks \subseteq Nat /\ MaxRetx \in Nat /\ Beyond \in Nat
    /\ 2 * (StreamLength + Beyond + 2) < Mod32

VARIABLE sender

vars == sender

Init == \E abs_ackno \in FirstAcknos :
            sender = NewTCPSender(Capacity, ISN, InitialRTO, abs_ackno)

Write(len) ==
    LET pushed == BytesPushed(sender.input)
    IN  /\ ~IsClosed(sender.input) /\ pushed + len <= StreamLength
        /\ sender' = [sender EXCEPT !.input =
                         Push(@, [k \in 1 .. len |-> pushed + k - 1])]

CloseStream ==
    /\ ~IsClosed(sender.input)
    /\ sender' = [sender EXCEPT !.input = Close(@)]

PushStream == sender' = TCPSenderPush(sender).sender

\* A receiver message arrives; one from a peer without our SYN has no ackno.
\* The value an empty optional yields is 0, as TCPSegment::parse leaves it.
ReceiveAck(abs_ackno, window_size, rst) ==
    sender' = TCPSenderReceive(sender,
                  ReceiverMessage(Wrap(abs_ackno, ISN), window_size, rst), 0)

ReceiveWithoutAckno(window_size) ==
    sender' = TCPSenderReceive(sender,
                  ReceiverMessage(NULLOPT, window_size, FALSE), 0)

Tick(ms) ==
    /\ sender.consecutive_retransmissions < MaxRetx
    /\ sender' = TCPSenderTick(sender, ms).sender

Next ==
    \/ \E len \in 1 .. Capacity : Write(len)
    \/ CloseStream
    \/ PushStream
    \/ \E ackno \in 1 .. StreamLength + 2 + Beyond, w \in Windows,
          rst \in BOOLEAN :
          /\ 1 <= sender.abs_seqno /\ ackno <= sender.abs_seqno + Beyond
          /\ ReceiveAck(ackno, w, rst)
    \/ \E w \in Windows : ReceiveWithoutAckno(w)
    \/ \E ms \in Ticks : Tick(ms)

Spec == Init /\ [][Next]_vars
-----------------------------------------------------------------------------
Queue    == sender.outstanding
InFlight == SequenceNumbersInFlight(sender)
Start(i) == OutstandingEnd(sender, Queue[i]) - SequenceLength(Queue[i])
End(i)   == OutstandingEnd(sender, Queue[i])

(***************************************************************************)
(* The sequence numbers handed out are those of the SYN, of the bytes      *)
(* taken from the stream in order, and of the FIN, each once; the FIN only *)
(* after every byte of a closed stream.  Nothing push decides on its way   *)
(* out of its loop (tcp_sender.cc:30-88) takes a byte without a number or  *)
(* a number without a byte.                                                *)
(***************************************************************************)
SeqnosAccounted ==
    /\ sender.abs_seqno =
          IF sender.abs_seqno = 0 THEN 0
          ELSE 1 + BytesPopped(sender.input) + Bit(sender.FINsent)
    /\ sender.abs_seqno = 0 => BytesPopped(sender.input) = 0 /\ ~sender.FINsent
    /\ sender.FINsent => IsFinished(sender.input)

(***************************************************************************)
(* The outstanding messages are contiguous, end at the next number to be   *)
(* sent, hold the byte that belongs to each number, and carry the SYN and  *)
(* the FIN flag just where these numbers are: what is retransmitted is     *)
(* what was sent, whatever acknowledgements came in between.               *)
(***************************************************************************)
OutstandingContiguous ==
    /\ Queue # <<>> => End(Len(Queue)) = sender.abs_seqno
    /\ \A i \in 1 .. Len(Queue) :
          /\ i > 1 => End(i - 1) = Start(i)
          /\ Queue[i].SYN <=> Start(i) = 0
          /\ Queue[i].FIN <=> (sender.FINsent /\ i = Len(Queue))
          /\ Len(Queue[i].payload) <= MAX_PAYLOAD_SIZE
          /\ \A k \in 1 .. Len(Queue[i].payload) :
                Queue[i].payload[k] = Start(i) - 1 + Bit(Queue[i].SYN) + k - 1

(***************************************************************************)
(* What is not acknowledged is outstanding, and what is acknowledged in    *)
(* full is not: the highest ackno lies inside the oldest outstanding       *)
(* message, or everything is acknowledged and nothing is left to           *)
(* retransmit (tcp_sender.cc:108-135).                                     *)
(***************************************************************************)
UnackedIsOutstanding ==
    IF Queue = <<>> THEN sender.abs_ackno = sender.abs_seqno
    ELSE Start(1) <= sender.abs_ackno /\ sender.abs_ackno < End(1)

(***************************************************************************)
(* The retransmission timer runs exactly while something is outstanding:   *)
(* tick never reads the front of an empty queue (tcp_sender.cc:147), and   *)
(* nothing outstanding is left without a retransmission.  The time it      *)
(* counts to doubles with each consecutive retransmission and is the       *)
(* initial one again after new data was acknowledged.                      *)
(***************************************************************************)
TimerFollowsQueue ==
    /\ sender.timer_on <=> Queue # <<>>
    /\ sender.RTO = InitialRTO * 2 ^ sender.consecutive_retransmissions
    /\ sender.timer_on => sender.timer_time < sender.RTO

(***************************************************************************)
(* New sequence numbers are sent only into the window the peer advertised  *)
(* last, of which a zero counts as one (tcp_sender.cc:37-47): never more   *)
(* in flight than that after a push that sent something.                   *)
(***************************************************************************)
WindowRespected ==
    [][sender'.abs_seqno > sender.abs_seqno
          => InFlight' <= Greater(sender'.window_size, 1)]_vars

NothingSendable(s) ==
    \/ RemainingWindow(s) = 0
    \/ s.FINsent
    \/ s.abs_seqno > 0 /\ BytesBuffered(s.input) = 0 /\ ~IsFinished(s.input)

(***************************************************************************)
(* push does not stop early: in whatever state it is called, when it       *)
(* returns the window is full, or the FIN is sent, or there is no byte     *)
(* left to send and no end of stream to announce.  That holds of a push    *)
(* that sends nothing, which returns from the first round of its loop      *)
(* (tcp_sender.cc:44-49, 80), and of one that ends a stream of a multiple  *)
(* of MAX_PAYLOAD_SIZE bytes (tcp_sender.cc:64-88).                        *)
(***************************************************************************)
PushSendsAll == NothingSendable(TCPSenderPush(sender).sender)

(***************************************************************************)
(* Promises of comments and tests that the code does not keep              *)
(***************************************************************************)

(***************************************************************************)
(* The sender never regards as received what it did not send:              *)
(* tests/send_ack.cc:63, "Impossible ackno (beyond next seqno) is          *)
(* ignored".                                                               *)
(***************************************************************************)
AcknoInRangeOfSent == sender.abs_ackno <= sender.abs_seqno

(***************************************************************************)
(* After an ackno for all that was sent nothing is in flight, from the SYN *)
(* on: tests/send_connect.cc:32-38, "SYN acked test".                      *)
(***************************************************************************)
FullAckEmptiesQueue ==
    [][\A w \in Windows :
          ReceiveAck(sender.abs_seqno, w, FALSE) => InFlight' = 0]_vars
=============================================================================
