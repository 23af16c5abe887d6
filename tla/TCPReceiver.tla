---------------------------- MODULE TCPReceiver ----------------------------
(***************************************************************************)
(* src/tcp_receiver: puts the payloads of incoming sender messages into a  *)
(* Reassembler and tells the peer what it needs next.                      *)
(***************************************************************************)
EXTENDS TCPMessages

NewTCPReceiver(capacity) ==
    [reassembler |-> NewReassembler(capacity), ISN |-> NULLOPT]

\* The ByteStream of TCPReceiver::reader() and writer()
Inbound(rcv) == rcv.reassembler.output

\* Mutated form of StreamIndex: payloads are taken in the order they arrive
StreamIndexAsArrived(rcv, msg, isn) == BytesPushed(Inbound(rcv))

\* The stream index of the first byte of a message; the subtraction wraps
\* around when a message without SYN carries the ISN itself
StreamIndex(rcv, msg, isn) ==
    IF msg.SYN THEN 0
    ELSE U64(Unwrap(msg.seqno, isn, BytesPushed(Inbound(rcv))) - 1)

\* TCPReceiver::receive: nothing but an RST counts before the SYN is there
TCPReceiverReceive(rcv, msg) ==
    LET isn == IF msg.SYN THEN msg.seqno ELSE rcv.ISN
        reassembler == IF msg.RST
                       THEN [rcv.reassembler EXCEPT !.output = SetError(@)]
                       ELSE rcv.reassembler
    IN  [ISN |-> isn,
         reassembler |->
            IF isn = NULLOPT THEN reassembler
            ELSE Insert(reassembler, StreamIndex(rcv, msg, isn),
                        msg.payload, msg.FIN)]

\* Mutated form of AbsAckno: bytes stored after a gap count as well
AbsAcknoCountsPending(rcv) ==
    BytesPushed(Inbound(rcv)) + 1 + Bit(IsClosed(Inbound(rcv)))
        + (IF PendingIndices(rcv.reassembler) = {} THEN 0 ELSE 1)

\* The absolute sequence number a receiver that knows its ISN needs next:
\* one for the SYN, one for the FIN when the stream is closed
AbsAckno(rcv) ==
    BytesPushed(Inbound(rcv)) + 1 + Bit(IsClosed(Inbound(rcv)))

\* TCPReceiver::send
TCPReceiverSend(rcv) ==
    ReceiverMessage(
        IF rcv.ISN = NULLOPT THEN NULLOPT ELSE Wrap(AbsAckno(rcv), rcv.ISN),
        Lesser(AvailableCapacity(Inbound(rcv)), UINT16_MAX),
        HasError(Inbound(rcv)))
=============================================================================
