---------------------------- MODULE SocketRules ----------------------------
(***************************************************************************)
(* The event loop of a TCPMinnowSocket: the three rules of                 *)
(* util/tcp_minnow_socket_impl.hh and what they work on, a record v with   *)
(* the TCPPeer (peer), the adapter (adapter), the datagrams the TUN device *)
(* holds (arriving) and has taken (departing), and the two streams of the  *)
(* socket pair, from the owner (data_in) and to it (data_out).             *)
(***************************************************************************)
EXTENDS TCPPeer, TCPOverIP, FileDescriptor

\* The datagrams of result.sent leave, and the TCPPeer is result.peer
Transmit(v, result) ==
    [v EXCEPT !.peer = result.peer,
              !.departing = @ \o WrapTCPInIP(v.adapter, result.sent)]

\* The message of a datagram, if it has one for this connection, is received
ReceiveUnwrapped(v, unwrapped) ==
    Transmit([v EXCEPT !.adapter = unwrapped.adapter],
             IF unwrapped.message = <<>> THEN [peer |-> v.peer, sent |-> <<>>]
             ELSE PeerReceive(v.peer, Head(unwrapped.message), 0))

\* Rule 1: a datagram is read
ReceiveSegment(v) ==
    ReceiveUnwrapped([v EXCEPT !.arriving = Tail(@), !.serviced = TRUE],
                     UnwrapTCPInIP(v.adapter, Head(v.arriving)))

\* data was read and goes into the outbound stream, which ends at the end of
\* the file
PushData(v, data) ==
    LET eof == "thread_data" \in v.eof
        pushed == Push(Outbound(v.peer), data)
    IN  Transmit([v EXCEPT !.outbound_shutdown = @ \/ eof],
                 PeerPush([v.peer EXCEPT !.sender.input =
                              IF eof THEN Close(pushed) ELSE pushed]))

\* Rule 2: as much as the outbound stream has room for
PushBytes(v) ==
    LET size == AvailableCapacity(Outbound(v.peer))
    IN  PushData([Reading(v, "thread_data", v.data_in) EXCEPT
                    !.data_in = AfterRead(@, size)],
                 ReadData(v.data_in, size))

\* Mutated form of Delivered: what a partial write took is offered again
DeliveredWhole(v, inbound) ==
    IF Taken(v.data_out, Peek(inbound)) < BytesBuffered(inbound) THEN inbound
    ELSE Pop(inbound, BytesBuffered(inbound))

\* The inbound stream after as much as data_out had room for was written
Delivered(v, inbound) == Pop(inbound, Taken(v.data_out, Peek(inbound)))

\* What is buffered goes to the owner
WriteBuffered(v, inbound) ==
    IF BytesBuffered(inbound) = 0 THEN v
    ELSE [Writing(v, v.data_out, Peek(inbound)) EXCEPT
            !.peer.receiver.reassembler.output = Delivered(v, inbound),
            !.data_out = AfterWrite(@, Peek(inbound))]

\* Mutated form of ShutInbound: as soon as the end of the stream is known
ShutInboundEarly(v) ==
    IF IsClosed(InboundStream(v.peer)) \/ HasError(InboundStream(v.peer))
    THEN [v EXCEPT !.data_out = ShutStream(@), !.serviced = TRUE,
                   !.inbound_shutdown = TRUE]
    ELSE v

\* shutdown(SHUT_WR) when the inbound stream is over
ShutInbound(v) ==
    IF IsFinished(InboundStream(v.peer)) \/ HasError(InboundStream(v.peer))
    THEN [v EXCEPT !.data_out = ShutStream(@), !.serviced = TRUE,
                   !.inbound_shutdown = TRUE]
    ELSE v

\* Rule 3
ReadBytes(v) == ShutInbound(WriteBuffered(v, InboundStream(v.peer)))

RuleCallback(name, v) ==
    CASE name = "receive" -> ReceiveSegment(v)
      [] name = "push"    -> PushBytes(v)
      [] name = "read"    -> ReadBytes(v)

PushInterest(v) ==
    /\ Active(v.peer) /\ ~v.outbound_shutdown
    /\ AvailableCapacity(Outbound(v.peer)) > 0

ReadInterest(v) ==
    LET inbound == InboundStream(v.peer)
    IN  \/ BytesBuffered(inbound) > 0
        \/ /\ IsFinished(inbound) \/ HasError(inbound)
           /\ ~v.inbound_shutdown

RuleInterest(name, v) ==
    CASE name = "receive" -> Active(v.peer)
      [] name = "push"    -> PushInterest(v)
      [] name = "read"    -> ReadInterest(v)

\* When the outbound bytes end the stream is closed, here without a push
RuleCancel(name, v) ==
    IF name = "push"
    THEN [v EXCEPT !.peer.sender.input = Close(@), !.outbound_shutdown = TRUE]
    ELSE v

RuleError(name, v) ==
    CASE name = "receive" -> v
      [] name = "push"    -> [v EXCEPT !.peer.sender.input = SetError(@)]
      [] name = "read"    ->
            [v EXCEPT !.peer.receiver.reassembler.output = SetError(@)]

\* What poll finds of the two descriptors
DescriptorStatus(fd, v) ==
    IF fd = "thread_data" THEN SocketStatus(v.data_in, v.data_out)
    ELSE IF v.arriving # <<>> THEN {"IN", "OUT"} ELSE {"OUT"}

EventLoop == INSTANCE EventLoop WITH
    Interest <- RuleInterest, Callback <- RuleCallback, Cancel <- RuleCancel,
    Error <- RuleError, Status <- DescriptorStatus

\* _initialize_TCP
Rules == <<EventLoop!Rule("receive", "tun", "IN"),
           EventLoop!Rule("push", "thread_data", "IN"),
           EventLoop!Rule("read", "thread_data", "OUT")>>
=============================================================================
