------------------------------ MODULE TCPPeer ------------------------------
(***************************************************************************)
(* util/tcp_peer.hh: a TCPSender and a TCPReceiver that share one stream   *)
(* of TCP messages.  Every method that takes a transmit function returns   *)
(* the peer and the sequence of messages it transmitted.                   *)
(*                                                                         *)
(* since_receipt stands for cumulative_time_ - time_of_last_receipt_, of   *)
(* which active() only asks whether it reached 10 * rt_timeout; it stops   *)
(* there.  need_send_ is FALSE between two calls of receive: every path    *)
(* that sets it goes on to send.  It is a local of PeerReceive.            *)
(***************************************************************************)
EXTENDS TCPReceiver, TCPSender

NewTCPPeer(cfg, abs_ackno) ==
    [sender   |-> NewTCPSender(cfg.send_capacity, cfg.isn, cfg.rt_timeout,
                               abs_ackno),
     receiver |-> NewTCPReceiver(cfg.recv_capacity),
     rt_timeout |-> cfg.rt_timeout,
     linger_after_streams_finish |-> TRUE, since_receipt |-> 0]

Outbound(p)      == p.sender.input
InboundStream(p) == Inbound(p.receiver)

HasAckno(p) == p.receiver.ISN # NULLOPT

LingerTime(p) == 10 * p.rt_timeout

\* Mutated form of Active: the peer does not wait for its own FIN's ack
ActiveIgnoresFlight(p) ==
    /\ ~HasError(InboundStream(p)) /\ ~HasError(Outbound(p))
    /\ \/ ~IsFinished(Outbound(p))
       \/ ~IsClosed(InboundStream(p))
       \/ p.linger_after_streams_finish /\ p.since_receipt < LingerTime(p)

\* TCPPeer::active
Active(p) ==
    /\ ~HasError(InboundStream(p)) /\ ~HasError(Outbound(p))
    /\ \/ SequenceNumbersInFlight(p.sender) > 0 \/ ~IsFinished(Outbound(p))
       \/ ~IsClosed(InboundStream(p))
       \/ p.linger_after_streams_finish /\ p.since_receipt < LingerTime(p)

\* TCPPeer::send and make_send: what goes on the wire with the receiver's
\* answer as it is after the call's other changes
WithReceiver(p, messages) ==
    [i \in DOMAIN messages |->
        OnWire(TCPMessage(messages[i], TCPReceiverSend(p.receiver)))]

\* The peer whose sender returned result, with what it transmitted
Sending(p, result) ==
    [peer |-> [p EXCEPT !.sender = result.sender],
     sent |-> WithReceiver(p, result.sent)]

\* TCPPeer::push
PeerPush(p) == Sending(p, TCPSenderPush(p.sender))

\* TCPPeer::tick
PeerTick(p, ms) ==
    Sending([p EXCEPT !.since_receipt = Lesser(@ + ms, LingerTime(p))],
            TCPSenderTick(p.sender, ms))

\* need_send_ after its two updates in receive: the message occupies a
\* sequence number, or is a keep-alive, one before the number needed next
NeedSend(p, msg) ==
    LET ackno == TCPReceiverSend(p.receiver).ackno
    IN  \/ SequenceLength(msg.sender) > 0
        \/ ackno # NULLOPT /\ WrapAdd(msg.sender.seqno, 1) = ackno

\* The end of receive: the new data push transmitted, if there is any, else
\* an empty message when a reply is due
Reply(pushed, need_send) ==
    IF need_send /\ pushed.sent = <<>>
    THEN [pushed EXCEPT !.sent =
             WithReceiver(pushed.peer,
                          <<MakeEmptyMessage(pushed.peer.sender)>>)]
    ELSE pushed

\* Mutated form of LingerUpdated: nobody lingers
LingerForNobody(p) ==
    [p EXCEPT !.linger_after_streams_finish = @ /\ ~IsClosed(InboundStream(p))]

\* An inbound stream that ends first leaves nothing to linger for
LingerUpdated(p) ==
    [p EXCEPT !.linger_after_streams_finish =
        @ /\ ~(IsClosed(InboundStream(p)) /\ ~IsFinished(Outbound(p)))]

(***************************************************************************)
(* TCPPeer::receive.  nullopt_read is what the sender reads from an empty  *)
(* ackno, which receive passes on as it is.                                *)
(***************************************************************************)
PeerReceive(p, msg, nullopt_read) ==
    LET received ==
            [p EXCEPT
               !.since_receipt = 0,
               !.receiver = TCPReceiverReceive(@, msg.sender),
               !.sender   = TCPSenderReceive(@, msg.receiver, nullopt_read)]
        reply == Reply(PeerPush(received), NeedSend(p, msg))
    IN  IF ~Active(p) THEN [peer |-> p, sent |-> <<>>]
        ELSE [reply EXCEPT !.peer = LingerUpdated(@)]
=============================================================================
