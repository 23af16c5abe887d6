--------------------------- MODULE TCPConnection ---------------------------
(***************************************************************************)
(* Two TCPMinnowSockets with a TCPPeer each (util/tcp_minnow_socket_impl.hh*)
(* lines 63-168, 233 and 268) and a network between them that delivers     *)
(* messages in any order, any number of times or never.                    *)
(* Each event of the socket's event loop is an action.  Byte number i that *)
(* host h writes is <<h, i>>.                                              *)
(***************************************************************************)
EXTENDS TCPPeer, SequencesExt

CONSTANTS
    Client, Server,  \* the two hosts
    Config,          \* TCPConfig of each host
    ToWrite,         \* bound: bytes each host's program writes
    TickMs,          \* milliseconds between two rounds of the event loop
    MaxRetx,         \* bound: consecutive retransmissions of a host
    NetSize          \* bound: messages on their way to each host

\* TCPConfig's fields have the types of the code.  The streams are shorter than
\* half the space of sequence numbers, so that a message that stays on the
\* network for the whole connection is not taken for a later one.
ASSUME ConnectionAssumption ==
    /\ Client # Server
    /\ DOMAIN Config = {Client, Server} /\ DOMAIN ToWrite = {Client, Server}
    /\ \A h \in {Client, Server} :
          /\ Config[h].isn \in UInt32 /\ Config[h].rt_timeout \in Nat \ {0}
          /\ Config[h].send_capacity \in Nat /\ Config[h].recv_capacity \in Nat
          /\ ToWrite[h] \in Nat /\ 2 * (ToWrite[h] + 2) < Mod32
    /\ TickMs \subseteq Nat /\ MaxRetx \in Nat /\ DOMAIN NetSize = {Client, Server}

\* The 0 that the server reads from an empty ackno, that of the client's first
\* SYN, is none of the numbers that the server may be told of.
EmptyAcknoIgnored == Config[Server].isn + 2 * (ToWrite[Server] + 2) < Mod32

Hosts == {Client, Server}
Other(h) == IF h = Client THEN Server ELSE Client

VARIABLES
    peer,        \* the TCPPeer of each host
    net,         \* the messages on their way to each host
    listening    \* does the server's adapter wait for a SYN?

vars == <<peer, net, listening>>

Init ==
    /\ peer = [h \in Hosts |-> NewTCPPeer(Config[h], 0)]
    /\ net = [h \in Hosts |-> {}]
    /\ listening = TRUE

\* Host h is left with result.peer after it transmitted result.sent
Transmitting(h, result) ==
    /\ peer' = [peer EXCEPT ![h] = result.peer]
    /\ net' = [net EXCEPT ![Other(h)] = @ \cup ToSet(result.sent)]
    /\ Cardinality(net'[Other(h)]) <= NetSize[Other(h)]

\* TCPMinnowSocket::connect
Connect ==
    /\ peer[Client].sender.abs_seqno = 0
    /\ Transmitting(Client, PeerPush(peer[Client]))
    /\ UNCHANGED listening

\* connect and listen_and_accept return to the program, which can write from
\* then on, when the host's SYN is acknowledged
Established(h) == peer[h].sender.abs_ackno > 0

Written(h)  == BytesPushed(Outbound(peer[h]))
Finished(h) == IsClosed(Outbound(peer[h]))

\* The interest condition of rule 2
MayWrite(h) ==
    /\ Established(h) /\ Active(peer[h]) /\ ~Finished(h)
    /\ AvailableCapacity(Outbound(peer[h])) > 0

\* Rule 2: bytes of the program, as many as the outbound stream has room for
AppWrite(h, len) ==
    /\ MayWrite(h) /\ len <= AvailableCapacity(Outbound(peer[h]))
    /\ Written(h) + len <= ToWrite[h]
    /\ LET data == [k \in 1 .. len |-> <<h, Written(h) + k - 1>>]
       IN  Transmitting(h, PeerPush(
               [peer[h] EXCEPT !.sender.input = Push(@, data)]))
    /\ UNCHANGED listening

\* Rule 2 when the program has shut down its writing side
AppClose(h) ==
    /\ MayWrite(h)
    /\ Transmitting(h, PeerPush([peer[h] EXCEPT !.sender.input = Close(@)]))
    /\ UNCHANGED listening

\* Rule 3: the program takes len bytes; no message tells the other host
AppRead(h, len) ==
    /\ len <= BytesBuffered(InboundStream(peer[h]))
    /\ peer' = [peer EXCEPT ![h].receiver.reassembler.output = Pop(@, len)]
    /\ UNCHANGED <<net, listening>>

\* TCPOverIPv4Adapter::unwrap_tcp_in_ip: does the adapter of h pass msg on?
Accepts(h, msg) ==
    h = Server /\ listening => msg.sender.SYN /\ ~msg.sender.RST

\* Rule 1.  An empty ackno is read as 0: that is what parse leaves in it.
Receive(h, msg) ==
    /\ Active(peer[h]) /\ Accepts(h, msg)
    /\ Transmitting(h, PeerReceive(peer[h], msg, 0))
    /\ listening' = (listening /\ h # Server)

\* The network loses a message; one that was delivered may still be on it
Lose(h, msg) ==
    /\ net' = [net EXCEPT ![h] = @ \ {msg}]
    /\ UNCHANGED <<peer, listening>>

\* _tcp_loop; the bound on retransmissions is not in the code
Tick(h, ms) ==
    /\ Active(peer[h])
    /\ peer[h].sender.consecutive_retransmissions < MaxRetx
    /\ Transmitting(h, PeerTick(peer[h], ms))
    /\ UNCHANGED listening

AppNext(h) ==
    \/ \E len \in 1 .. ToWrite[h] : AppWrite(h, len)
    \/ AppClose(h)
    \/ \E len \in 1 .. ToWrite[Other(h)] : AppRead(h, len)

Next ==
    \/ Connect
    \/ \E h \in Hosts :
          \/ AppNext(h)
          \/ \E msg \in net[h] : Receive(h, msg) \/ Lose(h, msg)
          \/ \E ms \in TickMs : Tick(h, ms)

Spec == Init /\ [][Next]_vars
-----------------------------------------------------------------------------
Arrived(h) == BytesPushed(InboundStream(peer[h]))

(***************************************************************************)
(* The bytes ready for the program of h are those its counterpart wrote,   *)
(* in order, from the first one it has not taken: whatever was reordered,  *)
(* repeated or lost, and although the sequence numbers wrapped around.     *)
(***************************************************************************)
StreamIntact ==
    \A h \in Hosts :
        LET in == InboundStream(peer[h])
        IN  \A k \in 1 .. Len(in.buffer) :
                in.buffer[k] = <<Other(h), BytesPopped(in) + k - 1>>

(***************************************************************************)
(* A host regards as acknowledged, and has thrown away, only what the      *)
(* other host's receiver has written to its stream (the SYN and the FIN    *)
(* included): what still has to be retransmitted is still there.           *)
(***************************************************************************)
AckedWasReceived ==
    \A h \in Hosts :
        peer[h].sender.abs_ackno <=
            IF ~HasAckno(peer[Other(h)]) THEN 0
            ELSE 1 + Arrived(Other(h))
                   + Bit(IsClosed(InboundStream(peer[Other(h)])))

(***************************************************************************)
(* A host whose connection is over without an error has received the whole *)
(* stream of the other and knows that its own arrived in full: active()    *)
(* (tcp_peer.hh:38-48) never turns false early.                            *)
(***************************************************************************)
OverIsComplete ==
    \A h \in Hosts :
        ~Active(peer[h]) =>
            /\ Finished(h) /\ Finished(Other(h))
            /\ IsClosed(InboundStream(peer[h]))
            /\ IsClosed(InboundStream(peer[Other(h)]))
            /\ Arrived(Other(h)) = Written(h)

(***************************************************************************)
(* Of two hosts whose streams have ended, at least one lingers until it    *)
(* has heard nothing for 10 * rt_timeout: not both hosts take themselves   *)
(* for the one whose inbound stream ended first (tcp_peer.hh:79-82), since *)
(* then a lost last acknowledgement would find nobody to repeat it.        *)
(***************************************************************************)
SomebodyLingers ==
    ~(\A h \in Hosts : /\ ~peer[h].linger_after_streams_finish
                       /\ SequenceNumbersInFlight(peer[h].sender) = 0
                       /\ IsFinished(Outbound(peer[h])))

(***************************************************************************)
(* Each direction implements BytePipe, a reliable byte stream.             *)
(***************************************************************************)
Upstream == INSTANCE BytePipe WITH
    written  <- Written(Client),
    finished <- Finished(Client),
    arrived  <- Arrived(Server),
    end_seen <- IsClosed(InboundStream(peer[Server]))

Downstream == INSTANCE BytePipe WITH
    written  <- Written(Server),
    finished <- Finished(Server),
    arrived  <- Arrived(Client),
    end_seen <- IsClosed(InboundStream(peer[Client]))

PipeSpec == Upstream!Spec /\ Downstream!Spec

=============================================================================
