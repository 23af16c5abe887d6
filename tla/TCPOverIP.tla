----------------------------- MODULE TCPOverIP -----------------------------
(***************************************************************************)
(* util/tcp_over_ip.cc, util/fd_adapter.hh, util/tuntap_adapter.cc: the    *)
(* adapter between a TCPPeer and IPv4 datagrams.  An adapter is its        *)
(* FdAdapterConfig and the listening flag.  An optional message is a       *)
(* sequence of at most one.                                                *)
(***************************************************************************)
EXTENDS TCPMessages

CONSTANT NotTCP     \* a payload that does not parse as a TCP segment

Endpoint(ip, port) == [ip |-> ip, port |-> port]

\* The value "0" of a FdAdapterConfig's addresses, INADDR_ANY
Anywhere == 0

NewAdapter(source, destination) ==
    [source |-> source, destination |-> destination, listening |-> FALSE]

SetListening(adapter, listening) == [adapter EXCEPT !.listening = listening]

\* An IPv4 datagram whose payload is a TCP segment
Datagram(source, destination, payload) ==
    [src |-> source.ip, dst |-> destination.ip, src_port |-> source.port,
     dst_port |-> destination.port, payload |-> payload]

\* Is the datagram for us, from our peer, and a segment for our port?
ForUs(adapter, dgram) ==
    /\ ~adapter.listening => /\ dgram.dst = adapter.source.ip
                             /\ dgram.src = adapter.destination.ip
    /\ dgram.payload # NotTCP
    /\ dgram.dst_port = adapter.source.port

\* From the first SYN on, an adapter that listened replies to its sender,
\* from the address it contacted
LockedOn(adapter, dgram) ==
    [source      |-> Endpoint(dgram.dst, adapter.source.port),
     destination |-> Endpoint(dgram.src, dgram.src_port),
     listening   |-> FALSE]

\* TCPOverIPv4Adapter::unwrap_tcp_in_ip
UnwrapTCPInIP(adapter, dgram) ==
    LET sender == dgram.payload.sender
        target == IF adapter.listening THEN LockedOn(adapter, dgram)
                  ELSE adapter
    IN  IF \/ ~ForUs(adapter, dgram)
           \/ adapter.listening /\ ~(sender.SYN /\ ~sender.RST)
        THEN [adapter |-> adapter, message |-> <<>>]
        ELSE [adapter |-> target,
              message |-> IF dgram.src_port = target.destination.port
                          THEN <<dgram.payload>> ELSE <<>>]

\* TCPOverIPv4Adapter::wrap_tcp_in_ip, for each of the messages
WrapTCPInIP(adapter, messages) ==
    [i \in DOMAIN messages |->
        Datagram(adapter.source, adapter.destination, messages[i])]
=============================================================================
