--------------------------- MODULE PureFunctions ---------------------------
(***************************************************************************)
(* The pure functions of the program, on all inputs of a small size, and   *)
(* compared with definitions that search: wrap and unwrap, the choice of a *)
(* route from any table of at most MaxRoutes routes; and the formats of    *)
(* the wire, from a message through segment, datagram and frame to bytes   *)
(* and back.                                                               *)
(***************************************************************************)
EXTENDS WireFormat, Router

CONSTANTS
    MaxRoutes,     \* bound: routes in the table
    Messages,      \* TCP messages sent in frames, as an adapter reads them
    Samples,       \* those of them that are cut, padded and damaged
    ARPMessages,   \* ARP messages sent in frames
    Padding,       \* bytes that may follow the datagram in its frame
    Damages        \* what is added to a byte that is damaged

ASSUME InputAssumption ==
    /\ MaxRoutes \in Nat
    /\ Samples \subseteq Messages /\ Damages \subseteq 1 .. 255

VARIABLE input   \* of unwrap, of Router::route, or of the parsers

Addresses == 0 .. 2 ^ AddressBits - 1

UnwrapInput ==
    [of : {"unwrap"},
     number : UInt64,       \* an absolute sequence number
     zero_point : UInt32,   \* the initial sequence number of its stream
     checkpoint : UInt64]   \* the absolute number unwrap is given as a hint

Source      == [ip |-> <<10, 0, 1, 255>>, port |-> 43981]
Destination == [ip |-> <<192, 168, 255, 255>>, port |-> 80]

FrameWith(type, payload) ==
    [dst |-> <<255, 255, 255, 255, 255, 255>>, src |-> <<2, 0, 0, 0, 0, 9>>,
     type |-> type, payload |-> payload]

\* The bytes of the frames that carry a TCP message and an ARP message
Sent(frame) == Concatenated(Finish(SerializeFrame(NewSerializer, frame)))
SentTCP(msg) ==
    Sent(FrameWith(TYPE_IPv4,
            Finish(SerializeDatagram(NewSerializer,
                                     WrappedInIP(msg, Source, Destination)))))
SentARP(arp) ==
    Sent(FrameWith(TYPE_ARP, Finish(SerializeARP(NewSerializer, arp))))

\* Where the adapters of a TCPMinnowSocket cut what they read: after the
\* Ethernet header and the IPv4 header, and after the TCP header if there is
\* a payload
IPEnds      == 14 + IPv4Length
AdapterCuts == {14, IPEnds, IPEnds + TCPLength}

\* A frame that comes in: how the bytes are cut, padded and damaged
Incoming(of, msg, cuts, padding, at, damage) ==
    [of |-> of, message |-> msg, cuts |-> cuts, padding |-> padding,
     at |-> at, damage |-> damage]

\* One or two places to cut n bytes
Cuts(n) == {{a, b} : a, b \in 1 .. n}

InitFrame ==
    \/ \E msg \in Messages :
          input = Incoming("tcp", msg, AdapterCuts, <<>>, 0, 0)
    \/ \E msg \in Samples, padding \in {<<>>, Padding} :
          \E cuts \in Cuts(Len(SentTCP(msg))) :
              input = Incoming("tcp", msg, cuts, padding, 0, 0)
    \/ \E msg \in Samples, damage \in Damages :
          \E at \in 15 .. Len(SentTCP(msg)) :
              input = Incoming("damaged", msg, AdapterCuts, <<>>, at, damage)
    \/ \E arp \in ARPMessages, padding \in {<<>>, Padding} :
          \E cuts \in Cuts(Len(SentARP(arp))) :
              input = Incoming("arp", arp, cuts, padding, 0, 0)

Init ==
    \/ input \in UnwrapInput
    \/ input = [of |-> "route", router |-> NewRouter]
    \/ InitFrame

Add(route_prefix, prefix_length) ==
    /\ input.of = "route"
    /\ Len(input.router.routes) < MaxRoutes
    /\ input' = [input EXCEPT !.router =
                    AddRoute(@, route_prefix, prefix_length, NoHop, 1)]

Next == \E p \in Addresses, len \in 0 .. AddressBits : Add(p, len)

Spec == Init /\ [][Next]_input
-----------------------------------------------------------------------------
OnWireNumber(n) == Wrap(n, input.zero_point)

Unwrapped ==
    Unwrap(OnWireNumber(input.number), input.zero_point, input.checkpoint)

(***************************************************************************)
(* unwrap returns a number that wraps to the value it was given, and none  *)
(* that does is closer to the checkpoint (wrapping_integers.hh:19-25), at  *)
(* both ends of the 64-bit range too.                                      *)
(***************************************************************************)
UnwrapIsClosest ==
    input.of = "unwrap" =>
        /\ Unwrapped \in UInt64
        /\ OnWireNumber(Unwrapped) = OnWireNumber(input.number)
        /\ \A m \in UInt64 :
              OnWireNumber(m) = OnWireNumber(input.number)
                 => Distance(Unwrapped, input.checkpoint)
                       <= Distance(m, input.checkpoint)

(***************************************************************************)
(* A number within half the 32-bit space of the checkpoint survives the    *)
(* trip over the wire: what TCPReceiver::receive and TCPSender::receive    *)
(* rely on whenever they unwrap a seqno or an ackno.                       *)
(***************************************************************************)
RoundTrip ==
    input.of = "unwrap" /\ 2 * Distance(input.number, input.checkpoint) < Mod32
       => Unwrapped = input.number

\* The addresses a route is for: a block of a power of two of addresses
Network(route) ==
    LET size  == 2 ^ (AddressBits - route.prefix_length)
        block == route.route_prefix \div size
    IN  block * size .. (block + 1) * size - 1

(***************************************************************************)
(* The route chosen for an address is for a network the address is in, and *)
(* for none larger than another one it is in; of two for the same network  *)
(* it is the one added first.  There is none only if no network has the    *)
(* address (router.cc:49-62).  A route with prefix_length 0 is for all     *)
(* addresses, one with prefix_length 32 for one.                           *)
(***************************************************************************)
LongestPrefixChosen ==
    input.of = "route" =>
        \A dest \in Addresses :
            LET routes     == input.router.routes
                best       == BestIndex(routes, dest)
                applicable == {i \in DOMAIN routes : dest \in Network(routes[i])}
            IN  IF applicable = {} THEN best = 0
                ELSE /\ best \in applicable
                     /\ \A i \in applicable :
                           /\ Network(routes[best]) \subseteq Network(routes[i])
                           /\ Network(routes[best]) = Network(routes[i])
                                 => best <= i

-----------------------------------------------------------------------------
\* The bytes as they come in, and as buffers
Received ==
    LET bytes == IF input.of = "arp" THEN SentARP(input.message)
                 ELSE SentTCP(input.message)
    IN  [i \in DOMAIN bytes |-> IF i = input.at
                               THEN (bytes[i] + input.damage) % 256
                               ELSE bytes[i]] \o input.padding

Buffers(bytes, cuts) ==
    LET ends == SetToSortSeq(cuts \cup {Len(bytes)}, <)
    IN  [i \in DOMAIN ends |->
            SubSeq(bytes, (IF i = 1 THEN 0 ELSE ends[i - 1]) + 1, ends[i])]

\* The parsers report an error, or an exception ends them: the out_of_range
\* of the substr in dump_all (parser.cc:78), which leaves the event loop too
Rejected == [valid |-> FALSE, thrown |-> FALSE]
Thrown   == [valid |-> FALSE, thrown |-> TRUE]

\* What an IPv4 datagram that was read this far is parsed to
OpenedDatagram(dgram) ==
    LET seg == ParseSegment(NewParser(dgram.payload),
                            PseudoChecksum(dgram.header))
    IN  IF SkipsTooFar(dgram.parser) THEN Thrown
        ELSE IF dgram.parser.error \/ seg.parser.error THEN Rejected
        ELSE [valid |-> TRUE, message |-> seg.segment.message,
              source |-> [ip |-> dgram.header.src,
                          port |-> seg.segment.src_port],
              destination |-> [ip |-> dgram.header.dst,
                               port |-> seg.segment.dst_port]]

OpenedFrame(frame) ==
    IF frame.type = TYPE_IPv4
    THEN OpenedDatagram(ParseDatagram(NewParser(frame.payload)))
    ELSE LET arp == ParseARP(NewParser(frame.payload))
         IN  IF arp.parser.error THEN Rejected
             ELSE [valid |-> TRUE, message |-> arp.message]

Opened ==
    OpenedFrame(ParseFrame(NewParser(Buffers(Received, input.cuts))).frame)

Arrived ==
    IF input.of = "arp"
    THEN [valid |-> TRUE, message |-> input.message]
    ELSE [valid |-> TRUE, message |-> OnWire(input.message),
          source |-> Source, destination |-> Destination]

(***************************************************************************)
(* A message arrives as it was sent, whatever buffers the bytes come in:   *)
(* the parsers, the checksums over several buffers and the serializers     *)
(* agree (parser.hh:80-102, checksum.hh:19-29, tcp_segment.cc:12-82,       *)
(* ipv4_header.cc:10-78, arp_message.cc:32-81).  Of a TCP message arrives  *)
(* OnWire, on which TCPConnection rests.  Bytes after the datagram are cut *)
(* off if the payload begins with a buffer of its own, as the adapters     *)
(* read it; otherwise truncate cuts too much (parser.cc:31-67).            *)
(***************************************************************************)
ArrivesAsSent ==
    (\/ input.of = "arp"
     \/ input.of = "tcp" /\ (input.padding = <<>> \/ IPEnds \in input.cuts))
    => Opened = Arrived

(***************************************************************************)
(* One damaged byte, in the IPv4 header, the TCP header or the payload, is *)
(* found by one of the checksums, also if it makes the header longer or    *)
(* the datagram shorter (tcp_segment.cc:14-20, ipv4_header.cc:46-51), or   *)
(* it changes nothing of the message: the header's checksum is computed    *)
(* from its fields, and the reserved flag bit is not one of them.          *)
(***************************************************************************)
DamageIsFound == input.of = "damaged" /\ Opened.valid => Opened = Arrived
=============================================================================
