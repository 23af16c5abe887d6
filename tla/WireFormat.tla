----------------------------- MODULE WireFormat -----------------------------
(***************************************************************************)
(* The headers of TCP segments, IPv4 datagrams, ARP messages and Ethernet  *)
(* frames (util/tcp_segment, util/ipv4_header, util/ipv4_datagram,         *)
(* util/arp_message, util/ethernet_header, util/ethernet_frame).  IP and   *)
(* Ethernet addresses are sequences of four and six bytes.  An object's    *)
(* parse returns the object and the parser; all but the error flag of the  *)
(* result is of no interest after an error.                                *)
(***************************************************************************)
EXTENDS Parser, TCPMessages

(* IPv4Header *)

IPv4Layout == <<1, 1, 2, 2, 2, 1, 1, 2, 4, 4>>
IPv4Length == 20
PROTO_TCP  == 6

\* A header with the default values
NewIPv4Header ==
    [ver |-> 4, hlen |-> IPv4Length \div 4, tos |-> 0, len |-> 0, id |-> 0,
     df |-> TRUE, mf |-> FALSE, offset |-> 0, ttl |-> 128,
     proto |-> PROTO_TCP, cksum |-> 0,
     src |-> <<0, 0, 0, 0>>, dst |-> <<0, 0, 0, 0>>]

SerializeIPv4Header(s, h) ==
    WriteIntegers(s,
        <<Bytes(16 * h.ver + (h.hlen % 16), 1), Bytes(h.tos, 1),
          Bytes(h.len, 2), Bytes(h.id, 2),
          Bytes(16384 * Bit(h.df) + 8192 * Bit(h.mf) + (h.offset % 8192), 2),
          Bytes(h.ttl, 1), Bytes(h.proto, 1), Bytes(h.cksum, 2),
          h.src, h.dst>>)

ComputeIPv4Checksum(h) ==
    LET s == SerializeIPv4Header(NewSerializer, [h EXCEPT !.cksum = 0])
    IN  [h EXCEPT !.cksum =
            ChecksumValue(AddBuffers(NewChecksum(0), Finish(s)))]

\* The header that ten integers stand for
IPv4HeaderOf(fields) ==
    LET first == Number(fields[1])
        fo    == Number(fields[5])
    IN  [ver |-> first \div 16, hlen |-> first % 16, tos |-> Number(fields[2]),
         len |-> Number(fields[3]), id |-> Number(fields[4]),
         df |-> (fo \div 16384) % 2 = 1, mf |-> (fo \div 8192) % 2 = 1,
         offset |-> fo % 8192, ttl |-> Number(fields[6]),
         proto |-> Number(fields[7]), cksum |-> Number(fields[8]),
         src |-> fields[9], dst |-> fields[10]]

ParseIPv4Header(parser) ==
    LET read    == ReadIntegers(parser, IPv4Layout)
        h       == IPv4HeaderOf(read.fields)
        skipped == RemovePrefix(read.parser, 4 * h.hlen - IPv4Length)
    IN  IF read.parser.error \/ h.ver # 4 \/ h.hlen < 5
        THEN [header |-> h, parser |-> SetParserError(read.parser)]
        ELSE [header |-> ComputeIPv4Checksum(h),
              parser |-> IF ComputeIPv4Checksum(h) = h THEN skipped
                         ELSE SetParserError(skipped)]

PayloadLength(h) == (h.len - 4 * h.hlen) % 65536

PseudoChecksum(h) ==
    Number(SubSeq(h.src, 1, 2)) + Number(SubSeq(h.src, 3, 4))
      + Number(SubSeq(h.dst, 1, 2)) + Number(SubSeq(h.dst, 3, 4))
      + h.proto + PayloadLength(h)

(* IPv4Datagram: a header and the buffers of its payload *)

ParseDatagram(parser) ==
    LET read == ParseIPv4Header(parser)
        cut  == Truncate(read.parser, PayloadLength(read.header))
    IN  [header |-> read.header, payload |-> Remaining(cut), parser |-> cut]

SerializeDatagram(s, dgram) ==
    WriteBuffers(SerializeIPv4Header(s, dgram.header), dgram.payload)

(* TCPSegment: a TCPMessage, two ports and a checksum *)

TCPLayout == <<2, 2, 4, 4, 1, 1, 2, 2, 2>>
TCPLength == 20

Flags(msg) ==
    16 * Bit(msg.receiver.ackno # NULLOPT)
      + 4 * Bit(msg.sender.RST \/ msg.receiver.RST)
      + 2 * Bit(msg.sender.SYN) + Bit(msg.sender.FIN)

SerializeSegment(s, seg) ==
    LET msg == seg.message
    IN  WriteBuffer(
          WriteIntegers(s,
            <<Bytes(seg.src_port, 2), Bytes(seg.dst_port, 2),
              Bytes(msg.sender.seqno, 4),
              Bytes(IF msg.receiver.ackno = NULLOPT THEN 0
                    ELSE msg.receiver.ackno, 4),
              Bytes(16 * (TCPLength \div 4), 1), Bytes(Flags(msg), 1),
              Bytes(msg.receiver.window_size, 2), Bytes(seg.cksum, 2),
              Bytes(0, 2)>>),
          msg.sender.payload)

ComputeSegmentChecksum(seg, pseudo_checksum) ==
    LET s == SerializeSegment(NewSerializer, [seg EXCEPT !.cksum = 0])
    IN  [seg EXCEPT !.cksum =
            ChecksumValue(AddBuffers(NewChecksum(pseudo_checksum), Finish(s)))]

\* The message of nine integers and a payload
MessageOf(fields, payload) ==
    LET flags == Number(fields[6])
        reset == (flags \div 4) % 2 = 1
    IN  TCPMessage(
          SenderMessage(Number(fields[3]), (flags \div 2) % 2 = 1, payload,
                        flags % 2 = 1, reset),
          ReceiverMessage(IF (flags \div 16) % 2 = 1 THEN Number(fields[4])
                          ELSE NULLOPT, Number(fields[7]), reset))

\* parse with a checksum that is right; data_offset counts 32-bit words
ParseCheckedSegment(parser) ==
    LET read        == ReadIntegers(parser, TCPLayout)
        data_offset == Number(read.fields[5]) \div 16
        skipped     == RemovePrefix(read.parser, 4 * data_offset - TCPLength)
        short       == data_offset < TCPLength \div 4
    IN  [segment |-> [message  |-> MessageOf(read.fields,
                                             Concatenated(Remaining(skipped))),
                      src_port |-> Number(read.fields[1]),
                      dst_port |-> Number(read.fields[2]),
                      cksum    |-> Number(read.fields[8])],
         parser  |-> IF short THEN SetParserError(read.parser) ELSE skipped]

\* Mutated form of ParseSegment: the checksum is not looked at
ParseSegmentUnchecked(parser, pseudo_checksum) == ParseCheckedSegment(parser)

ParseSegment(parser, pseudo_checksum) ==
    LET check == AddBuffers(NewChecksum(pseudo_checksum), Remaining(parser))
    IN  IF ChecksumValue(check) # 0
        THEN [segment |-> <<>>, parser |-> SetParserError(parser)]
        ELSE ParseCheckedSegment(parser)

\* The datagram of TCPOverIPv4Adapter::wrap_tcp_in_ip
WrappedInIP(msg, source, destination) ==
    LET header == [NewIPv4Header EXCEPT
                     !.src = source.ip, !.dst = destination.ip,
                     !.len = IPv4Length + TCPLength + Len(msg.sender.payload)]
        seg    == [message |-> msg, src_port |-> source.port,
                   dst_port |-> destination.port, cksum |-> 0]
    IN  [header  |-> ComputeIPv4Checksum(header),
         payload |-> Finish(SerializeSegment(NewSerializer,
                         ComputeSegmentChecksum(seg, PseudoChecksum(header))))]

(* EthernetFrame: a header and the buffers of its payload *)

EthernetLayout == <<6, 6, 2>>
TYPE_IPv4 == 2048
TYPE_ARP  == 2054

SerializeFrame(s, frame) ==
    WriteBuffers(WriteIntegers(s, <<frame.dst, frame.src, Bytes(frame.type, 2)>>),
                 frame.payload)

ParseFrame(parser) ==
    LET read == ReadIntegers(parser, EthernetLayout)
    IN  [frame  |-> [dst |-> read.fields[1], src |-> read.fields[2],
                     type |-> Number(read.fields[3]),
                     payload |-> Remaining(read.parser)],
         parser |-> read.parser]

(* ARPMessage *)

ARPLayout == <<2, 2, 1, 1, 2>>
ARPAddresses == <<6, 4, 6, 4>>

\* supported(): Ethernet and IPv4 addresses, a request (1) or a reply (2)
Supported(arp) ==
    /\ arp.hardware_type = 1 /\ arp.protocol_type = TYPE_IPv4
    /\ arp.hardware_address_size = 6 /\ arp.protocol_address_size = 4
    /\ arp.opcode \in {1, 2}

SerializeARP(s, arp) ==
    WriteIntegers(s,
        <<Bytes(arp.hardware_type, 2), Bytes(arp.protocol_type, 2),
          Bytes(arp.hardware_address_size, 1),
          Bytes(arp.protocol_address_size, 1), Bytes(arp.opcode, 2),
          arp.sender_ethernet_address, arp.sender_ip_address,
          arp.target_ethernet_address, arp.target_ip_address>>)

ParseARP(parser) ==
    LET head == ReadIntegers(parser, ARPLayout)
        rest == ReadIntegers(head.parser, ARPAddresses)
        arp  == [hardware_type           |-> Number(head.fields[1]),
                 protocol_type           |-> Number(head.fields[2]),
                 hardware_address_size   |-> Number(head.fields[3]),
                 protocol_address_size   |-> Number(head.fields[4]),
                 opcode                  |-> Number(head.fields[5]),
                 sender_ethernet_address |-> rest.fields[1],
                 sender_ip_address       |-> rest.fields[2],
                 target_ethernet_address |-> rest.fields[3],
                 target_ip_address       |-> rest.fields[4]]
    IN  [message |-> arp,
         parser  |-> IF Supported(arp) THEN rest.parser
                     ELSE SetParserError(head.parser)]
=============================================================================
