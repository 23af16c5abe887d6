-------------------------- MODULE MCPureFunctions --------------------------
EXTENDS PureFunctions

\* Every combination of flags and optional fields
MCMessages ==
    {TCPMessage(SenderMessage(seqno, syn, payload, fin, rst),
                ReceiverMessage(ackno, window_size, rst2)) :
        seqno \in {0, 7}, syn \in BOOLEAN, fin \in BOOLEAN,
        payload \in {<<>>, <<255>>, <<7, 0, 255>>},
        rst \in BOOLEAN, rst2 \in BOOLEAN,
        ackno \in {NULLOPT, 0, 5}, window_size \in {0, 3}}

\* An odd payload, and none
MCSamples ==
    {TCPMessage(SenderMessage(7, FALSE, payload, TRUE, FALSE),
                ReceiverMessage(5, 3, FALSE)) :
        payload \in {<<>>, <<7, 0, 255>>}}

MCARPMessages ==
    {[hardware_type |-> 1, protocol_type |-> TYPE_IPv4,
      hardware_address_size |-> 6, protocol_address_size |-> 4,
      opcode |-> opcode,
      sender_ethernet_address |-> <<2, 0, 0, 0, 0, 9>>,
      sender_ip_address |-> Source.ip,
      target_ethernet_address |-> <<0, 0, 0, 0, 0, 0>>,
      target_ip_address |-> Destination.ip] : opcode \in {1, 2}}

MCPadding == <<1, 0, 2>>
=============================================================================
