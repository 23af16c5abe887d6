------------------------------ MODULE MCSocket ------------------------------
EXTENDS MinnowSocket

MCConfig ==
    [isn |-> 14, send_capacity |-> 1, recv_capacity |-> 2, rt_timeout |-> 1]
MCRemoteConfig ==
    [isn |-> 2, send_capacity |-> 2, recv_capacity |-> 1, rt_timeout |-> 1]

MCOwnEndpoint    == Endpoint(1, 90)
MCRemoteEndpoint == Endpoint(2, 80)

\* A SYN with a FIN for the owner's port, from another port of the remote host
Opening ==
    TCPMessage(SenderMessage(9, TRUE, <<>>, TRUE, FALSE),
               ReceiverMessage(NULLOPT, 0, FALSE))
MCStrays ==
    [connect |-> {},
     listen  |-> {Datagram(Endpoint(2, 81), MCOwnEndpoint, Opening)}]
=============================================================================
