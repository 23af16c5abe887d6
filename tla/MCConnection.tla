---------------------------- MODULE MCConnection ----------------------------
\* The client writes two bytes, in payloads of one byte, to a server that has
\* room for both; the server only closes its stream.  The client's sequence
\* numbers wrap around (16 values), and its SYN carries no ackno; the server's
\* do not, so that the 0 read from an empty ackno acknowledges nothing.
EXTENDS TCPConnection

MCConfig ==
    [h \in Hosts |->
        [isn |-> IF h = Client THEN 14 ELSE 2,
         send_capacity |-> IF h = Client THEN 2 ELSE 1,
         recv_capacity |-> IF h = Client THEN 1 ELSE 2,
         rt_timeout |-> 1]]

MCNetSize == [h \in Hosts |-> IF h = Client THEN 1 ELSE 2]

MCToWrite == [h \in Hosts |-> IF h = Client THEN 2 ELSE 0]

\* The theorems on acknowledgements take this as their hypothesis.
ASSUME IgnoredAssumption == EmptyAcknoIgnored
=============================================================================
