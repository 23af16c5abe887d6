------------------------------ MODULE MCCloses ------------------------------
EXTENDS TCPCloses
MCConfig ==
    [h \in Hosts |->
        [isn |-> IF h = Client THEN 14 ELSE 2, send_capacity |-> 1,
         recv_capacity |-> 1, rt_timeout |-> 1]]
MCToWrite == [h \in Hosts |-> IF h = Client THEN 2 ELSE 0]
MCNetSize == [h \in Hosts |-> 8]
=============================================================================
