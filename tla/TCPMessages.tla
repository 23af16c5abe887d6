---------------------------- MODULE TCPMessages ----------------------------
(***************************************************************************)
(* The messages TCP endpoints exchange (util/tcp_sender_message.hh,        *)
(* util/tcp_receiver_message.hh, util/tcp_segment.cc), as records.  A      *)
(* payload is a sequence of bytes; an empty optional is NULLOPT.           *)
(***************************************************************************)
EXTENDS Reassembler, Wrap32

CONSTANT MAX_PAYLOAD_SIZE   \* TCPConfig::MAX_PAYLOAD_SIZE

ASSUME PayloadAssumption == MAX_PAYLOAD_SIZE \in Nat \ {0}

NULLOPT == -1

Bit(flag) == IF flag THEN 1 ELSE 0

SenderMessage(seqno, syn, payload, fin, rst) ==
    [seqno |-> seqno, SYN |-> syn, payload |-> payload, FIN |-> fin,
     RST |-> rst]

ReceiverMessage(ackno, window_size, rst) ==
    [ackno |-> ackno, window_size |-> window_size, RST |-> rst]

\* TCPSenderMessage::sequence_length
SequenceLength(msg) == Bit(msg.SYN) + Len(msg.payload) + Bit(msg.FIN)

\* A TCPMessage is one sender message and one receiver message
TCPMessage(sender, receiver) == [sender |-> sender, receiver |-> receiver]

(***************************************************************************)
(* What a TCPMessage is after TCPSegment::serialize on one side and parse  *)
(* on the other: the header has one RST bit, which sets both flags.        *)
(***************************************************************************)
OnWire(msg) ==
    LET reset == msg.sender.RST \/ msg.receiver.RST
    IN  [msg EXCEPT !.sender.RST = reset, !.receiver.RST = reset]
=============================================================================
