--------------------------- MODULE FileDescriptor ---------------------------
(***************************************************************************)
(* util/file_descriptor.cc and the stream descriptors of the kernel behind *)
(* it.  A kernel stream is one direction of a socket pair or a pipe.       *)
(*                                                                         *)
(* The flags of the FDWrappers and the counters of a process are part of   *)
(* its state w, a record with at least these fields: eof and closed, the   *)
(* descriptors with these flags; serviced, whether the counter of the last *)
(* operation was increased; failed, whether an exception or a signal ended *)
(* the process.                                                            *)
(***************************************************************************)
EXTENDS Integers, Sequences

CONSTANTS
    Room,              \* bound: bytes a kernel stream has room for
    kReadBufferSize    \* what an empty buffer is resized to before a read

ASSUME DescriptorAssumption == Room \in Nat \ {0} /\ kReadBufferSize \in Nat \ {0}

AtMost(a, b) == IF a <= b THEN a ELSE b

(* The kernel *)

\* bytes: written and not yet read; shut: no more can be written
NewStream == [bytes |-> <<>>, shut |-> FALSE]

ShutStream(stream) == [stream EXCEPT !.shut = TRUE]

\* What poll says of one end of a socket pair: a direction that was shut down
\* is readable (read returns 0), both of them are a hangup
SocketStatus(incoming, outgoing) ==
    {status \in {"IN", "OUT", "HUP"} :
        CASE status = "IN"  -> incoming.bytes # <<>> \/ incoming.shut
          [] status = "OUT" -> Len(outgoing.bytes) < Room
          [] status = "HUP" -> incoming.shut /\ outgoing.shut}

\* How many bytes a write of data to the stream takes
Taken(stream, data) == AtMost(Room - Len(stream.bytes), Len(data))

(* util/file_descriptor.cc *)

\* Bytes a read into a buffer of size bytes returns
ReadLength(stream, size) ==
    AtMost(IF size = 0 THEN kReadBufferSize ELSE size, Len(stream.bytes))

\* FileDescriptor::read: the data, and the stream without it
ReadData(stream, size)  == SubSeq(stream.bytes, 1, ReadLength(stream, size))
AfterRead(stream, size) ==
    [stream EXCEPT !.bytes = SubSeq(@, ReadLength(stream, size) + 1, Len(@))]

\* FileDescriptor::read for the reader's process: CheckRead takes a return
\* value of 0 for the end of the file, EAGAIN (nothing there yet) is not one
Reading(w, fd, stream) ==
    [w EXCEPT !.serviced = TRUE,
              !.eof = IF stream.bytes = <<>> /\ stream.shut THEN @ \cup {fd}
                      ELSE @]

\* FileDescriptor::write: the stream with what it took of data
AfterWrite(stream, data) ==
    [stream EXCEPT !.bytes = @ \o SubSeq(data, 1, Taken(stream, data))]

\* FileDescriptor::write for the writer's process: it ends with SIGPIPE when
\* the stream is shut, with an exception when nothing could be written
Writing(w, stream, data) ==
    [w EXCEPT !.serviced = TRUE,
              !.failed = \/ @ \/ stream.shut
                         \/ Taken(stream, data) = 0 /\ data # <<>>]

\* FDWrapper::close
Closing(w, fd) == [w EXCEPT !.eof = @ \cup {fd}, !.closed = @ \cup {fd}]
=============================================================================
