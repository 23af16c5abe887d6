----------------------------- MODULE StreamCopy -----------------------------
(***************************************************************************)
(* apps/bidirectional_stream_copy.cc: the event loop that copies standard  *)
(* input to a socket and the socket to standard output, the user at the    *)
(* pipes and whoever holds the other end of the socket: the thread of a    *)
(* TCPMinnowSocket.  As in MinnowSocket, the loop stops where it waits in  *)
(* poll, here without a timeout, and the others may act in between.        *)
(***************************************************************************)
EXTENDS ByteStream, FileDescriptor

CONSTANTS
    buffer_size,    \* capacity of the two byte streams
    UserBytes,      \* bound: bytes the user writes
    FarBytes        \* bound: bytes the far end of the socket writes

ASSUME CopyAssumption ==
    /\ buffer_size \in UInt64 \ {0}
    /\ UserBytes \in Nat /\ FarBytes \in Nat

VARIABLES
    w,       \* what the rules work on
    loop,    \* the event loop
    user,    \* the processes that write stdin and read stdout
    far      \* the far end of the socket

vars == <<w, loop, user, far>>

(* The four rules.  Rules 1 and 3 fill a byte stream from a descriptor,    *)
(* rules 2 and 4 empty it into another one.                                *)

\* Rules 1 and 3: as much is read as the byte stream has room for
Fill(v, fd, source, stream) ==
    LET size == AvailableCapacity(v[stream])
        read == [Reading(v, fd, v[source]) EXCEPT
                   ![source] = AfterRead(@, size),
                   ![stream] = Push(@, ReadData(v[source], size))]
    IN  IF fd \in read.eof THEN [read EXCEPT ![stream] = Close(@)] ELSE read

\* Mutated form of MayFill: whether or not there is room
MayFillFull(v, stream) ==
    /\ ~HasError(v.outbound) /\ ~HasError(v.inbound)
    /\ ~IsClosed(v[stream])

MayFill(v, stream) ==
    /\ ~HasError(v.outbound) /\ ~HasError(v.inbound)
    /\ AvailableCapacity(v[stream]) > 0
    /\ ~IsClosed(v[stream])

\* Rules 2 and 4: what the descriptor takes of the byte stream is popped
Drain(v, stream, sink) ==
    IF BytesBuffered(v[stream]) = 0 THEN v
    ELSE [Writing(v, v[sink], Peek(v[stream])) EXCEPT
            ![stream] = Pop(@, Taken(v[sink], Peek(v[stream]))),
            ![sink]   = AfterWrite(@, Peek(v[stream]))]

\* Mutated form of MayDrain: the end is shown only with the last bytes
MayDrainBytes(v, stream, shut) == BytesBuffered(v[stream]) > 0

\* Mutated form of MayDrain: as long as the end was not shown
MayDrainAlways(v, stream, shut) == ~shut

MayDrain(v, stream, shut) ==
    \/ BytesBuffered(v[stream]) > 0
    \/ IsFinished(v[stream]) /\ ~shut

\* The end of rule 2: shutdown(SHUT_WR)
EndOutbound(v) ==
    IF IsFinished(v.outbound)
    THEN [v EXCEPT !.to_socket = ShutStream(@), !.outbound_shutdown = TRUE,
                   !.serviced = TRUE]
    ELSE v

\* The end of rule 4: stdout is closed
EndInbound(v) ==
    IF IsFinished(v.inbound)
    THEN [Closing(v, "output") EXCEPT !.inbound_shutdown = TRUE]
    ELSE v

CopyCallback(rule, v) ==
    CASE rule = 1 -> Fill(v, "input", "stdin", "outbound")
      [] rule = 2 -> EndOutbound(Drain(v, "outbound", "to_socket"))
      [] rule = 3 -> Fill(v, "socket", "from_socket", "inbound")
      [] rule = 4 -> EndInbound(Drain(v, "inbound", "stdout"))

CopyInterest(rule, v) ==
    CASE rule = 1 -> MayFill(v, "outbound")
      [] rule = 2 -> MayDrain(v, "outbound", v.outbound_shutdown)
      [] rule = 3 -> MayFill(v, "inbound")
      [] rule = 4 -> MayDrain(v, "inbound", v.inbound_shutdown)

CopyCancel(rule, v) ==
    IF rule \in {1, 2} THEN [v EXCEPT !.outbound = Close(@)]
    ELSE [v EXCEPT !.inbound = Close(@)]

\* Mutated form of CopyError: nobody is told
CopyErrorIgnored(rule, v) == v

CopyError(rule, v) ==
    [v EXCEPT !.outbound = SetError(@), !.inbound = SetError(@)]

\* What poll finds: of a pipe without a writer, and of one without a reader
CopyStatus(fd, v) ==
    CASE fd = "socket" -> SocketStatus(v.from_socket, v.to_socket)
      [] fd = "input"  -> (IF v.stdin.bytes # <<>> THEN {"IN"} ELSE {})
                          \cup (IF v.stdin.shut THEN {"HUP"} ELSE {})
      [] fd = "output" -> (IF Len(v.stdout.bytes) < Room THEN {"OUT"} ELSE {})
                          \cup (IF v.stdout.shut THEN {"ERR"} ELSE {})

EventLoop == INSTANCE EventLoop WITH
    Interest <- CopyInterest, Callback <- CopyCallback, Cancel <- CopyCancel,
    Error <- CopyError, Status <- CopyStatus

Init ==
    /\ w = [stdin |-> NewStream, to_socket |-> NewStream,
            from_socket |-> NewStream, stdout |-> NewStream,
            outbound |-> NewByteStream(buffer_size),
            inbound |-> NewByteStream(buffer_size),
            outbound_shutdown |-> FALSE, inbound_shutdown |-> FALSE,
            eof |-> {}, closed |-> {}, serviced |-> FALSE, failed |-> FALSE]
    /\ loop = [at |-> "poll", asked |-> <<>>, revents |-> <<>>,
               rules |-> <<EventLoop!Rule(1, "input", "IN"),
                           EventLoop!Rule(2, "socket", "OUT"),
                           EventLoop!Rule(3, "socket", "IN"),
                           EventLoop!Rule(4, "output", "OUT")>>]
    /\ user = [wrote |-> 0, got |-> 0, left |-> FALSE]
    /\ far  = [wrote |-> 0, got |-> 0, left |-> FALSE]

-----------------------------------------------------------------------------
(* The loop *)

Arranged == EventLoop!Arranged(loop.rules, w)

PollAfter(arranged, revents) ==
    /\ ~EventLoop!NothingToPoll(arranged) /\ ~EventLoop!TimesOut(revents)
    /\ w' = arranged.w
    /\ loop' = [at |-> "serve", rules |-> arranged.rules,
                asked |-> arranged.asked, revents |-> revents]

\* poll returns with results
Poll ==
    /\ loop.at = "poll" /\ ~w.failed
    /\ PollAfter(Arranged, EventLoop!Polled(Arranged))
    /\ UNCHANGED <<user, far>>

ServeAfter(served) ==
    /\ w' = served.w
    /\ loop' = [at |-> "poll", rules |-> served.rules,
                asked |-> <<>>, revents |-> <<>>]

\* The rest of wait_next_event
Serve ==
    /\ loop.at = "serve"
    /\ ServeAfter(EventLoop!Served(loop, w))
    /\ UNCHANGED <<user, far>>

ExitAfter(arranged) ==
    /\ EventLoop!NothingToPoll(arranged)
    /\ w' = arranged.w
    /\ loop' = [loop EXCEPT !.at = "exit"]

\* wait_next_event returned Exit
Exit ==
    /\ loop.at = "poll" /\ ~w.failed
    /\ ExitAfter(Arranged)
    /\ UNCHANGED <<user, far>>

-----------------------------------------------------------------------------
(* The user and the far end of the socket *)

\* The numbers of the next bytes of a writer that wrote some
NextBytes(wrote, len) == [k \in 1 .. len |-> wrote + k - 1]

UserWrite(len) ==
    /\ ~w.stdin.shut
    /\ user.wrote + len <= UserBytes /\ len <= Room - Len(w.stdin.bytes)
    /\ w' = [w EXCEPT !.stdin = AfterWrite(@, NextBytes(user.wrote, len))]
    /\ user' = [user EXCEPT !.wrote = @ + len]
    /\ UNCHANGED <<loop, far>>

UserClose ==
    /\ w' = [w EXCEPT !.stdin = ShutStream(@)]
    /\ UNCHANGED <<loop, user, far>>

UserRead ==
    /\ ~user.left /\ w.stdout.bytes # <<>>
    /\ w' = [w EXCEPT !.stdout = AfterRead(@, 0)]
    /\ user' = [user EXCEPT !.got = @ + ReadLength(w.stdout, 0)]
    /\ UNCHANGED <<loop, far>>

\* The reader of stdout ends
UserLeave ==
    /\ ~user.left
    /\ w' = [w EXCEPT !.stdout = ShutStream(@)]
    /\ user' = [user EXCEPT !.left = TRUE]
    /\ UNCHANGED <<loop, far>>

FarWrite(len) ==
    /\ ~w.from_socket.shut
    /\ far.wrote + len <= FarBytes /\ len <= Room - Len(w.from_socket.bytes)
    /\ w' = [w EXCEPT !.from_socket = AfterWrite(@, NextBytes(far.wrote, len))]
    /\ far' = [far EXCEPT !.wrote = @ + len]
    /\ UNCHANGED <<loop, user>>

\* shutdown(SHUT_WR), when the remote host has closed
FarClose ==
    /\ w' = [w EXCEPT !.from_socket = ShutStream(@)]
    /\ UNCHANGED <<loop, user, far>>

FarRead ==
    /\ ~far.left /\ w.to_socket.bytes # <<>>
    /\ w' = [w EXCEPT !.to_socket = AfterRead(@, 0)]
    /\ far' = [far EXCEPT !.got = @ + ReadLength(w.to_socket, 0)]
    /\ UNCHANGED <<loop, user>>

\* shutdown(SHUT_RDWR), when the connection is over for whatever reason
FarLeave ==
    /\ ~far.left
    /\ w' = [w EXCEPT !.from_socket = ShutStream(@), !.to_socket = ShutStream(@)]
    /\ far' = [far EXCEPT !.left = TRUE]
    /\ UNCHANGED <<loop, user>>

LoopStep == Poll \/ Serve \/ Exit

Next ==
    \/ LoopStep
    \/ \E len \in 1 .. UserBytes : UserWrite(len)
    \/ UserClose \/ UserRead \/ UserLeave
    \/ \E len \in 1 .. FarBytes : FarWrite(len)
    \/ FarClose \/ FarRead \/ FarLeave

Spec == Init /\ [][Next]_vars

\* Is there a step of the loop?  Written out because TLC would compute the
\* next state several times over to evaluate ENABLED LoopStep.
MayStep ==
    /\ loop.at # "exit" /\ ~w.failed
    /\ loop.at = "poll" =>
          \/ EventLoop!NothingToPoll(Arranged)
          \/ ~EventLoop!TimesOut(EventLoop!Polled(Arranged))

\* The loop goes on, and who reads goes on reading while there is something
FairSpec ==
    /\ Spec
    /\ []<>~MayStep \/ []<><<LoopStep>>_vars
    /\ WF_vars(UserRead) /\ WF_vars(FarRead)
-----------------------------------------------------------------------------
(***************************************************************************)
(* Standard input and the socket, the socket and standard output are each  *)
(* one reliable stream: what arrives is a prefix of what was written, and  *)
(* the end is shown (SHUT_WR, stdout closed) only after all of it, however *)
(* little a write takes and whoever hangs up                               *)
(* (bidirectional_stream_copy.cc:36-122).                                  *)
(***************************************************************************)
Upload == INSTANCE BytePipe WITH
    written  <- user.wrote,
    finished <- w.stdin.shut,
    arrived  <- far.got + Len(w.to_socket.bytes),
    end_seen <- w.outbound_shutdown

Download == INSTANCE BytePipe WITH
    written  <- far.wrote,
    finished <- w.from_socket.shut,
    arrived  <- user.got + Len(w.stdout.bytes),
    end_seen <- "output" \in w.closed

CopyPipes == Upload!Spec /\ Download!Spec

(***************************************************************************)
(* The loop exits by itself only when both directions were copied to their *)
(* end, if nobody left: not because for a moment no rule is interested     *)
(* (eventloop.cc:157-159).                                                 *)
(***************************************************************************)
ExitIsComplete ==
    loop.at = "exit" /\ ~user.left /\ ~far.left =>
        /\ w.outbound_shutdown /\ "output" \in w.closed
        /\ far.got + Len(w.to_socket.bytes) = user.wrote
        /\ user.got + Len(w.stdout.bytes) = far.wrote

(***************************************************************************)
(* Nothing but a reader that leaves between poll and the write ends the    *)
(* process: no rule waits busily (eventloop.cc:212), no write finds a full *)
(* pipe, and the loop does not write to a stream it has shut itself.       *)
(***************************************************************************)
FailsOnlyWhenLeft == w.failed => user.left \/ far.left

\* Nothing is left to be copied, or has nobody to go to any more
MustEnd ==
    \/ w.stdin.shut /\ w.from_socket.shut
    \/ user.left /\ "output" \notin w.closed
    \/ far.left

(***************************************************************************)
(* The loop exits, unless a signal ended it, when both directions are      *)
(* closed, and also when the reader of standard output left too early or   *)
(* the socket is gone, even though the user keeps standard input open:     *)
(* errors and hangups come unasked (eventloop.cc:179-205), and what one    *)
(* rule learns the others must come to know.                               *)
(***************************************************************************)
CopyEnds == []<>(MustEnd => loop.at = "exit" \/ w.failed)
=============================================================================
