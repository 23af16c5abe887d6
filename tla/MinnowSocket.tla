---------------------------- MODULE MinnowSocket ----------------------------
(***************************************************************************)
(* util/tcp_minnow_socket_impl.hh: a TCPMinnowSocket, the program that     *)
(* owns it, and the host it talks to.  Two threads meet in this process:   *)
(* the owner's and the one that runs the event loop (the owner's too while *)
(* it is inside connect or listen_and_accept).  They share the two streams *)
(* of the socket pair and the flag _abort.                                 *)
(*                                                                         *)
(* A step of the loop's thread ends where it waits in poll: what poll      *)
(* found may be out of date when the loop serves a rule.  The network is   *)
(* in order and faster than the timers: what this host transmits is at the *)
(* other host at once, what comes back waits in the TUN device.            *)
(* TCPConnection has the other networks.                                   *)
(***************************************************************************)
EXTENDS SocketRules, SequencesExt

CONSTANTS
    Roles,            \* how the owner opens its socket: "connect", "listen"
    Config, RemoteConfig,         \* the TCPConfig of the two hosts
    OwnEndpoint, RemoteEndpoint,  \* their addresses
    Strays,           \* for each role: datagrams of others, one may come in
    OwnerBytes, RemoteBytes,  \* bound: bytes each program writes
    TickMs,           \* milliseconds of a turn of the loop that found nothing
    MaxRetx,          \* bound: consecutive retransmissions of a host
    ResetLimit,       \* bound: bytes the remote host wrote before it resets
    Advised           \* is wait_until_closed called only at the end of file?

ASSUME SocketAssumption ==
    /\ Roles \subseteq {"connect", "listen"}
    /\ OwnerBytes \in Nat /\ RemoteBytes \in Nat /\ MaxRetx \in Nat
    /\ ResetLimit \in Nat
    /\ TickMs \subseteq Nat \ {0} /\ Advised \in BOOLEAN

VARIABLES
    w,        \* what the rules work on
    loop,     \* the thread of the event loop
    owner,    \* the program that owns the socket
    remote,   \* the other host
    role      \* how the owner opens the socket

vars == <<w, loop, owner, remote, role>>

NewEndpoints(r) ==
    IF r = "connect" THEN NewAdapter(OwnEndpoint, RemoteEndpoint)
    ELSE SetListening(NewAdapter(Endpoint(Anywhere, OwnEndpoint.port),
                                 Endpoint(Anywhere, 0)), TRUE)

Init ==
    /\ role \in Roles
    /\ w = [peer |-> NewTCPPeer(Config, 0), adapter |-> NewEndpoints(role),
            arriving |-> <<>>, departing |-> <<>>,
            data_in |-> NewStream, data_out |-> NewStream,
            outbound_shutdown |-> FALSE, inbound_shutdown |-> FALSE,
            eof |-> {}, closed |-> {}, serviced |-> FALSE, failed |-> FALSE]
    /\ loop = [phase |-> "none", at |-> "poll", rules |-> Rules,
               asked |-> <<>>, revents |-> <<>>]
    /\ owner = [pc |-> "closed", wrote |-> 0, got |-> 0, eof |-> "no",
                abort |-> FALSE]
    /\ remote = [peer |-> NewTCPPeer(RemoteConfig, 0),
                 adapter |-> IF role = "listen"
                             THEN NewAdapter(RemoteEndpoint, OwnEndpoint)
                             ELSE SetListening(
                                      NewAdapter(RemoteEndpoint, OwnEndpoint),
                                      TRUE),
                 departing |-> <<>>, strayed |-> FALSE]

-----------------------------------------------------------------------------
(* The network and the remote host *)

\* A datagram that left arrives at the remote host, or at another one.  The
\* remote host has a TCPPeer and an adapter like this one.
ArriveOne(far, dgram) ==
    ReceiveUnwrapped(far, UnwrapTCPInIP(far.adapter, dgram))

Arrive(far, dgrams) == FoldLeft(ArriveOne, far, dgrams)

\* This host is left with v and the remote one with far, which answered what
\* this one transmitted; nobody reads the answers once the loop has ended
Settle(v, far) ==
    /\ w' = [v EXCEPT !.departing = <<>>,
                      !.arriving = IF loop.phase = "ended" THEN <<>>
                                   ELSE @ \o far.departing]
    /\ remote' = [far EXCEPT !.departing = <<>>]

\* This host is left with v after it transmitted v.departing
Transmitting(v) == Settle(v, Arrive(remote, v.departing))

-----------------------------------------------------------------------------
(* The thread of the event loop *)

InLoop == loop.phase \in {"opening", "running"} /\ ~w.failed

\* The condition of _tcp_loop for connect, listen_and_accept and _tcp_main
Continue ==
    LET in_flight == SequenceNumbersInFlight(w.peer.sender)
    IN  CASE loop.phase = "running" -> TRUE
          [] role = "connect" -> in_flight = 1
          [] OTHER -> ~HasAckno(w.peer) \/ in_flight > 0

\* The loop is left with the state v: in the owner's thread it opened the
\* connection, or failed to, and _tcp_main starts its own
LeaveLoop(v, rules) ==
    /\ loop' = [loop EXCEPT
                  !.phase = IF @ = "opening" THEN "running" ELSE "over",
                  !.at = "poll", !.rules = rules,
                  !.asked = <<>>, !.revents = <<>>]
    /\ owner' = [owner EXCEPT !.pc = IF @ = "opening" THEN "open" ELSE @]
    /\ Transmitting(v)
    /\ UNCHANGED role

\* wait_next_event up to poll
Arranged == EventLoop!Arranged(loop.rules, w)

StopAfter(arranged) ==
    /\ EventLoop!NothingToPoll(arranged)
    /\ LeaveLoop(arranged.w, arranged.rules)

\* The end of _tcp_loop at its condition or because no rule is interested
Stop ==
    /\ InLoop /\ loop.at = "poll"
    /\ IF Continue THEN StopAfter(Arranged) ELSE LeaveLoop(w, loop.rules)

PollAfter(arranged, revents) ==
    /\ ~EventLoop!NothingToPoll(arranged)
    /\ ~EventLoop!TimesOut(revents)
    /\ w' = arranged.w
    /\ loop' = [loop EXCEPT !.at = "serve", !.rules = arranged.rules,
                            !.asked = arranged.asked, !.revents = revents]
    /\ UNCHANGED <<owner, remote, role>>

\* poll returns with results
Poll ==
    /\ InLoop /\ loop.at = "poll" /\ Continue
    /\ PollAfter(Arranged, EventLoop!Polled(Arranged))

\* The tick of one host's _tcp_loop
Ticked(v, ms) ==
    IF Active(v.peer) THEN Transmit(v, PeerTick(v.peer, ms)) ELSE v

MayTick ==
    \A p \in {w.peer, remote.peer} :
        p.sender.consecutive_retransmissions < MaxRetx

\* The rest of a turn that took ms milliseconds, for the remote host too
TimePasses(v, ms) ==
    /\ MayTick
    /\ LET own == Ticked(v, ms)
       IN  Settle(own, Arrive(Ticked(remote, ms), own.departing))

\* The loop goes on
NextTurn(rules) ==
    /\ loop' = [loop EXCEPT !.at = "poll", !.rules = rules,
                            !.asked = <<>>, !.revents = <<>>]
    /\ UNCHANGED <<owner, role>>

\* The end of a turn.  If a rule was served no time has passed.
EndTurn(v, rules, success) ==
    IF owner.abort THEN LeaveLoop(v, rules)
    ELSE /\ NextTurn(rules)
         /\ IF success THEN Transmitting(v)
            ELSE \E ms \in TickMs : TimePasses(v, ms)

EndTurnAfter(result) == EndTurn(result.w, result.rules, result.success)

\* wait_next_event after poll, and the rest of this turn
Serve ==
    /\ InLoop /\ loop.at = "serve"
    /\ EndTurnAfter(EventLoop!Served(loop, w))

TimeOutAfter(arranged) ==
    /\ ~EventLoop!NothingToPoll(arranged)
    /\ EventLoop!TimesOut(EventLoop!Polled(arranged))
    /\ EndTurn(arranged.w, arranged.rules, FALSE)

\* poll times out; the rest of this turn
TimeOut ==
    /\ InLoop /\ loop.at = "poll" /\ Continue
    /\ TimeOutAfter(Arranged)

\* The rest of _tcp_main: shutdown(SHUT_RDWR), and the TCPPeer is gone
EndOfMain ==
    /\ loop.phase = "over"
    /\ loop' = [loop EXCEPT !.phase = "ended"]
    /\ w' = [w EXCEPT !.data_in = ShutStream(@), !.data_out = ShutStream(@),
                      !.arriving = <<>>]
    /\ UNCHANGED <<owner, remote, role>>

LoopStep ==
    Stop \/ Poll \/ Serve \/ TimeOut \/ EndOfMain

-----------------------------------------------------------------------------
(* The thread of the owner *)

\* connect and listen_and_accept up to their loop
Open ==
    /\ owner.pc = "closed"
    /\ owner' = [owner EXCEPT !.pc = "opening"]
    /\ loop' = [loop EXCEPT !.phase = "opening"]
    /\ Transmitting(IF role = "connect" THEN Transmit(w, PeerPush(w.peer))
                    ELSE w)
    /\ UNCHANGED role

OwnerActs == owner.pc = "open" /\ ~w.failed

\* write, as much as the socket takes; it would be killed if it were shut
Write(len) ==
    /\ OwnerActs /\ ~w.data_in.shut
    /\ len <= Room - Len(w.data_in.bytes) /\ owner.wrote + len <= OwnerBytes
    /\ LET data == [k \in 1 .. len |-> owner.wrote + k - 1]
       IN  w' = [w EXCEPT !.data_in = AfterWrite(@, data)]
    /\ owner' = [owner EXCEPT !.wrote = @ + len]
    /\ UNCHANGED <<loop, remote, role>>

\* shutdown(SHUT_WR)
ShutWrite ==
    /\ OwnerActs /\ ~w.data_in.shut
    /\ w' = [w EXCEPT !.data_in = ShutStream(@)]
    /\ UNCHANGED <<loop, owner, remote, role>>

\* read, when there is something to read
Read ==
    /\ OwnerActs /\ w.data_out.bytes # <<>>
    /\ w' = [w EXCEPT !.data_out = AfterRead(@, 0)]
    /\ owner' = [owner EXCEPT !.got = @ + ReadLength(w.data_out, 0)]
    /\ UNCHANGED <<loop, remote, role>>

Clean == ~HasError(InboundStream(w.peer)) /\ ~HasError(Outbound(w.peer))

\* read, at the end of the file
ReadEOF ==
    /\ OwnerActs /\ owner.eof = "no"
    /\ w.data_out.bytes = <<>> /\ w.data_out.shut
    /\ owner' = [owner EXCEPT !.eof = IF Clean THEN "clean" ELSE "unclean"]
    /\ UNCHANGED <<w, loop, remote, role>>

\* wait_until_closed up to join
WaitUntilClosed ==
    /\ OwnerActs /\ (Advised => owner.eof # "no")
    /\ w' = [w EXCEPT !.data_in = ShutStream(@), !.data_out = ShutStream(@)]
    /\ owner' = [owner EXCEPT !.pc = "joining"]
    /\ UNCHANGED <<loop, remote, role>>

\* Mutated form of Destroy: the destructor only joins
DestroyQuietly ==
    /\ OwnerActs
    /\ owner' = [owner EXCEPT !.pc = "joining"]
    /\ UNCHANGED <<w, loop, remote, role>>

\* The destructor up to join, when wait_until_closed was not called
Destroy ==
    /\ OwnerActs
    /\ owner' = [owner EXCEPT !.pc = "joining", !.abort = TRUE]
    /\ UNCHANGED <<w, loop, remote, role>>

Join ==
    /\ owner.pc = "joining" /\ loop.phase = "ended"
    /\ owner' = [owner EXCEPT !.pc = "done"]
    /\ UNCHANGED <<w, loop, remote, role>>

OwnerStep ==
    \/ Open \/ (\E len \in 1 .. OwnerBytes : Write(len)) \/ ShutWrite
    \/ Read \/ ReadEOF \/ WaitUntilClosed \/ Destroy \/ Join

-----------------------------------------------------------------------------
(* The program of the remote host *)

\* The program of the remote host left result.peer, which transmitted
\* result.sent
FromRemote(result) ==
    /\ Settle(w, Transmit(remote, result))
    /\ UNCHANGED <<loop, owner, role>>

RemoteConnect ==
    /\ role = "listen" /\ remote.peer.sender.abs_seqno = 0
    /\ FromRemote(PeerPush(remote.peer))

RemoteActs == remote.peer.sender.abs_ackno > 0 /\ Active(remote.peer)

RemoteWrote == BytesPushed(Outbound(remote.peer))
RemoteGot   == BytesPushed(InboundStream(remote.peer))

RemoteWrite(len) ==
    /\ RemoteActs /\ ~IsClosed(Outbound(remote.peer))
    /\ len <= AvailableCapacity(Outbound(remote.peer))
    /\ RemoteWrote + len <= RemoteBytes
    /\ LET data == [k \in 1 .. len |-> RemoteWrote + k - 1]
       IN  FromRemote(PeerPush(
               [remote.peer EXCEPT !.sender.input = Push(@, data)]))

RemoteClose ==
    /\ RemoteActs /\ ~IsClosed(Outbound(remote.peer))
    /\ FromRemote(PeerPush([remote.peer EXCEPT !.sender.input = Close(@)]))

RemoteRead ==
    /\ BytesBuffered(InboundStream(remote.peer)) > 0
    /\ remote' = [remote EXCEPT !.peer.receiver.reassembler.output =
                     Pop(@, BytesBuffered(@))]
    /\ UNCHANGED <<w, loop, owner, role>>

\* The remote host gives up and says so with an RST
RemoteReset ==
    /\ RemoteActs /\ RemoteWrote <= ResetLimit
    /\ LET reset == [remote.peer EXCEPT !.sender.input = SetError(@)]
       IN  FromRemote([peer |-> reset,
                       sent |-> WithReceiver(
                           reset, <<MakeEmptyMessage(reset.sender)>>)])

\* A datagram that is not from the remote host.  A bound, not in the code:
\* it comes in when there is no other one to be read.
Stray(dgram) ==
    /\ ~remote.strayed /\ loop.phase # "ended" /\ w.arriving = <<>>
    /\ remote' = [remote EXCEPT !.strayed = TRUE]
    /\ w' = [w EXCEPT !.arriving = Append(@, dgram)]
    /\ UNCHANGED <<loop, owner, role>>

RemoteStep ==
    \/ RemoteConnect \/ RemoteClose \/ RemoteRead \/ RemoteReset
    \/ \E len \in 1 .. RemoteBytes : RemoteWrite(len)
    \/ \E dgram \in Strays[role] : Stray(dgram)

Next == LoopStep \/ OwnerStep \/ RemoteStep

Spec == Init /\ [][Next]_vars
(***************************************************************************)
(* The thread of the loop goes on: each turn ends, since poll returns      *)
(* after 10 ms at the latest.  The program of the remote host reads what   *)
(* came in.  Neither program need close or do anything else, but when the  *)
(* owner waits in join and may go on it does.  Each is the weak fairness   *)
(* of an action, with the condition under which a step changes something   *)
(* written out: to evaluate ENABLED, TLC would compute the nested LETs     *)
(* again at every use.                                                     *)
(***************************************************************************)
TimerRuns(p) ==
    Active(p) /\ (p.sender.timer_on \/ p.since_receipt < LingerTime(p))

MayStep ==
    \/ loop.phase = "over"
    \/ /\ InLoop /\ MayTick
       /\ \/ loop.at = "serve" \/ owner.abort \/ ~Continue
          \/ TimerRuns(w.peer) \/ TimerRuns(remote.peer)
          \/ EventLoop!NothingToPoll(Arranged)
          \/ ~EventLoop!TimesOut(EventLoop!Polled(Arranged))

MayRead  == BytesBuffered(InboundStream(remote.peer)) > 0
MayJoin  == owner.pc = "joining" /\ loop.phase = "ended"

Fairness ==
    /\ []<>~MayStep  \/ []<><<LoopStep>>_vars
    /\ []<>~MayRead  \/ []<><<RemoteRead>>_vars
    /\ []<>~MayJoin  \/ []<><<Join>>_vars

FairSpec == Spec /\ Fairness
-----------------------------------------------------------------------------
(***************************************************************************)
(* The socket pair and the connection together are a reliable byte stream  *)
(* in each direction.  The remote host sees the end of the owner's stream  *)
(* only after all the owner wrote before it shut down: nothing is left in  *)
(* the socket pair when both directions hang up (eventloop.cc:195-205).    *)
(* And the owner sees an end of file without an error only after all that  *)
(* the remote host wrote (rule 3, tcp_minnow_socket_impl.hh:143-151).      *)
(***************************************************************************)
Up == INSTANCE BytePipe WITH
    written  <- owner.wrote,
    finished <- w.data_in.shut,
    arrived  <- RemoteGot,
    end_seen <- IsClosed(InboundStream(remote.peer))

Down == INSTANCE BytePipe WITH
    written  <- RemoteWrote,
    finished <- IsClosed(Outbound(remote.peer)),
    arrived  <- owner.got + Len(w.data_out.bytes),
    end_seen <- owner.eof = "clean"

LocalPipes == Up!Spec /\ Down!Spec

\* bytes are the numbers from first on
Consecutive(bytes, first) == \A k \in DOMAIN bytes : bytes[k] = first + k - 1

(***************************************************************************)
(* The bytes in the socket pair and those ready at either host are the     *)
(* next ones, in order and each once: also when a write to the owner takes *)
(* a part of what peek offers (tcp_minnow_socket_impl.hh:140-147), and     *)
(* whatever other hosts send to the same adapter.                          *)
(***************************************************************************)
BytesInOrder ==
    LET own == InboundStream(w.peer)
        far == InboundStream(remote.peer)
    IN  /\ Consecutive(w.data_in.bytes, owner.wrote - Len(w.data_in.bytes))
        /\ Consecutive(w.data_out.bytes, owner.got)
        /\ Consecutive(far.buffer, BytesPopped(far))
        /\ Consecutive(own.buffer, owner.got + Len(w.data_out.bytes))

(***************************************************************************)
(* The loop's thread ends by itself, without an error, only when both      *)
(* streams are complete: all that the owner wrote is acknowledged with the *)
(* end, and all that came in, with the end, was given to the owner.        *)
(* wait_next_event returns Exit because nothing is left to do, not because *)
(* no rule happened to be interested (eventloop.cc:157-159).               *)
(***************************************************************************)
OverIsDelivered ==
    loop.phase = "ended" /\ ~owner.abort /\ Clean =>
        /\ RemoteGot = owner.wrote
        /\ IsClosed(InboundStream(remote.peer))
        /\ owner.got + Len(w.data_out.bytes) = RemoteWrote
        /\ IsFinished(InboundStream(w.peer))

(***************************************************************************)
(* Nothing kills the process: no rule waits busily (eventloop.cc:212), no  *)
(* write finds a stream that is full or shut (file_descriptor.cc:164),     *)
(* although the owner may have changed the streams since poll returned.    *)
(***************************************************************************)
NothingFails == ~w.failed

(***************************************************************************)
(* wait_until_closed, called at the end of file as                         *)
(* tcp_minnow_socket.hh:24 advises, and the destructor return: the loop    *)
(* ends once the connection is over, and at once when _abort is set.       *)
(***************************************************************************)
JoinReturns == owner.pc = "joining" ~> owner.pc = "done"
=============================================================================
