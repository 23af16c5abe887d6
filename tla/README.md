# Verification of a user-space TCP/IP stack

TLA+ modules, TLC configurations and TLAPS proofs about this repository: a
TCP/IP stack in C++ (`src/` and `util/`), a few programs that use it (`apps/`)
and its tests. Paths below are relative to the repository root. Modules are
named after what they model; a name ending in `_` is a field of the C++ class.

1. [The system](#1-the-system) - components, state, interaction, what is hard
2. [The modules](#2-the-modules) - what models what, and how
3. [The runs](#3-the-runs) - what TLC checks, bounds, fairness
4. [The proofs](#4-the-proofs) - what TLAPS proves, and along which argument
5. [Disagreements](#5-where-code-and-documentation-disagree) between code and documentation
6. [Limits](#6-what-is-not-modelled) - what is not modelled, and what is only model-checked
7. [Plan](#7-plan)

## 1. The system

### Components

| component | source | state | operations |
|---|---|---|---|
| ByteStream | `src/byte_stream.*`, `src/byte_stream_helpers.cc` | `capacity_`, `error_`, `total_pushed_`, `total_popped_`, the buffer, `stream_closed_` | `push`, `close`, `set_error` (Writer); `peek`, `pop` (Reader); `read` |
| Wrap32 | `src/wrapping_integers.*` | a 32-bit number | `wrap`, `unwrap`, `+`, `==` |
| Reassembler | `src/reassembler.*` | the output ByteStream, `unassembled` (index to byte), `end_of_stream` | `insert`, `count_bytes_pending` |
| TCPReceiver | `src/tcp_receiver.*` | a Reassembler, the optional peer's ISN | `receive`, `send` |
| TCPSender | `src/tcp_sender.*` | the outbound ByteStream, the queue of outstanding messages, the timer and its RTO, `abs_seqno_`, `abs_ackno_`, the peer's window, `FINsent_` | `push`, `receive`, `tick`, `make_empty_message` |
| TCPPeer | `util/tcp_peer.hh` | a TCPSender and a TCPReceiver, `linger_after_streams_finish_`, `need_send_`, the time of the last receipt | `push`, `tick`, `receive`, `active` |
| TCPMinnowSocket | `util/tcp_minnow_socket*` | a TCPPeer, an adapter, an event loop, two threads, a socket pair | `connect`, `listen_and_accept`, `wait_until_closed`, three rules, `_tcp_loop` |
| EventLoop | `util/eventloop.*` | the rules: interest, callback, cancel, whether cancelled | `add_rule`, `wait_next_event` |
| TCP-over-IP adapters | `util/tcp_over_ip.*`, `util/tuntap_adapter.*`, `util/lossy_fd_adapter.hh` | the connection's addresses, `listen`, loss rates | `read`, `write`, `tick` |
| Segments and datagrams | `util/tcp_segment.*`, `util/ipv4_*`, `util/ethernet_*`, `util/arp_message.*`, `util/parser.*`, `util/checksum.hh` | of a parser: a list of buffers, how much of the first was read, an error flag | `parse`, `serialize`, checksums |
| NetworkInterface | `src/network_interface.*` | the IP-to-Ethernet map, the requests that wait for an answer, the datagrams that wait for an address, the clock, the inbound queue | `send_datagram`, `recv_frame`, `tick` |
| Router | `src/router.*` | the routing table, the interfaces | `add_route`, `route` |
| Descriptors, sockets, addresses | `util/file_descriptor.*`, `util/socket.*`, `util/address.*` | end-of-file and closed flags, counters | wrapped system calls |
| Applications | `apps/` | two ByteStreams and an event loop (`bidirectional_stream_copy.cc`) | four rules, a loop |

### How they interact

Everything below `TCPMinnowSocket` is a sequential object that is *called*:
bytes go from a program through `Writer::push` into the TCPSender's stream;
`TCPSender::push` cuts them into messages and hands each to a `transmit`
callback; `TCPPeer::send` adds what its TCPReceiver has to say and passes the
message to the adapter. On the way in, `TCPPeer::receive` splits a message
between the TCPReceiver, which inserts the payload into its Reassembler, and the
TCPSender, which takes the acknowledgement and the window; then it may answer.
Time is passed in by calls of `tick(ms)`.

A `TCPMinnowSocket` runs a TCPPeer in a thread of its own, in an EventLoop with
three rules (a datagram came in; the program wrote; the program can take
bytes). The program talks to that thread through a pair of sockets. A
`NetworkInterface` is called by a router or a host with datagrams and by the
wire with frames; a Router moves datagrams between interfaces.

Concurrency therefore comes from: two hosts and a network that loses, repeats
and reorders (TCP); an interface and its neighbours, which answer late, not at
all or with another address (ARP); the program's thread and the TCP thread; the
order in which an event loop serves its rules.

### What is hard, and what "correct" means

`PROJECT.json` lists each hazard with its line. In short:

- **Reassembler** - substrings in any order and overlap, the end mark early or
  empty, the capacity shared between what is stored and what is buffered.
  Correct: the output is a prefix of the stream, nothing that fits the window is
  forgotten or held back, the output is closed just at the end.
- **Wrap32** - which of the 2^32-apart numbers is closest, at zero and at the
  edges. Correct: `unwrap` finds it, and undoes `wrap` near the checkpoint.
- **TCPSender** - window, FIN and payload size at their boundaries; partial and
  stale acknowledgements; a closed window; the timer. Correct: every sequence
  number is handed out once, what is not acknowledged is kept and retransmitted,
  the window is respected and used.
- **TCPReceiver, TCPPeer, the connection** - messages lost, repeated, out of
  order; both sides closing at once; the last acknowledgement lost. Correct: a
  reliable byte stream each way, no side finishes before both streams are across,
  and both finish.
- **NetworkInterface** - mappings and requests that expire between two calls;
  addresses that change; datagrams that wait. Correct: per hop in order, at most
  once, to the latest address; never an endless wait, never a flood of requests.
- **Router, the network** - prefixes of length 0, equal prefixes; routes that form
  a cycle; datagrams that wait at several hops. Correct: the longest prefix is
  chosen, a datagram is in one place at most, arrives in order, never circulates.
- **TCPMinnowSocket, EventLoop** - two threads that share a socket pair and a
  flag; results of `poll` that are out of date when a rule is served; a hangup with
  data still to read; partial writes; rules that are cancelled while others on the
  same descriptor go on. Correct: the socket pair and the connection together are
  one reliable stream each way, the thread ends only when both are complete, `join`
  returns, and nothing kills the process.
- **bidirectional_stream_copy** - four rules, two streams, three descriptors whose
  far ends close and leave in any order. Correct: both copies are reliable
  streams, the loop exits when they are complete or have nowhere to go.
- **Segments, parser, checksum** - objects cut into buffers at any place, of odd
  length, with bytes after their end, or damaged. Correct: what arrives is what was
  sent, or an error.

## 2. The modules

An object of the program is a record with the fields of the class; a method is
an operator from the record (and the arguments) to the new record. Methods that
take a `transmit` callback return the new object and the sequence `sent` of what
they transmitted, in order. These *method modules* have no variables. *System
modules* declare variables, put the objects into surroundings (a program, a
peer, a network, a wire) and state properties. `MC` modules give constants the
values of one check. *Abstract modules* say what a component promises.

| module | kind | models |
|---|---|---|
| `MachineInt` | method | unsigned integers of 16, 32 and 64 bits with their wrap-around; the widths are the constants `Mod16`, `Mod32`, `Mod64` |
| `ByteStream` | method | `src/byte_stream.*` and `read` |
| `Wrap32` | method | `src/wrapping_integers.*` |
| `Reassembler` | method | `src/reassembler.*`: the four sections of `insert` as named operators |
| `StreamReassembly` | system | a Reassembler between a peer and a reader |
| `StreamWindow` | abstract | what a reassembler promises: positions learnt, never forgotten, taken in order |
| `TCPMessages` | method | the messages, and what the one RST bit of the header does to the two flags |
| `TCPReceiver`, `TCPSender`, `TCPPeer` | method | the classes of these names |
| `SenderAlone` | system | a TCPSender with an arbitrary program and an arbitrary peer |
| `TCPConnection` | system | two TCPPeers, their programs, a faulty network: the rules of `TCPMinnowSocket` are its actions |
| `BytePipe` | abstract | what each direction of a connection promises: a reliable byte stream |
| `TCPCloses` | system | `TCPConnection` with time and bounded loss, for liveness |
| `NetworkInterface` | method | `src/network_interface.*` |
| `InterfaceAlone` | system | an interface, its users and its neighbours, with history variables |
| `NextHopQueues` | abstract | what an interface promises for the datagrams of each hop |
| `Router` | method | `src/router.*` |
| `Parser` | method | `util/parser.*` and `util/checksum.hh`: `BufferList`, `Parser`, `Serializer`, `InternetChecksum` on bytes |
| `WireFormat` | method | `parse`, `serialize` and `compute_checksum` of TCP segments, IPv4 and Ethernet headers, ARP messages |
| `PureFunctions` | system | every input of `unwrap` and every routing table, of a small size, against definitions that search; messages in frames, from object to bytes and back |
| `RoutedNetwork` | system | hosts, routers and Ethernet segments, composed of `NetworkInterface` and `Router` |
| `FileDescriptor` | method | `read`, `write`, `close` of `util/file_descriptor.cc` and the kernel streams behind them |
| `EventLoop` | method | the two halves of `wait_next_event`, before and after `poll`; the functions of the rules are operator constants |
| `TCPOverIP` | method | `util/tcp_over_ip.cc`: which datagrams an adapter accepts, and what a listening one locks on to |
| `SocketRules` | method | the three rules of a `TCPMinnowSocket`, an instance of `EventLoop` |
| `MinnowSocket` | system | a `TCPMinnowSocket`: its owner's thread, the thread of its event loop, the socket pair, the remote host |
| `StreamCopy` | system | `apps/bidirectional_stream_copy.cc`, the processes at its pipes and the far end of its socket |
| `FoldProofs`, `TCPLemmas` | lemmas | about folds, and about `Wrap32`, `TCPSender` and `Reassembler`, section 4 |
| `StreamReassemblyProofs`, `InterfaceProofs`, `PureFunctionsProofs`, `SenderProofs`, `ConnectionProofs`, `StreamCopyProofs` | proofs | of the system modules `StreamReassembly`, `InterfaceAlone`, `PureFunctions`, `SenderAlone`, `TCPConnection`, `StreamCopy`, section 4 |

### State and actions

**StreamReassembly.** One variable, the Reassembler. `InsertSubstring` is a call
of `insert` with any substring of `Stream` and, where it reaches the end, with or
without the end mark; `InsertInvalidIndex` is `insert` at 2^64 - 1, the index
`TCPReceiver::receive` computes for a message that repeats the SYN's number
without the SYN; `ReaderPop` is `pop`. The loops of `insert` are replaced by
what they compute: section 2 of `insert`, which advances an index while the byte
at it is stored, is the least index that is not stored (its existence is a
theorem). Out of scope: substrings that disagree, which no sender produces.

**SenderAlone.** One variable, the TCPSender. The program's `Write` and
`CloseStream` change the stream alone, so that `push` is called at any time after
them; `ReceiveAck` has any ackno up to what was sent (and `Beyond` further where
a run says so) and any of a few windows, so that old and new acknowledgements come
in any order; `Tick` adds any of a few durations. Byte *i* of the stream is the
number *i*, so a byte at a wrong sequence number is seen. The loop of `push` is a
fold of one `PushRound` over as many rounds as the loop can take.

**TCPConnection.** `peer` holds the two TCPPeers, `net` the messages on their
way to each. A delivered message stays in `net` until `Lose` takes it out, so it
can come again, late and out of order. `Receive` is rule 1 of the socket,
`AppWrite` and `AppClose` rule 2, `AppRead` rule 3, `Tick` a turn of `_tcp_loop`;
each is the whole callback, every `push` and every answer included. Two
simplifications of state are exact: `need_send_` is false between two calls, so
it is local to `PeerReceive`; and of the time since the last receipt only
"reached `10 * rt_timeout`?" is ever asked, so the counter stops there.
`listening` is the adapter's flag that accepts nothing but a SYN.

**Undefined and odd reads.** `abs_ackno_` has no initializer; its first value is a
parameter of `NewTCPSender`. `TCPSender::receive` dereferences an optional ackno
without asking; `parse` leaves a zero in it, so the value read is the parameter
`nullopt_read`, 0 in all runs.

**InterfaceAlone.** `interface` is the NetworkInterface, `sent` the frames of the
last call. `Send`, `Receive`, `ReceiveARP`, `Tick` are the three methods, with
frames for this interface, for all and for another, of a known and an unknown
type, well-formed or not; `Collect` empties the inbound queue. History: `handed`
(when each datagram came), `left` (which were transmitted), `announced` (what a
neighbour last said and when), `asked` (time of the last request). None of them
is read by the interface. A malformed payload is one value `Malformed`, which
`parse` rejects.

**RoutedNetwork.** `node` holds the interfaces and routes of each host and router,
`wire` the frames on each segment in the order they were transmitted. `Deliver`
hands the first frame to every other interface on the segment, as
`NetworkSegment::run` in `tests/router.cc` does, and appends what they answer;
`OnSegment`, `HostSend` and `HostReads` are the `transmit` of that segment and the
`send_to` and `check` of the `Host` in the same file.
`Route` is the whole of `Router::route`: every queue of every interface is
emptied. Each node has its own clock. Of a checksum only its relation to the TTL
is modelled, since the router changes nothing else: a header whose TTL changed
without its checksum does not parse.

**EventLoop.** `wait_next_event` is two operators, since other threads act while
`poll` waits. `Arranged` is the loop before `poll`: rules whose descriptor is at
its end or closed are cancelled, the others say what they are interested in, and
an earlier rule's cancellation is seen by a later rule's interest. `Served` is
the loop over the results: errors, hangups, at most one callback, the busy-wait
check. Between them stands `Polled`. A rule's four functions are given by
the instance as operators of the rule's name and the program's state, so that
`SocketRules` and `StreamCopy` share the module.

**MinnowSocket.** `w` is what the rules work on: the TCPPeer, the adapter, the
datagrams in the TUN device, the two kernel streams, the flags of the descriptors
and of the socket. `loop` is the thread of the event loop: `opening` while it is
the owner's thread inside `connect` or `listen_and_accept`, `running` in
`_tcp_main`, `over` and `ended`. Its steps are `Poll`, `Serve`, `TimeOut`, `Stop`,
`EndOfMain`; the owner's are `Open`, `Write`, `ShutWrite`, `Read`, `ReadEOF`,
`WaitUntilClosed`, `Destroy`, `Join`, each possible between any two of the loop's.
`_abort` is read after `wait_next_event`, as in the code. The remote host
is a TCPPeer with an adapter like this one, behind a network without loss
(`TCPConnection` has the other networks); it connects, writes, closes, reads,
resets. What this host transmits is at the remote host in the same step; what
comes back waits in the TUN device, where it is as late as the loop makes it.
A listening socket first meets a SYN from another port of the same host.

**StreamCopy.** The same loop without a timeout, with four rules. The user writes
and closes standard input, reads standard output or leaves; the far end of the
socket does what a `TCPMinnowSocket`'s thread may do: write, read, shut one
direction, or both at any time.

**Formats.** In `PureFunctions` an input is a message and how its bytes come in:
cut into buffers at one or two places, followed by other bytes, or with one byte
changed. `Sent` and `Opened` go through all layers as an adapter does. The
buffers are sequences of bytes; `BufferList` keeps `skip_` and `size_` as the code
does, so that what `truncate` and `peek` make of them is what the code makes. What
is opened is a message, `Rejected` by a parser or a checksum, or `Thrown`: an
`out_of_range` of `substr` that leaves the event loop.

## 3. The runs

All runs finish within two minutes with two workers. Every property of a passing run has a mutant in `PROJECT.json`: a
plausible bug in a mapped definition (the `Mutated form of ...` operators in the
method modules) with which TLC finds the property violated under the same `.cfg`.

| run | module | states | question |
|---|---|---|---|
| `functions` | `MCPureFunctions` | 53 000 | Does `unwrap` find the closest number, and undo `wrap`? Is the route chosen the one with the longest prefix? Does a message survive serializing and parsing, and is damage found? |
| `reassembly` | `MCReassembly` | 158 | Do all orders and overlaps give the stream? Is it a `StreamWindow`? |
| `sender` | `SenderAlone` | 58 000 | Does the sender account for every number under any acknowledgements? |
| `connection` | `MCConnection` | 247 000 | Are both directions reliable byte pipes on a faulty network? |
| `closes` | `MCCloses` | 116 000 | Does everything arrive and do both hosts finish? |
| `interface` | `MCInterface` | 135 000 | Do datagrams leave in order, to the latest address, with spaced requests? |
| `network` | `MCNetwork` | 145 000 | Does a datagram stay one datagram, arrive in order, and never circulate? Does it arrive, undisturbed? |
| `socket` | `MCSocket` | 312 000 | Are both streams reliable through the socket pair, does the thread end only when they are complete, does `join` return, does nothing kill the process? |
| `copy` | `StreamCopy` | 122 000 | Are both copies complete when the loop exits, and does it exit? |
| `impossible_ack`, `first_ackno` | `SenderAlone` | | section 5 |
| `partial_write` | `MCSocket` | | section 5 |

**Integer widths.** Nothing in the code depends on 2^16, 2^32, 2^64 as such, only
on their being powers of two, each much larger than what it has to hold. The
runs use small ones, so that numbers *do* wrap: in `connection` the client's
32-bit numbers have 16 values and its ISN is 14.

**`functions`.** The inputs of `unwrap` are exhaustive for 3-bit numbers in 5-bit
ones: the first and last half period, where `unwrap` has to clamp, and more than
one whole period in between are all there. Addresses have three bits; the tables
are all sequences of up to three routes with prefixes of length 0 to 3: nested,
disjoint and equal networks in every order, the default route included. The
reference is the definition of a network as the set of its addresses.
Formats are checked with the real sizes: all combinations of flags, of an absent, a
zero and another ackno, of payloads of even and odd length with bytes 0 and 255,
cut where the adapters cut; and for two messages and two ARP messages every two
places to cut, padding, and every byte after the Ethernet header, which has no
checksum, changed in three ways. `ArrivesAsSent` leaves out padding after
a header that shares its buffer with the payload: section 5.
`DamageIsFound` allows a damage that leaves the message as it was: the
reserved bit of the IPv4 header is not a field, and the checksum is computed
from the fields.

**`reassembly`.** Seven bytes, capacity four: more than one window, so the window
moves, cuts substrings at both ends, and the end mark can be outside it. 158
states are all: a state is how much was read, what is buffered, which of the
window's positions are stored, and whether the end is known.
`TypeOK`, `BytesInPlace`, `PendingInsideWindow`, `ClosedAtEnd` together are the
consequences of the proof's inductive invariant. `WindowSpec` is the refinement.
The system may stop once all is read, so deadlock is not checked.

**`sender`.** Five bytes through a buffer of three in payloads of at most two:
segments of full and of less than full size, a stream that ends on a multiple of
the payload size and one that does not, windows 0, 1, 3 and 6 (closed, probing,
cutting a payload, everything with SYN and FIN). Up to two consecutive
retransmissions: enough for a doubled timeout and for its reset.
`SeqnosAccounted`, `OutstandingContiguous`, `UnackedIsOutstanding` and
`TimerFollowsQueue` relate the fields of the sender. `WindowRespected`, an action
property, says that a push never sends too much; `PushSendsAll` that it never sends too
little. The latter is an invariant about the result of a push in every reachable
state, so that a push which wrongly returns from its first round, and changes nothing, is
found too: its mutant leaves out a message that has only the FIN.
An ackno beyond what was sent, another first value of `abs_ackno_` and an
ISN for which an empty ackno reads as an acknowledgement are left to the
runs of section 5: with them these properties do not hold.

**`connection`.** The client writes two bytes in two messages, the server closes.
At most two messages to the server and one to the client are on their way at
once. The sends are still arbitrary repeats (a message stays until it is lost)
and the queue of the client has room for the old and the new message, so
reordering and duplication happen. One consecutive retransmission per host.
`AckedWasReceived` relates one host's sender to the other's receiver;
`OverIsComplete` is about `active()`; `SomebodyLingers` says that not both hosts
take themselves for the one that need not linger; `PipeSpec` is the refinement
of `BytePipe` in both directions. The hosts stop when they are over, so deadlock
is not checked.

**`closes`.** Liveness: `AllReadAndFinished`, everything that is written is read
and both hosts finish. Window of one byte and two bytes to send, so the window
closes and has to be found open by a probe (nothing announces it).
*Fairness*: the programs read what is there and close at some time (a
program that never reads rightly blocks the connection); a message that is
not lost arrives; the event loops, which poll with a timeout of 10 ms, go on
turning (`util/tcp_minnow_socket_impl.hh` `_tcp_loop`). Each is weak fairness of
one action, with the condition written out under which it is enabled and changes
something. That matters for time: to a host with no timer on that has heard nothing
for `10 * rt_timeout` another turn of the loop changes nothing (`MayTick`), so two
hosts which wait for each other in silence stay so, and the property sees it. The
mutant is of that kind, a sender that does not probe a closed window; so is one
that never sends a FIN alone, and TLC finds a violation for both. *Environment*: at most
`MaxLosses` = 2 messages are lost, and time passes only when the network is
empty: the timeout is longer than a round trip. Both are needed. A sender
never gives up retransmitting, so with unbounded loss nothing has to end;
and a host that lingers `10 * rt_timeout` without a message finishes even if
more losses than that keep the other's FIN from it, after which the other
waits for ever. That is the known limit of any protocol that lingers.

**`interface`.** Two neighbours, two Ethernet addresses, two datagrams for each
hop, time up to 5 with `ARP_TTL` = 1 and `MAP_TTL` = 2: requests expire and are
repeated, a mapping expires while datagrams wait for another hop, an address
changes while it is known. The code's 5000 and 30000 ms stand in the same
order; only comparisons with them matter. The neighbours and the addresses are
symmetric: no constant or property tells them apart. Deadlock is checked.

**`network`.** Segment s0 with host A and routers R1, R2; segment s1 with R2 and
host B. R1 and R2 have default routes to each other, so a datagram for an address
that is nowhere goes to and fro until its TTL is used up; one for B passes both
routers. A sends two datagrams with a TTL of 4; one frame is lost (an ARP message
or a datagram); each node's clock leaps once so far that all mappings and requests
it has expire, at any moment. *Fairness*: a frame that is not lost is delivered,
and `route` is called when something came in, as the main loop of
`apps/fun_router.cc` does after every event. The conditions under which these
actions are enabled are written out. `NothingCirculates` needs no bound on
time: what waits for an address may wait.
`EverythingArrives` speaks of the behaviours without loss and without expiry: with
them a datagram need not arrive, since an interface gives up.

**`socket`.** One byte from the owner, two from the remote host, through kernel
streams with room for one byte, so that the second byte waits in the inbound
stream for the owner to read; windows of one and two bytes; the turns of the loop that find
nothing take five retransmission timeouts each, half of what a host lingers.
The remote host may reset as long as it wrote at most one byte (`ResetLimit`):
with two, rule 3 can meet the partial write of section 5, and the run `partial_write`
shows it. `Advised` says that `wait_until_closed` is called at the end of file
only, as `util/tcp_minnow_socket.hh:24` advises; the destructor may be called at
any time. `LocalPipes` is the refinement of `BytePipe` in both directions, from
the owner's `write` to the remote host's stream and back, `OverIsDelivered` and
`JoinReturns` say when the thread ends. `NothingFails` covers the exceptions of
`EventLoop` and `FileDescriptor` and the signal of a write to a shut stream.
*Fairness*: the thread of the loop goes on, since `poll` returns after 10 ms
(`TCP_TICK_MS`); the remote program reads what came in; `join` returns when the
thread has ended. Neither program need close: `JoinReturns` is about an owner
that called `wait_until_closed` at the end of file, so the remote host has closed, or the
destructor. Each is weak fairness of one action with its enabling
condition written out, since TLC would evaluate the folds of `ENABLED` many times
over. A host may stop when its program does, so deadlock is not checked.

**`copy`.** Three bytes each way through byte streams of two and kernel streams
of one. So buffers fill, writes are partial, and the end comes with bytes still
in every place. `CopyPipes` is the refinement of `BytePipe` for each copy;
`ExitIsComplete` relates the exit of the loop to both. *Fairness*: the loop goes on
whenever `poll` has something to report, and whoever reads goes on reading
while there is something to read (`WF_vars(UserRead)`, `WF_vars(FarRead)`); nobody
has to write, close or leave. `CopyEnds` therefore has a condition, `MustEnd`:
both inputs are closed, or somebody has left. A process that leaves
between `poll` and the write kills the program by SIGPIPE, which
`FailsOnlyWhenLeft` allows and limits to that case.

## 4. The proofs

The proof modules are each checked by `tlapm` without an unproved obligation.
"For every value of the constants" is meant literally: any number of hops, any stream,
any capacity, any word width with `Mod32 <= Mod64`, under the assumptions of the modules
(`MachineInt`: `Mod16`, `Mod32`, `Mod64` are powers of two; in a module with a stream: its length and
the capacity are so far below 2^64 that the code's own indices do not overflow; in
`TCPConnection`: a stream takes less than half of the 32-bit sequence numbers; in `StreamCopy`: the size
of the two byte streams is a 64-bit number, and each buffer, pipe and read has room for at least one byte). The bounds of
the model, such as `NetSize` and `MaxRetx` of `TCPConnection`, are constants too: a theorem
holds for each of their values, that is without bound.

| module | theorem | statement |
|---|---|---|
| `FoldProofs` | `FoldInvariant` | what holds at the start of a fold over a sequence, and is kept by each of its steps, holds at its end |
| `StreamReassemblyProofs` | `Invariance` | `Spec => []IInv` |
| | `TypeCorrect`, `Integrity`, `WithinCapacity`, `Closing` | `TypeOK`, `BytesInPlace`, `PendingInsideWindow`, `ClosedAtEnd` |
| | `ImplementsWindow` | `Spec => WindowSpec`: the refinement of `StreamWindow` |
| `InterfaceProofs` | `Invariance` | `Spec => []IInv` |
| | `TypeCorrect`, `NobodyWaitsInVain`, `AddressIsNews` | `TypeOK`, `WaitingIsAsked`, `RightAddress` |
| | `AsksSeldom` | `Spec => RequestsSpaced`, an action property |
| | `ImplementsQueues` | `Spec => QueuesSpec`: the refinement of `NextHopQueues` |
| `TCPLemmas` | `UnwrapClosest` | `unwrap` yields a number that wraps to its argument, and none closer to the checkpoint does |
| | `SurvivesWire` | `Unwrap(Wrap(n, z), z, c) = n` for `n` less than half a period from `c` |
| | `PushKeeps`, `TickKeeps`, `ReceiveKeeps`, `WriteKeeps`, `CloseKeeps` | each method leaves a sender `Good` |
| | `FirstGapProperties` | the search of section 2 of `insert` ends at the first index not stored |
| | `InsertKeeps`, `PopKeepsAssembling` | `insert` of a right substring and `pop` leave a Reassembler that assembles the stream |
| `PureFunctionsProofs` | `ClosestUnwrapped`, `NearbySurvives` | the same as invariants of `PureFunctions`: `UnwrapIsClosest`, `RoundTrip` |
| | `LongestPrefix` (assumes `Powers`) | `LongestPrefixChosen` |
| `SenderProofs` | `Invariance` | `Spec => []IInv` |
| | `EveryNumberIsOfAByte`, `RetransmitsWhatWasSent` | `SeqnosAccounted`, `OutstandingContiguous` |
| | `TimerFollows` (assumes `Powers`) | `TimerFollowsQueue` |
| | `StaysInWindow` | `Spec => WindowRespected`, an action property |
| | `PushIsComplete` | `PushSendsAll`, of every push from every reachable state |
| | `NothingUnackedIsLost` (assumes `TrueAcknos`) | `UnackedIsOutstanding` |
| `ConnectionProofs` | `Invariance` | `Spec => []IInv` |
| | `BytesArriveIntact`, `OneLingers` | `StreamIntact`, `SomebodyLingers` |
| | `ImplementsPipe` | `Spec => PipeSpec`: the refinement of `BytePipe` in both directions |
| | `AcksInvariance` (assumes `EmptyAcknoIgnored`) | `Spec => []AckInv` |
| | `AckedWasThere`, `OverIsOver` (assume `EmptyAcknoIgnored`) | `AckedWasReceived`, `OverIsComplete` |
| `StreamCopyProofs` | `Invariance` | `Spec => []IInv` |
| | `ExitsComplete`, `OnlyLeavingFails` | `ExitIsComplete`, `FailsOnlyWhenLeft` |
| | `CopiedInOrder` | the readers find the bytes in the order in which they were written |
| | `CopyIsPipes` | `Spec => CopyPipes`: the refinement of `BytePipe` in both directions |

### Induction over a loop

The loop of `TCPSender::push` is a fold in the model, and the induction theorems
of the library take a predicate as a parameter, which the provers cannot
instantiate. `FoldProofs` goes another way: it is a module whose parameters are an
operator for the step of the fold and one for the invariant, and it is used through an
`INSTANCE` that names both. Its one theorem is proved from the fact that a
non-empty set of naturals has a least element: of the rounds after which the
invariant does not hold there would be a first, and it is kept by that round. So what
the loop computes is proved by one lemma about one round. The two loops of
`wait_next_event` are proved in the same way, and so is the search of a route.

### StreamReassembly

No invariant is inductive alone. That a pushed byte is the right one
(`BytesInPlace`) needs that the stored bytes are right; that the buffer keeps
to its capacity and `push` cuts off nothing needs that the stored indices are inside the window
(`PendingInsideWindow`); that `insert` closes the stream just at its end needs that the recorded end
is the end; that what comes after the end mark changes nothing
needs `ClosedAtEnd`. The induction hypothesis is that the Reassembler assembles a stream,

    Assembling(S, byte, capacity, limit, r) ==
        /\ IsReassembler(capacity, r) /\ OutputOK(S, byte, capacity, limit, r.output)
        /\ PendingOK(S, byte, capacity, limit, r) /\ EndOK(limit, r)

whose byte *i* is `byte[i]` and of which `limit` bytes exist: the output is the stream's
prefix, what is stored is the stream's and inside the window, the end is where it should be.
It is stated in `TCPLemmas` for a stream that may still grow, since the
connection uses the same lemmas. `InsertKeeps` is their core. The set of stored indices
after section 1 (store what is new and inside the window) is finite, so the
first index that is missing exists (`FirstGapProperties`, from `LeastElement`);
everything before it is stored, so what section 2 assembles is a
function on an interval, that is a sequence (`FunctionIsSequence`) whose bytes are
the stream's; it fits into the free capacity, so `push` takes all of it
(`PushAll`); what remains stored lies strictly behind the gap. With 64-bit
arithmetic nothing wraps, since every index stays below the length of the stream and the
capacity together. The index 2^64 - 1 of `InsertInvalidIndex` lies outside every window.
The refinement follows from the same invariant: what an `insert` writes is a step of the abstract
window, and where it writes nothing, a stutter.

### InterfaceAlone

    IInv == Whole /\ TypeOK /\ HistoryOK /\ MappingsAreNews
              /\ RequestsAreAsked /\ WaitingIsAsked /\ RightAddress

`WaitingIsAsked` is about the queue, the table of requests and the cache, which
`send_datagram`, `recv_frame` and `tick` change at different moments. It is inductive only
together with the relation between both tables and what was said on the wire:
each cached mapping is the last announcement of its hop and not older than the cache
says (`MappingsAreNews`), each pending request was sent when the table says
(`RequestsAreAsked`). `RequestsSpaced` is an action property and needs the same relations in the state
before the step: a hop that was asked for not long ago is in one of the tables, so
`send_datagram` does not ask again. The refinement mapping of `QueuesSpec` is the
one of the run; each step is a step of one queue of the abstract module or a stutter. The
invariant was first checked by TLC on `MCInterface` (135272 states).

### SenderAlone

    IInv == IsSender /\ InputOK /\ FieldsOK /\ Accounted /\ InOrder /\ Timed       of the sender

`Accounted` is the law of `SeqnosAccounted` (a SYN, the bytes taken from the stream
and a FIN are what was numbered) with the two flags; `InOrder` says that the outstanding segments are
contiguous from the first to `abs_seqno` and hold the stream's bytes; `Timed`
that the timer runs just while the queue is not empty. Each of them needs the others:
the bytes of a new segment are the stream's because what was taken from the stream is what
was numbered, and the sum of the lengths (`sequence_numbers_in_flight`) is the length of an
interval because the queue is contiguous. `push` goes round by round: `RoundKeeps` shows
that one round, a segment of what window and stream allow, keeps `Good`, and
`FoldInvariant` takes it to the end of the loop. `PushSendsAll` needs, besides, that
the loop stops only where nothing more can be sent (`Stuck`), within as many rounds as the
model gives it.

Two hypotheses occur in the theorems, stated as operators of the module:

- `Powers`: two facts about 2^n (`2^0 = 1`, `2^(n+1) = 2 * 2^n`), which is recursively
  defined and which the provers do not know. `TimerFollowsQueue` mentions 2^n, and so does `LongestPrefixChosen`, whose module
  has the same hypothesis.
- `TrueAcknos`: `abs_ackno_` starts as 0, no ackno lies beyond what was sent (`Beyond = 0`), and an
  empty one, read as 0, acknowledges nothing. These are what the findings
  of section 5 are about, and what the constants of the run `sender` satisfy. Without them `UnackedIsOutstanding` is false.

The invariant holds without them; TLC checked it on the instances of `sender` (58496 states),
`first_ackno` (81908) and `impossible_ack` (85424).

What the methods do to a `Good` sender is proved in `TCPLemmas`, about a record and not about a
variable, so that `TCPConnection` has the same lemmas.

### TCPConnection

    IInv ==
        /\ \A h \in Hosts :
              /\ the sender of h is Good, for the stream that its program wrote
              /\ the other host's receiver is Assembling the bytes that this sender took
                 from the stream, and knows their end, or the ISN, only if they were sent
              /\ what is on the network from h was sent by h (Carried, Acknowledges)
              /\ LingerOK /\ FINFollows
        /\ ListeningOK /\ one host lingers

The network is arbitrary, so a message may arrive after everything else that happened.
The invariant therefore says of a message only what stays true: `Carried` places it at some number
below the sender's next one and gives it the bytes of the stream at that place, `Acknowledges` lets it
acknowledge some number the receiver has reached. Each is monotone: a sender `Advances` and a
receiver `ReceiverGrows`, and both keep the old messages (`CarriedStays`, `AcknowledgesStays`). On the way in,
`ReceiverTakes` shows that `TCPReceiver::receive` finds the place of the payload again: the
32-bit number of a message is unwrapped with the bytes received as checkpoint, and since the whole stream takes
less than half of the numbers, every message that can still be on the way is closer to
the checkpoint than half a period (`NumberSurvives`, from `SurvivesWire`). For a longer stream this
is no theorem: a message that stays on the network while 2^31 bytes pass would be taken for a later one,
as in any TCP without timestamps. The payload is then a right substring and
`InsertKeeps` applies; a message that repeats the SYN's number without the SYN has index 2^64 - 1, which
the Reassembler ignores.

A step of the specification is a loss or a move of one host (`HostMoves`), and a move is taken apart as
the code is: the change of the stream, the arrival or the tick (`InputFollows`, `TakenFollows`,
`TickMoves`), then `push` (`PushFollows`), then the answer (`ReceiveMoves`), each a `HostStep`. `HostStepKeeps` has
then to be proved once for all actions. `SomebodyLingers` rests on `LingerOK`: a
host whose flag is cleared has got the FIN of the other host, and the flag is cleared only while the host's own
FIN is not sent; so of two hosts the second one cannot clear its flag as well. `FINFollows`, an ended stream with
nothing outstanding has sent its FIN, holds since every step of the code that can bring this about pushes; it is what
`active()` relies on. `ImplementsPipe` needs of the invariant that what arrived is at most what
was written, and that the end is seen only after everything (`ArrivalsOK`); a step of
one host is then a `Write` or `Finish` of one pipe and an `Arrive` of the other, or stutters.

All this holds whatever acknowledgements the senders believe. `AckedWasReceived` and `OverIsComplete` do not: the first SYN of
the client has no ackno, and the server reads 0 in its place (section 5). If 0 happens to be the number of a byte
that the server has sent, the server believes it was received.
So these two have a hypothesis on the server's ISN,

    EmptyAcknoIgnored == Config[Server].isn + 2 * (ToWrite[Server] + 2) < Mod32

under which that 0 is beyond everything sent, and a second inductive layer,

    AckInv == no sender's abs_ackno_ lies beyond what the other host received, and it is
              at the front of the queue or inside its first message

proved on top of `IInv`. `MCConnection` states the hypothesis as an assumption, so that TLC
evaluates it for the instance of the run. TLC checked `IInv` and `AckInv` on it before they were
proved (247003 states).

### StreamCopy

    IInv ==
        /\ IsParty(user) /\ IsParty(far)
        /\ Sound(w, user, far)                 both directions; the errors; who shut what
        /\ the loop has some of the four rules, in the order in which they were added
        /\ unless it exited:  Ruled(w, Names(loop.rules), user, far)
        /\ after poll:        PollHolds for each rule and what poll said of it
        /\ if it exited:      both ends were shown, or somebody has left

`Sound` is what the copy is about. Each direction `Carries` its bytes: what lies in
the source, in the byte stream and in the sink, put one behind the other, are the
bytes written and not yet read, and the end is seen and shown only after all of
them. That is inductive for the bytes, but the failures and the exit depend on
three facts about the event loop that no single callback shows:

- *A rule is dropped only when nobody misses it.* `Tied` says for each direction
  that without the rule that fills it the stream is closed, and that without the
  rule that drains it the end was shown or the reader is gone. Otherwise
  `wait_next_event` could find nothing to poll and exit with bytes in a buffer. Rules
  go in three ways: their descriptor is at its end or closed
  (`util/eventloop.cc:132-143`), there was an error (`:160-181`), or a hangup
  (`:185-196`). Each has its own reason why that is right (`DefunctMayGo`,
  `PollHolds`), and each calls `cancel`, which closes the stream (`CancelKeeps`,
  `ErrorKeeps`).
- *What `poll` said still holds.* Between `poll` and the callbacks the user and
  the far end go on, and rules before this one were cancelled. `PollHolds` says what
  remains of a result: a reader that has left does not come back, a source at
  its end stays there, a pipe with room has no less of it, since only this process
  writes to it. So a callback always has something to do (`RoomFor`): that is what
  the busy-wait check (`:212`) asks for, and why a write never finds a full pipe.
- *Interest and `poll` fit.* After the first half of `wait_next_event` a rule of which nothing was
  asked is not interested (`Asks`). If this is so of all rules the loop exits, and
  that the buffers are then empty and the ends were shown follows from `Ruled` and from the
  interests of the four rules (`ExitHolds`).

The two halves of `wait_next_event` are loops over the rules in which an earlier rule
changes what a later one sees. Their invariants, `ArrangeInv` and `ServeInv`, say
which rules are left after the first *i*, and that `Sound` and `Ruled` hold for these
in the program's state so far. One round cancels a rule, keeps it, or calls it:
`Rule1Works` to `Rule4Works` say of each callback that it keeps `Sound` and
`Ruled`, moves the bytes forward only (`Advances`), and has read or written
something or has lost its interest. A step of the user or of the far end
changes one end of a stream, keeps `Carries`, and makes the world `Later`, under which
`Ruled` and `PollHolds` stay true.

`CopyIsPipes` follows from `Sound` before and after a step: a turn of the loop is an
`Arrive` of the bytes that came to the sink, and shows the end only after the last of
them. It speaks of lengths alone; that the bytes are the right ones is
`CopiedInOrder`.

TLC checked `IInv` and the order of the bytes before they were proved, with pipes of
two bytes (130839 states) and on the instance of `copy` (121858 states).

### Wrap32

`unwrap` takes the number of the right remainder in the period of the checkpoint and moves
it by one period if it is more than half of one away, unless it would fall below 0.
`UnwrapClosest` compares the result with any other number of the same remainder, which
is a multiple of the period away; `SurvivesWire` uses it for a number that is
closer than half a period.

### The choice of a route

The loop of `Router::route` compares masked addresses and lengths; `LongestPrefixChosen` speaks of networks as sets of
addresses. `BestIndexIs` is about the loop: it finds the first of the longest routes that match (a fold, with
`ChoiceInv` as the invariant of a round). `MatchesNetwork` says that a mask of
a length selects just the addresses of one block, the length 0 with its case of its own included, and `LongerIsInside`
that of two blocks with a common address the one with the longer prefix is inside the other and smaller: so longest
is smallest, and equally long is equal. That 2^(a + b) = 2^a * 2^b follows from the hypothesis `Powers`
by the least exponent for which it would be wrong.

### Only model-checked

- *Liveness and `ENABLED`* (`AllReadAndFinished`, `EverythingArrives`, `JoinReturns`, `CopyEnds`):
  out of the prover's reach.
- *`ArrivesAsSent`, `DamageIsFound`*: the checksum of a sequence of bytes is
  a recursive sum.
- *`MinnowSocket`* and its refinement: two threads, a remote host and the kernel between
  them. Its properties hold under `ResetLimit` and `Advised` only, which say when a reset or a call
  may come. An inductive invariant has to contain that of `TCPConnection` and one like that of
  `StreamCopy` for three other rules; it was not attempted. Of its parts the theorems above hold.
- *`RoutedNetwork`*: `OneCopy` and `DeliveredInOrder` need an invariant about all the queues of all
  nodes, and where each datagram may be on its way; it was not attempted. Of one interface, and of
  the choice of a route, the theorems above hold.
- *`TCPCloses`*: `TCPConnection` with a clock, made for liveness alone.

## 5. Where code and documentation disagree

Each is a run with the expected result *violation*: the property says what a
document, a comment or a test says.

| run | what the code does | what is said |
|---|---|---|
| `impossible_ack` | After an ackno inside an outstanding segment, `abs_ackno_ + sequence_numbers_in_flight()` is larger than the next sequence number, and an ackno beyond what was sent is accepted (`src/tcp_sender.cc:110`). | `tests/send_ack.cc:63` "Impossible ackno (beyond next seqno) is ignored" |
| `first_ackno` | `abs_ackno_` is uninitialized; with a large value acknowledgements are ignored (`src/tcp_sender.hh:52`). | `tests/send_connect.cc:32` "SYN acked test" |
| `partial_write` | After an RST, rule 3 writes what the socket pair has room for, shuts it down although bytes are left, and stays interested in them; the next write ends the process with SIGPIPE (`util/tcp_minnow_socket_impl.hh:149`). | the comment at `:140`, "handling the possibility of a partial write (i.e., only pop what was actually written)" |

Met while modelling, without a run of their own:

- `TCPSender::receive` dereferences the ackno without asking (`src/tcp_sender.cc:107`).
  A message without one, such as a SYN, is then read as ackno 0, which acknowledges
  data if the ISN lies just below 2^32. `util/tcp_receiver_message.hh:13` calls
  the field "empty if the TCPReceiver hasn't yet received the Initial Sequence Number".
- The window of an old, delayed message replaces the current one
  (`src/tcp_sender.cc:106`); the sender may send beyond what is offered, and
  the receiver drops it.
- Nothing compares the number of retransmissions with `MAX_RETX_ATTEMPTS`
  (`util/tcp_config.hh:16` "before giving up"): a host whose peer is gone
  goes on for ever.
- `~TCPMinnowSocket` sends no RST, though `util/tcp_minnow_socket.hh:34` and `:117` say so.
- An RST looks to the owner like a clean end of file.
- `wait_until_closed` before the end of file can shut the socket pair between `poll`
  and the write of rule 3: SIGPIPE.
- While both directions of the socket pair hang up and rule 2 does not ask to read,
  `poll` returns at once, again and again, and no rule is served: the loop spins until
  the connection is over. `JoinReturns` holds nevertheless.
- A stray SYN makes a listening adapter lock on to its sender.
- `BufferList::truncate` (`util/parser.cc:31-67`) counts from the start of the
  first buffer although `skip_` bytes of it were read. Of a datagram followed by padding,
  in one buffer with its header as in `apps/fun_router.cc:174`, too much
  is cut off, or `substr` throws.
- When an ARP request expires, all datagrams that wait for it are dropped, also one that
  was queued just now (`src/network_interface.cc:149`); `writeups/check5.md:23`
  speaks of a creation time for each queued datagram. `NextHopQueues` promises what
  the code does.

The passing runs state their assumption wherever one of these would disturb
them: `abs_ackno_` starts as 0 (`FirstAcknos`), ackno and window are those a real
receiver sends, the server's ISN is 2, for which an empty ackno acknowledges
nothing, and `ResetLimit` and `Advised` are as said for the run `socket`.

## 6. What is not modelled

- **Rules without a descriptor** and `RuleHandle::cancel` of the EventLoop: no
  program of the repository uses them.
- **`LossyFdAdapter` with the sockets**: its loss is in `TCPConnection`; `MinnowSocket` has
  a network without loss.
- **`tcp_eth_udp.cc`**: its adapter is `NetworkInterface` and `TCPOverIP` one after
  the other, each modelled; the composition is not. **`webget.cc`, `tcp_ipv4.cc`,
  `tcp_native.cc`, `ip_raw.cc`**: command lines.
- **Address, the other sockets, `tun.cc`**: wrappers of system calls, pure I/O.
- **`Parser::string`, `to_string`**: nothing calls the one, the other is for people.
- **Ref, helpers, random, debug**: ownership of memory and formatting.
- **`current_time_` of NetworkInterface wrapping around** at 2^64 ms.
- **Tests, check programs**: they are read as statements of what is expected.

## 7. Plan

Done, in this order: `ByteStream`, `Wrap32`, `Reassembler` and its proofs;
`TCPSender` alone; two `TCPPeer`s; liveness; `NetworkInterface`; `Router` and a
network of them; `EventLoop`, `TCPOverIP` and `MinnowSocket`; `StreamCopy`; `Parser`
and `WireFormat`.

Next modules: the adapter of `tcp_eth_udp.cc` as a composition of `TCPOverIP` with
`NetworkInterface`.

Proved, in this order: `StreamReassembly`; `InterfaceAlone` and its refinement; the refinement of
`StreamWindow`; `Wrap32`; `SenderAlone`; `TCPConnection` and its refinement; `StreamCopy` and its
refinement; the choice of a route.

Next theorems, in this order:

1. `RoutedNetwork`: `OneCopy`.
2. `MinnowSocket`: the safety of the local pipes, from `IInv` of the connection and the lemmas about the
   event loop in `StreamCopyProofs`.
