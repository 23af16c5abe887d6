--------------------------- MODULE InterfaceProofs ---------------------------
(***************************************************************************)
(* The safety of InterfaceAlone, and that it implements NextHopQueues, for *)
(* any neighbours, addresses, times to live and ticks.                     *)
(***************************************************************************)
EXTENDS InterfaceAlone, SequenceTheorems, TLAPS

Waiting  == interface.datagrams_waiting
Requests == interface.arp_requests_waiting
Mappings == interface.ip_ether_map

\* The history of what left, with some more numbers for hop h
Longer(history, h, numbers) == [history EXCEPT ![h] = @ \o numbers]

(***************************************************************************)
(* The frames of one call: some ARP messages, then datagrams for one hop.  *)
(* After i of them, c.left has grown by the numbers of the datagrams among *)
(* them.                                                                   *)
(***************************************************************************)
LeftWith(c, i, history) ==
    history = Longer(c.left, c.hop, SubSeq(c.numbers, 1, i - c.arp))

History == INSTANCE FoldProofs WITH Op <- WithFrame, Inv <- LeftWith

\* Appending to the second of two sequences appends to both.
LEMMA AppendToConcat ==
    ASSUME NEW S, NEW a \in Seq(S), NEW b \in Seq(S), NEW x \in S
    PROVE  Append(a \o b, x) = a \o Append(b, x)
<1>1. <<x>> \in Seq(S)
    OBVIOUS
<1>2. a \o b \in Seq(S)
    BY ConcatProperties
<1>3. Append(a \o b, x) = (a \o b) \o <<x>>
    BY <1>2, AppendIsConcat
<1>4. Append(b, x) = b \o <<x>>
    BY AppendIsConcat
<1>5. (a \o b) \o <<x>> = a \o (b \o <<x>>)
    BY <1>1, ConcatAssociative
<1> QED BY <1>3, <1>4, <1>5

LEMMA LeftAfter ==
    ASSUME NEW history \in [Hops -> Seq(Nat)], NEW h \in Hops,
           NEW S, NEW frames \in Seq(S), NEW arp \in 0 .. Len(frames),
           NEW numbers \in Seq(Nat), Len(numbers) = Len(frames) - arp,
           \A i \in 1 .. arp : frames[i].type # "IPv4",
           \A i \in 1 .. Len(numbers) :
               /\ frames[arp + i].type = "IPv4"
               /\ frames[arp + i].payload.hop = h
               /\ frames[arp + i].payload.number = numbers[i]
    PROVE  WithFrames(history, frames) = Longer(history, h, numbers)
<1> DEFINE c == [left |-> history, hop |-> h, numbers |-> numbers, arp |-> arp]
           n == Len(frames)
           part(i) == SubSeq(numbers, 1, i - arp)
           Grown(p) == Longer(history, h, p)
<1>1. n \in Nat /\ DOMAIN frames = 1 .. n /\ Len(numbers) \in Nat
      /\ arp \in Nat /\ arp <= n
    BY LenProperties
<1>2. \A i, acc : LeftWith(c, i, acc) <=> acc = Grown(part(i))
    BY DEF LeftWith
<1>3. history[h] \in Seq(Nat)
    OBVIOUS
<1>4. ASSUME NEW i \in 0 .. n, i <= arp
      PROVE  part(i) = <<>>
    <2>1. i - arp \in Int /\ i - arp < 1
        BY <1>1, <1>4
    <2> QED BY <2>1, SubSeqEmpty
<1>5. Grown(<<>>) = history
    BY <1>3, ConcatEmptySeq DEF Longer
<1>6. ASSUME NEW i \in 1 .. n, i > arp
      PROVE  /\ part(i - 1) \in Seq(Nat)
             /\ part(i) = Append(part(i - 1), numbers[i - arp])
    <2> DEFINE k == i - arp
    <2>1. k \in 1 .. Len(numbers) /\ i - 1 - arp = k - 1
        BY <1>1, <1>6
    <2> HIDE DEF k
    <2>2. SubSeq(numbers, 1, k) = SubSeq(numbers, 1, k - 1) \o <<numbers[k]>>
        BY <2>1, SubSeqRecursiveSecond
    <2>3. \A j \in 1 .. k - 1 : numbers[j] \in Nat
        BY <2>1, ElementOfSeq
    <2>4. SubSeq(numbers, 1, k - 1) \in Seq(Nat) /\ numbers[k] \in Nat
        BY <2>1, <2>3, SubSeqProperties, ElementOfSeq
    <2>5. SubSeq(numbers, 1, k) = Append(SubSeq(numbers, 1, k - 1), numbers[k])
        BY <2>2, <2>4, AppendIsConcat
    <2> QED BY <2>1, <2>4, <2>5 DEF k
<1>7. ASSUME NEW p \in Seq(Nat), NEW x \in Nat, NEW frame,
             frame.type = "IPv4", frame.payload.hop = h,
             frame.payload.number = x
      PROVE  WithFrame(Grown(p), frame) = Grown(Append(p, x))
    <2>1. history[h] \o Append(p, x) = Append(history[h] \o p, x)
        BY <1>3, AppendToConcat
    <2>2. WithFrame(Grown(p), frame) = [Grown(p) EXCEPT ![h] = Append(@, x)]
        BY <1>7 DEF WithFrame
    <2>3. [Grown(p) EXCEPT ![h] = Append(@, x)] =
              [history EXCEPT ![h] = Append(history[h] \o p, x)]
        BY DEF Longer
    <2> QED BY <2>1, <2>2, <2>3 DEF Longer
<1> HIDE DEF c, part, Grown
<1>8. LeftWith(c, 0, history)
    <2>1. part(0) = <<>>
        BY <1>1, <1>4
    <2> QED BY <2>1, <1>2, <1>5
<1>9. ASSUME NEW i \in 1 .. n, NEW acc, LeftWith(c, i - 1, acc)
      PROVE  LeftWith(c, i, WithFrame(acc, frames[i]))
    <2>1. acc = Grown(part(i - 1))
        BY <1>2, <1>9
    <2>2. CASE i <= arp
        <3>1. part(i - 1) = <<>> /\ part(i) = <<>>
            <4>1. i - 1 \in 0 .. n /\ i \in 0 .. n /\ i - 1 <= arp
                BY <1>1, <2>2
            <4> QED BY <4>1, <1>4, <2>2
        <3>2. WithFrame(acc, frames[i]) = acc
            BY <1>1, <2>2 DEF WithFrame
        <3> QED BY <1>2, <2>1, <3>1, <3>2
    <2>3. CASE i > arp
        <3> DEFINE k == i - arp
        <3>1. k \in 1 .. Len(numbers) /\ arp + k = i
            BY <1>1, <2>3
        <3>2. /\ frames[i].type = "IPv4" /\ frames[i].payload.hop = h
              /\ frames[i].payload.number = numbers[k] /\ numbers[k] \in Nat
            BY <3>1, ElementOfSeq
        <3>3. WithFrame(Grown(part(i - 1)), frames[i]) =
                  Grown(Append(part(i - 1), numbers[k]))
            BY <1>6, <1>7, <2>3, <3>2
        <3>4. Append(part(i - 1), numbers[k]) = part(i)
            BY <1>6, <2>3
        <3> QED BY <1>2, <2>1, <3>3, <3>4
    <2> QED BY <1>1, <2>2, <2>3
<1>10. LeftWith(c, n, History!Fold(history, frames))
    <2>1. \A i \in 1 .. n : \A acc :
              LeftWith(c, i - 1, acc) => LeftWith(c, i, WithFrame(acc, frames[i]))
        BY <1>9
    <2> QED BY <2>1, <1>1, <1>8, History!FoldInvariant
<1>11. part(n) = numbers
    <2>1. part(n) = SubSeq(numbers, 1, Len(numbers))
        BY DEF part
    <2> QED BY <2>1, SubSeqFull
<1>12. History!Fold(history, frames) = Grown(numbers)
    BY <1>2, <1>10, <1>11
<1>13. WithFrames(history, frames) = History!Fold(history, frames)
    BY DEF History!Fold, History!FoldLeft, History!MapThenFoldSet, History!Max,
       WithFrames, FoldLeft, MapThenFoldSet, Max
<1> QED BY <1>12, <1>13 DEF Grown
-----------------------------------------------------------------------------
(* The inductive invariant *)

\* The object keeps its shape.
Whole ==
    interface = [ethernet_address |-> OwnEther, ip_address |-> OwnIP,
                 datagrams_received |-> interface.datagrams_received,
                 datagrams_waiting |-> Waiting,
                 arp_requests_waiting |-> Requests,
                 ip_ether_map |-> Mappings, current_time |-> Now]

HistoryOK == handed \in [Hops -> Nat] /\ left \in [Hops -> Seq(Nat)]

\* The mappings are the announcements that are not older than MAP_TTL.
MappingsAreNews ==
    /\ \A h \in DOMAIN Mappings :
          /\ h \in DOMAIN announced
          /\ Mappings[h].ether_addr = announced[h].ether
          /\ Mappings[h].time_created = announced[h].at
          /\ Now - announced[h].at <= MAP_TTL
    /\ \A h \in DOMAIN announced :
          /\ announced[h].at \in Nat
          /\ Now - announced[h].at <= MAP_TTL => h \in DOMAIN Mappings

\* The requests waited for are those that are not older than ARP_TTL.
RequestsAreAsked ==
    /\ \A h \in DOMAIN Requests :
          /\ h \in DOMAIN asked /\ Requests[h] = asked[h]
          /\ Now - asked[h] <= ARP_TTL
    /\ \A h \in DOMAIN asked :
          /\ asked[h] \in Nat
          /\ Now - asked[h] <= ARP_TTL => h \in DOMAIN Requests

IInv ==
    /\ Whole /\ TypeOK /\ HistoryOK
    /\ MappingsAreNews /\ RequestsAreAsked
    /\ WaitingIsAsked /\ RightAddress

LEMMA InitInv == Init => IInv
<1> SUFFICES ASSUME Init PROVE IInv
    OBVIOUS
<1>1. interface = [ethernet_address |-> OwnEther, ip_address |-> OwnIP,
                   datagrams_received |-> <<>>, datagrams_waiting |-> <<>>,
                   arp_requests_waiting |-> <<>>, ip_ether_map |-> <<>>,
                   current_time |-> 0]
    BY DEF Init, NewInterface
<1>2. /\ Waiting = <<>> /\ Requests = <<>> /\ Mappings = <<>> /\ Now = 0
      /\ interface.datagrams_received = <<>>
    BY <1>1 DEF Waiting, Requests, Mappings, Now
<1>3. DOMAIN <<>> = {}
    OBVIOUS
<1>4. Whole
    BY <1>1, <1>2 DEF Whole
<1>5. TypeOK
    BY <1>2, <1>3 DEF TypeOK, Waiting, Requests, Mappings
<1>6. HistoryOK
    BY DEF HistoryOK, Init
<1>7. MappingsAreNews /\ RequestsAreAsked
    BY <1>2, <1>3 DEF MappingsAreNews, RequestsAreAsked, Init
<1>8. WaitingIsAsked /\ RightAddress
    BY <1>2, <1>3 DEF WaitingIsAsked, RightAddress, Waiting, Init
<1> QED BY <1>4, <1>5, <1>6, <1>7, <1>8 DEF IInv

-----------------------------------------------------------------------------
(***************************************************************************)
(* What the steps do, in terms of the interface's maps: the record is      *)
(* taken apart here, once.                                                 *)
(***************************************************************************)
AskedLike ==
    DOMAIN asked' = DOMAIN asked /\ \A x \in DOMAIN asked : asked'[x] = asked[x]

IPv4Frame(ether, dgram) ==
    [src |-> OwnEther, dst |-> ether, type |-> "IPv4", payload |-> dgram]

\* Nothing happens to the maps, and no frame goes out.
Quiet ==
    /\ Whole' /\ UNCHANGED <<Waiting, Requests, Mappings, Now>>
    /\ sent' = <<>> /\ AskedLike
    /\ UNCHANGED <<handed, left, announced>>

\* A datagram for h is taken over.
Handed(h) == handed' = [handed EXCEPT ![h] = @ + 1]

\* Its address is known: it goes out.
SentAtOnce(h) ==
    /\ h \in DOMAIN Mappings
    /\ Whole' /\ UNCHANGED <<Waiting, Requests, Mappings, Now>>
    /\ sent' = <<IPv4Frame(Mappings[h].ether_addr, Datagram(h, handed[h] + 1))>>
    /\ left' = Longer(left, h, <<handed[h] + 1>>)
    /\ AskedLike /\ Handed(h) /\ UNCHANGED announced

\* It waits for the answer to a request made earlier.
WaitsToo(h) ==
    /\ h \notin DOMAIN Mappings /\ h \in DOMAIN Requests
    /\ Whole' /\ UNCHANGED <<Requests, Mappings, Now>>
    /\ Waiting' = Put(Waiting, h, Append(WaitingFor(interface, h),
                                         Datagram(h, handed[h] + 1)))
    /\ sent' = <<>>
    /\ AskedLike /\ Handed(h) /\ UNCHANGED <<left, announced>>

\* It is the first to wait.
AsksNow(h) ==
    /\ h \notin DOMAIN Mappings /\ h \notin DOMAIN Requests
    /\ Whole' /\ UNCHANGED <<Mappings, Now>>
    /\ Waiting' = Put(Waiting, h, <<Datagram(h, handed[h] + 1)>>)
    /\ Requests' = Put(Requests, h, Now)
    /\ sent' = <<Request(interface, h)>>
    /\ DOMAIN asked' = DOMAIN asked \cup {h}
    /\ \A x \in DOMAIN asked' : asked'[x] = IF x = h THEN Now ELSE asked[x]
    /\ Handed(h) /\ UNCHANGED <<left, announced>>

\* Hop h has announced its address: what waited for it goes out, after an
\* answer if it asked.
Learns(h, ether) ==
    LET queue == WaitingFor(interface, h)
    IN  /\ Whole' /\ UNCHANGED <<Requests, Now>>
        /\ Mappings' = Put(Mappings, h, [ether_addr |-> ether,
                                         time_created |-> Now])
        /\ Waiting' = Erased(Waiting, h)
        /\ \A i \in DOMAIN sent' :
              \/ sent'[i].type = "ARP" /\ sent'[i].payload.opcode = "REPLY"
              \/ \E j \in DOMAIN queue : sent'[i] = IPv4Frame(ether, queue[j])
        /\ left' = Longer(left, h, [i \in DOMAIN queue |-> queue[i].number])
        /\ announced' = Put(announced, h, [ether |-> ether, at |-> Now])
        /\ AskedLike /\ UNCHANGED handed

\* Time passes.
Fresh(now) ==
    {h \in DOMAIN Mappings : now - Mappings[h].time_created <= MAP_TTL}
Overdue(now) == {h \in DOMAIN Requests : now - Requests[h] > ARP_TTL}

Expires(ms) ==
    LET now == Now + ms
    IN  /\ Whole' /\ Now' = now
        /\ Mappings' = Restrict(Mappings, Fresh(now))
        /\ Waiting' = Restrict(Waiting, DOMAIN Waiting \ Overdue(now))
        /\ Requests' = Restrict(Requests, DOMAIN Requests \ Overdue(now))
        /\ sent' = <<>> /\ AskedLike
        /\ UNCHANGED <<handed, left, announced>>

\* Frames without a request change no time of asking.
LEMMA NothingAsked ==
    ASSUME NEW result, Returns(result),
           \A i \in DOMAIN result.sent :
               result.sent[i].type = "ARP"
                  => result.sent[i].payload.opcode # "REQUEST"
    PROVE  AskedLike
<1>1. \A x : ~ AsksFor(result.sent, x)
    BY DEF AsksFor
<1>2. {x \in Hops : AsksFor(result.sent, x)} = {}
    BY <1>1
<1>3. asked' = [h \in DOMAIN asked \cup
                         {x \in Hops : AsksFor(result.sent, x)} |->
                   IF AsksFor(result.sent, h)
                   THEN interface.current_time ELSE asked[h]]
    BY DEF Returns
<1> QED BY <1>1, <1>2, <1>3 DEF AskedLike

\* A call that transmits nothing adds nothing to what left.
LEMMA NothingLeft ==
    ASSUME NEW history \in [Hops -> Seq(Nat)]
    PROVE  WithFrames(history, <<>>) = history
<1> DEFINE c(h) == [left |-> history, hop |-> h, numbers |-> <<>>, arp |-> 0]
<1>1. SubSeq(<<>>, 1, 0) = <<>>
    BY SubSeqEmpty
<1>2. \E h : Longer(history, h, <<>>) = history
    <2>1. CASE Hops = {}
        <3>1. Longer(history, 0, <<>>) = history
            BY <2>1 DEF Longer
        <3> QED BY <3>1
    <2>2. ASSUME NEW h \in Hops
          PROVE  Longer(history, h, <<>>) = history
        <3>1. history[h] \o <<>> = history[h]
            BY ConcatEmptySeq
        <3> QED BY <3>1 DEF Longer
    <2> QED BY <2>1, <2>2
<1>3. PICK h : Longer(history, h, <<>>) = history
    BY <1>2
<1>4. \A acc : LeftWith(c(h), 0, acc) <=> acc = history
    <2>1. \A acc : LeftWith(c(h), 0, acc)
                      <=> acc = Longer(history, h, SubSeq(<<>>, 1, 0))
        BY DEF LeftWith
    <2> QED BY <2>1, <1>1, <1>3
<1> HIDE DEF c
<1>5. DOMAIN <<>> = 1 .. 0
    OBVIOUS
<1>6. LeftWith(c(h), 0, History!Fold(history, <<>>))
    BY <1>4, <1>5, History!FoldInvariant
<1>7. WithFrames(history, <<>>) = History!Fold(history, <<>>)
    BY DEF History!Fold, History!FoldLeft, History!MapThenFoldSet, History!Max,
       WithFrames, FoldLeft, MapThenFoldSet, Max
<1> QED BY <1>4, <1>6, <1>7

\* send_datagram
LEMMA SendEffect ==
    ASSUME IInv, NEW h \in Hops, Send(h)
    PROVE  SentAtOnce(h) \/ WaitsToo(h) \/ AsksNow(h)
<1> DEFINE n == interface
           d == Datagram(h, handed[h] + 1)
           r == SendDatagram(n, d, h)
           received == interface.datagrams_received
<1>1. /\ interface = [ethernet_address |-> OwnEther, ip_address |-> OwnIP,
                      datagrams_received |-> received,
                      datagrams_waiting |-> Waiting,
                      arp_requests_waiting |-> Requests,
                      ip_ether_map |-> Mappings, current_time |-> Now]
      /\ handed \in [Hops -> Nat] /\ left \in [Hops -> Seq(Nat)]
    BY DEF IInv, Whole, HistoryOK
<1>2. Handed(h) /\ handed'[h] = handed[h] + 1
    BY <1>1 DEF Send, Handed
<1>3. Returns(r) /\ announced' = announced
    BY <1>2 DEF Send
<1>4. interface' = r.interface /\ sent' = r.sent
      /\ left' = WithFrames(left, r.sent)
    BY <1>3 DEF Returns
<1>5. CASE h \in DOMAIN Mappings
    <2> DEFINE f == IPv4Frame(Mappings[h].ether_addr, d)
    <2>1. r = [interface |-> n, sent |-> <<f>>]
        <3>1. Frame(n, Mappings[h].ether_addr, "IPv4", d) = f
            BY <1>1 DEF Frame, IPv4Frame
        <3> QED BY <1>5, <3>1 DEF SendDatagram, Knows, Mappings
    <2>2. interface' = interface /\ sent' = <<f>>
          /\ left' = WithFrames(left, <<f>>)
        BY <2>1, <1>4
    <2>3. f.type = "IPv4" /\ f.payload.hop = h
          /\ f.payload.number = handed[h] + 1
        BY DEF IPv4Frame, Datagram
    <2> HIDE DEF f, d, r
    <2>4. left' = Longer(left, h, <<handed[h] + 1>>)
        <3> DEFINE ns == <<handed[h] + 1>>
                   fs == <<f>>
        <3>1. ns \in Seq(Nat) /\ Len(ns) = 1 /\ ns[1] = handed[h] + 1
            BY <1>1
        <3>2. fs \in Seq({f}) /\ Len(fs) = 1 /\ fs[1] = f
            OBVIOUS
        <3> HIDE DEF ns, fs
        <3>3. WithFrames(left, fs) = Longer(left, h, ns)
            <4>1. 0 \in 0 .. Len(fs) /\ Len(ns) = Len(fs) - 0
                BY <3>1, <3>2
            <4>2. \A i \in 1 .. 0 : fs[i].type # "IPv4"
                OBVIOUS
            <4>3. \A i \in 1 .. Len(ns) : /\ fs[0 + i].type = "IPv4"
                                          /\ fs[0 + i].payload.hop = h
                                          /\ fs[0 + i].payload.number = ns[i]
                BY <3>1, <3>2, <2>3
            <4>4. /\ left \in [Hops -> Seq(Nat)] /\ h \in Hops
                  /\ fs \in Seq({f}) /\ ns \in Seq(Nat)
                BY <3>1, <3>2, <1>1
            <4> QED BY <4>1, <4>2, <4>3, <4>4, LeftAfter
        <3> QED BY <3>3, <2>2 DEF ns, fs
    <2>5. AskedLike
        <3>1. \A i \in DOMAIN r.sent : r.sent[i].type # "ARP"
            <4>1. r.sent = <<f>>
                BY <2>1
            <4>2. \A i \in DOMAIN <<f>> : <<f>>[i] = f
                OBVIOUS
            <4> QED BY <4>1, <4>2, <2>3
        <3> QED BY <3>1, <1>3, NothingAsked
    <2>6. Whole' /\ UNCHANGED <<Waiting, Requests, Mappings, Now>>
        BY <2>2, <1>1 DEF Whole, Waiting, Requests, Mappings, Now
    <2> QED BY <1>2, <1>3, <1>5, <2>2, <2>4, <2>5, <2>6 DEF SentAtOnce, f, d
<1>6. CASE h \notin DOMAIN Mappings /\ h \in DOMAIN Requests
    <2> DEFINE q == Put(Waiting, h, Append(WaitingFor(interface, h), d))
    <2>1. r = [interface |-> [n EXCEPT !.datagrams_waiting = q], sent |-> <<>>]
        BY <1>6 DEF SendDatagram, Enqueued, Knows, HasAsked, Mappings, Requests,
           Waiting
    <2>2. interface' = [n EXCEPT !.datagrams_waiting = q] /\ sent' = <<>>
        BY <2>1, <1>4
    <2>3. left' = left
        BY <2>1, <1>1, <1>4, NothingLeft
    <2>4. AskedLike
        <3>1. r.sent = <<>> /\ DOMAIN <<>> = {}
            BY <2>1
        <3> HIDE DEF r
        <3> QED BY <3>1, <1>3, NothingAsked
    <2> HIDE DEF q, d, r
    <2>5. interface' = [ethernet_address |-> OwnEther, ip_address |-> OwnIP,
                        datagrams_received |-> received,
                        datagrams_waiting |-> q,
                        arp_requests_waiting |-> Requests,
                        ip_ether_map |-> Mappings, current_time |-> Now]
        <3> HIDE DEF received
        <3> QED BY <2>2, <1>1
    <2>6. Whole' /\ UNCHANGED <<Requests, Mappings, Now>> /\ Waiting' = q
        BY <2>5 DEF Whole, Waiting, Requests, Mappings, Now
    <2> QED BY <1>2, <1>3, <1>6, <2>2, <2>3, <2>4, <2>6 DEF WaitsToo, q, d
<1>7. CASE h \notin DOMAIN Mappings /\ h \notin DOMAIN Requests
    <2> DEFINE q == Put(Waiting, h, <<d>>)
               a == Put(Requests, h, Now)
               f == Request(n, h)
               half == [n EXCEPT !.datagrams_waiting = q]
    <2>1. r = [interface |-> [half EXCEPT !.arp_requests_waiting = a],
               sent |-> <<f>>]
        BY <1>7 DEF SendDatagram, Enqueued, Knows, HasAsked, Mappings, Requests,
           Waiting, Now
    <2>2. interface' = [half EXCEPT !.arp_requests_waiting = a] /\ sent' = <<f>>
          /\ left' = WithFrames(left, <<f>>)
        BY <2>1, <1>4
    <2>3. /\ f.type = "ARP" /\ f.payload.opcode = "REQUEST"
          /\ f.payload.target_ip_address = h
        BY DEF Request, Frame, ARPMessage
    <2> HIDE DEF q, a, f, d, r
    <2>4. half = [ethernet_address |-> OwnEther, ip_address |-> OwnIP,
                  datagrams_received |-> received, datagrams_waiting |-> q,
                  arp_requests_waiting |-> Requests,
                  ip_ether_map |-> Mappings, current_time |-> Now]
        <3> HIDE DEF received
        <3> QED BY <1>1
    <2> HIDE DEF half
    <2>5. interface' = [ethernet_address |-> OwnEther, ip_address |-> OwnIP,
                        datagrams_received |-> received,
                        datagrams_waiting |-> q, arp_requests_waiting |-> a,
                        ip_ether_map |-> Mappings, current_time |-> Now]
        <3> HIDE DEF received
        <3> QED BY <2>2, <2>4
    <2>6. Whole' /\ UNCHANGED <<Mappings, Now>> /\ Waiting' = q /\ Requests' = a
        BY <2>5 DEF Whole, Waiting, Requests, Mappings, Now
    <2>7. left' = left
        <3> DEFINE fs == <<f>>
                   ns == <<>>
        <3>1. fs \in Seq({f}) /\ Len(fs) = 1 /\ fs[1] = f
            OBVIOUS
        <3>2. ns \in Seq(Nat) /\ Len(ns) = 0
            OBVIOUS
        <3> HIDE DEF fs, ns
        <3>3. WithFrames(left, fs) = Longer(left, h, ns)
            <4>1. 1 \in 0 .. Len(fs) /\ Len(ns) = Len(fs) - 1
                BY <3>1, <3>2
            <4>2. \A i \in 1 .. 1 : fs[i].type # "IPv4"
                BY <3>1, <2>3
            <4>3. \A i \in 1 .. Len(ns) : /\ fs[1 + i].type = "IPv4"
                                          /\ fs[1 + i].payload.hop = h
                                          /\ fs[1 + i].payload.number = ns[i]
                BY <3>2
            <4>4. /\ left \in [Hops -> Seq(Nat)] /\ h \in Hops
                  /\ fs \in Seq({f}) /\ ns \in Seq(Nat)
                BY <3>1, <3>2, <1>1
            <4> QED BY <4>1, <4>2, <4>3, <4>4, LeftAfter
        <3>4. left[h] \o ns = left[h]
            BY <1>1, ConcatEmptySeq DEF ns
        <3>5. Longer(left, h, ns) = left
            BY <3>4, <1>1 DEF Longer
        <3> QED BY <3>3, <3>5, <2>2 DEF fs
    <2>8. /\ DOMAIN asked' = DOMAIN asked \cup {h}
          /\ \A x \in DOMAIN asked' : asked'[x] = IF x = h THEN Now ELSE asked[x]
        <3>1. \A x : AsksFor(r.sent, x) <=> x = h
            <4>1. r.sent = <<f>> /\ DOMAIN <<f>> = {1} /\ <<f>>[1] = f
                BY <2>1
            <4> QED BY <4>1, <2>3 DEF AsksFor
        <3>2. asked' = [x \in DOMAIN asked \cup
                                {y \in Hops : AsksFor(r.sent, y)} |->
                            IF AsksFor(r.sent, x) THEN Now ELSE asked[x]]
            BY <1>3 DEF Returns, Now
        <3>3. {y \in Hops : AsksFor(r.sent, y)} = {h}
            BY <3>1
        <3> QED BY <3>1, <3>2, <3>3
    <2> QED BY <1>2, <1>3, <1>7, <2>2, <2>6, <2>7, <2>8 DEF AsksNow, q, a, f, d
<1> QED BY <1>5, <1>6, <1>7

\* A function on 1 .. n is a sequence of length n.
LEMMA FunctionIsSequence ==
    ASSUME NEW S, NEW n \in Nat, NEW f \in [1 .. n -> S]
    PROVE  f \in Seq(S) /\ Len(f) = n
<1>1. f \in Seq(S)
    BY SeqDef
<1>2. Len(f) \in Nat /\ DOMAIN f = 1 .. Len(f)
    BY <1>1, LenProperties
<1>3. 1 .. Len(f) = 1 .. n
    BY <1>2
<1> QED BY <1>1, <1>2, <1>3

\* What waits for a hop are datagrams for that hop.
LEMMA QueueFacts ==
    ASSUME TypeOK, NEW h
    PROVE  /\ WaitingFor(interface, h) \in Seq([hop : {h}, number : Nat])
           /\ Len(WaitingFor(interface, h)) \in Nat
           /\ DOMAIN WaitingFor(interface, h) =
                 1 .. Len(WaitingFor(interface, h))
<1> DEFINE queue == WaitingFor(interface, h)
<1>1. queue \in Seq([hop : {h}, number : Nat])
    <2>1. CASE h \in DOMAIN interface.datagrams_waiting
        BY <2>1 DEF TypeOK, WaitingFor
    <2>2. CASE h \notin DOMAIN interface.datagrams_waiting
        BY <2>2, EmptySeq DEF WaitingFor
    <2> QED BY <2>1, <2>2
<1> HIDE DEF queue
<1>2. Len(queue) \in Nat /\ DOMAIN queue = 1 .. Len(queue)
    BY <1>1, LenProperties
<1> QED BY <1>1, <1>2 DEF queue

\* recv_frame for an ARP message that concerns this interface
LEMMA ARPEffect ==
    ASSUME IInv, NEW arp, NEW h \in Hops, NEW ether,
           arp.sender_ip_address = h, arp.sender_ethernet_address = ether,
           Returns(RecvARP(interface, arp)), handed' = handed,
           announced' = Put(announced, h, [ether |-> ether,
                                           at |-> interface.current_time])
    PROVE  Learns(h, ether)
<1> DEFINE n == interface
           received == interface.datagrams_received
           queue == WaitingFor(interface, h)
           m == Put(Mappings, h, [ether_addr |-> ether, time_created |-> Now])
           w == Erased(Waiting, h)
           learned == [n EXCEPT !.ip_ether_map = m]
           answers == arp.opcode = "REQUEST"
                         /\ arp.target_ip_address = n.ip_address
           reply == IF answers THEN <<ReplyTo(n, arp)>> ELSE <<>>
           frames == FlushedFrames(n, arp)
           r == RecvARP(n, arp)
<1>1. interface = [ethernet_address |-> OwnEther, ip_address |-> OwnIP,
                   datagrams_received |-> received,
                   datagrams_waiting |-> Waiting,
                   arp_requests_waiting |-> Requests,
                   ip_ether_map |-> Mappings, current_time |-> Now]
    BY DEF IInv, Whole
<1>2. left \in [Hops -> Seq(Nat)] /\ TypeOK
    BY DEF IInv, HistoryOK
<1>3. /\ queue \in Seq([hop : {h}, number : Nat])
      /\ Len(queue) \in Nat /\ DOMAIN queue = 1 .. Len(queue)
    BY <1>2, QueueFacts
<1>4. r = [interface |-> [learned EXCEPT !.datagrams_waiting = w],
           sent |-> reply \o frames]
    <2>1. learned.datagrams_waiting = Waiting
        BY <1>1 DEF Waiting
    <2> QED BY <2>1 DEF RecvARP, Flushed, Mappings, Now, Waiting
<1>5. interface' = [learned EXCEPT !.datagrams_waiting = w]
      /\ sent' = reply \o frames /\ left' = WithFrames(left, reply \o frames)
    <2> HIDE DEF reply, frames, learned, w
    <2> QED BY <1>4 DEF Returns
<1>6. \A i \in 1 .. Len(queue) : frames[i] = IPv4Frame(ether, queue[i])
    BY <1>1, <1>3 DEF FlushedFrames, Frame, IPv4Frame
<1>7. frames \in Seq({IPv4Frame(ether, queue[i]) : i \in 1 .. Len(queue)})
      /\ Len(frames) = Len(queue)
    <2> DEFINE S == {IPv4Frame(ether, queue[i]) : i \in 1 .. Len(queue)}
    <2>1. frames \in [1 .. Len(queue) -> S]
        <3>1. frames = [i \in DOMAIN queue |-> frames[i]]
            BY DEF FlushedFrames
        <3> HIDE DEF frames, queue
        <3> QED BY <3>1, <1>3, <1>6
    <2> HIDE DEF frames, queue, S
    <2>2. frames \in Seq(S) /\ Len(frames) = Len(queue)
        BY <2>1, <1>3, FunctionIsSequence
    <2> QED BY <2>2 DEF S
<1>8. /\ reply \in Seq({ReplyTo(n, arp)}) /\ Len(reply) \in 0 .. 1
      /\ \A i \in 1 .. Len(reply) : reply[i] = ReplyTo(n, arp)
    <2> DEFINE f == ReplyTo(n, arp)
    <2> HIDE DEF f, answers
    <2>1. CASE answers
        BY <2>1 DEF f
    <2>2. CASE ~ answers
        BY <2>2 DEF f
    <2> QED BY <2>1, <2>2
<1>9. ReplyTo(n, arp).type = "ARP" /\ ReplyTo(n, arp).payload.opcode = "REPLY"
    BY DEF ReplyTo, Frame, ARPMessage
<1> DEFINE all == reply \o frames
           S == {ReplyTo(n, arp)}
                   \cup {IPv4Frame(ether, queue[i]) : i \in 1 .. Len(queue)}
<1>10. /\ all \in Seq(S) /\ Len(all) = Len(reply) + Len(frames)
       /\ DOMAIN all = 1 .. Len(reply) + Len(queue)
       /\ \A i \in 1 .. Len(reply) : all[i] = ReplyTo(n, arp)
       /\ \A i \in 1 .. Len(queue) :
             all[Len(reply) + i] = IPv4Frame(ether, queue[i])
    <2> HIDE DEF reply, frames, queue
    <2>1. reply \in Seq(S) /\ frames \in Seq(S)
        <3>1. /\ {ReplyTo(n, arp)} \subseteq S
              /\ {IPv4Frame(ether, queue[i]) : i \in 1 .. Len(queue)} \subseteq S
            OBVIOUS
        <3> HIDE DEF S
        <3> QED BY <3>1, <1>7, <1>8, SeqMonotonic
    <2> HIDE DEF S
    <2>2. /\ all \in Seq(S) /\ Len(all) = Len(reply) + Len(frames)
          /\ \A i \in 1 .. Len(reply) + Len(frames) :
                all[i] = IF i <= Len(reply) THEN reply[i]
                                            ELSE frames[i - Len(reply)]
        BY <2>1, ConcatProperties
    <2>3. DOMAIN all = 1 .. Len(all)
        BY <2>2, LenProperties
    <2> DEFINE k == Len(reply)
               l == Len(queue)
    <2>4. k \in Nat /\ l \in Nat /\ Len(frames) = l
        BY <1>3, <1>7, <1>8
    <2> HIDE DEF k, l, all
    <2>5. \A i \in 1 .. k : all[i] = reply[i]
        BY <2>2, <2>4 DEF k
    <2>6. \A i \in 1 .. l : all[k + i] = frames[i]
        BY <2>2, <2>4 DEF k
    <2> QED BY <2>2, <2>3, <2>4, <2>5, <2>6, <1>6, <1>8 DEF k, l
<1> DEFINE numbers == [i \in DOMAIN queue |-> queue[i].number]
<1>11. /\ numbers \in Seq(Nat) /\ Len(numbers) = Len(queue)
       /\ \A i \in 1 .. Len(queue) : numbers[i] = queue[i].number
    <2> HIDE DEF queue
    <2>1. \A i \in 1 .. Len(queue) : queue[i].number \in Nat
        <3>1. \A i \in 1 .. Len(queue) : queue[i] \in [hop : {h}, number : Nat]
            BY <1>3, ElementOfSeq
        <3> QED BY <3>1
    <2>2. numbers \in [1 .. Len(queue) -> Nat]
        BY <2>1, <1>3
    <2>3. \A i \in 1 .. Len(queue) : numbers[i] = queue[i].number
        BY <1>3
    <2> HIDE DEF numbers
    <2> QED BY <2>2, <2>3, <1>3, FunctionIsSequence
<1>12. left' = Longer(left, h, numbers)
    <2> HIDE DEF reply, frames, queue, numbers, all, S
    <2>1. Len(reply) \in 0 .. Len(all) /\ Len(numbers) = Len(all) - Len(reply)
        BY <1>3, <1>7, <1>8, <1>10, <1>11
    <2>2. \A i \in 1 .. Len(reply) : all[i].type # "IPv4"
        BY <1>9, <1>10
    <2>3. \A i \in 1 .. Len(numbers) :
              /\ all[Len(reply) + i].type = "IPv4"
              /\ all[Len(reply) + i].payload.hop = h
              /\ all[Len(reply) + i].payload.number = numbers[i]
        <3>1. ASSUME NEW i \in 1 .. Len(queue)
              PROVE  /\ all[Len(reply) + i].type = "IPv4"
                     /\ all[Len(reply) + i].payload.hop = h
                     /\ all[Len(reply) + i].payload.number = numbers[i]
            <4>1. queue[i] \in [hop : {h}, number : Nat]
                BY <1>3, ElementOfSeq
            <4>2. all[Len(reply) + i] = IPv4Frame(ether, queue[i])
                BY <1>10
            <4> QED BY <4>1, <4>2, <1>11 DEF IPv4Frame
        <3> QED BY <3>1, <1>11
    <2>4. WithFrames(left, all) = Longer(left, h, numbers)
        BY <2>1, <2>2, <2>3, <1>2, <1>10, <1>11, LeftAfter
    <2> QED BY <2>4, <1>5 DEF all
<1>13. AskedLike /\ \A i \in DOMAIN sent' :
           \/ sent'[i].type = "ARP" /\ sent'[i].payload.opcode = "REPLY"
           \/ \E j \in DOMAIN queue : sent'[i] = IPv4Frame(ether, queue[j])
    <2> HIDE DEF reply, frames, queue, numbers, all, S, r
    <2>1. \A i \in DOMAIN all : all[i] = ReplyTo(n, arp)
              \/ \E j \in DOMAIN queue : all[i] = IPv4Frame(ether, queue[j])
        <3> SUFFICES ASSUME NEW i \in DOMAIN all
                     PROVE  all[i] = ReplyTo(n, arp)
                       \/ \E j \in DOMAIN queue :
                             all[i] = IPv4Frame(ether, queue[j])
            OBVIOUS
        <3>1. CASE i <= Len(reply)
            BY <3>1, <1>3, <1>8, <1>10
        <3>2. CASE i > Len(reply)
            <4> DEFINE j == i - Len(reply)
            <4>1. j \in 1 .. Len(queue) /\ Len(reply) + j = i
                BY <3>2, <1>3, <1>8, <1>10
            <4> HIDE DEF j
            <4> QED BY <4>1, <1>3, <1>10
        <3> QED BY <3>1, <3>2, <1>3, <1>8, <1>10
    <2>2. \A j : IPv4Frame(ether, queue[j]).type = "IPv4"
        BY DEF IPv4Frame
    <2>3. r.sent = all /\ sent' = all
        BY <1>4, <1>5 DEF all
    <2>4. \A i \in DOMAIN r.sent : r.sent[i].type = "ARP"
              => r.sent[i].payload.opcode # "REQUEST"
        BY <2>1, <2>2, <2>3, <1>9
    <2>5. AskedLike
        BY <2>4, NothingAsked DEF r
    <2> QED BY <2>1, <2>3, <2>5, <1>9
<1>14. Whole' /\ UNCHANGED <<Requests, Now>> /\ Mappings' = m /\ Waiting' = w
    <2> HIDE DEF m, w, received
    <2>1. learned = [ethernet_address |-> OwnEther, ip_address |-> OwnIP,
                     datagrams_received |-> received,
                     datagrams_waiting |-> Waiting,
                     arp_requests_waiting |-> Requests,
                     ip_ether_map |-> m, current_time |-> Now]
        BY <1>1
    <2> HIDE DEF learned
    <2>2. interface' = [ethernet_address |-> OwnEther, ip_address |-> OwnIP,
                        datagrams_received |-> received,
                        datagrams_waiting |-> w,
                        arp_requests_waiting |-> Requests,
                        ip_ether_map |-> m, current_time |-> Now]
        BY <2>1, <1>5
    <2> QED BY <2>2 DEF Whole, Waiting, Requests, Mappings, Now
<1> QED BY <1>12, <1>13, <1>14 DEF Learns, Now

LEMMA QuietEffect ==
    ASSUME IInv, NEW received,
           interface' = [interface EXCEPT !.datagrams_received = received],
           sent' = <<>>, AskedLike, UNCHANGED <<handed, left, announced>>
    PROVE  Quiet
<1>1. interface = [ethernet_address |-> OwnEther, ip_address |-> OwnIP,
                   datagrams_received |-> interface.datagrams_received,
                   datagrams_waiting |-> Waiting,
                   arp_requests_waiting |-> Requests,
                   ip_ether_map |-> Mappings, current_time |-> Now]
    BY DEF IInv, Whole
<1>2. interface' = [ethernet_address |-> OwnEther, ip_address |-> OwnIP,
                    datagrams_received |-> received,
                    datagrams_waiting |-> Waiting,
                    arp_requests_waiting |-> Requests,
                    ip_ether_map |-> Mappings, current_time |-> Now]
    BY <1>1
<1>3. Whole' /\ UNCHANGED <<Waiting, Requests, Mappings, Now>>
    BY <1>2 DEF Whole, Waiting, Requests, Mappings, Now
<1> QED BY <1>3 DEF Quiet

\* A call that transmits nothing
LEMMA SilentCall ==
    ASSUME IInv, NEW n, Returns([interface |-> n, sent |-> <<>>])
    PROVE  interface' = n /\ sent' = <<>> /\ left' = left /\ AskedLike
<1> DEFINE r == [interface |-> n, sent |-> <<>>]
<1>1. r.sent = <<>> /\ r.interface = n /\ DOMAIN <<>> = {} /\ Returns(r)
    OBVIOUS
<1> HIDE DEF r
<1>2. interface' = n /\ sent' = <<>> /\ left' = WithFrames(left, <<>>)
    BY <1>1 DEF Returns
<1>3. left' = left
    BY <1>2, NothingLeft DEF IInv, HistoryOK
<1>4. AskedLike
    BY <1>1, NothingAsked
<1> QED BY <1>2, <1>3, <1>4

\* recv_frame for a datagram, or for a frame that is dropped
LEMMA ReceiveEffect ==
    ASSUME IInv, NEW dst, NEW type, NEW payload,
           type = "ARP" => payload = Malformed, Receive(dst, type, payload)
    PROVE  Quiet
<1> DEFINE frame == [src |-> "neighbour", dst |-> dst, type |-> type,
                     payload |-> payload]
           received == Append(interface.datagrams_received, payload)
<1>1. /\ Returns(RecvFrame(interface, frame))
      /\ UNCHANGED <<handed, announced>>
    BY DEF Receive
<1>2. /\ frame.type = type /\ frame.payload = payload
    OBVIOUS
<1> HIDE DEF frame
<1>3. CASE RecvFrame(interface, frame) = [interface |-> interface, sent |-> <<>>]
    <2>1. interface' = interface /\ sent' = <<>> /\ left' = left /\ AskedLike
        BY <1>1, <1>3, SilentCall
    <2>2. interface' = [interface EXCEPT
                           !.datagrams_received = interface.datagrams_received]
        BY <2>1 DEF IInv, Whole
    <2> QED BY <1>1, <2>1, <2>2, QuietEffect
<1>4. CASE RecvFrame(interface, frame) =
               [interface |-> [interface EXCEPT !.datagrams_received = received],
                sent |-> <<>>]
    <2> DEFINE next == [interface EXCEPT !.datagrams_received = received]
    <2> HIDE DEF next
    <2>1. interface' = next /\ sent' = <<>> /\ left' = left /\ AskedLike
        BY <1>1, <1>4, SilentCall DEF next
    <2> QED BY <1>1, <2>1, QuietEffect DEF next
<1> QED BY <1>2, <1>3, <1>4 DEF RecvFrame

LEMMA ReceiveARPEffect ==
    ASSUME IInv, NEW dst, NEW opcode \in {"REQUEST", "REPLY"},
           NEW ether \in Ethers, NEW h \in Hops,
           NEW target_ip \in {OwnIP, h},
           ReceiveARP(dst, opcode, ether, h, target_ip)
    PROVE  Quiet \/ Learns(h, ether)
<1> DEFINE arp == ARPMessage(opcode, ether, h, target_ip)
           frame == [src |-> ether, dst |-> dst, type |-> "ARP",
                     payload |-> arp]
<1>1. /\ Returns(RecvFrame(interface, frame)) /\ handed' = handed
      /\ announced' = IF dst \in {OwnEther, BROADCAST}
                      THEN Put(announced, h, [ether |-> ether,
                                              at |-> interface.current_time])
                      ELSE announced
    BY DEF ReceiveARP
<1>2. arp.sender_ip_address = h /\ arp.sender_ethernet_address = ether
    BY DEF ARPMessage
<1>3. arp # Malformed
    BY InterfaceAssumption
<1>4. frame.dst = dst /\ frame.type = "ARP" /\ frame.payload = arp
    OBVIOUS
<1>5. interface.ethernet_address = OwnEther
    BY DEF IInv, Whole
<1> HIDE DEF arp, frame
<1>6. CASE dst \in {OwnEther, BROADCAST}
    <2>1. RecvFrame(interface, frame) = RecvARP(interface, arp)
        BY <1>3, <1>4, <1>5, <1>6 DEF RecvFrame
    <2> QED BY <2>1, <1>1, <1>2, <1>6, ARPEffect
<1>7. CASE dst \notin {OwnEther, BROADCAST}
    <2>1. RecvFrame(interface, frame) = [interface |-> interface, sent |-> <<>>]
        BY <1>4, <1>5, <1>7 DEF RecvFrame
    <2>2. interface' = interface /\ sent' = <<>> /\ left' = left /\ AskedLike
        BY <2>1, <1>1, SilentCall
    <2>3. interface' = [interface EXCEPT
                           !.datagrams_received = interface.datagrams_received]
        BY <2>2 DEF IInv, Whole
    <2> QED BY <1>1, <1>7, <2>2, <2>3, QuietEffect
<1> QED BY <1>6, <1>7

LEMMA CollectEffect ==
    ASSUME IInv, Collect
    PROVE  Quiet
<1>1. AskedLike
    BY DEF Collect, AskedLike
<1> QED BY <1>1, QuietEffect DEF Collect

LEMMA TickEffect ==
    ASSUME IInv, NEW ms, Tick(ms)
    PROVE  Expires(ms)
<1> DEFINE n == interface
           received == interface.datagrams_received
           now == Now + ms
           m == Restrict(Mappings, Fresh(now))
           w == Restrict(Waiting, DOMAIN Waiting \ Overdue(now))
           q == Restrict(Requests, DOMAIN Requests \ Overdue(now))
           a == [n EXCEPT !.current_time = now]
           b == [a EXCEPT !.ip_ether_map = m]
           c == [b EXCEPT !.datagrams_waiting = w]
           d == [c EXCEPT !.arp_requests_waiting = q]
<1>1. n = [ethernet_address |-> OwnEther, ip_address |-> OwnIP,
           datagrams_received |-> received, datagrams_waiting |-> Waiting,
           arp_requests_waiting |-> Requests,
           ip_ether_map |-> Mappings, current_time |-> Now]
    BY DEF IInv, Whole
<1>2. InterfaceTick(interface, ms) = d
    BY DEF InterfaceTick, Now, Mappings, Requests, Waiting, Fresh, Overdue
<1>3. Returns([interface |-> InterfaceTick(interface, ms), sent |-> <<>>])
      /\ UNCHANGED <<handed, announced>>
    BY DEF Tick
<1>4. interface' = d /\ sent' = <<>> /\ left' = left /\ AskedLike
    <2> HIDE DEF d
    <2> QED BY <1>2, <1>3, SilentCall
<1>5. interface' = [ethernet_address |-> OwnEther, ip_address |-> OwnIP,
                    datagrams_received |-> received,
                    datagrams_waiting |-> w, arp_requests_waiting |-> q,
                    ip_ether_map |-> m, current_time |-> now]
    <2> HIDE DEF m, w, q, now, received
    <2>1. a = [ethernet_address |-> OwnEther, ip_address |-> OwnIP,
               datagrams_received |-> received, datagrams_waiting |-> Waiting,
               arp_requests_waiting |-> Requests,
               ip_ether_map |-> Mappings, current_time |-> now]
        BY <1>1
    <2> HIDE DEF a
    <2>2. b = [ethernet_address |-> OwnEther, ip_address |-> OwnIP,
               datagrams_received |-> received, datagrams_waiting |-> Waiting,
               arp_requests_waiting |-> Requests,
               ip_ether_map |-> m, current_time |-> now]
        BY <2>1
    <2> HIDE DEF b
    <2>3. c = [ethernet_address |-> OwnEther, ip_address |-> OwnIP,
               datagrams_received |-> received, datagrams_waiting |-> w,
               arp_requests_waiting |-> Requests,
               ip_ether_map |-> m, current_time |-> now]
        BY <2>2
    <2> HIDE DEF c
    <2> QED BY <2>3, <1>4
<1> HIDE DEF m, w, q
<1>6. /\ Whole' /\ Now' = now /\ Mappings' = m /\ Waiting' = w
      /\ Requests' = q
    BY <1>5 DEF Whole, Waiting, Requests, Mappings, Now
<1> QED BY <1>3, <1>4, <1>6 DEF Expires, m, w, q

\* Every step is one of these.
LEMMA StepEffect ==
    ASSUME IInv, Next
    PROVE  \/ Quiet
           \/ \E h \in Hops : SentAtOnce(h) \/ WaitsToo(h) \/ AsksNow(h)
           \/ \E h \in Hops, ether \in Ethers : Learns(h, ether)
           \/ \E ms \in Ticks : Expires(ms)
<1>1. ASSUME NEW h \in Hops, Send(h)
      PROVE  SentAtOnce(h) \/ WaitsToo(h) \/ AsksNow(h)
    BY <1>1, SendEffect
<1>2. ASSUME NEW dst, NEW type, NEW payload,
             type = "ARP" => payload = Malformed, Receive(dst, type, payload)
      PROVE  Quiet
    BY <1>2, ReceiveEffect
<1>3. ASSUME NEW dst, NEW opcode \in {"REQUEST", "REPLY"},
             NEW ether \in Ethers, NEW h \in Hops,
             NEW target_ip \in {OwnIP, h},
             ReceiveARP(dst, opcode, ether, h, target_ip)
      PROVE  Quiet \/ Learns(h, ether)
    BY <1>3, ReceiveARPEffect
<1>4. ASSUME NEW ms \in Ticks, Tick(ms)
      PROVE  Expires(ms)
    BY <1>4, TickEffect
<1>5. CASE \E h \in Hops : Send(h)
    BY <1>1, <1>5
<1>6. CASE \E dst \in {OwnEther, BROADCAST, "other"},
              type \in {"IPv4", "ARP", "unknown"},
              payload \in {Incoming, Malformed} :
              (type = "ARP" => payload = Malformed) /\ Receive(dst, type, payload)
    BY <1>2, <1>6
<1>7. CASE \E dst \in {OwnEther, BROADCAST, "other"}, ether \in Ethers,
              h \in Hops, opcode \in {"REQUEST", "REPLY"} :
              \E target_ip \in {OwnIP, h} :
                  ReceiveARP(dst, opcode, ether, h, target_ip)
    BY <1>3, <1>7
<1>8. CASE Collect
    BY <1>8, CollectEffect
<1>9. CASE \E ms \in Ticks : Tick(ms)
    BY <1>4, <1>9
<1> QED BY <1>5, <1>6, <1>7, <1>8, <1>9 DEF Next
-----------------------------------------------------------------------------
(* The steps preserve the invariant *)

LEMMA PutFacts ==
    ASSUME NEW map, NEW key, NEW value
    PROVE  /\ DOMAIN Put(map, key, value) = DOMAIN map \cup {key}
           /\ Put(map, key, value)[key] = value
           /\ \A k \in DOMAIN map \ {key} : Put(map, key, value)[k] = map[k]
BY DEF Put

LEMMA RestrictFacts ==
    ASSUME NEW map, NEW S
    PROVE  /\ DOMAIN Restrict(map, S) = S
           /\ \A k \in S : Restrict(map, S)[k] = map[k]
BY DEF Restrict

LEMMA ErasedFacts ==
    ASSUME NEW map, NEW key
    PROVE  /\ DOMAIN Erased(map, key) = DOMAIN map \ {key}
           /\ \A k \in DOMAIN map \ {key} : Erased(map, key)[k] = map[k]
BY RestrictFacts DEF Erased

\* The invariant in terms of the maps
LEMMA InvFacts ==
    ASSUME IInv
    PROVE  /\ Now \in Nat
           /\ DOMAIN Waiting \subseteq Hops /\ DOMAIN Mappings \subseteq Hops
           /\ DOMAIN Requests \subseteq Hops
           /\ \A h \in DOMAIN Waiting :
                 Waiting[h] \in Seq([hop : {h}, number : Nat]) \ {<<>>}
           /\ \A h \in DOMAIN Mappings :
                 Mappings[h] \in [ether_addr : Ethers, time_created : Nat]
           /\ \A h \in DOMAIN Waiting :
                 /\ h \in DOMAIN Requests /\ h \notin DOMAIN Mappings
                 /\ Requests[h] = asked[h] /\ Now - asked[h] <= ARP_TTL
BY DEF IInv, TypeOK, WaitingIsAsked, HasAsked, Knows, Waiting, Mappings,
   Requests

\* TypeOK and WaitingIsAsked in the next state, from facts about the maps
LEMMA NextFacts ==
    ASSUME Now' \in Nat,
           (DOMAIN Waiting)' \subseteq Hops, (DOMAIN Mappings)' \subseteq Hops,
           (DOMAIN Requests)' \subseteq Hops,
           \A h \in (DOMAIN Waiting)' :
              Waiting'[h] \in Seq([hop : {h}, number : Nat]) \ {<<>>},
           \A h \in (DOMAIN Mappings)' :
              Mappings'[h] \in [ether_addr : Ethers, time_created : Nat],
           \A h \in (DOMAIN Waiting)' :
              /\ h \in (DOMAIN Requests)' /\ h \notin (DOMAIN Mappings)'
              /\ Requests'[h] = asked'[h] /\ Now' - asked'[h] <= ARP_TTL
    PROVE  TypeOK' /\ WaitingIsAsked'
BY DEF TypeOK, WaitingIsAsked, HasAsked, Knows, Waiting, Mappings, Requests

LEMMA QuietInv ==
    ASSUME IInv, Quiet
    PROVE  IInv'
<1>1. /\ Waiting' = Waiting /\ Requests' = Requests /\ Mappings' = Mappings
      /\ Now' = Now /\ sent' = <<>> /\ handed' = handed /\ left' = left
      /\ announced' = announced /\ Whole'
      /\ DOMAIN asked' = DOMAIN asked
      /\ \A x \in DOMAIN asked : asked'[x] = asked[x]
    BY DEF Quiet, AskedLike
<1>2. DOMAIN <<>> = {}
    OBVIOUS
<1>3. RequestsAreAsked'
    BY <1>1 DEF IInv, RequestsAreAsked
<1>4. \A h \in DOMAIN Waiting : asked'[h] = asked[h]
    BY <1>1, InvFacts DEF IInv, RequestsAreAsked
<1>5. TypeOK' /\ WaitingIsAsked'
    BY <1>1, <1>4, InvFacts, NextFacts
<1>6. MappingsAreNews'
    BY <1>1 DEF IInv, MappingsAreNews
<1>7. HistoryOK' /\ RightAddress'
    BY <1>1, <1>2 DEF IInv, HistoryOK, RightAddress
<1> QED BY <1>1, <1>3, <1>5, <1>6, <1>7 DEF IInv

LEMMA SentAtOnceInv ==
    ASSUME IInv, NEW h \in Hops, SentAtOnce(h)
    PROVE  IInv'
<1> DEFINE f == IPv4Frame(Mappings[h].ether_addr, Datagram(h, handed[h] + 1))
<1>1. /\ Waiting' = Waiting /\ Requests' = Requests /\ Mappings' = Mappings
      /\ Now' = Now /\ sent' = <<f>> /\ announced' = announced /\ Whole'
      /\ DOMAIN asked' = DOMAIN asked
      /\ \A x \in DOMAIN asked : asked'[x] = asked[x]
      /\ h \in DOMAIN Mappings
    BY DEF SentAtOnce, AskedLike
<1>2. RequestsAreAsked'
    BY <1>1 DEF IInv, RequestsAreAsked
<1>3. \A x \in DOMAIN Waiting : asked'[x] = asked[x]
    BY <1>1, InvFacts DEF IInv, RequestsAreAsked
<1>4. TypeOK' /\ WaitingIsAsked'
    BY <1>1, <1>3, InvFacts, NextFacts
<1>5. MappingsAreNews'
    BY <1>1 DEF IInv, MappingsAreNews
<1>6. HistoryOK'
    <2>1. handed' = [handed EXCEPT ![h] = @ + 1]
          /\ left' = Longer(left, h, <<handed[h] + 1>>)
        BY DEF SentAtOnce, Handed
    <2>2. handed \in [Hops -> Nat] /\ left \in [Hops -> Seq(Nat)]
        BY DEF IInv, HistoryOK
    <2>3. left[h] \o <<handed[h] + 1>> \in Seq(Nat)
        <3>1. <<handed[h] + 1>> \in Seq(Nat) /\ left[h] \in Seq(Nat)
            BY <2>2
        <3> QED BY <3>1, ConcatProperties
    <2>4. handed' \in [Hops -> Nat]
        BY <2>1, <2>2
    <2>5. left' \in [Hops -> Seq(Nat)]
        BY <2>1, <2>2, <2>3 DEF Longer
    <2> QED BY <2>4, <2>5 DEF HistoryOK
<1>7. RightAddress'
    <2>1. f.type = "IPv4" /\ f.payload.hop = h /\ f.dst = Mappings[h].ether_addr
        BY DEF IPv4Frame, Datagram
    <2>2. h \in DOMAIN announced /\ Mappings[h].ether_addr = announced[h].ether
          /\ Now - announced[h].at <= MAP_TTL
        BY <1>1 DEF IInv, MappingsAreNews
    <2> HIDE DEF f
    <2>3. \A i \in DOMAIN sent' : sent'[i] = f
        BY <1>1
    <2> QED BY <1>1, <2>1, <2>2, <2>3 DEF RightAddress
<1> QED BY <1>1, <1>2, <1>4, <1>5, <1>6, <1>7 DEF IInv

\* A datagram appended to a hop's queue
LEMMA QueuedType ==
    ASSUME IInv, NEW h \in Hops,
           NEW q \in Seq([hop : {h}, number : Nat])
    PROVE  Append(q, Datagram(h, handed[h] + 1))
               \in Seq([hop : {h}, number : Nat]) \ {<<>>}
<1>1. handed[h] \in Nat
    BY DEF IInv, HistoryOK
<1>2. Datagram(h, handed[h] + 1) \in [hop : {h}, number : Nat]
    BY <1>1 DEF Datagram
<1> QED BY <1>2, AppendProperties

LEMMA WaitsTooInv ==
    ASSUME IInv, NEW h \in Hops, WaitsToo(h)
    PROVE  IInv'
<1> DEFINE q == Append(WaitingFor(interface, h), Datagram(h, handed[h] + 1))
<1>1. /\ Waiting' = Put(Waiting, h, q) /\ Requests' = Requests
      /\ Mappings' = Mappings
      /\ Now' = Now /\ sent' = <<>> /\ announced' = announced /\ Whole'
      /\ left' = left /\ handed' = [handed EXCEPT ![h] = @ + 1]
      /\ DOMAIN asked' = DOMAIN asked
      /\ \A x \in DOMAIN asked : asked'[x] = asked[x]
      /\ h \notin DOMAIN Mappings /\ h \in DOMAIN Requests
    BY DEF WaitsToo, AskedLike, Handed
<1>2. q \in Seq([hop : {h}, number : Nat]) \ {<<>>}
    BY QueueFacts, QueuedType DEF IInv
<1> HIDE DEF q
<1>3. RequestsAreAsked'
    BY <1>1 DEF IInv, RequestsAreAsked
<1>4. /\ (DOMAIN Waiting)' = DOMAIN Waiting \cup {h} /\ Waiting'[h] = q
      /\ \A x \in DOMAIN Waiting \ {h} : Waiting'[x] = Waiting[x]
    <2>1. Waiting' = Put(Waiting, h, q)
        BY <1>1
    <2> HIDE DEF Waiting, Requests, Mappings
    <2> QED BY <2>1 DEF Put
<1>5. \A x \in (DOMAIN Waiting)' :
          /\ x \in DOMAIN Requests /\ x \notin DOMAIN Mappings
          /\ Requests[x] = asked'[x] /\ Now - asked'[x] <= ARP_TTL
    <2>1. /\ asked'[h] = asked[h] /\ Requests[h] = asked[h]
          /\ Now - asked[h] <= ARP_TTL
        BY <1>1 DEF IInv, RequestsAreAsked
    <2>2. \A x \in DOMAIN Waiting : asked'[x] = asked[x]
        BY <1>1, InvFacts DEF IInv, RequestsAreAsked
    <2> QED BY <1>1, <1>4, <2>1, <2>2, InvFacts
<1>6. TypeOK' /\ WaitingIsAsked'
    <2>1. \A x \in (DOMAIN Waiting)' :
              Waiting'[x] \in Seq([hop : {x}, number : Nat]) \ {<<>>}
        BY <1>2, <1>4, InvFacts
    <2> QED BY <1>1, <1>4, <1>5, <2>1, InvFacts, NextFacts
<1>7. MappingsAreNews'
    BY <1>1 DEF IInv, MappingsAreNews
<1>8. HistoryOK'
    BY <1>1 DEF IInv, HistoryOK
<1>9. RightAddress'
    <2>1. DOMAIN sent' = {}
        BY <1>1
    <2> QED BY <2>1 DEF RightAddress
<1> QED BY <1>1, <1>3, <1>6, <1>7, <1>8, <1>9 DEF IInv

LEMMA AsksNowInv ==
    ASSUME IInv, NEW h \in Hops, AsksNow(h)
    PROVE  IInv'
<1> DEFINE q == <<Datagram(h, handed[h] + 1)>>
           f == Request(interface, h)
<1>1. /\ Waiting' = Put(Waiting, h, q) /\ Requests' = Put(Requests, h, Now)
      /\ Mappings' = Mappings
      /\ Now' = Now /\ sent' = <<f>> /\ announced' = announced /\ Whole'
      /\ left' = left /\ handed' = [handed EXCEPT ![h] = @ + 1]
      /\ DOMAIN asked' = DOMAIN asked \cup {h}
      /\ \A x \in DOMAIN asked' : asked'[x] = IF x = h THEN Now ELSE asked[x]
      /\ h \notin DOMAIN Mappings /\ h \notin DOMAIN Requests
    BY DEF AsksNow, Handed
<1>2. q \in Seq([hop : {h}, number : Nat]) \ {<<>>}
    <2>1. handed[h] \in Nat
        BY DEF IInv, HistoryOK
    <2>2. Datagram(h, handed[h] + 1) \in [hop : {h}, number : Nat]
        BY <2>1 DEF Datagram
    <2> HIDE DEF Datagram
    <2> QED BY <2>2
<1>3. f.type = "ARP"
    BY DEF Request, Frame
<1> HIDE DEF q, f
<1>4. /\ (DOMAIN Waiting)' = DOMAIN Waiting \cup {h} /\ Waiting'[h] = q
      /\ \A x \in DOMAIN Waiting \ {h} : Waiting'[x] = Waiting[x]
    <2>1. Waiting' = Put(Waiting, h, q)
        BY <1>1
    <2> HIDE DEF Waiting, Requests, Mappings
    <2> QED BY <2>1 DEF Put
<1>5. /\ (DOMAIN Requests)' = DOMAIN Requests \cup {h} /\ Requests'[h] = Now
      /\ \A x \in DOMAIN Requests \ {h} : Requests'[x] = Requests[x]
    <2>1. Requests' = Put(Requests, h, Now)
        BY <1>1
    <2> HIDE DEF Waiting, Requests, Mappings
    <2> QED BY <2>1 DEF Put
<1>6. Now \in Nat /\ ARP_TTL \in Nat /\ Now - Now <= ARP_TTL
    BY InvFacts, TTLAssumption
<1>7. RequestsAreAsked'
    <2>1. ASSUME NEW x \in (DOMAIN Requests)'
          PROVE  /\ x \in DOMAIN asked' /\ Requests'[x] = asked'[x]
                 /\ Now - asked'[x] <= ARP_TTL
        <3>1. CASE x = h
            BY <3>1, <1>1, <1>5, <1>6
        <3>2. CASE x # h
            BY <3>2, <1>1, <1>5 DEF IInv, RequestsAreAsked
        <3> QED BY <3>1, <3>2
    <2>2. ASSUME NEW x \in DOMAIN asked'
          PROVE  /\ asked'[x] \in Nat
                 /\ Now - asked'[x] <= ARP_TTL => x \in (DOMAIN Requests)'
        <3>1. CASE x = h
            BY <3>1, <1>1, <1>5, <1>6
        <3>2. CASE x # h
            BY <3>2, <1>1, <1>5 DEF IInv, RequestsAreAsked
        <3> QED BY <3>1, <3>2
    <2> QED BY <1>1, <2>1, <2>2 DEF RequestsAreAsked
<1>8. TypeOK' /\ WaitingIsAsked'
    <2>1. \A x \in (DOMAIN Waiting)' :
              Waiting'[x] \in Seq([hop : {x}, number : Nat]) \ {<<>>}
        BY <1>2, <1>4, InvFacts
    <2>2. \A x \in (DOMAIN Waiting)' :
              /\ x \in (DOMAIN Requests)' /\ x \notin DOMAIN Mappings
              /\ Requests'[x] = asked'[x] /\ Now - asked'[x] <= ARP_TTL
        BY <1>1, <1>4, <1>5, <1>7, InvFacts DEF RequestsAreAsked
    <2>3. (DOMAIN Waiting)' \subseteq Hops /\ (DOMAIN Requests)' \subseteq Hops
        BY <1>4, <1>5, InvFacts
    <2> QED BY <1>1, <2>1, <2>2, <2>3, InvFacts, NextFacts
<1>9. MappingsAreNews'
    BY <1>1 DEF IInv, MappingsAreNews
<1>10. HistoryOK'
    BY <1>1 DEF IInv, HistoryOK
<1>11. RightAddress'
    <2>1. \A i \in DOMAIN sent' : sent'[i].type = "ARP"
        BY <1>1, <1>3
    <2> QED BY <2>1 DEF RightAddress
<1> QED BY <1>1, <1>7, <1>8, <1>9, <1>10, <1>11 DEF IInv

LEMMA LearnsInv ==
    ASSUME IInv, NEW h \in Hops, NEW ether \in Ethers, Learns(h, ether)
    PROVE  IInv'
<1> DEFINE queue == WaitingFor(interface, h)
           numbers == [i \in DOMAIN queue |-> queue[i].number]
           new == [ether_addr |-> ether, time_created |-> Now]
           news == [ether |-> ether, at |-> Now]
<1>1. /\ Whole' /\ Requests' = Requests /\ Now' = Now
      /\ Mappings' = Put(Mappings, h, new) /\ Waiting' = Erased(Waiting, h)
      /\ \A i \in DOMAIN sent' :
            \/ sent'[i].type = "ARP"
            \/ \E j \in DOMAIN queue : sent'[i] = IPv4Frame(ether, queue[j])
      /\ left' = Longer(left, h, numbers)
      /\ announced' = Put(announced, h, news)
      /\ DOMAIN asked' = DOMAIN asked
      /\ \A x \in DOMAIN asked : asked'[x] = asked[x]
      /\ handed' = handed
    BY DEF Learns, AskedLike
<1>2. /\ queue \in Seq([hop : {h}, number : Nat])
      /\ Len(queue) \in Nat /\ DOMAIN queue = 1 .. Len(queue)
    BY QueueFacts DEF IInv
<1>3. \A i \in DOMAIN queue : queue[i] \in [hop : {h}, number : Nat]
    <2> HIDE DEF queue
    <2> QED BY <1>2, ElementOfSeq
<1>4. new \in [ether_addr : Ethers, time_created : Nat]
      /\ new.ether_addr = ether /\ new.time_created = Now
      /\ news.ether = ether /\ news.at = Now
    BY InvFacts
<1>5. numbers \in Seq(Nat)
    <2> HIDE DEF queue
    <2>1. numbers \in [1 .. Len(queue) -> Nat]
        BY <1>2, <1>3
    <2> HIDE DEF numbers
    <2> QED BY <2>1, <1>2, FunctionIsSequence
<1> HIDE DEF queue, numbers, new, news
<1>6. /\ (DOMAIN Waiting)' = DOMAIN Waiting \ {h}
      /\ \A x \in DOMAIN Waiting \ {h} : Waiting'[x] = Waiting[x]
    <2>1. Waiting' = Erased(Waiting, h)
        BY <1>1
    <2> QED BY <2>1, ErasedFacts
<1>7. /\ (DOMAIN Mappings)' = DOMAIN Mappings \cup {h} /\ Mappings'[h] = new
      /\ \A x \in DOMAIN Mappings \ {h} : Mappings'[x] = Mappings[x]
    <2>1. Mappings' = Put(Mappings, h, new)
        BY <1>1
    <2> HIDE DEF Waiting, Requests, Mappings
    <2> QED BY <2>1 DEF Put
<1>8. /\ DOMAIN announced' = DOMAIN announced \cup {h} /\ announced'[h] = news
      /\ \A x \in DOMAIN announced \ {h} : announced'[x] = announced[x]
    <2>1. announced' = Put(announced, h, news)
        BY <1>1
    <2> HIDE DEF Waiting, Requests, Mappings
    <2> QED BY <2>1 DEF Put
<1>9. Now \in Nat /\ MAP_TTL \in Nat /\ Now - Now <= MAP_TTL
    BY InvFacts, TTLAssumption
<1>10. RequestsAreAsked'
    BY <1>1 DEF IInv, RequestsAreAsked
<1>11. TypeOK' /\ WaitingIsAsked'
    <2>1. \A x \in (DOMAIN Waiting)' :
              Waiting'[x] \in Seq([hop : {x}, number : Nat]) \ {<<>>}
        BY <1>6, InvFacts
    <2>2. \A x \in (DOMAIN Mappings)' :
              Mappings'[x] \in [ether_addr : Ethers, time_created : Nat]
        BY <1>4, <1>7, InvFacts
    <2>3. \A x \in (DOMAIN Waiting)' :
              /\ x \in DOMAIN Requests /\ x \notin (DOMAIN Mappings)'
              /\ Requests[x] = asked'[x] /\ Now - asked'[x] <= ARP_TTL
        <3>1. \A x \in DOMAIN Waiting : asked'[x] = asked[x]
            BY <1>1, InvFacts DEF IInv, RequestsAreAsked
        <3> QED BY <3>1, <1>6, <1>7, InvFacts
    <2>4. (DOMAIN Waiting)' \subseteq Hops /\ (DOMAIN Mappings)' \subseteq Hops
        BY <1>6, <1>7, InvFacts
    <2> QED BY <1>1, <2>1, <2>2, <2>3, <2>4, InvFacts, NextFacts
<1>12. MappingsAreNews'
    <2>1. ASSUME NEW x \in (DOMAIN Mappings)'
          PROVE  /\ x \in DOMAIN announced'
                 /\ Mappings'[x].ether_addr = announced'[x].ether
                 /\ Mappings'[x].time_created = announced'[x].at
                 /\ Now - announced'[x].at <= MAP_TTL
        <3>1. CASE x = h
            BY <3>1, <1>4, <1>7, <1>8, <1>9
        <3>2. CASE x # h
            BY <3>2, <1>7, <1>8 DEF IInv, MappingsAreNews
        <3> QED BY <3>1, <3>2
    <2>2. ASSUME NEW x \in DOMAIN announced'
          PROVE  /\ announced'[x].at \in Nat
                 /\ Now - announced'[x].at <= MAP_TTL => x \in (DOMAIN Mappings)'
        <3>1. CASE x = h
            BY <3>1, <1>4, <1>7, <1>8, <1>9
        <3>2. CASE x # h
            BY <3>2, <1>7, <1>8 DEF IInv, MappingsAreNews
        <3> QED BY <3>1, <3>2
    <2> QED BY <1>1, <2>1, <2>2 DEF MappingsAreNews
<1>13. HistoryOK'
    <2>1. handed \in [Hops -> Nat] /\ left \in [Hops -> Seq(Nat)]
        BY DEF IInv, HistoryOK
    <2>2. left[h] \o numbers \in Seq(Nat)
        BY <2>1, <1>5, ConcatProperties
    <2>3. left' \in [Hops -> Seq(Nat)]
        BY <1>1, <2>1, <2>2 DEF Longer
    <2> QED BY <1>1, <2>1, <2>3 DEF HistoryOK
<1>14. RightAddress'
    <2>1. ASSUME NEW i \in DOMAIN sent', sent'[i].type = "IPv4"
          PROVE  sent'[i].payload.hop = h /\ sent'[i].dst = ether
        <3>1. PICK j \in DOMAIN queue : sent'[i] = IPv4Frame(ether, queue[j])
            BY <1>1, <2>1
        <3> QED BY <3>1, <1>3 DEF IPv4Frame
    <2> QED BY <2>1, <1>1, <1>4, <1>8, <1>9 DEF RightAddress
<1> QED BY <1>1, <1>10, <1>11, <1>12, <1>13, <1>14 DEF IInv

LEMMA ExpiresInv ==
    ASSUME IInv, NEW ms \in Ticks, Expires(ms)
    PROVE  IInv'
<1> DEFINE now == Now + ms
<1>1. /\ Whole' /\ Now' = now
      /\ Mappings' = Restrict(Mappings, Fresh(now))
      /\ Waiting' = Restrict(Waiting, DOMAIN Waiting \ Overdue(now))
      /\ Requests' = Restrict(Requests, DOMAIN Requests \ Overdue(now))
      /\ sent' = <<>> /\ handed' = handed /\ left' = left
      /\ announced' = announced
      /\ DOMAIN asked' = DOMAIN asked
      /\ \A x \in DOMAIN asked : asked'[x] = asked[x]
    BY DEF Expires, AskedLike
<1>2. /\ (DOMAIN Mappings)' = Fresh(now)
      /\ \A x \in Fresh(now) : Mappings'[x] = Mappings[x]
    <2>1. Mappings' = Restrict(Mappings, Fresh(now))
        BY <1>1
    <2> QED BY <2>1, RestrictFacts
<1>3. /\ (DOMAIN Waiting)' = DOMAIN Waiting \ Overdue(now)
      /\ \A x \in DOMAIN Waiting \ Overdue(now) : Waiting'[x] = Waiting[x]
    <2>1. Waiting' = Restrict(Waiting, DOMAIN Waiting \ Overdue(now))
        BY <1>1
    <2> QED BY <2>1, RestrictFacts
<1>4. /\ (DOMAIN Requests)' = DOMAIN Requests \ Overdue(now)
      /\ \A x \in DOMAIN Requests \ Overdue(now) : Requests'[x] = Requests[x]
    <2>1. Requests' = Restrict(Requests, DOMAIN Requests \ Overdue(now))
        BY <1>1
    <2> QED BY <2>1, RestrictFacts
<1>5. /\ Now \in Nat /\ ms \in Nat /\ now \in Nat /\ now >= Now
      /\ ARP_TTL \in Nat /\ MAP_TTL \in Nat
    BY InvFacts, TTLAssumption, InterfaceAssumption
<1> HIDE DEF now
<1>6. RequestsAreAsked'
    <2>1. ASSUME NEW x \in (DOMAIN Requests)'
          PROVE  /\ x \in DOMAIN asked' /\ Requests'[x] = asked'[x]
                 /\ now - asked'[x] <= ARP_TTL
        <3>1. x \in DOMAIN Requests /\ x \notin Overdue(now)
            BY <1>4
        <3>2. asked'[x] = asked[x] /\ Requests[x] = asked[x] /\ asked[x] \in Nat
            BY <3>1, <1>1 DEF IInv, RequestsAreAsked
        <3>3. now - asked[x] <= ARP_TTL
            BY <3>1, <3>2, <1>5 DEF Overdue
        <3> QED BY <3>1, <3>2, <3>3, <1>1, <1>4 DEF IInv, RequestsAreAsked
    <2>2. ASSUME NEW x \in DOMAIN asked'
          PROVE  /\ asked'[x] \in Nat
                 /\ now - asked'[x] <= ARP_TTL => x \in (DOMAIN Requests)'
        <3>1. asked'[x] = asked[x] /\ asked[x] \in Nat
              /\ (Now - asked[x] <= ARP_TTL => x \in DOMAIN Requests)
            BY <1>1 DEF IInv, RequestsAreAsked
        <3>2. ASSUME now - asked[x] <= ARP_TTL
              PROVE  x \in DOMAIN Requests /\ x \notin Overdue(now)
            <4>1. Now - asked[x] <= ARP_TTL
                BY <3>1, <3>2, <1>5
            <4>2. Requests[x] = asked[x]
                BY <3>1, <4>1 DEF IInv, RequestsAreAsked
            <4> QED BY <3>1, <3>2, <4>1, <4>2, <1>5 DEF Overdue
        <3> QED BY <3>1, <3>2, <1>4
    <2> QED BY <1>1, <2>1, <2>2 DEF RequestsAreAsked
<1>7. TypeOK' /\ WaitingIsAsked'
    <2>1. \A x \in (DOMAIN Waiting)' :
              Waiting'[x] \in Seq([hop : {x}, number : Nat]) \ {<<>>}
        BY <1>3, InvFacts
    <2>2. Fresh(now) \subseteq DOMAIN Mappings
        BY DEF Fresh
    <2>3. \A x \in (DOMAIN Mappings)' :
              Mappings'[x] \in [ether_addr : Ethers, time_created : Nat]
        BY <1>2, <2>2, InvFacts
    <2>4. \A x \in (DOMAIN Waiting)' :
              /\ x \in (DOMAIN Requests)' /\ x \notin (DOMAIN Mappings)'
              /\ Requests'[x] = asked'[x] /\ now - asked'[x] <= ARP_TTL
        <3>1. \A x \in (DOMAIN Waiting)' :
                  x \in (DOMAIN Requests)' /\ x \notin (DOMAIN Mappings)'
            BY <1>2, <1>3, <1>4, <2>2, InvFacts
        <3> QED BY <3>1, <1>1, <1>6 DEF RequestsAreAsked
    <2>5. /\ (DOMAIN Waiting)' \subseteq Hops /\ (DOMAIN Mappings)' \subseteq Hops
          /\ (DOMAIN Requests)' \subseteq Hops
        BY <1>2, <1>3, <1>4, <2>2, InvFacts
    <2> QED BY <1>1, <1>5, <2>1, <2>3, <2>4, <2>5, NextFacts
<1>8. MappingsAreNews'
    <2>1. ASSUME NEW x \in (DOMAIN Mappings)'
          PROVE  /\ x \in DOMAIN announced
                 /\ Mappings'[x].ether_addr = announced[x].ether
                 /\ Mappings'[x].time_created = announced[x].at
                 /\ now - announced[x].at <= MAP_TTL
        <3>1. x \in DOMAIN Mappings /\ Mappings'[x] = Mappings[x]
              /\ now - Mappings[x].time_created <= MAP_TTL
            BY <1>2 DEF Fresh
        <3> QED BY <3>1 DEF IInv, MappingsAreNews
    <2>2. ASSUME NEW x \in DOMAIN announced
          PROVE  /\ announced[x].at \in Nat
                 /\ now - announced[x].at <= MAP_TTL => x \in (DOMAIN Mappings)'
        <3>1. announced[x].at \in Nat
              /\ (Now - announced[x].at <= MAP_TTL => x \in DOMAIN Mappings)
            BY DEF IInv, MappingsAreNews
        <3>2. ASSUME now - announced[x].at <= MAP_TTL
              PROVE  x \in Fresh(now)
            <4>1. Now - announced[x].at <= MAP_TTL
                BY <3>1, <3>2, <1>5
            <4>2. x \in DOMAIN Mappings
                  /\ Mappings[x].time_created = announced[x].at
                BY <3>1, <4>1 DEF IInv, MappingsAreNews
            <4> QED BY <3>2, <4>2 DEF Fresh
        <3> QED BY <3>1, <3>2, <1>2
    <2> QED BY <1>1, <2>1, <2>2 DEF MappingsAreNews
<1>9. HistoryOK'
    BY <1>1 DEF IInv, HistoryOK
<1>10. RightAddress'
    <2>1. DOMAIN sent' = {}
        BY <1>1
    <2> QED BY <2>1 DEF RightAddress
<1> QED BY <1>1, <1>6, <1>7, <1>8, <1>9, <1>10 DEF IInv
-----------------------------------------------------------------------------
(***************************************************************************)
(* IInv, and with it the properties TLC checks, holds in every state a     *)
(* NetworkInterface reaches (network_interface.cc:28-153).                 *)
(***************************************************************************)
THEOREM Invariance == Spec => []IInv
<1>1. Init => IInv
    BY InitInv
<1>2. IInv /\ [Next]_vars => IInv'
    <2> SUFFICES ASSUME IInv, [Next]_vars PROVE IInv'
        OBVIOUS
    <2>1. CASE UNCHANGED vars
        BY <2>1 DEF vars, IInv, Whole, TypeOK, HistoryOK, MappingsAreNews,
           RequestsAreAsked, WaitingIsAsked, RightAddress, HasAsked, Knows,
           Waiting, Requests, Mappings, Now
    <2>2. CASE Next
        <3>1. CASE Quiet
            BY <3>1, QuietInv
        <3>2. CASE \E h \in Hops : SentAtOnce(h)
            BY <3>2, SentAtOnceInv
        <3>3. CASE \E h \in Hops : WaitsToo(h)
            BY <3>3, WaitsTooInv
        <3>4. CASE \E h \in Hops : AsksNow(h)
            BY <3>4, AsksNowInv
        <3>5. CASE \E h \in Hops, ether \in Ethers : Learns(h, ether)
            BY <3>5, LearnsInv
        <3>6. CASE \E ms \in Ticks : Expires(ms)
            BY <3>6, ExpiresInv
        <3> QED BY <2>2, <3>1, <3>2, <3>3, <3>4, <3>5, <3>6, StepEffect
    <2> QED BY <2>1, <2>2
<1> QED BY <1>1, <1>2, PTL DEF Spec

\* The maps keep their types, and no queue is left behind empty.
THEOREM TypeCorrect == Spec => []TypeOK
<1>1. IInv => TypeOK
    BY DEF IInv
<1> QED BY <1>1, Invariance, PTL

\* A datagram waits only for an answer that may still come
\* (network_interface.cc:47-68, 117-131, 147-151).
THEOREM NobodyWaitsInVain == Spec => []WaitingIsAsked
<1>1. IInv => WaitingIsAsked
    BY DEF IInv
<1> QED BY <1>1, Invariance, PTL

\* A datagram goes to the address its hop announced last, and not too long
\* ago (network_interface.cc:36-44, 95-131).
THEOREM AddressIsNews == Spec => []RightAddress
<1>1. IInv => RightAddress
    BY DEF IInv
<1> QED BY <1>1, Invariance, PTL
-----------------------------------------------------------------------------
(* Requests are spaced *)

SpacedStep ==
    \A h \in Hops :
        AsksFor(sent', h) =>
            /\ h \in DOMAIN asked => Now - asked[h] > ARP_TTL
            /\ h \in DOMAIN announced => Now - announced[h].at > MAP_TTL

LEMMA NoFramesNoRequest ==
    ASSUME sent' = <<>>
    PROVE  SpacedStep
<1>1. DOMAIN sent' = {}
    OBVIOUS
<1> QED BY <1>1 DEF SpacedStep, AsksFor

LEMMA StepIsSpaced ==
    ASSUME IInv, Next
    PROVE  SpacedStep
<1>1. CASE Quiet
    BY <1>1, NoFramesNoRequest DEF Quiet
<1>2. ASSUME NEW h \in Hops, SentAtOnce(h)
      PROVE  SpacedStep
    <2> DEFINE f == IPv4Frame(Mappings[h].ether_addr, Datagram(h, handed[h] + 1))
    <2>1. sent' = <<f>> /\ f.type = "IPv4"
        BY <1>2 DEF SentAtOnce, IPv4Frame
    <2> HIDE DEF f
    <2>2. \A i \in DOMAIN sent' : sent'[i].type = "IPv4"
        BY <2>1
    <2> QED BY <2>2 DEF SpacedStep, AsksFor
<1>3. ASSUME NEW h \in Hops, WaitsToo(h)
      PROVE  SpacedStep
    BY <1>3, NoFramesNoRequest DEF WaitsToo
<1>4. ASSUME NEW h \in Hops, AsksNow(h)
      PROVE  SpacedStep
    <2> DEFINE f == Request(interface, h)
    <2>1. sent' = <<f>> /\ f.payload.target_ip_address = h
        BY <1>4 DEF AsksNow, Request, Frame, ARPMessage
    <2> HIDE DEF f
    <2>2. \A x : AsksFor(sent', x) => x = h
        BY <2>1 DEF AsksFor
    <2>3. h \notin DOMAIN Mappings /\ h \notin DOMAIN Requests
        BY <1>4 DEF AsksNow
    <2>4. /\ h \in DOMAIN asked => asked[h] \in Nat /\ ~ (Now - asked[h] <= ARP_TTL)
          /\ h \in DOMAIN announced =>
                announced[h].at \in Nat /\ ~ (Now - announced[h].at <= MAP_TTL)
        BY <2>3 DEF IInv, RequestsAreAsked, MappingsAreNews
    <2>5. Now \in Nat /\ ARP_TTL \in Nat /\ MAP_TTL \in Nat
        BY InvFacts, TTLAssumption
    <2> QED BY <2>2, <2>4, <2>5 DEF SpacedStep
<1>5. ASSUME NEW h \in Hops, NEW ether \in Ethers, Learns(h, ether)
      PROVE  SpacedStep
    <2> DEFINE queue == WaitingFor(interface, h)
    <2>1. \A i \in DOMAIN sent' :
              \/ sent'[i].type = "ARP" /\ sent'[i].payload.opcode = "REPLY"
              \/ \E j \in DOMAIN queue : sent'[i] = IPv4Frame(ether, queue[j])
        BY <1>5 DEF Learns
    <2> HIDE DEF queue
    <2>2. \A d : IPv4Frame(ether, d).type = "IPv4"
        BY DEF IPv4Frame
    <2>3. \A i \in DOMAIN sent' :
              sent'[i].type = "ARP" => sent'[i].payload.opcode = "REPLY"
        BY <2>1, <2>2
    <2> QED BY <2>3 DEF SpacedStep, AsksFor
<1>6. ASSUME NEW ms \in Ticks, Expires(ms)
      PROVE  SpacedStep
    BY <1>6, NoFramesNoRequest DEF Expires
<1> QED BY <1>1, <1>2, <1>3, <1>4, <1>5, <1>6, StepEffect

\* No step asks for a hop that was asked for within ARP_TTL or announced
\* itself within MAP_TTL (network_interface.cc:36-61).
THEOREM AsksSeldom == Spec => RequestsSpaced
<1>1. IInv /\ [Next]_vars => [SpacedStep]_vars
    BY StepIsSpaced
<1>2. Spec => [][SpacedStep]_vars
    BY <1>1, Invariance, PTL DEF Spec
<1> QED BY <1>2 DEF RequestsSpaced, SpacedStep
-----------------------------------------------------------------------------
(* The interface implements NextHopQueues *)

NumbersOf(queue) == [i \in DOMAIN queue |-> queue[i].number]

QueueOf == [h \in Hops |-> NumbersOf(WaitingFor(interface, h))]

LEMMA NoNumbers == NumbersOf(<<>>) = <<>>
BY DEF NumbersOf

LEMMA OneNumberMore ==
    ASSUME NEW S, NEW queue \in Seq(S), NEW d
    PROVE  NumbersOf(Append(queue, d)) = Append(NumbersOf(queue), d.number)
<1>1. /\ Len(queue) \in Nat /\ DOMAIN queue = 1 .. Len(queue)
    OBVIOUS
<1> DEFINE n == Len(queue)
           more == Append(queue, d)
<1>2. /\ DOMAIN more = 1 .. n + 1 /\ more[n + 1] = d
      /\ \A i \in 1 .. n : more[i] = queue[i]
    OBVIOUS
<1> DEFINE numbers == NumbersOf(queue)
           longer == Append(numbers, d.number)
<1>3. DOMAIN numbers = 1 .. n /\ \A i \in 1 .. n : numbers[i] = queue[i].number
    BY <1>1 DEF NumbersOf
<1>4. numbers = [i \in 1 .. n |-> numbers[i]] /\ Len(numbers) = n
    BY <1>1 DEF NumbersOf
<1>5. longer = [i \in 1 .. n + 1 |-> IF i = n + 1 THEN d.number ELSE numbers[i]]
    BY <1>1, <1>3, <1>4
<1>6. NumbersOf(more) = [i \in 1 .. n + 1 |-> more[i].number]
    BY <1>2 DEF NumbersOf
<1>7. longer = Append(NumbersOf(queue), d.number)
      /\ NumbersOf(more) = NumbersOf(Append(queue, d))
    OBVIOUS
<1> HIDE DEF more, numbers, n, longer
<1>8. \A i \in 1 .. n + 1 :
          more[i].number = IF i = n + 1 THEN d.number ELSE numbers[i]
    <2>1. n \in Nat
        BY <1>1 DEF n
    <2> QED BY <2>1, <1>2, <1>3
<1>9. NumbersOf(more) = longer
    BY <1>5, <1>6, <1>8
<1> QED BY <1>7, <1>9

\* What the queue of a hop becomes, from the two maps
LEMMA QueueIs ==
    ASSUME NEW x \in Hops
    PROVE  /\ QueueOf[x] = NumbersOf(IF x \in DOMAIN Waiting THEN Waiting[x]
                                                           ELSE <<>>)
           /\ QueueOf'[x] = NumbersOf(IF x \in (DOMAIN Waiting)'
                                      THEN Waiting'[x] ELSE <<>>)
BY DEF QueueOf, WaitingFor, Waiting

LEMMA QueueOfAll ==
    /\ QueueOf = [x \in Hops |-> QueueOf[x]]
    /\ QueueOf' = [x \in Hops |-> QueueOf'[x]]
BY DEF QueueOf

LEMMA SameQueues ==
    ASSUME Waiting' = Waiting
    PROVE  QueueOf' = QueueOf
BY DEF QueueOf, WaitingFor, Waiting

\* The abstract steps, in terms of the queues above
AbstractHand(h) ==
    /\ handed' = [handed EXCEPT ![h] = @ + 1]
    /\ \/ /\ QueueOf[h] = <<>>
          /\ left' = [left EXCEPT ![h] = Append(@, handed'[h])]
          /\ QueueOf' = QueueOf
       \/ /\ QueueOf' = [QueueOf EXCEPT ![h] = Append(@, handed'[h])]
          /\ left' = left

AbstractLeave(h) ==
    /\ left' = [left EXCEPT ![h] = @ \o QueueOf[h]]
    /\ QueueOf' = [QueueOf EXCEPT ![h] = <<>>]
    /\ handed' = handed

AbstractGiveUp(S) ==
    /\ QueueOf' = [h \in Hops |-> IF h \in S THEN <<>> ELSE QueueOf[h]]
    /\ handed' = handed /\ left' = left

LEMMA HandsOne ==
    ASSUME IInv, NEW h \in Hops, Handed(h)
    PROVE  handed[h] \in Nat /\ handed'[h] = handed[h] + 1
BY DEF IInv, HistoryOK, Handed

LEMMA SentAtOnceHands ==
    ASSUME IInv, NEW h \in Hops, SentAtOnce(h)
    PROVE  AbstractHand(h)
<1>1. /\ h \in DOMAIN Mappings /\ Waiting' = Waiting /\ Handed(h)
      /\ left' = Longer(left, h, <<handed[h] + 1>>)
    BY DEF SentAtOnce
<1>2. handed[h] \in Nat /\ handed'[h] = handed[h] + 1
    BY <1>1, HandsOne
<1>3. h \notin DOMAIN Waiting
    BY <1>1, InvFacts
<1>4. QueueOf[h] = <<>>
    BY <1>3, QueueIs, NoNumbers
<1>5. left \in [Hops -> Seq(Nat)]
    BY DEF IInv, HistoryOK
<1>6. left[h] \o <<handed[h] + 1>> = Append(left[h], handed'[h])
    BY <1>2, <1>5
<1>7. left' = [left EXCEPT ![h] = Append(@, handed'[h])]
    BY <1>1, <1>5, <1>6 DEF Longer
<1> QED BY <1>1, <1>4, <1>7, SameQueues DEF AbstractHand, Handed

LEMMA WaitsTooHands ==
    ASSUME IInv, NEW h \in Hops, WaitsToo(h)
    PROVE  AbstractHand(h)
<1> DEFINE queue == WaitingFor(interface, h)
           d == Datagram(h, handed[h] + 1)
<1>1. /\ Waiting' = Put(Waiting, h, Append(queue, d)) /\ Handed(h)
      /\ left' = left
    BY DEF WaitsToo
<1>2. handed'[h] = handed[h] + 1 /\ d.number = handed'[h]
    BY <1>1, HandsOne DEF Datagram
<1>3. queue \in Seq([hop : {h}, number : Nat])
    BY QueueFacts DEF IInv
<1>4. queue = IF h \in DOMAIN Waiting THEN Waiting[h] ELSE <<>>
    BY DEF WaitingFor, Waiting
<1> HIDE DEF queue, d
<1>5. /\ (DOMAIN Waiting)' = DOMAIN Waiting \cup {h}
      /\ Waiting'[h] = Append(queue, d)
      /\ \A x \in DOMAIN Waiting \ {h} : Waiting'[x] = Waiting[x]
    <2> HIDE DEF Waiting
    <2> QED BY <1>1 DEF Put
<1>6. QueueOf'[h] = Append(QueueOf[h], handed'[h])
    <2>1. QueueOf[h] = NumbersOf(queue)
        BY <1>4, QueueIs
    <2>2. QueueOf'[h] = NumbersOf(Append(queue, d))
        BY <1>5, QueueIs
    <2>3. NumbersOf(Append(queue, d)) = Append(NumbersOf(queue), d.number)
        BY <1>3, OneNumberMore
    <2> QED BY <2>1, <2>2, <2>3, <1>2
<1>7. \A x \in Hops \ {h} : QueueOf'[x] = QueueOf[x]
    BY <1>5, QueueIs
<1>8. QueueOf' = [QueueOf EXCEPT ![h] = Append(@, handed'[h])]
    <2> HIDE DEF QueueOf
    <2> QED BY <1>6, <1>7, QueueOfAll
<1> QED BY <1>1, <1>8 DEF AbstractHand, Handed

LEMMA AsksNowHands ==
    ASSUME IInv, NEW h \in Hops, AsksNow(h)
    PROVE  AbstractHand(h)
<1> DEFINE d == Datagram(h, handed[h] + 1)
<1>1. /\ Waiting' = Put(Waiting, h, <<d>>) /\ Handed(h)
      /\ left' = left /\ h \notin DOMAIN Requests
    BY DEF AsksNow
<1>2. handed'[h] = handed[h] + 1 /\ d.number = handed'[h]
    BY <1>1, HandsOne DEF Datagram
<1>3. h \notin DOMAIN Waiting
    BY <1>1, InvFacts
<1> HIDE DEF d
<1>4. /\ (DOMAIN Waiting)' = DOMAIN Waiting \cup {h}
      /\ Waiting'[h] = <<d>>
      /\ \A x \in DOMAIN Waiting \ {h} : Waiting'[x] = Waiting[x]
    <2> HIDE DEF Waiting
    <2> QED BY <1>1 DEF Put
<1>5. QueueOf'[h] = Append(QueueOf[h], handed'[h])
    <2>1. QueueOf[h] = <<>>
        BY <1>3, QueueIs, NoNumbers
    <2>2. QueueOf'[h] = NumbersOf(<<d>>)
        BY <1>4, QueueIs
    <2>3. NumbersOf(<<d>>) = <<d.number>>
        BY DEF NumbersOf
    <2> QED BY <2>1, <2>2, <2>3, <1>2
<1>6. \A x \in Hops \ {h} : QueueOf'[x] = QueueOf[x]
    BY <1>4, QueueIs
<1>7. QueueOf' = [QueueOf EXCEPT ![h] = Append(@, handed'[h])]
    <2> HIDE DEF QueueOf
    <2> QED BY <1>5, <1>6, QueueOfAll
<1> QED BY <1>1, <1>7 DEF AbstractHand, Handed

LEMMA LearnsLeaves ==
    ASSUME IInv, NEW h \in Hops, NEW ether \in Ethers, Learns(h, ether)
    PROVE  AbstractLeave(h)
<1> DEFINE queue == WaitingFor(interface, h)
<1>1. /\ Waiting' = Erased(Waiting, h) /\ handed' = handed
      /\ left' = Longer(left, h, NumbersOf(queue))
    BY DEF Learns, NumbersOf
<1>2. QueueOf[h] = NumbersOf(queue)
    BY DEF QueueOf
<1>3. /\ (DOMAIN Waiting)' = DOMAIN Waiting \ {h}
      /\ \A x \in DOMAIN Waiting \ {h} : Waiting'[x] = Waiting[x]
    <2>1. Waiting' = Erased(Waiting, h)
        BY <1>1
    <2> QED BY <2>1, ErasedFacts
<1> HIDE DEF queue
<1>4. QueueOf'[h] = <<>>
    BY <1>3, QueueIs, NoNumbers
<1>5. \A x \in Hops \ {h} : QueueOf'[x] = QueueOf[x]
    BY <1>3, QueueIs
<1>6. QueueOf' = [QueueOf EXCEPT ![h] = <<>>]
    <2> HIDE DEF QueueOf
    <2> QED BY <1>4, <1>5, QueueOfAll
<1> QED BY <1>1, <1>2, <1>6 DEF AbstractLeave, Longer

LEMMA ExpiresGivesUp ==
    ASSUME IInv, NEW ms \in Ticks, Expires(ms)
    PROVE  \E S \in SUBSET Hops : AbstractGiveUp(S)
<1> DEFINE S == Overdue(Now + ms)
<1>1. /\ Waiting' = Restrict(Waiting, DOMAIN Waiting \ S)
      /\ handed' = handed /\ left' = left
    BY DEF Expires
<1>2. S \in SUBSET Hops
    BY InvFacts DEF Overdue
<1> HIDE DEF S
<1>3. /\ (DOMAIN Waiting)' = DOMAIN Waiting \ S
      /\ \A x \in DOMAIN Waiting \ S : Waiting'[x] = Waiting[x]
    <2>1. Waiting' = Restrict(Waiting, DOMAIN Waiting \ S)
        BY <1>1
    <2> QED BY <2>1, RestrictFacts
<1>4. \A x \in Hops : QueueOf'[x] = IF x \in S THEN <<>> ELSE QueueOf[x]
    BY <1>3, QueueIs, NoNumbers
<1>5. QueueOf' = [x \in Hops |-> IF x \in S THEN <<>> ELSE QueueOf[x]]
    <2> HIDE DEF QueueOf
    <2> QED BY <1>4, QueueOfAll
<1>6. AbstractGiveUp(S)
    BY <1>1, <1>5 DEF AbstractGiveUp
<1> QED BY <1>2, <1>6

\* Per hop, datagrams leave in order, at most once, and none overtakes those
\* that wait: every step of the interface is a step of NextHopQueues or
\* changes nothing in it (network_interface.cc:28-153).
THEOREM ImplementsQueues == Spec => QueuesSpec
<1>1. Init => Queues!Init
    <2> SUFFICES ASSUME Init PROVE Queues!Init
        OBVIOUS
    <2>1. interface.datagrams_waiting = <<>>
        BY DEF Init, NewInterface
    <2>2. \A h : WaitingFor(interface, h) = <<>>
        BY <2>1 DEF WaitingFor
    <2>3. QueueOf = [h \in Hops |-> <<>>]
        BY <2>2, NoNumbers DEF QueueOf
    <2> QED BY <2>3 DEF Queues!Init, Init, QueueOf, NumbersOf
<1>2. IInv /\ [Next]_vars => [Queues!Next]_(Queues!vars)
    <2> SUFFICES ASSUME IInv, [Next]_vars
                 PROVE  Queues!Next \/ UNCHANGED Queues!vars
        OBVIOUS
    <2> USE DEF NumbersOf, QueueOf
    <2>1. ASSUME NEW h \in Hops, AbstractHand(h)
          PROVE  Queues!Next
        <3>1. Queues!Hand(h)
            BY <2>1 DEF AbstractHand, Queues!Hand
        <3> QED BY <3>1 DEF Queues!Next
    <2>2. ASSUME NEW h \in Hops, AbstractLeave(h)
          PROVE  Queues!Next
        <3>1. Queues!Leave(h)
            BY <2>2 DEF AbstractLeave, Queues!Leave
        <3> QED BY <3>1 DEF Queues!Next
    <2>3. ASSUME NEW S \in SUBSET Hops, AbstractGiveUp(S)
          PROVE  Queues!Next
        <3>1. Queues!GiveUp(S)
            BY <2>3 DEF AbstractGiveUp, Queues!GiveUp
        <3> QED BY <3>1 DEF Queues!Next
    <2>4. ASSUME QueueOf' = QueueOf, handed' = handed, left' = left
          PROVE  UNCHANGED Queues!vars
        BY <2>4 DEF Queues!vars
    <2> HIDE DEF NumbersOf, QueueOf
    <2>5. CASE UNCHANGED vars
        BY <2>5, <2>4 DEF vars, QueueOf
    <2>6. CASE Quiet
        BY <2>6, <2>4, SameQueues DEF Quiet
    <2>7. CASE \E h \in Hops : SentAtOnce(h)
        BY <2>7, <2>1, SentAtOnceHands
    <2>8. CASE \E h \in Hops : WaitsToo(h)
        BY <2>8, <2>1, WaitsTooHands
    <2>9. CASE \E h \in Hops : AsksNow(h)
        BY <2>9, <2>1, AsksNowHands
    <2>10. CASE \E h \in Hops, ether \in Ethers : Learns(h, ether)
        BY <2>10, <2>2, LearnsLeaves
    <2>11. CASE \E ms \in Ticks : Expires(ms)
        BY <2>11, <2>3, ExpiresGivesUp
    <2> QED BY <2>5, <2>6, <2>7, <2>8, <2>9, <2>10, <2>11, StepEffect
<1> QED BY <1>1, <1>2, Invariance, PTL DEF Spec, QueuesSpec, Queues!Spec
=============================================================================
