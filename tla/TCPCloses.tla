----------------------------- MODULE TCPCloses -----------------------------
(***************************************************************************)
(* Does a connection get its bytes across and come to its end?  The hosts  *)
(* of TCPConnection on a network that loses at most MaxLosses messages and *)
(* is faster than the retransmission timer: time passes for both event     *)
(* loops together, and only when every message has arrived or is lost.     *)
(***************************************************************************)
EXTENDS TCPConnection

CONSTANT MaxLosses   \* bound: messages the network loses

ASSUME LossAssumption == MaxLosses \in Nat

VARIABLE losses      \* messages lost so far

timedVars == <<peer, net, listening, losses>>

InitTimed == Init /\ losses = 0

\* A host acts on its own, or on a message that leaves the network with this
Consume(h, msg) ==
    LET result == IF Active(peer[h]) /\ Accepts(h, msg)
                  THEN PeerReceive(peer[h], msg, 0)
                  ELSE [peer |-> peer[h], sent |-> <<>>]
    IN  /\ peer' = [peer EXCEPT ![h] = result.peer]
        /\ net' = [net EXCEPT ![h] = @ \ {msg},
                              ![Other(h)] = @ \cup ToSet(result.sent)]
        /\ listening' = (listening /\ ~(h = Server /\ Accepts(h, msg)))
        /\ UNCHANGED losses

LoseOne(h, msg) ==
    /\ losses < MaxLosses
    /\ losses' = losses + 1
    /\ Lose(h, msg)

Quiet == \A h \in Hosts : net[h] = {}
Running == \E h \in Hosts : Active(peer[h])

\* One round of each event loop that is still running, ms milliseconds later
TickBoth(ms) ==
    LET ticked == [h \in Hosts |-> IF Active(peer[h]) THEN PeerTick(peer[h], ms)
                                   ELSE [peer |-> peer[h], sent |-> <<>>]]
    IN  /\ Running /\ Quiet
        /\ peer' = [h \in Hosts |-> ticked[h].peer]
        /\ net' = [h \in Hosts |-> ToSet(ticked[Other(h)].sent)]
        /\ UNCHANGED <<listening, losses>>

ProgramStep(h) == AppNext(h) /\ UNCHANGED losses
ConnectTimed   == Connect /\ UNCHANGED losses
Delivery(h)    == \E msg \in net[h] : Consume(h, msg)
Time           == \E ms \in TickMs : TickBoth(ms)

NextTimed ==
    \/ ConnectTimed
    \/ \E h \in Hosts :
          \/ ProgramStep(h)
          \/ Delivery(h)
          \/ \E msg \in net[h] : LoseOne(h, msg)
    \/ Time

\* Has the event loop of h something to do when ms milliseconds have passed?
\* Nothing is left of time for a host with no timer on that has heard nothing
\* for LingerTime: its loop goes on turning and finds nothing to do.
TimeTells(h, ms) ==
    /\ Active(peer[h])
    /\ PeerTick(peer[h], ms) # [peer |-> peer[h], sent |-> <<>>]

MayTick    == Quiet /\ \E h \in Hosts, ms \in TickMs : TimeTells(h, ms)
MayConnect == peer[Client].sender.abs_seqno = 0
MayRead(h) == BytesBuffered(InboundStream(peer[h])) > 0

CloseStep(h) == AppClose(h) /\ UNCHANGED losses
ReadStep(h) ==
    /\ \E len \in 1 .. ToWrite[Other(h)] : AppRead(h, len)
    /\ UNCHANGED losses

(***************************************************************************)
(* The programs read what has arrived and close their stream at some time; *)
(* a message that is not lost arrives; the event loops go on turning.      *)
(* Each line is the weak fairness of an action, with the condition under   *)
(* which it is enabled and changes something written out: to evaluate      *)
(* ENABLED, TLC would compute the nested LETs of these actions again at    *)
(* every use.  Time that passes without any change is not progress, so two *)
(* hosts that wait for each other with no timer on may stay so for ever.   *)
(***************************************************************************)
Fairness ==
    /\ []<>~MayConnect \/ []<><<ConnectTimed>>_timedVars
    /\ []<>~MayTick \/ []<><<Time>>_timedVars
    /\ \A h \in Hosts :
          /\ []<>(net[h] = {}) \/ []<><<Delivery(h)>>_timedVars
          /\ []<>~MayWrite(h) \/ []<><<CloseStep(h)>>_timedVars
          /\ []<>~MayRead(h) \/ []<><<ReadStep(h)>>_timedVars

TimedSpec == InitTimed /\ [][NextTimed]_timedVars /\ Fairness
-----------------------------------------------------------------------------
(***************************************************************************)
(* In the end every byte that was written is read at the other end, and    *)
(* both hosts have finished.  No message tells a sender that a closed      *)
(* window opened again (tcp_minnow_socket_impl.hh:138-147), so its probes  *)
(* have to find out; and no host waits for ever for an acknowledgement     *)
(* that the other is no longer there to send: one that may have to repeat  *)
(* it lingers (tcp_peer.hh:42-45, 79-82).                                  *)
(***************************************************************************)
AllReadAndFinished ==
    <>[](\A h \in Hosts :
            /\ ~Active(peer[h])
            /\ BytesPopped(InboundStream(peer[h])) = Written(Other(h)))
=============================================================================
