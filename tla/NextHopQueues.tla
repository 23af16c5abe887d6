--------------------------- MODULE NextHopQueues ---------------------------
(***************************************************************************)
(* What a network interface promises for the datagrams handed to it: per   *)
(* next hop they leave in the order they came, each at most once; some     *)
(* wait together, and then either all leave or all are given up.  One      *)
(* never overtakes those that wait.                                        *)
(***************************************************************************)
EXTENDS Integers, Sequences

CONSTANT Hops

VARIABLES
    handed,    \* for each hop, how many datagrams were handed over
    waiting,   \* the sequence of those that wait, as numbers
    left       \* the sequence of those that left

vars == <<handed, waiting, left>>

Init ==
    /\ handed = [h \in Hops |-> 0]
    /\ waiting = [h \in Hops |-> <<>>]
    /\ left = [h \in Hops |-> <<>>]

Hand(h) ==
    /\ handed' = [handed EXCEPT ![h] = @ + 1]
    /\ \/ /\ waiting[h] = <<>>
          /\ left' = [left EXCEPT ![h] = Append(@, handed'[h])]
          /\ waiting' = waiting
       \/ /\ waiting' = [waiting EXCEPT ![h] = Append(@, handed'[h])]
          /\ left' = left

Leave(h) ==
    /\ left' = [left EXCEPT ![h] = @ \o waiting[h]]
    /\ waiting' = [waiting EXCEPT ![h] = <<>>]
    /\ handed' = handed

GiveUp(S) ==
    /\ waiting' = [h \in Hops |-> IF h \in S THEN <<>> ELSE waiting[h]]
    /\ UNCHANGED <<handed, left>>

Next ==
    \/ \E h \in Hops : Hand(h) \/ Leave(h)
    \/ \E S \in SUBSET Hops : GiveUp(S)

Spec == Init /\ [][Next]_vars
=============================================================================
