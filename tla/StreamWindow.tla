---------------------------- MODULE StreamWindow ----------------------------
(***************************************************************************)
(* What a reassembler promises: it knows a set of positions of a stream of *)
(* Length bytes, learns every position it is shown that lies inside a      *)
(* window of Capacity positions after the last one taken, never forgets    *)
(* one, and lets its reader take any part of the longest known prefix.     *)
(* The stream is ended when its end is announced and all of it is known.   *)
(***************************************************************************)
EXTENDS Integers

CONSTANTS Length, Capacity

VARIABLES
    known,       \* positions learned so far
    taken,       \* number of positions the reader took
    announced,   \* has the end of the stream been announced?
    ended        \* is the stream closed?

vars == <<known, taken, announced, ended>>

Positions == 0 .. Length - 1

Init == known = {} /\ taken = 0 /\ announced = FALSE /\ ended = FALSE

\* A substring from first to last arrives, with or without the end mark
Learn(first, last, mark) ==
    /\ mark => last = Length - 1
    /\ known' = known \cup {i \in first .. last : i < taken + Capacity}
    /\ announced' = (announced \/ mark)
    /\ ended' = (announced' /\ known' = Positions)
    /\ UNCHANGED taken

\* The reader takes what follows, up to position n
Take(n) ==
    /\ taken < n
    /\ 0 .. n - 1 \subseteq known
    /\ taken' = n
    /\ UNCHANGED <<known, announced, ended>>

Next ==
    \/ \E first \in 0 .. Length, last \in -1 .. Length - 1, mark \in BOOLEAN :
          Learn(first, last, mark)
    \/ \E n \in 1 .. Length : Take(n)

Spec == Init /\ [][Next]_vars
=============================================================================
