------------------------------ MODULE BytePipe ------------------------------
(***************************************************************************)
(* What one direction of a TCP connection promises to the two programs at  *)
(* its ends: a reliable byte stream.  The reader gets a prefix of what was *)
(* written, and the end of the stream only after all of it.                *)
(***************************************************************************)
EXTENDS Integers

VARIABLES
    written,     \* number of bytes the writer wrote
    finished,    \* has the writer closed the stream?
    arrived,     \* number of bytes ready for the reader or read
    end_seen     \* is the end of the stream known at the reader's end?

vars == <<written, finished, arrived, end_seen>>

Init == written = 0 /\ finished = FALSE /\ arrived = 0 /\ end_seen = FALSE

Write ==
    /\ ~finished
    /\ written' \in Nat /\ written' > written
    /\ UNCHANGED <<finished, arrived, end_seen>>

Finish ==
    /\ finished' = TRUE
    /\ UNCHANGED <<written, arrived, end_seen>>

Arrive ==
    /\ arrived' \in arrived .. written
    /\ end_seen => arrived' = arrived
    /\ end_seen' \in BOOLEAN
    /\ end_seen => end_seen'
    /\ end_seen' => finished /\ arrived' = written
    /\ UNCHANGED <<written, finished>>

Next == Write \/ Finish \/ Arrive

Spec == Init /\ [][Next]_vars
=============================================================================
