------------------------------ MODULE EventLoop ------------------------------
(***************************************************************************)
(* util/eventloop.cc: rules for file descriptors and the two halves of     *)
(* wait_next_event, before and after poll returns.  Other threads may run  *)
(* while poll waits, so that the second half works on the results of poll  *)
(* although the descriptors may have changed.                              *)
(*                                                                         *)
(* The rules capture the state of the program they belong to, a record w   *)
(* with at least the fields of FileDescriptor.  What a rule does with it   *)
(* is given by operators of the rule's name and w.                         *)
(***************************************************************************)
EXTENDS Integers, SequencesExt

CONSTANTS
    Interest(_, _),    \* the four functions of a rule; all but the first
    Callback(_, _),    \* return the changed state of the program
    Cancel(_, _),
    Error(_, _),
    Status(_, _)       \* what poll finds of a descriptor

\* An FDRule.  Its cancel_requested is never set by a program: none keeps the
\* RuleHandle that add_rule returns.
Rule(name, fd, direction) == [name |-> name, fd |-> fd, direction |-> direction]

(* Before poll: lines 115 to 158 *)

\* No more can be read on this rule, or its descriptor is closed
Defunct(w, rule) ==
    \/ rule.direction = "IN" /\ rule.fd \in w.eof
    \/ rule.fd \in w.closed

\* One round of the loop that sets up the pollfds: the rules that are kept,
\* each with the events poll is asked for (errors and hangups come unasked)
ArrangeRule(arranged, rule) ==
    IF Defunct(arranged.w, rule)
    THEN [arranged EXCEPT !.w = Cancel(rule.name, @)]
    ELSE [arranged EXCEPT
            !.rules = Append(@, rule),
            !.asked = Append(@, IF Interest(rule.name, arranged.w)
                                THEN {rule.direction} ELSE {})]

Arranged(rules, w) ==
    FoldLeft(ArrangeRule, [w |-> w, rules |-> <<>>, asked |-> <<>>], rules)

NothingToPoll(arranged) ==
    \A i \in DOMAIN arranged.asked : arranged.asked[i] = {}

\* revents of each pollfd
Polled(arranged) ==
    [i \in DOMAIN arranged.rules |->
        Status(arranged.rules[i].fd, arranged.w)
            \cap ({"ERR", "HUP"} \cup arranged.asked[i])]

TimesOut(revents) == \A i \in DOMAIN revents : revents[i] = {}

(* After poll: lines 166 to 224 *)

\* Mutated form of HungUp: a hangup counts even if there is still data
HungUpWithData(rule, asked, revents) ==
    "HUP" \in revents /\ (asked # {} \/ rule.direction = "OUT")

\* The descriptor is defunct: the only thing poll has to say is the hangup,
\* or the rule will never ask for anything but to write
HungUp(rule, asked, revents) ==
    /\ "HUP" \in revents
    /\ \/ asked # {} /\ asked \cap revents = {}
       \/ rule.direction = "OUT"

\* A busy wait is an exception: the callback did not use its descriptor, and
\* the rule is still interested
BusyWaitChecked(w, rule) ==
    [w EXCEPT !.serviced = FALSE,
              !.failed = @ \/ /\ ~w.serviced /\ rule.fd \notin w.closed
                              /\ Interest(rule.name, w)]

\* The callback of a ready rule
Called(w, rule) ==
    BusyWaitChecked(Callback(rule.name, [w EXCEPT !.serviced = FALSE]), rule)

\* One round of the loop through the results of poll
ServeRule(served, i) ==
    LET rule    == served.polled.rules[i]
        asked   == served.polled.asked[i]
        revents == served.polled.revents[i]
        ready   == asked \cap revents # {}
    IN  IF served.success \/ revents = {}
        THEN [served EXCEPT !.rules = Append(@, rule)]
        ELSE IF "ERR" \in revents
        THEN [served EXCEPT !.w = Cancel(rule.name, Error(rule.name, @))]
        ELSE IF HungUp(rule, asked, revents)
        THEN [served EXCEPT !.w = Cancel(rule.name, @)]
        ELSE [served EXCEPT !.rules = Append(@, rule), !.success = ready,
                            !.w = IF ready THEN Called(@, rule) ELSE @]

\* At most one rule is served; success says whether one was.  polled has the
\* rules and asked of Arranged and the revents of Polled.
Served(polled, w) ==
    FoldLeft(ServeRule,
             [w |-> w, rules |-> <<>>, success |-> FALSE, polled |-> polled],
             [i \in DOMAIN polled.rules |-> i])
=============================================================================
