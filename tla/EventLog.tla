------------------------------- MODULE EventLog -------------------------------
(***************************************************************************)
(* What an event store promises: an append-only log to which each save     *)
(* adds all of its events at once, in order, and at most once.             *)
(***************************************************************************)
EXTENDS Sequences, Functions

CONSTANTS Writers, Events

VARIABLES
    log,
    proposed   \* the events each writer last asked to append

Init ==
    /\ log = <<>>
    /\ proposed = [w \in Writers |-> <<>>]

Propose(w) ==
    /\ proposed'[w] \in Seq(Events)
    /\ proposed' = [proposed EXCEPT ![w] = proposed'[w]]
    /\ UNCHANGED log

Append_(w) ==
    /\ Range(proposed[w]) \cap Range(log) = {}
    /\ log' = log \o proposed[w]
    /\ UNCHANGED proposed

Next == \E w \in Writers : Propose(w) \/ Append_(w)

Spec == Init /\ [][Next]_<<log, proposed>>
=============================================================================
