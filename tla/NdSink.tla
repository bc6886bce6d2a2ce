------------------------------- MODULE NdSink -------------------------------
(***************************************************************************)
(* What a sink promises to those who listen to notify::state: it lives the *)
(* life of SinkLife, as long as its code is not run by two threads at once.*)
(***************************************************************************)
EXTENDS SinkLife

VARIABLES
    kind,   \* which sink it is
    state,  \* the property
    apart   \* no handlers of two threads were interleaved so far

Init == kind \in Kinds /\ state = "disconnected" /\ apart = TRUE

\* Once it has gone wrong, nothing is promised any more.
Mixed == ~ apart' /\ state' \in LifeStates

Lives == apart /\ apart' /\ (<<state, state'>> \in Moves(kind) \/ state' = state)

Next == kind' = kind /\ (Lives \/ Mixed)

Spec == Init /\ [][Next]_<<kind, state, apart>>
=============================================================================
