-------------------------------- MODULE Lease --------------------------------
(***************************************************************************)
(* What a session token promises: it is issued once, it is good for at     *)
(* most Duration, and once it has ended - by expiry, revocation or logout  *)
(* - nothing makes it good again.                                          *)
(***************************************************************************)
EXTENDS Naturals

CONSTANTS Tokens, Duration

VARIABLES clock,    \* the time
          state     \* the state of each token, and since when it is issued

Init ==
    /\ clock = 0
    /\ state = [t \in Tokens |-> [is |-> "unissued", since |-> 0]]

Issue(t) ==
    /\ state[t].is = "unissued"
    /\ state' = [state EXCEPT ![t] = [is |-> "good", since |-> clock]]
    /\ UNCHANGED clock

\* Any number of tokens may end at once (a revoke-all, the passing of time);
\* those that reached their cap must.
End(ending, later) ==
    /\ \A t \in ending : state[t].is = "good"
    /\ \A t \in Tokens \ ending :
          state[t].is = "good" => later < state[t].since + Duration
    /\ state' = [t \in Tokens |->
                   IF t \in ending THEN [state[t] EXCEPT !.is = "ended"] ELSE state[t]]
    /\ clock' = later

Next ==
    \/ \E t \in Tokens : Issue(t)
    \/ \E ending \in SUBSET Tokens, later \in {clock, clock + 1} : End(ending, later)

Spec == Init /\ [][Next]_<<clock, state>>
=============================================================================
