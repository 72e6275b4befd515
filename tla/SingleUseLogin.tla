--------------------------- MODULE SingleUseLogin ---------------------------
(***************************************************************************)
(* What a login challenge promises: it is issued to an address, possibly   *)
(* bound to a user; it is exchanged at most once; a bound one only for a   *)
(* session of that user; and not before it was issued.                     *)
(***************************************************************************)
CONSTANTS Nonces, Holders, SessionIds, NoValue

VARIABLES bound,    \* the user a challenge is bound to, once issued
          granted   \* the sessions obtained with a challenge, and whose they are

NotIssued == [issued |-> FALSE, to |-> NoValue]

Init ==
    /\ bound = [n \in Nonces |-> NotIssued]
    /\ granted = [n \in Nonces |-> {}]

Issue(n, h) ==
    /\ bound[n] = NotIssued
    /\ bound' = [bound EXCEPT ![n] = [issued |-> TRUE, to |-> h]]
    /\ UNCHANGED granted

Grant(n, s, h) ==
    /\ bound[n].issued
    /\ bound[n].to \in {h, NoValue}
    /\ granted[n] = {}
    /\ granted' = [granted EXCEPT ![n] = {<<s, h>>}]
    /\ UNCHANGED bound

Next ==
    \/ \E n \in Nonces, h \in Holders \cup {NoValue} : Issue(n, h)
    \/ \E n \in Nonces, s \in SessionIds, h \in Holders : Grant(n, s, h)

Spec == Init /\ [][Next]_<<bound, granted>>
=============================================================================
