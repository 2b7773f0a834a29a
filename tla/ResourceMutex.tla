--------------------------- MODULE ResourceMutex ---------------------------
(***************************************************************************)
(* What callers of run_with_resource_lock rely on, stated without pools,   *)
(* connections or transactions: a resource is entered by one session at a  *)
(* time.  A session may leave one resource or several at once (a commit    *)
(* ends the guarded region of everything acquired in that transaction),    *)
(* and a crash makes several sessions leave together.                      *)
(***************************************************************************)
CONSTANTS Session, Resource

VARIABLE inside     \* inside[s]: the resources session s works on alone

Init == inside = [s \in Session |-> {}]

Enter(s, r) ==
    /\ \A t \in Session : r \notin inside[t]
    /\ inside' = [inside EXCEPT ![s] = @ \cup {r}]

Leave ==
    /\ inside' \in [Session -> SUBSET Resource]
    /\ \A s \in Session : inside'[s] \subseteq inside[s]

Next == Leave \/ \E s \in Session, r \in Resource : Enter(s, r)

Spec == Init /\ [][Next]_inside
=============================================================================
