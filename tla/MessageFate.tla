------------------------------ MODULE MessageFate ------------------------------
(***************************************************************************)
(* What the notification queue promises of a message, whatever fails: it   *)
(* is tried while it is pending and never afterwards, at most MaxRetries   *)
(* times again; it is given up only after the last of these attempts; and  *)
(* it may be lost.                                                         *)
(***************************************************************************)
EXTENDS Naturals

CONSTANTS Message, MaxRetries

VARIABLES fate,    \* fate[m]: one of Fates
          tries    \* tries[m]: attempts to send m

Fates == {"unposted", "pending", "delivered", "dead", "lost"}

Init ==
    /\ fate = [m \in Message |-> "unposted"]
    /\ tries = [m \in Message |-> 0]

Becomes(m, from, to) ==
    /\ fate[m] = from
    /\ fate' = [fate EXCEPT ![m] = to]

Post(m) == Becomes(m, "unposted", "pending") /\ UNCHANGED tries

Try(m) ==
    /\ fate[m] = "pending" /\ tries[m] <= MaxRetries
    /\ tries' = [tries EXCEPT ![m] = @ + 1]
    /\ UNCHANGED fate

Deliver(m) == tries[m] > 0 /\ Becomes(m, "pending", "delivered") /\ UNCHANGED tries

GiveUp(m) ==
    /\ tries[m] = MaxRetries + 1
    /\ Becomes(m, "pending", "dead")
    /\ UNCHANGED tries

Lose(m) == Becomes(m, "pending", "lost") /\ UNCHANGED tries

Next == \E m \in Message : Post(m) \/ Try(m) \/ Deliver(m) \/ GiveUp(m) \/ Lose(m)

Spec == Init /\ [][Next]_<<fate, tries>>
=============================================================================
