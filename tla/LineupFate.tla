------------------------------ MODULE LineupFate ------------------------------
(***************************************************************************)
(* What finalisation promises of the final lineup of a match, whatever     *)
(* workers do and fail at: an attempt begins only while the lineup is      *)
(* owed; it is counted once or never, and only after it has begun; the     *)
(* lineup comes with SUCCESS in one step, and then the row is never        *)
(* written again.                                                          *)
(***************************************************************************)
EXTENDS Naturals

CONSTANT Match

VARIABLES record,   \* record[m]: state and attempt_count of its row
          lineup,   \* matches whose final lineup is there
          begun     \* begun[m]: attempts to get it that have begun

Owed(m) == record[m].state \in {"REQUIRED", "RETRYABLE"}

Init ==
    /\ record = [m \in Match |-> [state |-> "NONE", attempts |-> 0]]
    /\ lineup = {}
    /\ begun = [m \in Match |-> 0]

\* create_required
Require(m) ==
    /\ record[m].state = "NONE"
    /\ record' = [record EXCEPT ![m].state = "REQUIRED"]
    /\ UNCHANGED <<lineup, begun>>

Begin(m) ==
    /\ Owed(m)
    /\ begun' = [begun EXCEPT ![m] = @ + 1]
    /\ UNCHANGED <<record, lineup>>

Becomes(m, state, attempts) ==
    /\ Owed(m) /\ attempts <= begun[m]
    /\ record' = [record EXCEPT ![m] = [state |-> state, attempts |-> attempts]]

\* mark_retryable, after mark_attempt_started if the attempt had begun
Fail(m) ==
    /\ \E n \in {0, 1} : Becomes(m, "RETRYABLE", record[m].attempts + n)
    /\ UNCHANGED <<lineup, begun>>

\* mark_attempt_started and mark_success, with the lineup
Succeed(m) ==
    /\ Becomes(m, "SUCCESS", record[m].attempts + 1)
    /\ lineup' = lineup \cup {m}
    /\ UNCHANGED begun

Next == \E m \in Match : Require(m) \/ Begin(m) \/ Fail(m) \/ Succeed(m)

Spec == Init /\ [][Next]_<<record, lineup, begun>>
=============================================================================
