--------------------------- MODULE NotificationQueue ---------------------------
(***************************************************************************)
(* The notification queue of services/notification.py: a Redis list of     *)
(* payloads, one consumer task per web process (started and cancelled by   *)
(* the lifespan of main.py), retries and dead letters.                     *)
(*                                                                         *)
(* A letter is a payload as far as the queue looks at it: whose it is and  *)
(* its "retry" field.  Nothing in src/ calls enqueue_notification; who     *)
(* does calls it once per message.                                         *)
(***************************************************************************)
EXTENDS Naturals, Sequences

CONSTANTS Worker,       \* the consumer tasks, one per process
          Message,
          MaxRetries    \* FCM_RETRY_MAX

ASSUME NotificationAssumption == MaxRetries \in Nat

VARIABLES
    queue,       \* fover:notification:queue
    dead,        \* fover:notification:dead
    pc,
    hand,        \* hand[w]: the letters w has popped and not disposed of
    posted,      \* messages enqueued so far
    delivered,   \* messages for which a send has returned
    attempts     \* attempts[m]: sends of m begun, as far as Counted (history)

vars == <<queue, dead, pc, hand, posted, delivered, attempts>>

Last(s) == s[Len(s)]
Front(s) == SubSeq(s, 1, Len(s) - 1)

Init ==
    /\ queue = <<>>
    /\ dead = {}
    /\ pc = [w \in Worker |-> "down"]
    /\ hand = [w \in Worker |-> {}]
    /\ posted = {}
    /\ delivered = {}
    /\ attempts = [m \in Message |-> 0]

Goto(w, label) == pc' = [pc EXCEPT ![w] = label]
Drop(w) == hand' = [hand EXCEPT ![w] = {}]

Enqueue(m) ==
    /\ m \notin posted
    /\ posted' = posted \cup {m}
    /\ queue' = Append(queue, [msg |-> m, retry |-> 0])
    /\ UNCHANGED <<dead, pc, hand, delivered, attempts>>

\* The lifespan starts the task; a task that has died stays so until then.
Start(w) ==
    /\ pc[w] = "down"
    /\ Goto(w, "waiting")
    /\ UNCHANGED <<queue, dead, hand, posted, delivered, attempts>>

\* One attempt more; MaxRetries + 2, which the code never reaches, is enough to
\* tell, and bounds the count.
Counted(n) == IF n <= MaxRetries + 1 THEN n + 1 ELSE n

\* (Variant: the letter is looked at, not popped.)
TakeCopy(w) ==
    /\ pc[w] = "waiting" /\ queue # <<>>
    /\ hand' = [hand EXCEPT ![w] = {Last(queue)}]
    /\ attempts' = [attempts EXCEPT ![Last(queue).msg] = Counted(@)]
    /\ Goto(w, "sending")
    /\ UNCHANGED <<queue, dead, posted, delivered>>

\* brpop takes the newest letter (rpush adds at the same end); the send begins.
Take(w) ==
    /\ pc[w] = "waiting" /\ queue # <<>>
    /\ hand' = [hand EXCEPT ![w] = {Last(queue)}]
    /\ queue' = Front(queue)
    /\ attempts' = [attempts EXCEPT ![Last(queue).msg] = Counted(@)]
    /\ Goto(w, "sending")
    /\ UNCHANGED <<dead, posted, delivered>>

SendReturns(w) ==
    /\ pc[w] = "sending"
    /\ delivered' = delivered \cup {l.msg : l \in hand[w]}
    /\ Drop(w) /\ Goto(w, "waiting")
    /\ UNCHANGED <<queue, dead, posted, attempts>>

\* (Variant: the retry is not counted.)
SendRaisesUncounted(w) ==
    /\ pc[w] = "sending" /\ Goto(w, "failed")
    /\ UNCHANGED <<queue, dead, hand, posted, delivered, attempts>>

\* The send raises, with the notification out or not.
SendRaises(w) ==
    /\ pc[w] = "sending" /\ Goto(w, "failed")
    /\ hand' = [hand EXCEPT ![w] = {[l EXCEPT !.retry = @ + 1] : l \in @}]
    /\ UNCHANGED <<queue, dead, posted, delivered, attempts>>

\* (Variant: one retry less.)
RetriesSooner(l) == l.retry < MaxRetries

\* (Variant: one retry more.)
RetriesLonger(l) == l.retry <= MaxRetries + 1

Retries(l) == l.retry <= MaxRetries

\* A failed letter goes back to the queue or to the dead letters.
Push(w) ==
    \E l \in hand[w] :
        /\ queue' = IF Retries(l) THEN Append(queue, l) ELSE queue
        /\ dead' = IF Retries(l) THEN dead ELSE dead \cup {l}

Repost(w) ==
    /\ pc[w] = "failed"
    /\ Push(w) /\ Drop(w)
    /\ Goto(w, IF \E l \in hand[w] : Retries(l) THEN "resting" ELSE "waiting")
    /\ UNCHANGED <<posted, delivered, attempts>>

\* The retry delay is over.
Wake(w) ==
    /\ pc[w] = "resting" /\ Goto(w, "waiting")
    /\ UNCHANGED <<queue, dead, hand, posted, delivered, attempts>>

\* The task ends: cancelled at shutdown, killed with its process, or by an error
\* of Redis that nothing catches.  A pop or a push may still have happened.
Fall(w) ==
    /\ pc[w] # "down" /\ Goto(w, "down") /\ Drop(w)
    /\ \/ UNCHANGED <<queue, dead>>
       \/ pc[w] = "waiting" /\ queue # <<>> /\ queue' = Front(queue) /\ UNCHANGED dead
       \/ pc[w] = "failed" /\ Push(w)
    /\ UNCHANGED <<posted, delivered, attempts>>

Work(w) == Take(w) \/ SendReturns(w) \/ SendRaises(w) \/ Repost(w) \/ Wake(w)

Next ==
    \/ \E m \in Message : Enqueue(m)
    \/ \E w \in Worker : Start(w) \/ Work(w) \/ Fall(w)

\* The event loop runs the task, a send ends, and so does the retry delay.
Spec == Init /\ [][Next]_vars /\ \A w \in Worker : WF_vars(Work(w))

-----------------------------------------------------------------------------
\* The types; "retry" is at most MaxRetries in the queue and one more in a letter
\* given up (_process_payload).
TypeOK ==
    /\ queue \in Seq([msg: Message, retry: 0..MaxRetries])
    /\ dead \in SUBSET [msg: Message, retry: {MaxRetries + 1}]
    /\ pc \in [Worker -> {"down", "waiting", "sending", "failed", "resting"}]
    /\ hand \in [Worker -> SUBSET [msg: Message, retry: 0..MaxRetries + 1]]
    /\ posted \in SUBSET Message
    /\ delivered \in SUBSET posted
    /\ attempts \in [Message -> 0..MaxRetries + 1]

Waits(m) == \E i \in 1..Len(queue) : queue[i].msg = m
Held(m) == \E w \in Worker : \E l \in hand[w] : l.msg = m
Dead(m) == \E l \in dead : l.msg = m

\* A message is in one place only, once: however tasks die and letters are
\* pushed back, no two consumers ever have copies of it (start, _process_payload).
OneCopy ==
    /\ \A i, j \in 1..Len(queue) : queue[i].msg = queue[j].msg => i = j
    /\ \A w \in Worker : \A k, l \in hand[w] : k = l
    /\ \A v, w \in Worker : \A k \in hand[v], l \in hand[w] : k.msg = l.msg => v = w
    /\ \A m \in Message :
          /\ Held(m) => ~Waits(m)
          /\ Waits(m) \/ Held(m) => m \notin delivered /\ ~Dead(m)
          /\ m \in delivered => ~Dead(m)

FateOf(m) ==
    IF m \notin posted THEN "unposted"
    ELSE IF Waits(m) \/ Held(m) THEN "pending"
    ELSE IF m \in delivered THEN "delivered"
    ELSE IF Dead(m) THEN "dead"
    ELSE "lost"

Fate == INSTANCE MessageFate
            WITH fate <- [m \in Message |-> FateOf(m)], tries <- attempts

\* The queue keeps the promises of MessageFate: among them that a message is
\* given up after MaxRetries + 1 attempts and not before, and that what was
\* delivered or given up is never tried again (_process_payload).
RefinesFate == Fate!Spec

\* As long as one consumer stays up, every message leaves the queue: failures
\* are retried, but not for ever (FCM_RETRY_MAX).
Drains ==
    \A w \in Worker, m \in Message :
        <>[](pc[w] # "down") => (m \in posted ~> FateOf(m) # "pending")
=============================================================================
