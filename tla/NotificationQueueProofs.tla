------------------------ MODULE NotificationQueueProofs ------------------------
(***************************************************************************)
(* Proofs about NotificationQueue: a message is in one place only, and the *)
(* queue implements MessageFate, for any number of consumers and messages. *)
(***************************************************************************)
EXTENDS NotificationQueue, SequenceTheorems, TLAPS

Waiting == [msg: Message, retry: 0..MaxRetries]
Holding == [msg: Message, retry: 0..MaxRetries + 1]

\* No two letters of the queue are of one message.
Distinct == \A i, j \in 1..Len(queue) : queue[i].msg = queue[j].msg => i = j

\* Which letters a consumer has, and that "retry" is the number of sends that
\* have failed.
Hands ==
    \A w \in Worker :
        /\ hand[w] = {} <=> pc[w] \notin {"sending", "failed"}
        /\ \A l \in hand[w] :
              /\ pc[w] = "sending" => l.retry <= MaxRetries
              /\ pc[w] = "sending" => attempts[l.msg] = l.retry + 1
              /\ pc[w] = "failed" => attempts[l.msg] = l.retry

Counts == \A i \in 1..Len(queue) : attempts[queue[i].msg] = queue[i].retry

\* What has not been posted is nowhere.
Unposted ==
    \A m \in Message \ posted : attempts[m] = 0 /\ ~Waits(m) /\ ~Held(m) /\ ~Dead(m)

IndInv == TypeOK /\ OneCopy /\ Hands /\ Counts /\ Unposted

-----------------------------------------------------------------------------
(* Pops and pushes.                                                        *)

LEMMA Popped ==
    ASSUME TypeOK, Distinct, Counts, queue # <<>>, queue' = Front(queue)
    PROVE  /\ Last(queue) \in Waiting
           /\ attempts[Last(queue).msg] = Last(queue).retry
           /\ Waits(Last(queue).msg)
           /\ queue' \in Seq(Waiting)
           /\ Distinct'
           /\ \A i \in 1..Len(queue') : i \in 1..Len(queue) /\ queue'[i] = queue[i]
           /\ \A m \in Message : Waits(m)' <=> Waits(m) /\ m # Last(queue).msg
<1>1. queue \in Seq(Waiting)
  BY DEF TypeOK, Waiting
<1>2. Len(queue) \in Nat /\ Len(queue) # 0
  BY <1>1
<1>3. /\ Last(queue) \in Waiting
      /\ attempts[Last(queue).msg] = Last(queue).retry
      /\ Waits(Last(queue).msg)
  BY <1>1, <1>2 DEF Last, Counts, Waits
<1>4. /\ queue' \in Seq(Waiting)
      /\ Len(queue') = Len(queue) - 1
      /\ \A i \in 1..Len(queue') : queue'[i] = queue[i]
  <2> DEFINE n == Len(queue) - 1
  <2>1. n \in Nat /\ 1 \in Int /\ \A i \in 1..n : queue[i] \in Waiting
    BY <1>1, <1>2
  <2>2. queue' = SubSeq(queue, 1, n)
    BY DEF Front
  <2> HIDE DEF n
  <2>3. n \in Int /\ 1 \in Int
    BY <2>1
  <2>3a. \A i \in 1..n : queue[i] \in Waiting
    BY <2>1
  <2>4. /\ SubSeq(queue, 1, n) \in Seq(Waiting)
        /\ Len(SubSeq(queue, 1, n)) = IF 1 <= n THEN n - 1 + 1 ELSE 0
        /\ \A i \in 1..n - 1 + 1 : SubSeq(queue, 1, n)[i] = queue[1 + i - 1]
    BY <2>3, <2>3a, SubSeqProperties
  <2>5. Len(queue') = n
    BY <2>1, <2>2, <2>4
  <2>6. n - 1 + 1 = n /\ \A i \in 1..n : 1 + i - 1 = i
    BY <2>1
  <2>7. QED
    BY <2>2, <2>4, <2>5, <2>6 DEF n
<1>5. Distinct'
  BY <1>2, <1>4 DEF Distinct
<1>6. ASSUME NEW m \in Message PROVE Waits(m)' <=> Waits(m) /\ m # Last(queue).msg
  <2>1. ASSUME NEW i \in 1..Len(queue'), queue'[i].msg = m
        PROVE  Waits(m) /\ m # Last(queue).msg
    <3>1. i \in 1..Len(queue) /\ queue[i].msg = m /\ i # Len(queue)
      BY <1>2, <1>4, <2>1
    <3>2. QED
      BY <1>2, <3>1 DEF Distinct, Last, Waits
  <2>2. ASSUME NEW i \in 1..Len(queue), queue[i].msg = m, m # Last(queue).msg
        PROVE  Waits(m)'
    <3>1. i # Len(queue)
      BY <2>2 DEF Last
    <3>2. i \in 1..Len(queue') /\ queue'[i].msg = m
      BY <1>2, <1>4, <2>2, <3>1
    <3>3. QED
      BY <3>2 DEF Waits
  <2>3. QED
    BY <2>1, <2>2 DEF Waits
<1>7. QED
  BY <1>2, <1>3, <1>4, <1>5, <1>6

LEMMA Pushed ==
    ASSUME TypeOK, Distinct, NEW l \in Waiting, ~Waits(l.msg),
           queue' = Append(queue, l)
    PROVE  /\ queue' \in Seq(Waiting)
           /\ Distinct'
           /\ \A i \in 1..Len(queue') :
                 queue'[i] = l \/ (i \in 1..Len(queue) /\ queue'[i] = queue[i])
           /\ \A m \in Message : Waits(m)' <=> Waits(m) \/ m = l.msg
<1>1. queue \in Seq(Waiting)
  BY DEF TypeOK, Waiting
<1>2. Len(queue) \in Nat
  BY <1>1
<1>3. /\ queue' \in Seq(Waiting)
      /\ Len(queue') = Len(queue) + 1
      /\ queue'[Len(queue) + 1] = l
      /\ \A i \in 1..Len(queue) : queue'[i] = queue[i]
  BY <1>1, <1>2
<1>4. \A i \in 1..Len(queue') :
         \/ i = Len(queue) + 1 /\ queue'[i] = l
         \/ i \in 1..Len(queue) /\ queue'[i] = queue[i]
  BY <1>2, <1>3
<1>5. \A i \in 1..Len(queue) : queue[i].msg # l.msg
  BY DEF Waits
<1>6. Distinct'
  BY <1>4, <1>5 DEF Distinct
<1>7. ASSUME NEW m \in Message PROVE Waits(m)' <=> Waits(m) \/ m = l.msg
  <2>1. \A i \in 1..Len(queue) : i \in 1..Len(queue')
    BY <1>2, <1>3
  <2>2. Len(queue) + 1 \in 1..Len(queue')
    BY <1>2, <1>3
  <2>3. QED
    BY <1>3, <1>4, <2>1, <2>2 DEF Waits
<1>8. QED
  BY <1>3, <1>4, <1>6, <1>7

LEMMA InitInv == Init => IndInv
<1> SUFFICES ASSUME Init PROVE IndInv
  OBVIOUS
<1>1. TypeOK
  BY NotificationAssumption DEF Init, TypeOK
<1>2. Len(queue) = 0
  BY DEF Init
<1>3. \A m \in Message : ~Waits(m) /\ ~Held(m) /\ ~Dead(m)
  BY <1>2 DEF Init, Waits, Held, Dead
<1>4. OneCopy /\ Hands /\ Counts /\ Unposted
  BY <1>2, <1>3 DEF Init, OneCopy, Hands, Counts, Unposted
<1>5. QED
  BY <1>1, <1>4 DEF IndInv

\* A consumer that disposes of its letter takes its message out of all hands.
LEMMA Dropped ==
    ASSUME TypeOK, OneCopy, NEW w \in Worker, NEW l \in hand[w], Drop(w)
    PROVE  \A m \in Message : Held(m)' <=> Held(m) /\ m # l.msg
<1> TAKE m \in Message
<1>1. /\ hand'[w] = {}
      /\ \A v \in Worker \ {w} : hand'[v] = hand[v]
  BY DEF Drop, TypeOK
<1>2. \A v \in Worker \ {w} : \A k \in hand[v] : k.msg # l.msg
  BY DEF OneCopy
<1>3. \A k \in hand[w] : k = l
  BY DEF OneCopy
<1>4. QED
  BY <1>1, <1>2, <1>3 DEF Held
-----------------------------------------------------------------------------
(* Every action preserves the invariant.                                   *)

LEMMA EnqueueInv ==
    ASSUME IndInv, NEW m \in Message, Enqueue(m) PROVE IndInv'
<1> DEFINE l == [msg |-> m, retry |-> 0]
<1>1. TypeOK /\ OneCopy /\ Hands /\ Counts /\ Unposted /\ Distinct
  BY DEF IndInv, OneCopy, Distinct
<1>2. m \notin posted /\ ~Waits(m) /\ ~Held(m) /\ ~Dead(m) /\ attempts[m] = 0
  BY <1>1 DEF Enqueue, Unposted
<1>3. l \in Waiting
  BY NotificationAssumption DEF Waiting
<1>4. /\ queue' = Append(queue, l) /\ posted' = posted \cup {m}
      /\ UNCHANGED <<dead, pc, hand, delivered, attempts>>
  BY DEF Enqueue
<1> HIDE DEF l
<1>5. l.msg = m /\ l.retry = 0
  BY DEF l
<1>6. /\ queue' \in Seq(Waiting) /\ Distinct'
      /\ \A i \in 1..Len(queue') :
            queue'[i] = l \/ (i \in 1..Len(queue) /\ queue'[i] = queue[i])
      /\ \A x \in Message : Waits(x)' <=> Waits(x) \/ x = m
  BY <1>1, <1>2, <1>3, <1>4, <1>5, Pushed
<1>7. \A x \in Message : (Held(x)' <=> Held(x)) /\ (Dead(x)' <=> Dead(x))
  BY <1>4 DEF Held, Dead
<1>8. TypeOK'
  BY <1>1, <1>4, <1>6 DEF TypeOK, Waiting
<1>9. OneCopy'
  <2>1. m \notin delivered
    BY <1>1, <1>2 DEF TypeOK
  <2>2. QED
    BY <1>1, <1>2, <1>4, <1>6, <1>7, <2>1 DEF OneCopy, Distinct
<1>10. Hands'
  BY <1>1, <1>4 DEF Hands
<1>11. Counts'
  BY <1>1, <1>2, <1>4, <1>5, <1>6 DEF Counts
<1>12. Unposted'
  BY <1>1, <1>4, <1>6, <1>7 DEF Unposted
<1>13. QED
  BY <1>8, <1>9, <1>10, <1>11, <1>12 DEF IndInv

LEMMA TakeInv ==
    ASSUME IndInv, NEW w \in Worker, Take(w) PROVE IndInv'
<1> DEFINE l == Last(queue)
<1>1. TypeOK /\ OneCopy /\ Hands /\ Counts /\ Unposted /\ Distinct
  BY DEF IndInv, OneCopy, Distinct
<1>2. /\ pc[w] = "waiting" /\ queue # <<>> /\ queue' = Front(queue)
      /\ hand' = [hand EXCEPT ![w] = {l}]
      /\ attempts' = [attempts EXCEPT ![l.msg] = Counted(@)]
      /\ pc' = [pc EXCEPT ![w] = "sending"]
      /\ UNCHANGED <<dead, posted, delivered>>
  BY DEF Take, Goto
<1>3. /\ l \in Waiting /\ attempts[l.msg] = l.retry /\ Waits(l.msg)
      /\ queue' \in Seq(Waiting) /\ Distinct'
      /\ \A i \in 1..Len(queue') : i \in 1..Len(queue) /\ queue'[i] = queue[i]
      /\ \A m \in Message : Waits(m)' <=> Waits(m) /\ m # l.msg
  BY <1>1, <1>2, Popped
<1> HIDE DEF l
<1>4. l.msg \in Message /\ l.retry \in 0..MaxRetries /\ l \in Holding
  BY <1>3, NotificationAssumption DEF Waiting, Holding
<1>5. hand[w] = {}
  BY <1>1, <1>2 DEF Hands
<1>6. hand'[w] = {l} /\ \A v \in Worker \ {w} : hand'[v] = hand[v]
  BY <1>1, <1>2 DEF TypeOK
<1>7. \A m \in Message : (Held(m)' <=> Held(m) \/ m = l.msg) /\ (Dead(m)' <=> Dead(m))
  <2>1. \A m \in Message : Held(m)' <=> Held(m) \/ m = l.msg
    BY <1>5, <1>6 DEF Held
  <2>2. QED
    BY <1>2, <2>1 DEF Dead
<1>8. /\ attempts'[l.msg] = l.retry + 1 /\ l.retry + 1 \in 0..MaxRetries + 1
      /\ \A m \in Message \ {l.msg} : attempts'[m] = attempts[m]
  BY <1>1, <1>2, <1>3, <1>4, NotificationAssumption DEF TypeOK, Counted
<1>9. ~Held(l.msg)
  BY <1>1, <1>3, <1>4 DEF OneCopy
<1>10. TypeOK'
  <2>1. hand' \in [Worker -> SUBSET Holding]
    BY <1>1, <1>2, <1>4 DEF TypeOK, Holding
  <2>2. attempts' \in [Message -> 0..MaxRetries + 1]
    BY <1>1, <1>2, <1>4, <1>8 DEF TypeOK
  <2>3. QED
    BY <1>1, <1>2, <1>3, <2>1, <2>2 DEF TypeOK, Waiting, Holding
<1>11. OneCopy'
  <2>1. \A v \in Worker : \A k, n \in hand'[v] : k = n
    BY <1>1, <1>6 DEF OneCopy
  <2>2. \A u, v \in Worker : \A k \in hand'[u], n \in hand'[v] : k.msg = n.msg => u = v
    <3>1. \A v \in Worker \ {w} : \A k \in hand[v] : k.msg # l.msg
      BY <1>9 DEF Held
    <3>2. QED
      BY <1>1, <1>6, <3>1 DEF OneCopy
  <2>3. QED
    BY <1>1, <1>2, <1>3, <1>4, <1>7, <1>9, <2>1, <2>2 DEF OneCopy, Distinct
<1>12. Hands'
  <2>1. pc'[w] = "sending" /\ \A v \in Worker \ {w} : pc'[v] = pc[v]
    BY <1>1, <1>2 DEF TypeOK
  <2>2. \A v \in Worker \ {w} : \A k \in hand[v] : attempts'[k.msg] = attempts[k.msg]
    <3>1. \A v \in Worker \ {w} : \A k \in hand[v] : k.msg \in Message /\ k.msg # l.msg
      BY <1>1, <1>9 DEF Held, TypeOK
    <3>2. QED
      BY <1>8, <3>1
  <2>3. l.retry <= MaxRetries
    BY <1>4, NotificationAssumption
  <2>4. QED
    BY <1>1, <1>6, <1>8, <2>1, <2>2, <2>3 DEF Hands
<1>13. Counts'
  <2>1. ASSUME NEW i \in 1..Len(queue')
        PROVE  queue'[i].msg # l.msg /\ queue'[i].msg \in Message
    <3>1. queue'[i] \in Waiting
      BY <1>3
    <3>2. PICK m \in Message : m = queue'[i].msg
      BY <3>1 DEF Waiting
    <3>3. Waits(m)'
      BY <3>2 DEF Waits
    <3>4. QED
      BY <1>3, <3>2, <3>3
  <2>2. QED
    BY <1>1, <1>3, <1>8, <2>1 DEF Counts
<1>14. Unposted'
  BY <1>1, <1>2, <1>3, <1>4, <1>7, <1>8 DEF Unposted
<1>15. QED
  BY <1>10, <1>11, <1>12, <1>13, <1>14 DEF IndInv

\* What a consumer that is sending, or has failed to, has in its hand.
LEMMA InHand ==
    ASSUME IndInv, NEW w \in Worker, pc[w] \in {"sending", "failed"}
    PROVE  \E l \in Holding :
              /\ hand[w] = {l} /\ l.msg \in Message /\ Held(l.msg)
              /\ l.msg \in posted /\ l.msg \notin delivered
              /\ ~Waits(l.msg) /\ ~Dead(l.msg)
<1>1. TypeOK /\ OneCopy /\ Hands /\ Unposted
  BY DEF IndInv
<1>2. PICK l \in hand[w] : TRUE
  BY <1>1 DEF Hands
<1>3. hand[w] = {l}
  BY <1>1, <1>2 DEF OneCopy
<1>4. l \in Holding /\ l.msg \in Message
  BY <1>1, <1>2 DEF TypeOK, Holding
<1>5. Held(l.msg)
  BY <1>2 DEF Held
<1>6. QED
  BY <1>1, <1>3, <1>4, <1>5 DEF OneCopy, Unposted

LEMMA SendReturnsInv ==
    ASSUME IndInv, NEW w \in Worker, SendReturns(w) PROVE IndInv'
<1>1. TypeOK /\ OneCopy /\ Hands /\ Counts /\ Unposted
  BY DEF IndInv
<1>2. pc[w] = "sending"
  BY DEF SendReturns
<1>3. PICK l \in Holding :
         /\ hand[w] = {l} /\ l.msg \in Message /\ Held(l.msg)
         /\ l.msg \in posted /\ l.msg \notin delivered
         /\ ~Waits(l.msg) /\ ~Dead(l.msg)
  BY <1>2, InHand
<1>4. /\ delivered' = delivered \cup {l.msg}
      /\ hand' = [hand EXCEPT ![w] = {}]
      /\ pc' = [pc EXCEPT ![w] = "waiting"]
      /\ UNCHANGED <<queue, dead, posted, attempts>>
  BY <1>3 DEF SendReturns, Drop, Goto
<1>5. \A m \in Message : Held(m)' <=> Held(m) /\ m # l.msg
  BY <1>1, <1>3, Dropped DEF SendReturns
<1>6. \A m \in Message : (Waits(m)' <=> Waits(m)) /\ (Dead(m)' <=> Dead(m))
  BY <1>4 DEF Waits, Dead
<1>7. TypeOK'
  BY <1>1, <1>3, <1>4 DEF TypeOK
<1>8. hand'[w] = {} /\ \A v \in Worker \ {w} : hand'[v] = hand[v] /\ pc'[v] = pc[v]
  BY <1>1, <1>4 DEF TypeOK
<1>9. OneCopy'
  <2>1. \A v \in Worker : hand'[v] \subseteq hand[v]
    BY <1>8
  <2>2. QED
    BY <1>1, <1>3, <1>4, <1>5, <1>6, <2>1 DEF OneCopy
<1>10. Hands'
  BY <1>1, <1>4, <1>8 DEF Hands, TypeOK
<1>11. Counts' /\ Unposted'
  BY <1>1, <1>4, <1>5, <1>6 DEF Counts, Unposted
<1>12. QED
  BY <1>7, <1>9, <1>10, <1>11 DEF IndInv

LEMMA SendRaisesInv ==
    ASSUME IndInv, NEW w \in Worker, SendRaises(w) PROVE IndInv'
<1>1. TypeOK /\ OneCopy /\ Hands /\ Counts /\ Unposted
  BY DEF IndInv
<1>2. pc[w] = "sending"
  BY DEF SendRaises
<1>3. PICK l \in Holding : hand[w] = {l} /\ l.msg \in Message
  BY <1>2, InHand
<1> DEFINE failed == [l EXCEPT !.retry = @ + 1]
<1>4. /\ hand' = [hand EXCEPT ![w] = {failed}]
      /\ pc' = [pc EXCEPT ![w] = "failed"]
      /\ UNCHANGED <<queue, dead, posted, delivered, attempts>>
  BY <1>1, <1>3 DEF SendRaises, Goto, TypeOK
<1>5. l.retry \in Nat /\ l.retry <= MaxRetries /\ attempts[l.msg] = l.retry + 1
  BY <1>1, <1>2, <1>3, NotificationAssumption DEF Hands, Holding
<1>6. failed \in Holding /\ failed.msg = l.msg /\ failed.retry = l.retry + 1
  BY <1>3, <1>5, NotificationAssumption DEF Holding
<1> HIDE DEF failed
<1>7. /\ hand'[w] = {failed}
      /\ pc'[w] = "failed"
      /\ \A v \in Worker \ {w} : hand'[v] = hand[v] /\ pc'[v] = pc[v]
  BY <1>1, <1>4 DEF TypeOK
<1>8. \A m \in Message : /\ Held(m)' <=> Held(m)
                         /\ Waits(m)' <=> Waits(m)
                         /\ Dead(m)' <=> Dead(m)
  <2>1. \A m \in Message : Held(m)' <=> Held(m)
    BY <1>3, <1>6, <1>7 DEF Held
  <2>2. QED
    BY <1>4, <2>1 DEF Waits, Dead
<1>9. TypeOK'
  <2>1. hand' \in [Worker -> SUBSET Holding]
    BY <1>1, <1>4, <1>6 DEF TypeOK, Holding
  <2>2. QED
    BY <1>1, <1>4, <2>1 DEF TypeOK, Holding
<1>10. OneCopy'
  <2>1. \A v \in Worker : \A k, n \in hand'[v] : k = n
    BY <1>1, <1>7 DEF OneCopy
  <2>2. \A u, v \in Worker : \A k \in hand'[u], n \in hand'[v] : k.msg = n.msg => u = v
    BY <1>1, <1>3, <1>6, <1>7 DEF OneCopy
  <2>3. QED
    BY <1>1, <1>4, <1>8, <2>1, <2>2 DEF OneCopy
<1>11. Hands'
  BY <1>1, <1>4, <1>5, <1>6, <1>7 DEF Hands
<1>12. Counts' /\ Unposted'
  BY <1>1, <1>4, <1>8 DEF Counts, Unposted
<1>13. QED
  BY <1>9, <1>10, <1>11, <1>12 DEF IndInv

\* A step of w that leaves queue and dead letters alone and empties its hand.
LEMMA LetGoInv ==
    ASSUME IndInv, NEW w \in Worker, NEW label \in {"down", "waiting", "resting"},
           Drop(w), Goto(w, label),
           UNCHANGED <<queue, dead, posted, delivered, attempts>>
    PROVE  IndInv'
<1>1. TypeOK /\ OneCopy /\ Hands /\ Counts /\ Unposted
  BY DEF IndInv
<1>2. /\ hand' = [hand EXCEPT ![w] = {}]
      /\ pc' = [pc EXCEPT ![w] = label]
  BY DEF Drop, Goto
<1>3. /\ hand'[w] = {} /\ pc'[w] = label
      /\ \A v \in Worker \ {w} : hand'[v] = hand[v] /\ pc'[v] = pc[v]
  BY <1>1, <1>2 DEF TypeOK
<1>4. \A v \in Worker : hand'[v] \subseteq hand[v]
  BY <1>3
<1>5. \A m \in Message : /\ Held(m)' => Held(m)
                         /\ Waits(m)' <=> Waits(m)
                         /\ Dead(m)' <=> Dead(m)
  BY <1>4 DEF Held, Waits, Dead
<1>6. TypeOK'
  BY <1>1, <1>2 DEF TypeOK
<1>7. OneCopy'
  BY <1>1, <1>4, <1>5 DEF OneCopy
<1>8. Hands'
  BY <1>1, <1>3 DEF Hands
<1>9. Counts' /\ Unposted'
  BY <1>1, <1>5 DEF Counts, Unposted
<1>10. QED
  BY <1>6, <1>7, <1>8, <1>9 DEF IndInv

\* Disposing of a failed letter.
LEMMA PushInv ==
    ASSUME IndInv, NEW w \in Worker, NEW label \in {"down", "waiting", "resting"},
           pc[w] = "failed", Push(w), Drop(w), Goto(w, label),
           UNCHANGED <<posted, delivered, attempts>>
    PROVE  IndInv'
<1>1. TypeOK /\ OneCopy /\ Hands /\ Counts /\ Unposted /\ Distinct
  BY DEF IndInv, OneCopy, Distinct
<1>2. PICK l \in Holding :
         /\ hand[w] = {l} /\ l.msg \in Message /\ Held(l.msg)
         /\ l.msg \in posted /\ l.msg \notin delivered
         /\ ~Waits(l.msg) /\ ~Dead(l.msg)
  BY InHand
<1>3. /\ hand' = [hand EXCEPT ![w] = {}]
      /\ pc' = [pc EXCEPT ![w] = label]
  BY DEF Drop, Goto
<1>4. /\ hand'[w] = {} /\ pc'[w] = label
      /\ \A v \in Worker \ {w} : hand'[v] = hand[v] /\ pc'[v] = pc[v]
  BY <1>1, <1>3 DEF TypeOK
<1>5. \A v \in Worker : hand'[v] \subseteq hand[v]
  BY <1>4
<1>6. \A m \in Message : Held(m)' <=> Held(m) /\ m # l.msg
  BY <1>1, <1>2, Dropped
<1>7. attempts[l.msg] = l.retry
  BY <1>1, <1>2 DEF Hands
<1>8. Hands'
  BY <1>1, <1>4 DEF Hands
<1>9. CASE Retries(l)
  <2>1. queue' = Append(queue, l) /\ dead' = dead
    BY <1>2, <1>9 DEF Push
  <2>2. l \in Waiting
    BY <1>9, NotificationAssumption DEF Waiting, Holding, Retries
  <2>3. /\ queue' \in Seq(Waiting) /\ Distinct'
        /\ \A i \in 1..Len(queue') :
              queue'[i] = l \/ (i \in 1..Len(queue) /\ queue'[i] = queue[i])
        /\ \A m \in Message : Waits(m)' <=> Waits(m) \/ m = l.msg
    BY <1>1, <1>2, <2>1, <2>2, Pushed
  <2>4. \A m \in Message : Dead(m)' <=> Dead(m)
    BY <2>1 DEF Dead
  <2>5. TypeOK'
    BY <1>1, <1>3, <2>1, <2>3 DEF TypeOK, Waiting
  <2>6. OneCopy'
    BY <1>1, <1>2, <1>5, <1>6, <2>3, <2>4 DEF OneCopy, Distinct
  <2>7. Counts'
    BY <1>1, <1>7, <2>3 DEF Counts
  <2>8. Unposted'
    BY <1>1, <1>2, <1>6, <2>3, <2>4 DEF Unposted
  <2>9. QED
    BY <1>8, <2>5, <2>6, <2>7, <2>8 DEF IndInv
<1>10. CASE ~Retries(l)
  <2>1. queue' = queue /\ dead' = dead \cup {l}
    BY <1>2, <1>10 DEF Push
  <2>2. l \in [msg: Message, retry: {MaxRetries + 1}]
    BY <1>10, NotificationAssumption DEF Holding, Retries
  <2>3. \A m \in Message : /\ Waits(m)' <=> Waits(m)
                           /\ Dead(m)' <=> Dead(m) \/ m = l.msg
    BY <2>1 DEF Waits, Dead
  <2>4. TypeOK'
    BY <1>1, <1>3, <2>1, <2>2 DEF TypeOK
  <2>5. OneCopy'
    BY <1>1, <1>2, <1>5, <1>6, <2>1, <2>3 DEF OneCopy
  <2>6. Counts' /\ Unposted'
    BY <1>1, <1>2, <1>6, <2>1, <2>3 DEF Counts, Unposted
  <2>7. QED
    BY <1>8, <2>4, <2>5, <2>6 DEF IndInv
<1>11. QED
  BY <1>9, <1>10

\* A task that ends while it pops takes the letter with it.
LEMMA PopLostInv ==
    ASSUME IndInv, NEW w \in Worker, pc[w] = "waiting", queue # <<>>,
           queue' = Front(queue), Drop(w), Goto(w, "down"),
           UNCHANGED <<dead, posted, delivered, attempts>>
    PROVE  IndInv'
<1>1. TypeOK /\ OneCopy /\ Hands /\ Counts /\ Unposted /\ Distinct
  BY DEF IndInv, OneCopy, Distinct
<1>2. /\ hand' = [hand EXCEPT ![w] = {}]
      /\ pc' = [pc EXCEPT ![w] = "down"]
  BY DEF Drop, Goto
<1>3. /\ hand'[w] = {} /\ pc'[w] = "down"
      /\ \A v \in Worker \ {w} : hand'[v] = hand[v] /\ pc'[v] = pc[v]
  BY <1>1, <1>2 DEF TypeOK
<1>4. \A v \in Worker : hand'[v] \subseteq hand[v]
  BY <1>3
<1>5. /\ queue' \in Seq(Waiting) /\ Distinct'
      /\ \A i \in 1..Len(queue') : i \in 1..Len(queue) /\ queue'[i] = queue[i]
      /\ \A m \in Message : Waits(m)' => Waits(m)
  BY <1>1, Popped
<1>6. \A m \in Message : (Held(m)' => Held(m)) /\ (Dead(m)' <=> Dead(m))
  BY <1>4 DEF Held, Dead
<1>7. TypeOK'
  BY <1>1, <1>2, <1>5 DEF TypeOK, Waiting
<1>8. OneCopy'
  BY <1>1, <1>4, <1>5, <1>6 DEF OneCopy, Distinct
<1>9. Hands'
  BY <1>1, <1>3 DEF Hands
<1>10. Counts' /\ Unposted'
  BY <1>1, <1>5, <1>6 DEF Counts, Unposted
<1>11. QED
  BY <1>7, <1>8, <1>9, <1>10 DEF IndInv

LEMMA Step == IndInv /\ [Next]_vars => IndInv'
<1> SUFFICES ASSUME IndInv, [Next]_vars PROVE IndInv'
  OBVIOUS
<1>1. ASSUME NEW m \in Message, Enqueue(m) PROVE IndInv'
  BY <1>1, EnqueueInv
<1>2. ASSUME NEW w \in Worker, Start(w) \/ Wake(w) PROVE IndInv'
  <2>1. hand' = hand /\ hand[w] = {}
    BY <1>2 DEF Start, Wake, IndInv, Hands
  <2>2. Drop(w)
    BY <2>1 DEF Drop, IndInv, TypeOK
  <2>3. Goto(w, "waiting") /\ UNCHANGED <<queue, dead, posted, delivered, attempts>>
    BY <1>2 DEF Start, Wake
  <2>4. QED
    BY <2>2, <2>3, LetGoInv
<1>3. ASSUME NEW w \in Worker, Take(w) PROVE IndInv'
  BY <1>3, TakeInv
<1>4. ASSUME NEW w \in Worker, SendReturns(w) PROVE IndInv'
  BY <1>4, SendReturnsInv
<1>5. ASSUME NEW w \in Worker, SendRaises(w) PROVE IndInv'
  BY <1>5, SendRaisesInv
<1>6. ASSUME NEW w \in Worker, Repost(w) PROVE IndInv'
  BY <1>6, PushInv DEF Repost
<1>7. ASSUME NEW w \in Worker, Fall(w) PROVE IndInv'
  <2>1. Drop(w) /\ Goto(w, "down") /\ UNCHANGED <<posted, delivered, attempts>>
    BY <1>7 DEF Fall
  <2>2. CASE UNCHANGED <<queue, dead>>
    BY <2>1, <2>2, LetGoInv
  <2>3. CASE pc[w] = "waiting" /\ queue # <<>> /\ queue' = Front(queue) /\ UNCHANGED dead
    BY <2>1, <2>3, PopLostInv
  <2>4. CASE pc[w] = "failed" /\ Push(w)
    BY <2>1, <2>4, PushInv
  <2>5. QED
    BY <1>7, <2>2, <2>3, <2>4 DEF Fall
<1>8. CASE UNCHANGED vars
  <2> USE <1>8 DEF vars, IndInv
  <2>1. TypeOK'
    BY DEF TypeOK
  <2>2. \A m \in Message : /\ Held(m)' <=> Held(m)
                           /\ Waits(m)' <=> Waits(m)
                           /\ Dead(m)' <=> Dead(m)
    BY DEF Waits, Held, Dead
  <2>3. OneCopy'
    BY <2>2 DEF OneCopy
  <2>4. Hands' /\ Counts' /\ Unposted'
    BY <2>2 DEF Hands, Counts, Unposted
  <2>5. QED
    BY <2>1, <2>3, <2>4
<1>9. QED
  BY <1>1, <1>2, <1>3, <1>4, <1>5, <1>6, <1>7, <1>8 DEF Next, Work

LEMMA Invariance == Spec => []IndInv
BY InitInv, Step, PTL DEF Spec

(* The variables keep their types; among them, "retry" never exceeds          *)
(* MaxRetries in the queue (notification.py:159-175).                        *)
THEOREM TypeCorrect == Spec => []TypeOK
<1>1. IndInv => TypeOK
  BY DEF IndInv
<1>2. QED
  BY <1>1, Invariance, PTL

(* A message is in one place only, whatever tasks die and letters come back  *)
(* (notification.py:131-175).                                               *)
THEOREM OneCopyHolds == Spec => []OneCopy
<1>1. IndInv => OneCopy
  BY DEF IndInv
<1>2. QED
  BY <1>1, Invariance, PTL
-----------------------------------------------------------------------------
(* The queue implements MessageFate.                                       *)

\* What a step does to the fate of one message, when it disturbs no other.
LEMMA FateMoves ==
    ASSUME NEW x \in Message,
           \A m \in Message \ {x} :
              /\ Waits(m)' <=> Waits(m)
              /\ Held(m)' <=> Held(m)
              /\ Dead(m)' <=> Dead(m)
              /\ m \in posted' <=> m \in posted
              /\ m \in delivered' <=> m \in delivered
    PROVE  [m \in Message |-> FateOf(m)]' =
              [[m \in Message |-> FateOf(m)] EXCEPT ![x] = FateOf(x)']
<1>1. \A m \in Message \ {x} : FateOf(m)' = FateOf(m)
  BY DEF FateOf
<1>2. QED
  BY <1>1

\* A step that moves no message.
LEMMA FateStays ==
    ASSUME \A m \in Message :
              /\ Waits(m) \/ Held(m) <=> Waits(m)' \/ Held(m)'
              /\ Dead(m)' <=> Dead(m),
           UNCHANGED <<posted, delivered>>
    PROVE  [m \in Message |-> FateOf(m)]' = [m \in Message |-> FateOf(m)]
BY DEF FateOf

LEMMA FateInit == Init => Fate!Init
<1> SUFFICES ASSUME Init PROVE Fate!Init
  OBVIOUS
<1>1. \A m \in Message : FateOf(m) = "unposted"
  BY DEF Init, FateOf
<1>2. QED
  BY <1>1 DEF Init, Fate!Init

\* Letting go of a letter that goes nowhere loses its message.
LEMMA LetGoFate ==
    ASSUME IndInv, NEW w \in Worker, Drop(w),
           UNCHANGED <<queue, dead, posted, delivered, attempts>>
    PROVE  Fate!Next \/ UNCHANGED <<[m \in Message |-> FateOf(m)], attempts>>
<1>1. TypeOK /\ OneCopy /\ Hands /\ Unposted
  BY DEF IndInv
<1>2. \A m \in Message : (Waits(m)' <=> Waits(m)) /\ (Dead(m)' <=> Dead(m))
  BY DEF Waits, Dead
<1>3. CASE hand[w] = {}
  <2>1. hand' = hand
    BY <1>1, <1>3 DEF Drop, TypeOK
  <2>2. \A m \in Message : Held(m)' <=> Held(m)
    BY <2>1 DEF Held
  <2>3. QED
    BY <1>2, <2>2, FateStays
<1>4. CASE hand[w] # {}
  <2>1. pc[w] \in {"sending", "failed"}
    BY <1>1, <1>4 DEF Hands
  <2>2. PICK l \in Holding :
           /\ hand[w] = {l} /\ l.msg \in Message /\ Held(l.msg)
           /\ l.msg \in posted /\ l.msg \notin delivered
           /\ ~Waits(l.msg) /\ ~Dead(l.msg)
    BY <2>1, InHand
  <2>3. \A m \in Message : Held(m)' <=> Held(m) /\ m # l.msg
    BY <1>1, <2>2, Dropped
  <2>4. FateOf(l.msg) = "pending"
    BY <2>2 DEF FateOf
  <2>5. PICK x \in Message : x = l.msg
    BY <2>2
  <2>6. FateOf(x)' = "lost"
    BY <1>2, <2>2, <2>3, <2>5 DEF FateOf
  <2>7. [m \in Message |-> FateOf(m)]' =
           [[m \in Message |-> FateOf(m)] EXCEPT ![x] = FateOf(x)']
    BY <1>2, <2>3, <2>5, FateMoves
  <2>8. Fate!Lose(x)
    BY <2>4, <2>5, <2>6, <2>7 DEF Fate!Lose, Fate!Becomes
  <2>9. QED
    BY <2>8 DEF Fate!Next
<1>5. QED
  BY <1>3, <1>4

LEMMA PushFate ==
    ASSUME IndInv, NEW w \in Worker, pc[w] = "failed", Push(w), Drop(w),
           UNCHANGED <<posted, delivered, attempts>>
    PROVE  Fate!Next \/ UNCHANGED <<[m \in Message |-> FateOf(m)], attempts>>
<1>1. TypeOK /\ OneCopy /\ Hands /\ Distinct
  BY DEF IndInv, OneCopy, Distinct
<1>2. PICK l \in Holding :
         /\ hand[w] = {l} /\ l.msg \in Message /\ Held(l.msg)
         /\ l.msg \in posted /\ l.msg \notin delivered
         /\ ~Waits(l.msg) /\ ~Dead(l.msg)
  BY InHand
<1>3. \A m \in Message : Held(m)' <=> Held(m) /\ m # l.msg
  BY <1>1, <1>2, Dropped
<1>4. attempts[l.msg] = l.retry
  BY <1>1, <1>2 DEF Hands
<1>5. CASE Retries(l)
  <2>1. queue' = Append(queue, l) /\ dead' = dead
    BY <1>2, <1>5 DEF Push
  <2>2. l \in Waiting
    BY <1>5, NotificationAssumption DEF Waiting, Holding, Retries
  <2>3. \A m \in Message : Waits(m)' <=> Waits(m) \/ m = l.msg
    BY <1>1, <1>2, <2>1, <2>2, Pushed
  <2>4. \A m \in Message : Dead(m)' <=> Dead(m)
    BY <2>1 DEF Dead
  <2>5. \A m \in Message : Waits(m) \/ Held(m) <=> Waits(m)' \/ Held(m)'
    BY <1>2, <1>3, <2>3
  <2>6. QED
    BY <2>4, <2>5, FateStays
<1>6. CASE ~Retries(l)
  <2>1. queue' = queue /\ dead' = dead \cup {l}
    BY <1>2, <1>6 DEF Push
  <2>2. l.retry = MaxRetries + 1
    BY <1>6, NotificationAssumption DEF Holding, Retries
  <2>3. \A m \in Message : /\ Waits(m)' <=> Waits(m)
                           /\ Dead(m)' <=> Dead(m) \/ m = l.msg
    BY <2>1 DEF Waits, Dead
  <2>4. PICK x \in Message : x = l.msg
    BY <1>2
  <2>5. FateOf(x) = "pending"
    BY <1>2, <2>4 DEF FateOf
  <2>6. FateOf(x)' = "dead"
    BY <1>2, <1>3, <2>3, <2>4 DEF FateOf
  <2>7. [m \in Message |-> FateOf(m)]' =
           [[m \in Message |-> FateOf(m)] EXCEPT ![x] = FateOf(x)']
    BY <1>3, <2>3, <2>4, FateMoves
  <2>8. Fate!GiveUp(x)
    BY <1>4, <2>2, <2>4, <2>5, <2>6, <2>7 DEF Fate!GiveUp, Fate!Becomes
  <2>9. QED
    BY <2>8 DEF Fate!Next
<1>7. QED
  BY <1>5, <1>6

LEMMA FateStep ==
    IndInv /\ [Next]_vars =>
        Fate!Next \/ UNCHANGED <<[m \in Message |-> FateOf(m)], attempts>>
<1> DEFINE fate == [m \in Message |-> FateOf(m)]
           Goal == Fate!Next \/ UNCHANGED <<fate, attempts>>
<1> SUFFICES ASSUME IndInv, [Next]_vars PROVE Goal
  OBVIOUS
<1>0. TypeOK /\ OneCopy /\ Hands /\ Counts /\ Unposted /\ Distinct
  BY DEF IndInv, OneCopy, Distinct
<1>1. ASSUME NEW x \in Message, Enqueue(x) PROVE Goal
  <2> DEFINE l == [msg |-> x, retry |-> 0]
  <2>1. /\ queue' = Append(queue, l) /\ posted' = posted \cup {x} /\ x \notin posted
        /\ UNCHANGED <<dead, pc, hand, delivered, attempts>>
    BY <1>1 DEF Enqueue
  <2>2. l \in Waiting /\ l.msg = x
    BY NotificationAssumption DEF Waiting
  <2> HIDE DEF l
  <2>3. ~Waits(x)
    BY <1>0, <2>1 DEF Unposted
  <2>4. \A m \in Message : Waits(m)' <=> Waits(m) \/ m = x
    BY <1>0, <2>1, <2>2, <2>3, Pushed
  <2>5. \A m \in Message : (Held(m)' <=> Held(m)) /\ (Dead(m)' <=> Dead(m))
    BY <2>1 DEF Held, Dead
  <2>6. FateOf(x) = "unposted" /\ FateOf(x)' = "pending"
    BY <2>1, <2>4 DEF FateOf
  <2>7. fate' = [fate EXCEPT ![x] = FateOf(x)']
    BY <2>1, <2>4, <2>5, FateMoves
  <2>8. Fate!Post(x)
    BY <2>1, <2>6, <2>7 DEF Fate!Post, Fate!Becomes
  <2>9. QED
    BY <2>8 DEF Fate!Next
<1>2. ASSUME NEW w \in Worker, Start(w) \/ Wake(w) PROVE Goal
  <2>1. UNCHANGED <<queue, dead, hand, posted, delivered, attempts>>
    BY <1>2 DEF Start, Wake
  <2>2. \A m \in Message : /\ Held(m)' <=> Held(m)
                           /\ Waits(m)' <=> Waits(m)
                           /\ Dead(m)' <=> Dead(m)
    BY <2>1 DEF Waits, Held, Dead
  <2>3. QED
    BY <2>1, <2>2, FateStays
<1>3. ASSUME NEW w \in Worker, Take(w) PROVE Goal
  <2>1. /\ pc[w] = "waiting" /\ queue # <<>> /\ queue' = Front(queue)
        /\ hand' = [hand EXCEPT ![w] = {Last(queue)}]
        /\ attempts' = [attempts EXCEPT ![Last(queue).msg] = Counted(@)]
        /\ UNCHANGED <<dead, posted, delivered>>
    BY <1>3 DEF Take
  <2>2. /\ Last(queue) \in Waiting
        /\ attempts[Last(queue).msg] = Last(queue).retry
        /\ Waits(Last(queue).msg)
        /\ \A m \in Message : Waits(m)' <=> Waits(m) /\ m # Last(queue).msg
    BY <1>0, <2>1, Popped
  <2>3. PICK x \in Message : x = Last(queue).msg
    BY <2>2 DEF Waiting
  <2>4. attempts[x] <= MaxRetries /\ attempts[x] \in Nat
    BY <2>2, <2>3, NotificationAssumption DEF Waiting
  <2>5. attempts' = [attempts EXCEPT ![x] = @ + 1]
    <3>1. Counted(attempts[x]) = attempts[x] + 1
      BY <2>4, NotificationAssumption DEF Counted
    <3>2. QED
      BY <2>1, <2>3, <3>1
  <2>6. hand[w] = {} /\ hand'[w] = {Last(queue)}
           /\ \A v \in Worker \ {w} : hand'[v] = hand[v]
    BY <1>0, <2>1 DEF Hands, TypeOK
  <2>7. \A m \in Message : (Held(m)' <=> Held(m) \/ m = x)
    BY <2>3, <2>6 DEF Held
  <2>8. \A m \in Message : Dead(m)' <=> Dead(m)
    BY <2>1 DEF Dead
  <2>9. \A m \in Message : Waits(m) \/ Held(m) <=> Waits(m)' \/ Held(m)'
    BY <2>2, <2>3, <2>7
  <2>10. fate' = fate
    BY <2>1, <2>8, <2>9, FateStays
  <2>11. FateOf(x) = "pending"
    BY <1>0, <2>2, <2>3 DEF FateOf, Unposted
  <2>12. Fate!Try(x)
    BY <2>4, <2>5, <2>10, <2>11 DEF Fate!Try
  <2>13. QED
    BY <2>12 DEF Fate!Next
<1>4. ASSUME NEW w \in Worker, SendReturns(w) PROVE Goal
  <2>1. pc[w] = "sending" /\ Drop(w)
    BY <1>4 DEF SendReturns
  <2>2. PICK l \in Holding :
           /\ hand[w] = {l} /\ l.msg \in Message /\ Held(l.msg)
           /\ l.msg \in posted /\ l.msg \notin delivered
           /\ ~Waits(l.msg) /\ ~Dead(l.msg)
    BY <2>1, InHand
  <2>3. /\ delivered' = delivered \cup {l.msg}
        /\ UNCHANGED <<queue, dead, posted, attempts>>
    BY <1>4, <2>2 DEF SendReturns
  <2>4. \A m \in Message : Held(m)' <=> Held(m) /\ m # l.msg
    BY <1>0, <2>1, <2>2, Dropped
  <2>5. \A m \in Message : (Waits(m)' <=> Waits(m)) /\ (Dead(m)' <=> Dead(m))
    BY <2>3 DEF Waits, Dead
  <2>6. PICK x \in Message : x = l.msg
    BY <2>2
  <2>7. FateOf(x) = "pending" /\ FateOf(x)' = "delivered"
    BY <2>2, <2>3, <2>4, <2>5, <2>6 DEF FateOf
  <2>8. fate' = [fate EXCEPT ![x] = FateOf(x)']
    BY <2>3, <2>4, <2>5, <2>6, FateMoves
  <2>9. attempts[x] > 0
    BY <1>0, <2>1, <2>2, <2>6, NotificationAssumption DEF Hands, Holding
  <2>10. Fate!Deliver(x)
    BY <2>3, <2>7, <2>8, <2>9 DEF Fate!Deliver, Fate!Becomes
  <2>11. QED
    BY <2>10 DEF Fate!Next
<1>5. ASSUME NEW w \in Worker, SendRaises(w) PROVE Goal
  <2>1. PICK l \in Holding : hand[w] = {l} /\ l.msg \in Message
    BY <1>5, InHand DEF SendRaises
  <2>2. /\ hand' = [hand EXCEPT ![w] = {[l EXCEPT !.retry = @ + 1]}]
        /\ UNCHANGED <<queue, dead, posted, delivered, attempts>>
    BY <1>0, <1>5, <2>1 DEF SendRaises, TypeOK
  <2>3. [l EXCEPT !.retry = @ + 1].msg = l.msg
    BY <2>1 DEF Holding
  <2>4. /\ hand'[w] = {[l EXCEPT !.retry = @ + 1]}
        /\ \A v \in Worker \ {w} : hand'[v] = hand[v]
    BY <1>0, <2>2 DEF TypeOK
  <2>5. \A m \in Message : Held(m)' <=> Held(m)
    BY <2>1, <2>3, <2>4 DEF Held
  <2>6. \A m \in Message : (Waits(m)' <=> Waits(m)) /\ (Dead(m)' <=> Dead(m))
    BY <2>2 DEF Waits, Dead
  <2>7. QED
    BY <2>2, <2>5, <2>6, FateStays
<1>6. ASSUME NEW w \in Worker, Repost(w) PROVE Goal
  BY <1>6, PushFate DEF Repost
<1>7. ASSUME NEW w \in Worker, Fall(w) PROVE Goal
  <2>1. Drop(w) /\ UNCHANGED <<posted, delivered, attempts>>
    BY <1>7 DEF Fall
  <2>2. CASE UNCHANGED <<queue, dead>>
    BY <2>1, <2>2, LetGoFate
  <2>3. CASE pc[w] = "waiting" /\ queue # <<>> /\ queue' = Front(queue) /\ UNCHANGED dead
    <3>1. hand' = hand
      BY <1>0, <2>1, <2>3 DEF Drop, Hands, TypeOK
    <3>2. /\ Last(queue) \in Waiting /\ Waits(Last(queue).msg)
          /\ \A m \in Message : Waits(m)' <=> Waits(m) /\ m # Last(queue).msg
      BY <1>0, <2>3, Popped
    <3>3. PICK x \in Message : x = Last(queue).msg
      BY <3>2 DEF Waiting
    <3>4. \A m \in Message : (Held(m)' <=> Held(m)) /\ (Dead(m)' <=> Dead(m))
      BY <2>3, <3>1 DEF Held, Dead
    <3>5. Waits(x) /\ ~Waits(x)' /\ ~Held(x) /\ x \notin delivered /\ ~Dead(x)
             /\ x \in posted
      BY <1>0, <3>2, <3>3 DEF OneCopy, Unposted
    <3>6. FateOf(x) = "pending" /\ FateOf(x)' = "lost"
      BY <2>1, <3>4, <3>5 DEF FateOf
    <3>7. fate' = [fate EXCEPT ![x] = FateOf(x)']
      BY <2>1, <3>2, <3>3, <3>4, FateMoves
    <3>8. Fate!Lose(x)
      BY <2>1, <3>6, <3>7 DEF Fate!Lose, Fate!Becomes
    <3>9. QED
      BY <3>8 DEF Fate!Next
  <2>4. CASE pc[w] = "failed" /\ Push(w)
    BY <2>1, <2>4, PushFate
  <2>5. QED
    BY <1>7, <2>2, <2>3, <2>4 DEF Fall
<1>8. CASE UNCHANGED vars
  <2>1. \A m \in Message : /\ Held(m)' <=> Held(m)
                           /\ Waits(m)' <=> Waits(m)
                           /\ Dead(m)' <=> Dead(m)
    BY <1>8 DEF vars, Waits, Held, Dead
  <2>2. QED
    BY <1>8, <2>1, FateStays DEF vars
<1>9. QED
  BY <1>1, <1>2, <1>3, <1>4, <1>5, <1>6, <1>7, <1>8 DEF Next, Work

(* The queue implements MessageFate: a message is tried while it is pending,  *)
(* given up after MaxRetries + 1 attempts and not before, and settled for     *)
(* good (notification.py:131-175).                                           *)
THEOREM ImplementsFate == Spec => RefinesFate
<1>1. IndInv /\ [Next]_vars => [Fate!Next]_<<[m \in Message |-> FateOf(m)], attempts>>
  BY FateStep
<1>2. QED
  BY <1>1, FateInit, Invariance, PTL DEF Spec, RefinesFate, Fate!Spec
=============================================================================
