--------------------------- MODULE SchedulerProofs ---------------------------
(***************************************************************************)
(* Proofs about Scheduler for any number of task blocks: the queue, the    *)
(* blocks and the request variables stay consistent.                       *)
(*                                                                         *)
(* RequestsDoNotCollide is not inductive alone: that the task a kill frees *)
(* is not the one that waits for its fork needs OneRequest, and that the   *)
(* variable of the loop in test_killtime stays in its range needs          *)
(* ScanInRange.                                                            *)
(***************************************************************************)
EXTENDS Scheduler, SequenceTheorems, TLAPS

OneRequest == nextkill # 0 => newtask = NOTASK
ScanInRange == warned => scan \in TaskIds

IInv == TypeOK /\ EveryTaskPlaced /\ RequestsDoNotCollide /\ OneRequest /\ ScanInRange

-----------------------------------------------------------------------------
(* The queue.                                                              *)

(* A new entry in front of a queue without repetitions.                    *)
LEMMA PutInFront ==
    ASSUME NEW S, NEW w \in Seq(S), NEW x \in S
    PROVE  /\ <<x>> \o w \in Seq(S)
           /\ Range(<<x>> \o w) = {x} \cup Range(w)
           /\ IsInjective(w) /\ x \notin Range(w) => IsInjective(<<x>> \o w)
<1> DEFINE v == <<x>> \o w
<1>1. <<x>> \in Seq(S) /\ Len(<<x>>) = 1 /\ <<x>>[1] = x
    OBVIOUS
<1>2. v \in Seq(S) /\ Len(v) = Len(w) + 1
    BY <1>1, ConcatProperties
<1>3. \A i \in 1 .. Len(w) + 1 : v[i] = IF i = 1 THEN x ELSE w[i - 1]
    BY <1>1, ConcatProperties
<1>4. Range(v) = {x} \cup Range(w)
    <2>1. Range(v) = Range(<<x>>) \cup Range(w)
        BY <1>1, RangeConcatenation, Zenon
    <2>2. Range(<<x>>) = {x}
        BY <1>1 DEF Range
    <2>3. QED
        BY <2>1, <2>2
<1>5. ASSUME IsInjective(w), x \notin Range(w)
      PROVE  IsInjective(v)
    <2>1. SUFFICES ASSUME NEW i \in 1 .. Len(v), NEW j \in 1 .. Len(v), v[i] = v[j]
                   PROVE  i = j
        BY <1>2 DEF IsInjective
    <2>2. \A k \in 1 .. Len(w) : w[k] # x
        BY <1>5 DEF Range
    <2>3. CASE i = 1 \/ j = 1
        BY <1>2, <1>3, <2>1, <2>2, <2>3
    <2>4. CASE i # 1 /\ j # 1
        <3>1. i - 1 \in DOMAIN w /\ j - 1 \in DOMAIN w
            BY <1>2, <2>4
        <3>2. w[i - 1] = w[j - 1]
            BY <1>2, <1>3, <2>1, <2>4
        <3>3. i - 1 = j - 1
            BY <1>5, <3>1, <3>2 DEF IsInjective
        <3>4. QED
            BY <3>3
    <2>5. QED
        BY <2>3, <2>4
<1>6. QED
    BY <1>2, <1>4, <1>5

(* Taking one entry out of a queue without repetitions.                    *)
LEMMA TakeOut ==
    ASSUME NEW S, NEW w \in Seq(S), NEW i \in DOMAIN w, IsInjective(w)
    PROVE  /\ RemoveAt(w, i) \in Seq(S)
           /\ Range(RemoveAt(w, i)) = Range(w) \ {w[i]}
           /\ IsInjective(RemoveAt(w, i))
<1> DEFINE a == SubSeq(w, 1, i - 1)
           b == SubSeq(w, i + 1, Len(w))
           v == RemoveAt(w, i)
<1>1. i \in 1 .. Len(w) /\ Len(w) \in Nat /\ \A k \in 1 .. Len(w) : w[k] \in S
    OBVIOUS
<1>2. /\ a \in Seq(S) /\ Len(a) = i - 1
      /\ \A k \in 1 .. i - 1 : a[k] = w[k]
    BY <1>1, SubSeqProperties
<1>3. /\ b \in Seq(S) /\ Len(b) = Len(w) - i
      /\ \A k \in 1 .. Len(w) - i : b[k] = w[i + k]
    BY <1>1, SubSeqProperties
<1>4. v = a \o b
    BY DEF RemoveAt
<1> HIDE DEF a, b, v
<1>c. /\ v \in Seq(S) /\ Len(v) = Len(a) + Len(b)
      /\ \A k \in 1 .. Len(a) + Len(b) : v[k] = IF k <= Len(a) THEN a[k] ELSE b[k - Len(a)]
    BY <1>2, <1>3, <1>4, ConcatProperties
<1>5. v \in Seq(S) /\ Len(v) = Len(w) - 1
    BY <1>1, <1>2, <1>3, <1>c
<1>6. \A k \in 1 .. Len(w) - 1 : v[k] = IF k < i THEN w[k] ELSE w[k + 1]
    <2>1. SUFFICES ASSUME NEW k \in 1 .. Len(w) - 1
                   PROVE  v[k] = IF k < i THEN w[k] ELSE w[k + 1]
        OBVIOUS
    <2>2. v[k] = IF k <= Len(a) THEN a[k] ELSE b[k - Len(a)]
        <3>1. k \in 1 .. Len(a) + Len(b)
            BY <1>1, <1>2, <1>3
        <3>2. QED
            BY <1>c, <3>1
    <2>3. CASE k < i
        BY <1>1, <1>2, <2>2, <2>3
    <2>4. CASE ~(k < i)
        <3>1. k - Len(a) \in 1 .. Len(w) - i /\ i + (k - Len(a)) = k + 1
            BY <1>1, <1>2, <2>4
        <3>2. b[k - Len(a)] = w[k + 1]
            BY <1>3, <3>1
        <3>3. ~ (k <= Len(a))
            BY <1>1, <1>2, <2>4
        <3>4. QED
            BY <2>2, <2>4, <3>2, <3>3
    <2>5. QED
        BY <2>3, <2>4
<1>7. IsInjective(v)
    <2>1. SUFFICES ASSUME NEW k \in 1 .. Len(w) - 1, NEW j \in 1 .. Len(w) - 1, v[k] = v[j]
                   PROVE  k = j
        BY <1>5 DEF IsInjective
    <2> DEFINE p(n) == IF n < i THEN n ELSE n + 1
    <2>2. p(k) \in DOMAIN w /\ p(j) \in DOMAIN w
        BY <1>1
    <2>3. w[p(k)] = w[p(j)]
        BY <1>6, <2>1
    <2>4. p(k) = p(j)
        BY <2>2, <2>3 DEF IsInjective
    <2>5. QED
        BY <1>1, <2>4
<1>8. Range(v) = Range(w) \ {w[i]}
    <2>1. ASSUME NEW k \in 1 .. Len(w) - 1
          PROVE  v[k] \in Range(w) \ {w[i]}
        <3>1. PICK n \in DOMAIN w : n # i /\ v[k] = w[n]
            BY <1>1, <1>6
        <3>2. w[n] # w[i]
            BY <3>1 DEF IsInjective
        <3>3. QED
            BY <3>1, <3>2 DEF Range
    <2>2. ASSUME NEW n \in DOMAIN w, w[n] # w[i]
          PROVE  \E k \in 1 .. Len(w) - 1 : v[k] = w[n]
        <3>1. CASE n < i
            BY <1>1, <1>6, <3>1
        <3>2. CASE n > i
            <4>1. n - 1 \in 1 .. Len(w) - 1 /\ ~(n - 1 < i) /\ (n - 1) + 1 = n
                BY <1>1, <3>2
            <4>2. QED
                BY <1>6, <4>1
        <3>3. QED
            BY <1>1, <2>2, <3>1, <3>2
    <2>3. DOMAIN v = 1 .. Len(w) - 1
        BY <1>5
    <2>4. Range(v) = {v[k] : k \in 1 .. Len(w) - 1} /\ Range(w) = {w[n] : n \in DOMAIN w}
        BY <2>3, Zenon DEF Range
    <2>5. Range(v) \subseteq Range(w) \ {w[i]}
        BY <2>1, <2>4
    <2>6. Range(w) \ {w[i]} \subseteq Range(v)
        BY <2>2, <2>4
    <2>7. QED
        BY <2>5, <2>6
<1>9. QED
    BY <1>5, <1>7, <1>8 DEF v

LEMMA QueueType == TypeOK => Waiting \subseteq TaskIds /\ waitstack \in Seq(TaskIds)
BY RangeOfSeq DEF TypeOK, Waiting

(* The running task enters the queue and leaves the processor.             *)
LEMMA SuspendKeepsPlaces ==
    ASSUME TypeOK, EveryTaskPlaced, NEW x \in TaskIds, Running(x),
           NEW ev \in {"delay", "ticsfull"}, Suspend(x, ev), UNCHANGED tfeld
    PROVE  /\ waitstack' \in Seq(TaskIds) /\ ready' \subseteq TaskIds
           /\ event' \in [TaskIds -> {"nothing", "delay", "ticsfull"}]
           /\ taskrunning' = NOTASK /\ phase' = "kill"
           /\ Waiting' = Waiting \cup {x}
           /\ EveryTaskPlaced'
<1>1. /\ waitstack \in Seq(TaskIds) /\ waitstack' = <<x>> \o waitstack
      /\ x \in tfeld /\ x \notin Range(waitstack) /\ IsInjective(waitstack)
    BY DEF Suspend, TypeOK, EveryTaskPlaced, Waiting
<1>2. /\ waitstack' \in Seq(TaskIds) /\ Range(waitstack') = {x} \cup Range(waitstack)
      /\ IsInjective(waitstack')
    BY <1>1, PutInFront
<1>3. Waiting' = Waiting \cup {x}
    BY <1>2 DEF Waiting
<1>4. /\ ready' \subseteq TaskIds /\ taskrunning' = NOTASK /\ phase' = "kill"
      /\ event' \in [TaskIds -> {"nothing", "delay", "ticsfull"}]
    BY DEF Suspend, TypeOK
<1>5. EveryTaskPlaced'
    <2>1. \A y \in TaskIds : ~Running(y)'
        BY <1>4 DEF Running
    <2>2. Waiting' \subseteq tfeld'
        BY <1>1, <1>3 DEF EveryTaskPlaced
    <2>3. \A y \in tfeld : Running(y) => y = x
        BY DEF Running
    <2>4. \A y \in tfeld' : y \in Waiting'
        BY <1>3, <2>3 DEF EveryTaskPlaced
    <2>5. QED
        BY <1>2, <2>1, <2>2, <2>4 DEF EveryTaskPlaced
<1>6. QED
    BY <1>2, <1>3, <1>4, <1>5

(* A waiting task leaves the queue together with its block.                *)
LEMMA DeallocKeepsPlaces ==
    ASSUME TypeOK, EveryTaskPlaced, NEW y \in Waiting, Dealloc(y),
           UNCHANGED taskrunning, phase' = phase \/ ~(phase = "run" \/ phase' = "run")
    PROVE  /\ waitstack' \in Seq(TaskIds) /\ ready' \subseteq TaskIds
           /\ expired' \subseteq TaskIds /\ tfeld' \subseteq TaskIds
           /\ event' \in [TaskIds -> {"nothing", "delay", "ticsfull"}]
           /\ Waiting' = Waiting \ {y} /\ tfeld' = tfeld \ {y}
           /\ EveryTaskPlaced'
<1>1. PICK i \in DOMAIN waitstack : waitstack[i] = y /\ waitstack' = RemoveAt(waitstack, i)
    BY DEF Dealloc
<1>2. waitstack \in Seq(TaskIds) /\ IsInjective(waitstack)
    BY DEF TypeOK, EveryTaskPlaced
<1>3. /\ waitstack' \in Seq(TaskIds) /\ Range(waitstack') = Range(waitstack) \ {y}
      /\ IsInjective(waitstack')
    BY <1>1, <1>2, TakeOut
<1>4. Waiting' = Waiting \ {y} /\ tfeld' = tfeld \ {y}
    BY <1>3 DEF Waiting, Dealloc
<1>5. /\ ready' \subseteq TaskIds /\ expired' \subseteq TaskIds /\ tfeld' \subseteq TaskIds
      /\ event' \in [TaskIds -> {"nothing", "delay", "ticsfull"}]
    BY DEF Dealloc, TypeOK
<1>6. EveryTaskPlaced'
    <2>1. \A x \in TaskIds : Running(x)' <=> Running(x)
        BY DEF Running
    <2>2. \A x \in TaskIds : Running(x)' => x \in tfeld' \ Waiting'
        BY <1>4, <2>1 DEF EveryTaskPlaced
    <2>3. \A x \in tfeld' : x \in Waiting' \/ Running(x)'
        BY <1>4, <2>1 DEF EveryTaskPlaced, TypeOK
    <2>4. Waiting' \subseteq tfeld'
        BY <1>4 DEF EveryTaskPlaced
    <2>5. QED
        BY <1>3, <2>2, <2>3, <2>4 DEF EveryTaskPlaced
<1>7. QED
    BY <1>3, <1>4, <1>5, <1>6

-----------------------------------------------------------------------------
(* The induction.                                                          *)

LEMMA InitIInv == Init => IInv
<1> SUFFICES ASSUME Init PROVE IInv
    OBVIOUS
<1>1. {0, Crond} \subseteq TaskIds /\ Crond # 0 /\ TASKS \in Nat
    BY SchedulerAssumption DEF TaskIds
<1>2. waitstack \in Seq(TaskIds) /\ Waiting = {0, Crond} /\ IsInjective(waitstack)
    <2>1. waitstack = <<Crond, 0>>
        BY DEF Init
    <2>2. QED
        BY <1>1, <2>1 DEF Waiting, Range, IsInjective
<1>3. TypeOK
    <2>1. 0 \in 0 .. TASKS
        BY <1>1
    <2>2. event \in [TaskIds -> {"nothing", "delay", "ticsfull"}]
        BY DEF Init
    <2>3. QED
        BY <1>1, <1>2, <2>1, <2>2 DEF Init, TypeOK
<1>4. EveryTaskPlaced
    BY <1>1, <1>2 DEF Init, EveryTaskPlaced, Running
<1>5. RequestsDoNotCollide /\ OneRequest /\ ScanInRange
    BY DEF Init, RequestsDoNotCollide, OneRequest, ScanInRange
<1>6. QED
    BY <1>3, <1>4, <1>5 DEF IInv

LEMMA NextIInv == IInv /\ [Next]_vars => IInv'
<1> SUFFICES ASSUME IInv, [Next]_vars PROVE IInv'
    OBVIOUS
<1>0. /\ TypeOK /\ EveryTaskPlaced /\ RequestsDoNotCollide /\ OneRequest /\ ScanInRange
      /\ Waiting \subseteq TaskIds /\ TASKS \in Nat /\ NOTASK \notin TaskIds
      /\ 0 \in TaskIds /\ Crond \in TaskIds
    BY QueueType, SchedulerAssumption DEF IInv, TaskIds
<1>a. UNCHANGED waitstack => UNCHANGED Waiting
    BY DEF Waiting
<1>1. ASSUME NEW x \in TaskIds, NEW ev \in {"delay", "ticsfull"}, Wait(x, ev)
      PROVE  IInv'
    <2>1. /\ Running(x) /\ Suspend(x, ev) /\ expired' \in {expired, expired \ {x}}
          /\ UNCHANGED <<tfeld, newtask, nextkill, scan, warned>>
        BY <1>1 DEF Wait
    <2>2. EveryTaskPlaced' /\ TypeOK' /\ Waiting' = Waiting \cup {x} /\ phase' = "kill"
        BY <1>0, <2>1, SuspendKeepsPlaces DEF TypeOK
    <2>3. QED
        BY <1>0, <2>1, <2>2 DEF IInv, RequestsDoNotCollide, OneRequest, ScanInRange, Running
<1>2. ASSUME NEW x \in TaskIds, Fork(x)
      PROVE  IInv'
    <2>1. /\ Running(x) /\ Suspend(x, "ticsfull") /\ newtask' = x
          /\ UNCHANGED <<tfeld, nextkill, expired, scan, warned>>
        BY <1>2 DEF Fork
    <2>2. EveryTaskPlaced' /\ TypeOK' /\ Waiting' = Waiting \cup {x} /\ phase' = "kill"
        BY <1>0, <2>1, SuspendKeepsPlaces DEF TypeOK
    <2>3. QED
        BY <1>0, <2>1, <2>2 DEF IInv, RequestsDoNotCollide, OneRequest, ScanInRange, Running
<1>3. ASSUME NEW x \in TaskIds, Suicide(x)
      PROVE  IInv'
    <2>1. /\ Running(x) /\ Suspend(x, "delay") /\ nextkill' = x
          /\ UNCHANGED <<tfeld, newtask, expired, scan, warned>>
        BY <1>3 DEF Suicide
    <2>2. EveryTaskPlaced' /\ TypeOK' /\ Waiting' = Waiting \cup {x} /\ phase' = "kill"
        BY <1>0, <2>1, SuspendKeepsPlaces DEF TypeOK
    <2>3. QED
        BY <1>0, <2>1, <2>2 DEF IInv, RequestsDoNotCollide, OneRequest, ScanInRange, Running
<1>4. CASE TestKilltime
    <2>1. /\ Running(Crond) /\ Suspend(Crond, "delay") /\ Announce(scan)
          /\ UNCHANGED <<tfeld, newtask, nextkill, expired>>
        BY <1>4 DEF TestKilltime
    <2>2. (scan' = 0 /\ warned' = FALSE) \/ (scan' \in TaskIds /\ warned' = TRUE)
        BY <1>0, <2>1 DEF Announce, Overdue, TypeOK
    <2>a. scan' \in TaskIds
        BY <1>0, <2>2
    <2>3. scan' \in 0 .. TASKS /\ warned' \in BOOLEAN /\ ScanInRange'
        <3>1. scan' \in 0 .. TASKS
            BY <1>0, <2>a DEF TaskIds
        <3>2. warned' \in BOOLEAN
            BY <2>2, Zenon
        <3>3. QED
            BY <2>a, <3>1, <3>2 DEF ScanInRange
    <2>4. EveryTaskPlaced' /\ TypeOK' /\ Waiting' = Waiting \cup {Crond} /\ phase' = "kill"
        BY <1>0, <2>1, <2>3, SuspendKeepsPlaces DEF TypeOK
    <2>5. QED
        BY <1>0, <2>1, <2>3, <2>4 DEF IInv, RequestsDoNotCollide, OneRequest, Running
<1>5. ASSUME NEW x \in TaskIds, NEW y \in TaskIds, KillTask(x, y)
      PROVE  IInv'
    <2>1. /\ phase = "run" /\ y \in Waiting /\ Dealloc(y)
          /\ UNCHANGED <<taskrunning, newtask, nextkill, phase, scan, warned>>
        BY <1>5 DEF KillTask, Running
    <2>2. EveryTaskPlaced' /\ TypeOK'
        BY <1>0, <2>1, DeallocKeepsPlaces DEF TypeOK
    <2>3. QED
        BY <1>0, <2>1, <2>2 DEF IInv, RequestsDoNotCollide, OneRequest, ScanInRange
<1>6. CASE KillOverdue
    <2>1. /\ phase = "run" /\ warned /\ warned' = FALSE /\ scan' = scan + 1
          /\ UNCHANGED <<taskrunning, newtask, nextkill, phase>>
        BY <1>6 DEF KillOverdue, Running
    <2>2. scan' \in 0 .. TASKS /\ ScanInRange'
        BY <1>0, <2>1 DEF ScanInRange, TaskIds
    <2>3. CASE scan \in Waiting
        <3>1. Dealloc(scan)
            BY <1>6, <2>3 DEF KillOverdue
        <3>2. EveryTaskPlaced' /\ TypeOK'
            BY <1>0, <2>1, <2>2, <2>3, <3>1, DeallocKeepsPlaces DEF TypeOK
        <3>3. QED
            BY <1>0, <2>1, <2>2, <3>2 DEF IInv, RequestsDoNotCollide, OneRequest
    <2>4. CASE scan \notin Waiting
        <3>1. UNCHANGED <<waitstack, tfeld, event, ready, expired>>
            BY <1>6, <2>4 DEF KillOverdue
        <3>2. EveryTaskPlaced' /\ TypeOK'
            BY <1>0, <1>a, <2>1, <2>2, <3>1 DEF TypeOK, EveryTaskPlaced, Running
        <3>3. QED
            BY <1>0, <2>1, <2>2, <3>2 DEF IInv, RequestsDoNotCollide, OneRequest
    <2>5. QED
        BY <2>3, <2>4
<1>7. CASE StartNew
    <2>1. PICK i \in TaskIds : i \notin tfeld /\ tfeld' = tfeld \cup {i} /\ taskrunning' = i
        BY <1>7 DEF StartNew
    <2>2. /\ phase = "pick" /\ newtask' = NOTASK /\ phase' = "run"
          /\ UNCHANGED <<waitstack, event, ready, nextkill, expired, scan, warned>>
        BY <1>7 DEF StartNew
    <2>3. TypeOK'
        BY <1>0, <2>1, <2>2 DEF TypeOK
    <2>4. EveryTaskPlaced'
        <3>1. \A x \in TaskIds : ~Running(x) /\ (Running(x)' <=> x = i)
            BY <2>1, <2>2 DEF Running
        <3>2. QED
            BY <1>0, <1>a, <2>1, <2>2, <3>1 DEF EveryTaskPlaced, TypeOK
    <2>5. QED
        BY <1>0, <2>2, <2>3, <2>4 DEF IInv, RequestsDoNotCollide, OneRequest, ScanInRange
<1>8. CASE TasksFull
    <2>1. /\ phase = "pick" /\ phase' = "kill"
          /\ UNCHANGED <<tfeld, waitstack, event, ready, taskrunning, newtask, nextkill,
                         expired, scan, warned>>
        BY <1>8 DEF TasksFull
    <2>2. TypeOK' /\ EveryTaskPlaced'
        BY <1>0, <1>a, <2>1 DEF TypeOK, EveryTaskPlaced, Running
    <2>3. QED
        BY <1>0, <1>a, <2>1, <2>2 DEF IInv, RequestsDoNotCollide, OneRequest, ScanInRange
<1>9. CASE Resume
    <2>1. PICK i \in DOMAIN waitstack :
            /\ taskrunning' = waitstack[i] /\ waitstack' = RemoveAt(waitstack, i)
            /\ ready' = ready \ {waitstack[i]}
        BY <1>9 DEF Resume
    <2>2. /\ phase = "pick" /\ newtask = NOTASK /\ phase' = "run"
          /\ UNCHANGED <<tfeld, event, newtask, nextkill, expired, scan, warned>>
        BY <1>9 DEF Resume
    <2>3. /\ waitstack' \in Seq(TaskIds) /\ Range(waitstack') = Range(waitstack) \ {waitstack[i]}
          /\ IsInjective(waitstack')
        BY <1>0, TakeOut, <2>1 DEF TypeOK, EveryTaskPlaced
    <2>4. waitstack[i] \in Waiting /\ Waiting' = Waiting \ {waitstack[i]}
        BY <2>3 DEF Waiting, Range
    <2>5. TypeOK'
        BY <1>0, <2>1, <2>2, <2>3, <2>4 DEF TypeOK
    <2>6. EveryTaskPlaced'
        <3>1. \A x \in TaskIds : ~Running(x) /\ (Running(x)' <=> x = waitstack[i])
            BY <2>1, <2>2 DEF Running
        <3>2. QED
            BY <1>0, <2>2, <2>3, <2>4, <3>1 DEF EveryTaskPlaced, TypeOK
    <2>7. QED
        BY <1>0, <2>2, <2>5, <2>6 DEF IInv, RequestsDoNotCollide, OneRequest, ScanInRange
<1>10. CASE MaintaskKill
    <2>1. /\ phase = "kill" /\ phase' = "pick" /\ nextkill' = 0
          /\ UNCHANGED <<taskrunning, newtask, scan, warned>>
        BY <1>10 DEF MaintaskKill
    <2>2. CASE nextkill # 0 /\ nextkill \in Waiting
        <3>1. Dealloc(nextkill)
            BY <1>10, <2>2 DEF MaintaskKill
        <3>2. EveryTaskPlaced' /\ TypeOK'
            BY <1>0, <2>1, <2>2, <3>1, DeallocKeepsPlaces DEF TypeOK
        <3>3. newtask' = NOTASK
            BY <1>0, <2>1, <2>2 DEF OneRequest
        <3>4. QED
            BY <1>0, <2>1, <3>2, <3>3 DEF IInv, RequestsDoNotCollide, OneRequest, ScanInRange
    <2>3. CASE ~(nextkill # 0 /\ nextkill \in Waiting)
        <3>1. UNCHANGED <<waitstack, tfeld, event, ready, expired>>
            BY <1>10, <2>3 DEF MaintaskKill
        <3>2. EveryTaskPlaced' /\ TypeOK'
            BY <1>0, <1>a, <2>1, <3>1 DEF TypeOK, EveryTaskPlaced, Running
        <3>3. QED
            BY <1>0, <1>a, <2>1, <3>1, <3>2
            DEF IInv, RequestsDoNotCollide, OneRequest, ScanInRange
    <2>4. QED
        BY <2>2, <2>3
<1>11. ASSUME NEW x \in TaskIds, DelayEnds(x) \/ LimitExceeded(x)
       PROVE  IInv'
    <2>1. /\ ready' \subseteq TaskIds /\ expired' \subseteq TaskIds
          /\ UNCHANGED <<tfeld, waitstack, event, taskrunning, newtask, nextkill, phase,
                         scan, warned>>
        BY <1>0, <1>11 DEF DelayEnds, LimitExceeded, TypeOK
    <2>2. TypeOK' /\ EveryTaskPlaced'
        BY <1>0, <1>a, <2>1 DEF TypeOK, EveryTaskPlaced, Running
    <2>3. QED
        BY <1>0, <1>a, <2>1, <2>2 DEF IInv, RequestsDoNotCollide, OneRequest, ScanInRange
<1>12. CASE UNCHANGED vars
    <2>1. TypeOK' /\ EveryTaskPlaced'
        BY <1>0, <1>a, <1>12 DEF vars, TypeOK, EveryTaskPlaced, Running
    <2>2. QED
        BY <1>0, <1>a, <1>12, <2>1
        DEF vars, IInv, RequestsDoNotCollide, OneRequest, ScanInRange
<1>13. QED
    BY <1>1, <1>2, <1>3, <1>4, <1>5, <1>6, <1>7, <1>8, <1>9, <1>10, <1>11, <1>12
    DEF Next, Yield

-----------------------------------------------------------------------------
(* The scheduler is consistent in every reachable state, for any number of *)
(* task blocks.                                                            *)
THEOREM SchedulerInvariant == Spec => []IInv
BY InitIInv, NextIInv, PTL DEF Spec

(* Types: no task number, and no place of test_killtime, leaves tfeld[].   *)
THEOREM TypeCorrect == Spec => []TypeOK
BY SchedulerInvariant, PTL DEF IInv

(* Every task is waiting, once, or running: waitstack[] never overflows    *)
(* and nobody is lost.                                                     *)
THEOREM TasksPlaced == Spec => []EveryTaskPlaced
BY SchedulerInvariant, PTL DEF IInv

(* A pending fork or kill is never overwritten.                            *)
THEOREM RequestsApart == Spec => []RequestsDoNotCollide
BY SchedulerInvariant, PTL DEF IInv

RunnerStays == \A x \in TaskIds : Running(x) => x \in tfeld'

LEMMA NextRunnerStays == IInv /\ [Next]_vars => [RunnerStays]_vars
<1> SUFFICES ASSUME IInv, Next PROVE RunnerStays
    OBVIOUS
<1>1. \A x \in TaskIds : Running(x) => x \in tfeld \ Waiting
    BY DEF IInv, EveryTaskPlaced
<1>2. ASSUME NEW y \in Waiting, tfeld' = tfeld \ {y}
      PROVE  RunnerStays
    BY <1>1, <1>2 DEF RunnerStays
<1>3. tfeld \subseteq tfeld' => RunnerStays
    BY <1>1 DEF RunnerStays
<1>4. CASE Yield \/ StartNew \/ TasksFull \/ Resume
    <2>1. tfeld \subseteq tfeld'
        BY <1>4 DEF Yield, Wait, Fork, Suicide, TestKilltime, StartNew, TasksFull, Resume
    <2>2. QED
        BY <1>3, <2>1
<1>5. CASE KillOverdue \/ MaintaskKill
    BY <1>2, <1>3, <1>5 DEF KillOverdue, MaintaskKill, Dealloc
<1>6. ASSUME NEW x \in TaskIds, NEW y \in TaskIds, KillTask(x, y)
      PROVE  RunnerStays
    BY <1>2, <1>6 DEF KillTask, Dealloc
<1>7. ASSUME NEW x \in TaskIds, DelayEnds(x) \/ LimitExceeded(x)
      PROVE  RunnerStays
    BY <1>3, <1>7 DEF DelayEnds, LimitExceeded
<1>8. QED
    BY <1>4, <1>5, <1>6, <1>7 DEF Next

(* No kill, of whomever, frees the block and the stack of the task that is *)
(* running.                                                                *)
THEOREM RunnerNotFreed == Spec => RunningIsNotFreed
<1>1. [][RunnerStays]_vars => RunningIsNotFreed
    BY PTL DEF RunningIsNotFreed, RunnerStays
<1>2. QED
    BY <1>1, SchedulerInvariant, NextRunnerStays, PTL DEF Spec
=============================================================================
