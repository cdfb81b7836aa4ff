--------------------------- MODULE WaitingProofs ---------------------------
(***************************************************************************)
(* Proofs about the two ways to wait for a value.                          *)
(*                                                                         *)
(* NotifyQueue, for any number of goroutines, queues and values: the       *)
(* safety properties that its run checks, and QueueTypeOK.  They are       *)
(* inductive together: that a held queue stays in the map rests on the     *)
(* count, and the count on a held queue being the one in the map.          *)
(*                                                                         *)
(* WatchValue, for every tick and every number of reads without a pause:   *)
(* no pause exceeds the longest, and a value that stays is seen within one *)
(* longest pause.  The argument relates the age of the value to the part   *)
(* of the pause that is over: a pause begins with a read that did not find *)
(* the value, so what has come since is no older than the pause.           *)
(***************************************************************************)
EXTENDS WatchValue, NotifyQueue, FiniteSetTheorems, TLAPS

IInv ==
    /\ QueueTypeOK
    /\ SameQueue
    /\ NoLostWakeup
    /\ NoValueLost
    /\ NoLeak
    /\ Counted

Holders(q) == {t \in Threads : holds[t] = q}

-----------------------------------------------------------------------------
(* The count *)

\* Who holds the queue is counted, and is alone if the count is one.
LEMMA HolderCounts ==
  ASSUME IInv, NEW t \in Threads, holds[t] # NoQueue
  PROVE  /\ holds[t] = queue /\ queue \in Queues
         /\ users[queue] \in Nat /\ users[queue] >= 1
         /\ users[queue] = 1 => \A u \in Threads : holds[u] # NoQueue => u = t
<1>1. holds[t] = queue /\ queue \in Queues /\ queue # NoQueue /\ users[queue] \in Nat
  BY NotifyAssumption DEF IInv, QueueTypeOK, SameQueue
<1>2. IsFiniteSet(Holders(queue)) /\ t \in Holders(queue)
  <2>1. Holders(queue) \subseteq Threads /\ t \in Holders(queue)
    BY <1>1 DEF Holders
  <2> QED
    BY <2>1, NotifyAssumption, FS_Subset DEF NotifyAssumption
<1>3. users[queue] = Cardinality(Holders(queue))
  BY <1>1 DEF IInv, Counted, Holders
<1>4. /\ IsFiniteSet(Holders(queue) \ {t})
      /\ Cardinality(Holders(queue) \ {t}) = users[queue] - 1
  BY <1>2, <1>3, FS_RemoveElement
<1>5. users[queue] >= 1
  BY <1>1, <1>4, FS_CardinalityType
<1>6. ASSUME users[queue] = 1, NEW u \in Threads, holds[u] # NoQueue
      PROVE  u = t
  <2>1. Holders(queue) \ {t} = {}
    BY <1>4, <1>6, FS_EmptySet
  <2>2. u \in Holders(queue)
    BY <1>6 DEF IInv, SameQueue, Holders
  <2> QED
    BY <2>1, <2>2
<1> QED
  BY <1>1, <1>5, <1>6

\* Without a queue in the map nobody holds one, and none has values.
LEMMA NothingHeld ==
  ASSUME IInv, queue = NoQueue
  PROVE  /\ \A t \in Threads : holds[t] = NoQueue
         /\ \A q \in Queues : values[q] = << >>
BY NotifyAssumption DEF NotifyAssumption, IInv, SameQueue, NoValueLost

-----------------------------------------------------------------------------
(* The steps *)

LEMMA AcquireStep ==
  ASSUME IInv, NEW t \in Threads, Acquire(t)
  PROVE  IInv'
<1> PICK q \in Queues :
        /\ IF queue = NoQueue THEN Fresh(q) ELSE q = queue
        /\ queue' = q
        /\ users' = [users EXCEPT ![q] = IF queue = NoQueue THEN 1 ELSE @ + 1]
        /\ values' = IF queue = NoQueue THEN [values EXCEPT ![q] = << >>] ELSE values
        /\ holds' = [holds EXCEPT ![t] = q]
  BY DEF Acquire
<1> USE NotifyAssumption DEF NotifyAssumption
<1>1. QueueTypeOK /\ pc[t] = "idle" /\ holds[t] = NoQueue /\ pc' = [pc EXCEPT ![t] = "held"]
  BY DEF Acquire, IInv, QueueTypeOK
<1>2. QueueTypeOK'
  BY <1>1 DEF QueueTypeOK, Places
<1>3. SameQueue'
  BY <1>1, NothingHeld DEF QueueTypeOK, IInv, SameQueue
<1>4. values' = values
  BY <1>1, NothingHeld DEF QueueTypeOK
<1>5. NoLostWakeup'
  BY <1>1, <1>4 DEF QueueTypeOK, IInv, NoLostWakeup
<1>6. NoValueLost'
  BY <1>1, <1>4, NothingHeld DEF IInv, NoValueLost
<1>7. users'[q] \in Nat /\ users'[q] >= 1
  BY <1>1 DEF QueueTypeOK
<1>8. NoLeak'
  BY <1>7 DEF NoLeak, IsIdle
<1>9. Counted'
  <2>1. Holders(q)' = Holders(q) \cup {t} /\ t \notin Holders(q)
    BY <1>1 DEF QueueTypeOK, Holders
  <2>2. IsFiniteSet(Holders(q))
    <3>1. Holders(q) \subseteq Threads
      BY DEF Holders
    <3> QED
      BY <3>1, FS_Subset
  <2>3. Cardinality(Holders(q)') = Cardinality(Holders(q)) + 1
    BY <2>1, <2>2, FS_AddElement
  <2>4. users'[q] = Cardinality(Holders(q)) + 1
    <3>1. CASE queue = NoQueue
      <4>1. Holders(q) = {}
        BY <3>1, NothingHeld DEF Holders
      <4>2. users'[q] = 1
        BY <1>1, <3>1 DEF QueueTypeOK
      <4> QED
        BY <4>1, <4>2, FS_EmptySet
    <3>2. CASE queue # NoQueue
      BY <1>1, <3>2 DEF QueueTypeOK, IInv, Counted, Holders
    <3> QED
      BY <3>1, <3>2
  <2> QED
    BY <2>3, <2>4 DEF Counted, Holders
<1> QED
  BY <1>2, <1>3, <1>5, <1>6, <1>8, <1>9 DEF IInv

LEMMA ReleaseStep ==
  ASSUME IInv, NEW t \in Threads, Release(t)
  PROVE  IInv'
<1> PICK q \in Queues : q = holds[t]
  BY DEF Release, IInv, QueueTypeOK, Places
<1> USE NotifyAssumption DEF NotifyAssumption
<1>1. /\ QueueTypeOK /\ pc[t] = "held" /\ q # NoQueue
      /\ users' = [users EXCEPT ![q] = @ - 1]
      /\ queue' = IF users[q] = 1 /\ values[q] = << >> /\ queue = q THEN NoQueue ELSE queue
      /\ holds' = [holds EXCEPT ![t] = NoQueue]
      /\ pc' = [pc EXCEPT ![t] = "idle"]
      /\ values' = values
  BY DEF Release, IInv, QueueTypeOK
<1>2. /\ q = queue /\ q \in Queues /\ users[q] \in Nat /\ users[q] >= 1
      /\ users[q] = 1 => \A u \in Threads : holds[u] # NoQueue => u = t
  BY <1>1, HolderCounts
<1>3. QueueTypeOK'
  <2>1. users' \in [Queues -> Nat]
    BY <1>1, <1>2 DEF QueueTypeOK
  <2> QED
    BY <1>1, <1>2, <2>1 DEF QueueTypeOK, Places
<1>4. SameQueue'
  BY <1>1, <1>2 DEF QueueTypeOK, IInv, SameQueue
<1>5. NoLostWakeup'
  BY <1>1 DEF QueueTypeOK, IInv, NoLostWakeup
<1>6. NoValueLost'
  BY <1>1, <1>2 DEF IInv, NoValueLost
<1>7. NoLeak'
  BY <1>1, <1>2 DEF QueueTypeOK, NoLeak, IsIdle
<1>8. Counted'
  <2>1. Holders(q)' = Holders(q) \ {t} /\ t \in Holders(q)
    BY <1>1, <1>2 DEF QueueTypeOK, Holders
  <2>2. IsFiniteSet(Holders(q))
    <3>1. Holders(q) \subseteq Threads
      BY DEF Holders
    <3> QED
      BY <3>1, FS_Subset
  <2>3. Cardinality(Holders(q)') = Cardinality(Holders(q)) - 1
    BY <2>1, <2>2, FS_RemoveElement
  <2>4. Cardinality(Holders(q)) = users[q]
    BY <1>1, <1>2 DEF IInv, Counted, Holders
  <2>5. users'[q] = users[q] - 1
    BY <1>1, <1>2 DEF QueueTypeOK
  <2>6. queue' # NoQueue => queue' = q
    BY <1>1, <1>2
  <2> QED
    BY <2>3, <2>4, <2>5, <2>6 DEF Counted, Holders
<1> QED
  BY <1>3, <1>4, <1>5, <1>6, <1>7, <1>8 DEF IInv

\* The steps of pop and push do not touch who holds the queue.
LEMMA HeldStep ==
  ASSUME IInv, UNCHANGED <<queue, users, holds>>
  PROVE  SameQueue' /\ Counted'
BY DEF IInv, SameQueue, Counted

LEMMA PushStep ==
  ASSUME IInv, NEW t \in Threads, Push(t)
  PROVE  IInv'
<1> PICK q \in Queues : q = holds[t]
  BY DEF Push, IInv, QueueTypeOK, Places
<1> PICK v \in Items : values' = [values EXCEPT ![q] = Append(@, v)]
  BY DEF Push
<1>1. QueueTypeOK /\ pc' = Woken(q) /\ UNCHANGED <<queue, users, holds>>
  BY DEF Push, IInv
<1>2. q = queue /\ users[q] \in Nat /\ users[q] >= 1
  BY HolderCounts, NotifyAssumption DEF NotifyAssumption
<1>3. Append(values[q], v) \in Seq(Items) /\ Append(values[q], v) # << >>
  BY <1>1 DEF QueueTypeOK
<1>4. QueueTypeOK'
  <2>1. values' \in [Queues -> Seq(Items)]
    BY <1>1, <1>3 DEF QueueTypeOK
  <2>2. pc' \in [Threads -> Places]
    BY <1>1 DEF QueueTypeOK, Woken, Places
  <2>3. \A u \in Threads : pc'[u] = "idle" <=> holds'[u] = NoQueue
    BY <1>1 DEF QueueTypeOK, Woken
  <2> QED
    BY <1>1, <2>1, <2>2, <2>3 DEF QueueTypeOK
<1>5. NoLostWakeup'
  BY <1>1 DEF QueueTypeOK, IInv, NoLostWakeup, Woken
<1>6. NoValueLost'
  BY <1>1, <1>2 DEF QueueTypeOK, IInv, NoValueLost
<1>7. NoLeak'
  BY <1>1, <1>2 DEF NoLeak, IsIdle
<1> QED
  BY <1>1, <1>4, <1>5, <1>6, <1>7, HeldStep DEF IInv

LEMMA TakeStep ==
  ASSUME IInv, NEW t \in Threads, Take(t)
  PROVE  IInv'
<1> PICK q \in Queues : q = holds[t]
  BY DEF Take, IInv, QueueTypeOK, Places
<1>1. /\ QueueTypeOK /\ values[q] # << >> /\ UNCHANGED <<queue, users, holds>>
      /\ values' = [values EXCEPT ![q] = SubSeq(@, 1, Len(@) - 1)]
      /\ pc[t] = "look" /\ pc' = [pc EXCEPT ![t] = "held"]
  BY DEF Take, IInv
<1>2. q = queue /\ users[q] \in Nat /\ users[q] >= 1
  BY HolderCounts, NotifyAssumption DEF NotifyAssumption
<1>3. SubSeq(values[q], 1, Len(values[q]) - 1) \in Seq(Items)
  BY <1>1 DEF QueueTypeOK
<1>4. QueueTypeOK'
  <2>1. values' \in [Queues -> Seq(Items)]
    BY <1>1, <1>3 DEF QueueTypeOK
  <2> QED
    BY <1>1, <2>1 DEF QueueTypeOK, Places
<1>5. NoLostWakeup'
  BY <1>1 DEF QueueTypeOK, IInv, NoLostWakeup
<1>6. NoValueLost'
  BY <1>1, <1>2 DEF QueueTypeOK, IInv, NoValueLost
<1>7. NoLeak'
  BY <1>1, <1>2 DEF NoLeak, IsIdle
<1> QED
  BY <1>1, <1>4, <1>5, <1>6, <1>7, HeldStep DEF IInv

\* The other steps of pop only move the goroutine.
LEMMA MoveStep ==
  ASSUME IInv, NEW t \in Threads, Pop(t) \/ Wait(t) \/ Again(t) \/ GiveUp(t)
  PROVE  IInv'
<1>1. /\ QueueTypeOK /\ UNCHANGED <<queue, values, users, holds>> /\ pc[t] # "idle"
      /\ \E place \in Places \ {"idle"} :
            /\ pc' = [pc EXCEPT ![t] = place]
            /\ place = "wait" => values[holds[t]] = << >>
  BY DEF Pop, Wait, Again, GiveUp, IInv, Places
<1>2. QueueTypeOK'
  BY <1>1 DEF QueueTypeOK
<1>3. NoLostWakeup'
  BY <1>1 DEF QueueTypeOK, IInv, NoLostWakeup
<1>4. NoValueLost' /\ NoLeak'
  BY <1>1 DEF IInv, NoValueLost, NoLeak, IsIdle
<1> QED
  BY <1>1, <1>2, <1>3, <1>4, HeldStep DEF IInv

LEMMA ClearStep ==
  ASSUME IInv, Clear
  PROVE  IInv'
<1>1. /\ QueueTypeOK /\ queue \in Queues /\ UNCHANGED <<users, holds>>
      /\ values' = [values EXCEPT ![queue] = << >>] /\ pc' = Woken(queue)
      /\ queue' = IF users[queue] = 0 THEN NoQueue ELSE queue
  BY DEF Clear, IInv, QueueTypeOK
<1>2. users[queue] = 0 => \A u \in Threads : holds[u] = NoQueue
  BY HolderCounts
<1>3. QueueTypeOK'
  <2>1. values' \in [Queues -> Seq(Items)]
    BY <1>1 DEF QueueTypeOK
  <2>2. pc' \in [Threads -> Places]
    BY <1>1 DEF QueueTypeOK, Woken, Places
  <2>3. \A u \in Threads : pc'[u] = "idle" <=> holds'[u] = NoQueue
    BY <1>1 DEF QueueTypeOK, Woken
  <2> QED
    BY <1>1, <2>1, <2>2, <2>3 DEF QueueTypeOK
<1>4. SameQueue'
  BY <1>1, <1>2 DEF IInv, SameQueue
<1>5. NoLostWakeup'
  BY <1>1 DEF QueueTypeOK, IInv, NoLostWakeup, Woken
<1>6. NoValueLost'
  BY <1>1 DEF QueueTypeOK, IInv, NoValueLost
<1>7. NoLeak'
  BY <1>1 DEF NoLeak, IsIdle
<1>8. Counted'
  BY <1>1 DEF IInv, Counted
<1> QED
  BY <1>3, <1>4, <1>5, <1>6, <1>7, <1>8 DEF IInv

-----------------------------------------------------------------------------
(* The theorems *)

LEMMA InitIInv == QueueInit => IInv
<1> SUFFICES ASSUME QueueInit PROVE IInv
  OBVIOUS
<1> USE NotifyAssumption DEF NotifyAssumption
<1>1. QueueTypeOK
  BY DEF QueueInit, QueueTypeOK, Places
<1> QED
  BY <1>1 DEF QueueInit, IInv, SameQueue, NoLostWakeup, NoValueLost, NoLeak, Counted

LEMMA NextIInv == IInv /\ [QueueNext]_queueVars => IInv'
<1> SUFFICES ASSUME IInv, [QueueNext]_queueVars PROVE IInv'
  OBVIOUS
<1>1. CASE UNCHANGED queueVars
  BY <1>1 DEF queueVars, IInv, QueueTypeOK, SameQueue, NoLostWakeup, NoValueLost, NoLeak, IsIdle, Counted
<1>2. ASSUME NEW t \in Threads,
             Acquire(t) \/ Release(t) \/ Push(t) \/ Pop(t) \/ Looks(t) \/ GiveUp(t)
      PROVE  IInv'
  BY <1>2, AcquireStep, ReleaseStep, PushStep, TakeStep, MoveStep DEF Looks
<1>3. CASE Clear
  BY <1>3, ClearStep
<1> QED
  BY <1>1, <1>2, <1>3 DEF QueueNext

\* The variables have their types, and who is idle holds no queue.
THEOREM NotifyTypeCorrect == QueueSpec => []QueueTypeOK
<1>1. IInv => QueueTypeOK
  BY DEF IInv
<1> QED
  BY InitIInv, NextIInv, <1>1, PTL DEF QueueSpec

\* All who have acquired the queue of the key have the same one, that of the map:
\* acquireQueue, releaseQueue and Clear never leave two of them in use.
THEOREM NotifySameQueue == QueueSpec => []SameQueue
<1>1. IInv => SameQueue
  BY DEF IInv
<1> QED
  BY InitIInv, NextIInv, <1>1, PTL DEF QueueSpec

\* Nobody waits in pop while the queue has a value: the channel that pop waits
\* for is read under the lock under which push replaces it.
THEOREM NotifyNoLostWakeup == QueueSpec => []NoLostWakeup
<1>1. IInv => NoLostWakeup
  BY DEF IInv
<1> QED
  BY InitIInv, NextIInv, <1>1, PTL DEF QueueSpec

\* releaseQueue takes no queue with values out of the map, and one without users
\* and values always.
THEOREM NotifyKept == QueueSpec => []QueueKept
<1>1. IInv => QueueKept
  BY DEF IInv, QueueKept
<1> QED
  BY InitIInv, NextIInv, <1>1, PTL DEF QueueSpec

-----------------------------------------------------------------------------
(* WatchValue *)

\* The pause after a pause is no longer than the longest.
LEMMA BackoffBounded ==
    ASSUME NEW c \in 0 .. LongestPause
    PROVE  Backoff(c) \in 1 .. LongestPause
BY WatchAssumption DEF WatchAssumption, LongestPause, Backoff

LEMMA LongestPauseNat == LongestPause \in Nat /\ LongestPause >= 1
BY WatchAssumption DEF WatchAssumption, LongestPause

\* TypeOK holds: reads, pauses and their rests stay within their bounds.
THEOREM WatchTypeCorrect == Spec => []TypeOK
<1>1. Init => TypeOK
  BY WatchAssumption, LongestPauseNat DEF WatchAssumption, Init, TypeOK
<1>2. TypeOK /\ [Next]_vars => TypeOK'
  <2> SUFFICES ASSUME TypeOK, [Next]_vars PROVE TypeOK'
    OBVIOUS
  <2> USE DEF TypeOK
  <2>1. CASE Found
    BY <2>1 DEF Found
  <2>2. CASE Spin
    BY <2>2, WatchAssumption DEF Spin, WatchAssumption
  <2>3. CASE Sleep
    <3>1. Backoff(cur) \in 1 .. LongestPause
      BY BackoffBounded
    <3> QED
      BY <2>3, <3>1, LongestPauseNat DEF Sleep
  <2>4. CASE Pass
    BY <2>4, LongestPauseNat DEF Pass
  <2>5. CASE Wake
    BY <2>5 DEF Wake
  <2>6. CASE Produce
    BY <2>6 DEF Produce
  <2>7. CASE UNCHANGED vars
    BY <2>7 DEF vars
  <2> QED
    BY <2>1, <2>2, <2>3, <2>4, <2>5, <2>6, <2>7 DEF Next, Watch
<1> QED
  BY <1>1, <1>2, PTL DEF Spec

\* How old the value is, in terms of the pause in progress.
AgeKnown ==
    EqualXValue(value, Target) =>
        /\ at = "pausing" => age <= cur - left
        /\ at = "reading" => age <= LongestPause

\* A value that stays is seen within one longest pause of its arrival
\* (SeenInTime), whatever the watcher has waited before.
THEOREM AlwaysSeenInTime == Spec => []SeenInTime
<1>1. Init => AgeKnown
  BY LongestPauseNat DEF Init, AgeKnown
<1>2. TypeOK /\ AgeKnown /\ [Next]_vars => AgeKnown'
  <2> SUFFICES ASSUME TypeOK, AgeKnown, [Next]_vars PROVE AgeKnown'
    OBVIOUS
  <2> USE LongestPauseNat DEF TypeOK, AgeKnown
  <2>1. CASE Found
    BY <2>1 DEF Found
  <2>2. CASE Spin
    BY <2>2 DEF Spin
  <2>3. CASE Sleep
    BY <2>3 DEF Sleep
  <2>4. CASE Pass
    BY <2>4 DEF Pass
  <2>5. CASE Wake
    BY <2>5 DEF Wake
  <2>6. CASE Produce
    <3>1. CASE EqualXValue(value, Target)
      BY <2>6, <3>1 DEF Produce
    <3>2. CASE ~ EqualXValue(value, Target)
      BY <2>6, <3>2 DEF Produce
    <3> QED
      BY <3>1, <3>2
  <2>7. CASE UNCHANGED vars
    BY <2>7 DEF vars
  <2> QED
    BY <2>1, <2>2, <2>3, <2>4, <2>5, <2>6, <2>7 DEF Next, Watch
<1>3. TypeOK /\ AgeKnown => SeenInTime
  BY LongestPauseNat DEF TypeOK, AgeKnown, SeenInTime
<1> QED
  BY <1>1, <1>2, <1>3, WatchTypeCorrect, PTL DEF Spec
=============================================================================
