---------------------------- MODULE NotifyQueue ----------------------------
(***************************************************************************)
(* goheap's notify queue of one key: goroutines acquire it, push values    *)
(* to it or wait for one in pop, and release it; Clear empties it.  The    *)
(* store keeps the queue in a map while it has users or values, and makes  *)
(* another one afterwards.  Of these functions the package itself reaches  *)
(* clear alone; the others are modelled as they are written, each caller   *)
(* between an acquire and a release of its own.                            *)
(*                                                                         *)
(* Every step is what is done under one lock: queuesMu for acquireQueue,   *)
(* releaseQueue and Clear, mu of the queue for push and a look of pop.     *)
(* releaseQueue and Clear take mu several times under queuesMu; what       *)
(* others do in between, they do to a queue with users, which then stays.  *)
(***************************************************************************)
EXTENDS Naturals, Sequences, FiniteSets

CONSTANTS Threads,  \* the goroutines
          Queues,   \* the objects that are notify queues
          NoQueue,  \* none of them
          Items,   \* what is pushed
          MaxValues \* bound: the values of a queue

NotifyAssumption ==
    /\ IsFiniteSet(Threads)
    /\ NoQueue \notin Queues
    /\ MaxValues \in Nat

ASSUME NotifyAssumption

VARIABLES queue,  \* the queue of the key in the map, or NoQueue
          values, \* the values of every queue, the next to be popped at the end
          users,  \* how many have acquired it
          holds,  \* the queue that each goroutine has acquired
          pc      \* where it is

queueVars == <<queue, values, users, holds, pc>>

\* A goroutine without a queue; with one; about to look into it; waiting for the
\* channel wake that it has seen then; the channel was closed.
Places == {"idle", "held", "look", "wait", "woken"}

QueueInit ==
    /\ queue = NoQueue
    /\ values = [q \in Queues |-> << >>]
    /\ users = [q \in Queues |-> 0]
    /\ holds = [t \in Threads |-> NoQueue]
    /\ pc = [t \in Threads |-> "idle"]

\* queue.idle
IsIdle(q) == users[q] = 0 /\ values[q] = << >>

\* newNotifyQueue: an object that nothing refers to.
Fresh(q) == q # queue /\ \A t \in Threads : holds[t] # q

\* acquireQueue
Acquire(t) ==
    /\ pc[t] = "idle"
    /\ \E q \in Queues :
          /\ IF queue = NoQueue THEN Fresh(q) ELSE q = queue
          /\ queue' = q
          /\ users' = [users EXCEPT ![q] = IF queue = NoQueue THEN 1 ELSE @ + 1]
          /\ values' = IF queue = NoQueue THEN [values EXCEPT ![q] = << >>] ELSE values
          /\ holds' = [holds EXCEPT ![t] = q]
    /\ pc' = [pc EXCEPT ![t] = "held"]

\* Mutant: the values are not considered.
MutRelease(t) ==
    LET q == holds[t]
    IN  /\ pc[t] = "held"
        /\ users' = [users EXCEPT ![q] = @ - 1]
        /\ queue' = IF users[q] = 1 /\ queue = q THEN NoQueue ELSE queue
        /\ holds' = [holds EXCEPT ![t] = NoQueue]
        /\ pc' = [pc EXCEPT ![t] = "idle"]
        /\ UNCHANGED values

\* releaseQueue: the last user takes the queue out of the map if it is empty.
Release(t) ==
    LET q == holds[t]
    IN  /\ pc[t] = "held"
        /\ users' = [users EXCEPT ![q] = @ - 1]
        /\ queue' = IF users[q] = 1 /\ values[q] = << >> /\ queue = q THEN NoQueue ELSE queue
        /\ holds' = [holds EXCEPT ![t] = NoQueue]
        /\ pc' = [pc EXCEPT ![t] = "idle"]
        /\ UNCHANGED values

\* close(q.wake): those who wait for it go on.
Woken(q) ==
    [t \in Threads |-> IF pc[t] = "wait" /\ holds[t] = q THEN "woken" ELSE pc[t]]

Push(t) ==
    /\ pc[t] = "held" /\ Len(values[holds[t]]) < MaxValues
    /\ \E v \in Items : values' = [values EXCEPT ![holds[t]] = Append(@, v)]
    /\ pc' = Woken(holds[t])
    /\ UNCHANGED <<queue, users, holds>>

\* pop begins.
Pop(t) ==
    /\ pc[t] = "held"
    /\ pc' = [pc EXCEPT ![t] = "look"]
    /\ UNCHANGED <<queue, values, users, holds>>

\* The last value is taken.
Take(t) ==
    LET all == values[holds[t]]
    IN  /\ pc[t] = "look" /\ all # << >>
        /\ values' = [values EXCEPT ![holds[t]] = SubSeq(@, 1, Len(@) - 1)]
        /\ pc' = [pc EXCEPT ![t] = "held"]
        /\ UNCHANGED <<queue, users, holds>>

\* Mutant: the channel is read when the lock is no longer held.
MutWait(t) ==
    /\ pc[t] = "look"
    /\ pc' = [pc EXCEPT ![t] = "wait"]
    /\ UNCHANGED <<queue, values, users, holds>>

\* There is none, and the channel is read under the same lock.
Wait(t) ==
    /\ pc[t] = "look" /\ values[holds[t]] = << >>
    /\ pc' = [pc EXCEPT ![t] = "wait"]
    /\ UNCHANGED <<queue, values, users, holds>>

\* select: the channel was closed.
Again(t) ==
    /\ pc[t] = "woken"
    /\ pc' = [pc EXCEPT ![t] = "look"]
    /\ UNCHANGED <<queue, values, users, holds>>

\* The timer or the caller's cancel comes first, or is chosen though the channel
\* is closed as well.
GiveUp(t) ==
    /\ pc[t] \in {"wait", "woken"}
    /\ pc' = [pc EXCEPT ![t] = "held"]
    /\ UNCHANGED <<queue, values, users, holds>>

\* Mutant: the queue goes though others are about to use it.
MutClear ==
    /\ queue # NoQueue
    /\ values' = [values EXCEPT ![queue] = << >>]
    /\ pc' = Woken(queue)
    /\ queue' = NoQueue
    /\ UNCHANGED <<users, holds>>

\* Mutant: nobody is woken, and an idle queue stays.
MutClearKeeps ==
    /\ queue # NoQueue
    /\ values' = [values EXCEPT ![queue] = << >>]
    /\ UNCHANGED <<queue, users, holds, pc>>

\* Clear
Clear ==
    /\ queue # NoQueue
    /\ values' = [values EXCEPT ![queue] = << >>]
    /\ pc' = Woken(queue)
    /\ queue' = IF users[queue] = 0 THEN NoQueue ELSE queue
    /\ UNCHANGED <<users, holds>>

Looks(t) == Take(t) \/ Wait(t) \/ Again(t)

QueueNext ==
    \/ \E t \in Threads : Acquire(t) \/ Release(t) \/ Push(t) \/ Pop(t) \/ Looks(t) \/ GiveUp(t)
    \/ Clear

\* A goroutine that can run runs.
QueueSpec == QueueInit /\ [][QueueNext]_queueVars /\ \A t \in Threads : WF_queueVars(Looks(t))

-----------------------------------------------------------------------------
(* Properties *)

QueueTypeOK ==
    /\ queue \in Queues \cup {NoQueue}
    /\ values \in [Queues -> Seq(Items)]
    /\ users \in [Queues -> Nat]
    /\ holds \in [Threads -> Queues \cup {NoQueue}]
    /\ pc \in [Threads -> Places]
    /\ \A t \in Threads : pc[t] = "idle" <=> holds[t] = NoQueue

\* Whoever has acquired the key's queue has the one in the map, so that a push
\* and a pop of the same key always meet, also across a Clear.
SameQueue == \A t \in Threads : holds[t] # NoQueue => holds[t] = queue

\* No wake-up is lost: nobody waits for a push while there is a value.
NoLostWakeup == \A t \in Threads : pc[t] = "wait" => values[holds[t]] = << >>

\* No value is lost: a queue that is no longer in the map has none.
NoValueLost == \A q \in Queues : values[q] # << >> => q = queue

\* A queue without users and values does not stay in the map.
NoLeak == queue # NoQueue => ~ IsIdle(queue)

\* The map has the key's queue exactly while there is somebody or something in it.
QueueKept == NoValueLost /\ NoLeak

\* The count that decides about it is that of the goroutines that hold the queue.
Counted == queue # NoQueue => users[queue] = Cardinality({t \in Threads : holds[t] = queue})

\* It does not stay so that somebody is in pop while there is a value for him.
InPop(t) == pc[t] \in {"look", "wait", "woken"}

Delivered == \A t \in Threads : []<> ~ (InPop(t) /\ values[holds[t]] # << >>)
=============================================================================
