------------------------------ MODULE RWMutex ------------------------------
(***************************************************************************)
(* sync.RWMutex, the lock of Go's library that goheap uses for a store and *)
(* for the life of a connection, as far as its documentation defines it:   *)
(* Lock first announces the writer, which keeps out every later RLock, and *)
(* then waits for the readers to leave; Unlock admits the readers that it  *)
(* kept out before any other writer.  A goroutine may hold several read    *)
(* locks, and waits like any other when it asks for one more.              *)
(***************************************************************************)
EXTENDS Integers

CONSTANTS Threads,  \* the goroutines
          NoThread  \* no goroutine

Lock == [readers: [Threads -> Nat],            \* read locks held
         blocked: SUBSET Threads,              \* goroutines stopped in RLock
         writer: Threads \cup {NoThread}]      \* announced, or holding the lock

Unlocked == [readers |-> [t \in Threads |-> 0], blocked |-> {}, writer |-> NoThread]

RLock(l, t) ==
    IF l.writer = NoThread THEN [l EXCEPT !.readers[t] = @ + 1]
    ELSE [l EXCEPT !.blocked = @ \cup {t}]

\* The RLock that t called has returned.
Admitted(l, t) == t \notin l.blocked

\* n calls of RUnlock.
RUnlocks(l, t, n) == [l EXCEPT !.readers[t] = @ - n]
RUnlock(l, t) == RUnlocks(l, t, 1)

Announceable(l) == l.writer = NoThread
Announce(l, t) == [l EXCEPT !.writer = t]

\* The announced writer may go on.
Drained(l) == \A t \in Threads : l.readers[t] = 0

Unlock(l) ==
    [readers |-> [t \in Threads |-> l.readers[t] + (IF t \in l.blocked THEN 1 ELSE 0)],
     blocked |-> {},
     writer |-> NoThread]
=============================================================================
