----------------------------- MODULE GoheapConn -----------------------------
(***************************************************************************)
(* The connections of goheap/backend.go and the stores they share.         *)
(*                                                                         *)
(* Conn finds or makes the store of an address in namedStores and counts   *)
(* the connection in its refs; Destroy forgets a store that nobody uses.   *)
(* Every call runs between begin and end, which hold the connection's      *)
(* lifeMu for reading, and holds the store's mu in the middle.  DisConn    *)
(* closes done, so that begin refuses later calls, and takes lifeMu for    *)
(* writing, so that it returns after the calls that begin let in.          *)
(*                                                                         *)
(* A step is one operation on a lock; namedStoresMu is held for one step   *)
(* by all that use it.  What a call does to the store is GoheapStore's     *)
(* subject: here it is the time it spends there.  Set reads the target of  *)
(* a link with a Get of its own before it locks the store.                 *)
(***************************************************************************)
EXTENDS RWMutex, FiniteSets

CONSTANTS Addrs,     \* the addresses of stores
          MaxStores, \* bound: the stores made for one address
          Backends,  \* the connections that Conn may return
          CallKinds, \* what clients call: some of "read", "write" and "link"
          NoStore,
          NoBackend

\* The stores an address has one after the other.
Stores == [addr: Addrs, nr: 1 .. MaxStores]

ConnAssumption ==
    /\ MaxStores \in Nat
    /\ IsFiniteSet(Backends)
    /\ CallKinds \subseteq {"read", "write", "link"}
    /\ NoThread \notin Threads
    /\ NoStore \notin Stores

ASSUME ConnAssumption

VARIABLES named,  \* namedStores: the store of every address
          made,   \* the number of stores made for every address
          refs,   \* store.refs
          store,  \* backend.store; NoStore: this connection is not made yet
          done,   \* the connections whose channel done is closed
          once,   \* backend.closeOnce
          lifeMu, \* backend.lifeMu
          mu,     \* store.mu
          thread  \* the frame of every goroutine

vars == <<named, made, refs, store, done, once, lifeMu, mu, thread>>

\* A goroutine's frame: where it is in which call on which connection, and
\* how many calls of begin are open.
Frame == [pc: {"idle", "begin", "lock", "wait", "body", "end",
               "close", "drain", "join"},
          call: {"none", "read", "write", "link", "DisConn"},
          on: Backends \cup {NoBackend},
          depth: 0 .. 2]

Idle == [pc |-> "idle", call |-> "none", on |-> NoBackend, depth |-> 0]

At(t, pc) == thread[t].pc = pc
On(t) == thread[t].on
Goto(t, pc) == thread' = [thread EXCEPT ![t].pc = pc]
Return(t) == thread' = [thread EXCEPT ![t] = Idle]

\* The store of the connection that t calls.
Used(t) == store[On(t)]

\* t reads the store: a reading call, or the Get that a Set of a link makes.
Reading(t) == thread[t].call = "read" \/ thread[t].depth = 2

\* t sets a link that it has yet to validate.
Linking(t) == thread[t].call = "link" /\ thread[t].depth = 1

-----------------------------------------------------------------------------
(* Conn and Destroy, under namedStoresMu *)

\* Mutant: only the connection that makes the store is counted.
MutConn(t, b, addr) ==
    LET new == named[addr] = NoStore
        s == IF new THEN [addr |-> addr, nr |-> made[addr] + 1] ELSE named[addr]
    IN  /\ At(t, "idle") /\ store[b] = NoStore
        /\ s \in Stores
        /\ named' = [named EXCEPT ![addr] = s]
        /\ made' = [made EXCEPT ![addr] = s.nr]
        /\ refs' = IF new THEN [refs EXCEPT ![s] = @ + 1] ELSE refs
        /\ store' = [store EXCEPT ![b] = s]
        /\ UNCHANGED <<done, once, lifeMu, mu, thread>>

Conn(t, b, addr) ==
    LET s == IF named[addr] # NoStore THEN named[addr]
             ELSE [addr |-> addr, nr |-> made[addr] + 1]
    IN  /\ At(t, "idle") /\ store[b] = NoStore
        /\ s \in Stores
        /\ named' = [named EXCEPT ![addr] = s]
        /\ made' = [made EXCEPT ![addr] = s.nr]
        /\ refs' = [refs EXCEPT ![s] = @ + 1]
        /\ store' = [store EXCEPT ![b] = s]
        /\ UNCHANGED <<done, once, lifeMu, mu, thread>>

\* Mutant: a store in use is destroyed.
MutDestroy(t, addr) ==
    /\ At(t, "idle")
    /\ named[addr] # NoStore
    /\ named' = [named EXCEPT ![addr] = NoStore]
    /\ UNCHANGED <<made, refs, store, done, once, lifeMu, mu, thread>>

\* A store that is in use is not destroyed.
Destroy(t, addr) ==
    /\ At(t, "idle")
    /\ named[addr] # NoStore
    /\ refs[named[addr]] = 0
    /\ named' = [named EXCEPT ![addr] = NoStore]
    /\ UNCHANGED <<made, refs, store, done, once, lifeMu, mu, thread>>

-----------------------------------------------------------------------------
(* A call between begin and end *)

\* begin: lifeMu.RLock, where t may have to wait.
Call(t, b, kind) ==
    /\ At(t, "idle") /\ store[b] # NoStore
    /\ lifeMu' = [lifeMu EXCEPT ![b] = RLock(@, t)]
    /\ thread' = [thread EXCEPT ![t] =
                    [pc |-> "begin", call |-> kind, on |-> b, depth |-> 1]]
    /\ UNCHANGED <<named, made, refs, store, done, once, mu>>

Begun(t) == At(t, "begin") /\ Admitted(lifeMu[On(t)], t)

\* Mutant: a refused call is ended as well, which unlocks once too often.
MutRefused(t) ==
    /\ Begun(t)
    /\ On(t) \in done
    /\ lifeMu' = [lifeMu EXCEPT ![On(t)] = RUnlocks(@, t, thread[t].depth + 1)]
    /\ Return(t)
    /\ UNCHANGED <<named, made, refs, store, done, once, mu>>

\* The connection is closed: begin unlocks and the call fails, by an error or
\* a panic.  A Get inside a Set takes the Set with it, whose deferred end
\* unlocks lifeMu a second time.
Refused(t) ==
    /\ Begun(t)
    /\ On(t) \in done
    /\ lifeMu' = [lifeMu EXCEPT ![On(t)] = RUnlocks(@, t, thread[t].depth)]
    /\ Return(t)
    /\ UNCHANGED <<named, made, refs, store, done, once, mu>>

Begin(t) ==
    /\ Begun(t)
    /\ On(t) \notin done
    /\ Goto(t, "lock")
    /\ UNCHANGED <<named, made, refs, store, done, once, lifeMu, mu>>

\* Set validates a link first: a Get of the target, with a begin of its own.
Validate(t) ==
    /\ At(t, "lock") /\ Linking(t)
    /\ lifeMu' = [lifeMu EXCEPT ![On(t)] = RLock(@, t)]
    /\ thread' = [thread EXCEPT ![t] =
                    [pc |-> "begin", call |-> "link", on |-> On(t), depth |-> 2]]
    /\ UNCHANGED <<named, made, refs, store, done, once, mu>>

\* store.mu.RLock
LockRead(t) ==
    /\ At(t, "lock") /\ Reading(t)
    /\ mu' = [mu EXCEPT ![Used(t)] = RLock(@, t)]
    /\ Goto(t, "wait")
    /\ UNCHANGED <<named, made, refs, store, done, once, lifeMu>>

\* store.mu.Lock announces the writer, once the writer before has left.
LockWrite(t) ==
    /\ At(t, "lock") /\ ~ Reading(t) /\ ~ Linking(t)
    /\ Announceable(mu[Used(t)])
    /\ mu' = [mu EXCEPT ![Used(t)] = Announce(@, t)]
    /\ Goto(t, "wait")
    /\ UNCHANGED <<named, made, refs, store, done, once, lifeMu>>

Enter(t) ==
    /\ At(t, "wait")
    /\ IF Reading(t) THEN Admitted(mu[Used(t)], t) ELSE Drained(mu[Used(t)])
    /\ Goto(t, "body")
    /\ UNCHANGED <<named, made, refs, store, done, once, lifeMu, mu>>

\* The deferred RUnlock or Unlock of the store.
Leave(t) ==
    /\ At(t, "body")
    /\ mu' = [mu EXCEPT ![Used(t)] = IF Reading(t) THEN RUnlock(@, t) ELSE Unlock(@)]
    /\ Goto(t, "end")
    /\ UNCHANGED <<named, made, refs, store, done, once, lifeMu>>

\* end.  After the Get of its target a Set of a link goes on to write.
End(t) ==
    /\ At(t, "end")
    /\ lifeMu' = [lifeMu EXCEPT ![On(t)] = RUnlock(@, t)]
    /\ IF thread[t].depth = 2
       THEN thread' = [thread EXCEPT ![t] =
                         [pc |-> "lock", call |-> "write", on |-> On(t), depth |-> 1]]
       ELSE Return(t)
    /\ UNCHANGED <<named, made, refs, store, done, once, mu>>

-----------------------------------------------------------------------------
(* DisConn *)

\* The first call of closeOnce.Do closes done; others wait for it to return.
DisConn(t, b) ==
    /\ At(t, "idle") /\ store[b] # NoStore
    /\ once[b] # "done"
    /\ IF once[b] = "fresh"
       THEN /\ once' = [once EXCEPT ![b] = "running"]
            /\ done' = done \cup {b}
       ELSE UNCHANGED <<once, done>>
    /\ thread' = [thread EXCEPT ![t] =
                    [pc |-> IF once[b] = "fresh" THEN "close" ELSE "join",
                     call |-> "DisConn", on |-> b, depth |-> 0]]
    /\ UNCHANGED <<named, made, refs, store, lifeMu, mu>>

\* Mutant: the calls are waited for without keeping new ones out.
MutDisConnLock(t) ==
    /\ At(t, "close")
    /\ Goto(t, "drain")
    /\ UNCHANGED <<named, made, refs, store, done, once, lifeMu, mu>>

DisConnLock(t) ==
    /\ At(t, "close")
    /\ Announceable(lifeMu[On(t)])
    /\ lifeMu' = [lifeMu EXCEPT ![On(t)] = Announce(@, t)]
    /\ Goto(t, "drain")
    /\ UNCHANGED <<named, made, refs, store, done, once, mu>>

\* Mutant: the connection is released without waiting for its calls.
MutDisConnRelease(t) ==
    /\ At(t, "drain")
    /\ refs' = [refs EXCEPT ![Used(t)] = @ - 1]
    /\ lifeMu' = [lifeMu EXCEPT ![On(t)] = Unlock(@)]
    /\ once' = [once EXCEPT ![On(t)] = "done"]
    /\ Return(t)
    /\ UNCHANGED <<named, made, store, done, mu>>

\* The lock is taken, the connection is no longer counted, and all return.
DisConnRelease(t) ==
    /\ At(t, "drain")
    /\ Drained(lifeMu[On(t)])
    /\ refs' = [refs EXCEPT ![Used(t)] = @ - 1]
    /\ lifeMu' = [lifeMu EXCEPT ![On(t)] = Unlock(@)]
    /\ once' = [once EXCEPT ![On(t)] = "done"]
    /\ Return(t)
    /\ UNCHANGED <<named, made, store, done, mu>>

DisConnJoin(t) ==
    /\ At(t, "join")
    /\ once[On(t)] = "done"
    /\ Return(t)
    /\ UNCHANGED <<named, made, refs, store, done, once, lifeMu, mu>>

-----------------------------------------------------------------------------
Init ==
    /\ named = [a \in Addrs |-> NoStore]
    /\ made = [a \in Addrs |-> 0]
    /\ refs = [s \in Stores |-> 0]
    /\ store = [b \in Backends |-> NoStore]
    /\ done = {}
    /\ once = [b \in Backends |-> "fresh"]
    /\ lifeMu = [b \in Backends |-> Unlocked]
    /\ mu = [s \in Stores |-> Unlocked]
    /\ thread = [t \in Threads |-> Idle]

\* What a client decides.
Start(t) ==
    \/ \E b \in Backends, addr \in Addrs : Conn(t, b, addr)
    \/ \E addr \in Addrs : Destroy(t, addr)
    \/ \E b \in Backends, kind \in CallKinds : Call(t, b, kind)
    \/ \E b \in Backends : DisConn(t, b)

\* What the code of a running call does.
Continue(t) ==
    \/ Refused(t)
    \/ Begin(t)
    \/ Validate(t)
    \/ LockRead(t)
    \/ LockWrite(t)
    \/ Enter(t)
    \/ Leave(t)
    \/ End(t)
    \/ DisConnLock(t)
    \/ DisConnRelease(t)
    \/ DisConnJoin(t)

Next == \E t \in Threads : Start(t) \/ Continue(t)

Spec == Init /\ [][Next]_vars

\* A goroutine that can run does; one that waits for a writer before it is
\* served at last (sync.Mutex hands the lock over after a millisecond).  No
\* client has to begin anything.
Fairness ==
    \A t \in Threads : WF_vars(Continue(t)) /\ SF_vars(LockWrite(t))

FairSpec == Spec /\ Fairness

-----------------------------------------------------------------------------
(* Properties *)

\* The variables have their types.
TypeOK ==
    /\ named \in [Addrs -> Stores \cup {NoStore}]
    /\ made \in [Addrs -> 0 .. MaxStores]
    /\ refs \in [Stores -> Nat]
    /\ store \in [Backends -> Stores \cup {NoStore}]
    /\ done \subseteq Backends
    /\ once \in [Backends -> {"fresh", "running", "done"}]
    /\ lifeMu \in [Backends -> Lock]
    /\ mu \in [Stores -> Lock]
    /\ thread \in [Threads -> Frame]

\* The connections that are made and not yet released.
Open == {b \in Backends : store[b] # NoStore /\ once[b] # "done"}

\* refs counts the connections of a store that are not released, whatever the
\* order of Conn, DisConn (from several goroutines) and Destroy.
RefsMatch == \A s \in Stores : refs[s] = Cardinality({b \in Open : store[b] = s})

\* A connection never works on a store that Destroy has forgotten, so that all
\* connections of an address see the same data.
OpenIsNamed == \A b \in Open : named[store[b].addr] = store[b]

\* When DisConn has returned no call of the connection is at the store, and
\* none gets there.
NoLateCalls ==
    \A t \in Threads :
        At(t, "lock") \/ At(t, "wait") \/ At(t, "body") => once[On(t)] # "done"

\* Every call returns, with its result or with ErrDisconnected, and so does
\* every DisConn: neither waits for ever for the other.
CallsReturn == \A t \in Threads : ~ At(t, "idle") ~> At(t, "idle")

=============================================================================
