-------------------------- MODULE GoheapConnProofs --------------------------
(***************************************************************************)
(* Proofs about GoheapConn, for any number of goroutines, connections and  *)
(* stores:                                                                 *)
(*                                                                         *)
(*   Spec => []TypeOK, []RefsMatch, []OpenIsNamed and []NoLateCalls.       *)
(*                                                                         *)
(* NoLateCalls rests on lifeMu: a call that begin let in holds a read lock *)
(* (LifeInv), and DisConn releases the connection only when nobody does.   *)
(* OpenIsNamed rests on RefsMatch: Destroy forgets a store only when its   *)
(* count is 0, and then nobody uses it.                                    *)
(***************************************************************************)
EXTENDS GoheapConn, FiniteSetTheorems, TLAPS

-----------------------------------------------------------------------------
(* The inductive invariant *)

Calling(t) == thread[t].pc \in {"begin", "lock", "wait", "body", "end"}
Closing(t) == thread[t].pc \in {"close", "drain"}

\* A goroutine that runs is on a connection that was made, inside one or two
\* calls of begin if it is in a call.
FrameInv ==
    \A t \in Threads :
        /\ ~ At(t, "idle") => On(t) \in Backends /\ store[On(t)] \in Stores
        /\ Calling(t) => thread[t].depth \in {1, 2}

\* Only one goroutine closes a connection, and does so once.
OnceInv ==
    /\ \A b \in Backends : /\ b \in done <=> once[b] # "fresh"
                           /\ store[b] = NoStore => once[b] = "fresh"
    /\ \A t \in Threads : Closing(t) => once[On(t)] = "running"
    /\ \A t, u \in Threads : Closing(t) /\ Closing(u) /\ On(t) = On(u) => t = u

\* The read locks on lifeMu are those of the calls between begin and end.
Held(t, b) ==
    IF Calling(t) /\ On(t) = b
    THEN IF t \in lifeMu[b].blocked THEN thread[t].depth - 1 ELSE thread[t].depth
    ELSE 0

LifeInv ==
    \A b \in Backends, t \in Threads :
        /\ lifeMu[b].readers[t] = Held(t, b)
        /\ t \in lifeMu[b].blocked => At(t, "begin") /\ On(t) = b

\* The read locks on a store are those of the readers that were let in.
Reads(t, s) ==
    IF /\ At(t, "wait") \/ At(t, "body")
       /\ Reading(t) /\ Used(t) = s /\ t \notin mu[s].blocked
    THEN 1 ELSE 0

MuInv ==
    \A s \in Stores, t \in Threads :
        /\ mu[s].readers[t] = Reads(t, s)
        /\ t \in mu[s].blocked => At(t, "wait") /\ Reading(t) /\ Used(t) = s

\* A call that begin let in is on a connection that DisConn has not released.
CallInv ==
    \A t \in Threads : Calling(t) /\ ~ At(t, "begin") => once[On(t)] # "done"

NameInv == \A a \in Addrs : named[a] # NoStore => named[a].addr = a

IInv ==
    /\ TypeOK
    /\ FrameInv
    /\ OnceInv
    /\ LifeInv
    /\ MuInv
    /\ CallInv
    /\ NameInv
    /\ RefsMatch
    /\ OpenIsNamed

-----------------------------------------------------------------------------
(* Locks *)

\* The operations keep a lock a lock, if no more is unlocked than is held.
LEMMA LockTypes ==
  ASSUME NEW l \in Lock, NEW t \in Threads
  PROVE  /\ RLock(l, t) \in Lock
         /\ Announce(l, t) \in Lock
         /\ Unlock(l) \in Lock
         /\ Unlocked \in Lock
         /\ \A n \in Nat : l.readers[t] >= n => RUnlocks(l, t, n) \in Lock
BY DEF Lock, RLock, RUnlocks, Announce, Unlock, Unlocked

\* What the operations do to the readers of a lock and to those it keeps out.
LEMMA LockParts ==
  ASSUME NEW l \in Lock, NEW t \in Threads, NEW u \in Threads
  PROVE  /\ l.readers[u] \in Nat
         /\ RLock(l, t).readers[u] =
               IF u = t /\ l.writer = NoThread THEN l.readers[u] + 1 ELSE l.readers[u]
         /\ u \in RLock(l, t).blocked <=>
               u \in l.blocked \/ (u = t /\ l.writer # NoThread)
         /\ Announce(l, t).readers[u] = l.readers[u]
         /\ Announce(l, t).blocked = l.blocked
         /\ \A n \in Nat :
               /\ RUnlocks(l, t, n).readers[u] =
                     IF u = t THEN l.readers[u] - n ELSE l.readers[u]
               /\ RUnlocks(l, t, n).blocked = l.blocked
         /\ Unlock(l).readers[u] = l.readers[u] + (IF u \in l.blocked THEN 1 ELSE 0)
         /\ Unlock(l).blocked = {}
BY DEF Lock, RLock, RUnlocks, Announce, Unlock

LEMMA InitInv == Init => IInv
<1> SUFFICES ASSUME Init PROVE IInv
  OBVIOUS
<1>1. TypeOK
  BY ConnAssumption DEF Init, TypeOK, ConnAssumption, Unlocked, Lock, Idle, Frame
<1>2. FrameInv /\ OnceInv /\ LifeInv /\ MuInv /\ CallInv /\ NameInv
  BY DEF Init, FrameInv, OnceInv, LifeInv, MuInv, CallInv, NameInv, At, Calling,
         Closing, Held, Reads, Idle, Unlocked
<1>3. RefsMatch /\ OpenIsNamed
  <2>1. Open = {}
    BY DEF Init, Open
  <2>2. \A s : {b \in Open : store[b] = s} = {}
    BY <2>1
  <2> QED  BY <2>1, <2>2, FS_EmptySet DEF Init, RefsMatch, OpenIsNamed
<1> QED  BY <1>1, <1>2, <1>3 DEF IInv

-----------------------------------------------------------------------------
(* Frames and calls *)

\* Where steps leave a goroutine; the others stay where they are.
LEMMA FrameParts ==
  ASSUME NEW t \in Threads, TypeOK
  PROVE  /\ \A u \in Threads : thread[u].depth \in 0 .. 2
         /\ \A pc : Goto(t, pc) =>
               /\ \A u \in Threads \ {t} : thread'[u] = thread[u]
               /\ thread'[t].pc = pc /\ thread'[t].on = thread[t].on
               /\ thread'[t].call = thread[t].call /\ thread'[t].depth = thread[t].depth
         /\ Return(t) =>
               /\ \A u \in Threads \ {t} : thread'[u] = thread[u]
               /\ thread'[t] = Idle
         /\ Validate(t) =>
               /\ \A u \in Threads \ {t} : thread'[u] = thread[u]
               /\ thread'[t].pc = "begin" /\ thread'[t].on = thread[t].on
               /\ thread'[t].call = thread[t].call /\ thread'[t].depth = 2
         /\ End(t) /\ thread[t].depth = 2 =>
               /\ \A u \in Threads \ {t} : thread'[u] = thread[u]
               /\ thread'[t].pc = "lock" /\ thread'[t].on = thread[t].on
               /\ thread'[t].call = "write" /\ thread'[t].depth = 1
         /\ End(t) /\ thread[t].depth # 2 => Return(t)
<1>1. thread \in [Threads -> Frame]
  BY DEF TypeOK
<1>2. \A u \in Threads : thread[u].depth \in 0 .. 2
  BY <1>1 DEF Frame
<1>3. ASSUME NEW pc, Goto(t, pc)
      PROVE  /\ \A u \in Threads \ {t} : thread'[u] = thread[u]
             /\ thread'[t].pc = pc /\ thread'[t].on = thread[t].on
             /\ thread'[t].call = thread[t].call /\ thread'[t].depth = thread[t].depth
  BY <1>1, <1>3 DEF Frame, Goto
<1>4. Return(t) => /\ \A u \in Threads \ {t} : thread'[u] = thread[u]
                   /\ thread'[t] = Idle
  BY <1>1 DEF Return
<1>5. Validate(t) =>
         /\ \A u \in Threads \ {t} : thread'[u] = thread[u]
         /\ thread'[t].pc = "begin" /\ thread'[t].on = thread[t].on
         /\ thread'[t].call = thread[t].call /\ thread'[t].depth = 2
  BY <1>1 DEF Frame, Validate, Linking, On
<1>6. End(t) /\ thread[t].depth = 2 =>
         /\ \A u \in Threads \ {t} : thread'[u] = thread[u]
         /\ thread'[t].pc = "lock" /\ thread'[t].on = thread[t].on
         /\ thread'[t].call = "write" /\ thread'[t].depth = 1
  BY <1>1 DEF Frame, End, On
<1>7. End(t) /\ thread[t].depth # 2 => Return(t)
  BY DEF End
<1> QED  BY <1>2, <1>3, <1>4, <1>5, <1>6, <1>7

\* How steps leave the frames.
LEMMA FrameStep ==
  ASSUME NEW t \in Threads, IInv, Start(t) \/ Continue(t)
  PROVE  FrameInv'
<1> USE DEF IInv, FrameInv, Calling, At, On
<1>1. CASE \E b \in Backends, addr \in Addrs : Conn(t, b, addr)
  BY <1>1 DEF Conn
<1>2. CASE \E addr \in Addrs : Destroy(t, addr)
  BY <1>2 DEF Destroy
<1>3. CASE \E b \in Backends, kind \in CallKinds : Call(t, b, kind)
  BY <1>3 DEF Call, TypeOK
<1>4. CASE \E b \in Backends : DisConn(t, b)
  BY <1>4 DEF DisConn, TypeOK
<1>5. CASE Refused(t)
  BY <1>5 DEF Refused, Return, Idle
<1>6. CASE Begin(t)
  BY <1>6 DEF Begin, Begun, Goto
<1>7. CASE Validate(t)
  BY <1>7 DEF Validate
<1>8. CASE LockRead(t)
  BY <1>8 DEF LockRead, Goto
<1>9. CASE LockWrite(t)
  BY <1>9 DEF LockWrite, Goto
<1>10. CASE Enter(t)
  BY <1>10 DEF Enter, Goto
<1>11. CASE Leave(t)
  BY <1>11 DEF Leave, Goto
<1>12. CASE End(t)
  <2>1. CASE thread[t].depth = 2
    BY <1>12, <2>1, FrameParts DEF End
  <2>2. CASE thread[t].depth # 2
    BY <1>12, <2>2, FrameParts DEF End, Idle
  <2> QED  BY <2>1, <2>2
<1>13. CASE DisConnLock(t)
  BY <1>13 DEF DisConnLock, Goto
<1>14. CASE DisConnRelease(t)
  BY <1>14 DEF DisConnRelease, Return, Idle
<1>15. CASE DisConnJoin(t)
  BY <1>15 DEF DisConnJoin, Return, Idle
<1> QED  BY <1>1, <1>2, <1>3, <1>4, <1>5, <1>6, <1>7, <1>8, <1>9, <1>10, <1>11,
   <1>12, <1>13, <1>14, <1>15 DEF Start, Continue

\* Nobody else closes a connection that is being closed.
LEMMA OnceStep ==
  ASSUME NEW t \in Threads, IInv, Start(t) \/ Continue(t)
  PROVE  OnceInv'
<1> USE DEF IInv, OnceInv, Closing, On
<1>1. CASE \E b \in Backends, addr \in Addrs : Conn(t, b, addr)
  BY <1>1 DEF Conn
<1>2. CASE \E addr \in Addrs : Destroy(t, addr)
  BY <1>2 DEF Destroy
<1>3. CASE \E b \in Backends, kind \in CallKinds : Call(t, b, kind)
  BY <1>3 DEF Call
<1>4. CASE \E b \in Backends : DisConn(t, b)
  BY <1>4 DEF DisConn, TypeOK, FrameInv, At
<1>5. CASE Refused(t)
  BY <1>5 DEF Refused, Return, Idle
<1>6. CASE Begin(t)
  BY <1>6 DEF Begin, Goto
<1>7. CASE Validate(t)
  BY <1>7 DEF Validate
<1>8. CASE LockRead(t)
  BY <1>8 DEF LockRead, Goto
<1>9. CASE LockWrite(t)
  BY <1>9 DEF LockWrite, Goto
<1>10. CASE Enter(t)
  BY <1>10 DEF Enter, Goto
<1>11. CASE Leave(t)
  BY <1>11 DEF Leave, Goto
<1>12. CASE End(t)
  <2>1. \A u \in Threads : Closing(u)' => Closing(u) /\ On(u)' = On(u)
    <3>1. thread[t].depth = 2 => ~ Closing(t)'
      BY <1>12, FrameParts
    <3>2. thread[t].depth # 2 => ~ Closing(t)'
      BY <1>12, FrameParts DEF Idle
    <3>3. \A u \in Threads \ {t} : thread'[u] = thread[u]
      BY <1>12, FrameParts
    <3> QED  BY <3>1, <3>2, <3>3
  <2> QED  BY <1>12, <2>1 DEF End
<1>13. CASE DisConnLock(t)
  BY <1>13 DEF DisConnLock, At, Goto
<1>14. CASE DisConnRelease(t)
  BY <1>14 DEF DisConnRelease, TypeOK, At, Return, Idle
<1>15. CASE DisConnJoin(t)
  BY <1>15 DEF DisConnJoin, Return, Idle
<1> QED  BY <1>1, <1>2, <1>3, <1>4, <1>5, <1>6, <1>7, <1>8, <1>9, <1>10, <1>11,
   <1>12, <1>13, <1>14, <1>15 DEF Start, Continue

\* Every step accounts for the read locks on lifeMu that it takes or gives back.
LEMMA LifeStep ==
  ASSUME NEW t \in Threads, IInv, Start(t) \/ Continue(t)
  PROVE  LifeInv'
<1> USE DEF IInv
<1>1. CASE \E b \in Backends, addr \in Addrs : Conn(t, b, addr)
  BY <1>1 DEF Conn, LifeInv, Held, Calling, At, On
<1>2. CASE \E addr \in Addrs : Destroy(t, addr)
  BY <1>2 DEF Destroy, LifeInv, Held, Calling, At, On
<1>3. CASE \E b \in Backends, kind \in CallKinds : Call(t, b, kind)
  <2>1. PICK b \in Backends, kind \in CallKinds : Call(t, b, kind)
    BY <1>3
  <2> SUFFICES ASSUME NEW c \in Backends, NEW u \in Threads
               PROVE  /\ lifeMu'[c].readers[u] = Held(u, c)'
                      /\ u \in lifeMu'[c].blocked => At(u, "begin")' /\ On(u)' = c
    BY DEF LifeInv
  <2> lifeMu[c] \in Lock /\ lifeMu[c].readers[u] \in Nat
    BY LockParts DEF TypeOK
  <2>2. lifeMu'[c] = IF c = b THEN RLock(lifeMu[b], t) ELSE lifeMu[c]
    BY <2>1 DEF Call, TypeOK
  <2>3. CASE u = t
    <3>1. lifeMu[c].readers[t] = 0 /\ t \notin lifeMu[c].blocked
      BY <2>1 DEF Call, LifeInv, Held, Calling, At
    <3>2. Calling(t)' /\ On(t)' = b /\ thread'[t].depth = 1 /\ At(t, "begin")'
      BY <2>1 DEF Call, TypeOK, Calling, At, On
    <3> QED  BY <2>2, <2>3, <3>1, <3>2, LockParts DEF Held
  <2>4. CASE u # t
    <3>1. thread'[u] = thread[u]
      BY <2>1, <2>4 DEF Call, TypeOK
    <3> QED  BY <2>2, <2>4, <3>1, LockParts DEF LifeInv, Held, Calling, At, On
  <2> QED  BY <2>3, <2>4
<1>4. CASE \E b \in Backends : DisConn(t, b)
  BY <1>4 DEF DisConn, LifeInv, Held, Calling, At, On
<1>5. CASE Refused(t)
  <2> SUFFICES ASSUME NEW c \in Backends, NEW u \in Threads
               PROVE  /\ lifeMu'[c].readers[u] = Held(u, c)'
                      /\ u \in lifeMu'[c].blocked => At(u, "begin")' /\ On(u)' = c
    BY DEF LifeInv
  <2> lifeMu[c] \in Lock /\ lifeMu[c].readers[u] \in Nat
    BY LockParts DEF TypeOK
  <2>1. /\ On(t) \in Backends /\ Calling(t) /\ thread[t].depth \in {1, 2}
        /\ t \notin lifeMu[On(t)].blocked
    BY <1>5 DEF Refused, Begun, Admitted, FrameInv, Calling, At
  <2>2. lifeMu'[c] = IF c = On(t) THEN RUnlocks(lifeMu[c], t, thread[t].depth)
                     ELSE lifeMu[c]
    BY <1>5, <2>1 DEF Refused, TypeOK
  <2>3. CASE u = t
    <3>1. ~ Calling(t)'
      BY <1>5, FrameParts DEF Refused, Calling, Idle
    <3> QED  BY <2>1, <2>2, <2>3, <3>1, LockParts DEF LifeInv, Held
  <2>4. CASE u # t
    <3>1. thread'[u] = thread[u]
      BY <1>5, <2>4, FrameParts DEF Refused
    <3> QED  BY <2>1, <2>2, <2>4, <3>1, LockParts DEF LifeInv, Held, Calling, At, On
  <2> QED  BY <2>3, <2>4
<1>6. CASE Begin(t)
  BY <1>6 DEF Begin, LifeInv, Held, Calling, Begun, Admitted, At, On, Goto
<1>7. CASE Validate(t)
  <2> SUFFICES ASSUME NEW c \in Backends, NEW u \in Threads
               PROVE  /\ lifeMu'[c].readers[u] = Held(u, c)'
                      /\ u \in lifeMu'[c].blocked => At(u, "begin")' /\ On(u)' = c
    BY DEF LifeInv
  <2> lifeMu[c] \in Lock /\ lifeMu[c].readers[u] \in Nat
    BY LockParts DEF TypeOK
  <2>1. On(t) \in Backends /\ Calling(t) /\ thread[t].depth = 1 /\ ~ At(t, "begin")
    BY <1>7 DEF Validate, Linking, FrameInv, Calling, At
  <2>2. lifeMu'[c] = IF c = On(t) THEN RLock(lifeMu[c], t) ELSE lifeMu[c]
    BY <1>7, <2>1 DEF Validate, TypeOK
  <2>3. CASE u = t
    <3>1. Calling(t)' /\ On(t)' = On(t) /\ thread'[t].depth = 2 /\ At(t, "begin")'
      BY <1>7, FrameParts DEF Calling, At, On
    <3> QED  BY <2>1, <2>2, <2>3, <3>1, LockParts DEF LifeInv, Held
  <2>4. CASE u # t
    <3>1. thread'[u] = thread[u]
      BY <1>7, <2>4, FrameParts
    <3> QED  BY <2>1, <2>2, <2>4, <3>1, LockParts DEF LifeInv, Held, Calling, At, On
  <2> QED  BY <2>3, <2>4
<1>8. CASE LockRead(t)
  BY <1>8 DEF LockRead, LifeInv, Held, Calling, At, On, Goto
<1>9. CASE LockWrite(t)
  BY <1>9 DEF LockWrite, LifeInv, Held, Calling, At, On, Goto
<1>10. CASE Enter(t)
  BY <1>10 DEF Enter, LifeInv, Held, Calling, At, On, Goto
<1>11. CASE Leave(t)
  BY <1>11 DEF Leave, LifeInv, Held, Calling, At, On, Goto
<1>12. CASE End(t)
  <2> SUFFICES ASSUME NEW c \in Backends, NEW u \in Threads
               PROVE  /\ lifeMu'[c].readers[u] = Held(u, c)'
                      /\ u \in lifeMu'[c].blocked => At(u, "begin")' /\ On(u)' = c
    BY DEF LifeInv
  <2> lifeMu[c] \in Lock /\ lifeMu[c].readers[u] \in Nat
    BY LockParts DEF TypeOK
  <2>1. On(t) \in Backends /\ Calling(t) /\ thread[t].depth \in {1, 2} /\ ~ At(t, "begin")
    BY <1>12 DEF End, FrameInv, Calling, At
  <2>2. lifeMu'[c] = IF c = On(t) THEN RUnlocks(lifeMu[c], t, 1) ELSE lifeMu[c]
    BY <1>12, <2>1 DEF End, RUnlock, TypeOK
  <2>3. CASE u = t
    <3>1. CASE thread[t].depth = 2
      <4>1. Calling(t)' /\ On(t)' = On(t) /\ thread'[t].depth = 1
        BY <1>12, <3>1, FrameParts DEF Calling, On
      <4> QED  BY <2>1, <2>2, <2>3, <3>1, <4>1, LockParts DEF LifeInv, Held
    <3>2. CASE thread[t].depth = 1
      <4>1. ~ Calling(t)'
        BY <1>12, <3>2, FrameParts DEF End, Calling, Idle
      <4> QED  BY <2>1, <2>2, <2>3, <3>2, <4>1, LockParts DEF LifeInv, Held
    <3> QED  BY <2>1, <3>1, <3>2
  <2>4. CASE u # t
    <3>1. thread'[u] = thread[u]
      BY <1>12, <2>4, FrameParts DEF End
    <3> QED  BY <2>1, <2>2, <2>4, <3>1, LockParts DEF LifeInv, Held, Calling, At, On
  <2> QED  BY <2>3, <2>4
<1>13. CASE DisConnLock(t)
  <2> SUFFICES ASSUME NEW c \in Backends, NEW u \in Threads
               PROVE  /\ lifeMu'[c].readers[u] = Held(u, c)'
                      /\ u \in lifeMu'[c].blocked => At(u, "begin")' /\ On(u)' = c
    BY DEF LifeInv
  <2> lifeMu[c] \in Lock /\ lifeMu[c].readers[u] \in Nat
    BY LockParts DEF TypeOK
  <2>1. On(t) \in Backends /\ ~ Calling(t) /\ ~ Calling(t)'
    BY <1>13, FrameParts DEF DisConnLock, FrameInv, Calling, At
  <2>2. lifeMu'[c] = IF c = On(t) THEN Announce(lifeMu[c], t) ELSE lifeMu[c]
    BY <1>13, <2>1 DEF DisConnLock, TypeOK
  <2>3. CASE u = t
    BY <2>1, <2>2, <2>3, LockParts DEF LifeInv, Held, Calling, At
  <2>4. CASE u # t
    <3>1. thread'[u] = thread[u]
      BY <1>13, <2>4, FrameParts DEF DisConnLock
    <3> QED  BY <2>1, <2>2, <2>4, <3>1, LockParts DEF LifeInv, Held, Calling, At, On
  <2> QED  BY <2>3, <2>4
<1>14. CASE DisConnRelease(t)
  <2> SUFFICES ASSUME NEW c \in Backends, NEW u \in Threads
               PROVE  /\ lifeMu'[c].readers[u] = Held(u, c)'
                      /\ u \in lifeMu'[c].blocked => At(u, "begin")' /\ On(u)' = c
    BY DEF LifeInv
  <2> lifeMu[c] \in Lock /\ lifeMu[c].readers[u] \in Nat
    BY LockParts DEF TypeOK
  <2>1. On(t) \in Backends /\ ~ Calling(t) /\ ~ Calling(t)'
    BY <1>14, FrameParts DEF DisConnRelease, FrameInv, Calling, At, Idle
  <2>2. lifeMu'[c] = IF c = On(t) THEN Unlock(lifeMu[c]) ELSE lifeMu[c]
    BY <1>14, <2>1 DEF DisConnRelease, TypeOK
  <2>3. CASE u = t
    BY <2>1, <2>2, <2>3, LockParts DEF LifeInv, Held, Calling, At
  <2>4. CASE u # t
    <3>1. thread'[u] = thread[u]
      BY <1>14, <2>4, FrameParts DEF DisConnRelease
    <3>2. /\ lifeMu[c].readers[u] = Held(u, c)
          /\ u \in lifeMu[c].blocked => At(u, "begin") /\ On(u) = c
          /\ thread[u].depth \in 0 .. 2
      BY FrameParts DEF LifeInv
    <3> QED  BY <2>1, <2>2, <2>4, <3>1, <3>2, LockParts DEF Held, Calling, At, On
  <2> QED  BY <2>3, <2>4
<1>15. CASE DisConnJoin(t)
  BY <1>15 DEF DisConnJoin, LifeInv, Held, Calling, At, On, Return, Idle
<1> QED  BY <1>1, <1>2, <1>3, <1>4, <1>5, <1>6, <1>7, <1>8, <1>9, <1>10, <1>11,
   <1>12, <1>13, <1>14, <1>15 DEF Start, Continue

-----------------------------------------------------------------------------
(* Types *)

\* Steps keep frames well typed.
LEMMA FrameType ==
  ASSUME NEW t \in Threads, TypeOK
  PROVE  /\ \A pc \in {"idle", "begin", "lock", "wait", "body", "end",
                        "close", "drain", "join"} :
               Goto(t, pc) => thread' \in [Threads -> Frame]
         /\ Return(t) => thread' \in [Threads -> Frame]
         /\ Validate(t) => thread' \in [Threads -> Frame]
         /\ End(t) => thread' \in [Threads -> Frame]
<1>1. thread \in [Threads -> Frame]
  BY DEF TypeOK
<1>2. ASSUME NEW pc \in {"idle", "begin", "lock", "wait", "body", "end",
                         "close", "drain", "join"}, Goto(t, pc)
      PROVE  thread' \in [Threads -> Frame]
  BY <1>1, <1>2 DEF Frame, Goto
<1>3. Return(t) => thread' \in [Threads -> Frame]
  BY <1>1 DEF Frame, Return, Idle
<1>4. Validate(t) => thread' \in [Threads -> Frame]
  BY <1>1 DEF Frame, Validate, On
<1>5. End(t) => thread' \in [Threads -> Frame]
  BY <1>1, <1>3 DEF Frame, End, On
<1> QED  BY <1>2, <1>3, <1>4, <1>5

\* A store is counted as used when a connection uses it.
LEMMA UsersCounted ==
  ASSUME TypeOK, RefsMatch, NEW s \in Stores
  PROVE  /\ IsFiniteSet({b \in Open : store[b] = s})
         /\ refs[s] = 0 => \A b \in Open : store[b] # s
         /\ \A b \in Open : store[b] = s => refs[s] >= 1
<1> DEFINE users == {b \in Open : store[b] = s}
<1>1. users \in SUBSET Backends
  BY DEF Open
<1>2. IsFiniteSet(users)
  BY <1>1, FS_Subset, ConnAssumption DEF ConnAssumption
<1>3. refs[s] = Cardinality(users) /\ refs[s] \in Nat
  BY DEF RefsMatch, TypeOK
<1>4. refs[s] = 0 => users = {}
  BY <1>2, <1>3, FS_EmptySet
<1> QED  BY <1>2, <1>3, <1>4

\* No step unlocks or releases more than it holds.
LEMMA TypeStep ==
  ASSUME NEW t \in Threads, IInv, Start(t) \/ Continue(t)
  PROVE  TypeOK'
<1> USE DEF IInv
<1>1. CASE \E b \in Backends, addr \in Addrs : Conn(t, b, addr)
  <2>1. PICK b \in Backends, addr \in Addrs : Conn(t, b, addr)
    BY <1>1
  <2>2. \A s \in Stores : s.addr \in Addrs /\ s.nr \in 0 .. MaxStores
    BY ConnAssumption DEF Stores, ConnAssumption
  <2>3. named' \in [Addrs -> Stores \cup {NoStore}] /\ made' \in [Addrs -> 0 .. MaxStores]
    BY <2>1, <2>2 DEF Conn, TypeOK
  <2>4. refs' \in [Stores -> Nat] /\ store' \in [Backends -> Stores \cup {NoStore}]
    BY <2>1 DEF Conn, TypeOK
  <2> QED  BY <2>1, <2>3, <2>4 DEF Conn, TypeOK
<1>2. CASE \E addr \in Addrs : Destroy(t, addr)
  BY <1>2 DEF Destroy, TypeOK
<1>3. CASE \E b \in Backends, kind \in CallKinds : Call(t, b, kind)
  <2>1. PICK b \in Backends, kind \in CallKinds : Call(t, b, kind)
    BY <1>3
  <2>2. lifeMu' \in [Backends -> Lock]
    BY <2>1, LockTypes DEF Call, TypeOK
  <2>3. thread' \in [Threads -> Frame]
    BY <2>1, ConnAssumption DEF Call, TypeOK, Frame, ConnAssumption
  <2> QED  BY <2>1, <2>2, <2>3 DEF Call, TypeOK
<1>4. CASE \E b \in Backends : DisConn(t, b)
  <2>1. PICK b \in Backends : DisConn(t, b)
    BY <1>4
  <2>2. thread' \in [Threads -> Frame]
    BY <2>1 DEF DisConn, TypeOK, Frame
  <2>3. once' \in [Backends -> {"fresh", "running", "done"}] /\ done' \subseteq Backends
    BY <2>1 DEF DisConn, TypeOK
  <2> QED  BY <2>1, <2>2, <2>3 DEF DisConn, TypeOK
<1>5. CASE Refused(t)
  <2>1. On(t) \in Backends /\ Used(t) \in Stores
    BY <1>5 DEF Refused, FrameInv, At, Used, Begun
  <2>2. /\ thread[t].depth \in Nat
        /\ lifeMu[On(t)].readers[t] = thread[t].depth
    BY <1>5, <2>1 DEF Refused, Begun, Admitted, FrameInv, LifeInv, Held, Calling, At
  <2>3. lifeMu' \in [Backends -> Lock]
    BY <1>5, <2>1, <2>2, LockTypes DEF Refused, TypeOK
  <2> QED  BY <1>5, <2>3, FrameType DEF Refused, TypeOK
<1>6. CASE Begin(t)
  BY <1>6, FrameType DEF Begin, TypeOK
<1>7. CASE Validate(t)
  <2>1. On(t) \in Backends /\ Used(t) \in Stores
    BY <1>7 DEF Validate, FrameInv, At, Used
  <2>2. lifeMu' \in [Backends -> Lock]
    BY <1>7, <2>1, LockTypes DEF Validate, TypeOK
  <2>3. thread' \in [Threads -> Frame]
    BY <1>7, FrameType
  <2> QED  BY <1>7, <2>2, <2>3 DEF Validate, TypeOK
<1>8. CASE LockRead(t)
  <2>1. On(t) \in Backends /\ Used(t) \in Stores
    BY <1>8 DEF LockRead, FrameInv, At, Used
  <2>2. mu' \in [Stores -> Lock]
    BY <1>8, <2>1, LockTypes DEF LockRead, TypeOK
  <2> QED  BY <1>8, <2>2, FrameType DEF LockRead, TypeOK
<1>9. CASE LockWrite(t)
  <2>1. On(t) \in Backends /\ Used(t) \in Stores
    BY <1>9 DEF LockWrite, FrameInv, At, Used
  <2>2. mu' \in [Stores -> Lock]
    BY <1>9, <2>1, LockTypes DEF LockWrite, TypeOK
  <2> QED  BY <1>9, <2>2, FrameType DEF LockWrite, TypeOK
<1>10. CASE Enter(t)
  BY <1>10, FrameType DEF Enter, TypeOK
<1>11. CASE Leave(t)
  <2>1. On(t) \in Backends /\ Used(t) \in Stores
    BY <1>11 DEF Leave, FrameInv, At, Used
  <2>2. Reading(t) => mu[Used(t)].readers[t] = 1
    BY <1>11, <2>1 DEF Leave, MuInv, Reads, At
  <2>3. mu' \in [Stores -> Lock]
    BY <1>11, <2>1, <2>2, LockTypes DEF Leave, TypeOK, RUnlock
  <2> QED  BY <1>11, <2>3, FrameType DEF Leave, TypeOK
<1>12. CASE End(t)
  <2>1. On(t) \in Backends /\ Used(t) \in Stores
    BY <1>12 DEF End, FrameInv, At, Used
  <2>2. lifeMu[On(t)].readers[t] >= 1
    BY <1>12, <2>1 DEF End, FrameInv, LifeInv, Held, Calling, At
  <2>3. lifeMu' \in [Backends -> Lock]
    BY <1>12, <2>1, <2>2, LockTypes DEF End, TypeOK, RUnlock
  <2>4. thread' \in [Threads -> Frame]
    BY <1>12, FrameType
  <2> QED  BY <1>12, <2>3, <2>4 DEF End, TypeOK
<1>13. CASE DisConnLock(t)
  <2>1. On(t) \in Backends /\ Used(t) \in Stores
    BY <1>13 DEF DisConnLock, FrameInv, At, Used
  <2>2. lifeMu' \in [Backends -> Lock]
    BY <1>13, <2>1, LockTypes DEF DisConnLock, TypeOK
  <2> QED  BY <1>13, <2>2, FrameType DEF DisConnLock, TypeOK
<1>14. CASE DisConnRelease(t)
  <2>1. On(t) \in Backends /\ Used(t) \in Stores
    BY <1>14 DEF DisConnRelease, FrameInv, At, Used
  <2>2. On(t) \in Open /\ store[On(t)] = Used(t)
    BY <1>14, <2>1, ConnAssumption DEF DisConnRelease, Open, OnceInv, Closing,
       At, Used, ConnAssumption
  <2>3. refs[Used(t)] >= 1
    BY <2>1, <2>2, UsersCounted
  <2>4. lifeMu' \in [Backends -> Lock] /\ refs' \in [Stores -> Nat]
    BY <1>14, <2>1, <2>3, LockTypes DEF DisConnRelease, TypeOK
  <2>5. once' \in [Backends -> {"fresh", "running", "done"}]
    BY <1>14, <2>1 DEF DisConnRelease, TypeOK
  <2> QED  BY <1>14, <2>4, <2>5, FrameType DEF DisConnRelease, TypeOK
<1>15. CASE DisConnJoin(t)
  BY <1>15, FrameType DEF DisConnJoin, TypeOK
<1> QED  BY <1>1, <1>2, <1>3, <1>4, <1>5, <1>6, <1>7, <1>8, <1>9, <1>10, <1>11,
   <1>12, <1>13, <1>14, <1>15 DEF Start, Continue

-----------------------------------------------------------------------------
(* Connections and their stores *)

\* DisConnRelease finds no call inside, and Begin lets none in later.
LEMMA CallStep ==
  ASSUME NEW t \in Threads, IInv, Start(t) \/ Continue(t)
  PROVE  CallInv'
<1> USE DEF IInv, CallInv, Calling, At, On
<1>1. CASE \E b \in Backends, addr \in Addrs : Conn(t, b, addr)
  BY <1>1 DEF Conn
<1>2. CASE \E addr \in Addrs : Destroy(t, addr)
  BY <1>2 DEF Destroy
<1>3. CASE \E b \in Backends, kind \in CallKinds : Call(t, b, kind)
  BY <1>3 DEF Call
<1>4. CASE \E b \in Backends : DisConn(t, b)
  BY <1>4 DEF DisConn, TypeOK, FrameInv
<1>5. CASE Refused(t)
  BY <1>5, FrameParts DEF Refused, Idle
<1>6. CASE Begin(t)
  BY <1>6, FrameParts DEF Begin, FrameInv, OnceInv, Begun
<1>7. CASE Validate(t)
  BY <1>7 DEF Validate
<1>8. CASE LockRead(t)
  BY <1>8, FrameParts DEF LockRead
<1>9. CASE LockWrite(t)
  BY <1>9, FrameParts DEF LockWrite
<1>10. CASE Enter(t)
  BY <1>10, FrameParts DEF Enter
<1>11. CASE Leave(t)
  BY <1>11, FrameParts DEF Leave
<1>12. CASE End(t)
  <2>1. \A u \in Threads : Calling(u)' /\ ~ At(u, "begin")' =>
                              Calling(u) /\ ~ At(u, "begin") /\ On(u)' = On(u)
    <3>1. CASE thread[t].depth = 2
      BY <1>12, <3>1, FrameParts DEF End
    <3>2. CASE thread[t].depth # 2
      BY <1>12, <3>2, FrameParts DEF End, Idle
    <3> QED  BY <3>1, <3>2
  <2> QED  BY <1>12, <2>1 DEF End
<1>13. CASE DisConnLock(t)
  BY <1>13, FrameParts DEF DisConnLock
<1>14. CASE DisConnRelease(t)
  BY <1>14, FrameParts DEF DisConnRelease, FrameInv, LifeInv, Held, Drained, Idle
<1>15. CASE DisConnJoin(t)
  BY <1>15, FrameParts DEF DisConnJoin, Idle
<1> QED  BY <1>1, <1>2, <1>3, <1>4, <1>5, <1>6, <1>7, <1>8, <1>9, <1>10, <1>11,
   <1>12, <1>13, <1>14, <1>15 DEF Start, Continue

\* A store is named by its own address.
LEMMA NameStep ==
  ASSUME NEW t \in Threads, IInv, Start(t) \/ Continue(t)
  PROVE  NameInv'
<1> USE DEF IInv
<1>1. CASE \E b \in Backends, addr \in Addrs : Conn(t, b, addr)
  BY <1>1 DEF Conn, NameInv, TypeOK
<1>2. CASE \E addr \in Addrs : Destroy(t, addr)
  BY <1>2 DEF Destroy, NameInv, TypeOK
<1>3. CASE (\E b \in Backends, kind \in CallKinds : Call(t, b, kind))
           \/ (\E b \in Backends : DisConn(t, b))
  BY <1>3 DEF Call, DisConn, NameInv
<1>4. CASE Continue(t)
  BY <1>4 DEF Continue, Refused, Begin, Validate, LockRead, LockWrite, Enter,
     Leave, End,
     DisConnLock, DisConnRelease, DisConnJoin, NameInv
<1> QED  BY <1>1, <1>2, <1>3, <1>4 DEF Start

\* Destroy finds a store without connections.
LEMMA OpenStep ==
  ASSUME NEW t \in Threads, IInv, Start(t) \/ Continue(t)
  PROVE  OpenIsNamed'
<1> USE DEF IInv
<1>1. CASE \E b \in Backends, addr \in Addrs : Conn(t, b, addr)
  BY <1>1 DEF Conn, OpenIsNamed, Open, NameInv, TypeOK
<1>2. CASE \E addr \in Addrs : Destroy(t, addr)
  <2>1. PICK addr \in Addrs : Destroy(t, addr)
    BY <1>2
  <2>2. named[addr] \in Stores
    BY <2>1 DEF Destroy, TypeOK
  <2>3. \A b \in Open : store[b].addr # addr
    BY <2>1, <2>2, UsersCounted DEF Destroy, OpenIsNamed
  <2> QED  BY <2>1, <2>3 DEF Destroy, OpenIsNamed, Open, TypeOK
<1>3. CASE \E b \in Backends : DisConn(t, b)
  BY <1>3 DEF DisConn, OpenIsNamed, Open, TypeOK
<1>4. CASE DisConnRelease(t)
  BY <1>4 DEF DisConnRelease, OpenIsNamed, Open
<1>5. CASE \E b \in Backends, kind \in CallKinds : Call(t, b, kind)
  BY <1>5 DEF Call, OpenIsNamed, Open
<1>6. CASE Refused(t) \/ Begin(t) \/ Validate(t) \/ LockRead(t) \/ LockWrite(t)
           \/ Enter(t) \/ Leave(t) \/ End(t) \/ DisConnLock(t) \/ DisConnJoin(t)
  BY <1>6 DEF Refused, Begin, Validate, LockRead, LockWrite, Enter, Leave, End,
     DisConnLock, DisConnJoin, OpenIsNamed, Open
<1> QED  BY <1>1, <1>2, <1>3, <1>4, <1>5, <1>6 DEF Start, Continue

\* A step that neither touches a store's lock nor moves a goroutine at one.
LEMMA MuKept ==
  ASSUME IInv, NEW t \in Threads,
         mu' = mu,
         \A u \in Threads \ {t} : thread'[u] = thread[u],
         ~ At(t, "wait"), ~ At(t, "body"), ~ At(t, "wait")', ~ At(t, "body")',
         \A u \in Threads : ~ At(u, "idle") => store'[On(u)] = store[On(u)]
  PROVE  MuInv'
<1> SUFFICES ASSUME NEW s \in Stores, NEW u \in Threads
             PROVE  /\ mu'[s].readers[u] = Reads(u, s)'
                    /\ u \in mu'[s].blocked =>
                          At(u, "wait")' /\ Reading(u)' /\ Used(u)' = s
  BY DEF MuInv
<1>1. CASE u = t
  BY <1>1 DEF IInv, MuInv, Reads
<1>2. CASE u # t
  BY <1>2 DEF IInv, MuInv, Reads, Reading, Used, On, At
<1> QED  BY <1>1, <1>2

\* The four steps at a store's lock account for its readers.
LEMMA MuStep ==
  ASSUME NEW t \in Threads, IInv, Start(t) \/ Continue(t)
  PROVE  MuInv'
<1> USE DEF IInv
<1>1. CASE \E b \in Backends, addr \in Addrs : Conn(t, b, addr)
  <2>1. PICK b \in Backends, addr \in Addrs : Conn(t, b, addr)
    BY <1>1
  <2>2. \A u \in Threads : ~ At(u, "idle") => store'[On(u)] = store[On(u)]
    BY <2>1, ConnAssumption DEF Conn, FrameInv, TypeOK, ConnAssumption
  <2> QED  BY <2>1, <2>2, MuKept DEF Conn, At
<1>2. CASE \E addr \in Addrs : Destroy(t, addr)
  BY <1>2, FrameParts, MuKept DEF Destroy, At
<1>3. CASE \E b \in Backends, kind \in CallKinds : Call(t, b, kind)
  BY <1>3, MuKept DEF Call, At, TypeOK
<1>4. CASE \E b \in Backends : DisConn(t, b)
  BY <1>4, MuKept DEF DisConn, At, TypeOK
<1>5. CASE Refused(t)
  BY <1>5, FrameParts, MuKept DEF Refused, At, Begun, Idle
<1>6. CASE Begin(t)
  BY <1>6, FrameParts, MuKept DEF Begin, At, Begun
<1>7. CASE Validate(t)
  BY <1>7, FrameParts, MuKept DEF Validate, At
<1>8. CASE LockRead(t)
  <2> SUFFICES ASSUME NEW s \in Stores, NEW u \in Threads
               PROVE  /\ mu'[s].readers[u] = Reads(u, s)'
                      /\ u \in mu'[s].blocked =>
                            At(u, "wait")' /\ Reading(u)' /\ Used(u)' = s
    BY DEF MuInv
  <2> mu[s] \in Lock /\ mu[s].readers[u] \in Nat
    BY LockParts DEF TypeOK
  <2>1. On(t) \in Backends /\ Used(t) \in Stores
    BY <1>8 DEF LockRead, FrameInv, At, Used
  <2>2. mu'[s] = IF s = Used(t) THEN RLock(mu[s], t) ELSE mu[s]
    BY <1>8, <2>1 DEF LockRead, TypeOK
  <2>3. At(t, "lock") /\ At(t, "wait")' /\ Used(t)' = Used(t) /\ (Reading(t)' <=> Reading(t))
    BY <1>8, FrameParts DEF LockRead, At, Used, On, Reading
  <2>4. CASE u = t
    BY <1>8, <2>1, <2>2, <2>3, <2>4, LockParts DEF LockRead, MuInv, Reads, At,
       Admitted, RUnlock, Drained
  <2>5. CASE u # t
    <3>1. thread'[u] = thread[u] /\ store' = store
      BY <1>8, <2>5, FrameParts DEF LockRead
    <3> QED  BY <2>1, <2>2, <2>3, <2>5, <3>1, LockParts DEF MuInv, Reads, At,
       Reading, Used, On, RUnlock
  <2> QED  BY <2>4, <2>5
<1>9. CASE LockWrite(t)
  <2> SUFFICES ASSUME NEW s \in Stores, NEW u \in Threads
               PROVE  /\ mu'[s].readers[u] = Reads(u, s)'
                      /\ u \in mu'[s].blocked =>
                            At(u, "wait")' /\ Reading(u)' /\ Used(u)' = s
    BY DEF MuInv
  <2> mu[s] \in Lock /\ mu[s].readers[u] \in Nat
    BY LockParts DEF TypeOK
  <2>1. On(t) \in Backends /\ Used(t) \in Stores
    BY <1>9 DEF LockWrite, FrameInv, At, Used
  <2>2. mu'[s] = IF s = Used(t) THEN Announce(mu[s], t) ELSE mu[s]
    BY <1>9, <2>1 DEF LockWrite, TypeOK
  <2>3. At(t, "lock") /\ At(t, "wait")' /\ Used(t)' = Used(t) /\ (Reading(t)' <=> Reading(t))
    BY <1>9, FrameParts DEF LockWrite, At, Used, On, Reading
  <2>4. CASE u = t
    BY <1>9, <2>1, <2>2, <2>3, <2>4, LockParts DEF LockWrite, MuInv, Reads, At,
       Admitted, RUnlock, Drained
  <2>5. CASE u # t
    <3>1. thread'[u] = thread[u] /\ store' = store
      BY <1>9, <2>5, FrameParts DEF LockWrite
    <3> QED  BY <2>1, <2>2, <2>3, <2>5, <3>1, LockParts DEF MuInv, Reads, At,
       Reading, Used, On, RUnlock
  <2> QED  BY <2>4, <2>5
<1>10. CASE Enter(t)
  <2> SUFFICES ASSUME NEW s \in Stores, NEW u \in Threads
               PROVE  /\ mu'[s].readers[u] = Reads(u, s)'
                      /\ u \in mu'[s].blocked =>
                            At(u, "wait")' /\ Reading(u)' /\ Used(u)' = s
    BY DEF MuInv
  <2> mu[s] \in Lock /\ mu[s].readers[u] \in Nat
    BY LockParts DEF TypeOK
  <2>1. On(t) \in Backends /\ Used(t) \in Stores
    BY <1>10 DEF Enter, FrameInv, At, Used
  <2>2. mu'[s] = IF s = Used(t) THEN mu[s] ELSE mu[s]
    BY <1>10, <2>1 DEF Enter, TypeOK
  <2>3. At(t, "wait") /\ At(t, "body")' /\ Used(t)' = Used(t) /\ (Reading(t)' <=> Reading(t))
    BY <1>10, FrameParts DEF Enter, At, Used, On, Reading
  <2>4. CASE u = t
    BY <1>10, <2>1, <2>2, <2>3, <2>4, LockParts DEF Enter, MuInv, Reads, At,
       Admitted, RUnlock, Drained
  <2>5. CASE u # t
    <3>1. thread'[u] = thread[u] /\ store' = store
      BY <1>10, <2>5, FrameParts DEF Enter
    <3> QED  BY <2>1, <2>2, <2>3, <2>5, <3>1, LockParts DEF MuInv, Reads, At,
       Reading, Used, On, RUnlock
  <2> QED  BY <2>4, <2>5
<1>11. CASE Leave(t)
  <2> SUFFICES ASSUME NEW s \in Stores, NEW u \in Threads
               PROVE  /\ mu'[s].readers[u] = Reads(u, s)'
                      /\ u \in mu'[s].blocked =>
                            At(u, "wait")' /\ Reading(u)' /\ Used(u)' = s
    BY DEF MuInv
  <2> mu[s] \in Lock /\ mu[s].readers[u] \in Nat
    BY LockParts DEF TypeOK
  <2>1. On(t) \in Backends /\ Used(t) \in Stores
    BY <1>11 DEF Leave, FrameInv, At, Used
  <2>2. mu'[s] = IF s = Used(t)
                THEN IF Reading(t) THEN RUnlock(mu[s], t) ELSE Unlock(mu[s])
                ELSE mu[s]
    BY <1>11, <2>1 DEF Leave, TypeOK
  <2>3. At(t, "body") /\ At(t, "end")' /\ Used(t)' = Used(t) /\ (Reading(t)' <=> Reading(t))
    BY <1>11, FrameParts DEF Leave, At, Used, On, Reading
  <2>4. CASE u = t
    BY <1>11, <2>1, <2>2, <2>3, <2>4, LockParts DEF Leave, MuInv, Reads, At,
       Admitted, RUnlock, Drained
  <2>5. CASE u # t
    <3>1. thread'[u] = thread[u] /\ store' = store
      BY <1>11, <2>5, FrameParts DEF Leave
    <3> QED  BY <2>1, <2>2, <2>3, <2>5, <3>1, LockParts DEF MuInv, Reads, At,
       Reading, Used, On, RUnlock
  <2> QED  BY <2>4, <2>5
<1>12. CASE End(t)
  <2>1. CASE thread[t].depth = 2
    BY <1>12, <2>1, FrameParts, MuKept DEF End, At
  <2>2. CASE thread[t].depth # 2
    BY <1>12, <2>2, FrameParts, MuKept DEF End, At, Idle
  <2> QED  BY <2>1, <2>2
<1>13. CASE DisConnLock(t)
  BY <1>13, FrameParts, MuKept DEF DisConnLock, At
<1>14. CASE DisConnRelease(t)
  BY <1>14, FrameParts, MuKept DEF DisConnRelease, At, Idle
<1>15. CASE DisConnJoin(t)
  BY <1>15, FrameParts, MuKept DEF DisConnJoin, At, Idle
<1> QED  BY <1>1, <1>2, <1>3, <1>4, <1>5, <1>6, <1>7, <1>8, <1>9, <1>10, <1>11,
   <1>12, <1>13, <1>14, <1>15 DEF Start, Continue

\* A step that neither opens nor releases a connection.
LEMMA RefsKept ==
  ASSUME RefsMatch, refs' = refs, store' = store, Open' = Open
  PROVE  RefsMatch'
BY DEF RefsMatch

\* Conn and DisConnRelease move a connection in and out of the users of its store.
LEMMA RefsStep ==
  ASSUME NEW t \in Threads, IInv, Start(t) \/ Continue(t)
  PROVE  RefsMatch'
<1> USE DEF IInv
<1>1. CASE \E b \in Backends, addr \in Addrs : Conn(t, b, addr)
  <2>1. PICK b \in Backends, addr \in Addrs : Conn(t, b, addr)
    BY <1>1
  <2>2. b \notin Open /\ store'[b] \in Stores
    BY <2>1 DEF Conn, Open, TypeOK
  <2>3. Open' = Open \cup {b}
    BY <2>1, <2>2, ConnAssumption DEF Conn, Open, OnceInv, TypeOK, ConnAssumption
  <2> SUFFICES ASSUME NEW s \in Stores
               PROVE  refs'[s] = Cardinality({c \in Open' : store'[c] = s})
    BY DEF RefsMatch
  <2> DEFINE users == {c \in Open : store[c] = s}
  <2>4. {c \in Open' : store'[c] = s} = IF s = store'[b] THEN users \cup {b} ELSE users
    BY <2>1, <2>2, <2>3 DEF Conn, TypeOK, Open
  <2>5. IsFiniteSet(users) /\ b \notin users /\ refs[s] = Cardinality(users)
    BY <2>2, UsersCounted DEF RefsMatch
  <2>6. refs'[s] = IF s = store'[b] THEN refs[s] + 1 ELSE refs[s]
    BY <2>1 DEF Conn, TypeOK
  <2> HIDE DEF users
  <2> QED  BY <2>4, <2>5, <2>6, FS_AddElement
<1>2. CASE DisConnRelease(t)
  <2>1. /\ On(t) \in Open /\ On(t) \in Backends
        /\ Used(t) \in Stores /\ store[On(t)] = Used(t)
    BY <1>2, ConnAssumption DEF DisConnRelease, Open, OnceInv, FrameInv, Closing,
       At, Used,
       ConnAssumption
  <2>2. Open' = Open \ {On(t)}
    BY <1>2, <2>1 DEF DisConnRelease, Open, TypeOK
  <2> SUFFICES ASSUME NEW s \in Stores
               PROVE  refs'[s] = Cardinality({c \in Open' : store'[c] = s})
    BY DEF RefsMatch
  <2> DEFINE users == {c \in Open : store[c] = s}
  <2>3. {c \in Open' : store'[c] = s} = users \ {On(t)}
    BY <1>2, <2>2 DEF DisConnRelease
  <2>4. /\ IsFiniteSet(users) /\ refs[s] = Cardinality(users)
        /\ On(t) \in users <=> s = Used(t)
    BY <2>1, UsersCounted DEF RefsMatch
  <2>5. refs'[s] = IF s = Used(t) THEN refs[s] - 1 ELSE refs[s]
    BY <1>2, <2>1 DEF DisConnRelease, TypeOK
  <2> HIDE DEF users
  <2> QED  BY <2>3, <2>4, <2>5, FS_RemoveElement
<1>3. CASE \E b \in Backends : DisConn(t, b)
  <2>1. PICK b \in Backends : DisConn(t, b)
    BY <1>3
  <2>2. Open' = Open
    BY <2>1 DEF DisConn, Open, TypeOK
  <2> QED  BY <2>1, <2>2, RefsKept DEF DisConn
<1>4. ASSUME refs' = refs, store' = store, once' = once
      PROVE  RefsMatch'
  BY <1>4, RefsKept DEF Open
<1>5. CASE (\E addr \in Addrs : Destroy(t, addr))
           \/ (\E b \in Backends, kind \in CallKinds : Call(t, b, kind))
  BY <1>4, <1>5 DEF Destroy, Call
<1>6. CASE Refused(t) \/ Begin(t) \/ Validate(t) \/ LockRead(t) \/ LockWrite(t)
           \/ Enter(t) \/ Leave(t) \/ End(t) \/ DisConnLock(t) \/ DisConnJoin(t)
  BY <1>4, <1>6 DEF Refused, Begin, Validate, LockRead, LockWrite, Enter, Leave, End,
     DisConnLock, DisConnJoin
<1> QED  BY <1>1, <1>2, <1>3, <1>5, <1>6 DEF Start, Continue

-----------------------------------------------------------------------------
(* The invariant *)

LEMMA NextInv == IInv /\ [Next]_vars => IInv'
<1> SUFFICES ASSUME IInv, [Next]_vars PROVE IInv'
  OBVIOUS
<1>1. CASE Next
  <2>1. PICK t \in Threads : Start(t) \/ Continue(t)
    BY <1>1 DEF Next
  <2> QED
    BY <2>1, TypeStep, FrameStep, OnceStep, LifeStep, MuStep, CallStep, NameStep,
       RefsStep, OpenStep DEF IInv
<1>2. CASE UNCHANGED vars
  BY <1>2 DEF vars, IInv, TypeOK, FrameInv, OnceInv, LifeInv, MuInv, CallInv, NameInv,
     RefsMatch, OpenIsNamed, Open, At, On, Calling, Closing, Held, Reads, Reading, Used
<1> QED  BY <1>1, <1>2

LEMMA Invariance == Spec => []IInv
BY InitInv, NextInv, PTL DEF Spec

-----------------------------------------------------------------------------
(* Theorems *)

\* The variables keep their types: no lock is ever unlocked more often than it
\* was locked, and no store is released more often than it was opened.
THEOREM TypeCorrect == Spec => []TypeOK
<1>1. IInv => TypeOK
  BY DEF IInv
<1> QED  BY <1>1, Invariance, PTL

\* refs is the number of the connections of a store that are not released,
\* for any number of goroutines, connections and stores.
THEOREM RefsExact == Spec => []RefsMatch
<1>1. IInv => RefsMatch
  BY DEF IInv
<1> QED  BY <1>1, Invariance, PTL

\* Destroy never forgets the store of a connection that is not released.
THEOREM NeverForgotten == Spec => []OpenIsNamed
<1>1. IInv => OpenIsNamed
  BY DEF IInv
<1> QED  BY <1>1, Invariance, PTL

\* When DisConn has returned no call of the connection is at the store, and
\* none gets there.
THEOREM CallsEnded == Spec => []NoLateCalls
<1>1. IInv => NoLateCalls
  BY DEF IInv, CallInv, NoLateCalls, Calling, At
<1> QED  BY <1>1, Invariance, PTL

=============================================================================
