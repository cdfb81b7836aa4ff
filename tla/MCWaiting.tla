----------------------------- MODULE MCWaiting -----------------------------
(***************************************************************************)
(* The two ways to wait for a value, on small instances: WatchValue, which *)
(* polls, and goheap's notify queue.  A behaviour is about one of them,    *)
(* "watch" or "queue".                                                     *)
(***************************************************************************)
EXTENDS WatchValue, NotifyQueue

VARIABLE subject

V(kind, body) == [kind |-> kind, ptr |-> FALSE, body |-> body]

Done == V("char", "/done")
Distinct == {Done, V("char", "/wait"), V("path", "/done")}

MCInit == Init /\ QueueInit /\ subject \in {"watch", "queue"}

MCNext ==
    \/ subject = "watch" /\ Next /\ UNCHANGED <<queueVars, subject>>
    \/ subject = "queue" /\ QueueNext /\ UNCHANGED <<vars, subject>>

\* The goroutines of the subject go on, as those of its own specification do.
MCFairness ==
    /\ WF_vars(subject = "watch" /\ Watch /\ UNCHANGED <<queueVars, subject>>)
    /\ WF_vars(subject = "watch" /\ Pass /\ UNCHANGED <<queueVars, subject>>)
    /\ \A t \in Threads :
          WF_queueVars(subject = "queue" /\ Looks(t) /\ UNCHANGED <<vars, subject>>)

MCSpec == MCInit /\ [][MCNext]_<<vars, queueVars, subject>> /\ MCFairness

\* If the key comes to hold the target and keeps it, the watcher returns.
WatcherReturns == subject = "watch" => StableSeen
=============================================================================
