----------------------------- MODULE WatchValue -----------------------------
(***************************************************************************)
(* WatchValue (kvspace_common.go): the Watch of every backend.  A watcher  *)
(* reads a key until it holds the value it waits for: SpinCount times      *)
(* without a pause, and then with pauses that double up to the tick        *)
(* duration of the call.  Producers set the key whenever they like.        *)
(*                                                                         *)
(* Time is counted in microseconds, the length of the first pause, and     *)
(* passes only in pauses: reads take none, and a timer rings when it is    *)
(* set to.  A tick of 0 stands for any duration below a microsecond.       *)
(***************************************************************************)
EXTENDS Integers

CONSTANTS Values,    \* what producers set the key to
          Target,    \* the value that is waited for
          SpinCount, \* the reads without a pause
          Tick       \* tickDuration

VARIABLES value,  \* the value of the key
          at,     \* where the watcher stands: "reading", "pausing" or "returned"
          reads,  \* the loop counter, as far as SpinCount
          cur,    \* the length of the pause
          left,   \* what is left of the pause
          result, \* what the watcher returned
          age     \* ghost: for how long the key has been holding a value equal to Target

vars == <<value, at, reads, cur, left, result, age>>

\* Of a value: its kind, whether it is a link, and its body.
Value == [kind : STRING, ptr : BOOLEAN, body : STRING]

WatchAssumption ==
    /\ Values \subseteq Value
    /\ Target \in Values
    /\ SpinCount \in Nat
    /\ Tick \in Nat

ASSUME WatchAssumption

\* The longest pause that the loop comes to.
LongestPause == IF Tick > 1 THEN Tick ELSE 1

\* equalXValue: kind and body, not whether the value is a link.
EqualXValue(a, b) == a.kind = b.kind /\ a.body = b.body

\* Mutant: the cap is looked at before the pause is doubled only.
MutBackoff(c) == IF c = 0 THEN 1 ELSE IF c < Tick THEN 2 * c ELSE c

\* The pause after one of length c.
Backoff(c) ==
    IF c = 0 THEN 1
    ELSE IF c < Tick THEN (IF 2 * c > Tick THEN Tick ELSE 2 * c)
    ELSE c

Init ==
    /\ value \in Values
    /\ at = "reading"
    /\ reads = 0 /\ cur = 0 /\ left = 0 /\ age = 0
    /\ result = Target

\* Mutant: the value is compared in the reads without a pause alone.
MutFound ==
    /\ at = "reading"
    /\ reads < SpinCount
    /\ EqualXValue(value, Target)
    /\ at' = "returned" /\ result' = value
    /\ UNCHANGED <<value, reads, cur, left, age>>

Found ==
    /\ at = "reading"
    /\ EqualXValue(value, Target)
    /\ at' = "returned" /\ result' = value
    /\ UNCHANGED <<value, reads, cur, left, age>>

Spin ==
    /\ at = "reading"
    /\ ~ EqualXValue(value, Target)
    /\ reads < SpinCount
    /\ reads' = reads + 1
    /\ UNCHANGED <<value, at, cur, left, result, age>>

Sleep ==
    /\ at = "reading"
    /\ ~ EqualXValue(value, Target)
    /\ reads = SpinCount
    /\ at' = "pausing"
    /\ cur' = Backoff(cur) /\ left' = Backoff(cur)
    /\ UNCHANGED <<value, reads, result, age>>

\* A microsecond of the pause.
Pass ==
    /\ at = "pausing" /\ left > 0
    /\ left' = left - 1
    /\ age' = IF EqualXValue(value, Target) THEN age + 1 ELSE 0
    /\ UNCHANGED <<value, at, reads, cur, result>>

Wake ==
    /\ at = "pausing" /\ left = 0
    /\ at' = "reading"
    /\ UNCHANGED <<value, reads, cur, left, result, age>>

\* A producer, or anyone else, sets the key.
Produce ==
    \E v \in Values :
        /\ value' = v
        /\ age' = IF EqualXValue(v, Target) /\ EqualXValue(value, Target) THEN age ELSE 0
        /\ UNCHANGED <<at, reads, cur, left, result>>

Watch == Found \/ Spin \/ Sleep \/ Wake

Next == Watch \/ Pass \/ Produce

\* The watcher's goroutine goes on, and time does.
Fairness == WF_vars(Watch) /\ WF_vars(Pass)

Spec == Init /\ [][Next]_vars
LiveSpec == Spec /\ Fairness

-----------------------------------------------------------------------------
(* Properties *)

\* Every variable has its type; no pause is longer than the tick or, for a
\* shorter one, the first pause.
TypeOK ==
    /\ value \in Values
    /\ at \in {"reading", "pausing", "returned"}
    /\ reads \in 0 .. SpinCount
    /\ cur \in 0 .. LongestPause
    /\ left \in 0 .. cur
    /\ result \in Values
    /\ age \in Nat

\* A value that stays is seen within one longest pause of its arrival, however
\* long the watcher has been backing off.
SeenInTime ==
    at # "returned" /\ EqualXValue(value, Target) => age <= LongestPause

\* If the key comes to hold the target and keeps it, the watcher returns.
StableSeen == <>[](value = Target) => <>(at = "returned")
=============================================================================
