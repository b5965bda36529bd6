---------------------------- MODULE DurableStore ----------------------------
(***************************************************************************)
(* What a server that keeps its metrics in memory promises: an update       *)
(* changes all its metrics at once, an image of the live metrics is taken   *)
(* in one piece and becomes the durable state in one piece, and a process   *)
(* that starts over holds either nothing or the whole durable state.        *)
(* MetricsServer is shown to implement this specification.                  *)
(***************************************************************************)

CONSTANTS
  Counters, Gauges,  \* the metrics of each kind
  Updates            \* updates, each applied at most once

VARIABLES
  live,     \* the metrics in memory: what each key was updated by
  image,    \* the image being made durable
  durable   \* the metrics that survive the process

vars == <<live, image, durable>>

Keys == Counters \cup Gauges
Empty == [k \in Keys |-> {}]

\* A counter accumulates its updates, a gauge holds the last one.
Applied(store, u, K) ==
  [k \in Keys |-> IF k \notin K THEN store[k]
                  ELSE IF k \in Counters THEN store[k] \cup {u} ELSE {u}]

Init == live = Empty /\ image = Empty /\ durable = Empty

Update ==
  /\ \E u \in Updates, K \in (SUBSET Keys) \ {{}} :
       /\ \A k \in K \cap Counters : u \notin live[k]
       /\ live' = Applied(live, u, K)
  /\ UNCHANGED <<image, durable>>

TakeImage == image' = live /\ UNCHANGED <<live, durable>>

MakeDurable == durable' = image /\ UNCHANGED <<live, image>>

\* The process ends, and with it the image it was saving.
Lose == live' = Empty /\ image' = Empty /\ UNCHANGED durable

Recover == live = Empty /\ live' = durable /\ UNCHANGED <<image, durable>>

Next == Update \/ TakeImage \/ MakeDurable \/ Lose \/ Recover

Spec == Init /\ [][Next]_vars
=============================================================================
