------------------------------ MODULE Reporter ------------------------------
(***************************************************************************)
(* What the agent promises about the metrics it gathers, with no word about *)
(* how: samples are numbered 1, 2, ... in the order they are gathered; the  *)
(* server comes to hold some of them; a sample is called confirmed only     *)
(* after the server has received it, and the confirmed number only grows;   *)
(* an agent that ends without an error has confirmed its last sample.       *)
(* MetricsAgent is shown to implement this specification.                   *)
(***************************************************************************)
EXTENDS Naturals

VARIABLES
  collected,   \* the number of the last sample gathered, 0 before the first
  delivered,   \* the samples the server has received
  confirmed,   \* the last sample the agent knows to be received
  outcome      \* "running", or how the agent ended: "nil" or "error"

vars == <<collected, delivered, confirmed, outcome>>

Init ==
  /\ collected = 0
  /\ delivered = {}
  /\ confirmed = 0
  /\ outcome = "running"

Collect ==
  /\ outcome = "running"
  /\ collected' = collected + 1
  /\ UNCHANGED <<delivered, confirmed, outcome>>

\* A request may reach the server after the agent gave it up, even after the
\* agent has ended.
Deliver ==
  /\ \E r \in 1..collected : delivered' = delivered \cup {r}
  /\ UNCHANGED <<collected, confirmed, outcome>>

Confirm ==
  /\ outcome = "running"
  /\ \E r \in delivered : r > confirmed /\ confirmed' = r
  /\ UNCHANGED <<collected, delivered, outcome>>

\* The step that confirms the last sample may also be the one that ends the run.
Finish ==
  /\ outcome = "running"
  /\ \/ outcome' = "nil" /\ confirmed' = collected
        /\ confirmed' \in delivered \cup {confirmed}
     \/ outcome' = "error" /\ confirmed' = confirmed
  /\ UNCHANGED <<collected, delivered>>

Next == Collect \/ Deliver \/ Confirm \/ Finish

Spec == Init /\ [][Next]_vars
=============================================================================
