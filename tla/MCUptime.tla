------------------------------ MODULE MCUptime ------------------------------
(***************************************************************************)
(* Values of the constants for the runs.  "web" is a probed configuration, *)
(* "web0" the same with max_retries left at zero, "neg" one with negative  *)
(* max_retries, "agent" a push configuration, "odd" a type without probe.  *)
(***************************************************************************)
EXTENDS UptimeBoard, TLC

MCRetries == [c \in Config |-> CASE c = "web" -> 1 [] c = "neg" -> -1 [] OTHER -> 0]
\* An agent may miss one tick, nobody else has a grace period that matters.
MCNoGrace == [c \in Config |-> 0]
MCGrace == [c \in Config |-> IF c = "agent" THEN 1 ELSE 0]
MCRefill == [c \in Config |-> IF c = "web0" THEN "web" ELSE c]

\* The ghost only grows, so where every monitor is disturbed a claim about
\* undisturbed ones has nothing left to say: those states are not expanded.
SomeUndisturbed == disturbed # Monitor

SomeClear == Monitor \ (disturbed \cup blurred) # {}

NoneDisturbed == disturbed = {}

MCSymmetry == Permutations(Check) \cup Permutations(Heartbeat)
=============================================================================
