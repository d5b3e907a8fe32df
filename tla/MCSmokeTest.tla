---------------------------- MODULE MCSmokeTest -----------------------------
(* SmokeTest next to a user with a VM of his own.                          *)
EXTENDS SmokeTest

CONSTANTS test, test2

ExactCovers == {<<v, v>> : v \in VMs}

(* A start of the other VM, which takes a PID and leaves one to be reused, *)
(* and a stop of the tested VM that overlaps the smoke test's own.         *)
StartAndStop == {[act |-> "start", vm |-> test2, kill |-> FALSE],
                 [act |-> "stop",  vm |-> test,  kill |-> TRUE]}
=============================================================================
