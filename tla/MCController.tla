---------------------------- MODULE MCController ----------------------------
(* Instances of Controller for TLC. *)
EXTENDS Controller, TLC

CONSTANTS test, test2

(* Directories none of whose paths begins with another one. *)
ExactCovers == {<<v, v>> : v \in VMs}

(* ".../Test" and ".../Test 2", which may be two VMs of the controller or  *)
(* one of them a VM that somebody else runs.                               *)
PrefixCovers == ExactCovers \union {<<test, test2>>}

(* Under Exclusive a .tmp file is only read by the command that has just   *)
(* written it, so that states which differ in nothing else behave alike.   *)
ButTmp == <<osVars, rec, opened, ctlVars>>

Symmetry == Permutations(Pids) \union Permutations(Invocations)
=============================================================================
