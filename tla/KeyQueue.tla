------------------------------ MODULE KeyQueue ------------------------------
(***************************************************************************)
(* What sending keys to the guest promises, whatever the tool and the      *)
(* ring: the keys that the user gave reach the guest's program in order,   *)
(* each of them once, and none is made up.                                 *)
(***************************************************************************)
EXTENDS Naturals, Sequences

CONSTANTS
  Keys,   \* what the user gives to the tool
  Own     \* what is typed at the guest's own keyboard

VARIABLES
  pending,   \* keys the tool still has
  queue,     \* keys the guest may read
  taken      \* keys the guest has read

vars == <<pending, queue, taken>>

Init == pending \in Seq(Keys) /\ queue = <<>> /\ taken = <<>>

Press(k) == pending' = Append(pending, k) /\ UNCHANGED <<queue, taken>>

(* The tool sends some of its keys at once, the oldest first. *)
Put(n) ==
  /\ queue' = queue \o SubSeq(pending, 1, n)
  /\ pending' = SubSeq(pending, n + 1, Len(pending))
  /\ UNCHANGED taken

Take ==
  /\ queue # <<>>
  /\ taken' = Append(taken, Head(queue))
  /\ queue' = Tail(queue)
  /\ UNCHANGED pending

(* The guest's own keyboard may put a key between two of the tool's.       *)
Type(k) == queue' = Append(queue, k) /\ UNCHANGED <<pending, taken>>

Next ==
  \/ Take
  \/ \E k \in Keys : Press(k)
  \/ \E k \in Own : Type(k)
  \/ \E n \in 1 .. Len(pending) : Put(n)

Spec == Init /\ [][Next]_vars
=============================================================================
