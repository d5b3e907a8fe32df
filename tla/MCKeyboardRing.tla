--------------------------- MODULE MCKeyboardRing ---------------------------
(* KeyboardRing with small rings: three slots in the classic one, four in  *)
(* one that the BIOS records and that does not start where the classic     *)
(* one does.                                                               *)
EXTENDS KeyboardRing

LongRing == {<<4, 12>>}

(* Keys of the guest's own keyboard, under "type" only: the console lets   *)
(* them overwrite its own, see run keyboard_console.                       *)
TypedUnderType == [t \in Tools |-> IF t = "type" THEN 2 ELSE 0]

TypedUnderAny == [t \in Tools |-> 2]
=============================================================================
