--------------------------- MODULE MCHardwareKeys ---------------------------
(* A letter, its capital, and the cursor key of a keypad key. *)
EXTENDS HardwareKeys

Key(s, m, e) == [scan |-> s, mod |-> m, ext |-> e]
SomeKeys == {Key("a", None, FALSE), Key("a", "shift", FALSE), Key("8", None, TRUE)}
=============================================================================
