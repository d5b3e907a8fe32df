---------------------------- MODULE MCRspSession ----------------------------
(* RspSession and GraphicsCapture with two breakpoints, two planes and two *)
(* palette registers.                                                      *)
EXTENDS GraphicsCapture

CONSTANTS bp1, bp2

OneOrBoth == {<<bp1>>, <<bp1, bp2>>}

(* A guest that has left the adapter with every register other than the    *)
(* capture sets it, its DAC between two colours to read or to write.       *)
Palette == [r \in {0, 1, ModeControl, ColourSelect} |->
              CASE r = 0 -> 52 [] r = 1 -> 7 [] r = ModeControl -> 129 [] r = ColourSelect -> 6]
LeftAs(state, flip) ==
  [index |-> 8, map |-> 3, mode |-> 3, attribute |-> <<1, 9>>, flip |-> flip,
   registers |-> Palette, dacState |-> state, dac |-> 77]
LeftByGuest == {LeftAs("read", "index"), LeftAs("write", "data")}
=============================================================================
