--------------------------- MODULE MCFifoPrinter ---------------------------
(* FifoPrinter with a long job, a short job that is disturbed everywhere,  *)
(* or both.                                                                *)
EXTENDS FifoPrinter

LongJob   == [bytes |-> 5, interrupts |-> FALSE, others |-> {}]
Disturbed == [bytes |-> 2, interrupts |-> TRUE, others |-> {1, 2}]

LongAndDisturbed == {LongJob, Disturbed}
LongOnly         == {LongJob}
=============================================================================
