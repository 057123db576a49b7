--------------------------- MODULE MCRecorderDrain ---------------------------
(***************************************************************************)
(* The kinds of calls the recorder meets, for each run a few of them.      *)
(***************************************************************************)
EXTENDS RecorderDrain

P25 == [rec |-> TRUE, stamped |-> TRUE, fenced |-> TRUE, early |-> FALSE]
DMR == [P25 EXCEPT !.fenced = FALSE]
Conventional == [DMR EXCEPT !.stamped = FALSE]
Skipped == [P25 EXCEPT !.rec = FALSE]
Overtaken == [P25 EXCEPT !.early = TRUE]

SomeKinds == {P25, Conventional, Overtaken}
SkippingKinds == {P25, Skipped}
=============================================================================
