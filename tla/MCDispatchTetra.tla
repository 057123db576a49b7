--------------------------- MODULE MCDispatchTetra ---------------------------
(***************************************************************************)
(* A TETRA rig for TLC: two taps, two carriers, one group (5), a second    *)
(* group (6) and one radio (8) that is paged, calls and answers.           *)
(***************************************************************************)
EXTENDS VoiceDispatch, TLC

MCTunable == (1 :> {1, 2}) @@ (2 :> {1, 2})
MCEncMode == ("net" :> "follow")
MCKeys == ("net" :> {})
MCDirectory == [i \in Ids |-> [prio |-> 0, lockout |-> FALSE]]

Setup(grp, src, f) ==
  [sys |-> "net", tetra |-> TRUE, grp |-> grp, src |-> src, freq |-> f, ts |-> 1,
   individual |-> FALSE, emergency |-> FALSE, encrypted |-> FALSE, key |-> 0,
   data |-> FALSE, wakeup |-> FALSE]

\* A page to the radio, the authoritative group grant on either carrier, and a
\* second group on the first carrier.
MCAnnounced == {Setup(8, 0, 1), Setup(5, 8, 1), Setup(5, 8, 2), Setup(6, 9, 1)}

MCUpdates == {}
MCSyncs == {}
=============================================================================
