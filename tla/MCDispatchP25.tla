---------------------------- MODULE MCDispatchP25 ----------------------------
(***************************************************************************)
(* A P25 rig for TLC: two voice devices with overlapping windows, the      *)
(* second one able to fail a tune, one system in metadata mode with a key  *)
(* and one in ignore mode.                                                 *)
(***************************************************************************)
EXTENDS VoiceDispatch, TLC

MCTunable == (1 :> {1, 2}) @@ (2 :> {2, 3})
MCEncMode == ("meta" :> "metadata") @@ ("drop" :> "ignore")
MCKeys == ("meta" :> {7}) @@ ("drop" :> {})

Unranked == [prio |-> 0, lockout |-> FALSE]
MCDirectory == (0 :> Unranked) @@ (1 :> Unranked) @@ (9 :> Unranked)
                 @@ (2 :> [prio |-> 3, lockout |-> FALSE])

Voice(s, grp, src, f) ==
  [sys |-> s, tetra |-> FALSE, grp |-> grp, src |-> src, freq |-> f, ts |-> 0,
   individual |-> FALSE, emergency |-> FALSE, encrypted |-> FALSE, key |-> 0,
   data |-> FALSE, wakeup |-> FALSE]

MCUpdates == {[src |-> 9, encrypted |-> TRUE, emergency |-> FALSE],
              [src |-> 0, encrypted |-> FALSE, emergency |-> TRUE]}
MCSyncs == {[key |-> 7, encrypted |-> TRUE]}

\* One talkgroup that moves between carriers, one that outranks it and is
\* encrypted, one in ignore mode that raises an emergency.
MCAnnounced ==
  {Voice("meta", 1, 0, 1), Voice("meta", 1, 9, 3),
   [Voice("meta", 2, 0, 2) EXCEPT !.encrypted = TRUE],
   Voice("drop", 1, 9, 3),
   [Voice("drop", 1, 0, 2) EXCEPT !.encrypted = TRUE, !.emergency = TRUE]}
=============================================================================
