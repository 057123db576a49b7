----------------------------- MODULE MCGrantGate -----------------------------
(***************************************************************************)
(* A TETRA system and a DMR system in ignore mode share the numbers 5      *)
(* (a TETRA group, a DMR patch) and 8 (a TETRA radio, a DMR talkgroup).     *)
(***************************************************************************)
EXTENDS GrantGate, TLC

MCEncMode == ("tet" :> "follow") @@ ("dmr" :> "ignore")
MCKeys == ("tet" :> {}) @@ ("dmr" :> {})
Plain == [prio |-> 0, lockout |-> FALSE]
MCDirectory == [i \in Ids |-> Plain]
MCTunable == <<>>

MCCatalogued == [i \in Ids |-> IF i = 5 THEN [lockout |-> FALSE, scan |-> TRUE, discovered |-> FALSE]
                               ELSE Absent]

Announce(s, grp, src) ==
  [sys |-> s, tetra |-> s = "tet", grp |-> grp, src |-> src, freq |-> 1, ts |-> 0,
   individual |-> FALSE, emergency |-> FALSE, encrypted |-> FALSE, key |-> 0,
   data |-> FALSE, wakeup |-> FALSE]

\* A TETRA group call by radio 8, a call to 9, a page to 8, a unit call that
\* shows 9 to be a radio; a DMR call on 8 and an emergency on the patch 5.
MCAnnounced ==
  {Announce("tet", 5, 8), Announce("tet", 9, 8), Announce("tet", 8, 0),
   [Announce("tet", 9, 4) EXCEPT !.individual = TRUE],
   Announce("dmr", 8, 0), [Announce("dmr", 8, 9) EXCEPT !.encrypted = TRUE],
   [Announce("dmr", 5, 0) EXCEPT !.emergency = TRUE, !.encrypted = TRUE]}

MCHoldTargets == {[sys |-> AnySystem, tg |-> 5], [sys |-> "dmr", tg |-> 8]}
MCAvoidTargets == {[sys |-> "dmr", tg |-> i] : i \in {5, 8}}
MCPatches == {[super |-> 8, members |-> {5}]}
=============================================================================
