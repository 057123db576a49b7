-------------------------- MODULE MCCallLifecycle --------------------------
(***************************************************************************)
(* Two devices that both reach carrier 1, one of which reaches carrier 2;  *)
(* a voice chain and an operator ending calls beside the Run loop.         *)
(***************************************************************************)
EXTENDS CallLifecycle, TLC

MCTunable == (1 :> {1, 2}) @@ (2 :> {1})

Offer(grp, freq, prio, deny) == [grp |-> grp, freq |-> freq, prio |-> prio, deny |-> deny]

\* Group a moves between the carriers, b outranks it, c is encrypted and ignored.
MCGrants == {Offer("a", 1, 5, FALSE), Offer("a", 2, 5, FALSE), Offer("b", 2, 3, FALSE),
             Offer("c", 1, 5, TRUE)}
=============================================================================
