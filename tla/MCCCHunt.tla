------------------------------ MODULE MCCCHunt ------------------------------
(***************************************************************************)
(* A trunked system with two control channels and a conventional one.      *)
(***************************************************************************)
EXTENDS CCHunt

Trunked == "trunked"
Conventional == "conventional"

TwoSystems == <<Trunked, Conventional>>
OneChannelEach == [s \in {Trunked, Conventional} |-> IF s = Trunked THEN <<1>> ELSE <<2>>]
TwoCandidates == [s \in {Trunked, Conventional} |-> IF s = Trunked THEN <<1, 2>> ELSE <<3>>]
ConventionalOnly == {Conventional}
TrunkedOnly == {Trunked}
=============================================================================
