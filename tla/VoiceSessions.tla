---------------------------- MODULE VoiceSessions ----------------------------
(***************************************************************************)
(* What the engine and its voice pool promise about calls, whatever runs   *)
(* concurrently: a device carries at most one call, a call gets a device   *)
(* only when that device is free, and a call that has ended never comes    *)
(* back, neither on its own device nor on another.                         *)
(***************************************************************************)
CONSTANTS Devices, CallIds, NoCall

VARIABLES
  session,     \* [Devices -> CallIds \cup {NoCall}]
  begun        \* the calls that ever had a device

vars == <<session, begun>>

Init ==
  /\ session = [d \in Devices |-> NoCall]
  /\ begun = {}

Begin(d, id) ==
  /\ session[d] = NoCall
  /\ id \notin begun
  /\ session' = [session EXCEPT ![d] = id]
  /\ begun' = begun \cup {id}

Finish(d) ==
  /\ session[d] # NoCall
  /\ session' = [session EXCEPT ![d] = NoCall]
  /\ UNCHANGED begun

Next == \E d \in Devices : Finish(d) \/ \E id \in CallIds : Begin(d, id)

Spec == Init /\ [][Next]_vars
=============================================================================
