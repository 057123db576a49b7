----------------------------- MODULE Recordings -----------------------------
(***************************************************************************)
(* What the recorder promises whoever reads CallComplete, however starts,  *)
(* ends, drain signals, timeouts and lost events meet: a call gets at most *)
(* one recording; the recording is cut into overs, which follow each other *)
(* one by one and are announced at most once each, when they are over and  *)
(* only if something was recorded; and a recording that has ended never    *)
(* comes back.                                                             *)
(***************************************************************************)
EXTENDS Naturals, Sequences

CONSTANTS Devices, Calls, NoCall

VARIABLES
  fresh,       \* the calls that may still get a recording
  recording,   \* [Devices -> [call, seg, open]]; its call is NoCall if there is none
  announced    \* the overs announced, as [call, seg]

vars == <<fresh, recording, announced>>

Nothing == [call |-> NoCall, seg |-> 0, open |-> FALSE]

Init ==
  /\ fresh = Calls
  /\ recording = [d \in Devices |-> Nothing]
  /\ announced = <<>>

\* Calls that will not be recorded: skipped, or their CallStart is lost.
Miss ==
  /\ fresh' \in SUBSET fresh
  /\ UNCHANGED <<recording, announced>>

\* What was recorded on the device before is dropped.
Begin(d, c) ==
  /\ c \in fresh
  /\ fresh' = fresh \ {c}
  /\ recording' = [recording EXCEPT ![d] = [call |-> c, seg |-> 0, open |-> FALSE]]
  /\ UNCHANGED announced

\* The first audio of an over.
Open(d) ==
  /\ recording[d].call # NoCall
  /\ recording' = [recording EXCEPT ![d].open = TRUE]
  /\ UNCHANGED <<fresh, announced>>

AnnounceIfHeard(d) ==
  \/ /\ recording[d].open
     /\ announced' = Append(announced, [call |-> recording[d].call, seg |-> recording[d].seg])
  \/ UNCHANGED announced

NextOver(d) ==
  /\ recording[d].open
  /\ recording' = [recording EXCEPT ![d] = [call |-> @.call, seg |-> @.seg + 1, open |-> FALSE]]
  /\ AnnounceIfHeard(d)
  /\ UNCHANGED fresh

Finish(d) ==
  /\ recording[d].call # NoCall
  /\ recording' = [recording EXCEPT ![d] = Nothing]
  /\ AnnounceIfHeard(d)
  /\ UNCHANGED fresh

\* The recorder is closed.
Shutdown ==
  /\ recording' = [d \in Devices |-> Nothing]
  /\ UNCHANGED <<fresh, announced>>

Next ==
  \/ Miss \/ Shutdown
  \/ \E d \in Devices : Open(d) \/ NextOver(d) \/ Finish(d) \/ \E c \in Calls : Begin(d, c)

Spec == Init /\ [][Next]_vars
=============================================================================
