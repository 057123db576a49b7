----------------------------- MODULE TrunkGrants -----------------------------
(***************************************************************************)
(* The vocabulary of the trunking engine: what a control channel announces *)
(* (a grant), what the operator knows about a talkgroup, what the voice    *)
(* pool keeps for a followed call, and the pure decisions made from them.  *)
(* Zero is "absent" for a group, a source, a key and a frequency, as it is *)
(* in the source; a nil talkgroup and a talkgroup with no priority and no  *)
(* lockout are the same thing to every decision below.                     *)
(***************************************************************************)
EXTENDS Integers

CONSTANTS
  Devices,     \* voice devices, numbered in the order the pool scans them
  Tunable,     \* [Devices -> SUBSET Freqs]: what FrequencyChecker.CanTune accepts
  Flaky,       \* the devices whose tune may fail even after the reacquire retry
  Systems,     \* trunked systems
  Ids,         \* talkgroup and radio identities; they share one number space
  Freqs,       \* voice frequencies, none of them zero
  Slots,       \* TDMA slots; 0 for protocols without slots
  KeyIds,      \* encryption key identities, 0 when not signalled
  EncMode,     \* [Systems -> {"follow", "metadata", "ignore"}]
  Keys,        \* [Systems -> SUBSET KeyIds]: keys the operator configured
  Directory,   \* [Ids -> TalkGroup]: priority and lockout per talkgroup
  NoCall       \* marks a voice device that follows nothing

\* A talkgroup as dispatch sees it: priority 0 means unset.
TalkGroup == [prio : 0..11, lockout : BOOLEAN]

Grant == [sys : Systems, tetra : BOOLEAN, grp : Ids, src : Ids, freq : Freqs \cup {0},
          ts : Slots, individual : BOOLEAN, emergency : BOOLEAN, encrypted : BOOLEAN,
          key : KeyIds, data : BOOLEAN, wakeup : BOOLEAN]

\* A physical logical channel: carrier and slot on a system.
Channels == Systems \X Freqs \X Slots

ASSUME GrantsAssumption ==
  /\ Devices \subseteq Nat
  /\ Freqs \subseteq Nat \ {0}
  /\ Ids \subseteq Nat
  /\ 0 \in Ids
  /\ Flaky \subseteq Devices
  /\ Tunable \in [Devices -> SUBSET Freqs]
  /\ EncMode \in [Systems -> {"follow", "metadata", "ignore"}]
  /\ Keys \in [Systems -> SUBSET KeyIds]
  /\ Directory \in [Ids -> TalkGroup]

-----------------------------------------------------------------------------
\* Lower is more urgent: emergency beats every configured priority, and a
\* talkgroup without a record or without a priority comes last.
EffectivePriority(g, tg) ==
  IF g.emergency THEN 0 ELSE IF tg.prio = 0 THEN 11 ELSE tg.prio

\* Defect: an equally urgent grant takes the device.
PreemptEquals(c, g, tg) ==
  ~tg.lockout /\ EffectivePriority(g, tg) <= EffectivePriority(c.g, c.tg)

\* Strictly more urgent calls take a device away; a locked-out talkgroup never.
CanPreempt(c, g, tg) ==
  ~tg.lockout /\ EffectivePriority(g, tg) < EffectivePriority(c.g, c.tg)

\* One logical call, whatever frequency it is on at the moment.
SameCall(g, h) == g.sys = h.sys /\ g.grp = h.grp /\ g.ts = h.ts

\* One physical channel, whatever talkgroup it is labelled with.
SameChannel(g, h) == g.sys = h.sys /\ g.freq = h.freq /\ g.ts = h.ts

ChannelOf(g) == <<g.sys, g.freq, g.ts>>

\* A source-less TETRA voice grant only announces that a transmission is coming.
IsNotification(g) == g.tetra /\ g.src = 0 /\ ~g.data

\* The operator can decode this call: the encrypted-call policy leaves it alone.
KeyConfigured(g) == g.key \in Keys[g.sys]

SystemHasKeys(s) == Keys[s] # {}
=============================================================================
