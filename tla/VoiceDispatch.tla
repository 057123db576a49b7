---------------------------- MODULE VoiceDispatch ----------------------------
(***************************************************************************)
(* The trunking engine's dispatcher and the voice pool it drives: which    *)
(* voice device follows which call, and what every event of the engine's   *)
(* Run loop does to that assignment. Each handler of the Run loop is one   *)
(* action; the lock-level interleaving with callers on other goroutines is *)
(* the subject of CallLifecycle.                                           *)
(*                                                                         *)
(* Time is kept as ages and countdowns: Tick is one unit of it. "out" is   *)
(* what the last step published about calls beginning, rolling over, ending *)
(* or going unserved; the republished source and encryption updates carry  *)
(* nothing but the new state of the call and are not kept.                 *)
(***************************************************************************)
EXTENDS TrunkGrants, Sequences

CONSTANTS
  Announced,   \* the grants the control channels may announce
  Radios,      \* the sources talker changes and talker aliases may carry
  Updates,     \* the in-call source updates the traffic channels may carry
  Syncs,       \* the encryption syncs the traffic channels may carry
  CallTimeout, \* units without a Touch before the watchdog reaps a call
  EncFollow,   \* units an encrypted call is followed in metadata mode
  HoldWindow,  \* units a TETRA notification waits for its group grant
  FlushCap,    \* capacity of the heldFlush channel
  NoHold       \* marks a channel without a parked notification

VARIABLES
  active,      \* [Devices -> Call or NoCall]: pool.active
  held,        \* [Channels -> Hold or NoHold]: the parked notifications
  flushq,      \* the heldFlush channel: holds whose timer has fired
  out,         \* the events the last step published
  running      \* FALSE once the context is cancelled and shutdown has run

vars == <<active, held, flushq, out, running>>

Unarmed == -1

Call == [g : Grant, tg : TalkGroup, idle : 0..CallTimeout + 1, heard : BOOLEAN,
         enc : {Unarmed} \cup 0..EncFollow]

\* wait counts down to the timer; armed until the timer has fired.
Hold == [g : Grant, wait : 0..HoldWindow, armed : BOOLEAN]

Reasons == {"normal", "timeout", "preempted", "encrypted", "released", "external"}

ASSUME DispatchAssumption ==
  /\ Announced \subseteq {g \in Grant : ~g.wakeup}
  /\ Radios \subseteq Ids
  /\ Updates \subseteq [src : Ids, encrypted : BOOLEAN, emergency : BOOLEAN]
  /\ Syncs \subseteq [key : KeyIds, encrypted : BOOLEAN]
  /\ CallTimeout \in Nat
  /\ EncFollow \in Nat
  /\ HoldWindow \in Nat
  /\ FlushCap \in Nat
  /\ NoCall \notin Call
  /\ NoHold \notin Hold

-----------------------------------------------------------------------------
\* The voice pool.

Busy(p) == {d \in Devices : p[d] # NoCall}

Capable(f) == {d \in Devices : f \in Tunable[d]}

FreeFor(p, f) == Capable(f) \ Busy(p)

\* The pool offers the first free capable device in configuration order.
FindFreeForFrequency(p, f) ==
  {d \in FreeFor(p, f) : \A e \in FreeFor(p, f) : d <= e}

\* The least urgent call on a capable device. Map order breaks ties, so this
\* is a set of candidates.
LowestPriorityActiveForFrequency(p, f) ==
  {d \in Capable(f) \cap Busy(p) :
     \A e \in Capable(f) \cap Busy(p) :
        EffectivePriority(p[e].g, p[e].tg) <= EffectivePriority(p[d].g, p[d].tg)}

NewCall(g, tg) == [g |-> g, tg |-> tg, idle |-> 0, heard |-> FALSE, enc |-> Unarmed]

Touched(c) == [c EXCEPT !.idle = 0, !.heard = TRUE]

\* A grant fills in a source that is still unknown, and only then.
Backfilled(c, src) == IF c.g.src = 0 THEN [c EXCEPT !.g.src = src] ELSE c

\* A handoff replaces the whole stored grant and leaves the armed release alone.
Retuned(c, g) == [Touched(c) EXCEPT !.g = g]

Released(p, ds) == [d \in Devices |-> IF d \in ds THEN NoCall ELSE p[d]]

\* Defect: every sighting of the encryption starts the metadata window again.
PolicedRearming(c, encrypted) ==
  IF ~encrypted THEN c
  ELSE IF KeyConfigured(c.g) THEN [c EXCEPT !.enc = Unarmed]
  ELSE CASE EncMode[c.g.sys] = "ignore"   -> NoCall
         [] EncMode[c.g.sys] = "metadata" -> [c EXCEPT !.enc = EncFollow]
         [] OTHER -> c

\* What an encrypted call becomes under its system's policy; NoCall: ended.
Policed(c, encrypted) ==
  IF ~encrypted THEN c
  ELSE IF KeyConfigured(c.g) THEN [c EXCEPT !.enc = Unarmed]
  ELSE CASE EncMode[c.g.sys] = "ignore"   -> NoCall
         [] EncMode[c.g.sys] = "metadata" ->
              [c EXCEPT !.enc = IF @ = Unarmed THEN EncFollow ELSE @]
         [] OTHER -> c

-----------------------------------------------------------------------------
\* Published events.

Started(d, c) == [kind |-> "start", dev |-> d, call |-> c, reason |-> "none"]

Ended(p, ds, reason) ==
  {[kind |-> "end", dev |-> d, call |-> p[d], reason |-> reason] : d \in ds}

Segment(d, c) == [kind |-> "segment", dev |-> d, call |-> c, reason |-> "none"]

EncryptedEnds(p, q) == Ended(p, {d \in Busy(p) : q[d] = NoCall}, "encrypted")

-----------------------------------------------------------------------------
\* HandleGrant, from the duplicate-grant guard to the allocation. The pool and
\* the events so far are passed along, because one grant may end a stale call
\* and go on to start another.

\* Bind may fail on a flaky device; a call that starts goes through the
\* encrypted-call policy at once.
StartCall(p, evs, d, g, tg) ==
  \/ /\ d \in Flaky
     /\ active' = p
     /\ out' = evs
  \/ LET c == NewCall(g, tg)
         q == [p EXCEPT ![d] = c]
         r == [q EXCEPT ![d] = Policed(c, g.encrypted)]
     IN /\ active' = r
        /\ out' = evs \cup {Started(d, c)} \cup
                    Ended(q, {e \in {d} : r[d] = NoCall}, "encrypted")

\* No device is free for the grant: take the least urgent one, or give up.
PreemptOrDrop(p, evs, g, tg) ==
  LET victims == LowestPriorityActiveForFrequency(p, g.freq)
  IN \/ /\ victims = {}
        /\ active' = p
        /\ out' = evs
     \/ \E v \in victims :
          /\ ~CanPreempt(p[v], g, tg)
          /\ active' = p
          /\ out' = evs \cup {[kind |-> "unserved", call |-> NewCall(g, tg)]}
     \/ \E v \in victims :
          /\ CanPreempt(p[v], g, tg)
          /\ StartCall(Released(p, {v}), evs \cup Ended(p, {v}, "preempted"), v, g, tg)

\* Defect: a repeated notification starts its hold again.
AllocateRearming(p, evs, g, tg, h) ==
  \/ /\ IsNotification(g) /\ ~g.wakeup
     /\ active' = p
     /\ out' = evs
     /\ held' = [h EXCEPT ![ChannelOf(g)] = [g |-> g, wait |-> HoldWindow, armed |-> TRUE]]
  \/ /\ ~IsNotification(g) \/ g.wakeup
     /\ held' = h
     /\ \/ \E d \in FindFreeForFrequency(p, g.freq) : StartCall(p, evs, d, g, tg)
        \/ /\ FreeFor(p, g.freq) = {}
           /\ PreemptOrDrop(p, evs, g, tg)

\* First the holding of a bare notification, then the allocation.
Allocate(p, evs, g, tg, h) ==
  \/ /\ IsNotification(g) /\ ~g.wakeup
     /\ active' = p
     /\ out' = evs
     /\ held' = [h EXCEPT ![ChannelOf(g)] =
                   IF @ = NoHold THEN [g |-> g, wait |-> HoldWindow, armed |-> TRUE]
                   ELSE [@ EXCEPT !.g = g]]
  \/ /\ ~IsNotification(g) \/ g.wakeup
     /\ held' = h
     /\ \/ \E d \in FindFreeForFrequency(p, g.freq) : StartCall(p, evs, d, g, tg)
        \/ /\ FreeFor(p, g.freq) = {}
           /\ PreemptOrDrop(p, evs, g, tg)

OnChannel(p, g) == {d \in Busy(p) : SameChannel(p[d].g, g)}

Sourceless(p, g) == {d \in OnChannel(p, g) : p[d].g.src = 0}

\* Defect: only a source-less call absorbs the grants for its channel.
FoldSourcelessOnly(p, evs, g, tg, h) ==
  \/ /\ g.src # 0
     /\ \E d \in Sourceless(p, g) :
          active' = [p EXCEPT ![d] = Touched(Backfilled(@, g.src))]
     /\ out' = evs
     /\ held' = h
  \/ /\ g.src = 0 \/ Sourceless(p, g) = {}
     /\ Allocate(p, evs, g, tg, h)

\* A grant for a channel that already carries a call belongs to that call.
FoldOrAllocate(p, evs, g, tg, h) ==
  \/ /\ g.src # 0
     /\ \E d \in Sourceless(p, g) :
          active' = [p EXCEPT ![d] = Touched(Backfilled(@, g.src))]
     /\ out' = evs
     /\ held' = h
  \/ /\ g.src = 0 \/ Sourceless(p, g) = {}
     /\ g.tetra
     /\ \E d \in OnChannel(p, g) : active' = [p EXCEPT ![d] = Touched(@)]
     /\ out' = evs
     /\ held' = h
  \/ /\ g.src = 0 \/ Sourceless(p, g) = {}
     /\ ~g.tetra \/ OnChannel(p, g) = {}
     /\ Allocate(p, evs, g, tg, h)

Provisional(p, g) == {d \in Sourceless(p, g) : p[d].g.grp # g.grp}

\* TETRA: the authoritative group grant ends a provisional call on its channel.
Supersede(p, evs, g, tg, h) ==
  LET ghosts == IF g.tetra /\ g.grp # 0 /\ g.src # 0 THEN Provisional(p, g) ELSE {}
  IN \/ /\ ghosts = {}
        /\ FoldOrAllocate(p, evs, g, tg, h)
     \/ \E d \in ghosts :
          FoldOrAllocate(Released(p, {d}), evs \cup Ended(p, {d}, "normal"), g, tg, h)

\* Defect: a repeat is only recognised on the call's own frequency.
DuplicatesByFrequency(p, g) ==
  IF g.grp = 0 THEN {} ELSE {d \in OnChannel(p, g) : SameCall(p[d].g, g)}

Duplicates(p, g) == IF g.grp = 0 THEN {} ELSE {d \in Busy(p) : SameCall(p[d].g, g)}

\* A repeat on the call's own frequency refreshes it.
Refresh(d, g, h) ==
  /\ active[d].g.freq = g.freq
  /\ active' = [active EXCEPT ![d] = Touched(Backfilled(@, g.src))]
  /\ out' = {}
  /\ held' = h

\* Defect: the handoff does not ask the device about the new frequency.
FollowAnywhere(d, g, h) ==
  /\ active[d].g.freq # g.freq
  /\ active' = [active EXCEPT ![d] = Retuned(@, g)]
  /\ out' = {}
  /\ held' = h

\* The same call on another frequency is followed when its device reaches it.
Follow(d, g, h) ==
  /\ active[d].g.freq # g.freq
  /\ g.freq \in Tunable[d]
  /\ active' = [active EXCEPT ![d] = Retuned(@, g)]
  /\ out' = {}
  /\ held' = h

\* Defect: the moved call is released without its end being published.
RebindSilently(d, g, tg, h) ==
  /\ active[d].g.freq # g.freq
  /\ g.freq \notin Tunable[d] \/ d \in Flaky
  /\ Supersede(Released(active, {d}), {}, g, tg, h)

\* Out of the device's window, or the retune failed: end the call and bind anew.
Rebind(d, g, tg, h) ==
  /\ active[d].g.freq # g.freq
  /\ g.freq \notin Tunable[d] \/ d \in Flaky
  /\ Supersede(Released(active, {d}), Ended(active, {d}, "normal"), g, tg, h)

Dispatch(g, tg, h) ==
  \/ /\ Duplicates(active, g) = {}
     /\ Supersede(active, {}, g, tg, h)
  \/ \E d \in Duplicates(active, g) :
       Refresh(d, g, h) \/ Follow(d, g, h) \/ Rebind(d, g, tg, h)

-----------------------------------------------------------------------------
\* The Run loop's handlers.

\* An authoritative grant cancels the notification parked on its channel.
HeldAfter(g) == IF IsNotification(g) THEN held ELSE [held EXCEPT ![ChannelOf(g)] = NoHold]

\* A grant the policy gates let through (GrantGate says which those are).
AdmitGrant(g, tg) ==
  /\ running
  /\ g.freq # 0
  /\ Dispatch(g, tg, HeldAfter(g))
  /\ UNCHANGED <<flushq, running>>

\* A grant the gates drop has already cancelled the parked notification.
RejectGrant(g) ==
  /\ running
  /\ g.freq # 0
  /\ held' = HeldAfter(g)
  /\ out' = {}
  /\ UNCHANGED <<active, flushq, running>>

\* A TETRA grant to a known radio is relabelled before it is dispatched.
Relabelled(g) == IF g.tetra THEN {g, [g EXCEPT !.individual = TRUE]} ELSE {g}

\* The hold's timer fires on its own goroutine and queues the channel, or
\* loses it when the queue is full.
HoldTimerFires(k) ==
  /\ held[k] # NoHold
  /\ held[k].armed /\ held[k].wait = 0
  /\ held' = [held EXCEPT ![k].armed = FALSE]
  /\ flushq' = IF Len(flushq) < FlushCap THEN Append(flushq, k) ELSE flushq
  /\ out' = {}
  /\ UNCHANGED <<active, running>>

Unparked(k) == [held EXCEPT ![k] = NoHold]

\* A queued channel whose notification was cancelled in the meantime.
FlushNothing ==
  /\ running
  /\ flushq # <<>> /\ held[Head(flushq)] = NoHold
  /\ flushq' = Tail(flushq)
  /\ out' = {}
  /\ UNCHANGED <<active, held, running>>

\* The notification was never superseded: it goes through HandleGrant again.
FlushDispatch(g, tg) ==
  /\ running
  /\ flushq # <<>> /\ held[Head(flushq)] # NoHold
  /\ flushq' = Tail(flushq)
  /\ Dispatch(g, tg, Unparked(Head(flushq)))
  /\ UNCHANGED running

FlushReject ==
  /\ running
  /\ flushq # <<>> /\ held[Head(flushq)] # NoHold
  /\ flushq' = Tail(flushq)
  /\ held' = Unparked(Head(flushq))
  /\ out' = {}
  /\ UNCHANGED <<active, running>>

Flushed(h) == [h.g EXCEPT !.wakeup = TRUE]

\* An in-call encryption sync stores the key and applies the policy.
HandleCallEncryption(d, u) ==
  /\ running
  /\ active[d] # NoCall
  /\ LET c == [active[d] EXCEPT !.g.key = u.key]
         p == [active EXCEPT ![d] = c]
     IN /\ active' = [p EXCEPT ![d] = Policed(c, u.encrypted)]
        /\ out' = EncryptedEnds(p, active')
  /\ UNCHANGED <<held, flushq, running>>

\* An in-call update overwrites the source; the flags only ever go up.
Updated(c, u) ==
  [c EXCEPT !.g.src = IF u.src = 0 THEN @ ELSE u.src,
            !.g.encrypted = @ \/ u.encrypted,
            !.g.emergency = @ \/ u.emergency]

HandleCallSourceUpdate(d, u) ==
  /\ running
  /\ active[d] # NoCall
  /\ LET c == Updated(active[d], u)
         p == [active EXCEPT ![d] = c]
     IN /\ active' = [p EXCEPT ![d] = Policed(c, c.g.encrypted)]
        /\ out' = EncryptedEnds(p, active')
  /\ UNCHANGED <<held, flushq, running>>

Talking(src) == [src |-> src, encrypted |-> FALSE, emergency |-> FALSE]

CallsBySystemGroup(s, grp) ==
  {d \in Busy(active) : active[d].g.sys = s /\ active[d].g.grp = grp}

\* A talker change updates the source of every call of the group, after the
\* segment that closes the previous over (splitTx on).
HandleCallTalker(s, grp, src) ==
  /\ running
  /\ src # 0
  /\ LET ds   == CallsBySystemGroup(s, grp)
         p    == [d \in Devices |->
                    IF d \in ds THEN Updated(active[d], Talking(src)) ELSE active[d]]
         cuts == {d \in ds : active[d].g.tetra /\ active[d].g.src \notin {0, src}}
     IN /\ active' = [d \in Devices |->
                        IF d \in ds THEN Policed(p[d], p[d].g.encrypted) ELSE p[d]]
        /\ out' = {Segment(d, active[d]) : d \in cuts} \cup EncryptedEnds(p, active')
  /\ UNCHANGED <<held, flushq, running>>

\* A decoded teardown ends every call of the group.
HandleCallRelease(s, grp) ==
  /\ running
  /\ active' = Released(active, CallsBySystemGroup(s, grp))
  /\ out' = Ended(active, CallsBySystemGroup(s, grp), "released")
  /\ UNCHANGED <<held, flushq, running>>

\* The talker alias is what the metadata window waits for.
HandleTalkerAlias(s, src) ==
  /\ running
  /\ \E d \in Busy(active) :
       /\ active[d].enc # Unarmed
       /\ active[d].g.sys = s /\ active[d].g.src = src
       /\ active' = Released(active, {d})
       /\ out' = Ended(active, {d}, "encrypted")
  /\ UNCHANGED <<held, flushq, running>>

\* Defect: the armed release waits for the call to fall silent.
DueWhenSilent == {d \in Busy(active) : active[d].enc = 0 /\ active[d].idle > CallTimeout}

DueEncrypted == {d \in Busy(active) : active[d].enc = 0}

\* Defect: a call that never decoded a frame is not reaped.
StaleIfHeard ==
  {d \in Busy(active) : active[d].idle > CallTimeout /\ active[d].heard} \ DueEncrypted

Stale == {d \in Busy(active) : active[d].idle > CallTimeout} \ DueEncrypted

RunWatchdog ==
  /\ running
  /\ active' = Released(active, DueEncrypted \cup Stale)
  /\ out' = Ended(active, DueEncrypted, "encrypted")
              \cup Ended(active, {d \in Stale : active[d].heard}, "normal")
              \cup Ended(active, {d \in Stale : ~active[d].heard}, "timeout")
  /\ UNCHANGED <<held, flushq, running>>

\* The context is cancelled: holds are dropped and every call is ended.
Shutdown ==
  /\ running
  /\ running' = FALSE
  /\ active' = Released(active, Devices)
  /\ out' = Ended(active, Busy(active), "normal")
  /\ held' = [k \in Channels |-> NoHold]
  /\ UNCHANGED flushq

-----------------------------------------------------------------------------
\* Callers outside the Run loop, and the clock.

\* The composer or the API ends the call on a device.
EndCall(d) ==
  /\ active[d] # NoCall
  /\ active' = Released(active, {d})
  /\ out' = Ended(active, {d}, "external")
  /\ UNCHANGED <<held, flushq, running>>

\* A voice frame was decoded on the device.
Touch(d) ==
  /\ active[d] # NoCall
  /\ active' = [active EXCEPT ![d] = Touched(@)]
  /\ out' = {}
  /\ UNCHANGED <<held, flushq, running>>

\* Defect: the deadlines run on past zero.
AgedPastDue(c) == [c EXCEPT !.idle = IF @ > CallTimeout THEN @ ELSE @ + 1, !.enc = @ - 1]

Aged(c) == [c EXCEPT !.idle = IF @ > CallTimeout THEN @ ELSE @ + 1,
                     !.enc = IF @ > 0 THEN @ - 1 ELSE @]

Tick ==
  /\ active' = [d \in Devices |-> IF active[d] = NoCall THEN NoCall ELSE Aged(active[d])]
  /\ held' = [k \in Channels |->
                IF held[k] # NoHold /\ held[k].wait > 0
                THEN [held[k] EXCEPT !.wait = @ - 1] ELSE held[k]]
  /\ out' = {}
  /\ UNCHANGED <<flushq, running>>

-----------------------------------------------------------------------------
Init ==
  /\ active = [d \in Devices |-> NoCall]
  /\ held = [k \in Channels |-> NoHold]
  /\ flushq = <<>>
  /\ out = {}
  /\ running = TRUE

HandleGrant ==
  \E a \in Announced :
    \/ RejectGrant(a)
    \/ \E g \in Relabelled(a) : AdmitGrant(g, Directory[g.grp])

FlushHeldGrant ==
  \/ FlushNothing
  \/ FlushReject
  \/ /\ flushq # <<>> /\ held[Head(flushq)] # NoHold
     /\ \E g \in Relabelled(Flushed(held[Head(flushq)])) :
          FlushDispatch(g, Directory[g.grp])

InCallEvent ==
  \/ \E d \in Devices, u \in Syncs : HandleCallEncryption(d, u)
  \/ \E d \in Devices, u \in Updates : HandleCallSourceUpdate(d, u)
  \/ \E s \in Systems, src \in Radios : HandleTalkerAlias(s, src)

GroupEvent ==
  \E s \in Systems, grp \in Ids :
    \/ HandleCallRelease(s, grp)
    \/ \E src \in Radios : HandleCallTalker(s, grp, src)

HoldTimer == \E k \in Channels : HoldTimerFires(k)

CallerEvent == \E d \in Devices : EndCall(d) \/ Touch(d)

Next == \/ HandleGrant \/ FlushHeldGrant \/ InCallEvent \/ GroupEvent
        \/ RunWatchdog \/ Shutdown \/ HoldTimer \/ CallerEvent \/ Tick

Spec == Init /\ [][Next]_vars

\* The Run loop selects among its ready channels at random and its ticker never
\* stops, a running timer fires, and time passes.
Fairness == WF_vars(RunWatchdog) /\ WF_vars(FlushHeldGrant) /\ WF_vars(HoldTimer) /\ WF_vars(Tick)

FairSpec == Spec /\ Fairness

-----------------------------------------------------------------------------
\* Properties.

Event == [kind : {"start", "end", "segment"}, dev : Devices,
          call : Call, reason : Reasons \cup {"none"}]
           \cup [kind : {"unserved"}, call : Call]

TypeOK ==
  /\ active \in [Devices -> Call \cup {NoCall}]
  /\ held \in [Channels -> Hold \cup {NoHold}]
  /\ flushq \in Seq(Channels) /\ Len(flushq) <= FlushCap
  /\ out \subseteq Event
  /\ running \in BOOLEAN

\* However grants repeat, move, supersede and preempt, one logical call
\* (system, talkgroup, slot) never holds two voice devices (the duplicate-grant
\* guard of HandleGrant).
OneCallPerTalkgroup ==
  \A d, e \in Busy(active) :
    d # e /\ active[d].g.grp # 0 => ~SameCall(active[d].g, active[e].g)

\* A followed call is always on a frequency its device can reach, also after it
\* was moved by a re-grant (FindFreeForFrequency, the victim choice and the
\* in-place retune all have to respect CanTune).
CallInsideWindow ==
  \A d \in Busy(active) : active[d].g.freq \in Tunable[d]

\* A TETRA call is only ever started on a channel that carries no other call:
\* every grant for an occupied channel is folded onto the call there, or ends it.
TetraStartsOnClearChannel ==
  \A e \in out :
    e.kind = "start" /\ e.call.g.tetra =>
      \A d \in Busy(active) \ {e.dev} : ~SameChannel(active[d].g, e.call.g)

Starts(evs, d) == {e \in evs : e.kind = "start" /\ e.dev = d}
Ends(evs, d) == {e \in evs : e.kind = "end" /\ e.dev = d}

\* One step's events for a device explain what became of its assignment.
Accounted(d) ==
  LET was == d \in Busy(active)
      is  == d \in Busy(active')
  IN /\ was /\ ~is => Ends(out', d) # {}
     /\ ~was /\ is => Starts(out', d) # {}
     /\ Starts(out', d) # {} /\ was => \E e \in Ends(out', d) : e.call = active[d]
     /\ Starts(out', d) # {} /\ ~is =>
          \E e \in Ends(out', d), s \in Starts(out', d) : e.call = s.call
     /\ was /\ is /\ Ends(out', d) # {} => Starts(out', d) # {}

\* Whoever follows CallStart and CallEnd knows which devices carry a call: in
\* every step the starts and ends published for a device account for how its
\* assignment changed, and a device that changed hands published both.
EventsAccountForPool == [][\A d \in Devices : Accounted(d)]_vars

Preempted(evs) == {e \in evs : e.kind = "end" /\ e.reason = "preempted"}

\* The call that takes the victim's device is more urgent, and no other capable
\* device was free or followed a less urgent call than the victim.
Justified(e) ==
  /\ ~e.call.g.emergency
  /\ \A s \in Starts(out', e.dev) :
       /\ EffectivePriority(s.call.g, s.call.tg)
            < EffectivePriority(e.call.g, e.call.tg)
       /\ \A d \in Capable(s.call.g.freq) \ {e.dev} :
            \/ Ends(out', d) # {}
            \/ /\ d \in Busy(active)
               /\ EffectivePriority(active[d].g, active[d].tg)
                    <= EffectivePriority(e.call.g, e.call.tg)

\* Preemption is the last resort and takes the right call: no capable device was
\* free, the victim was a least urgent call among the capable devices, and the
\* call that replaces it is strictly more urgent. An emergency is never a victim.
PreemptionIsLastResort == [][\A e \in Preempted(out') : Justified(e)]_vars

\* c is the call of a device before a step and n the same call after it.
WindowKept(c, n) ==
  c.enc # Unarmed =>
    \/ n.enc # Unarmed /\ n.enc <= c.enc
    \/ n.enc = Unarmed /\ KeyConfigured(n.g)

\* The metadata window of a call is measured from the moment it is first known
\* to be encrypted: no repeat grant, update or handoff ever moves an armed
\* release later, and only a configured key cancels it.
MetadataWindowNeverExtended ==
  [][\A d \in Busy(active) \cap Busy(active') :
       Starts(out', d) = {} => WindowKept(active[d], active'[d])]_vars

\* An armed release is carried out, or cancelled: an encrypted call does not
\* keep its device in metadata mode.
MetadataCallsReleased ==
  \A d \in Devices :
    (active[d] # NoCall /\ active[d].enc # Unarmed)
      ~> (active[d] = NoCall \/ active[d].enc = Unarmed)

\* Without voice frames and repeat grants a device always comes free: every call
\* is touched again and again, or it is reaped.
SilentCallsReaped ==
  \A d \in Devices : []<>(active[d] = NoCall \/ active[d].idle = 0)

\* A parked notification is resolved: superseded, or flushed when its window is over,
\* however often the notification is repeated in the meantime.
HoldsResolved == \A k \in Channels : held[k] # NoHold ~> held[k] = NoHold
=============================================================================
