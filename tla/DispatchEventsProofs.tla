------------------------- MODULE DispatchEventsProofs -------------------------
(***************************************************************************)
(* What a step of the dispatcher publishes, and what it does to the calls  *)
(* that are up, for every set of devices, systems, talkgroups and grants:  *)
(* starts and ends account for the pool, a preemption is justified, an     *)
(* armed release is never put off, and a TETRA call starts on a clear      *)
(* channel.                                                                *)
(*                                                                         *)
(* A step either edits and ends calls in place (EditStep), and then all    *)
(* four hold for a simple reason, or it is a grant that may start one call. *)
(* A grant is followed through the stages of its dispatch: up to the start *)
(* they can only end calls, and Cleared says that every end they have made *)
(* is among the events they pass on.                                       *)
(***************************************************************************)
EXTENDS VoiceDispatchProofs

\* A device whose call was kept or ended by a step that started nothing there.
Undisturbed(d) ==
  \/ active[d] = NoCall /\ active'[d] = NoCall
  \/ active[d] # NoCall /\ active'[d] = NoCall /\ Ends(out', d) # {}
  \/ /\ active[d] # NoCall /\ active'[d] # NoCall /\ Ends(out', d) = {}
     /\ WindowKept(active[d], active'[d])

EditStep ==
  /\ \A e \in out' : e.kind # "start"
  /\ \A e \in Preempted(out') : ~e.call.g.emergency
  /\ \A d \in Devices : Undisturbed(d)

\* What every step has to be.
Faithful ==
  /\ \A d \in Devices : Accounted(d)
  /\ \A e \in Preempted(out') : Justified(e)
  /\ \A d \in Busy(active) \cap Busy(active') :
       Starts(out', d) = {} => WindowKept(active[d], active'[d])
  /\ TetraStartsOnClearChannel'

\* The pool and the events a grant has come to before it starts a call.
Cleared(p, evs) ==
  /\ p \in Pool
  /\ \A e \in evs : e.kind = "end"
  /\ \A d \in Devices :
       \/ p[d] = active[d] /\ Ends(evs, d) = {}
       \/ active[d] # NoCall /\ p[d] = NoCall /\ \E e \in Ends(evs, d) : e.call = active[d]

\* What the preemption of a call by g rests on, before g's call starts.
Outranks(evs, g, tg) ==
  \A e \in Preempted(evs) :
    /\ ~e.call.g.emergency
    /\ EffectivePriority(g, tg) < EffectivePriority(e.call.g, e.call.tg)
    /\ \A d \in Capable(g.freq) \ {e.dev} :
         \/ Ends(evs, d) # {}
         \/ /\ d \in Busy(active)
            /\ EffectivePriority(active[d].g, active[d].tg)
                 <= EffectivePriority(e.call.g, e.call.tg)

-----------------------------------------------------------------------------
LEMMA SameWindow ==
  ASSUME NEW c \in Call, NEW n, n.enc = c.enc
  PROVE  WindowKept(c, n)
BY DispatchAssumption DEF WindowKept, Call, Unarmed

LEMMA EditIsFaithful ==
  ASSUME EditStep
  PROVE  Faithful
<1>1. \A d \in Devices : Starts(out', d) = {}
  BY DEF EditStep, Starts
<1>2. \A d \in Devices : Accounted(d)
  BY <1>1 DEF EditStep, Undisturbed, Accounted, Busy
<1>3. \A e \in Preempted(out') : Justified(e)
  BY DEF EditStep, Justified, Starts
<1>4. \A d \in Busy(active) \cap Busy(active') : WindowKept(active[d], active'[d])
  BY DEF EditStep, Undisturbed, Busy
<1>5. TetraStartsOnClearChannel'
  BY DEF EditStep, TetraStartsOnClearChannel
<1> QED BY <1>2, <1>3, <1>4, <1>5 DEF Faithful

\* A grant that comes to nothing more than the ends behind it.
LEMMA ClearedIsEdit ==
  ASSUME NEW p, NEW evs, Cleared(p, evs), NEW g, NEW tg, Outranks(evs, g, tg),
         active \in Pool, active' = p, NEW more, \A e \in more : e.kind = "unserved",
         out' = evs \cup more
  PROVE  EditStep
<1>1. \A e \in out' : e.kind # "start"
  BY DEF Cleared
<1>2. \A e \in Preempted(out') : ~e.call.g.emergency
  BY DEF Outranks, Preempted
<1>3. \A d \in Devices : Ends(out', d) = Ends(evs, d)
  BY DEF Ends
<1>4. ASSUME NEW d \in Devices PROVE Undisturbed(d)
  <2>1. CASE p[d] = active[d] /\ Ends(evs, d) = {}
    <3>1. active[d] # NoCall => WindowKept(active[d], active'[d])
      BY <2>1, SameWindow DEF Pool
    <3> QED BY <1>3, <2>1, <3>1 DEF Undisturbed
  <2>2. CASE active[d] # NoCall /\ p[d] = NoCall /\ \E e \in Ends(evs, d) : e.call = active[d]
    BY <1>3, <2>2 DEF Undisturbed
  <2> QED BY <2>1, <2>2 DEF Cleared
<1> QED BY <1>1, <1>2, <1>4 DEF EditStep

-----------------------------------------------------------------------------
\* The start of a call on a device the grant has found, or made, free.
LEMMA StartIsFaithful ==
  ASSUME active \in Pool, NEW p, NEW evs, Cleared(p, evs), NEW g \in Grant, NEW tg \in TalkGroup,
         Outranks(evs, g, tg), NEW d \in Devices, p[d] = NoCall,
         g.tetra => OnChannel(p, g) = {}, StartCall(p, evs, d, g, tg)
  PROVE  Faithful
<1> DEFINE c == NewCall(g, tg)
           q == [p EXCEPT ![d] = c]
           x == Policed(c, g.encrypted)
           r == [q EXCEPT ![d] = x]
           cut == Ended(q, {e \in {d} : r[d] = NoCall}, "encrypted")
<1>1. CASE active' = p /\ out' = evs
  <2>1. out' = evs \cup {} /\ \A e \in {} : e.kind = "unserved"
    BY <1>1
  <2> QED BY <1>1, <2>1, ClearedIsEdit, EditIsFaithful
<1>2. CASE active' = r /\ out' = evs \cup {Started(d, c)} \cup cut
  <2>1. c.g = g /\ c.tg = tg /\ c \in Call /\ c # NoCall
    BY NewCallType, DispatchAssumption DEF NewCall
  <2>2. x = NoCall \/ (x # NoCall /\ x.g = g)
    BY <2>1, PolicedType
  <2>3. p \in Pool /\ q[d] = c /\ r[d] = x /\ \A b \in Devices \ {d} : r[b] = p[b]
    BY DEF Cleared, Pool
  <2>4. Started(d, c).kind = "start" /\ Started(d, c).dev = d /\ Started(d, c).call = c
    BY DEF Started
  <2>5. \A e \in cut : e.kind = "end" /\ e.dev = d /\ e.call = c /\ e.reason = "encrypted"
    BY <2>3 DEF Ended
  <2>6. x = NoCall => \E e \in cut : e.kind = "end" /\ e.dev = d /\ e.call = c
    <3> SUFFICES ASSUME x = NoCall PROVE \E e \in cut : e.kind = "end" /\ e.dev = d /\ e.call = c
      OBVIOUS
    <3> DEFINE e == [kind |-> "end", dev |-> d, call |-> q[d], reason |-> "encrypted"]
    <3>1. e \in cut
      BY <2>3 DEF Ended
    <3>2. e.kind = "end" /\ e.dev = d /\ e.call = c
      BY <2>3
    <3> QED BY <3>1, <3>2
  <2> HIDE DEF c, x, q, r, cut
  <2>7. /\ \A b \in Devices \ {d} : Starts(out', b) = {} /\ Ends(out', b) = Ends(evs, b)
        /\ Starts(out', d) = {Started(d, c)}
        /\ \A b \in Devices : Ends(evs, b) \subseteq Ends(out', b)
        /\ x = NoCall => \E e \in Ends(out', d) : e.call = c
    BY <1>2, <2>4, <2>5, <2>6 DEF Starts, Ends, Cleared
  <2>8. Preempted(out') = Preempted(evs)
    BY <1>2, <2>4, <2>5 DEF Preempted, Cleared
  <2>9. ASSUME NEW b \in Devices PROVE Accounted(b)
    <3>1. CASE b = d
      <4>1. active[d] # NoCall => \E e \in Ends(out', d) : e.call = active[d]
        BY <2>7 DEF Cleared
      <4>2. d \in Busy(active') <=> x # NoCall
        BY <1>2, <2>3 DEF Busy
      <4>3. active'[d] = NoCall => \E e \in Ends(out', d), s \in Starts(out', d) : e.call = s.call
        BY <1>2, <2>3, <2>4, <2>7
      <4>4. d \in Busy(active) <=> active[d] # NoCall
        BY DEF Busy
      <4>5. Starts(out', d) # {}
        BY <2>7
      <4> QED BY <1>2, <2>3, <3>1, <4>1, <4>2, <4>3, <4>4, <4>5 DEF Accounted
    <3>2. CASE b # d
      <4>1. Starts(out', b) = {} /\ Ends(out', b) = Ends(evs, b) /\ active'[b] = p[b]
        BY <1>2, <2>3, <2>7, <3>2
      <4> QED BY <4>1 DEF Accounted, Busy, Cleared
    <3> QED BY <3>1, <3>2
  <2>10. ASSUME NEW e \in Preempted(out') PROVE Justified(e)
    <3>1. ~e.call.g.emergency
      BY <2>8 DEF Outranks
    <3>2. ASSUME NEW s \in Starts(out', e.dev)
          PROVE  /\ EffectivePriority(s.call.g, s.call.tg)
                      < EffectivePriority(e.call.g, e.call.tg)
                 /\ \A b \in Capable(s.call.g.freq) \ {e.dev} :
                      \/ Ends(out', b) # {}
                      \/ /\ b \in Busy(active)
                         /\ EffectivePriority(active[b].g, active[b].tg)
                              <= EffectivePriority(e.call.g, e.call.tg)
      <4>1. s.call = c
        BY <1>2, <2>4, <2>5 DEF Starts, Cleared
      <4>2. \A b \in Capable(g.freq) : Ends(evs, b) # {} => Ends(out', b) # {}
        BY <2>7 DEF Capable
      <4> QED BY <2>1, <2>8, <4>1, <4>2 DEF Outranks
    <3> QED BY <3>1, <3>2 DEF Justified
  <2>11. ASSUME NEW b \in Busy(active) \cap Busy(active'), Starts(out', b) = {}
         PROVE  WindowKept(active[b], active'[b])
    <3>1. b # d /\ b \in Devices
      BY <2>7, <2>11 DEF Busy
    <3>2. active'[b] = active[b] /\ active[b] \in Call
      BY <1>2, <2>3, <2>11, <3>1 DEF Busy, Cleared, Pool
    <3> QED BY <3>2, SameWindow
  <2>12. TetraStartsOnClearChannel'
    <3> SUFFICES ASSUME NEW e \in out', e.kind = "start", e.call.g.tetra,
                        NEW b \in Busy(active') \ {e.dev}
                 PROVE  ~SameChannel(active'[b].g, e.call.g)
      BY DEF TetraStartsOnClearChannel
    <3>1. e = Started(d, c)
      BY <1>2, <2>5 DEF Cleared
    <3>2. b \in Busy(p) /\ active'[b] = p[b] /\ b # d
      BY <1>2, <2>3, <2>4, <3>1 DEF Busy
    <3> QED BY <2>1, <2>4, <3>1, <3>2 DEF OnChannel
  <2> QED BY <2>9, <2>10, <2>11, <2>12 DEF Faithful
<1> QED BY <1>1, <1>2 DEF StartCall

\* No device is free for g: the pool's least urgent capable call gives way, or none does.
LEMMA PreemptIsFaithful ==
  ASSUME active \in Pool, NEW p, NEW evs, Cleared(p, evs), Preempted(evs) = {},
         NEW g \in Grant, NEW tg \in TalkGroup, FreeFor(p, g.freq) = {},
         g.tetra => OnChannel(p, g) = {}, PreemptOrDrop(p, evs, g, tg)
  PROVE  Faithful
<1>0. Outranks(evs, g, tg)
  BY DEF Outranks
<1>1. CASE active' = p /\ out' = evs
  <2>1. out' = evs \cup {} /\ \A e \in {} : e.kind = "unserved"
    BY <1>1
  <2> QED BY <1>0, <1>1, <2>1, ClearedIsEdit, EditIsFaithful
<1>2. CASE active' = p /\ out' = evs \cup {[kind |-> "unserved", call |-> NewCall(g, tg)]}
  <2> DEFINE more == {[kind |-> "unserved", call |-> NewCall(g, tg)]}
  <2>1. \A e \in more : e.kind = "unserved"
    OBVIOUS
  <2>2. out' = evs \cup more
    BY <1>2
  <2> HIDE DEF more
  <2> QED BY <1>0, <1>2, <2>1, <2>2, ClearedIsEdit, EditIsFaithful
<1>3. ASSUME NEW v \in LowestPriorityActiveForFrequency(p, g.freq), CanPreempt(p[v], g, tg),
             StartCall(Released(p, {v}), evs \cup Ended(p, {v}, "preempted"), v, g, tg)
      PROVE  Faithful
  <2> DEFINE q == Released(p, {v})
             last == [kind |-> "end", dev |-> v, call |-> p[v], reason |-> "preempted"]
  <2>1. /\ v \in Capable(g.freq) /\ v \in Devices /\ p[v] # NoCall
        /\ \A b \in Capable(g.freq) \cap Busy(p) :
             EffectivePriority(p[b].g, p[b].tg) <= EffectivePriority(p[v].g, p[v].tg)
    BY DEF LowestPriorityActiveForFrequency, Capable, Busy
  <2>2. p[v] = active[v] /\ active[v] \in Call /\ Ends(evs, v) = {}
    BY <2>1 DEF Cleared, Pool
  <2>3. Ended(p, {v}, "preempted") = {last}
    BY DEF Ended
  <2>4. last.kind = "end" /\ last.dev = v /\ last.call = p[v] /\ last.reason = "preempted"
    OBVIOUS
  <2>5. q \in Pool /\ q[v] = NoCall /\ \A b \in Devices \ {v} : q[b] = p[b]
    BY <2>1, ReleasedPool DEF Cleared, Released
  <2> HIDE DEF last
  <2>6. /\ \A b \in Devices : Ends(evs \cup {last}, b) = IF b = v THEN {last} ELSE Ends(evs, b)
        /\ Preempted(evs \cup {last}) = {last}
    BY <2>2, <2>4 DEF Ends, Preempted
  <2>7. Cleared(q, evs \cup {last})
    <3>1. \A e \in evs \cup {last} : e.kind = "end"
      BY <2>4 DEF Cleared
    <3>2. ASSUME NEW b \in Devices
          PROVE  \/ q[b] = active[b] /\ Ends(evs \cup {last}, b) = {}
                 \/ /\ active[b] # NoCall /\ q[b] = NoCall
                    /\ \E e \in Ends(evs \cup {last}, b) : e.call = active[b]
      <4>1. CASE b = v
        BY <2>1, <2>2, <2>4, <2>5, <2>6, <4>1
      <4>2. CASE b # v
        BY <2>5, <2>6, <4>2 DEF Cleared
      <4> QED BY <4>1, <4>2
    <3> QED BY <2>5, <3>1, <3>2 DEF Cleared
  <2>8. Outranks(evs \cup {last}, g, tg)
    <3>1. EffectivePriority(g, tg) < EffectivePriority(last.call.g, last.call.tg)
      BY <1>3, <2>4 DEF CanPreempt
    <3>2. EffectivePriority(g, tg) \in 0..11
      BY DEF EffectivePriority, TalkGroup
    <3>3. ~last.call.g.emergency
      BY <3>1, <3>2 DEF EffectivePriority
    <3>4. ASSUME NEW b \in Capable(g.freq) \ {v}
          PROVE  /\ b \in Busy(active)
                 /\ EffectivePriority(active[b].g, active[b].tg)
                      <= EffectivePriority(last.call.g, last.call.tg)
      <4>1. b \in Devices /\ b \in Busy(p)
        BY DEF FreeFor, Capable
      <4>2. p[b] = active[b] /\ b \in Busy(active)
        BY <4>1 DEF Cleared, Busy
      <4> QED BY <2>1, <2>4, <4>1, <4>2
    <3> QED BY <2>4, <2>6, <3>1, <3>3, <3>4 DEF Outranks
  <2>9. g.tetra => OnChannel(q, g) = {}
    BY <2>5 DEF OnChannel, Busy
  <2> HIDE DEF q
  <2>10. StartCall(q, evs \cup {last}, v, g, tg)
    BY <1>3, <2>3 DEF q
  <2> QED BY <2>1, <2>5, <2>7, <2>8, <2>9, <2>10, StartIsFaithful
<1> QED BY <1>1, <1>2, <1>3, Zenon DEF PreemptOrDrop

LEMMA AllocateIsFaithful ==
  ASSUME active \in Pool, NEW p, NEW evs, Cleared(p, evs), Preempted(evs) = {},
         NEW g \in Grant, NEW tg \in TalkGroup, NEW h,
         g.tetra => OnChannel(p, g) = {}, Allocate(p, evs, g, tg, h)
  PROVE  Faithful
<1>0. Outranks(evs, g, tg)
  BY DEF Outranks
<1>1. CASE active' = p /\ out' = evs
  <2>1. out' = evs \cup {} /\ \A e \in {} : e.kind = "unserved"
    BY <1>1
  <2> QED BY <1>0, <1>1, <2>1, ClearedIsEdit, EditIsFaithful
<1>2. ASSUME NEW d \in FindFreeForFrequency(p, g.freq), StartCall(p, evs, d, g, tg)
      PROVE  Faithful
  <2>1. d \in Devices /\ p[d] = NoCall
    BY DEF FindFreeForFrequency, FreeFor, Capable, Busy
  <2> QED BY <1>0, <1>2, <2>1, StartIsFaithful
<1>3. CASE FreeFor(p, g.freq) = {} /\ PreemptOrDrop(p, evs, g, tg)
  BY <1>3, PreemptIsFaithful
<1> QED BY <1>1, <1>2, <1>3, Zenon DEF Allocate

\* One call touched, with its source filled in or not.
LEMMA TouchIsEdit ==
  ASSUME active \in Pool, NEW p, NEW evs, Cleared(p, evs), Preempted(evs) = {},
         NEW d \in Busy(p), NEW c \in Call, c.enc = p[d].enc,
         active' = [p EXCEPT ![d] = c], out' = evs
  PROVE  EditStep
<1>1. d \in Devices /\ p \in Pool /\ c # NoCall /\ p[d] # NoCall
  BY DispatchAssumption DEF Busy, Cleared
<1>2. active'[d] = c /\ \A b \in Devices \ {d} : active'[b] = p[b]
  BY <1>1 DEF Pool
<1>3. p[d] = active[d] /\ active[d] \in Call /\ Ends(evs, d) = {}
  BY <1>1 DEF Cleared, Pool
<1>4. WindowKept(active[d], active'[d])
  BY <1>2, <1>3, SameWindow
<1>5. ASSUME NEW b \in Devices PROVE Undisturbed(b)
  <2>1. CASE b = d
    BY <1>1, <1>2, <1>3, <1>4, <2>1 DEF Undisturbed
  <2>2. CASE b # d /\ p[b] = active[b] /\ Ends(evs, b) = {}
    <3>1. active[b] # NoCall => WindowKept(active[b], active'[b])
      BY <1>2, <2>2, SameWindow DEF Pool
    <3> QED BY <1>2, <2>2, <3>1 DEF Undisturbed
  <2>3. CASE /\ b # d /\ active[b] # NoCall /\ p[b] = NoCall
             /\ \E e \in Ends(evs, b) : e.call = active[b]
    BY <1>2, <2>3 DEF Undisturbed
  <2> QED BY <2>1, <2>2, <2>3 DEF Cleared
<1> QED BY <1>5 DEF EditStep, Cleared

LEMMA TouchKeepsWindow ==
  ASSUME NEW c \in Call, NEW i \in Ids
  PROVE  /\ Touched(c) \in Call /\ Touched(c).enc = c.enc
         /\ Touched(Backfilled(c, i)) \in Call /\ Touched(Backfilled(c, i)).enc = c.enc
<1>1. \A b \in Call : Touched(b) \in Call /\ Touched(b).enc = b.enc
  <2> SUFFICES ASSUME NEW b \in Call PROVE Touched(b) \in Call /\ Touched(b).enc = b.enc
    OBVIOUS
  <2>1. Touched(b) \in Call
    BY TouchedType
  <2>2. Touched(b).enc = b.enc
    BY DEF Touched, Call
  <2> QED BY <2>1, <2>2
<1>2. Backfilled(c, i) \in Call
  BY BackfilledType
<1>3. Backfilled(c, i).enc = c.enc
  BY DEF Backfilled, Call
<1> QED BY <1>1, <1>2, <1>3

LEMMA FoldIsFaithful ==
  ASSUME active \in Pool, NEW p, NEW evs, Cleared(p, evs), Preempted(evs) = {},
         NEW g \in Grant, NEW tg \in TalkGroup, NEW h, FoldOrAllocate(p, evs, g, tg, h)
  PROVE  Faithful
<1>0. p \in Pool /\ g.src \in Ids
  BY DEF Cleared, Grant
<1>1. ASSUME NEW d \in Sourceless(p, g), out' = evs,
             active' = [p EXCEPT ![d] = Touched(Backfilled(@, g.src))]
      PROVE  Faithful
  <2>1. d \in Busy(p) /\ p[d] \in Call
    BY <1>0, BusyCall DEF Sourceless, OnChannel
  <2>2. /\ Touched(Backfilled(p[d], g.src)) \in Call
        /\ Touched(Backfilled(p[d], g.src)).enc = p[d].enc
    BY <1>0, <2>1, TouchKeepsWindow
  <2> QED BY <1>1, <2>1, <2>2, TouchIsEdit, EditIsFaithful
<1>2. ASSUME NEW d \in OnChannel(p, g), out' = evs, active' = [p EXCEPT ![d] = Touched(@)]
      PROVE  Faithful
  <2>1. d \in Busy(p) /\ p[d] \in Call
    BY <1>0, BusyCall DEF OnChannel
  <2>2. Touched(p[d]) \in Call /\ Touched(p[d]).enc = p[d].enc
    BY <1>0, <2>1, TouchKeepsWindow
  <2> QED BY <1>2, <2>1, <2>2, TouchIsEdit, EditIsFaithful
<1>3. CASE (~g.tetra \/ OnChannel(p, g) = {}) /\ Allocate(p, evs, g, tg, h)
  BY <1>3, AllocateIsFaithful
<1> QED BY <1>1, <1>2, <1>3, Zenon DEF FoldOrAllocate

\* Ending one more call on the way, and saying so.
LEMMA ClearedFurther ==
  ASSUME active \in Pool, NEW p, NEW evs, Cleared(p, evs), Preempted(evs) = {}, NEW d \in Busy(p)
  PROVE  /\ Cleared(Released(p, {d}), evs \cup Ended(p, {d}, "normal"))
         /\ Preempted(evs \cup Ended(p, {d}, "normal")) = {}
<1> DEFINE q == Released(p, {d})
           last == [kind |-> "end", dev |-> d, call |-> p[d], reason |-> "normal"]
<1>1. Ended(p, {d}, "normal") = {last}
  BY DEF Ended
<1>2. last.kind = "end" /\ last.dev = d /\ last.call = p[d] /\ last.reason = "normal"
  OBVIOUS
<1>3. d \in Devices /\ p[d] # NoCall /\ p[d] = active[d] /\ Ends(evs, d) = {}
  BY DEF Busy, Cleared
<1>4. q \in Pool /\ q[d] = NoCall /\ \A b \in Devices \ {d} : q[b] = p[b]
  BY <1>3, ReleasedPool DEF Cleared, Released
<1> HIDE DEF q, last
<1>5. /\ \A b \in Devices : Ends(evs \cup {last}, b) = IF b = d THEN {last} ELSE Ends(evs, b)
      /\ Preempted(evs \cup {last}) = {}
  BY <1>2, <1>3 DEF Ends, Preempted
<1>6. ASSUME NEW b \in Devices
      PROVE  \/ q[b] = active[b] /\ Ends(evs \cup {last}, b) = {}
             \/ /\ active[b] # NoCall /\ q[b] = NoCall
                /\ \E e \in Ends(evs \cup {last}, b) : e.call = active[b]
  <2>1. CASE b = d
    BY <1>2, <1>3, <1>4, <1>5, <2>1
  <2>2. CASE b # d
    BY <1>4, <1>5, <2>2 DEF Cleared
  <2> QED BY <2>1, <2>2
<1>7. \A e \in evs \cup {last} : e.kind = "end"
  BY <1>2 DEF Cleared
<1>8. Cleared(q, evs \cup {last})
  BY <1>4, <1>6, <1>7 DEF Cleared
<1> QED BY <1>1, <1>5, <1>8 DEF q

LEMMA SupersedeIsFaithful ==
  ASSUME active \in Pool, NEW p, NEW evs, Cleared(p, evs), Preempted(evs) = {},
         NEW g \in Grant, NEW tg \in TalkGroup, NEW h, Supersede(p, evs, g, tg, h)
  PROVE  Faithful
<1>1. CASE FoldOrAllocate(p, evs, g, tg, h)
  BY <1>1, FoldIsFaithful
<1>2. ASSUME NEW d \in Provisional(p, g),
             FoldOrAllocate(Released(p, {d}), evs \cup Ended(p, {d}, "normal"), g, tg, h)
      PROVE  Faithful
  <2>1. d \in Busy(p)
    BY DEF Provisional, Sourceless, OnChannel
  <2> QED BY <1>2, <2>1, ClearedFurther, FoldIsFaithful
<1> QED BY <1>1, <1>2 DEF Supersede

\* Before its dispatch a grant has cleared nothing.
LEMMA ClearedAtFirst ==
  ASSUME active \in Pool
  PROVE  Cleared(active, {}) /\ Preempted({}) = {}
BY DEF Cleared, Ends, Preempted

LEMMA DispatchIsFaithful ==
  ASSUME active \in Pool, NEW g \in Grant, NEW tg \in TalkGroup, NEW h, Dispatch(g, tg, h)
  PROVE  Faithful
<1>0. Cleared(active, {}) /\ Preempted({}) = {} /\ g.src \in Ids
  BY ClearedAtFirst DEF Grant
<1>1. CASE Supersede(active, {}, g, tg, h)
  BY <1>0, <1>1, SupersedeIsFaithful
<1>2. ASSUME NEW d \in Duplicates(active, g), Refresh(d, g, h)
      PROVE  Faithful
  <2>1. d \in Busy(active) /\ active[d] \in Call
    BY BusyCall DEF Duplicates
  <2>2. active' = [active EXCEPT ![d] = Touched(Backfilled(active[d], g.src))] /\ out' = {}
    BY <1>2 DEF Refresh
  <2> QED BY <1>0, <2>1, <2>2, TouchKeepsWindow, TouchIsEdit, EditIsFaithful
<1>3. ASSUME NEW d \in Duplicates(active, g), Follow(d, g, h)
      PROVE  Faithful
  <2>1. d \in Busy(active) /\ active[d] \in Call
    BY BusyCall DEF Duplicates
  <2>2. active' = [active EXCEPT ![d] = Retuned(active[d], g)] /\ out' = {}
    BY <1>3 DEF Follow
  <2>3. Retuned(active[d], g) \in Call
    BY <2>1, RetunedType
  <2>4. Retuned(active[d], g).enc = active[d].enc
    BY <2>1 DEF Retuned, Touched, Call
  <2> QED BY <1>0, <2>1, <2>2, <2>3, <2>4, TouchIsEdit, EditIsFaithful
<1>4. ASSUME NEW d \in Duplicates(active, g), Rebind(d, g, tg, h)
      PROVE  Faithful
  <2>1. d \in Busy(active)
    BY DEF Duplicates
  <2> DEFINE q == Released(active, {d})
             evs == Ended(active, {d}, "normal")
  <2>2. Cleared(q, {} \cup evs) /\ Preempted({} \cup evs) = {}
    BY <1>0, <2>1, ClearedFurther
  <2>3. Supersede(q, evs, g, tg, h)
    BY <1>4 DEF Rebind
  <2> HIDE DEF q, evs
  <2>4. {} \cup evs = evs
    OBVIOUS
  <2>5. Cleared(q, evs) /\ Preempted(evs) = {}
    BY <2>2, <2>4
  <2> QED BY <2>3, <2>5, SupersedeIsFaithful
<1> QED BY <1>1, <1>2, <1>3, <1>4, Zenon DEF Dispatch

-----------------------------------------------------------------------------
\* The handlers that start no call.

\* Nothing happens to a call.
LEMMA QuietIsEdit ==
  ASSUME active \in Pool, UNCHANGED active, out' = {}
  PROVE  EditStep
<1>1. ASSUME NEW d \in Devices PROVE Undisturbed(d)
  <2>1. active[d] # NoCall => WindowKept(active[d], active'[d])
    BY SameWindow DEF Pool
  <2> QED BY <2>1 DEF Undisturbed, Ends
<1> QED BY <1>1 DEF EditStep, Preempted

\* The calls of ds end, for a reason that is not preemption.
LEMMA ReleaseIsEdit ==
  ASSUME active \in Pool, NEW ds \in SUBSET Busy(active), active' = Released(active, ds),
         \A e \in out' : e.kind = "end" /\ e.reason # "preempted" /\ e.dev \in ds,
         \A d \in ds : \E e \in out' : e.kind = "end" /\ e.dev = d
  PROVE  EditStep
<1>1. \A d \in Devices : active'[d] = IF d \in ds THEN NoCall ELSE active[d]
  BY DEF Released
<1>2. \A d \in ds : Ends(out', d) # {}
  BY DEF Ends
<1>3. \A d \in Devices \ ds : Ends(out', d) = {}
  BY DEF Ends
<1>4. ASSUME NEW d \in Devices PROVE Undisturbed(d)
  <2>1. CASE d \in ds
    BY <1>1, <1>2, <2>1 DEF Undisturbed, Busy
  <2>2. CASE d \notin ds
    <3>1. active[d] # NoCall => WindowKept(active[d], active'[d])
      BY <1>1, <2>2, SameWindow DEF Pool
    <3> QED BY <1>1, <1>3, <2>2, <3>1 DEF Undisturbed
  <2> QED BY <2>1, <2>2
<1> QED BY <1>4 DEF EditStep, Preempted

LEMMA EndedOf ==
  ASSUME NEW p, NEW ds, NEW r, r # "preempted"
  PROVE  /\ \A e \in Ended(p, ds, r) : e.kind = "end" /\ e.reason # "preempted" /\ e.dev \in ds
         /\ \A d \in ds : \E e \in Ended(p, ds, r) : e.kind = "end" /\ e.dev = d
<1>1. ASSUME NEW d \in ds PROVE \E e \in Ended(p, ds, r) : e.kind = "end" /\ e.dev = d
  <2> DEFINE e == [kind |-> "end", dev |-> d, call |-> p[d], reason |-> r]
  <2>1. e \in Ended(p, ds, r) /\ e.kind = "end" /\ e.dev = d
    BY DEF Ended
  <2> QED BY <2>1
<1>2. \A e \in Ended(p, ds, r) : e.kind = "end" /\ e.reason # "preempted" /\ e.dev \in ds
  BY DEF Ended
<1> QED BY <1>1, <1>2

\* The encrypted-call policy cancels an armed release for a configured key only.
LEMMA PolicedWindow ==
  ASSUME NEW c \in Call, NEW x, Policed(c, x) # NoCall
  PROVE  WindowKept(c, Policed(c, x))
<1>1. c.enc \in {Unarmed} \cup 0..EncFollow
  BY DEF Call
<1>2. CASE Policed(c, x) = c
  BY <1>2, SameWindow
<1>3. CASE KeyConfigured(c.g) /\ Policed(c, x) = [c EXCEPT !.enc = Unarmed]
  <2>1. Policed(c, x).enc = Unarmed /\ Policed(c, x).g = c.g
    BY <1>3 DEF Call
  <2> QED BY <1>3, <2>1 DEF WindowKept
<1>4. CASE Policed(c, x) = [c EXCEPT !.enc = IF @ = Unarmed THEN EncFollow ELSE @]
  <2>1. c.enc # Unarmed => Policed(c, x).enc = c.enc
    BY <1>4 DEF Call
  <2> QED BY <1>1, <2>1, DispatchAssumption DEF WindowKept, Unarmed
<1> QED BY <1>2, <1>3, <1>4 DEF Policed

\* Calls edited in place (p) and put before the policy (q); what else is published are
\* segments.
LEMMA PolicedIsEdit ==
  ASSUME active \in Pool, NEW p \in Pool, NEW q \in Pool, active' = q,
         \A d \in Devices : p[d] = NoCall <=> active[d] = NoCall,
         \A d \in Devices : p[d] # NoCall => p[d].enc = active[d].enc,
         \A d \in Devices : p[d] = NoCall => q[d] = NoCall,
         \A d \in Devices : q[d] # NoCall => WindowKept(p[d], q[d]),
         NEW cuts, \A e \in cuts : e.kind = "segment", out' = cuts \cup EncryptedEnds(p, q)
  PROVE  EditStep
<1> DEFINE gone == {d \in Busy(p) : q[d] = NoCall}
           ends == Ended(p, gone, "encrypted")
<1>2. out' = cuts \cup ends
  BY DEF EncryptedEnds
<1>3. \A d \in Devices : d \in gone <=> p[d] # NoCall /\ q[d] = NoCall
  BY DEF Busy
<1> HIDE DEF gone
<1>1. /\ \A e \in ends : e.kind = "end" /\ e.reason # "preempted" /\ e.dev \in gone
      /\ \A d \in gone : \E e \in ends : e.kind = "end" /\ e.dev = d
  BY EndedOf
<1> HIDE DEF ends
<1>4. \A d \in gone : Ends(out', d) # {}
  BY <1>1, <1>2 DEF Ends
<1>5. \A d \in Devices \ gone : Ends(out', d) = {}
  BY <1>1, <1>2 DEF Ends
<1>6. ASSUME NEW d \in Devices PROVE Undisturbed(d)
  <2>1. CASE d \in gone
    BY <1>3, <1>4, <2>1 DEF Undisturbed
  <2>2. CASE d \notin gone /\ p[d] = NoCall
    BY <2>2 DEF Undisturbed
  <2>3. CASE d \notin gone /\ p[d] # NoCall
    <3>1. q[d] # NoCall /\ WindowKept(p[d], q[d]) /\ p[d].enc = active[d].enc
      BY <1>3, <2>3
    <3>2. WindowKept(active[d], q[d])
      BY <3>1 DEF WindowKept
    <3> QED BY <1>5, <2>3, <3>1, <3>2 DEF Undisturbed
  <2> QED BY <2>1, <2>2, <2>3
<1>7. (\A e \in out' : e.kind # "start") /\ Preempted(out') = {}
  BY <1>1, <1>2 DEF Preempted
<1> QED BY <1>6, <1>7 DEF EditStep

\* The same for the call of one device.
LEMMA OnePolicedIsEdit ==
  ASSUME active \in Pool, NEW d \in Devices, active[d] # NoCall,
         NEW c \in Call, c.enc = active[d].enc, NEW x,
         active' = [[active EXCEPT ![d] = c] EXCEPT ![d] = Policed(c, x)],
         out' = EncryptedEnds([active EXCEPT ![d] = c], active')
  PROVE  EditStep
<1> DEFINE p == [active EXCEPT ![d] = c]
           y == Policed(c, x)
           q == [p EXCEPT ![d] = y]
<1>1. c # NoCall /\ y \in Call \cup {NoCall} /\ (y # NoCall => WindowKept(c, y))
  BY PolicedType, PolicedWindow, DispatchAssumption
<1>2. active' = q /\ out' = {} \cup EncryptedEnds(p, q)
  OBVIOUS
<1> HIDE DEF y
<1>3. p \in Pool /\ p[d] = c /\ \A b \in Devices \ {d} : p[b] = active[b]
  BY DEF Pool
<1> HIDE DEF p
<1>4. q \in Pool /\ q[d] = y /\ \A b \in Devices \ {d} : q[b] = p[b]
  BY <1>1, <1>3 DEF Pool
<1> HIDE DEF q
<1>5. \A b \in Devices : (p[b] = NoCall <=> active[b] = NoCall)
                         /\ (p[b] # NoCall => p[b].enc = active[b].enc)
                         /\ (p[b] = NoCall => q[b] = NoCall)
  BY <1>1, <1>3, <1>4
<1>6. ASSUME NEW b \in Devices, q[b] # NoCall PROVE WindowKept(p[b], q[b])
  <2>1. CASE b = d
    BY <1>1, <1>3, <1>4, <1>6, <2>1
  <2>2. CASE b # d
    <3>1. p[b] \in Call /\ q[b] = p[b]
      BY <1>3, <1>4, <1>6, <2>2 DEF Pool
    <3> QED BY <3>1, SameWindow
  <2> QED BY <2>1, <2>2
<1>7. \A e \in {} : e.kind = "segment"
  OBVIOUS
<1> QED BY <1>2, <1>3, <1>4, <1>5, <1>6, <1>7, PolicedIsEdit

LEMMA InCallEventIsEdit ==
  ASSUME active \in Pool, InCallEvent
  PROVE  EditStep
<1>1. ASSUME NEW d \in Devices, NEW u \in Syncs, HandleCallEncryption(d, u)
      PROVE  EditStep
  <2> DEFINE c == [active[d] EXCEPT !.g.key = u.key]
  <2>1. active[d] # NoCall /\ active[d] \in Call /\ u.key \in KeyIds
    BY <1>1, DispatchAssumption DEF HandleCallEncryption, Pool
  <2>2. c = [active[d] EXCEPT !.g = [active[d].g EXCEPT !.key = u.key]]
    OBVIOUS
  <2>3. [active[d].g EXCEPT !.key = u.key] \in Grant
    BY <2>1 DEF Grant, Call
  <2>4. c \in Call
    BY <2>1, <2>2, <2>3, CallGrant
  <2>5. c.enc = active[d].enc
    BY <2>1, <2>2 DEF Call
  <2>6. /\ active' = [[active EXCEPT ![d] = c] EXCEPT ![d] = Policed(c, u.encrypted)]
        /\ out' = EncryptedEnds([active EXCEPT ![d] = c], active')
    BY <1>1 DEF HandleCallEncryption
  <2> HIDE DEF c
  <2> QED BY <2>1, <2>4, <2>5, <2>6, OnePolicedIsEdit
<1>2. ASSUME NEW d \in Devices, NEW u \in Updates, HandleCallSourceUpdate(d, u)
      PROVE  EditStep
  <2> DEFINE c == Updated(active[d], u)
  <2>1. active[d] # NoCall /\ active[d] \in Call
    BY <1>2 DEF HandleCallSourceUpdate, Pool
  <2>2. c \in Call
    BY <2>1, UpdatedType, DispatchAssumption
  <2>3. c.enc = active[d].enc
    BY <2>1 DEF Updated, Call
  <2>4. /\ active' = [[active EXCEPT ![d] = c] EXCEPT ![d] = Policed(c, c.g.encrypted)]
        /\ out' = EncryptedEnds([active EXCEPT ![d] = c], active')
    BY <1>2 DEF HandleCallSourceUpdate
  <2> HIDE DEF c
  <2> QED BY <2>1, <2>2, <2>3, <2>4, OnePolicedIsEdit
<1>3. ASSUME NEW s \in Systems, NEW src \in Radios, HandleTalkerAlias(s, src)
      PROVE  EditStep
  <2>1. PICK d \in Busy(active) : /\ active' = Released(active, {d})
                                  /\ out' = Ended(active, {d}, "encrypted")
    BY <1>3 DEF HandleTalkerAlias
  <2>2. {d} \in SUBSET Busy(active)
    OBVIOUS
  <2> QED BY <2>1, <2>2, EndedOf, ReleaseIsEdit
<1> QED BY <1>1, <1>2, <1>3 DEF InCallEvent

LEMMA TalkerIsEdit ==
  ASSUME active \in Pool, NEW s \in Systems, NEW grp \in Ids, NEW src \in Radios,
         HandleCallTalker(s, grp, src)
  PROVE  EditStep
<1> DEFINE ds == CallsBySystemGroup(s, grp)
           p == [d \in Devices |->
                  IF d \in ds THEN Updated(active[d], Talking(src)) ELSE active[d]]
           q == [d \in Devices |->
                  IF d \in ds THEN Policed(p[d], p[d].g.encrypted) ELSE p[d]]
           cuts == {Segment(d, active[d]) :
                      d \in {d \in ds : active[d].g.tetra /\ active[d].g.src \notin {0, src}}}
<1>1. \A d \in ds : d \in Devices /\ active[d] # NoCall /\ active[d] \in Call
  BY DEF CallsBySystemGroup, Pool, Busy
<1>2. Talking(src) \in [src : Ids, encrypted : BOOLEAN, emergency : BOOLEAN]
  BY DispatchAssumption DEF Talking
<1>3. active' = q /\ out' = cuts \cup EncryptedEnds(p, active')
  BY Zenon DEF HandleCallTalker
<1>4. \A e \in cuts : e.kind = "segment"
  BY DEF Segment
<1> HIDE DEF ds, cuts
<1>5. \A d \in ds : p[d] \in Call /\ p[d].enc = active[d].enc
  <2> SUFFICES ASSUME NEW d \in ds PROVE p[d] \in Call /\ p[d].enc = active[d].enc
    OBVIOUS
  <2>1. p[d] = Updated(active[d], Talking(src)) /\ active[d] \in Call
    BY <1>1
  <2>2. Updated(active[d], Talking(src)) \in Call
    BY <1>2, <2>1, UpdatedType
  <2>3. Updated(active[d], Talking(src)).enc = active[d].enc
    BY <2>1 DEF Updated, Call
  <2> QED BY <2>1, <2>2, <2>3
<1>6. \A d \in Devices : d \notin ds => p[d] = active[d]
  OBVIOUS
<1>7. p \in Pool
  BY <1>5 DEF Pool
<1>8. \A d \in Devices : q[d] = IF d \in ds THEN Policed(p[d], p[d].g.encrypted) ELSE p[d]
  OBVIOUS
<1> HIDE DEF p
<1>9. q \in Pool
  BY <1>5, <1>7, PolicedType DEF Pool
<1>10. ASSUME NEW d \in Devices, q[d] # NoCall PROVE WindowKept(p[d], q[d])
  <2>1. CASE d \in ds
    BY <1>5, <1>8, <1>10, <2>1, PolicedWindow
  <2>2. CASE d \notin ds
    BY <1>7, <1>8, <1>10, <2>2, SameWindow DEF Pool
  <2> QED BY <2>1, <2>2
<1> HIDE DEF q
<1>11. \A d \in Devices : /\ (p[d] = NoCall <=> active[d] = NoCall)
                          /\ (p[d] # NoCall => p[d].enc = active[d].enc)
                          /\ (p[d] = NoCall => q[d] = NoCall)
  BY <1>1, <1>5, <1>6, <1>8, DispatchAssumption
<1>12. out' = cuts \cup EncryptedEnds(p, q)
  BY <1>3
<1> QED BY <1>3, <1>4, <1>7, <1>9, <1>10, <1>11, <1>12, PolicedIsEdit

LEMMA GroupEventIsEdit ==
  ASSUME active \in Pool, GroupEvent
  PROVE  EditStep
<1>1. ASSUME NEW s \in Systems, NEW grp \in Ids, HandleCallRelease(s, grp)
      PROVE  EditStep
  <2>1. CallsBySystemGroup(s, grp) \in SUBSET Busy(active)
    BY DEF CallsBySystemGroup
  <2>2. /\ active' = Released(active, CallsBySystemGroup(s, grp))
        /\ out' = Ended(active, CallsBySystemGroup(s, grp), "released")
    BY <1>1 DEF HandleCallRelease
  <2> QED BY <2>1, <2>2, EndedOf, ReleaseIsEdit
<1> QED BY <1>1, TalkerIsEdit DEF GroupEvent

LEMMA RunWatchdogIsEdit ==
  ASSUME active \in Pool, RunWatchdog
  PROVE  EditStep
<1> DEFINE heard == {d \in Stale : active[d].heard}
           unheard == {d \in Stale : ~active[d].heard}
           a == Ended(active, DueEncrypted, "encrypted")
           b == Ended(active, heard, "normal")
           c == Ended(active, unheard, "timeout")
<1>1. DueEncrypted \cup Stale \in SUBSET Busy(active) /\ heard \cup unheard = Stale
  BY DEF DueEncrypted, Stale
<1>5. active' = Released(active, DueEncrypted \cup Stale) /\ out' = a \cup b \cup c
  BY DEF RunWatchdog
<1> HIDE DEF heard, unheard
<1>2. /\ \A e \in a : e.kind = "end" /\ e.reason # "preempted" /\ e.dev \in DueEncrypted
      /\ \A d \in DueEncrypted : \E e \in a : e.kind = "end" /\ e.dev = d
  BY EndedOf
<1>3. /\ \A e \in b : e.kind = "end" /\ e.reason # "preempted" /\ e.dev \in heard
      /\ \A d \in heard : \E e \in b : e.kind = "end" /\ e.dev = d
  BY EndedOf
<1>4. /\ \A e \in c : e.kind = "end" /\ e.reason # "preempted" /\ e.dev \in unheard
      /\ \A d \in unheard : \E e \in c : e.kind = "end" /\ e.dev = d
  BY EndedOf
<1> HIDE DEF a, b, c
<1>6. /\ \A e \in out' : /\ e.kind = "end" /\ e.reason # "preempted"
                         /\ e.dev \in DueEncrypted \cup Stale
      /\ \A d \in DueEncrypted \cup Stale : \E e \in out' : e.kind = "end" /\ e.dev = d
  BY <1>1, <1>2, <1>3, <1>4, <1>5
<1> QED BY <1>1, <1>5, <1>6, ReleaseIsEdit

LEMMA ShutdownIsEdit ==
  ASSUME active \in Pool, Shutdown
  PROVE  EditStep
<1>1. active' = Released(active, Busy(active))
  BY DEF Shutdown, Released, Busy
<1>2. out' = Ended(active, Busy(active), "normal") /\ Busy(active) \in SUBSET Busy(active)
  BY DEF Shutdown
<1> QED BY <1>1, <1>2, EndedOf, ReleaseIsEdit

LEMMA CallerEventIsEdit ==
  ASSUME active \in Pool, CallerEvent
  PROVE  EditStep
<1>1. ASSUME NEW d \in Devices, EndCall(d) PROVE EditStep
  <2>1. /\ {d} \in SUBSET Busy(active)
        /\ active' = Released(active, {d}) /\ out' = Ended(active, {d}, "external")
    BY <1>1 DEF EndCall, Busy
  <2> QED BY <2>1, EndedOf, ReleaseIsEdit
<1>2. ASSUME NEW d \in Devices, Touch(d) PROVE EditStep
  <2>1. /\ d \in Busy(active) /\ active[d] \in Call
        /\ active' = [active EXCEPT ![d] = Touched(active[d])] /\ out' = {}
    BY <1>2 DEF Touch, Busy, Pool
  <2> QED BY <2>1, ClearedAtFirst, TouchKeepsWindow, TouchIsEdit, GrantsAssumption
<1> QED BY <1>1, <1>2 DEF CallerEvent

LEMMA TickIsEdit ==
  ASSUME active \in Pool, Tick
  PROVE  EditStep
<1>1. \A d \in Devices : active'[d] = IF active[d] = NoCall THEN NoCall ELSE Aged(active[d])
  BY DEF Tick
<1>2. ASSUME NEW d \in Devices, active[d] # NoCall
      PROVE  active'[d] # NoCall /\ WindowKept(active[d], active'[d])
  <2>1. active[d] \in Call /\ active'[d] = Aged(active[d])
    BY <1>1, <1>2 DEF Pool
  <2>2. Aged(active[d]) # NoCall
    BY <2>1, AgedType, DispatchAssumption
  <2>3. /\ active[d].enc \in {Unarmed} \cup 0..EncFollow
        /\ Aged(active[d]).enc = IF active[d].enc > 0 THEN active[d].enc - 1 ELSE active[d].enc
    BY <2>1 DEF Call, Aged
  <2> QED BY <2>1, <2>2, <2>3, DispatchAssumption DEF WindowKept, Unarmed
<1>3. \A d \in Devices : Undisturbed(d)
  BY <1>1, <1>2 DEF Tick, Undisturbed, Ends
<1> QED BY <1>3 DEF Tick, EditStep, Preempted

-----------------------------------------------------------------------------
\* Every step.

LEMMA HandleGrantIsFaithful ==
  ASSUME active \in Pool, HandleGrant
  PROVE  Faithful
<1>1. ASSUME NEW a \in Announced, RejectGrant(a) PROVE Faithful
  BY <1>1, QuietIsEdit, EditIsFaithful DEF RejectGrant
<1>2. ASSUME NEW a \in Announced, NEW g \in Relabelled(a), AdmitGrant(g, Directory[g.grp])
      PROVE  Faithful
  <2>1. g \in Grant /\ Directory[g.grp] \in TalkGroup
    BY DispatchAssumption, RelabelledType
  <2>2. Dispatch(g, Directory[g.grp], HeldAfter(g))
    BY <1>2 DEF AdmitGrant
  <2> QED BY <2>1, <2>2, DispatchIsFaithful
<1> QED BY <1>1, <1>2 DEF HandleGrant

LEMMA FlushHeldGrantIsFaithful ==
  ASSUME Good, FlushHeldGrant
  PROVE  Faithful
<1> DEFINE k == Head(flushq)
<1>1. active \in Pool /\ (flushq # <<>> => k \in Channels)
  BY DispatchAssumption DEF Good, PoolInv, Typed
<1>2. CASE FlushNothing \/ FlushReject
  BY <1>1, <1>2, QuietIsEdit, EditIsFaithful DEF FlushNothing, FlushReject
<1>3. ASSUME flushq # <<>>, held[k] # NoHold,
             NEW g \in Relabelled(Flushed(held[k])), FlushDispatch(g, Directory[g.grp])
      PROVE  Faithful
  <2>1. Flushed(held[k]) \in Grant
    BY <1>1, <1>3, ParkedType DEF Good, Typed
  <2>2. g \in Grant /\ Directory[g.grp] \in TalkGroup
    BY <2>1, RelabelledType
  <2>3. Dispatch(g, Directory[g.grp], Unparked(k))
    BY <1>3 DEF FlushDispatch
  <2> QED BY <1>1, <2>2, <2>3, DispatchIsFaithful
<1> QED BY <1>2, <1>3 DEF FlushHeldGrant

LEMMA NextIsFaithful ==
  ASSUME IInv, Next
  PROVE  Faithful
<1>1. Good /\ active \in Pool
  BY GoodIsIInv DEF Good, PoolInv
<1>2. CASE InCallEvent \/ GroupEvent \/ RunWatchdog \/ Shutdown \/ CallerEvent \/ Tick
  BY <1>1, <1>2, InCallEventIsEdit, GroupEventIsEdit, RunWatchdogIsEdit, ShutdownIsEdit,
     CallerEventIsEdit, TickIsEdit, EditIsFaithful
<1>3. CASE HoldTimer
  BY <1>1, <1>3, QuietIsEdit, EditIsFaithful DEF HoldTimer, HoldTimerFires
<1>4. CASE HandleGrant \/ FlushHeldGrant
  BY <1>1, <1>4, HandleGrantIsFaithful, FlushHeldGrantIsFaithful
<1> QED BY <1>2, <1>3, <1>4 DEF Next

-----------------------------------------------------------------------------
\* The theorems.

\* Whatever a grant ends, moves, preempts or starts, and whoever else ends calls: the
\* CallStart and CallEnd of a step account for what became of every device.
THEOREM EventsTellThePool == Spec => EventsAccountForPool
<1>1. IInv /\ [Next]_vars => [\A d \in Devices : Accounted(d)]_vars
  BY NextIsFaithful DEF Faithful
<1> QED BY <1>1, Invariance, PTL DEF Spec, EventsAccountForPool

\* A call is only preempted by a strictly more urgent one, when every device that could
\* have served it follows a call at least as urgent as the victim.
THEOREM PreemptionsAreJustified == Spec => PreemptionIsLastResort
<1>1. IInv /\ [Next]_vars => [\A e \in Preempted(out') : Justified(e)]_vars
  BY NextIsFaithful DEF Faithful
<1> QED BY <1>1, Invariance, PTL DEF Spec, PreemptionIsLastResort

\* No repeat grant, handoff, update, sync or talker change puts off an armed release, and
\* only a configured key cancels it.
THEOREM WindowsAreKept == Spec => MetadataWindowNeverExtended
<1>1. IInv /\ [Next]_vars =>
        [\A d \in Busy(active) \cap Busy(active') :
           Starts(out', d) = {} => WindowKept(active[d], active'[d])]_vars
  BY NextIsFaithful DEF Faithful
<1> QED BY <1>1, Invariance, PTL DEF Spec, MetadataWindowNeverExtended

\* No TETRA grant, announced or flushed, starts a call on a channel that carries another.
THEOREM TetraChannelsClear == Spec => []TetraStartsOnClearChannel
<1>1. Init => TetraStartsOnClearChannel
  BY DEF Init, TetraStartsOnClearChannel
<1>2. IInv /\ [Next]_vars /\ TetraStartsOnClearChannel => TetraStartsOnClearChannel'
  <2>1. IInv /\ Next => TetraStartsOnClearChannel'
    BY NextIsFaithful DEF Faithful
  <2>2. UNCHANGED vars /\ TetraStartsOnClearChannel => TetraStartsOnClearChannel'
    BY DEF vars, TetraStartsOnClearChannel, Busy
  <2> QED BY <2>1, <2>2
<1> QED BY <1>1, <1>2, Invariance, PTL DEF Spec
=============================================================================
