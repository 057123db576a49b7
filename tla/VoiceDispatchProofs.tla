------------------------- MODULE VoiceDispatchProofs -------------------------
(***************************************************************************)
(* For every set of devices, systems, talkgroups and grants: VoiceDispatch *)
(* is type correct, never spends two devices on one call and never leaves  *)
(* a call on a carrier its device cannot reach.                            *)
(*                                                                         *)
(* The argument is about pools, not about steps: most of what a handler    *)
(* does keeps every remaining call in its place (system, talkgroup, slot,  *)
(* carrier), and a pool all of whose calls are where they were is as good  *)
(* as before (KeptPool). Only starting a call and following one to another *)
(* carrier add a place, and both are looked at on their own.               *)
(***************************************************************************)
EXTENDS VoiceDispatch, TLAPS

Pool == [Devices -> Call \cup {NoCall}]

SamePlace(g, h) == g.sys = h.sys /\ g.grp = h.grp /\ g.ts = h.ts /\ g.freq = h.freq

Unique(p) ==
  \A d, e \in Busy(p) : d # e /\ p[d].g.grp # 0 => ~SameCall(p[d].g, p[e].g)

Window(p) == \A d \in Busy(p) : p[d].g.freq \in Tunable[d]

PoolInv(p) == p \in Pool /\ Unique(p) /\ Window(p)

\* A parked notification waits under its own channel: that is what makes the
\* grant a flush re-dispatches one with a frequency.
OwnChannel(h) == \A k \in Channels : h[k] # NoHold => ChannelOf(h[k].g) = k

HoldsInv(h) == h \in [Channels -> Hold \cup {NoHold}] /\ OwnChannel(h)

\* Every call of q is a call of p in the place it had there.
Kept(p, q) ==
  \A d \in Devices : q[d] # NoCall => p[d] # NoCall /\ SamePlace(q[d].g, p[d].g)

\* The inductive invariant.
IInv == TypeOK /\ OneCallPerTalkgroup /\ CallInsideWindow /\ OwnChannel(held)

-----------------------------------------------------------------------------
\* What the helpers on one call give back.

LEMMA NewCallType ==
  ASSUME NEW g \in Grant, NEW tg \in TalkGroup
  PROVE  NewCall(g, tg) \in Call /\ NewCall(g, tg).g = g
BY DispatchAssumption DEF NewCall, Call, Unarmed

LEMMA CallEdits ==
  ASSUME NEW c \in Call, NEW i \in 0..CallTimeout + 1
  PROVE  /\ \A b \in BOOLEAN : /\ [c EXCEPT !.idle = i, !.heard = b] \in Call
                              /\ [c EXCEPT !.idle = i, !.heard = b].g = c.g
         /\ \A n \in {Unarmed} \cup 0..EncFollow :
              /\ [c EXCEPT !.idle = i, !.enc = n] \in Call
              /\ [c EXCEPT !.idle = i, !.enc = n].g = c.g
BY DEF Call

LEMMA TouchedType ==
  ASSUME NEW c \in Call
  PROVE  Touched(c) \in Call /\ Touched(c).g = c.g
<1>1. 0 \in 0..CallTimeout + 1
  BY DispatchAssumption
<1>2. TRUE \in BOOLEAN
  OBVIOUS
<1> QED BY <1>1, <1>2, CallEdits, Zenon DEF Touched

LEMMA GrantEdits ==
  ASSUME NEW g \in Grant, NEW i \in Ids, NEW k \in KeyIds, NEW a \in BOOLEAN, NEW b \in BOOLEAN
  PROVE  /\ [g EXCEPT !.src = i] \in Grant /\ SamePlace([g EXCEPT !.src = i], g)
         /\ [g EXCEPT !.key = k] \in Grant /\ SamePlace([g EXCEPT !.key = k], g)
         /\ [g EXCEPT !.individual = a] \in Grant
         /\ [g EXCEPT !.wakeup = a] \in Grant
         /\ [g EXCEPT !.src = i, !.encrypted = a, !.emergency = b] \in Grant
         /\ SamePlace([g EXCEPT !.src = i, !.encrypted = a, !.emergency = b], g)
         /\ SamePlace(g, g)
BY DEF Grant, SamePlace

LEMMA CallGrant ==
  ASSUME NEW c \in Call, NEW g \in Grant
  PROVE  /\ c.g \in Grant
         /\ c # NoCall
         /\ [c EXCEPT !.g = g] \in Call
         /\ [c EXCEPT !.g = g].g = g
BY DispatchAssumption DEF Call

LEMMA BackfilledType ==
  ASSUME NEW c \in Call, NEW i \in Ids
  PROVE  Backfilled(c, i) \in Call /\ SamePlace(Backfilled(c, i).g, c.g)
<1>1. c.g \in Grant
  BY DEF Call
<1>2. CASE c.g.src # 0
  BY <1>2, SMT DEF Backfilled, SamePlace
<1>3. CASE c.g.src = 0
  <2> DEFINE h == [c.g EXCEPT !.src = i]
  <2>1. Backfilled(c, i) = [c EXCEPT !.g = h]
    BY <1>3 DEF Backfilled
  <2>2. h \in Grant /\ SamePlace(h, c.g)
    BY <1>1, GrantsAssumption DEF Grant, SamePlace
  <2> HIDE DEF h
  <2> QED BY <2>1, <2>2, CallGrant
<1> QED BY <1>2, <1>3

LEMMA RetunedType ==
  ASSUME NEW c \in Call, NEW g \in Grant
  PROVE  Retuned(c, g) \in Call /\ Retuned(c, g).g = g
BY TouchedType, CallGrant DEF Retuned

LEMMA PolicedType ==
  ASSUME NEW c \in Call, NEW x
  PROVE  /\ Policed(c, x) \in Call \cup {NoCall}
         /\ Policed(c, x) # NoCall => Policed(c, x).g = c.g
<1>1. [c EXCEPT !.enc = Unarmed] \in Call /\ [c EXCEPT !.enc = Unarmed].g = c.g
  BY DispatchAssumption DEF Call
<1>2. [c EXCEPT !.enc = IF @ = Unarmed THEN EncFollow ELSE @] \in Call
  BY DispatchAssumption DEF Call, Unarmed
<1>3. [c EXCEPT !.enc = IF @ = Unarmed THEN EncFollow ELSE @].g = c.g
  BY DEF Call
<1> QED BY <1>1, <1>2, <1>3 DEF Policed

LEMMA UpdatedType ==
  ASSUME NEW c \in Call, NEW u \in [src : Ids, encrypted : BOOLEAN, emergency : BOOLEAN]
  PROVE  Updated(c, u) \in Call /\ SamePlace(Updated(c, u).g, c.g)
<1> DEFINE i == IF u.src = 0 THEN c.g.src ELSE u.src
           a == c.g.encrypted \/ u.encrypted
           b == c.g.emergency \/ u.emergency
           h == [c.g EXCEPT !.src = i, !.encrypted = a, !.emergency = b]
<1>1. c.g \in Grant /\ i \in Ids /\ a \in BOOLEAN /\ b \in BOOLEAN
  BY DEF Call, Grant
<1>2. Updated(c, u) = [c EXCEPT !.g = h]
  BY DEF Updated, Call, Grant
<1>3. h \in Grant /\ SamePlace(h, c.g)
  BY <1>1 DEF Grant, SamePlace
<1> HIDE DEF h
<1> QED BY <1>2, <1>3, CallGrant

LEMMA AgedType ==
  ASSUME NEW c \in Call
  PROVE  Aged(c) \in Call /\ Aged(c).g = c.g
<1> DEFINE i == IF c.idle > CallTimeout THEN c.idle ELSE c.idle + 1
           n == IF c.enc > 0 THEN c.enc - 1 ELSE c.enc
<1>1. i \in 0..CallTimeout + 1 /\ n \in {Unarmed} \cup 0..EncFollow
  BY DispatchAssumption DEF Call, Unarmed
<1>2. Aged(c) = [c EXCEPT !.idle = i, !.enc = n]
  BY Zenon DEF Aged
<1> HIDE DEF i, n
<1>3. [c EXCEPT !.idle = i, !.enc = n] \in Call /\ [c EXCEPT !.idle = i, !.enc = n].g = c.g
  BY <1>1, CallEdits
<1> QED BY <1>2, <1>3, Zenon

-----------------------------------------------------------------------------
\* What the helpers on a pool give back.

\* A pool whose calls are all where they were before is as good as before.
LEMMA KeptPool ==
  ASSUME NEW p, PoolInv(p), NEW q \in Pool, Kept(p, q)
  PROVE  PoolInv(q) /\ \A g : Duplicates(p, g) = {} => Duplicates(q, g) = {}
<1>1. Unique(q)
  BY DEF PoolInv, Pool, Unique, Kept, SamePlace, SameCall, Busy
<1>2. Window(q)
  BY DEF PoolInv, Pool, Window, Kept, SamePlace, Busy
<1>3. ASSUME NEW g, Duplicates(p, g) = {}
      PROVE  Duplicates(q, g) = {}
  <2>1. CASE g.grp = 0
    BY <2>1 DEF Duplicates
  <2>2. CASE g.grp # 0
    <3>1. \A d \in Busy(p) : ~SameCall(p[d].g, g)
      BY <1>3, <2>2 DEF Duplicates
    <3>2. \A d \in Busy(q) : ~SameCall(q[d].g, g)
      BY <3>1 DEF Kept, SamePlace, SameCall, Busy
    <3> QED BY <2>2, <3>2 DEF Duplicates
  <2> QED BY <2>1, <2>2
<1> QED BY <1>1, <1>2, <1>3 DEF PoolInv

\* Ending calls moves none of the others.
LEMMA ReleasedPool ==
  ASSUME NEW p \in Pool, NEW ds
  PROVE  Released(p, ds) \in Pool /\ Kept(p, Released(p, ds))
BY DEF Released, Pool, Kept, SamePlace

\* Replacing one call by one in the same place, or by none.
LEMMA OneEdit ==
  ASSUME NEW p \in Pool, NEW d \in Devices, NEW c \in Call \cup {NoCall},
         c # NoCall => p[d] # NoCall /\ SamePlace(c.g, p[d].g)
  PROVE  [p EXCEPT ![d] = c] \in Pool /\ Kept(p, [p EXCEPT ![d] = c])
BY DEF Pool, Kept, SamePlace

LEMMA BusyCall ==
  ASSUME NEW p \in Pool
  PROVE  \A d \in Busy(p) : d \in Devices /\ p[d] \in Call /\ p[d].g \in Grant
BY DEF Busy, Pool, Call

LEMMA EndedEvents ==
  ASSUME NEW p \in Pool, NEW ds \in SUBSET Busy(p), NEW r \in Reasons
  PROVE  Ended(p, ds, r) \subseteq Event
<1> SUFFICES ASSUME NEW d \in ds
             PROVE  [kind |-> "end", dev |-> d, call |-> p[d], reason |-> r] \in Event
  BY DEF Ended
<1>1. d \in Devices /\ p[d] \in Call
  BY BusyCall
<1> QED BY <1>1 DEF Event

\* A call that starts must not repeat one that is up, and be within reach.
LEMMA StartedPool ==
  ASSUME NEW p, PoolInv(p), NEW d \in Devices, NEW c \in Call,
         Duplicates(p, c.g) = {}, c.g.freq \in Tunable[d]
  PROVE  PoolInv([p EXCEPT ![d] = c])
<1> DEFINE q == [p EXCEPT ![d] = c]
<1>1. q \in Pool /\ q[d] = c /\ \A e \in Devices \ {d} : q[e] = p[e]
  BY DEF PoolInv, Pool
<1>2. Window(q)
  BY <1>1 DEF PoolInv, Window, Busy
<1>3. \A e \in Busy(p) : c.g.grp # 0 => ~SameCall(p[e].g, c.g)
  BY DEF Duplicates
<1> HIDE DEF q
<1>4. ASSUME NEW a \in Busy(q), NEW b \in Busy(q), a # b, q[a].g.grp # 0
      PROVE  ~SameCall(q[a].g, q[b].g)
  <2>1. CASE a = d
    BY <1>1, <1>3, <1>4, <2>1 DEF Busy, SameCall
  <2>2. CASE b = d
    BY <1>1, <1>3, <1>4, <2>2 DEF Busy, SameCall
  <2>3. CASE a # d /\ b # d
    BY <1>1, <1>4, <2>3 DEF Busy, PoolInv, Unique
  <2> QED BY <2>1, <2>2, <2>3
<1>5. Unique(q)
  BY <1>4 DEF Unique
<1> QED BY <1>1, <1>2, <1>5 DEF PoolInv, q

-----------------------------------------------------------------------------
\* HandleGrant, bottom up: each stage leaves a good pool and typed events.

After == PoolInv(active') /\ out' \subseteq Event

LEMMA StartCallGood ==
  ASSUME NEW p, PoolInv(p), NEW evs \in SUBSET Event, NEW d \in Devices, NEW g \in Grant,
         NEW tg \in TalkGroup, g.freq \in Tunable[d], Duplicates(p, g) = {},
         StartCall(p, evs, d, g, tg)
  PROVE  After
<1> DEFINE c == NewCall(g, tg)
           q == [p EXCEPT ![d] = c]
           x == Policed(c, g.encrypted)
           r == [q EXCEPT ![d] = x]
<1>1. CASE active' = p /\ out' = evs
  BY <1>1 DEF After
<1>2. CASE /\ active' = r
           /\ out' = evs \cup {Started(d, c)}
                       \cup Ended(q, {e \in {d} : r[d] = NoCall}, "encrypted")
  <2>1. c \in Call /\ c.g = g
    BY NewCallType
  <2>2. x \in Call \cup {NoCall} /\ (x # NoCall => x.g = c.g)
    BY <2>1, PolicedType
  <2> HIDE DEF c, x
  <2>3. PoolInv(q)
    BY <2>1, StartedPool
  <2>4. q \in Pool /\ q[d] = c /\ c # NoCall
    BY <2>1, <2>3, CallGrant DEF PoolInv, Pool
  <2> HIDE DEF q
  <2>5. r \in Pool /\ Kept(q, r)
    BY <2>2, <2>4, OneEdit DEF SamePlace
  <2>6. PoolInv(r)
    BY <2>3, <2>5, KeptPool
  <2>7. Started(d, c) \in Event
    BY <2>1 DEF Started, Event
  <2> HIDE DEF r
  <2>8. {e \in {d} : r[d] = NoCall} \in SUBSET Busy(q)
    BY <2>4 DEF Busy
  <2>9. Ended(q, {e \in {d} : r[d] = NoCall}, "encrypted") \subseteq Event
    BY <2>4, <2>8, EndedEvents DEF Reasons
  <2> QED BY <1>2, <2>6, <2>7, <2>9 DEF After
<1> QED BY <1>1, <1>2 DEF StartCall

LEMMA PreemptGood ==
  ASSUME NEW p, PoolInv(p), NEW evs \in SUBSET Event, NEW g \in Grant, NEW tg \in TalkGroup,
         Duplicates(p, g) = {}, PreemptOrDrop(p, evs, g, tg)
  PROVE  After
<1>1. CASE active' = p /\ out' = evs
  BY <1>1 DEF After
<1>2. CASE active' = p /\ out' = evs \cup {[kind |-> "unserved", call |-> NewCall(g, tg)]}
  BY <1>2, NewCallType DEF After, Event
<1>3. ASSUME NEW v \in LowestPriorityActiveForFrequency(p, g.freq),
             StartCall(Released(p, {v}), evs \cup Ended(p, {v}, "preempted"), v, g, tg)
      PROVE  After
  <2>1. v \in Devices /\ g.freq \in Tunable[v] /\ v \in Busy(p)
    BY DEF LowestPriorityActiveForFrequency, Capable
  <2>2. PoolInv(Released(p, {v})) /\ Duplicates(Released(p, {v}), g) = {}
    BY ReleasedPool, KeptPool DEF PoolInv
  <2>3. evs \cup Ended(p, {v}, "preempted") \subseteq Event
    BY <2>1, EndedEvents DEF PoolInv, Reasons
  <2> QED BY <1>3, <2>1, <2>2, <2>3, StartCallGood
<1> QED BY <1>1, <1>2, <1>3, Zenon DEF PreemptOrDrop

LEMMA ChannelOfType ==
  ASSUME NEW g \in Grant, g.freq # 0
  PROVE  ChannelOf(g) \in Channels
BY DEF ChannelOf, Channels, Grant

LEMMA AllocateGood ==
  ASSUME NEW p, PoolInv(p), NEW evs \in SUBSET Event, NEW g \in Grant, NEW tg \in TalkGroup,
         NEW h, HoldsInv(h), g.freq # 0, Duplicates(p, g) = {}, Allocate(p, evs, g, tg, h)
  PROVE  After /\ HoldsInv(held')
<1>1. CASE /\ active' = p
           /\ out' = evs
           /\ held' = [h EXCEPT ![ChannelOf(g)] =
                         IF @ = NoHold THEN [g |-> g, wait |-> HoldWindow, armed |-> TRUE]
                         ELSE [@ EXCEPT !.g = g]]
  <2> DEFINE k == ChannelOf(g)
             x == IF h[k] = NoHold THEN [g |-> g, wait |-> HoldWindow, armed |-> TRUE]
                  ELSE [h[k] EXCEPT !.g = g]
  <2>1. k \in Channels /\ h[k] \in Hold \cup {NoHold}
    BY ChannelOfType DEF HoldsInv
  <2>2. [g |-> g, wait |-> HoldWindow, armed |-> TRUE] \in Hold
    BY DispatchAssumption DEF Hold
  <2>3. x \in Hold /\ x.g = g
    BY <2>1, <2>2 DEF Hold
  <2>4. held' = [h EXCEPT ![k] = x]
    BY <1>1
  <2>5. ChannelOf(x.g) = k
    BY <2>3
  <2> HIDE DEF k, x
  <2>6. OwnChannel(held')
    BY <2>1, <2>4, <2>5 DEF HoldsInv, OwnChannel
  <2> QED BY <1>1, <2>1, <2>3, <2>4, <2>6 DEF After, HoldsInv
<1>2. ASSUME held' = h, NEW d \in FindFreeForFrequency(p, g.freq), StartCall(p, evs, d, g, tg)
      PROVE  After /\ HoldsInv(held')
  <2>1. d \in Devices /\ g.freq \in Tunable[d]
    BY DEF FindFreeForFrequency, FreeFor, Capable
  <2> QED BY <1>2, <2>1, StartCallGood
<1>3. CASE held' = h /\ PreemptOrDrop(p, evs, g, tg)
  BY <1>3, PreemptGood
<1> QED BY <1>1, <1>2, <1>3, Zenon DEF Allocate

\* A source filled in, or nothing but a touch: the call stays in its place.
LEMMA FoldedPool ==
  ASSUME NEW p, PoolInv(p), NEW d \in Busy(p), NEW i \in Ids
  PROVE  /\ PoolInv([p EXCEPT ![d] = Touched(Backfilled(@, i))])
         /\ PoolInv([p EXCEPT ![d] = Touched(@)])
<1>1. p \in Pool /\ d \in Devices /\ p[d] \in Call /\ p[d] # NoCall /\ p[d].g \in Grant
  BY BusyCall, CallGrant DEF PoolInv
<1>2. Backfilled(p[d], i) \in Call /\ SamePlace(Backfilled(p[d], i).g, p[d].g)
  BY <1>1, BackfilledType
<1>3. /\ Touched(Backfilled(p[d], i)) \in Call
      /\ SamePlace(Touched(Backfilled(p[d], i)).g, p[d].g)
  BY <1>2, TouchedType
<1>4. Touched(p[d]) \in Call /\ SamePlace(Touched(p[d]).g, p[d].g)
  BY <1>1, TouchedType DEF SamePlace
<1>5. PoolInv([p EXCEPT ![d] = Touched(Backfilled(p[d], i))])
  BY <1>1, <1>3, OneEdit, KeptPool
<1>6. PoolInv([p EXCEPT ![d] = Touched(p[d])])
  BY <1>1, <1>4, OneEdit, KeptPool
<1> QED BY <1>5, <1>6

LEMMA FoldGood ==
  ASSUME NEW p, PoolInv(p), NEW evs \in SUBSET Event, NEW g \in Grant, NEW tg \in TalkGroup,
         NEW h, HoldsInv(h), g.freq # 0, Duplicates(p, g) = {}, FoldOrAllocate(p, evs, g, tg, h)
  PROVE  After /\ HoldsInv(held')
<1>1. ASSUME NEW d \in Sourceless(p, g), active' = [p EXCEPT ![d] = Touched(Backfilled(@, g.src))],
             out' = evs, held' = h
      PROVE  After /\ HoldsInv(held')
  <2>1. d \in Busy(p) /\ g.src \in Ids
    BY DEF Sourceless, OnChannel, Grant
  <2> QED BY <1>1, <2>1, FoldedPool DEF After
<1>2. ASSUME NEW d \in OnChannel(p, g), active' = [p EXCEPT ![d] = Touched(@)],
             out' = evs, held' = h
      PROVE  After /\ HoldsInv(held')
  <2>1. d \in Busy(p) /\ g.src \in Ids
    BY DEF OnChannel, Grant
  <2> QED BY <1>2, <2>1, FoldedPool DEF After
<1>3. CASE Allocate(p, evs, g, tg, h)
  BY <1>3, AllocateGood
<1> QED BY <1>1, <1>2, <1>3, Zenon DEF FoldOrAllocate

LEMMA SupersedeGood ==
  ASSUME NEW p, PoolInv(p), NEW evs \in SUBSET Event, NEW g \in Grant, NEW tg \in TalkGroup,
         NEW h, HoldsInv(h), g.freq # 0, Duplicates(p, g) = {}, Supersede(p, evs, g, tg, h)
  PROVE  After /\ HoldsInv(held')
<1>1. CASE FoldOrAllocate(p, evs, g, tg, h)
  BY <1>1, FoldGood
<1>2. ASSUME NEW d \in Provisional(p, g),
             FoldOrAllocate(Released(p, {d}), evs \cup Ended(p, {d}, "normal"), g, tg, h)
      PROVE  After /\ HoldsInv(held')
  <2>1. d \in Busy(p)
    BY DEF Provisional, Sourceless, OnChannel
  <2>2. PoolInv(Released(p, {d})) /\ Duplicates(Released(p, {d}), g) = {}
    BY ReleasedPool, KeptPool DEF PoolInv
  <2>3. evs \cup Ended(p, {d}, "normal") \subseteq Event
    BY <2>1, EndedEvents DEF PoolInv, Reasons
  <2> QED BY <1>2, <2>2, <2>3, FoldGood
<1> QED BY <1>1, <1>2 DEF Supersede

LEMMA RebindGood ==
  ASSUME PoolInv(active), NEW g \in Grant, NEW tg \in TalkGroup, NEW h, HoldsInv(h),
         g.freq # 0, NEW d \in Duplicates(active, g), Rebind(d, g, tg, h)
  PROVE  After /\ HoldsInv(held')
<1> DEFINE q == Released(active, {d})
<1>1. active \in Pool /\ d \in Busy(active) /\ SameCall(active[d].g, g) /\ g.grp # 0
  BY DEF PoolInv, Duplicates
<1>2. q \in Pool /\ PoolInv(q)
  BY <1>1, ReleasedPool, KeptPool
<1>3. Busy(q) \subseteq Busy(active) \ {d} /\ \A e \in Busy(q) : q[e] = active[e]
  BY DEF Released, Busy
<1>4. Duplicates(q, g) = {}
  <2> SUFFICES ASSUME NEW e \in Busy(q), SameCall(q[e].g, g) PROVE FALSE
    BY DEF Duplicates
  <2>1. e \in Busy(active) /\ e # d /\ SameCall(active[d].g, active[e].g) /\ active[d].g.grp # 0
    BY <1>1, <1>3 DEF SameCall
  <2> QED BY <1>1, <2>1 DEF PoolInv, Unique
<1>5. Ended(active, {d}, "normal") \in SUBSET Event
  BY <1>1, EndedEvents DEF Reasons
<1>6. Supersede(q, Ended(active, {d}, "normal"), g, tg, h)
  BY DEF Rebind
<1> HIDE DEF q
<1> QED BY <1>2, <1>4, <1>5, <1>6, SupersedeGood

\* A handoff is the one edit that moves a call, and it moves it within reach.
LEMMA FollowGood ==
  ASSUME PoolInv(active), NEW g \in Grant, NEW h, HoldsInv(h),
         NEW d \in Duplicates(active, g), Follow(d, g, h)
  PROVE  After /\ HoldsInv(held')
<1> DEFINE c == Retuned(active[d], g)
<1>1. active \in Pool /\ d \in Busy(active) /\ SameCall(active[d].g, g) /\ g.grp # 0
  BY DEF PoolInv, Duplicates
<1>2. d \in Devices /\ active[d] \in Call
  BY <1>1, BusyCall
<1>3. c \in Call /\ c.g = g /\ c # NoCall
  BY <1>2, RetunedType, CallGrant
<1> HIDE DEF c
<1> DEFINE q == [active EXCEPT ![d] = c]
<1>4. q \in Pool /\ q[d] = c /\ \A e \in Devices \ {d} : q[e] = active[e]
  BY <1>1, <1>2, <1>3 DEF Pool
<1> HIDE DEF q
<1>5. Unique(q)
  <2> SUFFICES ASSUME NEW a \in Busy(q), NEW b \in Busy(q), a # b, q[a].g.grp # 0
               PROVE  ~SameCall(q[a].g, q[b].g)
    BY DEF Unique
  <2>1. /\ a \in Busy(active) /\ b \in Busy(active)
        /\ SameCall(q[a].g, active[a].g) /\ SameCall(q[b].g, active[b].g)
    BY <1>1, <1>2, <1>3, <1>4 DEF Busy, SameCall
  <2>2. ~SameCall(active[a].g, active[b].g)
    BY <2>1 DEF PoolInv, Unique, SameCall
  <2> QED BY <2>1, <2>2 DEF SameCall
<1>6. Window(q)
  <2>1. g.freq \in Tunable[d]
    BY DEF Follow
  <2> QED BY <1>3, <1>4, <2>1 DEF PoolInv, Window, Busy
<1>7. active' = q /\ out' = {} /\ held' = h
  BY DEF Follow, c, q
<1> QED BY <1>4, <1>5, <1>6, <1>7 DEF After, PoolInv

LEMMA DispatchGood ==
  ASSUME PoolInv(active), NEW g \in Grant, NEW tg \in TalkGroup, NEW h, HoldsInv(h),
         g.freq # 0, Dispatch(g, tg, h)
  PROVE  After /\ HoldsInv(held')
<1>1. CASE Duplicates(active, g) = {} /\ Supersede(active, {}, g, tg, h)
  BY <1>1, SupersedeGood
<1>2. ASSUME NEW d \in Duplicates(active, g), Refresh(d, g, h)
      PROVE  After /\ HoldsInv(held')
  <2>1. d \in Busy(active) /\ g.src \in Ids
    BY DEF Duplicates, Grant
  <2> QED BY <1>2, <2>1, FoldedPool DEF Refresh, After
<1>3. ASSUME NEW d \in Duplicates(active, g), Follow(d, g, h)
      PROVE  After /\ HoldsInv(held')
  BY <1>3, FollowGood
<1>4. ASSUME NEW d \in Duplicates(active, g), Rebind(d, g, tg, h)
      PROVE  After /\ HoldsInv(held')
  BY <1>4, RebindGood
<1> QED BY <1>1, <1>2, <1>3, <1>4, Zenon DEF Dispatch

-----------------------------------------------------------------------------
\* The other handlers.

Typed ==
  HoldsInv(held) /\ flushq \in Seq(Channels) /\ Len(flushq) <= FlushCap /\ running \in BOOLEAN

Good == PoolInv(active) /\ out \subseteq Event /\ Typed

LEMMA GoodIsIInv == Good <=> IInv
BY DEF Good, Typed, IInv, PoolInv, Pool, Unique, Window, HoldsInv, TypeOK,
       OneCallPerTalkgroup, CallInsideWindow

\* Ending any set of calls.
LEMMA ReleaseGood ==
  ASSUME PoolInv(active), NEW ds, active' = Released(active, ds)
  PROVE  PoolInv(active')
BY ReleasedPool, KeptPool DEF PoolInv

\* Editing any set of calls in place and putting them before the policy.
LEMMA PolicedGood ==
  ASSUME PoolInv(active), NEW p \in Pool, Kept(active, p), NEW q \in Pool, Kept(p, q), active' = q
  PROVE  PoolInv(active') /\ EncryptedEnds(p, q) \subseteq Event
<1>1. PoolInv(p) /\ PoolInv(q)
  BY KeptPool
<1>2. {d \in Busy(p) : q[d] = NoCall} \in SUBSET Busy(p)
  OBVIOUS
<1>3. EncryptedEnds(p, q) \subseteq Event
  BY <1>2, EndedEvents DEF EncryptedEnds, Reasons
<1> QED BY <1>1, <1>3

LEMMA OnePoliced ==
  ASSUME PoolInv(active), NEW d \in Devices, active[d] # NoCall,
         NEW c \in Call, SamePlace(c.g, active[d].g), NEW x,
         active' = [[active EXCEPT ![d] = c] EXCEPT ![d] = Policed(c, x)]
  PROVE  PoolInv(active') /\ EncryptedEnds([active EXCEPT ![d] = c], active') \subseteq Event
<1> DEFINE p == [active EXCEPT ![d] = c]
           y == Policed(c, x)
           q == [p EXCEPT ![d] = y]
<1>1. active \in Pool /\ c # NoCall
  BY CallGrant DEF PoolInv, Call
<1>2. p \in Pool /\ Kept(active, p) /\ p[d] = c
  BY <1>1, OneEdit DEF Pool
<1>3. y \in Call \cup {NoCall} /\ (y # NoCall => SamePlace(y.g, c.g))
  BY PolicedType DEF SamePlace
<1> HIDE DEF p, y
<1>4. q \in Pool /\ Kept(p, q)
  BY <1>1, <1>2, <1>3, OneEdit
<1>5. active' = q
  BY DEF p, y
<1> HIDE DEF q
<1>6. PoolInv(active') /\ EncryptedEnds(p, active') \subseteq Event
  BY <1>2, <1>4, <1>5, PolicedGood
<1> QED BY <1>6 DEF p

LEMMA RelabelledType ==
  ASSUME NEW a \in Grant, NEW g \in Relabelled(a)
  PROVE  g \in Grant /\ g.freq = a.freq /\ Directory[g.grp] \in TalkGroup
<1>1. [a EXCEPT !.individual = TRUE] \in Grant /\ [a EXCEPT !.individual = TRUE].freq = a.freq
  <2>1. \A b \in BOOLEAN : /\ [a EXCEPT !.individual = b] \in Grant
                            /\ [a EXCEPT !.individual = b].freq = a.freq
    BY DEF Grant
  <2>2. TRUE \in BOOLEAN
    OBVIOUS
  <2> QED BY <2>1, <2>2, Zenon
<1>2. g \in Grant /\ g.freq = a.freq
  BY <1>1, Zenon DEF Relabelled
<1> QED BY <1>2, GrantsAssumption DEF Grant

LEMMA ParkedType ==
  ASSUME HoldsInv(held), NEW k \in Channels, held[k] # NoHold
  PROVE  Flushed(held[k]) \in Grant /\ Flushed(held[k]).freq # 0 /\ HoldsInv(Unparked(k))
<1>1. held[k].g \in Grant /\ held[k].g.freq # 0
  <2>1. held[k].g \in Grant /\ ChannelOf(held[k].g) = k
    BY DEF HoldsInv, OwnChannel, Hold
  <2> QED BY <2>1, GrantsAssumption DEF ChannelOf, Channels
<1>2. \A b \in BOOLEAN : /\ [held[k].g EXCEPT !.wakeup = b] \in Grant
                          /\ [held[k].g EXCEPT !.wakeup = b].freq = held[k].g.freq
  BY <1>1 DEF Grant
<1>3. TRUE \in BOOLEAN
  OBVIOUS
<1>4. Flushed(held[k]) \in Grant /\ Flushed(held[k]).freq # 0
  BY <1>1, <1>2, <1>3, Zenon DEF Flushed
<1>5. HoldsInv(Unparked(k))
  BY DEF HoldsInv, OwnChannel, Unparked
<1> QED BY <1>4, <1>5

LEMMA HeldAfterType ==
  ASSUME HoldsInv(held), NEW g
  PROVE  HoldsInv(HeldAfter(g))
BY DEF HoldsInv, OwnChannel, HeldAfter

\* What is left to show when a step has dealt with the pool.
LEMMA AfterGood ==
  ASSUME After, Typed'
  PROVE  Good'
BY DEF After, Good, PoolInv, Pool, Unique, Window, Busy

LEMMA PoolUnchanged ==
  ASSUME PoolInv(active), UNCHANGED active, out' = {}
  PROVE  After
BY DEF After

LEMMA HandleGrantGood ==
  ASSUME Good, HandleGrant
  PROVE  Good'
<1>1. ASSUME NEW a \in Announced, RejectGrant(a)
      PROVE  Good'
  BY <1>1, HeldAfterType DEF RejectGrant, Good, Typed, HoldsInv, OwnChannel,
                                  PoolInv, Pool, Unique, Window, Busy
<1>2. ASSUME NEW a \in Announced, NEW g \in Relabelled(a), AdmitGrant(g, Directory[g.grp])
      PROVE  Good'
  <2>1. g \in Grant /\ Directory[g.grp] \in TalkGroup
    BY DispatchAssumption, RelabelledType
  <2>2. HoldsInv(HeldAfter(g))
    BY HeldAfterType DEF Good, Typed
  <2>3. After /\ HoldsInv(held')
    BY <1>2, <2>1, <2>2, DispatchGood DEF AdmitGrant, Good
  <2>4. UNCHANGED <<flushq, running>>
    BY <1>2 DEF AdmitGrant
  <2>5. Typed'
    BY <2>3, <2>4 DEF Good, Typed, HoldsInv, OwnChannel
  <2> QED BY <2>3, <2>5, AfterGood
<1> QED BY <1>1, <1>2 DEF HandleGrant

LEMMA FlushHeldGrantGood ==
  ASSUME Good, FlushHeldGrant
  PROVE  Good'
<1> DEFINE k == Head(flushq)
<1>1. flushq # <<>> => /\ k \in Channels
                       /\ Tail(flushq) \in Seq(Channels) /\ Len(Tail(flushq)) <= FlushCap
  BY DispatchAssumption DEF Good, Typed
<1> HIDE DEF k
<1>2. CASE FlushNothing
  <2>1. Typed'
    BY <1>1, <1>2 DEF FlushNothing, Good, Typed, HoldsInv, OwnChannel
  <2> QED BY <1>2, <2>1, PoolUnchanged, AfterGood DEF FlushNothing, Good
<1>3. CASE FlushReject
  <2>1. held' = Unparked(k) /\ flushq # <<>> /\ held[k] # NoHold
    BY <1>3 DEF FlushReject, k
  <2>2. HoldsInv(Unparked(k))
    BY <1>1, <2>1, ParkedType DEF Good, Typed
  <2>3. Typed'
    BY <1>1, <1>3, <2>1, <2>2 DEF FlushReject, Good, Typed, HoldsInv, OwnChannel
  <2> QED BY <1>3, <2>3, PoolUnchanged, AfterGood DEF FlushReject, Good
<1>4. ASSUME flushq # <<>>, held[k] # NoHold,
             NEW g \in Relabelled(Flushed(held[k])), FlushDispatch(g, Directory[g.grp])
      PROVE  Good'
  <2>1. Flushed(held[k]) \in Grant /\ Flushed(held[k]).freq # 0 /\ HoldsInv(Unparked(k))
    BY <1>1, <1>4, ParkedType DEF Good, Typed
  <2>2. g \in Grant /\ g.freq # 0 /\ Directory[g.grp] \in TalkGroup
    BY <2>1, RelabelledType
  <2>3. Dispatch(g, Directory[g.grp], Unparked(k))
    BY <1>4 DEF FlushDispatch, k
  <2>4. After /\ HoldsInv(held')
    BY <2>1, <2>2, <2>3, DispatchGood DEF Good
  <2>5. Typed'
    BY <1>1, <1>4, <2>4 DEF FlushDispatch, Good, Typed, HoldsInv, OwnChannel
  <2> QED BY <2>4, <2>5, AfterGood
<1> QED BY <1>2, <1>3, <1>4 DEF FlushHeldGrant, k

\* Steps that leave the parked notifications and the queue alone.
LEMMA TypedUnchanged ==
  ASSUME Typed, UNCHANGED <<held, flushq, running>>
  PROVE  Typed'
BY DEF Typed, HoldsInv, OwnChannel

LEMMA InCallEventGood ==
  ASSUME Good, InCallEvent
  PROVE  Good'
<1>1. ASSUME NEW d \in Devices, NEW u \in Syncs, HandleCallEncryption(d, u)
      PROVE  Good'
  <2> DEFINE c == [active[d] EXCEPT !.g.key = u.key]
  <2>1. active[d] \in Call /\ active[d].g \in Grant /\ u.key \in KeyIds
    BY <1>1, DispatchAssumption DEF HandleCallEncryption, Good, PoolInv, Pool, Call
  <2>2. c = [active[d] EXCEPT !.g = [active[d].g EXCEPT !.key = u.key]]
    OBVIOUS
  <2>3. /\ [active[d].g EXCEPT !.key = u.key] \in Grant
        /\ SamePlace([active[d].g EXCEPT !.key = u.key], active[d].g)
    BY <2>1 DEF Grant, SamePlace
  <2>4. c \in Call /\ SamePlace(c.g, active[d].g)
    BY <2>1, <2>2, <2>3, CallGrant
  <2>5. /\ active' = [[active EXCEPT ![d] = c] EXCEPT ![d] = Policed(c, u.encrypted)]
        /\ out' = EncryptedEnds([active EXCEPT ![d] = c], active')
    BY <1>1 DEF HandleCallEncryption
  <2> HIDE DEF c
  <2>6. active[d] # NoCall /\ PoolInv(active)
    BY <1>1 DEF HandleCallEncryption, Good
  <2>7. PoolInv(active') /\ EncryptedEnds([active EXCEPT ![d] = c], active') \subseteq Event
    BY <2>4, <2>5, <2>6, OnePoliced
  <2>8. out' \subseteq Event
    BY <2>5, <2>7, Zenon
  <2>9. After
    BY <2>7, <2>8 DEF After
  <2> QED BY <1>1, <2>9, TypedUnchanged, AfterGood DEF HandleCallEncryption, Good
<1>2. ASSUME NEW d \in Devices, NEW u \in Updates, HandleCallSourceUpdate(d, u)
      PROVE  Good'
  <2> DEFINE c == Updated(active[d], u)
  <2>1. active[d] \in Call
    BY <1>2 DEF HandleCallSourceUpdate, Good, PoolInv, Pool
  <2>2. c \in Call /\ SamePlace(c.g, active[d].g)
    BY <2>1, UpdatedType, DispatchAssumption
  <2>3. /\ active' = [[active EXCEPT ![d] = c] EXCEPT ![d] = Policed(c, c.g.encrypted)]
        /\ out' = EncryptedEnds([active EXCEPT ![d] = c], active')
    BY <1>2 DEF HandleCallSourceUpdate
  <2> HIDE DEF c
  <2>4. active[d] # NoCall /\ PoolInv(active)
    BY <1>2 DEF HandleCallSourceUpdate, Good
  <2>5. PoolInv(active') /\ EncryptedEnds([active EXCEPT ![d] = c], active') \subseteq Event
    BY <2>2, <2>3, <2>4, OnePoliced
  <2>6. out' \subseteq Event
    BY <2>3, <2>5, Zenon
  <2>7. After
    BY <2>5, <2>6 DEF After
  <2> QED BY <1>2, <2>7, TypedUnchanged, AfterGood DEF HandleCallSourceUpdate, Good
<1>3. ASSUME NEW s \in Systems, NEW src \in Radios, HandleTalkerAlias(s, src)
      PROVE  Good'
  <2>1. PICK d \in Busy(active) : /\ active' = Released(active, {d})
                                  /\ out' = Ended(active, {d}, "encrypted")
    BY <1>3 DEF HandleTalkerAlias
  <2>2. PoolInv(active')
    BY <2>1, ReleaseGood DEF Good
  <2>3. out' \subseteq Event
    BY <2>1, EndedEvents DEF Good, PoolInv, Reasons
  <2> QED BY <1>3, <2>2, <2>3, TypedUnchanged, AfterGood DEF HandleTalkerAlias, Good, After
<1> QED BY <1>1, <1>2, <1>3 DEF InCallEvent

LEMMA TalkerGood ==
  ASSUME Good, NEW s \in Systems, NEW grp \in Ids, NEW src \in Radios,
         HandleCallTalker(s, grp, src)
  PROVE  Good'
<1> DEFINE ds == CallsBySystemGroup(s, grp)
           p == [d \in Devices |->
                  IF d \in ds THEN Updated(active[d], Talking(src)) ELSE active[d]]
           q == [d \in Devices |->
                  IF d \in ds THEN Policed(p[d], p[d].g.encrypted) ELSE p[d]]
           cuts == {d \in ds : active[d].g.tetra /\ active[d].g.src \notin {0, src}}
<1>1. ds \subseteq Busy(active) /\ cuts \subseteq ds
  BY DEF CallsBySystemGroup
<1>2. \A d \in ds : d \in Devices /\ active[d] # NoCall /\ active[d] \in Call
  BY <1>1 DEF Good, PoolInv, Pool, Busy
<1>3. Talking(src) \in [src : Ids, encrypted : BOOLEAN, emergency : BOOLEAN]
  BY DispatchAssumption DEF Talking
<1>4. /\ active' = q
      /\ out' = {Segment(d, active[d]) : d \in cuts} \cup EncryptedEnds(p, active')
  BY Zenon DEF HandleCallTalker
<1> HIDE DEF ds, cuts
<1>5. \A d \in ds : /\ p[d] \in Call
                    /\ SamePlace(p[d].g, active[d].g)
  BY <1>2, <1>3, UpdatedType
<1>6. p \in Pool /\ Kept(active, p)
  BY <1>2, <1>5 DEF Good, PoolInv, Pool, Kept, SamePlace
<1>7. \A d \in Devices : d \notin ds => p[d] = active[d]
  OBVIOUS
<1> HIDE DEF p
<1>8. \A d \in ds : /\ Policed(p[d], p[d].g.encrypted) \in Call \cup {NoCall}
                    /\ Policed(p[d], p[d].g.encrypted) # NoCall =>
                         Policed(p[d], p[d].g.encrypted).g = p[d].g
  BY <1>5, PolicedType
<1>9. q \in Pool /\ Kept(p, q)
  <2>1. \A d \in Devices : q[d] = IF d \in ds THEN Policed(p[d], p[d].g.encrypted) ELSE p[d]
    OBVIOUS
  <2>2. \A d \in Devices : q[d] \in Call \cup {NoCall}
    BY <1>6, <1>8, <2>1 DEF Pool
  <2>3. \A d \in ds : p[d] # NoCall
    BY <1>5, DispatchAssumption
  <2>4. \A d \in Devices : q[d] # NoCall => p[d] # NoCall /\ SamePlace(q[d].g, p[d].g)
    BY <1>8, <2>1, <2>3 DEF SamePlace
  <2>5. q \in Pool
    BY <2>2 DEF Pool
  <2> HIDE DEF q
  <2> QED BY <2>4, <2>5 DEF Kept
<1> HIDE DEF q
<1>10. PoolInv(active') /\ EncryptedEnds(p, active') \subseteq Event
  BY <1>4, <1>6, <1>9, PolicedGood DEF Good
<1>11. {Segment(d, active[d]) : d \in cuts} \subseteq Event
  BY <1>1, <1>2 DEF Segment, Event
<1>12. After
  BY <1>4, <1>10, <1>11 DEF After
<1> QED BY <1>12, TypedUnchanged, AfterGood DEF HandleCallTalker, Good

LEMMA GroupEventGood ==
  ASSUME Good, GroupEvent
  PROVE  Good'
<1>1. ASSUME NEW s \in Systems, NEW grp \in Ids, HandleCallRelease(s, grp)
      PROVE  Good'
  <2> DEFINE ds == CallsBySystemGroup(s, grp)
  <2>1. ds \in SUBSET Busy(active)
    BY DEF CallsBySystemGroup
  <2>2. active' = Released(active, ds) /\ out' = Ended(active, ds, "released")
    BY <1>1 DEF HandleCallRelease
  <2> HIDE DEF ds
  <2>3. After
    BY <2>1, <2>2, ReleaseGood, EndedEvents DEF Good, After, PoolInv, Reasons
  <2> QED BY <1>1, <2>3, TypedUnchanged, AfterGood DEF HandleCallRelease, Good
<1> QED BY <1>1, TalkerGood DEF GroupEvent

LEMMA RunWatchdogGood ==
  ASSUME Good, RunWatchdog
  PROVE  Good'
<1>1. PoolInv(active')
  BY ReleaseGood DEF RunWatchdog, Good
<1>2. /\ DueEncrypted \in SUBSET Busy(active)
      /\ {d \in Stale : active[d].heard} \in SUBSET Busy(active)
      /\ {d \in Stale : ~active[d].heard} \in SUBSET Busy(active)
  BY DEF DueEncrypted, Stale
<1>3. active \in Pool
  BY DEF Good, PoolInv
<1>4. /\ Ended(active, DueEncrypted, "encrypted") \subseteq Event
      /\ Ended(active, {d \in Stale : active[d].heard}, "normal") \subseteq Event
      /\ Ended(active, {d \in Stale : ~active[d].heard}, "timeout") \subseteq Event
  BY <1>2, <1>3, EndedEvents DEF Reasons
<1>5. out' \subseteq Event
  BY <1>4 DEF RunWatchdog
<1> QED BY <1>1, <1>5, TypedUnchanged, AfterGood DEF RunWatchdog, Good, After

LEMMA ShutdownGood ==
  ASSUME Good, Shutdown
  PROVE  Good'
<1>1. After
  <2>1. PoolInv(active')
    BY ReleaseGood DEF Shutdown, Good
  <2>2. out' \subseteq Event
    BY EndedEvents DEF Shutdown, Good, PoolInv, Reasons
  <2> QED BY <2>1, <2>2 DEF After
<1>2. Typed'
  BY DEF Shutdown, Good, Typed, HoldsInv, OwnChannel
<1> QED BY <1>1, <1>2, AfterGood

LEMMA HoldTimerGood ==
  ASSUME Good, HoldTimer
  PROVE  Good'
<1> PICK k \in Channels : HoldTimerFires(k)
  BY DEF HoldTimer
<1>1. After
  BY PoolUnchanged DEF HoldTimerFires, Good
<1>2. held[k] \in Hold /\ ChannelOf(held[k].g) = k
  BY DEF HoldTimerFires, Good, Typed, HoldsInv, OwnChannel
<1>3. [held[k] EXCEPT !.armed = FALSE] \in Hold /\ [held[k] EXCEPT !.armed = FALSE].g = held[k].g
  <2>1. \A b \in BOOLEAN : /\ [held[k] EXCEPT !.armed = b] \in Hold
                            /\ [held[k] EXCEPT !.armed = b].g = held[k].g
    BY <1>2 DEF Hold
  <2>2. FALSE \in BOOLEAN
    OBVIOUS
  <2> QED BY <2>1, <2>2, Zenon
<1> DEFINE x == [held[k] EXCEPT !.armed = FALSE]
<1>4. held' = [held EXCEPT ![k] = x]
  BY DEF HoldTimerFires
<1> HIDE DEF x
<1>5. x \in Hold /\ ChannelOf(x.g) = k
  BY <1>2, <1>3, Zenon DEF x
<1>6. HoldsInv(held')
  BY <1>4, <1>5 DEF Good, Typed, HoldsInv, OwnChannel
<1>7. flushq' \in Seq(Channels) /\ Len(flushq') <= FlushCap
  BY DispatchAssumption DEF HoldTimerFires, Good, Typed
<1>8. running' \in BOOLEAN
  BY DEF HoldTimerFires, Good, Typed
<1>9. Typed'
  BY <1>6, <1>7, <1>8 DEF Typed, HoldsInv, OwnChannel
<1> QED BY <1>1, <1>9, AfterGood

LEMMA CallerEventGood ==
  ASSUME Good, CallerEvent
  PROVE  Good'
<1>1. ASSUME NEW d \in Devices, EndCall(d)
      PROVE  Good'
  <2>1. active[d] # NoCall /\ active' = Released(active, {d}) /\ out' = Ended(active, {d}, "external")
    BY <1>1 DEF EndCall
  <2>2. {d} \in SUBSET Busy(active)
    BY <2>1 DEF Busy
  <2>3. After
    BY <2>1, <2>2, ReleaseGood, EndedEvents DEF Good, After, PoolInv, Reasons
  <2> QED BY <1>1, <2>3, TypedUnchanged, AfterGood DEF EndCall, Good
<1>2. ASSUME NEW d \in Devices, Touch(d)
      PROVE  Good'
  <2>1. d \in Busy(active) /\ active' = [active EXCEPT ![d] = Touched(@)] /\ out' = {}
    BY <1>2 DEF Touch, Busy
  <2>2. After
    BY <2>1, FoldedPool, GrantsAssumption DEF Good, After
  <2> QED BY <1>2, <2>2, TypedUnchanged, AfterGood DEF Touch, Good
<1> QED BY <1>1, <1>2 DEF CallerEvent

LEMMA TickGood ==
  ASSUME Good, Tick
  PROVE  Good'
<1> DEFINE q == [d \in Devices |-> IF active[d] = NoCall THEN NoCall ELSE Aged(active[d])]
<1>1. \A d \in Devices : active[d] # NoCall => active[d] \in Call
  BY DEF Good, PoolInv, Pool
<1>2. q \in Pool /\ Kept(active, q)
  BY <1>1, AgedType DEF Pool, Kept, SamePlace
<1>3. active' = q /\ out' = {}
  BY DEF Tick
<1> HIDE DEF q
<1>4. After
  BY <1>2, <1>3, KeptPool DEF Good, After
<1>5. ASSUME NEW k \in Channels, held[k] # NoHold, held[k].wait > 0
      PROVE  /\ [held[k] EXCEPT !.wait = @ - 1] \in Hold
             /\ [held[k] EXCEPT !.wait = @ - 1].g = held[k].g
  BY <1>5, DispatchAssumption DEF Good, Typed, HoldsInv, Hold
<1>6. HoldsInv(held')
  BY <1>5 DEF Tick, Good, Typed, HoldsInv, OwnChannel
<1>7. Typed'
  BY <1>6 DEF Tick, Good, Typed, HoldsInv, OwnChannel
<1> QED BY <1>4, <1>7, AfterGood

-----------------------------------------------------------------------------
\* The theorems.

LEMMA InitIInv == Init => IInv
BY DispatchAssumption DEF Init, IInv, TypeOK, OneCallPerTalkgroup, CallInsideWindow, OwnChannel, Busy

LEMMA NextIInv == IInv /\ [Next]_vars => IInv'
<1> SUFFICES ASSUME IInv, [Next]_vars PROVE IInv'
  OBVIOUS
<1>1. CASE Next
  <2>1. Good
    BY GoodIsIInv
  <2>2. Good'
    BY <1>1, <2>1, HandleGrantGood, FlushHeldGrantGood, InCallEventGood, GroupEventGood,
       RunWatchdogGood, ShutdownGood, HoldTimerGood, CallerEventGood, TickGood DEF Next
  <2>3. Good' => IInv'
    BY DEF Good, Typed, IInv, PoolInv, Pool, Unique, Window, HoldsInv, TypeOK,
           OneCallPerTalkgroup, CallInsideWindow, OwnChannel, Busy
  <2> QED BY <2>2, <2>3
<1>2. CASE UNCHANGED vars
  BY <1>2 DEF vars, IInv, TypeOK, OneCallPerTalkgroup, CallInsideWindow, OwnChannel, Busy
<1> QED BY <1>1, <1>2

\* The inductive invariant: types, one device per call, every call within its
\* device's reach, every parked notification under its own channel.
THEOREM Invariance == Spec => []IInv
BY InitIInv, NextIInv, PTL DEF Spec

\* Every call, hold and event the Run loop makes is well formed, and the
\* heldFlush channel never holds more than its capacity.
THEOREM TypeCorrect == Spec => []TypeOK
<1>1. IInv => TypeOK
  BY DEF IInv
<1> QED BY <1>1, Invariance, PTL

\* The duplicate-grant guard of HandleGrant works for any number of devices,
\* talkgroups and protocols: no call is ever followed by two devices.
THEOREM OneDevicePerCall == Spec => []OneCallPerTalkgroup
<1>1. IInv => OneCallPerTalkgroup
  BY DEF IInv
<1> QED BY <1>1, Invariance, PTL

\* No grant, preemption, handoff or flushed notification leaves a call on a
\* carrier its device cannot tune.
THEOREM WithinReach == Spec => []CallInsideWindow
<1>1. IInv => CallInsideWindow
  BY DEF IInv
<1> QED BY <1>1, Invariance, PTL
=============================================================================
