------------------------------ MODULE ConvScan ------------------------------
(***************************************************************************)
(* One conventional scanner (internal/scanner/conventional/scanner.go): the *)
(* goroutine of Run hops through a list of channels and dwells on one whose *)
(* squelch breaks, while API goroutines (Callers) hold the scan, lock       *)
(* channels out, tune channels of their own and take them away again.  A    *)
(* channel is named by its place in the list, as in the code, counted from  *)
(* 0.  A step lies between two operations of s.mu, of the engine's lock or  *)
(* of the lockout store.                                                    *)
(*                                                                         *)
(* One chunk of IQ is one unit of time.  What Snapshot shows beside         *)
(* dwellIndex, gains, tone and data detectors, and the samples themselves   *)
(* are left out; a dwell's chunk is active or not.                          *)
(***************************************************************************)
EXTENDS Integers, Sequences, FiniteSets

CONSTANTS
  Seeds,        \* Options.Channels, a sequence of channels
  Manual,       \* the channels callers tune by hand
  Callers,      \* goroutines of the API
  Interleave,   \* Options.PriorityInterleave, 0 for none
  Hangtime, Debounce,  \* Channel.Hangtime and .ActivityDebounce, in chunks
  NoCall,       \* the engine has no synthetic call for this scanner's device
  MaxTemps,     \* bound: manual channels in the list at one time
  MaxOps        \* bound: calls of the API and restarts in one behaviour

None == -1
Channel == [freq : Nat \ {0}, priority : Nat]

ASSUME ConvAssumption ==
  /\ Seeds \in Seq(Channel) /\ Manual \subseteq Channel
  /\ Interleave \in Nat /\ Hangtime \in Nat /\ Debounce \in Nat
  /\ MaxTemps \in Nat /\ MaxOps \in Nat
  /\ NoCall \notin Channel

VARIABLES
  channels, tempChannels, lockedOut,   \* the list, and sets of places in it
  cursor, priCursor, sincePriority,    \* the rotation
  dwellIndex, forcedDwellIndex, held,
  run,      \* the goroutine of Run: pc, its place and channel, the dwell's ages
  call,     \* the engine's synthetic call: the channel it is for, or NoCall
  api,      \* what each caller is doing
  stored,   \* the frequencies in the lockout store
  unsettled,\* history: the last lockout call for this frequency met another one
  ops       \* calls and restarts so far

list == <<channels, tempChannels, lockedOut>>
rotation == <<cursor, priCursor, sincePriority>>
store == <<stored, unsettled>>
vars == <<list, rotation, dwellIndex, forcedDwellIndex, held, run, call, api, store, ops>>

Least(a, b) == IF a <= b THEN a ELSE b
Idle == [at |-> "idle", idx |-> 0, freq |-> 0, locked |-> FALSE]
Resting == [pc |-> "top", idx |-> 0, ch |-> NoCall, below |-> None, above |-> None]
Indices(q) == 0 .. (Len(q) - 1)
At(q, i) == q[i + 1]
Unlocked == Indices(channels) \ lockedOut
Prioritised == {i \in Unlocked : At(channels, i).priority > 0}

Restored(frequencies) == {i \in Indices(Seeds) : At(Seeds, i).freq \in frequencies}

Started(frequencies) ==   \* New, in a fresh process
  /\ channels' = Seeds /\ tempChannels' = {} /\ lockedOut' = Restored(frequencies)
  /\ cursor' = 0 /\ priCursor' = 0 /\ sincePriority' = 0
  /\ dwellIndex' = None /\ forcedDwellIndex' = None /\ held' = FALSE
  /\ run' = Resting /\ call' = NoCall
  /\ api' = [c \in Callers |-> Idle]

-----------------------------------------------------------------------------
(* Run: choosing a channel *)

CheckHeld ==
  /\ run.pc = "top" /\ ~held
  /\ run' = [run EXCEPT !.pc = "pick"]
  /\ UNCHANGED <<list, rotation, dwellIndex, forcedDwellIndex, held, call, api, store, ops>>

Go(i) == run' = [Resting EXCEPT !.pc = "tune", !.idx = i, !.ch = At(channels, i)]

\* The first place of S at or after c, going round the list.
First(S) == CHOOSE i \in S : \A j \in S : i <= j
Nearest(c, S) ==
  LET ahead == {i \in S : c <= i} IN First(IF ahead # {} THEN ahead ELSE S)
Following(i) == IF i + 1 = Len(channels) THEN 0 ELSE i + 1

Forced == forcedDwellIndex \in Indices(channels)

PickForced ==
  /\ Forced
  /\ Go(forcedDwellIndex)
  /\ forcedDwellIndex' = None
  /\ cursor' = Following(forcedDwellIndex)
  /\ UNCHANGED <<priCursor, sincePriority>>

PriorityDue == Interleave > 0 /\ sincePriority >= Interleave
\* Defect: the clock runs on when the rotation has visited a priority channel.
PickPriorityRepeatedly ==
  /\ ~Forced /\ PriorityDue /\ Prioritised # {} /\ Unlocked # Prioritised
  /\ LET i == Nearest(priCursor % Len(channels), Prioritised) IN
       /\ Go(i) /\ priCursor' = Following(i)
  /\ UNCHANGED <<cursor, sincePriority, forcedDwellIndex>>
PickPriority ==
  /\ ~Forced /\ PriorityDue /\ Prioritised # {} /\ Unlocked # Prioritised
  /\ LET i == Nearest(priCursor % Len(channels), Prioritised) IN
       /\ Go(i) /\ priCursor' = Following(i)
  /\ sincePriority' = 0
  /\ UNCHANGED <<cursor, forcedDwellIndex>>

\* nextPriorityLocked walks all the way round when there is no priority channel.
PriorityWalk ==
  priCursor' = IF PriorityDue /\ Unlocked # Prioritised THEN priCursor % Len(channels)
                                                         ELSE priCursor
\* Capped: sincePriority is only ever compared with Interleave.
SinceAfter(i) ==
  IF Interleave = 0 THEN sincePriority
  ELSE IF At(channels, i).priority > 0 THEN 0 ELSE Least(sincePriority + 1, Interleave)

PickNext ==
  /\ ~Forced /\ Unlocked # {}
  /\ ~(PriorityDue /\ Prioritised # {} /\ Unlocked # Prioritised)
  /\ LET i == Nearest(cursor, Unlocked) IN
       /\ Go(i) /\ cursor' = Following(i)
       /\ sincePriority' = SinceAfter(i)
  /\ PriorityWalk
  /\ UNCHANGED forcedDwellIndex

PickNone ==
  /\ ~Forced /\ Unlocked = {}
  /\ run' = Resting
  /\ UNCHANGED <<rotation, forcedDwellIndex>>

PickNextChannel ==
  /\ run.pc = "pick"
  /\ PickForced \/ PickPriority \/ PickNext \/ PickNone
  /\ UNCHANGED <<list, dwellIndex, held, call, api, store, ops>>

-----------------------------------------------------------------------------
(* Run: tuning, the scan window, the dwell *)

LoopUnchanged == UNCHANGED <<list, rotation, forcedDwellIndex, held, api, store, ops>>

\* SetCenterFreq and StreamIQ, either of which may fail.
Tune ==
  /\ run.pc = "tune"
  /\ \/ run' = [run EXCEPT !.pc = "window"]
     \/ run' = Resting
  /\ LoopUnchanged /\ UNCHANGED <<dwellIndex, call>>

ScanWindow ==
  /\ run.pc = "window"
  /\ \/ run' = [run EXCEPT !.pc = "break"]
     \/ run' = Resting
  /\ LoopUnchanged /\ UNCHANGED <<dwellIndex, call>>

\* lastBreakAt[idx]: the place was chosen before the window, and the list may
\* have become shorter since.
BeginDwell ==
  /\ run.pc = "break"
  /\ IF run.idx \in Indices(channels)
       THEN run' = [run EXCEPT !.pc = "insert"] /\ dwellIndex' = run.idx
       ELSE run' = [run EXCEPT !.pc = "panic"] /\ UNCHANGED dwellIndex
  /\ LoopUnchanged /\ UNCHANGED call

HandleSyntheticCall ==
  /\ run.pc = "insert"
  /\ call' = run.ch
  /\ run' = [run EXCEPT !.pc = "dwell"]
  /\ LoopUnchanged /\ UNCHANGED dwellIndex

Aged(age, cap) == IF age = None THEN None ELSE Least(age + 1, cap)
AboveAfter(active) ==
  IF ~active THEN None ELSE IF run.above = None THEN 0 ELSE Aged(run.above, Debounce)
\* Defect: any active chunk ends the countdown.
BelowAfterBlip(active) ==
  IF active THEN None ELSE IF run.below = None THEN 0 ELSE Aged(run.below, Hangtime)
BelowAfter(active) ==
  LET below == Aged(run.below, Hangtime) IN
  IF active THEN IF AboveAfter(active) >= Debounce THEN None ELSE below
            ELSE IF below = None THEN 0 ELSE below

Chunk(active) ==
  /\ run.pc = "dwell"
  /\ LET over == ~active /\ run.below # None /\ BelowAfter(active) >= Hangtime IN
       run' = [run EXCEPT !.pc = IF over THEN "end" ELSE @,
                          !.below = BelowAfter(active), !.above = AboveAfter(active)]
  /\ LoopUnchanged /\ UNCHANGED <<dwellIndex, call>>

\* The stream is closed, or delivers nothing for StreamStallTimeout.
StreamFails ==
  /\ run.pc = "dwell"
  /\ run' = [run EXCEPT !.pc = "end"]
  /\ LoopUnchanged /\ UNCHANGED <<dwellIndex, call>>

\* Defect: the call is ended only if the dwell is still at its place.
EndDwellInPlace ==
  /\ run.pc = "end"
  /\ call' = IF dwellIndex = run.idx THEN NoCall ELSE call
  /\ run' = [run EXCEPT !.pc = "settle"]
  /\ LoopUnchanged /\ UNCHANGED dwellIndex
EndDwell ==
  /\ run.pc = "end"
  /\ call' = NoCall
  /\ run' = [run EXCEPT !.pc = "settle"]
  /\ LoopUnchanged /\ UNCHANGED dwellIndex

Settle ==
  /\ run.pc = "settle"
  /\ dwellIndex' = IF dwellIndex = run.idx THEN None ELSE dwellIndex
  /\ run' = Resting
  /\ LoopUnchanged /\ UNCHANGED call

LoopStep ==
  \/ CheckHeld \/ PickNextChannel \/ Tune \/ ScanWindow \/ BeginDwell
  \/ HandleSyntheticCall \/ StreamFails \/ EndDwell \/ Settle
  \/ \E active \in BOOLEAN : Chunk(active)

-----------------------------------------------------------------------------
(* The operator's calls *)

Called(c) ==   \* a call begins in an idle caller, while the process lives
  /\ run.pc # "panic" /\ api[c].at = "idle" /\ ops < MaxOps
  /\ ops' = ops + 1

Hold(c) ==
  /\ Called(c)
  /\ held' = TRUE
  /\ UNCHANGED <<list, rotation, dwellIndex, forcedDwellIndex, run, call, api, store>>

Resume(c) ==
  /\ Called(c)
  /\ held' = FALSE
  /\ UNCHANGED <<list, rotation, dwellIndex, forcedDwellIndex, run, call, api, store>>

DwellOn(c, i) ==
  /\ Called(c)
  /\ forcedDwellIndex' = i
  /\ UNCHANGED <<list, rotation, dwellIndex, held, run, call, api, store>>

\* The callers that are between the scanner's lock and the store, with f.
Reporting(f) == {d \in Callers : api[d].at \in {"endlocked", "report"} /\ api[d].freq = f}
Noticed(f) == unsettled' = IF Reporting(f) = {} THEN unsettled \ {f} ELSE unsettled \cup {f}

\* Defect: a lockout that ends a call forgets the store.
LockoutChannelUnreported(c, i) ==
  /\ Called(c)
  /\ lockedOut' = lockedOut \cup {i}
  /\ call' = IF dwellIndex = i THEN NoCall ELSE call
  /\ api' = IF dwellIndex = i THEN api
            ELSE [api EXCEPT ![c] = [at |-> "report", idx |-> i,
                                     freq |-> At(channels, i).freq, locked |-> TRUE]]
  /\ Noticed(At(channels, i).freq)
  /\ UNCHANGED <<channels, tempChannels, rotation, dwellIndex, forcedDwellIndex, held, run, stored>>
LockoutChannel(c, i) ==
  /\ Called(c)
  /\ lockedOut' = lockedOut \cup {i}
  /\ api' = [api EXCEPT ![c] = [at |-> IF dwellIndex = i THEN "endlocked" ELSE "report",
                                idx |-> i, freq |-> At(channels, i).freq, locked |-> TRUE]]
  /\ Noticed(At(channels, i).freq)
  /\ UNCHANGED <<channels, tempChannels, rotation, dwellIndex, forcedDwellIndex, held, run, call,
                 stored>>

UnlockoutChannel(c, i) ==
  /\ Called(c)
  /\ lockedOut' = lockedOut \ {i}
  /\ api' = [api EXCEPT ![c] = [at |-> "report", idx |-> i,
                                freq |-> At(channels, i).freq, locked |-> FALSE]]
  /\ Noticed(At(channels, i).freq)
  /\ UNCHANGED <<channels, tempChannels, rotation, dwellIndex, forcedDwellIndex, held, run, call,
                 stored>>

AddTemporaryChannel(c, ch) ==
  /\ Called(c) /\ Cardinality(tempChannels) < MaxTemps
  /\ channels' = Append(channels, ch)
  /\ tempChannels' = tempChannels \cup {Len(channels)}
  /\ forcedDwellIndex' = Len(channels)
  /\ held' = FALSE
  /\ UNCHANGED <<lockedOut, rotation, dwellIndex, run, call, api, store>>

RemoveTemporaryChannel(c, i) ==
  /\ Called(c)
  /\ i \in tempChannels
  /\ api' = [api EXCEPT ![c].at = IF dwellIndex = i THEN "endremoved" ELSE "remove", ![c].idx = i]
  /\ UNCHANGED <<list, rotation, dwellIndex, forcedDwellIndex, held, run, call, store>>

\* EndSyntheticCall for the caller; it has let go of the scanner's lock.
EndSyntheticCall(c) ==
  /\ run.pc # "panic" /\ api[c].at \in {"endlocked", "endremoved"}
  /\ call' = NoCall
  /\ api' = [api EXCEPT ![c].at = IF @ = "endlocked" THEN "report" ELSE "remove"]
  /\ UNCHANGED <<list, rotation, dwellIndex, forcedDwellIndex, held, run, store, ops>>

\* OnLockoutChange: the store follows, off the scanner's lock.
OnLockoutChange(c) ==
  /\ run.pc # "panic" /\ api[c].at = "report"
  /\ stored' = IF api[c].locked THEN stored \cup {api[c].freq} ELSE stored \ {api[c].freq}
  /\ api' = [api EXCEPT ![c] = Idle]
  /\ UNCHANGED <<list, rotation, dwellIndex, forcedDwellIndex, held, run, call, unsettled, ops>>

Without(q, i) == [j \in 1 .. (Len(q) - 1) |-> IF j <= i THEN q[j] ELSE q[j + 1]]
Shifted(S, i) == {j \in S : j < i} \cup {j - 1 : j \in {k \in S : k > i}}
ShiftedIndex(j, i) == IF j = i THEN None ELSE IF j > i THEN j - 1 ELSE j
\* Defect: the cursor is left where it is.
CursorStays(c, i, n) == c
CursorAfter(c, i, n) ==
  LET moved == IF c > i THEN c - 1 ELSE c IN IF moved >= n THEN 0 ELSE moved

RemoveChannel(c) ==
  /\ run.pc # "panic" /\ api[c].at = "remove"
  /\ LET i == api[c].idx IN
       IF i \in tempChannels
         THEN /\ channels' = Without(channels, i)
              /\ tempChannels' = Shifted(tempChannels, i)
              /\ lockedOut' = Shifted(lockedOut, i)
              /\ cursor' = CursorAfter(cursor, i, Len(channels) - 1)
              /\ dwellIndex' = ShiftedIndex(dwellIndex, i)
              /\ forcedDwellIndex' = ShiftedIndex(forcedDwellIndex, i)
         ELSE UNCHANGED <<list, cursor, dwellIndex, forcedDwellIndex>>
  /\ api' = [api EXCEPT ![c] = Idle]
  /\ UNCHANGED <<priCursor, sincePriority, held, run, call, store, ops>>

\* The process ends, of itself or not, and is started again.
Restart ==
  /\ ops < MaxOps /\ ops' = ops + 1
  /\ Started(stored)
  /\ stored' = stored /\ unsettled' = {}

ApiStep(c) == EndSyntheticCall(c) \/ OnLockoutChange(c) \/ RemoveChannel(c)
Operator ==
  \E c \in Callers :
    \/ Hold(c) \/ Resume(c)
    \/ \E i \in Indices(channels) :
         \/ DwellOn(c, i) \/ LockoutChannel(c, i) \/ UnlockoutChannel(c, i)
         \/ RemoveTemporaryChannel(c, i)
    \/ \E ch \in Manual : AddTemporaryChannel(c, ch)

Init ==
  /\ channels = Seeds /\ tempChannels = {}
  /\ stored = {} /\ lockedOut = {}
  /\ cursor = 0 /\ priCursor = 0 /\ sincePriority = 0
  /\ dwellIndex = None /\ forcedDwellIndex = None /\ held = FALSE
  /\ run = Resting /\ call = NoCall
  /\ api = [c \in Callers |-> Idle]
  /\ unsettled = {} /\ ops = 0

Next == LoopStep \/ Operator \/ Restart \/ \E c \in Callers : ApiStep(c)
Spec == Init /\ [][Next]_vars
\* Run goes on, its timers fire and a stream that delivers nothing is noticed;
\* a call of the API that has begun returns.  No carrier ever has to drop.
FairSpec == Spec /\ WF_vars(LoopStep) /\ \A c \in Callers : WF_vars(ApiStep(c))

-----------------------------------------------------------------------------
(* Properties *)

Pcs == {"top", "pick", "tune", "window", "break", "insert", "dwell", "end", "settle", "panic"}
RunState == [pc : Pcs, idx : Nat, ch : Channel \cup {NoCall},
             below : None .. Hangtime, above : None .. Debounce]
Caller == [at : {"idle", "endlocked", "endremoved", "remove", "report"},
           idx : Nat, freq : Nat, locked : BOOLEAN]
\* Types; every place the scanner keeps is one of the list, whatever is added
\* and removed.
TypeOK ==
  /\ channels \in Seq(Channel)
  /\ tempChannels \subseteq Indices(channels) /\ lockedOut \subseteq Indices(channels)
  /\ cursor \in Nat /\ (cursor < Len(channels) \/ cursor = 0)
  /\ priCursor \in Nat /\ sincePriority \in 0 .. Interleave
  /\ dwellIndex \in Indices(channels) \cup {None}
  /\ forcedDwellIndex \in Indices(channels) \cup {None}
  /\ held \in BOOLEAN /\ run \in RunState /\ call \in Channel \cup {NoCall}
  /\ api \in [Callers -> Caller]
  /\ stored \subseteq Nat /\ unsettled \subseteq Nat /\ ops \in 0 .. MaxOps

\* The engine carries a call for the scanner's device only while the scanner
\* dwells, and for the channel it dwells on: no lockout, removal or shift of
\* the list leaves one behind that nobody ends.
CallNeedsDwell == call # NoCall => run.pc \in {"dwell", "end"} /\ call = run.ch

\* No other channel has the frequency of the i-th one of the configuration.
Alone(i) ==
  /\ \A j \in Indices(Seeds) : At(Seeds, j).freq = At(Seeds, i).freq => j = i
  /\ \A ch \in Manual : ch.freq # At(Seeds, i).freq

\* "The operator's lockout memory" (scanner.go:569): the lockout a restart would
\* restore is the one in force, for every channel with a frequency of its own, once
\* the call that made it has returned, unless it overlapped another call for it.
LockoutsPersist ==
  \A i \in Indices(Seeds) :
    LET f == At(Seeds, i).freq IN
    Alone(i) /\ f \notin unsettled /\ Reporting(f) = {} => (i \in lockedOut <=> f \in stored)

\* A channel of the configuration that stays unlocked is chosen again and
\* again, if the scan is not held and the dwells come to an end: neither the
\* priority channels nor an earlier forced dwell starve it.
EveryChannelScanned ==
  \A i \in Indices(Seeds) :
    <>[](i \notin lockedOut /\ ~held /\ run.pc # "panic") /\ []<>(run.pc = "top")
      => []<>(run.pc = "tune" /\ run.idx = i)

\* A dwell ends unless the channel is active again for the whole of the
\* debounce time: blips do not keep it open (issue #1090), nor does a stream
\* that stops delivering.
DwellReleases ==
  run.pc = "dwell" ~> (run.pc # "dwell" \/ run.above >= Debounce)

\* "This is fine for the v1 manual-tune flow (which adds one VFO at a time and
\* revokes it on a new tune)" (scanner.go:1431-1432): removing a channel never
\* takes the place away that Run is about to use.
RemovalIsFine == run.pc # "panic"
=============================================================================
