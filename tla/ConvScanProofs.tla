--------------------------- MODULE ConvScanProofs ---------------------------
(***************************************************************************)
(* For every scan list, any manual channels and any number of callers:     *)
(* ConvScan is type correct, so that no place the scanner keeps between    *)
(* two steps dangles; no call outlives its dwell; and the lockouts in      *)
(* force are the ones a restart restores.                                  *)
(***************************************************************************)
EXTENDS ConvScan, SequenceTheorems, WellFoundedInduction, TLAPS

-----------------------------------------------------------------------------
(* Places and lists *)

LEMMA Placed ==
  ASSUME NEW S, NEW q \in Seq(S), NEW i \in Indices(q)
  PROVE  /\ Len(q) \in Nat /\ i \in Nat /\ i < Len(q) /\ i + 1 \in 1 .. Len(q)
         /\ At(q, i) \in S
<1>1. Len(q) \in Nat
  BY LenProperties
<1>2. i \in Nat /\ i < Len(q) /\ i + 1 \in 1 .. Len(q)
  BY <1>1 DEF Indices
<1>3. At(q, i) \in S
  BY <1>2, ElementOfSeq DEF At
<1> QED BY <1>1, <1>2, <1>3

\* The smallest of some places.
LEMMA FirstIsThere ==
  ASSUME NEW S \in SUBSET Nat, S # {}
  PROVE  First(S) \in S
<1>1. PICK x \in S : \A y \in S : ~(<<y, x>> \in OpToRel(<, Nat))
  BY WFMin, NatLessThanWellFounded
<1>2. \A y \in S : ~(y < x)
  BY <1>1 DEF OpToRel
<1>3. \A y \in S : x <= y
  BY <1>2
<1> QED BY <1>3 DEF First

LEMMA NearestIsThere ==
  ASSUME NEW S \in SUBSET Nat, S # {}, NEW c
  PROVE  Nearest(c, S) \in S
<1> DEFINE ahead == {i \in S : c <= i}
<1>1. CASE ahead = {}
  BY <1>1, FirstIsThere DEF Nearest
<1>2. CASE ahead # {}
  <2>1. ahead \in SUBSET Nat /\ ahead \subseteq S
    OBVIOUS
  <2>2. First(ahead) \in ahead
    BY <1>2, <2>1, FirstIsThere
  <2> QED BY <1>2, <2>1, <2>2 DEF Nearest
<1> QED BY <1>1, <1>2

\* A list with one channel taken out: what stands before it stays where it was.
LEMMA TakenOut ==
  ASSUME NEW S, NEW q \in Seq(S), NEW i \in Indices(q)
  PROVE  /\ Without(q, i) \in Seq(S)
         /\ Len(Without(q, i)) = Len(q) - 1
         /\ \A j \in Nat : j < i => At(Without(q, i), j) = At(q, j)
<1>1. Len(q) \in Nat /\ i \in Nat /\ i < Len(q)
  BY Placed
<1> DEFINE n == Len(q) - 1
<1>2. n \in Nat
  BY <1>1
<1>3. \A j \in 1 .. n : q[j] \in S /\ q[j + 1] \in S
  BY <1>1, ElementOfSeq
<1>4. Without(q, i) \in [1 .. n -> S]
  BY <1>3 DEF Without
<1>5. Without(q, i) \in Seq(S)
  BY <1>2, <1>4, SeqDef
<1>6. Len(Without(q, i)) = n
  <2>1. DOMAIN Without(q, i) = 1 .. n /\ DOMAIN Without(q, i) = 1 .. Len(Without(q, i))
    BY <1>4, <1>5, LenProperties
  <2> QED BY <1>2, <1>5, <2>1, LenProperties
<1>7. \A j \in Nat : j < i => At(Without(q, i), j) = At(q, j)
  BY <1>1 DEF At, Without
<1> QED BY <1>5, <1>6, <1>7

LEMMA TakenOutOfSet ==
  ASSUME NEW n \in Nat, NEW S \in SUBSET (0 .. (n - 1)), NEW i \in 0 .. (n - 1)
  PROVE  Shifted(S, i) \subseteq 0 .. (n - 2)
<1> SUFFICES ASSUME NEW x \in Shifted(S, i) PROVE x \in 0 .. (n - 2)
  OBVIOUS
<1>1. CASE x \in {j \in S : j < i}
  BY <1>1
<1>2. CASE x \in {j - 1 : j \in {k \in S : k > i}}
  <2>1. PICK j \in S : j > i /\ x = j - 1
    BY <1>2
  <2> QED BY <2>1
<1> QED BY <1>1, <1>2 DEF Shifted

LEMMA TakenOutOfIndex ==
  ASSUME NEW n \in Nat, NEW j \in (0 .. (n - 1)) \cup {None}, NEW i \in 0 .. (n - 1)
  PROVE  ShiftedIndex(j, i) \in (0 .. (n - 2)) \cup {None}
BY DEF ShiftedIndex, None

LEMMA CursorInList ==
  ASSUME NEW n \in Nat, NEW c \in Nat, NEW i \in Nat
  PROVE  CursorAfter(c, i, n) \in Nat /\ (CursorAfter(c, i, n) < n \/ CursorAfter(c, i, n) = 0)
BY DEF CursorAfter

-----------------------------------------------------------------------------
(* Types *)

\* What the loop has in hand while it is busy with a channel.
LEMMA Chosen ==
  ASSUME TypeOK, NEW i \in Indices(channels), Go(i)
  PROVE  run' \in RunState
<1>1. At(channels, i) \in Channel /\ i \in Nat
  BY Placed DEF TypeOK
<1>2. None \in None .. Hangtime /\ None \in None .. Debounce
  BY ConvAssumption DEF None
<1>3. run' = [pc |-> "tune", idx |-> i, ch |-> At(channels, i), below |-> None, above |-> None]
  BY DEF Go, Resting
<1> QED BY <1>1, <1>2, <1>3 DEF RunState, Pcs

LEMMA RestingOK == Resting \in RunState
<1>1. None \in None .. Hangtime /\ None \in None .. Debounce
  BY ConvAssumption DEF None
<1> QED BY <1>1 DEF Resting, RunState, Pcs

LEMMA PickTypes ==
  ASSUME TypeOK, PickNextChannel
  PROVE  TypeOK'
<1> USE DEF TypeOK
<1>1. Len(channels) \in Nat /\ UNCHANGED <<list, dwellIndex, held, call, api, store, ops>>
  BY LenProperties DEF PickNextChannel
<1>2. Prioritised \subseteq Unlocked /\ Unlocked \subseteq Indices(channels)
  BY DEF Prioritised, Unlocked
<1>3. Indices(channels) \subseteq Nat
  BY <1>1 DEF Indices
<1>4. \A i \in Indices(channels) :
        Following(i) \in Nat /\ (Following(i) < Len(channels) \/ Following(i) = 0)
  BY <1>1 DEF Following, Indices
<1>5. sincePriority \in 0 .. Interleave /\ Interleave \in Nat
  BY ConvAssumption
<1>6. ASSUME run' \in RunState, cursor' \in Nat, cursor' < Len(channels) \/ cursor' = 0,
             priCursor' \in Nat, sincePriority' \in 0 .. Interleave,
             forcedDwellIndex' \in Indices(channels) \cup {None}
      PROVE  TypeOK'
  BY <1>1, <1>6 DEF list, store, Indices
<1>7. CASE PickForced
  <2>1. forcedDwellIndex \in Indices(channels)
    BY <1>7 DEF PickForced, Forced
  <2> QED BY <1>4, <1>6, <1>7, <2>1, Chosen DEF PickForced
<1>8. CASE PickPriority
  <2> DEFINE i == Nearest(priCursor % Len(channels), Prioritised)
  <2>1. Prioritised # {} /\ Go(i) /\ priCursor' = Following(i) /\ sincePriority' = 0
        /\ UNCHANGED <<cursor, forcedDwellIndex>>
    BY <1>8 DEF PickPriority
  <2>2. i \in Indices(channels)
    BY <1>2, <1>3, <2>1, NearestIsThere
  <2> HIDE DEF i
  <2> QED BY <1>4, <1>5, <1>6, <2>1, <2>2, Chosen
<1>9. CASE PickNext
  <2> DEFINE i == Nearest(cursor, Unlocked)
  <2>1. Unlocked # {} /\ Go(i) /\ cursor' = Following(i) /\ sincePriority' = SinceAfter(i)
        /\ PriorityWalk /\ UNCHANGED forcedDwellIndex
    BY <1>9 DEF PickNext
  <2>2. i \in Indices(channels)
    BY <1>2, <1>3, <2>1, NearestIsThere
  <2> HIDE DEF i
  <2>3. SinceAfter(i) \in 0 .. Interleave
    BY <1>5 DEF SinceAfter, Least
  <2>4. Len(channels) > 0
    BY <1>1, <2>2 DEF Indices
  <2>5. priCursor % Len(channels) \in Nat
    BY <1>1, <2>4
  <2>6. priCursor' \in Nat
    BY <2>1, <2>5 DEF PriorityWalk
  <2> QED BY <1>4, <1>6, <2>1, <2>2, <2>3, <2>6, Chosen
<1>10. CASE PickNone
  BY <1>5, <1>6, <1>10, RestingOK DEF PickNone, rotation
<1> QED BY <1>7, <1>8, <1>9, <1>10 DEF PickNextChannel

\* Every other step of the loop leaves the list, the rotation and the callers alone.
LEMMA LoopTypes ==
  ASSUME TypeOK, LoopUnchanged, run' \in RunState,
         dwellIndex' \in Indices(channels) \cup {None}, call' \in Channel \cup {NoCall}
  PROVE  TypeOK'
BY DEF TypeOK, LoopUnchanged, list, rotation, store, Indices

LEMMA RunMoves ==
  ASSUME TypeOK, NEW p \in Pcs, run' = [run EXCEPT !.pc = p]
  PROVE  run' \in RunState
BY DEF TypeOK, RunState

LEMMA DwellTypes ==
  ASSUME TypeOK, NEW active \in BOOLEAN, Chunk(active)
  PROVE  TypeOK'
<1>1. run.above \in None .. Debounce /\ run.below \in None .. Hangtime
  BY DEF TypeOK, RunState
<1>2. Debounce \in Nat /\ Hangtime \in Nat
  BY ConvAssumption
<1>3. AboveAfter(active) \in None .. Debounce
  BY <1>1, <1>2 DEF AboveAfter, Aged, Least, None
<1>4. BelowAfter(active) \in None .. Hangtime
  BY <1>1, <1>2 DEF BelowAfter, Aged, Least, None
<1>5. PICK p \in Pcs : run' = [run EXCEPT !.pc = p, !.below = BelowAfter(active),
                                         !.above = AboveAfter(active)]
  <2> DEFINE over == ~active /\ run.below # None /\ BelowAfter(active) >= Hangtime
  <2>1. run.pc = "dwell"
        /\ run' = [run EXCEPT !.pc = IF over THEN "end" ELSE @,
                              !.below = BelowAfter(active), !.above = AboveAfter(active)]
    BY DEF Chunk
  <2>2. CASE over
    BY <2>1, <2>2 DEF Pcs
  <2>3. CASE ~over
    BY <2>1, <2>3 DEF Pcs
  <2> QED BY <2>2, <2>3
<1>6. run' \in RunState
  BY <1>3, <1>4, <1>5 DEF TypeOK, RunState
<1> QED BY <1>6, LoopTypes DEF Chunk, TypeOK

LEMMA LoopStepTypes ==
  ASSUME TypeOK, LoopStep
  PROVE  TypeOK'
<1>1. ASSUME CheckHeld PROVE TypeOK'
  <2>1. run' \in RunState
    BY <1>1, RunMoves DEF CheckHeld, Pcs
  <2> QED BY <1>1, <2>1, LoopTypes DEF CheckHeld, LoopUnchanged, TypeOK
<1>2. ASSUME Tune PROVE TypeOK'
  <2>1. run' \in RunState
    BY <1>2, RunMoves, RestingOK DEF Tune, Pcs
  <2> QED BY <1>2, <2>1, LoopTypes DEF Tune, TypeOK
<1>3. ASSUME ScanWindow PROVE TypeOK'
  <2>1. run' \in RunState
    BY <1>3, RunMoves, RestingOK DEF ScanWindow, Pcs
  <2> QED BY <1>3, <2>1, LoopTypes DEF ScanWindow, TypeOK
<1>4. ASSUME BeginDwell PROVE TypeOK'
  <2>1. run' \in RunState
    BY <1>4, RunMoves DEF BeginDwell, Pcs
  <2>2. dwellIndex' \in Indices(channels) \cup {None}
    BY <1>4 DEF BeginDwell, TypeOK
  <2> QED BY <1>4, <2>1, <2>2, LoopTypes DEF BeginDwell, TypeOK
<1>5. ASSUME HandleSyntheticCall PROVE TypeOK'
  <2>1. run' \in RunState
    BY <1>5, RunMoves DEF HandleSyntheticCall, Pcs
  <2> QED BY <1>5, <2>1, LoopTypes DEF HandleSyntheticCall, TypeOK, RunState
<1>6. ASSUME StreamFails PROVE TypeOK'
  <2>1. run' \in RunState
    BY <1>6, RunMoves DEF StreamFails, Pcs
  <2> QED BY <1>6, <2>1, LoopTypes DEF StreamFails, TypeOK
<1>7. ASSUME EndDwell PROVE TypeOK'
  <2>1. run' \in RunState
    BY <1>7, RunMoves DEF EndDwell, Pcs
  <2> QED BY <1>7, <2>1, LoopTypes DEF EndDwell, TypeOK
<1>8. ASSUME Settle PROVE TypeOK'
  BY <1>8, RestingOK, LoopTypes DEF Settle, TypeOK
<1> QED BY <1>1, <1>2, <1>3, <1>4, <1>5, <1>6, <1>7, <1>8, PickTypes, DwellTypes DEF LoopStep

\* The operator's calls change no more than these, and what they change is well formed.
LEMMA CallTypes ==
  ASSUME TypeOK,
         rotation' = rotation, dwellIndex' = dwellIndex, run' = run, call' = call,
         channels' \in Seq(Channel), Len(channels') >= Len(channels),
         tempChannels' \subseteq Indices(channels'), lockedOut' \subseteq Indices(channels'),
         forcedDwellIndex' \in Indices(channels') \cup {None}, held' \in BOOLEAN,
         api' \in [Callers -> Caller], stored' = stored, unsettled' \subseteq Nat,
         ops' \in 0 .. MaxOps
  PROVE  TypeOK'
<1>1. Len(channels) \in Nat /\ Len(channels') \in Nat
  BY LenProperties DEF TypeOK
<1>2. Indices(channels) \subseteq Indices(channels')
  BY <1>1 DEF Indices
<1> QED BY <1>1, <1>2 DEF TypeOK, rotation, Indices

LEMMA Counting ==
  ASSUME TypeOK, NEW c, Called(c)
  PROVE  ops' \in 0 .. MaxOps
BY ConvAssumption DEF TypeOK, Called

LEMMA NoticedTypes ==
  ASSUME TypeOK, NEW f \in Nat, Noticed(f)
  PROVE  unsettled' \subseteq Nat
BY DEF TypeOK, Noticed

LEMMA LockTypes ==
  ASSUME TypeOK, NEW c \in Callers, NEW i \in Indices(channels),
         LockoutChannel(c, i) \/ UnlockoutChannel(c, i)
  PROVE  TypeOK'
<1>1. Len(channels) \in Nat /\ i \in Nat /\ At(channels, i).freq \in Nat
  <2>1. channels \in Seq(Channel)
    BY DEF TypeOK
  <2>2. Len(channels) \in Nat /\ i \in Nat /\ At(channels, i) \in Channel
    BY <2>1, Placed
  <2> QED BY <2>2 DEF Channel
<1>2. PICK a \in Caller : api' = [api EXCEPT ![c] = a]
  BY <1>1 DEF LockoutChannel, UnlockoutChannel, Caller
<1>3. api' \in [Callers -> Caller]
  BY <1>2 DEF TypeOK
<1>4. ops' \in 0 .. MaxOps
  BY Counting DEF LockoutChannel, UnlockoutChannel
<1>5. unsettled' \subseteq Nat
  BY <1>1, NoticedTypes DEF LockoutChannel, UnlockoutChannel
<1>6. channels' = channels /\ tempChannels' = tempChannels /\ rotation' = rotation
      /\ dwellIndex' = dwellIndex /\ forcedDwellIndex' = forcedDwellIndex /\ held' = held
      /\ run' = run /\ call' = call /\ stored' = stored
  BY DEF LockoutChannel, UnlockoutChannel
<1>7. lockedOut' \subseteq Indices(channels)
  BY DEF LockoutChannel, UnlockoutChannel, TypeOK
<1>8. channels' \in Seq(Channel) /\ Len(channels') >= Len(channels)
      /\ Indices(channels') = Indices(channels)
  BY <1>1, <1>6 DEF TypeOK, Indices
<1>9. tempChannels' \subseteq Indices(channels')
      /\ forcedDwellIndex' \in Indices(channels') \cup {None} /\ held' \in BOOLEAN
  BY <1>6, <1>8 DEF TypeOK
<1>10. lockedOut' \subseteq Indices(channels')
  BY <1>7, <1>8
<1> QED BY <1>3, <1>4, <1>5, <1>6, <1>8, <1>9, <1>10, CallTypes

LEMMA AddTypes ==
  ASSUME TypeOK, NEW c \in Callers, NEW ch \in Manual, AddTemporaryChannel(c, ch)
  PROVE  TypeOK'
<1>1. ch \in Channel /\ channels \in Seq(Channel) /\ Len(channels) \in Nat
  BY ConvAssumption, LenProperties DEF TypeOK
<1>2. channels' = Append(channels, ch) /\ channels' \in Seq(Channel)
      /\ Len(channels') = Len(channels) + 1
  BY <1>1, AppendProperties DEF AddTemporaryChannel
<1>3. Indices(channels) \subseteq Indices(channels') /\ Len(channels) \in Indices(channels')
  BY <1>1, <1>2 DEF Indices
<1>4. ops' \in 0 .. MaxOps
  BY Counting DEF AddTemporaryChannel
<1>5. rotation' = rotation /\ dwellIndex' = dwellIndex /\ run' = run /\ call' = call
      /\ stored' = stored /\ unsettled' \subseteq Nat /\ api' \in [Callers -> Caller]
  BY DEF AddTemporaryChannel, TypeOK, store
<1>6. tempChannels' \subseteq Indices(channels') /\ lockedOut' \subseteq Indices(channels')
      /\ forcedDwellIndex' \in Indices(channels') \cup {None} /\ held' \in BOOLEAN
  BY <1>3 DEF AddTemporaryChannel, TypeOK
<1>7. Len(channels') >= Len(channels)
  BY <1>1, <1>2
<1> QED BY <1>2, <1>4, <1>5, <1>6, <1>7, CallTypes

\* A call that leaves the list and the store alone.
LEMMA LightTypes ==
  ASSUME TypeOK, list' = list, rotation' = rotation, dwellIndex' = dwellIndex, run' = run,
         call' = call, store' = store, forcedDwellIndex' \in Indices(channels) \cup {None},
         held' \in BOOLEAN, api' \in [Callers -> Caller], ops' \in 0 .. MaxOps
  PROVE  TypeOK'
BY DEF TypeOK, list, rotation, store, Indices

LEMMA OperatorTypes ==
  ASSUME TypeOK, Operator
  PROVE  TypeOK'
<1>1. ASSUME NEW c \in Callers, Hold(c) \/ Resume(c) PROVE TypeOK'
  <2>1. ops' \in 0 .. MaxOps
    BY <1>1, Counting DEF Hold, Resume
  <2> QED BY <1>1, <2>1, LightTypes DEF Hold, Resume, TypeOK
<1>2. ASSUME NEW c \in Callers, NEW i \in Indices(channels), DwellOn(c, i) PROVE TypeOK'
  <2>1. ops' \in 0 .. MaxOps
    BY <1>2, Counting DEF DwellOn
  <2> QED BY <1>2, <2>1, LightTypes DEF DwellOn, TypeOK
<1>3. ASSUME NEW c \in Callers, NEW i \in Indices(channels), RemoveTemporaryChannel(c, i)
      PROVE  TypeOK'
  <2>1. channels \in Seq(Channel)
    BY DEF TypeOK
  <2>2. i \in Nat
    BY <2>1, Placed
  <2>3. PICK place \in {"endremoved", "remove"} :
          api' = [api EXCEPT ![c].at = place, ![c].idx = i]
    BY <1>3 DEF RemoveTemporaryChannel
  <2>4. api' \in [Callers -> Caller]
    BY <2>2, <2>3 DEF TypeOK, Caller
  <2>5. ops' \in 0 .. MaxOps
    BY <1>3, Counting DEF RemoveTemporaryChannel
  <2> QED BY <1>3, <2>4, <2>5, LightTypes DEF RemoveTemporaryChannel, TypeOK
<1> QED BY <1>1, <1>2, <1>3, LockTypes, AddTypes DEF Operator

LEMMA RemoveTypes ==
  ASSUME TypeOK, NEW c \in Callers, RemoveChannel(c)
  PROVE  TypeOK'
<1> DEFINE i == api[c].idx
<1>1. api' \in [Callers -> Caller] /\ Len(channels) \in Nat
  BY LenProperties DEF RemoveChannel, TypeOK, Caller, Idle
<1>2. UNCHANGED <<priCursor, sincePriority, held, run, call, store, ops>>
  BY DEF RemoveChannel
<1>3. CASE i \in tempChannels
  <2>1. i \in Indices(channels) /\ i \in 0 .. (Len(channels) - 1) /\ i \in Nat
    <3>1. i \in Indices(channels)
      BY <1>3 DEF TypeOK
    <3> HIDE DEF i
    <3> QED BY <1>1, <3>1 DEF Indices
  <2>2. channels' = Without(channels, i) /\ channels' \in Seq(Channel)
        /\ Len(channels') = Len(channels) - 1 /\ Len(channels) - 1 \in Nat
    BY <1>1, <1>3, <2>1, TakenOut DEF RemoveChannel, TypeOK
  <2>3. tempChannels' \subseteq Indices(channels') /\ lockedOut' \subseteq Indices(channels')
    <3>1. tempChannels' = Shifted(tempChannels, i) /\ lockedOut' = Shifted(lockedOut, i)
      BY <1>3 DEF RemoveChannel
    <3>2. Indices(channels') = 0 .. (Len(channels) - 2)
      BY <1>1, <2>2 DEF Indices
    <3>3. tempChannels \in SUBSET (0 .. (Len(channels) - 1))
          /\ lockedOut \in SUBSET (0 .. (Len(channels) - 1))
      BY DEF TypeOK, Indices
    <3> HIDE DEF i
    <3> QED BY <1>1, <2>1, <3>1, <3>2, <3>3, TakenOutOfSet
  <2>4. dwellIndex' \in Indices(channels') \cup {None}
        /\ forcedDwellIndex' \in Indices(channels') \cup {None}
    <3>1. dwellIndex' = ShiftedIndex(dwellIndex, i)
          /\ forcedDwellIndex' = ShiftedIndex(forcedDwellIndex, i)
      BY <1>3 DEF RemoveChannel
    <3>2. Indices(channels') = 0 .. (Len(channels) - 2)
      BY <1>1, <2>2 DEF Indices
    <3>3. dwellIndex \in (0 .. (Len(channels) - 1)) \cup {None}
          /\ forcedDwellIndex \in (0 .. (Len(channels) - 1)) \cup {None}
      BY DEF TypeOK, Indices
    <3> HIDE DEF i
    <3> QED BY <1>1, <2>1, <3>1, <3>2, <3>3, TakenOutOfIndex
  <2>5. cursor' \in Nat /\ (cursor' < Len(channels') \/ cursor' = 0)
    BY <1>3, <2>1, <2>2, CursorInList DEF RemoveChannel, TypeOK
  <2> QED BY <1>1, <1>2, <2>2, <2>3, <2>4, <2>5 DEF TypeOK, store
<1>4. CASE i \notin tempChannels
  <2>1. UNCHANGED <<list, cursor, dwellIndex, forcedDwellIndex>>
    BY <1>4 DEF RemoveChannel
  <2> QED BY <1>1, <1>2, <2>1 DEF TypeOK, list, store, Indices
<1> QED BY <1>3, <1>4

LEMMA ApiTypes ==
  ASSUME TypeOK, NEW c \in Callers, ApiStep(c)
  PROVE  TypeOK'
<1>1. ASSUME EndSyntheticCall(c) PROVE TypeOK'
  <2>1. api' \in [Callers -> Caller]
    BY <1>1 DEF EndSyntheticCall, TypeOK, Caller
  <2> QED BY <1>1, <2>1 DEF EndSyntheticCall, TypeOK, list, rotation, store, Indices
<1>2. ASSUME OnLockoutChange(c) PROVE TypeOK'
  <2>1. api' \in [Callers -> Caller] /\ api[c].freq \in Nat
    BY <1>2 DEF OnLockoutChange, TypeOK, Caller, Idle
  <2> QED BY <1>2, <2>1 DEF OnLockoutChange, TypeOK, list, rotation, Indices
<1> QED BY <1>1, <1>2, RemoveTypes DEF ApiStep

LEMMA StartedTypes ==
  ASSUME NEW F, Started(F), stored' \subseteq Nat, unsettled' = {}, ops' \in 0 .. MaxOps
  PROVE  TypeOK'
<1>1. channels' \in Seq(Channel) /\ lockedOut' \subseteq Indices(channels')
  BY ConvAssumption DEF Started, Restored
<1>2. 0 \in 0 .. Interleave
  BY ConvAssumption
<1>3. api' \in [Callers -> Caller]
  BY DEF Started, Idle, Caller
<1> QED BY <1>1, <1>2, <1>3, RestingOK DEF Started, TypeOK

LEMMA InitTypes == Init => TypeOK
<1> SUFFICES ASSUME Init PROVE TypeOK
  OBVIOUS
<1>1. 0 \in 0 .. Interleave /\ 0 \in 0 .. MaxOps /\ channels \in Seq(Channel)
  BY ConvAssumption DEF Init
<1>2. api \in [Callers -> Caller]
  BY DEF Init, Idle, Caller
<1> QED BY <1>1, <1>2, RestingOK DEF Init, TypeOK

LEMMA NextTypes == TypeOK /\ [Next]_vars => TypeOK'
<1> SUFFICES ASSUME TypeOK, [Next]_vars PROVE TypeOK'
  OBVIOUS
<1>1. CASE Restart
  BY <1>1, StartedTypes, ConvAssumption DEF Restart, TypeOK
<1>2. CASE UNCHANGED vars
  BY <1>2 DEF vars, list, rotation, store, TypeOK, Indices
<1> QED BY <1>1, <1>2, LoopStepTypes, OperatorTypes, ApiTypes DEF Next

\* Every place the scanner keeps between two steps is one of its list, and all else
\* it keeps is well formed.
THEOREM ScannerTypes == Spec => []TypeOK
BY InitTypes, NextTypes, PTL DEF Spec

-----------------------------------------------------------------------------
(* Calls *)

\* No lockout, removal or restart leaves a call on the device outside of a dwell, or
\* one for another channel than the dwell's.
THEOREM CallsEndWithTheDwell == Spec => []CallNeedsDwell
<1>1. Init => CallNeedsDwell
  BY DEF Init, CallNeedsDwell
<1>2. TypeOK /\ CallNeedsDwell /\ [Next]_vars => CallNeedsDwell'
  <2> SUFFICES ASSUME TypeOK, CallNeedsDwell, [Next]_vars PROVE CallNeedsDwell'
    OBVIOUS
  <2> USE DEF CallNeedsDwell
  <2>1. ASSUME LoopStep PROVE CallNeedsDwell'
    <3>1. ASSUME PickNextChannel PROVE CallNeedsDwell'
      BY <3>1 DEF PickNextChannel
    <3>2. ASSUME NEW active \in BOOLEAN, Chunk(active) PROVE CallNeedsDwell'
      <4>1. run'.pc \in {"dwell", "end"} /\ run'.ch = run.ch /\ call' = call
        BY <3>2 DEF Chunk, TypeOK, RunState
      <4> QED BY <4>1
    <3>3. CASE CheckHeld \/ Tune \/ ScanWindow \/ BeginDwell \/ HandleSyntheticCall
      BY <3>3 DEF CheckHeld, Tune, ScanWindow, BeginDwell, HandleSyntheticCall, TypeOK, RunState
    <3>4. CASE StreamFails \/ EndDwell \/ Settle
      BY <3>4 DEF StreamFails, EndDwell, Settle, TypeOK, RunState
    <3> QED BY <2>1, <3>1, <3>2, <3>3, <3>4 DEF LoopStep
  <2>2. ASSUME NEW c \in Callers, ApiStep(c) PROVE CallNeedsDwell'
    BY <2>2 DEF ApiStep, EndSyntheticCall, OnLockoutChange, RemoveChannel
  <2>3. ASSUME Operator PROVE CallNeedsDwell'
    BY <2>3 DEF Operator, Hold, Resume, DwellOn, LockoutChannel, UnlockoutChannel,
                RemoveTemporaryChannel, AddTemporaryChannel
  <2>4. CASE Restart
    BY <2>4 DEF Restart, Started
  <2>5. CASE UNCHANGED vars
    BY <2>5 DEF vars
  <2> QED BY <2>1, <2>2, <2>3, <2>4, <2>5 DEF Next
<1> QED BY <1>1, <1>2, ScannerTypes, PTL DEF Spec

-----------------------------------------------------------------------------
(* Lockouts *)

\* The channels of the configuration keep their places: only the manual ones, which
\* stand behind them, come and go.
SeedsInPlace ==
  /\ Len(channels) >= Len(Seeds)
  /\ \A i \in Indices(Seeds) : At(channels, i) = At(Seeds, i)
  /\ \A i \in Indices(channels) : i >= Len(Seeds) => At(channels, i) \in Manual
  /\ \A i \in tempChannels : i >= Len(Seeds)

\* The store agrees with the list, or one caller is about to make it agree.
Settled(i, f) ==
  \/ Reporting(f) = {} /\ (i \in lockedOut <=> f \in stored)
  \/ \E d \in Callers : Reporting(f) = {d} /\ (api[d].locked <=> i \in lockedOut)
StoreFollows ==
  \A i \in Indices(Seeds) :
    Alone(i) /\ At(Seeds, i).freq \notin unsettled => Settled(i, At(Seeds, i).freq)

LEMMA SeedsInPlaceHolds ==
  ASSUME TypeOK, SeedsInPlace, [Next]_vars
  PROVE  SeedsInPlace'
<1>1. channels \in Seq(Channel) /\ Seeds \in Seq(Channel)
      /\ Len(channels) \in Nat /\ Len(Seeds) \in Nat
  BY ConvAssumption, LenProperties DEF TypeOK
<1>2. ASSUME channels' = channels, tempChannels' = tempChannels PROVE SeedsInPlace'
  BY <1>2 DEF SeedsInPlace, Indices, At
<1>3. ASSUME NEW c \in Callers, NEW ch \in Manual, AddTemporaryChannel(c, ch)
      PROVE  SeedsInPlace'
  <2>1. /\ channels' = Append(channels, ch) /\ tempChannels' = tempChannels \cup {Len(channels)}
        /\ ch \in Channel
    BY <1>3, ConvAssumption DEF AddTemporaryChannel
  <2>2. /\ Len(channels') = Len(channels) + 1 /\ At(channels', Len(channels)) = ch
        /\ \A i \in Indices(channels) : At(channels', i) = At(channels, i)
    BY <1>1, <2>1, AppendProperties DEF At, Indices
  <2>3. \A i \in Indices(channels') : i \in Indices(channels) \/ i = Len(channels)
    BY <1>1, <2>2 DEF Indices
  <2>4. \A i \in Indices(Seeds) : i \in Indices(channels)
    BY <1>1 DEF Indices, SeedsInPlace
  <2> QED BY <1>1, <2>1, <2>2, <2>3, <2>4 DEF SeedsInPlace
<1>4. ASSUME NEW c \in Callers, RemoveChannel(c) PROVE SeedsInPlace'
  <2> DEFINE r == api[c].idx
  <2>1. CASE r \in tempChannels
    <3>1. channels' = Without(channels, r) /\ tempChannels' = Shifted(tempChannels, r)
      BY <1>4, <2>1 DEF RemoveChannel
    <3>2. r \in Indices(channels) /\ r \in Nat /\ r >= Len(Seeds) /\ r < Len(channels)
      <4>1. r \in Indices(channels) /\ r >= Len(Seeds)
        BY <2>1 DEF TypeOK, SeedsInPlace
      <4> HIDE DEF r
      <4> QED BY <1>1, <4>1 DEF Indices
    <3> HIDE DEF r
    <3>3. /\ Len(channels') = Len(channels) - 1
          /\ \A i \in Nat : i < r => At(channels', i) = At(channels, i)
      BY <1>1, <3>1, <3>2, TakenOut
    <3>4. \A i \in Indices(channels') : i >= r => At(channels', i) = At(channels, i + 1)
      BY <1>1, <3>1, <3>2, <3>3 DEF At, Without, Indices
    <3>5. \A i \in Indices(channels') : i >= Len(Seeds) => At(channels', i) \in Manual
      <4> SUFFICES ASSUME NEW i \in Indices(channels'), i >= Len(Seeds)
                   PROVE  At(channels', i) \in Manual
        OBVIOUS
      <4>1. i \in Nat /\ i \in Indices(channels) /\ i + 1 \in Indices(channels)
            /\ i + 1 >= Len(Seeds)
        BY <1>1, <3>3 DEF Indices
      <4> QED BY <3>2, <3>3, <3>4, <4>1 DEF SeedsInPlace
    <3>6. \A i \in tempChannels' : i >= Len(Seeds)
      <4> SUFFICES ASSUME NEW i \in Shifted(tempChannels, r) PROVE i >= Len(Seeds)
        BY <3>1
      <4>1. CASE i \in {j \in tempChannels : j < r}
        BY <4>1 DEF SeedsInPlace
      <4>2. CASE i \in {j - 1 : j \in {k \in tempChannels : k > r}}
        <5>1. PICK j \in tempChannels : j > r /\ i = j - 1
          BY <4>2
        <5>2. j \in Nat
          BY <1>1 DEF TypeOK, Indices
        <5> QED BY <1>1, <3>2, <5>1, <5>2
      <4> QED BY <4>1, <4>2 DEF Shifted
    <3>7. \A i \in Indices(Seeds) : i \in Nat /\ i < r
      BY <1>1, <3>2 DEF Indices
    <3> QED BY <1>1, <3>2, <3>3, <3>5, <3>6, <3>7 DEF SeedsInPlace
  <2>2. CASE r \notin tempChannels
    BY <1>2, <1>4, <2>2 DEF RemoveChannel, list
  <2> QED BY <2>1, <2>2
<1>5. ASSUME Restart PROVE SeedsInPlace'
  <2>1. channels' = Seeds /\ tempChannels' = {}
    BY <1>5 DEF Restart, Started
  <2> QED BY <1>1, <2>1 DEF SeedsInPlace, Indices
<1>6. ASSUME LoopStep PROVE SeedsInPlace'
  BY <1>2, <1>6 DEF LoopStep, LoopUnchanged, CheckHeld, PickNextChannel, Tune, ScanWindow,
       BeginDwell, HandleSyntheticCall, StreamFails, EndDwell, Settle, Chunk, list
<1>7. ASSUME NEW c \in Callers, EndSyntheticCall(c) \/ OnLockoutChange(c) PROVE SeedsInPlace'
  BY <1>2, <1>7 DEF EndSyntheticCall, OnLockoutChange, list
<1>8. ASSUME NEW c \in Callers, Hold(c) \/ Resume(c) PROVE SeedsInPlace'
  BY <1>2, <1>8 DEF Hold, Resume, list
<1>9. ASSUME NEW c \in Callers, NEW i \in Indices(channels),
             DwellOn(c, i) \/ LockoutChannel(c, i) \/ UnlockoutChannel(c, i)
               \/ RemoveTemporaryChannel(c, i)
      PROVE  SeedsInPlace'
  BY <1>2, <1>9 DEF DwellOn, LockoutChannel, UnlockoutChannel, RemoveTemporaryChannel, list
<1>10. CASE UNCHANGED vars
  BY <1>2, <1>10 DEF vars, list
<1> QED BY <1>3, <1>4, <1>5, <1>6, <1>7, <1>8, <1>9, <1>10 DEF Next, Operator, ApiStep

\* A caller that reports nothing about f before and after a step of its own makes no
\* difference to who does.
LEMMA SameReporters ==
  ASSUME TypeOK, NEW c \in Callers, NEW f,
         NEW a \in Caller, api' = [api EXCEPT ![c] = a],
         c \notin Reporting(f), ~(a.at \in {"endlocked", "report"} /\ a.freq = f)
  PROVE  /\ Reporting(f)' = Reporting(f)
         /\ \A d \in Reporting(f) : api'[d] = api[d]
<1>1. \A d \in Callers : d # c => api'[d] = api[d]
  BY DEF TypeOK
<1>2. api'[c] = a
  BY DEF TypeOK
<1> QED BY <1>1, <1>2 DEF Reporting

\* What is settled for f stays settled when f's callers, place and store are left alone.
LEMMA StaysSettled ==
  ASSUME NEW i, NEW f, Settled(i, f), Reporting(f)' = Reporting(f),
         \A d \in Reporting(f) : api'[d].locked = api[d].locked,
         i \in lockedOut' <=> i \in lockedOut, f \in stored' <=> f \in stored
  PROVE  Settled(i, f)'
BY DEF Settled

LEMMA StoreFollowsLockout ==
  ASSUME TypeOK, SeedsInPlace, StoreFollows, NEW c \in Callers, NEW j \in Indices(channels),
         LockoutChannel(c, j) \/ UnlockoutChannel(c, j)
  PROVE  StoreFollows'
<1> DEFINE g == At(channels, j).freq
<1>1. channels \in Seq(Channel) /\ Len(channels) \in Nat /\ j \in Nat /\ g \in Nat
      /\ Len(Seeds) \in Nat
  BY Placed, ConvAssumption, LenProperties DEF TypeOK, Channel
<1>2. Noticed(g) /\ api[c].at = "idle" /\ stored' = stored
  BY DEF LockoutChannel, UnlockoutChannel, Called
<1>3. PICK a \in Caller : /\ api' = [api EXCEPT ![c] = a]
                          /\ a.at \in {"endlocked", "report"} /\ a.freq = g
                          /\ \/ a.locked = TRUE /\ lockedOut' = lockedOut \cup {j}
                             \/ a.locked = FALSE /\ lockedOut' = lockedOut \ {j}
  <2> DEFINE entry(at, locked) == [at |-> at, idx |-> j, freq |-> g, locked |-> locked]
  <2>1. \A at \in {"endlocked", "report"}, locked \in BOOLEAN : entry(at, locked) \in Caller
    BY <1>1 DEF Caller
  <2>2. CASE LockoutChannel(c, j)
    <3> DEFINE a == entry(IF dwellIndex = j THEN "endlocked" ELSE "report", TRUE)
    <3>1. api' = [api EXCEPT ![c] = a] /\ lockedOut' = lockedOut \cup {j}
      BY <2>2 DEF LockoutChannel
    <3>2. a \in Caller /\ a.at \in {"endlocked", "report"} /\ a.freq = g /\ a.locked = TRUE
      BY <2>1
    <3> HIDE DEF a
    <3> QED BY <3>1, <3>2
  <2>3. CASE UnlockoutChannel(c, j)
    <3> DEFINE a == entry("report", FALSE)
    <3>1. api' = [api EXCEPT ![c] = a] /\ lockedOut' = lockedOut \ {j}
      BY <2>3 DEF UnlockoutChannel
    <3>2. a \in Caller /\ a.at \in {"endlocked", "report"} /\ a.freq = g /\ a.locked = FALSE
      BY <2>1
    <3> HIDE DEF a
    <3> QED BY <3>1, <3>2
  <2> QED BY <2>2, <2>3
<1> HIDE DEF g
<1> SUFFICES ASSUME NEW i \in Indices(Seeds), Alone(i), At(Seeds, i).freq \notin unsettled'
             PROVE  Settled(i, At(Seeds, i).freq)'
  BY DEF StoreFollows, Alone
<1> DEFINE f == At(Seeds, i).freq
<1>4. c \notin Reporting(f)
  BY <1>2 DEF Reporting
<1>5. CASE f = g
  <2>1. i = j
    <3>1. CASE j \in Indices(Seeds)
      BY <1>5, <3>1 DEF g, SeedsInPlace, Alone
    <3>2. CASE j \notin Indices(Seeds)
      <4>1. At(channels, j) \in Manual
        BY <1>1, <3>2 DEF SeedsInPlace, Indices
      <4> QED BY <1>5, <4>1 DEF g, Alone
    <3> QED BY <3>1, <3>2
  <2>2. Reporting(f) = {}
    BY <1>2, <1>5 DEF Noticed
  <2>3. Reporting(f)' = {c} /\ api'[c] = a
    <3>1. api'[c] = a /\ \A d \in Callers : d # c => api'[d] = api[d]
      BY <1>3 DEF TypeOK
    <3> HIDE DEF f
    <3> QED BY <1>3, <1>5, <2>2, <3>1 DEF Reporting
  <2>4. api'[c].locked <=> i \in lockedOut'
    BY <1>3, <2>1, <2>3
  <2> QED BY <2>3, <2>4 DEF Settled
<1>6. CASE f # g
  <2>1. f \notin unsettled
    BY <1>2, <1>6 DEF Noticed
  <2>2. i # j
    BY <1>6 DEF g, SeedsInPlace
  <2>3. Settled(i, f)
    BY <2>1 DEF StoreFollows
  <2>4. Reporting(f)' = Reporting(f) /\ \A d \in Reporting(f) : api'[d] = api[d]
    BY <1>3, <1>4, <1>6, SameReporters
  <2>5. i \in lockedOut' <=> i \in lockedOut
    BY <1>3, <2>2
  <2> QED BY <1>2, <2>3, <2>4, <2>5, StaysSettled
<1> QED BY <1>5, <1>6

LEMMA StoreFollowsReport ==
  ASSUME TypeOK, StoreFollows, NEW c \in Callers, OnLockoutChange(c)
  PROVE  StoreFollows'
<1> DEFINE g == api[c].freq
<1>1. /\ api[c].at = "report" /\ api' = [api EXCEPT ![c] = Idle] /\ Idle \in Caller
      /\ lockedOut' = lockedOut /\ unsettled' = unsettled
      /\ stored' = IF api[c].locked THEN stored \cup {g} ELSE stored \ {g}
  BY DEF OnLockoutChange, list, Idle, Caller
<1> SUFFICES ASSUME NEW i \in Indices(Seeds), Alone(i), At(Seeds, i).freq \notin unsettled
             PROVE  Settled(i, At(Seeds, i).freq)'
  BY <1>1 DEF StoreFollows, Alone
<1> DEFINE f == At(Seeds, i).freq
<1>2. Settled(i, f)
  BY DEF StoreFollows
<1> HIDE DEF f
<1>3. CASE f = g
  <2>1. c \in Reporting(f)
    BY <1>1, <1>3 DEF Reporting
  <2>2. Reporting(f) = {c} /\ (api[c].locked <=> i \in lockedOut)
    BY <1>2, <2>1 DEF Settled
  <2>3. api'[c] = Idle /\ \A d \in Callers : d # c => api'[d] = api[d]
    BY <1>1 DEF TypeOK
  <2>4. Reporting(f)' = {}
    BY <2>2, <2>3 DEF Reporting, Idle
  <2>5. f \in stored' <=> api[c].locked
    BY <1>1, <1>3
  <2> QED BY <1>1, <2>2, <2>4, <2>5 DEF Settled, f
<1>4. CASE f # g
  <2>1. c \notin Reporting(f)
    BY <1>4 DEF Reporting
  <2>2. Idle.at \notin {"endlocked", "report"}
    BY DEF Idle
  <2>3. Reporting(f)' = Reporting(f) /\ \A d \in Reporting(f) : api'[d] = api[d]
    BY <1>1, <2>1, <2>2, SameReporters DEF f
  <2>4. f \in stored' <=> f \in stored
    BY <1>1, <1>4
  <2> QED BY <1>1, <1>2, <2>3, <2>4, StaysSettled DEF f
<1> QED BY <1>3, <1>4

\* A restart takes what is stored for what is locked out.
LEMMA StoreFollowsRestart ==
  ASSUME Restart
  PROVE  StoreFollows'
<1>1. lockedOut' = Restored(stored) /\ stored' = stored /\ api' = [c \in Callers |-> Idle]
  BY DEF Restart, Started
<1>2. \A f : Reporting(f)' = {}
  BY <1>1 DEF Reporting, Idle
<1>3. \A i \in Indices(Seeds) : i \in lockedOut' <=> At(Seeds, i).freq \in stored'
  BY <1>1 DEF Restored
<1> QED BY <1>2, <1>3 DEF StoreFollows, Settled

LEMMA StoreFollowsRemoval ==
  ASSUME TypeOK, SeedsInPlace, StoreFollows, NEW c \in Callers, RemoveChannel(c)
  PROVE  StoreFollows'
<1> DEFINE r == api[c].idx
<1>1. api[c].at = "remove" /\ api' = [api EXCEPT ![c] = Idle] /\ Idle \in Caller
      /\ Idle.at \notin {"endlocked", "report"} /\ stored' = stored /\ unsettled' = unsettled
  BY DEF RemoveChannel, Idle, Caller, store
<1>2. \A f : Reporting(f)' = Reporting(f) /\ \A d \in Reporting(f) : api'[d] = api[d]
  BY <1>1, SameReporters DEF Reporting
<1>3. \A i \in Indices(Seeds) : i \in lockedOut' <=> i \in lockedOut
  <2>1. CASE r \in tempChannels
    <3>1. lockedOut' = Shifted(lockedOut, r)
      BY <2>1 DEF RemoveChannel
    <3>2. r \in Indices(channels) /\ r >= Len(Seeds)
      BY <2>1 DEF TypeOK, SeedsInPlace
    <3>3. Len(channels) \in Nat /\ Len(Seeds) \in Nat
      BY LenProperties, ConvAssumption DEF TypeOK
    <3>4. lockedOut \subseteq Nat
      BY <3>3 DEF TypeOK, Indices
    <3> HIDE DEF r
    <3>5. r \in Nat /\ \A i \in Indices(Seeds) : i \in Nat /\ i < r
      BY <3>2, <3>3 DEF Indices
    <3>6. \A i \in {k - 1 : k \in {n \in lockedOut : n > r}} : i >= r
      BY <3>4, <3>5
    <3> SUFFICES ASSUME NEW i \in Indices(Seeds) PROVE i \in lockedOut' <=> i \in lockedOut
      OBVIOUS
    <3>7. i < r /\ ~(i >= r)
      BY <3>5
    <3>8. i \notin {k - 1 : k \in {n \in lockedOut : n > r}}
      BY <3>6, <3>7
    <3>9. lockedOut' = {k \in lockedOut : k < r} \cup {k - 1 : k \in {n \in lockedOut : n > r}}
      BY <3>1 DEF Shifted
    <3> QED BY <3>7, <3>8, <3>9
  <2>2. CASE r \notin tempChannels
    BY <2>2 DEF RemoveChannel, list
  <2> QED BY <2>1, <2>2
<1> SUFFICES ASSUME NEW i \in Indices(Seeds), Alone(i), At(Seeds, i).freq \notin unsettled
             PROVE  Settled(i, At(Seeds, i).freq)'
  BY <1>1 DEF StoreFollows, Alone
<1>4. Settled(i, At(Seeds, i).freq)
  BY DEF StoreFollows
<1> QED BY <1>1, <1>2, <1>3, <1>4, StaysSettled

LEMMA StoreFollowsStep ==
  ASSUME TypeOK, SeedsInPlace, StoreFollows, [Next]_vars
  PROVE  StoreFollows'
<1>1. ASSUME lockedOut' = lockedOut, store' = store,
             \A f : Reporting(f)' = Reporting(f)
                    /\ \A d \in Reporting(f) : api'[d].locked = api[d].locked
      PROVE  StoreFollows'
  <2>1. stored' = stored /\ unsettled' = unsettled
    BY <1>1 DEF store
  <2> SUFFICES ASSUME NEW i \in Indices(Seeds), Alone(i), At(Seeds, i).freq \notin unsettled
               PROVE  Settled(i, At(Seeds, i).freq)'
    BY <2>1 DEF StoreFollows, Alone
  <2>2. Settled(i, At(Seeds, i).freq)
    BY DEF StoreFollows
  <2> QED BY <1>1, <2>1, <2>2, StaysSettled
<1>2. ASSUME lockedOut' = lockedOut, store' = store, api' = api PROVE StoreFollows'
  BY <1>1, <1>2 DEF Reporting
<1>3. ASSUME LoopStep PROVE StoreFollows'
  BY <1>2, <1>3 DEF LoopStep, LoopUnchanged, CheckHeld, PickNextChannel, Tune, ScanWindow,
       BeginDwell, HandleSyntheticCall, StreamFails, EndDwell, Settle, Chunk, list
<1>4. ASSUME NEW c \in Callers, EndSyntheticCall(c) PROVE StoreFollows'
  <2>1. PICK at : /\ api' = [api EXCEPT ![c].at = at]
                  /\ at \in {"endlocked", "report"} <=> api[c].at \in {"endlocked", "report"}
                  /\ api[c].at \in {"endlocked", "endremoved"}
    BY <1>4 DEF EndSyntheticCall
  <2>2. /\ \A d \in Callers : api'[d].freq = api[d].freq /\ api'[d].locked = api[d].locked
        /\ \A d \in Callers : d # c => api'[d] = api[d]
        /\ api'[c].at = at
    BY <2>1 DEF TypeOK, Caller
  <2>3. \A f : Reporting(f)' = Reporting(f)
    BY <2>1, <2>2 DEF Reporting
  <2>4. \A f : \A d \in Reporting(f) : api'[d].locked = api[d].locked
    BY <2>2 DEF Reporting
  <2> QED BY <1>1, <1>4, <2>3, <2>4 DEF EndSyntheticCall, list
<1>5. ASSUME NEW c \in Callers, NEW i \in Indices(channels), RemoveTemporaryChannel(c, i)
      PROVE  StoreFollows'
  <2>1. PICK at \in {"endremoved", "remove"} :
          api' = [api EXCEPT ![c].at = at, ![c].idx = i] /\ api[c].at = "idle"
    BY <1>5 DEF RemoveTemporaryChannel, Called
  <2>2. api'[c].at = at /\ \A d \in Callers : d # c => api'[d] = api[d]
    BY <2>1 DEF TypeOK, Caller
  <2>3. \A f : Reporting(f)' = Reporting(f) /\ c \notin Reporting(f)
    BY <2>1, <2>2 DEF Reporting
  <2>4. \A f : \A d \in Reporting(f) : api'[d].locked = api[d].locked
    BY <2>2, <2>3 DEF Reporting
  <2> QED BY <1>1, <1>5, <2>3, <2>4 DEF RemoveTemporaryChannel, list
<1>6. ASSUME NEW c \in Callers, Hold(c) \/ Resume(c) PROVE StoreFollows'
  BY <1>2, <1>6 DEF Hold, Resume, list
<1>7. ASSUME NEW c \in Callers, NEW i \in Indices(channels), DwellOn(c, i) PROVE StoreFollows'
  BY <1>2, <1>7 DEF DwellOn, list
<1>8. ASSUME NEW c \in Callers, NEW ch \in Manual, AddTemporaryChannel(c, ch)
      PROVE  StoreFollows'
  BY <1>2, <1>8 DEF AddTemporaryChannel
<1>9. CASE UNCHANGED vars
  BY <1>2, <1>9 DEF vars, list
<1> QED BY <1>3, <1>4, <1>5, <1>6, <1>7, <1>8, <1>9, StoreFollowsLockout, StoreFollowsReport,
           StoreFollowsRemoval, StoreFollowsRestart DEF Next, Operator, ApiStep

\* For a channel with a frequency of its own, the lockout in force is the one stored,
\* whatever is added, removed or restarted, once the calls for it have returned and
\* unless the last of them overlapped another.
THEOREM LockoutsAreRemembered == Spec => []LockoutsPersist
<1>1. Init => SeedsInPlace /\ StoreFollows
  <2> SUFFICES ASSUME Init PROVE SeedsInPlace /\ StoreFollows
    OBVIOUS
  <2>1. Len(Seeds) \in Nat
    BY ConvAssumption, LenProperties
  <2>2. SeedsInPlace
    BY <2>1 DEF Init, SeedsInPlace, Indices
  <2>3. \A f : Reporting(f) = {}
    BY DEF Init, Reporting, Idle
  <2> QED BY <2>2, <2>3 DEF Init, StoreFollows, Settled
<1>2. TypeOK /\ SeedsInPlace /\ StoreFollows /\ [Next]_vars => SeedsInPlace' /\ StoreFollows'
  BY SeedsInPlaceHolds, StoreFollowsStep
<1>3. StoreFollows => LockoutsPersist
  BY DEF StoreFollows, LockoutsPersist, Settled
<1> QED BY <1>1, <1>2, <1>3, ScannerTypes, PTL DEF Spec
=============================================================================
