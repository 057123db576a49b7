----------------------------- MODULE CCHuntProofs -----------------------------
(***************************************************************************)
(* For any number of systems, candidates and events that wait: every part  *)
(* of the hunt is well formed, the backoff windows keep their cap, the     *)
(* retune channel is armed exactly while a round is under way, and no      *)
(* round of hunting takes a camped system out of its camp.                 *)
(*                                                                         *)
(* The first half is about the systems' states and where the loop is: the  *)
(* invariant Sound. CampedUntilTraffic needs its conjunct that only        *)
(* systems on silent channels camp, because markFailed does not look at    *)
(* the state. The second half adds what the hunter holds: its candidates   *)
(* are always the loop's system's, and none are left over when a round     *)
(* ends. That what HuntOrder makes of the configured channels is a list of *)
(* the same channels is proved by induction on the list (from the          *)
(* library's theorem on minimal elements, which needs no operator).        *)
(***************************************************************************)
EXTENDS CCHunt, TLAPS, WellFoundedInduction, SequenceTheorems

LoopPlace == {"top", "check", "start", "try", "tuned", "dwell", "parked"}

Sound ==
  /\ state \in [Systems -> HuntState]
  /\ held \in [Systems -> BOOLEAN]
  /\ window \in [Systems -> 1..MaxBackoff]
  /\ due \in [Systems -> BOOLEAN]
  /\ pc \in LoopPlace
  /\ cursor \in 1..Len(Order)
  /\ retune \in {"none", "armed", "closed"}
  /\ retune # "none" <=> pc \in {"try", "tuned", "dwell"}
  /\ \A s \in Systems : state[s] = "Camped" => s \in Camps

\* The same of the systems alone, which the listener and the operator change.
SystemsSound ==
  /\ state \in [Systems -> HuntState]
  /\ held \in [Systems -> BOOLEAN]
  /\ window \in [Systems -> 1..MaxBackoff]
  /\ due \in [Systems -> BOOLEAN]
  /\ \A s \in Systems : state[s] = "Camped" => s \in Camps

LoopSound ==
  /\ pc \in LoopPlace
  /\ cursor \in 1..Len(Order)
  /\ retune \in {"none", "armed", "closed"}
  /\ retune # "none" <=> pc \in {"try", "tuned", "dwell"}

LEMMA SoundParts == Sound <=> SystemsSound /\ LoopSound
BY DEF Sound, SystemsSound, LoopSound

LEMMA OrderLength == Len(Order) \in Nat \ {0}
BY HuntAssumption

LEMMA CurIsASystem ==
  ASSUME LoopSound
  PROVE  Cur \in Systems
BY DEF LoopSound, Cur, Systems

LEMMA NextIsAPlace ==
  ASSUME LoopSound
  PROVE  Following \in 1..Len(Order)
BY OrderLength DEF LoopSound, Following

-----------------------------------------------------------------------------
LEMMA InitSound == Init => Sound
<1> SUFFICES ASSUME Init PROVE Sound
  OBVIOUS
<1>1. window \in [Systems -> 1..MaxBackoff] /\ cursor \in 1..Len(Order)
  BY OrderLength, HuntAssumption DEF Init
<1> QED BY <1>1 DEF Init, Sound, HuntState, LoopPlace

\* One step of the loop, seen from the loop.
LEMMA LoopStepLoop ==
  ASSUME LoopSound, LoopStep
  PROVE  LoopSound'
<1> USE OrderLength, NextIsAPlace DEF LoopSound, LoopPlace
<1>1. CASE Top \/ CheckLocked \/ StartRound
  BY <1>1 DEF Top, CheckLocked, StartRound
<1>2. CASE TryNext \/ Drain \/ DwellTimeout
  BY <1>2 DEF TryNext, Drain, DwellTimeout
<1>3. CASE Win \/ Cancelled
  BY <1>3 DEF Win, Cancelled, EndRound
<1>4. CASE MarkFailed \/ MarkCamped
  BY <1>4 DEF MarkFailed, MarkCamped, EndRound
<1>5. CASE Unpark
  BY <1>5 DEF Unpark
<1> QED BY <1>1, <1>2, <1>3, <1>4, <1>5 DEF LoopStep

\* One step of the loop, seen from the systems.
LEMMA LoopStepSystems ==
  ASSUME Sound, LoopStep
  PROVE  SystemsSound'
<1>1. SystemsSound /\ Cur \in Systems
  BY SoundParts, CurIsASystem
<1> USE DEF SystemsSound
<1>2. CASE Top \/ CheckLocked \/ TryNext \/ Drain \/ DwellTimeout \/ Win \/ Cancelled \/ Unpark
  BY <1>1, <1>2
     DEF Top, CheckLocked, TryNext, Drain, DwellTimeout, Win, Cancelled, Unpark, systems
<1>3. CASE StartRound
  BY <1>1, <1>3 DEF StartRound, HuntState
<1>4. CASE MarkFailed
  <2>1. window' \in [Systems -> 1..MaxBackoff]
    BY <1>1, <1>4, HuntAssumption DEF MarkFailed
  <2> QED BY <1>1, <1>4, <2>1 DEF MarkFailed, HuntState
<1>5. CASE MarkCamped
  <2>1. window' \in [Systems -> 1..MaxBackoff]
    BY <1>1, <1>5, HuntAssumption DEF MarkCamped
  <2> QED BY <1>1, <1>5, <2>1 DEF MarkCamped, HuntState
<1> QED BY <1>2, <1>3, <1>4, <1>5 DEF LoopStep

\* The listener changes states, never to camped.
LEMMA ListenSystems ==
  ASSUME SystemsSound, Listen
  PROVE  SystemsSound'
<1> USE DEF SystemsSound, HuntState
<1>1. CASE RecordLock(Head(inbox).freq)
  <2>1. PICK s \in Systems : /\ state' = [state EXCEPT ![s] = "Locked"]
                             /\ window' = [window EXCEPT ![s] = 1]
                             /\ UNCHANGED <<held, due>>
    BY <1>1 DEF RecordLock
  <2>2. window' \in [Systems -> 1..MaxBackoff]
    BY <2>1, HuntAssumption
  <2> QED BY <2>1, <2>2
<1>2. CASE RecordLost(Head(inbox).freq)
  BY <1>2 DEF RecordLost
<1> QED BY <1>1, <1>2 DEF Listen

LEMMA OperatorSystems ==
  ASSUME SystemsSound, Operator
  PROVE  SystemsSound'
<1> USE DEF SystemsSound, HuntState
<1>1. 1 \in 1..MaxBackoff
  BY HuntAssumption
<1>2. ASSUME NEW s \in Systems, Hold(s) \/ Resume(s) \/ ForceRetune(s)
      PROVE  SystemsSound'
  BY <1>1, <1>2 DEF Hold, Resume, ForceRetune
<1>3. CASE PauseAll
  BY <1>3 DEF PauseAll
<1>4. CASE ResumeAll
  BY <1>1, <1>4 DEF ResumeAll
<1>5. CASE SwapTuner
  BY <1>5 DEF SwapTuner, systems
<1> QED BY <1>2, <1>3, <1>4, <1>5 DEF Operator

\* The operator closes an armed channel and does nothing else to the loop.
LEMMA OperatorLoop ==
  ASSUME LoopSound, Operator
  PROVE  LoopSound' /\ pc' = pc /\ cursor' = cursor
<1> USE DEF LoopSound, LoopPlace
<1>1. ASSUME NEW s \in Systems, Hold(s) \/ Resume(s) \/ ForceRetune(s)
      PROVE  LoopSound' /\ pc' = pc /\ cursor' = cursor
  BY <1>1 DEF Hold, Resume, ForceRetune, CloseRetune, loop
<1>2. CASE PauseAll \/ ResumeAll \/ SwapTuner
  BY <1>2 DEF PauseAll, ResumeAll, SwapTuner, CloseRetune, loop
<1> QED BY <1>1, <1>2 DEF Operator

LEMMA StepSound == Sound /\ [Next]_vars => Sound'
<1> SUFFICES ASSUME Sound, [Next]_vars PROVE Sound'
  OBVIOUS
<1>1. SystemsSound /\ LoopSound /\ (SystemsSound' /\ LoopSound' => Sound')
  BY SoundParts DEF Sound, SystemsSound, LoopSound
<1>2. CASE LoopStep
  BY <1>1, <1>2, LoopStepLoop, LoopStepSystems
<1>3. CASE Operator
  BY <1>1, <1>3, OperatorSystems, OperatorLoop
<1>4. CASE Listen
  <2>1. UNCHANGED loop
    BY <1>4 DEF Listen
  <2> QED BY <1>1, <1>4, <2>1, ListenSystems DEF LoopSound, loop
<1>5. CASE Switch \/ EmitLocked \/ EmitLost \/ CarrierChanges
  BY <1>5 DEF Switch, EmitLocked, EmitLost, CarrierChanges, Sound, systems, loop
<1>6. CASE \E s \in Systems : BackoffElapses(s)
  BY <1>6 DEF BackoffElapses, Sound, loop
<1>7. CASE UNCHANGED vars
  BY <1>7 DEF vars, systems, loop, Sound
<1> QED BY <1>2, <1>3, <1>4, <1>5, <1>6, <1>7 DEF Next, Unattended

\* The systems' states, their backoff windows and the retune channel stay sound, whatever
\* the decoder reports and the operator does, for any number of systems.
THEOREM HuntSound == Spec => []Sound
BY InitSound, StepSound, PTL DEF Spec

-----------------------------------------------------------------------------
\* A step that moves the loop leaves a camped system camped.
LEMMA CampedStep ==
  Sound /\ [Next]_vars =>
    [\A s \in Systems : state[s] = "Camped" /\ pc' # pc => state'[s] = "Camped"]_vars
<1> SUFFICES ASSUME Sound, Next, NEW s \in Systems, state[s] = "Camped", pc' # pc
             PROVE  state'[s] = "Camped"
  OBVIOUS
<1>1. s \in Camps /\ Cur \in Systems
  BY SoundParts, CurIsASystem DEF Sound
<1>2. LoopStep
  <2>1. ~Operator
    BY SoundParts, OperatorLoop
  <2>2. ~(Listen \/ Switch \/ EmitLocked \/ EmitLost \/ CarrierChanges)
    BY DEF Listen, Switch, EmitLocked, EmitLost, CarrierChanges, loop
  <2>3. ~\E t \in Systems : BackoffElapses(t)
    BY DEF BackoffElapses, loop
  <2> QED BY <2>1, <2>2, <2>3 DEF Next, Unattended
<1>3. CASE StartRound
  BY <1>1, <1>3 DEF StartRound, Sound
<1>4. CASE MarkFailed
  <2>1. s # Cur
    BY <1>1, <1>4 DEF MarkFailed
  <2> QED BY <1>1, <1>4, <2>1 DEF MarkFailed, Sound
<1>5. CASE MarkCamped
  BY <1>1, <1>5 DEF MarkCamped, Sound
<1>6. CASE Top \/ CheckLocked \/ TryNext \/ Drain \/ Win \/ DwellTimeout \/ Cancelled \/ Unpark
  BY <1>6 DEF Top, CheckLocked, TryNext, Drain, Win, DwellTimeout, Cancelled, Unpark, systems
<1> QED BY <1>2, <1>3, <1>4, <1>5, <1>6 DEF LoopStep

\* No round of hunting, won, cancelled or exhausted, takes a camped system out of its
\* camp.
THEOREM CampsStayCamped == Spec => CampedUntilTraffic
BY HuntSound, CampedStep, PTL DEF Spec, CampedUntilTraffic

-----------------------------------------------------------------------------
\* Induction over the naturals, without an operator for what is proved: a set of naturals
\* that is not empty has a least element.
LEMMA LeastElement ==
  ASSUME NEW S \in SUBSET Nat, S # {}
  PROVE  \E n \in S : \A m \in S : n <= m
<1> DEFINE R == OpToRel(<, Nat)
<1>1. IsWellFoundedOn(R, Nat)
  BY NatLessThanWellFounded, Zenon
<1>2. \A m, n \in Nat : <<m, n>> \in R <=> m < n
  BY DEF OpToRel
<1> HIDE DEF R
<1>3. PICK n \in S : \A m \in S : ~ (<<m, n>> \in R)
  BY <1>1, WFMin
<1>4. ASSUME NEW m \in S PROVE n <= m
  <2>1. m \in Nat /\ n \in Nat /\ ~ (m < n)
     BY <1>2, <1>3
  <2> QED BY <2>1
<1> QED BY <1>4

\* A set with 0 and, up to N, the successor of each of its elements has all up to N.
LEMMA Induction ==
  ASSUME NEW S \in SUBSET Nat, NEW N \in Nat, 0 \in S,
         \A n \in 1..N : n - 1 \in S => n \in S
  PROVE  0..N \subseteq S
<1> DEFINE Missed == (0..N) \ S
<1> SUFFICES ASSUME Missed # {} PROVE FALSE
  OBVIOUS
<1>1. Missed \in SUBSET Nat /\ 0 \notin Missed
  OBVIOUS
<1>2. \A n \in Missed : n \in 1..N /\ n - 1 \in Missed /\ ~(n <= n - 1)
  OBVIOUS
<1> HIDE DEF Missed
<1>3. PICK n \in Missed : \A m \in Missed : n <= m
  BY <1>1, LeastElement
<1> QED BY <1>2, <1>3

\* The recursive definition of kept has a value at every place of the list, and each of
\* them is a list of channels of the list.
LEMMA WithoutIsAList ==
  ASSUME NEW C, NEW list \in Seq(C), NEW f
  PROVE  Without(list, f) \in Seq(C)
<1> DEFINE N == Len(list)
           Rest(k, i) == IF list[i] = f THEN k ELSE Append(k, list[i])
           Body(k, i) == IF i = 0 THEN <<>> ELSE Rest(k[i - 1], i)
           kept[i \in 0..Len(list)] ==
             IF i = 0 THEN <<>>
             ELSE IF list[i] = f THEN kept[i - 1] ELSE Append(kept[i - 1], list[i])
           Defined(n) == \E k \in [0..n -> Seq(C)] : \A i \in 0..n : k[i] = Body(k, i)
           D == {n \in Nat : Defined(n)}
<1>1. N \in Nat /\ \A i \in 1..N : list[i] \in C
  OBVIOUS
<1>2. ASSUME NEW i \in 1..N, NEW k \in Seq(C)
      PROVE  Rest(k, i) \in Seq(C)
  BY <1>1, <1>2
<1>3. Defined(0)
  <2> DEFINE k == [i \in 0..0 |-> <<>>]
  <2>1. k \in [0..0 -> Seq(C)]
    OBVIOUS
  <2>2. \A i \in 0..0 : k[i] = Body(k, i)
    OBVIOUS
  <2> QED BY <2>1, <2>2
<1>4. ASSUME NEW n \in 1..N, Defined(n - 1)
      PROVE  Defined(n)
  <2>1. PICK h \in [0..(n - 1) -> Seq(C)] : \A i \in 0..(n - 1) : h[i] = Body(h, i)
    BY <1>4
  <2> HIDE DEF Rest
  <2> DEFINE k == [i \in 0..n |-> IF i = n THEN Rest(h[n - 1], n) ELSE h[i]]
  <2>2. h[n - 1] \in Seq(C)
    OBVIOUS
  <2>3. k \in [0..n -> Seq(C)]
    BY <1>2, <2>2
  <2>4. ASSUME NEW i \in 0..n PROVE k[i] = Body(k, i)
    <3>1. CASE i = n
      <4>1. k[n] = Rest(h[n - 1], n) /\ k[n - 1] = h[n - 1] /\ n # 0
        BY <1>1
      <4> QED BY <3>1, <4>1
    <3>2. CASE i # n /\ i # 0
      <4>1. k[i] = h[i] /\ k[i - 1] = h[i - 1] /\ i \in 0..(n - 1)
        BY <3>2, <1>1
      <4> QED BY <2>1, <3>2, <4>1
    <3>3. CASE i # n /\ i = 0
      <4>1. k[i] = h[i] /\ i \in 0..(n - 1)
        BY <3>3, <1>1
      <4> QED BY <2>1, <3>3, <4>1
    <3> QED BY <3>1, <3>2, <3>3
  <2> QED BY <2>3, <2>4
<1>5. Defined(N)
  <2> HIDE DEF Defined
  <2>1. D \in SUBSET Nat /\ 0 \in D /\ \A n \in 1..N : n - 1 \in D => n \in D
    BY <1>1, <1>3, <1>4
  <2> HIDE DEF D
  <2>2. N \in D
    BY <1>1, <2>1, Induction
  <2> QED BY <2>2 DEF D
<1>6. PICK k \in [0..N -> Seq(C)] : \A i \in 0..N : k[i] = Body(k, i)
  BY <1>5
<1>7. k = [i \in 0..N |-> Body(k, i)]
  BY <1>6
<1>8. kept = [i \in 0..N |-> Body(kept, i)]
  BY <1>7
<1> HIDE DEF kept
<1> HIDE DEF Rest
<1>9. ASSUME NEW n \in 1..N, kept[n - 1] \in Seq(C)
      PROVE  kept[n] \in Seq(C)
  <2>1. n \in 0..N /\ n # 0
    BY <1>1
  <2>2. kept[n] = Rest(kept[n - 1], n)
    BY <1>8, <2>1
  <2> QED BY <1>2, <1>9, <2>2
<1>10. kept[N] \in Seq(C)
  <2> DEFINE T == {n \in Nat : kept[n] \in Seq(C)}
  <2>1. kept[0] \in Seq(C)
    BY <1>1, <1>8
  <2>2. T \in SUBSET Nat /\ 0 \in T /\ \A n \in 1..N : n - 1 \in T => n \in T
    <3>1. \A n \in 1..N : n \in Nat
      BY <1>1
    <3> QED BY <1>9, <2>1, <3>1
  <2> HIDE DEF T, N
  <2>3. N \in T
    <3>1. 0..N \subseteq T
      BY <1>1, <2>2, Induction
    <3> QED BY <1>1, <3>1
  <2> QED BY <2>3 DEF T
<1> QED BY <1>10 DEF Without, kept

\* A round starts with the system's own channels, whatever the cache holds.
LEMMA RoundHasCandidates ==
  ASSUME NEW s \in Systems
  PROVE  HuntOrder(s) \in Seq(CandidateSet(s))
<1>1. Candidates[s] \in Seq(CandidateSet(s))
  <2> DEFINE list == Candidates[s]
  <2>1. list \in Seq(Freqs)
    BY HuntAssumption
  <2>2. CandidateSet(s) = {list[i] : i \in 1..Len(list)}
    BY DEF CandidateSet
  <2> HIDE DEF list
  <2>3. Len(list) \in Nat /\ list = [i \in 1..Len(list) |-> list[i]]
    BY <2>1, LenProperties
  <2>4. \A i \in 1..Len(list) : list[i] \in CandidateSet(s)
    BY <2>2
  <2> QED BY <2>3, <2>4, IsASeq DEF list
<1>2. Without(Candidates[s], cache[s]) \in Seq(CandidateSet(s))
  BY <1>1, WithoutIsAList
<1>3. cache[s] \in CandidateSet(s) => <<cache[s]>> \in Seq(CandidateSet(s))
  OBVIOUS
<1> QED BY <1>1, <1>2, <1>3 DEF HuntOrder

-----------------------------------------------------------------------------
Event == [kind : {"locked", "lost"}, freq : Freqs]

InRound == pc \in {"try", "tuned", "dwell"}

\* The hunter has channels of the loop's system to try, and none outside a round: the
\* next system's round never starts on what the last one left.
HunterTyped ==
  /\ cache \in [Systems -> Freqs \cup {None}]
  /\ todo \in Seq(CandidateSet(Cur))
  /\ pc \in {"tuned", "dwell"} => todo # <<>>
  /\ ~InRound => todo = <<>>
  /\ heard \in BOOLEAN
  /\ tuned \in Freqs \cup {None}
  /\ asked \in Attempt \cup {None}

DecoderTyped ==
  /\ lockedFreq \in [Systems -> Freqs \cup {None}]
  /\ inbox \in Seq(Event) /\ Len(inbox) <= Inbox
  /\ on \in Attempt \cup {None}
  /\ lock \in {"none", "locked", "silent"} /\ (lock # "none" => on # None)

LEMMA TypeParts == Sound /\ HunterTyped /\ DecoderTyped => TypeOK
BY DEF Sound, HunterTyped, DecoderTyped, TypeOK, LoopPlace, Event

LEMMA InitTyped == Init => HunterTyped /\ DecoderTyped
<1> SUFFICES ASSUME Init PROVE HunterTyped /\ DecoderTyped
  OBVIOUS
<1>1. HunterTyped
  <2>1. todo = <<>> /\ pc = "top"
    BY DEF Init
  <2>2. todo \in Seq(CandidateSet(Cur))
    BY <2>1
  <2> QED BY <2>1, <2>2 DEF Init, HunterTyped, InRound
<1>2. DecoderTyped
  <2>1. inbox = <<>> /\ Len(inbox) = 0 /\ 0 <= Inbox
    BY HuntAssumption DEF Init
  <2> QED BY <2>1 DEF Init, DecoderTyped
<1> QED BY <1>1, <1>2

LEMMA CandidatesAreFreqs ==
  ASSUME Sound, HunterTyped
  PROVE  /\ Cur \in Systems /\ CandidateSet(Cur) \subseteq Freqs
         /\ todo # <<>> => /\ Head(todo) \in CandidateSet(Cur)
                          /\ Tail(todo) \in Seq(CandidateSet(Cur))
<1>1. Cur \in Systems
  BY SoundParts, CurIsASystem
<1> QED BY <1>1 DEF Freqs, HunterTyped

\* A round that is over leaves no candidates to the next system.
LEMMA EndRoundTyped ==
  ASSUME HunterTyped, NEW next \in {"top", "parked"}, EndRound(next),
         cache' \in [Systems -> Freqs \cup {None}], UNCHANGED <<tuned, asked>>
  PROVE  HunterTyped'
<1>1. todo' = <<>> /\ pc' = next /\ heard' = FALSE
  BY DEF EndRound
<1>2. <<>> \in Seq(CandidateSet(Cur'))
  OBVIOUS
<1>3. todo' \in Seq(CandidateSet(Cur))'
  BY <1>1, <1>2 DEF CandidateSet
<1> QED BY <1>1, <1>3 DEF HunterTyped, InRound

LEMMA LoopHunter ==
  ASSUME Sound, HunterTyped, LoopStep
  PROVE  HunterTyped'
<1>1. /\ Cur \in Systems /\ CandidateSet(Cur) \subseteq Freqs
      /\ todo # <<>> => /\ Head(todo) \in CandidateSet(Cur)
                       /\ Tail(todo) \in Seq(CandidateSet(Cur))
  BY CandidatesAreFreqs
<1>2. ASSUME UNCHANGED cursor PROVE CandidateSet(Cur)' = CandidateSet(Cur)
  BY <1>2 DEF Cur, CandidateSet
<1> USE DEF HunterTyped, InRound
<1>3. CASE Top
  <2>1. todo' = <<>> /\ pc' \in {"top", "check"} /\ UNCHANGED <<heard, hunter>>
    BY <1>3 DEF Top
  <2>2. todo' \in Seq(CandidateSet(Cur))'
    BY <2>1 DEF CandidateSet
  <2> QED BY <2>1, <2>2 DEF hunter
<1>4. CASE CheckLocked
  BY <1>2, <1>4 DEF CheckLocked, hunter
<1>5. CASE StartRound
  <2>1. todo' \in Seq(CandidateSet(Cur))
    BY <1>1, <1>5, RoundHasCandidates DEF StartRound
  <2> QED BY <1>2, <1>5, <2>1 DEF StartRound, hunter
<1>6. CASE TryNext
  <2>1. asked' \in Attempt
    BY <1>1, <1>6 DEF TryNext, Attempt
  <2> QED BY <1>1, <1>2, <1>6, <2>1 DEF TryNext
<1>7. CASE Drain
  BY <1>2, <1>7 DEF Drain, hunter
<1>8. CASE Win
  <2>1. EndRound("parked") /\ UNCHANGED <<tuned, asked>>
    BY <1>8 DEF Win
  <2>2. cache' \in [Systems -> Freqs \cup {None}]
    BY <1>1, <1>8 DEF Win
  <2> QED BY <2>1, <2>2, EndRoundTyped
<1>9. CASE DwellTimeout
  BY <1>1, <1>2, <1>9 DEF DwellTimeout, hunter
<1>10. CASE Cancelled \/ MarkFailed \/ MarkCamped
  <2>1. EndRound("top") /\ UNCHANGED <<cache, tuned, asked>>
    BY <1>10 DEF Cancelled, MarkFailed, MarkCamped, hunter
  <2> QED BY <2>1, EndRoundTyped
<1>11. CASE Unpark
  <2>1. todo' = <<>> /\ pc' = "top" /\ UNCHANGED <<heard, hunter>>
    BY <1>11 DEF Unpark
  <2>2. todo' \in Seq(CandidateSet(Cur))'
    BY <2>1 DEF CandidateSet
  <2> QED BY <2>1, <2>2 DEF hunter
<1> QED BY <1>3, <1>4, <1>5, <1>6, <1>7, <1>8, <1>9, <1>10, <1>11 DEF LoopStep

\* A lock or a loss moves the frequency a system is known to be locked on.
LEMMA ListenDecoder ==
  ASSUME DecoderTyped, Listen
  PROVE  DecoderTyped'
<1> USE DEF DecoderTyped
<1>1. /\ Head(inbox) \in Event
      /\ Tail(inbox) \in Seq(Event) /\ Len(Tail(inbox)) <= Inbox
  BY HuntAssumption DEF Listen
<1>2. lockedFreq' \in [Systems -> Freqs \cup {None}]
  BY <1>1 DEF Listen, RecordLock, RecordLost, Event
<1> QED BY <1>1, <1>2 DEF Listen, decoder

LEMMA DecoderSteps ==
  ASSUME HunterTyped, DecoderTyped, Switch \/ EmitLocked \/ EmitLost \/ CarrierChanges
  PROVE  HunterTyped' /\ DecoderTyped'
<1>1. UNCHANGED <<pc, cursor, todo, cache, tuned, asked, lockedFreq>> /\ heard' \in BOOLEAN
  BY DEF Switch, EmitLocked, EmitLost, CarrierChanges, HunterTyped, systems, loop, hunter
<1>2. HunterTyped'
  BY <1>1 DEF HunterTyped, InRound, Cur, CandidateSet
<1>3. CASE Switch
  <2>1. /\ on' \in Attempt /\ lock' = "none" /\ UNCHANGED <<lockedFreq, inbox>>
    BY <1>1, <1>3 DEF Switch, HunterTyped
  <2> QED BY <1>2, <2>1 DEF DecoderTyped
<1>4. ASSUME NEW k \in {"locked", "lost"}, on \in Attempt, Len(inbox) < Inbox,
             inbox' = Append(inbox, [kind |-> k, freq |-> on.freq])
      PROVE  inbox' \in Seq(Event) /\ Len(inbox') <= Inbox
  <2>1. [kind |-> k, freq |-> on.freq] \in Event
    BY <1>4 DEF Attempt, Event
  <2>2. inbox \in Seq(Event)
    BY DEF DecoderTyped
  <2> QED BY <1>4, <2>1, <2>2, HuntAssumption
<1>5. CASE EmitLocked
  <2>1. /\ on \in Attempt /\ on # None /\ Len(inbox) < Inbox /\ lock' = "locked" /\ on' = on
        /\ inbox' = Append(inbox, [kind |-> "locked", freq |-> on.freq])
    BY <1>5 DEF EmitLocked, DecoderTyped
  <2>2. inbox' \in Seq(Event) /\ Len(inbox') <= Inbox
    BY <1>4, <2>1
  <2> QED BY <1>1, <1>2, <2>1, <2>2 DEF DecoderTyped
<1>6. CASE EmitLost
  <2>1. /\ on \in Attempt /\ Len(inbox) < Inbox /\ lock' = "none" /\ on' = on
        /\ inbox' = Append(inbox, [kind |-> "lost", freq |-> on.freq])
    BY <1>6 DEF EmitLost, DecoderTyped, loop
  <2>2. inbox' \in Seq(Event) /\ Len(inbox') <= Inbox
    BY <1>4, <2>1
  <2> QED BY <1>1, <1>2, <2>1, <2>2 DEF DecoderTyped
<1>7. CASE CarrierChanges
  BY <1>1, <1>2, <1>7 DEF CarrierChanges, DecoderTyped
<1> QED BY <1>2, <1>3, <1>5, <1>6, <1>7

LEMMA StepTyped ==
  Sound /\ HunterTyped /\ DecoderTyped /\ [Next]_vars => HunterTyped' /\ DecoderTyped'
<1> SUFFICES ASSUME Sound, HunterTyped, DecoderTyped, [Next]_vars
             PROVE  HunterTyped' /\ DecoderTyped'
  OBVIOUS
<1>1. ASSUME UNCHANGED <<pc, cursor, todo, heard, hunter>> PROVE HunterTyped'
  BY <1>1 DEF HunterTyped, InRound, Cur, CandidateSet, hunter
<1>2. ASSUME UNCHANGED <<lockedFreq, others>> PROVE DecoderTyped'
  BY <1>2 DEF DecoderTyped, others, decoder
<1>3. CASE LoopStep
  <2>1. UNCHANGED <<lockedFreq, others>>
    BY <1>3 DEF LoopStep, Top, CheckLocked, StartRound, TryNext, Drain, Win, DwellTimeout,
                Cancelled, MarkFailed, MarkCamped, Unpark, systems
  <2> QED BY <1>2, <1>3, <2>1, LoopHunter
<1>4. CASE Listen
  <2>1. UNCHANGED <<pc, cursor, todo, heard, hunter>>
    BY <1>4 DEF Listen, loop
  <2> QED BY <1>1, <1>4, <2>1, ListenDecoder
<1>5. CASE Switch \/ EmitLocked \/ EmitLost \/ CarrierChanges
  BY <1>5, DecoderSteps
<1>6. CASE Operator \/ \E s \in Systems : BackoffElapses(s)
  <2>1. UNCHANGED <<pc, cursor, todo, heard, hunter, lockedFreq, others>>
    BY <1>6 DEF Operator, Hold, Resume, ForceRetune, PauseAll, ResumeAll, SwapTuner,
                BackoffElapses, loop, systems
  <2> QED BY <1>1, <1>2, <2>1
<1>7. CASE UNCHANGED vars
  <2>1. UNCHANGED <<pc, cursor, todo, heard, hunter, lockedFreq, others>>
    BY <1>7 DEF vars, loop, systems
  <2> QED BY <1>1, <1>2, <2>1
<1> QED BY <1>3, <1>4, <1>5, <1>6, <1>7 DEF Next, Unattended

\* Every part of the hunt is well formed for any number of systems and channels: in
\* particular the hunter never tries a channel of another system, however rounds are won,
\* cancelled and given up (Hunter.Hunt, cchunt.go:92-159; supervisor.go:187-274).
THEOREM HuntTypes == Spec => []TypeOK
<1>1. Spec => [](Sound /\ HunterTyped /\ DecoderTyped)
  BY HuntSound, InitTyped, StepTyped, PTL DEF Spec
<1> QED BY <1>1, TypeParts, PTL
=============================================================================
