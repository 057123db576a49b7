-------------------------- MODULE SdrRecoveryProofs --------------------------
(***************************************************************************)
(* For every budget of backoffs and any number of faults: SdrRecovery is   *)
(* type correct, the daemon gives up only after as many short runs as it   *)
(* has backoffs, and a retry nobody disturbs ends in a stream.             *)
(*                                                                         *)
(* The invariant Calm follows an undisturbed retry from its start: at each *)
(* step of Reacquire it says which of the pool's, the broker's and the     *)
(* loop's handles is the one that claims the device.                       *)
(***************************************************************************)
EXTENDS SdrRecovery, FiniteSetTheorems, TLAPS

\* Who has opened a handle has it in hand.
Holding ==
  \A p \in Users : at[p] \in {"opened", "programmed", "swapped"} => new[p] \in Handles

TInv == TypeOK /\ Holding

\* Every attempt but the first is paid for by a short run.
Counted == (shorts = Budget \/ attempt <= shorts + 1) /\ FatalNeedsFailures

\* How far an undisturbed retry has come.
Calm ==
  calm =>
    /\ plugged /\ at["dog"] = "idle"
    /\ pc \in {"acquire", "point", "rebuild"}
    /\ at["loop"] \in {"begun", "found"} => Reachable
    /\ at["loop"] = "found" => old["loop"] = device
    /\ at["loop"] = "released" => live = None
    /\ at["loop"] \in {"opened", "programmed", "swapped"} => live = new["loop"]
    /\ at["loop"] = "swapped" => device = live
    /\ pc = "point" => device = live /\ shown
    /\ pc = "rebuild" => inner = live /\ shown

-----------------------------------------------------------------------------
\* There is always another handle to open.

LEMMA OneMore ==
  ASSUME NEW S, NEW x, NEW n \in Nat, NEW m \in Nat, m = n + 1,
         IsFiniteSet(S), Cardinality(S) <= n
  PROVE  IsFiniteSet(S \cup {x}) /\ Cardinality(S \cup {x}) <= m
<1>1. Cardinality(S) \in Nat
  BY FS_CardinalityType
<1>2. CASE x \in S
  <2>1. S \cup {x} = S
    BY <1>2
  <2> QED BY <1>1, <2>1
<1>3. CASE x \notin S
  <2>1. IsFiniteSet(S \cup {x}) /\ Cardinality(S \cup {x}) = Cardinality(S) + 1
    BY <1>3, FS_AddElement, Zenon
  <2> QED BY <1>1, <2>1
<1> QED BY <1>2, <1>3

LEMMA SevenAtMost ==
  ASSUME NEW a, NEW b, NEW c, NEW d, NEW e, NEW f, NEW g
  PROVE  IsFiniteSet({a, b, c, d, e, f, g}) /\ Cardinality({a, b, c, d, e, f, g}) <= 7
<1>1. IsFiniteSet({a}) /\ Cardinality({a}) <= 1
  BY FS_Singleton
<1>2. IsFiniteSet({a} \cup {b}) /\ Cardinality({a} \cup {b}) <= 2
  BY <1>1, OneMore, 1 \in Nat, 2 \in Nat, 2 = 1 + 1
<1>3. IsFiniteSet({a} \cup {b} \cup {c}) /\ Cardinality({a} \cup {b} \cup {c}) <= 3
  BY <1>2, OneMore, 2 \in Nat, 3 \in Nat, 3 = 2 + 1
<1>4. /\ IsFiniteSet({a} \cup {b} \cup {c} \cup {d})
      /\ Cardinality({a} \cup {b} \cup {c} \cup {d}) <= 4
  BY <1>3, OneMore, 3 \in Nat, 4 \in Nat, 4 = 3 + 1
<1>5. /\ IsFiniteSet({a} \cup {b} \cup {c} \cup {d} \cup {e})
      /\ Cardinality({a} \cup {b} \cup {c} \cup {d} \cup {e}) <= 5
  BY <1>4, OneMore, 4 \in Nat, 5 \in Nat, 5 = 4 + 1
<1>6. /\ IsFiniteSet({a} \cup {b} \cup {c} \cup {d} \cup {e} \cup {f})
      /\ Cardinality({a} \cup {b} \cup {c} \cup {d} \cup {e} \cup {f}) <= 6
  BY <1>5, OneMore, 5 \in Nat, 6 \in Nat, 6 = 5 + 1
<1>7. /\ IsFiniteSet({a} \cup {b} \cup {c} \cup {d} \cup {e} \cup {f} \cup {g})
      /\ Cardinality({a} \cup {b} \cup {c} \cup {d} \cup {e} \cup {f} \cup {g}) <= 7
  BY <1>6, OneMore, 6 \in Nat, 7 \in Nat, 7 = 6 + 1
<1>8. {a} \cup {b} \cup {c} \cup {d} \cup {e} \cup {f} \cup {g} = {a, b, c, d, e, f, g}
  OBVIOUS
<1> QED BY <1>7, <1>8

LEMMA FreshHandle ==
  ASSUME live = None
  PROVE  Fresh \in Handles /\ Fresh \notin InUse
<1> DEFINE Others == {device, inner, stream, old["loop"], old["dog"], new["loop"], new["dog"]}
<1>1. Handles \cap InUse \subseteq Others
  BY SdrAssumption DEF InUse, Users
<1>2. IsFiniteSet(Others) /\ Cardinality(Others) <= 7
  BY SevenAtMost
<1>3. ~(Handles \subseteq Others)
  <2>1. SUFFICES ASSUME Handles \subseteq Others PROVE FALSE
    OBVIOUS
  <2>2. Cardinality(Handles) <= Cardinality(Others)
    BY <1>2, <2>1, FS_Subset
  <2>3. Cardinality(Handles) \in Nat /\ Cardinality(Others) \in Nat
    BY <1>2, SdrAssumption, FS_CardinalityType
  <2> QED BY <1>2, <2>2, <2>3, SdrAssumption
<1>4. \E h \in Handles : h \notin InUse
  BY <1>1, <1>3
<1> QED BY <1>4 DEF Fresh

LEMMA SomeHandle == (CHOOSE h \in Handles : TRUE) \in Handles
<1>1. Handles # {}
  BY SdrAssumption, FS_EmptySet
<1> QED BY <1>1

-----------------------------------------------------------------------------
\* Type correctness.

LEMMA InitTypes == Init => TInv
<1> SUFFICES ASSUME Init PROVE TInv
  OBVIOUS
<1>1. /\ faults \in 0..MaxFaults /\ errors \in 0..MaxErrors
      /\ attempt \in 0..Budget /\ shorts \in 0..Budget
  BY SdrAssumption DEF Init
<1>2. live \in Handles /\ device \in Handles /\ inner \in Handles /\ stream \in Handles
  BY SomeHandle DEF Init
<1>3. plugged \in BOOLEAN /\ missing \in BOOLEAN /\ shown \in BOOLEAN /\ calm \in BOOLEAN
  BY DEF Init
<1>4. at \in [Users -> Step] /\ \A p \in Users : at[p] = "idle"
  BY DEF Init, Users, Step
<1>5. old \in [Users -> Handles \cup {None}] /\ new \in [Users -> Handles \cup {None}]
  BY DEF Init
<1>6. pc = "run" /\ (live # None => plugged)
  BY DEF Init
<1> QED BY <1>1, <1>2, <1>3, <1>4, <1>5, <1>6 DEF TInv, TypeOK, Holding, Users

LEMMA DriverFailsTypes ==
  ASSUME errors \in 0..MaxErrors, DriverFails
  PROVE  errors' \in 0..MaxErrors
BY SdrAssumption DEF DriverFails

LEMMA ReacquireTypes ==
  ASSUME TInv, NEW p \in Users, Reacquire(p)
  PROVE  TInv'
<1> USE DEF TInv, TypeOK, Holding, Users, Step
<1>1. CASE FindEntry(p)
  BY <1>1 DEF FindEntry, bus, refs, loop
<1>2. CASE Release(p)
  BY <1>2 DEF Release, bus, refs, loop
<1>3. CASE Open(p)
  <2>1. CASE plugged /\ live = None
    <3>1. Fresh \in Handles
      BY <2>1, FreshHandle
    <3>2. CASE DriverFails /\ Return(p, "rebuild") /\ live' = live /\ calm' = FALSE
      BY <1>3, <3>2, DriverFailsTypes DEF Open, Return, refs
    <3>3. CASE errors' = errors /\ calm' = calm
      BY <1>3, <2>1, <3>1, <3>3 DEF Open, Return, refs
    <3> QED BY <1>3, <2>1, <3>2, <3>3 DEF Open
  <2>2. CASE ~(plugged /\ live = None)
    BY <1>3, <2>2 DEF Open, Return, refs
  <2> QED BY <2>1, <2>2
<1>4. CASE Program(p)
  <2>1. CASE new[p] = live
    BY <1>4, <2>1, DriverFailsTypes DEF Program, Return, refs
  <2>2. CASE new[p] # live
    BY <1>4, <2>2 DEF Program, Return, refs
  <2> QED BY <2>1, <2>2
<1>5. CASE Swap(p)
  BY <1>5 DEF Swap, bus, loop
<1>6. CASE PublishAttached(p)
  BY <1>6 DEF PublishAttached, Return, bus, refs
<1> QED BY <1>1, <1>2, <1>3, <1>4, <1>5, <1>6 DEF Reacquire

LEMMA CreditType ==
  ASSUME TInv, NEW length \in RunLength
  PROVE  Credit(length) \in 0..Budget
BY SdrAssumption DEF TInv, TypeOK, Credit, RunLength

LEMMA RunEndsTypes ==
  ASSUME TInv, NEW length \in RunLength, RunEnds(length)
  PROVE  /\ stream' = None /\ pc' \in {"wait", "fatal"}
         /\ attempt' \in 0..Budget /\ shorts' \in 0..Budget
<1>1. Credit(length) \in 0..Budget
  BY CreditType
<1> QED BY <1>1, SdrAssumption DEF RunEnds, TInv, TypeOK, RunLength

LEMMA StepTypes == TInv /\ [Next]_vars => TInv'
<1> SUFFICES ASSUME TInv, [Next]_vars PROVE TInv'
  OBVIOUS
<1>1. CASE \E p \in Users : Reacquire(p)
  BY <1>1, ReacquireTypes
<1>2. CASE StreamEnds
  <2>1. PICK length \in RunLength : RunEnds(length)
    BY <1>2 DEF StreamEnds
  <2> QED BY <1>2, <2>1, RunEndsTypes
       DEF StreamEnds, TInv, TypeOK, Holding, bus, reacquire, Users, Step
<1>3. CASE BackoffElapses
  BY <1>3 DEF BackoffElapses, TInv, TypeOK, Holding, bus, refs, Users, Step, Reachable
<1>4. CASE PointBroker
  BY <1>4 DEF PointBroker, TInv, TypeOK, Holding, bus, reacquire, Users, Step
<1>5. CASE RunDecoder
  <2>1. CASE inner = live
    BY <1>5, <2>1 DEF RunDecoder, TInv, TypeOK, Holding, bus, reacquire, Users, Step
  <2>2. CASE inner # live
    <3>1. RunEnds("short") /\ "short" \in RunLength
      BY <1>5, <2>2 DEF RunDecoder, RunLength
    <3> QED BY <1>5, <2>2, <3>1, RunEndsTypes
         DEF RunDecoder, TInv, TypeOK, Holding, bus, reacquire, Users, Step
  <2> QED BY <2>1, <2>2
<1>6. CASE Tick
  BY <1>6, DriverFailsTypes DEF Tick, TInv, TypeOK, Holding, refs, loop, Users, Step
<1>7. CASE Unplug
  <2>1. faults' \in 0..MaxFaults
    BY <1>7, SdrAssumption DEF Unplug, TInv, TypeOK
  <2> QED BY <1>7, <2>1 DEF Unplug, TInv, TypeOK, Holding, refs, loop, reacquire, Users, Step
<1>8. CASE Replug \/ StreamBreaks
  <2>1. faults' \in 0..MaxFaults
    BY <1>8, SdrAssumption DEF Replug, StreamBreaks, TInv, TypeOK
  <2> QED BY <1>8, <2>1
       DEF Replug, StreamBreaks, TInv, TypeOK, Holding, refs, loop, reacquire, Users, Step
<1>9. CASE UNCHANGED vars
  BY <1>9 DEF vars, bus, refs, loop, reacquire, TInv, TypeOK, Holding, Users, Step
<1> QED BY <1>1, <1>2, <1>3, <1>4, <1>5, <1>6, <1>7, <1>8, <1>9
     DEF Next, LoopStep, DogStep, Users

\* The state of pool, broker, loop and watchdog stays well formed, whatever fails when.
THEOREM RecoveryTypes == Spec => []TypeOK
<1>1. Spec => []TInv
  BY InitTypes, StepTypes, PTL DEF Spec
<1>2. TInv => TypeOK
  BY DEF TInv
<1> QED BY <1>1, <1>2, PTL

-----------------------------------------------------------------------------
\* The budget.

LEMMA InitCounted == Init => Counted
BY DEF Init, Counted, FatalNeedsFailures

\* A run that ends is paid for, or decayed, or resets the count.
LEMMA RunEndsCounted ==
  ASSUME TInv, Counted, NEW length \in RunLength, RunEnds(length)
  PROVE  Counted'
<1> USE SdrAssumption DEF TInv, TypeOK, Counted, FatalNeedsFailures, RunEnds, Credit
<1>1. CASE length = "healthy"
  BY <1>1
<1>2. CASE length = "progress"
  BY <1>2
<1>3. CASE length = "short"
  BY <1>3
<1> QED BY <1>1, <1>2, <1>3 DEF RunLength

LEMMA StepCounted == TInv /\ Counted /\ [Next]_vars => Counted'
<1> SUFFICES ASSUME TInv, Counted, [Next]_vars PROVE Counted'
  OBVIOUS
<1>1. CASE StreamEnds
  BY <1>1, RunEndsCounted DEF StreamEnds
<1>2. CASE RunDecoder
  <2>1. CASE inner = live
    BY <1>2, <2>1 DEF RunDecoder, Counted, FatalNeedsFailures
  <2>2. CASE inner # live
    BY <1>2, <2>2, RunEndsCounted DEF RunDecoder, RunLength
  <2> QED BY <2>1, <2>2
<1>3. CASE \E p \in Users : Reacquire(p)
  <2>1. PICK p \in Users : Reacquire(p)
    BY <1>3
  <2> USE DEF Counted, FatalNeedsFailures
  <2>2. CASE FindEntry(p) \/ Release(p) \/ Swap(p)
    BY <2>2 DEF FindEntry, Release, Swap, loop
  <2>3. CASE Open(p) \/ Program(p) \/ PublishAttached(p)
    BY <2>3 DEF Open, Program, PublishAttached, Return
  <2> QED BY <2>1, <2>2, <2>3 DEF Reacquire
<1>4. CASE BackoffElapses \/ PointBroker
  BY <1>4 DEF BackoffElapses, PointBroker, Counted, FatalNeedsFailures
<1>5. CASE Tick \/ Unplug \/ Replug \/ StreamBreaks \/ UNCHANGED vars
  BY <1>5 DEF Tick, Unplug, Replug, StreamBreaks, vars, loop, Counted, FatalNeedsFailures
<1> QED BY <1>1, <1>2, <1>3, <1>4, <1>5 DEF Next, LoopStep, DogStep, Users

\* The daemon gives up only after as many short runs as it has backoffs, however long the
\* schedule and however many longer runs come in between.
THEOREM GivesUpOnFailures == Spec => []FatalNeedsFailures
<1>1. Spec => [](TInv /\ Counted)
  BY InitTypes, StepTypes, InitCounted, StepCounted, PTL DEF Spec
<1>2. Counted => FatalNeedsFailures
  BY DEF Counted
<1> QED BY <1>1, <1>2, PTL

-----------------------------------------------------------------------------
\* The undisturbed retry.

LEMMA InitCalm == Init => Calm
BY DEF Init, Calm

LEMMA LoopReacquireCalm ==
  ASSUME TInv, Calm, Reacquire("loop")
  PROVE  Calm'
<1> USE DEF Calm, TInv, TypeOK, Users, Step
<1>1. CASE FindEntry("loop")
  BY <1>1 DEF FindEntry, bus, refs, loop, Reachable
<1>2. CASE Release("loop")
  BY <1>2 DEF Release, bus, refs, loop, Reachable
<1>3. CASE Open("loop")
  <2>1. CASE plugged /\ live = None
    BY <1>3, <2>1 DEF Open, Return, refs
  <2>2. CASE ~(plugged /\ live = None)
    BY <1>3, <2>2 DEF Open, Return, refs
  <2> QED BY <2>1, <2>2
<1>4. CASE Program("loop")
  <2>1. CASE new["loop"] = live
    BY <1>4, <2>1 DEF Program, Return, refs
  <2>2. CASE new["loop"] # live
    BY <1>4, <2>2 DEF Program, Return, refs
  <2> QED BY <2>1, <2>2
<1>5. CASE Swap("loop")
  BY <1>5 DEF Swap, bus, loop
<1>6. CASE PublishAttached("loop")
  BY <1>6 DEF PublishAttached, Return, bus, refs
<1> QED BY <1>1, <1>2, <1>3, <1>4, <1>5, <1>6 DEF Reacquire

\* The watchdog in the middle of its own Reacquire means that the retry is not calm.
LEMMA DogReacquireCalm ==
  ASSUME TInv, Calm, Reacquire("dog")
  PROVE  Calm'
<1>1. at["dog"] # "idle" /\ calm' \in {calm, FALSE}
  BY DEF Reacquire, FindEntry, Release, Open, Program, Swap, PublishAttached
<1> QED BY <1>1 DEF Calm

LEMMA StepCalm == TInv /\ Calm /\ [Next]_vars => Calm'
<1> SUFFICES ASSUME TInv, Calm, [Next]_vars PROVE Calm'
  OBVIOUS
<1>1. CASE Reacquire("loop")
  BY <1>1, LoopReacquireCalm
<1>2. CASE Reacquire("dog")
  BY <1>2, DogReacquireCalm
<1>3. CASE StreamEnds \/ RunDecoder \/ Unplug
  BY <1>3 DEF StreamEnds, RunDecoder, Unplug, Calm
<1>4. CASE BackoffElapses
  BY <1>4 DEF BackoffElapses, Calm, TInv, TypeOK, Users, Step, bus, refs, Reachable
<1>5. CASE PointBroker
  BY <1>5 DEF PointBroker, Calm, TInv, TypeOK, Users, Step, bus, reacquire
<1>6. CASE Tick
  BY <1>6 DEF Tick, Calm
<1>7. CASE Replug \/ StreamBreaks
  BY <1>7 DEF Replug, StreamBreaks, Streaming, Calm, refs, loop, reacquire
<1>8. CASE UNCHANGED vars
  BY <1>8 DEF vars, bus, refs, loop, reacquire, Calm, Reachable
<1> QED BY <1>1, <1>2, <1>3, <1>4, <1>5, <1>6, <1>7, <1>8
     DEF Next, LoopStep, DogStep

\* The step that ends an undisturbed retry starts a stream.
LEMMA CalmStep ==
  TInv /\ Calm /\ [Next]_vars =>
    [pc = "rebuild" /\ calm /\ pc' # pc => pc' = "run" /\ Streaming' /\ shown']_vars
<1> SUFFICES ASSUME TInv, Calm, Next, pc = "rebuild", calm, pc' # pc
             PROVE  pc' = "run" /\ Streaming' /\ shown'
  OBVIOUS
<1>1. at["loop"] = "idle"
  BY DEF TInv, TypeOK
<1>2. ~Reacquire("loop") /\ ~Reacquire("dog")
  BY <1>1 DEF Calm, Reacquire, FindEntry, Release, Open, Program, Swap, PublishAttached
<1>3. RunDecoder
  BY <1>2 DEF Next, LoopStep, DogStep, StreamEnds, BackoffElapses, PointBroker, Tick,
              Unplug, Replug, StreamBreaks, loop
<1>4. inner = live /\ shown /\ inner # None
  BY SdrAssumption DEF Calm, TInv, TypeOK
<1> QED BY <1>3, <1>4 DEF RunDecoder, Streaming

\* Whatever earlier attempts left behind, a retry during which the device stays on the
\* bus, no call into the driver fails and the watchdog stays out ends in a stream.
THEOREM UndisturbedRetryHeals == Spec => CalmRetryHeals
<1>1. Spec => [](TInv /\ Calm)
  BY InitTypes, StepTypes, InitCalm, StepCalm, PTL DEF Spec
<1> QED BY <1>1, CalmStep, PTL DEF Spec, CalmRetryHeals
=============================================================================
