------------------------- MODULE RecorderDrainProofs -------------------------
(***************************************************************************)
(* For any number of devices, calls and events in their middle, and any    *)
(* buffer: RecorderDrain is type correct, a fenced chain never writes into *)
(* another call's file, no over of a call is announced twice or out of     *)
(* order, what comes late for one call never finishes the recording of     *)
(* the next, a recording is not closed while its chain may still write,    *)
(* and the recorder implements the abstract specification Recordings.      *)
(***************************************************************************)
EXTENDS RecorderDrain, SequenceTheorems, TLAPS

Maybe(S) == S \cup {NoCall}

\* The state is well formed, and every call somebody has in hand has been started, so
\* that its device is known. By owner:
EngineT ==
  /\ live \in [Devices -> Maybe(Calls)] /\ \A d \in Devices : live[d] \in Maybe(Begun)
  /\ leaving \subseteq Begun
  /\ about \in [Calls -> Maybe(About)] /\ \A c \in Begun : about[c] \in About
  /\ seq \in 0..MaxCalls /\ rolls \in 0..MaxRolls

QueueT ==
  /\ recQ \in Seq(Event) /\ Len(recQ) <= Buffer
  /\ compQ \in Seq(Event) /\ Len(compQ) <= Buffer

FilesT ==
  /\ sessions \in [Devices -> Session \cup {NoSession}]
  /\ complete \in Seq(Recording)

PendingT ==
  /\ pending \in [Devices -> Pending \cup {NoPending}]
  /\ \A d \in Devices : pending[d].ce \in Maybe(Begun)

RecT ==
  /\ rec \in Recorder
  /\ rec.goal \subseteq Begun /\ rec.call \in Maybe(Begun)
  /\ rec.pc = "open" => rec.call # NoCall

TimersT == late \in SUBSET Calls /\ late \subseteq Begun /\ fired \in SUBSET (Devices \X Calls)

CompT ==
  /\ chain \in [Devices -> Maybe(Calls)] /\ \A d \in Devices : chain[d] \in Maybe(Begun)
  /\ comp \in Composer
  /\ comp.call \in Maybe(Begun) /\ comp.ce \in Maybe(Begun)
  /\ comp.pc \in {"replace", "wait", "notify"} => comp.call # NoCall
  /\ comp.pc = "finalize" => comp.ce # NoCall

Typed == EngineT /\ QueueT /\ FilesT /\ PendingT /\ RecT /\ TimersT /\ CompT

LEMMA CallFacts ==
  ASSUME EngineT
  PROVE  /\ NoCall \notin Calls /\ NoCall \notin Begun /\ Begun \subseteq Calls
         /\ seq \in Nat /\ \A c \in Begun : Dev(c) \in Devices /\ Kind(c) \in Kinds
BY RecorderAssumption DEF EngineT, Begun, Calls, Dev, Kind, About

LEMMA TypedIsTypeOK == Typed => TypeOK
BY CallFacts DEF Typed, EngineT, QueueT, FilesT, PendingT, RecT, TimersT, CompT, Maybe, TypeOK

-----------------------------------------------------------------------------
\* Queues.

LEMMA DeliveredType ==
  ASSUME NEW q \in Seq(Event), Len(q) <= Buffer, NEW e \in Event
  PROVE  Delivered(q, e) \in Seq(Event) /\ Len(Delivered(q, e)) <= Buffer
BY AppendProperties, LenProperties, RecorderAssumption DEF Delivered

LEMMA TailType ==
  ASSUME NEW q \in Seq(Event), Len(q) <= Buffer, q # <<>>
  PROVE  Tail(q) \in Seq(Event) /\ Len(Tail(q)) <= Buffer
BY HeadTailProperties, LenProperties, RecorderAssumption

LEMMA EvType ==
  ASSUME NEW c \in Calls, NEW kind \in {"start", "end", "segment", "encrypted"}
  PROVE  Ev(kind, c) \in Event
BY DEF Ev, Event

LEMMA TakeType ==
  ASSUME QueueT, NEW kind, NEW c, Take(kind, c), compQ' = compQ
  PROVE  QueueT' /\ rec.pc = "idle"
BY TailType DEF Take, QueueT

LEMMA PopType ==
  ASSUME QueueT, NEW kind, NEW c, Pop(kind, c), recQ' = recQ
  PROVE  QueueT' /\ comp.pc = "idle"
BY TailType DEF Pop, QueueT

-----------------------------------------------------------------------------
\* finalizeCall, whoever calls it.

LEMMA AnnouncedType ==
  ASSUME NEW s \in Session
  PROVE  Announced(s) \in Recording
BY DEF Announced, Session, Recording

LEMMA FinalizeTypes ==
  ASSUME FilesT, NEW c, Dev(c) \in Devices, FinalizeCall(c)
  PROVE  FilesT'
<1> DEFINE s == sessions[Dev(c)]
<1>1. CASE s = NoSession \/ CallIDsDiffer(s.call, c)
  BY <1>1 DEF FinalizeCall, FilesT
<1>2. CASE ~(s = NoSession \/ CallIDsDiffer(s.call, c))
  <2>1. s \in Session
    BY <1>2 DEF FilesT
  <2>2. sessions' = [sessions EXCEPT ![Dev(c)] = NoSession]
    BY <1>2 DEF FinalizeCall
  <2>3. complete' = Append(complete, Announced(s)) \/ complete' = complete
    BY <1>2 DEF FinalizeCall
  <2>4. complete' \in Seq(Recording)
    BY <2>1, <2>3, AnnouncedType, AppendProperties DEF FilesT
  <2>5. sessions' \in [Devices -> Session \cup {NoSession}]
    BY <2>2 DEF FilesT
  <2> QED BY <2>4, <2>5 DEF FilesT
<1> QED BY <1>1, <1>2

-----------------------------------------------------------------------------
LEMMA InitTyped == Init => Typed
<1> SUFFICES ASSUME Init PROVE Typed
  OBVIOUS
<1>1. seq \in 0..MaxCalls /\ rolls \in 0..MaxRolls /\ Begun = {}
  BY RecorderAssumption DEF Init, Begun
<1>2. EngineT
  BY <1>1 DEF Init, EngineT, Maybe
<1>3. QueueT
  BY RecorderAssumption DEF Init, QueueT
<1>4. FilesT
  BY DEF Init, FilesT
<1>5. PendingT
  BY DEF Init, PendingT, NoPending, Maybe
<1>6. RecT /\ TimersT /\ CompT
  BY DEF Init, IdleRecorder, IdleComposer, RecT, Recorder, TimersT, CompT, Composer, Maybe
<1> QED BY <1>2, <1>3, <1>4, <1>5, <1>6 DEF Typed

\* A call that starts is known to everybody who had known less.
LEMMA StartCallTyped ==
  ASSUME Typed, NEW d \in Devices, NEW k \in Kinds, StartCall(d, k)
  PROVE  Typed'
<1> DEFINE c == seq + 1
<1>1. /\ c \in Calls /\ seq' = c /\ seq' \in 0..MaxCalls
      /\ Begun \subseteq Begun' /\ c \in Begun' /\ Begun' = Begun \cup {c}
  BY RecorderAssumption DEF StartCall, Typed, EngineT, Begun, Calls
<1>2. k \in [rec : BOOLEAN, stamped : BOOLEAN, fenced : BOOLEAN, early : BOOLEAN]
  BY RecorderAssumption
<1>3. EngineT'
  <2>1. live' \in [Devices -> Maybe(Calls)] /\ \A e \in Devices : live'[e] \in Maybe(Begun')
    BY <1>1 DEF StartCall, Typed, EngineT, Maybe
  <2>2. /\ about' \in [Calls -> Maybe(About)]
        /\ \A b \in Begun' : about'[b] \in About
    <3>1. about' = [about EXCEPT ![c] = [dev |-> d, kind |-> k]]
      BY DEF StartCall
    <3>2. [dev |-> d, kind |-> k] \in About
      BY DEF About
    <3>3. Begun \subseteq Calls
      BY CallFacts DEF Typed
    <3> QED BY <1>1, <3>1, <3>2, <3>3 DEF Typed, EngineT, Maybe
  <2>3. rolls' \in 0..MaxRolls
    BY DEF StartCall, Typed, EngineT
  <2>4. leaving' \subseteq Begun'
    BY <1>1 DEF StartCall, Typed, EngineT
  <2> QED BY <1>1, <2>1, <2>2, <2>3, <2>4 DEF EngineT
<1>4. QueueT'
  <2>1. Ev("start", c) \in Event /\ Ev("end", c) \in Event
    BY <1>1, EvType
  <2>2. CASE k.early
    <3>1. /\ recQ' = Delivered(Delivered(recQ, Ev("end", c)), Ev("start", c))
          /\ compQ' = Delivered(Delivered(compQ, Ev("end", c)), Ev("start", c))
      BY <2>2 DEF StartCall
    <3> QED BY <2>1, <3>1, DeliveredType DEF Typed, QueueT
  <2>3. CASE ~k.early
    BY <2>1, <2>3, DeliveredType DEF StartCall, Publish, Typed, QueueT
  <2> QED BY <2>2, <2>3
<1>5. FilesT'
  BY DEF StartCall, Typed, FilesT
<1>6. PendingT'
  BY <1>1 DEF StartCall, Typed, PendingT, Maybe
<1>7. RecT' /\ TimersT'
  BY <1>1 DEF StartCall, Typed, RecT, TimersT, timers, Maybe
<1>8. CompT'
  BY <1>1 DEF StartCall, Typed, CompT, composer, Maybe
<1> QED BY <1>3, <1>4, <1>5, <1>6, <1>7, <1>8 DEF Typed

LEMMA EngineStepTyped ==
  ASSUME Typed, EngineStep
  PROVE  Typed'
<1>1. ASSUME NEW d \in Devices, NEW k \in Kinds, StartCall(d, k) PROVE Typed'
  BY <1>1, StartCallTyped
<1>2. ASSUME NEW d \in Devices, EndCall(d) PROVE Typed'
  <2>1. Begun' = Begun /\ live[d] \in Begun
    BY <1>2 DEF EndCall, Typed, EngineT, Begun, Maybe
  <2>2. EngineT'
    BY <1>2, <2>1 DEF EndCall, Typed, EngineT, Maybe
  <2> QED BY <1>2, <2>1, <2>2
       DEF EndCall, Typed, QueueT, FilesT, PendingT, RecT, TimersT, CompT, timers, composer
<1>3. ASSUME NEW c \in leaving, PublishEnd(c) PROVE Typed'
  <2>1. EngineT' /\ Begun' = Begun
    BY <1>3 DEF PublishEnd, Typed, EngineT, Begun, Maybe
  <2>2. Ev("end", c) \in Event
    BY EvType, CallFacts DEF Typed, EngineT
  <2>3. QueueT'
    BY <1>3, <2>2, DeliveredType DEF PublishEnd, Publish, Typed, QueueT
  <2> QED BY <1>3, <2>1, <2>3
       DEF PublishEnd, Typed, FilesT, PendingT, RecT, TimersT, CompT, timers, composer
<1>4. ASSUME NEW c \in Begun, NEW kind \in {"segment", "encrypted"}, Announce(c, kind)
      PROVE  Typed'
  <2>1. EngineT' /\ Begun' = Begun
    BY <1>4, RecorderAssumption DEF Announce, Typed, EngineT, Begun, Maybe
  <2>2. Ev(kind, c) \in Event
    BY EvType, CallFacts DEF Typed
  <2>3. QueueT'
    BY <1>4, <2>2, DeliveredType DEF Announce, Typed, QueueT
  <2> QED BY <1>4, <2>1, <2>3
       DEF Announce, Typed, FilesT, PendingT, RecT, TimersT, CompT, timers, composer
<1> QED BY <1>1, <1>2, <1>3, <1>4 DEF EngineStep

LEMMA HandleStartTyped ==
  ASSUME Typed, NEW c \in Begun, HandleStart(c)
  PROVE  Typed'
<1> DEFINE d == Dev(c)
<1>1. d \in Devices /\ c \in Calls /\ NoCall \notin Begun /\ Begun \subseteq Calls
  BY CallFacts DEF Typed
<1>0. UNCHANGED <<engine, compQ, sessions, timers, composer, complete>> /\ Begun' = Begun
  BY DEF HandleStart, engine, Begun
<1>2. QueueT' /\ rec.pc = "idle"
  BY <1>0, TakeType DEF HandleStart, Typed
<1>3. pending[d].ce # NoCall => pending[d].ce \in Begun
  BY <1>1 DEF Typed, PendingT, Maybe
<1>4. RecT'
  <2>1. CASE ~Kind(c).rec
    BY <2>1 DEF HandleStart, Typed, RecT, engine, Begun
  <2>2. CASE Kind(c).rec /\ pending[d].ce # NoCall
    BY <1>1, <1>3, <2>2 DEF HandleStart, Typed, RecT, Recorder, engine, Begun, Maybe
  <2>3. CASE Kind(c).rec /\ pending[d].ce = NoCall
    BY <1>1, <2>3 DEF HandleStart, Typed, RecT, Recorder, engine, Begun, Maybe
  <2> QED BY <2>1, <2>2, <2>3
<1>5. PendingT'
  <2>1. pending' = pending \/ pending' = [pending EXCEPT ![d] = NoPending]
    BY DEF HandleStart, Typed, PendingT
  <2> QED BY <1>1, <2>1 DEF HandleStart, Typed, PendingT, NoPending, engine, Begun, Maybe
<1>6. EngineT' /\ FilesT' /\ TimersT' /\ CompT'
  BY <1>0 DEF Typed, EngineT, FilesT, TimersT, CompT, engine, timers, composer, Begun
<1> QED BY <1>2, <1>4, <1>5, <1>6 DEF Typed

LEMMA HandleEndTyped ==
  ASSUME Typed, NEW c \in Begun, HandleEnd(c)
  PROVE  Typed'
<1> DEFINE d == Dev(c)
           t == IF pending[d].timer = NoCall THEN c ELSE pending[d].timer
           n == [ce |-> c, id |-> c, drained |-> FALSE, timer |-> t]
<1>1. d \in Devices /\ c \in Calls /\ NoCall \notin Begun /\ Begun \subseteq Calls
  BY CallFacts DEF Typed
<1>0. UNCHANGED <<engine, compQ, sessions, timers, composer, complete>> /\ Begun' = Begun
  BY DEF HandleEnd, engine, Begun
<1>2. QueueT' /\ rec.pc = "idle"
  BY <1>0, TakeType DEF HandleEnd, Typed
<1>3. rec' = rec \/ rec' = [pc |-> "finalize", goal |-> {c}, call |-> NoCall]
  BY DEF HandleEnd
<1>4. RecT'
  BY <1>0, <1>1, <1>3 DEF Typed, RecT, Recorder, Maybe
<1>5. \/ pending' = pending
      \/ pending' = [pending EXCEPT ![d] = NoPending]
      \/ pending' = [pending EXCEPT ![d] = n]
  BY DEF HandleEnd
<1>6. pending[d] \in Pending \cup {NoPending}
  BY <1>1 DEF Typed, PendingT
<1>7. n \in Pending
  BY <1>1, <1>6 DEF Pending, NoPending
<1>8. PendingT'
  <2>1. pending \in [Devices -> Pending \cup {NoPending}]
    BY DEF Typed, PendingT
  <2>2. pending' \in [Devices -> Pending \cup {NoPending}]
    BY <1>1, <1>5, <1>7, <2>1
  <2>3. \A e \in Devices : pending'[e] \in {pending[e], NoPending, n}
    BY <1>1, <1>5, <2>1
  <2>4. n.ce = c /\ NoPending.ce = NoCall
    BY DEF NoPending
  <2> HIDE DEF n
  <2>5. \A e \in Devices : pending'[e].ce \in Maybe(Begun)
    BY <2>3, <2>4 DEF Typed, PendingT, Maybe
  <2> QED BY <1>0, <2>2, <2>5 DEF PendingT
<1>9. EngineT' /\ FilesT' /\ TimersT' /\ CompT'
  BY <1>0 DEF Typed, EngineT, FilesT, TimersT, CompT, engine, timers, composer, Begun
<1> QED BY <1>2, <1>4, <1>8, <1>9 DEF Typed

LEMMA RecorderFilesTyped ==
  ASSUME Typed, NEW c \in Begun, HandleSegment(c) \/ HandleEncryption(c)
  PROVE  Typed'
<1> DEFINE d == Dev(c)
           s == sessions[d]
           n == [call |-> s.call, seg |-> s.seg + 1, open |-> FALSE, audio |-> {}]
<1>0. UNCHANGED <<engine, compQ, pending, rec, timers, composer>> /\ Begun' = Begun
  BY DEF HandleSegment, HandleEncryption, engine, Begun
<1>1. d \in Devices
  BY CallFacts DEF Typed
<1>2. QueueT'
  BY <1>0, TakeType DEF HandleSegment, HandleEncryption, Typed
<1>3. s \in Session \cup {NoSession}
  BY <1>1 DEF Typed, FilesT
<1>4. CASE HandleEncryption(c)
  BY <1>0, <1>1, <1>2, <1>4 DEF HandleEncryption, Typed, EngineT, FilesT, PendingT, RecT,
     TimersT, CompT, engine, timers, composer
<1>5. CASE HandleSegment(c)
  <2>1. FilesT'
    <3>1. CASE ~s.open
      BY <1>5, <3>1 DEF HandleSegment, Typed, FilesT
    <3>2. CASE s.open
      <4>1. s \in Session
        BY <1>3, <3>2 DEF NoSession
      <4>2. n \in Session
        BY <4>1 DEF Session
      <4>3. sessions' = [sessions EXCEPT ![d] = n]
        BY <1>5, <3>2 DEF HandleSegment
      <4>4. complete' = Append(complete, Announced(s)) \/ complete' = complete
        BY <1>5, <3>2 DEF HandleSegment
      <4>5. complete' \in Seq(Recording)
        BY <4>1, <4>4, AnnouncedType, AppendProperties DEF Typed, FilesT
      <4>6. sessions' \in [Devices -> Session \cup {NoSession}]
        BY <4>2, <4>3 DEF Typed, FilesT
      <4> QED BY <4>5, <4>6 DEF FilesT
    <3> QED BY <3>1, <3>2
  <2> QED BY <1>0, <1>2, <2>1 DEF Typed, EngineT, PendingT, RecT,
          TimersT, CompT, engine, timers, composer
<1> QED BY <1>4, <1>5

LEMMA OpenSessionTyped ==
  ASSUME Typed, OpenSession
  PROVE  Typed'
<1> DEFINE c == rec.call
           n == [call |-> c, seg |-> 0, open |-> FALSE, audio |-> {}]
<1>0. UNCHANGED <<engine, recQ, compQ, pending, timers, composer, complete>> /\ Begun' = Begun
  BY DEF OpenSession, engine, Begun
<1>1. c \in Begun /\ c \in Calls /\ Dev(c) \in Devices
  BY CallFacts DEF OpenSession, Typed, RecT, Maybe
<1>2. n \in Session
  BY <1>1 DEF Session
<1>3. FilesT'
  BY <1>0, <1>1, <1>2 DEF OpenSession, Typed, FilesT
<1>4. RecT'
  BY <1>0 DEF OpenSession, IdleRecorder, Typed, RecT, Recorder, Maybe
<1> QED BY <1>0, <1>3, <1>4 DEF Typed, EngineT, QueueT, PendingT, TimersT, CompT,
        engine, timers, composer

LEMMA RecorderFinalizesTyped ==
  ASSUME Typed, RecorderFinalizes
  PROVE  Typed'
<1>0. UNCHANGED <<engine, recQ, compQ, pending, timers, composer>> /\ Begun' = Begun
  BY DEF RecorderFinalizes, engine, Begun
<1>1. PICK c \in rec.goal :
        /\ FinalizeCall(c)
        /\ rec' = IF rec.pc = "flush" THEN [rec EXCEPT !.goal = @ \ {c}]
                  ELSE [pc |-> IF rec.call = NoCall THEN "idle" ELSE "open",
                        goal |-> {}, call |-> rec.call]
  BY DEF RecorderFinalizes
<1>2. Dev(c) \in Devices
  BY CallFacts DEF Typed, RecT
<1>3. FilesT'
  BY <1>1, <1>2, FinalizeTypes DEF Typed
<1>4. RecT'
  <2>1. CASE rec.pc = "flush"
    BY <1>0, <1>1, <2>1 DEF Typed, RecT, Recorder, Maybe
  <2>2. CASE rec.pc # "flush"
    <3>1. rec' = [pc |-> IF rec.call = NoCall THEN "idle" ELSE "open",
                  goal |-> {}, call |-> rec.call]
      BY <1>1, <2>2
    <3> QED BY <1>0, <3>1 DEF Typed, RecT, Recorder, Maybe
  <2> QED BY <2>1, <2>2
<1> QED BY <1>0, <1>3, <1>4 DEF Typed, EngineT, QueueT, PendingT, TimersT, CompT,
        engine, timers, composer

LEMMA TeardownTyped ==
  ASSUME Typed, Teardown
  PROVE  Typed'
<1>0. UNCHANGED engine /\ Begun' = Begun /\ EngineT' /\ QueueT'
  <2>1. UNCHANGED engine /\ recQ' \in {recQ, <<>>} /\ compQ' \in {compQ, <<>>}
    BY DEF Teardown, Stop, Close, CancelAll
  <2>2. <<>> \in Seq(Event) /\ Len(<<>>) = 0 /\ 0 <= Buffer
    BY RecorderAssumption, EmptySeq
  <2>3. recQ' \in Seq(Event) /\ Len(recQ') <= Buffer
    BY <2>1, <2>2 DEF Typed, QueueT
  <2>4. compQ' \in Seq(Event) /\ Len(compQ') <= Buffer
    BY <2>1, <2>2 DEF Typed, QueueT
  <2> QED BY <2>1, <2>3, <2>4 DEF engine, Begun, Typed, EngineT, QueueT
<1>1. CASE Stop
  <2>1. /\ {pending[d].ce : d \in Devices} \ {NoCall} \subseteq Begun
        /\ Begun \subseteq Calls
    BY CallFacts DEF Typed, PendingT, Maybe
  <2>2. RecT'
    BY <1>0, <1>1, <2>1 DEF Stop, RecT, Recorder, Maybe
  <2>3. PendingT'
    BY <1>0, <1>1 DEF Stop, PendingT, NoPending, Maybe
  <2> QED BY <1>0, <1>1, <2>2, <2>3
       DEF Stop, Typed, FilesT, TimersT, CompT, timers, composer
<1>2. CASE Close
  <2>1. RecT' /\ FilesT'
    BY <1>0, <1>2 DEF Close, Typed, RecT, Recorder, FilesT
  <2> QED BY <1>0, <1>2, <2>1
       DEF Close, Typed, PendingT, TimersT, CompT, timers, composer
<1>3. CASE CancelAll
  <2>1. CompT'
    BY <1>0, <1>3 DEF CancelAll, Typed, CompT, Composer, Maybe
  <2> QED BY <1>0, <1>3, <2>1
       DEF CancelAll, Typed, FilesT, PendingT, RecT, TimersT, timers
<1> QED BY <1>1, <1>2, <1>3 DEF Teardown

LEMMA TimerStepTyped ==
  ASSUME Typed, TimerStep
  PROVE  Typed'
<1>0. /\ UNCHANGED <<engine, recQ, compQ, rec, composer>> /\ Begun' = Begun
      /\ EngineT' /\ QueueT' /\ RecT' /\ CompT'
  BY DEF TimerStep, TimerFires, FinalizeOnDrainTimeout, TimerFinalizes, engine, composer,
         Begun, Typed, EngineT, QueueT, RecT, CompT
<1>1. ASSUME NEW d \in Devices, TimerFires(d) PROVE Typed'
  <2>1. pending[d].timer \in Calls
    BY <1>1 DEF TimerFires, Typed, PendingT, Pending, NoPending
  <2>2. TimersT'
    BY <1>0, <1>1, <2>1 DEF TimerFires, Typed, TimersT
  <2> QED BY <1>0, <1>1, <2>2 DEF TimerFires, Typed, FilesT, PendingT
<1>2. ASSUME NEW t \in fired, FinalizeOnDrainTimeout(t[1], t[2]) PROVE Typed'
  <2>1. t[1] \in Devices /\ Begun \subseteq Calls
    BY CallFacts DEF Typed, TimersT
  <2>2. {pending[t[1]].ce} \ {NoCall} \subseteq Begun
    BY <2>1 DEF Typed, PendingT, Maybe
  <2>3. TimersT'
    BY <1>0, <1>2, <2>1, <2>2 DEF FinalizeOnDrainTimeout, Typed, TimersT
  <2>4. PendingT'
    BY <1>0, <1>2, <2>1 DEF FinalizeOnDrainTimeout, Typed, PendingT, NoPending, Maybe
  <2> QED BY <1>0, <1>2, <2>3, <2>4 DEF FinalizeOnDrainTimeout, Typed, FilesT
<1>3. ASSUME NEW c \in late, TimerFinalizes(c) PROVE Typed'
  <2>1. Dev(c) \in Devices
    BY CallFacts DEF Typed, TimersT
  <2>2. FilesT'
    BY <1>3, <2>1, FinalizeTypes DEF TimerFinalizes, Typed
  <2> QED BY <1>0, <1>3, <2>2 DEF TimerFinalizes, Typed, PendingT, TimersT
<1> QED BY <1>1, <1>2, <1>3 DEF TimerStep

\* The steps of the composer that the recorder does not see.
LEMMA ComposeTyped ==
  ASSUME Typed,
         \/ \E c \in Begun : ComposeStart(c) \/ ComposeEnd(c)
         \/ ReplaceChain \/ ChainDone
  PROVE  Typed'
<1>0. UNCHANGED <<engine, recQ, sessions, pending, rec, timers, complete>> /\ Begun' = Begun
  BY DEF ComposeStart, ComposeEnd, ReplaceChain, ChainDone, engine, Begun
<1>1. EngineT' /\ FilesT' /\ PendingT' /\ RecT' /\ TimersT'
  BY <1>0 DEF Typed, EngineT, FilesT, PendingT, RecT, TimersT, engine, timers
<1>2. ASSUME NEW c \in Begun, ComposeStart(c) PROVE QueueT' /\ CompT'
  <2>1. Dev(c) \in Devices /\ c \in Calls
    BY CallFacts DEF Typed
  <2>2. QueueT' /\ comp.pc = "idle"
    BY <1>0, <1>2, PopType DEF ComposeStart, Typed
  <2>3. CASE chain' = [chain EXCEPT ![Dev(c)] = c] /\ comp' = comp
    BY <1>0, <2>1, <2>2, <2>3 DEF Typed, CompT, Maybe
  <2>4. CASE UNCHANGED composer
    BY <1>0, <2>2, <2>4 DEF Typed, CompT, composer
  <2>5. CASE comp' = [pc |-> "replace", call |-> c, ce |-> NoCall] /\ chain' = chain
    BY <1>0, <2>1, <2>2, <2>5, CallFacts DEF Typed, CompT, Composer, Maybe
  <2> QED BY <1>2, <2>2, <2>3, <2>4, <2>5 DEF ComposeStart
<1>3. ASSUME NEW c \in Begun, ComposeEnd(c) PROVE QueueT' /\ CompT'
  <2>1. Dev(c) \in Devices /\ c \in Calls
    BY CallFacts DEF Typed
  <2>2. QueueT'
    BY <1>0, <1>3, PopType DEF ComposeEnd, Typed
  <2>3. CompT'
    BY <1>0, <1>3, <2>1, CallFacts DEF ComposeEnd, Typed, CompT, Composer, Maybe
  <2> QED BY <2>2, <2>3
<1>4. ASSUME ReplaceChain PROVE QueueT' /\ CompT'
  <2>1. comp.call \in Begun /\ comp.call \in Calls /\ Dev(comp.call) \in Devices
    BY <1>4, CallFacts DEF ReplaceChain, Typed, CompT, Maybe
  <2>2. CompT'
    BY <1>0, <1>4, <2>1 DEF ReplaceChain, IdleComposer, Typed, CompT, Composer, Maybe
  <2>3. QueueT'
    BY <1>0, <1>4 DEF ReplaceChain, Typed, QueueT
  <2> QED BY <2>2, <2>3
<1>5. ASSUME ChainDone PROVE QueueT' /\ CompT'
  <2>1. comp.call \in Begun /\ Dev(comp.call) \in Devices
    BY <1>5, CallFacts DEF ChainDone, Typed, CompT, Maybe
  <2>2. CompT'
    BY <1>0, <1>5, <2>1 DEF ChainDone, Typed, CompT, Composer, Maybe
  <2>3. QueueT'
    BY <1>0, <1>5 DEF ChainDone, Typed, QueueT
  <2> QED BY <2>2, <2>3
<1>6. QueueT' /\ CompT'
  BY <1>2, <1>3, <1>4, <1>5
<1> QED BY <1>1, <1>6 DEF Typed

LEMMA NotifyTyped ==
  ASSUME Typed, NotifyDrainComplete
  PROVE  Typed'
<1> DEFINE c == comp.call
           d == Dev(c)
           p == pending[d]
           fresh == [ce |-> NoCall, id |-> c, drained |-> TRUE, timer |-> NoCall]
<1>0. /\ UNCHANGED <<engine, recQ, compQ, sessions, rec, timers, chain, complete>>
      /\ Begun' = Begun
  BY DEF NotifyDrainComplete, engine, Begun
<1>1. c \in Begun /\ c \in Calls /\ d \in Devices
  BY CallFacts DEF NotifyDrainComplete, Typed, CompT, Maybe
<1>2. p \in Pending \cup {NoPending} /\ p.ce \in Maybe(Begun)
  BY <1>1 DEF Typed, PendingT
<1>3. \/ pending' = [pending EXCEPT ![d] = p] /\ comp' = IdleComposer
      \/ pending' = [pending EXCEPT ![d] = NoPending] /\ p.ce # NoCall
         /\ comp' = [pc |-> "finalize", call |-> NoCall, ce |-> p.ce]
      \/ p = NoPending /\ pending' = [pending EXCEPT ![d] = fresh] /\ comp' = IdleComposer
      \/ p # NoPending /\ pending' = [pending EXCEPT ![d] = [p EXCEPT !.drained = TRUE]]
         /\ comp' = IdleComposer
  BY DEF NotifyDrainComplete, IdleComposer
<1>4. fresh \in Pending /\ fresh.ce = NoCall
  BY <1>1 DEF Pending
<1>5. p # NoPending => /\ [p EXCEPT !.drained = TRUE] \in Pending
                       /\ [p EXCEPT !.drained = TRUE].ce = p.ce
  BY <1>2 DEF Pending
<1>6. CompT'
  BY <1>0, <1>1, <1>2, <1>3, CallFacts DEF IdleComposer, Typed, CompT, Composer, Maybe
<1>7. PendingT'
  <2>1. pending \in [Devices -> Pending \cup {NoPending}]
    BY DEF Typed, PendingT
  <2>2. PICK n \in Pending \cup {NoPending} :
          n.ce \in Maybe(Begun) /\ pending' = [pending EXCEPT ![d] = n]
    BY <1>2, <1>3, <1>4, <1>5 DEF NoPending, Maybe
  <2> QED BY <1>0, <1>1, <2>1, <2>2 DEF Typed, PendingT
<1>8. EngineT' /\ QueueT' /\ FilesT' /\ RecT' /\ TimersT'
  BY <1>0 DEF Typed, EngineT, QueueT, FilesT, RecT, TimersT, engine, timers
<1> QED BY <1>6, <1>7, <1>8 DEF Typed

LEMMA ComposerFinalizesTyped ==
  ASSUME Typed, ComposerFinalizes
  PROVE  Typed'
<1>0. UNCHANGED <<engine, recQ, compQ, pending, rec, timers, chain>> /\ Begun' = Begun
  BY DEF ComposerFinalizes, engine, Begun
<1>1. Dev(comp.ce) \in Devices
  BY CallFacts DEF ComposerFinalizes, Typed, CompT, Maybe
<1>2. FilesT'
  BY <1>1, FinalizeTypes DEF ComposerFinalizes, Typed
<1>3. CompT'
  BY <1>0 DEF ComposerFinalizes, IdleComposer, Typed, CompT, Composer, Maybe
<1> QED BY <1>0, <1>2, <1>3 DEF Typed, EngineT, QueueT, PendingT, RecT, TimersT, engine, timers

LEMMA WriteTyped ==
  ASSUME Typed, NEW d \in Devices, Write(d)
  PROVE  Typed'
<1> DEFINE s == sessions[d]
           n == [call |-> s.call, seg |-> s.seg, open |-> TRUE, audio |-> s.audio \cup {chain[d]}]
<1>0. UNCHANGED <<engine, recQ, compQ, pending, rec, timers, composer, complete>>
      /\ Begun' = Begun
  BY DEF Write, engine, Begun
<1>1. s \in Session
  BY DEF Write, Admits, HasSession, Typed, FilesT
<1>2. n \in Session
  BY <1>1 DEF Write, Session, Typed, CompT, Maybe
<1>3. sessions' = [sessions EXCEPT ![d] = n] \/ sessions' = [sessions EXCEPT ![d] = NoSession]
  BY DEF Write
<1>4. FilesT'
  BY <1>0, <1>2, <1>3 DEF Typed, FilesT
<1> QED BY <1>0, <1>4
     DEF Typed, EngineT, QueueT, PendingT, RecT, TimersT, CompT, engine, timers, composer

LEMMA StepTyped == Typed /\ [Next]_vars => Typed'
<1> SUFFICES ASSUME Typed, [Next]_vars PROVE Typed'
  OBVIOUS
<1>1. CASE RecorderStep
  BY <1>1, HandleStartTyped, HandleEndTyped, RecorderFilesTyped, OpenSessionTyped,
     RecorderFinalizesTyped DEF RecorderStep
<1>2. CASE ComposerStep
  BY <1>2, ComposeTyped, NotifyTyped, ComposerFinalizesTyped DEF ComposerStep
<1>3. CASE EngineStep \/ TimerStep \/ Teardown \/ \E d \in Devices : Write(d)
  BY <1>3, EngineStepTyped, TimerStepTyped, TeardownTyped, WriteTyped
<1>4. CASE UNCHANGED vars
  BY <1>4 DEF vars, engine, timers, composer, Typed, EngineT, QueueT, FilesT, PendingT, RecT,
     TimersT, CompT, Begun
<1> QED BY <1>1, <1>2, <1>3, <1>4 DEF Next

LEMMA AlwaysTyped == Spec => []Typed
BY InitTyped, StepTyped, PTL DEF Spec

\* Recorder, composer, timers and subscriptions stay well formed, in every interleaving.
THEOREM RecorderTypes == Spec => []TypeOK
BY AlwaysTyped, TypedIsTypeOK, PTL

-----------------------------------------------------------------------------
\* What a step can do to the files: nothing, or to one session one of four things, or
\* all sessions are closed.

Rename(d) ==
  \/ complete' = complete
  \/ sessions[d].open /\ complete' = Append(complete, Announced(sessions[d]))

Closes(d) ==
  HasSession(d) /\ sessions' = [sessions EXCEPT ![d] = NoSession] /\ Rename(d)

Rolls(d) ==
  /\ HasSession(d) /\ sessions[d].open /\ Rename(d)
  /\ sessions' = [sessions EXCEPT ![d] =
       [call |-> sessions[d].call, seg |-> sessions[d].seg + 1, open |-> FALSE, audio |-> {}]]

Hears(d) ==
  /\ chain[d] # NoCall /\ Admits(chain[d], d)
  /\ sessions' = [sessions EXCEPT ![d] =
       [call |-> @.call, seg |-> @.seg, open |-> TRUE, audio |-> @.audio \cup {chain[d]}]]
  /\ complete' = complete

Opens ==
  /\ OpenSession
  /\ sessions' = [sessions EXCEPT ![Dev(rec.call)] =
       [call |-> rec.call, seg |-> 0, open |-> FALSE, audio |-> {}]]
  /\ complete' = complete

Drops == sessions' = [d \in Devices |-> NoSession] /\ complete' = complete

FileStep ==
  \/ UNCHANGED <<sessions, complete>>
  \/ /\ UNCHANGED <<about, seq>>
     /\ (\E d \in Devices : Closes(d) \/ Rolls(d) \/ Hears(d)) \/ Opens \/ Drops

LEMMA FinalizeCloses ==
  ASSUME NEW c, FinalizeCall(c)
  PROVE  UNCHANGED <<sessions, complete>> \/ Closes(Dev(c))
BY Zenon DEF FinalizeCall, Closes, Rename, HasSession

LEMMA FileSteps == Typed /\ [Next]_vars => FileStep
<1> SUFFICES ASSUME Typed, [Next]_vars PROVE FileStep
  OBVIOUS
<1>0. \A c \in Begun : Dev(c) \in Devices
  BY CallFacts DEF Typed
<1>1. CASE EngineStep
  BY <1>1 DEF EngineStep, StartCall, EndCall, PublishEnd, Announce, FileStep
<1>2. ASSUME NEW c \in Begun, HandleStart(c) \/ HandleEnd(c) \/ ComposeStart(c) \/ ComposeEnd(c)
      PROVE  FileStep
  BY <1>2 DEF HandleStart, HandleEnd, ComposeStart, ComposeEnd, FileStep
<1>3. ASSUME NEW c \in Begun, HandleSegment(c) PROVE FileStep
  <2>1. UNCHANGED <<sessions, complete>> \/ Rolls(Dev(c))
    <3>1. sessions[Dev(c)].open => HasSession(Dev(c))
      BY DEF HasSession, NoSession
    <3> QED BY <1>3, <3>1, Zenon DEF HandleSegment, Rolls, Rename
  <2> QED BY <1>0, <1>3, <2>1 DEF HandleSegment, FileStep, engine
<1>4. ASSUME NEW c \in Begun, HandleEncryption(c) PROVE FileStep
  <2>1. UNCHANGED <<sessions, complete>> \/ Closes(Dev(c))
    <3>1. CASE HasSession(Dev(c))
      BY <1>4, <3>1, Zenon DEF HandleEncryption, Closes, Rename
    <3>2. CASE ~HasSession(Dev(c))
      BY <1>0, <1>4, <3>2 DEF HandleEncryption, HasSession, Typed, FilesT
    <3> QED BY <3>1, <3>2
  <2> QED BY <1>0, <1>4, <2>1 DEF HandleEncryption, FileStep, engine
<1>5. CASE OpenSession
  BY <1>5 DEF OpenSession, Opens, FileStep, engine
<1>6. CASE RecorderFinalizes
  <2>1. PICK c \in rec.goal : FinalizeCall(c)
    BY <1>6 DEF RecorderFinalizes
  <2>2. Dev(c) \in Devices
    BY <1>0 DEF Typed, RecT
  <2> QED BY <1>6, <2>1, <2>2, FinalizeCloses DEF RecorderFinalizes, FileStep, engine
<1>7. CASE ComposerFinalizes
  <2>1. Dev(comp.ce) \in Devices
    BY <1>0, <1>7 DEF ComposerFinalizes, Typed, CompT, Maybe
  <2> QED BY <1>7, <2>1, FinalizeCloses DEF ComposerFinalizes, FileStep, engine
<1>8. ASSUME NEW c \in late, TimerFinalizes(c) PROVE FileStep
  <2>1. Dev(c) \in Devices
    BY <1>0 DEF Typed, TimersT
  <2> QED BY <1>8, <2>1, FinalizeCloses DEF TimerFinalizes, FileStep, engine
<1>9. CASE \/ ReplaceChain \/ ChainDone \/ NotifyDrainComplete
           \/ \E d \in Devices : TimerFires(d)
           \/ \E t \in fired : FinalizeOnDrainTimeout(t[1], t[2])
  BY <1>9 DEF ReplaceChain, ChainDone, NotifyDrainComplete, TimerFires,
              FinalizeOnDrainTimeout, FileStep
<1>10. CASE Teardown
  BY <1>10 DEF Teardown, Stop, Close, CancelAll, FileStep, Drops, engine
<1>11. ASSUME NEW d \in Devices, Write(d) PROVE FileStep
  <2>1. Hears(d) \/ Closes(d)
    BY <1>11, Zenon DEF Write, Hears, Closes, Rename, Admits
  <2> QED BY <1>11, <2>1 DEF Write, FileStep, engine
<1>12. CASE UNCHANGED vars
  BY <1>12 DEF vars, FileStep
<1> QED BY <1>1, <1>2, <1>3, <1>4, <1>5, <1>6, <1>7, <1>8, <1>9, <1>10, <1>11, <1>12
     DEF Next, RecorderStep, ComposerStep, TimerStep

-----------------------------------------------------------------------------
\* The fence.

Clean(f) ==
  /\ f.call \in Begun /\ f.audio \subseteq Begun
  /\ \A c \in f.audio : Kind(c).fenced => ~CallIDsDiffer(c, f.call)

Fenced ==
  /\ \A d \in Devices : HasSession(d) => Clean(sessions[d])
  /\ \A i \in 1..Len(complete) : Clean(complete[i])

\* Calls do not change what they are.
LEMMA CallsKept ==
  ASSUME Typed, [Next]_vars
  PROVE  Begun \subseteq Begun' /\ \A c \in Begun : about'[c] = about[c]
<1>1. CASE UNCHANGED <<about, seq>>
  BY <1>1 DEF Begun
<1>2. ASSUME NEW d \in Devices, NEW k \in Kinds, StartCall(d, k)
      PROVE  Begun \subseteq Begun' /\ \A c \in Begun : about'[c] = about[c]
  <2>1. /\ seq' = seq + 1 /\ seq \in Nat
        /\ about' = [about EXCEPT ![seq + 1] = [dev |-> d, kind |-> k]]
    BY <1>2, CallFacts DEF StartCall, Typed
  <2> QED BY <2>1, CallFacts DEF Typed, EngineT, Begun
<1>3. UNCHANGED <<about, seq>> \/ \E d \in Devices, k \in Kinds : StartCall(d, k)
  BY DEF Next, EngineStep, EndCall, PublishEnd, Announce, RecorderStep, HandleStart, HandleEnd,
     HandleSegment, HandleEncryption, OpenSession, RecorderFinalizes, ComposerStep,
     ComposeStart, ComposeEnd, ReplaceChain, ChainDone, NotifyDrainComplete,
     ComposerFinalizes, TimerStep, TimerFires, FinalizeOnDrainTimeout, TimerFinalizes,
     Teardown, Stop, Close, CancelAll, Write, vars, engine
<1> QED BY <1>1, <1>2, <1>3

LEMMA CleanStays ==
  ASSUME Typed, [Next]_vars, NEW f, Clean(f)
  PROVE  Clean(f)'
BY CallsKept DEF Clean, Kind, CallIDsDiffer

\* What stays of the files after a step, and what comes to them.
LEMMA RenameKeeps ==
  ASSUME Typed, NEW d \in Devices, HasSession(d), Rename(d)
  PROVE  /\ Len(complete') >= Len(complete) /\ Len(complete) \in Nat /\ Len(complete') \in Nat
         /\ \A i \in 1..Len(complete) : complete'[i] = complete[i]
         /\ \A i \in 1..Len(complete') :
              i > Len(complete) => i = Len(complete) + 1 /\ complete'[i] = Announced(sessions[d])
<1>1. sessions[d] \in Session /\ complete \in Seq(Recording)
  BY DEF HasSession, Typed, FilesT
<1>2. Announced(sessions[d]) \in Recording
  BY <1>1, AnnouncedType
<1>3. Len(complete) \in Nat
  BY <1>1, LenProperties
<1>4. CASE complete' = complete
  BY <1>3, <1>4
<1>5. CASE complete' = Append(complete, Announced(sessions[d]))
  BY <1>1, <1>2, <1>3, <1>5, AppendProperties
<1> QED BY <1>4, <1>5 DEF Rename

LEMMA InitFenced == Init => Fenced
BY DEF Init, Fenced, HasSession

LEMMA StepFenced == Typed /\ Fenced /\ [Next]_vars => Fenced'
<1> SUFFICES ASSUME Typed, Fenced, [Next]_vars PROVE Fenced'
  OBVIOUS
<1>1. \A f : Clean(f) => Clean(f)'
  BY CleanStays
<1>2. FileStep
  BY FileSteps
<1>3. CASE UNCHANGED <<sessions, complete>>
  BY <1>1, <1>3 DEF Fenced, HasSession
<1>4. ASSUME NEW d \in Devices, Closes(d) \/ Rolls(d) PROVE Fenced'
  <2> DEFINE n == [call |-> sessions[d].call, seg |-> sessions[d].seg + 1,
                   open |-> FALSE, audio |-> {}]
  <2>1. HasSession(d) /\ Rename(d) /\ Clean(sessions[d])
    BY <1>4 DEF Closes, Rolls, Fenced
  <2>2. Clean(Announced(sessions[d])) /\ Clean(n)
    BY <2>1 DEF Clean, Announced
  <2>3. sessions' = [sessions EXCEPT ![d] = NoSession] \/ sessions' = [sessions EXCEPT ![d] = n]
    BY <1>4 DEF Closes, Rolls
  <2> HIDE DEF n
  <2>4. \A e \in Devices : HasSession(e)' => Clean(sessions'[e])
    BY <2>2, <2>3 DEF Fenced, HasSession, Typed, FilesT
  <2>5. \A i \in 1..Len(complete') : Clean(complete'[i])
    BY <2>1, <2>2, RenameKeeps DEF Fenced
  <2> QED BY <1>1, <2>4, <2>5 DEF Fenced
<1>5. ASSUME NEW d \in Devices, Hears(d) PROVE Fenced'
  <2> DEFINE n == [call |-> sessions[d].call, seg |-> sessions[d].seg, open |-> TRUE,
                   audio |-> sessions[d].audio \cup {chain[d]}]
  <2>1. HasSession(d) /\ Clean(sessions[d]) /\ chain[d] \in Begun
    BY <1>5 DEF Hears, Admits, Fenced, Typed, CompT, Maybe
  <2>2. Clean(n)
    BY <1>5, <2>1 DEF Clean, Hears, Admits
  <2>3. sessions' = [sessions EXCEPT ![d] = n] /\ complete' = complete
    BY <1>5 DEF Hears
  <2> HIDE DEF n
  <2>4. \A e \in Devices : HasSession(e)' => Clean(sessions'[e])
    BY <2>2, <2>3 DEF Fenced, HasSession, Typed, FilesT
  <2> QED BY <1>1, <2>3, <2>4 DEF Fenced
<1>6. CASE Opens
  <2> DEFINE n == [call |-> rec.call, seg |-> 0, open |-> FALSE, audio |-> {}]
  <2>1. rec.call \in Begun
    BY <1>6 DEF Opens, OpenSession, Typed, RecT, Maybe
  <2>2. Clean(n)
    BY <2>1 DEF Clean
  <2>3. sessions' = [sessions EXCEPT ![Dev(rec.call)] = n] /\ complete' = complete
    BY <1>6 DEF Opens
  <2> HIDE DEF n
  <2>4. \A e \in Devices : HasSession(e)' => Clean(sessions'[e])
    BY <2>2, <2>3 DEF Fenced, HasSession, Typed, FilesT
  <2> QED BY <1>1, <2>3, <2>4 DEF Fenced
<1>7. CASE Drops
  BY <1>1, <1>7 DEF Drops, Fenced, HasSession
<1> QED BY <1>2, <1>3, <1>4, <1>5, <1>6, <1>7 DEF FileStep

LEMMA FencedIsFencedAudio == Fenced => FencedAudio
BY DEF Fenced, FencedAudio, Files, Sessions, Clean, Announced, HasSession

\* A chain that names its call never writes into another call's file, for any number of
\* devices and calls.
THEOREM FenceHolds == Spec => []FencedAudio
<1>1. Spec => []Fenced
  BY AlwaysTyped, InitFenced, StepFenced, PTL DEF Spec
<1> QED BY <1>1, FencedIsFencedAudio, PTL

-----------------------------------------------------------------------------
\* Every over is announced once. A call gets at most one session: its CallStart is in the
\* subscription at most once, and once it has been taken nobody can open another.

\* Positions of the CallStarts in the recorder's subscription.
StartAt(i) == recQ[i].kind = "start"

\* The call may still get a session.
Waiting(c) ==
  c \notin Begun \/ rec.call = c \/ \E i \in 1..Len(recQ) : recQ[i] = Ev("start", c)

Untouched(c) ==
  /\ \A d \in Devices : HasSession(d) => sessions[d].call # c
  /\ \A i \in 1..Len(complete) : complete[i].call # c

StartsOnce ==
  /\ \A i, j \in 1..Len(recQ) : StartAt(i) /\ recQ[i] = recQ[j] => i = j
  /\ \A i \in 1..Len(recQ) : StartAt(i) => recQ[i].call \in Begun /\ recQ[i].call # rec.call

Placed == \A d \in Devices : HasSession(d) => Dev(sessions[d].call) = d

Behind ==
  \A d \in Devices, i \in 1..Len(complete) :
    HasSession(d) /\ complete[i].call = sessions[d].call => complete[i].seg < sessions[d].seg

OnceInv ==
  /\ StartsOnce
  /\ \A c \in Calls : Waiting(c) => Untouched(c)
  /\ Placed /\ Behind /\ OversAnnouncedOnce

\* What Delivered does to a subscription.
LEMMA DeliveredIs ==
  ASSUME NEW q \in Seq(Event), NEW e \in Event
  PROVE  LET r == Delivered(q, e)
         IN /\ r \in Seq(Event) /\ Len(r) \in {Len(q), Len(q) + 1}
            /\ \A i \in 1..Len(q) : r[i] = q[i]
            /\ \A i \in 1..Len(r) : i > Len(q) => r[i] = e
BY AppendProperties, LenProperties DEF Delivered

\* The recorder's subscription after a step: as it was, empty, without its head, or with
\* more at the end, of which only the start of a new call is a CallStart.
QueueSame == recQ' = recQ /\ seq' = seq /\ rec'.call \in {rec.call, NoCall}

QueueCleared == recQ' = <<>> /\ seq' = seq /\ rec'.call \in {rec.call, NoCall}

QueueTaken ==
  /\ recQ # <<>> /\ recQ' = Tail(recQ) /\ seq' = seq
  /\ rec'.call \in {rec.call, NoCall} \/ Head(recQ) = Ev("start", rec'.call)

QueueLonger ==
  /\ rec' = rec /\ seq' \in {seq, seq + 1}
  /\ recQ' \in Seq(Event) /\ Len(recQ') >= Len(recQ)
  /\ \A i \in 1..Len(recQ) : recQ'[i] = recQ[i]
  /\ \A i \in 1..Len(recQ') : i > Len(recQ) /\ recQ'[i].kind = "start" =>
       /\ i = Len(recQ') /\ recQ'[i].call = seq + 1 /\ seq' = seq + 1

LEMMA StartCallQueue ==
  ASSUME Typed, NEW d \in Devices, NEW k \in Kinds, StartCall(d, k)
  PROVE  QueueLonger
<1> DEFINE c == seq + 1
           q == Delivered(recQ, Ev("end", c))
<1>1. c \in Calls /\ seq' = c /\ rec' = rec
  BY RecorderAssumption DEF StartCall, Typed, EngineT, Calls
<1>2. Ev("start", c) \in Event /\ Ev("end", c) \in Event /\ recQ \in Seq(Event)
  BY <1>1, EvType DEF Typed, QueueT
<1>3. Ev("end", c).kind = "end" /\ Ev("start", c).call = c
  BY DEF Ev
<1>4. Len(recQ) \in Nat
  BY <1>2, LenProperties
<1>5. CASE k.early
  <2>1. recQ' = Delivered(q, Ev("start", c))
    BY <1>5 DEF StartCall
  <2>2. /\ q \in Seq(Event) /\ Len(q) \in {Len(recQ), Len(recQ) + 1}
        /\ \A i \in 1..Len(recQ) : q[i] = recQ[i]
        /\ \A i \in 1..Len(q) : i > Len(recQ) => q[i] = Ev("end", c)
    BY <1>2, DeliveredIs
  <2> HIDE DEF q
  <2>3. /\ recQ' \in Seq(Event) /\ Len(recQ') \in {Len(q), Len(q) + 1}
        /\ \A i \in 1..Len(q) : recQ'[i] = q[i]
        /\ \A i \in 1..Len(recQ') : i > Len(q) => recQ'[i] = Ev("start", c)
    BY <1>2, <2>1, <2>2, DeliveredIs
  <2> HIDE DEF c
  <2> QED BY <1>1, <1>3, <1>4, <2>2, <2>3 DEF QueueLonger, c
<1>6. CASE ~k.early
  <2>1. recQ' = Delivered(recQ, Ev("start", c))
    BY <1>6 DEF StartCall, Publish
  <2>2. /\ recQ' \in Seq(Event) /\ Len(recQ') \in {Len(recQ), Len(recQ) + 1}
        /\ \A i \in 1..Len(recQ) : recQ'[i] = recQ[i]
        /\ \A i \in 1..Len(recQ') : i > Len(recQ) => recQ'[i] = Ev("start", c)
    BY <1>2, <2>1, DeliveredIs
  <2> QED BY <1>1, <1>3, <1>4, <2>2 DEF QueueLonger
<1> QED BY <1>5, <1>6

LEMMA AnnounceQueue ==
  ASSUME Typed, NEW c \in Calls, NEW kind \in {"end", "segment", "encrypted"},
         recQ' = Delivered(recQ, Ev(kind, c)), rec' = rec, seq' = seq
  PROVE  QueueLonger
<1>1. Ev(kind, c) \in Event /\ recQ \in Seq(Event) /\ Ev(kind, c).kind # "start"
  BY EvType DEF Typed, QueueT, Ev
<1>2. Len(recQ) \in Nat
  BY <1>1, LenProperties
<1>3. /\ recQ' \in Seq(Event) /\ Len(recQ') \in {Len(recQ), Len(recQ) + 1}
      /\ \A i \in 1..Len(recQ) : recQ'[i] = recQ[i]
      /\ \A i \in 1..Len(recQ') : i > Len(recQ) => recQ'[i] = Ev(kind, c)
  BY <1>1, DeliveredIs
<1> QED BY <1>1, <1>2, <1>3 DEF QueueLonger

LEMMA QueueSteps ==
  ASSUME Typed, [Next]_vars
  PROVE  QueueSame \/ QueueCleared \/ QueueTaken \/ QueueLonger
<1>0. Begun \subseteq Calls
  BY CallFacts DEF Typed
<1>1. CASE EngineStep
  <2>1. ASSUME NEW d \in Devices, EndCall(d) PROVE QueueSame
    BY <2>1 DEF EndCall, QueueSame
  <2>2. ASSUME NEW c \in leaving, PublishEnd(c) PROVE QueueLonger
    BY <1>0, <2>2, AnnounceQueue DEF PublishEnd, Publish, Typed, EngineT
  <2>3. ASSUME NEW c \in Begun, NEW kind \in {"segment", "encrypted"}, Announce(c, kind)
        PROVE  QueueLonger
    BY <1>0, <2>3, AnnounceQueue DEF Announce
  <2> QED BY <1>1, <2>1, <2>2, <2>3, StartCallQueue DEF EngineStep
<1>2. ASSUME NEW c \in Begun, HandleStart(c) PROVE QueueTaken
  <2>1. rec' = rec \/ rec'.call = c
    BY <1>2 DEF HandleStart
  <2> QED BY <1>2, <2>1 DEF HandleStart, Take, QueueTaken, engine
<1>3. ASSUME NEW c \in Begun, HandleEnd(c) PROVE QueueTaken
  <2>1. rec' = rec \/ rec'.call = NoCall
    BY <1>3 DEF HandleEnd
  <2> QED BY <1>3, <2>1 DEF HandleEnd, Take, QueueTaken, engine
<1>4. ASSUME NEW c \in Begun, HandleSegment(c) \/ HandleEncryption(c) PROVE QueueTaken
  BY <1>4 DEF HandleSegment, HandleEncryption, Take, QueueTaken, engine
<1>5. CASE OpenSession \/ RecorderFinalizes \/ Teardown
  BY <1>5 DEF OpenSession, RecorderFinalizes, Teardown, Stop, Close, CancelAll, QueueSame,
              QueueCleared, IdleRecorder, engine, Typed, RecT, Recorder
<1>6. CASE ComposerStep \/ TimerStep \/ \E d \in Devices : Write(d)
  BY <1>6 DEF ComposerStep, ComposeStart, ComposeEnd, ReplaceChain, ChainDone,
              NotifyDrainComplete, ComposerFinalizes, TimerStep, TimerFires,
              FinalizeOnDrainTimeout, TimerFinalizes, Write, QueueSame, engine
<1>7. CASE UNCHANGED vars
  BY <1>7 DEF vars, QueueSame, engine
<1> QED BY <1>1, <1>2, <1>3, <1>4, <1>5, <1>6, <1>7 DEF Next, RecorderStep

\* A call that may get a session after a step could get one before.
LEMMA WaitingShrinks ==
  ASSUME Typed, OnceInv, [Next]_vars
  PROVE  StartsOnce' /\ \A c \in Calls : Waiting(c)' => Waiting(c)
<1>1. /\ recQ \in Seq(Event) /\ Len(recQ) \in Nat
      /\ \A i \in 1..Len(recQ) : recQ[i] \in Event
  BY LenProperties DEF Typed, QueueT
<1>2. Begun \subseteq Begun' /\ NoCall \notin Calls /\ NoCall \notin Begun
  BY CallsKept, CallFacts DEF Typed
<1>4. CASE QueueSame
  BY <1>2, <1>4 DEF QueueSame, OnceInv, StartsOnce, StartAt, Waiting, Begun
<1>7. CASE QueueCleared
  BY <1>2, <1>7 DEF QueueCleared, StartsOnce, StartAt, Waiting, Begun
<1>5. CASE QueueTaken
  <2>1. /\ Len(recQ') = Len(recQ) - 1 /\ Len(recQ) > 0
        /\ \A i \in 1..Len(recQ') : recQ'[i] = recQ[i + 1]
        /\ Head(recQ) = recQ[1]
    BY <1>1, <1>5, HeadTailProperties DEF QueueTaken
  <2>2. Begun' = Begun
    BY <1>5 DEF QueueTaken, Begun
  <2>3. StartsOnce'
    <3>1. \A i \in 1..Len(recQ') : i + 1 \in 1..Len(recQ) /\ i + 1 # 1 /\ recQ'[i] = recQ[i + 1]
      BY <1>1, <2>1
    <3>2. ASSUME NEW i \in 1..Len(recQ'), NEW j \in 1..Len(recQ'), StartAt(i)', recQ'[i] = recQ'[j]
          PROVE  i = j
      <4>1. StartAt(i + 1) /\ recQ[i + 1] = recQ[j + 1]
        BY <3>1, <3>2 DEF StartAt
      <4>2. i + 1 = j + 1
        BY <3>1, <4>1 DEF OnceInv, StartsOnce
      <4> QED BY <1>1, <2>1, <4>2
    <3>3. ASSUME NEW i \in 1..Len(recQ'), StartAt(i)'
          PROVE  recQ'[i].call \in Begun' /\ recQ'[i].call # rec'.call
      <4>1. /\ StartAt(i + 1) /\ recQ[i + 1].call \in Begun /\ recQ[i + 1].call # rec.call
            /\ recQ[i + 1] # recQ[1]
        BY <1>1, <2>1, <3>1, <3>3 DEF OnceInv, StartsOnce, StartAt
      <4>2. CASE rec'.call \in {rec.call, NoCall}
        BY <1>2, <2>2, <3>1, <4>1, <4>2
      <4>3. CASE recQ[1] = Ev("start", rec'.call)
        <5>1. recQ[i + 1] = Ev("start", recQ[i + 1].call)
          BY <1>1, <3>1, <4>1 DEF StartAt, Event, Ev
        <5> QED BY <2>2, <3>1, <4>1, <4>3, <5>1
      <4> QED BY <1>5, <2>1, <4>2, <4>3 DEF QueueTaken
    <3> QED BY <3>2, <3>3 DEF StartsOnce
  <2>4. ASSUME NEW c \in Calls, Waiting(c)' PROVE Waiting(c)
    <3>1. CASE c \notin Begun'
      BY <2>2, <3>1 DEF Waiting
    <3>2. CASE rec'.call = c
      <4>1. rec.call = c \/ recQ[1] = Ev("start", c)
        BY <1>2, <1>5, <2>1, <3>2 DEF QueueTaken
      <4> QED BY <1>1, <2>1, <4>1 DEF Waiting
    <3>3. ASSUME NEW i \in 1..Len(recQ'), recQ'[i] = Ev("start", c)
          PROVE  Waiting(c)
      <4>1. i + 1 \in 1..Len(recQ) /\ recQ[i + 1] = Ev("start", c)
        BY <1>1, <2>1, <3>3
      <4> QED BY <4>1 DEF Waiting
    <3>4. Ev("start", c)' = Ev("start", c)
      BY DEF Ev
    <3> QED BY <2>4, <3>1, <3>2, <3>3, <3>4 DEF Waiting
  <2> QED BY <2>3, <2>4
<1>6. CASE QueueLonger
  <2>1. Len(recQ') \in Nat
    BY <1>6, LenProperties DEF QueueLonger
  <2>2. seq \in Nat /\ seq + 1 \notin Begun /\ (seq' = seq + 1 => Begun' = Begun \cup {seq + 1})
    BY CallFacts DEF Typed, Begun
  <2>3. ASSUME NEW i \in 1..Len(recQ'), StartAt(i)'
        PROVE  \/ i \in 1..Len(recQ) /\ StartAt(i) /\ recQ'[i] = recQ[i]
               \/ i = Len(recQ') /\ i > Len(recQ) /\ recQ'[i].call = seq + 1 /\ seq' = seq + 1
    BY <1>1, <1>6, <2>1, <2>3 DEF QueueLonger, StartAt
  <2>4. StartsOnce'
    <3>1. ASSUME NEW i \in 1..Len(recQ'), NEW j \in 1..Len(recQ'), StartAt(i)', recQ'[i] = recQ'[j]
          PROVE  i = j
      <4>1. StartAt(j)'
        BY <3>1 DEF StartAt
      <4> QED BY <1>1, <2>1, <2>2, <2>3, <3>1, <4>1 DEF OnceInv, StartsOnce
    <3>2. ASSUME NEW i \in 1..Len(recQ'), StartAt(i)'
          PROVE  recQ'[i].call \in Begun' /\ recQ'[i].call # rec'.call
      <4>1. rec'.call = rec.call /\ rec.call \in Maybe(Begun)
        BY <1>6 DEF QueueLonger, Typed, RecT
      <4>2. seq' = seq + 1 => seq + 1 # rec.call
        <5>1. seq' = seq + 1 => seq + 1 \in Calls
          BY <2>2, StepTyped DEF Typed, EngineT, Calls
        <5> QED BY <1>2, <2>2, <4>1, <5>1 DEF Maybe
      <4> QED BY <1>2, <2>2, <2>3, <3>2, <4>1, <4>2 DEF OnceInv, StartsOnce
    <3> QED BY <3>1, <3>2 DEF StartsOnce
  <2>5. ASSUME NEW c \in Calls, Waiting(c)' PROVE Waiting(c)
    BY <1>1, <1>2, <1>6, <2>1, <2>2, <2>5 DEF QueueLonger, Waiting, Ev
  <2> QED BY <2>4, <2>5
<1> QED BY <1>4, <1>5, <1>6, <1>7, QueueSteps

\* OnceInv's conjuncts about the files alone.
FilesOnce ==
  /\ \A c \in Calls : Waiting(c) => Untouched(c)
  /\ Placed /\ Behind /\ OversAnnouncedOnce

\* A session that is closed or rolled on.
LEMMA FinishedOnce ==
  ASSUME Typed, OnceInv, [Next]_vars, UNCHANGED <<about, seq>>,
         NEW d \in Devices, Closes(d) \/ Rolls(d)
  PROVE  FilesOnce'
<1> DEFINE s == sessions[d]
           n == [call |-> s.call, seg |-> s.seg + 1, open |-> FALSE, audio |-> {}]
           L == Len(complete)
<1>1. /\ Len(complete') >= L /\ L \in Nat /\ Len(complete') \in Nat
      /\ \A i \in 1..L : complete'[i] = complete[i]
      /\ \A i \in 1..Len(complete') : i > L => i = L + 1 /\ complete'[i] = Announced(s)
  BY RenameKeeps DEF Closes, Rolls
<1>2. /\ HasSession(d) /\ s \in Session /\ s.seg \in Nat /\ Dev(s.call) = d
      /\ Announced(s).call = s.call /\ Announced(s).seg = s.seg
  BY DEF Closes, Rolls, HasSession, OnceInv, Placed, Typed, FilesT, Session, Announced
<1>3. \A i \in 1..L : complete[i].seg \in Nat
  <2>1. \A i \in 1..L : complete[i] \in Recording
    BY ElementOfSeq DEF Typed, FilesT
  <2> QED BY <2>1 DEF Recording
<1>4. sessions' = [sessions EXCEPT ![d] = NoSession] \/ sessions' = [sessions EXCEPT ![d] = n]
  BY DEF Closes, Rolls
<1>5. \A e \in Devices : e # d => sessions'[e] = sessions[e]
  BY <1>4 DEF Typed, FilesT
<1>6. sessions'[d] = NoSession \/ (sessions'[d].call = s.call /\ sessions'[d].seg = s.seg + 1)
  <2>1. sessions'[d] = NoSession \/ sessions'[d] = n
    <3> HIDE DEF n
    <3> QED BY <1>4 DEF Typed, FilesT
  <2>2. n.call = s.call /\ n.seg = s.seg + 1
    OBVIOUS
  <2> HIDE DEF n
  <2> QED BY <2>1, <2>2
<1> HIDE DEF n, L
<1>7. \A e \in Devices : HasSession(e)' => HasSession(e) /\ sessions'[e].call = sessions[e].call
  BY <1>2, <1>5, <1>6 DEF HasSession
<1>8. Placed'
  BY <1>7 DEF Placed, OnceInv, Dev
<1>9. ASSUME NEW c \in Calls, Waiting(c)' PROVE Untouched(c)'
  <2>1. Untouched(c)
    BY <1>9, WaitingShrinks DEF OnceInv
  <2>2. s.call # c
    BY <1>2, <2>1 DEF Untouched
  <2> QED BY <1>1, <1>2, <1>7, <2>1, <2>2 DEF Untouched, L
<1>10. Behind'
  <2>1. ASSUME NEW e \in Devices, NEW i \in 1..Len(complete'), HasSession(e)',
               complete'[i].call = sessions'[e].call
        PROVE  complete'[i].seg < sessions'[e].seg
    <3>1. CASE e = d
      <4>1. sessions'[d].call = s.call /\ sessions'[d].seg = s.seg + 1
        BY <1>6, <2>1, <3>1 DEF HasSession
      <4>2. CASE i <= L
        <5>1. i \in 1..L /\ complete[i].call = s.call
          BY <1>1, <2>1, <3>1, <4>1, <4>2
        <5>2. complete[i].seg < s.seg
          BY <1>2, <5>1 DEF OnceInv, Behind, L
        <5> QED BY <1>1, <1>2, <1>3, <3>1, <4>1, <5>1, <5>2
      <4>3. CASE i > L
        BY <1>1, <1>2, <3>1, <4>1, <4>3
      <4> QED BY <1>1, <4>2, <4>3
    <3>2. CASE e # d
      <4>1. HasSession(e) /\ sessions'[e] = sessions[e] /\ Dev(sessions[e].call) = e
        BY <1>5, <1>7, <2>1, <3>2 DEF OnceInv, Placed
      <4>2. i \in 1..L
        BY <1>1, <1>2, <2>1, <3>2, <4>1
      <4> QED BY <1>1, <2>1, <4>1, <4>2 DEF OnceInv, Behind, L
    <3> QED BY <3>1, <3>2
  <2> QED BY <2>1 DEF Behind
<1>11. OversAnnouncedOnce'
  <2>1. ASSUME NEW i \in 1..Len(complete'), NEW j \in 1..Len(complete'), i < j,
               complete'[i].call = complete'[j].call
        PROVE  complete'[i].seg < complete'[j].seg
    <3>1. i \in 1..L
      BY <1>1, <2>1
    <3>2. CASE j <= L
      <4>1. j \in 1..L
        BY <1>1, <3>2
      <4> QED BY <1>1, <2>1, <3>1, <4>1 DEF OnceInv, OversAnnouncedOnce, L
    <3>3. CASE j > L
      BY <1>1, <1>2, <2>1, <3>1, <3>3 DEF OnceInv, Behind, L
    <3> QED BY <1>1, <3>2, <3>3
  <2> QED BY <2>1 DEF OversAnnouncedOnce
<1> QED BY <1>8, <1>9, <1>10, <1>11 DEF FilesOnce

\* A new session: nobody else has one for the call, and none of its overs is out.
LEMMA OpenedOnce ==
  ASSUME Typed, OnceInv, [Next]_vars, UNCHANGED <<about, seq>>, Opens
  PROVE  FilesOnce'
<1>0. PICK c \in Begun : c = rec.call
  BY DEF Opens, OpenSession, Typed, RecT, Maybe
<1> DEFINE n == [call |-> c, seg |-> 0, open |-> FALSE, audio |-> {}]
<1>1. c \in Calls /\ Dev(c) \in Devices /\ NoCall \notin Calls
  BY CallFacts DEF Typed
<1>2. Untouched(c)
  BY <1>0, <1>1 DEF OnceInv, Waiting
<1>3. ~Waiting(c)'
  <2>1. rec'.call # c
    BY <1>1 DEF Opens, OpenSession, IdleRecorder
  <2>2. recQ' = recQ /\ Begun' = Begun
    BY DEF Opens, OpenSession, Begun
  <2>3. \A i \in 1..Len(recQ) : recQ[i] # Ev("start", c)
    BY <1>0 DEF OnceInv, StartsOnce, StartAt, Ev
  <2> QED BY <1>1, <2>1, <2>2, <2>3 DEF Waiting, Ev
<1>4. /\ complete' = complete /\ sessions'[Dev(c)] = n
      /\ \A e \in Devices : e # Dev(c) => sessions'[e] = sessions[e]
  BY <1>0, <1>1 DEF Opens, Typed, FilesT
<1>5. n.call = c
  OBVIOUS
<1> HIDE DEF n
<1>6. ASSUME NEW x \in Calls, Waiting(x)' PROVE Untouched(x)'
  <2>1. x # c /\ Untouched(x)
    BY <1>3, <1>6, WaitingShrinks DEF OnceInv
  <2> QED BY <1>4, <1>5, <2>1 DEF Untouched, HasSession
<1>7. Placed' /\ Behind' /\ OversAnnouncedOnce'
  BY <1>2, <1>4, <1>5 DEF OnceInv, Placed, Behind, OversAnnouncedOnce, Untouched, HasSession, Dev
<1> QED BY <1>6, <1>7 DEF FilesOnce

LEMMA InitOnce == Init => OnceInv
BY DEF Init, OnceInv, IdleRecorder, StartsOnce, Untouched, Placed, Behind, OversAnnouncedOnce,
       HasSession

LEMMA StepOnce == Typed /\ Fenced /\ OnceInv /\ [Next]_vars => OnceInv'
<1> SUFFICES ASSUME Typed, Fenced, OnceInv, [Next]_vars PROVE OnceInv'
  OBVIOUS
<1>1. StartsOnce' /\ \A c \in Calls : Waiting(c)' => Waiting(c)
  BY WaitingShrinks
<1>2. ASSUME complete' = complete,
             \A d \in Devices : HasSession(d)' => /\ HasSession(d)
                                                  /\ sessions'[d].call = sessions[d].call
                                                  /\ sessions'[d].seg = sessions[d].seg
      PROVE  FilesOnce'
  <2>1. ASSUME NEW c \in Calls, Waiting(c)' PROVE Untouched(c)'
    <3>1. Untouched(c)
      BY <1>1, <2>1 DEF OnceInv
    <3> QED BY <1>2, <3>1 DEF Untouched
  <2>2. \A d \in Devices : HasSession(d) => sessions[d].call \in Begun
    BY DEF Fenced, Clean
  <2>3. Placed'
    BY <1>2, <2>2, CallsKept DEF OnceInv, Placed, Dev
  <2>4. Behind' /\ OversAnnouncedOnce'
    BY <1>2 DEF OnceInv, Behind, OversAnnouncedOnce
  <2> QED BY <2>1, <2>3, <2>4 DEF FilesOnce
<1>3. CASE UNCHANGED <<sessions, complete>> \/ Drops
  BY <1>1, <1>2, <1>3 DEF Drops, HasSession, OnceInv, FilesOnce
<1>4. ASSUME NEW d \in Devices, Hears(d) PROVE FilesOnce'
  <2> DEFINE n == [call |-> sessions[d].call, seg |-> sessions[d].seg, open |-> TRUE,
                   audio |-> sessions[d].audio \cup {chain[d]}]
  <2>1. complete' = complete /\ sessions' = [sessions EXCEPT ![d] = n] /\ HasSession(d)
    BY <1>4 DEF Hears, Admits
  <2>2. n.call = sessions[d].call /\ n.seg = sessions[d].seg
    OBVIOUS
  <2> HIDE DEF n
  <2>3. \A e \in Devices : HasSession(e)' => /\ HasSession(e)
                                             /\ sessions'[e].call = sessions[e].call
                                             /\ sessions'[e].seg = sessions[e].seg
    BY <2>1, <2>2 DEF HasSession, Typed, FilesT
  <2> QED BY <1>2, <2>1, <2>3
<1>5. CASE /\ UNCHANGED <<about, seq>>
           /\ Opens \/ \E d \in Devices : Closes(d) \/ Rolls(d)
  BY <1>1, <1>5, OpenedOnce, FinishedOnce DEF OnceInv, FilesOnce
<1> QED BY <1>1, <1>3, <1>4, <1>5, FileSteps DEF FileStep, OnceInv, FilesOnce

\* No file is announced twice, by whomever the call is finished, and the overs of a call
\* come in their order.
THEOREM OversOnce == Spec => []OversAnnouncedOnce
<1>1. Spec => [](Typed /\ Fenced /\ OnceInv)
  BY AlwaysTyped, InitFenced, StepFenced, InitOnce, StepOnce, PTL DEF Spec
<1>2. OnceInv => OversAnnouncedOnce
  BY DEF OnceInv
<1> QED BY <1>1, <1>2, PTL

-----------------------------------------------------------------------------
\* Live calls keep their recording: whoever has a CallEnd in hand has one of a call that
\* the engine has ended, and finalizeCall lets it finish no other call's session.

\* The engine has published the CallEnd.
OverCalls == {c \in Begun \ leaving : \A d \in Devices : live[d] # c}

EndsIn(q, S) == \A i \in 1..Len(q) : q[i].kind = "end" => q[i].call \in S

EndsAreOver ==
  /\ EndsIn(recQ, OverCalls)
  /\ late \subseteq OverCalls /\ rec.goal \subseteq OverCalls
  /\ \A d \in Devices : pending[d].ce \in Maybe(OverCalls)
  /\ comp.ce \in Maybe(OverCalls)

\* A live call is on its device and none that the engine has released; a device serves only
\* calls with an ID or only others.
Assigned ==
  /\ \A d \in Devices : live[d] # NoCall => Dev(live[d]) = d /\ live[d] \notin leaving
  /\ \A b, c \in Begun : Dev(b) = Dev(c) => Kind(b).stamped = Kind(c).stamped

OverInv == EndsAreOver /\ Assigned

LEMMA DeliveredEnds ==
  ASSUME NEW S, NEW q \in Seq(Event), EndsIn(q, S), NEW e \in Event,
         e.kind = "end" => e.call \in S
  PROVE  EndsIn(Delivered(q, e), S)
<1>1. /\ Len(q) \in Nat
      /\ \A i \in 1..Len(q) : Delivered(q, e)[i] = q[i]
      /\ \A i \in 1..Len(Delivered(q, e)) : i > Len(q) => Delivered(q, e)[i] = e
  BY DeliveredIs, LenProperties
<1> QED BY <1>1 DEF EndsIn

LEMMA TailEnds ==
  ASSUME NEW S, NEW q \in Seq(Event), EndsIn(q, S), q # <<>>
  PROVE  EndsIn(Tail(q), S) /\ (Head(q).kind = "end" => Head(q).call \in S)
<1>1. /\ Len(q) \in Nat /\ Len(q) > 0 /\ Len(Tail(q)) = Len(q) - 1 /\ Head(q) = q[1]
      /\ \A i \in 1..Len(Tail(q)) : Tail(q)[i] = q[i + 1]
  BY HeadTailProperties, LenProperties
<1> QED BY <1>1 DEF EndsIn

LEMMA WiderEnds ==
  ASSUME NEW S, NEW T, S \subseteq T, NEW q, EndsIn(q, S)
  PROVE  EndsIn(q, T)
BY DEF EndsIn

\* What the engine's steps do to the calls that are live and over.
LEMMA StartCallOver ==
  ASSUME Typed, OverInv, NEW d \in Devices, NEW k \in Kinds, StartCall(d, k)
  PROVE  /\ OverCalls \subseteq OverCalls' /\ Assigned'
         /\ k.early => seq + 1 \in OverCalls'
<1>1. /\ seq' = seq + 1 /\ seq + 1 \notin Begun /\ seq + 1 \in Calls
      /\ Begun' = Begun \cup {seq + 1}
      /\ NoCall \notin Calls /\ Begun \subseteq Calls
  BY CallFacts, RecorderAssumption DEF StartCall, Typed, EngineT, Begun, Calls
<1>2. /\ live' = live \/ live' = [live EXCEPT ![d] = seq + 1]
      /\ leaving' = leaving /\ leaving \subseteq Begun
  BY DEF StartCall, Typed, EngineT
<1>3. OverCalls \subseteq OverCalls'
  BY <1>1, <1>2 DEF OverCalls, Typed, EngineT
<1>4. k.early => seq + 1 \in OverCalls'
  <2>1. \A e \in Devices : live[e] # seq + 1
    BY <1>1 DEF Typed, EngineT, Maybe
  <2> QED BY <1>1, <1>2, <2>1 DEF StartCall, OverCalls
<1>5. /\ \A c \in Begun : about'[c] = about[c]
      /\ about'[seq + 1] = [dev |-> d, kind |-> k]
  BY <1>1 DEF StartCall, Typed, EngineT
<1>6. \A e \in Devices : live'[e] # NoCall => about'[live'[e]].dev = e /\ live'[e] \notin leaving'
  BY <1>1, <1>2, <1>5 DEF OverInv, Assigned, Dev, Typed, EngineT, Maybe
<1>7. \A b \in Begun : Dev(b) = d => Kind(b).stamped = k.stamped
  BY DEF StartCall, Begun, Dev, Kind
<1>8. \A b, c \in Begun' : Dev(b)' = Dev(c)' => Kind(b)'.stamped = Kind(c)'.stamped
  BY <1>1, <1>5, <1>7 DEF OverInv, Assigned, Dev, Kind
<1> QED BY <1>3, <1>4, <1>6, <1>8 DEF Assigned, Dev

LEMMA EndCallOver ==
  ASSUME Typed, OverInv, NEW d \in Devices, EndCall(d)
  PROVE  OverCalls \subseteq OverCalls' /\ Assigned'
<1>1. /\ Begun' = Begun /\ about' = about /\ live' = [live EXCEPT ![d] = NoCall]
      /\ leaving' = leaving \cup {live[d]}
  BY DEF EndCall, Begun
<1>2. live[d] \in Begun /\ NoCall \notin Begun
  BY CallFacts DEF EndCall, Typed, EngineT, Maybe
<1>3. \A e \in Devices : e # d => live[e] # live[d]
  BY <1>2 DEF OverInv, Assigned
<1> QED BY <1>1, <1>2, <1>3 DEF OverCalls, OverInv, Assigned, Dev, Kind, Typed, EngineT

LEMMA PublishEndOver ==
  ASSUME Typed, OverInv, NEW c \in leaving, PublishEnd(c)
  PROVE  OverCalls \subseteq OverCalls' /\ Assigned' /\ c \in OverCalls'
<1>1. Begun' = Begun /\ about' = about /\ live' = live /\ leaving' = leaving \ {c}
  BY DEF PublishEnd, Begun
<1>2. c \in Begun /\ c # NoCall
  BY CallFacts DEF Typed, EngineT
<1>3. \A e \in Devices : live[e] # c
  BY <1>2 DEF OverInv, Assigned
<1> QED BY <1>1, <1>2, <1>3 DEF OverCalls, OverInv, Assigned, Dev, Kind

LEMMA InitOver == Init => OverInv
BY DEF Init, OverInv, EndsAreOver, EndsIn, Assigned, IdleRecorder, IdleComposer, NoPending,
       Maybe, Begun

\* Recorder, composer and timers hand CallEnds on and leave the engine's calls alone.
LEMMA HandOnOver ==
  ASSUME Typed, OverInv, UNCHANGED engine,
         EndsIn(recQ', OverCalls), late' \subseteq OverCalls, rec'.goal \subseteq OverCalls,
         \A d \in Devices : pending'[d].ce \in Maybe(OverCalls),
         comp'.ce \in Maybe(OverCalls)
  PROVE  OverInv'
<1>1. OverCalls' = OverCalls
  BY DEF OverCalls, Begun, engine
<1> QED BY <1>1 DEF OverInv, EndsAreOver, EndsIn, Assigned, Maybe, Begun, Dev, Kind, engine

LEMMA EngineStepOver ==
  ASSUME Typed, OverInv, EngineStep
  PROVE  OverInv'
<1>1. ASSUME OverCalls \subseteq OverCalls', Assigned', EndsIn(recQ', OverCalls'),
             UNCHANGED <<late, rec, pending, comp>>
      PROVE  OverInv'
  BY <1>1 DEF OverInv, EndsAreOver, EndsIn, Maybe
<1>2. EndsIn(recQ, OverCalls) /\ recQ \in Seq(Event)
  BY DEF OverInv, EndsAreOver, Typed, QueueT
<1>3. ASSUME NEW d \in Devices, NEW k \in Kinds, StartCall(d, k) PROVE OverInv'
  <2> DEFINE c == seq + 1
             q == Delivered(recQ, Ev("end", c))
  <2>1. OverCalls \subseteq OverCalls' /\ Assigned' /\ (k.early => c \in OverCalls')
    BY <1>3, StartCallOver
  <2>2. c \in Calls
    BY <1>3, RecorderAssumption DEF StartCall, Typed, EngineT, Calls
  <2>3. /\ Ev("start", c) \in Event /\ Ev("start", c).kind # "end"
        /\ Ev("end", c) \in Event /\ Ev("end", c).call = c
    BY <2>2, EvType DEF Ev
  <2>4. EndsIn(recQ, OverCalls')
    BY <1>2, <2>1, WiderEnds
  <2>5. EndsIn(recQ', OverCalls')
    <3>1. CASE k.early
      <4>1. recQ' = Delivered(q, Ev("start", c))
        BY <1>3, <3>1 DEF StartCall
      <4>2. q \in Seq(Event) /\ EndsIn(q, OverCalls')
        BY <1>2, <2>1, <2>3, <2>4, <3>1, DeliveredEnds, DeliveredIs
      <4> QED BY <2>3, <4>1, <4>2, DeliveredEnds
    <3>2. CASE ~k.early
      <4>1. recQ' = Delivered(recQ, Ev("start", c))
        BY <1>3, <3>2 DEF StartCall, Publish
      <4> QED BY <1>2, <2>3, <2>4, <4>1, DeliveredEnds
    <3> QED BY <3>1, <3>2
  <2> QED BY <1>1, <1>3, <2>1, <2>5 DEF StartCall, timers, composer
<1>4. ASSUME NEW d \in Devices, EndCall(d) PROVE OverInv'
  <2>1. OverCalls \subseteq OverCalls' /\ Assigned' /\ recQ' = recQ
    BY <1>4, EndCallOver DEF EndCall
  <2>2. EndsIn(recQ', OverCalls')
    BY <1>2, <2>1, WiderEnds
  <2> QED BY <1>1, <1>4, <2>1, <2>2 DEF EndCall, timers, composer
<1>5. ASSUME NEW c \in leaving, PublishEnd(c) PROVE OverInv'
  <2>1. OverCalls \subseteq OverCalls' /\ Assigned' /\ c \in OverCalls'
    BY <1>5, PublishEndOver
  <2>2. Ev("end", c) \in Event /\ Ev("end", c).call = c
    BY EvType, CallFacts DEF Ev, Typed, EngineT
  <2>3. recQ' = Delivered(recQ, Ev("end", c)) /\ EndsIn(recQ, OverCalls')
    BY <1>2, <1>5, <2>1, WiderEnds DEF PublishEnd, Publish
  <2>4. EndsIn(recQ', OverCalls')
    BY <1>2, <2>1, <2>2, <2>3, DeliveredEnds
  <2> QED BY <1>1, <1>5, <2>1, <2>4 DEF PublishEnd, timers, composer
<1>6. ASSUME NEW c \in Begun, NEW kind \in {"segment", "encrypted"}, Announce(c, kind)
      PROVE  OverInv'
  <2>1. Ev(kind, c) \in Event /\ Ev(kind, c).kind # "end"
    BY EvType, CallFacts DEF Ev, Typed
  <2>2. EndsIn(recQ', OverCalls)
    BY <1>2, <1>6, <2>1, DeliveredEnds DEF Announce
  <2>3. OverCalls' = OverCalls /\ Assigned'
    BY <1>6 DEF Announce, OverCalls, OverInv, Assigned, Begun, Dev, Kind
  <2> QED BY <1>1, <1>6, <2>2, <2>3 DEF Announce, timers, composer
<1> QED BY <1>3, <1>4, <1>5, <1>6 DEF EngineStep

LEMMA RecorderStepOver ==
  ASSUME Typed, OverInv, RecorderStep
  PROVE  OverInv'
<1>1. /\ EndsIn(recQ, OverCalls) /\ recQ \in Seq(Event)
      /\ late \subseteq OverCalls /\ rec.goal \subseteq OverCalls
      /\ \A d \in Devices : pending[d].ce \in Maybe(OverCalls)
      /\ comp.ce \in Maybe(OverCalls)
      /\ pending \in [Devices -> Pending \cup {NoPending}]
  BY DEF OverInv, EndsAreOver, Typed, QueueT, PendingT
<1>2. ASSUME NEW kind, NEW c, Take(kind, c)
      PROVE  EndsIn(recQ', OverCalls) /\ (kind = "end" => c \in OverCalls)
  <2>1. recQ # <<>> /\ Head(recQ).kind = kind /\ Head(recQ).call = c /\ recQ' = Tail(recQ)
    BY <1>2 DEF Take, Ev
  <2> QED BY <1>1, <2>1, TailEnds
<1>3. ASSUME NEW c \in Begun, HandleStart(c) PROVE OverInv'
  <2>1. Dev(c) \in Devices
    BY CallFacts DEF Typed
  <2>2. rec'.goal \subseteq OverCalls
    BY <1>1, <1>3, <2>1 DEF HandleStart, Maybe
  <2>3. pending' = pending \/ pending' = [pending EXCEPT ![Dev(c)] = NoPending]
    BY <1>1, <1>3 DEF HandleStart
  <2>4. \A d \in Devices : pending'[d].ce \in Maybe(OverCalls)
    BY <1>1, <2>3 DEF NoPending, Maybe
  <2> QED BY <1>1, <1>2, <1>3, <2>2, <2>4, HandOnOver DEF HandleStart, timers, composer
<1>4. ASSUME NEW c \in Begun, HandleEnd(c) PROVE OverInv'
  <2> DEFINE t == IF pending[Dev(c)].timer = NoCall THEN c ELSE pending[Dev(c)].timer
             n == [ce |-> c, id |-> c, drained |-> FALSE, timer |-> t]
  <2>1. c \in OverCalls /\ EndsIn(recQ', OverCalls)
    BY <1>2, <1>4 DEF HandleEnd
  <2>2. rec' = rec \/ rec'.goal = {c}
    BY <1>4 DEF HandleEnd
  <2>3. \/ pending' = pending
        \/ pending' = [pending EXCEPT ![Dev(c)] = NoPending]
        \/ pending' = [pending EXCEPT ![Dev(c)] = n]
    BY <1>4 DEF HandleEnd
  <2>4. n.ce = c /\ NoPending.ce = NoCall
    BY DEF NoPending
  <2> HIDE DEF n
  <2>5. \A d \in Devices : pending'[d].ce \in Maybe(OverCalls)
    BY <1>1, <2>1, <2>3, <2>4 DEF Maybe
  <2> QED BY <1>1, <1>4, <2>1, <2>2, <2>5, HandOnOver DEF HandleEnd, timers, composer
<1>5. ASSUME NEW c \in Begun, HandleSegment(c) \/ HandleEncryption(c) PROVE OverInv'
  BY <1>1, <1>2, <1>5, HandOnOver DEF HandleSegment, HandleEncryption, timers, composer
<1>6. CASE OpenSession
  BY <1>1, <1>6, HandOnOver DEF OpenSession, IdleRecorder, timers, composer
<1>7. CASE RecorderFinalizes
  <2>1. rec'.goal \subseteq rec.goal
    <3>1. PICK c : rec' = IF rec.pc = "flush" THEN [rec EXCEPT !.goal = @ \ {c}]
                          ELSE [pc |-> IF rec.call = NoCall THEN "idle" ELSE "open",
                                goal |-> {}, call |-> rec.call]
      BY <1>7 DEF RecorderFinalizes
    <3> QED BY <3>1 DEF Typed, RecT, Recorder
  <2> QED BY <1>1, <1>7, <2>1, HandOnOver DEF RecorderFinalizes, timers, composer
<1> QED BY <1>3, <1>4, <1>5, <1>6, <1>7 DEF RecorderStep

LEMMA OthersOver ==
  ASSUME Typed, OverInv, ComposerStep \/ TimerStep \/ Teardown \/ \E d \in Devices : Write(d)
  PROVE  OverInv'
<1>1. /\ EndsIn(recQ, OverCalls)
      /\ late \subseteq OverCalls /\ rec.goal \subseteq OverCalls
      /\ \A d \in Devices : pending[d].ce \in Maybe(OverCalls)
      /\ comp.ce \in Maybe(OverCalls)
      /\ pending \in [Devices -> Pending \cup {NoPending}]
      /\ NoPending.ce = NoCall
  BY DEF OverInv, EndsAreOver, Typed, PendingT, NoPending
<1>2. ASSUME NEW c \in Begun, ComposeStart(c) \/ ComposeEnd(c) PROVE OverInv'
  <2>1. comp' = comp \/ comp'.ce = NoCall
    BY <1>2 DEF ComposeStart, ComposeEnd, composer
  <2> QED BY <1>1, <1>2, <2>1, HandOnOver DEF ComposeStart, ComposeEnd, timers, Maybe
<1>3. CASE ReplaceChain \/ ChainDone \/ ComposerFinalizes
  <2>1. comp'.ce \in {comp.ce, NoCall}
    BY <1>3 DEF ReplaceChain, ChainDone, ComposerFinalizes, IdleComposer, Typed, CompT, Composer
  <2> QED BY <1>1, <1>3, <2>1, HandOnOver
       DEF ReplaceChain, ChainDone, ComposerFinalizes, timers, Maybe
<1>4. CASE NotifyDrainComplete
  <2> DEFINE d == Dev(comp.call)
             fresh == [ce |-> NoCall, id |-> comp.call, drained |-> TRUE, timer |-> NoCall]
  <2>1. d \in Devices
    BY <1>4, CallFacts DEF NotifyDrainComplete, Typed, CompT, Maybe
  <2>2. pending' = [pending EXCEPT ![d] = fresh] \/ pending' = [pending EXCEPT ![d] = pending[d]]
        \/ pending' = [pending EXCEPT ![d] = NoPending]
        \/ (pending[d] # NoPending
            /\ pending' = [pending EXCEPT ![d] = [pending[d] EXCEPT !.drained = TRUE]])
    BY <1>4 DEF NotifyDrainComplete
  <2>3. fresh.ce = NoCall
    OBVIOUS
  <2>4. pending[d] # NoPending => [pending[d] EXCEPT !.drained = TRUE].ce = pending[d].ce
    BY <1>1, <2>1 DEF Pending
  <2>5. comp'.ce \in {NoCall, pending[d].ce}
    BY <1>4 DEF NotifyDrainComplete
  <2> HIDE DEF fresh, d
  <2>6. \A e \in Devices : pending'[e].ce \in Maybe(OverCalls)
    BY <1>1, <2>1, <2>2, <2>3, <2>4 DEF Maybe
  <2> QED BY <1>1, <1>4, <2>1, <2>5, <2>6, HandOnOver DEF NotifyDrainComplete, timers, Maybe
<1>5. ASSUME NEW d \in Devices, TimerFires(d) \/ Write(d) PROVE OverInv'
  BY <1>1, <1>5, HandOnOver DEF TimerFires, Write, composer, timers
<1>6. ASSUME NEW t \in fired, FinalizeOnDrainTimeout(t[1], t[2]) PROVE OverInv'
  <2>1. t[1] \in Devices
    BY DEF Typed, TimersT
  <2>2. late' \subseteq OverCalls
    BY <1>1, <1>6, <2>1 DEF FinalizeOnDrainTimeout, Maybe
  <2>3. \A e \in Devices : pending'[e].ce \in Maybe(OverCalls)
    BY <1>1, <1>6, <2>1 DEF FinalizeOnDrainTimeout, Maybe
  <2> QED BY <1>1, <1>6, <2>2, <2>3, HandOnOver DEF FinalizeOnDrainTimeout, composer
<1>7. ASSUME NEW c \in late, TimerFinalizes(c) PROVE OverInv'
  BY <1>1, <1>7, HandOnOver DEF TimerFinalizes, composer
<1>8. CASE Stop
  <2>1. rec'.goal \subseteq OverCalls
    BY <1>1, <1>8 DEF Stop, Maybe
  <2>2. \A e \in Devices : pending'[e].ce \in Maybe(OverCalls)
    BY <1>1, <1>8 DEF Stop, Maybe
  <2>3. EndsIn(recQ', OverCalls)
    BY <1>8 DEF Stop, EndsIn
  <2> QED BY <1>1, <1>8, <2>1, <2>2, <2>3, HandOnOver DEF Stop, composer, timers
<1>9. CASE Close \/ CancelAll
  <2>1. rec'.goal = rec.goal /\ comp'.ce = comp.ce
    BY <1>9 DEF Close, CancelAll, composer, Typed, RecT, Recorder, CompT, Composer
  <2> QED BY <1>1, <1>9, <2>1, HandOnOver DEF Close, CancelAll, timers
<1> QED BY <1>2, <1>3, <1>4, <1>5, <1>6, <1>7, <1>8, <1>9
     DEF ComposerStep, TimerStep, Teardown

LEMMA StepOver == Typed /\ OverInv /\ [Next]_vars => OverInv'
<1> SUFFICES ASSUME Typed, OverInv, [Next]_vars PROVE OverInv'
  OBVIOUS
<1>1. CASE UNCHANGED vars
  BY <1>1 DEF vars, engine, timers, composer, OverInv, EndsAreOver, EndsIn, Assigned, OverCalls,
              Begun, Dev, Kind, Maybe
<1> QED BY <1>1, EngineStepOver, RecorderStepOver, OthersOver DEF Next

\* finalizeCall with the CallEnd of a call that is over spares the live call's session.
LEMMA FinalizeSparesLive ==
  ASSUME Typed, OverInv, NEW c \in OverCalls, FinalizeCall(c),
         NEW d \in Devices, live[d] # NoCall, sessions[d].call = live[d], Kind(live[d]).stamped
  PROVE  sessions'[d] = sessions[d]
<1>1. c \in Begun /\ c # live[d] /\ live[d] \in Begun /\ Dev(live[d]) = d
  BY DEF OverCalls, OverInv, Assigned, Typed, EngineT, Maybe
<1>2. CASE Dev(c) = d
  <2>1. Kind(c).stamped
    BY <1>1, <1>2 DEF OverInv, Assigned
  <2>2. CallIDsDiffer(sessions[d].call, c)
    BY <1>1, <2>1 DEF CallIDsDiffer
  <2> QED BY <1>2, <2>2 DEF FinalizeCall
<1>3. CASE Dev(c) # d
  BY <1>3 DEF FinalizeCall, Typed, FilesT
<1> QED BY <1>2, <1>3

LEMMA TakenIsShorter ==
  ASSUME Typed, NEW kind, NEW c, Take(kind, c)
  PROVE  recQ' # recQ
<1>1. Len(Tail(recQ)) = Len(recQ) - 1 /\ Len(recQ) \in Nat
  BY HeadTailProperties, LenProperties DEF Take, Typed, QueueT
<1>2. Tail(recQ) # recQ
  <2>1. SUFFICES ASSUME Tail(recQ) = recQ PROVE FALSE
    OBVIOUS
  <2>2. Len(recQ) = Len(recQ) - 1
    BY <1>1, <2>1, Zenon
  <2> QED BY <1>1, <2>2
<1> QED BY <1>2 DEF Take

-----------------------------------------------------------------------------
\* A device serves its calls in their order, and the recorder opens their sessions in that
\* order: a session that is still to be opened is of a later call than those there are.

Later(b) ==
  /\ rec.call # NoCall => b < rec.call
  /\ \A i \in 1..Len(recQ) : StartAt(i) => b < recQ[i].call

InOrder ==
  /\ \A i, j \in 1..Len(recQ) : i < j /\ StartAt(i) /\ StartAt(j) => recQ[i].call < recQ[j].call
  /\ rec.call # NoCall => \A i \in 1..Len(recQ) : StartAt(i) => rec.call < recQ[i].call
  /\ \A d \in Devices : HasSession(d) => Later(sessions[d].call)
  /\ \A d \in Devices : live[d] # NoCall => \A b \in Begun : Dev(b) = d => b <= live[d]

\* Where a session comes from.
LEMMA SessionSource ==
  ASSUME Typed, [Next]_vars, NEW d \in Devices, HasSession(d)'
  PROVE  \/ HasSession(d) /\ sessions'[d].call = sessions[d].call
         \/ /\ OpenSession /\ rec.call # NoCall
            /\ sessions'[d].call = rec.call /\ d = Dev(rec.call)
<1>1. sessions \in [Devices -> Session \cup {NoSession}]
  BY DEF Typed, FilesT
<1>2. sessions'[d] # NoSession /\ FileStep
  BY FileSteps DEF HasSession
<1>3. CASE UNCHANGED <<sessions, complete>> \/ Drops
  BY <1>2, <1>3 DEF Drops, HasSession
<1>4. ASSUME NEW e \in Devices, Closes(e) PROVE HasSession(d) /\ sessions'[d] = sessions[d]
  BY <1>1, <1>2, <1>4 DEF Closes, HasSession
<1>5. ASSUME NEW e \in Devices, Rolls(e) \/ Hears(e)
      PROVE  HasSession(d) /\ sessions'[d].call = sessions[d].call
  BY <1>1, <1>2, <1>5 DEF Rolls, Hears, Admits, HasSession
<1>6. CASE Opens
  <2>1. rec.call # NoCall /\ OpenSession
    BY <1>6 DEF Opens, OpenSession, Typed, RecT
  <2> QED BY <1>1, <1>2, <1>6, <2>1 DEF Opens, HasSession
<1> QED BY <1>2, <1>3, <1>4, <1>5, <1>6 DEF FileStep

\* What the recorder's subscription brings stays in order.
LEMMA QueueInOrder ==
  ASSUME Typed, OnceInv, InOrder, [Next]_vars
  PROVE  /\ \A i, j \in 1..Len(recQ') :
              i < j /\ StartAt(i)' /\ StartAt(j)' => recQ'[i].call < recQ'[j].call
         /\ rec'.call # NoCall =>
              \A i \in 1..Len(recQ') : StartAt(i)' => rec'.call < recQ'[i].call
         /\ \A b \in Begun : Later(b) => Later(b)'
<1>1. /\ recQ \in Seq(Event) /\ Len(recQ) \in Nat /\ seq \in Nat /\ Begun \subseteq Nat
      /\ rec.call \in Maybe(Begun) /\ \A b \in Begun : b < seq + 1
  BY LenProperties, CallFacts DEF Typed, QueueT, RecT, Begun
<1>2. \A i \in 1..Len(recQ) : StartAt(i) => recQ[i].call \in Begun
  BY DEF OnceInv, StartsOnce
<1>3. CASE QueueSame
  BY <1>3 DEF QueueSame, InOrder, Later, StartAt
<1>4. CASE QueueCleared
  BY <1>4 DEF QueueCleared, InOrder, Later, StartAt
<1>5. CASE QueueTaken
  <2>1. /\ Len(recQ') = Len(recQ) - 1 /\ Len(recQ) > 0 /\ Head(recQ) = recQ[1]
        /\ \A i \in 1..Len(recQ') : recQ'[i] = recQ[i + 1]
    BY <1>1, <1>5, HeadTailProperties DEF QueueTaken
  <2>2. \A i \in 1..Len(recQ') :
          i + 1 \in 1..Len(recQ) /\ 1 < i + 1 /\ (StartAt(i)' => StartAt(i + 1))
    BY <1>1, <2>1 DEF StartAt
  <2>3. \/ rec'.call \in {rec.call, NoCall}
        \/ 1 \in 1..Len(recQ) /\ StartAt(1) /\ recQ[1].call = rec'.call
    BY <1>1, <1>5, <2>1 DEF QueueTaken, StartAt, Ev
  <2>4. ASSUME NEW i \in 1..Len(recQ'), NEW j \in 1..Len(recQ'), i < j, StartAt(i)', StartAt(j)'
        PROVE  recQ'[i].call < recQ'[j].call
    <3>1. i + 1 < j + 1
      BY <1>1, <2>1, <2>4
    <3> QED BY <2>1, <2>2, <2>4, <3>1 DEF InOrder
  <2>5. ASSUME rec'.call # NoCall, NEW i \in 1..Len(recQ'), StartAt(i)'
        PROVE  rec'.call < recQ'[i].call
    BY <2>1, <2>2, <2>3, <2>5 DEF InOrder
  <2>6. ASSUME NEW b \in Begun, Later(b) PROVE Later(b)'
    <3>1. rec'.call # NoCall => b < rec'.call
      BY <2>3, <2>6 DEF Later
    <3>2. \A i \in 1..Len(recQ') : StartAt(i)' => b < recQ'[i].call
      BY <2>1, <2>2, <2>6 DEF Later
    <3> QED BY <3>1, <3>2 DEF Later
  <2> QED BY <2>4, <2>5, <2>6
<1>6. CASE QueueLonger
  <2>1. Len(recQ') \in Nat /\ rec' = rec
    BY <1>6, LenProperties DEF QueueLonger
  <2>2. ASSUME NEW i \in 1..Len(recQ'), StartAt(i)'
        PROVE  \/ i \in 1..Len(recQ) /\ StartAt(i) /\ recQ'[i] = recQ[i]
               \/ i = Len(recQ') /\ i > Len(recQ) /\ recQ'[i].call = seq + 1
    BY <1>1, <1>6, <2>1, <2>2 DEF QueueLonger, StartAt
  <2>3. ASSUME NEW i \in 1..Len(recQ'), NEW j \in 1..Len(recQ'), i < j, StartAt(i)', StartAt(j)'
        PROVE  recQ'[i].call < recQ'[j].call
    <3>1. i \in 1..Len(recQ) /\ StartAt(i) /\ recQ'[i] = recQ[i]
      BY <1>1, <2>1, <2>2, <2>3
    <3>2. CASE j \in 1..Len(recQ) /\ StartAt(j) /\ recQ'[j] = recQ[j]
      BY <2>3, <3>1, <3>2 DEF InOrder
    <3>3. CASE recQ'[j].call = seq + 1
      BY <1>1, <1>2, <3>1, <3>3
    <3> QED BY <2>2, <2>3, <3>2, <3>3
  <2>4. ASSUME rec.call # NoCall, NEW i \in 1..Len(recQ'), StartAt(i)'
        PROVE  rec.call < recQ'[i].call
    BY <1>1, <2>2, <2>4 DEF InOrder, Maybe
  <2>5. ASSUME NEW b \in Begun, Later(b) PROVE Later(b)'
    BY <1>1, <2>1, <2>2, <2>5 DEF Later
  <2> QED BY <2>1, <2>3, <2>4, <2>5
<1> QED BY <1>3, <1>4, <1>5, <1>6, QueueSteps

LEMMA InitInOrder == Init => InOrder
BY DEF Init, InOrder, HasSession, IdleRecorder

LEMMA StepInOrder == Typed /\ Fenced /\ OnceInv /\ OverInv /\ InOrder /\ [Next]_vars => InOrder'
<1> SUFFICES ASSUME Typed, Fenced, OnceInv, OverInv, InOrder, [Next]_vars PROVE InOrder'
  OBVIOUS
<1>1. ASSUME NEW d \in Devices, HasSession(d)' PROVE Later(sessions[d].call)'
  <2>1. CASE HasSession(d) /\ sessions'[d].call = sessions[d].call
    <3>1. PICK b \in Begun : b = sessions[d].call
      BY <2>1 DEF Fenced, Clean
    <3>2. Later(b)'
      BY <2>1, <3>1, QueueInOrder DEF InOrder
    <3> QED BY <2>1, <3>1, <3>2 DEF Later
  <2>2. CASE OpenSession /\ rec.call # NoCall /\ sessions'[d].call = rec.call
    <3>1. rec'.call = NoCall /\ recQ' = recQ
      BY <2>2 DEF OpenSession, IdleRecorder
    <3> QED BY <2>2, <3>1 DEF InOrder, Later, StartAt
  <2> QED BY <1>1, <2>1, <2>2, SessionSource
<1>2. ASSUME NEW d \in Devices, live'[d] # NoCall, NEW b \in Begun', Dev(b)' = d
      PROVE  b <= live'[d]
  <2>1. CASE UNCHANGED <<live, about, seq>>
    BY <1>2, <2>1 DEF InOrder, Begun, Dev
  <2>2. ASSUME NEW e \in Devices, NEW k \in Kinds, StartCall(e, k) PROVE b <= live'[d]
    <3>1. /\ seq' = seq + 1 /\ seq \in Nat /\ Begun' = Begun \cup {seq + 1} /\ seq + 1 \in Calls
          /\ about' = [about EXCEPT ![seq + 1] = [dev |-> e, kind |-> k]]
          /\ live[e] = NoCall
          /\ live' = live \/ live' = [live EXCEPT ![e] = seq + 1]
          /\ \A c \in Begun : c \in Calls /\ c <= seq /\ c # seq + 1 /\ c \in Nat
      BY <2>2, CallFacts, RecorderAssumption DEF StartCall, Typed, EngineT, Begun, Calls
    <3>2. CASE live'[d] = live[d]
      <4>1. live[d] # NoCall /\ d # e
        BY <1>2, <3>1, <3>2
      <4>2. b \in Begun /\ Dev(b) = d
        BY <1>2, <3>1, <4>1 DEF Dev, Typed, EngineT
      <4> QED BY <3>2, <4>1, <4>2 DEF InOrder
    <3>3. CASE live'[d] = seq + 1
      BY <1>2, <3>1, <3>3
    <3> QED BY <3>1, <3>2, <3>3 DEF Typed, EngineT
  <2>3. ASSUME NEW e \in Devices, EndCall(e) PROVE b <= live'[d]
    <3>1. live'[d] = live[d] /\ UNCHANGED <<about, seq>>
      BY <1>2, <2>3 DEF EndCall, Typed, EngineT
    <3> QED BY <1>2, <3>1 DEF InOrder, Begun, Dev
  <2>4. CASE \/ \E c \in leaving : PublishEnd(c)
             \/ \E c \in Begun : Announce(c, "segment") \/ Announce(c, "encrypted")
    BY <2>1, <2>4 DEF PublishEnd, Announce
  <2>5. CASE UNCHANGED engine
    BY <2>1, <2>5 DEF engine
  <2>6. CASE \/ RecorderStep \/ ComposerStep \/ TimerStep \/ Teardown
             \/ (\E e \in Devices : Write(e)) \/ UNCHANGED vars
    <3>1. UNCHANGED engine
      BY <2>6 DEF RecorderStep, HandleStart, HandleEnd, HandleSegment, HandleEncryption,
         OpenSession, RecorderFinalizes, ComposerStep, ComposeStart, ComposeEnd,
         ReplaceChain, ChainDone, NotifyDrainComplete, ComposerFinalizes, TimerStep,
         TimerFires, FinalizeOnDrainTimeout, TimerFinalizes, Teardown, Stop, Close,
         CancelAll, Write, vars
    <3> QED BY <2>5, <3>1
  <2> QED BY <2>2, <2>3, <2>4, <2>6 DEF Next, EngineStep
<1> QED BY <1>1, <1>2, QueueInOrder DEF InOrder

LEMMA LiveStep ==
  Typed /\ OverInv /\ InOrder /\ [Next]_vars =>
    [\A d \in Devices :
       HasSession(d) /\ sessions[d].call = live[d] /\ Kind(live[d]).stamped
       /\ sessions'[d].call # live[d]
       => rec'.pc = "stopped" \/ Aborted \/ FailsToOpen(d)]_vars
<1> SUFFICES ASSUME Typed, OverInv, InOrder, Next, NEW d \in Devices, HasSession(d),
                    sessions[d].call = live[d], Kind(live[d]).stamped,
                    sessions'[d].call # live[d],
                    rec'.pc # "stopped", ~Aborted, ~FailsToOpen(d)
             PROVE  FALSE
  OBVIOUS
<1>1. sessions'[d] # sessions[d] /\ sessions \in [Devices -> Session \cup {NoSession}]
  BY DEF Typed, FilesT
<1>2. live[d] # NoCall
  BY CallFacts DEF HasSession, Typed, FilesT, Session
<1>3. \A c \in OverCalls : ~FinalizeCall(c)
  BY <1>1, <1>2, FinalizeSparesLive
<1>4. rec.goal \subseteq OverCalls /\ late \subseteq OverCalls /\ comp.ce \in Maybe(OverCalls)
  BY DEF OverInv, EndsAreOver
<1>5. ~RecorderFinalizes /\ ~\E c \in late : TimerFinalizes(c)
  BY <1>3, <1>4 DEF RecorderFinalizes, TimerFinalizes
<1>6. ~ComposerFinalizes
  BY <1>3, <1>4 DEF ComposerFinalizes, Typed, CompT, Maybe
<1>7. ASSUME NEW c, HandleEncryption(c) PROVE FALSE
  <2>1. recQ # <<>> /\ Head(recQ).kind = "encrypted"
    BY <1>7 DEF HandleEncryption, Take, Ev
  <2>2. recQ' # recQ
    BY <1>7, TakenIsShorter DEF HandleEncryption
  <2> QED BY <2>1, <2>2 DEF Aborted
<1>8. ASSUME NEW c, HandleSegment(c) PROVE FALSE
  BY <1>1, <1>8 DEF HandleSegment
<1>9. CASE OpenSession
  <2>1. rec.call # NoCall /\ rec.call \in Begun /\ Begun \subseteq Nat
    BY <1>9 DEF OpenSession, Typed, RecT, Begun, Maybe
  <2>2. Dev(rec.call) = d
    BY <1>1, <1>9 DEF OpenSession
  <2>3. live[d] < rec.call /\ rec.call <= live[d]
    BY <1>2, <2>1, <2>2 DEF InOrder, Later
  <2>4. live[d] \in Nat /\ rec.call \in Nat
    BY <1>2, <2>1 DEF Typed, EngineT, Maybe
  <2> QED BY <2>3, <2>4
<1>10. CASE Close
  BY <1>10 DEF Close, Typed, RecT, Recorder
<1>11. ASSUME NEW e \in Devices, Write(e) PROVE FALSE
  <2>1. CASE sessions[e].open \/ e # d
    BY <1>1, <1>11, <2>1 DEF Write
  <2>2. CASE ~sessions[e].open /\ e = d
    BY <1>11, <2>2 DEF Write, FailsToOpen, timers, composer
  <2> QED BY <2>1, <2>2
<1>12. \/ sessions' = sessions \/ RecorderFinalizes \/ ComposerFinalizes \/ OpenSession \/ Close
       \/ \E b \in late : TimerFinalizes(b)
       \/ \E b \in Begun : HandleEncryption(b) \/ HandleSegment(b)
       \/ \E e \in Devices : Write(e)
  BY DEF Next, EngineStep, StartCall, EndCall, PublishEnd, Announce, RecorderStep, HandleStart,
         HandleEnd, ComposerStep, ComposeStart, ComposeEnd, ReplaceChain, ChainDone,
         NotifyDrainComplete, TimerStep, TimerFires, FinalizeOnDrainTimeout, Teardown, Stop,
         CancelAll
<1> QED BY <1>1, <1>5, <1>6, <1>7, <1>8, <1>9, <1>10, <1>11, <1>12

\* While the engine follows a call, nothing that comes late for another closes its session,
\* with a file or before its first frame: no CallStart, CallEnd, drain signal, timer, re-key
\* or end of the recorder's Run. Only Close, an encryption update and a file that cannot be
\* opened do, for any number of devices and calls and whatever the buffers lose.
THEOREM LateEndsSpareLiveCalls == Spec => LiveCallsKeepRecording
<1>1. Spec => [](Typed /\ Fenced /\ OnceInv /\ OverInv)
  BY AlwaysTyped, InitFenced, StepFenced, InitOnce, StepOnce, InitOver, StepOver, PTL DEF Spec
<1>2. Spec => [](Typed /\ OverInv /\ InOrder)
  BY <1>1, InitInOrder, StepInOrder, PTL DEF Spec
<1> QED BY <1>2, LiveStep, PTL DEF Spec, LiveCallsKeepRecording

-----------------------------------------------------------------------------
\* The tail is recorded: a drain signal is believed only for the call it names, and by
\* then the composer has nothing of that call left to do.

Early(c) == Kind(c).early

Gone(q, e) == \A i \in 1..Len(q) : q[i] # e

NoneAfter(q, e, f) == \A i, j \in 1..Len(q) : i < j /\ q[i] = e => q[j] # f

Known(q, S) == \A i \in 1..Len(q) : q[i].call \in S

\* A call ends once; its CallEnd follows its CallStart in the composer's subscription, but
\* for the calls whose CallEnd overtakes it, whose CallEnd never comes second.
Ordered ==
  /\ Known(recQ, Begun) /\ Known(compQ, Begun)
  /\ \A c \in Begun :
       /\ NoneAfter(compQ, Ev("end", c), Ev("end", c))
       /\ ~Early(c) => NoneAfter(compQ, Ev("end", c), Ev("start", c))
       /\ Early(c) => NoneAfter(recQ, Ev("start", c), Ev("end", c))
  /\ \A d \in Devices : live[d] # NoCall => ~Early(live[d]) /\ Gone(compQ, Ev("end", live[d]))
  /\ \A c \in leaving : ~Early(c) /\ Gone(compQ, Ev("end", c))

\* The composer has taken the CallEnd of c and gets no other.
Ended(c) == live[Dev(c)] # c /\ c \notin leaving /\ Gone(compQ, Ev("end", c))

\* The composer will not do anything for c any more.
Through(c) ==
  Ended(c) /\ Gone(compQ, Ev("start", c)) /\ chain[Dev(c)] # c /\ comp.call # c

\* A drain signal for c has been kept. If c is one whose CallEnd overtook its CallStart,
\* the recorder has no use for the signal: it has taken the CallEnd already.
Settled(c) == IF Early(c) THEN Gone(recQ, Ev("end", c)) ELSE Through(c)

\* What waits for d: p is a CallEnd or a drain signal, not both.
Entry(d, p) ==
  /\ p.drained <=> p # NoPending /\ p.ce = NoCall
  /\ p # NoPending => p.id \in Begun /\ Dev(p.id) = d
  /\ p.ce # NoCall => Dev(p.ce) = d
  /\ p.drained /\ Kind(p.id).stamped => Settled(p.id)

Signalled == \A d \in Devices : Entry(d, pending[d])

\* A session of an overtaken call opens after the recorder has taken its CallEnd.
Overtaken ==
  /\ \A d \in Devices : HasSession(d) /\ Early(sessions[d].call) =>
                        Gone(recQ, Ev("end", sessions[d].call))
  /\ rec.call # NoCall /\ Early(rec.call) => Gone(recQ, Ev("end", rec.call))

EndTaken(c) == Ended(c) /\ (~Early(c) => Gone(compQ, Ev("start", c)))

Composing ==
  /\ comp.pc \in {"wait", "notify"} => EndTaken(comp.call)
  /\ comp.pc = "notify" => chain[Dev(comp.call)] = NoCall
  /\ comp.pc = "finalize" =>
       /\ comp.call = NoCall
       /\ Kind(comp.ce).stamped => Ended(comp.ce) /\ chain[Dev(comp.ce)] # comp.ce

Finalizing ==
  rec.pc = "finalize" /\ rec.call = NoCall => \A g \in rec.goal : Kind(g).stamped => Through(g)

TailInv == Ordered /\ Signalled /\ Overtaken /\ Composing /\ Finalizing

\* Queues again.

LEMMA EvSame ==
  ASSUME NEW k, NEW l, NEW b, NEW c
  PROVE  /\ Ev(k, b) = Ev(l, c) <=> k = l /\ b = c
         /\ Ev(k, b).call = b /\ Ev(k, b).kind = k
BY DEF Ev

LEMMA DeliveredGone ==
  ASSUME NEW q \in Seq(Event), NEW e \in Event, NEW f, Gone(q, f), e # f
  PROVE  Gone(Delivered(q, e), f)
<1> DEFINE r == Delivered(q, e)
<1>1. /\ r \in Seq(Event) /\ \A i \in 1..Len(q) : r[i] = q[i]
      /\ \A i \in 1..Len(r) : i > Len(q) => r[i] = e
  BY DeliveredIs
<1>2. Len(q) \in Nat
  BY LenProperties
<1> HIDE DEF r
<1>3. \A i \in 1..Len(r) : r[i] # f
  BY <1>1, <1>2 DEF Gone
<1> QED BY <1>3 DEF Gone, r

LEMMA DeliveredOrder ==
  ASSUME NEW q \in Seq(Event), NEW e \in Event, NEW f, NEW g, NoneAfter(q, f, g),
         e # g \/ Gone(q, f)
  PROVE  NoneAfter(Delivered(q, e), f, g)
<1> DEFINE r == Delivered(q, e)
<1>1. /\ r \in Seq(Event) /\ Len(r) \in {Len(q), Len(q) + 1}
      /\ \A i \in 1..Len(q) : r[i] = q[i]
      /\ \A i \in 1..Len(r) : i > Len(q) => r[i] = e
  BY DeliveredIs
<1>2. Len(q) \in Nat
  BY LenProperties
<1> HIDE DEF r
<1>3. ASSUME NEW i \in 1..Len(r), NEW j \in 1..Len(r), i < j, r[i] = f PROVE r[j] # g
  <2>1. i \in 1..Len(q) /\ q[i] = f
    BY <1>1, <1>2, <1>3
  <2>2. CASE j \in 1..Len(q)
    BY <1>1, <1>3, <2>1, <2>2 DEF NoneAfter
  <2>3. CASE j \notin 1..Len(q)
    <3>1. r[j] = e
      BY <1>1, <1>2, <2>3
    <3> QED BY <2>1, <3>1 DEF Gone
  <2> QED BY <2>2, <2>3
<1> QED BY <1>3 DEF NoneAfter, r

LEMMA DeliveredKnown ==
  ASSUME NEW q \in Seq(Event), NEW e \in Event, NEW S, Known(q, S), e.call \in S
  PROVE  Known(Delivered(q, e), S)
<1> DEFINE r == Delivered(q, e)
<1>1. /\ r \in Seq(Event) /\ \A i \in 1..Len(q) : r[i] = q[i]
      /\ \A i \in 1..Len(r) : i > Len(q) => r[i] = e
  BY DeliveredIs
<1>2. Len(q) \in Nat
  BY LenProperties
<1> HIDE DEF r
<1>3. \A i \in 1..Len(r) : r[i].call \in S
  BY <1>1, <1>2 DEF Known
<1> QED BY <1>3 DEF Known, r

LEMMA TailQueue ==
  ASSUME NEW q \in Seq(Event), q # <<>>
  PROVE  /\ \A f : Gone(q, f) => Gone(Tail(q), f) /\ Head(q) # f
         /\ \A f, g : NoneAfter(q, f, g) =>
              NoneAfter(Tail(q), f, g) /\ (Head(q) = f => Gone(Tail(q), g))
         /\ \A S : Known(q, S) => Known(Tail(q), S) /\ Head(q).call \in S
<1> DEFINE r == Tail(q)
<1>1. /\ Len(q) \in Nat /\ Len(q) > 0 /\ Len(r) = Len(q) - 1 /\ Head(q) = q[1]
      /\ \A i \in 1..Len(r) : r[i] = q[i + 1]
  BY HeadTailProperties, LenProperties
<1>2. \A i \in 1..Len(r) : i + 1 \in 1..Len(q) /\ 1 < i + 1
  BY <1>1
<1>3. 1 \in 1..Len(q)
  BY <1>1
<1> HIDE DEF r
<1>4. ASSUME NEW f, Gone(q, f) PROVE Gone(r, f) /\ Head(q) # f
  BY <1>1, <1>2, <1>3, <1>4 DEF Gone
<1>5. ASSUME NEW f, NEW g, NoneAfter(q, f, g)
      PROVE  NoneAfter(r, f, g) /\ (Head(q) = f => Gone(r, g))
  <2>1. ASSUME NEW i \in 1..Len(r), NEW j \in 1..Len(r), i < j, r[i] = f PROVE r[j] # g
    <3>1. i + 1 < j + 1
      BY <1>1, <2>1
    <3> QED BY <1>1, <1>2, <1>5, <2>1, <3>1 DEF NoneAfter
  <2>2. ASSUME Head(q) = f, NEW j \in 1..Len(r) PROVE r[j] # g
    BY <1>1, <1>2, <1>3, <1>5, <2>2 DEF NoneAfter
  <2> QED BY <2>1, <2>2 DEF NoneAfter, Gone
<1>6. ASSUME NEW S, Known(q, S) PROVE Known(r, S) /\ Head(q).call \in S
  BY <1>1, <1>2, <1>3, <1>6 DEF Known
<1> QED BY <1>4, <1>5, <1>6 DEF r

\* What the start of a new call b does to a subscription: it was q and is r; the calls S
\* have begun.
StartedAs(q, r, S, b, early) ==
  /\ Known(r, S \cup {b})
  /\ \A c \in S, k \in {"start", "end"} : Gone(q, Ev(k, c)) => Gone(r, Ev(k, c))
  /\ \A c \in S, k, l \in {"start", "end"} :
       NoneAfter(q, Ev(k, c), Ev(l, c)) => NoneAfter(r, Ev(k, c), Ev(l, c))
  /\ NoneAfter(r, Ev("end", b), Ev("end", b))
  /\ NoneAfter(r, Ev("start", b), Ev("end", b))
  /\ ~early => Gone(r, Ev("end", b)) /\ NoneAfter(r, Ev("end", b), Ev("start", b))

LEMMA StartedQueue ==
  ASSUME NEW q \in Seq(Event), NEW S, Known(q, S), NEW b \in Calls, b \notin S,
         NEW early \in BOOLEAN, NEW r,
         r = IF early THEN Delivered(Delivered(q, Ev("end", b)), Ev("start", b))
             ELSE Delivered(q, Ev("start", b))
  PROVE  StartedAs(q, r, S, b, early)
<1> DEFINE s == Ev("start", b)
           t == Ev("end", b)
           m == Delivered(q, t)
<1>1. s \in Event /\ t \in Event /\ s # t /\ s.call = b /\ t.call = b
  BY EvType, EvSame
<1>2. \A c \in S, k \in {"start", "end"} : s # Ev(k, c) /\ t # Ev(k, c)
  BY EvSame
<1>3. Gone(q, s) /\ Gone(q, t)
  BY <1>1 DEF Gone, Known
<1>4. Known(q, S \cup {b})
  BY DEF Known
<1>5. NoneAfter(q, t, t) /\ NoneAfter(q, s, t) /\ NoneAfter(q, t, s)
  BY <1>3 DEF Gone, NoneAfter
<1>6. CASE ~early
  <2>1. r = Delivered(q, s)
    BY <1>6
  <2> HIDE DEF s, t, m
  <2>2. Known(r, S \cup {b})
    BY <1>1, <1>4, <2>1, DeliveredKnown
  <2>3. ASSUME NEW c \in S, NEW k \in {"start", "end"}, Gone(q, Ev(k, c)) PROVE Gone(r, Ev(k, c))
    BY <1>1, <1>2, <2>1, <2>3, DeliveredGone
  <2>4. ASSUME NEW c \in S, NEW k \in {"start", "end"}, NEW l \in {"start", "end"},
               NoneAfter(q, Ev(k, c), Ev(l, c))
        PROVE  NoneAfter(r, Ev(k, c), Ev(l, c))
    BY <1>1, <1>2, <2>1, <2>4, DeliveredOrder
  <2>5. NoneAfter(r, t, t) /\ NoneAfter(r, s, t) /\ NoneAfter(r, t, s) /\ Gone(r, t)
    BY <1>1, <1>3, <1>5, <2>1, DeliveredOrder, DeliveredGone
  <2> QED BY <1>6, <2>2, <2>3, <2>4, <2>5 DEF s, t, StartedAs
<1>7. CASE early
  <2>1. r = Delivered(m, s)
    BY <1>7
  <2>2. m \in Seq(Event)
    BY <1>1, DeliveredIs
  <2>3. Known(m, S \cup {b})
    BY <1>1, <1>4, DeliveredKnown
  <2>4. ASSUME NEW c \in S, NEW k \in {"start", "end"}, Gone(q, Ev(k, c)) PROVE Gone(m, Ev(k, c))
    BY <1>1, <1>2, <2>4, DeliveredGone
  <2>5. ASSUME NEW c \in S, NEW k \in {"start", "end"}, NEW l \in {"start", "end"},
               NoneAfter(q, Ev(k, c), Ev(l, c))
        PROVE  NoneAfter(m, Ev(k, c), Ev(l, c))
    BY <1>1, <1>2, <2>5, DeliveredOrder
  <2>6. NoneAfter(m, t, t) /\ NoneAfter(m, s, t)
    BY <1>1, <1>3, <1>5, DeliveredOrder
  <2> HIDE DEF s, t, m
  <2>7. Known(r, S \cup {b})
    BY <1>1, <2>1, <2>2, <2>3, DeliveredKnown
  <2>8. ASSUME NEW c \in S, NEW k \in {"start", "end"}, Gone(q, Ev(k, c)) PROVE Gone(r, Ev(k, c))
    BY <1>1, <1>2, <2>1, <2>2, <2>4, <2>8, DeliveredGone
  <2>9. ASSUME NEW c \in S, NEW k \in {"start", "end"}, NEW l \in {"start", "end"},
               NoneAfter(q, Ev(k, c), Ev(l, c))
        PROVE  NoneAfter(r, Ev(k, c), Ev(l, c))
    BY <1>1, <1>2, <2>1, <2>2, <2>5, <2>9, DeliveredOrder
  <2>10. NoneAfter(r, t, t) /\ NoneAfter(r, s, t)
    BY <1>1, <2>1, <2>2, <2>6, DeliveredOrder
  <2> QED BY <1>7, <2>7, <2>8, <2>9, <2>10 DEF s, t, StartedAs
<1> QED BY <1>6, <1>7

-----------------------------------------------------------------------------
\* What a step leaves as it is for the calls that have begun.

Lasting(c) ==
  /\ Ended(c) => Ended(c)'
  /\ Gone(compQ, Ev("start", c)) => Gone(compQ', Ev("start", c))
  /\ Early(c) /\ Gone(recQ, Ev("end", c)) => Gone(recQ', Ev("end", c))

\* The engine does nothing; each reader at most takes the head of its subscription, or reads
\* no more.
Quiet ==
  /\ UNCHANGED engine
  /\ recQ' \in {recQ, <<>>} \/ (recQ # <<>> /\ recQ' = Tail(recQ))
  /\ compQ' \in {compQ, <<>>} \/ (compQ # <<>> /\ compQ' = Tail(compQ))

LEMMA ReadQueue ==
  ASSUME NEW q \in Seq(Event), NEW r, r \in {q, <<>>} \/ (q # <<>> /\ r = Tail(q))
  PROVE  /\ \A f : Gone(q, f) => Gone(r, f)
         /\ \A f, g : NoneAfter(q, f, g) => NoneAfter(r, f, g)
         /\ \A S : Known(q, S) => Known(r, S)
<1>1. CASE r = q
  BY <1>1
<1>2. CASE q # <<>> /\ r = Tail(q)
  BY <1>2, TailQueue, Zenon
<1>3. CASE r = <<>>
  BY <1>3 DEF Gone, NoneAfter, Known
<1> QED BY <1>1, <1>2, <1>3

LEMMA QuietOrdered ==
  ASSUME Typed, Ordered, Quiet
  PROVE  Ordered' /\ \A c \in Begun : Lasting(c)
<1>1. recQ \in Seq(Event) /\ compQ \in Seq(Event)
  BY DEF Typed, QueueT
<1>2. /\ Begun' = Begun /\ live' = live /\ leaving' = leaving /\ about' = about
      /\ \A c : Dev(c)' = Dev(c) /\ (Early(c)' <=> Early(c))
  BY DEF Quiet, engine, Begun, Dev, Kind, Early
<1>3. /\ \A f : Gone(recQ, f) => Gone(recQ', f)
      /\ \A f, g : NoneAfter(recQ, f, g) => NoneAfter(recQ', f, g)
      /\ \A S : Known(recQ, S) => Known(recQ', S)
  BY <1>1, ReadQueue, Zenon DEF Quiet
<1>4. /\ \A f : Gone(compQ, f) => Gone(compQ', f)
      /\ \A f, g : NoneAfter(compQ, f, g) => NoneAfter(compQ', f, g)
      /\ \A S : Known(compQ, S) => Known(compQ', S)
  BY <1>1, ReadQueue, Zenon DEF Quiet
<1>5. Ordered'
  BY <1>2, <1>3, <1>4 DEF Ordered
<1>6. \A c \in Begun : Lasting(c)
  BY <1>2, <1>3, <1>4 DEF Lasting, Ended
<1> QED BY <1>5, <1>6

LEMMA StartCallOrdered ==
  ASSUME Typed, OverInv, Ordered, NEW d \in Devices, NEW k \in Kinds, StartCall(d, k)
  PROVE  Ordered' /\ \A c \in Begun : Lasting(c)
<1> DEFINE b == seq + 1
<1>1. /\ b \notin Begun /\ b \in Calls /\ Begun' = Begun \cup {b}
      /\ NoCall \notin Calls /\ Begun \subseteq Calls
  BY CallFacts, RecorderAssumption DEF StartCall, Typed, EngineT, Begun, Calls
<1>2. /\ recQ \in Seq(Event) /\ compQ \in Seq(Event)
      /\ Known(recQ, Begun) /\ Known(compQ, Begun)
  BY DEF Typed, QueueT, Ordered
<1>3. /\ k.early \in BOOLEAN
      /\ recQ' = IF k.early THEN Delivered(Delivered(recQ, Ev("end", b)), Ev("start", b))
                 ELSE Delivered(recQ, Ev("start", b))
      /\ compQ' = IF k.early THEN Delivered(Delivered(compQ, Ev("end", b)), Ev("start", b))
                  ELSE Delivered(compQ, Ev("start", b))
      /\ live' = IF k.early THEN live ELSE [live EXCEPT ![d] = b]
      /\ about' = [about EXCEPT ![b] = [dev |-> d, kind |-> k]]
  BY RecorderAssumption DEF StartCall, Publish
<1>4. /\ \A c \in Begun : about'[c] = about[c] /\ c # b
      /\ about'[b].kind = k
  BY <1>1, <1>3 DEF Typed, EngineT
<1>5. /\ Known(recQ', Begun')
      /\ \A c \in Begun, j \in {"start", "end"} : Gone(recQ, Ev(j, c)) => Gone(recQ', Ev(j, c))
      /\ \A c \in Begun, j, l \in {"start", "end"} :
           NoneAfter(recQ, Ev(j, c), Ev(l, c)) => NoneAfter(recQ', Ev(j, c), Ev(l, c))
      /\ NoneAfter(recQ', Ev("start", b), Ev("end", b))
  <2> HIDE DEF b
  <2>1. StartedAs(recQ, recQ', Begun, b, k.early)
    BY <1>1, <1>2, <1>3, StartedQueue
  <2> QED BY <1>1, <2>1 DEF StartedAs
<1>6. /\ Known(compQ', Begun')
      /\ \A c \in Begun, j \in {"start", "end"} : Gone(compQ, Ev(j, c)) => Gone(compQ', Ev(j, c))
      /\ \A c \in Begun, j, l \in {"start", "end"} :
           NoneAfter(compQ, Ev(j, c), Ev(l, c)) => NoneAfter(compQ', Ev(j, c), Ev(l, c))
      /\ NoneAfter(compQ', Ev("end", b), Ev("end", b))
      /\ ~k.early => Gone(compQ', Ev("end", b)) /\ NoneAfter(compQ', Ev("end", b), Ev("start", b))
  <2> HIDE DEF b
  <2>1. StartedAs(compQ, compQ', Begun, b, k.early)
    BY <1>1, <1>2, <1>3, StartedQueue
  <2> QED BY <1>1, <2>1 DEF StartedAs
<1> HIDE DEF b
<1>7. ASSUME NEW e \in Devices, live'[e] # NoCall
      PROVE  ~about'[live'[e]].kind.early /\ Gone(compQ', Ev("end", live'[e]))
  <2>1. CASE live'[e] = live[e]
    <3>1. live[e] \in Begun
      BY <1>7, <2>1 DEF Typed, EngineT, Maybe
    <3>2. ~about[live[e]].kind.early /\ Gone(compQ, Ev("end", live[e]))
      BY <1>7, <2>1 DEF Ordered, Early, Kind
    <3> QED BY <1>4, <1>6, <2>1, <3>1, <3>2
  <2>2. CASE live'[e] = b /\ ~k.early
    BY <1>4, <1>6, <2>2
  <2> QED BY <1>3, <2>1, <2>2 DEF Typed, EngineT
<1>8. ASSUME NEW c \in Begun'
      PROVE  /\ NoneAfter(compQ', Ev("end", c), Ev("end", c))
             /\ ~about'[c].kind.early => NoneAfter(compQ', Ev("end", c), Ev("start", c))
             /\ about'[c].kind.early => NoneAfter(recQ', Ev("start", c), Ev("end", c))
  <2>1. CASE c \in Begun
    <3>1. /\ NoneAfter(compQ, Ev("end", c), Ev("end", c))
          /\ ~about[c].kind.early => NoneAfter(compQ, Ev("end", c), Ev("start", c))
          /\ about[c].kind.early => NoneAfter(recQ, Ev("start", c), Ev("end", c))
      BY <2>1 DEF Ordered, Early, Kind
    <3> QED BY <1>4, <1>5, <1>6, <2>1, <3>1
  <2>2. CASE c = b
    BY <1>4, <1>5, <1>6, <2>2
  <2> QED BY <1>1, <2>1, <2>2
<1>9. leaving' = leaving /\ leaving \subseteq Begun
  BY DEF StartCall, Typed, EngineT
<1>11. ASSUME NEW c \in leaving'
       PROVE  ~about'[c].kind.early /\ Gone(compQ', Ev("end", c))
  <2>1. c \in Begun /\ ~about[c].kind.early /\ Gone(compQ, Ev("end", c))
    BY <1>9, <1>11 DEF Ordered, Early, Kind
  <2> QED BY <1>4, <1>6, <2>1
<1>12. Ordered'
  BY <1>5, <1>6, <1>7, <1>8, <1>11 DEF Ordered, Early, Kind
<1>10. ASSUME NEW c \in Begun PROVE Lasting(c)
  <2>1. c # b /\ Dev(c) \in Devices /\ Dev(c)' = Dev(c)
    BY <1>4, CallFacts DEF Typed, Dev
  <2>2. live[Dev(c)] # c => live'[Dev(c)] # c
    BY <1>3, <2>1 DEF Typed, EngineT
  <2> QED BY <1>4, <1>5, <1>6, <1>9, <2>1, <2>2 DEF Lasting, Ended
<1> QED BY <1>10, <1>12

LEMMA EndCallOrdered ==
  ASSUME Typed, OverInv, Ordered, NEW d \in Devices, EndCall(d)
  PROVE  Ordered' /\ \A c \in Begun : Lasting(c)
<1>1. /\ live[d] \in Begun /\ live[d] # NoCall /\ Dev(live[d]) = d /\ NoCall \notin Begun
      /\ ~Early(live[d]) /\ Gone(compQ, Ev("end", live[d]))
  BY CallFacts DEF EndCall, Typed, EngineT, Maybe, Ordered, OverInv, Assigned
<1>2. /\ UNCHANGED <<recQ, compQ>> /\ live' = [live EXCEPT ![d] = NoCall] /\ Begun' = Begun
      /\ leaving' = leaving \cup {live[d]}
      /\ \A c : Dev(c)' = Dev(c) /\ (Early(c)' <=> Early(c))
  BY DEF EndCall, Begun, Dev, Kind, Early
<1>3. Ordered'
  BY <1>1, <1>2 DEF Ordered, Typed, EngineT
<1>4. ASSUME NEW c \in Begun, Ended(c) PROVE Ended(c)'
  <2>1. c # live[d] /\ c # NoCall /\ Dev(c) \in Devices
    BY <1>1, <1>4, CallFacts DEF Ended, Typed
  <2> QED BY <1>2, <1>4, <2>1 DEF Ended, Typed, EngineT
<1>5. \A c \in Begun : Lasting(c)
  BY <1>2, <1>4 DEF Lasting
<1> QED BY <1>3, <1>5

LEMMA PublishEndOrdered ==
  ASSUME Typed, OverInv, Ordered, NEW b \in leaving, PublishEnd(b)
  PROVE  Ordered' /\ \A c \in Begun : Lasting(c)
<1> DEFINE t == Ev("end", b)
<1>1. /\ recQ \in Seq(Event) /\ compQ \in Seq(Event) /\ Known(recQ, Begun) /\ Known(compQ, Begun)
      /\ b \in Begun /\ b \in Calls
      /\ ~Early(b) /\ Gone(compQ, t)
  BY CallFacts DEF Typed, QueueT, EngineT, Ordered
<1>2. t \in Event /\ t.call = b
  BY <1>1, EvType, EvSame
<1>3. /\ recQ' = Delivered(recQ, t) /\ compQ' = Delivered(compQ, t)
      /\ live' = live /\ leaving' = leaving \ {b} /\ Begun' = Begun
      /\ \A c : Dev(c)' = Dev(c) /\ (Early(c)' <=> Early(c))
  BY DEF PublishEnd, Publish, Begun, Dev, Kind, Early
<1>4. \A c, k : Ev(k, c) = t <=> k = "end" /\ c = b
  BY EvSame
<1> HIDE DEF t
<1>5. Known(recQ', Begun) /\ Known(compQ', Begun)
  BY <1>1, <1>2, <1>3, DeliveredKnown
<1>6. ASSUME NEW c \in Begun
      PROVE  /\ NoneAfter(compQ', Ev("end", c), Ev("end", c))
             /\ ~Early(c) => NoneAfter(compQ', Ev("end", c), Ev("start", c))
             /\ Early(c) => NoneAfter(recQ', Ev("start", c), Ev("end", c))
  <2>1. t # Ev("end", c) \/ Gone(compQ, Ev("end", c))
    BY <1>1, <1>4
  <2>2. t # Ev("start", c) /\ (Early(c) => t # Ev("end", c))
    BY <1>1, <1>4
  <2>3. NoneAfter(compQ', Ev("end", c), Ev("end", c))
    BY <1>1, <1>2, <1>3, <2>1, DeliveredOrder DEF Ordered
  <2>4. ~Early(c) => NoneAfter(compQ', Ev("end", c), Ev("start", c))
    BY <1>1, <1>2, <1>3, <2>2, DeliveredOrder DEF Ordered
  <2>5. Early(c) => NoneAfter(recQ', Ev("start", c), Ev("end", c))
    BY <1>1, <1>2, <1>3, <2>2, DeliveredOrder DEF Ordered
  <2> QED BY <2>3, <2>4, <2>5
<1>7. ASSUME NEW c, c # b, Gone(compQ, Ev("end", c)) PROVE Gone(compQ', Ev("end", c))
  BY <1>1, <1>2, <1>3, <1>4, <1>7, DeliveredGone
<1>8. \A d \in Devices : live[d] # NoCall => live[d] # b
  BY DEF OverInv, Assigned
<1>9. Ordered'
  <2>1. \A d \in Devices :
          live'[d] # NoCall => ~Early(live'[d]) /\ Gone(compQ', Ev("end", live'[d]))
    BY <1>3, <1>7, <1>8 DEF Ordered
  <2>2. \A c \in leaving' : ~Early(c) /\ Gone(compQ', Ev("end", c))
    BY <1>3, <1>7 DEF Ordered
  <2> QED BY <1>3, <1>5, <1>6, <2>1, <2>2 DEF Ordered
<1>10. ASSUME NEW c \in Begun PROVE Lasting(c)
  <2>1. Ended(c) => Ended(c)'
    BY <1>3, <1>7 DEF Ended
  <2>2. Gone(compQ, Ev("start", c)) => Gone(compQ', Ev("start", c))
    BY <1>1, <1>2, <1>3, <1>4, DeliveredGone
  <2>3. Early(c) /\ Gone(recQ, Ev("end", c)) => Gone(recQ', Ev("end", c))
    BY <1>1, <1>2, <1>3, <1>4, DeliveredGone
  <2> QED BY <2>1, <2>2, <2>3 DEF Lasting
<1> QED BY <1>9, <1>10

LEMMA AnnounceOrdered ==
  ASSUME Typed, Ordered, NEW b \in Begun, NEW kind \in {"segment", "encrypted"},
         Announce(b, kind)
  PROVE  Ordered' /\ \A c \in Begun : Lasting(c)
<1> DEFINE t == Ev(kind, b)
<1>1. recQ \in Seq(Event) /\ Known(recQ, Begun) /\ b \in Calls
  BY CallFacts DEF Typed, QueueT, Ordered
<1>2. /\ t \in Event /\ t.call = b
      /\ \A c : t # Ev("start", c) /\ t # Ev("end", c)
  BY <1>1, EvType, EvSame
<1>3. /\ recQ' = Delivered(recQ, t) /\ UNCHANGED <<compQ, live, leaving>> /\ Begun' = Begun
      /\ \A c : Dev(c)' = Dev(c) /\ (Early(c)' <=> Early(c))
  BY DEF Announce, Begun, Dev, Kind, Early
<1> HIDE DEF t
<1>4. Known(recQ', Begun)
  BY <1>1, <1>2, <1>3, DeliveredKnown
<1>5. \A c : NoneAfter(recQ, Ev("start", c), Ev("end", c)) =>
             NoneAfter(recQ', Ev("start", c), Ev("end", c))
  BY <1>1, <1>2, <1>3, DeliveredOrder
<1>6. \A c : Gone(recQ, Ev("end", c)) => Gone(recQ', Ev("end", c))
  BY <1>1, <1>2, <1>3, DeliveredGone
<1>7. Ordered'
  BY <1>3, <1>4, <1>5 DEF Ordered
<1>8. \A c \in Begun : Lasting(c)
  BY <1>3, <1>6 DEF Lasting, Ended
<1> QED BY <1>7, <1>8

LEMMA QuietSteps ==
  ASSUME RecorderStep \/ ComposerStep \/ TimerStep \/ Teardown
         \/ (\E d \in Devices : Write(d)) \/ UNCHANGED vars
  PROVE  Quiet
BY DEF RecorderStep, HandleStart, HandleEnd, HandleSegment, HandleEncryption, Take,
       OpenSession, RecorderFinalizes, ComposerStep, ComposeStart, ComposeEnd, Pop,
       ReplaceChain, ChainDone, NotifyDrainComplete, ComposerFinalizes, TimerStep,
       TimerFires, FinalizeOnDrainTimeout, TimerFinalizes, Teardown, Stop, Close,
       CancelAll, Write, vars, Quiet

LEMMA StepOrdered ==
  ASSUME Typed, OverInv, Ordered, [Next]_vars
  PROVE  Ordered' /\ \A c \in Begun : Lasting(c)
<1>1. CASE EngineStep
  BY <1>1, StartCallOrdered, EndCallOrdered, PublishEndOrdered, AnnounceOrdered DEF EngineStep
<1> QED BY <1>1, QuietSteps, QuietOrdered DEF Next

-----------------------------------------------------------------------------
\* Calls the composer is through with stay so.

LEMMA NoMoreComposing ==
  ASSUME Typed, Ordered, [Next]_vars, NEW c \in Begun, Through(c)
  PROVE  chain'[Dev(c)] # c /\ comp'.call # c
<1>1. /\ Gone(compQ, Ev("start", c)) /\ Gone(compQ, Ev("end", c))
      /\ chain[Dev(c)] # c /\ comp.call # c /\ c # NoCall /\ Dev(c) \in Devices
      /\ chain \in [Devices -> Maybe(Calls)] /\ comp \in Composer
  BY CallFacts DEF Through, Ended, Typed, CompT
<1>2. ASSUME NEW b, NEW kind \in {"start", "end"}, Pop(kind, b) PROVE b # c
  <2>1. compQ \in Seq(Event) /\ compQ # <<>> /\ Head(compQ) = Ev(kind, b)
    BY <1>2 DEF Pop, Typed, QueueT
  <2>2. Head(compQ) # Ev("start", c) /\ Head(compQ) # Ev("end", c)
    BY <1>1, <2>1, TailQueue
  <2> QED BY <1>2, <2>1, <2>2
<1>3. ASSUME NEW b \in Begun, ComposeStart(b) \/ ComposeEnd(b)
      PROVE  chain'[Dev(c)] # c /\ comp'.call # c
  BY <1>1, <1>2, <1>3 DEF ComposeStart, ComposeEnd, composer
<1>4. CASE ReplaceChain \/ ChainDone \/ NotifyDrainComplete \/ ComposerFinalizes \/ CancelAll
  BY <1>1, <1>4 DEF ReplaceChain, ChainDone, NotifyDrainComplete, ComposerFinalizes,
                    CancelAll, IdleComposer, Composer
<1>5. CASE UNCHANGED composer
  BY <1>1, <1>5 DEF composer
<1>6. \/ UNCHANGED composer \/ ReplaceChain \/ ChainDone \/ NotifyDrainComplete
      \/ ComposerFinalizes \/ CancelAll
      \/ \E b \in Begun : ComposeStart(b) \/ ComposeEnd(b)
  BY DEF Next, EngineStep, StartCall, EndCall, PublishEnd, Announce, RecorderStep, HandleStart, HandleEnd,
         HandleSegment, HandleEncryption, OpenSession, RecorderFinalizes, ComposerStep,
         TimerStep, TimerFires, FinalizeOnDrainTimeout, TimerFinalizes, Teardown, Stop, Close,
         Write, vars
<1> QED BY <1>3, <1>4, <1>5, <1>6

\* What a step keeps of one call, seen from the call.
LEMMA CallStays ==
  ASSUME Typed, OverInv, Ordered, [Next]_vars, NEW c \in Begun
  PROVE  /\ c \in Begun' /\ Dev(c)' = Dev(c) /\ Kind(c)' = Kind(c) /\ (Early(c)' <=> Early(c))
         /\ Lasting(c)
         /\ Through(c) => Through(c)'
         /\ Settled(c) => Settled(c)'
<1>1. /\ c \in Begun' /\ Dev(c)' = Dev(c) /\ Kind(c)' = Kind(c) /\ (Early(c)' <=> Early(c))
  BY CallsKept DEF Dev, Kind, Early
<1>2. Lasting(c)
  BY StepOrdered
<1>3. Through(c) => Through(c)'
  BY <1>1, <1>2, NoMoreComposing DEF Through, Lasting
<1>4. Settled(c) => Settled(c)'
  BY <1>1, <1>2, <1>3 DEF Settled, Lasting
<1> QED BY <1>1, <1>2, <1>3, <1>4

\* Both calls of one device are stamped or neither is.
LEMMA SameDevice ==
  ASSUME OverInv, NEW b \in Begun, NEW c \in Begun, Dev(b) = Dev(c)
  PROVE  /\ Kind(b).stamped = Kind(c).stamped
         /\ Kind(c).stamped /\ ~CallIDsDiffer(b, c) => b = c
BY DEF OverInv, Assigned, CallIDsDiffer

\* The session of an overtaken call.
LEMMA StepOvertaken ==
  ASSUME Typed, OverInv, Fenced, Ordered, Overtaken, [Next]_vars
  PROVE  Overtaken'
<1>1. /\ NoCall \notin Calls /\ NoCall \notin Begun /\ Begun \subseteq Calls
      /\ sessions \in [Devices -> Session \cup {NoSession}]
      /\ \A d \in Devices : HasSession(d) => sessions[d].call \in Begun
  BY CallFacts DEF Typed, FilesT, Fenced, Clean
<1>2. \A c \in Begun : (about'[c].kind.early <=> Early(c)) /\ Lasting(c)
  BY CallsKept, StepOrdered DEF Early, Kind
<1>3. ASSUME NEW d \in Devices, HasSession(d)', about'[sessions'[d].call].kind.early
      PROVE  Gone(recQ', Ev("end", sessions'[d].call))
  <2>1. CASE HasSession(d) /\ sessions'[d].call = sessions[d].call
    BY <1>1, <1>2, <1>3, <2>1 DEF Overtaken, Lasting
  <2>2. CASE rec.call # NoCall /\ sessions'[d].call = rec.call
    <3>1. rec.call \in Begun
      BY <2>2 DEF Typed, RecT, Maybe
    <3> QED BY <1>2, <1>3, <2>2, <3>1 DEF Overtaken, Lasting
  <2> QED BY <1>3, <2>1, <2>2, SessionSource
<1>4. ASSUME rec'.call # NoCall, about'[rec'.call].kind.early PROVE Gone(recQ', Ev("end", rec'.call))
  <2>1. CASE rec'.call = rec.call
    <3>1. rec.call \in Begun
      BY <1>4, <2>1 DEF Typed, RecT, Maybe
    <3> QED BY <1>2, <1>4, <2>1, <3>1 DEF Overtaken, Lasting
  <2>2. ASSUME NEW c \in Begun, HandleStart(c), rec'.call = c
        PROVE  Gone(recQ', Ev("end", c))
    <3>1. /\ recQ \in Seq(Event) /\ recQ # <<>> /\ Head(recQ) = Ev("start", c)
          /\ recQ' = Tail(recQ)
      BY <2>2 DEF HandleStart, Take, Typed, QueueT
    <3>2. NoneAfter(recQ, Ev("start", c), Ev("end", c))
      BY <1>2, <1>4, <2>2 DEF Ordered
    <3> QED BY <3>1, <3>2, TailQueue
  <2>3. rec'.call \in {rec.call, NoCall} \/ \E c \in Begun : HandleStart(c) /\ rec'.call = c
    <3>1. ASSUME NEW c \in Begun, HandleStart(c) PROVE rec'.call \in {rec.call, c}
      BY <3>1 DEF HandleStart
    <3>2. ASSUME NEW c \in Begun, HandleEnd(c) PROVE rec'.call \in {rec.call, NoCall}
      BY <3>2 DEF HandleEnd
    <3>3. CASE RecorderFinalizes
      BY <3>3 DEF RecorderFinalizes, Typed, RecT, Recorder
    <3>4. CASE OpenSession \/ Stop \/ Close
      BY <3>4 DEF OpenSession, Stop, Close, IdleRecorder, Typed, RecT, Recorder
    <3>5. \/ rec' = rec \/ RecorderFinalizes \/ OpenSession \/ Stop \/ Close
          \/ \E c \in Begun : HandleStart(c) \/ HandleEnd(c)
      BY DEF Next, EngineStep, StartCall, EndCall, PublishEnd, Announce, RecorderStep, HandleSegment,
             HandleEncryption, ComposerStep, ComposeStart, ComposeEnd, ReplaceChain, ChainDone,
             NotifyDrainComplete, ComposerFinalizes, TimerStep, TimerFires,
             FinalizeOnDrainTimeout, TimerFinalizes, Teardown, CancelAll, Write, vars
    <3> QED BY <3>1, <3>2, <3>3, <3>4, <3>5
  <2> QED BY <1>4, <2>1, <2>2, <2>3
<1> QED BY <1>3, <1>4 DEF Overtaken, Early, Kind

LEMMA StepComposing ==
  ASSUME Typed, OverInv, Ordered, Signalled, Composing, [Next]_vars
  PROVE  Composing'
<1>1. /\ NoCall \notin Begun /\ comp \in Composer
      /\ comp.pc \in {"wait", "notify"} => comp.call \in Begun /\ Dev(comp.call) \in Devices
      /\ comp.pc = "finalize" => comp.ce \in Begun
      /\ chain \in [Devices -> Maybe(Calls)]
  BY CallFacts DEF Typed, CompT, Maybe
<1>2. ASSUME NEW c \in Begun
      PROVE  /\ Dev(c)' = Dev(c) /\ Kind(c)' = Kind(c) /\ (Early(c)' <=> Early(c))
             /\ Ended(c) => Ended(c)'
             /\ EndTaken(c) => EndTaken(c)'
  BY CallStays DEF Lasting, EndTaken
<1>3. CASE UNCHANGED composer
  <2>1. comp' = comp /\ chain' = chain
    BY <1>3 DEF composer
  <2> QED BY <1>1, <1>2, <2>1 DEF Composing
<1>4. ASSUME NEW c \in Begun, ComposeStart(c) PROVE Composing'
  <2>1. comp' = comp \/ comp'.pc = "replace"
    BY <1>4 DEF ComposeStart, composer
  <2>2. comp.pc = "idle"
    BY <1>4 DEF ComposeStart, Pop
  <2> QED BY <2>1, <2>2 DEF Composing
<1>5. ASSUME NEW c \in Begun, ComposeEnd(c) PROVE Composing'
  <2>1. /\ compQ \in Seq(Event) /\ compQ # <<>> /\ Head(compQ) = Ev("end", c)
        /\ compQ' = Tail(compQ) /\ UNCHANGED <<engine, chain>> /\ comp'.call = c
        /\ comp'.pc = IF chain[Dev(c)] = NoCall THEN "notify" ELSE "wait"
    BY <1>5 DEF ComposeEnd, Pop, Typed, QueueT
  <2>2. Gone(compQ', Ev("end", c)) /\ (~Early(c) => Gone(compQ', Ev("start", c)))
    BY <2>1, TailQueue DEF Ordered
  <2>3. live[Dev(c)] # c /\ c \notin leaving
    <3>1. SUFFICES ASSUME live[Dev(c)] = c \/ c \in leaving PROVE FALSE
      OBVIOUS
    <3>2. Gone(compQ, Ev("end", c))
      BY <1>1, <3>1, CallFacts DEF Ordered, Typed
    <3> QED BY <2>1, <3>2, TailQueue
  <2>4. EndTaken(c)'
    BY <1>2, <2>1, <2>2, <2>3 DEF EndTaken, Ended, engine
  <2> QED BY <1>2, <2>1, <2>4 DEF Composing
<1>6. CASE ChainDone
  <2>1. /\ comp.pc \in {"replace", "wait"} /\ chain' = [chain EXCEPT ![Dev(comp.call)] = NoCall]
        /\ comp' = IF comp.pc = "wait" THEN [comp EXCEPT !.pc = "notify"] ELSE comp
    BY <1>6 DEF ChainDone
  <2>2. CASE comp.pc = "replace"
    BY <2>1, <2>2 DEF Composing
  <2>3. CASE comp.pc = "wait"
    <3>1. comp'.pc = "notify" /\ comp'.call = comp.call
      BY <1>1, <2>1, <2>3 DEF Composer
    <3> QED BY <1>1, <1>2, <2>1, <2>3, <3>1 DEF Composing
  <2> QED BY <2>1, <2>2, <2>3
<1>7. CASE ReplaceChain \/ ComposerFinalizes \/ CancelAll
  <2>1. comp'.pc \in {"idle", "stopped"}
    BY <1>1, <1>7 DEF ReplaceChain, ComposerFinalizes, CancelAll, IdleComposer, Composer
  <2> QED BY <2>1 DEF Composing
<1>8. CASE NotifyDrainComplete
  <2> DEFINE c == comp.call
             p == pending[Dev(c)]
  <2>1. /\ comp.pc = "notify" /\ c \in Begun /\ chain[Dev(c)] = NoCall /\ Ended(c)
        /\ UNCHANGED <<engine, compQ, chain>>
    BY <1>1, <1>8 DEF NotifyDrainComplete, Composing, EndTaken
  <2>2. \/ comp'.pc = "idle"
        \/ /\ comp'.pc = "finalize" /\ comp'.call = NoCall /\ comp'.ce = p.ce
           /\ p.ce # NoCall /\ ~CallIDsDiffer(p.ce, c)
    BY <1>8 DEF NotifyDrainComplete, NoPending
  <2>3. CASE comp'.pc = "idle"
    BY <2>3 DEF Composing
  <2>4. CASE /\ comp'.pc = "finalize" /\ comp'.call = NoCall /\ comp'.ce = p.ce
             /\ p.ce # NoCall /\ ~CallIDsDiffer(p.ce, c)
    <3>1. PICK g \in Begun : g = p.ce
      BY <1>1, <2>1, <2>4 DEF Typed, PendingT, Maybe
    <3>2. PICK b \in Begun : b = c
      BY <2>1
    <3>3. Kind(g).stamped => g = b
      BY <1>1, <2>1, <2>4, <3>1, <3>2, SameDevice DEF Signalled, Entry
    <3>4. Ended(b)' /\ chain'[Dev(b)] # b
      BY <1>1, <1>2, <2>1, <3>2
    <3>5. comp'.ce = g /\ comp'.pc = "finalize" /\ comp'.call = NoCall
      BY <2>4, <3>1
    <3>6. Kind(g)'.stamped => Ended(g)' /\ chain'[Dev(g)'] # g
      BY <1>2, <3>3, <3>4
    <3> QED BY <3>5, <3>6 DEF Composing
  <2> QED BY <2>2, <2>3, <2>4
<1>9. \/ UNCHANGED composer \/ ReplaceChain \/ ChainDone \/ NotifyDrainComplete
      \/ ComposerFinalizes \/ CancelAll
      \/ \E b \in Begun : ComposeStart(b) \/ ComposeEnd(b)
  BY DEF Next, EngineStep, StartCall, EndCall, PublishEnd, Announce, RecorderStep, HandleStart, HandleEnd,
         HandleSegment, HandleEncryption, OpenSession, RecorderFinalizes, ComposerStep,
         TimerStep, TimerFires, FinalizeOnDrainTimeout, TimerFinalizes, Teardown, Stop, Close,
         Write, vars
<1> QED BY <1>3, <1>4, <1>5, <1>6, <1>7, <1>8, <1>9

-----------------------------------------------------------------------------
\* A signal that is kept is of a call the composer is through with.

LEMMA EntryStays ==
  ASSUME Typed, OverInv, Ordered, [Next]_vars,
         NEW d \in Devices, NEW p, p.ce \in Maybe(Begun), Entry(d, p)
  PROVE  Entry(d, p)'
<1>1. \A c \in Begun :
        /\ c \in Begun' /\ Dev(c)' = Dev(c) /\ Kind(c)' = Kind(c)
        /\ Settled(c) => Settled(c)'
  BY CallStays
<1>2. p.ce # NoCall => Dev(p.ce)' = d
  BY <1>1 DEF Entry, Maybe
<1> QED BY <1>1, <1>2 DEF Entry

LEMMA NoEntry == ASSUME NEW d PROVE Entry(d, NoPending)'
BY DEF Entry, NoPending

\* NotifyDrainComplete keeps what it finds, empties the place, or leaves its own signal.
LEMMA NotifyEntry ==
  ASSUME Typed, OverInv, Placed, Fenced, TailInv, NotifyDrainComplete, NEW d \in Devices
  PROVE  \/ pending'[d] \in {pending[d], NoPending}
         \/ \E c \in Begun :
              /\ c = comp.call /\ Dev(c) = d
              /\ pending'[d] = [ce |-> NoCall, id |-> c, drained |-> TRUE, timer |-> NoCall]
              /\ Kind(c).stamped => Settled(c)'
<1> USE DEF TailInv
<1>1. /\ comp.pc = "notify" /\ comp.call \in Begun /\ Dev(comp.call) \in Devices
      /\ NoCall \notin Begun /\ EndTaken(comp.call) /\ chain[Dev(comp.call)] = NoCall
      /\ UNCHANGED <<engine, recQ, compQ, sessions, chain>> /\ comp'.call = NoCall
      /\ pending \in [Devices -> Pending \cup {NoPending}]
  BY CallFacts DEF NotifyDrainComplete, Composing, Typed, CompT, PendingT, Maybe
<1>2. PICK c \in Begun : c = comp.call
  BY <1>1
<1> DEFINE p == pending[Dev(c)]
           fresh == [ce |-> NoCall, id |-> c, drained |-> TRUE, timer |-> NoCall]
<1>3. CASE Dev(c) # d
  BY <1>1, <1>2, <1>3 DEF NotifyDrainComplete
<1>4. CASE Dev(c) = d /\ p # NoPending
  <2>1. p \in Pending /\ (p.ce = NoCall => p.drained)
    BY <1>1, <1>4 DEF Signalled, Entry
  <2>2. p.ce = NoCall => [p EXCEPT !.drained = TRUE] = p
    BY <2>1 DEF Pending
  <2>3. pending'[d] \in {p, NoPending}
    BY <1>1, <1>2, <1>4, <2>2 DEF NotifyDrainComplete
  <2> QED BY <1>4, <2>3
<1>5. CASE Dev(c) = d /\ p = NoPending
  <2>1. NoPending.ce = NoCall
    BY DEF NoPending
  <2>2. CASE ~HasSession(d) \/ CallIDsDiffer(sessions[d].call, c)
    BY <1>1, <1>2, <1>5, <2>2 DEF NotifyDrainComplete
  <2>3. CASE HasSession(d) /\ ~CallIDsDiffer(sessions[d].call, c)
    <3>1. pending'[d] = fresh
      BY <1>1, <1>2, <1>5, <2>1, <2>3 DEF NotifyDrainComplete
    <3>2. Kind(c).stamped => sessions[d].call = c
      BY <1>2, <1>5, <2>3, SameDevice DEF Placed, Fenced, Clean
    <3>3. Kind(c).stamped => Settled(c)'
      <4>1. SUFFICES ASSUME Kind(c).stamped PROVE Settled(c)'
        OBVIOUS
      <4>2. /\ Dev(c)' = Dev(c) /\ (Early(c)' <=> Early(c)) /\ live' = live
            /\ leaving' = leaving /\ compQ' = compQ /\ recQ' = recQ /\ chain' = chain /\ comp'.call # c
        BY <1>1 DEF engine, Dev, Early, Kind
      <4>3. CASE Early(c)
        <5>1. Gone(recQ, Ev("end", c))
          BY <2>3, <3>2, <4>1, <4>3 DEF Overtaken
        <5> QED BY <4>2, <4>3, <5>1 DEF Settled
      <4>4. CASE ~Early(c)
        <5>1. Ended(c) /\ Gone(compQ, Ev("start", c)) /\ chain[Dev(c)] # c
          BY <1>1, <1>2, <4>4 DEF EndTaken
        <5>2. Through(c)'
          BY <4>2, <5>1 DEF Through, Ended
        <5> QED BY <4>2, <4>4, <5>2 DEF Settled
      <4> QED BY <4>3, <4>4
    <3> QED BY <1>2, <1>5, <3>1, <3>3
  <2> QED BY <2>2, <2>3
<1> QED BY <1>3, <1>4, <1>5

LEMMA StepSignalled ==
  ASSUME Typed, OverInv, Placed, Fenced, TailInv, [Next]_vars
  PROVE  Signalled'
<1> USE DEF TailInv
<1>1. /\ pending \in [Devices -> Pending \cup {NoPending}]
      /\ \A d \in Devices : pending[d].ce \in Maybe(Begun) /\ Entry(d, pending[d])
      /\ NoCall \notin Begun
  BY CallFacts DEF Typed, PendingT, Signalled
<1>2. SUFFICES ASSUME NEW d \in Devices, NEW q, q = pending'[d]
               PROVE  Entry(d, q)'
  BY DEF Signalled
<1>3. PICK p : p = pending[d]
  OBVIOUS
<1>4. CASE q \in {p, NoPending}
  <2>1. Entry(d, p)'
    BY <1>1, <1>3, EntryStays
  <2> QED BY <1>4, <2>1, NoEntry
<1>5. CASE UNCHANGED pending
  BY <1>2, <1>3, <1>4, <1>5
<1>6. ASSUME NEW c \in Begun, HandleStart(c) PROVE Entry(d, q)'
  BY <1>1, <1>2, <1>3, <1>4, <1>6 DEF HandleStart
<1>7. ASSUME NEW c \in Begun, HandleEnd(c) PROVE Entry(d, q)'
  <2> DEFINE t == IF pending[Dev(c)].timer = NoCall THEN c ELSE pending[Dev(c)].timer
  <2>1. \/ q \in {p, NoPending}
        \/ Dev(c) = d /\ q = [ce |-> c, id |-> c, drained |-> FALSE, timer |-> t]
    BY <1>1, <1>2, <1>3, <1>7 DEF HandleEnd
  <2>2. ASSUME Dev(c) = d, q = [ce |-> c, id |-> c, drained |-> FALSE, timer |-> t]
        PROVE  Entry(d, q)'
    <3>1. q.ce = c /\ q.id = c /\ q.drained = FALSE
      BY <2>2
    <3>2. c # NoCall /\ c \in Begun' /\ Dev(c)' = d
      BY <1>1, <2>2, CallStays
    <3> QED BY <3>1, <3>2 DEF Entry
  <2> QED BY <1>4, <2>1, <2>2
<1>8. CASE Stop
  BY <1>2, <1>4, <1>8 DEF Stop
<1>9. ASSUME NEW t \in fired, FinalizeOnDrainTimeout(t[1], t[2]) PROVE Entry(d, q)'
  BY <1>1, <1>2, <1>3, <1>4, <1>9 DEF FinalizeOnDrainTimeout
<1>10. CASE NotifyDrainComplete
  <2>1. ASSUME NEW c \in Begun, Dev(c) = d, Kind(c).stamped => Settled(c)',
               q = [ce |-> NoCall, id |-> c, drained |-> TRUE, timer |-> NoCall]
        PROVE  Entry(d, q)'
    <3>1. q.ce = NoCall /\ q.id = c /\ q.drained = TRUE /\ q # NoPending
      BY <2>1 DEF NoPending
    <3>2. c \in Begun' /\ Dev(c)' = d /\ Kind(c)' = Kind(c)
      BY <2>1, CallStays
    <3> QED BY <2>1, <3>1, <3>2 DEF Entry
  <2> QED BY <1>2, <1>3, <1>4, <1>10, <2>1, NotifyEntry
<1>11. \/ UNCHANGED pending \/ Stop \/ NotifyDrainComplete
       \/ \E c \in Begun : HandleStart(c) \/ HandleEnd(c)
       \/ \E t \in fired : FinalizeOnDrainTimeout(t[1], t[2])
  BY DEF Next, EngineStep, StartCall, EndCall, PublishEnd, Announce, RecorderStep, HandleSegment,
         HandleEncryption, OpenSession, RecorderFinalizes, ComposerStep, ComposeStart,
         ComposeEnd, ReplaceChain, ChainDone, ComposerFinalizes, TimerStep, TimerFires,
         TimerFinalizes, Teardown, Close, CancelAll, Write, vars
<1> QED BY <1>5, <1>6, <1>7, <1>8, <1>9, <1>10, <1>11

\* handleEnd finalizes at once only a call that the composer is through with.
LEMMA StepFinalizing ==
  ASSUME Typed, OverInv, TailInv, [Next]_vars
  PROVE  Finalizing'
<1> USE DEF TailInv
<1>1. /\ rec \in Recorder /\ rec.goal \subseteq Begun /\ NoCall \notin Begun
      /\ \A c \in Begun : Dev(c) \in Devices
  BY CallFacts DEF Typed, RecT
<1>2. \A c \in Begun : Kind(c)' = Kind(c) /\ (Through(c) => Through(c)')
  BY CallStays
<1>3. CASE rec' = rec
  BY <1>1, <1>2, <1>3 DEF Finalizing
<1>4. ASSUME NEW c \in Begun, HandleStart(c) PROVE Finalizing'
  <2>1. rec' = rec \/ rec'.pc = "open" \/ rec'.call = c
    BY <1>4 DEF HandleStart
  <2> QED BY <1>1, <1>3, <2>1 DEF Finalizing
<1>5. ASSUME NEW c \in Begun, HandleEnd(c) PROVE Finalizing'
  <2> DEFINE p == pending[Dev(c)]
  <2>1. \/ rec' = rec
        \/ /\ rec'.goal = {c} /\ p.drained /\ ~CallIDsDiffer(p.id, c)
    BY <1>5 DEF HandleEnd
  <2>2. ASSUME rec'.goal = {c}, p.drained, ~CallIDsDiffer(p.id, c), Kind(c).stamped
        PROVE  Through(c)
    <3>1. p # NoPending /\ p.id \in Begun /\ Dev(p.id) = Dev(c)
          /\ (Kind(p.id).stamped => Settled(p.id))
      BY <1>1, <2>2 DEF Signalled, Entry
    <3>2. p.id = c /\ Settled(c)
      BY <2>2, <3>1, SameDevice
    <3>3. ~Gone(recQ, Ev("end", c))
      <4>1. recQ \in Seq(Event) /\ recQ # <<>> /\ Head(recQ) = Ev("end", c)
        BY <1>5 DEF HandleEnd, Take, Typed, QueueT
      <4> QED BY <4>1, TailQueue
    <3> QED BY <3>2, <3>3 DEF Settled
  <2>3. ASSUME rec'.goal = {c}, Kind(c).stamped => Through(c) PROVE Finalizing'
    BY <1>2, <2>3 DEF Finalizing
  <2> QED BY <1>3, <2>1, <2>2, <2>3
<1>6. CASE RecorderFinalizes
  <2>1. rec'.pc # "finalize"
    BY <1>1, <1>6 DEF RecorderFinalizes, Recorder
  <2> QED BY <2>1 DEF Finalizing
<1>7. CASE OpenSession \/ Stop \/ Close
  <2>1. rec'.pc # "finalize"
    BY <1>1, <1>7 DEF OpenSession, Stop, Close, IdleRecorder, Recorder
  <2> QED BY <2>1 DEF Finalizing
<1>8. \/ rec' = rec \/ RecorderFinalizes \/ OpenSession \/ Stop \/ Close
      \/ \E c \in Begun : HandleStart(c) \/ HandleEnd(c)
  BY DEF Next, EngineStep, StartCall, EndCall, PublishEnd, Announce, RecorderStep, HandleSegment,
         HandleEncryption, ComposerStep, ComposeStart, ComposeEnd, ReplaceChain, ChainDone,
         NotifyDrainComplete, ComposerFinalizes, TimerStep, TimerFires,
         FinalizeOnDrainTimeout, TimerFinalizes, Teardown, CancelAll, Write, vars
<1> QED BY <1>3, <1>4, <1>5, <1>6, <1>7, <1>8

LEMMA InitTail == Init => TailInv
<1> SUFFICES ASSUME Init PROVE TailInv
  OBVIOUS
<1>1. Begun = {} /\ recQ = <<>> /\ compQ = <<>> /\ Len(recQ) = 0 /\ Len(compQ) = 0
  BY DEF Init, Begun
<1>2. Ordered
  BY <1>1 DEF Init, Ordered, Known
<1>3. Signalled /\ Overtaken /\ Composing /\ Finalizing
  BY DEF Init, Signalled, Entry, NoPending, Overtaken, HasSession, Composing, Finalizing,
         IdleRecorder, IdleComposer
<1> QED BY <1>2, <1>3 DEF TailInv

LEMMA StepTail == Typed /\ OverInv /\ Fenced /\ OnceInv /\ TailInv /\ [Next]_vars => TailInv'
<1> SUFFICES ASSUME Typed, OverInv, Fenced, OnceInv, TailInv, [Next]_vars PROVE TailInv'
  OBVIOUS
<1>1. Placed /\ Ordered /\ Signalled /\ Overtaken /\ Composing /\ Finalizing
  BY DEF OnceInv, TailInv
<1> QED BY <1>1, StepOrdered, StepSignalled, StepOvertaken, StepComposing, StepFinalizing
     DEF TailInv

-----------------------------------------------------------------------------
\* finalizeCall closes the session of the call it has the CallEnd of, if that has an ID.
LEMMA FinalizesItsCall ==
  ASSUME Typed, OverInv, Placed, Fenced, NEW g \in Begun, FinalizeCall(g),
         NEW d \in Devices, HasSession(d), Kind(sessions[d].call).stamped,
         sessions'[d] # sessions[d]
  PROVE  sessions[d].call = g
<1>1. Dev(g) = d /\ ~CallIDsDiffer(sessions[d].call, g)
  BY DEF FinalizeCall, HasSession, Typed, FilesT
<1>2. sessions[d].call \in Begun /\ Dev(sessions[d].call) = d
  BY DEF Placed, Fenced, Clean
<1> QED BY <1>1, <1>2, SameDevice

LEMMA TailStep ==
  Typed /\ OverInv /\ Fenced /\ OnceInv /\ TailInv /\ [Next]_vars =>
    [\A d \in Devices :
       HasSession(d) /\ sessions'[d].call # sessions[d].call
       /\ Kind(sessions[d].call).stamped /\ Unfinished(sessions[d].call) => CutShort(d)]_vars
<1> SUFFICES ASSUME Typed, OverInv, Fenced, OnceInv, TailInv, Next,
                    NEW d \in Devices, HasSession(d),
                    sessions'[d].call # sessions[d].call, Kind(sessions[d].call).stamped,
                    ~CutShort(d)
             PROVE  ~Unfinished(sessions[d].call)
  OBVIOUS
<1> DEFINE c == sessions[d].call
<1>1. /\ Placed /\ c \in Begun /\ c # NoCall /\ sessions'[d] # sessions[d]
      /\ sessions[d] \in Session
      /\ sessions \in [Devices -> Session \cup {NoSession}]
  BY CallFacts DEF OnceInv, Fenced, Clean, Typed, FilesT, HasSession
<1>2. Gone(compQ, Ev("end", c)) => ~Contains(compQ, Ev("end", c))
  BY DEF Gone, Contains
<1>3. CASE RecorderFinalizes
  <2>1. PICK g \in rec.goal : FinalizeCall(g)
    BY <1>3 DEF RecorderFinalizes
  <2>2. g \in Begun
    BY DEF Typed, RecT
  <2>3. c = g
    BY <1>1, <2>1, <2>2, FinalizesItsCall
  <2>4. rec.pc = "finalize" /\ rec.call = NoCall
    BY <1>3 DEF RecorderFinalizes, CutShort
  <2>5. Through(g)
    BY <2>3, <2>4 DEF TailInv, Finalizing
  <2> QED BY <1>2, <2>3, <2>5 DEF Through, Ended, Unfinished
<1>4. CASE ComposerFinalizes
  <2>1. comp.pc = "finalize" /\ FinalizeCall(comp.ce) /\ comp.ce \in Begun
    BY <1>4, CallFacts DEF ComposerFinalizes, Typed, CompT, Maybe
  <2>2. c = comp.ce
    BY <1>1, <2>1, FinalizesItsCall
  <2>3. comp.call = NoCall /\ Ended(c) /\ chain[Dev(c)] # c
    BY <2>1, <2>2 DEF TailInv, Composing
  <2> QED BY <1>1, <1>2, <2>3 DEF Ended, Unfinished
<1>5. ASSUME NEW b \in late, TimerFinalizes(b) PROVE FALSE
  <2>1. late' # late
    BY <1>5 DEF TimerFinalizes
  <2> QED BY <2>1 DEF CutShort
<1>6. CASE OpenSession \/ Close
  BY <1>6 DEF OpenSession, Close, CutShort
<1>7. ASSUME NEW b \in Begun, HandleEncryption(b) PROVE FALSE
  <2>1. recQ # <<>> /\ Head(recQ).kind = "encrypted"
    BY <1>7, EvSame DEF HandleEncryption, Take
  <2>2. recQ' # recQ
    BY <1>7, TakenIsShorter DEF HandleEncryption
  <2> QED BY <2>1, <2>2 DEF CutShort, Aborted
<1>8. ASSUME NEW b \in Begun, HandleSegment(b) PROVE FALSE
  BY <1>1, <1>8 DEF HandleSegment
<1>9. ASSUME NEW e \in Devices, Write(e) PROVE FALSE
  <2>1. CASE sessions[e].open \/ e # d
    BY <1>1, <1>9, <2>1 DEF Write
  <2>2. CASE ~sessions[e].open /\ e = d
    BY <1>9, <2>2 DEF Write, CutShort, FailsToOpen, timers, composer
  <2> QED BY <2>1, <2>2
<1>10. \/ sessions' = sessions \/ RecorderFinalizes \/ ComposerFinalizes \/ OpenSession \/ Close
       \/ \E b \in late : TimerFinalizes(b)
       \/ \E b \in Begun : HandleEncryption(b) \/ HandleSegment(b)
       \/ \E e \in Devices : Write(e)
  BY DEF Next, EngineStep, StartCall, EndCall, PublishEnd, Announce, RecorderStep, HandleStart, HandleEnd,
         ComposerStep, ComposeStart, ComposeEnd, ReplaceChain, ChainDone, NotifyDrainComplete,
         TimerStep, TimerFires, FinalizeOnDrainTimeout, Teardown, Stop, CancelAll
<1> QED BY <1>1, <1>3, <1>4, <1>5, <1>6, <1>7, <1>8, <1>9, <1>10

\* Neither a CallEnd nor a drain signal, its own or another call's, finishes the recording
\* of a call while the composer is not through with it, however far recorder and composer
\* lag behind each other and the engine, and whatever the buffers lose.
THEOREM TailsAreRecorded == Spec => TailRecorded
<1>1. Spec => [](Typed /\ Fenced /\ OnceInv /\ OverInv)
  BY AlwaysTyped, InitFenced, StepFenced, InitOnce, StepOnce, InitOver, StepOver, PTL DEF Spec
<1>2. Spec => [](Typed /\ OverInv /\ Fenced /\ OnceInv /\ TailInv)
  BY <1>1, InitTail, StepTail, PTL DEF Spec
<1> QED BY <1>2, TailStep, PTL DEF Spec, TailRecorded

-----------------------------------------------------------------------------
\* Recordings is implemented. A step changes one recording as FileStep says; what is left
\* is that the calls that may still get one only grow fewer, and by the call itself when
\* its session is opened.

LEMMA MayOpenWaits == \A c : c \in MayOpen <=> c \in Calls /\ Waiting(c)
BY DEF MayOpen, Waiting, Contains

LEMMA MayOpenKept ==
  ASSUME recQ' = recQ, seq' = seq, rec'.call = rec.call
  PROVE  MayOpen' = MayOpen
BY DEF MayOpen, Begun, Ev

\* An event that is no CallStart is read.
LEMMA MayOpenPast ==
  ASSUME Typed, recQ # <<>>, Head(recQ).kind # "start", recQ' = Tail(recQ),
         seq' = seq, rec' = rec
  PROVE  MayOpen' = MayOpen
<1>1. /\ Len(recQ) \in Nat /\ Len(recQ) > 0 /\ Len(recQ') = Len(recQ) - 1
      /\ \A i \in 1..Len(recQ') : recQ'[i] = recQ[i + 1]
      /\ Head(recQ) = recQ[1]
  BY LenProperties, HeadTailProperties DEF Typed, QueueT
<1>2. ASSUME NEW c
      PROVE  (\E i \in 1..Len(recQ') : recQ'[i] = Ev("start", c))
               <=> \E i \in 1..Len(recQ) : recQ[i] = Ev("start", c)
  <2>1. recQ[1] # Ev("start", c)
    BY <1>1 DEF Ev
  <2>2. ASSUME NEW i \in 1..Len(recQ), recQ[i] = Ev("start", c)
        PROVE  i - 1 \in 1..Len(recQ') /\ recQ'[i - 1] = recQ[i]
    BY <1>1, <2>1, <2>2
  <2>3. ASSUME NEW i \in 1..Len(recQ')
        PROVE  i + 1 \in 1..Len(recQ) /\ recQ'[i] = recQ[i + 1]
    BY <1>1
  <2> QED BY <2>2, <2>3
<1> QED BY <1>2 DEF MayOpen, Contains, Begun, Ev

LEMMA MayOpenSteps ==
  ASSUME Typed, OnceInv, [Next]_vars
  PROVE  UNCHANGED <<sessions, complete>> \/ Opens \/ MayOpen' = MayOpen
<1>1. CASE EngineStep
  BY <1>1 DEF EngineStep, StartCall, EndCall, PublishEnd, Announce
<1>2. ASSUME NEW c \in Begun, HandleStart(c) \/ HandleEnd(c) \/ ComposeStart(c) \/ ComposeEnd(c)
      PROVE  UNCHANGED <<sessions, complete>>
  BY <1>2 DEF HandleStart, HandleEnd, ComposeStart, ComposeEnd
<1>3. ASSUME NEW c \in Begun, HandleSegment(c) \/ HandleEncryption(c)
      PROVE  MayOpen' = MayOpen
  BY <1>3, MayOpenPast DEF HandleSegment, HandleEncryption, Take, Ev, engine
<1>4. CASE OpenSession
  BY <1>4 DEF OpenSession, Opens
<1>5. CASE RecorderFinalizes
  <2>1. rec'.call = rec.call
    BY <1>5 DEF RecorderFinalizes, Typed, RecT, Recorder
  <2> QED BY <1>5, <2>1, MayOpenKept DEF RecorderFinalizes, engine
<1>6. CASE ComposerStep \/ TimerStep \/ \E d \in Devices : Write(d)
  <2>1. recQ' = recQ /\ seq' = seq /\ rec' = rec
    BY <1>6 DEF ComposerStep, ComposeStart, ComposeEnd, ReplaceChain, ChainDone,
                NotifyDrainComplete, ComposerFinalizes, TimerStep, TimerFires,
                FinalizeOnDrainTimeout, TimerFinalizes, Write, engine
  <2> QED BY <2>1, MayOpenKept
<1>7. CASE Stop \/ CancelAll \/ UNCHANGED vars
  BY <1>7 DEF Stop, CancelAll, vars
<1>8. CASE Close
  <2>1. rec'.call = rec.call
    BY <1>8 DEF Close, Typed, RecT, Recorder
  <2> QED BY <1>8, <2>1, MayOpenKept DEF Close, engine
<1> QED BY <1>1, <1>2, <1>3, <1>4, <1>5, <1>6, <1>7, <1>8 DEF Next, RecorderStep, Teardown

\* What becomes of the overs announced when the session on d is closed.
LEMMA AnnouncedOvers ==
  ASSUME Typed, NEW d \in Devices, HasSession(d), Rename(d)
  PROVE  \/ Overs' = Overs
         \/ sessions[d].open /\ Overs' = Append(Overs, Over(sessions[d]))
<1> DEFINE s == sessions[d]
           S == [call : Calls, seg : Nat]
<1>1. s \in Session /\ complete \in Seq(Recording)
  BY DEF HasSession, Typed, FilesT
<1>2. CASE complete' = complete
  <2>1. Overs' = Overs
    BY <1>2, Zenon DEF Overs, Over
  <2> QED BY <2>1
<1>3. CASE s.open /\ complete' = Append(complete, Announced(s))
  <2>1. /\ Len(complete) \in Nat /\ Len(complete') = Len(complete) + 1
        /\ \A i \in 1..Len(complete) : complete'[i] = complete[i]
        /\ complete'[Len(complete) + 1] = Announced(s)
        /\ complete' \in Seq(Recording)
    BY <1>1, <1>3, AnnouncedType, AppendProperties, LenProperties
  <2>2. \A r \in Recording : Over(r) \in S
    BY DEF Over, Recording
  <2>3. Over(Announced(s)) = Over(s) /\ Over(s) \in S
    BY <1>1 DEF Over, Announced, Session
  <2>4. Overs \in Seq(S) /\ Len(Overs) = Len(complete)
    <3>1. \A i \in 1..Len(complete) : complete[i] \in Recording
      BY <1>1, ElementOfSeq
    <3> QED BY <2>1, <2>2, <3>1, IsASeq, LenProperties DEF Overs
  <2>5. Overs' \in Seq(S) /\ Len(Overs') = Len(complete')
    <3>1. \A i \in 1..Len(complete') : complete'[i] \in Recording
      BY <2>1, ElementOfSeq
    <3>2. Overs' = [i \in 1..Len(complete') |-> Over(complete'[i])]
      BY DEF Overs, Over
    <3> QED BY <2>1, <2>2, <3>1, <3>2, IsASeq, LenProperties
  <2> DEFINE A == Append(Overs, Over(s))
  <2>6. /\ A \in Seq(S) /\ Len(A) = Len(complete')
        /\ \A i \in 1..Len(complete) : A[i] = Over(complete[i])
        /\ A[Len(complete) + 1] = Over(s)
    <3>1. \A i \in 1..Len(complete) : Overs[i] = Over(complete[i])
      BY DEF Overs
    <3> QED BY <2>1, <2>3, <2>4, <3>1, AppendProperties
  <2>7. \A i \in 1..Len(complete') : Overs'[i] = A[i]
    <3>1. \A i \in 1..Len(complete') : Overs'[i] = Over(complete'[i])
      BY DEF Overs, Over
    <3> HIDE DEF A
    <3>2. \A i \in 1..Len(complete) : Overs'[i] = A[i]
      BY <2>1, <2>6, <3>1
    <3>3. Overs'[Len(complete) + 1] = A[Len(complete) + 1]
      BY <2>1, <2>3, <2>6, <3>1
    <3> QED BY <2>1, <3>2, <3>3
  <2> HIDE DEF A
  <2>8. Overs' = A
    BY <2>5, <2>6, <2>7, SeqEqual
  <2> QED BY <1>3, <2>8 DEF A
<1> QED BY <1>2, <1>3 DEF Rename

\* A step of Recordings for each thing a step can do to the files.
LEMMA PromiseStep ==
  ASSUME Typed, OnceInv, [Next]_vars
  PROVE  [Promise!Next]_(Promise!vars)
<1>0. NoCall \notin Calls /\ \A c \in Begun : Dev(c) \in Devices /\ c \in Calls
  BY CallFacts DEF Typed
<1>1. /\ sessions \in [Devices -> Session \cup {NoSession}]
      /\ Recorded = [d \in Devices |-> [call |-> sessions[d].call, seg |-> sessions[d].seg,
                                        open |-> sessions[d].open]]
      /\ Recorded' = [d \in Devices |-> [call |-> sessions'[d].call, seg |-> sessions'[d].seg,
                                         open |-> sessions'[d].open]]
  BY DEF Recorded, Typed, FilesT
<1>2. ASSUME NEW d \in Devices, HasSession(d)
      PROVE  /\ Recorded[d].call # NoCall
             /\ sessions[d].open => Recorded[d].open = TRUE
             /\ Over(sessions[d]) = [call |-> Recorded[d].call, seg |-> Recorded[d].seg]
  <2>1. sessions[d] \in Session
    BY <1>1, <1>2 DEF HasSession
  <2>2. /\ sessions[d].call # NoCall /\ sessions[d].open \in BOOLEAN
        /\ Recorded[d].call = sessions[d].call /\ Recorded[d].seg = sessions[d].seg
        /\ Recorded[d].open = sessions[d].open
    BY <1>0, <1>1, <2>1 DEF Session
  <2> QED BY <2>2 DEF Over
<1>3. CASE UNCHANGED <<sessions, complete>>
  <2>1. Recorded' = Recorded
    BY <1>1, <1>3
  <2>2. Overs' = Overs
    BY <1>3, Zenon DEF Overs, Over
  <2>3. MayOpen' \in SUBSET MayOpen
    BY WaitingShrinks DEF MayOpen, Waiting, Contains
  <2> QED BY <2>1, <2>2, <2>3 DEF Promise!Next, Promise!Miss
<1>4. ASSUME NEW d \in Devices, Closes(d), MayOpen' = MayOpen PROVE Promise!Finish(d)
  <2>1. HasSession(d) /\ Rename(d)
    BY <1>4 DEF Closes
  <2>2. Recorded' = [Recorded EXCEPT ![d] = Promise!Nothing]
    BY <1>1, <1>4 DEF Closes, NoSession, Promise!Nothing
  <2>3. Promise!AnnounceIfHeard(d)
    BY <1>2, <2>1, AnnouncedOvers, Zenon DEF Promise!AnnounceIfHeard
  <2> QED BY <1>2, <1>4, <2>1, <2>2, <2>3 DEF Promise!Finish
<1>5. ASSUME NEW d \in Devices, Rolls(d), MayOpen' = MayOpen PROVE Promise!NextOver(d)
  <2>1. HasSession(d) /\ Rename(d) /\ sessions[d].open
    BY <1>5 DEF Rolls
  <2>2. Recorded' = [Recorded EXCEPT ![d] = [call |-> Recorded[d].call,
                                             seg |-> Recorded[d].seg + 1, open |-> FALSE]]
    BY <1>1, <1>5 DEF Rolls
  <2>3. Promise!AnnounceIfHeard(d)
    BY <1>2, <2>1, AnnouncedOvers, Zenon DEF Promise!AnnounceIfHeard
  <2>4. Recorded[d].open = TRUE
    BY <1>2, <2>1, Zenon
  <2> QED BY <1>5, <2>2, <2>3, <2>4 DEF Promise!NextOver
<1>6. ASSUME NEW d \in Devices, Hears(d), MayOpen' = MayOpen PROVE Promise!Open(d)
  <2>1. HasSession(d)
    BY <1>6 DEF Hears, Admits
  <2>2. Recorded' = [Recorded EXCEPT ![d].open = TRUE]
    BY <1>1, <1>6 DEF Hears
  <2>3. Overs' = Overs
    BY <1>6, Zenon DEF Hears, Overs, Over
  <2> QED BY <1>2, <1>6, <2>1, <2>2, <2>3 DEF Promise!Open
<1>7. CASE Opens
  <2> DEFINE c == rec.call
  <2>1. c \in Begun /\ c \in Calls /\ Dev(c) \in Devices /\ c \in MayOpen
    BY <1>0, <1>7 DEF Opens, OpenSession, Typed, RecT, Maybe, MayOpen
  <2>2. MayOpen' = MayOpen \ {c}
    <3>1. recQ' = recQ /\ Begun' = Begun /\ rec'.call = NoCall
      BY <1>7 DEF Opens, OpenSession, IdleRecorder, engine, Begun
    <3>2. ~Contains(recQ, Ev("start", c))
      BY <2>1 DEF OnceInv, StartsOnce, StartAt, Contains, Ev
    <3> QED BY <1>0, <2>1, <3>1, <3>2 DEF MayOpen, Ev
  <2>3. Recorded' = [Recorded EXCEPT ![Dev(c)] = [call |-> c, seg |-> 0, open |-> FALSE]]
    BY <1>1, <1>7, <2>1 DEF Opens
  <2>4. Overs' = Overs
    BY <1>7, Zenon DEF Opens, Overs, Over
  <2>5. Promise!Begin(Dev(c), c)
    BY <2>1, <2>2, <2>3, <2>4 DEF Promise!Begin
  <2> QED BY <2>1, <2>5 DEF Promise!Next
<1>8. CASE Drops /\ MayOpen' = MayOpen
  <2>1. Recorded' = [d \in Devices |-> Promise!Nothing]
    BY <1>1, <1>8 DEF Drops, NoSession, Promise!Nothing
  <2>2. Overs' = Overs
    BY <1>8, Zenon DEF Drops, Overs, Over
  <2> QED BY <1>8, <2>1, <2>2 DEF Promise!Next, Promise!Shutdown
<1>9. UNCHANGED <<sessions, complete>> \/ Opens \/ MayOpen' = MayOpen
  BY MayOpenSteps
<1> QED BY <1>3, <1>4, <1>5, <1>6, <1>7, <1>8, <1>9, FileSteps DEF FileStep, Promise!Next

LEMMA PromiseInit == Init => Promise!Init
<1> SUFFICES ASSUME Init PROVE Promise!Init
  OBVIOUS
<1>1. MayOpen = Calls
  BY DEF Init, MayOpen, Begun
<1>2. Recorded = [d \in Devices |-> Promise!Nothing]
  BY DEF Init, Recorded, NoSession, Promise!Nothing
<1>3. Overs = <<>>
  BY DEF Init, Overs
<1> QED BY <1>1, <1>2, <1>3 DEF Promise!Init

\* RecorderDrain implements Recordings: however starts, ends, drain signals, timers, lost
\* events and the teardown meet, a call gets one recording, whose overs are announced once.
THEOREM ImplementsRecordings == Spec => KeepsRecordings
<1>1. Spec => [](Typed /\ Fenced /\ OnceInv)
  BY AlwaysTyped, InitFenced, StepFenced, InitOnce, StepOnce, PTL DEF Spec
<1> QED BY <1>1, PromiseInit, PromiseStep, PTL DEF Spec, KeepsRecordings, Promise!Spec
=============================================================================
