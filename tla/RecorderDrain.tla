---------------------------- MODULE RecorderDrain ----------------------------
(***************************************************************************)
(* From CallStart to CallComplete. The engine publishes the life of a call *)
(* on the bus; the recorder and the composer each read their own           *)
(* subscription in their own goroutine. The recorder keeps one session per *)
(* device; the composer runs one voice chain per device, which writes audio*)
(* into whatever session the recorder has there. A call's recording is     *)
(* finished once the recorder has seen its CallEnd and the composer says   *)
(* its chain has drained, in either order, or when a timer gives up.       *)
(*                                                                         *)
(* Every step lies between two operations of the recorder's lock. In hand  *)
(* between two of them is a CallEnd: finalizeCall takes the lock again.    *)
(***************************************************************************)
EXTENDS Integers, Sequences, FiniteSets, SequencesExt

CONSTANTS
  Devices,     \* serials of the voice devices
  Kinds,       \* kinds of calls, records [rec, stamped, fenced, early]:
               \*   rec: handleStart records it; stamped: it has a CallID;
               \*   fenced: its chain names the call with each frame;
               \*   early: its CallEnd overtakes its CallStart (see CallLifecycle)
  MaxCalls,    \* bound on the calls of a behaviour
  MaxRolls,    \* bound on the boundaries and updates in the middle of calls
  Buffer,      \* capacity of a subscription
  NoCall       \* no call

VARIABLES
  live,        \* [Devices -> call or NoCall]: what the engine follows
  leaving,     \* calls the engine has released but whose CallEnd is not published yet
  about,       \* [Calls -> device and kind of the call]
  seq,         \* calls started
  rolls,       \* boundaries and updates published so far
  recQ, compQ, \* what each subscription holds
  sessions,    \* [Devices -> Session or NoSession]: Recorder.sessions
  pending,     \* [Devices -> Pending or NoPending]: Recorder.pendingFinalize
  rec,         \* what the recorder's Run goroutine is doing
  late,        \* CallEnds in the hands of timer goroutines
  fired,       \* timers that have fired and wait for the lock, as <<device, call>>
  chain,       \* [Devices -> call or NoCall]: the voice chain that runs
  comp,        \* what the composer's Run goroutine is doing
  complete     \* the CallComplete events published

engine == <<live, leaving, about, seq, rolls>>
timers == <<late, fired>>
composer == <<chain, comp>>
vars == <<engine, recQ, compQ, sessions, pending, rec, timers, composer, complete>>

Calls == 1..MaxCalls

NoSession == [call |-> NoCall, seg |-> 0, open |-> FALSE, audio |-> {}]

Session == [call : Calls, seg : Nat, open : BOOLEAN, audio : SUBSET Calls]

Recording == [call : Calls, seg : Nat, audio : SUBSET Calls]

NoPending == [ce |-> NoCall, id |-> NoCall, drained |-> FALSE, timer |-> NoCall]

\* ce: the CallEnd, if it has come; id: the call the entry was made for;
\* timer: the call whose CallEnd armed the timer.
Pending == [ce : Calls \cup {NoCall}, id : Calls, drained : BOOLEAN, timer : Calls \cup {NoCall}]

\* goal: the CallEnd to finalize; call: the CallStart to open a session for after it.
Recorder == [pc : {"idle", "finalize", "open", "flush", "stopped"},
             goal : SUBSET Calls, call : Calls \cup {NoCall}]

Composer == [pc : {"idle", "replace", "wait", "notify", "finalize", "stopped"},
             call : Calls \cup {NoCall}, ce : Calls \cup {NoCall}]

IdleRecorder == [pc |-> "idle", goal |-> {}, call |-> NoCall]

IdleComposer == [pc |-> "idle", call |-> NoCall, ce |-> NoCall]

Event == [kind : {"start", "end", "segment", "encrypted"}, call : Calls]

About == [dev : Devices, kind : Kinds]

ASSUME RecorderAssumption ==
  /\ Kinds \subseteq [rec : BOOLEAN, stamped : BOOLEAN, fenced : BOOLEAN, early : BOOLEAN]
  /\ MaxCalls \in Nat /\ MaxRolls \in Nat /\ Buffer \in Nat \ {0}
  /\ NoCall \notin Calls

-----------------------------------------------------------------------------
Begun == 1..seq

Dev(c) == about[c].dev

Kind(c) == about[c].kind

\* Grant.CallID: zero, for a call the pool did not stamp, matches any other.
CallIDsDiffer(a, b) == Kind(a).stamped /\ Kind(b).stamped /\ a # b

HasSession(d) == sessions[d] # NoSession

\* Defect: the fence lets every frame through.
FenceOpen(c, d) == HasSession(d)

\* A frame of the chain of c goes into the session on d: sessionForWrite's fence.
Admits(c, d) ==
  /\ HasSession(d)
  /\ Kind(c).fenced => ~CallIDsDiffer(c, sessions[d].call)

\* What is left of a session when its files are closed.
Announced(s) == [call |-> s.call, seg |-> s.seg, audio |-> s.audio]

\* Defect: the buffer has no limit.
DeliveredAlways(q, e) == Append(q, e)

\* Publish to one subscriber: a full buffer loses the event.
Delivered(q, e) == IF Len(q) < Buffer THEN Append(q, e) ELSE q

Publish(e) == recQ' = Delivered(recQ, e) /\ compQ' = Delivered(compQ, e)

Ev(kind, c) == [kind |-> kind, call |-> c]

-----------------------------------------------------------------------------
\* The engine, as far as the bus shows it.

\* The daemon's context is not cancelled yet; afterwards calls only end.
Running == rec.pc \notin {"flush", "stopped"} /\ comp.pc # "stopped"

\* A trunked call bound to d; or a conventional channel opens, whose device serves no
\* trunked call.
StartCall(d, k) ==
  LET c == seq + 1
  IN /\ Running /\ live[d] = NoCall /\ seq < MaxCalls
     /\ \A b \in 1..seq : about[b].dev = d => about[b].kind.stamped = k.stamped
     /\ seq' = c
     /\ about' = [about EXCEPT ![c] = [dev |-> d, kind |-> k]]
     /\ IF k.early
        THEN /\ live' = live
             /\ recQ' = Delivered(Delivered(recQ, Ev("end", c)), Ev("start", c))
             /\ compQ' = Delivered(Delivered(compQ, Ev("end", c)), Ev("start", c))
        ELSE live' = [live EXCEPT ![d] = c] /\ Publish(Ev("start", c))
     /\ UNCHANGED <<leaving, rolls, sessions, pending, rec, timers, composer, complete>>

\* endCall releases the device, which may serve a new call before the next step.
EndCall(d) ==
  /\ live[d] # NoCall
  /\ live' = [live EXCEPT ![d] = NoCall]
  /\ leaving' = leaving \cup {live[d]}
  /\ UNCHANGED <<about, seq, rolls, recQ, compQ, sessions, pending, rec, timers, composer,
                 complete>>

PublishEnd(c) ==
  /\ c \in leaving
  /\ leaving' = leaving \ {c}
  /\ Publish(Ev("end", c))
  /\ UNCHANGED <<live, about, seq, rolls, sessions, pending, rec, timers, composer, complete>>

\* A terminator or a talker change rolls the recording; an update tells of encryption.
\* Both name a device: c is the last call on it. A chain publishes until it has drained,
\* and the engine may have released the call since it looked it up, so that both can come
\* after the CallEnd. The composer reads past both.
Announce(c, kind) ==
  /\ Running /\ rolls < MaxRolls
  /\ \A b \in Begun : Dev(b) = Dev(c) => b <= c
  /\ rolls' = rolls + 1
  /\ recQ' = Delivered(recQ, Ev(kind, c))
  /\ UNCHANGED <<live, leaving, about, seq, compQ, sessions, pending, rec, timers, composer,
                 complete>>

-----------------------------------------------------------------------------
\* finalizeCall, in any goroutine that has a CallEnd in hand.

\* Defect: the session on the device is finalized whoever it belongs to.
FinalizeWhatever(c) ==
  LET s == sessions[Dev(c)]
  IN IF s = NoSession THEN UNCHANGED <<sessions, complete>>
     ELSE /\ sessions' = [sessions EXCEPT ![Dev(c)] = NoSession]
          /\ \/ s.open /\ complete' = Append(complete, Announced(s))
             \/ UNCHANGED complete

\* Defect: the session stays where it is, for the next CallEnd or timer to find.
FinalizeAndKeep(c) ==
  LET s == sessions[Dev(c)]
  IN /\ UNCHANGED sessions
     /\ \/ s # NoSession /\ ~CallIDsDiffer(s.call, c) /\ s.open
           /\ complete' = Append(complete, Announced(s))
        \/ UNCHANGED complete

\* A file without speech, or too short, is not announced.
FinalizeCall(c) ==
  LET s == sessions[Dev(c)]
  IN IF s = NoSession \/ CallIDsDiffer(s.call, c) THEN UNCHANGED <<sessions, complete>>
     ELSE /\ sessions' = [sessions EXCEPT ![Dev(c)] = NoSession]
          /\ \/ s.open /\ complete' = Append(complete, Announced(s))
             \/ UNCHANGED complete

-----------------------------------------------------------------------------
\* The recorder's Run goroutine.

Take(kind, c) ==
  /\ rec.pc = "idle" /\ recQ # <<>>
  /\ Head(recQ) = Ev(kind, c)
  /\ recQ' = Tail(recQ)

\* A call that is not to be recorded (disabled, record=false, encrypted from
\* another site) leaves everything as it is. Otherwise a call that is still draining
\* there is finalized first: finalizeDrainingBeforeReuse.
HandleStart(c) ==
  LET d == Dev(c)
      draining == pending[d].ce # NoCall
  IN /\ Take("start", c)
     /\ rec' = IF ~Kind(c).rec THEN rec
               ELSE IF draining
                    THEN [pc |-> "finalize", goal |-> {pending[d].ce}, call |-> c]
                    ELSE [pc |-> "open", goal |-> {}, call |-> c]
     /\ pending' = [pending EXCEPT ![d] = IF Kind(c).rec /\ draining THEN NoPending ELSE @]
     /\ UNCHANGED <<engine, compQ, sessions, timers, composer, complete>>

\* The rest of handleStart: a session that is still there is closed unannounced.
OpenSession ==
  /\ rec.pc = "open"
  /\ sessions' = [sessions EXCEPT ![Dev(rec.call)] =
                    [call |-> rec.call, seg |-> 0, open |-> FALSE, audio |-> {}]]
  /\ rec' = IdleRecorder
  /\ UNCHANGED <<engine, recQ, compQ, pending, timers, composer, complete>>

\* handleEnd: finalize at once if the chain has drained, else wait for it or the timer.
HandleEnd(c) ==
  LET d == Dev(c)
      p == pending[d]
      drained == p.drained /\ ~CallIDsDiffer(p.id, c)
  IN /\ Take("end", c)
     /\ IF ~HasSession(d) THEN UNCHANGED <<pending, rec>>
        ELSE IF drained
        THEN /\ pending' = [pending EXCEPT ![d] = NoPending]
             /\ rec' = [pc |-> "finalize", goal |-> {c}, call |-> NoCall]
        ELSE /\ pending' = [pending EXCEPT ![d] =
                  [ce |-> c, id |-> c, drained |-> FALSE,
                   timer |-> IF p.timer = NoCall THEN c ELSE p.timer]]
             /\ UNCHANGED rec
     /\ UNCHANGED <<engine, compQ, sessions, timers, composer, complete>>

\* Defect: the successor starts again at the first segment.
HandleSegmentAfresh(c) ==
  LET d == Dev(c)
      s == sessions[d]
  IN /\ Take("segment", c)
     /\ IF ~s.open THEN UNCHANGED <<sessions, complete>>
        ELSE /\ sessions' = [sessions EXCEPT ![d] = [s EXCEPT !.open = FALSE, !.audio = {}]]
             /\ \/ complete' = Append(complete, Announced(s))
                \/ UNCHANGED complete
     /\ UNCHANGED <<engine, compQ, pending, rec, timers, composer>>

\* The open file is finished; the session waits for the next over, without a file.
HandleSegment(c) ==
  LET d == Dev(c)
      s == sessions[d]
  IN /\ Take("segment", c)
     /\ IF ~s.open THEN UNCHANGED <<sessions, complete>>
        ELSE /\ sessions' = [sessions EXCEPT ![d] =
                  [call |-> s.call, seg |-> s.seg + 1, open |-> FALSE, audio |-> {}]]
             /\ \/ complete' = Append(complete, Announced(s))
                \/ UNCHANGED complete
     /\ UNCHANGED <<engine, compQ, pending, rec, timers, composer>>

\* handleEncryptionUpdate: whatever is recorded on the device is thrown away.
HandleEncryption(c) ==
  /\ Take("encrypted", c)
  /\ sessions' = [sessions EXCEPT ![Dev(c)] = NoSession]
  /\ UNCHANGED <<engine, compQ, pending, rec, timers, composer, complete>>

\* The finalizeCall of handleStart, handleEnd or, one after the other, the teardown.
RecorderFinalizes ==
  /\ rec.pc \in {"finalize", "flush"}
  /\ \E c \in rec.goal :
       /\ FinalizeCall(c)
       /\ rec' = IF rec.pc = "flush" THEN [rec EXCEPT !.goal = @ \ {c}]
                 ELSE [pc |-> IF rec.call = NoCall THEN "idle" ELSE "open",
                       goal |-> {}, call |-> rec.call]
  /\ UNCHANGED <<engine, recQ, compQ, pending, timers, composer>>

\* Run returns and reads no more: flushPendingFinalize takes every CallEnd that still waits.
Stop ==
  /\ rec.pc = "idle"
  /\ rec' = [pc |-> "flush", goal |-> {pending[d].ce : d \in Devices} \ {NoCall},
             call |-> NoCall]
  /\ pending' = [d \in Devices |-> NoPending]
  /\ recQ' = <<>>
  /\ UNCHANGED <<engine, compQ, sessions, timers, composer, complete>>

\* Close, after Run: sessions without a CallEnd are closed unannounced.
Close ==
  /\ rec.pc = "flush" /\ rec.goal = {}
  /\ rec' = [rec EXCEPT !.pc = "stopped"]
  /\ sessions' = [d \in Devices |-> NoSession]
  /\ UNCHANGED <<engine, recQ, compQ, pending, timers, composer, complete>>

-----------------------------------------------------------------------------
\* The safety timer. A stopped timer does not fire, but one that has fired is not
\* called back: it takes what waits for its device when it gets the lock.

TimerFires(d) ==
  /\ pending[d].timer # NoCall
  /\ <<d, pending[d].timer>> \notin fired
  /\ fired' = fired \cup {<<d, pending[d].timer>>}
  /\ UNCHANGED <<engine, recQ, compQ, sessions, pending, rec, late, composer, complete>>

\* Defect: a chain that has not drained yet is left alone, and so is its timer.
FinalizeIfDrained(d, armed) ==
  /\ <<d, armed>> \in fired
  /\ fired' = fired \ {<<d, armed>>}
  /\ IF pending[d].drained
     THEN late' = late \cup ({pending[d].ce} \ {NoCall}) /\ pending' = [pending EXCEPT ![d] = NoPending]
     ELSE late' = late /\ pending' = [pending EXCEPT ![d].timer = NoCall]
  /\ UNCHANGED <<engine, recQ, compQ, sessions, rec, composer, complete>>

FinalizeOnDrainTimeout(d, armed) ==
  /\ <<d, armed>> \in fired
  /\ fired' = fired \ {<<d, armed>>}
  /\ late' = late \cup ({pending[d].ce} \ {NoCall})
  /\ pending' = [pending EXCEPT ![d] = NoPending]
  /\ UNCHANGED <<engine, recQ, compQ, sessions, rec, composer, complete>>

TimerFinalizes(c) ==
  /\ c \in late
  /\ late' = late \ {c}
  /\ FinalizeCall(c)
  /\ UNCHANGED <<engine, recQ, compQ, pending, rec, fired, composer>>

-----------------------------------------------------------------------------
\* The composer's Run goroutine and the voice chains.

Pop(kind, c) ==
  /\ comp.pc = "idle" /\ compQ # <<>>
  /\ Head(compQ) = Ev(kind, c)
  /\ compQ' = Tail(compQ)

\* A call starts its chain or cancels the one it finds. Without a device or a decoder it
\* leaves that one running; without a stream it has none.
ComposeStart(c) ==
  /\ Pop("start", c)
  /\ \/ /\ chain[Dev(c)] = NoCall
        /\ chain' = [chain EXCEPT ![Dev(c)] = c]
        /\ UNCHANGED comp
     \/ UNCHANGED composer
     \/ /\ chain[Dev(c)] # NoCall
        /\ comp' = [pc |-> "replace", call |-> c, ce |-> NoCall]
        /\ UNCHANGED chain
  /\ UNCHANGED <<engine, recQ, sessions, pending, rec, timers, complete>>

\* The chain found there has drained; nobody is told. The new call's chain starts, if it
\* gets a stream.
ReplaceChain ==
  /\ comp.pc = "replace" /\ chain[Dev(comp.call)] = NoCall
  /\ chain' \in {chain, [chain EXCEPT ![Dev(comp.call)] = comp.call]}
  /\ comp' = IdleComposer
  /\ UNCHANGED <<engine, recQ, compQ, sessions, pending, rec, timers, complete>>

\* The chain on the device, whichever call's it is, is cancelled and waited for.
ComposeEnd(c) ==
  /\ Pop("end", c)
  /\ comp' = [pc |-> IF chain[Dev(c)] = NoCall THEN "notify" ELSE "wait",
              call |-> c, ce |-> NoCall]
  /\ UNCHANGED <<engine, recQ, sessions, pending, rec, timers, chain, complete>>

\* A cancelled chain has written its last frame.
ChainDone ==
  LET d == Dev(comp.call)
  IN /\ comp.pc \in {"replace", "wait"} /\ chain[d] # NoCall
     /\ chain' = [chain EXCEPT ![d] = NoCall]
     /\ comp' = IF comp.pc = "wait" THEN [comp EXCEPT !.pc = "notify"] ELSE comp
     /\ UNCHANGED <<engine, recQ, compQ, sessions, pending, rec, timers, complete>>

\* Defect: a drain signal is taken for whatever call waits on the device.
NotifyAnyCall ==
  LET c == comp.call
      d == Dev(c)
      p == pending[d]
  IN /\ comp.pc = "notify"
     /\ IF p = NoPending /\ ~HasSession(d)
        THEN pending' = pending /\ comp' = IdleComposer
        ELSE IF p.ce = NoCall
        THEN /\ pending' = [pending EXCEPT ![d] = IF p = NoPending
                  THEN [ce |-> NoCall, id |-> c, drained |-> TRUE, timer |-> NoCall]
                  ELSE [p EXCEPT !.drained = TRUE]]
             /\ comp' = IdleComposer
        ELSE /\ pending' = [pending EXCEPT ![d] = NoPending]
             /\ comp' = [pc |-> "finalize", call |-> NoCall, ce |-> p.ce]
     /\ UNCHANGED <<engine, recQ, compQ, sessions, rec, timers, chain, complete>>

\* NotifyDrainCompleteForCall. A signal that names another call than the CallEnd that
\* waits, or the session, is the previous call's and comes too late to matter.
NotifyDrainComplete ==
  LET c == comp.call
      d == Dev(c)
      p == pending[d]
      stale == IF p = NoPending THEN ~HasSession(d) \/ CallIDsDiffer(sessions[d].call, c)
               ELSE p.ce # NoCall /\ CallIDsDiffer(p.ce, c)
      marked == IF p = NoPending
                THEN [ce |-> NoCall, id |-> c, drained |-> TRUE, timer |-> NoCall]
                ELSE [p EXCEPT !.drained = TRUE]
      go == ~stale /\ p.ce # NoCall
  IN /\ comp.pc = "notify"
     /\ pending' = [pending EXCEPT ![d] = IF stale THEN p ELSE IF go THEN NoPending ELSE marked]
     /\ comp' = [pc |-> IF go THEN "finalize" ELSE "idle", call |-> NoCall,
                 ce |-> IF go THEN p.ce ELSE NoCall]
     /\ UNCHANGED <<engine, recQ, compQ, sessions, rec, timers, chain, complete>>

ComposerFinalizes ==
  /\ comp.pc = "finalize"
  /\ FinalizeCall(comp.ce)
  /\ comp' = IdleComposer
  /\ UNCHANGED <<engine, recQ, compQ, pending, rec, timers, chain>>

\* The composer's Run returns and waits for every chain.
CancelAll ==
  /\ comp.pc = "idle"
  /\ comp' = [comp EXCEPT !.pc = "stopped"]
  /\ chain' = [d \in Devices |-> NoCall]
  /\ compQ' = <<>>
  /\ UNCHANGED <<engine, recQ, sessions, pending, rec, timers, complete>>

\* A chain writes a frame. The first one opens the file, which may fail and then ends
\* the session.
Write(d) ==
  /\ chain[d] # NoCall
  /\ Admits(chain[d], d)
  /\ \/ sessions' = [sessions EXCEPT ![d] =
          [call |-> @.call, seg |-> @.seg, open |-> TRUE, audio |-> @.audio \cup {chain[d]}]]
     \/ ~sessions[d].open /\ sessions' = [sessions EXCEPT ![d] = NoSession]
  /\ UNCHANGED <<engine, recQ, compQ, pending, rec, timers, composer, complete>>

-----------------------------------------------------------------------------
Init ==
  /\ live = [d \in Devices |-> NoCall] /\ leaving = {}
  /\ about = [c \in Calls |-> NoCall]
  /\ seq = 0 /\ rolls = 0
  /\ recQ = <<>> /\ compQ = <<>>
  /\ sessions = [d \in Devices |-> NoSession]
  /\ pending = [d \in Devices |-> NoPending]
  /\ rec = IdleRecorder
  /\ late = {} /\ fired = {}
  /\ chain = [d \in Devices |-> NoCall]
  /\ comp = IdleComposer
  /\ complete = <<>>

EngineStep ==
  \/ \E d \in Devices : (\E k \in Kinds : StartCall(d, k)) \/ EndCall(d)
  \/ \E c \in leaving : PublishEnd(c)
  \/ \E c \in Begun : Announce(c, "segment") \/ Announce(c, "encrypted")

RecorderStep ==
  \/ \E c \in Begun : HandleStart(c) \/ HandleEnd(c) \/ HandleSegment(c) \/ HandleEncryption(c)
  \/ OpenSession \/ RecorderFinalizes

ComposerStep ==
  \/ \E c \in Begun : ComposeStart(c) \/ ComposeEnd(c)
  \/ ReplaceChain \/ ChainDone \/ NotifyDrainComplete \/ ComposerFinalizes

TimerStep ==
  \/ \E d \in Devices : TimerFires(d)
  \/ \E t \in fired : FinalizeOnDrainTimeout(t[1], t[2])
  \/ \E c \in late : TimerFinalizes(c)

Teardown == Stop \/ Close \/ CancelAll

Next == EngineStep \/ RecorderStep \/ ComposerStep \/ TimerStep \/ Teardown
        \/ \E d \in Devices : Write(d)

Spec == Init /\ [][Next]_vars

\* Goroutines make progress and timers fire. Nothing forces a call to start or end,
\* a chain to write, or the daemon to stop.
FairSpec ==
  /\ Spec
  /\ WF_vars(RecorderStep) /\ WF_vars(ComposerStep) /\ WF_vars(TimerStep)
-----------------------------------------------------------------------------
\* Properties.

Sessions == {sessions[d] : d \in Devices} \ {NoSession}

Files == {Announced(s) : s \in Sessions} \cup {complete[i] : i \in 1..Len(complete)}

\* The state is well formed: a subscription keeps its capacity, a recording and an
\* entry that waits to be finalized name a call.
TypeOK ==
  /\ live \in [Devices -> Calls \cup {NoCall}] /\ leaving \in SUBSET Calls
  /\ about \in [Calls -> About \cup {NoCall}]
  /\ seq \in 0..MaxCalls /\ rolls \in 0..MaxRolls
  /\ recQ \in Seq(Event) /\ Len(recQ) <= Buffer
  /\ compQ \in Seq(Event) /\ Len(compQ) <= Buffer
  /\ sessions \in [Devices -> Session \cup {NoSession}]
  /\ pending \in [Devices -> Pending \cup {NoPending}]
  /\ rec \in Recorder
  /\ late \in SUBSET Calls /\ fired \in SUBSET (Devices \X Calls)
  /\ chain \in [Devices -> Calls \cup {NoCall}]
  /\ comp \in Composer
  /\ complete \in Seq(Recording)

\* A chain that names its call with each frame never writes into another call's file,
\* whatever session it finds on its device (sessionForWrite, recorder.go:757-766).
FencedAudio ==
  \A f \in Files : \A c \in f.audio :
    Kind(c).fenced => ~CallIDsDiffer(c, f.call)

\* An over of a call is announced once, and the overs of a call in their order: neither
\* drain signal, timer, re-key and teardown together nor a late boundary finish a file
\* twice (recordingSession.segment, recorder.go:2256-2260).
OversAnnouncedOnce ==
  \A i, j \in 1..Len(complete) :
    i < j /\ complete[i].call = complete[j].call => complete[i].seg < complete[j].seg

\* An encryption update throws a recording away.
Aborted == recQ' # recQ /\ recQ # <<>> /\ Head(recQ).kind = "encrypted"

\* A chain writes the first frame of an over, and its file cannot be opened.
FailsToOpen(d) == chain[d] # NoCall /\ ~sessions[d].open /\ UNCHANGED <<recQ, rec, comp, late>>

\* What may end a session before its chain has drained.
CutShort(d) ==
  \/ late' # late                                \* a timer
  \/ rec.pc = "open"                             \* a new call
  \/ rec.pc = "finalize" /\ rec.call # NoCall    \* a re-key
  \/ rec.pc = "flush"                            \* the teardown
  \/ Aborted \/ FailsToOpen(d)

\* The engine still has to end c, or the composer to run or drain its chain.
Unfinished(c) ==
  \/ live[Dev(c)] = c \/ c \in leaving
  \/ Contains(compQ, Ev("end", c)) \/ chain[Dev(c)] = c \/ comp.call = c

\* Neither a CallEnd nor a drain signal, its own or another call's, finishes the recording
\* of a call while the composer is not through with it: the whole transmission lands in
\* the file, whichever goroutine runs ahead (EnableDrainCoordination, recorder.go:173-179).
TailRecorded ==
  [][\A d \in Devices :
       HasSession(d) /\ sessions'[d].call # sessions[d].call
       /\ Kind(sessions[d].call).stamped /\ Unfinished(sessions[d].call) => CutShort(d)]_vars

\* A CallStart, a CallEnd, a drain signal, a timer or a re-key that comes late for one call
\* never closes the recording of the next one while the engine follows it, not even
\* before its first frame, when the session has no file yet (finalizeCall's check of the
\* CallID, recorder.go:1938-1947). Only three things do: Close, an encryption update and a
\* file that cannot be opened.
LiveCallsKeepRecording ==
  [][\A d \in Devices :
       HasSession(d) /\ sessions[d].call = live[d] /\ Kind(live[d]).stamped
       /\ sessions'[d].call # live[d]
       => rec'.pc = "stopped" \/ Aborted \/ FailsToOpen(d)]_vars

\* Calls for which handleStart may still open a session.
MayOpen == {c \in Calls : c \notin Begun \/ rec.call = c \/ Contains(recQ, Ev("start", c))}

Over(r) == [call |-> r.call, seg |-> r.seg]

Recorded == [d \in Devices |-> [call |-> sessions[d].call, seg |-> sessions[d].seg,
                               open |-> sessions[d].open]]

Overs == [i \in 1..Len(complete) |-> Over(complete[i])]

Promise == INSTANCE Recordings WITH
             fresh <- MayOpen, recording <- Recorded, announced <- Overs

\* The recorder keeps the promise of Recordings, although four parties (its Run goroutine,
\* the composer, the timers, the teardown) close sessions and a serial is all that names one.
KeepsRecordings == Promise!Spec

\* The CallEnd of the session on d waits for the chain to drain.
Draining(d, c) == sessions[d].call = c /\ pending[d].ce = c

\* A recording whose CallEnd waits is finished in the end, with a drain signal or without
\* one, unless the CallEnd of a call that has no session there takes its place.
DrainingFinishes ==
  \A d \in Devices, c \in Calls :
    Draining(d, c) ~> sessions[d].call # c \/ pending[d].ce \notin {c, NoCall}

\* handleEnd and the composer have both been through with c. Where no event is lost:
\* 2 * MaxCalls + MaxRolls <= Buffer.
BothArrived(c) ==
  /\ Running
  /\ live[Dev(c)] # c /\ c \notin leaving /\ chain[Dev(c)] # c /\ comp.call # c
  /\ \A e \in {"start", "end"} : ~Contains(recQ, Ev(e, c)) /\ ~Contains(compQ, Ev(e, c))

\* CallEnds on their way to finalizeCall, and those the safety timer stands behind.
InHand == late \cup rec.goal \cup {rec.call, comp.ce} \cup {pending[d].ce : d \in Devices}

\* "A call finalizes once BOTH its KindCallEnd (handleEnd) and the composer's
\* NotifyDrainComplete have arrived - in either order" (recorder.go:181-184); a drain
\* signal that ran ahead of the CallStart leaves it to the safety timer, within InHand.
FinishedOnceBothArrived ==
  \A c \in Begun : BothArrived(c) /\ c \notin InHand => \A s \in Sessions : s.call # c
=============================================================================
