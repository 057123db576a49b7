---------------------------- MODULE CallLifecycle ----------------------------
(***************************************************************************)
(* The life of a voice call at the granularity of the engine's locks. The  *)
(* Run loop is one thread; the voice chains and the API, which end calls    *)
(* by device serial, are others. Every step below lies between two lock     *)
(* operations, or between a lock operation and a publication, so the runs   *)
(* interleave them the way the goroutines may: the pool's map (pool.mu),    *)
(* the engine's mirror of it (e.mu) and the bus are three separate things.  *)
(*                                                                         *)
(* Which call a grant belongs to, and its priority, are taken as given here *)
(* (VoiceDispatch decides them); the decisions that read the pool are kept. *)
(***************************************************************************)
EXTENDS Integers, Sequences, FiniteSets

CONSTANTS
  Devices,     \* voice devices, numbered in pool order
  Tunable,     \* [Devices -> SET of frequencies]
  Grants,      \* records [grp, freq, prio, deny]; deny: the policy ends the call at once
  Callers,     \* goroutines that call Engine.EndCall
  MaxCalls,    \* bound on the calls of a behaviour
  NoCall,      \* a device without a call, a thread that has hold of none
  NoGrant      \* no grant in hand

VARIABLES
  active,      \* [Devices -> call id or NoCall]: pool.active
  calls,       \* [Devices -> call id or NoCall]: Engine.calls
  carried,     \* [CallIds -> grant or NoGrant]: the Grant field of each ActiveCall
  seq,         \* pool.callSeq
  bus,         \* the CallStart and CallEnd events in publication order
  at,          \* [Threads -> Frame]: what each goroutine is doing
  hand,        \* the grant the Run loop is dispatching
  sweep,       \* the devices of the snapshot the Run loop is ending
  stop         \* whether the context is live, cancelled, or being shut down

vars == <<active, calls, carried, seq, bus, at, hand, sweep, stop>>

CallIds == 1..MaxCalls

Run == "run"
Threads == {Run} \cup Callers

Ending == {"release", "forget", "announce"}

PCs == Ending \cup {"idle", "retune", "tune", "store", "free", "victim", "bug", "bind",
                    "insert", "mirror", "start", "policy", "sweep", "stopped"}

\* then: where the thread goes on once it has ended the call it set out to end.
Frame == [pc : PCs, dev : Devices \cup {NoCall}, id : CallIds \cup {NoCall},
          then : {"idle", "free", "bind", "sweep"}]

Idle == [pc |-> "idle", dev |-> NoCall, id |-> NoCall, then |-> "idle"]

ASSUME LifecycleAssumption ==
  /\ Devices \subseteq Nat /\ Devices # {} /\ IsFiniteSet(Devices)
  /\ Run \notin Callers
  /\ MaxCalls \in Nat
  /\ NoCall \notin CallIds
  /\ NoGrant \notin Grants

-----------------------------------------------------------------------------
Busy == {d \in Devices : active[d] # NoCall}

Capable(f) == {d \in Devices : f \in Tunable[d]}

At(t, pc) == at[t].pc = pc

Goto(t, pc) == at' = [at EXCEPT ![t] = [@ EXCEPT !.pc = pc]]

On(t, pc, d) == at' = [at EXCEPT ![t] = [@ EXCEPT !.pc = pc, !.dev = d]]

With(t, pc, id) == at' = [at EXCEPT ![t] = [@ EXCEPT !.pc = pc, !.id = id]]

\* Set out to end whatever call the device carries, and go on at "then".
EndOn(t, d, then) ==
  at' = [at EXCEPT ![t] = [pc |-> "release", dev |-> d, id |-> NoCall, then |-> then]]

Rest(t) == at' = [at EXCEPT ![t] = Idle]

\* The call the thread set out to end is ended: on to what it wanted that for.
Proceed(t) ==
  IF at[t].then = "idle" THEN Rest(t)
  ELSE With(t, at[t].then, NoCall)

Shared == <<active, calls, carried, seq, bus>>
Local == <<hand, sweep, stop>>

-----------------------------------------------------------------------------
\* endCall, in any thread: release the device in the pool, drop the mirror entry,
\* publish.

\* Defect: the device is looked up now and freed with the mirror entry.
ReleaseLater(t) ==
  /\ At(t, "release")
  /\ IF active[at[t].dev] = NoCall THEN Proceed(t)
     ELSE With(t, "forget", active[at[t].dev])
  /\ active' = [active EXCEPT ![at[t].dev] = IF t = Run THEN NoCall ELSE @]
  /\ UNCHANGED <<calls, carried, seq, bus, hand, sweep, stop>>

\* Defect: whoever finds the device already released goes on to publish.
ReleaseUnchecked(t) ==
  /\ At(t, "release")
  /\ With(t, "forget", active[at[t].dev])
  /\ active' = [active EXCEPT ![at[t].dev] = NoCall]
  /\ UNCHANGED <<calls, carried, seq, bus, hand, sweep, stop>>

\* Whoever finds the device already released stops there.
Release(t) ==
  /\ At(t, "release")
  /\ IF active[at[t].dev] = NoCall THEN Proceed(t)
     ELSE With(t, "forget", active[at[t].dev])
  /\ active' = [active EXCEPT ![at[t].dev] = NoCall]
  /\ UNCHANGED <<calls, carried, seq, bus, hand, sweep, stop>>

Forget(t) ==
  /\ At(t, "forget")
  /\ calls' = [calls EXCEPT ![at[t].dev] = NoCall]
  /\ Goto(t, "announce")
  /\ UNCHANGED <<active, carried, seq, bus, hand, sweep, stop>>

Announce(t) ==
  /\ At(t, "announce")
  /\ bus' = Append(bus, [kind |-> "end", dev |-> at[t].dev, id |-> at[t].id])
  /\ Proceed(t)
  /\ UNCHANGED <<active, calls, carried, seq, hand, sweep, stop>>

EndCallSteps(t) == Release(t) \/ Forget(t) \/ Announce(t)

\* EndCall by serial: a device missing from the mirror is reported as idle.
EndCall(c, d) ==
  /\ At(c, "idle")
  /\ calls[d] # NoCall
  /\ EndOn(c, d, "idle")
  /\ UNCHANGED <<Shared, Local>>

-----------------------------------------------------------------------------
\* HandleGrant on the Run loop.

\* The snapshot shows the same call on another frequency, in or out of reach of
\* its device. (On the same frequency the grant only touches the call.)
Duplicated(g) == {d \in Busy : carried[active[d]].grp = g.grp}

HandleGrant(g) ==
  /\ At(Run, "idle") /\ stop # "draining"
  /\ seq < MaxCalls
  /\ hand' = g
  /\ \/ /\ Duplicated(g) = {}
        /\ Goto(Run, "free")
     \/ \E d \in Duplicated(g) :
          /\ carried[active[d]].freq # g.freq
          /\ IF g.freq \in Tunable[d] THEN On(Run, "retune", d) ELSE EndOn(Run, d, "free")
  /\ UNCHANGED <<Shared, sweep, stop>>

\* Retune finds the call under the lock and lets the lock go to tune.
Retune ==
  /\ At(Run, "retune")
  /\ LET d == at[Run].dev IN
       IF active[d] = NoCall THEN EndOn(Run, d, "free")
       ELSE With(Run, "tune", active[d])
  /\ UNCHANGED <<Shared, Local>>

Tune ==
  /\ At(Run, "tune")
  /\ Goto(Run, "store") \/ EndOn(Run, at[Run].dev, "free")
  /\ UNCHANGED <<Shared, Local>>

\* Defect: the retuned call is put back into the pool.
StoreReinstates ==
  /\ At(Run, "store")
  /\ carried' = [carried EXCEPT ![at[Run].id] = hand]
  /\ active' = [active EXCEPT ![at[Run].dev] = at[Run].id]
  /\ Rest(Run)
  /\ UNCHANGED <<calls, seq, bus, Local>>

\* The grant lands in the call it found, even if that call has ended meanwhile.
Store ==
  /\ At(Run, "store")
  /\ carried' = [carried EXCEPT ![at[Run].id] = hand]
  /\ Rest(Run)
  /\ UNCHANGED <<active, calls, seq, bus, Local>>

\* The pool is asked twice, under its lock each time: first for a free device ...
FindFree ==
  /\ At(Run, "free")
  /\ LET free == Capable(hand.freq) \ Busy IN
       \/ /\ free = {}
          /\ Goto(Run, "victim")
       \/ \E d \in free : (\A e \in free : d <= e) /\ On(Run, "bind", d)
  /\ UNCHANGED <<Shared, Local>>

\* ... and then for a victim. None, with a capable device, is the branch the
\* engine logs as its own bug.
FindVictim ==
  /\ At(Run, "victim")
  /\ LET prio(d)  == carried[active[d]].prio
         busy     == Capable(hand.freq) \cap Busy
     IN \/ /\ busy = {}
           /\ IF Capable(hand.freq) = {} THEN Rest(Run) ELSE Goto(Run, "bug")
        \/ \E v \in busy :
             /\ \A d \in busy : prio(d) <= prio(v)
             /\ IF hand.prio < prio(v) THEN EndOn(Run, v, "bind") ELSE Rest(Run)
  /\ UNCHANGED <<Shared, Local>>

LogEngineBug ==
  /\ At(Run, "bug")
  /\ Rest(Run)
  /\ UNCHANGED <<Shared, Local>>

\* Bind checks that the device is free, lets the lock go to tune, which may fail...
Bind ==
  /\ At(Run, "bind")
  /\ \/ /\ active[at[Run].dev] = NoCall
        /\ Goto(Run, "insert")
     \/ Rest(Run)
  /\ UNCHANGED <<Shared, Local>>

\* ... and takes the device without looking again.
Insert ==
  /\ At(Run, "insert")
  /\ seq' = seq + 1
  /\ active' = [active EXCEPT ![at[Run].dev] = seq + 1]
  /\ carried' = [carried EXCEPT ![seq + 1] = hand]
  /\ With(Run, "mirror", seq + 1)
  /\ UNCHANGED <<calls, bus, Local>>

\* Defect: an entry that is still there is not replaced.
MirrorIfAbsent ==
  /\ At(Run, "mirror")
  /\ calls' = [calls EXCEPT ![at[Run].dev] = IF @ = NoCall THEN at[Run].id ELSE @]
  /\ Goto(Run, "start")
  /\ UNCHANGED <<active, carried, seq, bus, Local>>

Mirror ==
  /\ At(Run, "mirror")
  /\ calls' = [calls EXCEPT ![at[Run].dev] = at[Run].id]
  /\ Goto(Run, "start")
  /\ UNCHANGED <<active, carried, seq, bus, Local>>

PublishStart ==
  /\ At(Run, "start")
  /\ bus' = Append(bus, [kind |-> "start", dev |-> at[Run].dev, id |-> at[Run].id])
  /\ Goto(Run, "policy")
  /\ UNCHANGED <<active, calls, carried, seq, Local>>

\* The encrypted-call policy looks for the call in the mirror.
ApplyEncryptedPolicy ==
  /\ At(Run, "policy")
  /\ IF hand.deny /\ calls[at[Run].dev] # NoCall THEN EndOn(Run, at[Run].dev, "idle")
     ELSE Rest(Run)
  /\ UNCHANGED <<Shared, Local>>

-----------------------------------------------------------------------------
\* The other handlers of the Run loop end the calls of a snapshot: the watchdog
\* the stale and the due ones, a release those of a group, an alias one of them.
EndSnapshot ==
  /\ At(Run, "idle") /\ stop # "draining"
  /\ \E ds \in SUBSET Busy \ {{}} : sweep' = ds
  /\ Goto(Run, "sweep")
  /\ UNCHANGED <<Shared, hand, stop>>

Sweep ==
  /\ At(Run, "sweep")
  /\ \/ \E d \in sweep :
          /\ EndOn(Run, d, "sweep")
          /\ sweep' = sweep \ {d}
     \/ /\ sweep = {}
        /\ IF stop = "draining" THEN Goto(Run, "stopped") ELSE Rest(Run)
        /\ UNCHANGED sweep
  /\ UNCHANGED <<Shared, hand, stop>>

Cancel ==
  /\ stop = "no"
  /\ stop' = "asked"
  /\ UNCHANGED <<Shared, at, hand, sweep>>

\* Defect: the shutdown ends the calls it finds in the mirror.
ShutdownByMirror ==
  /\ At(Run, "idle") /\ stop = "asked"
  /\ stop' = "draining"
  /\ sweep' = {d \in Devices : calls[d] # NoCall}
  /\ Goto(Run, "sweep")
  /\ UNCHANGED <<Shared, hand>>

Shutdown ==
  /\ At(Run, "idle") /\ stop = "asked"
  /\ stop' = "draining"
  /\ sweep' = Busy
  /\ Goto(Run, "sweep")
  /\ UNCHANGED <<Shared, hand>>

-----------------------------------------------------------------------------
Init ==
  /\ active = [d \in Devices |-> NoCall]
  /\ calls = [d \in Devices |-> NoCall]
  /\ carried = [i \in CallIds |-> NoGrant]
  /\ seq = 0
  /\ bus = <<>>
  /\ at = [t \in Threads |-> Idle]
  /\ hand = NoGrant
  /\ sweep = {}
  /\ stop = "no"

\* What the Run loop does once it has taken up an event.
RunStep == \/ EndCallSteps(Run) \/ Retune \/ Tune \/ Store \/ FindFree \/ FindVictim
           \/ LogEngineBug \/ Bind \/ Insert \/ Mirror \/ PublishStart
           \/ ApplyEncryptedPolicy \/ Sweep

Next == \/ RunStep
        \/ \E g \in Grants : HandleGrant(g)
        \/ EndSnapshot \/ Cancel \/ Shutdown
        \/ \E c \in Callers : EndCallSteps(c) \/ \E d \in Devices : EndCall(c, d)

Spec == Init /\ [][Next]_vars

\* Goroutines make progress, and a select that keeps finding the cancelled context
\* ready takes it sooner or later, although other cases may be ready every time.
Fairness == /\ WF_vars(RunStep)
            /\ SF_vars(Shutdown)
            /\ \A c \in Callers : WF_vars(EndCallSteps(c))

FairSpec == Spec /\ Fairness

-----------------------------------------------------------------------------
\* Properties.

Events == [kind : {"start", "end"}, dev : Devices, id : CallIds]

TypeOK ==
  /\ active \in [Devices -> CallIds \cup {NoCall}]
  /\ calls \in [Devices -> CallIds \cup {NoCall}]
  /\ carried \in [CallIds -> Grants \cup {NoGrant}]
  /\ seq \in 0..MaxCalls
  /\ bus \in Seq(Events)
  /\ at \in [Threads -> Frame]
  /\ hand \in Grants \cup {NoGrant}
  /\ sweep \subseteq Devices
  /\ stop \in {"no", "asked", "draining"}

Published(kind, id) == {i \in 1..Len(bus) : bus[i].kind = kind /\ bus[i].id = id}

\* However many goroutines set out to end a call (the voice chain, the operator, the
\* watchdog, a preemption), its CallEnd is published once: the release of the device
\* in the pool elects the one that publishes.
EndedOnce == \A id \in CallIds : Cardinality(Published("end", id)) <= 1

Between(d) == at[Run].dev = d /\ At(Run, "mirror")

\* Outside the two steps that install a call, the mirror never names another call
\* than the pool does: the live audio is never muted by an earlier call's talkgroup.
MirrorNamesLiveCall ==
  \A d \in Busy : calls[d] # NoCall /\ ~Between(d) => calls[d] = active[d]

Sessions == INSTANCE VoiceSessions WITH session <- active, begun <- 1..seq

\* The pool keeps the promise of VoiceSessions although Bind and Retune let its lock
\* go in the middle.
KeepsSessions == Sessions!Spec

\* Once the context is cancelled every call that ever held a device has had both
\* its CallStart and its CallEnd published, whoever was ending it.
ShutdownReportsEveryCall ==
  (stop # "no") ~> [](\A id \in 1..seq : Published("start", id) # {} /\ Published("end", id) # {})
=============================================================================
