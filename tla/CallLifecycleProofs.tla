------------------------- MODULE CallLifecycleProofs -------------------------
(***************************************************************************)
(* For every set of devices, grants and callers and any number of calls:   *)
(* CallLifecycle is type correct, implements VoiceSessions, never leaves   *)
(* the mirror naming another call than the pool, and publishes the end of  *)
(* a call once.                                                            *)
(*                                                                         *)
(* Three invariants, one above the other. TInv says what a thread has in   *)
(* hand at each place. SInv follows the one call the Run loop may be       *)
(* installing: nobody else fills a device, so what Bind saw still holds    *)
(* when Insert acts on it. EInv follows a call that ends: it is in the     *)
(* pool, or in the hands of the one thread that took it out, or over.      *)
(* Most steps touch none of this (Quiet); the few that do have a lemma     *)
(* each that says what they change.                                        *)
(***************************************************************************)
EXTENDS CallLifecycle, FiniteSetTheorems, TLAPS

\* Where a thread is bound to a device, and where to a call.
AtDevice == Ending \cup {"retune", "tune", "store", "bind", "insert", "mirror", "start", "policy"}
InHand == {"forget", "announce"}
AtCall == InHand \cup {"mirror", "start"}

Bound(f) == /\ f.pc \in AtDevice => f.dev \in Devices
            /\ f.pc \in AtCall => f.id \in CallIds

Placed == \A t \in Threads : Bound(at[t])

\* The Run loop has a grant in hand that it may still start a call for.
Spends(pc, then) ==
  \/ pc \in {"retune", "tune", "store", "free", "victim", "bug", "bind", "insert"}
  \/ pc \in Ending /\ then \in {"free", "bind"}

Spending(f) == Spends(f.pc, f.then)

Room == Spending(at[Run]) => seq < MaxCalls

\* The invariant under TypeOK.
TInv == TypeOK /\ Placed /\ Room

\* Between Bind's check and Insert nobody takes the device: only Run inserts.
Reserved == At(Run, "insert") => active[at[Run].dev] = NoCall

\* A call about to be mirrored is the last one its device was given.
Installing == At(Run, "mirror") => active[at[Run].dev] \in {NoCall, at[Run].id}

SInv == Reserved /\ Installing /\ MirrorNamesLiveCall

Issued == \A d \in Busy : active[d] \in 1..seq

Exclusive == \A d, e \in Busy : active[d] = active[e] => d = e

\* A call somebody is ending has left the pool and is in nobody else's hands.
HandedOver ==
  \A t \in Threads : at[t].pc \in InHand =>
    /\ at[t].id \in 1..seq
    /\ \A d \in Busy : active[d] # at[t].id
    /\ \A u \in Threads : at[u].pc \in InHand /\ at[u].id = at[t].id => u = t

\* A call whose end is published is neither in the pool nor in anybody's hands.
Over ==
  \A i \in 1..Len(bus) : bus[i].kind = "end" =>
    /\ bus[i].id \in 1..seq
    /\ \A d \in Busy : active[d] # bus[i].id
    /\ \A t \in Threads : at[t].pc \in InHand => at[t].id # bus[i].id
    /\ \A j \in 1..Len(bus) : bus[j].kind = "end" /\ bus[j].id = bus[i].id => j = i

EInv == Issued /\ Exclusive /\ HandedOver /\ Over

-----------------------------------------------------------------------------
\* The state apart from the threads.
Stores ==
  /\ active \in [Devices -> CallIds \cup {NoCall}]
  /\ calls \in [Devices -> CallIds \cup {NoCall}]
  /\ carried \in [CallIds -> Grants \cup {NoGrant}]
  /\ seq \in 0..MaxCalls
  /\ bus \in Seq(Events)
  /\ hand \in Grants \cup {NoGrant}
  /\ sweep \subseteq Devices
  /\ stop \in {"no", "asked", "draining"}

LEMMA RunIsThread == Run \in Threads
BY DEF Threads

\* One thread moves on, to a place where it is as well provided for as before.
LEMMA MoveTyped ==
  ASSUME TInv, Stores',
         NEW t \in Threads, NEW f \in Frame,
         at' = [at EXCEPT ![t] = f],
         Bound(f),
         seq' # seq => t = Run /\ ~Spending(f),
         t = Run /\ Spending(f) => Spending(at[Run]) \/ seq < MaxCalls
  PROVE  TInv'
<1>1. at' \in [Threads -> Frame] /\ at'[t] = f /\ \A u \in Threads \ {t} : at'[u] = at[u]
  BY DEF TInv, TypeOK
<1>2. TypeOK'
  BY <1>1 DEF Stores, TypeOK
<1>3. Placed'
  <2> SUFFICES ASSUME NEW u \in Threads PROVE Bound(at'[u])
    BY DEF Placed, Bound
  <2>1. CASE u = t
    BY <2>1, <1>1
  <2>2. CASE u # t
    BY <2>2, <1>1 DEF TInv, Placed
  <2> QED BY <2>1, <2>2
<1>4. Room'
  <2> SUFFICES ASSUME Spending(at'[Run]) PROVE seq' < MaxCalls
    BY DEF Room, Spending
  <2>1. CASE t = Run
    BY <2>1, <1>1 DEF TInv, Room
  <2>2. CASE t # Run
    BY <2>2, <1>1, RunIsThread DEF TInv, Room
  <2> QED BY <2>1, <2>2
<1> QED BY <1>2, <1>3, <1>4 DEF TInv

LEMMA StoresNow ==
  ASSUME TInv
  PROVE  Stores /\ \A t \in Threads : at[t] \in Frame /\ Bound(at[t])
BY DEF TInv, TypeOK, Stores, Placed

\* The ways to go on.
LEMMA GotoTyped ==
  ASSUME TInv, Stores', seq' = seq, NEW t \in Threads, NEW p \in PCs, Goto(t, p),
         p \in AtDevice => at[t].dev \in Devices,
         p \in AtCall => at[t].id \in CallIds,
         t = Run /\ Spends(p, at[t].then) => Spending(at[t]) \/ seq < MaxCalls
  PROVE  TInv'
<1> DEFINE f == [at[t] EXCEPT !.pc = p]
<1>1. at[t] \in Frame
  BY StoresNow
<1>3. f \in Frame /\ f.pc = p /\ f.dev = at[t].dev /\ f.id = at[t].id /\ f.then = at[t].then
  BY <1>1 DEF Frame
<1>4. Bound(f)
  BY <1>3 DEF Bound
<1>5. at' = [at EXCEPT ![t] = f]
  BY DEF Goto
<1> HIDE DEF f
<1>6. t = Run /\ Spending(f) => Spending(at[Run]) \/ seq < MaxCalls
  BY <1>3 DEF Spending
<1> QED BY <1>3, <1>4, <1>5, <1>6, MoveTyped

LEMMA RestTyped ==
  ASSUME TInv, Stores', seq' = seq, NEW t \in Threads, Rest(t)
  PROVE  TInv'
<1>1. Idle \in Frame /\ Bound(Idle) /\ ~Spending(Idle)
  BY DEF Idle, Frame, PCs, Bound, Spending, Spends, AtDevice, AtCall, InHand, Ending
<1> QED BY <1>1, MoveTyped DEF Rest

LEMMA EndOnTyped ==
  ASSUME TInv, Stores', seq' = seq, NEW t \in Threads, NEW d \in Devices,
         NEW then \in {"idle", "free", "bind", "sweep"}, EndOn(t, d, then),
         t = Run /\ then \in {"free", "bind"} => Spending(at[t]) \/ seq < MaxCalls
  PROVE  TInv'
<1> DEFINE f == [pc |-> "release", dev |-> d, id |-> NoCall, then |-> then]
<1>1. f \in Frame /\ Bound(f) /\ (Spending(f) => then \in {"free", "bind"})
  BY DEF Frame, PCs, Bound, Spending, Spends, AtDevice, AtCall, InHand, Ending
<1>2. at' = [at EXCEPT ![t] = f]
  BY DEF EndOn
<1> HIDE DEF f
<1> QED BY <1>1, <1>2, MoveTyped

LEMMA OnTyped ==
  ASSUME TInv, Stores', seq' = seq, NEW d \in Devices, NEW p \in PCs \ AtCall, On(Run, p, d),
         Spends(p, at[Run].then) => Spending(at[Run]) \/ seq < MaxCalls
  PROVE  TInv'
<1> DEFINE f == [at[Run] EXCEPT !.pc = p, !.dev = d]
<1>1. at[Run] \in Frame
  BY StoresNow, RunIsThread
<1>3. f \in Frame /\ f.pc = p /\ f.dev = d /\ f.then = at[Run].then
  BY <1>1 DEF Frame
<1>4. Bound(f)
  BY <1>3 DEF Bound
<1>5. at' = [at EXCEPT ![Run] = f]
  BY DEF On
<1> HIDE DEF f
<1>6. Spending(f) => Spending(at[Run]) \/ seq < MaxCalls
  BY <1>3 DEF Spending
<1> QED BY <1>3, <1>4, <1>5, <1>6, MoveTyped, RunIsThread

LEMMA WithTyped ==
  ASSUME TInv, Stores', NEW t \in Threads, NEW p \in PCs, NEW i \in CallIds \cup {NoCall},
         With(t, p, i),
         p \in AtDevice => at[t].dev \in Devices,
         p \in AtCall => i \in CallIds,
         seq' # seq => t = Run /\ ~Spends(p, at[t].then),
         t = Run /\ Spends(p, at[t].then) => Spending(at[t]) \/ seq < MaxCalls
  PROVE  TInv'
<1> DEFINE f == [at[t] EXCEPT !.pc = p, !.id = i]
<1>1. at[t] \in Frame
  BY StoresNow
<1>3. f \in Frame /\ f.pc = p /\ f.dev = at[t].dev /\ f.id = i /\ f.then = at[t].then
  BY <1>1 DEF Frame
<1>4. Bound(f)
  BY <1>3 DEF Bound
<1>5. at' = [at EXCEPT ![t] = f]
  BY DEF With
<1> HIDE DEF f
<1>6. /\ t = Run /\ Spending(f) => Spending(at[Run]) \/ seq < MaxCalls
      /\ seq' # seq => t = Run /\ ~Spending(f)
  BY <1>3 DEF Spending
<1> QED BY <1>3, <1>4, <1>5, <1>6, MoveTyped

LEMMA ProceedTyped ==
  ASSUME TInv, Stores', seq' = seq, NEW t \in Threads, at[t].pc \in Ending, Proceed(t)
  PROVE  TInv'
<1>1. CASE at[t].then = "idle"
  BY <1>1, RestTyped DEF Proceed
<1>2. CASE at[t].then # "idle"
  <2> DEFINE p == at[t].then
  <2>1. at[t] \in Frame /\ Bound(at[t])
    BY StoresNow
  <2>2. p \in {"free", "bind", "sweep"}
    BY <1>2, <2>1 DEF Frame
  <2>3. p \in PCs \ (Ending \cup AtCall)
    BY <2>2 DEF PCs, Ending, AtCall, InHand
  <2>4. at[t].dev \in Devices
    BY <2>1 DEF Bound, AtDevice
  <2>5. Spends(p, at[t].then) => Spending(at[t])
    BY <2>2 DEF Spending, Spends, Ending
  <2>6. With(t, p, NoCall)
    BY <1>2 DEF Proceed
  <2> HIDE DEF p
  <2> QED BY <2>3, <2>4, <2>5, <2>6, WithTyped
<1> QED BY <1>1, <1>2

LEMMA EndTyped ==
  ASSUME TInv, NEW t \in Threads, EndCallSteps(t)
  PROVE  TInv'
<1>0. at[t] \in Frame /\ Bound(at[t]) /\ Stores
  BY StoresNow
<1>1. CASE Release(t)
  <2>1. at[t].pc = "release" /\ at[t].pc \in Ending /\ at[t].dev \in Devices
    BY <1>0, <1>1 DEF Release, At, Bound, AtDevice, Ending
  <2>2. Stores' /\ seq' = seq
    BY <1>0, <1>1 DEF Release, Stores
  <2>3. CASE active[at[t].dev] = NoCall
    BY <1>1, <2>1, <2>2, <2>3, ProceedTyped DEF Release
  <2>4. CASE active[at[t].dev] # NoCall
    <3>1. active[at[t].dev] \in CallIds /\ active[at[t].dev] \in CallIds \cup {NoCall}
      BY <1>0, <2>1, <2>4 DEF Stores
    <3>2. With(t, "forget", active[at[t].dev])
      BY <1>1, <2>4 DEF Release
    <3>3. "forget" \in PCs /\ "forget" \in Ending
      BY DEF PCs, Ending
    <3>4. Spends("forget", at[t].then) => Spending(at[t])
      BY <2>1 DEF Spending, Spends, Ending
    <3> QED BY <2>1, <2>2, <3>1, <3>2, <3>3, <3>4, WithTyped
  <2> QED BY <2>3, <2>4
<1>2. CASE Forget(t)
  <2>1. at[t].pc \in Ending /\ at[t].pc \in AtCall /\ at[t].dev \in Devices /\ at[t].id \in CallIds
    BY <1>0, <1>2 DEF Forget, At, Bound, AtDevice, AtCall, InHand, Ending
  <2>2. Stores' /\ seq' = seq
    BY <1>0, <1>2 DEF Forget, Stores
  <2>3. "announce" \in PCs /\ "announce" \in Ending
    BY DEF PCs, Ending
  <2>4. Spends("announce", at[t].then) => Spending(at[t])
    BY <2>1 DEF Spending, Spends, Ending
  <2> QED BY <1>2, <2>1, <2>2, <2>3, <2>4, GotoTyped DEF Forget
<1>3. CASE Announce(t)
  <2>1. at[t].pc \in Ending /\ at[t].dev \in Devices /\ at[t].id \in CallIds
    BY <1>0, <1>3 DEF Announce, At, Bound, AtDevice, AtCall, InHand, Ending
  <2>2. [kind |-> "end", dev |-> at[t].dev, id |-> at[t].id] \in Events
    BY <2>1 DEF Events
  <2>3. Stores' /\ seq' = seq
    BY <1>0, <1>3, <2>2 DEF Announce, Stores
  <2> QED BY <1>3, <2>1, <2>3, ProceedTyped DEF Announce
<1> QED BY <1>1, <1>2, <1>3 DEF EndCallSteps

\* The places of the Run loop between two events.
LEMMA DispatchTyped ==
  ASSUME TInv,
         \/ Retune \/ Tune \/ Store \/ FindFree \/ FindVictim \/ LogEngineBug \/ Bind
  PROVE  TInv'
<1> USE RunIsThread
<1>0. at[Run] \in Frame /\ Bound(at[Run]) /\ Stores
  BY StoresNow
<1>1. UNCHANGED <<Shared, Local>> => Stores' /\ seq' = seq
  BY <1>0 DEF Stores, Shared, Local
<1>2. at[Run].pc \in {"retune", "tune", "store", "free", "victim", "bug", "bind"}
        => Spending(at[Run])
  BY DEF Spending, Spends
<1>3. at[Run].pc \in {"retune", "tune", "store", "bind"} => at[Run].dev \in Devices
  BY <1>0 DEF Bound, AtDevice
<1>4. {"retune", "tune", "store", "free", "victim", "bug", "bind", "insert"} \subseteq PCs \ AtCall
  BY DEF PCs, AtCall, InHand
<1>5. CASE Retune
  <2>1. Stores' /\ seq' = seq /\ at[Run].dev \in Devices /\ Spending(at[Run])
    BY <1>1, <1>2, <1>3, <1>5 DEF Retune, At
  <2>2. CASE EndOn(Run, at[Run].dev, "free")
    BY <2>1, <2>2, EndOnTyped
  <2>3. CASE With(Run, "tune", active[at[Run].dev]) /\ active[at[Run].dev] # NoCall
    <3>1. active[at[Run].dev] \in CallIds \cup {NoCall}
      BY <1>0, <2>1 DEF Stores
    <3> QED BY <1>4, <2>1, <2>3, <3>1, WithTyped
  <2> QED BY <1>5, <2>2, <2>3 DEF Retune
<1>6. CASE Tune
  <2>1. Stores' /\ seq' = seq /\ at[Run].dev \in Devices /\ Spending(at[Run])
    BY <1>1, <1>2, <1>3, <1>6 DEF Tune, At
  <2>2. CASE Goto(Run, "store")
    BY <1>4, <2>1, <2>2, GotoTyped
  <2>3. CASE EndOn(Run, at[Run].dev, "free")
    BY <2>1, <2>3, EndOnTyped
  <2> QED BY <1>6, <2>2, <2>3 DEF Tune
<1>7. CASE Store
  <2>1. Stores' /\ seq' = seq
    BY <1>0, <1>7 DEF Store, Stores, Local
  <2> QED BY <1>7, <2>1, RestTyped DEF Store
<1>8. CASE FindFree
  <2>1. Stores' /\ seq' = seq /\ Spending(at[Run])
    BY <1>1, <1>2, <1>8 DEF FindFree, At
  <2>2. CASE Goto(Run, "victim")
    <3>1. "victim" \notin AtDevice
      BY DEF AtDevice, Ending
    <3> QED BY <1>4, <2>1, <2>2, <3>1, GotoTyped
  <2>3. CASE \E d \in Devices : On(Run, "bind", d)
    BY <1>4, <2>1, <2>3, OnTyped
  <2> QED BY <1>8, <2>2, <2>3 DEF FindFree, Capable
<1>9. CASE FindVictim
  <2>1. Stores' /\ seq' = seq /\ Spending(at[Run])
    BY <1>1, <1>2, <1>9 DEF FindVictim, At
  <2>2. CASE Rest(Run)
    BY <2>1, <2>2, RestTyped
  <2>3. CASE Goto(Run, "bug")
    <3>1. "bug" \notin AtDevice
      BY DEF AtDevice, Ending
    <3> QED BY <1>4, <2>1, <2>3, <3>1, GotoTyped
  <2>4. CASE \E v \in Devices : EndOn(Run, v, "bind")
    BY <2>1, <2>4, EndOnTyped
  <2> QED BY <1>9, <2>2, <2>3, <2>4 DEF FindVictim, Capable
<1>10. CASE LogEngineBug
  BY <1>1, <1>10, RestTyped DEF LogEngineBug
<1>11. CASE Bind
  <2>1. Stores' /\ seq' = seq /\ at[Run].dev \in Devices /\ Spending(at[Run])
    BY <1>1, <1>2, <1>3, <1>11 DEF Bind, At
  <2>2. CASE Rest(Run)
    BY <2>1, <2>2, RestTyped
  <2>3. CASE Goto(Run, "insert")
    BY <1>4, <2>1, <2>3, GotoTyped
  <2> QED BY <1>11, <2>2, <2>3 DEF Bind
<1> QED BY <1>5, <1>6, <1>7, <1>8, <1>9, <1>10, <1>11

LEMMA InstallTyped ==
  ASSUME TInv, Insert \/ Mirror \/ PublishStart \/ ApplyEncryptedPolicy
  PROVE  TInv'
<1> USE RunIsThread
<1>0. at[Run] \in Frame /\ Bound(at[Run]) /\ Stores
  BY StoresNow
<1>1. at[Run].pc \in {"insert", "mirror", "start", "policy"} => at[Run].dev \in Devices
  BY <1>0 DEF Bound, AtDevice
<1>2. at[Run].pc \in {"mirror", "start"} => at[Run].id \in CallIds
  BY <1>0 DEF Bound, AtCall
<1>3. {"mirror", "start", "policy"} \subseteq PCs /\ "policy" \notin AtCall
  BY DEF PCs, AtCall, InHand
<1>4. \A p \in {"mirror", "start", "policy"} : \A then : ~Spends(p, then)
  BY DEF Spends, Ending
<1>5. CASE Insert
  <2>1. at[Run].dev \in Devices
    BY <1>1, <1>5 DEF Insert, At
  <2>2. seq < MaxCalls
    BY <1>5 DEF TInv, Room, Spending, Spends, Insert, At
  <2>3. seq + 1 \in CallIds
    BY <1>0, <2>2, LifecycleAssumption DEF Stores, CallIds
  <2>4. Stores'
    <3>1. seq' \in 0..MaxCalls
      BY <1>0, <1>5, <2>2, LifecycleAssumption DEF Stores, Insert
    <3>2. active' \in [Devices -> CallIds \cup {NoCall}]
      BY <1>0, <1>5, <2>3 DEF Stores, Insert
    <3>3. carried' \in [CallIds -> Grants \cup {NoGrant}]
      BY <1>0, <1>5, <2>3 DEF Stores, Insert
    <3> QED BY <1>0, <1>5, <3>1, <3>2, <3>3 DEF Stores, Insert, Local
  <2>5. With(Run, "mirror", seq + 1)
    BY <1>5 DEF Insert
  <2> QED BY <1>3, <1>4, <2>1, <2>3, <2>4, <2>5, WithTyped
<1>6. CASE Mirror
  <2>1. Stores' /\ seq' = seq /\ at[Run].dev \in Devices /\ at[Run].id \in CallIds
    BY <1>0, <1>1, <1>2, <1>6 DEF Mirror, At, Stores, Local
  <2> QED BY <1>3, <1>4, <1>6, <2>1, GotoTyped DEF Mirror
<1>7. CASE PublishStart
  <2>1. at[Run].dev \in Devices /\ at[Run].id \in CallIds
    BY <1>1, <1>2, <1>7 DEF PublishStart, At
  <2>2. [kind |-> "start", dev |-> at[Run].dev, id |-> at[Run].id] \in Events
    BY <2>1 DEF Events
  <2>3. Stores' /\ seq' = seq
    BY <1>0, <1>7, <2>2 DEF PublishStart, Stores, Local
  <2> QED BY <1>3, <1>4, <1>7, <2>1, <2>3, GotoTyped DEF PublishStart
<1>8. CASE ApplyEncryptedPolicy
  <2>1. Stores' /\ seq' = seq /\ at[Run].dev \in Devices
    BY <1>0, <1>1, <1>8 DEF ApplyEncryptedPolicy, At, Stores, Shared, Local
  <2>2. CASE EndOn(Run, at[Run].dev, "idle")
    BY <2>1, <2>2, EndOnTyped
  <2>3. CASE Rest(Run)
    BY <2>1, <2>3, RestTyped
  <2> QED BY <1>8, <2>2, <2>3 DEF ApplyEncryptedPolicy
<1> QED BY <1>5, <1>6, <1>7, <1>8

LEMMA EventTyped ==
  ASSUME TInv,
         \/ \E g \in Grants : HandleGrant(g)
         \/ EndSnapshot \/ Sweep \/ Cancel \/ Shutdown
         \/ \E c \in Callers, d \in Devices : EndCall(c, d)
  PROVE  TInv'
<1> USE RunIsThread
<1>0. at[Run] \in Frame /\ Bound(at[Run]) /\ Stores
  BY StoresNow
<1>1. \A p \in {"free", "sweep", "stopped"} : p \in PCs \ (AtDevice \cup AtCall)
  BY DEF PCs, AtDevice, AtCall, InHand, Ending
<1>2. \A p \in {"sweep", "stopped"} : \A then : ~Spends(p, then)
  BY DEF Spends, Ending
<1>3. CASE \E g \in Grants : HandleGrant(g)
  <2>1. PICK g \in Grants : HandleGrant(g)
    BY <1>3
  <2>2. Stores' /\ seq' = seq /\ seq < MaxCalls
    BY <1>0, <2>1 DEF HandleGrant, Stores, Shared
  <2>3. CASE Goto(Run, "free")
    BY <1>1, <2>2, <2>3, GotoTyped
  <2>4. CASE \E d \in Devices : On(Run, "retune", d)
    <3>1. "retune" \in PCs \ AtCall
      BY DEF PCs, AtCall, InHand
    <3> QED BY <2>2, <2>4, <3>1, OnTyped
  <2>5. CASE \E d \in Devices : EndOn(Run, d, "free")
    BY <2>2, <2>5, EndOnTyped
  <2> QED BY <2>1, <2>3, <2>4, <2>5 DEF HandleGrant, Duplicated, Busy
<1>4. CASE EndSnapshot
  <2>1. Stores' /\ seq' = seq
    BY <1>0, <1>4 DEF EndSnapshot, Stores, Shared, Busy
  <2> QED BY <1>1, <1>2, <1>4, <2>1, GotoTyped DEF EndSnapshot
<1>5. CASE Sweep
  <2>1. Stores' /\ seq' = seq
    BY <1>0, <1>5 DEF Sweep, Stores, Shared
  <2>2. CASE \E d \in Devices : EndOn(Run, d, "sweep")
    BY <2>1, <2>2, EndOnTyped
  <2>3. CASE Goto(Run, "stopped")
    BY <1>1, <1>2, <2>1, <2>3, GotoTyped
  <2>4. CASE Rest(Run)
    BY <2>1, <2>4, RestTyped
  <2> QED BY <1>0, <1>5, <2>2, <2>3, <2>4 DEF Sweep, Stores
<1>6. CASE Cancel
  BY <1>6 DEF Cancel, TInv, TypeOK, Placed, Room, Shared
<1>7. CASE Shutdown
  <2>1. Stores' /\ seq' = seq
    BY <1>0, <1>7 DEF Shutdown, Stores, Shared, Busy
  <2> QED BY <1>1, <1>2, <1>7, <2>1, GotoTyped DEF Shutdown
<1>8. CASE \E c \in Callers, d \in Devices : EndCall(c, d)
  <2>1. PICK c \in Callers, d \in Devices : EndCall(c, d)
    BY <1>8
  <2>2. Stores' /\ seq' = seq
    BY <1>0, <2>1 DEF EndCall, Stores, Shared, Local
  <2>3. c \in Threads /\ EndOn(c, d, "idle")
    BY <2>1 DEF EndCall, Threads
  <2> QED BY <2>2, <2>3, EndOnTyped
<1> QED BY <1>3, <1>4, <1>5, <1>6, <1>7, <1>8

LEMMA InitTyped == Init => TInv
<1> SUFFICES ASSUME Init PROVE TInv
  OBVIOUS
<1>1. Idle \in Frame /\ Bound(Idle) /\ ~Spending(Idle)
  BY DEF Idle, Frame, PCs, Bound, Spending, Spends, AtDevice, AtCall, InHand, Ending
<1>2. at \in [Threads -> Frame] /\ \A t \in Threads : at[t] = Idle
  BY <1>1 DEF Init
<1>3. TypeOK
  BY <1>2, LifecycleAssumption DEF Init, TypeOK
<1> QED BY <1>1, <1>2, <1>3, RunIsThread DEF TInv, Placed, Room

LEMMA NextTyped == TInv /\ [Next]_vars => TInv'
<1> SUFFICES ASSUME TInv, [Next]_vars PROVE TInv'
  OBVIOUS
<1>1. CASE RunStep
  BY <1>1, RunIsThread, EndTyped, DispatchTyped, InstallTyped, EventTyped DEF RunStep
<1>2. CASE \E c \in Callers : EndCallSteps(c)
  BY <1>2, EndTyped DEF Threads
<1>3. CASE UNCHANGED vars
  BY <1>3 DEF vars, TInv, TypeOK, Placed, Room
<1> QED BY <1>1, <1>2, <1>3, EventTyped DEF Next

\* Every thread always has in hand what its place needs, and a grant may only be
\* dispatched while a call number is left.
THEOREM TypedThroughout == Spec => []TInv
BY InitTyped, NextTyped, PTL DEF Spec

\* The state is well formed, and no call is ever numbered beyond the bound.
THEOREM LifecycleTypes == Spec => []TypeOK
<1>1. TInv => TypeOK
  BY DEF TInv
<1> QED BY <1>1, TypedThroughout, PTL

-----------------------------------------------------------------------------
\* Most steps matter only to the thread that takes them: they touch neither the
\* pool, the mirror nor the bus, and the thread was not ending or installing a call.
Others(t) == \A u \in Threads \ {t} : at'[u] = at[u]

Aside(t) ==
  /\ Others(t)
  /\ at[t].pc \notin InHand \cup {"mirror"}
  /\ at'[t].pc \notin InHand \cup {"insert", "mirror"}

Quiet ==
  /\ UNCHANGED <<active, calls, seq, bus>>
  /\ (\A t \in Threads : at'[t] = at[t]) \/ \E t \in Threads : Aside(t)

LEMMA Moves ==
  ASSUME TInv, NEW t \in Threads
  PROVE  /\ \A p : Goto(t, p) => /\ Others(t)
                                 /\ at'[t].pc = p /\ at'[t].dev = at[t].dev
                                 /\ at'[t].id = at[t].id
         /\ \A p, i : With(t, p, i) => /\ Others(t)
                                       /\ at'[t].pc = p /\ at'[t].dev = at[t].dev
                                       /\ at'[t].id = i
         /\ \A p, d : On(t, p, d) => Others(t) /\ at'[t].pc = p
         /\ \A d, then : EndOn(t, d, then) => Others(t) /\ at'[t].pc = "release"
         /\ Rest(t) => Others(t) /\ at'[t].pc = "idle"
<1>1. at \in [Threads -> Frame] /\ at[t] \in Frame
  BY DEF TInv, TypeOK
<1>2. ASSUME NEW p, Goto(t, p)
      PROVE  /\ Others(t) /\ at'[t].pc = p /\ at'[t].dev = at[t].dev
             /\ at'[t].id = at[t].id
  BY <1>1, <1>2 DEF Goto, Others, Frame
<1>3. ASSUME NEW p, NEW i, With(t, p, i)
      PROVE  Others(t) /\ at'[t].pc = p /\ at'[t].dev = at[t].dev /\ at'[t].id = i
  BY <1>1, <1>3 DEF With, Others, Frame
<1>4. ASSUME NEW p, NEW d, On(t, p, d)
      PROVE  Others(t) /\ at'[t].pc = p
  BY <1>1, <1>4 DEF On, Others, Frame
<1>5. ASSUME NEW d, NEW then, EndOn(t, d, then)
      PROVE  Others(t) /\ at'[t].pc = "release"
  BY <1>1, <1>5 DEF EndOn, Others, Frame
<1>6. Rest(t) => Others(t) /\ at'[t].pc = "idle"
  BY <1>1 DEF Rest, Others, Idle
<1> QED BY <1>2, <1>3, <1>4, <1>5, <1>6

LEMMA ProceedMoves ==
  ASSUME TInv, NEW t \in Threads, Proceed(t)
  PROVE  Others(t) /\ at'[t].pc \in {"idle", "free", "bind", "sweep"}
<1>1. at[t].then \in {"idle", "free", "bind", "sweep"}
  BY DEF TInv, TypeOK, Frame
<1>2. CASE at[t].then = "idle"
  BY <1>2, Moves DEF Proceed
<1>3. CASE at[t].then # "idle"
  BY <1>1, <1>3, Moves DEF Proceed
<1> QED BY <1>2, <1>3

\* What a step can be, seen from the calls.
LEMMA StepKinds ==
  ASSUME TInv, [Next]_vars
  PROVE  \/ Quiet
         \/ \E t \in Threads : Release(t) \/ Forget(t) \/ Announce(t)
         \/ Bind \/ Insert \/ Mirror \/ PublishStart
<1> USE RunIsThread DEF InHand
<1>1. ASSUME Retune \/ Tune \/ Store \/ FindFree \/ FindVictim \/ LogEngineBug
             \/ ApplyEncryptedPolicy \/ EndSnapshot \/ Sweep \/ Shutdown
             \/ \E g \in Grants : HandleGrant(g)
      PROVE  Quiet
  <2>1. UNCHANGED <<active, calls, seq, bus>>
    BY <1>1 DEF Retune, Tune, Store, FindFree, FindVictim, LogEngineBug, ApplyEncryptedPolicy,
       EndSnapshot, Sweep, Shutdown, HandleGrant, Shared
  <2>2. at[Run].pc \notin InHand \cup {"mirror"}
    BY <1>1 DEF Retune, Tune, Store, FindFree, FindVictim, LogEngineBug, ApplyEncryptedPolicy,
       EndSnapshot, Sweep, Shutdown, HandleGrant, At
  <2>3. \/ \E d, then : EndOn(Run, d, then)
        \/ Rest(Run)
        \/ \E p \in {"store", "free", "victim", "bug", "sweep", "stopped"} : Goto(Run, p)
        \/ \E p \in {"bind", "retune"} : \E d : On(Run, p, d)
        \/ \E i : With(Run, "tune", i)
    <3>1. CASE Retune
      BY <3>1, Zenon DEF Retune
    <3>2. CASE Tune
      BY <3>2 DEF Tune
    <3>3. CASE Store \/ LogEngineBug
      BY <3>3 DEF Store, LogEngineBug
    <3>4. CASE FindFree
      BY <3>4 DEF FindFree
    <3>5. CASE FindVictim
      BY <3>5 DEF FindVictim
    <3>6. CASE ApplyEncryptedPolicy \/ EndSnapshot \/ Sweep \/ Shutdown
      BY <3>6 DEF ApplyEncryptedPolicy, EndSnapshot, Sweep, Shutdown
    <3>7. CASE \E g \in Grants : HandleGrant(g)
      BY <3>7 DEF HandleGrant
    <3> QED BY <1>1, <3>1, <3>2, <3>3, <3>4, <3>5, <3>6, <3>7
  <2>4. Others(Run) /\ at'[Run].pc \notin InHand \cup {"insert", "mirror"}
    BY <2>3, Moves
  <2> QED BY <2>1, <2>2, <2>4 DEF Quiet, Aside
<1>2. ASSUME NEW c \in Callers, NEW d \in Devices, EndCall(c, d)
      PROVE  Quiet
  <2>1. c \in Threads /\ at[c].pc = "idle" /\ EndOn(c, d, "idle")
    BY <1>2 DEF EndCall, At, Threads
  <2>2. Others(c) /\ at'[c].pc = "release"
    BY <2>1, Moves
  <2> QED BY <1>2, <2>1, <2>2 DEF Quiet, Aside, EndCall, Shared
<1>3. Cancel \/ UNCHANGED vars => Quiet
  BY DEF Cancel, vars, Quiet, Shared
<1>4. ASSUME NEW c \in Callers, EndCallSteps(c)
      PROVE  c \in Threads /\ (Release(c) \/ Forget(c) \/ Announce(c))
  BY <1>4 DEF EndCallSteps, Threads
<1> QED BY <1>1, <1>2, <1>3, <1>4 DEF Next, RunStep, EndCallSteps

\* endCall, step by step.
LEMMA ReleaseEffect ==
  ASSUME TInv, NEW t \in Threads, Release(t)
  PROVE  LET d == at[t].dev
         IN /\ UNCHANGED <<calls, seq, bus>> /\ Others(t)
            /\ at[t].pc = "release" /\ d \in Devices
            /\ active' = [active EXCEPT ![d] = NoCall]
            /\ active[d] = NoCall => /\ active' = active
                                     /\ at'[t].pc \in {"idle", "free", "bind", "sweep"}
            /\ active[d] # NoCall => at'[t].pc = "forget" /\ at'[t].id = active[d]
<1>1. at[t].pc = "release" /\ at[t].dev \in Devices
  BY StoresNow DEF Release, At, Bound, AtDevice, Ending
<1>2. active' = [active EXCEPT ![at[t].dev] = NoCall] /\ UNCHANGED <<calls, seq, bus>>
  BY DEF Release
<1>3. active[at[t].dev] = NoCall => active' = active
  BY <1>1, <1>2, StoresNow DEF Stores
<1>4. CASE active[at[t].dev] = NoCall
  BY <1>1, <1>2, <1>3, <1>4, ProceedMoves DEF Release
<1>5. CASE active[at[t].dev] # NoCall
  BY <1>1, <1>2, <1>5, Moves DEF Release
<1> QED BY <1>4, <1>5

LEMMA ForgetEffect ==
  ASSUME TInv, NEW t \in Threads, Forget(t)
  PROVE  /\ UNCHANGED <<active, seq, bus>> /\ Others(t)
         /\ calls' = [calls EXCEPT ![at[t].dev] = NoCall]
         /\ at[t].pc = "forget" /\ at'[t].pc = "announce" /\ at'[t].id = at[t].id
BY Moves DEF Forget, At

LEMMA AnnounceEffect ==
  ASSUME TInv, NEW t \in Threads, Announce(t)
  PROVE  /\ UNCHANGED <<active, calls, seq>> /\ Others(t)
         /\ at[t].pc = "announce" /\ at'[t].pc \in {"idle", "free", "bind", "sweep"}
         /\ bus' = Append(bus, [kind |-> "end", dev |-> at[t].dev, id |-> at[t].id])
BY ProceedMoves DEF Announce, At

LEMMA BindEffect ==
  ASSUME TInv, Bind
  PROVE  /\ UNCHANGED <<active, calls, seq, bus>> /\ Others(Run)
         /\ at[Run].pc = "bind"
         /\ \/ at'[Run].pc = "idle"
            \/ /\ at'[Run].pc = "insert" /\ at'[Run].dev = at[Run].dev
               /\ active[at[Run].dev] = NoCall
BY Moves, RunIsThread DEF Bind, Shared, At

LEMMA InsertEffect ==
  ASSUME TInv, Insert
  PROVE  /\ UNCHANGED <<calls, bus>> /\ Others(Run)
         /\ at[Run].pc = "insert" /\ at[Run].dev \in Devices
         /\ seq < MaxCalls /\ seq' = seq + 1 /\ seq + 1 \in CallIds
         /\ active' = [active EXCEPT ![at[Run].dev] = seq + 1]
         /\ at'[Run].pc = "mirror" /\ at'[Run].dev = at[Run].dev /\ at'[Run].id = seq + 1
<1>1. at[Run].pc = "insert" /\ at[Run].dev \in Devices
  BY StoresNow, RunIsThread DEF Insert, At, Bound, AtDevice
<1>2. seq < MaxCalls
  BY <1>1 DEF TInv, Room, Spending, Spends
<1>3. seq + 1 \in CallIds
  BY <1>2, StoresNow, LifecycleAssumption DEF Stores, CallIds
<1> QED BY <1>1, <1>2, <1>3, Moves, RunIsThread DEF Insert

LEMMA MirrorEffect ==
  ASSUME TInv, Mirror
  PROVE  /\ UNCHANGED <<active, seq, bus>> /\ Others(Run)
         /\ at[Run].pc = "mirror" /\ at'[Run].pc = "start"
         /\ at[Run].dev \in Devices /\ at[Run].id \in CallIds
         /\ calls' = [calls EXCEPT ![at[Run].dev] = at[Run].id]
<1>1. at[Run].pc = "mirror" /\ at[Run].dev \in Devices /\ at[Run].id \in CallIds
  BY StoresNow, RunIsThread DEF Mirror, At, Bound, AtDevice, AtCall
<1> QED BY <1>1, Moves, RunIsThread DEF Mirror

LEMMA PublishStartEffect ==
  ASSUME TInv, PublishStart
  PROVE  /\ UNCHANGED <<active, calls, seq>> /\ Others(Run)
         /\ at[Run].pc = "start" /\ at'[Run].pc = "policy"
         /\ bus' = Append(bus, [kind |-> "start", dev |-> at[Run].dev, id |-> at[Run].id])
BY Moves, RunIsThread DEF PublishStart, At

-----------------------------------------------------------------------------
\* The device of a call to be installed, and the mirror.

\* Other steps than the Run loop's own leave the installation alone.
LEMMA InstallationKept ==
  ASSUME TInv, SInv,
         \A d \in Devices : active'[d] \in {active[d], NoCall},
         \A d \in Devices : calls'[d] \in {calls[d], NoCall},
         \/ at'[Run] = at[Run]
         \/ at[Run].pc # "mirror" /\ at'[Run].pc \notin {"insert", "mirror"}
  PROVE  SInv'
<1>1. at[Run].pc \in {"insert", "mirror"} => at[Run].dev \in Devices
  BY StoresNow, RunIsThread DEF Bound, AtDevice
<1>2. Reserved'
  BY <1>1 DEF SInv, Reserved, At
<1>3. Installing'
  BY <1>1 DEF SInv, Installing, At
<1>4. MirrorNamesLiveCall'
  BY DEF SInv, MirrorNamesLiveCall, Between, At, Busy
<1> QED BY <1>2, <1>3, <1>4 DEF SInv

LEMMA InstallationStep == TInv /\ SInv /\ [Next]_vars => SInv'
<1> SUFFICES ASSUME TInv, SInv, [Next]_vars PROVE SInv'
  OBVIOUS
<1> USE RunIsThread
<1>0. active \in [Devices -> CallIds \cup {NoCall}] /\ calls \in [Devices -> CallIds \cup {NoCall}]
  BY StoresNow DEF Stores
<1>1. CASE Quiet
  BY <1>1, InstallationKept DEF Quiet, Aside, Others
<1>2. ASSUME NEW t \in Threads, Release(t) \/ Forget(t) \/ Announce(t)
      PROVE  SInv'
  <2>1. \A d \in Devices : active'[d] \in {active[d], NoCall} /\ calls'[d] \in {calls[d], NoCall}
    BY <1>0, <1>2, ReleaseEffect, ForgetEffect, AnnounceEffect
  <2>2. \/ at'[Run] = at[Run]
        \/ at[Run].pc # "mirror" /\ at'[Run].pc \notin {"insert", "mirror"}
    BY <1>2, ReleaseEffect, ForgetEffect, AnnounceEffect DEF Others
  <2> QED BY <2>1, <2>2, InstallationKept
<1>3. CASE Bind
  BY <1>3, BindEffect DEF SInv, Reserved, Installing, MirrorNamesLiveCall, Between, At, Busy
<1>4. CASE Insert
  BY <1>0, <1>4, InsertEffect
  DEF SInv, Reserved, Installing, MirrorNamesLiveCall, Between, At, Busy
<1>5. CASE Mirror
  BY <1>0, <1>5, MirrorEffect
  DEF SInv, Reserved, Installing, MirrorNamesLiveCall, Between, At, Busy
<1>6. CASE PublishStart
  BY <1>6, PublishStartEffect, InstallationKept
<1> QED BY <1>1, <1>2, <1>3, <1>4, <1>5, <1>6, StepKinds

LEMMA InitInstallation == Init => SInv
BY RunIsThread DEF Init, Idle, SInv, Reserved, Installing, MirrorNamesLiveCall, At, Busy

\* The device the Run loop is about to fill stays free, and the call it has just
\* inserted is not replaced before it is mirrored.
THEOREM InstallationThroughout == Spec => []SInv
BY InitInstallation, InstallationStep, TypedThroughout, PTL DEF Spec

\* Whatever goroutines end calls beside the Run loop, the mirror names another call
\* than the pool only between the two steps that install one.
THEOREM MirrorNeverStale == Spec => []MirrorNamesLiveCall
<1>1. SInv => MirrorNamesLiveCall
  BY DEF SInv
<1> QED BY <1>1, InstallationThroughout, PTL

\* The pool's steps are the abstract ones: Insert begins a session, the release of
\* a device that carries a call finishes one, and nothing else is visible.
LEMMA SessionStep ==
  TInv /\ SInv /\ [Next]_vars => [Sessions!Next]_(Sessions!vars)
<1> SUFFICES ASSUME TInv, SInv, [Next]_vars
             PROVE  [Sessions!Next]_(Sessions!vars)
  OBVIOUS
<1> USE DEF Sessions!vars
<1>1. CASE Quiet \/ Bind \/ Mirror \/ PublishStart \/ \E t \in Threads : Forget(t) \/ Announce(t)
  BY <1>1, BindEffect, MirrorEffect, PublishStartEffect, ForgetEffect, AnnounceEffect DEF Quiet
<1>2. ASSUME NEW t \in Threads, Release(t)
      PROVE  [Sessions!Next]_(Sessions!vars)
  <2> DEFINE d == at[t].dev
  <2>1. d \in Devices /\ seq' = seq /\ active' = [active EXCEPT ![d] = NoCall]
    BY <1>2, ReleaseEffect
  <2>2. CASE active[d] = NoCall
    BY <1>2, <2>2, ReleaseEffect
  <2>3. CASE active[d] # NoCall
    BY <2>1, <2>3 DEF Sessions!Next, Sessions!Finish
  <2> QED BY <2>2, <2>3
<1>3. CASE Insert
  <2>1. seq \in Nat /\ 1..seq' = 1..seq \cup {seq + 1} /\ seq + 1 \notin 1..seq
    BY <1>3, InsertEffect, StoresNow, LifecycleAssumption DEF Stores
  <2>2. active[at[Run].dev] = NoCall
    BY <1>3, InsertEffect DEF SInv, Reserved, At
  <2>3. Sessions!Begin(at[Run].dev, seq + 1)
    BY <1>3, <2>1, <2>2, InsertEffect DEF Sessions!Begin
  <2> QED BY <1>3, <2>3, InsertEffect DEF Sessions!Next
<1> QED BY <1>1, <1>2, <1>3, StepKinds

\* CallLifecycle implements VoiceSessions: although Bind and Retune let the pool's lock
\* go, a device is only given to a call while it is free, and no call comes back.
THEOREM ImplementsSessions == Spec => KeepsSessions
<1>1. Init => Sessions!Init
  BY DEF Init, Sessions!Init
<1> QED BY <1>1, SessionStep, TypedThroughout, InstallationThroughout, PTL
        DEF Spec, KeepsSessions, Sessions!Spec

-----------------------------------------------------------------------------
\* One CallEnd per call: a call is in the pool, in the hands of the one thread that
\* took it out, or over, and only on the way from the second to the third published.

LEMMA EndsKept ==
  ASSUME TInv, EInv, seq' = seq,
         \A d \in Devices : active'[d] \in {active[d], NoCall},
         \A t \in Threads : at'[t].pc \in InHand =>
                              at[t].pc \in InHand /\ at'[t].id = at[t].id,
         \/ bus' = bus
         \/ \E e \in Events : e.kind = "start" /\ bus' = Append(bus, e)
  PROVE  EInv'
<1>1. Issued' /\ Exclusive'
  BY DEF EInv, Issued, Exclusive, Busy
<1>2. HandedOver'
  BY DEF EInv, HandedOver, Busy
<1>3. Over'
  <2>1. /\ bus \in Seq(Events)
        /\ \A i \in 1..Len(bus') : bus'[i].kind = "end" => i \in 1..Len(bus) /\ bus'[i] = bus[i]
    BY StoresNow DEF Stores
  <2> SUFFICES ASSUME NEW i \in 1..Len(bus'), bus'[i].kind = "end"
               PROVE  /\ bus'[i].id \in 1..seq'
                      /\ \A d \in Busy' : active'[d] # bus'[i].id
                      /\ \A t \in Threads : at'[t].pc \in InHand => at'[t].id # bus'[i].id
                      /\ \A j \in 1..Len(bus') :
                           bus'[j].kind = "end" /\ bus'[j].id = bus'[i].id => j = i
    BY DEF Over
  <2>2. i \in 1..Len(bus) /\ bus'[i] = bus[i] /\ bus[i].kind = "end"
    BY <2>1
  <2> QED BY <2>1, <2>2 DEF EInv, Over, Busy
<1> QED BY <1>1, <1>2, <1>3 DEF EInv

LEMMA ReleaseEnds ==
  ASSUME TInv, EInv, NEW t \in Threads, Release(t)
  PROVE  EInv'
<1> DEFINE d == at[t].dev
<1>0. active \in [Devices -> CallIds \cup {NoCall}] /\ seq' = seq /\ bus' = bus /\ d \in Devices
  BY ReleaseEffect, StoresNow DEF Stores
<1>1. CASE active[d] = NoCall
  <2>1. \A u \in Threads : at'[u].pc \in InHand => at[u].pc \in InHand /\ at'[u].id = at[u].id
    BY <1>1, ReleaseEffect DEF Others, InHand
  <2> QED BY <1>0, <1>1, <2>1, ReleaseEffect, EndsKept
<1>2. CASE active[d] # NoCall
  <2>1. /\ Others(t) /\ at[t].pc \notin InHand /\ at'[t].pc \in InHand /\ at'[t].id = active[d]
        /\ active' = [active EXCEPT ![d] = NoCall]
    BY <1>2, ReleaseEffect DEF InHand
  <2>2. Busy' = Busy \ {d} /\ d \in Busy /\ \A e \in Busy' : active'[e] = active[e]
    BY <1>0, <1>2, <2>1 DEF Busy
  <2>3. Issued' /\ Exclusive'
    BY <1>0, <2>2 DEF EInv, Issued, Exclusive
  <2>4. \A e \in Busy' : active'[e] # active[d]
    BY <2>2 DEF EInv, Exclusive
  <2>5. \A u \in Threads \ {t} : at[u].pc \in InHand => at[u].id # active[d]
    BY <2>2 DEF EInv, HandedOver
  <2>6. HandedOver'
    BY <1>0, <2>1, <2>2, <2>4, <2>5 DEF EInv, HandedOver, Issued, Others
  <2>7. Over'
    BY <1>0, <2>1, <2>2 DEF EInv, Over, Others
  <2> QED BY <2>3, <2>6, <2>7 DEF EInv
<1> QED BY <1>1, <1>2

LEMMA AnnounceEnds ==
  ASSUME TInv, EInv, NEW t \in Threads, Announce(t)
  PROVE  EInv'
<1> DEFINE e == [kind |-> "end", dev |-> at[t].dev, id |-> at[t].id]
<1>1. /\ UNCHANGED <<active, seq>> /\ Others(t)
      /\ at[t].pc \in InHand /\ at'[t].pc \notin InHand
      /\ bus' = Append(bus, e)
  BY AnnounceEffect DEF InHand
<1>2. bus \in Seq(Events) /\ e \in Events
  BY <1>1, StoresNow DEF Stores, Bound, AtDevice, AtCall, InHand, Ending, Events
<1>3. /\ Len(bus') = Len(bus) + 1 /\ Len(bus) \in Nat /\ bus'[Len(bus) + 1] = e
      /\ \A i \in 1..Len(bus) : bus'[i] = bus[i]
  BY <1>1, <1>2
<1>4. e.kind = "end" /\ e.id = at[t].id
  OBVIOUS
<1> HIDE DEF e
<1>5. Issued' /\ Exclusive' /\ HandedOver'
  BY <1>1 DEF EInv, Issued, Exclusive, HandedOver, Others, Busy
<1>6. /\ e.id \in 1..seq
      /\ \A d \in Busy : active[d] # e.id
      /\ \A u \in Threads \ {t} : at[u].pc \in InHand => at[u].id # e.id
      /\ \A i \in 1..Len(bus) : bus[i].kind = "end" => bus[i].id # e.id
  BY <1>1, <1>4 DEF EInv, HandedOver, Over
<1>7. Over'
  <2> SUFFICES ASSUME NEW i \in 1..Len(bus'), bus'[i].kind = "end"
               PROVE  /\ bus'[i].id \in 1..seq'
                      /\ \A d \in Busy' : active'[d] # bus'[i].id
                      /\ \A u \in Threads : at'[u].pc \in InHand => at'[u].id # bus'[i].id
                      /\ \A j \in 1..Len(bus') :
                           bus'[j].kind = "end" /\ bus'[j].id = bus'[i].id => j = i
    BY DEF Over
  <2>1. Busy' = Busy
    BY <1>1 DEF Busy
  <2>2. CASE i \in 1..Len(bus)
    BY <1>1, <1>3, <1>6, <2>1, <2>2 DEF EInv, Over, Others
  <2>3. CASE i = Len(bus) + 1
    BY <1>1, <1>3, <1>6, <2>1, <2>3 DEF Others
  <2> QED BY <1>3, <2>2, <2>3
<1> QED BY <1>5, <1>7 DEF EInv

LEMMA InsertEnds ==
  ASSUME TInv, EInv, Insert
  PROVE  EInv'
<1>0. active \in [Devices -> CallIds \cup {NoCall}] /\ seq \in Nat
  BY StoresNow, LifecycleAssumption DEF Stores
<1>1. /\ bus' = bus /\ Others(Run) /\ seq' = seq + 1 /\ at[Run].dev \in Devices
      /\ active' = [active EXCEPT ![at[Run].dev] = seq + 1]
      /\ at[Run].pc \notin InHand /\ at'[Run].pc \notin InHand
  BY InsertEffect DEF InHand
<1>2. seq + 1 \notin 1..seq /\ 1..seq \subseteq 1..seq'
  BY <1>0, <1>1
<1>3. Busy' \subseteq Busy \cup {at[Run].dev}
  BY <1>0, <1>1 DEF Busy
<1>4. \A d \in Busy' : \/ active'[d] = seq + 1 /\ d = at[Run].dev
                       \/ d \in Busy /\ active'[d] = active[d] /\ active[d] \in 1..seq
  BY <1>0, <1>1, <1>3 DEF EInv, Issued
<1>5. Issued' /\ Exclusive'
  BY <1>0, <1>1, <1>2, <1>4 DEF EInv, Issued, Exclusive
<1>6. HandedOver'
  BY <1>1, <1>2, <1>4 DEF EInv, HandedOver, Others
<1>7. Over'
  BY <1>1, <1>2, <1>4 DEF EInv, Over, Others
<1> QED BY <1>5, <1>6, <1>7 DEF EInv

LEMMA EndsStep == TInv /\ EInv /\ [Next]_vars => EInv'
<1> SUFFICES ASSUME TInv, EInv, [Next]_vars PROVE EInv'
  OBVIOUS
<1> USE RunIsThread DEF InHand
<1>1. CASE Quiet
  BY <1>1, EndsKept DEF Quiet, Aside, Others
<1>2. CASE Bind
  BY <1>2, BindEffect, EndsKept DEF Others
<1>3. CASE Mirror
  BY <1>3, MirrorEffect, EndsKept DEF Others
<1>4. CASE PublishStart
  <2>1. at[Run].dev \in Devices /\ at[Run].id \in CallIds
    BY <1>4, PublishStartEffect, StoresNow DEF Bound, AtDevice, AtCall
  <2>2. [kind |-> "start", dev |-> at[Run].dev, id |-> at[Run].id] \in Events
    BY <2>1 DEF Events
  <2>3. \A t \in Threads : at'[t].pc \in InHand => at[t].pc \in InHand /\ at'[t].id = at[t].id
    BY <1>4, PublishStartEffect DEF Others
  <2>4. \E e \in Events : e.kind = "start" /\ bus' = Append(bus, e)
    BY <1>4, <2>2, PublishStartEffect
  <2> QED BY <1>4, <2>3, <2>4, PublishStartEffect, EndsKept
<1>5. ASSUME NEW t \in Threads, Forget(t)
      PROVE  EInv'
  BY <1>5, ForgetEffect, EndsKept DEF Others
<1> QED BY <1>1, <1>2, <1>3, <1>4, <1>5, ReleaseEnds, AnnounceEnds, InsertEnds, StepKinds

LEMMA InitEnds == Init => EInv
BY DEF Init, Idle, EInv, Issued, Exclusive, HandedOver, Over, Busy, InHand

\* A set without two different members has at most one.
LEMMA AtMostOne ==
  ASSUME NEW S, \A x, y \in S : x = y
  PROVE  Cardinality(S) <= 1
<1>1. CASE S = {}
  BY <1>1, FS_EmptySet
<1>2. CASE S # {}
  <2>1. PICK x \in S : TRUE
    BY <1>2
  <2>2. S = {x}
    BY <2>1
  <2> QED BY <2>2, FS_Singleton
<1> QED BY <1>1, <1>2

\* A call is in the pool, or in one thread's hands, or over, and never in two of them.
THEOREM EndsThroughout == Spec => []EInv
BY InitEnds, EndsStep, TypedThroughout, PTL DEF Spec

\* However many goroutines set out to end a call, its CallEnd is published once.
THEOREM OneEndPerCall == Spec => []EndedOnce
<1>1. EInv => EndedOnce
  BY AtMostOne DEF EInv, Over, EndedOnce, Published
<1> QED BY <1>1, EndsThroughout, PTL
=============================================================================
