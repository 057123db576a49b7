----------------------------- MODULE SdrRecovery -----------------------------
(***************************************************************************)
(* How an SDR that drops off the USB bus comes back. The device is held    *)
(* through a handle, which claims its USB interface: a device has one live *)
(* handle at most, and a handle dies when it is closed or the device is    *)
(* unplugged. The decoder streams through a broker that points at a        *)
(* handle. When its stream ends, the daemon's retry loop waits, reacquires *)
(* the device through the pool, points the broker at the new handle and    *)
(* runs the decoder again; after too many failures the daemon gives up, so *)
(* that its supervisor restarts it. Beside it the pool's watchdog looks at *)
(* the bus now and then and reacquires a device it has seen go and return. *)
(* The two do not know of each other: Pool.Reacquire locks the pool only   *)
(* to read and to replace the handle.                                      *)
(***************************************************************************)
EXTENDS Integers, FiniteSets

CONSTANTS
  Handles,   \* names of handles, re-used when nobody refers to one any more
  Budget,    \* the number of backoffs: ccDecoderRetryBackoffs
  MaxFaults, \* bound on the times the device is unplugged or its stream breaks
  MaxErrors, \* bound on the calls into the driver that fail with the device there
  None       \* no handle

VARIABLES
  plugged,   \* the device is on the bus
  faults,    \* faults that may still come
  errors,    \* calls into the driver that may still fail
  live,      \* the handle that claims the device, or None
  device,    \* the handle of the pool's entry
  inner,     \* the handle the broker points at
  stream,    \* the handle the decoder streams from, or None
  pc,        \* where the retry loop is
  attempt,   \* its count of attempts
  at,        \* [Users -> where in Reacquire it is]
  old,       \* [Users -> the handle it found in the pool]
  new,       \* [Users -> the handle it opened]
  missing,   \* the watchdog has seen the device gone
  shown,     \* the last event about the device was KindSDRAttached
  shorts,    \* history: runs under 10 s since the last of 60 s, up to Budget
  calm       \* history: nothing has come between the retry's start and now

bus == <<plugged, faults, errors>>
refs == <<device, inner, stream>>
loop == <<pc, attempt, shorts>>
reacquire == <<at, old, new>>
vars == <<bus, live, refs, loop, reacquire, missing, shown, calm>>

Users == {"loop", "dog"}

Step == {"idle", "begun", "found", "released", "opened", "programmed", "swapped"}

RunLength == {"short", "progress", "healthy"}

ASSUME SdrAssumption ==
  /\ None \notin Handles
  /\ IsFiniteSet(Handles) /\ Cardinality(Handles) >= 8
  /\ Budget \in Nat \ {0} /\ MaxFaults \in Nat /\ MaxErrors \in Nat

Running == pc # "fatal"

Streaming == pc = "run" /\ stream # None /\ stream = live

\* No handle but the pool's claims the device.
Reachable == live \in {None, device}

InUse == {live, device, inner, stream} \cup {old[p] : p \in Users} \cup {new[p] : p \in Users}

Fresh == CHOOSE h \in Handles : h \notin InUse

-----------------------------------------------------------------------------
\* Pool.Reacquire, by the retry loop or by the watchdog.

\* The user gets an error, or the refreshed entry.
Return(p, next) ==
  /\ at' = [at EXCEPT ![p] = "idle"]
  /\ old' = [old EXCEPT ![p] = None]
  /\ new' = [new EXCEPT ![p] = None]
  /\ pc' = IF p = "loop" THEN next ELSE pc

\* The entry is read under the pool's lock.
FindEntry(p) ==
  /\ Running /\ at[p] = "begun"
  /\ at' = [at EXCEPT ![p] = "found"]
  /\ old' = [old EXCEPT ![p] = device]
  /\ UNCHANGED <<bus, live, refs, loop, new, missing, shown, calm>>

\* That handle is closed, whoever uses it; closing a dead one does nothing.
Release(p) ==
  /\ Running /\ at[p] = "found"
  /\ at' = [at EXCEPT ![p] = "released"]
  /\ live' = IF live = old[p] THEN None ELSE live
  /\ shown' = FALSE
  /\ UNCHANGED <<bus, refs, loop, old, new, missing, calm>>

\* A call into the driver fails though the device is there: "permissions race, USB bus busy".
DriverFails == errors > 0 /\ errors' = errors - 1

\* Enumerate and Open: another live handle claims the interface and Open fails.
Open(p) ==
  /\ Running /\ at[p] = "released"
  /\ \/ /\ plugged /\ live = None
        /\ live' = Fresh
        /\ new' = [new EXCEPT ![p] = Fresh]
        /\ at' = [at EXCEPT ![p] = "opened"]
        /\ UNCHANGED <<errors, old, pc, calm>>
     \/ /\ plugged /\ live = None /\ DriverFails
        /\ Return(p, "rebuild")
        /\ calm' = FALSE /\ UNCHANGED live
     \/ /\ ~(plugged /\ live = None)
        /\ Return(p, "rebuild")
        /\ UNCHANGED <<errors, live, calm>>
  /\ UNCHANGED <<plugged, faults, refs, attempt, shorts, missing, shown>>

\* SetSampleRate must reach the device; if not, the new handle is closed. The settings after
\* it only log their failures.
Program(p) ==
  /\ Running /\ at[p] = "opened"
  /\ \/ /\ new[p] = live
        /\ at' = [at EXCEPT ![p] = "programmed"]
        /\ UNCHANGED <<errors, live, old, new, pc, calm>>
     \/ /\ new[p] = live /\ DriverFails
        /\ Return(p, "rebuild")
        /\ live' = None /\ calm' = FALSE
     \/ /\ new[p] # live
        /\ Return(p, "rebuild")
        /\ UNCHANGED <<errors, live, calm>>
  /\ UNCHANGED <<plugged, faults, refs, attempt, shorts, missing, shown>>

\* The new handle replaces the entry's, whatever that is by now.
Swap(p) ==
  /\ Running /\ at[p] = "programmed"
  /\ at' = [at EXCEPT ![p] = "swapped"]
  /\ device' = new[p]
  /\ UNCHANGED <<bus, live, inner, stream, loop, old, new, missing, shown, calm>>

PublishAttached(p) ==
  /\ Running /\ at[p] = "swapped"
  /\ shown' = TRUE
  /\ Return(p, "point")
  /\ UNCHANGED <<bus, live, refs, attempt, shorts, missing, calm>>

Reacquire(p) ==
  FindEntry(p) \/ Release(p) \/ Open(p) \/ Program(p) \/ Swap(p) \/ PublishAttached(p)

-----------------------------------------------------------------------------
\* The retry loop.

\* Defect: a run that made progress is credited nothing.
CreditNoDecay(length) == IF length = "healthy" THEN 0 ELSE attempt

\* A long run resets the count, one that made progress takes one off.
Credit(length) ==
  IF length = "healthy" THEN 0
  ELSE IF length = "progress" /\ attempt > 0 THEN attempt - 1
  ELSE attempt

\* Defect: the schedule is read one past its end before the loop gives up.
RunEndsLate(length) ==
  /\ stream' = None
  /\ shorts' = CASE length = "healthy" -> 0
                 [] length = "progress" -> shorts
                 [] OTHER -> IF shorts < Budget THEN shorts + 1 ELSE shorts
  /\ IF Credit(length) > Budget
     THEN pc' = "fatal" /\ attempt' = Credit(length)
     ELSE pc' = "wait" /\ attempt' = Credit(length) + 1

\* A run is over: the next backoff, or the end.
RunEnds(length) ==
  /\ stream' = None
  /\ shorts' = CASE length = "healthy" -> 0
                 [] length = "progress" -> shorts
                 [] OTHER -> IF shorts < Budget THEN shorts + 1 ELSE shorts
  /\ IF Credit(length) >= Budget
     THEN pc' = "fatal" /\ attempt' = Credit(length)
     ELSE pc' = "wait" /\ attempt' = Credit(length) + 1

\* The stream of the running decoder has ended; only its length tells how it went.
StreamEnds ==
  /\ pc = "run" /\ ~Streaming
  /\ \E length \in RunLength : RunEnds(length)
  /\ calm' = FALSE
  /\ UNCHANGED <<bus, live, device, inner, reacquire, missing, shown>>

BackoffElapses ==
  /\ pc = "wait"
  /\ pc' = "acquire"
  /\ at' = [at EXCEPT !["loop"] = "begun"]
  /\ calm' = (plugged /\ at["dog"] = "idle" /\ Reachable)
  /\ UNCHANGED <<bus, live, refs, attempt, shorts, old, new, missing, shown>>

\* Defect: the broker keeps the handle it has.
PointNowhere ==
  /\ pc = "point"
  /\ pc' = "rebuild"
  /\ UNCHANGED <<bus, live, refs, attempt, shorts, reacquire, missing, shown, calm>>

\* SetInner with the entry's handle, read without the pool's lock.
PointBroker ==
  /\ pc = "point"
  /\ inner' = device
  /\ pc' = "rebuild"
  /\ UNCHANGED <<bus, live, device, stream, attempt, shorts, reacquire, missing, shown, calm>>

\* Defect: an open that fails is not reported as a closed stream, and the loop ends.
RunDecoderOnce ==
  /\ pc = "rebuild"
  /\ pc' = IF inner = live THEN "run" ELSE "ended"
  /\ stream' = IF inner = live THEN inner ELSE None
  /\ calm' = FALSE
  /\ UNCHANGED <<bus, live, device, inner, attempt, shorts, reacquire, missing, shown>>

\* The rebuilt decoder opens its stream on the broker's handle. One that cannot be opened
\* is a run that ended at once.
RunDecoder ==
  /\ pc = "rebuild"
  /\ IF inner = live
     THEN stream' = inner /\ pc' = "run" /\ UNCHANGED <<attempt, shorts>>
     ELSE RunEnds("short")
  /\ calm' = FALSE
  /\ UNCHANGED <<bus, live, device, inner, reacquire, missing, shown>>

LoopStep == StreamEnds \/ BackoffElapses \/ PointBroker \/ RunDecoder \/ Reacquire("loop")

-----------------------------------------------------------------------------
\* The watchdog.

\* A device that is not listed is announced as gone, one that is listed again is reacquired,
\* once. A driver that cannot enumerate lists nothing, and only logs its error.
Tick ==
  /\ Running /\ at["dog"] = "idle"
  /\ missing' = ~missing
  /\ calm' = FALSE
  /\ \/ /\ missing /\ plugged
        /\ at' = [at EXCEPT !["dog"] = "begun"]
        /\ UNCHANGED <<errors, shown>>
     \/ /\ ~missing
        /\ IF plugged THEN DriverFails ELSE UNCHANGED errors
        /\ shown' = FALSE /\ UNCHANGED at
  /\ UNCHANGED <<plugged, faults, live, refs, loop, old, new>>

DogStep == Tick \/ Reacquire("dog")

-----------------------------------------------------------------------------
\* The hardware.

Unplug ==
  /\ plugged /\ faults > 0
  /\ plugged' = FALSE /\ faults' = faults - 1
  /\ live' = None /\ calm' = FALSE
  /\ UNCHANGED <<errors, refs, loop, reacquire, missing, shown>>

Replug ==
  /\ ~plugged
  /\ plugged' = TRUE
  /\ UNCHANGED <<faults, errors, live, refs, loop, reacquire, missing, shown, calm>>

\* The transfers fail and the stream ends, with the device still there.
StreamBreaks ==
  /\ Streaming /\ faults > 0
  /\ faults' = faults - 1
  /\ stream' = None
  /\ UNCHANGED <<plugged, errors, live, device, inner, loop, reacquire, missing, shown, calm>>

-----------------------------------------------------------------------------
Init ==
  /\ plugged = TRUE /\ faults = MaxFaults /\ errors = MaxErrors
  /\ live = (CHOOSE h \in Handles : TRUE)
  /\ device = live /\ inner = live /\ stream = live
  /\ pc = "run" /\ attempt = 0 /\ shorts = 0
  /\ at = [p \in Users |-> "idle"]
  /\ old = [p \in Users |-> None] /\ new = [p \in Users |-> None]
  /\ missing = FALSE /\ shown = TRUE /\ calm = FALSE

Next == LoopStep \/ DogStep \/ Unplug \/ Replug \/ StreamBreaks

Spec == Init /\ [][Next]_vars

\* Both goroutines run on and waits end; the device owes nothing, and no driver has to fail.
FairSpec == Spec /\ WF_vars(LoopStep) /\ WF_vars(DogStep /\ UNCHANGED errors)

-----------------------------------------------------------------------------
\* Properties.

\* The state is well formed, and the count stays within the schedule of backoffs.
TypeOK ==
  /\ plugged \in BOOLEAN /\ faults \in 0..MaxFaults /\ errors \in 0..MaxErrors
  /\ live \in Handles \cup {None} /\ (live # None => plugged)
  /\ device \in Handles /\ inner \in Handles /\ stream \in Handles \cup {None}
  /\ pc \in {"run", "wait", "acquire", "point", "rebuild", "fatal"}
  /\ attempt \in 0..Budget /\ shorts \in 0..Budget
  /\ at \in [Users -> Step]
  /\ old \in [Users -> Handles \cup {None}] /\ new \in [Users -> Handles \cup {None}]
  /\ missing \in BOOLEAN /\ shown \in BOOLEAN /\ calm \in BOOLEAN
  /\ pc = "acquire" <=> at["loop"] # "idle"

\* However the device goes and returns and however the loop and the watchdog get into each
\* other's way: once it stays on the bus the decoder streams again for good, or the daemon
\* has given up and is restarted. It is never left without a stream and without an error
\* (issue #345, daemon.go:4330-4333).
StreamRecovers == <>[]plugged => <>[](Streaming \/ pc = "fatal")

\* The daemon gives up only after as many runs of under 10 s as there are backoffs, however
\* many longer ones ended in between: a stream that streams for a while each time does not
\* use the budget up (daemon.go:4345-4361).
FatalNeedsFailures == pc = "fatal" => shorts >= Budget

\* A retry during which the device stays on the bus, no call into the driver fails and the
\* watchdog stays out ends in a stream and shows the device as attached, whatever the attempts
\* before it, and the watchdog's, have left behind: dead handles in the entry or the broker,
\* or a live one in the entry that the broker has not heard of (pool.go:725-740). Only a live
\* handle that the entry has lost, when a swap overtook another, is beyond its reach (calm).
CalmRetryHeals ==
  [][pc = "rebuild" /\ calm /\ pc' # pc => pc' = "run" /\ Streaming' /\ shown']_vars

\* "A device that was always present and is still present is left alone (no spurious
\* reacquires on healthy hardware)"; "the in-stream IQ-death retry still owns the in-use
\* case" (watchdog.go:27-29, 35-37): the watchdog never closes a handle the decoder
\* streams from.
InUseLeftAlone == [][Streaming /\ Release("dog") => Streaming']_vars
=============================================================================
