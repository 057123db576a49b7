# A verification of GopherTrunk's trunking core

GopherTrunk listens to the control channels of trunked radio systems and spends a
handful of software-defined radios ("voice devices", "taps") on the calls they
announce. One engine (`src/internal/trunking`) decides, for every event of every system,
which device follows which call and when it lets go. Around it run the parts that share
its hardware and its calls: the recorder and the voice chains, the hunt for control
channels, the scanner of conventional channels, the pool of SDRs with its watchdog and
the retry loops of the daemon, each in goroutines of its own. This directory holds TLA+
models of these parts, TLC configurations that check them on small instances, and proofs
that hold for every instance.

    tlc -workers 2 -config lifecycle.cfg MCCallLifecycle     # one run
    tlapm VoiceDispatchProofs.tla                            # the proofs; likewise the
                                                             # other *Proofs modules

## 1. Inventory

| Component | State | Operations | Meets others through | What is hard | What makes it correct |
|---|---|---|---|---|---|
| **Engine, dispatch** (`trunking/engine.go` from line 775, `priority.go`, `grant.go`) | `calls` (mirror of the pool), `heldGrants`, the `heldFlush` queue | duplicate guard, in-place handoff, TETRA supersede / fold / hold, allocation, preemption, encrypted-call policy, in-call handlers, watchdog, shutdown | bus events in and out, calls into the voice pool | one grant may end one call and start another; map-order ties; timers that fire late; three different paths choose a device | one device per logical call; calls only on reachable carriers; events account for the pool; preemption is the last resort; encrypted and silent calls give the device back; parked notifications are resolved |
| **Voice pool** (`trunking/voicepool.go`) | `active`, `callSeq` | `Bind`, `Retune`, `Release`, `Touch`, selection, backfills, armed releases | a mutex, released around tuning | `Bind` and `Retune` look before the gap and act after it | a device carries one call, a call that ended stays ended |
| **Call lifecycle** (`Engine.startCall`, `endCall`, `EndCall`) | the pool, its mirror, the bus: three locks | ending from the Run loop, a voice chain's hangtime, the API | shared memory | any two enders of a call, an ender and a starter | one `CallEnd` per call, every call reported by shutdown |
| **Engine, learning and gates** (`engine.go` 625-773, `holdavoid.go`, `patch.go`, `scanmode.go`, `talkgroup.go`) | `knownRadios`, `pendingTETRADiscovery`, the talkgroup DB, `observed`, hold, avoids, scan mode, patches | learning radios, discovery, lockout, hold/avoid, scan list, encrypted gate | operator calls on API goroutines | radios and talkgroups share one number space; each gate has its own exceptions; gates are separate lock acquisitions | a radio is never shown as a talkgroup; the gates together say what the operator wants; emergencies pass |
| **Event bus** (`events/bus.go`) | bounded buffer per subscriber | `Publish`, `Subscribe` | everyone | a full buffer drops the event | - |
| **Recorder** (`voice/recorder.go`) | `sessions` and `pendingFinalize` per serial, drain timers | start, end, drain complete, drain timeout, re-key, segments, encryption update, teardown | bus, composer callbacks, timers | end, drain signal, timeout and next start in any order on one serial, events dropped | a file holds its own call's audio; an over is announced once; the tail is kept; a late end spares the next call; what has ended is finished |
| **Composer** (`voice/composer`) | a chain per serial, boundary trackers | start, end and replace chains, drain signal, hangtime | bus, `Touch`, `EndCall`, recorder | the chain of an old call acts on the serial of a new one | a chain that drains is reported to the call it served |
| **Control-channel hunt** (`scanner/cchunt`, `trunking/cchunt.go`, `scanner/ccdecoder`) | state, hold, backoff per system; the armed retune; the lock cache | rounds, dwells, camps, parks; lock and loss; hold, resume, force retune, pause, swap tuner | bus, one tuner, the decoder's pipelines | round results against lock events, stale locks, holds in the middle of a round | every system has its turn; a held one has none; a park ends when its channel dies |
| **Conventional scanner** (`scanner/conventional/scanner.go`, `storage/convlockouts.go`) | channel list, lockouts, rotation, dwell, forced channel, the store | scan window, dwell and hangtime, priority visits; hold, lock out, tune, remove; restart | engine's synthetic calls, API goroutines, the store | the list shifts under a scan window; calls ended by three parties; store written off the lock | no call outlives its dwell; no channel starves; blips hold none open; lockouts survive a restart |
| **SDR pool and USB watchdog** (`sdr/pool.go`, `sdr/watchdog.go`), **IQ broker**, **the daemon's retry loop** | the entry's handle, the broker's handle, `missing`, the count of attempts | reacquire (find, close, open, program, swap), tick, backoff, rebuild | one USB interface that one handle can claim | two users of `Reacquire` that do not know of each other, faults at every step | a stream comes back or the daemon gives up; it gives up only after enough failures |
| **Broadcast manager**, **trackers**, **storage**, **API/TUI**, **decoders and DSP**, **rest of the daemon** | see PROJECT.json | | | | |

`PROJECT.json` lists every component with its status, and under `hazards` the places
where the code is hard to test, each at its line, with the property that covers it or
the reason why none does.

## 2. Modules

```
TrunkGrants ─────────┬── VoiceDispatch ──┬── MCDispatchP25    dispatch_p25
 (grants, priority)  │                   ├── MCDispatchTetra  dispatch_tetra
                     │                   └── VoiceDispatchProofs ── DispatchEventsProofs
                     └── GrantGate ──────┬── MCGrantGate      gates
                                         └── GrantGateProofs
VoiceSessions <= CallLifecycle ──┬────────── MCCallLifecycle  lifecycle
 (abstract)      (detailed)      └────────── CallLifecycleProofs
Recordings <= RecorderDrain ─────┬────────── MCRecorderDrain  recorder, orphaned
 (abstract)   (detailed)         └────────── RecorderDrainProofs
CCHunt ──────────────────────────┬────────── MCCCHunt         hunt, dead_park
 (hunt, listener, decoder)       └────────── CCHuntProofs
ConvScan ────────────────────────┬────────── MCConvScan       conv, vfo
 (scanner, callers, store)       └────────── ConvScanProofs
SdrRecovery ─────────────────────┬────────── MCSdrRecovery    sdr, watchdog_steals
 (retry loop, watchdog, pool)    └────────── SdrRecoveryProofs
```

**TrunkGrants** is the shared vocabulary: the fields of `Grant` and `TalkGroup` the
decisions read, `EffectivePriority` and `CanPreempt`, and the equalities the engine
uses (same logical call, same physical channel, TETRA notification). A nil talkgroup
equals one without priority and lockout for every decision modelled.

**VoiceDispatch** is the Run loop against the pool, one action per handler of
`Engine.Run`. `active` is `pool.active`, each call with its grant, its talkgroup, the
ticks since its last touch (`idle`), whether it was ever touched (`heard`, which selects
the watchdog's reason) and the countdown of its armed release (`enc`, the
`EncryptedReleaseAt` field). `held` and `flushq` are `heldGrants` and the `heldFlush`
channel. `HandleGrant` follows the order of the code: duplicate guard (`Refresh`,
`Follow`, `Rebind`), `Supersede`, `FoldOrAllocate`, `Allocate`, `PreemptOrDrop`,
`StartCall` with the policy that runs at its end. `out` holds what the step published
about calls: this is where a subscriber's view can be compared with the pool. In this
module a handler is atomic; what runs between its locks is CallLifecycle's subject.

**CallLifecycle** has the same life of a call at the granularity of locks: every step
lies between two lock operations, or a lock operation and a publication. The Run loop
and each caller of `EndCall` have a program counter (`at`). The pool, the engine's
mirror `calls` and the bus are three variables, because they are three locks. Which
call a grant belongs to is an input here (`grp`, `prio`, `deny`), since VoiceDispatch
decides it.

**VoiceSessions** is what the pool promises whatever runs beside it: a device carries at
most one call, a call gets a free device, a finished call never comes back. It is the
abstract specification CallLifecycle implements (`Sessions`, with `session <- active`
and `begun <- 1..seq`).

**GrantGate** is the first half of `HandleGrant`, up to the duplicate guard: learning
radios, discovering talkgroups, lockout, hold and avoid, scan list, encrypted gate, the
list of calls on the air. The turn of the Run loop is split where the code reads state
the operator can change in between (`learn`, `gate`, `list`); the operator's calls are
actions of their own. What it lets through (`out`) is what `AdmitGrant` of VoiceDispatch
takes; what it drops is `RejectGrant`.

**RecorderDrain** composes the three readers of a call's life: the engine publishes, bus
subscriptions of capacity `Buffer` drop what does not fit, recorder and composer take
their events one by one, and a safety timer stands behind each ended call. `sessions` and
`pending` are `Recorder.sessions` and `pendingFinalize`, keyed by the device as in the
code; `rec` and `comp` say what the two goroutines have in hand between two holds of the
recorder's lock; `late` and `fired` are the timer goroutines. A call's `kind` says what
the recorder can see of it: whether it is recorded, has a CallID, names itself with each
frame, and whether its `CallEnd` overtakes its `CallStart` (which CallLifecycle shows to
happen). `endCall` is two steps, as in the code: `EndCall` releases the device, `PublishEnd`
tells the bus (`leaving` holds the calls in between), so that the next `CallStart` on a
serial may precede the `CallEnd` of the call before it. Boundaries and encryption updates
(`Announce`) name a device and may come after the `CallEnd` as well.

**Recordings** is what a reader of `CallComplete` may rely on: a call gets at most one
recording, its overs follow each other one by one, each is announced at most once, when it
is over and only with audio, and a recording that has ended never comes back. RecorderDrain
implements it (`Promise`), with `fresh <- MayOpen`: the calls that have not started, whose
`CallStart` is still queued, or for which the recorder is about to open a session.

**CCHunt** is the supervisor's loop, the hunter it calls (`Hunt`), the listener, the
decoder and the operator on one SDR. `pc`, `cursor` and `todo` are the loop and its
round; `inbox` is what the listener has not read; `heard` is what the hunter's own
subscription holds. The decoder is modelled as far as the hunt feels it: it builds a
pipeline for the last announced attempt, which reports a lock once and, in systems with a
watchdog (`Watched`), the loss.

**ConvScan** is the scanner's goroutine (`run`), any number of API goroutines (`api`), the
engine's synthetic call for the scanner's device (`call`) and the lockout store. A
channel is its place in the list, because that is how the code names it, and the list
shifts when a manual channel is removed. `Restart` starts the scanner again from the
store.

**SdrRecovery** follows one device through unplugging and failure. A handle that claims
the USB interface is `live`; pool entry (`device`), broker (`inner`), decoder (`stream`)
and each user of `Reacquire` refer to handles that may be dead. The retry loop of the
daemon and the pool's watchdog run `Reacquire` step by step beside each other.

The operators whose comment begins with "Defect:" are not part of any specification.
Each is a plausible bug in the operator that follows it, and shows that the property it
is listed with can tell the two apart.

### What is abstracted

- A frequency, radio or talkgroup is a small number; zero means absent, as in the code.
- Time is countdowns and ages moved by `Tick`; the comparisons with "now" become
  comparisons with zero or with `CallTimeout`.
- `splitTx` (per-transmission segments) is on. Signal and demodulator measurements, the
  slots, reasons and times of observed calls, and the synthetic calls of the
  conventional scanner are left out.
- `SourceUpdate`'s priority field is left out: with the emergency flag already in the
  update it moves no decision modelled here.
- The talkgroup of a call is the directory's entry when the grant is dispatched.
- Tuning is a step that may fail on the devices in `Flaky` (CallLifecycle: on any
  device); the reacquire-and-retry of `Bind` is part of that step.
- In CallLifecycle the bus is a reliable log in publication order; RecorderDrain has its
  buffers and drops.
- In GrantGate the second read of the hold and the read of the scan mode are one step.
- RecorderDrain: drain coordination is on, as the daemon enables it. Closing a file and
  announcing it is one step, and so are the two locks of an audio write. Why a call is not
  recorded (disabled, duplicate, encrypted, `record=false`) is one flag of its kind.
  Events the composer reads past take no room in its buffer. A `CallEnd` that overtakes its
  own `CallStart` is published right before it; a boundary or update is put down to the last
  call on its device, since the recorder reads nothing but the serial. What a subscription
  holds when its reader returns is discarded. Loss tracking, talker lists and file names are
  left out.
- CCHunt: a window is counted, its length is not. The bus drops nothing; `Inbox` bounds
  what waits. Samples queued before a retune are not modelled, and the decoder takes the
  latest attempt announced.
- ConvScan: one chunk of samples is one unit of time, active or not; a failing tune or
  stream is one step. A publication and the engine's bookkeeping for it are one step.
  Gains, tone and data detectors, the onset mark and the displayed state are left out,
  and so are write errors of the store.
- SdrRecovery: one device, whose broker exists. A run has one of three lengths; the
  backoffs have none. `ccdecoder.New` does not fail, so that only the budget is fatal. A
  call into the driver that fails with the device there (`DriverFails`: enumerate, open, set
  the sample rate) is a fault of its own, bounded by `MaxErrors`.

## 3. Runs

| Run | Question | States | Result |
|---|---|---|---|
| `dispatch_p25` | P25: who gets a device, who loses it, what is published, when encrypted and silent calls give the device back | 105,433 | holds |
| `dispatch_tetra` | TETRA: parking, superseding, folding: no two calls on one channel; holds are resolved | 24,000 | holds |
| `lifecycle` | lock-level interleavings: sessions, one end per call, the mirror, shutdown | 52,349 | holds |
| `gates` | what is learned, which grants pass, with an operator in between | 3.4 million | holds |
| `recorder` | two calls on one serial: one recording per call, whose audio, is the tail kept, is a live call spared, does it finish | 465,169 | holds |
| `hunt` | two systems, one SDR: nobody starves, a held system is left alone, camps and parks | 381,528 | holds |
| `conv` | scan, dwell, API and store: places, calls, lockouts, starvation, hangtime | 334,553 | holds |
| `sdr` | retry loop against watchdog: the stream comes back, or the daemon gives up for cause | 786,595 | holds |
| `orphaned` | "A call finalizes once BOTH its KindCallEnd ... and the composer's NotifyDrainComplete have arrived" (`recorder.go:181-184`) | - | violated |
| `dead_park` | "parkUntilUnlocked returns as soon as the state leaves StateLocked, which ... (cc.lost) drives on real loss" (`supervisor.go:219-220`) | - | violated |
| `watchdog_steals` | "The in-stream IQ-death retry ... still owns the in-use case" (`watchdog.go:36-37`) | - | violated |
| `vfo` | "This is fine for the v1 manual-tune flow" (`scanner.go:1431-1432`) | - | violated |

The last four each check one sentence of the source that the code does not keep; the
`findings` of PROJECT.json quote the line and describe the counterexample.

- *orphaned*: a call that is not recorded ends on the serial where another one still
  drains; its `CallEnd` replaces the one that waits, the drain signal that comes next is
  taken for a stale one, and the first recording stays open.
- *dead_park*: a lock is recorded after its round has failed and the next system is being
  hunted; the loop comes round and parks on a channel that nothing receives.
- *watchdog_steals*: the retry loop has recovered a device by the time the watchdog acts
  on having seen it gone, and closes the handle the decoder streams from.
- *vfo*: the one manual channel is removed while the scanner listens for its squelch to
  break; the scanner then writes past the end of its list. The goroutine panics, which
  `Daemon.spawn` turns into a recorded fatal and a shutdown (`daemon.go:4558-4563`).

### Bounds, and why they are enough

*dispatch_p25.* Two devices with windows {1,2} and {2,3}: carrier 2 is the contested
one, a call that moves from 1 to 3 leaves its device's window, and both handoff and
rebind occur. Device 2 may fail to tune. A system in metadata mode with one configured
key and one in ignore mode; one talkgroup of priority 3 above two without a priority,
and an emergency. Each timeout is one tick, the smallest value for which "armed",
"counting" and "due" differ. A third device adds no new kind of choice: the selection
looks for a minimum and a maximum, which two elements exercise, and the identity and
window invariants are proved for any number.

*dispatch_tetra.* Two taps that reach both carriers, one slot, a page, an authoritative
grant on either carrier and a second group: every pair of {notification, group grant}
meets on one channel in every order. `CallTimeout = 0` because ageing is `dispatch_p25`'s
subject. `FlushCap = 2` is one slot per channel, so the flush queue never overflows;
an overflow loses a flush (`engine.go:547`, section 5). The code's capacity is 64.

*lifecycle.* Two devices, one of them limited to carrier 1, two callers of `EndCall`
beside the Run loop, at most `MaxCalls = 2` calls in a behaviour. Two calls are what the
known races need: a call and the successor that takes its device. `MaxCalls` is a
guard of `HandleGrant`, so that the last call can still end and the shutdown run.

*gates.* A TETRA and a DMR system whose numbers collide (5 is a TETRA group and a DMR
patch, 8 a TETRA radio and a DMR talkgroup), caps of two radios and one pending
discovery so that both caps are reached, one hold per scope kind, one patch, and avoids of the patch
and of its member: alone, an avoided patch is still followed, together they are not.

*recorder.* One device, because sessions, pending ends and chains of two devices never
meet; two calls on it, of every pair of three kinds (fenced, conventional, overtaken by its
end; the proofs cover every kind, and `orphaned` has the calls that are not recorded), one
segment or encryption event, and buffers of two, so that events are lost. `orphaned` has
room for every event, so that no drop explains it.

*hunt.* A trunked system whose decoder has a watchdog and a conventional one, which camps,
with one channel each; the backoff window reaches its cap; one event waits for the
listener. Liveness over two systems needs no second candidate, which `dead_park` has (with
the cache, which can reorder them). The operator acts at any time, without a bound.

*conv.* An ordinary and a priority channel, up to two manual ones, two callers, and three
calls or restarts in a behaviour: lock, unlock, restart; or add, add, remove; or a lockout
that overlaps another. A hangtime of two and a debounce of one chunk tell a blip from
activity.

*sdr.* A budget of four attempts, four faults and one driver call that fails with the device
there: the budget can be used up by failures and can also be refilled by runs in between.
`watchdog_steals` has no driver error, so that its counterexample is about the stale mark. Eight handles are all that can be referred to
at once, so that a handle is never re-used while somebody still has it.

`CHECK_DEADLOCK FALSE` throughout: the engine stops after its shutdown, the daemon may
give up, a scanner may fail, and a bounded behaviour runs out of calls.

### Fairness, and why the code justifies it

- VoiceDispatch: weak fairness of `RunWatchdog`, `FlushHeldGrant`, `HoldTimer` and
  `Tick`. The ticker of `Engine.Run` never stops, `time.AfterFunc` fires, and Go's
  `select` picks among ready cases at random, so a case that stays ready is taken. No
  fairness is given to grants, updates, `Touch` or `EndCall`: a control channel may fall
  silent and a chain may never decode.
- CallLifecycle: weak fairness of the Run loop's own steps and of a caller inside
  `endCall`, since goroutines make progress; strong fairness of `Shutdown`, because the
  cancelled context is ready at *every* return to the `select`, but not in between.
  Cancellation itself is never forced.
- RecorderDrain: weak fairness of the recorder's, the composer's and the timers' steps:
  both goroutines read their subscriptions in a loop, a cancelled chain ends, and
  `time.AfterFunc` fires. No call has to end, no chain has to write.
- CCHunt: weak fairness of the loop, the listener, the decoder's switch and its report of a
  loss (a watchdog timer), and of the end of each backoff. A lock is never owed, nor is
  anything by the operator. `UnattendedSpec` is the same without an operator.
- ConvScan: weak fairness of the scanner's goroutine, whose stream stalls are noticed by
  `StreamStallTimeout`, and of an API call once it has begun. No carrier has to drop and no
  caller has to call.
- SdrRecovery: weak fairness of the retry loop and of the watchdog's ticks. The device owes
  nothing; its faults are bounded, since a device that fails for ever is never recovered,
  and no fairness forces a driver to fail.

## 4. Proofs

`VoiceDispatchProofs` proves of `VoiceDispatch!Spec`, for any values of the constants
that satisfy `GrantsAssumption` and `DispatchAssumption`:

- `TypeCorrect`: `[]TypeOK`, including the types of the published events and the
  capacity of the flush queue;
- `OneDevicePerCall`: `[]OneCallPerTalkgroup`;
- `WithinReach`: `[]CallInsideWindow`.

The inductive invariant is

    IInv == TypeOK /\ OneCallPerTalkgroup /\ CallInsideWindow /\ OwnChannel(held)

The first three are not inductive by themselves. A flush re-dispatches a parked grant,
and the window of the call it may start follows only if that grant still has a
frequency, which is what `OwnChannel` adds: a notification waits under its own channel,
whose frequency is never zero. The argument is about pools. A handler that keeps every
remaining call in its place (system, talkgroup, slot, carrier) keeps a good pool good,
however many calls it edits or releases (`KeptPool`); only `StartCall` and `Follow` add
a place. For `StartCall` the duplicate guard must have shown that no call with the
grant's identity remains (`StartedPool`), and that fact is carried down from `Dispatch`
through `Rebind`, `Supersede`, `FoldOrAllocate`, `Allocate` and `PreemptOrDrop`, all of
which only remove calls. `Follow` keeps the identity and asks `CanTune` (`FollowGood`).

`DispatchEventsProofs` adds, from the same invariant, what a step tells its subscribers:

- `EventsTellThePool`: `Spec => EventsAccountForPool`;
- `PreemptionsAreJustified`: `Spec => PreemptionIsLastResort`;
- `WindowsAreKept`: `Spec => MetadataWindowNeverExtended`;
- `TetraChannelsClear`: `[]TetraStartsOnClearChannel`.

Every handler but the dispatch of a grant edits and ends calls where they are (`EditStep`),
and the four follow from one description of such a step. A grant is followed from stage to
stage. Until `StartCall` it can only end calls, so the pool a stage passes on is the pool of
the step's beginning without the calls whose ends are among the events it passes on
(`Cleared`). That is why `StartCall` finds its device free or announces the end of the
call it replaces, and why the search for a victim, which looks at this smaller pool, is
right about the pool the step began with: a device that is missing in it has published its
end. The victim's place in the order of priorities (`Outranks`) is the only arithmetic. TLC checks
`EventsAccountForPool` on the P25 instance; for the TETRA paths the theorem stands alone.

The assumptions say that the constants have the shapes the code gives them: identities,
devices and frequencies are numbers, frequencies are not zero, what the control channel
announces are grants, the two markers are not values of the sets they mark.

`CallLifecycleProofs` proves of `CallLifecycle!Spec`, for any number of devices, callers,
grants and calls:

- `LifecycleTypes`: `[]TypeOK`;
- `ImplementsSessions`: `Spec => Sessions!Spec`, the refinement `lifecycle` checks;
- `MirrorNeverStale`: `[]MirrorNamesLiveCall`;
- `OneEndPerCall`: `[]EndedOnce`.

There are three invariants, one above the other.

- `TInv`: the types, and that a thread has a device or a call in hand whenever the place
  it is at needs one (`Placed`). The Run loop never has the last call number behind it
  when it sets out to start a call (`Room`).
- `SInv`: `Insert` takes a device without looking, so it maps to `Begin` only because the
  device is still free there. `Reserved` says so: what `Bind` saw still holds at
  `Insert`, because only the Run loop inserts. `Installing` says the same of the call it
  is about to mirror, which gives `MirrorNamesLiveCall`.
- `EInv`: a call is in the pool of one device (`Issued`, `Exclusive`), or in the hands of
  the one thread that took it out (`HandedOver`), or its end is published and it is
  neither (`Over`). `EndedOnce` follows from the last. It says *at most* once; that the
  end comes at all is liveness and stays with TLC (`ShutdownReportsEveryCall`).

Most steps touch nothing of this (`Quiet`); the few that do have a lemma each that says
what they change.

`GrantGateProofs` proves of `GrantGate!Spec`, for any catalogue, grants, patches, operator
settings and caps:

- `GateTypes`: `[]TypeOK`, with the caps on radios and pending discoveries;
- `RadiosStayRadios`: `[]RadiosAreNotTalkgroups`;
- `GatesAreFaithful`: `Spec => GatesDecideAsWanted`;
- `EmergenciesPass`: `Spec => EmergencyPassesGates`.

All that a grant teaches is learned in one step, so `LearnEffect` says once what that step
does to each learned set. For the gates, `Current` says how far a turn nobody disturbed
has come: what it looked up is still what there is, and the gates behind it have passed.

`RecorderDrainProofs` proves of `RecorderDrain!Spec`, for any number of devices, calls and
events, and any buffer:

- `RecorderTypes`: `[]TypeOK`;
- `FenceHolds`: `[]FencedAudio`;
- `OversOnce`: `[]OversAnnouncedOnce`;
- `LateEndsSpareLiveCalls`: `Spec => LiveCallsKeepRecording`;
- `TailsAreRecorded`: `Spec => TailRecorded`;
- `ImplementsRecordings`: `Spec => Promise!Spec`, the refinement `recorder` checks.

`Typed` adds to the types that every call somebody has in hand has been started. An over is
announced once because a session's segment number is above everything announced for its
call, and because a call has one session in its life: its `CallStart` is in the queue, in
the recorder's hands or behind. A late end spares the live call because of `OverInv`: every
`CallEnd` that is queued, pending or in somebody's hands belongs to a call the engine has
let go, and the calls of one device either all have CallIDs or all have none, so
`finalizeCall` can tell them apart. The state of the files does not enter: a session that
waits for its first frame is spared as well. What could still close it is the `CallStart` of
another call, whose session replaces it; `InOrder` excludes that: a device serves its calls in
the order of their numbers and their sessions are opened in that order, so that no call
opens one after the session of the call on the air.

`TailRecorded` needs to know where a call's events are, in two queues, four pairs of hands
and the entry that waits (`TailInv`). A call's `CallEnd` is in the composer's subscription
at most once and, unless it overtook the start, behind its `CallStart` (`Ordered`). Hence a
composer that has taken it has only the chain left to wait for (`Composing`), a drain
signal that has been kept means that the composer is through with that call for good
(`Signalled`, `Through`), and so is it when the recorder finalizes on one (`Finalizing`). For
the calls whose end overtakes their start the signal comes first and means nothing; there the
session is opened after the recorder has taken the `CallEnd`, so that no `CallEnd` is
left to meet the signal (`Overtaken`).

For `ImplementsRecordings`, `FileStep` lists what a step can do to the files: nothing, open,
write, roll, close, close all. Each is a step of Recordings once it is known that the call
whose session is opened had none before and leaves `MayOpen` with it: its `CallStart` is in
the subscription at most once (`StartsOnce`).

`CCHuntProofs` proves of `CCHunt!Spec`, for any systems, candidates and caps:

- `HuntTypes`: `[]TypeOK`;
- `HuntSound`: `[]Sound`, which says where the loop is, that a round has a retune armed and
  a candidate in hand, and that every window keeps its cap;
- `CampsStayCamped`: `Spec => CampedUntilTraffic`. A round that starts on a camped system
  leaves its state alone, and only a system that camps ends a round without failing.

That the candidates of a round are a list of the system's channels is a fact about a
recursive function: `Without` drops the cached channel from the list that `HuntOrder` puts
it in front of. It is proved by induction on the length of the list. The library's induction
theorems take an operator as a parameter, which the provers cannot instantiate; `Induction`
states the principle for a set of naturals instead, and follows from the fact that every
non-empty set of them has a least element.

`SdrRecoveryProofs` proves of `SdrRecovery!Spec`, for any budget and any number of faults
and driver errors:

- `RecoveryTypes`: `[]TypeOK`. A fresh handle exists because the pool, the broker, the
  stream and the two users refer to seven at most;
- `GivesUpOnFailures`: `[]FatalNeedsFailures`, from the bound `attempt <= shorts + 1`, or
  its equal at the edge of the budget;
- `UndisturbedRetryHeals`: `Spec => CalmRetryHeals`, by following what a calm retry has
  achieved at each of its steps.

`ConvScanProofs` proves of `ConvScan!Spec`, for any scan list, manual channels and callers:

- `ScannerTypes`: `[]TypeOK`, which says that no place the scanner keeps between two steps
  dangles;
- `CallsEndWithTheDwell`: `[]CallNeedsDwell`;
- `LockoutsAreRemembered`: `[]LockoutsPersist`.

The last needs two strengthenings. `SeedsInPlace`: the channels of the configuration keep
their places, because only places behind them are ever removed. `StoreFollows`: the store
agrees with the list, or exactly one caller is on its way to the store with what the list
says. Two callers on their way at once make a frequency `unsettled`, and nothing is said of
it until a call for it runs alone, or the scanner restarts.

Only model-checked:

- liveness: `MetadataCallsReleased`, `SilentCallsReaped`, `HoldsResolved`,
  `ShutdownReportsEveryCall`, `DrainingFinishes`, `EverySystemHunted`, `HeldIsLeftAlone`,
  `WatchedChannelIsLeft`, `StreamRecovers`, `EveryChannelScanned`, `DwellReleases`; the
  prover has no rules for fairness.

Every other property of the passing runs, invariants, action properties and the two
refinements, is a theorem above.

## 5. Known divergences without a run

Met while reading. Either no sentence of the source promises the opposite, or the sentence
is quoted here and the run is left to the findings above.

### Engine and pool

- "Emergency grants ... bypass the policy" (`engine.go:744-746`), but
  `applyEncryptedPolicy` (`engine.go:1436`) does not ask for the emergency bit.
- "mirror of pool.active for fast access" (`engine.go:69`): between the two locks the mirror
  lags behind the pool (`engine.go:1481`), and the branch called "unreachable unless the
  active-tracking invariant broke" (`engine.go:997`) is reached when the last call ends
  between the two searches.
- "leave every other protocol's decoded classification untouched" (`engine.go:643-644`), but
  what TETRA grants taught as radios is read for every protocol (`engine.go:678`, `760`).
- "A HELD talkgroup bypasses the list too" (`engine.go:722`): the hold is read a second time,
  and an operator who releases it in between has the grant dropped by the list.
- "a physical channel + timeslot hosts exactly one call" (`engine.go:909`): the in-place
  handoff (`engine.go:833-843`) returns before the fold, so two taps can come to record one
  transmission.
- `Retune` replaces the stored grant (`voicepool.go:311`), so a compressed handoff grant
  erases a source RID that was known; it applies no encrypted-call policy either
  (`engine.go:842`), until the next in-call update.
- `heldFlush` carries a channel, not a notification: a queued key whose notification was
  cancelled flushes the next one parked there early (`engine.go:546`). A full `heldFlush`
  loses a flush (`engine.go:547`).
- In ignore mode the gate lets a system with configured keys through, and the policy ends
  the call at once when the grant carries no key identity that is configured.
- A `Bind` that fails after a preemption leaves the victim ended and the new call unstarted,
  and when the first free device fails to tune no other is tried (`voicepool.go:233-251`).
- The watchdog ends a call with reason `normal` if it was ever touched, and a repeat
  grant touches it although no frame was decoded.
- `EndCall(serial)` ends the successor when the device was re-used in the meantime, and an
  `EndCall` between `Insert` and `PublishStart` publishes `CallEnd` before `CallStart`; the
  composer's comment (`composer.go:1313`) takes the other order for granted.
- The patch registry is keyed by super-group alone (`patch.go:53`); `ObservedCalls` hands
  out the live entries (`engine.go:1387`).

### Recorder and composer

- "Engine should have ended the prior call first" (`composer.go:696`, `recorder.go:1025`):
  `endCall` releases the device (`engine.go:1477`) before it publishes (`engine.go:1484`), so
  `CallStart` 2 can precede `CallEnd` 1. The recorder then closes the first call's session
  unannounced, and the composer, told of end 1, cancels the chain it finds on the serial,
  the second call's (`composer.go:817`), whose remaining audio is lost.
- A drain timer that has fired while its stop is under way finalizes whatever ended call
  waits on its serial by then (`recorder.go:1845`) and can cut that call's tail.
- Only P25 Phase 1 names its call with each frame (`p25p1_voice.go:282`,
  `WriteRawFrameForCall`). The chains of DMR (`dmr_voice.go:550`), dPMR, D-STAR, NXDN, P25
  Phase 2, TETRA and YSF do not, so a chain that drains late writes into the successor's
  file, which `recorder.go:1059-1061` says the fence prevents.
- Encryption updates and backfills find the session by its serial alone
  (`recorder.go:1158`), and so do boundary events of another call.
- A composer that replaces a chain signals no drain (`composer.go:695`); the recording waits
  for the timer.
- A `CallStart` that its own `CallEnd` has overtaken opens a session nobody ends before the
  serial is re-used; a CallID of zero matches every drain signal.

### Control-channel hunt

- A lock recorded between `startRound` and `markFailed` is overwritten by the failure
  (`supervisor.go:390`), and the edge-triggered decoder does not report it again.
- "On success a system parks until cc.lost" (`cchunt/types.go:4-5`): only the TETRA
  pipelines notice a silent carrier (`ccdecoder/pipelines.go:981`,
  `widebandt2/tetra.go:158`), so the park of any other protocol outlives its channel.
  `WatchedChannelIsLeft` therefore speaks of `Watched` systems only.
- The announced backoff is up to twice the one waited, at the cap. `Hold` does not stop the
  round under way. `PauseAll` and `SwapTuner` miss a round that is about to arm its retune,
  and a `ForceRetune` between the hunt's end and `markFailed` is lost.
- A loss without a frequency matches every system without a lock; of two systems that list
  one channel the map's order picks the one that locks.

### SDR pool and watchdog

- Two swaps can overtake each other: the entry forgets a live handle, which keeps the
  interface claimed (`pool.go:845`; reached in SdrRecovery with two unplugs). Every later
  open fails and the daemon gives up after its budget.
- "A device that was always present and is still present is left alone"
  (`watchdog.go:27-29`): an `Enumerate` error is only logged (`watchdog.go:65-70`), the
  driver's devices count as missing for that tick, and the next one reacquires them.
- A failed reacquire of the watchdog is not retried at the next tick, since `missing` is
  cleared first (`watchdog.go:103-112`). A device that goes and returns between two ticks
  goes unnoticed unless it streams. `Detached` can be published after the other's
  `Attached`.
- The credit for a run with progress (`daemon.go:4345-4361`) is used up by the attempt the
  end of that run itself costs; a device whose every flap costs one failed reopen as well
  climbs to the limit although it recovers each time.
- `newEntry.Device` is read without the pool's lock.

### Conventional scanner

- A lockout of the channel that is dwelt on ends its call, but the scanner stays there,
  without a call, until the hangtime is over ("takes effect within one IQ chunk",
  `LockoutChannel`). The displayed `Held` is lost when a dwell begins or ends.
- A removal shifts `dwellIndex`, while the end of the dwell compares it with the old place:
  it stays, and a later lockout or removal at that place ends another channel's call. The
  detectors and squelch times are found by the old place too.
- `RemoveTemporaryChannel` checks, unlocks and locks again: a dwell that begins in between
  loses its channel without its call being ended first, and two removals of one place take
  two channels away.
- Lockout requests that overlap reach the store in either order, so a restart can forget a
  lockout ("a locked channel is never dwelt on even once after a restart",
  `scanner.go:569-571`): hence `unsettled` in `LockoutsPersist`. The store is keyed by the
  frequency, which channels can share, and keeps the lockouts of manual channels.
- The `CallEnd` of a synthetic call has no CallID and may close the next call's session.

## 6. Plan

Done: all modules of section 2, their runs and proofs. What could follow:

1. **TrunkEngine**: GrantGate composed with VoiceDispatch, so that lockout, hold and
   policy are stated about devices and not only about grants.
2. Abstract specifications of the hunt (one tuner, whose turn it is) and of `Reacquire`
   (one claim on the interface), as VoiceSessions and Recordings are for the pool and the
   recorder.
3. The broadcast manager's queue with its retries.

## 7. Not modelled

Decoders and signal processing are numeric and announce the events that are inputs here.
Trackers, the call log and the database record what is published and decide nothing. API
handlers and terminal screens turn requests into the operator's actions of the models; the
rest of them is rendering. Configuration, wiring and file formats of the daemon are
sequential. The broadcast manager is downstream of the recorder and shares no state with
what is modelled.
