------------------------------- MODULE CCHunt -------------------------------
(***************************************************************************)
(* The control-channel hunt. One SDR serves every configured system: the   *)
(* supervisor's loop walks the systems round-robin, tunes the candidates of *)
(* each in turn and dwells on them, and parks on the first system that     *)
(* locks. A listener goroutine turns the decoder's cc.locked and cc.lost   *)
(* into the systems' states, which the loop reads between its steps. The   *)
(* operator holds, resumes and forces retunes, and the daemon swaps the    *)
(* tuner, at any time. The decoder follows the hunt by its own             *)
(* subscription: it builds a pipeline for the system and frequency under   *)
(* attempt, which reports a lock once, until it loses it.                  *)
(*                                                                         *)
(* Every step of the loop is one hold of the supervisor's lock, or one     *)
(* operation of the hunter that others can observe.                        *)
(***************************************************************************)
EXTENDS Integers, Sequences, FiniteSets

CONSTANTS
  Order,       \* the systems, in the order of the configuration
  Candidates,  \* [Systems -> sequence of control channels]
  Camps,       \* systems on a channel that is silent between transmissions
  Watched,     \* systems whose pipeline notices that the carrier went silent
  MaxBackoff,  \* the cap of the backoff window; the first window is 1
  Cached,      \* the hunter keeps its locks in a cache
  Inbox,       \* bound on the events that wait for the listener
  None         \* no frequency, no pipeline

VARIABLES
  state,       \* [Systems -> HuntState]
  held,        \* [Systems -> BOOLEAN]: heldByOp
  lockedFreq,  \* [Systems -> frequency or None]: lockedFreqHz
  window,      \* [Systems -> 1..MaxBackoff]: backoffWindow
  due,         \* [Systems -> BOOLEAN]: the wait after the last failure is over
  cache,       \* [Systems -> frequency or None]: the last lock the hunter cached
  pc,          \* where the loop is
  cursor,      \* index of the loop's system
  todo,        \* candidates the hunter has not given up
  heard,       \* the hunter's subscription holds the lock it waits for
  retune,      \* retuneCh of the loop's system: "none", "armed", "closed"
  inbox,       \* events the listener has not read
  asked,       \* the last hunt progress published
  tuned,       \* the frequency the SDR is on, or None
  on,          \* the pipeline the decoder runs, or None
  lock         \* that pipeline: "none", "locked" and reported, or locked and "silent"

systems == <<state, held, lockedFreq, window, due>>
hunter == <<cache, asked, tuned>>
loop == <<pc, cursor, todo, heard, retune, hunter>>
decoder == <<on, lock>>
others == <<inbox, decoder>>
vars == <<systems, loop, others>>

Systems == {Order[i] : i \in 1..Len(Order)}

CandidateSet(s) == {Candidates[s][i] : i \in 1..Len(Candidates[s])}

Freqs == UNION {CandidateSet(s) : s \in Systems}

HuntState == {"Idle", "Hunting", "Locked", "Failed", "Camped", "Held"}

Attempt == [sys : Systems, freq : Freqs]

ASSUME HuntAssumption ==
  /\ Order \in Seq(Systems) /\ Order # <<>>
  /\ Candidates \in [Systems -> Seq(Freqs)]
  /\ \A s \in Systems : Candidates[s] # <<>>
  /\ Camps \subseteq Systems /\ Watched \subseteq Systems /\ Cached \in BOOLEAN
  /\ MaxBackoff \in Nat \ {0} /\ Inbox \in Nat \ {0}
  /\ None \notin Freqs

-----------------------------------------------------------------------------
\* The system whose turn it is.
Cur == Order[cursor]

Following == IF cursor = Len(Order) THEN 1 ELSE cursor + 1

\* The channels of list but f, in their order.
Without(list, f) ==
  LET kept[i \in 0..Len(list)] ==
        IF i = 0 THEN <<>>
        ELSE IF list[i] = f THEN kept[i - 1] ELSE Append(kept[i - 1], list[i])
  IN kept[Len(list)]

\* The last lock first, if it is still a candidate.
HuntOrder(s) ==
  IF cache[s] \in CandidateSet(s)
  THEN <<cache[s]>> \o Without(Candidates[s], cache[s]) ELSE Candidates[s]

\* Defect: a held system is known by its state.
IsHeldByState(s) == state[s] = "Held"

IsHeld(s) == held[s]

IsLocked(s) == state[s] = "Locked" /\ ~held[s]

BackingOff(s) == state[s] = "Failed" /\ ~due[s]

-----------------------------------------------------------------------------
\* The supervisor's loop.

\* A held system or one that is backing off loses its turn.
Top ==
  /\ pc = "top"
  /\ IF IsHeld(Cur) \/ BackingOff(Cur)
     THEN cursor' = Following /\ UNCHANGED pc
     ELSE pc' = "check" /\ UNCHANGED cursor
  /\ UNCHANGED <<systems, todo, heard, retune, hunter, others>>

\* A system that has locked behind the loop's back is parked, not hunted.
CheckLocked ==
  /\ pc = "check"
  /\ pc' = IF IsLocked(Cur) THEN "parked" ELSE "start"
  /\ UNCHANGED <<systems, cursor, todo, heard, retune, hunter, others>>

\* Defect: a camped system is hunted like any other.
StartRoundAfresh ==
  /\ pc = "start"
  /\ state' = [state EXCEPT ![Cur] = "Hunting"]
  /\ todo' = HuntOrder(Cur) /\ retune' = "armed" /\ pc' = "try"
  /\ UNCHANGED <<held, lockedFreq, window, due, cursor, heard, hunter, others>>

\* startRound, armRetune, and the candidates of Hunt.
StartRound ==
  /\ pc = "start"
  /\ state' = [state EXCEPT ![Cur] = IF @ = "Camped" THEN @ ELSE "Hunting"]
  /\ todo' = HuntOrder(Cur) /\ retune' = "armed" /\ pc' = "try"
  /\ UNCHANGED <<held, lockedFreq, window, due, cursor, heard, hunter, others>>

\* Hunt's next candidate: announced, then tuned; a tune that fails goes on to the next.
TryNext ==
  /\ pc = "try" /\ todo # <<>>
  /\ asked' = [sys |-> Cur, freq |-> Head(todo)]
  /\ \/ tuned' = Head(todo) /\ pc' = "tuned" /\ UNCHANGED todo
     \/ todo' = Tail(todo) /\ UNCHANGED <<pc, tuned>>
  /\ UNCHANGED <<systems, cursor, heard, retune, cache, others>>

\* What the subscription holds by then is stale: drainSubscription.
Drain ==
  /\ pc = "tuned"
  /\ heard' = FALSE /\ pc' = "dwell"
  /\ UNCHANGED <<systems, cursor, todo, retune, hunter, others>>

\* Defect: a round that is over is followed by another of the same system.
EndRoundAgain(next) ==
  /\ pc' = next /\ UNCHANGED cursor
  /\ retune' = "none" /\ todo' = <<>> /\ heard' = FALSE

\* The end of a round the hunter wins, cancels, or exhausts.
EndRound(next) ==
  /\ pc' = next /\ cursor' = IF next = "top" THEN Following ELSE cursor
  /\ retune' = "none" /\ todo' = <<>> /\ heard' = FALSE

\* The lock arrives within the dwell: the loop parks, whatever the listener knows.
Win ==
  /\ pc = "dwell" /\ heard
  /\ cache' = [cache EXCEPT ![Cur] = IF Cached THEN Head(todo) ELSE @]
  /\ EndRound("parked")
  /\ UNCHANGED <<systems, asked, tuned, others>>

\* The timer and the lock may be ready together; either is taken.
DwellTimeout ==
  /\ pc = "dwell"
  /\ todo' = Tail(todo) /\ pc' = "try" /\ heard' = FALSE
  /\ UNCHANGED <<systems, cursor, retune, hunter, others>>

\* Hunt notices that its channel was closed, between candidates or in the dwell.
Cancelled ==
  /\ retune = "closed"
  /\ (pc = "dwell") \/ (pc = "try" /\ todo # <<>>)
  /\ EndRound("top")
  /\ UNCHANGED <<systems, hunter, others>>

\* Defect: the window doubles without a cap.
MarkFailedUncapped ==
  /\ pc = "try" /\ todo = <<>> /\ Cur \notin Camps
  /\ state' = [state EXCEPT ![Cur] = "Failed"]
  /\ window' = [window EXCEPT ![Cur] = 2 * @]
  /\ due' = [due EXCEPT ![Cur] = FALSE]
  /\ EndRound("top")
  /\ UNCHANGED <<held, lockedFreq, hunter, others>>

\* The candidates are exhausted. Neither asks what has become of the system meanwhile.
MarkFailed ==
  /\ pc = "try" /\ todo = <<>> /\ Cur \notin Camps
  /\ state' = [state EXCEPT ![Cur] = "Failed"]
  /\ window' = [window EXCEPT ![Cur] = IF 2 * @ > MaxBackoff THEN MaxBackoff ELSE 2 * @]
  /\ due' = [due EXCEPT ![Cur] = FALSE]
  /\ EndRound("top")
  /\ UNCHANGED <<held, lockedFreq, hunter, others>>

MarkCamped ==
  /\ pc = "try" /\ todo = <<>> /\ Cur \in Camps
  /\ state' = [state EXCEPT ![Cur] = "Camped"]
  /\ window' = [window EXCEPT ![Cur] = 1]
  /\ EndRound("top")
  /\ UNCHANGED <<held, lockedFreq, due, hunter, others>>

\* parkUntilUnlocked looks at the state every 250 ms.
Unpark ==
  /\ pc = "parked" /\ ~IsLocked(Cur)
  /\ pc' = "top" /\ cursor' = Following
  /\ UNCHANGED <<systems, todo, heard, retune, hunter, others>>

LoopStep ==
  Top \/ CheckLocked \/ StartRound \/ TryNext \/ Drain \/ Win \/ DwellTimeout
  \/ Cancelled \/ MarkFailed \/ MarkCamped \/ Unpark

\* The wait after the last failure is over.
BackoffElapses(s) ==
  /\ BackingOff(s)
  /\ due' = [due EXCEPT ![s] = TRUE]
  /\ UNCHANGED <<state, held, lockedFreq, window, loop, others>>

-----------------------------------------------------------------------------
\* The listener.

\* recordLock: one system that lists the channel, in the order of the map.
RecordLock(f) ==
  \E s \in Systems :
    /\ f \in CandidateSet(s)
    /\ state' = [state EXCEPT ![s] = "Locked"]
    /\ lockedFreq' = [lockedFreq EXCEPT ![s] = f]
    /\ window' = [window EXCEPT ![s] = 1]
    /\ UNCHANGED <<held, due>>

\* Defect: only a loss without a frequency is a loss.
RecordLostUnnamed(f) ==
  LET lost == {s \in Systems : f = None /\ state[s] = "Locked"}
  IN /\ state' = [s \in Systems |-> IF s \in lost THEN "Hunting" ELSE state[s]]
     /\ lockedFreq' = [s \in Systems |-> IF s \in lost THEN None ELSE lockedFreq[s]]
     /\ UNCHANGED <<held, window, due>>

RecordLost(f) ==
  LET lost == {s \in Systems : lockedFreq[s] = f \/ (f = None /\ state[s] = "Locked")}
  IN /\ state' = [s \in Systems |-> IF s \in lost THEN "Hunting" ELSE state[s]]
     /\ lockedFreq' = [s \in Systems |-> IF s \in lost THEN None ELSE lockedFreq[s]]
     /\ UNCHANGED <<held, window, due>>

Listen ==
  /\ inbox # <<>>
  /\ inbox' = Tail(inbox)
  /\ \/ Head(inbox).kind = "locked" /\ RecordLock(Head(inbox).freq)
     \/ Head(inbox).kind = "lost" /\ RecordLost(Head(inbox).freq)
  /\ UNCHANGED <<loop, decoder>>

-----------------------------------------------------------------------------
\* The decoder.

\* handleProgress: another system or frequency gets a pipeline of its own. The old one
\* is closed without a word about its lock.
Switch ==
  /\ asked # None /\ on # asked
  /\ on' = asked /\ lock' = "none"
  /\ UNCHANGED <<systems, loop, inbox>>

\* A pipeline that gets its frequency's samples reports its lock once.
EmitLocked ==
  /\ on # None /\ on.freq = tuned /\ lock = "none" /\ Len(inbox) < Inbox
  /\ lock' = "locked"
  /\ inbox' = Append(inbox, [kind |-> "locked", freq |-> on.freq])
  /\ heard' = (heard \/ (pc = "dwell" /\ on.freq = Head(todo)))
  /\ UNCHANGED <<systems, pc, cursor, todo, retune, hunter, on>>

\* A pipeline with a watchdog reports that the carrier has gone silent.
EmitLost ==
  /\ lock = "silent" /\ on.sys \in Watched /\ Len(inbox) < Inbox
  /\ lock' = "none"
  /\ inbox' = Append(inbox, [kind |-> "lost", freq |-> on.freq])
  /\ UNCHANGED <<systems, loop, on>>

\* The transmitter of a locked channel goes away, and comes back.
CarrierChanges ==
  /\ \/ lock = "locked" /\ lock' = "silent"
     \/ lock = "silent" /\ lock' = "locked"
  /\ UNCHANGED <<systems, loop, inbox, on>>

-----------------------------------------------------------------------------
\* The operator and the daemon.

Hold(s) ==
  /\ held' = [held EXCEPT ![s] = TRUE]
  /\ state' = [state EXCEPT ![s] = "Held"]
  /\ UNCHANGED <<lockedFreq, window, due, loop, others>>

Resume(s) ==
  /\ held' = [held EXCEPT ![s] = FALSE]
  /\ state' = [state EXCEPT ![s] = "Idle"]
  /\ window' = [window EXCEPT ![s] = 1]
  /\ UNCHANGED <<lockedFreq, due, loop, others>>

\* The channel that is armed is closed.
CloseRetune == retune' = IF retune = "armed" THEN "closed" ELSE retune

ForceRetune(s) ==
  /\ due' = [due EXCEPT ![s] = TRUE]
  /\ window' = [window EXCEPT ![s] = 1]
  /\ state' = [state EXCEPT ![s] = "Idle"]
  /\ IF Cur = s THEN CloseRetune ELSE UNCHANGED retune
  /\ UNCHANGED <<held, lockedFreq, pc, cursor, todo, heard, hunter, others>>

PauseAll ==
  /\ held' = [s \in Systems |-> TRUE]
  /\ state' = [s \in Systems |-> "Held"]
  /\ CloseRetune
  /\ UNCHANGED <<lockedFreq, window, due, pc, cursor, todo, heard, hunter, others>>

ResumeAll ==
  /\ held' = [s \in Systems |-> FALSE]
  /\ state' = [s \in Systems |-> "Idle"]
  /\ window' = [s \in Systems |-> 1]
  /\ UNCHANGED <<lockedFreq, due, loop, others>>

\* A reacquired SDR: the round under way is cancelled, the next one has the new tuner.
SwapTuner ==
  /\ retune = "armed" /\ CloseRetune
  /\ UNCHANGED <<systems, pc, cursor, todo, heard, hunter, others>>

Operator ==
  \/ \E s \in Systems : Hold(s) \/ Resume(s) \/ ForceRetune(s)
  \/ PauseAll \/ ResumeAll \/ SwapTuner

-----------------------------------------------------------------------------
Init ==
  /\ state = [s \in Systems |-> "Idle"]
  /\ held = [s \in Systems |-> FALSE]
  /\ lockedFreq = [s \in Systems |-> None]
  /\ window = [s \in Systems |-> 1]
  /\ due = [s \in Systems |-> TRUE]
  /\ cache = [s \in Systems |-> None]
  /\ pc = "top" /\ cursor = 1 /\ todo = <<>> /\ heard = FALSE /\ retune = "none"
  /\ inbox = <<>>
  /\ asked = None /\ tuned = None /\ on = None /\ lock = "none"

Unattended ==
  \/ LoopStep \/ Listen \/ Switch \/ EmitLocked \/ EmitLost \/ CarrierChanges
  \/ \E s \in Systems : BackoffElapses(s)

Next == Unattended \/ Operator

Spec == Init /\ [][Next]_vars

\* The goroutines run on and waits end; transmitters and the operator owe nothing.
Fairness ==
  /\ WF_vars(LoopStep) /\ WF_vars(Listen) /\ WF_vars(Switch) /\ WF_vars(EmitLost)
  /\ \A s \in Systems : WF_vars(BackoffElapses(s))

FairSpec == Spec /\ Fairness

\* Nobody touches the controls.
UnattendedSpec == Init /\ [][Unattended]_vars /\ Fairness

-----------------------------------------------------------------------------
\* Properties.

\* The state is well formed; a window never exceeds its cap and a channel is armed only
\* while a round is under way.
TypeOK ==
  /\ state \in [Systems -> HuntState]
  /\ held \in [Systems -> BOOLEAN]
  /\ lockedFreq \in [Systems -> Freqs \cup {None}]
  /\ window \in [Systems -> 1..MaxBackoff]
  /\ due \in [Systems -> BOOLEAN]
  /\ cache \in [Systems -> Freqs \cup {None}]
  /\ pc \in {"top", "check", "start", "try", "tuned", "dwell", "parked"}
  /\ cursor \in 1..Len(Order)
  /\ todo \in Seq(CandidateSet(Cur))
  /\ pc \in {"tuned", "dwell"} => todo # <<>>
  /\ heard \in BOOLEAN
  /\ retune \in {"none", "armed", "closed"}
  /\ retune # "none" <=> pc \in {"try", "tuned", "dwell"}
  /\ inbox \in Seq([kind : {"locked", "lost"}, freq : Freqs]) /\ Len(inbox) <= Inbox
  /\ tuned \in Freqs \cup {None}
  /\ asked \in Attempt \cup {None} /\ on \in Attempt \cup {None}
  /\ lock \in {"none", "locked", "silent"} /\ (lock # "none" => on # None)

Hunting(s) == Cur = s /\ pc \in {"try", "tuned", "dwell"}

\* Whatever locks and losses the decoder reports, whichever rounds fail and whatever the
\* operator does to the others: no system waits for ever for its turn, unless it is held
\* or the SDR is parked (Run's round-robin, supervisor.go:187-274).
EverySystemHunted == \A s \in Systems : []<>(Hunting(s) \/ held[s] \/ pc = "parked")

\* A system the operator holds for good is not tuned any more once the round under way is
\* over, although its lock and loss events keep changing its state ("no further retunes
\* happen until Resume", supervisor.go:682-684).
HeldIsLeftAlone == \A s \in Systems : <>[]held[s] => <>[]~Hunting(s)

\* No round of hunting takes a camped system out of its camp, whenever it starts or ends;
\* only traffic, a loss or the operator does (issue #1036, supervisor.go:332-344).
CampedUntilTraffic ==
  [][\A s \in Systems : state[s] = "Camped" /\ pc' # pc => state'[s] = "Camped"]_vars

\* The loop is parked on s, whose channel the decoder has reported as locked.
ParkedOn(s) == pc = "parked" /\ Cur = s /\ lock # "none" /\ on.sys = s /\ on = asked

\* A parked channel that goes silent is left, however far listener and loop lag behind,
\* if its decoder has a watchdog ("parkUntilUnlocked returns as soon as the state leaves
\* StateLocked", supervisor.go:219-220).
WatchedChannelIsLeft ==
  \A s \in Watched : (ParkedOn(s) /\ lock = "silent") ~> (pc # "parked" \/ lock = "locked")

\* A system that is parked has the SDR on one of its channels: the cc.lost that ends the
\* park comes from the pipeline that decodes it (supervisor.go:219-220).
ParkedOnItsChannel ==
  pc = "parked" /\ IsLocked(Cur) => tuned \in CandidateSet(Cur)
=============================================================================
