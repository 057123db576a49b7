------------------------------ MODULE GrantGate ------------------------------
(***************************************************************************)
(* The first half of HandleGrant: what the engine learns from a grant      *)
(* (radios, talkgroups, calls on the air) and the gates a grant has to pass *)
(* before VoiceDispatch may spend a voice device on it: lockout, operator   *)
(* hold and timed avoid, scan list, encrypted-call policy.                  *)
(*                                                                         *)
(* The Run loop handles one grant at a time, in the steps between which the *)
(* operator's calls (from the API's goroutines) can change what the next    *)
(* gate reads. "quiet" in the turn records that none did.                   *)
(***************************************************************************)
EXTENDS TrunkGrants, FiniteSets

CONSTANTS
  Announced,   \* the grants the control channels may announce
  Catalogued,  \* [Ids -> Entry or Absent]: the operator's talkgroup file
  HoldTargets, \* what the operator may hold: records [sys, tg]
  AvoidTargets,\* what the operator may avoid: records [sys, tg]
  Editable,    \* the talkgroups the operator edits
  Patches,     \* the patches a system may announce: records [super, members]
  RadiosCap,   \* knownRadiosCap
  PendingCap,  \* pendingDiscoveryCap
  AnySystem,   \* the empty system name: matches every system
  Absent       \* no entry, no hold, no grant in hand

VARIABLES
  radios,      \* knownRadios
  pending,     \* pendingTETRADiscovery
  catalogue,   \* TalkgroupDB
  observed,    \* the keys of Engine.observed; slots are left out
  hold,        \* the operator's hold, if any
  avoids,      \* the unexpired avoids
  mode,        \* the scan mode
  patches,     \* the patch registry: members by super-group
  turn,        \* the grant the Run loop is handling and how far it is
  out          \* the grant the last turn let through to the dispatcher, if any

learned == <<radios, pending, observed>>
controls == <<hold, avoids, mode>>
vars == <<learned, catalogue, controls, patches, turn, out>>

Entry == [lockout : BOOLEAN, scan : BOOLEAN, discovered : BOOLEAN]

Scope == [sys : Systems \cup {AnySystem}, tg : Ids]

Idle == [pc |-> "idle", g |-> Absent, tg |-> Absent, members |-> {}, ok |-> FALSE,
         quiet |-> TRUE]

ASSUME GateAssumption ==
  /\ Announced \subseteq Grant
  /\ Catalogued \in [Ids -> Entry \cup {Absent}]
  /\ HoldTargets \subseteq Scope /\ AvoidTargets \subseteq Scope
  /\ Editable \subseteq Ids
  /\ Patches \subseteq [super : Ids, members : SUBSET Ids]
  /\ RadiosCap \in Nat /\ PendingCap \in Nat
  /\ AnySystem \notin Systems
  /\ Absent \notin Entry \cup Scope \cup Grant

-----------------------------------------------------------------------------
\* Learning.

KeyOf(g) == <<g.sys, g.grp>>

\* The radios a TETRA grant reveals: its caller, and whom an individual call is for.
Revealed(g) ==
  IF g.tetra THEN ({g.src} \cup IF g.individual THEN {g.grp} ELSE {}) \ {0} ELSE {}

\* Defect: the set of radios grows without a bound.
NoteUnbounded(rs, id) == IF id = 0 THEN rs ELSE rs \cup {id}

\* A full set learns no more radios.
Note(rs, id) == IF id = 0 \/ Cardinality(rs) >= RadiosCap THEN rs ELSE rs \cup {id}

Noted(rs, g) ==
  IF ~g.tetra THEN rs
  ELSE IF g.individual THEN Note(Note(rs, g.src), g.grp) ELSE Note(rs, g.src)

\* Defect: the calls already observed under a radio's number stay.
RetractKeepsCalls(fresh, o) == o

\* A newly seen radio takes the observed calls with it that carried its number.
RetractCalls(fresh, o) == {k \in o : k[2] \notin fresh}

RetractEntries(fresh) ==
  [i \in Ids |-> IF i \in fresh /\ catalogue[i] # Absent /\ catalogue[i].discovered
                 THEN Absent ELSE catalogue[i]]

\* TETRA: a call for an address known to be a radio is an individual call.
Classified(g, rs) ==
  [g EXCEPT !.individual = @ \/ (g.tetra /\ g.grp # 0 /\ g.grp \in rs)]

Unknown(g, cat, rs) ==
  /\ cat[g.grp] = Absent
  /\ g.grp # 0 /\ ~g.individual
  /\ g.grp \notin rs
  /\ ~IsNotification(g)

\* TETRA wants a second sighting, unless it is an emergency or too much is pending.
Corroborated(g, p) ==
  ~g.tetra \/ g.emergency \/ g.grp \in p \/ Cardinality(p) >= PendingCap

Discovered == [lockout |-> FALSE, scan |-> mode # "list", discovered |-> TRUE]

\* What the catalogue and the pending set become on sighting the talkgroup of g.
Sight(g, cat, p, rs) ==
  IF ~Unknown(g, cat, rs) THEN catalogue' = cat /\ pending' = p
  ELSE IF Corroborated(g, p)
       THEN /\ catalogue' = [cat EXCEPT ![g.grp] = Discovered]
            /\ pending' = IF g.tetra /\ ~g.emergency THEN p \ {g.grp} ELSE p
       ELSE /\ catalogue' = cat
            /\ pending' = p \cup {g.grp}

-----------------------------------------------------------------------------
\* The Run loop's turn with a grant.

Receive(g) ==
  /\ turn = Idle
  /\ g.freq # 0
  /\ turn' = [Idle EXCEPT !.pc = "learn", !.g = g]
  /\ out' = {}
  /\ UNCHANGED <<learned, catalogue, controls, patches>>

LockedOut(tg, g) == tg # Absent /\ tg.lockout /\ ~g.emergency

Learn ==
  /\ turn.pc = "learn"
  /\ LET rs    == Noted(radios, turn.g)
         fresh == Revealed(turn.g) \ radios
         g     == Classified(turn.g, rs)
     IN /\ radios' = rs
        /\ observed' = RetractCalls(fresh, observed)
        /\ Sight(g, RetractEntries(fresh), pending \ Revealed(g), rs)
        /\ turn' = IF LockedOut(catalogue'[g.grp], g) THEN Idle
                   ELSE [turn EXCEPT !.pc = "gate", !.g = g, !.tg = catalogue'[g.grp],
                                     !.members = patches[g.grp]]
  /\ UNCHANGED <<controls, patches, out>>

Covers(scope, s, id) == scope.sys \in {AnySystem, s} /\ scope.tg = id

Avoided(s, id) == \E a \in avoids : Covers(a, s, id)

\* A hold admits one talkgroup, also as a member of a patch; without a hold a patch
\* is avoided only together with all its members.
Passes(g, members) ==
  IF hold # Absent THEN \E id \in {g.grp} \cup members : Covers(hold, g.sys, id)
  ELSE Avoided(g.sys, g.grp) => \E id \in members : ~Avoided(g.sys, id)

HoldAvoidGate ==
  /\ turn.pc = "gate"
  /\ LET ok == Passes(turn.g, turn.members) IN
       turn' = IF ok \/ turn.g.emergency THEN [turn EXCEPT !.pc = "list", !.ok = ok] ELSE Idle
  /\ UNCHANGED <<learned, catalogue, controls, patches, out>>

\* The engine keeps the pointer it looked up: an edit shows, a deletion does not.
EntryNow == IF catalogue[turn.g.grp] # Absent THEN catalogue[turn.g.grp] ELSE turn.tg

Scanned ==
  \/ EntryNow # Absent /\ EntryNow.scan
  \/ \E m \in turn.members : catalogue[m] # Absent /\ catalogue[m].scan

\* Defect: an emergency has to be on the scan list.
ListPassesStrictly == mode = "all" \/ (turn.ok /\ hold # Absent) \/ Scanned

\* Defect: whoever is held has to be on the scan list.
ListPassesUnheld == mode = "all" \/ turn.g.emergency \/ Scanned

\* A held talkgroup bypasses the list; whether one is held is asked again here.
ListPasses ==
  mode = "all" \/ turn.g.emergency \/ (turn.ok /\ hold # Absent) \/ Scanned

Ignored(g) ==
  /\ g.encrypted /\ ~g.emergency
  /\ EncMode[g.sys] = "ignore" /\ ~SystemHasKeys(g.sys)

Observable(g) == ~g.data /\ ~g.individual /\ g.grp \notin radios

ListGate ==
  /\ turn.pc = "list"
  /\ LET through == ListPasses /\ ~Ignored(turn.g) IN
       /\ out' = IF through THEN {turn.g} ELSE {}
       /\ observed' = IF through /\ Observable(turn.g)
                      THEN observed \cup {KeyOf(turn.g)} ELSE observed
  /\ turn' = Idle
  /\ UNCHANGED <<radios, pending, catalogue, controls, patches>>

\* Between grants: patches come and go, the watchdog drops calls not granted lately.
HandlePatch(p) ==
  /\ turn = Idle
  /\ \/ patches' = [patches EXCEPT ![p.super] = p.members]
     \/ patches' = [patches EXCEPT ![p.super] = {}]
  /\ UNCHANGED <<learned, catalogue, controls, turn, out>>

AgeOut(k) ==
  /\ turn = Idle
  /\ observed' = observed \ {k}
  /\ UNCHANGED <<radios, pending, catalogue, controls, patches, turn, out>>

-----------------------------------------------------------------------------
\* The operator's calls, and the clock that expires an avoid.

Disturbed == turn' = IF turn = Idle THEN turn ELSE [turn EXCEPT !.quiet = FALSE]

Hold(h) == hold' = h /\ UNCHANGED <<avoids, mode>>
ReleaseHold == hold' = Absent /\ UNCHANGED <<avoids, mode>>
AvoidTalkgroup(a) == avoids' = avoids \cup {a} /\ UNCHANGED <<hold, mode>>
AvoidEnds(a) == avoids' = avoids \ {a} /\ UNCHANGED <<hold, mode>>
SetScanMode(m) == mode' = m /\ UNCHANGED <<hold, avoids>>

OperatorControl ==
  /\ \/ \E h \in HoldTargets : Hold(h)
     \/ ReleaseHold
     \/ \E a \in AvoidTargets : AvoidTalkgroup(a) \/ AvoidEnds(a)
     \/ \E m \in {"all", "list"} : SetScanMode(m)
  /\ Disturbed
  /\ UNCHANGED <<learned, catalogue, patches, out>>

EditTalkgroup(i) ==
  /\ catalogue[i] # Absent
  /\ \/ catalogue' = [catalogue EXCEPT ![i].lockout = ~@]
     \/ catalogue' = [catalogue EXCEPT ![i].scan = ~@]
     \/ catalogue' = [catalogue EXCEPT ![i] = Absent]
  /\ Disturbed
  /\ UNCHANGED <<learned, controls, patches, out>>

-----------------------------------------------------------------------------
Init ==
  /\ radios = {} /\ pending = {} /\ observed = {}
  /\ catalogue = Catalogued
  /\ hold = Absent /\ avoids = {} /\ mode \in {"all", "list"}
  /\ patches = [i \in Ids |-> {}]
  /\ turn = Idle
  /\ out = {}

Next == \/ \E g \in Announced : Receive(g)
        \/ Learn \/ HoldAvoidGate \/ ListGate
        \/ \E p \in Patches : HandlePatch(p)
        \/ \E k \in observed : AgeOut(k)
        \/ OperatorControl
        \/ \E i \in Editable : EditTalkgroup(i)

Spec == Init /\ [][Next]_vars

-----------------------------------------------------------------------------
\* Properties.

TypeOK ==
  /\ radios \subseteq Ids \ {0} /\ Cardinality(radios) <= RadiosCap
  /\ pending \subseteq Ids \ {0} /\ Cardinality(pending) <= PendingCap
  /\ catalogue \in [Ids -> Entry \cup {Absent}]
  /\ observed \subseteq Systems \X Ids
  /\ hold \in HoldTargets \cup {Absent}
  /\ avoids \subseteq AvoidTargets
  /\ mode \in {"all", "list"}
  /\ patches \in [Ids -> SUBSET Ids]
  /\ turn.pc \in {"idle", "learn", "gate", "list"}
  /\ out \subseteq Grant

\* Once the engine knows a number as a radio, no list shows it as a talkgroup by the
\* engine's own doing: it is not pending, not a discovered talkgroup and no call on
\* the air is listed under it, in whatever order the grants came.
RadiosAreNotTalkgroups ==
  \A r \in radios :
    /\ r \notin pending
    /\ catalogue[r] = Absent \/ ~catalogue[r].discovered
    /\ \A s \in Systems : <<s, r>> \notin observed

Decides == turn.pc # "idle" /\ turn'.pc = "idle"

\* The operator's word, read as a whole: an emergency always, and otherwise what is
\* not locked out, is the held talkgroup or, without a hold, is neither avoided nor
\* off the list, and is not encrypted traffic of a system told to ignore it.
Wanted(g) ==
  LET ids     == {g.grp} \cup patches[g.grp]
      entry   == catalogue'[g.grp]
      is(i)   == catalogue'[i] # Absent
  IN \/ g.emergency
     \/ /\ is(g.grp) => ~entry.lockout
        /\ ~(g.encrypted /\ EncMode[g.sys] = "ignore" /\ Keys[g.sys] = {})
        /\ \/ hold # Absent /\ hold.tg \in ids /\ hold.sys \in {g.sys, AnySystem}
           \/ /\ hold = Absent
              /\ mode = "list" => \E i \in ids : is(i) /\ catalogue'[i].scan
              /\ \/ ~Avoided(g.sys, g.grp)
                 \/ \E i \in patches[g.grp] : ~Avoided(g.sys, i)

\* The chain of gates, run without the operator interfering, lets through exactly
\* what the operator wants.
GatesDecideAsWanted ==
  [][Decides /\ turn.quiet => (out' # {} <=> Wanted(turn.g))]_vars

\* No gate stops an emergency, whatever the operator does while it is handled.
EmergencyPassesGates ==
  [][Decides /\ turn.g.emergency => out' # {}]_vars
=============================================================================
