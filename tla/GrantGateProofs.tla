--------------------------- MODULE GrantGateProofs ---------------------------
(***************************************************************************)
(* For every catalogue, every set of grants, patches, holds and avoids and *)
(* every size of the learned sets: GrantGate is type correct, never shows  *)
(* a known radio as a talkgroup, lets through exactly what the operator    *)
(* wants when left alone, and stops no emergency at all.                   *)
(*                                                                         *)
(* All that is learned from a grant is learned in one step, so what that   *)
(* step does to each learned set is a lemma (LearnEffect) the rest is      *)
(* built on. For the gates the invariant Current says how far a turn that  *)
(* nobody disturbed has come: what it looked up is still what there is,    *)
(* and the gates behind it have passed.                                    *)
(***************************************************************************)
EXTENDS GrantGate, FiniteSetTheorems, TLAPS

Turns == [pc : {"idle", "learn", "gate", "list"}, g : Grant \cup {Absent},
          tg : Entry \cup {Absent}, members : SUBSET Ids, ok : BOOLEAN, quiet : BOOLEAN]

\* A turn in progress has a grant in hand and has not let it through yet.
Holding ==
  /\ turn \in Turns
  /\ turn.pc # "idle" => turn.g \in Grant /\ out = {}

TInv == TypeOK /\ IsFiniteSet(radios) /\ IsFiniteSet(pending) /\ Holding

\* What an undisturbed turn has looked up is what there is, and it has come as far as
\* the gates behind it allow.
Current ==
  turn.pc \in {"gate", "list"} /\ turn.quiet =>
    /\ turn.tg = catalogue[turn.g.grp]
    /\ turn.members = patches[turn.g.grp]
    /\ ~LockedOut(turn.tg, turn.g)
    /\ turn.pc = "list" =>
         /\ turn.ok = Passes(turn.g, turn.members)
         /\ turn.ok \/ turn.g.emergency

-----------------------------------------------------------------------------
LEMMA IdleTurn == Idle \in Turns /\ Idle.pc = "idle"
BY DEF Idle, Turns

\* Learning numbers never makes the set of radios larger than its cap.
LEMMA NoteBounded ==
  ASSUME NEW rs \in SUBSET (Ids \ {0}), IsFiniteSet(rs), Cardinality(rs) <= RadiosCap,
         NEW id \in Ids
  PROVE  /\ Note(rs, id) \in SUBSET (Ids \ {0})
         /\ IsFiniteSet(Note(rs, id)) /\ Cardinality(Note(rs, id)) <= RadiosCap
         /\ rs \subseteq Note(rs, id) /\ Note(rs, id) \subseteq rs \cup ({id} \ {0})
<1>1. CASE id = 0 \/ Cardinality(rs) >= RadiosCap
  BY <1>1 DEF Note
<1>2. CASE id # 0 /\ ~(Cardinality(rs) >= RadiosCap)
  <2>1. Note(rs, id) = rs \cup {id}
    BY <1>2 DEF Note
  <2>2. Cardinality(rs) \in Nat
    BY FS_CardinalityType
  <2>3. /\ IsFiniteSet(rs \cup {id})
        /\ Cardinality(rs \cup {id}) = Cardinality(rs) \/ Cardinality(rs \cup {id}) = Cardinality(rs) + 1
    BY FS_AddElement
  <2> QED BY <1>2, <2>1, <2>2, <2>3, GateAssumption
<1> QED BY <1>1, <1>2

LEMMA NotedBounded ==
  ASSUME TInv, NEW g \in Grant
  PROVE  /\ Noted(radios, g) \in SUBSET (Ids \ {0})
         /\ IsFiniteSet(Noted(radios, g)) /\ Cardinality(Noted(radios, g)) <= RadiosCap
         /\ radios \subseteq Noted(radios, g)
         /\ Noted(radios, g) \subseteq radios \cup Revealed(g)
<1>1. g.src \in Ids /\ g.grp \in Ids
  BY DEF Grant
<1>2. radios \in SUBSET (Ids \ {0}) /\ IsFiniteSet(radios) /\ Cardinality(radios) <= RadiosCap
  BY DEF TInv, TypeOK
<1> DEFINE one == Note(radios, g.src)
           two == Note(one, g.grp)
<1>3. /\ one \in SUBSET (Ids \ {0}) /\ IsFiniteSet(one) /\ Cardinality(one) <= RadiosCap
      /\ radios \subseteq one /\ one \subseteq radios \cup ({g.src} \ {0})
  BY <1>1, <1>2, NoteBounded
<1> HIDE DEF one
<1>4. /\ two \in SUBSET (Ids \ {0}) /\ IsFiniteSet(two) /\ Cardinality(two) <= RadiosCap
      /\ one \subseteq two /\ two \subseteq one \cup ({g.grp} \ {0})
  BY <1>1, <1>3, NoteBounded
<1> HIDE DEF two
<1>5. Noted(radios, g) = IF ~g.tetra THEN radios ELSE IF g.individual THEN two ELSE one
  BY DEF Noted, one, two
<1> QED BY <1>2, <1>3, <1>4, <1>5 DEF Revealed

LEMMA ClassifiedType ==
  ASSUME NEW g \in Grant, NEW rs
  PROVE  LET c == Classified(g, rs)
         IN /\ c \in Grant
            /\ c.sys = g.sys /\ c.grp = g.grp /\ c.src = g.src /\ c.tetra = g.tetra
            /\ c.emergency = g.emergency /\ c.encrypted = g.encrypted
            /\ c.data = g.data
BY DEF Classified, Grant

\* What a sighting does to a catalogue and a pending set that are in order.
LEMMA SightType ==
  ASSUME TInv, NEW g \in Grant, NEW cat \in [Ids -> Entry \cup {Absent}],
         NEW p \in SUBSET (Ids \ {0}), IsFiniteSet(p), Cardinality(p) <= PendingCap,
         NEW rs, Sight(g, cat, p, rs)
  PROVE  /\ catalogue' \in [Ids -> Entry \cup {Absent}]
         /\ pending' \in SUBSET (Ids \ {0}) /\ IsFiniteSet(pending')
         /\ Cardinality(pending') <= PendingCap
         /\ \A i \in Ids : i # g.grp => catalogue'[i] = cat[i]
         /\ catalogue'[g.grp] # cat[g.grp] => g.grp \notin rs
         /\ pending' \subseteq p \cup {g.grp}
         /\ g.grp \in pending' => g.grp \in p \/ g.grp \notin rs
<1>1. g.grp \in Ids /\ Discovered \in Entry
  BY DEF Grant, Discovered, Entry
<1>2. CASE ~Unknown(g, cat, rs)
  BY <1>2 DEF Sight
<1>3. CASE Unknown(g, cat, rs)
  <2>1. g.grp # 0 /\ g.grp \notin rs
    BY <1>3 DEF Unknown
  <2>2. CASE Corroborated(g, p)
    <3>1. catalogue' = [cat EXCEPT ![g.grp] = Discovered] /\ (pending' = p \/ pending' = p \ {g.grp})
      BY <1>3, <2>2 DEF Sight
    <3>2. IsFiniteSet(p \ {g.grp}) /\ Cardinality(p \ {g.grp}) <= Cardinality(p)
      BY FS_Subset
    <3>3. Cardinality(p \ {g.grp}) \in Nat /\ Cardinality(p) \in Nat
      BY <3>2, FS_CardinalityType
    <3>4. CASE pending' = p
      BY <1>1, <2>1, <3>1, <3>4
    <3>5. CASE pending' = p \ {g.grp}
      <4>1. Cardinality(p \ {g.grp}) <= PendingCap
        BY <3>2, <3>3, GateAssumption
      <4> QED BY <1>1, <2>1, <3>1, <3>2, <3>5, <4>1
    <3> QED BY <3>1, <3>4, <3>5
  <2>3. CASE ~Corroborated(g, p)
    <3>1. catalogue' = cat /\ pending' = p \cup {g.grp}
      BY <1>3, <2>3 DEF Sight
    <3>2. ~(Cardinality(p) >= PendingCap)
      BY <2>3 DEF Corroborated
    <3>3. /\ IsFiniteSet(p \cup {g.grp}) /\ Cardinality(p) \in Nat
          /\ \/ Cardinality(p \cup {g.grp}) = Cardinality(p)
             \/ Cardinality(p \cup {g.grp}) = Cardinality(p) + 1
      BY FS_AddElement, FS_CardinalityType
    <3>4. Cardinality(pending') <= PendingCap
      BY <3>1, <3>2, <3>3, GateAssumption
    <3> QED BY <1>1, <2>1, <3>1, <3>3, <3>4
  <2> QED BY <2>2, <2>3
<1> QED BY <1>2, <1>3

LEMMA RetractEntriesType ==
  ASSUME TInv, NEW fresh
  PROVE  /\ RetractEntries(fresh) \in [Ids -> Entry \cup {Absent}]
         /\ \A i \in Ids : \/ RetractEntries(fresh)[i] = catalogue[i] /\
                              (i \in fresh => catalogue[i] = Absent \/ ~catalogue[i].discovered)
                           \/ RetractEntries(fresh)[i] = Absent
BY DEF TInv, TypeOK, RetractEntries

LEMMA RevealedMore ==
  ASSUME NEW g \in Grant, NEW rs
  PROVE  Revealed(g) \subseteq Revealed(Classified(g, rs))
BY ClassifiedType DEF Revealed, Classified, Grant

\* Everything the handling of a grant learns, in one place.
LEMMA LearnEffect ==
  ASSUME TInv, Learn
  PROVE  LET rs    == Noted(radios, turn.g)
             fresh == Revealed(turn.g) \ radios
             g     == Classified(turn.g, rs)
         IN /\ turn.pc = "learn" /\ turn.g \in Grant /\ g \in Grant
            /\ radios' = rs /\ observed' = RetractCalls(fresh, observed)
            /\ UNCHANGED <<controls, patches, out>>
            /\ rs \subseteq radios \cup fresh
            /\ catalogue' \in [Ids -> Entry \cup {Absent}]
            /\ pending' \in SUBSET (Ids \ {0}) /\ IsFiniteSet(pending')
            /\ Cardinality(pending') <= PendingCap
            /\ \A r \in rs : /\ r \in pending' => r \in pending \ fresh
                             /\ catalogue'[r] = RetractEntries(fresh)[r]
            /\ turn' = IF LockedOut(catalogue'[g.grp], g) THEN Idle
                       ELSE [turn EXCEPT !.pc = "gate", !.g = g, !.tg = catalogue'[g.grp],
                                         !.members = patches[g.grp]]
<1> DEFINE rs    == Noted(radios, turn.g)
           fresh == Revealed(turn.g) \ radios
           g     == Classified(turn.g, rs)
           cat   == RetractEntries(fresh)
           p     == pending \ Revealed(g)
<1>1. turn.pc = "learn" /\ turn.g \in Grant
  BY DEF Learn, TInv, Holding
<1>2. g \in Grant /\ g.grp \in Ids
  BY <1>1, ClassifiedType DEF Grant
<1>3. /\ radios' = rs /\ observed' = RetractCalls(fresh, observed)
      /\ UNCHANGED <<controls, patches, out>> /\ Sight(g, cat, p, rs)
      /\ turn' = IF LockedOut(catalogue'[g.grp], g) THEN Idle
                 ELSE [turn EXCEPT !.pc = "gate", !.g = g, !.tg = catalogue'[g.grp],
                                   !.members = patches[g.grp]]
  BY DEF Learn
<1>4. rs \subseteq radios \cup fresh /\ rs \subseteq Ids
  BY <1>1, NotedBounded
<1>5. cat \in [Ids -> Entry \cup {Absent}]
  BY RetractEntriesType
<1>6. p \in SUBSET (Ids \ {0}) /\ IsFiniteSet(p) /\ Cardinality(p) <= PendingCap
  <2>1. IsFiniteSet(pending) /\ Cardinality(pending) <= PendingCap /\ pending \subseteq Ids \ {0}
    BY DEF TInv, TypeOK
  <2>2. p \subseteq pending
    OBVIOUS
  <2> HIDE DEF p
  <2>3. IsFiniteSet(p) /\ Cardinality(p) <= Cardinality(pending)
    BY <2>1, <2>2, FS_Subset
  <2>4. Cardinality(p) \in Nat /\ Cardinality(pending) \in Nat
    BY <2>1, <2>3, FS_CardinalityType
  <2> QED BY <2>1, <2>2, <2>3, <2>4, GateAssumption
<1>7. p \cap fresh = {}
  BY <1>1, RevealedMore
<1>8. p \subseteq pending
  OBVIOUS
<1> HIDE DEF rs, fresh, g, cat, p
<1>9. /\ catalogue' \in [Ids -> Entry \cup {Absent}]
      /\ pending' \in SUBSET (Ids \ {0}) /\ IsFiniteSet(pending')
      /\ Cardinality(pending') <= PendingCap
      /\ \A i \in Ids : i # g.grp => catalogue'[i] = cat[i]
      /\ catalogue'[g.grp] # cat[g.grp] => g.grp \notin rs
      /\ pending' \subseteq p \cup {g.grp}
      /\ g.grp \in pending' => g.grp \in p \/ g.grp \notin rs
  BY <1>2, <1>3, <1>5, <1>6, SightType
<1>10. \A r \in rs : /\ r \in pending' => r \in pending \ fresh
                     /\ catalogue'[r] = cat[r]
  BY <1>4, <1>7, <1>8, <1>9
<1> QED BY <1>1, <1>2, <1>3, <1>4, <1>9, <1>10 DEF rs, fresh, g, cat

LEMMA LearnTyped ==
  ASSUME TInv, Learn
  PROVE  TInv'
<1> DEFINE g == Classified(turn.g, Noted(radios, turn.g))
<1>1. turn.g \in Grant /\ g \in Grant /\ g.grp \in Ids
  BY LearnEffect DEF Grant
<1>2. /\ radios' \in SUBSET (Ids \ {0}) /\ IsFiniteSet(radios') /\ Cardinality(radios') <= RadiosCap
  BY <1>1, LearnEffect, NotedBounded
<1>3. observed' \subseteq Systems \X Ids
  BY LearnEffect DEF RetractCalls, TInv, TypeOK
<1>4. /\ UNCHANGED <<controls, patches, out>>
      /\ catalogue' \in [Ids -> Entry \cup {Absent}]
      /\ pending' \in SUBSET (Ids \ {0}) /\ IsFiniteSet(pending')
      /\ Cardinality(pending') <= PendingCap
      /\ \/ turn' = Idle
         \/ turn' = [turn EXCEPT !.pc = "gate", !.g = g, !.tg = catalogue'[g.grp],
                                 !.members = patches[g.grp]]
  BY LearnEffect
<1>5. out = {} /\ turn \in Turns
  BY LearnEffect DEF TInv, Holding
<1>6. patches[g.grp] \in SUBSET Ids /\ catalogue'[g.grp] \in Entry \cup {Absent}
  BY <1>1, <1>4 DEF TInv, TypeOK
<1> HIDE DEF g
<1>7. turn' \in Turns /\ (turn'.pc # "idle" => turn'.g \in Grant)
  <2>1. CASE turn' = Idle
    BY <2>1, IdleTurn
  <2>2. CASE turn' # Idle
    BY <1>1, <1>4, <1>5, <1>6, <2>2 DEF Turns
  <2> QED BY <2>1, <2>2
<1>8. Holding'
  BY <1>4, <1>5, <1>7 DEF Holding
<1>9. TypeOK'
  BY <1>2, <1>3, <1>4, <1>7 DEF TInv, TypeOK, controls, Turns
<1> QED BY <1>2, <1>4, <1>8, <1>9 DEF TInv

LEMMA ReceiveTyped ==
  ASSUME TInv, NEW g \in Announced, Receive(g)
  PROVE  TInv'
<1>1. g \in Grant /\ turn' = [Idle EXCEPT !.pc = "learn", !.g = g] /\ out' = {}
  BY GateAssumption DEF Receive
<1>2. turn' \in Turns /\ turn'.pc = "learn" /\ turn'.g = g
  BY <1>1 DEF Idle, Turns
<1> QED BY <1>1, <1>2 DEF Receive, TInv, TypeOK, Holding, learned, controls

LEMMA GateTyped ==
  ASSUME TInv, HoldAvoidGate \/ ListGate
  PROVE  TInv'
<1>1. turn \in Turns /\ turn.g \in Grant /\ out = {}
  BY DEF HoldAvoidGate, ListGate, TInv, Holding
<1>2. CASE HoldAvoidGate
  <2>1. \/ turn' = Idle
        \/ turn' = [turn EXCEPT !.pc = "list", !.ok = Passes(turn.g, turn.members)]
    BY <1>2 DEF HoldAvoidGate
  <2>2. Passes(turn.g, turn.members) \in BOOLEAN
    BY DEF Passes
  <2>3. turn' \in Turns /\ (turn'.pc # "idle" => turn'.g \in Grant)
    <3>1. CASE turn' = Idle
      BY <3>1, IdleTurn
    <3>2. CASE turn' # Idle
      BY <1>1, <2>1, <2>2, <3>2 DEF Turns
    <3> QED BY <3>1, <3>2
  <2> QED BY <1>1, <1>2, <2>3 DEF HoldAvoidGate, TInv, TypeOK, Holding, Turns, learned, controls
<1>3. CASE ListGate
  <2>1. observed' \subseteq Systems \X Ids
    BY <1>1, <1>3 DEF ListGate, KeyOf, Grant, TInv, TypeOK
  <2>2. out' \subseteq Grant
    BY <1>1, <1>3 DEF ListGate
  <2>3. turn' = Idle /\ turn' \in Turns /\ turn'.pc = "idle"
    BY <1>3, IdleTurn DEF ListGate
  <2> QED BY <1>3, <2>1, <2>2, <2>3 DEF ListGate, TInv, TypeOK, Holding, controls
<1> QED BY <1>2, <1>3

\* Whatever the operator does, the grant in hand stays in hand.
LEMMA DisturbedTurn ==
  ASSUME TInv, Disturbed
  PROVE  /\ turn' \in Turns
         /\ turn'.pc = turn.pc /\ turn'.g = turn.g
         /\ turn'.pc # "idle" => ~turn'.quiet
<1>1. turn \in Turns
  BY DEF TInv, Holding
<1>2. CASE turn = Idle
  BY <1>1, <1>2, IdleTurn DEF Disturbed
<1>3. CASE turn # Idle
  BY <1>1, <1>3 DEF Disturbed, Turns
<1> QED BY <1>2, <1>3

\* An edit changes one entry, and never whether the engine discovered it.
LEMMA EditEffect ==
  ASSUME TInv, NEW i \in Editable, EditTalkgroup(i)
  PROVE  /\ i \in Ids /\ catalogue[i] \in Entry
         /\ \E x \in Entry \cup {Absent} :
              /\ catalogue' = [catalogue EXCEPT ![i] = x]
              /\ x = Absent \/ x.discovered = catalogue[i].discovered
         /\ catalogue' \in [Ids -> Entry \cup {Absent}]
<1>1. i \in Ids /\ catalogue[i] \in Entry /\ catalogue \in [Ids -> Entry \cup {Absent}]
  BY GateAssumption DEF EditTalkgroup, TInv, TypeOK
<1> DEFINE c == catalogue[i]
<1>2. /\ [c EXCEPT !.lockout = ~@] \in Entry
      /\ [c EXCEPT !.lockout = ~@].discovered = c.discovered
      /\ [c EXCEPT !.scan = ~@] \in Entry
      /\ [c EXCEPT !.scan = ~@].discovered = c.discovered
  BY <1>1 DEF Entry
<1>3. \/ catalogue' = [catalogue EXCEPT ![i] = [c EXCEPT !.lockout = ~@]]
      \/ catalogue' = [catalogue EXCEPT ![i] = [c EXCEPT !.scan = ~@]]
      \/ catalogue' = [catalogue EXCEPT ![i] = Absent]
  BY DEF EditTalkgroup
<1> HIDE DEF c
<1>4. \E x \in Entry \cup {Absent} :
        /\ catalogue' = [catalogue EXCEPT ![i] = x]
        /\ x = Absent \/ x.discovered = c.discovered
  BY <1>2, <1>3
<1>5. catalogue' \in [Ids -> Entry \cup {Absent}]
  BY <1>1, <1>4
<1> QED BY <1>1, <1>4, <1>5 DEF c

LEMMA OperatorTyped ==
  ASSUME TInv, OperatorControl \/ \E i \in Editable : EditTalkgroup(i)
  PROVE  TInv'
<1>1. Disturbed /\ UNCHANGED <<learned, patches, out>>
  BY DEF OperatorControl, EditTalkgroup
<1>2. Holding'
  BY <1>1, DisturbedTurn DEF TInv, Holding
<1>3. CASE OperatorControl
  <2>1. hold' \in HoldTargets \cup {Absent} /\ avoids' \subseteq AvoidTargets
        /\ mode' \in {"all", "list"} /\ catalogue' = catalogue
    BY <1>3 DEF OperatorControl, TInv, TypeOK, Hold, ReleaseHold, AvoidTalkgroup, AvoidEnds,
       SetScanMode
  <2> QED BY <1>1, <1>2, <2>1, DisturbedTurn DEF TInv, TypeOK, learned
<1>4. CASE \E i \in Editable : EditTalkgroup(i)
  <2>1. PICK i \in Editable : EditTalkgroup(i)
    BY <1>4
  <2>3. catalogue' \in [Ids -> Entry \cup {Absent}]
    BY <2>1, EditEffect
  <2> QED BY <1>1, <1>2, <2>1, <2>3, DisturbedTurn
          DEF EditTalkgroup, TInv, TypeOK, learned, controls
<1> QED BY <1>3, <1>4

LEMMA BetweenTyped ==
  ASSUME TInv, (\E p \in Patches : HandlePatch(p)) \/ \E k \in observed : AgeOut(k)
  PROVE  TInv'
<1>1. CASE \E p \in Patches : HandlePatch(p)
  <2>1. PICK p \in Patches : HandlePatch(p)
    BY <1>1
  <2>2. p.super \in Ids /\ p.members \in SUBSET Ids
    BY GateAssumption
  <2>3. patches' \in [Ids -> SUBSET Ids]
    BY <2>1, <2>2 DEF HandlePatch, TInv, TypeOK
  <2> QED BY <2>1, <2>3 DEF HandlePatch, TInv, TypeOK, Holding, learned, controls
<1>2. CASE \E k \in observed : AgeOut(k)
  BY <1>2 DEF AgeOut, TInv, TypeOK, Holding, controls
<1> QED BY <1>1, <1>2

LEMMA InitTyped == Init => TInv
<1> SUFFICES ASSUME Init PROVE TInv
  OBVIOUS
<1>1. IsFiniteSet({}) /\ Cardinality({}) = 0
  BY FS_EmptySet
<1> QED BY <1>1, IdleTurn, GateAssumption DEF Init, TInv, TypeOK, Holding

LEMMA NextTyped == TInv /\ [Next]_vars => TInv'
<1>1. TInv /\ UNCHANGED vars => TInv'
  BY DEF vars, TInv, TypeOK, Holding, learned, controls
<1> QED BY <1>1, ReceiveTyped, LearnTyped, GateTyped, OperatorTyped, BetweenTyped DEF Next

\* The state is well formed, the learned sets are finite, and a turn in progress has a
\* grant in hand.
THEOREM TypedThroughout == Spec => []TInv
BY InitTyped, NextTyped, PTL DEF Spec

\* Whatever grants come, the learned sets keep their caps and the state its types.
THEOREM GateTypes == Spec => []TypeOK
<1>1. TInv => TypeOK
  BY DEF TInv
<1> QED BY <1>1, TypedThroughout, PTL

-----------------------------------------------------------------------------
LEMMA RadiosStep ==
  TInv /\ RadiosAreNotTalkgroups /\ [Next]_vars => RadiosAreNotTalkgroups'
<1> SUFFICES ASSUME TInv, RadiosAreNotTalkgroups, [Next]_vars
             PROVE  RadiosAreNotTalkgroups'
  OBVIOUS
<1>1. radios \subseteq Ids /\ catalogue \in [Ids -> Entry \cup {Absent}]
  BY DEF TInv, TypeOK
<1>2. CASE Learn
  <2> DEFINE fresh == Revealed(turn.g) \ radios
             cat   == RetractEntries(fresh)
  <2>1. /\ turn.g \in Grant
        /\ radios' = Noted(radios, turn.g) /\ observed' = RetractCalls(fresh, observed)
        /\ radios' \subseteq radios \cup fresh
        /\ \A r \in radios' : /\ r \in pending' => r \in pending \ fresh
                              /\ catalogue'[r] = cat[r]
    BY <1>2, LearnEffect
  <2>2. radios' \subseteq Ids
    BY <2>1, NotedBounded
  <2>3. \A i \in Ids : \/ cat[i] = catalogue[i] /\
                              (i \in fresh => catalogue[i] = Absent \/ ~catalogue[i].discovered)
                       \/ cat[i] = Absent
    BY RetractEntriesType
  <2>4. \A s, r : <<s, r>> \in observed' => <<s, r>> \in observed /\ r \notin fresh
    BY <2>1 DEF RetractCalls
  <2> HIDE DEF fresh, cat
  <2> SUFFICES ASSUME NEW r \in radios'
               PROVE  /\ r \notin pending'
                      /\ catalogue'[r] = Absent \/ ~catalogue'[r].discovered
                      /\ \A s \in Systems : <<s, r>> \notin observed'
    BY DEF RadiosAreNotTalkgroups
  <2>5. CASE r \in fresh
    BY <2>1, <2>2, <2>3, <2>4, <2>5
  <2>6. CASE r \in radios
    BY <2>1, <2>2, <2>3, <2>4, <2>6 DEF RadiosAreNotTalkgroups
  <2> QED BY <2>1, <2>5, <2>6
<1>3. CASE ListGate
  <2>1. turn.g.grp \in radios => observed' = observed
    BY <1>3 DEF ListGate, Observable
  <2>2. observed' \subseteq observed \cup {<<turn.g.sys, turn.g.grp>>}
    BY <1>3 DEF ListGate, KeyOf
  <2> QED BY <1>3, <2>1, <2>2 DEF ListGate, RadiosAreNotTalkgroups
<1>4. CASE \E i \in Editable : EditTalkgroup(i)
  <2>1. PICK i \in Editable : EditTalkgroup(i)
    BY <1>4
  <2>2. PICK x \in Entry \cup {Absent} :
          /\ catalogue' = [catalogue EXCEPT ![i] = x]
          /\ x = Absent \/ x.discovered = catalogue[i].discovered
    BY <2>1, EditEffect
  <2>3. \A r \in Ids : \/ catalogue'[r] = Absent \/ catalogue'[r] = catalogue[r]
                       \/ r = i /\ catalogue'[r].discovered = catalogue[r].discovered
    BY <1>1, <2>1, <2>2, EditEffect
  <2>4. UNCHANGED <<radios, pending, observed>> /\ catalogue[i] # Absent
    BY <2>1 DEF EditTalkgroup, learned
  <2> QED BY <1>1, <2>3, <2>4 DEF RadiosAreNotTalkgroups
<1>5. ASSUME \/ \E g \in Announced : Receive(g)
             \/ HoldAvoidGate \/ OperatorControl
             \/ \E p \in Patches : HandlePatch(p)
             \/ UNCHANGED vars
      PROVE  RadiosAreNotTalkgroups'
  <2>1. UNCHANGED <<learned, catalogue>>
    BY <1>5 DEF Receive, HoldAvoidGate, OperatorControl, HandlePatch, vars
  <2> QED BY <2>1 DEF RadiosAreNotTalkgroups, learned
<1>6. CASE \E k \in observed : AgeOut(k)
  BY <1>6 DEF AgeOut, RadiosAreNotTalkgroups
<1> QED BY <1>2, <1>3, <1>4, <1>5, <1>6 DEF Next

\* A number the engine knows as a radio is, by the engine's own doing, nowhere shown as a
\* talkgroup, whatever the caps and in whatever order the grants come.
THEOREM RadiosStayRadios == Spec => []RadiosAreNotTalkgroups
<1>1. Init => RadiosAreNotTalkgroups
  BY DEF Init, RadiosAreNotTalkgroups
<1> QED BY <1>1, RadiosStep, TypedThroughout, PTL DEF Spec

-----------------------------------------------------------------------------
\* A turn that was not disturbed is up to date.
LEMMA CurrentStep == TInv /\ Current /\ [Next]_vars => Current'
<1> SUFFICES ASSUME TInv, Current, [Next]_vars PROVE Current'
  OBVIOUS
<1>0. turn \in Turns
  BY DEF TInv, Holding
<1>1. CASE Learn
  <2> DEFINE g == Classified(turn.g, Noted(radios, turn.g))
  <2>1. /\ UNCHANGED <<controls, patches>>
        /\ turn' = IF LockedOut(catalogue'[g.grp], g) THEN Idle
                   ELSE [turn EXCEPT !.pc = "gate", !.g = g, !.tg = catalogue'[g.grp],
                                     !.members = patches[g.grp]]
    BY <1>1, LearnEffect
  <2> HIDE DEF g
  <2>2. CASE LockedOut(catalogue'[g.grp], g)
    BY <2>1, <2>2, IdleTurn DEF Current
  <2>3. CASE ~LockedOut(catalogue'[g.grp], g)
    <3>1. /\ turn'.pc = "gate" /\ turn'.g = g /\ turn'.tg = catalogue'[g.grp]
          /\ turn'.members = patches'[g.grp]
      BY <1>0, <2>1, <2>3 DEF Turns
    <3> QED BY <2>3, <3>1 DEF Current, LockedOut
  <2> QED BY <2>2, <2>3
<1>2. CASE HoldAvoidGate
  <2> DEFINE ok == Passes(turn.g, turn.members)
  <2>1. /\ turn.pc = "gate" /\ UNCHANGED <<controls, catalogue, patches>>
        /\ turn' = IF ok \/ turn.g.emergency THEN [turn EXCEPT !.pc = "list", !.ok = ok]
                   ELSE Idle
    BY <1>2 DEF HoldAvoidGate
  <2>2. UNCHANGED <<hold, avoids>>
    BY <2>1 DEF controls
  <2> HIDE DEF ok
  <2>3. CASE ok \/ turn.g.emergency
    <3>1. /\ turn'.pc = "list" /\ turn'.g = turn.g /\ turn'.tg = turn.tg
          /\ turn'.members = turn.members /\ turn'.ok = ok /\ turn'.quiet = turn.quiet
      BY <1>0, <2>1, <2>3 DEF Turns
    <3>2. ok = Passes(turn.g, turn.members)'
      BY <2>2, <3>1 DEF ok, Passes, Avoided
    <3> QED BY <2>1, <2>3, <3>1, <3>2 DEF Current, LockedOut
  <2>4. CASE ~(ok \/ turn.g.emergency)
    BY <2>1, <2>4, IdleTurn DEF Current
  <2> QED BY <2>3, <2>4
<1>3. CASE ListGate
  BY <1>3, IdleTurn DEF ListGate, Current
<1>4. ASSUME NEW g \in Announced, Receive(g)
      PROVE  Current'
  <2>1. turn'.pc = "learn"
    BY <1>4 DEF Receive, Idle
  <2> QED BY <2>1 DEF Current
<1>5. CASE OperatorControl \/ \E i \in Editable : EditTalkgroup(i)
  <2>1. Disturbed
    BY <1>5 DEF OperatorControl, EditTalkgroup
  <2> QED BY <2>1, DisturbedTurn DEF Current
<1>6. CASE (\E p \in Patches : HandlePatch(p)) \/ \E k \in observed : AgeOut(k)
  <2>1. turn' = Idle
    BY <1>6 DEF HandlePatch, AgeOut
  <2> QED BY <2>1, IdleTurn DEF Current
<1>7. CASE UNCHANGED vars
  BY <1>7 DEF vars, controls, Current, LockedOut, Passes, Avoided
<1> QED BY <1>1, <1>2, <1>3, <1>4, <1>5, <1>6, <1>7 DEF Next

\* An undisturbed turn works with what there is.
THEOREM UndisturbedIsCurrent == Spec => []Current
<1>1. Init => Current
  BY IdleTurn DEF Init, Current
<1> QED BY <1>1, CurrentStep, TypedThroughout, PTL DEF Spec

\* Only three steps decide on a grant.
LEMMA DecidingSteps ==
  ASSUME TInv, [Next]_vars, Decides
  PROVE  Learn \/ HoldAvoidGate \/ ListGate
<1>1. ASSUME NEW g \in Announced, Receive(g)
      PROVE  FALSE
  BY <1>1, IdleTurn DEF Receive, Decides
<1>2. CASE OperatorControl \/ \E i \in Editable : EditTalkgroup(i)
  <2>1. Disturbed
    BY <1>2 DEF OperatorControl, EditTalkgroup
  <2> QED BY <2>1, DisturbedTurn DEF Decides
<1>3. CASE (\E p \in Patches : HandlePatch(p)) \/ \E k \in observed : AgeOut(k)
  BY <1>3, IdleTurn DEF HandlePatch, AgeOut, Decides
<1>4. CASE UNCHANGED vars
  BY <1>4 DEF vars, Decides
<1> QED BY <1>1, <1>2, <1>3, <1>4 DEF Next

LEMMA LearnDecides ==
  ASSUME TInv, Learn, Decides
  PROVE  ~turn.g.emergency /\ ~Wanted(turn.g) /\ out' = {}
<1> DEFINE g == Classified(turn.g, Noted(radios, turn.g))
<1>1. /\ turn.g \in Grant /\ out' = out
      /\ turn' = IF LockedOut(catalogue'[g.grp], g) THEN Idle
                 ELSE [turn EXCEPT !.pc = "gate", !.g = g, !.tg = catalogue'[g.grp],
                                   !.members = patches[g.grp]]
  BY LearnEffect
<1>2. g.grp = turn.g.grp /\ g.emergency = turn.g.emergency
  BY <1>1, ClassifiedType
<1>3. turn \in Turns /\ out = {}
  BY <1>1 DEF TInv, Holding, Decides
<1> HIDE DEF g
<1>4. LockedOut(catalogue'[g.grp], g)
  <2> SUFFICES ASSUME ~LockedOut(catalogue'[g.grp], g) PROVE FALSE
    OBVIOUS
  <2>1. turn'.pc = "gate"
    BY <1>1, <1>3 DEF Turns
  <2> QED BY <2>1 DEF Decides
<1> QED BY <1>1, <1>2, <1>3, <1>4 DEF LockedOut, Wanted

\* The hold and avoid gate asks what the operator's word asks.
LEMMA PassesAsWanted ==
  ASSUME TInv, NEW g \in Grant
  PROVE  Passes(g, patches[g.grp]) <=>
           \/ hold # Absent /\ hold.tg \in {g.grp} \cup patches[g.grp]
                            /\ hold.sys \in {g.sys, AnySystem}
           \/ /\ hold = Absent
              /\ \/ ~Avoided(g.sys, g.grp)
                 \/ \E i \in patches[g.grp] : ~Avoided(g.sys, i)
<1>1. CASE hold = Absent
  BY <1>1 DEF Passes
<1>2. CASE hold # Absent
  BY <1>2 DEF Passes, Covers
<1> QED BY <1>1, <1>2

LEMMA GateDecides ==
  ASSUME TInv, Current, HoldAvoidGate, Decides
  PROVE  ~turn.g.emergency /\ (turn.quiet => ~Wanted(turn.g)) /\ out' = {}
<1>1. turn.g \in Grant /\ out = {} /\ turn \in Turns
  BY DEF TInv, Holding, Decides
<1>2. ~Passes(turn.g, turn.members) /\ ~turn.g.emergency
  <2> SUFFICES ASSUME Passes(turn.g, turn.members) \/ turn.g.emergency PROVE FALSE
    OBVIOUS
  <2>1. turn'.pc = "list"
    BY <1>1 DEF HoldAvoidGate, Turns
  <2> QED BY <2>1 DEF Decides
<1>3. out' = {}
  BY <1>1 DEF HoldAvoidGate
<1>4. ASSUME turn.quiet
      PROVE  ~Wanted(turn.g)
  <2>1. turn.members = patches[turn.g.grp]
    BY <1>4 DEF Current, HoldAvoidGate
  <2> QED BY <1>1, <1>2, <2>1, PassesAsWanted DEF Wanted
<1> QED BY <1>2, <1>3, <1>4

LEMMA ListDecides ==
  ASSUME TInv, Current, ListGate
  PROVE  /\ turn.g.emergency => out' # {}
         /\ turn.quiet => (out' # {} <=> Wanted(turn.g))
<1>1. turn.g \in Grant /\ turn.pc = "list" /\ catalogue' = catalogue
  BY DEF TInv, Holding, ListGate
<1>2. out' # {} <=> ListPasses /\ ~Ignored(turn.g)
  BY DEF ListGate
<1>3. turn.g.emergency => ListPasses /\ ~Ignored(turn.g)
  BY DEF ListPasses, Ignored
<1>4. ASSUME turn.quiet, ~turn.g.emergency
      PROVE  ListPasses /\ ~Ignored(turn.g) <=> Wanted(turn.g)
  <2>1. /\ turn.tg = catalogue[turn.g.grp] /\ turn.members = patches[turn.g.grp]
        /\ ~LockedOut(turn.tg, turn.g)
        /\ Passes(turn.g, turn.members)
        /\ turn.ok
    BY <1>1, <1>4 DEF Current
  <2>2. Scanned <=> \E i \in {turn.g.grp} \cup patches[turn.g.grp] :
                      catalogue[i] # Absent /\ catalogue[i].scan
    BY <2>1 DEF Scanned, EntryNow
  <2>3. ListPasses <=> mode # "list" \/ hold # Absent \/ Scanned
    BY <1>4, <2>1 DEF ListPasses, TInv, TypeOK
  <2>4. Ignored(turn.g) <=>
          turn.g.encrypted /\ EncMode[turn.g.sys] = "ignore" /\ Keys[turn.g.sys] = {}
    BY <1>4 DEF Ignored, SystemHasKeys
  <2>5. catalogue[turn.g.grp] # Absent => ~catalogue[turn.g.grp].lockout
    BY <1>4, <2>1 DEF LockedOut
  <2>6. \/ hold # Absent /\ hold.tg \in {turn.g.grp} \cup patches[turn.g.grp]
                         /\ hold.sys \in {turn.g.sys, AnySystem}
        \/ /\ hold = Absent
           /\ \/ ~Avoided(turn.g.sys, turn.g.grp)
              \/ \E i \in patches[turn.g.grp] : ~Avoided(turn.g.sys, i)
    BY <1>1, <2>1, PassesAsWanted
  <2> QED BY <1>1, <1>4, <2>2, <2>3, <2>4, <2>5, <2>6 DEF Wanted
<1> QED BY <1>2, <1>3, <1>4 DEF Wanted

\* Without an operator interfering the chain of lockout, hold, avoid, scan list and
\* encryption policy lets through exactly what the operator wants, for any catalogue,
\* patches, holds and avoids.
THEOREM GatesAreFaithful == Spec => GatesDecideAsWanted
<1>1. TInv /\ Current /\ [Next]_vars =>
        [Decides /\ turn.quiet => (out' # {} <=> Wanted(turn.g))]_vars
  BY DecidingSteps, LearnDecides, GateDecides, ListDecides
<1> QED BY <1>1, TypedThroughout, UndisturbedIsCurrent, PTL DEF Spec, GatesDecideAsWanted

\* No gate stops an emergency, whatever the operator does meanwhile.
THEOREM EmergenciesPass == Spec => EmergencyPassesGates
<1>1. TInv /\ Current /\ [Next]_vars =>
        [Decides /\ turn.g.emergency => out' # {}]_vars
  BY DecidingSteps, LearnDecides, GateDecides, ListDecides
<1> QED BY <1>1, TypedThroughout, UndisturbedIsCurrent, PTL DEF Spec, EmergencyPassesGates
=============================================================================
