------------------------- MODULE ScalarEngineProofs -------------------------
(***************************************************************************)
(* Theorems about the CONVERGE engines, for every roster (repeated ids     *)
(* included), every class and every stream of events; about their plants,  *)
(* about the controller, and about a run of the driver that composes them. *)
(***************************************************************************)
EXTENDS ConvergeRun, FiniteSetTheorems, WellFoundedInduction, TLAPS

-----------------------------------------------------------------------------
(* Types *)

LEMMA EventFields ==
  ASSUME NEW e \in Events
  PROVE  e.id \in EventIds /\ e.epoch \in Epochs /\ e.epoch \in Nat /\ e # None
BY EventsAssumption, EpochsAssumption DEF Event

LEMMA BumpType ==
  ASSUME counters \in [RuntimeCounters -> Nat], NEW fields, Bump(fields)
  PROVE  /\ counters' \in [RuntimeCounters -> Nat]
         /\ \A f \in RuntimeCounters :
              counters'[f] = IF f \in fields THEN counters[f] + 1
                                             ELSE counters[f]
BY DEF Bump

LEMMA RosterFinite ==
  IsFiniteSet(Indices) /\ Cardinality(Indices) = RosterSize
BY RosterAssumption, FS_Interval DEF Indices

LEMMA AnnouncedFacts ==
  ASSUME TypeOK, NEW e \in Events, NEW i \in Indices, Acceptable(e, i)
  PROVE  /\ Announced(e, i) \in [Indices -> FiniteScalars \cup {None}]
         /\ Announced(e, i)[i] = e.payload.value
         /\ e.payload.value \in FiniteScalars
         /\ \A j \in Indices \ {i} : Announced(e, i)[j] = announced[j]
BY DEF Announced, TypeOK, Acceptable, IsFiniteValue

\* A round that is not incomplete has a scalar for every index.
LEMMA CompleteRound ==
  ASSUME NEW a \in [Indices -> FiniteScalars \cup {None}], ~Incomplete(a)
  PROVE  a \in [Indices -> FiniteScalars]
<1>1. Keys(a) \in SUBSET Indices
  BY DEF Keys
<1>2. /\ Cardinality(Keys(a)) \in Nat
      /\ Cardinality(Keys(a)) <= Cardinality(Indices)
      /\ Cardinality(Indices) = Cardinality(Keys(a)) => Indices = Keys(a)
  BY <1>1, RosterFinite, FS_Subset, FS_CardinalityType
<1>3. Keys(a) = Indices
  BY <1>2, RosterFinite, RosterAssumption DEF Incomplete
<1> QED
  BY <1>3 DEF Keys

\* A round that is incomplete lacks the scalar of some index.
LEMMA IncompleteRound ==
  ASSUME NEW a \in [Indices -> FiniteScalars \cup {None}], Incomplete(a)
  PROVE  \E i \in Indices : a[i] = None
<1>1. SUFFICES ASSUME Keys(a) = Indices PROVE FALSE
  BY DEF Keys
<1> QED
  BY <1>1, RosterFinite, RosterAssumption DEF Incomplete

LEMMA TypeInit == Init => TypeOK
BY EpochsAssumption, ScalarsAssumption DEF Init, TypeOK, Outcomes

LEMMA TypeStep ==
  ASSUME TypeOK, NEW e \in Events, Apply(e)
  PROVE  TypeOK'
<1> USE DEF TypeOK
<1>0. calls' \in Nat /\ e.id \in EventIds
  BY EventFields DEF Apply
<1>1. ASSUME NEW why \in Outcomes, NEW fields, Refuse(why, fields),
             seen_events' \in {seen_events, seen_events \cup {e.id}}
      PROVE  TypeOK'
  BY <1>0, <1>1, BumpType DEF Refuse
<1>2. CASE RejectPattern(e)
  BY <1>1, <1>2 DEF RejectPattern, Outcomes
<1>3. CASE RejectStale(e)
  BY <1>1, <1>3 DEF RejectStale, Outcomes
<1>4. CASE Defer(e)
  BY <1>1, <1>4 DEF Defer, Outcomes
<1>5. CASE RejectDuplicate(e)
  BY <1>1, <1>5 DEF RejectDuplicate, Outcomes
<1>6. CASE RejectPayload(e)
  BY <1>1, <1>6 DEF RejectPayload, Record, Outcomes
<1>7. CASE RejectParticipant(e)
  BY <1>1, <1>7 DEF RejectParticipant, Record, Outcomes
<1>8. CASE \E i \in Indices : RejectRepeat(e, i)
  BY <1>1, <1>8 DEF RejectRepeat, Record, Outcomes
<1>9. CASE \E i \in Indices : RejectNonFinite(e, i)
  BY <1>1, <1>9 DEF RejectNonFinite, Record, Outcomes
<1>10. ASSUME NEW i \in Indices, HoldScalar(e, i) PROVE TypeOK'
  BY <1>0, <1>10, BumpType, AnnouncedFacts DEF HoldScalar, Record, Outcomes
<1>11. ASSUME NEW i \in Indices, FinalizeEpoch(e, i) PROVE TypeOK'
  <2>1. Announced(e, i) \in [Indices -> FiniteScalars]
    BY <1>11, AnnouncedFacts, CompleteRound DEF FinalizeEpoch
  <2>2. announced' \in [Indices -> FiniteScalars \cup {None}]
    BY <1>11 DEF FinalizeEpoch, ClearAnnounced
  <2>3. /\ current' \in [Indices -> FiniteScalars]
        /\ rounds' \in [Epochs -> [Indices -> FiniteScalars] \cup {None}]
    BY <1>11, <2>1 DEF FinalizeEpoch
  <2>4. /\ counters' \in [RuntimeCounters -> Nat]
        /\ active_epoch' \in Nat /\ outcome' \in Outcomes
        /\ seen_events' \subseteq EventIds
    BY <1>0, <1>11, BumpType DEF FinalizeEpoch, AdvanceEpoch, Record, Outcomes
  <2>5. consumed' \in [EventIds -> Events \cup {None}]
    BY <1>11 DEF FinalizeEpoch
  <2> QED
    BY <1>0, <2>2, <2>3, <2>4, <2>5
<1> QED
  BY <1>2, <1>3, <1>4, <1>5, <1>6, <1>7, <1>8, <1>9, <1>10, <1>11 DEF Apply

-----------------------------------------------------------------------------
(* Safety *)

\* The inductive invariant.  ExactlyOnce keeps the evidence of applied events
\* in place; ScalarsAreTheirOwn speaks of the open round and of the finalized
\* ones because the former turn into the latter.
IInv ==
  /\ TypeOK
  /\ Accounting
  /\ ExactlyOnce
  /\ NoIdleRound
  /\ ScalarsAreTheirOwn
  /\ CurrentIsLatestRound

LEMMA ConsumeFacts ==
  ASSUME TypeOK, ExactlyOnce, NEW e \in Events, Fresh(e),
         consumed' = [consumed EXCEPT ![e.id] = e]
  PROVE  /\ e.id \notin Keys(consumed)
         /\ Keys(consumed') = Keys(consumed) \cup {e.id}
         /\ consumed'[e.id] = e
         /\ \A k \in Keys(consumed) : consumed'[k] = consumed[k]
         /\ Cardinality(Keys(consumed')) = Cardinality(Keys(consumed)) + 1
<1>1. e.id \in EventIds /\ e # None
  BY EventFields
<1>2. e.id \notin Keys(consumed)
  BY DEF ExactlyOnce, Fresh
<1>3. Keys(consumed') = Keys(consumed) \cup {e.id}
  BY <1>1 DEF Keys, TypeOK
<1>4. IsFiniteSet(Keys(consumed))
  <2>1. Keys(consumed) \in SUBSET EventIds
    BY DEF Keys, TypeOK
  <2> QED
    BY <2>1, EventsAssumption, FS_Subset
<1>5. Cardinality(Keys(consumed) \cup {e.id}) = Cardinality(Keys(consumed)) + 1
  BY <1>2, <1>4, FS_AddElement
<1>6. \A k \in Keys(consumed) : consumed'[k] = consumed[k]
  BY <1>2 DEF Keys, TypeOK
<1>7. consumed'[e.id] = e
  BY <1>1 DEF TypeOK
<1> QED
  BY <1>2, <1>3, <1>5, <1>6, <1>7

\* Evidence outlives every later event, and an applied event is evidence.
LEMMA EvidenceStays ==
  ASSUME TypeOK, ExactlyOnce, NEW e \in Events, NEW i \in Indices,
         Acceptable(e, i), consumed' = [consumed EXCEPT ![e.id] = e]
  PROVE  /\ \A n, j, x : AnnouncedIn(consumed, n, j, x)
                           => AnnouncedIn(consumed', n, j, x)
         /\ AnnouncedIn(consumed', active_epoch, i, e.payload.value)
<1>1. /\ \A k \in Keys(consumed) :
           k \in Keys(consumed') /\ consumed'[k] = consumed[k]
      /\ e.id \in Keys(consumed') /\ consumed'[e.id] = e
  BY ConsumeFacts DEF Acceptable
<1>2. \A n, j, x : AnnouncedIn(consumed, n, j, x)
                     => AnnouncedIn(consumed', n, j, x)
  BY <1>1 DEF AnnouncedIn
<1>3. /\ e.epoch = active_epoch /\ e.payload.kind = "ScalarProposal"
      /\ e.payload.participant = Roster[i]
      /\ \/ e.source.kind = "Local"
         \/ e.source.kind \in {"Peer", "Tool"} /\ e.source.id = Roster[i]
  BY DEF Acceptable, Fresh, Current, IsScalar, SpeaksFor, IsIndexOf
<1>4. AnnouncedIn(consumed', active_epoch, i, e.payload.value)
  BY <1>1, <1>3 DEF AnnouncedIn
<1> QED
  BY <1>2, <1>4

LEMMA InvInit == Init => IInv
<1> SUFFICES ASSUME Init PROVE IInv
  OBVIOUS
<1>1. TypeOK
  BY TypeInit
<1>2. Keys(consumed) = {} /\ Keys(announced) = {} /\ Keys(rounds) = {}
  BY DEF Init, Keys
<1>3. Accounting
  BY EpochsAssumption DEF Init, Accounting, RuntimeCounters
<1>4. ExactlyOnce
  BY <1>2, FS_EmptySet DEF Init, ExactlyOnce, RuntimeCounters
<1>5. NoIdleRound
  <2>1. 1 \in Indices
    BY RosterAssumption DEF Indices
  <2> QED
    BY <2>1 DEF Init, NoIdleRound
<1>6. ScalarsAreTheirOwn
  BY <1>2 DEF ScalarsAreTheirOwn
<1>7. CurrentIsLatestRound
  BY EpochsAssumption DEF Init, CurrentIsLatestRound
<1> QED
  BY <1>1, <1>3, <1>4, <1>5, <1>6, <1>7 DEF IInv

LEMMA RefuseKeepsInv ==
  ASSUME IInv, TypeOK', NEW why, NEW fields, Refuse(why, fields), calls' = calls + 1,
         seen_events \subseteq seen_events',
         fields \in {{"rejected"}, {"deferred"}, {"rejected", "stale"},
                     {"rejected", "duplicates"}}
  PROVE  IInv'
<1> USE DEF IInv
<1>1. \A f \in RuntimeCounters :
        counters'[f] = IF f \in fields THEN counters[f] + 1 ELSE counters[f]
  BY BumpType DEF Refuse, TypeOK
<1>2. \A f \in RuntimeCounters : counters[f] \in Nat
  BY DEF TypeOK
<1>3. Accounting'
  BY <1>1, <1>2 DEF Accounting, Refuse, RuntimeCounters, TypeOK
<1>4. ExactlyOnce'
  BY <1>1 DEF ExactlyOnce, Refuse, RuntimeCounters
<1>5. NoIdleRound' /\ ScalarsAreTheirOwn' /\ CurrentIsLatestRound'
  BY DEF NoIdleRound, ScalarsAreTheirOwn, CurrentIsLatestRound, Refuse
<1> QED
  BY <1>3, <1>4, <1>5

LEMMA ConsumeKeepsBooks ==
  ASSUME IInv, NEW e \in Events, Fresh(e), Record(e), calls' = calls + 1,
         consumed' = [consumed EXCEPT ![e.id] = e],
         NEW fields, Bump(fields),
         \/ fields = {"applied"} /\ active_epoch' = active_epoch
         \/ /\ fields = {"applied", "finalized"}
            /\ active_epoch' = active_epoch + 1
  PROVE  Accounting' /\ ExactlyOnce'
<1> USE DEF IInv
<1>1. \A f \in RuntimeCounters :
        counters'[f] = IF f \in fields THEN counters[f] + 1 ELSE counters[f]
  BY BumpType DEF TypeOK
<1>2. \A f \in RuntimeCounters : counters[f] \in Nat
  BY DEF TypeOK
<1>3. Accounting'
  BY <1>1, <1>2, EpochsAssumption DEF Accounting, RuntimeCounters, TypeOK
<1>4. counters'["applied"] = Cardinality(Keys(consumed'))
  BY <1>1, ConsumeFacts DEF ExactlyOnce, RuntimeCounters
<1>5. Keys(consumed') \subseteq seen_events'
  BY ConsumeFacts DEF ExactlyOnce, Record
<1> QED
  BY <1>3, <1>4, <1>5 DEF ExactlyOnce

LEMMA HoldKeepsInv ==
  ASSUME IInv, TypeOK', NEW e \in Events, NEW i \in Indices, HoldScalar(e, i),
         calls' = calls + 1
  PROVE  IInv'
<1> USE DEF IInv
<1>0. /\ Acceptable(e, i) /\ Fresh(e)
      /\ consumed' = [consumed EXCEPT ![e.id] = e]
      /\ announced' = Announced(e, i)
      /\ UNCHANGED <<active_epoch, current, rounds>>
  BY DEF HoldScalar, Acceptable
<1>1. Accounting' /\ ExactlyOnce'
  BY <1>0, ConsumeKeepsBooks DEF HoldScalar
<1>2. NoIdleRound'
  BY <1>0, AnnouncedFacts, IncompleteRound DEF HoldScalar, NoIdleRound
<1>3. ScalarsAreTheirOwn'
  <2>1. ASSUME NEW j \in Keys(announced')
        PROVE  AnnouncedIn(consumed', active_epoch', j, announced'[j])
    <3>1. CASE j = i
      BY <3>1, <1>0, AnnouncedFacts, EvidenceStays
    <3>2. CASE j # i
      <4>1. j \in Keys(announced) /\ announced'[j] = announced[j]
        BY <3>2, <1>0, AnnouncedFacts DEF Keys, TypeOK
      <4> QED
        BY <4>1, <1>0, EvidenceStays DEF ScalarsAreTheirOwn
    <3> QED
      BY <3>1, <3>2
  <2>2. \A n \in Keys(rounds') : \A j \in Indices :
          AnnouncedIn(consumed', n, j, rounds'[n][j])
    BY <1>0, EvidenceStays DEF ScalarsAreTheirOwn
  <2> QED
    BY <2>1, <2>2 DEF ScalarsAreTheirOwn
<1>4. CurrentIsLatestRound'
  BY <1>0 DEF CurrentIsLatestRound
<1> QED
  BY <1>1, <1>2, <1>3, <1>4

LEMMA FinalizeKeepsInv ==
  ASSUME IInv, TypeOK', NEW e \in Events, NEW i \in Indices,
         FinalizeEpoch(e, i), calls' = calls + 1
  PROVE  IInv'
<1> USE DEF IInv
<1> DEFINE a == Announced(e, i)
<1>0. /\ Acceptable(e, i) /\ Fresh(e) /\ e.epoch = active_epoch
      /\ consumed' = [consumed EXCEPT ![e.id] = e]
      /\ active_epoch' = active_epoch + 1
      /\ current' = a
      /\ rounds' = [rounds EXCEPT ![active_epoch] = a]
      /\ announced' = [j \in Indices |-> None]
  BY DEF FinalizeEpoch, Acceptable, Fresh, Current, AdvanceEpoch, ClearAnnounced
<1>1. Accounting' /\ ExactlyOnce'
  BY <1>0, ConsumeKeepsBooks DEF FinalizeEpoch
<1>2. a \in [Indices -> FiniteScalars] /\ a # None
  <2>1. a \in [Indices -> FiniteScalars]
    BY <1>0, AnnouncedFacts, CompleteRound DEF FinalizeEpoch
  <2> QED
    BY <2>1, ScalarsAssumption
<1>3. active_epoch \in Epochs /\ active_epoch \in Nat
  BY <1>0, EventFields
<1>4. NoIdleRound'
  BY <1>0 DEF NoIdleRound
<1>5. \A j \in Indices : AnnouncedIn(consumed', active_epoch, j, a[j])
  <2> TAKE j \in Indices
  <2>1. CASE j = i
    BY <2>1, <1>0, AnnouncedFacts, EvidenceStays
  <2>2. CASE j # i
    <3>1. a[j] = announced[j] /\ a[j] \in FiniteScalars
      BY <2>2, <1>0, <1>2, AnnouncedFacts
    <3>2. j \in Keys(announced)
      BY <3>1, ScalarsAssumption DEF Keys, TypeOK
    <3> QED
      BY <3>1, <3>2, <1>0, EvidenceStays DEF ScalarsAreTheirOwn
  <2> QED
    BY <2>1, <2>2
<1> HIDE DEF a
<1>6. ScalarsAreTheirOwn'
  <2>1. Keys(announced') = {}
    BY <1>0 DEF Keys
  <2>2. ASSUME NEW n \in Keys(rounds'), NEW j \in Indices
        PROVE  AnnouncedIn(consumed', n, j, rounds'[n][j])
    <3>1. CASE n = active_epoch
      BY <3>1, <1>0, <1>3, <1>5 DEF TypeOK
    <3>2. CASE n # active_epoch
      <4>1. n \in Keys(rounds) /\ rounds'[n] = rounds[n]
        BY <3>2, <1>0, <1>3 DEF Keys, TypeOK
      <4> QED
        BY <4>1, <1>0, EvidenceStays DEF ScalarsAreTheirOwn
    <3> QED
      BY <3>1, <3>2
  <2> QED
    BY <2>1, <2>2 DEF ScalarsAreTheirOwn
<1>7. CurrentIsLatestRound'
  <2>1. InitialEpoch \in Nat /\ InitialEpoch <= active_epoch
    BY EpochsAssumption DEF Accounting, TypeOK, RuntimeCounters
  <2>2. ASSUME NEW n \in Epochs
        PROVE  rounds'[n] # None <=> InitialEpoch <= n /\ n < active_epoch'
    <3>1. n \in Nat
      BY EpochsAssumption
    <3>2. CASE n = active_epoch
      BY <3>2, <2>1, <1>0, <1>2, <1>3 DEF TypeOK
    <3>3. CASE n # active_epoch
      <4>1. rounds'[n] = rounds[n]
        BY <3>3, <1>0 DEF TypeOK
      <4> QED
        BY <4>1, <3>1, <3>3, <2>1, <1>0, <1>3 DEF CurrentIsLatestRound
    <3> QED
      BY <3>2, <3>3
  <2>3. active_epoch' # InitialEpoch /\ active_epoch' - 1 = active_epoch
    BY <2>1, <1>0, <1>3
  <2>4. current' = rounds'[active_epoch]
    BY <1>0, <1>3 DEF TypeOK
  <2> QED
    BY <2>2, <2>3, <2>4 DEF CurrentIsLatestRound
<1> QED
  BY <1>1, <1>4, <1>6, <1>7

LEMMA InvStep ==
  ASSUME IInv, NEW e \in Events, Apply(e)
  PROVE  IInv'
<1>0. TypeOK' /\ calls' = calls + 1
  BY TypeStep DEF IInv, Apply
<1>1. CASE RejectPattern(e)
  BY <1>0, <1>1, RefuseKeepsInv DEF RejectPattern
<1>2. CASE RejectStale(e)
  BY <1>0, <1>2, RefuseKeepsInv DEF RejectStale
<1>3. CASE Defer(e)
  BY <1>0, <1>3, RefuseKeepsInv DEF Defer
<1>4. CASE RejectDuplicate(e)
  BY <1>0, <1>4, RefuseKeepsInv DEF RejectDuplicate
<1>5. CASE RejectPayload(e)
  BY <1>0, <1>5, RefuseKeepsInv DEF RejectPayload, Record
<1>6. CASE RejectParticipant(e)
  BY <1>0, <1>6, RefuseKeepsInv DEF RejectParticipant, Record
<1>7. CASE \E i \in Indices : RejectRepeat(e, i)
  BY <1>0, <1>7, RefuseKeepsInv DEF RejectRepeat, Record
<1>8. CASE \E i \in Indices : RejectNonFinite(e, i)
  BY <1>0, <1>8, RefuseKeepsInv DEF RejectNonFinite, Record
<1>9. CASE \E i \in Indices : HoldScalar(e, i)
  BY <1>0, <1>9, HoldKeepsInv
<1>10. CASE \E i \in Indices : FinalizeEpoch(e, i)
  BY <1>0, <1>10, FinalizeKeepsInv
<1> QED
  BY <1>1, <1>2, <1>3, <1>4, <1>5, <1>6, <1>7, <1>8, <1>9, <1>10 DEF Apply

LEMMA InvStutter == IInv /\ UNCHANGED vars => IInv'
BY DEF vars, IInv, TypeOK, Accounting, ExactlyOnce, NoIdleRound,
       ScalarsAreTheirOwn, CurrentIsLatestRound

THEOREM Invariance == Spec => []IInv
<1>1. IInv /\ [Next]_vars => IInv'
  BY InvStutter, InvStep DEF Next
<1> QED
  BY <1>1, InvInit, PTL DEF Spec

\* Every scalar an epoch finalizes was announced in that epoch by its owner or
\* on its owner's behalf, whatever the transport delivers.
THEOREM NoForeignScalars == Spec => []ScalarsAreTheirOwn
BY Invariance, PTL DEF IInv

\* Every call is counted once and every event id takes effect at most once.
THEOREM BooksBalance == Spec => [](Accounting /\ ExactlyOnce)
BY Invariance, PTL DEF IInv

\* The engine's values are those of the latest finalized epoch, no epoch is
\* skipped, and no complete round is left open.
THEOREM RoundsAreContiguous == Spec => [](CurrentIsLatestRound /\ NoIdleRound)
BY Invariance, PTL DEF IInv

\* An announcement is never replaced within its epoch, and the epoch that
\* finalizes takes it over unchanged.
THEOREM AnnouncementsStand == Spec => FirstAnnouncementStands
<1> DEFINE Stands ==
      \A i \in Keys(announced) :
        \/ announced'[i] = announced[i] /\ active_epoch' = active_epoch
        \/ current'[i] = announced[i] /\ active_epoch' = active_epoch + 1
<1>1. ASSUME IInv, NEW e \in Events, Apply(e)
      PROVE  Stands
  <2>1. CASE \E i \in Indices : HoldScalar(e, i)
    <3>1. PICK i \in Indices : HoldScalar(e, i)
      BY <2>1
    <3>2. announced[i] = None /\ Acceptable(e, i)
      BY <3>1 DEF HoldScalar, Acceptable
    <3> QED
      BY <1>1, <3>1, <3>2, AnnouncedFacts DEF HoldScalar, Keys, IInv, TypeOK
  <2>2. CASE \E i \in Indices : FinalizeEpoch(e, i)
    <3>1. PICK i \in Indices : FinalizeEpoch(e, i)
      BY <2>2
    <3>2. announced[i] = None /\ Acceptable(e, i)
      BY <3>1 DEF FinalizeEpoch, Acceptable
    <3> QED
      BY <1>1, <3>1, <3>2, AnnouncedFacts
      DEF FinalizeEpoch, AdvanceEpoch, Keys, IInv, TypeOK
  <2>3. CASE /\ ~\E i \in Indices : HoldScalar(e, i)
             /\ ~\E i \in Indices : FinalizeEpoch(e, i)
    BY <1>1, <2>3
    DEF Apply, RejectPattern, RejectStale, Defer, RejectDuplicate,
        RejectPayload, RejectParticipant, RejectRepeat, RejectNonFinite, Refuse
  <2> QED
    BY <2>1, <2>2, <2>3
<1>2. IInv /\ [Next]_vars => [Stands]_vars
  BY <1>1 DEF Next
<1> QED
  BY <1>2, Invariance, PTL DEF Spec, FirstAnnouncementStands

\* The engine implements the abstract rounds: a held announcement is a Put, the
\* one that completes the roster a Close, and everything else a stutter.
THEOREM RefinesRounds == Spec => ImplementsRounds
<1>1. Init => Rounds!Init
  BY DEF Init, Rounds!Init, Rounds!EmptyTable
<1>2. ASSUME IInv, NEW e \in Events, Apply(e)
      PROVE  Rounds!Next \/ UNCHANGED Rounds!roundVars
  <2>1. ASSUME NEW i \in Indices, Acceptable(e, i)
        PROVE  active_epoch \in Epochs /\ e.payload.value \in FiniteScalars
    BY <2>1, EventFields DEF Acceptable, Fresh, Current, IsFiniteValue
  <2>2. CASE \E i \in Indices : HoldScalar(e, i)
    <3>1. PICK i \in Indices : HoldScalar(e, i)
      BY <2>2
    <3>2. Rounds!Put(i, e.payload.value)
      BY <3>1 DEF HoldScalar, Announced, Rounds!Put
    <3> QED
      BY <2>1, <3>1, <3>2 DEF HoldScalar, Rounds!Next
  <2>3. CASE \E i \in Indices : FinalizeEpoch(e, i)
    <3>1. PICK i \in Indices : FinalizeEpoch(e, i)
      BY <2>3
    <3>2. Rounds!Close(i, e.payload.value)
      BY <3>1
      DEF FinalizeEpoch, Announced, AdvanceEpoch, ClearAnnounced, WholeTable,
          Rounds!Close, Rounds!EmptyTable
    <3> QED
      BY <2>1, <3>1, <3>2 DEF FinalizeEpoch, Rounds!Next
  <2>4. CASE /\ ~\E i \in Indices : HoldScalar(e, i)
             /\ ~\E i \in Indices : FinalizeEpoch(e, i)
    BY <1>2, <2>4
    DEF Apply, RejectPattern, RejectStale, Defer, RejectDuplicate,
        RejectPayload, RejectParticipant, RejectRepeat, RejectNonFinite,
        Refuse, Rounds!roundVars
  <2> QED
    BY <2>2, <2>3, <2>4
<1>3. UNCHANGED vars => UNCHANGED Rounds!roundVars
  BY DEF vars, Rounds!roundVars
<1>4. IInv /\ [Next]_vars => [Rounds!Next]_(Rounds!roundVars)
  BY <1>2, <1>3 DEF Next
<1> QED
  BY <1>1, <1>4, Invariance, PTL DEF Spec, ImplementsRounds, Rounds!Spec

-----------------------------------------------------------------------------
(* Sums and demands *)

\* A nonempty set of naturals has a least element.
LEMMA LeastIsBelow ==
  ASSUME NEW T, T \subseteq Nat, T # {}
  PROVE  \E m \in T : \A k \in T : m <= k
<1> DEFINE R == OpToRel(<, Nat)
<1>1. \E m \in T : \A k \in T : ~(<<k, m>> \in R)
  BY NatLessThanWellFounded, WFMin
<1>2. \A k, m \in Nat : ~(<<k, m>> \in R) => m <= k
  BY DEF OpToRel
<1> QED
  BY <1>1, <1>2

LEMMA LeastNat ==
  ASSUME NEW T, T \subseteq Nat, T # {}
  PROVE  Min(T) \in T
BY LeastIsBelow DEF Min

LEMMA MinMaxOfTwo ==
  ASSUME NEW a \in Int, NEW b \in Int
  PROVE  /\ Max({a, b}) = IF a >= b THEN a ELSE b
         /\ Min({a, b}) = IF a <= b THEN a ELSE b
BY DEF Max, Min

LEMMA DemandType == Demand \in Seq(Int) /\ Len(Demand) \in Nat \ {0}
<1>1. Len(PaperDemand) \in Nat /\ Len(PaperDemand) >= 1 /\ DOMAIN PaperDemand = 1 .. Len(PaperDemand)
  BY PlantAssumption
<1>2. shock_index(PaperDemand) \in Int
  BY <1>1, LeastNat DEF shock_index
<1> DEFINE n == Max({Len(PaperDemand), shock_index(PaperDemand) + RosterSize})
<1>3. n \in Nat /\ n >= 1
  BY <1>1, <1>2, MinMaxOfTwo, RosterAssumption
<1>4. Demand = [k \in 1 .. n |-> PaperDemand[Min({k, Len(PaperDemand)})]]
  BY DEF Demand, demand_for
<1> HIDE DEF n
<1>5. \A k \in 1 .. n : Min({k, Len(PaperDemand)}) \in 1 .. Len(PaperDemand)
  <2> TAKE k \in 1 .. n
  <2>1. k \in Int /\ k >= 1 /\ Len(PaperDemand) \in Int
    BY <1>1, <1>3
  <2>2. Min({k, Len(PaperDemand)}) =
          IF k <= Len(PaperDemand) THEN k ELSE Len(PaperDemand)
    BY ONLY <2>1, MinMaxOfTwo
  <2> QED
    BY <1>1, <2>1, <2>2, PlantAssumption
<1>6. Demand \in [1 .. n -> Int]
  BY <1>4, <1>5, PlantAssumption
<1>7. Demand \in Seq(Int) /\ Len(Demand) = n
  BY <1>3, <1>6
<1> QED
  BY <1>3, <1>7

\* The customer always asks for some amount.
LEMMA CustomerType == \A k \in Nat : CustomerAt(k) \in Int
<1> TAKE k \in Nat
<1>1. Len(Demand) \in Nat \ {0} /\ Demand \in Seq(Int)
  BY DemandType
<1>2. k + 1 \in Int /\ Len(Demand) \in Int
  BY <1>1
<1>3. Min({k + 1, Len(Demand)}) = IF k + 1 <= Len(Demand) THEN k + 1 ELSE Len(Demand)
  BY ONLY <1>2, MinMaxOfTwo
<1>4. Min({k + 1, Len(Demand)}) \in 1 .. Len(Demand)
  BY <1>1, <1>3
<1> QED
  BY <1>1, <1>4 DEF CustomerAt

LEMMA ScalarsAreIntegers == \A x \in FiniteScalars : x \in Int
BY PlantAssumption

\* A running account of f: g[k] is f[1] + ... + f[k].
Running(g, f, n) ==
  /\ g \in [0 .. n -> Int] /\ g[0] = 0
  /\ \A k \in 1 .. n : g[k] = g[k - 1] + f[k]

\* Whoever keeps a running account has the sum.
LEMMA SumIsRunning ==
  ASSUME NEW n \in Nat, NEW f, NEW g, Running(g, f, n)
  PROVE  SumTo(f, n) = g[n]
<1> DEFINE Eqn(s) == s = [k \in 0 .. n |-> IF k = 0 THEN 0 ELSE s[k - 1] + f[k]]
           sum == CHOOSE s : Eqn(s)
<1>1. Eqn(g)
  BY DEF Running
<1>2. Eqn(sum)
  BY <1>1
<1> DEFINE D == {k \in 0 .. n : sum[k] # g[k]}
<1> HIDE DEF sum
<1>3. D = {}
  <2> SUFFICES ASSUME D # {} PROVE FALSE
    OBVIOUS
  <2>1. D \subseteq Nat
    OBVIOUS
  <2>2. PICK m \in D : \A k \in D : m <= k
    BY <2>1, LeastIsBelow
  <2>3. m # 0
    BY <1>2 DEF Running
  <2>4. m \in 1 .. n /\ m - 1 \in 0 .. n /\ m - 1 \notin D
    BY <2>2, <2>3
  <2> QED
    BY <1>2, <2>4, <2>2 DEF Running
<1>4. SumTo(f, n) = sum[n]
  BY DEF SumTo, sum
<1> QED
  BY <1>3, <1>4

-----------------------------------------------------------------------------
(* The plants *)

\* An epoch that ends has its scalars in the history, and nothing else writes it.
LEMMA EpochEnds ==
  ASSUME IInv, NEW e \in Events, Apply(e)
  PROVE  /\ IInv'
         /\ active_epoch' = active_epoch =>
              rounds' = rounds /\ counters'["finalized"] = counters["finalized"]
         /\ active_epoch' # active_epoch =>
              /\ active_epoch' = active_epoch + 1 /\ active_epoch \in Epochs
              /\ rounds' = [rounds EXCEPT ![active_epoch] = current']
              /\ counters'["finalized"] = counters["finalized"] + 1
<1>1. IInv'
  BY InvStep
<1>2. /\ active_epoch = InitialEpoch + counters["finalized"]
      /\ active_epoch' = InitialEpoch + counters'["finalized"]
      /\ InitialEpoch \in Nat /\ counters["finalized"] \in Nat /\ counters'["finalized"] \in Nat
  BY <1>1, EpochsAssumption DEF IInv, Accounting, TypeOK, RuntimeCounters
<1>3. CASE \E i \in Indices : FinalizeEpoch(e, i)
  <2>1. PICK i \in Indices : FinalizeEpoch(e, i)
    BY <1>3
  <2>2. /\ active_epoch' = active_epoch + 1 /\ active_epoch = e.epoch
        /\ rounds' = [rounds EXCEPT ![active_epoch] = current']
    BY <2>1 DEF FinalizeEpoch, AdvanceEpoch, Acceptable, Fresh, Current
  <2>3. active_epoch \in Epochs
    BY <2>2, EventFields
  <2>4. counters'["finalized"] = counters["finalized"] + 1 /\ active_epoch' # active_epoch
    BY <1>2, <2>2
  <2> QED
    BY <1>1, <2>2, <2>3, <2>4
<1>4. CASE ~\E i \in Indices : FinalizeEpoch(e, i)
  <2>1. active_epoch' = active_epoch /\ rounds' = rounds
    BY <1>4
    DEF Apply, RejectPattern, RejectStale, Defer, RejectDuplicate, RejectPayload,
        RejectParticipant, RejectRepeat, RejectNonFinite, Refuse, HoldScalar
  <2> QED
    BY <1>1, <1>2, <2>1
<1> QED
  BY <1>3, <1>4

\* pop_front and push_back move every order one place on.
LEMMA ShipFacts ==
  ASSUME NEW pipe \in Seq(FiniteScalars), Len(pipe) = Lead, NEW order \in FiniteScalars
  PROVE  /\ Ship(pipe, order) \in Seq(FiniteScalars) /\ Len(Ship(pipe, order)) = Lead
         /\ Ship(pipe, order)[Lead] = order
         /\ \A k \in 1 .. Lead - 1 : Ship(pipe, order)[k] = pipe[k + 1]
<1>1. Lead \in Nat /\ Lead > 0 /\ pipe # <<>>
  BY PlantAssumption
<1>2. /\ Tail(pipe) \in Seq(FiniteScalars) /\ Len(Tail(pipe)) = Lead - 1
      /\ \A k \in 1 .. Lead - 1 : Tail(pipe)[k] = pipe[k + 1]
  BY <1>1
<1> QED
  BY <1>1, <1>2 DEF Ship

-----------------------------------------------------------------------------
(* The stock *)

\* A record of the stock after every round, with as many breaches as counted.
StockBook(g) ==
  /\ g = [k \in 0 .. Closed |-> g[k]] /\ g[0] = R0
  /\ \A k \in 1 .. Closed : g[k] = LeftIn(g[k - 1], k)
  /\ r = g[Closed]
  /\ breaches = Cardinality({k \in 1 .. Closed : IsBreach(g[k])})

StockKept == Class = "Resource" => \E g : StockBook(g)

LEMMA ClosedType == IInv => Closed \in Nat /\ active_epoch = InitialEpoch + Closed
BY EpochsAssumption DEF IInv, TypeOK, Accounting, RuntimeCounters, Closed

LEMMA StockInit == Init /\ PlantInit => StockKept
<1> SUFFICES ASSUME Init, PlantInit PROVE \E g : StockBook(g)
  BY DEF StockKept
<1>1. Closed = 0
  BY EpochsAssumption DEF Init, Closed
<1> DEFINE g == [k \in 0 .. 0 |-> R0]
<1>2. {k \in 1 .. 0 : IsBreach(g[k])} = {}
  OBVIOUS
<1>3. g = [k \in 0 .. 0 |-> g[k]] /\ g[0] = R0
  OBVIOUS
<1>4. r = R0 /\ breaches = 0
  BY DEF PlantInit
<1> HIDE DEF g
<1>5. StockBook(g)
  BY <1>1, <1>2, <1>3, <1>4, FS_EmptySet DEF StockBook
<1> QED
  BY <1>5

\* A record stays good while neither the history nor the stock moves.
LEMMA StockStill ==
  ASSUME StockKept, UNCHANGED <<resourceVars, active_epoch, rounds>>
  PROVE  StockKept'
<1>1. r' = r /\ breaches' = breaches /\ Closed' = Closed
  BY DEF resourceVars, Closed
<1>2. \A x, k : LeftIn(x, k)' = LeftIn(x, k)
  BY DEF LeftIn
<1>3. \A g : StockBook(g) => StockBook(g)'
  BY <1>1, <1>2 DEF StockBook
<1> QED
  BY <1>3 DEF StockKept

\* A finalized round adds its stock to the record, and its breach if it is one.
LEMMA StockStep ==
  ASSUME IInv, IInv', StockKept, Class = "Resource", ApplyExtractions(current'),
         active_epoch' = active_epoch + 1, active_epoch \in Epochs,
         rounds' = [rounds EXCEPT ![active_epoch] = current']
  PROVE  StockKept'
<1>1. PICK g : StockBook(g)
  BY DEF StockKept
<1>2. PICK n, x : n = Closed /\ x = r'
  OBVIOUS
<1>3. n \in Nat /\ active_epoch = InitialEpoch + n /\ Closed' = n + 1 /\ InitialEpoch \in Nat
  BY <1>2, ClosedType, EpochsAssumption DEF Closed, IInv, TypeOK
<1>4. \A k \in 1 .. n : rounds'[InitialEpoch + k - 1] = rounds[InitialEpoch + k - 1]
  BY <1>3 DEF IInv, TypeOK
<1>5. rounds'[InitialEpoch + (n + 1) - 1] = current'
  BY <1>3 DEF IInv, TypeOK
<1>6. x = LeftIn(g[n], n + 1)'
  <2>1. r = g[n] /\ x = NonNegative(Grown(r) - Total(current'))
    BY <1>1, <1>2 DEF StockBook, ApplyExtractions, StockLeft
  <2> QED
    BY <1>5, <2>1 DEF LeftIn
<1> DEFINE G == [k \in 0 .. n + 1 |-> IF k <= n THEN g[k] ELSE x]
           old == {k \in 1 .. n : IsBreach(g[k])}
           new == {k \in 1 .. n + 1 : IsBreach(G[k])}
<1>7. /\ G = [k \in 0 .. n + 1 |-> G[k]] /\ G[n + 1] = x
      /\ \A k \in 0 .. n : G[k] = g[k]
  BY <1>3
<1> HIDE DEF G
<1>8. G[0] = R0
  <2>1. 0 \in 0 .. n /\ g[0] = R0
    BY <1>1, <1>3 DEF StockBook
  <2> QED
    BY <1>7, <2>1
<1>9. ASSUME NEW k \in 1 .. n + 1 PROVE G[k] = LeftIn(G[k - 1], k)'
  <2>1. CASE k = n + 1
    <3>1. k - 1 = n /\ n \in 0 .. n
      BY <1>3, <2>1
    <3>2. G[k - 1] = g[n] /\ G[k] = x
      BY <1>7, <2>1, <3>1
    <3> QED
      BY <1>6, <2>1, <3>2
  <2>2. CASE k \in 1 .. n
    <3>1. k - 1 \in 0 .. n /\ k \in 0 .. n
      BY <1>3, <2>2
    <3>2. g[k] = LeftIn(g[k - 1], k)
      BY <1>1, <1>2, <2>2 DEF StockBook
    <3>3. LeftIn(g[k - 1], k)' = LeftIn(g[k - 1], k)
      BY <1>4, <2>2 DEF LeftIn
    <3> QED
      BY <1>7, <3>1, <3>2, <3>3
  <2> QED
    BY <1>3, <2>1, <2>2
<1>10. IsFiniteSet(old) /\ n + 1 \notin old
  BY <1>3, FS_Interval, FS_Subset
<1>11. new = IF IsBreach(x) THEN old \cup {n + 1} ELSE old
  <2>1. \A k \in 1 .. n : k \in 0 .. n /\ k \in 1 .. n + 1
    BY <1>3
  <2>2. \A k \in 1 .. n + 1 : k \in 1 .. n \/ k = n + 1
    BY <1>3
  <2>3. n + 1 \in 1 .. n + 1
    BY <1>3
  <2>4. \A k \in 1 .. n : G[k] = g[k]
    BY <1>7, <2>1
  <2>5. CASE IsBreach(x)
    BY <1>7, <2>1, <2>2, <2>3, <2>4, <2>5
  <2>6. CASE ~IsBreach(x)
    BY <1>7, <2>1, <2>2, <2>4, <2>6
  <2> QED
    BY <2>5, <2>6
<1> HIDE DEF old, new
<1>12. breaches = Cardinality(old)
  BY <1>1, <1>2 DEF StockBook, old
<1>13. breaches' = breaches + (IF IsBreach(x) THEN 1 ELSE 0) /\ breaches \in Nat
  BY <1>2, <1>10, <1>12, FS_CardinalityType DEF ApplyExtractions
<1>14. breaches' = Cardinality(new)
  <2>1. CASE IsBreach(x)
    BY <1>10, <1>11, <1>12, <1>13, <2>1, FS_AddElement
  <2>2. CASE ~IsBreach(x)
    BY <1>11, <1>12, <1>13, <2>2
  <2> QED
    BY <2>1, <2>2
<1>15. StockBook(G)'
  BY <1>2, <1>3, <1>7, <1>8, <1>9, <1>14 DEF StockBook, new
<1> QED
  BY <1>15 DEF StockKept

\* There is one record of the stock, so it is the one StockHistory works out.
LEMMA StockIsHistory == IInv /\ StockKept => BreachesAreCounted
<1> SUFFICES ASSUME IInv, StockKept, Class = "Resource" PROVE BreachesAreCounted
  BY DEF BreachesAreCounted
<1>1. PICK g : StockBook(g)
  BY DEF StockKept
<1>2. PICK n : n = Closed
  OBVIOUS
<1>3. n \in Nat
  BY <1>2, ClosedType
<1> DEFINE Eqn(s) == s = [k \in 0 .. n |-> IF k = 0 THEN R0 ELSE LeftIn(s[k - 1], k)]
           stock == CHOOSE s : Eqn(s)
<1>4. Eqn(g)
  <2>1. /\ g = [k \in 0 .. n |-> g[k]] /\ g[0] = R0
        /\ \A k \in 1 .. n : g[k] = LeftIn(g[k - 1], k)
    BY <1>1, <1>2 DEF StockBook
  <2>2. \A k \in 0 .. n : k = 0 \/ k \in 1 .. n
    BY <1>3
  <2>3. \A k \in 0 .. n : g[k] = IF k = 0 THEN R0 ELSE LeftIn(g[k - 1], k)
    BY <2>1, <2>2
  <2> QED
    BY <2>1, <2>3
<1>5. Eqn(stock)
  BY <1>4
<1>6. StockHistory = stock
  BY <1>2 DEF StockHistory
<1> DEFINE D == {k \in 0 .. n : stock[k] # g[k]}
<1> HIDE DEF stock
<1>7. D = {}
  <2> SUFFICES ASSUME D # {} PROVE FALSE
    OBVIOUS
  <2>1. D \subseteq Nat
    OBVIOUS
  <2>2. PICK m \in D : \A k \in D : m <= k
    BY <2>1, LeastIsBelow
  <2>3. m # 0
    BY <1>3, <1>4, <1>5
  <2>4. m \in 1 .. n /\ m - 1 \in 0 .. n /\ m - 1 \notin D
    BY <1>3, <2>2, <2>3
  <2>5. stock[m] = LeftIn(stock[m - 1], m) /\ g[m] = LeftIn(g[m - 1], m)
    BY <1>4, <1>5, <2>4
  <2> QED
    BY <2>2, <2>4, <2>5
<1>8. \A k \in 0 .. n : stock[k] = g[k]
  BY <1>7
<1>9. {k \in 1 .. n : IsBreach(stock[k])} = {k \in 1 .. n : IsBreach(g[k])}
  BY <1>3, <1>8
<1>10. StockHistory[Closed] = r
  <2>1. n \in 0 .. n /\ r = g[n]
    BY <1>1, <1>2, <1>3 DEF StockBook
  <2> QED
    BY <1>2, <1>6, <1>8, <2>1
<1>11. breaches = Cardinality({k \in 1 .. Closed : IsBreach(StockHistory[k])})
  BY <1>1, <1>2, <1>6, <1>9 DEF StockBook
<1> QED
  BY <1>10, <1>11 DEF BreachesAreCounted

-----------------------------------------------------------------------------
(* The books of the plants *)

\* The inductive invariant of the plants.
PlantInv ==
  /\ pipeline \in [Indices -> Seq(FiniteScalars)]
  /\ \A i \in Indices : Len(pipeline[i]) = Lead
  /\ PipelineHoldsTheLastOrders /\ StockKept

\* The books of a stage: a running account of what is on its way and one of
\* what was traded, which balance with the stock.
Balanced(i, g, h) ==
  /\ Running(g, pipeline[i], Lead) /\ Running(h, Traded(i), Closed)
  /\ inventory[i] + g[Lead] = I0 + Lead * Start[i] + h[Closed]

BooksBalanced ==
  Class = "Cascade" => /\ inventory \in [Indices -> Int]
                       /\ \A i \in Indices : \E g, h : Balanced(i, g, h)

LEMMA PlantInvInit == Init /\ PlantInit => PlantInv
<1> SUFFICES ASSUME Init, PlantInit PROVE PlantInv
  OBVIOUS
<1>1. Lead \in Nat /\ Lead > 0 /\ InitialEpoch \in Nat
  BY PlantAssumption, EpochsAssumption
<1>2. \A i \in Indices : [k \in 1 .. Lead |-> Start[i]] \in [1 .. Lead -> FiniteScalars]
  BY ScalarsAssumption
<1>3. \A i \in Indices : /\ [k \in 1 .. Lead |-> Start[i]] \in Seq(FiniteScalars)
                         /\ Len([k \in 1 .. Lead |-> Start[i]]) = Lead
  BY <1>1, <1>2
<1>4. /\ pipeline \in [Indices -> Seq(FiniteScalars)]
      /\ \A i \in Indices : Len(pipeline[i]) = Lead
  BY <1>3 DEF PlantInit
<1>5. PipelineHoldsTheLastOrders
  BY <1>1 DEF Init, PlantInit, PipelineHoldsTheLastOrders
<1>6. StockKept
  BY StockInit
<1> QED
  BY <1>4, <1>5, <1>6 DEF PlantInv

LEMMA OrdersStep ==
  ASSUME IInv, IInv', PlantInv, Class = "Cascade", ApplyOrders(current'), UNCHANGED resourceVars,
         active_epoch' = active_epoch + 1, active_epoch \in Epochs,
         rounds' = [rounds EXCEPT ![active_epoch] = current']
  PROVE  PlantInv'
<1>1. /\ current' \in [Indices -> FiniteScalars] /\ active_epoch \in Nat
      /\ Lead \in Nat /\ Lead > 0 /\ InitialEpoch \in Nat
  BY PlantAssumption, EpochsAssumption DEF IInv, TypeOK
<1>2. pipeline' = [i \in Indices |-> Ship(pipeline[i], current'[i])] /\ t' = t + 1
  BY DEF ApplyOrders
<1>3. \A i \in Indices :
        /\ pipeline'[i] \in Seq(FiniteScalars) /\ Len(pipeline'[i]) = Lead
        /\ pipeline'[i][Lead] = current'[i]
        /\ \A k \in 1 .. Lead - 1 : pipeline'[i][k] = pipeline[i][k + 1]
  <2> TAKE i \in Indices
  <2>1. /\ pipeline[i] \in Seq(FiniteScalars) /\ Len(pipeline[i]) = Lead
        /\ current'[i] \in FiniteScalars
    BY <1>1 DEF PlantInv
  <2>2. pipeline'[i] = Ship(pipeline[i], current'[i])
    BY <1>2
  <2>3. PICK pipe, order : pipe = pipeline[i] /\ order = current'[i]
    OBVIOUS
  <2>4. pipe \in Seq(FiniteScalars) /\ Len(pipe) = Lead /\ order \in FiniteScalars
    BY <2>1, <2>3
  <2>5. /\ Ship(pipe, order) \in Seq(FiniteScalars) /\ Len(Ship(pipe, order)) = Lead
        /\ Ship(pipe, order)[Lead] = order
        /\ \A k \in 1 .. Lead - 1 : Ship(pipe, order)[k] = pipe[k + 1]
    BY <2>4, ShipFacts, Zenon
  <2> QED
    BY <2>2, <2>3, <2>5
<1>4. pipeline' \in [Indices -> Seq(FiniteScalars)]
  BY <1>2, <1>3
<1>5. t' = active_epoch' - InitialEpoch
  BY <1>1, <1>2 DEF PlantInv, PipelineHoldsTheLastOrders
<1>6. ASSUME NEW i \in Indices, NEW k \in 1 .. Lead
      PROVE  LET n == active_epoch' - Lead + k - 1 IN
             pipeline'[i][k] = IF n >= InitialEpoch THEN rounds'[n][i] ELSE Start[i]
  <2> DEFINE n == active_epoch' - Lead + k - 1
  <2>1. CASE k = Lead
    <3>1. n = active_epoch /\ active_epoch >= InitialEpoch
      BY <1>1, <2>1 DEF IInv, Accounting, TypeOK, RuntimeCounters
    <3>2. rounds'[active_epoch] = current'
      BY DEF IInv, TypeOK
    <3> QED
      BY <1>3, <2>1, <3>1, <3>2
  <2>2. CASE k # Lead
    <3>1. /\ k \in 1 .. Lead - 1 /\ k + 1 \in 1 .. Lead
          /\ n = active_epoch - Lead + (k + 1) - 1 /\ n < active_epoch /\ n \in Int
      BY <1>1, <2>2
    <3>2. pipeline[i][k + 1] = IF n >= InitialEpoch THEN rounds[n][i] ELSE Start[i]
      BY <3>1 DEF PlantInv, PipelineHoldsTheLastOrders
    <3>3. rounds'[n] = rounds[n]
      BY <1>1, <3>1 DEF IInv, TypeOK
    <3> QED
      BY <1>3, <3>1, <3>2, <3>3
  <2> QED
    BY <2>1, <2>2
<1>7. PipelineHoldsTheLastOrders'
  BY <1>5, <1>6 DEF PipelineHoldsTheLastOrders
<1>8. StockKept'
  BY DEF StockKept
<1> QED
  BY <1>3, <1>4, <1>7, <1>8 DEF PlantInv

LEMMA BalancedInit == Init /\ PlantInit => BooksBalanced
<1> SUFFICES ASSUME Init, PlantInit PROVE BooksBalanced
  OBVIOUS
<1>1. Lead \in Nat /\ I0 \in Int /\ InitialEpoch \in Nat /\ \A i \in Indices : Start[i] \in Int
  BY PlantAssumption, EpochsAssumption, ScalarsAssumption
<1>2. inventory \in [Indices -> Int]
  BY <1>1 DEF PlantInit
<1>3. ASSUME NEW i \in Indices PROVE \E g, h : Balanced(i, g, h)
  <2> DEFINE g == [k \in 0 .. Lead |-> k * Start[i]]
             h == [k \in 0 .. 0 |-> 0]
  <2>1. Running(g, pipeline[i], Lead)
    <3>1. g \in [0 .. Lead -> Int] /\ g[0] = 0
      BY <1>1
    <3>2. \A k \in 1 .. Lead : pipeline[i][k] = Start[i]
      BY DEF PlantInit
    <3>3. \A k \in 1 .. Lead : k * Start[i] = (k - 1) * Start[i] + Start[i]
      BY <1>1
    <3>4. \A k \in 1 .. Lead : g[k] = g[k - 1] + pipeline[i][k]
      BY <1>1, <3>2, <3>3
    <3> QED
      BY <3>1, <3>4 DEF Running
  <2>2. Closed = 0
    BY <1>1 DEF Init, Closed
  <2>3. Running(h, Traded(i), Closed)
    BY <2>2 DEF Running
  <2>4. inventory[i] + g[Lead] = I0 + Lead * Start[i] + h[Closed]
    BY <1>1, <2>2 DEF PlantInit
  <2> QED
    BY <2>1, <2>3, <2>4 DEF Balanced
<1> QED
  BY <1>2, <1>3 DEF BooksBalanced

\* An order joins the pipeline of its stage as the first one leaves it for the
\* stock, and the goods demanded leave the stock.
LEMMA BalancedStep ==
  ASSUME IInv, IInv', PlantInv, PlantInv', BooksBalanced, Class = "Cascade",
         ApplyOrders(current'), active_epoch' = active_epoch + 1, active_epoch \in Epochs,
         rounds' = [rounds EXCEPT ![active_epoch] = current']
  PROVE  BooksBalanced'
<1>1. /\ current' \in [Indices -> Int] /\ Lead \in Nat /\ Lead > 0 /\ I0 \in Int
      /\ InitialEpoch \in Nat /\ active_epoch \in Nat /\ active_epoch >= InitialEpoch
      /\ \A i \in Indices : Start[i] \in Int
  <2>1. current' \in [Indices -> FiniteScalars] /\ active_epoch \in Nat
    BY DEF IInv, TypeOK
  <2>2. InitialEpoch \in Nat /\ active_epoch >= InitialEpoch
    BY EpochsAssumption DEF IInv, TypeOK, Accounting, RuntimeCounters
  <2> QED
    <3>1. \A i \in Indices : current'[i] \in Int /\ Start[i] \in Int
      BY <2>1, ScalarsAreIntegers, ScalarsAssumption
    <3> QED
      BY <2>1, <2>2, <3>1, PlantAssumption
<1>2. PICK n : n = Closed
  OBVIOUS
<1>3. /\ n \in Nat /\ active_epoch = InitialEpoch + n /\ Closed' = n + 1 /\ t = n
  BY <1>1, <1>2 DEF Closed, PlantInv, PipelineHoldsTheLastOrders
<1>4. ASSUME NEW i \in Indices
      PROVE  DemandOn(current', i) \in Int
  <2>1. CASE i = RosterSize
    BY <1>3, <2>1, CustomerType DEF DemandOn
  <2>2. CASE i # RosterSize
    <3>1. i + 1 \in Indices
      BY <2>2, RosterAssumption DEF Indices
    <3> QED
      BY <1>1, <2>2, <3>1 DEF DemandOn
  <2> QED
    BY <2>1, <2>2
<1>5. ASSUME NEW i \in Indices
      PROVE  /\ \A k \in 1 .. Lead : pipeline[i][k] \in Int
             /\ Head(pipeline[i]) = pipeline[i][1]
             /\ \A k \in 1 .. Lead - 1 : pipeline'[i][k] = pipeline[i][k + 1]
             /\ pipeline'[i][Lead] = current'[i]
             /\ inventory'[i] = inventory[i] + pipeline[i][1] - DemandOn(current', i)
  <2>1. /\ pipeline[i] \in Seq(FiniteScalars) /\ Len(pipeline[i]) = Lead
        /\ current'[i] \in FiniteScalars
        /\ pipeline'[i] = Ship(pipeline[i], current'[i])
    BY DEF PlantInv, IInv, TypeOK, ApplyOrders
  <2>2. PICK pipe, order : pipe = pipeline[i] /\ order = current'[i]
    OBVIOUS
  <2>3. pipe \in Seq(FiniteScalars) /\ Len(pipe) = Lead /\ order \in FiniteScalars
    BY <2>1, <2>2
  <2>4. /\ Ship(pipe, order)[Lead] = order
        /\ \A k \in 1 .. Lead - 1 : Ship(pipe, order)[k] = pipe[k + 1]
    BY <2>3, ShipFacts, Zenon
  <2>5. Head(pipe) = pipe[1]
    BY <1>1, <2>3
  <2>6. \A k \in 1 .. Lead : pipe[k] \in Int
    <3>1. \A k \in 1 .. Lead : pipe[k] \in FiniteScalars
      BY <1>1, <2>3
    <3> QED
      BY <3>1, ScalarsAreIntegers
  <2> QED
    BY <2>1, <2>2, <2>4, <2>5, <2>6 DEF ApplyOrders
<1>6. inventory' \in [Indices -> Int]
  <2>1. inventory' = [i \in Indices |->
                        inventory[i] + Head(pipeline[i]) - DemandOn(current', i)]
    BY DEF ApplyOrders
  <2>2. \A i \in Indices : inventory[i] + Head(pipeline[i]) - DemandOn(current', i) \in Int
    BY <1>1, <1>4, <1>5 DEF BooksBalanced
  <2> QED
    BY <2>1, <2>2
<1>7. ASSUME NEW i \in Indices PROVE (\E g, h : Balanced(i, g, h))'
  <2>1. PICK g, h : Balanced(i, g, h)
    BY DEF BooksBalanced
  <2>2. PICK x, d, p : x = current'[i] /\ d = DemandOn(current', i) /\ p = pipeline[i]
    OBVIOUS
  <2>3. x \in Int /\ d \in Int
    BY <1>1, <1>4, <2>2
  <2>4. /\ g \in [0 .. Lead -> Int] /\ g[0] = 0
        /\ \A k \in 1 .. Lead : g[k] = g[k - 1] + p[k]
        /\ h \in [0 .. n -> Int] /\ h[0] = 0
        /\ \A k \in 1 .. n : h[k] = h[k - 1] + Traded(i)[k]
        /\ inventory[i] + g[Lead] = I0 + Lead * Start[i] + h[n]
    BY <1>2, <2>1, <2>2 DEF Balanced, Running
  <2> DEFINE G == [k \in 0 .. Lead |-> IF k < Lead THEN g[k + 1] - g[1]
                                                  ELSE g[Lead] - g[1] + x]
             H == [k \in 0 .. n + 1 |-> IF k <= n THEN h[k] ELSE h[n] + x - d]
  <2>5. Running(G, pipeline'[i], Lead)
    <3>0. \A k \in 0 .. Lead : g[k] \in Int /\ (k < Lead => k + 1 \in 0 .. Lead)
      BY <1>1, <2>4
    <3>1. G \in [0 .. Lead -> Int] /\ G[0] = 0
      <4>1. 0 \in 0 .. Lead /\ 1 \in 0 .. Lead /\ Lead \in 0 .. Lead
        BY <1>1
      <4>2. \A k \in 0 .. Lead : G[k] \in Int
        BY <2>3, <3>0, <4>1
      <4>3. G[0] = g[1] - g[1]
        BY <1>1, <4>1
      <4> QED
        BY <3>0, <4>1, <4>2, <4>3
    <3>2. ASSUME NEW k \in 1 .. Lead PROVE G[k] = G[k - 1] + pipeline'[i][k]
      <4>1. CASE k < Lead
        <5>1. k + 1 \in 1 .. Lead /\ k \in 0 .. Lead /\ k - 1 \in 0 .. Lead /\ k - 1 < Lead
              /\ (k - 1) + 1 = k /\ k \in 1 .. Lead - 1 /\ (k + 1) - 1 = k
          BY <1>1, <4>1
        <5>2. G[k] = g[k + 1] - g[1] /\ G[k - 1] = g[k] - g[1]
          BY <4>1, <5>1
        <5>3. g[k + 1] = g[k] + p[k + 1] /\ pipeline'[i][k] = p[k + 1]
          BY <1>5, <2>2, <2>4, <5>1
        <5>4. g[k] \in Int /\ g[1] \in Int /\ g[k + 1] \in Int /\ p[k + 1] \in Int
          BY <1>1, <1>5, <2>2, <3>0, <5>1
        <5> QED
          BY <5>2, <5>3, <5>4
      <4>2. CASE k = Lead
        <5>1. G[k] = g[Lead] - g[1] + x /\ G[k - 1] = g[Lead] - g[1]
          BY <1>1, <4>2
        <5>2. pipeline'[i][k] = x
          BY <1>5, <2>2, <4>2
        <5> QED
          BY <5>1, <5>2
      <4> QED
        BY <1>1, <4>1, <4>2
    <3> QED
      BY <3>1, <3>2 DEF Running
  <2>6. Traded(i)' = [k \in 1 .. n + 1 |-> IF k <= n THEN Traded(i)[k] ELSE x - d]
    <3>1. ASSUME NEW k \in 1 .. n + 1
          PROVE  LET m == InitialEpoch + k - 1 IN
                 rounds'[m][i] - DemandIn(m, i)' = IF k <= n THEN Traded(i)[k] ELSE x - d
      <4> DEFINE m == InitialEpoch + k - 1
      <4>1. CASE k <= n
        <5>1. m \in Int /\ m # active_epoch /\ k \in 1 .. n
          BY <1>1, <1>3, <4>1
        <5>2. rounds'[m] = rounds[m]
          BY <5>1 DEF IInv, TypeOK
        <5>3. DemandIn(m, i)' = DemandIn(m, i)
          BY <5>2 DEF DemandIn
        <5>4. Traded(i)[k] = rounds[m][i] - DemandIn(m, i)
          BY <1>2, <5>1 DEF Traded
        <5> QED
          BY <4>1, <5>2, <5>3, <5>4
      <4>2. CASE k = n + 1
        <5>1. m = active_epoch /\ m - InitialEpoch = t
          BY <1>1, <1>3, <4>2
        <5>2. rounds'[m] = current'
          BY <5>1 DEF IInv, TypeOK
        <5>3. DemandIn(m, i)' = d
          BY <2>2, <5>1, <5>2 DEF DemandIn, DemandOn
        <5> QED
          BY <1>3, <2>2, <4>2, <5>2, <5>3
      <4> QED
        BY <1>3, <4>1, <4>2
    <3> QED
      BY <1>3, <3>1 DEF Traded
  <2>7. Running(H, Traded(i)', n + 1)
    <3>1. H \in [0 .. n + 1 -> Int] /\ H[0] = 0
      BY <1>3, <2>3, <2>4
    <3>2. ASSUME NEW k \in 1 .. n + 1 PROVE H[k] = H[k - 1] + Traded(i)'[k]
      <4>1. CASE k <= n
        BY <1>3, <2>4, <2>6, <4>1
      <4>2. CASE k = n + 1
        BY <1>3, <2>3, <2>4, <2>6, <4>2
      <4> QED
        BY <1>3, <4>1, <4>2
    <3> QED
      BY <3>1, <3>2 DEF Running
  <2>8. inventory'[i] + G[Lead] = I0 + Lead * Start[i] + H[n + 1]
    <3>1. g[1] = p[1] /\ g[1] \in Int /\ g[Lead] \in Int /\ h[n] \in Int /\ p[1] \in Int
      BY <1>1, <1>3, <1>5, <2>2, <2>4
    <3>2. inventory'[i] = inventory[i] + p[1] - d /\ inventory[i] \in Int
      BY <1>5, <2>2 DEF BooksBalanced
    <3>3. G[Lead] = g[Lead] - g[1] + x /\ H[n + 1] = h[n] + x - d
      BY <1>1, <1>3
    <3>4. PICK y : y = Lead * Start[i]
      OBVIOUS
    <3>5. y \in Int
      BY <1>1, <3>4
    <3> QED
      <4>1. inventory[i] + g[Lead] = I0 + y + h[n]
        BY <2>4, <3>4
      <4> HIDE DEF G, H
      <4>2. inventory'[i] + G[Lead] = (inventory[i] + p[1] - d) + (g[Lead] - p[1] + x)
        BY <3>1, <3>2, <3>3
      <4>3. (inventory[i] + p[1] - d) + (g[Lead] - p[1] + x) = I0 + y + (h[n] + x - d)
        BY <1>1, <2>3, <3>1, <3>2, <3>5, <4>1
      <4> QED
        BY <3>3, <3>4, <4>2, <4>3
  <2> HIDE DEF G, H
  <2>9. Running(G, pipeline[i]', Lead) /\ Running(H, Traded(i)', Closed')
          /\ inventory[i]' + G[Lead] = I0 + Lead * Start[i] + H[Closed']
    BY <1>3, <2>5, <2>7, <2>8
  <2> QED
    BY <2>9 DEF Balanced, Running
<1> QED
  BY <1>6, <1>7 DEF BooksBalanced

\* The accounts add up to the sums of GoodsAreConserved.
LEMMA BalanceIsConserved == IInv /\ BooksBalanced => GoodsAreConserved
<1> SUFFICES ASSUME IInv, BooksBalanced, Class = "Cascade", NEW i \in Indices
             PROVE  inventory[i] + pipeline_sum(i) =
                      I0 + Lead * Start[i] + SumTo(Traded(i), Closed)
  BY DEF GoodsAreConserved
<1>1. PICK g, h : Balanced(i, g, h)
  BY DEF BooksBalanced
<1>2. Lead \in Nat /\ Closed \in Nat
  BY PlantAssumption, EpochsAssumption
  DEF IInv, TypeOK, Accounting, RuntimeCounters, Closed
<1>3. pipeline_sum(i) = g[Lead]
  BY <1>1, <1>2, SumIsRunning DEF Balanced, pipeline_sum
<1>4. SumTo(Traded(i), Closed) = h[Closed]
  BY <1>1, <1>2, SumIsRunning DEF Balanced
<1> QED
  BY <1>1, <1>3, <1>4 DEF Balanced

LEMMA PlantInvStep ==
  ASSUME IInv, PlantInv, NEW e \in Events, ApplyWithPlant(e)
  PROVE  PlantInv'
<1>0. Apply(e) /\ PlantStep
  BY DEF ApplyWithPlant
<1>1. IInv'
  BY <1>0, EpochEnds
<1>2. ASSUME UNCHANGED plantVars, active_epoch' = active_epoch PROVE PlantInv'
  <2>1. rounds' = rounds
    BY <1>0, <1>2, EpochEnds
  <2>2. StockKept'
    BY <1>2, <2>1, StockStill DEF plantVars, PlantInv
  <2> QED
    BY <1>2, <2>1, <2>2
    DEF plantVars, cascadeVars, PlantInv, PipelineHoldsTheLastOrders
<1>3. ASSUME UNCHANGED plantVars, Class = "Preference" PROVE PlantInv'
  BY <1>3 DEF plantVars, cascadeVars, PlantInv, PipelineHoldsTheLastOrders, StockKept
<1>4. ASSUME active_epoch' # active_epoch, Class = "Cascade", ApplyOrders(current'),
             UNCHANGED resourceVars
      PROVE  PlantInv'
  BY <1>0, <1>1, <1>4, EpochEnds, OrdersStep
<1>5. ASSUME active_epoch' # active_epoch, Class = "Resource",
             ApplyExtractions(current'), UNCHANGED cascadeVars
      PROVE  PlantInv'
  <2>4. StockKept'
    BY <1>0, <1>1, <1>5, EpochEnds, StockStep DEF PlantInv
  <2>5. PipelineHoldsTheLastOrders'
    BY <1>5 DEF PipelineHoldsTheLastOrders
  <2> QED
    BY <1>5, <2>4, <2>5 DEF PlantInv, cascadeVars
<1> QED
  BY <1>0, <1>2, <1>3, <1>4, <1>5 DEF PlantStep

\* Books and invariant stay when neither the engine's past nor the plant moves.
LEMMA BooksStill ==
  ASSUME BooksBalanced, UNCHANGED <<plantVars, active_epoch, rounds>>
  PROVE  BooksBalanced'
<1>1. inventory' = inventory /\ pipeline' = pipeline /\ Closed' = Closed
  BY DEF plantVars, cascadeVars, Closed
<1>2. \A i \in Indices : Traded(i)' = Traded(i)
  BY <1>1 DEF Traded, DemandIn
<1>3. \A i \in Indices : \A g, h : Balanced(i, g, h) => Balanced(i, g, h)'
  BY <1>1, <1>2 DEF Balanced, Running
<1> QED
  BY <1>1, <1>3 DEF BooksBalanced

LEMMA BooksStep ==
  ASSUME IInv, PlantInv, BooksBalanced, NEW e \in Events, ApplyWithPlant(e)
  PROVE  BooksBalanced'
<1>0. Apply(e) /\ PlantStep
  BY DEF ApplyWithPlant
<1>1. IInv' /\ PlantInv'
  BY <1>0, EpochEnds, PlantInvStep
<1>2. CASE active_epoch' = active_epoch /\ UNCHANGED plantVars
  BY <1>0, <1>2, EpochEnds, BooksStill
<1>3. CASE active_epoch' # active_epoch /\ Class = "Cascade" /\ ApplyOrders(current')
  BY <1>0, <1>1, <1>3, EpochEnds, BalancedStep
<1>4. CASE Class # "Cascade"
  BY <1>4 DEF BooksBalanced
<1> QED
  BY <1>0, <1>2, <1>3, <1>4 DEF PlantStep

LEMMA BooksHold == IInv /\ PlantInv /\ BooksBalanced => PlantsKeepTheirBooks
BY BalanceIsConserved, StockIsHistory DEF PlantInv, PlantsKeepTheirBooks

\* For every lead time, demand and chain, no goods are created or lost and an
\* order arrives exactly lead rounds after it was placed; for every stock, what
\* is left is what all finalized rounds leave of it, and the breaches counted
\* are exactly the rounds that left it below R_MIN; whatever events the engine
\* is handed.
THEOREM BooksAreKept == PlantSpec => []PlantsKeepTheirBooks
<1> DEFINE Inv == IInv /\ PlantInv /\ BooksBalanced
<1>1. Init /\ PlantInit => Inv
  BY InvInit, PlantInvInit, BalancedInit
<1>2. Inv /\ [PlantNext]_<<vars, plantVars>> => Inv'
  <2>1. ASSUME Inv, NEW e \in Events, ApplyWithPlant(e) PROVE Inv'
    BY <2>1, InvStep, PlantInvStep, BooksStep DEF ApplyWithPlant
  <2>2. ASSUME Inv, UNCHANGED <<vars, plantVars>> PROVE Inv'
    <3>1. IInv'
      BY <2>2, InvStutter
    <3>2. PlantInv'
      <4>1. StockKept'
        BY <2>2, StockStill DEF vars, plantVars, PlantInv
      <4> QED
        BY <2>2, <4>1 DEF vars, plantVars, cascadeVars, PlantInv, PipelineHoldsTheLastOrders
    <3>3. BooksBalanced'
      BY <2>2, BooksStill DEF vars
    <3> QED
      BY <3>1, <3>2, <3>3
  <2> QED
    BY <2>1, <2>2 DEF PlantNext
<1>3. Inv => PlantsKeepTheirBooks
  BY BooksHold
<1> QED
  BY <1>1, <1>2, <1>3, PTL DEF PlantSpec

-----------------------------------------------------------------------------
(* The horizon of a run *)

LEMMA HorizonType == horizon \in Nat /\ horizon >= 1
<1>1. \A n \in Nat : Max({n, 1}) \in Nat /\ Max({n, 1}) >= 1
  BY MinMaxOfTwo
<1>2. \A m, n \in Nat : Min({m, n}) \in Nat
  BY MinMaxOfTwo
<1> QED
  BY <1>1, <1>2, DemandType, RunAssumption, RosterAssumption DEF horizon

-----------------------------------------------------------------------------
(* The controller *)

\* What record_metric knows of the past: how many epochs were scored, what the
\* last of them scored, and how many of the latest did not improve.
CtlInv ==
  /\ \E S : metrics \in Seq(S)
  /\ epochs_done = Len(metrics)
  /\ last_metric = IF metrics = <<>> THEN None ELSE metrics[Len(metrics)]
  /\ non_improving \in Nat
  /\ non_improving > 0 => non_improving < Len(metrics)
  /\ \A i \in (Len(metrics) - non_improving + 1) .. Len(metrics) : Ctl!Flat(i)

LEMMA CtlInvInit == Ctl!Init => CtlInv
<1> SUFFICES ASSUME Ctl!Init PROVE CtlInv
  OBVIOUS
<1>1. metrics \in Seq({}) /\ Len(metrics) = 0
  BY DEF Ctl!Init
<1> QED
  BY <1>1 DEF Ctl!Init, CtlInv

\* What a recorded metric adds to the controller's books.
LEMMA RecordMetric ==
  ASSUME CtlInv, NEW m, Ctl!record_metric(m)
  PROVE  /\ CtlInv' /\ Len(metrics) \in Nat /\ Len(metrics') = Len(metrics) + 1
         /\ \A i \in 1 .. Len(metrics) : metrics'[i] = metrics[i]
         /\ metrics'[Len(metrics')] = m
         /\ halt' \in {halt, "PaperHorizon", "NoSolution"}
         /\ Len(metrics') >= horizon => halt' = "PaperHorizon"
         /\ Len(metrics') < horizon /\ halt' # halt =>
              /\ halt' = "NoSolution"
              /\ Len(metrics') > plateau_k
              /\ \A i \in (Len(metrics') - plateau_k + 1) .. Len(metrics') : Ctl!Flat(i)'
<1>1. PICK S : metrics \in Seq(S)
  BY DEF CtlInv
<1>n. PICK n : n = Len(metrics)
  OBVIOUS
<1>2. n \in Nat /\ metrics \in Seq(S \cup {m}) /\ metrics' = Append(metrics, m)
  BY <1>1, <1>n DEF Ctl!record_metric
<1>3. /\ metrics' \in Seq(S \cup {m}) /\ Len(metrics') = n + 1 /\ metrics'[n + 1] = m
      /\ \A i \in 1 .. n : metrics'[i] = metrics[i]
      /\ metrics' # <<>>
  BY <1>2, <1>n
<1>4. /\ epochs_done' = n + 1 /\ last_metric' = m /\ non_improving' = Ctl!Streak(m)
      /\ halt' = Ctl!HaltAfter(m) /\ epochs_done = n
  BY <1>1, <1>n DEF Ctl!record_metric, CtlInv
<1>5. \A i \in 1 .. n : Ctl!Flat(i) => Ctl!Flat(i)'
  BY <1>2, <1>3 DEF Ctl!Flat
<1>6. CASE Ctl!Improved(last_metric, m)
  <2>1. non_improving' = 0
    BY <1>4, <1>6 DEF Ctl!Streak
  <2>2. CtlInv'
    BY <1>2, <1>3, <1>4, <2>1 DEF CtlInv
  <2>3. halt' = IF n + 1 >= horizon THEN "PaperHorizon" ELSE halt
    BY <1>4, <1>6 DEF Ctl!HaltAfter, Ctl!Streak, plateau_k
  <2> QED
    BY <1>2, <1>n, <1>3, <2>2, <2>3, HorizonType
<1>7. CASE ~Ctl!Improved(last_metric, m)
  <2>1. non_improving' = non_improving + 1 /\ non_improving \in Nat
    BY <1>4, <1>7 DEF Ctl!Streak, CtlInv
  <2>2. last_metric # None /\ n > 0 /\ last_metric = metrics[n]
    BY <1>2, <1>n, <1>7 DEF Ctl!Improved, CtlInv
  <2>3. ~(IF lower_is_better THEN m < metrics[n] - Improve ELSE m > metrics[n] + Improve)
    BY <1>7, <2>2 DEF Ctl!Improved
  <2>4. metrics'[(n + 1) - 1] = metrics[n]
    BY <1>2, <1>3, <2>2
  <2>5. Ctl!Flat(n + 1)'
    BY <1>2, <1>3, <2>2, <2>3, <2>4 DEF Ctl!Flat
  <2>6. \A i \in (n + 1 - non_improving' + 1) .. (n + 1) : Ctl!Flat(i)'
    <3> SUFFICES ASSUME NEW i \in (n + 1 - non_improving' + 1) .. (n + 1)
                 PROVE  Ctl!Flat(i)'
      OBVIOUS
    <3>1. CASE i = n + 1
      BY <3>1, <2>5
    <3>2. CASE i # n + 1
      <4>1. i \in (n - non_improving + 1) .. n /\ i \in 1 .. n
        BY <3>2, <1>2, <1>n, <2>1, <2>2 DEF CtlInv
      <4> QED
        BY <4>1, <1>5, <1>n DEF CtlInv
    <3> QED
      BY <3>1, <3>2
  <2>7. CtlInv'
    <3>1. non_improving' \in Nat /\ non_improving' < n + 1
      BY <1>2, <1>n, <2>1, <2>2 DEF CtlInv
    <3> QED
      BY <1>2, <1>3, <1>4, <2>6, <3>1 DEF CtlInv
  <2>8. halt' = IF n + 1 >= horizon THEN "PaperHorizon"
                ELSE IF non_improving' < 3 THEN halt ELSE "NoSolution"
    BY <1>4, <1>7, <1>2, <2>1, <2>2 DEF Ctl!HaltAfter, Ctl!Streak, plateau_k
  <2>9. non_improving' >= 3 =>
          n + 1 > 3 /\ \A i \in (n + 1 - 3 + 1) .. (n + 1) : Ctl!Flat(i)'
    BY <1>2, <1>n, <2>1, <2>2, <2>6 DEF CtlInv
  <2> QED
    BY <1>2, <1>n, <1>3, <2>1, <2>7, <2>8, <2>9, HorizonType DEF plateau_k
<1> QED
  BY <1>6, <1>7

LEMMA RosterLength == Len(Roster) = RosterSize /\ DOMAIN Roster = Indices /\ Ctl!RosterLen = RosterSize
<1>1. Roster \in Seq(AgentIds)
  BY RosterAssumption DEF Indices
<1>2. Len(Roster) = RosterSize /\ DOMAIN Roster = Indices
  BY <1>1, RosterAssumption DEF Indices
<1> QED
  BY <1>2, RosterAssumption DEF Ctl!RosterLen

\* The controller counts with the Cardinality of its own instance.
LEMMA SameCardinality == \A S : Ctl!Cardinality(S) = Cardinality(S)
BY DEF Ctl!Cardinality, Cardinality

\* Everybody who asked to stop has a seat.
LEMMA StopsHaveSeats ==
  /\ Ctl!Stops \in SUBSET Ctl!Voters /\ Cardinality(Ctl!Stops) \in Nat
  /\ Cardinality({i \in Indices : ballots[Roster[i]] = "Stop"}) \in Nat
  /\ Cardinality(Ctl!Stops) <= Cardinality({i \in Indices : ballots[Roster[i]] = "Stop"})
<1> DEFINE seats == {i \in Indices : ballots[Roster[i]] = "Stop"}
           f == [i \in seats |-> Roster[i]]
<1>1. IsFiniteSet(seats)
  BY RosterFinite, FS_Subset
<1>2. f \in Surjection(seats, Ctl!Stops)
  BY RosterLength DEF Surjection, Ctl!Stops, Ctl!Voters
<1> HIDE DEF f
<1>3. IsFiniteSet(Ctl!Stops) /\ Cardinality(Ctl!Stops) <= Cardinality(seats)
  BY <1>1, <1>2, FS_Surjection
<1>4. Cardinality(Ctl!Stops) \in Nat /\ Cardinality(seats) \in Nat
  BY <1>1, <1>3, FS_CardinalityType
<1> QED
  BY <1>3, <1>4 DEF Ctl!Stops

\* Whoever calls the controller of a run in whatever order: a halt is never
\* withdrawn, and each one is earned when it is given.
THEOREM HaltsAreEarned == Ctl!Spec => [][Ctl!HaltStep]_(Ctl!ctlVars)
<1>1. ASSUME CtlInv, Ctl!Next PROVE CtlInv' /\ Ctl!HaltStep
  <2>1. CASE Ctl!begin_epoch \/ Ctl!mark_unmapped
             \/ \E p \in Ctl!Voters \cup {}, d \in Ctl!Decisions : Ctl!vote(p, d)
    BY <1>1, <2>1 DEF Ctl!begin_epoch, Ctl!mark_unmapped, Ctl!vote, Ctl!HaltStep, CtlInv, Ctl!Flat
  <2>2. ASSUME NEW m \in Int, Ctl!record_metric(m) PROVE CtlInv' /\ Ctl!HaltStep
    <3>1. CtlInv'
      BY <1>1, <2>2, RecordMetric
    <3>2. Ctl!HaltStep
      BY <1>1, <2>2, RecordMetric, HorizonType DEF Ctl!HaltStep
    <3> QED
      BY <3>1, <3>2
  <2>3. CASE Ctl!conclude_votes
    <3>1. CtlInv'
      BY <1>1, <2>3 DEF Ctl!conclude_votes, CtlInv, Ctl!Flat
    <3>2. ASSUME Ctl!MajorityStops
          PROVE  \E T \in SUBSET Ctl!Voters : /\ 2 * Cardinality(T) > Len(Roster)
                                              /\ \A p \in T : ballots[p] = "Stop"
      <4>1. Cardinality(Ctl!Stops) * 2 > RosterSize /\ Len(Roster) = RosterSize
        BY <3>2, RosterLength, SameCardinality DEF Ctl!MajorityStops
      <4>2. 2 * Cardinality(Ctl!Stops) > Len(Roster)
        BY <4>1, StopsHaveSeats, RosterAssumption
      <4>3. \A p \in Ctl!Stops : ballots[p] = "Stop"
        BY DEF Ctl!Stops
      <4> QED
        BY <4>2, <4>3, StopsHaveSeats
    <3>4. Ctl!HaltStep
      BY <2>3, <3>2, SameCardinality DEF Ctl!conclude_votes, Ctl!HaltStep
    <3> QED
      BY <3>1, <3>4
  <2> QED
    BY <1>1, <2>1, <2>2, <2>3 DEF Ctl!Next
<1>2. ASSUME CtlInv, UNCHANGED Ctl!ctlVars PROVE CtlInv'
  BY <1>2 DEF Ctl!ctlVars, CtlInv, Ctl!Flat
<1> QED
  BY <1>1, <1>2, CtlInvInit, PTL DEF Ctl!Spec

-----------------------------------------------------------------------------
(* A run of drive_converge *)

\* A seat whose agent has an earlier one.
Shadowed(j) == \E i \in Indices : i < j /\ Roster[i] = Roster[j]

\* position() finds the first seat only, so that the others stay empty and a
\* crew with one never completes a round.
NoSecondSeat ==
  /\ \A j \in Indices : Shadowed(j) => announced[j] = None
  /\ ~DistinctCrew => active_epoch = 0 /\ scored = <<>> /\ last # "Finalized"

RunKinds ==
  /\ pc \in {"derive", "loop", "ask", "score", "conclude", "done"}
  /\ round \in Nat /\ round < horizon /\ turn \in Indices
  /\ pc # "done" => label = None
  /\ pc \notin {"conclude", "done"} => halt = None

\* The report and the controller have the same epochs.
RunBooks ==
  /\ \E S : scored \in Seq(S)
  /\ Len(scored) = Len(metrics)
  /\ \A k \in 1 .. Len(scored) : scored[k].epoch = k - 1 /\ scored[k].metric = metrics[k]

\* With distinct agents the engine and the driver move in step: the round is
\* filled seat by seat and finalized by its last announcement.
InStep ==
  DistinctCrew =>
    /\ pc \in {"derive", "loop", "ask"} => active_epoch = round
    /\ pc \in {"derive", "loop", "ask", "score"} => Len(scored) = round
    /\ pc \in {"score", "conclude"} => active_epoch = round + 1
    /\ pc = "score" => last = "Finalized"
    /\ pc \in {"conclude", "done"} => Len(scored) = active_epoch
    /\ pc \in {"derive", "loop", "score", "conclude"} =>
         \A i \in Indices : announced[i] = None
    /\ pc = "ask" => \A i \in Indices : announced[i] # None <=> i < turn
    /\ pc # "done" => \A a, n : <<a, n>> \in seen_events =>
         /\ n \in Nat /\ n <= round
         /\ pc \in {"derive", "loop"} => n # round
         /\ pc = "ask" /\ n = round => \E i \in Indices : i < turn /\ a = Roster[i]

\* The last epochs of the report did not improve.
FlatEnd ==
  /\ Len(scored) > plateau_k
  /\ \A k \in (Len(scored) - plateau_k + 1) .. Len(scored) :
       ~(IF lower_is_better
         THEN scored[k].metric < scored[k - 1].metric - Improve
         ELSE scored[k].metric > scored[k - 1].metric + Improve)

Halting ==
  pc = "conclude" =>
    /\ halt \in {None, "PaperHorizon", "NoSolution"}
    /\ scored = <<>> => halt = None
    /\ Len(scored) >= horizon => halt = "PaperHorizon"
    /\ halt = "PaperHorizon" => Len(scored) >= horizon
    /\ halt = "NoSolution" => FlatEnd

\* The inductive invariant of the driver, next to the engine's and the
\* controller's.
RunInv ==
  /\ IInv /\ CtlInv /\ RunKinds /\ RunBooks /\ NoSecondSeat /\ InStep
  /\ Halting /\ LabelIsTrue

LEMMA AnnouncementIsAnEvent ==
  ASSUME RunKinds, NEW x \in FiniteScalars
  PROVE  AnnounceEvent(turn, round, x) \in Events
<1>1. round \in 0 .. horizon - 1
  BY HorizonType DEF RunKinds
<1> QED
  BY <1>1, RunAssumption DEF RunKinds

\* Nobody announces for a second seat.
LEMMA SecondSeatStaysEmpty ==
  ASSUME IInv, NoSecondSeat, NEW e \in Events, Apply(e)
  PROVE  /\ \A j \in Indices : Shadowed(j) => announced'[j] = None
         /\ ~DistinctCrew => active_epoch' = active_epoch /\ outcome' # "Finalized"
<1>1. ASSUME NEW i \in Indices, Acceptable(e, i), NEW j \in Indices, Shadowed(j)
      PROVE  Announced(e, i)[j] = None
  <2>1. i # j
    <3>1. PICK k \in Indices : k < j /\ Roster[k] = Roster[j]
      BY <1>1 DEF Shadowed
    <3>2. IsIndexOf(i, e.payload.participant)
      BY <1>1 DEF Acceptable, SpeaksFor
    <3> QED
      BY <3>1, <3>2 DEF IsIndexOf, Indices
  <2> QED
    BY <1>1, <2>1, AnnouncedFacts DEF IInv, NoSecondSeat
<1>2. ASSUME NEW j \in Indices, Shadowed(j), NEW i \in Indices, FinalizeEpoch(e, i)
      PROVE  FALSE
  <2>1. Acceptable(e, i) /\ ~Incomplete(Announced(e, i))
    BY <1>2 DEF FinalizeEpoch
  <2>2. Announced(e, i) \in [Indices -> FiniteScalars]
    BY <2>1, AnnouncedFacts, CompleteRound DEF IInv
  <2>3. Announced(e, i)[j] = None
    BY <1>1, <1>2, <2>1
  <2> QED
    BY <2>2, <2>3, ScalarsAssumption
<1>3. ~DistinctCrew => \E j \in Indices : Shadowed(j)
  BY DEF DistinctCrew, Shadowed, Indices
<1>4. CASE \E i \in Indices : HoldScalar(e, i)
  BY <1>1, <1>4 DEF HoldScalar
<1>5. CASE \E i \in Indices : FinalizeEpoch(e, i)
  BY <1>2, <1>3, <1>5
<1>6. CASE /\ ~\E i \in Indices : HoldScalar(e, i)
           /\ ~\E i \in Indices : FinalizeEpoch(e, i)
  BY <1>6
  DEF NoSecondSeat, Apply, RejectPattern, RejectStale, Defer, RejectDuplicate,
      RejectPayload, RejectParticipant, RejectRepeat, RejectNonFinite, Refuse
<1> QED
  BY <1>4, <1>5, <1>6

\* In a crew of distinct agents the announcement of the one that is asked is
\* taken, and that of the last one finalizes the round.
LEMMA AnnouncementIsTaken ==
  ASSUME IInv, RunKinds, InStep, DistinctCrew, pc = "ask",
         NEW x \in FiniteScalars, Apply(AnnounceEvent(turn, round, x))
  PROVE  /\ seen_events' = seen_events \cup {<<Roster[turn], round>>}
         /\ turn = RosterSize =>
              /\ active_epoch' = active_epoch + 1 /\ outcome' = "Finalized"
              /\ \A i \in Indices : announced'[i] = None
         /\ turn # RosterSize =>
              /\ active_epoch' = active_epoch
              /\ \A i \in Indices : announced'[i] # None <=> i <= turn
<1> DEFINE e == AnnounceEvent(turn, round, x)
<1>1. /\ e \in Events /\ e.id = <<Roster[turn], round>> /\ e.pattern = Class
      /\ e.epoch = round /\ e.source.kind = "Peer" /\ e.source.id = Roster[turn]
      /\ e.payload.kind = "ScalarProposal" /\ e.payload.participant = Roster[turn]
      /\ e.payload.value = x
  BY AnnouncementIsAnEvent DEF AnnounceEvent
<1>2. turn \in Indices /\ active_epoch = round /\ round \in Nat
      /\ \A i \in Indices : announced[i] # None <=> i < turn
  BY DEF RunKinds, InStep
<1>3. ASSUME <<Roster[turn], round>> \in seen_events PROVE FALSE
  <2>1. \E i \in Indices : i < turn /\ Roster[turn] = Roster[i]
    BY <1>3 DEF InStep
  <2> QED
    BY <1>2, <2>1 DEF DistinctCrew, Indices
<1>4. \A i \in Indices : IsIndexOf(i, Roster[turn]) <=> i = turn
  BY <1>2 DEF IsIndexOf, DistinctCrew, Indices
<1>5. Apply(e)
  OBVIOUS
<1> HIDE DEF e
<1>6. Fresh(e) /\ IsScalar(e) /\ IsFiniteValue(e) /\ Current(e)
  BY <1>1, <1>2, <1>3 DEF Fresh, Current, IsScalar, IsFiniteValue
<1>7. \A i \in Indices : SpeaksFor(e, i) <=> i = turn
  BY <1>1, <1>4 DEF SpeaksFor
<1>8. announced[turn] = None
  BY <1>2 DEF Indices
<1>9. HoldScalar(e, turn) \/ FinalizeEpoch(e, turn)
  <2>1. ~RejectPattern(e) /\ ~RejectStale(e) /\ ~Defer(e) /\ ~RejectDuplicate(e)
    BY <1>1, <1>2, <1>6 DEF RejectPattern, RejectStale, Defer, RejectDuplicate, Fresh
  <2>2. ~RejectPayload(e) /\ ~RejectParticipant(e)
    BY <1>2, <1>6, <1>7 DEF RejectPayload, RejectParticipant
  <2>3. \A i \in Indices : ~RejectRepeat(e, i) /\ ~RejectNonFinite(e, i)
    BY <1>6, <1>7, <1>8 DEF RejectRepeat, RejectNonFinite
  <2>4. \A i \in Indices : HoldScalar(e, i) \/ FinalizeEpoch(e, i) => i = turn
    BY <1>7 DEF HoldScalar, FinalizeEpoch, Acceptable
  <2> QED
    BY <1>5, <2>1, <2>2, <2>3, <2>4 DEF Apply
<1>10. Acceptable(e, turn)
  BY <1>9 DEF HoldScalar, FinalizeEpoch
<1>11. /\ Announced(e, turn) \in [Indices -> FiniteScalars \cup {None}]
       /\ Announced(e, turn)[turn] = x /\ x # None
       /\ \A j \in Indices \ {turn} : Announced(e, turn)[j] = announced[j]
  BY <1>1, <1>2, <1>10, AnnouncedFacts, ScalarsAssumption DEF IInv
<1>12. \A i \in Indices : Announced(e, turn)[i] # None <=> i <= turn
  BY <1>2, <1>11 DEF Indices
<1>13. seen_events' = seen_events \cup {<<Roster[turn], round>>}
  BY <1>1, <1>9 DEF HoldScalar, FinalizeEpoch, Record
<1>14. CASE turn = RosterSize
  <2>1. ~Incomplete(Announced(e, turn))
    <3>1. \A i \in Indices : Announced(e, turn)[i] # None
      BY <1>12, <1>14, RosterAssumption DEF Indices
    <3> QED
      BY <1>11, <3>1, IncompleteRound
  <2>2. FinalizeEpoch(e, turn)
    BY <1>9, <2>1 DEF HoldScalar
  <2> QED
    BY <1>13, <1>14, <2>2 DEF FinalizeEpoch, AdvanceEpoch, ClearAnnounced
<1>15. CASE turn # RosterSize
  <2>1. Incomplete(Announced(e, turn))
    <3>1. RosterSize \in Indices /\ ~(RosterSize <= turn)
      BY <1>2, <1>15, RosterAssumption DEF Indices
    <3>2. Announced(e, turn)[RosterSize] = None
      BY <1>12, <3>1
    <3> QED
      BY <1>11, <3>1, <3>2, CompleteRound, ScalarsAssumption
  <2>2. HoldScalar(e, turn)
    BY <1>9, <2>1 DEF FinalizeEpoch
  <2> QED
    BY <1>12, <1>13, <1>15, <2>2 DEF HoldScalar
<1> QED
  BY <1>14, <1>15

LEMMA RunInvInit == RunInit => RunInv
<1> SUFFICES ASSUME RunInit PROVE RunInv
  OBVIOUS
<1>1. IInv /\ CtlInv
  BY InvInit, CtlInvInit DEF RunInit
<1>2. RunKinds
  BY HorizonType, RosterAssumption DEF RunInit, RunKinds, Ctl!Init, Indices
<1>3. scored = <<>> /\ metrics = <<>> /\ scored \in Seq({})
  BY DEF RunInit, Ctl!Init
<1>4. RunBooks
  BY <1>3 DEF RunBooks
<1>5. /\ active_epoch = 0 /\ seen_events = {} /\ \A i \in Indices : announced[i] = None
      /\ round = 0 /\ pc = "derive" /\ last = "Applied" /\ label = None
  BY RunAssumption DEF RunInit, Init
<1>6. NoSecondSeat /\ InStep /\ Halting
  BY <1>3, <1>5 DEF NoSecondSeat, InStep, Halting
<1>7. LabelIsTrue
  BY <1>3, <1>5, RunAssumption DEF LabelIsTrue
<1> QED
  BY <1>1, <1>2, <1>4, <1>6, <1>7 DEF RunInv

\* While the engine, the controller's books, the report and the label stay,
\* what is said of them does.
LEMMA BooksStay ==
  ASSUME RunInv, UNCHANGED <<epochs_done, last_metric, non_improving, metrics, scored>>
  PROVE  CtlInv' /\ RunBooks'
BY DEF RunInv, CtlInv, RunBooks, Ctl!Flat

LEMMA AnnounceStep ==
  ASSUME RunInv, NEW x \in FiniteScalars, NEW ballot \in {"Stop", "Continue", None},
         Announce(x, ballot)
  PROVE  RunInv'
<1> DEFINE e == AnnounceEvent(turn, round, x)
<1>0. RunKinds /\ e \in Events /\ Apply(e) /\ pc = "ask"
  BY AnnouncementIsAnEvent DEF RunInv, Announce, ApplyWithPlant
<1>1. IInv'
  BY <1>0, InvStep DEF RunInv
<1>2. /\ UNCHANGED <<epochs_done, last_metric, non_improving, metrics, halt, scored>>
      /\ UNCHANGED <<round, label>> /\ last' = outcome'
  BY DEF Announce, controllerVars, Ctl!vote
<1>3. \/ turn = RosterSize /\ pc' = "score" /\ turn' = turn
      \/ turn # RosterSize /\ pc' = "ask" /\ turn' = turn + 1
  BY <1>0 DEF Announce, NextTurn
<1>4. CtlInv' /\ RunBooks'
  BY <1>2, BooksStay
<1>5. RunKinds'
  BY <1>0, <1>2, <1>3, RosterAssumption DEF RunKinds, Indices
<1>6. NoSecondSeat'
  <2>1. /\ \A j \in Indices : Shadowed(j) => announced'[j] = None
        /\ ~DistinctCrew => active_epoch' = active_epoch /\ outcome' # "Finalized"
    BY <1>0, SecondSeatStaysEmpty DEF RunInv
  <2> QED
    BY <1>2, <2>1 DEF RunInv, NoSecondSeat, Shadowed
<1>7. InStep'
  <2> SUFFICES ASSUME DistinctCrew PROVE InStep'
    BY DEF InStep
  <2>1. /\ seen_events' = seen_events \cup {<<Roster[turn], round>>}
        /\ turn = RosterSize =>
              /\ active_epoch' = active_epoch + 1 /\ outcome' = "Finalized"
              /\ \A i \in Indices : announced'[i] = None
        /\ turn # RosterSize =>
              /\ active_epoch' = active_epoch
              /\ \A i \in Indices : announced'[i] # None <=> i <= turn
    BY <1>0, AnnouncementIsTaken DEF RunInv
  <2>2. /\ active_epoch = round /\ Len(scored) = round /\ round \in Nat /\ turn \in Nat
        /\ turn \in Indices
        /\ \A a, n : <<a, n>> \in seen_events =>
             /\ n \in Nat /\ n <= round
             /\ n = round => \E i \in Indices : i < turn /\ a = Roster[i]
    BY <1>0 DEF RunInv, InStep, RunKinds, Indices
  <2>3. ASSUME NEW a, NEW n, <<a, n>> \in seen_events'
        PROVE  /\ n \in Nat /\ n <= round
               /\ n = round => \E i \in Indices : i <= turn /\ a = Roster[i]
    <3>1. CASE <<a, n>> \in seen_events
      <4>1. n \in Nat /\ n <= round
        BY <2>2, <3>1
      <4>2. ASSUME n = round PROVE \E i \in Indices : i <= turn /\ a = Roster[i]
        <5>1. PICK i \in Indices : i < turn /\ a = Roster[i]
          BY <2>2, <3>1, <4>2
        <5> QED
          BY <2>2, <5>1 DEF Indices
      <4> QED
        BY <4>1, <4>2
    <3>2. CASE <<a, n>> = <<Roster[turn], round>>
      BY <2>2, <3>2
    <3> QED
      BY <2>1, <2>3, <3>1, <3>2
  <2>4. CASE turn = RosterSize
    BY <1>2, <1>3, <2>1, <2>2, <2>3, <2>4 DEF InStep
  <2>5. CASE turn # RosterSize
    <3>1. pc' = "ask" /\ turn' = turn + 1 /\ active_epoch' = round' /\ Len(scored') = round'
      BY <1>2, <1>3, <2>1, <2>2, <2>5
    <3>2. \A i \in Indices : announced'[i] # None <=> i < turn'
      BY <2>1, <2>2, <2>5, <3>1 DEF Indices
    <3>3. ASSUME NEW a, NEW n, <<a, n>> \in seen_events'
          PROVE  /\ n \in Nat /\ n <= round'
                 /\ n = round' => \E i \in Indices : i < turn' /\ a = Roster[i]
      BY <1>2, <2>2, <2>3, <3>1, <3>3 DEF Indices
    <3> QED
      BY <3>1, <3>2, <3>3 DEF InStep
  <2> QED
    BY <2>4, <2>5
<1>8. Halting' /\ LabelIsTrue'
  <2>1. label' = None /\ pc' # "conclude"
    BY <1>0, <1>2, <1>3 DEF RunKinds
  <2>2. ~DistinctCrew => scored' = <<>>
    BY <1>2 DEF RunInv, NoSecondSeat
  <2> QED
    BY <2>1, <2>2, RunAssumption DEF Halting, LabelIsTrue
<1> QED
  BY <1>1, <1>4, <1>5, <1>6, <1>7, <1>8 DEF RunInv

LEMMA ScoreStep ==
  ASSUME RunInv, Score
  PROVE  RunInv'
<1>0. /\ pc = "score" /\ pc' = "conclude" /\ halt = None /\ label = None
      /\ UNCHANGED <<vars, round, turn, last, label>>
  BY DEF RunInv, RunKinds, Score, engineVars
<1>1. IInv'
  BY <1>0, InvStutter DEF RunInv
<1>2. RunKinds'
  BY <1>0 DEF RunInv, RunKinds
<1>3. CASE EpochFinalized /\ Ctl!record_metric(metric)
           /\ scored' = Append(scored, [epoch |-> ScoredEpoch, metric |-> metric])
  <2>1. DistinctCrew
    BY <1>3 DEF EpochFinalized, RunInv, NoSecondSeat
  <2>2. PICK S : scored \in Seq(S)
    BY DEF RunInv, RunBooks
  <2>3. PICK line : line = [epoch |-> ScoredEpoch, metric |-> metric]
    OBVIOUS
  <2>4. PICK n : n = Len(scored)
    OBVIOUS
  <2>5. /\ scored \in Seq(S \cup {line}) /\ n \in Nat
        /\ scored' \in Seq(S \cup {line}) /\ Len(scored') = n + 1
        /\ scored'[n + 1] = line /\ \A k \in 1 .. n : scored'[k] = scored[k]
        /\ scored' # <<>>
    BY <1>3, <2>2, <2>3, <2>4
  <2>6. PICK m : m = metric
    OBVIOUS
  <2>7. Ctl!record_metric(m) /\ Len(metrics) = n
    BY <1>3, <2>4, <2>6 DEF RunInv, RunBooks
  <2>8. /\ CtlInv' /\ Len(metrics') = n + 1 /\ metrics'[n + 1] = m
        /\ \A i \in 1 .. n : metrics'[i] = metrics[i]
        /\ halt' \in {None, "PaperHorizon", "NoSolution"}
        /\ n + 1 >= horizon => halt' = "PaperHorizon"
        /\ n + 1 < horizon /\ halt' # None =>
             /\ halt' = "NoSolution" /\ n + 1 > plateau_k
             /\ \A i \in (n + 1 - plateau_k + 1) .. (n + 1) : Ctl!Flat(i)'
    <3>1. CtlInv
      BY DEF RunInv
    <3>2. /\ CtlInv' /\ Len(metrics') = Len(metrics) + 1
          /\ \A i \in 1 .. Len(metrics) : metrics'[i] = metrics[i]
          /\ metrics'[Len(metrics')] = m
          /\ halt' \in {halt, "PaperHorizon", "NoSolution"}
          /\ Len(metrics') >= horizon => halt' = "PaperHorizon"
      BY <3>1, <2>7, RecordMetric
    <3>3. Len(metrics') < horizon /\ halt' # halt =>
            /\ halt' = "NoSolution" /\ Len(metrics') > plateau_k
            /\ \A i \in (Len(metrics') - plateau_k + 1) .. Len(metrics') : Ctl!Flat(i)'
      BY <3>1, <2>7, RecordMetric
    <3>4. Len(metrics') = n + 1 /\ Len(metrics) = n /\ halt = None
      BY <1>0, <2>7, <3>2
    <3>5. n + 1 < horizon /\ halt' # None =>
            /\ halt' = "NoSolution" /\ n + 1 > plateau_k
            /\ \A i \in (n + 1 - plateau_k + 1) .. (n + 1) : Ctl!Flat(i)'
      BY <2>5, <3>3, <3>4 DEF plateau_k
    <3> QED
      BY <3>2, <3>4, <3>5
  <2>9. active_epoch = round + 1 /\ n = round /\ round \in Nat
    BY <1>0, <2>1, <2>4 DEF RunInv, InStep, RunKinds
  <2>10. line.epoch = n /\ line.metric = m
    BY <2>3, <2>6, <2>9 DEF ScoredEpoch
  <2>11. \A k \in 1 .. (n + 1) : scored'[k].epoch = k - 1 /\ scored'[k].metric = metrics'[k]
    <3> TAKE k \in 1 .. (n + 1)
    <3>1. CASE k = n + 1
      BY <3>1, <2>5, <2>8, <2>10
    <3>2. CASE k # n + 1
      <4>1. k \in 1 .. n
        BY <3>2, <2>5
      <4> QED
        BY <4>1, <2>4, <2>5, <2>8 DEF RunInv, RunBooks
    <3> QED
      BY <3>1, <3>2
  <2>12. RunBooks'
    BY <2>5, <2>8, <2>11 DEF RunBooks
  <2>13. NoSecondSeat'
    BY <1>0, <2>1 DEF RunInv, NoSecondSeat, Shadowed, vars
  <2>14. InStep'
    BY <1>0, <2>5, <2>9 DEF RunInv, InStep, vars
  <2>15. halt' = "NoSolution" /\ n + 1 < horizon => FlatEnd'
    <3> SUFFICES ASSUME halt' = "NoSolution", n + 1 < horizon PROVE FlatEnd'
      OBVIOUS
    <3>1. /\ n + 1 > plateau_k
          /\ \A i \in (n + 1 - plateau_k + 1) .. (n + 1) : Ctl!Flat(i)'
      BY <2>8, RunAssumption DEF Ctl!Halts
    <3>2. ASSUME NEW k \in (n + 1 - plateau_k + 1) .. (n + 1)
          PROVE  ~(IF lower_is_better
                   THEN scored'[k].metric < scored'[k - 1].metric - Improve
                   ELSE scored'[k].metric > scored'[k - 1].metric + Improve)
      <4>1. k \in 1 .. (n + 1) /\ k - 1 \in 1 .. (n + 1)
        BY <2>5, <3>1, <3>2 DEF plateau_k
      <4>2. ~(IF lower_is_better THEN metrics'[k] < metrics'[k - 1] - Improve
                                 ELSE metrics'[k] > metrics'[k - 1] + Improve)
        BY <3>1, <3>2 DEF Ctl!Flat, lower_is_better
      <4> QED
        BY <2>11, <4>1, <4>2
    <3> QED
      BY <2>5, <3>1, <3>2 DEF FlatEnd, lower_is_better, plateau_k
  <2>16. Halting'
    <3>1. halt' = "PaperHorizon" => n + 1 >= horizon
      BY <2>5, <2>8, HorizonType, RunAssumption DEF Ctl!Halts
    <3>2. halt' = "NoSolution" => n + 1 < horizon
      BY <2>5, <2>8, HorizonType
    <3> QED
      BY <2>5, <2>8, <2>15, <3>1, <3>2 DEF Halting
  <2>17. LabelIsTrue'
    BY <1>0, <2>1, RunAssumption DEF LabelIsTrue
  <2> QED
    BY <1>1, <1>2, <2>8, <2>12, <2>13, <2>14, <2>16, <2>17 DEF RunInv
<1>4. CASE ~EpochFinalized /\ UNCHANGED <<controllerVars, scored>>
  <2>1. UNCHANGED <<epochs_done, last_metric, non_improving, metrics, scored, halt>>
    BY <1>4 DEF controllerVars
  <2>2. CtlInv' /\ RunBooks'
    BY <2>1, BooksStay
  <2>3. ~DistinctCrew /\ scored = <<>>
    BY <1>0, <1>4 DEF EpochFinalized, RunInv, InStep, NoSecondSeat
  <2>4. NoSecondSeat' /\ InStep'
    BY <1>0, <2>1, <2>3 DEF RunInv, NoSecondSeat, InStep, Shadowed, vars
  <2>5. Halting'
    BY <1>0, <2>1, <2>3, HorizonType, RunAssumption DEF Halting, Ctl!Halts
  <2>6. LabelIsTrue'
    BY <1>0, <2>1, <2>3, RunAssumption DEF LabelIsTrue
  <2> QED
    BY <1>1, <1>2, <2>2, <2>4, <2>5, <2>6 DEF RunInv
<1> QED
  BY <1>3, <1>4 DEF Score

LEMMA ConcludeStep ==
  ASSUME RunInv, Conclude
  PROVE  RunInv'
<1>0. /\ pc = "conclude" /\ label = None
      /\ UNCHANGED <<vars, turn, last, scored, ballots>>
      /\ UNCHANGED <<epochs_done, last_metric, non_improving, metrics>>
      /\ halt' = IF halt = None /\ Ctl!MajorityStops THEN "MajorityStop" ELSE halt
  BY DEF RunInv, RunKinds, Conclude, engineVars, Ctl!conclude_votes
<1>1. IInv' /\ CtlInv' /\ RunBooks'
  BY <1>0, InvStutter, BooksStay DEF RunInv
<1>2. NoSecondSeat'
  BY <1>0 DEF RunInv, NoSecondSeat, Shadowed, vars
<1>3. Halting
  BY DEF RunInv
<1>4. DistinctCrew => Len(scored) = round + 1 /\ active_epoch = round + 1
  BY <1>0 DEF RunInv, InStep
<1>5. round \in Nat /\ round < horizon /\ horizon \in Nat
  BY HorizonType DEF RunInv, RunKinds
<1>6. CASE halt' = None /\ ~LastRound /\ round' = round + 1 /\ pc' = "loop" /\ UNCHANGED label
  <2>1. RunKinds'
    BY <1>0, <1>5, <1>6 DEF RunInv, RunKinds, LastRound
  <2>2. InStep'
    BY <1>0, <1>4, <1>5, <1>6 DEF RunInv, InStep, vars
  <2>3. Halting' /\ LabelIsTrue'
    BY <1>0, <1>2, <1>6, RunAssumption DEF Halting, LabelIsTrue, NoSecondSeat
  <2> QED
    BY <1>1, <1>2, <2>1, <2>2, <2>3 DEF RunInv
<1>7. ASSUME pc' = "done", UNCHANGED round, LabelIsTrue'
      PROVE  RunInv'
  <2>1. RunKinds'
    BY <1>0, <1>7 DEF RunInv, RunKinds
  <2>2. InStep'
    BY <1>0, <1>4, <1>7 DEF RunInv, InStep, vars
  <2>3. Halting'
    BY <1>7 DEF Halting
  <2> QED
    BY <1>1, <1>2, <1>7, <2>1, <2>2, <2>3 DEF RunInv
<1>8. CASE halt' # None /\ Finish(LabelOf(halt')) /\ UNCHANGED round
  <2>1. ~DistinctCrew => scored = <<>> /\ scored' = <<>> /\ halt = None
    BY <1>0, <1>3 DEF RunInv, NoSecondSeat, Halting
  <2>2. CASE halt = "PaperHorizon"
    <3>1. label' = "paper-horizon"
      BY <1>0, <1>8, <2>2, RunAssumption DEF Finish, LabelOf, Ctl!Halts
    <3>2. DistinctCrew
      BY <2>1, <2>2, RunAssumption DEF Ctl!Halts
    <3>3. Len(scored') = horizon
      BY <1>0, <1>3, <1>4, <1>5, <2>2, <3>2 DEF Halting
    <3>4. LabelIsTrue'
      BY <3>1, <3>2, <3>3 DEF LabelIsTrue
    <3> QED
      BY <1>7, <1>8, <3>4 DEF Finish
  <2>3. CASE halt = "NoSolution"
    <3>1. label' = "no-solution"
      BY <1>0, <1>8, <2>3, RunAssumption DEF Finish, LabelOf, Ctl!Halts
    <3>2. DistinctCrew
      BY <2>1, <2>3, RunAssumption DEF Ctl!Halts
    <3>3. FlatEnd
      BY <1>0, <1>3, <2>3 DEF Halting
    <3>4. LabelIsTrue'
      BY <1>0, <3>1, <3>2, <3>3 DEF LabelIsTrue, FlatEnd
    <3> QED
      BY <1>7, <1>8, <3>4 DEF Finish
  <2>4. CASE halt = None /\ Ctl!MajorityStops
    <3>1. label' = "majority-stop"
      BY <1>0, <1>8, <2>4 DEF Finish, LabelOf
    <3>2. Cardinality(Ctl!Stops) * 2 > RosterSize
      BY <2>4, RosterLength, SameCardinality DEF Ctl!MajorityStops
    <3>3. 2 * Cardinality({i \in Indices : ballots[Roster[i]] = "Stop"}) > RosterSize
      BY <3>2, StopsHaveSeats, RosterAssumption
    <3>4. LabelIsTrue'
      BY <1>0, <2>1, <3>1, <3>3 DEF LabelIsTrue
    <3> QED
      BY <1>7, <1>8, <3>4 DEF Finish
  <2> QED
    BY <1>0, <1>3, <1>8, <2>2, <2>3, <2>4 DEF Halting
<1>9. CASE halt' = None /\ LastRound /\ Finish("max-rounds") /\ UNCHANGED round
  <2>1. halt = None
    BY <1>0, <1>9, RunAssumption DEF Ctl!Halts
  <2>2. ASSUME DistinctCrew PROVE FALSE
    BY <1>0, <1>3, <1>4, <1>5, <1>9, <2>1, <2>2, RunAssumption
    DEF Halting, LastRound, Ctl!Halts
  <2>3. LabelIsTrue'
    BY <1>0, <1>9, <2>2 DEF RunInv, NoSecondSeat, LabelIsTrue, Finish
  <2> QED
    BY <1>7, <1>9, <2>3 DEF Finish
<1> QED
  BY <1>6, <1>8, <1>9 DEF Conclude

LEMMA RunInvStep == RunInv /\ [RunNext]_runVars => RunInv'
<1> SUFFICES ASSUME RunInv, [RunNext]_runVars PROVE RunInv'
  OBVIOUS
<1>1. ASSUME UNCHANGED <<vars, epochs_done, last_metric, non_improving, metrics>>,
             UNCHANGED <<round, scored, halt>>, RunKinds', InStep', LabelIsTrue',
             pc' # "conclude", last' = last \/ last' = "Applied"
      PROVE  RunInv'
  <2>1. IInv' /\ CtlInv' /\ RunBooks'
    BY <1>1, InvStutter, BooksStay DEF RunInv
  <2>2. NoSecondSeat' /\ Halting'
    BY <1>1 DEF RunInv, NoSecondSeat, Shadowed, Halting, vars
  <2> QED
    BY <1>1, <2>1, <2>2 DEF RunInv
<1>2. CASE UNCHANGED runVars
  <2>1. UNCHANGED <<vars, epochs_done, last_metric, non_improving, metrics, scored>>
    BY <1>2 DEF runVars, engineVars, controllerVars, driverVars
  <2>2. IInv' /\ CtlInv' /\ RunBooks'
    BY <2>1, InvStutter, BooksStay DEF RunInv
  <2>3. UNCHANGED <<pc, round, turn, label, halt, last, ballots>>
    BY <1>2 DEF runVars, controllerVars, driverVars
  <2>4. RunKinds' /\ NoSecondSeat' /\ InStep'
    BY <2>1, <2>3 DEF RunInv, RunKinds, NoSecondSeat, Shadowed, InStep, vars
  <2>5. Halting' /\ LabelIsTrue'
    BY <2>1, <2>3 DEF RunInv, Halting, FlatEnd, LabelIsTrue
  <2> QED
    BY <2>2, <2>4, <2>5 DEF RunInv
<1>3. ASSUME pc \in {"derive", "ask"}, Finish("missing-update-rule") \/ Finish("unreadable-announcement"),
             UNCHANGED <<engineVars, controllerVars, round, turn, last, scored>>
      PROVE  RunInv'
  <2>1. /\ UNCHANGED <<vars, epochs_done, last_metric, non_improving, metrics>>
        /\ UNCHANGED <<halt, ballots>>
    BY <1>3 DEF engineVars, controllerVars
  <2>2. RunKinds' /\ pc' = "done"
    BY <1>3, <2>1 DEF RunInv, RunKinds, Finish
  <2>3. InStep'
    BY <1>3, <2>1, <2>2 DEF RunInv, InStep, vars
  <2>4. LabelIsTrue'
    BY <1>3 DEF RunInv, NoSecondSeat, LabelIsTrue, Finish
  <2> QED
    BY <1>1, <1>3, <2>1, <2>2, <2>3, <2>4
<1>4. CASE RuleMissing
  BY <1>3, <1>4 DEF RuleMissing
<1>5. CASE GiveUp
  BY <1>3, <1>5 DEF GiveUp
<1>6. CASE RulesDerived
  <2>1. /\ UNCHANGED <<vars, epochs_done, last_metric, non_improving, metrics>>
        /\ UNCHANGED <<halt, round, turn, last, label, scored>>
        /\ pc = "derive" /\ pc' = "loop"
    BY <1>6 DEF RulesDerived, engineVars, controllerVars
  <2>2. RunKinds' /\ InStep'
    BY <2>1 DEF RunInv, RunKinds, InStep, vars
  <2>3. LabelIsTrue'
    BY <2>1, RunAssumption DEF RunInv, RunKinds, NoSecondSeat, LabelIsTrue
  <2> QED
    BY <1>1, <2>1, <2>2, <2>3
<1>7. CASE BeginEpoch
  <2>1. /\ UNCHANGED <<vars, epochs_done, last_metric, non_improving, metrics>>
        /\ UNCHANGED <<halt, round, label, scored>>
        /\ pc = "loop" /\ pc' = "ask" /\ turn' = 1 /\ last' = "Applied"
    BY <1>7 DEF BeginEpoch, engineVars, Ctl!begin_epoch
  <2>2. RunKinds'
    BY <2>1, RosterAssumption DEF RunInv, RunKinds, Indices
  <2>3. InStep'
    BY <2>1, RosterAssumption DEF RunInv, InStep, vars, Indices
  <2>4. LabelIsTrue'
    BY <2>1, RunAssumption DEF RunInv, RunKinds, NoSecondSeat, LabelIsTrue
  <2> QED
    BY <1>1, <2>1, <2>2, <2>3, <2>4
<1>8. CASE Reprompt
  <2>1. /\ UNCHANGED <<vars, epochs_done, last_metric, non_improving, metrics>>
        /\ UNCHANGED <<halt, round, turn, last, label, scored, pc>> /\ pc = "ask"
    BY <1>8 DEF Reprompt, engineVars, controllerVars
  <2>2. RunKinds' /\ InStep'
    BY <2>1 DEF RunInv, RunKinds, InStep, vars
  <2>3. LabelIsTrue'
    BY <2>1, RunAssumption DEF RunInv, RunKinds, NoSecondSeat, LabelIsTrue
  <2> QED
    BY <1>1, <2>1, <2>2, <2>3
<1> QED
  BY <1>2, <1>4, <1>5, <1>6, <1>7, <1>8, AnnounceStep, ScoreStep, ConcludeStep
  DEF RunNext, Step, Done

THEOREM RunInvariance == RunSafety => []RunInv
BY RunInvInit, RunInvStep, PTL DEF RunSafety

\* A run of drive_converge moves the engine and its plant by the events of the
\* agents only, so that what is proved of them for every stream of events holds
\* of every run.
THEOREM RunsDriveThePlant == RunSafety => PlantSpec
<1>1. RunInit => Init /\ PlantInit
  BY DEF RunInit
<1>2. RunInv /\ [RunNext]_runVars => [PlantNext]_<<vars, plantVars>>
  <2> SUFFICES ASSUME RunInv, [RunNext]_runVars PROVE [PlantNext]_<<vars, plantVars>>
    OBVIOUS
  <2>1. CASE \E x \in FiniteScalars, ballot \in {"Stop", "Continue", None} : Announce(x, ballot)
    <3>1. PICK x \in FiniteScalars, ballot \in {"Stop", "Continue", None} : Announce(x, ballot)
      BY <2>1
    <3>2. ApplyWithPlant(AnnounceEvent(turn, round, x))
      BY <3>1 DEF Announce
    <3>3. AnnounceEvent(turn, round, x) \in Events
      BY AnnouncementIsAnEvent DEF RunInv
    <3> QED
      BY <3>2, <3>3 DEF PlantNext
  <2>2. CASE UNCHANGED engineVars
    BY <2>2 DEF engineVars
  <2> QED
    BY <2>1, <2>2
    DEF RunNext, Step, Done, RuleMissing, RulesDerived, BeginEpoch, Reprompt, GiveUp, Score,
        Conclude, runVars
<1> QED
  BY <1>1, <1>2, RunInvariance, PTL DEF RunSafety, PlantSpec

\* The plants of every run keep their books, however it is driven.
THEOREM RunsKeepTheBooks == RunSafety => []PlantsKeepTheirBooks
BY RunsDriveThePlant, BooksAreKept, PTL

\* A plant follows its engine and never holds it back or moves it: what the
\* engine guarantees for a stream of events it guarantees with a plant behind it.
LEMMA PlantsFollowTheEngine == PlantSpec => Spec
<1>1. [PlantNext]_<<vars, plantVars>> => [Next]_vars
  BY DEF PlantNext, ApplyWithPlant, Next
<1> QED
  BY <1>1, PTL DEF PlantSpec, Spec

\* In every run of drive_converge the epochs close one after the other, each
\* with one announcement of every seat and none replaced, through prompts that
\* are repeated, agents that fail and runs that are given up.
THEOREM RunsCloseTheirRounds == RunSafety => ImplementsRounds /\ FirstAnnouncementStands
BY RunsDriveThePlant, PlantsFollowTheEngine, RefinesRounds, AnnouncementsStand, PTL

\* Whatever the agents reply, the report of drive_converge lists the epochs the
\* engine finalized, in order and each once, and the controller counted them.
THEOREM ReportsAreTheHistory == RunSafety => []ReportIsTheHistory
<1>1. RunInv => ReportIsTheHistory
  <2> SUFFICES ASSUME RunInv PROVE ReportIsTheHistory
    OBVIOUS
  <2>1. /\ InitialEpoch = 0 /\ active_epoch = counters["finalized"]
        /\ epochs_done = Len(scored) /\ DOMAIN scored = 1 .. Len(scored)
    BY RunAssumption DEF RunInv, IInv, TypeOK, Accounting, RuntimeCounters, CtlInv, RunBooks
  <2>2. \A k \in DOMAIN scored : k \in Int /\ scored[k].epoch = k - 1
    BY <2>1 DEF RunInv, RunBooks
  <2>3. pc \notin {"ask", "score"} => Len(scored) = active_epoch
    <3>1. CASE DistinctCrew
      BY <3>1 DEF RunInv, RunKinds, InStep
    <3>2. CASE ~DistinctCrew
      BY <3>2 DEF RunInv, NoSecondSeat
    <3> QED
      BY <3>1, <3>2
  <2> QED
    BY <2>1, <2>2, <2>3 DEF ReportIsTheHistory
<1> QED
  BY <1>1, RunInvariance, PTL

\* The reason drive_converge gives for its end holds when it ends, for every
\* crew, every class and every horizon; a crew of distinct agents never just
\* runs out of rounds, and one with a repeated agent never scores an epoch.
THEOREM LabelsHold == RunSafety => []LabelIsTrue
<1>1. RunInv => LabelIsTrue
  BY DEF RunInv
<1> QED
  BY <1>1, RunInvariance, PTL

=============================================================================
