---------------------- MODULE DevelopmentEngineProofs ----------------------
(***************************************************************************)
(* Theorems about the development engine, for every number of agents, every *)
(* quorum (zero included) and every stream of events, about the driver of  *)
(* `agentbridge coordinate' that feeds it, for every crew, and about the   *)
(* ASSEMBLY before a run.                                                  *)
(***************************************************************************)
EXTENDS Coordinate, Assembly, FiniteSetTheorems, WellFoundedInduction, TLAPS

-----------------------------------------------------------------------------
(* Least and greatest elements, from the well-foundedness of < on Nat *)

\* A nonempty set of naturals has a least element.
LEMMA NatMin ==
  ASSUME NEW T, T \subseteq Nat, T # {}
  PROVE  \E m \in T : \A k \in T : m <= k
<1> DEFINE R == OpToRel(<, Nat)
<1>1. IsWellFoundedOn(R, Nat)
  BY NatLessThanWellFounded
<1>2. \E m \in T : \A k \in T : ~(<<k, m>> \in R)
  BY <1>1, WFMin
<1>3. \A k, m \in Nat : ~(<<k, m>> \in R) => m <= k
  BY DEF OpToRel
<1> QED
  BY <1>2, <1>3

\* A nonempty set of naturals with an upper bound has a greatest element.
LEMMA NatMax ==
  ASSUME NEW b \in Nat, NEW T, T \subseteq 0..b, T # {}
  PROVE  \E m \in T : \A k \in T : k <= m
<1> DEFINE U == {b - k : k \in T}
<1>1. U \subseteq Nat /\ U # {}
  <2>1. \A k \in T : b - k \in Nat
    OBVIOUS
  <2>2. PICK k \in T : TRUE
    OBVIOUS
  <2>3. b - k \in U
    OBVIOUS
  <2> QED
    BY <2>1, <2>3
<1>2. PICK u \in U : \A k \in U : u <= k
  BY <1>1, NatMin
<1>3. PICK m \in T : u = b - m
  BY <1>2
<1>4. ASSUME NEW k \in T PROVE k <= m
  <2>1. b - k \in U
    OBVIOUS
  <2> QED
    BY <2>1, <1>2, <1>3
<1> QED
  BY <1>4

-----------------------------------------------------------------------------
(* The tally *)

LEMMA AgentsFinite == IsFiniteSet(Agents) /\ Agents \subseteq Nat
BY AgentsAssumption, FS_Interval DEF Agents

\* No submission gets more endorsements than there are agents.
LEMMA TallyBounded ==
  ASSUME NEW vs, NEW a
  PROVE  /\ VotesFor(a, vs) \in Nat
         /\ VotesFor(a, vs) <= Cardinality(Agents)
<1> DEFINE S == {v \in Agents : vs[v] = a}
<1>1. S \in SUBSET Agents
  OBVIOUS
<1>2. IsFiniteSet(S) /\ Cardinality(S) <= Cardinality(Agents)
  BY <1>1, AgentsFinite, FS_Subset
<1>3. Cardinality(S) \in Nat
  BY <1>2, FS_CardinalityType
<1> QED
  BY <1>2, <1>3 DEF VotesFor

\* max_by_key finds an entry whenever there is one: some submission is beaten
\* by no other, so try_finalize's unwrap_or_default never takes its default.
LEMMA WinnerExists ==
  ASSUME NEW props \in [Agents -> Artifacts \cup {None}], NEW vs,
         Keys(props) # {}
  PROVE  /\ Winner(props, vs) \in Keys(props)
         /\ \A b \in Keys(props) : Beats(Winner(props, vs), b, vs)
<1> DEFINE K == Keys(props)
           N == Cardinality(Agents)
           Tallies == {VotesFor(a, vs) : a \in K}
<1>1. K \subseteq Agents /\ K # {} /\ N \in Nat
  BY AgentsFinite, FS_CardinalityType DEF Keys
<1>2. \E m \in Tallies : \A k \in Tallies : k <= m
  <2>1. \A a \in K : VotesFor(a, vs) \in 0..N
    BY TallyBounded, <1>1
  <2>2. Tallies \subseteq 0..N
    BY <2>1
  <2>3. Tallies # {}
    BY <1>1
  <2> HIDE DEF Tallies, N, K
  <2> QED
    BY <2>2, <2>3, <1>1, NatMax
<1>3. PICK m \in Tallies : \A a \in K : VotesFor(a, vs) <= m
  BY <1>2
<1> DEFINE Best == {a \in K : VotesFor(a, vs) = m}
<1>4. \E w \in Best : \A a \in Best : a <= w
  <2>1. Best # {}
    BY <1>3
  <2>2. Best \subseteq 0..AgentCount
    BY <1>1, AgentsAssumption DEF Agents
  <2> HIDE DEF Best
  <2> QED
    BY <2>1, <2>2, AgentsAssumption, NatMax
<1>5. PICK w \in Best : \A a \in Best : a <= w
  BY <1>4
<1>6. \A b \in K : Beats(w, b, vs)
  <2> TAKE b \in K
  <2>1. VotesFor(b, vs) <= VotesFor(w, vs)
    BY <1>3, <1>5
  <2>2. VotesFor(b, vs) \in Nat /\ VotesFor(w, vs) \in Nat
    BY TallyBounded
  <2>3. CASE VotesFor(b, vs) = VotesFor(w, vs)
    <3>1. b \in Best
      BY <2>3, <1>5
    <3>2. b <= w /\ b \in Nat /\ w \in Nat
      BY <3>1, <1>5, <1>1, AgentsFinite
    <3> QED
      BY <3>2, <2>3 DEF Beats
  <2> QED
    BY <2>1, <2>2, <2>3 DEF Beats
<1>7. \E a \in K : \A b \in K : Beats(a, b, vs)
  BY <1>5, <1>6
<1> QED
  BY <1>7 DEF Winner

-----------------------------------------------------------------------------
(* Type correctness *)

LEMMA ProposerType ==
  ASSUME NEW e \in Events
  PROVE  Proposer(e) \in Agents \cup {None}
BY EventsAssumption, AgentsAssumption DEF Proposer, Event, Source

LEMMA VoterType ==
  ASSUME NEW e \in Events
  PROVE  Voter(e) \in Agents
BY EventsAssumption, AgentsAssumption DEF Voter, Event, Source

LEMMA ArtifactType ==
  ASSUME NEW e \in Events, IsProposal(e)
  PROVE  e.payload.artifact \in Artifacts
BY EventsAssumption DEF IsProposal, Event, Payload

LEMMA EndorseeType ==
  ASSUME NEW e \in Events, e.payload.kind = "ToolResult"
  PROVE  e.payload.tool_name \in Agents
BY EventsAssumption DEF Event, Payload

LEMMA EventFields ==
  ASSUME NEW e \in Events
  PROVE  e.id \in EventIds /\ e.epoch \in Epochs /\ e.epoch \in Nat /\ e # None
BY EventsAssumption, EpochsAssumption DEF Event

LEMMA BumpType ==
  ASSUME counters \in [RuntimeCounters -> Nat], NEW fields, Bump(fields)
  PROVE  /\ counters' \in [RuntimeCounters -> Nat]
         /\ \A f \in RuntimeCounters :
              counters'[f] = IF f \in fields THEN counters[f] + 1 ELSE counters[f]
BY DEF Bump

\* The map a submission leaves behind, and the keys it has.
LEMMA SubmittedFacts ==
  ASSUME TypeOK, NEW e \in Events, AcceptableProposal(e)
  PROVE  /\ Submitted(e) \in [Agents -> Artifacts \cup {None}]
         /\ Proposer(e) \in Agents
         /\ Submitted(e)[Proposer(e)] = e.payload.artifact
         /\ \A a \in Agents \ {Proposer(e)} : Submitted(e)[a] = proposals[a]
         /\ Proposer(e) \in Keys(Submitted(e))
<1>1. Proposer(e) \in Agents
  BY ProposerType DEF AcceptableProposal
<1>2. e.payload.artifact \in Artifacts /\ e.payload.artifact # None
  BY ArtifactType, AgentsAssumption DEF AcceptableProposal
<1> QED
  BY <1>1, <1>2 DEF Submitted, TypeOK, Keys

\* What an epoch selects is one of the artifacts on the table.
LEMMA SelectionIsASubmission ==
  ASSUME TypeOK, NEW e \in Events, AcceptableProposal(e)
  PROVE  /\ Winner(Submitted(e), votes) \in Keys(Submitted(e))
         /\ Winner(Submitted(e), votes) \in Agents
         /\ Submitted(e)[Winner(Submitted(e), votes)] \in Artifacts
<1>1. /\ Submitted(e) \in [Agents -> Artifacts \cup {None}]
      /\ Keys(Submitted(e)) # {}
  BY SubmittedFacts
<1>2. Winner(Submitted(e), votes) \in Keys(Submitted(e))
  BY <1>1, WinnerExists
<1> HIDE DEF Winner
<1> QED
  BY <1>1, <1>2 DEF Keys

LEMMA TypeInit == Init => TypeOK
BY EpochsAssumption DEF Init, TypeOK, Outcomes

LEMMA TypeStep ==
  ASSUME TypeOK, NEW e \in Events, Apply(e)
  PROVE  TypeOK'
<1> USE DEF TypeOK
<1>0. calls' \in Nat /\ e.id \in EventIds /\ e \in Events
  BY EventFields DEF Apply
<1>1. ASSUME NEW r \in Outcomes, NEW fields, Refuse(r, fields),
             seen_events' \in {seen_events, seen_events \cup {e.id}}
      PROVE  TypeOK'
  BY <1>0, <1>1, BumpType DEF Refuse
<1>2. CASE RejectPattern(e)
  BY <1>1, <1>2 DEF RejectPattern, Outcomes
<1>3. CASE RejectFinalized(e)
  BY <1>1, <1>3 DEF RejectFinalized, Outcomes
<1>4. CASE RejectStale(e)
  BY <1>1, <1>4 DEF RejectStale, Outcomes
<1>5. CASE Defer(e)
  BY <1>1, <1>5 DEF Defer, Outcomes
<1>6. CASE RejectDuplicate(e)
  BY <1>1, <1>6 DEF RejectDuplicate, Outcomes
<1>7. CASE RejectProposal(e)
  BY <1>1, <1>7 DEF RejectProposal, Record, Outcomes
<1>8. CASE HoldProposal(e)
  BY <1>0, <1>8, BumpType, SubmittedFacts DEF HoldProposal, Record, Outcomes
<1>9. CASE FinalizeEpoch(e)
  <2>1. selected' \in [Epochs -> Artifacts \cup {None}]
    BY <1>9, SelectionIsASubmission DEF FinalizeEpoch, ClearEpoch, AdvanceEpoch
  <2>2. proposals' \in [Agents -> Artifacts \cup {None}]
        /\ votes' \in [Agents -> Agents \cup {None}]
    BY <1>9 DEF FinalizeEpoch, ClearEpoch, AdvanceEpoch
  <2> QED
    BY <1>0, <1>9, <2>1, <2>2, BumpType DEF FinalizeEpoch, ClearEpoch, AdvanceEpoch, Record, Outcomes
<1>10. CASE AcceptVote(e)
  BY <1>0, <1>10, BumpType, VoterType, EndorseeType
  DEF AcceptVote, Record, Outcomes
<1>11. CASE ApplyNothing(e)
  BY <1>0, <1>11, BumpType DEF ApplyNothing, Record, Outcomes
<1> QED
  BY <1>2, <1>3, <1>4, <1>5, <1>6, <1>7, <1>8, <1>9, <1>10, <1>11 DEF Apply

\* The maps of the engine stay well formed whatever events arrive.
THEOREM TypeCorrect == Spec => []TypeOK
<1>1. TypeOK /\ [Next]_vars => TypeOK'
  <2>1. TypeOK /\ UNCHANGED vars => TypeOK'
    BY DEF TypeOK, vars
  <2> QED
    BY <2>1, TypeStep DEF Next
<1> QED
  BY <1>1, TypeInit, PTL DEF Spec

-----------------------------------------------------------------------------
(* Safety *)

\* The inductive invariant.  The parts lean on one another: that a fresh id
\* has no applied event (ExactlyOnce) is what keeps the evidence for the held
\* and the selected artifacts (HeldAreCurrent, SelectedWasSubmitted) in place
\* when a new event is applied, and the held artifacts of the active epoch are
\* what the next selection is taken from.
IInv ==
  /\ TypeOK
  /\ Accounting
  /\ ExactlyOnce
  /\ DecidedExactlyThePast
  /\ HeldAreCurrent
  /\ SelectedWasSubmitted
  /\ NoIdleQuorum

\* An event that is applied adds its id to the applied ones and disturbs none
\* of the evidence gathered so far.
LEMMA ConsumeFacts ==
  ASSUME TypeOK, ExactlyOnce, NEW e \in Events, Fresh(e),
         consumed' = [consumed EXCEPT ![e.id] = e]
  PROVE  /\ e.id \notin Keys(consumed)
         /\ Keys(consumed)' = Keys(consumed) \cup {e.id}
         /\ consumed'[e.id] = e
         /\ \A i \in Keys(consumed) : consumed'[i] = consumed[i]
         /\ Cardinality(Keys(consumed)') = Cardinality(Keys(consumed)) + 1
<1>1. e.id \in EventIds /\ e # None
  BY EventFields
<1>2. e.id \notin Keys(consumed)
  BY DEF ExactlyOnce, Fresh
<1>3. Keys(consumed)' = Keys(consumed) \cup {e.id}
  BY <1>1 DEF Keys, TypeOK
<1>4. IsFiniteSet(Keys(consumed))
  <2>1. Keys(consumed) \in SUBSET EventIds
    BY DEF Keys, TypeOK
  <2> QED
    BY <2>1, EventsAssumption, FS_Subset
<1>5. Cardinality(Keys(consumed) \cup {e.id}) = Cardinality(Keys(consumed)) + 1
  BY <1>2, <1>4, FS_AddElement
<1>6. \A i \in Keys(consumed) : consumed'[i] = consumed[i]
  BY <1>2 DEF Keys, TypeOK
<1>7. consumed'[e.id] = e
  BY <1>1 DEF TypeOK
<1> QED
  BY <1>2, <1>3, <1>5, <1>6, <1>7

\* Evidence outlives every later event, and an applied event is evidence.
LEMMA EvidenceStays ==
  ASSUME TypeOK, ExactlyOnce, NEW e \in Events, Fresh(e),
         consumed' = [consumed EXCEPT ![e.id] = e]
  PROVE  /\ \A n, a, x : SubmittedIn(consumed, n, a, x) => SubmittedIn(consumed', n, a, x)
         /\ \A n, v, a : EndorsedIn(consumed, n, v, a) => EndorsedIn(consumed', n, v, a)
         /\ IsProposal(e) => SubmittedIn(consumed', e.epoch, Proposer(e), e.payload.artifact)
         /\ e.payload.kind = "ToolResult" =>
              EndorsedIn(consumed', e.epoch, Voter(e), e.payload.tool_name)
<1>1. /\ \A i \in Keys(consumed) : i \in Keys(consumed)' /\ consumed'[i] = consumed[i]
      /\ e.id \in Keys(consumed)' /\ consumed'[e.id] = e
  BY ConsumeFacts
<1>2. \A n, a, x : SubmittedIn(consumed, n, a, x) => SubmittedIn(consumed', n, a, x)
  BY <1>1 DEF SubmittedIn
<1>3. \A n, v, a : EndorsedIn(consumed, n, v, a) => EndorsedIn(consumed', n, v, a)
  BY <1>1 DEF EndorsedIn
<1>4. IsProposal(e) => SubmittedIn(consumed', e.epoch, Proposer(e), e.payload.artifact)
  BY <1>1 DEF SubmittedIn
<1>5. e.payload.kind = "ToolResult" =>
        EndorsedIn(consumed', e.epoch, Voter(e), e.payload.tool_name)
  BY <1>1 DEF EndorsedIn
<1> QED
  BY <1>2, <1>3, <1>4, <1>5

LEMMA InvInit == Init => IInv
<1> SUFFICES ASSUME Init PROVE IInv
  OBVIOUS
<1>1. TypeOK
  BY TypeInit
<1>2. Keys(consumed) = {} /\ Keys(proposals) = {} /\ Keys(votes) = {}
  BY DEF Init, Keys
<1>3. \A n \in Epochs : ~IsFinalized(n)
  BY DEF Init, IsFinalized
<1>4. Accounting
  BY EpochsAssumption DEF Init, Accounting, RuntimeCounters
<1>5. ExactlyOnce
  BY <1>2, FS_EmptySet DEF Init, ExactlyOnce, RuntimeCounters
<1>6. DecidedExactlyThePast
  BY <1>3, EpochsAssumption DEF Init, DecidedExactlyThePast
<1>7. HeldAreCurrent /\ NoIdleQuorum
  BY <1>2 DEF HeldAreCurrent, NoIdleQuorum
<1>8. SelectedWasSubmitted
  BY <1>3 DEF SelectedWasSubmitted
<1> QED
  BY <1>1, <1>4, <1>5, <1>6, <1>7, <1>8 DEF IInv

\* Refusals touch neither the maps nor the evidence.
LEMMA RefuseKeepsInv ==
  ASSUME IInv, TypeOK', NEW r, NEW fields, Refuse(r, fields), calls' = calls + 1,
         seen_events \subseteq seen_events',
         fields \in {{"rejected"}, {"deferred"}, {"rejected", "stale"},
                     {"rejected", "duplicates"}}
  PROVE  IInv'
<1> USE DEF IInv
<1>1. \A f \in RuntimeCounters :
        counters'[f] = IF f \in fields THEN counters[f] + 1 ELSE counters[f]
  BY BumpType DEF Refuse, TypeOK
<1>2. \A f \in RuntimeCounters : counters[f] \in Nat
  BY DEF TypeOK
<1>3. Accounting'
  BY <1>1, <1>2 DEF Accounting, Refuse, RuntimeCounters, TypeOK
<1>4. ExactlyOnce'
  BY <1>1 DEF ExactlyOnce, Refuse, RuntimeCounters, Keys
<1>5. DecidedExactlyThePast'
  BY DEF DecidedExactlyThePast, IsFinalized, Refuse
<1>6. HeldAreCurrent'
  BY DEF HeldAreCurrent, Refuse, Keys
<1>7. SelectedWasSubmitted'
  BY DEF SelectedWasSubmitted, IsFinalized, Refuse, Keys
<1>8. NoIdleQuorum'
  BY DEF NoIdleQuorum, QuorumMissing, Refuse, Keys
<1> QED
  BY <1>3, <1>4, <1>5, <1>6, <1>7, <1>8

\* Every event that is applied keeps the books and the identifiers right.
LEMMA ConsumeKeepsBooks ==
  ASSUME IInv, NEW e \in Events, Fresh(e), Record(e), calls' = calls + 1,
         consumed' = [consumed EXCEPT ![e.id] = e],
         NEW fields, Bump(fields),
         \/ fields = {"applied"} /\ active_epoch' = active_epoch
         \/ fields = {"applied", "finalized"} /\ active_epoch' = active_epoch + 1
  PROVE  Accounting' /\ ExactlyOnce'
<1> USE DEF IInv
<1>1. \A f \in RuntimeCounters :
        counters'[f] = IF f \in fields THEN counters[f] + 1 ELSE counters[f]
  BY BumpType DEF TypeOK
<1>2. \A f \in RuntimeCounters : counters[f] \in Nat
  BY DEF TypeOK
<1>3. Accounting'
  BY <1>1, <1>2, EpochsAssumption DEF Accounting, RuntimeCounters, TypeOK
<1>4. counters'["applied"] = Cardinality(Keys(consumed)')
  BY <1>1, ConsumeFacts DEF ExactlyOnce, RuntimeCounters
<1>5. Keys(consumed)' \subseteq seen_events'
  BY ConsumeFacts DEF ExactlyOnce, Record
<1> QED
  BY <1>3, <1>4, <1>5 DEF ExactlyOnce

LEMMA HoldKeepsInv ==
  ASSUME IInv, TypeOK', NEW e \in Events, HoldProposal(e), calls' = calls + 1
  PROVE  IInv'
<1> USE DEF IInv
<1>0. /\ AcceptableProposal(e) /\ Fresh(e) /\ IsProposal(e) /\ e.epoch = active_epoch
      /\ MaySubmit(Proposer(e))
      /\ consumed' = [consumed EXCEPT ![e.id] = e]
      /\ UNCHANGED <<active_epoch, votes, selected>>
  BY DEF HoldProposal, AcceptableProposal, Fresh, Current
<1>1. Accounting' /\ ExactlyOnce'
  BY <1>0, ConsumeKeepsBooks DEF HoldProposal
<1>2. DecidedExactlyThePast'
  BY DEF DecidedExactlyThePast, IsFinalized, HoldProposal
<1>3. HeldAreCurrent'
  <2>1. ASSUME NEW a \in Keys(proposals)'
        PROVE  MaySubmit(a) /\ SubmittedIn(consumed', active_epoch', a, proposals'[a])
    <3>1. CASE a = Proposer(e)
      <4>1. proposals'[a] = e.payload.artifact
        BY <1>0, <3>1, SubmittedFacts DEF HoldProposal
      <4> QED
        BY <4>1, <3>1, <1>0, EvidenceStays
    <3>2. CASE a # Proposer(e)
      <4>1. a \in Keys(proposals) /\ proposals'[a] = proposals[a]
        BY <1>0, <3>2, SubmittedFacts DEF HoldProposal, Keys, TypeOK
      <4> QED
        BY <4>1, <1>0, EvidenceStays DEF HeldAreCurrent
    <3> QED
      BY <3>1, <3>2
  <2>2. ASSUME NEW v \in Keys(votes)'
        PROVE  EndorsedIn(consumed', active_epoch', v, votes'[v])
    <3>1. v \in Keys(votes)
      BY <1>0 DEF Keys
    <3> QED
      BY <3>1, <1>0, EvidenceStays DEF HeldAreCurrent
  <2> QED
    BY <2>1, <2>2 DEF HeldAreCurrent, MaySubmit
<1>4. SelectedWasSubmitted'
  BY <1>0, EvidenceStays DEF SelectedWasSubmitted, IsFinalized, MaySubmit
<1>5. NoIdleQuorum'
  BY DEF NoIdleQuorum, QuorumMissing, HoldProposal, Keys
<1> QED
  BY <1>1, <1>2, <1>3, <1>4, <1>5

\* The artifact an epoch selects was either held, so that HeldAreCurrent has
\* the evidence, or came with the event that finalizes.
LEMMA FinalizeKeepsInv ==
  ASSUME IInv, TypeOK', NEW e \in Events, FinalizeEpoch(e), calls' = calls + 1
  PROVE  IInv'
<1> USE DEF IInv
<1>0. /\ AcceptableProposal(e) /\ Fresh(e) /\ IsProposal(e) /\ e.epoch = active_epoch
      /\ MaySubmit(Proposer(e))
      /\ consumed' = [consumed EXCEPT ![e.id] = e]
  BY DEF FinalizeEpoch, ClearEpoch, AdvanceEpoch, AcceptableProposal, Fresh, Current
<1>1. Accounting' /\ ExactlyOnce'
  BY <1>0, ConsumeKeepsBooks DEF FinalizeEpoch, ClearEpoch, AdvanceEpoch
<1> DEFINE w == Winner(Submitted(e), votes)
           x == Submitted(e)[w]
<1>2. w \in Keys(Submitted(e)) /\ w \in Agents /\ x \in Artifacts /\ x # None
  BY <1>0, SelectionIsASubmission, AgentsAssumption
<1>3. active_epoch \in Epochs /\ active_epoch \in Nat
  BY <1>0, EventFields
<1>4. /\ selected'[active_epoch] = x
      /\ \A n \in Epochs \ {active_epoch} : selected'[n] = selected[n]
  BY <1>3 DEF FinalizeEpoch, ClearEpoch, AdvanceEpoch, TypeOK
<1>5. Keys(proposals)' = {} /\ Keys(votes)' = {}
  BY DEF FinalizeEpoch, ClearEpoch, AdvanceEpoch, Keys
<1>6. DecidedExactlyThePast'
  <2> SUFFICES ASSUME NEW n \in Epochs
               PROVE  IsFinalized(n)' <=> InitialEpoch <= n /\ n < active_epoch'
    BY DEF DecidedExactlyThePast
  <2>1. n \in Nat /\ InitialEpoch \in Nat /\ active_epoch' = active_epoch + 1
    BY EpochsAssumption DEF FinalizeEpoch, ClearEpoch, AdvanceEpoch
  <2>2. InitialEpoch <= active_epoch
    BY EpochsAssumption DEF Accounting, TypeOK, RuntimeCounters
  <2>3. CASE n = active_epoch
    BY <2>1, <2>2, <2>3, <1>2, <1>3, <1>4 DEF IsFinalized
  <2>4. CASE n # active_epoch
    BY <2>1, <2>4, <1>3, <1>4 DEF IsFinalized, DecidedExactlyThePast
  <2> QED
    BY <2>3, <2>4
<1>7. HeldAreCurrent' /\ NoIdleQuorum'
  BY <1>5 DEF HeldAreCurrent, NoIdleQuorum
<1>8. MaySubmit(w) /\ SubmittedIn(consumed', active_epoch, w, x)
  <2>1. CASE w = Proposer(e)
    <3>1. x = e.payload.artifact
      BY <2>1, <1>0, SubmittedFacts
    <3> HIDE DEF w, x
    <3> QED
      BY <2>1, <3>1, <1>0, EvidenceStays
  <2>2. CASE w # Proposer(e)
    <3>1. w \in Keys(proposals) /\ proposals[w] = x
      <4>1. x = proposals[w]
        BY <2>2, <1>0, <1>2, SubmittedFacts
      <4> HIDE DEF w, x
      <4> QED
        BY <4>1, <1>2 DEF Keys, TypeOK
    <3> HIDE DEF w, x
    <3> QED
      BY <3>1, <1>0, EvidenceStays DEF HeldAreCurrent
  <2> QED
    BY <2>1, <2>2
<1>9. SelectedWasSubmitted'
  <2> HIDE DEF w, x
  <2> SUFFICES ASSUME NEW n \in Epochs, selected'[n] # None
               PROVE  \E a \in Agents :
                        MaySubmit(a) /\ SubmittedIn(consumed', n, a, selected'[n])
    BY DEF SelectedWasSubmitted, IsFinalized, MaySubmit
  <2>1. CASE n = active_epoch
    BY <2>1, <1>2, <1>4, <1>8
  <2>2. CASE n # active_epoch
    <3>1. selected'[n] = selected[n]
      BY <2>2, <1>4
    <3> QED
      BY <3>1, <1>0, EvidenceStays DEF SelectedWasSubmitted, IsFinalized
  <2> QED
    BY <2>1, <2>2
<1> QED
  BY <1>1, <1>6, <1>7, <1>9

\* Endorsements, and events applied to no effect, leave the submissions and
\* the decided epochs alone.
LEMMA VoteKeepsInv ==
  ASSUME IInv, TypeOK', NEW e \in Events, AcceptVote(e) \/ ApplyNothing(e),
         calls' = calls + 1
  PROVE  IInv'
<1> USE DEF IInv
<1>0. /\ Fresh(e) /\ e.epoch = active_epoch
      /\ consumed' = [consumed EXCEPT ![e.id] = e]
      /\ UNCHANGED <<active_epoch, proposals, selected>>
      /\ Record(e) /\ Bump({"applied"})
  BY DEF AcceptVote, ApplyNothing, Fresh, Current
<1>1. Accounting' /\ ExactlyOnce'
  BY <1>0, ConsumeKeepsBooks
<1>2. DecidedExactlyThePast'
  BY <1>0 DEF DecidedExactlyThePast, IsFinalized
<1>3. HeldAreCurrent'
  <2>1. \A a \in Keys(proposals') :
          MaySubmit(a) /\ SubmittedIn(consumed', active_epoch', a, proposals'[a])
    BY <1>0, EvidenceStays DEF HeldAreCurrent
  <2>2. ASSUME NEW v \in Keys(votes')
        PROVE  EndorsedIn(consumed', active_epoch', v, votes'[v])
    <3>1. CASE v \in Keys(votes) /\ votes'[v] = votes[v]
      BY <3>1, <1>0, EvidenceStays DEF HeldAreCurrent
    <3>2. CASE AcceptVote(e) /\ v = Voter(e)
      <4>1. votes'[v] = e.payload.tool_name /\ e.payload.kind = "ToolResult"
        BY <3>2, VoterType DEF AcceptVote, TypeOK
      <4> QED
        BY <4>1, <3>2, <1>0, EvidenceStays
    <3> QED
      BY <3>1, <3>2, VoterType DEF AcceptVote, ApplyNothing, Keys, TypeOK
  <2> QED
    BY <2>1, <2>2 DEF HeldAreCurrent, MaySubmit
<1>4. SelectedWasSubmitted'
  BY <1>0, EvidenceStays DEF SelectedWasSubmitted, IsFinalized, MaySubmit
<1>5. NoIdleQuorum'
  BY <1>0 DEF NoIdleQuorum, QuorumMissing
<1> QED
  BY <1>1, <1>2, <1>3, <1>4, <1>5

LEMMA InvStep ==
  ASSUME IInv, NEW e \in Events, Apply(e)
  PROVE  IInv'
<1>0. TypeOK' /\ calls' = calls + 1
  BY TypeStep DEF IInv, Apply
<1>1. CASE RejectPattern(e)
  BY <1>0, <1>1, RefuseKeepsInv DEF RejectPattern
<1>2. CASE RejectFinalized(e)
  BY <1>0, <1>2, RefuseKeepsInv DEF RejectFinalized
<1>3. CASE RejectStale(e)
  BY <1>0, <1>3, RefuseKeepsInv DEF RejectStale
<1>4. CASE Defer(e)
  BY <1>0, <1>4, RefuseKeepsInv DEF Defer
<1>5. CASE RejectDuplicate(e)
  BY <1>0, <1>5, RefuseKeepsInv DEF RejectDuplicate
<1>6. CASE RejectProposal(e)
  BY <1>0, <1>6, RefuseKeepsInv DEF RejectProposal, Record
<1>7. CASE HoldProposal(e)
  BY <1>0, <1>7, HoldKeepsInv
<1>8. CASE FinalizeEpoch(e)
  BY <1>0, <1>8, FinalizeKeepsInv
<1>9. CASE AcceptVote(e) \/ ApplyNothing(e)
  BY <1>0, <1>9, VoteKeepsInv
<1> QED
  BY <1>1, <1>2, <1>3, <1>4, <1>5, <1>6, <1>7, <1>8, <1>9 DEF Apply

LEMMA InvStutter == IInv /\ UNCHANGED vars => IInv'
BY DEF vars, IInv, TypeOK, Accounting, ExactlyOnce, DecidedExactlyThePast,
       HeldAreCurrent, SelectedWasSubmitted, NoIdleQuorum, IsFinalized, Keys,
       MaySubmit, QuorumMissing

THEOREM Invariance == Spec => []IInv
<1>1. IInv /\ [Next]_vars => IInv'
  BY InvStutter, InvStep DEF Next
<1> QED
  BY <1>1, InvInit, PTL DEF Spec

\* Whatever stream of events the transport delivers, every call is accounted
\* for once and every event id takes effect at most once.
THEOREM BooksBalance == Spec => [](Accounting /\ ExactlyOnce)
BY Invariance, PTL DEF IInv

\* Exactly the epochs before the active one are decided, each for an artifact
\* that an entitled agent submitted in that epoch.
THEOREM DecisionsAreEarned ==
  Spec => [](DecidedExactlyThePast /\ SelectedWasSubmitted)
BY Invariance, PTL DEF IInv

\* No submission or endorsement leaks from one epoch into the next, and no
\* quorum waits for another event.
THEOREM EpochsAreSeparate == Spec => [](HeldAreCurrent /\ NoIdleQuorum)
BY Invariance, PTL DEF IInv

\* A decision, once it can be looked up, stands for ever, and the active epoch
\* advances by one exactly with a decision.
THEOREM DecisionsAreFinal == Spec => DecisionsStand
<1> DEFINE Stands ==
      /\ \A n \in Epochs : IsFinalized(n) => selected'[n] = selected[n]
      /\ active_epoch' \in {active_epoch, active_epoch + 1}
      /\ active_epoch' # active_epoch <=> outcome' = "Finalized" /\ calls' # calls
<1>1. ASSUME IInv, NEW e \in Events, Apply(e)
      PROVE  Stands
  <2>0. calls' # calls /\ active_epoch \in Nat
    BY <1>1 DEF Apply, IInv, TypeOK
  <2>1. ASSUME FinalizeEpoch(e) PROVE Stands
    <3>1. e.epoch = active_epoch /\ ~IsFinalized(active_epoch)
      BY <2>1 DEF FinalizeEpoch, ClearEpoch, AdvanceEpoch, AcceptableProposal, Fresh, Current
    <3>2. active_epoch' = active_epoch + 1 /\ outcome' = "Finalized"
      BY <2>1 DEF FinalizeEpoch, ClearEpoch, AdvanceEpoch
    <3>3. \A n \in Epochs : IsFinalized(n) => selected'[n] = selected[n]
      BY <2>1, <3>1, <1>1 DEF FinalizeEpoch, ClearEpoch, AdvanceEpoch, IsFinalized, IInv, TypeOK
    <3> QED
      BY <3>2, <3>3, <2>0
  <2>2. ASSUME ~FinalizeEpoch(e)
        PROVE  selected' = selected /\ active_epoch' = active_epoch
               /\ outcome' # "Finalized"
    BY <1>1, <2>2
    DEF Apply, RejectPattern, RejectFinalized, RejectStale, Defer,
        RejectDuplicate, RejectProposal, HoldProposal, AcceptVote,
        ApplyNothing, Refuse
  <2> QED
    BY <2>1, <2>2
<1>2. IInv /\ [Next]_vars => [Stands]_vars
  BY <1>1 DEF Next
<1> QED
  BY <1>2, Invariance, PTL DEF Spec, DecisionsStand

-----------------------------------------------------------------------------
(* Refinement *)

\* The engine implements the abstract rounds, for every quorum and stream of
\* events: refusals, endorsements and empty events are stutters, a held
\* submission is a Put, a finalizing one a Close.
THEOREM RefinesRounds == Spec => ImplementsRounds
<1>1. Init => Rounds!Init
  BY DEF Init, Rounds!Init, Rounds!EmptyTable
<1>2. ASSUME IInv, NEW e \in Events, Apply(e)
      PROVE  Rounds!Next \/ UNCHANGED Rounds!roundVars
  <2>1. ASSUME AcceptableProposal(e)
        PROVE  /\ active_epoch \in Epochs
               /\ Proposer(e) \in Agents
               /\ e.payload.artifact \in Artifacts
    BY <2>1, <1>2, EventFields, SubmittedFacts, ArtifactType
    DEF AcceptableProposal, Fresh, Current, IInv
  <2>2. CASE HoldProposal(e)
    <3>1. Rounds!Put(Proposer(e), e.payload.artifact)
      BY <2>2 DEF HoldProposal, Submitted, Rounds!Put
    <3> QED
      BY <2>1, <2>2, <3>1 DEF HoldProposal, Rounds!Next
  <2>3. CASE FinalizeEpoch(e)
    <3> DEFINE t == Submitted(e)
               w == Winner(t, votes)
    <3>1. AcceptableProposal(e)
      BY <2>3 DEF FinalizeEpoch
    <3>2. t[w] \in SubmittedArtifacts(t)
      BY <3>1, <1>2, SelectionIsASubmission DEF SubmittedArtifacts, IInv
    <3>3. t = [proposals EXCEPT ![Proposer(e)] = e.payload.artifact]
      BY DEF Submitted
    <3>4. /\ selected' = [selected EXCEPT ![active_epoch] = t[w]]
          /\ active_epoch' = active_epoch + 1
          /\ proposals' = Rounds!EmptyTable
      BY <2>3
      DEF FinalizeEpoch, ClearEpoch, AdvanceEpoch, Rounds!EmptyTable
    <3> HIDE DEF t, w
    <3>5. Rounds!Close(Proposer(e), e.payload.artifact)
      BY <3>2, <3>3, <3>4 DEF Rounds!Close
    <3> QED
      BY <2>1, <3>1, <3>5 DEF Rounds!Next
  <2>4. CASE ~HoldProposal(e) /\ ~FinalizeEpoch(e)
    BY <1>2, <2>4
    DEF Apply, RejectPattern, RejectFinalized, RejectStale, Defer,
        RejectDuplicate, RejectProposal, AcceptVote, ApplyNothing, Refuse,
        Rounds!roundVars
  <2> QED
    BY <2>2, <2>3, <2>4
<1>3. UNCHANGED vars => UNCHANGED Rounds!roundVars
  BY DEF vars, Rounds!roundVars
<1>4. IInv /\ [Next]_vars => [Rounds!Next]_(Rounds!roundVars)
  BY <1>2, <1>3 DEF Next
<1> QED
  BY <1>1, <1>4, Invariance, PTL DEF Spec, ImplementsRounds, Rounds!Spec

-----------------------------------------------------------------------------
(* The driver: a development run whose quorum is the whole crew *)

\* How many of the proposals of the round the engine has been handed, at most,
\* and how many agents have been asked for an endorsement.
HandedIn == CASE pc = "propose" -> 0 [] pc = "apply" -> turn - 1 [] OTHER -> Len(collected)
Asked == CASE pc \in {"propose", "apply"} -> 0 [] pc = "vote" -> turn - 1 [] OTHER -> Len(Crew)

Busy == {"propose", "apply", "vote", "decide"}

DriverKinds ==
  /\ pc \in Busy \cup {"finish", "done", "failed", "rejected"}
  /\ round \in Nat /\ round \in Epochs /\ (pc \in Busy => round < MaxRounds)
  /\ turn \in 1 .. Len(Crew) /\ (pc = "apply" => turn < Len(collected))
  /\ collected \in Seq(Range(Crew)) /\ Len(collected) <= Len(Crew)
  /\ (pc = "propose" => Len(collected) < turn)
  /\ (pc \in {"apply", "vote", "decide"} => collected # <<>>)
  /\ ballots \in [Agents -> Agents \cup {None}]

\* What the engine holds of the round while it works on it: the proposals that
\* were handed in, and every endorsement that was given, since no agent is
\* asked twice.  An engine that is ahead of the driver holds nothing.
RoundIsOwn ==
  /\ active_epoch = round =>
       /\ Keys(proposals) \subseteq {collected[i] : i \in 1 .. HandedIn}
       /\ \A a \in Keys(proposals) : proposals[a] = ArtifactOf(a, round)
       /\ IsInjective(Crew) => votes = ballots
  /\ active_epoch > round => Keys(proposals) = {} /\ votes = NoBallots

\* The endorsements the engine remembers.
VotesSeen ==
  \A a, n : <<"vote", a, n>> \in seen_events =>
    \/ n \in Nat /\ n < round
    \/ n = round /\ \E k \in 1 .. Asked : a = Crew[k]

IsWinner(x) ==
  \E i \in DOMAIN collected :
    /\ x = ArtifactOf(collected[i], round)
    /\ \A j \in DOMAIN collected : EndorsementsOf(collected[j]) <= EndorsementsOf(collected[i])

Verdict ==
  /\ selected[round] # None => pc \notin Busy /\ IsWinner(selected[round])
  /\ saved # None => pc = "done" /\ saved = selected[round]
  /\ \A n \in Epochs : n > round => selected[n] = None

\* The inductive invariant of the driver, next to the engine's.
DriverInv == IInv /\ DriverKinds /\ RoundIsOwn /\ VotesSeen /\ Verdict

WholeCrew == CrewAssumption /\ Quorum = Len(Crew)

\* A prefix of a sequence has at most as many elements as entries.
LEMMA PrefixBound ==
  ASSUME NEW S, NEW s \in Seq(S), NEW k \in 0 .. Len(s)
  PROVE  LET T == {s[i] : i \in 1 .. k} IN IsFiniteSet(T) /\ Cardinality(T) <= k
<1> DEFINE T == {s[i] : i \in 1 .. k}
           f == [i \in 1 .. k |-> s[i]]
<1>1. f \in Surjection(1 .. k, T)
  BY DEF Surjection
<1>2. IsFiniteSet(1 .. k) /\ Cardinality(1 .. k) = k
  BY FS_Interval
<1> HIDE DEF f, T
<1>3. IsFiniteSet(T) /\ Cardinality(T) <= Cardinality(1 .. k)
  BY <1>1, <1>2, FS_Surjection
<1> QED
  BY <1>2, <1>3 DEF T

\* A crew with a name twice has fewer participants than entries.
LEMMA CrewIsDistinct ==
  ASSUME WholeCrew, NEW K, K \subseteq Range(Crew), ~(Cardinality(K) < Quorum)
  PROVE  K = Range(Crew) /\ IsInjective(Crew)
<1> DEFINE n == Len(Crew)
<1>0. n \in Nat /\ DOMAIN Crew = 1 .. n /\ Crew \in [1 .. n -> Range(Crew)]
  BY DEF WholeCrew, CrewAssumption, Range
<1>1. Crew \in Surjection(1 .. n, Range(Crew))
  BY <1>0 DEF Surjection, Range
<1>2. IsFiniteSet(1 .. n) /\ Cardinality(1 .. n) = n
  BY <1>0, FS_Interval
<1>3. /\ IsFiniteSet(Range(Crew)) /\ Cardinality(Range(Crew)) <= n
      /\ Cardinality(Range(Crew)) = n <=> Crew \in Injection(1 .. n, Range(Crew))
  BY <1>1, <1>2, FS_Surjection
<1>4. /\ IsFiniteSet(K) /\ Cardinality(K) <= Cardinality(Range(Crew))
      /\ Cardinality(Range(Crew)) = Cardinality(K) => Range(Crew) = K
  BY <1>3, FS_Subset
<1>5. Cardinality(K) \in Nat /\ Cardinality(Range(Crew)) \in Nat
  BY <1>3, <1>4, FS_CardinalityType
<1>6. Cardinality(K) = n /\ Cardinality(Range(Crew)) = n
  BY <1>0, <1>3, <1>4, <1>5 DEF WholeCrew
<1> QED
  BY <1>0, <1>3, <1>4, <1>6 DEF Injection, IsInjective

\* What the engine makes of a proposal of the driver.
LEMMA ProposalOutcome ==
  ASSUME NEW a, NEW n, Apply(ProposalEvent(a, n))
  PROVE  /\ seen_events' \subseteq seen_events \cup {<<"prop", a, n>>}
         /\ \/ UNCHANGED <<active_epoch, proposals, votes, selected>>
            \/ /\ n = active_epoch /\ UNCHANGED <<active_epoch, votes, selected>>
               /\ proposals' = [proposals EXCEPT ![a] = ArtifactOf(a, n)]
            \/ n = active_epoch /\ FinalizeEpoch(ProposalEvent(a, n))
<1> DEFINE e == ProposalEvent(a, n)
<1>1. e.id = <<"prop", a, n>> /\ e.epoch = n /\ IsProposal(e) /\ Proposer(e) = a
      /\ e.payload.artifact = ArtifactOf(a, n) /\ e.payload.kind = "ExternalBytes"
  BY DEF ProposalEvent, IsProposal, Proposer
<1> HIDE DEF e
<1>2. CASE HoldProposal(e)
  BY <1>1, <1>2 DEF HoldProposal, Record, Submitted, AcceptableProposal, Fresh, Current
<1>3. CASE FinalizeEpoch(e)
  BY <1>1, <1>3 DEF FinalizeEpoch, Record, AcceptableProposal, Fresh, Current, e
<1>4. CASE ~HoldProposal(e) /\ ~FinalizeEpoch(e)
  BY <1>1, <1>4 DEF Apply, e, RejectPattern, RejectFinalized, RejectStale, Defer, RejectDuplicate,
                    RejectProposal, AcceptVote, ApplyNothing, Refuse, Record
<1> QED
  BY <1>2, <1>3, <1>4

\* What it makes of an endorsement.
LEMMA VoteOutcome ==
  ASSUME IInv, NEW a \in Agents, NEW b \in Agents, NEW n \in Epochs, NEW v \in BOOLEAN,
         Apply(VoteEvent(a, b, n, v))
  PROVE  /\ UNCHANGED <<active_epoch, proposals, selected>>
         /\ seen_events' \subseteq seen_events \cup {<<"vote", a, n>>}
         /\ n # active_epoch => UNCHANGED votes
         /\ n = active_epoch /\ <<"vote", a, n>> \notin seen_events =>
              votes' = IF v THEN [votes EXCEPT ![a] = b] ELSE votes
<1> DEFINE e == VoteEvent(a, b, n, v)
<1>1. /\ e.id = <<"vote", a, n>> /\ e.epoch = n /\ ~IsProposal(e) /\ Voter(e) = a
      /\ e.payload.kind = "ToolResult" /\ e.payload.tool_name = b /\ e.pattern = "Development"
  BY DEF VoteEvent, IsProposal, Voter
<1>2. e.payload.accepted = v
  BY DEF VoteEvent
<1>3. Apply(e)
  OBVIOUS
<1> HIDE DEF e
<1>4. n = active_epoch => ~IsFinalized(n) /\ ~(n < active_epoch) /\ ~(n > active_epoch)
  BY DEF IInv, DecidedExactlyThePast, TypeOK
<1>5. CASE AcceptVote(e)
  BY <1>1, <1>2, <1>5 DEF AcceptVote, Record, Fresh, Current
<1>6. CASE ApplyNothing(e)
  BY <1>1, <1>2, <1>6 DEF ApplyNothing, Record, Fresh, Current
<1>7. CASE ~AcceptVote(e) /\ ~ApplyNothing(e)
  <2>1. RejectFinalized(e) \/ RejectStale(e) \/ Defer(e) \/ RejectDuplicate(e)
    BY <1>1, <1>3, <1>7 DEF Apply, RejectPattern, RejectProposal, HoldProposal, FinalizeEpoch,
                            AcceptableProposal
  <2> QED
    BY <1>1, <1>4, <2>1 DEF RejectFinalized, RejectStale, Defer, RejectDuplicate, Refuse
<1> QED
  BY <1>5, <1>6, <1>7

\* Nothing is collected and nothing decided when run() enters its loop.
LEMMA DriverInit == ASSUME WholeCrew, CoordInit PROVE DriverInv
<1>1. IInv
  BY InvInit DEF CoordInit
<1>2. Keys(proposals) = {} /\ seen_events = {} /\ votes = NoBallots /\ selected[0] = None
  BY DEF CoordInit, Init, Keys, NoBallots, WholeCrew, CrewAssumption
<1>3. Len(Crew) \in Nat \ {0}
  BY DEF WholeCrew, CrewAssumption
<1>4. DriverKinds
  BY <1>3, QuorumAssumption DEF CoordInit, DriverKinds, Busy, NoBallots, WholeCrew, CrewAssumption
<1>5. RoundIsOwn /\ VotesSeen /\ Verdict
  BY <1>2 DEF CoordInit, Init, RoundIsOwn, VotesSeen, Verdict
<1> QED
  BY <1>1, <1>4, <1>5 DEF DriverInv

\* Between the driver's calls of apply the engine is left alone; the proposals
\* that came in and the place in the loop change.
LEMMA QuietStep ==
  ASSUME WholeCrew, DriverInv, UNCHANGED <<vars, round, saved, ballots>>, DriverKinds',
         pc \in Busy,
         pc = "propose" \/ UNCHANGED collected,
         \/ pc = "propose" /\ pc' \in {"propose", "apply", "vote", "failed"}
         \/ pc = "vote" /\ pc' \in {"vote", "decide"},
         pc = "vote" => Asked <= Asked'
  PROVE  DriverInv'
<1>0. UNCHANGED <<active_epoch, seen_events, proposals, votes, selected>>
  BY DEF vars
<1>1. IInv'
  BY InvStutter DEF DriverInv
<1>2. RoundIsOwn'
  <2>1. CASE pc = "propose"
    <3>1. active_epoch = round => Keys(proposals) = {}
      BY <2>1 DEF DriverInv, RoundIsOwn, HandedIn
    <3> QED
      BY <1>0, <3>1 DEF DriverInv, RoundIsOwn, Keys
  <2>2. CASE pc = "vote"
    <3>1. HandedIn = Len(collected) /\ HandedIn' = Len(collected)
      BY <2>2 DEF HandedIn, Busy
    <3> QED
      BY <1>0, <2>2, <3>1 DEF DriverInv, RoundIsOwn, Keys, Busy
  <2> QED
    BY <2>1, <2>2
<1>3. VotesSeen'
  <2>1. Asked \in Int /\ Asked' \in Int /\ Asked <= Asked'
    BY DEF DriverInv, DriverKinds, Asked, WholeCrew, CrewAssumption, Busy
  <2> QED
    BY <1>0, <2>1 DEF DriverInv, VotesSeen
<1>4. Verdict'
  BY <1>0 DEF DriverInv, Verdict, Busy
<1> QED
  BY <1>1, <1>2, <1>3, <1>4 DEF DriverInv

\* The agents of the crew.
LEMMA CrewFacts ==
  ASSUME WholeCrew
  PROVE  /\ Len(Crew) \in Nat \ {0} /\ DOMAIN Crew = 1 .. Len(Crew)
         /\ \A i \in 1 .. Len(Crew) : Crew[i] \in Range(Crew) /\ Crew[i] \in Agents
         /\ Range(Crew) \subseteq Agents
  BY DEF WholeCrew, CrewAssumption, Range

\* One more agent was asked for a proposal.
LEMMA ProposeInv == ASSUME WholeCrew, DriverInv, Propose \/ ProposeFails PROVE DriverInv'
<1>0. /\ pc = "propose" /\ UNCHANGED <<vars, round, saved, ballots>> /\ AfterProposal(collected')
      /\ collected' = Append(collected, Crew[turn]) \/ collected' = collected
  BY DEF Propose, ProposeFails
<1>1. /\ turn \in 1 .. Len(Crew) /\ Len(Crew) \in Nat /\ Crew[turn] \in Range(Crew)
      /\ collected \in Seq(Range(Crew)) /\ Len(collected) < turn
  BY <1>0, CrewFacts DEF DriverInv, DriverKinds
<1>2. /\ collected' \in Seq(Range(Crew)) /\ Len(collected') <= turn
  BY <1>0, <1>1
<1>3. DriverKinds' /\ pc' \in {"propose", "apply", "vote", "failed"}
  <2>1. CASE turn < Len(Crew)
    BY <1>0, <1>1, <1>2, <2>1 DEF AfterProposal, DriverInv, DriverKinds, Busy
  <2>2. CASE ~(turn < Len(Crew))
    <3>1. /\ turn' = 1 /\ pc' \in {"apply", "vote", "failed"}
          /\ pc' = "apply" => 1 < Len(collected')
          /\ pc' \in {"apply", "vote"} => collected' # <<>>
      <4>1. ProposalsIn(collected')
        BY <1>0, <2>2 DEF AfterProposal
      <4>2. Len(collected') \in Nat /\ (collected' # <<>> => Len(collected') # 0)
        BY <1>2
      <4>3. pc' = CASE collected' = <<>> -> "failed" [] Len(collected') = 1 -> "vote" [] OTHER -> "apply"
        BY <4>1 DEF ProposalsIn
      <4>4. CASE collected' = <<>>
        <5>1. Len(collected') # 1
          BY <4>4
        <5> QED
          BY <4>1, <4>3, <4>4, <5>1 DEF ProposalsIn
      <4>5. CASE collected' # <<>> /\ Len(collected') = 1
        BY <4>1, <4>3, <4>5 DEF ProposalsIn
      <4>6. CASE collected' # <<>> /\ Len(collected') # 1
        BY <4>1, <4>2, <4>3, <4>6 DEF ProposalsIn
      <4> QED
        BY <4>4, <4>5, <4>6
    <3> QED
      BY <1>0, <1>1, <1>2, <2>2, <3>1 DEF DriverInv, DriverKinds, Busy
  <2> QED
    BY <2>1, <2>2
<1> QED
  BY <1>0, <1>3, QuietStep DEF Busy

\* An agent that gives no endorsement is passed over.
LEMMA VoteFailsInv == ASSUME WholeCrew, DriverInv, VoteFails PROVE DriverInv'
<1>1. /\ pc = "vote" /\ UNCHANGED <<vars, round, collected, saved, ballots>> /\ NextVoter
  BY DEF VoteFails
<1>2. DriverKinds' /\ pc' \in {"vote", "decide"} /\ Asked <= Asked'
  BY <1>1, CrewFacts DEF DriverInv, DriverKinds, Busy, NextVoter, Asked
<1> QED
  BY <1>1, <1>2, QuietStep DEF Busy

\* finish() reports what the round selected.
LEMMA FinishInv ==
  ASSUME WholeCrew, DriverInv, FinishEmpty \/ FinishWith \/ OperatorRejects \/ Stopped PROVE DriverInv'
<1>1. /\ UNCHANGED <<vars, round, turn, collected, ballots>>
      /\ pc \notin Busy /\ pc' \in {"done", "rejected", "failed"}
      /\ \/ saved' = saved /\ (pc # "finish" => pc' = pc)
         \/ pc' = "done" /\ saved' = selected[round]
  BY DEF FinishEmpty, FinishWith, OperatorRejects, Stopped, Ended, driverVars, Busy
<1>2. UNCHANGED <<active_epoch, seen_events, proposals, votes, selected>>
  BY <1>1 DEF vars
<1>3. IInv'
  BY <1>1, InvStutter DEF DriverInv
<1>4. DriverKinds'
  BY <1>1 DEF DriverInv, DriverKinds, Busy
<1>5. HandedIn' = HandedIn /\ Asked' = Asked
  BY <1>1 DEF HandedIn, Asked, Busy
<1>6. RoundIsOwn'
  BY <1>1, <1>2, <1>5 DEF DriverInv, RoundIsOwn, Keys
<1>7. VotesSeen'
  BY <1>1, <1>2, <1>5 DEF DriverInv, VotesSeen
<1>8. Verdict'
  <2>1. selected[round] # None => IsWinner(selected[round])'
    BY <1>1, <1>2 DEF DriverInv, Verdict, IsWinner, EndorsementsOf
  <2> QED
    BY <1>1, <1>2, <2>1 DEF DriverInv, Verdict, Busy
<1> QED
  BY <1>3, <1>4, <1>6, <1>7, <1>8 DEF DriverInv

\* An endorsement is filed by the engine as it was given: the id is new.
LEMMA VoteInv == ASSUME WholeCrew, DriverInv, NEW b \in Agents, Vote(b) PROVE DriverInv'
<1> DEFINE a == Crew[turn]
           v == IsCandidate(b)
<1>0. /\ pc = "vote" /\ Apply(VoteEvent(a, b, round, v)) /\ NextVoter
      /\ ballots' = [ballots EXCEPT ![a] = IF v THEN b ELSE @]
      /\ UNCHANGED <<round, collected, saved>>
  BY DEF Vote
<1>1. /\ turn \in 1 .. Len(Crew) /\ Len(Crew) \in Nat /\ a \in Agents /\ a \in Range(Crew)
      /\ round \in Epochs /\ round \in 0 .. MaxRounds - 1 /\ v \in BOOLEAN
  BY <1>0, CrewFacts, QuorumAssumption DEF DriverInv, DriverKinds, Busy, IsCandidate
<1>2. VoteEvent(a, b, round, v) \in Events
  BY <1>1 DEF WholeCrew, CrewAssumption
<1>3. IInv'
  BY <1>0, <1>2, InvStep DEF DriverInv
<1>4. /\ UNCHANGED <<active_epoch, proposals, selected>>
      /\ seen_events' \subseteq seen_events \cup {<<"vote", a, round>>}
      /\ round # active_epoch => UNCHANGED votes
      /\ round = active_epoch /\ <<"vote", a, round>> \notin seen_events =>
           votes' = IF v THEN [votes EXCEPT ![a] = b] ELSE votes
  BY <1>0, <1>1, VoteOutcome DEF DriverInv
<1>5. DriverKinds'
  BY <1>0, <1>1 DEF DriverInv, DriverKinds, Busy, NextVoter
<1>6. Asked = turn - 1 /\ Asked' = turn /\ HandedIn = Len(collected) /\ HandedIn' = Len(collected)
  BY <1>0, <1>1 DEF Asked, HandedIn, NextVoter, Busy
<1>7. IsInjective(Crew) => <<"vote", a, round>> \notin seen_events
  <2> SUFFICES ASSUME IsInjective(Crew), <<"vote", a, round>> \in seen_events PROVE FALSE
    OBVIOUS
  <2>1. \E k \in 1 .. turn - 1 : a = Crew[k]
    BY <1>1, <1>6 DEF DriverInv, VotesSeen, DriverKinds
  <2> QED
    BY <1>1, <2>1, CrewFacts DEF IsInjective
<1>8. RoundIsOwn'
  <2>1. ASSUME active_epoch = round, IsInjective(Crew) PROVE votes' = ballots'
    <3>1. votes = ballots /\ votes' = IF v THEN [votes EXCEPT ![a] = b] ELSE votes
      BY <1>4, <1>7, <2>1 DEF DriverInv, RoundIsOwn
    <3>2. ballots \in [Agents -> Agents \cup {None}]
      BY DEF DriverInv, DriverKinds
    <3> HIDE DEF v, a
    <3> QED
      BY <1>0, <1>1, <3>1, <3>2
  <2>2. active_epoch > round => votes' = votes
    BY <1>4 DEF DriverInv, DriverKinds, IInv, TypeOK
  <2> QED
    BY <1>0, <1>4, <1>6, <2>1, <2>2 DEF DriverInv, RoundIsOwn, Keys
<1>9. VotesSeen'
  <2> SUFFICES ASSUME NEW x, NEW n, <<"vote", x, n>> \in seen_events'
               PROVE  \/ n \in Nat /\ n < round
                      \/ n = round /\ \E k \in 1 .. turn : x = Crew[k]
    BY <1>0, <1>6 DEF VotesSeen
  <2>1. CASE <<"vote", x, n>> \in seen_events
    BY <1>1, <1>6, <2>1 DEF DriverInv, VotesSeen
  <2>2. CASE x = a /\ n = round
    BY <1>1, <2>2
  <2> QED
    BY <1>4, <2>1, <2>2
<1>10. Verdict'
  BY <1>0, <1>4 DEF DriverInv, Verdict, Busy
<1> QED
  BY <1>3, <1>5, <1>8, <1>9, <1>10 DEF DriverInv

\* A proposal that finalizes nothing joins the others at most.
LEMMA HandIn ==
  ASSUME WholeCrew, DriverInv, pc \in {"apply", "decide"}, NEW i \in 1 .. Len(collected),
         Apply(ProposalEvent(collected[i], round)), ~FinalizeEpoch(ProposalEvent(collected[i], round))
  PROVE  /\ UNCHANGED <<active_epoch, votes, selected>>
         /\ \A x, n : <<"vote", x, n>> \in seen_events' => <<"vote", x, n>> \in seen_events
         /\ active_epoch > round => Keys(proposals') = {}
         /\ active_epoch = round =>
              /\ Keys(proposals') \subseteq Keys(proposals) \cup {collected[i]}
              /\ \A a \in Keys(proposals') : proposals'[a] = ArtifactOf(a, round)
<1> DEFINE a == collected[i]
<1>1. a \in Agents /\ round \in Nat /\ active_epoch \in Nat
  BY CrewFacts DEF DriverInv, DriverKinds, IInv, TypeOK
<1>2. /\ seen_events' \subseteq seen_events \cup {<<"prop", a, round>>}
      /\ \/ UNCHANGED <<active_epoch, proposals, votes, selected>>
         \/ /\ round = active_epoch /\ UNCHANGED <<active_epoch, votes, selected>>
            /\ proposals' = [proposals EXCEPT ![a] = ArtifactOf(a, round)]
  BY ProposalOutcome
<1>3. \A x, n : <<"vote", x, n>> \in seen_events' => <<"vote", x, n>> \in seen_events
  BY <1>2
<1>4. CASE UNCHANGED <<active_epoch, proposals, votes, selected>>
  BY <1>3, <1>4 DEF DriverInv, RoundIsOwn
<1>5. CASE /\ round = active_epoch /\ UNCHANGED <<active_epoch, votes, selected>>
           /\ proposals' = [proposals EXCEPT ![a] = ArtifactOf(a, round)]
  <2>1. proposals \in [Agents -> Artifacts \cup {None}]
    BY DEF DriverInv, IInv, TypeOK
  <2> HIDE DEF a
  <2>2. /\ Keys(proposals') \subseteq Keys(proposals) \cup {a}
        /\ \A x \in Keys(proposals') : proposals'[x] = ArtifactOf(x, round)
    BY <1>1, <1>5, <2>1 DEF DriverInv, RoundIsOwn, Keys
  <2>3. ~(active_epoch > round)
    BY <1>1, <1>5
  <2> QED
    BY <1>3, <1>5, <2>2, <2>3 DEF a
<1> QED
  BY <1>2, <1>4, <1>5

\* What a proposal would leave on the table of the round.
LEMMA TableOf ==
  ASSUME WholeCrew, DriverInv, pc \in {"apply", "decide"}, NEW i \in 1 .. Len(collected),
         FinalizeEpoch(ProposalEvent(collected[i], round))
  PROVE  LET e == ProposalEvent(collected[i], round) IN
         /\ active_epoch = round /\ e \in Events /\ AcceptableProposal(e)
         /\ Keys(Submitted(e)) \subseteq Keys(proposals) \cup {collected[i]}
         /\ \A a \in Keys(Submitted(e)) : Submitted(e)[a] = ArtifactOf(a, round)
<1> DEFINE a == collected[i]
           e == ProposalEvent(a, round)
<1>1. a \in Agents /\ a \in Range(Crew) /\ round \in 0 .. MaxRounds - 1
  BY CrewFacts, QuorumAssumption DEF DriverInv, DriverKinds, Busy
<1>2. e \in Events
  BY <1>1 DEF WholeCrew, CrewAssumption
<1>3. e.epoch = round /\ Proposer(e) = a /\ e.payload.artifact = ArtifactOf(a, round)
  BY DEF ProposalEvent, Proposer
<1>4. AcceptableProposal(e) /\ e.epoch = active_epoch
  BY DEF FinalizeEpoch, AcceptableProposal, Fresh, Current
<1>5. Submitted(e) = [proposals EXCEPT ![a] = ArtifactOf(a, round)]
  BY <1>3 DEF Submitted
<1>6. proposals \in [Agents -> Artifacts \cup {None}]
  BY DEF DriverInv, IInv, TypeOK
<1> HIDE DEF a, e
<1>7. /\ Keys(Submitted(e)) \subseteq Keys(proposals) \cup {a}
      /\ \A x \in Keys(Submitted(e)) : Submitted(e)[x] = ArtifactOf(x, round)
  BY <1>1, <1>3, <1>4, <1>5, <1>6 DEF DriverInv, RoundIsOwn, Keys
<1> QED
  BY <1>2, <1>3, <1>4, <1>7 DEF a, e

\* The proposals before the last one are too few for a quorum of the whole crew.
LEMMA ApplyEarlyInv == ASSUME WholeCrew, DriverInv, ApplyEarly PROVE DriverInv'
<1> DEFINE e == ProposalEvent(collected[turn], round)
<1>0. /\ pc = "apply" /\ Apply(e) /\ UNCHANGED <<round, collected, saved, ballots>>
      /\ \/ turn + 1 < Len(collected) /\ turn' = turn + 1 /\ pc' = "apply"
         \/ turn' = 1 /\ pc' = "vote"
  BY DEF ApplyEarly
<1>1. /\ turn \in 1 .. Len(collected) /\ turn < Len(collected) /\ Len(collected) \in Nat
      /\ Len(Crew) \in Nat /\ Len(collected) <= Len(Crew) /\ turn \in Nat
      /\ round \in 0 .. MaxRounds - 1 /\ collected[turn] \in Range(Crew) /\ collected \in Seq(Range(Crew))
  BY <1>0, CrewFacts, QuorumAssumption DEF DriverInv, DriverKinds, Busy
<1>2. e \in Events
  BY <1>1 DEF WholeCrew, CrewAssumption
<1>3. HandedIn = turn - 1
  BY <1>0 DEF HandedIn
<1>4. ~FinalizeEpoch(e)
  <2> SUFFICES ASSUME FinalizeEpoch(e) PROVE FALSE
    OBVIOUS
  <2> DEFINE T == {collected[i] : i \in 1 .. turn}
             K == Keys(Submitted(e))
  <2>1. K \subseteq Keys(proposals) \cup {collected[turn]} /\ active_epoch = round
    BY <1>0, <1>1, TableOf
  <2>2. Keys(proposals) \subseteq {collected[i] : i \in 1 .. turn - 1}
    BY <1>3, <2>1 DEF DriverInv, RoundIsOwn
  <2>3. K \in SUBSET T
    BY <1>1, <2>1, <2>2
  <2>4. IsFiniteSet(T) /\ Cardinality(T) <= turn
    BY <1>1, PrefixBound
  <2>5. ~(Cardinality(K) < Quorum) /\ Quorum = Len(Crew)
    BY DEF FinalizeEpoch, QuorumMissing, WholeCrew
  <2> HIDE DEF T, K, e
  <2>6. IsFiniteSet(K) /\ Cardinality(K) <= Cardinality(T)
    BY <2>3, <2>4, FS_Subset
  <2>7. Cardinality(K) \in Nat /\ Cardinality(T) \in Nat
    BY <2>4, <2>6, FS_CardinalityType
  <2> QED
    BY <1>1, <2>4, <2>5, <2>6, <2>7
<1>5. /\ UNCHANGED <<active_epoch, votes, selected>>
      /\ \A x, n : <<"vote", x, n>> \in seen_events' => <<"vote", x, n>> \in seen_events
      /\ active_epoch > round => Keys(proposals') = {}
      /\ active_epoch = round =>
           /\ Keys(proposals') \subseteq Keys(proposals) \cup {collected[turn]}
           /\ \A a \in Keys(proposals') : proposals'[a] = ArtifactOf(a, round)
  BY <1>0, <1>1, <1>4, HandIn
<1>6. IInv'
  BY <1>0, <1>2, InvStep DEF DriverInv
<1>7. DriverKinds'
  BY <1>0, <1>1 DEF DriverInv, DriverKinds, Busy
<1>8. RoundIsOwn'
  <2>1. HandedIn' \in Nat /\ turn <= HandedIn'
    BY <1>0, <1>1 DEF HandedIn
  <2>2. active_epoch = round => Keys(proposals') \subseteq {collected[i] : i \in 1 .. HandedIn'}
    BY <1>1, <1>3, <1>5, <2>1 DEF DriverInv, RoundIsOwn
  <2>3. (active_epoch = round => (IsInjective(Crew) => votes' = ballots')) /\ (active_epoch > round => votes' = NoBallots)
    BY <1>0, <1>5 DEF DriverInv, RoundIsOwn
  <2> HIDE DEF HandedIn
  <2> QED
    BY <1>0, <1>5, <2>2, <2>3 DEF RoundIsOwn, Keys
<1>9. VotesSeen'
  <2>1. Asked = 0 /\ Asked' = 0
    BY <1>0 DEF Asked
  <2> QED
    BY <1>0, <1>5, <2>1 DEF DriverInv, VotesSeen
<1>10. Verdict'
  BY <1>0, <1>5 DEF DriverInv, Verdict, Busy
<1> QED
  BY <1>6, <1>7, <1>8, <1>9, <1>10 DEF DriverInv

\* The last proposal decides on all the endorsements of the round.
LEMMA DecideInv ==
  ASSUME WholeCrew, DriverInv, ApplyLast, FinalizeEpoch(ProposalEvent(Last(collected), round))
  PROVE  DriverInv'
<1> DEFINE k == Len(collected)
           e == ProposalEvent(collected[k], round)
           t == Submitted(e)
           w == Winner(t, votes)
<1>0. /\ pc = "decide" /\ Apply(e) /\ FinalizeEpoch(e) /\ turn' = 1 /\ saved' = saved
  BY DEF ApplyLast, Last
<1>1. /\ k \in Nat \ {0} /\ k \in 1 .. Len(collected) /\ DOMAIN collected = 1 .. k
      /\ collected \in Seq(Range(Crew)) /\ round \in Nat /\ round \in Epochs
  BY <1>0, CrewFacts DEF DriverInv, DriverKinds
<1>2. /\ active_epoch = round /\ e \in Events /\ AcceptableProposal(e)
      /\ Keys(t) \subseteq Keys(proposals) \cup {collected[k]}
      /\ \A a \in Keys(t) : t[a] = ArtifactOf(a, round)
  BY <1>0, <1>1, TableOf
<1>3. HandedIn = k /\ Asked = Len(Crew)
  BY <1>0 DEF HandedIn, Asked
<1>4. Keys(t) \subseteq {collected[i] : i \in 1 .. k} /\ Keys(t) \subseteq Range(Crew)
  BY <1>1, <1>2, <1>3 DEF DriverInv, RoundIsOwn
<1>5. Keys(t) = Range(Crew) /\ IsInjective(Crew)
  <2>1. ~(Cardinality(Keys(t)) < Quorum)
    BY <1>0 DEF FinalizeEpoch, QuorumMissing
  <2> HIDE DEF t
  <2> QED
    BY <1>4, <2>1, CrewIsDistinct
<1>6. votes = ballots
  BY <1>2, <1>5 DEF DriverInv, RoundIsOwn
<1>7. /\ w \in Keys(t) /\ \A b \in Keys(t) : Beats(w, b, votes)
  <2>1. t \in [Agents -> Artifacts \cup {None}] /\ Keys(t) # {}
    BY <1>2, SubmittedFacts DEF DriverInv, IInv
  <2> HIDE DEF t
  <2> QED
    BY <2>1, WinnerExists
<1>8. IInv'
  BY <1>0, <1>2, InvStep DEF DriverInv
<1>9. /\ selected' = [selected EXCEPT ![round] = t[w]] /\ active_epoch' = round + 1
      /\ proposals' = [a \in Agents |-> None] /\ votes' = NoBallots
      /\ seen_events' = seen_events \cup {<<"prop", collected[k], round>>}
  <2>1. e.id = <<"prop", collected[k], round>>
    BY DEF ProposalEvent
  <2> HIDE DEF e
  <2> QED
    BY <1>0, <1>2, <2>1 DEF FinalizeEpoch, ClearEpoch, AdvanceEpoch, Record, NoBallots, t, w
<1>10. t[w] = ArtifactOf(w, round) /\ t[w] # None
  BY <1>2, <1>7 DEF Keys
<1>11. selected'[round] = ArtifactOf(w, round) /\ selected'[round] # None
       /\ \A n \in Epochs : n # round => selected'[n] = selected[n]
  <2> HIDE DEF t, w
  <2> QED
    BY <1>1, <1>9, <1>10 DEF DriverInv, IInv, TypeOK
<1>12. pc' = "finish" /\ UNCHANGED <<round, collected, ballots>>
  BY <1>11 DEF ApplyLast
<1> HIDE DEF e, t, w
<1>13. DriverKinds'
  BY <1>0, <1>12, CrewFacts DEF DriverInv, DriverKinds, Busy
<1>14. RoundIsOwn'
  <2>1. Keys(proposals') = {}
    BY <1>9 DEF Keys
  <2> QED
    BY <1>1, <1>9, <1>12, <2>1 DEF RoundIsOwn
<1>15. VotesSeen'
  <2>1. Asked' = Len(Crew)
    BY <1>12 DEF Asked
  <2>2. \A x, n : <<"vote", x, n>> \in seen_events' => <<"vote", x, n>> \in seen_events
    BY <1>9
  <2> QED
    BY <1>3, <1>12, <2>1, <2>2 DEF DriverInv, VotesSeen
<1>16. IsWinner(selected'[round])
  <2>1. PICK i \in 1 .. k : w = collected[i]
    BY <1>4, <1>7
  <2>2. ASSUME NEW j \in 1 .. k PROVE EndorsementsOf(collected[j]) <= EndorsementsOf(w)
    <3>1. collected[j] \in Keys(t)
      BY <1>1, <1>5, <2>2
    <3>2. /\ EndorsementsOf(collected[j]) = VotesFor(collected[j], votes)
          /\ EndorsementsOf(w) = VotesFor(w, votes)
      BY <1>6 DEF EndorsementsOf, VotesFor
    <3>3. VotesFor(collected[j], votes) \in Nat /\ VotesFor(w, votes) \in Nat
      BY TallyBounded
    <3> QED
      BY <1>7, <3>1, <3>2, <3>3 DEF Beats
  <2> QED
    BY <1>1, <1>11, <2>1, <2>2 DEF IsWinner
<1>17. Verdict'
  <2>1. PICK x : x = selected'[round]
    OBVIOUS
  <2>2. IsWinner(x)'
    BY <1>12, <1>16, <2>1 DEF IsWinner, EndorsementsOf
  <2>3. saved' = None
    BY <1>0 DEF DriverInv, Verdict
  <2>4. ASSUME NEW n \in Epochs, n > round PROVE selected'[n] = None
    <3>1. n # round
      BY <1>1, <2>4
    <3> QED
      BY <1>11, <2>4, <3>1 DEF DriverInv, Verdict
  <2>5. selected'[round'] # None => pc' \notin Busy /\ IsWinner(selected[round])'
    BY <1>12, <2>1, <2>2 DEF Busy, IsWinner
  <2> QED
    BY <1>12, <2>3, <2>4, <2>5 DEF Verdict
<1> QED
  BY <1>8, <1>13, <1>14, <1>15, <1>17 DEF DriverInv

\* The last proposal decides nothing: the run ends, or the next round begins.
LEMMA UndecidedInv ==
  ASSUME WholeCrew, DriverInv, ApplyLast, ~FinalizeEpoch(ProposalEvent(Last(collected), round))
  PROVE  DriverInv'
<1> DEFINE k == Len(collected)
           e == ProposalEvent(collected[k], round)
<1>0. /\ pc = "decide" /\ Apply(e) /\ ~FinalizeEpoch(e) /\ turn' = 1 /\ saved' = saved
  BY DEF ApplyLast, Last
<1>1. /\ k \in Nat \ {0} /\ k \in 1 .. Len(collected) /\ collected[k] \in Range(Crew)
      /\ collected \in Seq(Range(Crew)) /\ round \in 0 .. MaxRounds - 1 /\ round \in Epochs
  BY <1>0, CrewFacts, QuorumAssumption DEF DriverInv, DriverKinds, Busy
<1>2. e \in Events
  BY <1>1 DEF WholeCrew, CrewAssumption
<1>3. /\ UNCHANGED <<active_epoch, votes, selected>>
      /\ \A x, n : <<"vote", x, n>> \in seen_events' => <<"vote", x, n>> \in seen_events
      /\ active_epoch > round => Keys(proposals') = {}
      /\ active_epoch = round =>
           /\ Keys(proposals') \subseteq Keys(proposals) \cup {collected[k]}
           /\ \A a \in Keys(proposals') : proposals'[a] = ArtifactOf(a, round)
  BY <1>0, <1>1, HandIn
<1>4. IInv'
  BY <1>0, <1>2, InvStep DEF DriverInv
<1>5. HandedIn = k /\ Asked = Len(Crew) /\ selected[round] = None /\ saved = None
  BY <1>0 DEF HandedIn, Asked, DriverInv, Verdict, Busy
<1>6. active_epoch \in Nat /\ round \in Nat /\ round + 1 \in Nat
  BY <1>1 DEF DriverInv, IInv, TypeOK
<1> HIDE DEF e
<1>7. CASE pc' = "finish" /\ UNCHANGED <<round, collected, ballots>>
  <2>1. DriverKinds'
    BY <1>0, <1>7, CrewFacts DEF DriverInv, DriverKinds, Busy
  <2>2. HandedIn' = k /\ Asked' = Len(Crew)
    BY <1>7 DEF HandedIn, Asked
  <2>3. RoundIsOwn'
    <3>1. active_epoch = round => Keys(proposals') \subseteq {collected[i] : i \in 1 .. k}
      BY <1>1, <1>3, <1>5 DEF DriverInv, RoundIsOwn
    <3>2. (active_epoch = round => (IsInjective(Crew) => votes' = ballots')) /\ (active_epoch > round => votes' = NoBallots)
      BY <1>3, <1>7 DEF DriverInv, RoundIsOwn
    <3> HIDE DEF k
    <3> QED
      BY <1>3, <1>7, <2>2, <3>1, <3>2 DEF RoundIsOwn, Keys
  <2>4. VotesSeen'
    BY <1>3, <1>5, <1>7, <2>2 DEF DriverInv, VotesSeen
  <2>5. Verdict'
    BY <1>0, <1>3, <1>5, <1>7 DEF DriverInv, Verdict
  <2> QED
    BY <1>4, <2>1, <2>3, <2>4, <2>5 DEF DriverInv
<1>8. CASE MoreRounds /\ pc' = "propose" /\ round' = round + 1 /\ collected' = <<>> /\ ballots' = NoBallots
  <2>1. round + 1 \in Epochs
    <3>1. ProposalEvent(collected[k], round + 1) \in Events
      BY <1>1, <1>6, <1>8, QuorumAssumption DEF WholeCrew, CrewAssumption, MoreRounds
    <3> QED
      BY <3>1, EventFields DEF ProposalEvent
  <2>2. DriverKinds'
    BY <1>0, <1>6, <1>8, <2>1, CrewFacts, QuorumAssumption
       DEF DriverInv, DriverKinds, Busy, MoreRounds, NoBallots
  <2>3. RoundIsOwn'
    <3>1. active_epoch > round => Keys(proposals)' = {} /\ votes' = NoBallots
      BY <1>3 DEF DriverInv, RoundIsOwn, Keys
    <3> QED
      BY <1>3, <1>6, <1>8, <3>1 DEF RoundIsOwn
  <2>4. VotesSeen'
    BY <1>3, <1>6, <1>8 DEF DriverInv, VotesSeen
  <2>5. Verdict'
    BY <1>0, <1>3, <1>5, <1>6, <1>8, <2>1, EpochsAssumption DEF DriverInv, Verdict
  <2> QED
    BY <1>4, <2>2, <2>3, <2>4, <2>5 DEF DriverInv
<1> QED
  BY <1>7, <1>8 DEF ApplyLast

\* The inductive invariant of the driver holds throughout, for every crew
\* whose size is the quorum.
THEOREM DriverInvariance == WholeCrew => (CoordSpec => []DriverInv)
<1> SUFFICES ASSUME WholeCrew PROVE CoordSpec => []DriverInv
  OBVIOUS
<1>1. CoordInit => DriverInv
  BY DriverInit
<1>2. ASSUME DriverInv, CoordNext PROVE DriverInv'
  BY <1>2, ProposeInv, ApplyEarlyInv, VoteInv, VoteFailsInv, DecideInv, UndecidedInv, FinishInv
     DEF CoordNext, Step
<1>3. DriverInv /\ UNCHANGED <<vars, driverVars>> => DriverInv'
  <2> SUFFICES ASSUME DriverInv, UNCHANGED <<vars, driverVars>> PROVE DriverInv'
    OBVIOUS
  <2>1. IInv'
    BY InvStutter DEF DriverInv
  <2>2. UNCHANGED <<active_epoch, seen_events, proposals, votes, selected, pc, round, turn, collected, saved, ballots>>
    BY DEF vars, driverVars
  <2>3. DriverKinds' /\ VotesSeen'
    BY <2>2 DEF DriverInv, DriverKinds, VotesSeen, Asked
  <2>4. RoundIsOwn'
    BY <2>2 DEF DriverInv, RoundIsOwn, HandedIn, Keys
  <2>5. Verdict'
    BY <2>2 DEF DriverInv, Verdict, IsWinner, EndorsementsOf
  <2> QED
    BY <2>1, <2>3, <2>4, <2>5 DEF DriverInv
<1> QED
  BY <1>1, <1>2, <1>3, PTL DEF CoordSpec

\* With the quorum at the size of the crew, what `agentbridge coordinate' saves
\* is a proposal of the decided round that no other proposal of it has more
\* endorsements than, whichever calls of agents failed and however many
\* agents, rounds and repeated names --agents and --max-rounds ask for.
THEOREM WinnersAreEndorsed == WholeCrew => (CoordSpec => []WinnerHasMostEndorsements)
<1>1. DriverInv => WinnerHasMostEndorsements
  BY DEF DriverInv, Verdict, IsWinner, WinnerHasMostEndorsements
<1> QED
  BY <1>1, DriverInvariance, PTL

\* The driver moves the engine by the events of its crew only: a run of
\* `agentbridge coordinate' is one of the streams of events the engine's own
\* theorems are about.
LEMMA RunsDriveTheEngine == WholeCrew => (CoordSpec => Spec)
<1> SUFFICES ASSUME WholeCrew PROVE CoordSpec => Spec
  OBVIOUS
<1>1. CoordInit => Init
  BY DEF CoordInit
<1>2. DriverInv /\ [CoordNext]_<<vars, driverVars>> => [Next]_vars
  <2> SUFFICES ASSUME DriverInv, [CoordNext]_<<vars, driverVars>> PROVE [Next]_vars
    OBVIOUS
  <2>1. CASE UNCHANGED vars
    BY <2>1
  <2>2. ASSUME NEW b \in Agents, Vote(b) PROVE Next
    <3>1. pc = "vote" /\ Apply(VoteEvent(Crew[turn], b, round, IsCandidate(b)))
      BY <2>2 DEF Vote
    <3>2. Crew[turn] \in Range(Crew) /\ round \in 0 .. MaxRounds - 1 /\ IsCandidate(b) \in BOOLEAN
      BY <3>1, CrewFacts, QuorumAssumption DEF DriverInv, DriverKinds, Busy, IsCandidate
    <3>3. VoteEvent(Crew[turn], b, round, IsCandidate(b)) \in Events
      BY <3>2 DEF WholeCrew, CrewAssumption
    <3> QED
      BY <3>1, <3>3 DEF Next
  <2>3. CASE ApplyEarly
    <3>1. pc = "apply" /\ Apply(ProposalEvent(collected[turn], round))
      BY <2>3 DEF ApplyEarly
    <3>2. collected[turn] \in Range(Crew) /\ round \in 0 .. MaxRounds - 1
      BY <3>1, CrewFacts, QuorumAssumption DEF DriverInv, DriverKinds, Busy
    <3>3. ProposalEvent(collected[turn], round) \in Events
      BY <3>2 DEF WholeCrew, CrewAssumption
    <3> QED
      BY <3>1, <3>3 DEF Next
  <2>4. CASE ApplyLast
    <3>1. pc = "decide" /\ Apply(ProposalEvent(Last(collected), round))
      BY <2>4 DEF ApplyLast
    <3>2. Last(collected) \in Range(Crew) /\ round \in 0 .. MaxRounds - 1
      BY <3>1, CrewFacts, QuorumAssumption DEF DriverInv, DriverKinds, Busy, Last
    <3>3. ProposalEvent(Last(collected), round) \in Events
      BY <3>2 DEF WholeCrew, CrewAssumption
    <3> QED
      BY <3>1, <3>3 DEF Next
  <2> QED
    BY <2>1, <2>2, <2>3, <2>4
    DEF CoordNext, Step, Stopped, Propose, ProposeFails, VoteFails, FinishEmpty, FinishWith,
        OperatorRejects
<1> QED
  BY <1>1, <1>2, DriverInvariance, PTL DEF CoordSpec, Spec

\* The rounds of a development run close one after the other, each with a
\* decision that stands for ever and that somebody of the crew submitted,
\* whichever calls of agents fail.
THEOREM RunsCloseTheirRounds ==
  WholeCrew => (CoordSpec => ImplementsRounds /\ DecisionsStand)
BY RunsDriveTheEngine, RefinesRounds, DecisionsAreFinal, PTL

-----------------------------------------------------------------------------
(* The ASSEMBLY before a run *)

\* A CLASS line with a name on it is always an opinion.
LEMMA ClassLineKnown ==
  ASSUME NEW text \in Texts
  PROVE  class_line(text) \in Patterns \cup {NoClass}
BY DEF class_line, parse_name, Patterns

\* What keyword_scores returns has more keywords than any other class.
LEMMA KeywordLead ==
  ASSUME NEW text \in Texts, keyword_scores(text) # NoClass
  PROVE  LET c == keyword_scores(text) IN
         c \in Paper /\ \A d \in Paper \ {c} : text.hits[d] < text.hits[c]
<1> DEFINE best == {c \in Paper : /\ text.hits[c] > 0
                                  /\ \A d \in Paper : text.hits[d] <= text.hits[c]}
<1> HIDE DEF best
<1>1. Cardinality(best) = 1 /\ keyword_scores(text) = CHOOSE c \in best : TRUE
  BY DEF keyword_scores, best
<1>2. IsFiniteSet(Paper)
  <2>1. Paper = (({} \cup {"Preference"}) \cup {"Cascade"}) \cup {"Resource"}
    BY DEF Paper
  <2> QED
    BY <2>1, FS_EmptySet, FS_AddElement
<1>3. IsFiniteSet(best)
  BY <1>2, FS_Subset DEF best
<1>4. PICK c : best = {c}
  BY <1>1, <1>3, FS_Singleton
<1>5. keyword_scores(text) = c
  BY <1>1, <1>4
<1>6. c \in Paper /\ text.hits[c] > 0 /\ \A d \in Paper : text.hits[d] <= text.hits[c]
  BY <1>4 DEF best
<1>7. \A d \in Paper : text.hits[d] \in Nat
  BY TextsAssumption DEF Text
<1>8. ASSUME NEW d \in Paper \ {c} PROVE text.hits[d] < text.hits[c]
  <2>1. d \notin best
    BY <1>4
  <2>2. PICK e \in Paper : ~(text.hits[d] > 0 /\ text.hits[e] <= text.hits[d])
    BY <2>1, <1>6, <1>7 DEF best
  <2> QED
    BY <2>2, <1>6, <1>7
<1> QED
  BY <1>5, <1>6, <1>8

LEMMA InferKnown ==
  ASSUME NEW text \in Texts
  PROVE  infer_pattern(text) \in Patterns \cup {NoClass}
BY ClassLineKnown, KeywordLead DEF infer_pattern, Patterns

Replied == Texts \cup {NoClass}

\* x is the latest opinion of the crew, or without one what the session was
\* seeded with.
IsLatest(x, seeded) ==
  /\ \A k \in Opinions : (\A j \in Opinions : j <= k) => x = infer_pattern(replies[k])
  /\ Opinions = {} => x = seeded

AssemblyKinds ==
  /\ phase \in {"start", "ask", "launch", "converge", "refused", "development"}
  /\ seed \in Patterns /\ goal \in Texts
  /\ replies \in Seq(Replied) /\ Len(replies) <= CrewSize

\* The inductive invariant: while the crew is asked the session holds the latest
\* opinion; afterwards the pattern does, or was never up for discussion.
AssemblyInv ==
  /\ AssemblyKinds
  /\ phase = "start" => replies = <<>>
  /\ phase = "ask" => NeedsAssembly /\ IsLatest(inferred, Seeded)
  /\ phase \notin {"start", "ask"} =>
       \/ ~NeedsAssembly /\ replies = <<>> /\ pattern = seed
       \/ /\ Len(replies) = CrewSize
          /\ \A k \in Opinions :
               (\A j \in Opinions : j <= k) => pattern = infer_pattern(replies[k])
          /\ Opinions = {} /\ is_converge_class(seed) => pattern = seed
  /\ phase = "converge" => is_converge_class(pattern)

\* The next reply is an opinion, or the opinions stay as they are.
LEMMA NextReply ==
  ASSUME AssemblyInv, NEW x \in Replied, replies' = Append(replies, x)
  PROVE  LET n == Len(replies) + 1 IN
         /\ replies' \in Seq(Replied) /\ Len(replies') = n
         /\ \A k \in Opinions : replies'[k] = replies[k] /\ k < n /\ k \in Nat
         /\ x # NoClass /\ infer_pattern(x) # NoClass =>
              Opinions' = Opinions \cup {n} /\ replies'[n] = x
         /\ ~(x # NoClass /\ infer_pattern(x) # NoClass) => Opinions' = Opinions
<1> DEFINE n == Len(replies) + 1
<1>1. replies \in Seq(Replied) /\ Len(replies) \in Nat
  BY DEF AssemblyInv, AssemblyKinds
<1>2. /\ replies' \in Seq(Replied) /\ Len(replies') = n
      /\ DOMAIN replies' = DOMAIN replies \cup {n}
      /\ \A k \in DOMAIN replies : replies'[k] = replies[k] /\ k < n /\ k \in Nat
      /\ replies'[n] = x
  BY <1>1
<1>3. Opinions' = {k \in DOMAIN replies' :
                     replies'[k] # NoClass /\ infer_pattern(replies'[k]) # NoClass}
  BY DEF Opinions, infer_pattern, class_line, keyword_scores
<1> QED
  BY <1>2, <1>3 DEF Opinions

LEMMA AssemblyStep == AssemblyInv /\ [AssemblyNext]_assemblyVars => AssemblyInv'
<1> SUFFICES ASSUME AssemblyInv, [AssemblyNext]_assemblyVars PROVE AssemblyInv'
  OBVIOUS
<1> USE DEF AssemblyInv, AssemblyKinds
<1>1. CASE UNCHANGED assemblyVars
  BY <1>1 DEF assemblyVars, IsLatest, Seeded, Opinions, NeedsAssembly
<1>2. CASE SkipAssembly
  BY <1>2 DEF SkipAssembly, NeedsAssembly, is_converge_class, Opinions
<1>3. CASE BeginAssembly
  <2>1. Opinions = {} /\ Opinions' = {}
    BY <1>3 DEF BeginAssembly, Opinions
  <2> QED
    BY <1>3, <2>1 DEF BeginAssembly, NeedsAssembly, IsLatest, Seeded
<1>4. ASSUME NEW text \in Texts, Ingest(text) PROVE AssemblyInv'
  <2>1. text # NoClass /\ text \in Replied
    BY TextsAssumption DEF Replied
  <2>2. AssemblyKinds' /\ phase' = "ask" /\ NeedsAssembly'
    BY <1>4, <2>1, NextReply, TextsAssumption DEF Ingest, NeedsAssembly
  <2>3. Seeded' = Seeded
    BY <1>4 DEF Ingest, Seeded
  <2>4. IsLatest(inferred, Seeded)
    BY <1>4 DEF Ingest
  <2>5. CASE infer_pattern(text) # NoClass
    <3>1. inferred' = infer_pattern(text)
      BY <1>4, <2>5 DEF Ingest, Or
    <3> QED
      BY <1>4, <2>1, <2>2, <2>5, <3>1, NextReply DEF Ingest, IsLatest
  <2>6. CASE infer_pattern(text) = NoClass
    <3>1. inferred' = inferred /\ Opinions' = Opinions
      BY <1>4, <2>1, <2>6, NextReply DEF Ingest, Or
    <3>2. IsLatest(inferred, Seeded)'
      BY <1>4, <2>1, <2>3, <2>4, <3>1, NextReply DEF Ingest, IsLatest
    <3> QED
      BY <2>2, <3>2
  <2> QED
    BY <2>5, <2>6
<1>5. CASE AgentFails
  <2>1. NoClass \in Replied
    BY DEF Replied
  <2>2. AssemblyKinds' /\ phase' = "ask" /\ NeedsAssembly'
    BY <1>5, <2>1, NextReply, TextsAssumption DEF AgentFails, NeedsAssembly
  <2>3. Seeded' = Seeded /\ inferred' = inferred /\ Opinions' = Opinions
    BY <1>5, <2>1, NextReply DEF AgentFails, Seeded
  <2>4. IsLatest(inferred, Seeded)
    BY <1>5 DEF AgentFails
  <2>5. IsLatest(inferred, Seeded)'
    BY <1>5, <2>1, <2>3, <2>4, NextReply DEF AgentFails, IsLatest
  <2> QED
    BY <2>2, <2>5
<1>6. CASE Settle
  <2>1. Opinions' = Opinions /\ replies' = replies /\ seed' = seed /\ phase' = "launch"
    BY <1>6 DEF Settle, Opinions
  <2>2. IsLatest(inferred, Seeded)
    BY <1>6 DEF Settle
  <2>3. \A k \in Opinions : infer_pattern(replies[k]) # NoClass
    BY DEF Opinions
  <2>4. inferred # NoClass => pattern' = inferred
    BY <1>6 DEF Settle, Or
  <2>5. is_converge_class(seed) => Seeded = seed /\ seed # NoClass
    BY TextsAssumption DEF Seeded, is_converge_class, Patterns
  <2>6. \A k \in Opinions :
          (\A j \in Opinions : j <= k) => pattern' = infer_pattern(replies[k])
    BY <2>2, <2>3, <2>4 DEF IsLatest
  <2>7. Opinions = {} /\ is_converge_class(seed) => pattern' = seed
    BY <2>2, <2>4, <2>5 DEF IsLatest
  <2>8. Len(replies) = CrewSize /\ AssemblyKinds'
    BY <1>6 DEF Settle
  <2> QED
    BY <2>1, <2>6, <2>7, <2>8 DEF is_converge_class
<1>7. CASE Launch
  <2>1. Opinions' = Opinions /\ replies' = replies /\ seed' = seed /\ pattern' = pattern
    BY <1>7 DEF Launch, Opinions
  <2>2. phase' \in {"converge", "refused", "development"}
          /\ (phase' = "converge" => is_converge_class(pattern))
    BY <1>7 DEF Launch
  <2> QED
    BY <1>7, <2>1, <2>2 DEF Launch, NeedsAssembly, is_converge_class
<1> QED
  BY <1>1, <1>2, <1>3, <1>4, <1>5, <1>6, <1>7 DEF AssemblyNext

\* However many agents there are and whatever they reply or fail to: what run()
\* starts is the last opinion anybody had, an ASSEMBLY of the whole crew stands
\* before every CONVERGE run, and keywords only decide with a clear lead.
THEOREM CrewDecides == AssemblySpec => []LastOpinionDecides
<1>1. AssemblyInit => AssemblyInv
  BY TextsAssumption DEF AssemblyInit, AssemblyInv, AssemblyKinds, Replied
<1>2. AssemblyInv => LastOpinionDecides
  <2> SUFFICES ASSUME AssemblyInv PROVE LastOpinionDecides
    OBVIOUS
  <2>1. CrewSize \in Nat /\ CrewSize > 0 /\ Opinions \subseteq 0 .. Len(replies)
    BY TextsAssumption DEF Opinions, AssemblyInv, AssemblyKinds
  <2>2. Opinions # {} =>
          Max(Opinions) \in Opinions /\ \A j \in Opinions : j <= Max(Opinions)
    <3>1. Opinions # {} => \E m \in Opinions : \A j \in Opinions : m >= j
      <4>1. Len(replies) \in Nat
        BY DEF AssemblyInv, AssemblyKinds
      <4> QED
        BY <2>1, <4>1, NatMax
    <3> QED
      BY <2>1, <3>1 DEF Max
  <2>3. ASSUME phase \in {"converge", "development", "refused"}, replies # <<>>
        PROVE  /\ Opinions # {} => pattern = infer_pattern(replies[Max(Opinions)])
               /\ Opinions = {} /\ is_converge_class(seed) => pattern = seed
    BY <2>2, <2>3 DEF AssemblyInv
  <2>4. phase = "converge" => Len(replies) = CrewSize
    BY DEF AssemblyInv, NeedsAssembly
  <2>5. ASSUME NEW k \in Opinions, class_line(replies[k]) = NoClass
        PROVE  LET c == infer_pattern(replies[k]) IN
               \A d \in Paper \ {c} : replies[k].hits[d] < replies[k].hits[c]
    <3>1. replies[k] \in Texts /\ infer_pattern(replies[k]) # NoClass
      BY DEF Opinions, AssemblyInv, AssemblyKinds, Replied
    <3> QED
      BY <2>5, <3>1, KeywordLead DEF infer_pattern
  <2> QED
    BY <2>3, <2>4, <2>5 DEF LastOpinionDecides
<1> QED
  BY <1>1, <1>2, AssemblyStep, PTL DEF AssemblySpec

=============================================================================
