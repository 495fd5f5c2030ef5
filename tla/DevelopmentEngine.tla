------------------------- MODULE DevelopmentEngine -------------------------
(***************************************************************************)
(* The development engine of crates/shadi_mas: agents submit code          *)
(* artifacts, endorse one another, and the engine selects one artifact per *)
(* epoch once a quorum of participants has submitted.  The engine is       *)
(* driven only through MasRuntime::apply, so every action below is one     *)
(* call of apply and every early return of apply is an action of its own.  *)
(* The transport is not part of the engine: any event of the constant      *)
(* Events may be delivered at any time and any number of times, so loss,   *)
(* duplication and reordering are all covered.                             *)
(*                                                                         *)
(* AgentIds are ordered strings in the code; here they are integers, and   *)
(* the order of the integers stands for the order of the names.            *)
(***************************************************************************)
EXTENDS Integers, FiniteSets

CONSTANTS
  AgentCount,    \* AgentIds that occur as a source or as an endorsee
  Participants,  \* config.participants; empty means that anybody may submit
  LocalAgent,    \* AgentId("local")
  Artifacts,     \* artifact bytes
  EventIds,
  Quorum,        \* config.quorum
  MaxRounds,     \* config.max_rounds
  InitialEpoch,  \* the epoch handed to DevelopmentEngine::new
  Epochs,        \* the epochs events carry
  Events,        \* the events the runtime may be handed
  MaxCalls,      \* bound: calls of MasRuntime::apply
  None           \* an absent map entry

Agents == 1..AgentCount

ASSUME AgentsAssumption ==
  /\ AgentCount \in Nat
  /\ Participants \subseteq Agents
  /\ LocalAgent \in Agents
  /\ None \notin Agents \cup Artifacts

ASSUME QuorumAssumption ==
  Quorum \in Nat /\ MaxRounds \in Nat /\ MaxCalls \in Nat

ASSUME EpochsAssumption == InitialEpoch \in Nat /\ Epochs \subseteq Nat

\* EventSource and SemanticPayload.  A payload the engine does not interpret
\* (a scalar proposal, a text message) is "Other".
Source == [kind : {"Peer"}, id : Agents]
            \cup [kind : {"Local", "Tool", "Task", "Recovery"}]
Payload == [kind : {"ExternalBytes"}, artifact : Artifacts]
             \cup [kind : {"ToolResult"}, tool_name : Agents, accepted : BOOLEAN]
             \cup [kind : {"Other"}]
Event == [id : EventIds, pattern : {"Development", "Other"}, epoch : Epochs,
          source : Source, payload : Payload]

ASSUME EventsAssumption ==
  Events \subseteq Event /\ None \notin Events /\ IsFiniteSet(EventIds)

VARIABLES
  active_epoch,
  seen_events,
  proposals,   \* Agents -> artifact submitted in the active epoch, or None
  votes,       \* Agents -> agent endorsed in the active epoch, or None
  selected,    \* epoch -> finalized artifact, or None
  counters,
  outcome,     \* what the last apply returned
  calls,       \* length of MasRuntime::history
  consumed     \* history variable: event id -> the event applied under it

vars == <<active_epoch, seen_events, proposals, votes, selected, counters,
          outcome, calls, consumed>>

Outcomes == {"None", "Applied", "Deferred", "Finalized", "IncompatiblePattern",
             "FinalizedEpoch", "StaleEpoch", "DuplicateEvent",
             "UnknownParticipant"}

RuntimeCounters == {"applied", "rejected", "deferred", "duplicates", "stale",
                    "finalized"}

-----------------------------------------------------------------------------
(* Helpers *)

\* The keys of a map that is written as a total function into None.
Keys(m) == {k \in DOMAIN m : m[k] # None}

\* self.counters.<field> += 1 for each of the fields.
Bump(fields) ==
  counters' = [f \in RuntimeCounters |->
                 IF f \in fields THEN counters[f] + 1 ELSE counters[f]]

\* The votes_for an entry has after the tally of try_finalize.
VotesFor(a, vs) == Cardinality({v \in Agents : vs[v] = a})

\* Mutant: the fewest endorsements win.
BeatsWithFewer(a, b, vs) ==
  \/ VotesFor(a, vs) < VotesFor(b, vs)
  \/ VotesFor(a, vs) = VotesFor(b, vs) /\ a >= b

\* iter().max_by_key keeps the LAST of equal maxima: the greatest AgentId.
Beats(a, b, vs) ==
  \/ VotesFor(a, vs) > VotesFor(b, vs)
  \/ VotesFor(a, vs) = VotesFor(b, vs) /\ a >= b

Winner(props, vs) ==
  CHOOSE a \in Keys(props) : \A b \in Keys(props) : Beats(a, b, vs)

\* The participant an artifact is filed under; None for sources that may not
\* submit.
Proposer(e) ==
  CASE e.source.kind = "Peer"  -> e.source.id
    [] e.source.kind = "Local" -> LocalAgent
    [] OTHER                   -> None

Voter(e) == IF e.source.kind = "Peer" THEN e.source.id ELSE LocalAgent

MaySubmit(a) == Participants = {} \/ a \in Participants

MaxRoundsExceeded == active_epoch >= MaxRounds

-----------------------------------------------------------------------------
(* The constructor *)

Init ==
  /\ active_epoch = InitialEpoch
  /\ seen_events = {}
  /\ proposals = [a \in Agents |-> None]
  /\ votes = [a \in Agents |-> None]
  /\ selected = [n \in Epochs |-> None]
  /\ counters = [f \in RuntimeCounters |-> 0]
  /\ outcome = "None"
  /\ calls = 0
  /\ consumed = [i \in EventIds |-> None]

-----------------------------------------------------------------------------
(* apply: one action for each way through the function, in its order *)

\* An event that leaves everything but the counters alone.
Refuse(reason, fields) ==
  /\ Bump(fields)
  /\ outcome' = reason
  /\ UNCHANGED <<active_epoch, proposals, votes, selected, consumed>>

RejectPattern(e) ==
  /\ e.pattern # "Development"
  /\ Refuse("IncompatiblePattern", {"rejected"})
  /\ UNCHANGED seen_events

IsFinalized(n) == selected[n] # None

RejectFinalized(e) ==
  /\ e.pattern = "Development"
  /\ IsFinalized(e.epoch)
  /\ Refuse("FinalizedEpoch", {"rejected", "stale"})
  /\ UNCHANGED seen_events

RejectStale(e) ==
  /\ e.pattern = "Development"
  /\ ~IsFinalized(e.epoch)
  /\ e.epoch < active_epoch
  /\ Refuse("StaleEpoch", {"rejected", "stale"})
  /\ UNCHANGED seen_events

\* A deferred event is dropped: its id stays unseen, so it may be sent again.
Defer(e) ==
  /\ e.pattern = "Development"
  /\ ~IsFinalized(e.epoch)
  /\ e.epoch > active_epoch
  /\ Refuse("Deferred", {"deferred"})
  /\ UNCHANGED seen_events

\* The guard that the first four returns leave behind.
Current(e) ==
  /\ e.pattern = "Development"
  /\ ~IsFinalized(e.epoch)
  /\ e.epoch = active_epoch

RejectDuplicate(e) ==
  /\ Current(e)
  /\ e.id \in seen_events
  /\ Refuse("DuplicateEvent", {"rejected", "duplicates"})
  /\ UNCHANGED seen_events

\* seen_events.insert succeeded; it stays recorded whatever happens next.
Fresh(e) == Current(e) /\ e.id \notin seen_events

\* Mutant: the id of an applied event is not remembered.
RecordNothing(e) == UNCHANGED seen_events

Record(e) == seen_events' = seen_events \cup {e.id}

IsProposal(e) == e.payload.kind = "ExternalBytes"

RejectProposal(e) ==
  /\ Fresh(e) /\ IsProposal(e)
  /\ Proposer(e) = None \/ ~MaySubmit(Proposer(e))
  /\ Refuse("UnknownParticipant", {"rejected"})
  /\ Record(e)

\* Mutant: the membership check of accept_proposal is missing.
AcceptFromAnybody(e) ==
  Fresh(e) /\ IsProposal(e) /\ Proposer(e) # None

AcceptableProposal(e) ==
  /\ Fresh(e) /\ IsProposal(e)
  /\ Proposer(e) # None /\ MaySubmit(Proposer(e))

\* proposals.insert: a second submission of a participant replaces the first.
Submitted(e) == [proposals EXCEPT ![Proposer(e)] = e.payload.artifact]

\* Mutant: off by one at the quorum.
QuorumNotExceeded(props) == Cardinality(Keys(props)) <= Quorum

\* try_finalize's early return.  Both branches of accept_proposal, the one
\* for max_rounds_exceeded included, end in the same call.
QuorumMissing(props) == Cardinality(Keys(props)) < Quorum

HoldProposal(e) ==
  /\ AcceptableProposal(e)
  /\ QuorumMissing(Submitted(e))
  /\ Record(e)
  /\ proposals' = Submitted(e)
  /\ Bump({"applied"})
  /\ outcome' = "Applied"
  /\ consumed' = [consumed EXCEPT ![e.id] = e]
  /\ UNCHANGED <<active_epoch, votes, selected>>

ClearEpoch ==
  proposals' = [a \in Agents |-> None] /\ votes' = [a \in Agents |-> None]

\* Mutant: the epoch is not advanced.
StayInEpoch == UNCHANGED active_epoch

AdvanceEpoch == active_epoch' = active_epoch + 1

FinalizeEpoch(e) ==
  /\ AcceptableProposal(e)
  /\ ~QuorumMissing(Submitted(e))
  /\ Record(e)
  /\ selected' = [selected EXCEPT ![active_epoch] =
                    Submitted(e)[Winner(Submitted(e), votes)]]
  /\ ClearEpoch
  /\ AdvanceEpoch
  /\ Bump({"applied", "finalized"})
  /\ outcome' = "Finalized"
  /\ consumed' = [consumed EXCEPT ![e.id] = e]

\* A vote is filed whoever casts it and whomever it endorses, and it never
\* finalizes: only a submission does.
AcceptVote(e) ==
  /\ Fresh(e)
  /\ e.payload.kind = "ToolResult" /\ e.payload.accepted
  /\ Record(e)
  /\ votes' = [votes EXCEPT ![Voter(e)] = e.payload.tool_name]
  /\ Bump({"applied"})
  /\ outcome' = "Applied"
  /\ consumed' = [consumed EXCEPT ![e.id] = e]
  /\ UNCHANGED <<active_epoch, proposals, selected>>

\* A refused endorsement, or a payload of another kind, is applied to no effect.
ApplyNothing(e) ==
  /\ Fresh(e)
  /\ \/ e.payload.kind = "ToolResult" /\ ~e.payload.accepted
     \/ e.payload.kind = "Other"
  /\ Record(e)
  /\ Bump({"applied"})
  /\ outcome' = "Applied"
  /\ consumed' = [consumed EXCEPT ![e.id] = e]
  /\ UNCHANGED <<active_epoch, proposals, votes, selected>>

Apply(e) ==
  /\ calls < MaxCalls
  /\ calls' = calls + 1
  /\ \/ RejectPattern(e)
     \/ RejectFinalized(e)
     \/ RejectStale(e)
     \/ Defer(e)
     \/ RejectDuplicate(e)
     \/ RejectProposal(e)
     \/ HoldProposal(e)
     \/ FinalizeEpoch(e)
     \/ AcceptVote(e)
     \/ ApplyNothing(e)

Next == \E e \in Events : Apply(e)

Spec == Init /\ [][Next]_vars

-----------------------------------------------------------------------------
(* Properties *)

\* The maps of the engine hold agents, artifacts, epochs and events only.
TypeOK ==
  /\ active_epoch \in Nat
  /\ seen_events \subseteq EventIds
  /\ proposals \in [Agents -> Artifacts \cup {None}]
  /\ votes \in [Agents -> Agents \cup {None}]
  /\ selected \in [Epochs -> Artifacts \cup {None}]
  /\ counters \in [RuntimeCounters -> Nat]
  /\ outcome \in Outcomes
  /\ calls \in Nat
  /\ consumed \in [EventIds -> Events \cup {None}]

\* Every call of apply is counted in exactly one of applied, rejected and
\* deferred, whatever early return it took; what is stale or a duplicate was
\* also rejected; and the finalizations are the epochs the engine moved past.
Accounting ==
  /\ counters["applied"] + counters["rejected"] + counters["deferred"] = calls
  /\ counters["stale"] + counters["duplicates"] <= counters["rejected"]
  /\ active_epoch = InitialEpoch + counters["finalized"]

\* An event id takes effect at most once over the whole life of the engine,
\* across epochs and redeliveries: as many events were applied as there are
\* ids with an applied event, and each of those ids is recorded as seen.
ExactlyOnce ==
  /\ counters["applied"] = Cardinality(Keys(consumed))
  /\ Keys(consumed) \subseteq seen_events

\* The epochs that have an artifact are exactly those between the initial
\* epoch and the active one: no epoch is skipped and none is decided early.
DecidedExactlyThePast ==
  \A n \in Epochs :
    IsFinalized(n) <=> InitialEpoch <= n /\ n < active_epoch

\* The applied events c hold a submission of artifact x by agent a, or an
\* endorsement of agent a by voter v, that carried epoch n.
SubmittedIn(c, n, a, x) ==
  \E i \in Keys(c) : /\ c[i].epoch = n
                     /\ IsProposal(c[i])
                     /\ Proposer(c[i]) = a
                     /\ c[i].payload.artifact = x

EndorsedIn(c, n, v, a) ==
  \E i \in Keys(c) : /\ c[i].epoch = n
                     /\ c[i].payload.kind = "ToolResult"
                     /\ Voter(c[i]) = v
                     /\ c[i].payload.tool_name = a

\* Nothing survives an epoch change: each submission and each endorsement the
\* engine holds came in an event that carried the epoch that is active now,
\* the submissions from agents entitled to submit.
HeldAreCurrent ==
  /\ \A a \in Keys(proposals) :
       MaySubmit(a) /\ SubmittedIn(consumed, active_epoch, a, proposals[a])
  /\ \A v \in Keys(votes) : EndorsedIn(consumed, active_epoch, v, votes[v])

\* What an epoch selects is an artifact that somebody entitled to submit
\* submitted in that very epoch, however late the epoch is looked up.
SelectedWasSubmitted ==
  \A n \in Epochs : IsFinalized(n) =>
    \E a \in Agents : MaySubmit(a) /\ SubmittedIn(consumed, n, a, selected[n])

\* Between two calls the engine never sits on a quorum it has not acted upon.
NoIdleQuorum ==
  Keys(proposals) = {} \/ Cardinality(Keys(proposals)) < Quorum

\* selected_artifact(epoch) never changes once it has answered, and the active
\* epoch advances by one, exactly when an epoch is decided.
DecisionsStand ==
  [][/\ \A n \in Epochs : IsFinalized(n) => selected'[n] = selected[n]
     /\ active_epoch' \in {active_epoch, active_epoch + 1}
     /\ active_epoch' # active_epoch <=> outcome' = "Finalized" /\ calls' # calls]_vars

-----------------------------------------------------------------------------
(* Refinement *)

\* The verdicts a table of submissions allows: any artifact on it.
SubmittedArtifacts(table) == {table[a] : a \in Keys(table)}

Rounds == INSTANCE EpochRounds
  WITH Seats <- Agents, Offers <- Artifacts, Verdicts <- SubmittedArtifacts,
       epoch <- active_epoch, table <- proposals, ledger <- selected

\* The engine implements the rounds of module EpochRounds: whatever the order,
\* loss and duplication of events, all that an observer of the active epoch,
\* the submissions and the selected artifacts sees is submissions being put on
\* the table and epochs being closed with one of them.
ImplementsRounds == Rounds!Spec

=============================================================================
