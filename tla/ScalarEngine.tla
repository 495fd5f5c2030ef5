---------------------------- MODULE ScalarEngine ----------------------------
(***************************************************************************)
(* The three CONVERGE engines of crates/shadi_mas (preference, cascade and *)
(* resource).  They share one epoch discipline, written out three times in *)
(* the code: every participant of a fixed roster announces one scalar per  *)
(* epoch, and the epoch is finalized by the announcement that completes    *)
(* the roster.  The constant Class says which engine is meant; the engines *)
(* differ in the order of their last two checks, and in what the finalized *)
(* scalars are then used for (module ConvergePlants).                      *)
(* Any event of Events may arrive at any time and any number of times.     *)
(***************************************************************************)
EXTENDS Integers, FiniteSets

CONSTANTS
  Class,         \* "Preference", "Cascade" or "Resource"
  AgentIds,      \* ids that occur in events, on the roster or not
  RosterSize,    \* participants.len()
  Roster,        \* participants: index -> AgentId
  Scalars,       \* the values announced
  FiniteScalars, \* those for which is_finite() holds
  Start,         \* index -> the engine's value before the first epoch
  EventIds,
  InitialEpoch,
  Epochs,
  Events,
  MaxCalls,      \* bound: calls of MasRuntime::apply
  None

Indices == 1..RosterSize

ASSUME RosterAssumption ==
  /\ RosterSize \in Nat \ {0}
  /\ Roster \in [Indices -> AgentIds]
  /\ Class \in {"Preference", "Cascade", "Resource"}

ASSUME ScalarsAssumption ==
  /\ FiniteScalars \subseteq Scalars
  /\ None \notin Scalars
  /\ Start \in [Indices -> FiniteScalars]
  /\ None \notin [Indices -> FiniteScalars]

ASSUME EpochsAssumption ==
  InitialEpoch \in Nat /\ Epochs \subseteq Nat /\ MaxCalls \in Nat

Source == [kind : {"Peer", "Tool"}, id : AgentIds]
            \cup [kind : {"Local", "Task", "Recovery"}]
Payload == [kind : {"ScalarProposal"}, participant : AgentIds, value : Scalars]
             \cup [kind : {"Other"}]
Event == [id : EventIds, pattern : {"Preference", "Cascade", "Resource", "Other"},
          epoch : Epochs, source : Source, payload : Payload]

ASSUME EventsAssumption ==
  Events \subseteq Event /\ None \notin Events /\ IsFiniteSet(EventIds)

VARIABLES
  active_epoch,
  announced,    \* index -> scalar announced in the active epoch, or None
  seen_events,
  current,      \* index -> current_value: z, last_q or e of the engine
  counters,
  outcome,      \* what the last apply returned
  calls,        \* length of MasRuntime::history
  consumed,     \* history variable: event id -> the event applied under it
  rounds        \* history variable: epoch -> the scalars it finalized, or None

vars == <<active_epoch, announced, seen_events, current, counters, outcome,
          calls, consumed, rounds>>

Outcomes == {"None", "Applied", "Deferred", "Finalized", "IncompatiblePattern",
             "StaleEpoch", "DuplicateEvent", "IncompatiblePayload",
             "UnknownParticipant"}

RuntimeCounters == {"applied", "rejected", "deferred", "duplicates", "stale",
                    "finalized"}

-----------------------------------------------------------------------------
(* Helpers *)

Keys(m) == {k \in DOMAIN m : m[k] # None}

Bump(fields) ==
  counters' = [f \in RuntimeCounters |->
                 IF f \in fields THEN counters[f] + 1 ELSE counters[f]]

\* iter().position: the first index that holds the id.
IsIndexOf(i, id) ==
  Roster[i] = id /\ \A j \in Indices : Roster[j] = id => i <= j

\* Mutant: the source is not compared with the participant it speaks for.
AnybodySpeaksFor(e, i) == IsIndexOf(i, e.payload.participant)

\* participant_from_event(e) = Some(i): a peer or a tool may announce for
\* itself only, the local runtime for everybody, tasks and recovery never.
SpeaksFor(e, i) ==
  /\ IsIndexOf(i, e.payload.participant)
  /\ \/ e.source.kind = "Local"
     \/ e.source.kind \in {"Peer", "Tool"} /\ IsIndexOf(i, e.source.id)

-----------------------------------------------------------------------------
Init ==
  /\ active_epoch = InitialEpoch
  /\ announced = [i \in Indices |-> None]
  /\ seen_events = {}
  /\ current = Start
  /\ counters = [f \in RuntimeCounters |-> 0]
  /\ outcome = "None"
  /\ calls = 0
  /\ consumed = [i \in EventIds |-> None]
  /\ rounds = [n \in Epochs |-> None]

-----------------------------------------------------------------------------
(* apply: one action for each way through the function, in its order *)

Refuse(reason, fields) ==
  /\ Bump(fields)
  /\ outcome' = reason
  /\ UNCHANGED <<active_epoch, announced, current, consumed, rounds>>

RejectPattern(e) ==
  /\ e.pattern # Class
  /\ Refuse("IncompatiblePattern", {"rejected"})
  /\ UNCHANGED seen_events

RejectStale(e) ==
  /\ e.pattern = Class
  /\ e.epoch < active_epoch
  /\ Refuse("StaleEpoch", {"rejected", "stale"})
  /\ UNCHANGED seen_events

\* A deferred event is dropped: its id stays unseen, so it may be sent again.
Defer(e) ==
  /\ e.pattern = Class
  /\ e.epoch > active_epoch
  /\ Refuse("Deferred", {"deferred"})
  /\ UNCHANGED seen_events

Current(e) == e.pattern = Class /\ e.epoch = active_epoch

RejectDuplicate(e) ==
  /\ Current(e)
  /\ e.id \in seen_events
  /\ Refuse("DuplicateEvent", {"rejected", "duplicates"})
  /\ UNCHANGED seen_events

Fresh(e) == Current(e) /\ e.id \notin seen_events

\* seen_events.insert: from here on the id is spent, whatever happens next.
Record(e) == seen_events' = seen_events \cup {e.id}

IsScalar(e) == e.payload.kind = "ScalarProposal"

RejectPayload(e) ==
  /\ Fresh(e) /\ ~IsScalar(e)
  /\ Refuse("IncompatiblePayload", {"rejected"})
  /\ Record(e)

RejectParticipant(e) ==
  /\ Fresh(e) /\ IsScalar(e)
  /\ ~\E i \in Indices : SpeaksFor(e, i)
  /\ Refuse("UnknownParticipant", {"rejected"})
  /\ Record(e)

IsFiniteValue(e) == e.payload.value \in FiniteScalars

\* A scalar that is not finite, from a participant that has announced already,
\* is an incompatible payload to the preference engine, which looks at the
\* value first, and a duplicate to the other two.
RejectRepeat(e, i) ==
  /\ Fresh(e) /\ IsScalar(e) /\ SpeaksFor(e, i)
  /\ announced[i] # None
  /\ IsFiniteValue(e) \/ Class # "Preference"
  /\ Refuse("DuplicateEvent", {"rejected", "duplicates"})
  /\ Record(e)

RejectNonFinite(e, i) ==
  /\ Fresh(e) /\ IsScalar(e) /\ SpeaksFor(e, i)
  /\ ~IsFiniteValue(e)
  /\ announced[i] = None \/ Class = "Preference"
  /\ Refuse("IncompatiblePayload", {"rejected"})
  /\ Record(e)

\* Mutant: a second announcement replaces the first.
AcceptableTwice(e, i) ==
  Fresh(e) /\ IsScalar(e) /\ SpeaksFor(e, i) /\ IsFiniteValue(e)

Acceptable(e, i) ==
  /\ Fresh(e) /\ IsScalar(e) /\ SpeaksFor(e, i)
  /\ IsFiniteValue(e) /\ announced[i] = None

Announced(e, i) == [announced EXCEPT ![i] = e.payload.value]

\* try_finalize's early return: announced.len() < n.
Incomplete(a) == Cardinality(Keys(a)) < RosterSize

HoldScalar(e, i) ==
  /\ Acceptable(e, i)
  /\ Incomplete(Announced(e, i))
  /\ Record(e)
  /\ announced' = Announced(e, i)
  /\ Bump({"applied"})
  /\ outcome' = "Applied"
  /\ consumed' = [consumed EXCEPT ![e.id] = e]
  /\ UNCHANGED <<active_epoch, current, rounds>>

\* Mutant: announced.clear() is missing.
KeepAnnounced == UNCHANGED announced

ClearAnnounced == announced' = [i \in Indices |-> None]

\* Mutant: the epoch is not advanced.
StayInEpoch == UNCHANGED active_epoch

AdvanceEpoch == active_epoch' = active_epoch + 1

FinalizeEpoch(e, i) ==
  /\ Acceptable(e, i)
  /\ ~Incomplete(Announced(e, i))
  /\ Record(e)
  /\ current' = Announced(e, i)
  /\ rounds' = [rounds EXCEPT ![active_epoch] = Announced(e, i)]
  /\ ClearAnnounced
  /\ AdvanceEpoch
  /\ Bump({"applied", "finalized"})
  /\ outcome' = "Finalized"
  /\ consumed' = [consumed EXCEPT ![e.id] = e]

Apply(e) ==
  /\ calls < MaxCalls
  /\ calls' = calls + 1
  /\ \/ RejectPattern(e)
     \/ RejectStale(e)
     \/ Defer(e)
     \/ RejectDuplicate(e)
     \/ RejectPayload(e)
     \/ RejectParticipant(e)
     \/ \E i \in Indices : RejectRepeat(e, i)
     \/ \E i \in Indices : RejectNonFinite(e, i)
     \/ \E i \in Indices : HoldScalar(e, i)
     \/ \E i \in Indices : FinalizeEpoch(e, i)

Next == \E e \in Events : Apply(e)

Spec == Init /\ [][Next]_vars

-----------------------------------------------------------------------------
(* Properties *)

\* The engine holds roster indices, finite scalars, epochs and events only.
TypeOK ==
  /\ active_epoch \in Nat
  /\ announced \in [Indices -> FiniteScalars \cup {None}]
  /\ seen_events \subseteq EventIds
  /\ current \in [Indices -> FiniteScalars]
  /\ counters \in [RuntimeCounters -> Nat]
  /\ outcome \in Outcomes
  /\ calls \in Nat
  /\ consumed \in [EventIds -> Events \cup {None}]
  /\ rounds \in [Epochs -> [Indices -> FiniteScalars] \cup {None}]

\* Every call of apply is counted in exactly one of applied, rejected and
\* deferred; what is stale or a duplicate was also rejected; the finalizations
\* are the epochs the engine moved past.
Accounting ==
  /\ counters["applied"] + counters["rejected"] + counters["deferred"] = calls
  /\ counters["stale"] + counters["duplicates"] <= counters["rejected"]
  /\ active_epoch = InitialEpoch + counters["finalized"]

\* An event id takes effect at most once over the life of the engine, across
\* epochs and redeliveries.
ExactlyOnce ==
  /\ counters["applied"] = Cardinality(Keys(consumed))
  /\ Keys(consumed) \subseteq seen_events

\* The engine is never left with a complete round it has not finalized.
NoIdleRound == \E i \in Indices : announced[i] = None

\* The applied events c hold an announcement of x in epoch n by somebody who
\* may speak for index i.
AnnouncedIn(c, n, i, x) ==
  \E k \in Keys(c) : /\ c[k].epoch = n
                     /\ c[k].payload.kind = "ScalarProposal"
                     /\ c[k].payload.value = x
                     /\ c[k].payload.participant = Roster[i]
                     /\ \/ c[k].source.kind = "Local"
                        \/ c[k].source.kind \in {"Peer", "Tool"}
                             /\ c[k].source.id = Roster[i]

\* No announcement is carried over an epoch or attributed to another agent:
\* what is held for an index was announced in the active epoch, and what an
\* epoch finalized for an index was announced in that epoch, by the agent of
\* that index or by the local runtime on its behalf.
ScalarsAreTheirOwn ==
  /\ \A i \in Keys(announced) : AnnouncedIn(consumed, active_epoch, i, announced[i])
  /\ \A n \in Keys(rounds) : \A i \in Indices :
       AnnouncedIn(consumed, n, i, rounds[n][i])

\* The finalized epochs are exactly those before the active one, and the values
\* the engine answers with are those of the latest one.
CurrentIsLatestRound ==
  /\ \A n \in Epochs : rounds[n] # None <=> InitialEpoch <= n /\ n < active_epoch
  /\ active_epoch = InitialEpoch => current = Start
  /\ active_epoch > InitialEpoch => current = rounds[active_epoch - 1]

\* The first announcement of a participant stands: within an epoch an announced
\* scalar is never replaced or withdrawn, and it only leaves the table when the
\* epoch is finalized, which then takes it over unchanged.
FirstAnnouncementStands ==
  [][\A i \in Keys(announced) :
       \/ announced'[i] = announced[i] /\ active_epoch' = active_epoch
       \/ current'[i] = announced[i] /\ active_epoch' = active_epoch + 1]_vars

-----------------------------------------------------------------------------
(* Refinement *)

WholeTable(table) == {table}

Rounds == INSTANCE EpochRounds
  WITH Seats <- Indices, Offers <- FiniteScalars, Verdicts <- WholeTable,
       epoch <- active_epoch, table <- announced, ledger <- rounds

\* The engine implements the rounds of module EpochRounds, with the complete
\* table of scalars as the verdict.
ImplementsRounds == Rounds!Spec

=============================================================================
