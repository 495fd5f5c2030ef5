------------------------- MODULE ConvergeController -------------------------
(***************************************************************************)
(* ConvergeController of crates/shadi_mas/src/engines/converge.rs: it      *)
(* scores the epochs an engine finalizes and decides when a CONVERGE run   *)
(* stops.  Spec lets the calls of its interface come in any order; module  *)
(* ConvergeRun makes them in the order of the driver.                      *)
(***************************************************************************)
EXTENDS Integers, Sequences, FiniteSets

CONSTANTS
  Participants,   \* participants: a sequence of AgentIds
  PlateauK,       \* plateau_k; new() takes max(1)
  Horizon,        \* paper_horizon, likewise
  LowerIsBetter,  \* lower_is_better
  Improve,        \* IMPROVE_EPS, in the unit of the metrics
  Metrics,        \* the metrics handed to record_metric
  Strangers,      \* ids that are not on the roster
  MaxRecords,     \* bound: calls of record_metric
  None

VARIABLES
  last_metric, non_improving, epochs_done,
  ballots,    \* the field votes: AgentId -> decision, or None
  halt,
  metrics     \* history variable: the metrics recorded so far

ctlVars == <<last_metric, non_improving, epochs_done, ballots, halt, metrics>>

Voters == {Participants[i] : i \in DOMAIN Participants}
Decisions == {"Stop", "Continue"}
Halts == {"MajorityStop", "Plateau", "PaperHorizon", "NoSolution", "Unmapped"}

Init ==
  /\ last_metric = None /\ non_improving = 0 /\ epochs_done = 0
  /\ ballots = [p \in Voters |-> None]
  /\ halt = None
  /\ metrics = <<>>

-----------------------------------------------------------------------------

begin_epoch ==
  /\ ballots' = [p \in Voters |-> None]
  /\ UNCHANGED <<last_metric, non_improving, epochs_done, halt, metrics>>

mark_unmapped ==
  /\ halt' = "Unmapped"
  /\ UNCHANGED <<last_metric, non_improving, epochs_done, ballots, metrics>>

\* The first metric always counts as an improvement.
Improved(prev, m) ==
  \/ prev = None
  \/ prev # None /\ LowerIsBetter /\ m < prev - Improve
  \/ prev # None /\ ~LowerIsBetter /\ m > prev + Improve

Streak(m) == IF Improved(last_metric, m) THEN 0 ELSE non_improving + 1

\* The horizon takes precedence, and a halt that is set is replaced.
HaltAfter(m) ==
  IF epochs_done + 1 >= Horizon THEN "PaperHorizon"
  ELSE IF Streak(m) < PlateauK THEN halt
  ELSE IF last_metric # None /\ ~Improved(last_metric, m) /\ epochs_done > 0
       THEN "NoSolution" ELSE "Plateau"

record_metric(m) ==
  /\ non_improving' = Streak(m)
  /\ last_metric' = m
  /\ epochs_done' = epochs_done + 1
  /\ halt' = HaltAfter(m)
  /\ metrics' = Append(metrics, m)
  /\ UNCHANGED ballots

\* A ballot of somebody who is not on the roster is ignored; a second ballot
\* replaces the first.
vote(p, d) ==
  /\ ballots' = [q \in Voters |-> IF q = p THEN d ELSE ballots[q]]
  /\ UNCHANGED <<last_metric, non_improving, epochs_done, halt, metrics>>

Stops == {p \in Voters : ballots[p] = "Stop"}

RosterLen == IF Len(Participants) > 0 THEN Len(Participants) ELSE 1

\* Mutant: half of the roster is taken for a majority.
HalfStops == Cardinality(Stops) * 2 >= RosterLen

MajorityStops == Cardinality(Stops) * 2 > RosterLen

conclude_votes ==
  /\ halt' = IF halt = None /\ MajorityStops THEN "MajorityStop" ELSE halt
  /\ UNCHANGED <<last_metric, non_improving, epochs_done, ballots, metrics>>

Next ==
  \/ begin_epoch
  \/ mark_unmapped
  \/ \E m \in Metrics : epochs_done < MaxRecords /\ record_metric(m)
  \/ \E p \in Voters \cup Strangers, d \in Decisions : vote(p, d)
  \/ conclude_votes

Spec == Init /\ [][Next]_ctlVars

-----------------------------------------------------------------------------
(* Properties *)

\* metrics[i] did not improve on its predecessor.
Flat(i) ==
  /\ i > 1
  /\ ~(IF LowerIsBetter THEN metrics[i] < metrics[i - 1] - Improve
                        ELSE metrics[i] > metrics[i - 1] + Improve)

\* A halt is never withdrawn, and each is earned when it is given: the horizon
\* by as many recorded epochs, no-solution by plateau_k flat epochs in a row
\* with at least one before them, a majority stop by more than half of the
\* roster, counted with repetitions.  A plateau is always a no-solution.
HaltStep ==
  halt' # halt =>
    \/ halt' = "Unmapped"
    \/ halt' = "PaperHorizon" /\ Len(metrics') >= Horizon
    \/ /\ halt' = "NoSolution"
       /\ Len(metrics') > PlateauK
       /\ \A i \in (Len(metrics') - PlateauK + 1)..Len(metrics') : Flat(i)'
    \/ /\ halt' = "MajorityStop" /\ halt = None
       /\ \E S \in SUBSET Voters : /\ 2 * Cardinality(S) > Len(Participants)
                                   /\ \A p \in S : ballots[p] = "Stop"

=============================================================================
