----------------------------- MODULE ConvergeRun -----------------------------
(***************************************************************************)
(* A CONVERGE run of `agentbridge coordinate`: drive_converge asks the     *)
(* agents one after the other for an announcement, hands each to the       *)
(* engine through MasRuntime::apply, and lets the ConvergeController       *)
(* decide after each epoch.  The module composes the engine (ScalarEngine  *)
(* with ConvergePlants) and the controller with the driver's own state.    *)
(* An agent is external: what it replies is any value and any ballot, or   *)
(* nothing that can be read.                                               *)
(***************************************************************************)
EXTENDS ConvergePlants

CONSTANTS
  MaxRounds,     \* --max-rounds
  PaperRounds,   \* PAPER_ROUNDS of the resource engine
  Improve        \* IMPROVE_EPS

\* run_converge: the horizon of each class.
horizon ==
  LET cap == CASE Class = "Preference" -> MaxRounds
               [] Class = "Cascade"    -> Min({MaxRounds, Len(Demand)})
               [] Class = "Resource"   -> Min({MaxRounds, PaperRounds})
  IN Max({cap, 1})

plateau_k == 3

VARIABLES
  last_metric, non_improving, epochs_done, ballots, halt, metrics, \* controller
  pc,        \* where drive_converge is
  round,     \* its loop variable epoch
  turn,      \* index of the agent being asked
  tries,     \* failed attempts of ask_for_announce
  last,      \* outcome of the latest apply of this epoch
  label,     \* summary.halt, or None
  scored     \* summary.epochs: the epochs reported, with their metrics

Ctl == INSTANCE ConvergeController
  WITH Participants <- Roster, PlateauK <- plateau_k, Horizon <- horizon,
       LowerIsBetter <- lower_is_better, Metrics <- Int, Strangers <- {},
       MaxRecords <- horizon

engineVars == <<vars, plantVars>>
controllerVars == <<last_metric, non_improving, epochs_done, ballots, halt, metrics>>
driverVars == <<pc, round, turn, tries, last, label, scored>>
runVars == <<engineVars, controllerVars, driverVars>>

-----------------------------------------------------------------------------
RunInit ==
  /\ Init /\ PlantInit /\ Ctl!Init
  /\ pc = "derive" /\ round = 0 /\ turn = 1 /\ tries = 0
  /\ last = "Applied" /\ label = None /\ scored = <<>>

Finish(why) == pc' = "done" /\ label' = why

\* derive_rules: one agent without a usable rule is enough to call it off.
RuleMissing ==
  /\ pc = "derive"
  /\ Finish("missing-update-rule")
  /\ UNCHANGED <<engineVars, controllerVars, round, turn, tries, last, scored>>

RulesDerived ==
  /\ pc = "derive"
  /\ pc' = "loop"
  /\ UNCHANGED <<engineVars, controllerVars, round, turn, tries, last, label, scored>>

BeginEpoch ==
  /\ pc = "loop"
  /\ Ctl!begin_epoch
  /\ pc' = "ask" /\ turn' = 1 /\ tries' = 0 /\ last' = "Applied"
  /\ UNCHANGED <<engineVars, round, label, scored>>

\* ask_for_announce: a failed or unreadable reply is asked for once more.
Reprompt ==
  /\ pc = "ask" /\ tries = 0
  /\ tries' = 1
  /\ UNCHANGED <<engineVars, controllerVars, pc, round, turn, last, label, scored>>

\* Mutant: the attempts of an agent are not counted across failures.
AskForever ==
  /\ pc = "ask" /\ tries = 1
  /\ tries' = 0
  /\ UNCHANGED <<engineVars, controllerVars, pc, round, turn, last, label, scored>>

GiveUp ==
  /\ pc = "ask" /\ tries = 1
  /\ Finish("unreadable-announcement")
  /\ UNCHANGED <<engineVars, controllerVars, round, turn, tries, last, scored>>

\* scalar_announce, with the event id ann-<agent>-e<epoch>.
AnnounceEvent(i, n, x) ==
  [id |-> <<Roster[i], n>>, pattern |-> Class, epoch |-> n,
   source |-> [kind |-> "Peer", id |-> Roster[i]],
   payload |-> [kind |-> "ScalarProposal", participant |-> Roster[i], value |-> x]]

\* drive_converge starts with an engine at Epoch(0) and hands it an event of
\* every agent in every round.
ASSUME RunAssumption ==
  /\ InitialEpoch = 0 /\ MaxRounds \in Nat /\ PaperRounds \in Nat
  /\ None \notin Ctl!Halts \cup {"majority-stop", "paper-horizon", "no-solution",
                                "max-rounds"}
  /\ \A i \in Indices, n \in 0 .. horizon - 1, x \in FiniteScalars :
       AnnounceEvent(i, n, x) \in Events

NextTurn ==
  IF turn = RosterSize THEN pc' = "score" /\ UNCHANGED turn
                       ELSE turn' = turn + 1 /\ UNCHANGED pc

\* A readable reply with value x and, perhaps, a ballot.
Announce(x, ballot) ==
  /\ pc = "ask"
  /\ IF ballot = None THEN UNCHANGED controllerVars ELSE Ctl!vote(Roster[turn], ballot)
  /\ ApplyWithPlant(AnnounceEvent(turn, round, x))
  /\ last' = outcome'
  /\ tries' = 0
  /\ NextTurn
  /\ UNCHANGED <<round, label, scored>>

EpochFinalized == last = "Finalized"

\* Mutant: the engine's epoch is reported, which has moved on.
EpochNowOpen == active_epoch

\* finalized.epoch: the one that apply has just closed.
ScoredEpoch == active_epoch - 1

Score ==
  /\ pc = "score"
  /\ pc' = "conclude"
  /\ \/ /\ EpochFinalized
        /\ Ctl!record_metric(metric)
        /\ scored' = Append(scored, [epoch |-> ScoredEpoch, metric |-> metric])
     \/ /\ ~EpochFinalized
        /\ UNCHANGED <<controllerVars, scored>>
  /\ UNCHANGED <<engineVars, round, turn, tries, last, label>>

LabelOf(h) ==
  CASE h = "MajorityStop" -> "majority-stop"
    [] h = "Plateau"      -> "plateau"
    [] h = "PaperHorizon" -> "paper-horizon"
    [] h = "NoSolution"   -> "no-solution"
    [] h = "Unmapped"     -> "unmapped"

LastRound == round + 1 = horizon

Conclude ==
  /\ pc = "conclude"
  /\ Ctl!conclude_votes
  /\ \/ halt' # None /\ Finish(LabelOf(halt')) /\ UNCHANGED round
     \/ halt' = None /\ LastRound /\ Finish("max-rounds") /\ UNCHANGED round
     \/ halt' = None /\ ~LastRound /\ round' = round + 1 /\ pc' = "loop" /\ UNCHANGED label
  /\ UNCHANGED <<engineVars, turn, tries, last, scored>>

\* The run is over; the command returns.
Done == pc = "done" /\ UNCHANGED runVars

Step ==
  \/ RuleMissing \/ RulesDerived \/ BeginEpoch \/ Reprompt \/ GiveUp
  \/ \E x \in FiniteScalars, ballot \in {"Stop", "Continue", None} : Announce(x, ballot)
  \/ Score \/ Conclude

RunNext == Step \/ Done

\* The driver is one sequential program.  A call of an agent is assumed to return:
\* the subprocess adapters wait for it without a time limit.
RunSafety == RunInit /\ [][RunNext]_runVars

RunSpec == RunSafety /\ WF_runVars(Step)

-----------------------------------------------------------------------------
(* Properties *)

DistinctCrew == \A i, j \in Indices : Roster[i] = Roster[j] => i = j

\* What the report calls an epoch is an epoch the engine finalized, in order and
\* without gaps, scored once, and the controller has counted the same ones.
ReportIsTheHistory ==
  /\ \A k \in DOMAIN scored : scored[k].epoch = InitialEpoch + k - 1
  /\ epochs_done = Len(scored)
  /\ pc \notin {"ask", "score"} => Len(scored) = counters["finalized"]

\* A run that stops by itself says why, and the reason holds at the end: all
\* of the horizon was scored, or more than half of the crew asked to stop in
\* the last epoch, or the last three scores did not improve on the ones before.
\* A crew without repeated ids never just runs out of rounds; one that lists an
\* agent twice never scores an epoch, and two seats of one agent carry no stop.
LabelIsTrue ==
  /\ label = "paper-horizon" => Len(scored) = horizon
  /\ label = "majority-stop" =>
       2 * Cardinality({i \in Indices : ballots[Roster[i]] = "Stop"}) > RosterSize
  /\ label = "no-solution" =>
       /\ Len(scored) > plateau_k
       /\ \A k \in (Len(scored) - plateau_k + 1)..Len(scored) :
            ~(IF lower_is_better
              THEN scored[k].metric < scored[k - 1].metric - Improve
              ELSE scored[k].metric > scored[k - 1].metric + Improve)
  /\ DistinctCrew => label # "max-rounds"
  /\ ~DistinctCrew => scored = <<>> /\ label \notin {"paper-horizon", "no-solution"}

\* Every run ends, whatever the agents reply.
RunEnds == <>(pc = "done")

=============================================================================
