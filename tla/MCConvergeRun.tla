---------------------------- MODULE MCConvergeRun ----------------------------
(***************************************************************************)
(* Four CONVERGE runs and a controller in one state space: a behaviour is  *)
(* one of them from its start.  A chain of two stages is the extended      *)
(* module; a preference run, a stock shared by two and a crew that lists   *)
(* one agent twice are instances of it, with an epoch and a reason of      *)
(* their own (epoch, verdict).  The controller by itself has variables of  *)
(* its own too, a roster with a repeated id, metrics that move by less and *)
(* by more than IMPROVE_EPS, and calls in any order.                       *)
(***************************************************************************)
EXTENDS ConvergeRun

CONSTANTS ann, bob, cat, eve

MCRoster == <<ann, bob>>
MCEpochs == 0..8
MCEventIds == {ann, bob} \X MCEpochs
MCStart == <<4, 4>>
MCOptimum == <<4, 5>>
MCPaperDemand == <<4, 8, 4>>

MCEvents ==
  { AnnounceEvent(i, n, x) : i \in Indices, n \in MCEpochs, x \in FiniteScalars }

VARIABLES
  mode,           \* which of the five this behaviour is
  epoch, verdict, \* the engine's epoch and the label of a run other than the chain
  newest, streak, epochs, cast, stopped, history   \* the controller by itself

MCPreferences == {4, 5}
MCExtractions == {4, 22}   \* in halves: desired 2.0, and a greedy 11

Vector == INSTANCE ConvergeRun WITH
  Class <- "Preference", Scalars <- MCPreferences, FiniteScalars <- MCPreferences,
  active_epoch <- epoch, label <- verdict

Stock == INSTANCE ConvergeRun WITH
  Class <- "Resource", Scalars <- MCExtractions, FiniteScalars <- MCExtractions,
  active_epoch <- epoch, label <- verdict

Twice == INSTANCE ConvergeRun WITH
  Class <- "Preference", Scalars <- MCPreferences, FiniteScalars <- MCPreferences,
  Roster <- <<ann, ann>>, active_epoch <- epoch, label <- verdict

Free == INSTANCE ConvergeController WITH
  Participants <- <<ann, bob, cat, ann>>, PlateauK <- 2, Horizon <- 5,
  LowerIsBetter <- TRUE, Improve <- 1, Metrics <- {0, 1, 3}, MaxRecords <- 5,
  Strangers <- {eve},
  last_metric <- newest, non_improving <- streak, epochs_done <- epochs,
  ballots <- cast, halt <- stopped, metrics <- history

ownVars == <<newest, streak, epochs, cast, stopped, history>>

\* What the chain does not share with the other runs.
chainVars == <<active_epoch, label>>
otherVars == <<epoch, verdict>>

MCInit ==
  /\ Free!Init
  /\ \/ /\ mode \in {"chain", "controller"} /\ RunInit
        /\ epoch = InitialEpoch /\ verdict = None
     \/ /\ active_epoch = InitialEpoch /\ label = None
        /\ \/ mode = "preference" /\ Vector!RunInit
           \/ mode = "stock" /\ Stock!RunInit
           \/ mode = "twice" /\ Twice!RunInit

MCStep ==
  /\ UNCHANGED mode
  /\ \/ mode = "chain" /\ RunNext /\ UNCHANGED <<otherVars, ownVars>>
     \/ mode = "preference" /\ Vector!RunNext /\ UNCHANGED <<chainVars, ownVars>>
     \/ mode = "stock" /\ Stock!RunNext /\ UNCHANGED <<chainVars, ownVars>>
     \/ mode = "twice" /\ Twice!RunNext /\ UNCHANGED <<chainVars, ownVars>>
     \/ mode = "controller" /\ Free!Next /\ UNCHANGED <<runVars, otherVars>>

mcVars == <<mode, runVars, otherVars, ownVars>>

MCSpec == MCInit /\ [][MCStep]_mcVars /\ WF_mcVars(MCStep)

-----------------------------------------------------------------------------
\* The controller gives no halt that was not earned, whoever calls it how.
HaltsAreEarned == [][Free!HaltStep]_mcVars

\* Every run ends, whatever the agents reply, and for a reason that holds; the
\* stock has its breaches counted by then.
RunsEnd ==
  /\ mode = "chain" => <>(pc = "done")
  /\ mode = "preference" => <>(pc = "done" /\ Vector!LabelIsTrue)
  /\ mode = "stock" =>
       <>(pc = "done" /\ Stock!LabelIsTrue /\ Stock!PlantsKeepTheirBooks)
  /\ mode = "twice" => <>(pc = "done" /\ Twice!LabelIsTrue)

=============================================================================
