---------------------------- MODULE MCCoordinate ----------------------------
(***************************************************************************)
(* A development run of a crew of three, where an endorsement that is not  *)
(* of a candidate names an agent whose proposal failed; or the ASSEMBLY    *)
(* before a run, with texts that hold no, one and several CLASS lines and  *)
(* leading, tied and missing keywords.  A behaviour is one or the other.   *)
(***************************************************************************)
EXTENDS Coordinate, Assembly

ASSUME CrewAssumption

MCTrio == <<2, 1, 3>>
MCParticipants == {Crew[i] : i \in DOMAIN Crew}
MCEpochs == 0..3
MCArtifacts == Agents \X MCEpochs
MCEventIds == {"prop", "vote"} \X Agents \X MCEpochs

MCEvents ==
  { ProposalEvent(a, n) : a \in Agents, n \in MCEpochs }
    \cup { VoteEvent(a, b, n, v) :
             a \in Agents, b \in Agents, n \in MCEpochs, v \in BOOLEAN }

Hits(p, c, q) == [x \in {"Preference", "Cascade", "Resource"} |->
  CASE x = "Preference" -> p [] x = "Cascade" -> c [] x = "Resource" -> q]
Says(class, hits) == [class |-> class, hits |-> hits]

MCTexts ==
  { Says(<<>>, Hits(0, 0, 0)),
    Says(<<>>, Hits(1, 1, 0)),
    Says(<<>>, Hits(1, 2, 0)),
    Says(<<"">>, Hits(0, 0, 1)),
    Says(<<"", "Development">>, Hits(2, 0, 0)),
    Says(<<"stranger", "Cascade">>, Hits(0, 0, 0)),
    Says(<<"Preference">>, Hits(0, 0, 2)) }

VARIABLE mode    \* "assembly" or "development"

MCInit ==
  \/ /\ mode = "assembly" /\ AssemblyInit
     /\ Init /\ pc = "finish" /\ round = 0 /\ turn = 1 /\ collected = <<>>
     /\ saved = None /\ ballots = NoBallots
  \/ /\ mode = "development" /\ CoordInit
     /\ seed = "Development" /\ assembly = FALSE /\ goal = NoClass
     /\ inferred = NoClass /\ replies = <<>> /\ phase = "development"
     /\ pattern = "Development"

MCNext ==
  /\ UNCHANGED mode
  /\ \/ /\ mode = "assembly" /\ AssemblyNext /\ UNCHANGED <<vars, driverVars>>
     \/ /\ mode = "assembly" /\ phase \in {"converge", "development", "refused"}
        /\ UNCHANGED <<vars, driverVars, assemblyVars>>
     \/ mode = "development" /\ CoordNext /\ UNCHANGED assemblyVars

mcVars == <<mode, vars, driverVars, assemblyVars>>

MCSpec == MCInit /\ [][MCNext]_mcVars /\ WF_mcVars(MCNext)

-----------------------------------------------------------------------------
\* Every run ends, whichever calls of agents fail.
RunEnds == mode = "development" => CoordEnds

=============================================================================
