----------------------------- MODULE Coordinate -----------------------------
(***************************************************************************)
(* A development run of `agentbridge coordinate`: in each round the driver *)
(* collects a proposal from every agent that answers, applies all but the  *)
(* last, collects endorsements from every agent that answers, and applies  *)
(* the last proposal, which is meant to finalize the epoch.  The module    *)
(* composes the driver with DevelopmentEngine.  Agents are external: each  *)
(* call of one may fail, a proposal is the artifact <<agent, round>>, and  *)
(* an endorsement may name anybody.                                        *)
(***************************************************************************)
EXTENDS DevelopmentEngine, Sequences, SequencesExt

CONSTANTS
  Crew,           \* the agents of --agents, in order, repetitions included
  RequireHuman    \* --require-human

VARIABLES
  pc,         \* where run() is
  round,      \* its loop variable epoch
  turn,       \* index into Crew or collected
  collected,  \* the proposals of this round: agents, in order of arrival
  saved,      \* the artifact reported, or None
  ballots     \* history variable: agent -> agent it endorsed this round

driverVars == <<pc, round, turn, collected, saved, ballots>>

NoBallots == [a \in Agents |-> None]

CoordInit ==
  /\ Init
  /\ pc = IF MaxRounds = 0 THEN "finish" ELSE "propose"
  /\ round = 0 /\ turn = 1 /\ collected = <<>>
  /\ saved = None /\ ballots = NoBallots

-----------------------------------------------------------------------------
(* proposal_event and vote_event *)

ArtifactOf(a, n) == <<a, n>>

ProposalEvent(a, n) ==
  [id |-> <<"prop", a, n>>, pattern |-> "Development", epoch |-> n,
   source |-> [kind |-> "Peer", id |-> a],
   payload |-> [kind |-> "ExternalBytes", artifact |-> ArtifactOf(a, n)]]

VoteEvent(a, endorsee, n, valid) ==
  [id |-> <<"vote", a, n>>, pattern |-> "Development", epoch |-> n,
   source |-> [kind |-> "Peer", id |-> a],
   payload |-> [kind |-> "ToolResult", tool_name |-> endorsee, accepted |-> valid]]

\* The configuration run() builds for its crew.
CrewAssumption ==
  /\ Crew \in Seq(Agents) /\ Len(Crew) > 0
  /\ Participants = Range(Crew)
  /\ Quorum <= Len(Crew)                      \* effective_quorum
  /\ RequireHuman \in BOOLEAN /\ 0 \in Epochs
  /\ \A a \in Range(Crew), n \in 0 .. MaxRounds - 1 :
       /\ ProposalEvent(a, n) \in Events
       /\ \A b \in Agents, valid \in BOOLEAN : VoteEvent(a, b, n, valid) \in Events

-----------------------------------------------------------------------------
\* Mutant: a round without a proposal is asked for again.
ProposalsAgain(list) ==
  /\ pc' = CASE list = <<>>    -> "propose"
             [] Len(list) = 1  -> "vote"
             [] OTHER          -> "apply"
  /\ turn' = 1

\* The proposal phase is over: it was in vain, or its proposals are applied.
ProposalsIn(list) ==
  /\ pc' = CASE list = <<>>    -> "failed"
             [] Len(list) = 1  -> "vote"
             [] OTHER          -> "apply"
  /\ turn' = 1

AfterProposal(list) ==
  IF turn < Len(Crew) THEN turn' = turn + 1 /\ UNCHANGED pc ELSE ProposalsIn(list)

Propose ==
  /\ pc = "propose"
  /\ collected' = Append(collected, Crew[turn])
  /\ AfterProposal(collected')
  /\ UNCHANGED <<vars, round, saved, ballots>>

ProposeFails ==
  /\ pc = "propose"
  /\ AfterProposal(collected)
  /\ UNCHANGED <<vars, round, collected, saved, ballots>>

\* Proposals 1..N-1.
ApplyEarly ==
  /\ pc = "apply"
  /\ Apply(ProposalEvent(collected[turn], round))
  /\ IF turn + 1 < Len(collected)
     THEN turn' = turn + 1 /\ UNCHANGED pc
     ELSE turn' = 1 /\ pc' = "vote"
  /\ UNCHANGED <<round, collected, saved, ballots>>

NextVoter ==
  IF turn < Len(Crew) THEN turn' = turn + 1 /\ UNCHANGED pc
                      ELSE turn' = 1 /\ pc' = "decide"

IsCandidate(endorsee) == endorsee \in Range(collected)

Vote(endorsee) ==
  /\ pc = "vote"
  /\ Apply(VoteEvent(Crew[turn], endorsee, round, IsCandidate(endorsee)))
  /\ ballots' = [ballots EXCEPT ![Crew[turn]] =
                   IF IsCandidate(endorsee) THEN endorsee ELSE @]
  /\ NextVoter
  /\ UNCHANGED <<round, collected, saved>>

VoteFails ==
  /\ pc = "vote"
  /\ NextVoter
  /\ UNCHANGED <<vars, round, collected, saved, ballots>>

MoreRounds == round + 1 < MaxRounds

\* The last proposal; each round starts with an empty list of proposals.
ApplyLast ==
  /\ pc = "decide"
  /\ Apply(ProposalEvent(Last(collected), round))
  /\ \/ /\ selected'[round] # None \/ ~MoreRounds
        /\ pc' = "finish"
        /\ UNCHANGED <<round, collected, ballots>>
     \/ /\ selected'[round] = None /\ MoreRounds
        /\ pc' = "propose"
        /\ round' = round + 1 /\ collected' = <<>> /\ ballots' = NoBallots
  /\ turn' = 1
  /\ UNCHANGED saved

\* finish() looks up the round that was decided, or the last one.
FinishEmpty ==
  /\ pc = "finish" /\ selected[round] = None
  /\ pc' = "done"
  /\ UNCHANGED <<vars, round, turn, collected, saved, ballots>>

FinishWith ==
  /\ pc = "finish" /\ selected[round] # None
  /\ pc' = "done" /\ saved' = selected[round]
  /\ UNCHANGED <<vars, round, turn, collected, ballots>>

OperatorRejects ==
  /\ pc = "finish" /\ selected[round] # None /\ RequireHuman
  /\ pc' = "rejected"
  /\ UNCHANGED <<vars, round, turn, collected, saved, ballots>>

Ended == pc \in {"done", "failed", "rejected"}

Stopped == Ended /\ UNCHANGED <<vars, driverVars>>

Step ==
  \/ Propose \/ ProposeFails \/ ApplyEarly
  \/ \E endorsee \in Agents : Vote(endorsee)
  \/ VoteFails \/ ApplyLast
  \/ FinishEmpty \/ FinishWith \/ OperatorRejects

CoordNext == Step \/ Stopped

\* The driver is one sequential program.  A call of an agent is assumed to return:
\* the subprocess adapters wait for it without a time limit.
CoordSpec == CoordInit /\ [][CoordNext]_<<vars, driverVars>>
                       /\ WF_<<vars, driverVars>>(Step)

-----------------------------------------------------------------------------
(* Properties *)

EndorsementsOf(a) == Cardinality({v \in Agents : ballots[v] = a})

\* With the quorum at the size of the crew the winner is a candidate of the
\* decided round that nobody has more endorsements than.
WinnerHasMostEndorsements ==
  saved # None =>
    \E i \in DOMAIN collected :
      /\ saved = ArtifactOf(collected[i], round)
      /\ \A j \in DOMAIN collected :
           EndorsementsOf(collected[j]) <= EndorsementsOf(collected[i])

\* Every run ends, whichever calls of agents fail.
CoordEnds == <>Ended

=============================================================================
