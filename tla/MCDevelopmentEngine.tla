----------------------- MODULE MCDevelopmentEngine -----------------------
(***************************************************************************)
(* Three AgentIds, two of them participants, and a stream of events that   *)
(* holds every kind of source, payload, pattern and epoch, with event ids  *)
(* that clash and with submissions that are resubmitted.                   *)
(***************************************************************************)
EXTENDS DevelopmentEngine

CONSTANTS art1, art2

Peer(a) == [kind |-> "Peer", id |-> a]
Of(kind) == [kind |-> kind]
Code(x) == [kind |-> "ExternalBytes", artifact |-> x]
Endorse(a) == [kind |-> "ToolResult", tool_name |-> a, accepted |-> TRUE]
Decline(a) == [kind |-> "ToolResult", tool_name |-> a, accepted |-> FALSE]

Ev(id, pattern, epoch, source, payload) ==
  [id |-> id, pattern |-> pattern, epoch |-> epoch, source |-> source,
   payload |-> payload]

MCParticipants == {1, 2}
MCEpochs == 0..3
MCEventIds == 1..6

\* Epoch 0 lies before the initial epoch.
MCEvents ==
  { Ev(1, "Development", 1, Peer(1), Code(art1)),
    Ev(2, "Development", 1, Peer(2), Code(art2)),
    Ev(3, "Development", 1, Peer(2), Code(art1)),      \* resubmission
    Ev(1, "Development", 1, Peer(2), Code(art2)),      \* clashing id
    Ev(4, "Development", 1, Peer(3), Endorse(1)),      \* vote of an outsider
    Ev(5, "Development", 1, Of("Local"), Code(art2)),  \* not a participant
    Ev(5, "Development", 1, Of("Task"), Code(art2)),
    Ev(6, "Development", 1, Of("Tool"), Endorse(2)),
    Ev(6, "Development", 1, Peer(2), Decline(1)),
    Ev(1, "Other",       1, Peer(1), Code(art1)),
    Ev(1, "Development", 0, Peer(1), Code(art1)),
    Ev(3, "Development", 2, Peer(1), Code(art2)),
    Ev(5, "Development", 2, Peer(2), Code(art1)),
    Ev(4, "Development", 2, Peer(1), [kind |-> "Other"]),
    Ev(6, "Development", 2, Peer(1), Endorse(1)) }

=============================================================================
