--------------------------- MODULE MCScalarEngine ---------------------------
(***************************************************************************)
(* A roster of two agents, an outsider, and events with every kind of      *)
(* source, payload, pattern and epoch, clashing event ids included.        *)
(***************************************************************************)
EXTENDS ScalarEngine

CONSTANTS ann, bob, eve, nan

From(kind, id) == [kind |-> kind, id |-> id]
Of(kind) == [kind |-> kind]
Scalar(p, x) == [kind |-> "ScalarProposal", participant |-> p, value |-> x]

Ev(id, pattern, epoch, source, payload) ==
  [id |-> id, pattern |-> pattern, epoch |-> epoch, source |-> source,
   payload |-> payload]

MCRoster == <<ann, bob>>
MCStart == <<1, 1>>
MCScalars == {1, 2, nan}
MCFiniteScalars == {1, 2}
MCEventIds == 1..6
MCEpochs == 0..3

MCEvents ==
  { Ev(1, Class, 1, From("Peer", ann), Scalar(ann, 1)),
    Ev(2, Class, 1, From("Peer", ann), Scalar(ann, 2)),   \* a second thought
    Ev(3, Class, 1, From("Tool", bob), Scalar(bob, 2)),
    Ev(1, Class, 1, Of("Local"),       Scalar(bob, 1)),   \* clashing id
    Ev(4, Class, 1, From("Peer", bob), Scalar(ann, 2)),   \* speaks for another
    Ev(4, Class, 1, From("Peer", eve), Scalar(eve, 2)),
    Ev(5, Class, 1, Of("Task"),        Scalar(ann, 2)),
    Ev(5, Class, 1, From("Peer", ann), Scalar(ann, nan)),
    Ev(6, Class, 1, From("Peer", bob), [kind |-> "Other"]),
    Ev(1, "Other", 1, From("Peer", ann), Scalar(ann, 1)),
    Ev(1, Class, 0, From("Peer", ann), Scalar(ann, 1)),
    Ev(2, Class, 2, From("Peer", ann), Scalar(ann, 2)),
    Ev(6, Class, 2, From("Peer", bob), Scalar(bob, 1)) }

=============================================================================
