---------------------------- MODULE SecretLaunch ----------------------------
(***************************************************************************)
(* The state of `shadictl' while it delivers trusted secrets, and what the *)
(* delivery promises of it.  SecretDelivery is how the state changes.      *)
(***************************************************************************)
EXTENDS Sequences, Naturals

Child == "child"

VARIABLES
  config,     \* [direct, policy]: the rules of the session
  pc,         \* where the launch is
  brokers,    \* secrets: Seq of [kind, name, children, sha256]
  turn,       \* the rule, or the broker, the main thread is at
  polls,      \* since deliver_secret_to_process began
  dirs,       \* endpoint directories that exist: indices into brokers
  stray,      \* a directory was made for an endpoint that was not: nobody owns it
  backlog,    \* connections waiting at each endpoint: [pid, nonce]
  worker,     \* state of each broker's worker thread
  held,       \* the connection a worker has verified
  failed,     \* deliver_after_spawn or a join returned an error
  relaunch,   \* the child was killed for a policy update
  launches,
  replaced,   \* programs whose file was replaced since the start
  proc,       \* pid -> [status, program, parent]
  received    \* history: broker -> the processes its payload was written to

-----------------------------------------------------------------------------
(* Properties *)

\* A payload is written once in a launch, whoever connects and how often: a
\* direct secret to the launched child itself, a delegated one to a helper and
\* never to the child that delegates.
OneReader ==
  \A i \in DOMAIN brokers :
    /\ Len(received[i]) <= 1
    /\ \A k \in DOMAIN received[i] : (received[i][k] = Child) = (brokers[i].kind = "Direct")

\* A launch takes everything it made with it: when the command returns, or
\* before a relaunch resolves its secrets anew, no worker is left that could
\* still hand one out and no endpoint remains, whichever step failed.  What may
\* stay behind is one directory, made by prepare_secret_broker for an endpoint
\* that it then could not bind or give a nonce: the command then returns an
\* error, nothing is relaunched and no secret of that launch was handed out.
NothingIsLeft ==
  /\ pc \in {"resolve", "done"} =>
       dirs = {} /\ \A i \in DOMAIN worker : worker[i] \in {"none", "joined"}
  /\ stray => /\ failed /\ pc \in {"close", "done"}
              /\ \A i \in DOMAIN received : received[i] = <<>>

\* A peer that has fetched its secret, runs and does not read it.
ChildReadsNot == pc = "write" /\ proc[Child].status = "running"
HelperReadsNot ==
  \E i \in DOMAIN worker : worker[i] = "write" /\ proc[held[i]].status = "running"

\* A delivery comes to an end: no order of connections, no silent child and no
\* worker keeps the command from returning once the child is gone.  The one
\* exception is a peer that was given its secret and neither reads it nor goes
\* away: write_all has no time limit, in the launch or in a worker that is
\* joined.
DeliveryEnds ==
  /\ ((pc = "deliver") ~> (pc \notin {"deliver", "write"})) \/ <>[]ChildReadsNot
  /\ ((pc \in {"background", "close"}) ~> (pc \in {"resolve", "done"}))
       \/ <>[]HelperReadsNot

=============================================================================
