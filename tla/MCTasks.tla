------------------------------- MODULE MCTasks -------------------------------
(***************************************************************************)
(* A listener with its tasks (TaskExecutor), or one task on its way to a   *)
(* listener (TaskDispatch): `mode' says which of the two a behaviour shows.*)
(***************************************************************************)
EXTENDS TaskExecutor, TaskDispatch

VARIABLE mode

Bound(dest, signer, context, packet, proof, claims, binding) ==
  [dest |-> dest, signer |-> signer, context |-> context, packet |-> packet,
   proof |-> proof, claims |-> claims, binding |-> binding]

Cert(human, of, signer, expired) ==
  [human |-> human, agent |-> of, signer |-> signer, expired |-> expired]

Of(a) == Cert("human", a, "human", FALSE)

\* Two agents that name the same context, a packet, and the messages that must
\* be refused or parked.
MCMessages ==
  { Bound("me", "a", "c", FALSE, "signed", "a", Of("a")),
    Bound(NoDid, "b", "c", FALSE, "signed", "b", Of("b")),
    Bound("me", "b", "c", TRUE, "signed", "b", Of("b")),
    Bound("other", "b", "c", FALSE, "signed", "b", Of("b")),
    Bound("me", "b", "c", FALSE, "signed", "a", Of("a")),
    Bound("me", "b", "c", FALSE, "signed", "b", Of("a")),
    Bound("me", "b", "c", FALSE, "signed", "b", Cert("human", "b", "b", FALSE)),
    Bound("me", "b", "c", FALSE, "signed", "b", Cert("stranger", "b", "stranger", FALSE)),
    Bound("me", "b", "c", FALSE, "signed", "b", Cert("human", "b", "human", TRUE)),
    Bound("me", "b", "c", FALSE, "broken", "b", NoBinding),
    Bound("me", "b", "c", FALSE, "signed", "b", NoBinding),
    Bound("me", "b", "c", FALSE, "signed", "b", Malformed) }

\* p and q share a URL, q and r a name, r runs p's DID once more and announces
\* itself; s listens on SLIM and admits by human.
MCProcs == {"p", "q", "r", "s"}
MCName == [p |-> "tool", q |-> "other", r |-> "other", s |-> "slim"]
MCDid == [p |-> "did:1", q |-> "did:2", r |-> "did:1", s |-> "did:3"]
MCUrl == [p |-> "u", q |-> "u", r |-> "v", s |-> NoUrl]

Ask(kind, to, url) == [kind |-> kind, to |-> to, url |-> url]

MCRequests ==
  { Ask("delegate", to, url) : to \in {"tool", "other", "slim", "did:1", "did:2"},
                               url \in {NoUrl, "v"} }
    \cup { Ask("next", to, NoUrl) : to \in {"tool", "other", "slim"} }

MCPolicies == {"reprove", "ask", "deny"}

execVars == vars

MCInit ==
  /\ mode \in {"execute", "dispatch"} /\ Init /\ DispatchInit
  /\ mode = "execute" => request = Ask("next", "tool", NoUrl) /\ policy = "deny"

\* One task at a time is sent: its client ends, and the host with it.
Ended == stage \in {"done", "failed"}

ExecStep(A) == mode = "execute" /\ A /\ UNCHANGED <<mode, dispatchVars>>
DispStep(A) == mode = "dispatch" /\ A /\ UNCHANGED <<mode, execVars>>

MCNext ==
  \/ ExecStep(Next)
  \/ DispStep(Client)
  \/ DispStep(~Ended /\ Host)

all == <<mode, execVars, dispatchVars>>

\* The blocking threads run, a harness ends, and a client goes on.
MCSpec ==
  /\ MCInit /\ [][MCNext]_all
  /\ \A t \in Tasks : WF_all(ExecStep(Step(t))) /\ WF_all(ExecStep(Harness(t)))
  /\ WF_all(DispStep(Client))

\* The sender is told the outcome: a parked task, an escalation or a SLIM node
\* that drops the session does not keep run_auth_required_loop and the retries
\* of send_signed_task_slim asking for ever.
EveryDispatchEnds ==
  (mode = "dispatch" /\ stage = "start") ~> (stage \in {"done", "failed"})

MCTypeOK == TypeOK /\ DispatchTypeOK
==============================================================================
