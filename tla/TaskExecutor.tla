---------------------------- MODULE TaskExecutor ----------------------------
(***************************************************************************)
(* What a listener does with its tasks: AgentBridgeExecutor of             *)
(* commands/register.rs over one ProfileAdapter, that is over one table of *)
(* harness sessions (adapters/profile.rs) and one set of running children  *)
(* (subprocess.rs).  Every task runs on a blocking thread of its own, so   *)
(* the steps between two locks interleave with those of the other tasks    *)
(* and with kill_in_flight() when the listener is told to stop.            *)
(*                                                                         *)
(* A task stands for the child it starts: `active' holds tasks where the   *)
(* code holds pids.                                                        *)
(***************************************************************************)
EXTENDS Admission, Naturals, Sequences, FiniteSets, SequencesExt

CONSTANTS
  Tasks,
  Messages,           \* what peers send: Admission's record, context, packet
  Me,                 \* agent_did of this listener
  Admitted,           \* allowed_human_dids()
  MaxTracked,         \* MAX_TRACKED_CONVERSATIONS
  MaxSessions,        \* bound: session ids the harness ever gives out
  Withheld            \* replies the egress policy refuses

ASSUME TrackedIsPositive == MaxTracked \in Nat \ {0}

NoMessage == [context |-> "none", packet |-> FALSE, signer |-> NoDid]
NoSession == 0

Texts == {"plain", "next", "stored", "error"}

VARIABLES
  pc, msg,
  had,        \* whether execute_prompt_in found a session
  use,        \* use_session: FALSE in the run after a stale session
  session,    \* the session this run continues
  out,        \* what the child left: [ok, stale, sid]
  reply,
  sessions,   \* AdapterState.sessions: conversations and their sessions
  maker,      \* history: who each session was started for
  child,      \* "none", "runs" or "gone"
  active,     \* active_pids
  agent,      \* "up", "killing", "down"
  targets,    \* pids kill() has copied and not yet signalled
  signalled,
  tracked     \* history: what was recorded when kill() looked

runVars == <<had, use, session, out>>
taskVars == <<pc, msg, runVars, reply>>
killVars == <<agent, targets, signalled, tracked>>
vars == <<taskVars, sessions, maker, child, active, killVars>>

Nothing == [ok |-> FALSE, stale |-> FALSE, sid |-> NoSession]

Init ==
  /\ pc = [t \in Tasks |-> "new"] /\ msg = [t \in Tasks |-> NoMessage]
  /\ had = [t \in Tasks |-> FALSE] /\ use = [t \in Tasks |-> TRUE]
  /\ session = [t \in Tasks |-> NoSession] /\ out = [t \in Tasks |-> Nothing]
  /\ reply = [t \in Tasks |-> "plain"]
  /\ sessions = <<>> /\ maker = <<>>
  /\ child = [t \in Tasks |-> "none"] /\ active = {}
  /\ agent = "up" /\ targets = {} /\ signalled = {} /\ tracked = {}

-----------------------------------------------------------------------------
(* ProfileAdapter: the sessions, oldest first *)

\* Mutant: the context alone names the conversation.
ContextAsKey(m) == <<m.context>>

\* The peer picks the context, so the session is scoped to the proven DID.
conversation_key(m) == <<m.signer, m.context>>

\* The first entry of a conversation, or 0.
Position(conversation) == SelectInSeq(sessions, LAMBDA e : e[1] = conversation)

session_id(conversation) ==
  IF Position(conversation) = 0 THEN NoSession ELSE sessions[Position(conversation)][2]

\* No conversation has two entries (OneEntryEach), so to remove the one and to
\* retain the others is the same.
Without(conversation) ==
  IF Position(conversation) = 0 THEN sessions ELSE RemoveAt(sessions, Position(conversation))

\* store_session: an entry moves to the end; a new one may push out the oldest.
store_session(conversation, sid) ==
  LET kept == IF Position(conversation) = 0 /\ Len(sessions) >= MaxTracked
              THEN Tail(sessions) ELSE Without(conversation)
  IN sessions' = Append(kept, <<conversation, sid>>)

clear_session(conversation) == sessions' = Without(conversation)

-----------------------------------------------------------------------------
(* execute: admission *)

Up == agent # "down"
At(t, l) == Up /\ pc[t] = l
Go(t, l) == pc' = [pc EXCEPT ![t] = l]

\* A parked task is resumed by a message with its id, from whoever sends it.
Receive(t, m) ==
  /\ Up /\ pc[t] \in {"new", "AuthRequired"} /\ agent = "up"
  /\ LET gate == Gate(Me, m, Admitted)
     IN IF gate = "Proven"
        THEN /\ msg' = [msg EXCEPT ![t] = m]
             /\ Go(t, IF m.packet THEN "packet" ELSE "prompt")
        ELSE Go(t, gate) /\ UNCHANGED msg
  /\ UNCHANGED <<runVars, reply, sessions, maker, child, active,
                 killVars>>

\* A peer's handoff is stored: the coding tool is not run on it.
StoreHandoff(t) ==
  /\ At(t, "packet")
  /\ reply' = [reply EXCEPT ![t] = "stored"] /\ Go(t, "check")
  /\ UNCHANGED <<msg, runVars, sessions, maker, child,
                 active, killVars>>

-----------------------------------------------------------------------------
(* execute_prompt_in and run *)

Conversation(t) == conversation_key(msg[t])

LookUp(t) ==
  /\ At(t, "prompt")
  /\ had' = [had EXCEPT ![t] = session_id(Conversation(t)) # NoSession]
  /\ Go(t, "run")
  /\ UNCHANGED <<msg, use, session, out, reply, sessions, maker, child,
                 active, killVars>>

\* run() looks again, under a lock of its own.
Resume(t) ==
  /\ At(t, "run")
  /\ session' = [session EXCEPT ![t] =
       IF use[t] THEN session_id(Conversation(t)) ELSE NoSession]
  /\ Go(t, "spawn")
  /\ UNCHANGED <<msg, had, use, out, reply, sessions, maker, child, active,
                 killVars>>

\* run's locals go with it.
Forgotten(t) ==
  /\ had' = [had EXCEPT ![t] = FALSE] /\ use' = [use EXCEPT ![t] = TRUE]
  /\ session' = [session EXCEPT ![t] = NoSession]
  /\ out' = [out EXCEPT ![t] = Nothing]

Answer(t, text) ==
  /\ reply' = [reply EXCEPT ![t] = text] /\ Forgotten(t) /\ Go(t, "check")

\* No config root, no sandbox, no temp dir, or the tool does not start.
RunRefused(t) ==
  /\ At(t, "spawn") /\ Answer(t, "error")
  /\ UNCHANGED <<msg, sessions, maker, child,
                 active, killVars>>

Spawn(t) ==
  /\ At(t, "spawn")
  /\ child' = [child EXCEPT ![t] = "runs"] /\ Go(t, "spawned")
  /\ UNCHANGED <<msg, runVars, reply, sessions, maker, active,
                 killVars>>

Track(t) ==
  /\ At(t, "spawned")
  /\ active' = active \cup {t} /\ Go(t, "waiting")
  /\ UNCHANGED <<msg, runVars, reply, sessions, maker, child,
                 killVars>>

\* What a harness may leave: it continues the session it was given or starts one.
Outcomes(t) ==
  [ok : BOOLEAN, stale : BOOLEAN,
   sid : {NoSession, session[t]}
           \cup (IF Len(maker) < MaxSessions THEN {Len(maker) + 1} ELSE {})]

\* Failing with nothing on stdout is one outcome, whatever would be on it.
Sensible(o) == ~o.ok => o.sid = NoSession

\* The harness: it ends by itself or of the signal, before or after Track.
ChildExits(t, o) ==
  /\ child[t] = "runs" /\ Sensible(o)
  /\ child' = [child EXCEPT ![t] = "gone"]
  /\ out' = [out EXCEPT ![t] = o]
  /\ maker' = IF o.sid > Len(maker)
              THEN Append(maker, [signer |-> msg[t].signer, context |-> msg[t].context])
              ELSE maker
  /\ UNCHANGED <<pc, msg, had, use, session, reply, sessions, active, killVars>>

\* Mutant: one slot, cleared by whichever child ends first.
ForgetSlot(t) == active' = IF t \in active THEN {} ELSE active

\* active.remove(&pid)
Forget(t) == active' = active \ {t}

Untrack(t) ==
  /\ At(t, "waiting") /\ child[t] = "gone"
  /\ Forget(t) /\ Go(t, "parse")
  /\ UNCHANGED <<msg, runVars, reply, sessions, maker, child,
                 killVars>>

\* The harness says it does not know the session it was told to continue.
Stale(t) == out[t].stale /\ (~out[t].ok \/ session[t] # NoSession)

\* Mutant: asks again for as long as the harness refuses the session.
ToRetryAlways(t) == Stale(t)

\* Once, and only when a session was found, the task starts afresh.
ToRetry(t) == Stale(t) /\ had[t] /\ use[t]

Failed(t) ==
  /\ At(t, "parse")
  /\ ~out[t].ok \/ Stale(t)
  /\ IF ToRetry(t)
     THEN Go(t, "clear") /\ UNCHANGED <<reply, runVars>>
     ELSE Answer(t, "error")
  /\ UNCHANGED <<msg, sessions, maker, child, active,
                 killVars>>

\* extract_result: the text, a NEXT in it, or output it cannot read.
Succeeded(t, text) ==
  /\ At(t, "parse") /\ out[t].ok /\ ~Stale(t)
  /\ IF out[t].sid # NoSession
     THEN store_session(Conversation(t), out[t].sid)
     ELSE UNCHANGED sessions
  /\ Answer(t, text)
  /\ UNCHANGED <<msg, maker, child, active, killVars>>

ClearAndRetry(t) ==
  /\ At(t, "clear")
  /\ clear_session(Conversation(t))
  /\ use' = [use EXCEPT ![t] = FALSE] /\ Go(t, "run")
  /\ UNCHANGED <<msg, had, session, out, reply, maker, child, active, killVars>>

-----------------------------------------------------------------------------
(* The reply *)

\* egress::check comes before anything prints or forwards the reply.
WithholdReply(t) ==
  /\ At(t, "check") /\ reply[t] \in Withheld
  /\ Go(t, "Rejected")
  /\ UNCHANGED <<msg, runVars, reply, sessions, maker, child, active,
                 killVars>>

\* next_peer_to_forward: a peer was named, and the prompt was no handoff.
Forwards(t) == reply[t] = "next" /\ ~msg[t].packet

LetReplyGo(t) ==
  /\ At(t, "check") /\ reply[t] \notin Withheld
  /\ Go(t, IF Forwards(t) THEN "forward" ELSE "answer")
  /\ UNCHANGED <<msg, runVars, reply, sessions, maker, child,
                 active, killVars>>

\* dispatch_peer_handoff, on a blocking thread (see TaskDispatch); its failure
\* is only printed.
Forward(t) ==
  /\ At(t, "forward") /\ Go(t, "answer")
  /\ UNCHANGED <<msg, runVars, reply, sessions, maker, child,
                 active, killVars>>

Complete(t) ==
  /\ At(t, "answer")
  /\ Go(t, "Completed")
  /\ UNCHANGED <<msg, runVars, reply, sessions, maker, child, active,
                 killVars>>

-----------------------------------------------------------------------------
(* kill_in_flight(), when the listener stops, and the end of the process *)

KillBegins ==
  /\ agent = "up" /\ agent' = "killing"
  /\ targets' = active
  /\ tracked' = {t \in Tasks : pc[t] = "waiting" /\ child[t] = "runs"}
  /\ UNCHANGED <<taskVars, sessions, maker, child, active, signalled>>

Terminate(t) ==
  /\ agent = "killing" /\ t \in targets
  /\ targets' = targets \ {t} /\ signalled' = signalled \cup {t}
  /\ UNCHANGED <<taskVars, sessions, maker, child, active, agent, tracked>>

ProcessExits ==
  /\ agent = "killing" /\ targets = {} /\ agent' = "down"
  /\ UNCHANGED <<taskVars, sessions, maker, child, active, targets, signalled, tracked>>

-----------------------------------------------------------------------------
Step(t) ==
  \/ StoreHandoff(t) \/ LookUp(t) \/ Resume(t) \/ RunRefused(t) \/ Spawn(t) \/ Track(t)
  \/ Untrack(t) \/ Failed(t) \/ ClearAndRetry(t)
  \/ WithholdReply(t) \/ LetReplyGo(t) \/ Forward(t) \/ Complete(t)
  \/ \E text \in {"plain", "next", "error"} : Succeeded(t, text)

Harness(t) == \E o \in Outcomes(t) : ChildExits(t, o)

Next ==
  \/ \E t \in Tasks : Step(t) \/ Harness(t) \/ Terminate(t)
  \/ \E t \in Tasks, m \in Messages : Receive(t, m)
  \/ KillBegins \/ ProcessExits

\* The blocking threads are scheduled, and a harness ends sooner or later.
Fairness == \A t \in Tasks : WF_vars(Step(t)) /\ WF_vars(Harness(t))

\* What is true whatever the scheduler does.
Safety == Init /\ [][Next]_vars

Spec == Safety /\ Fairness

-----------------------------------------------------------------------------
TypeOK ==
  /\ pc \in [Tasks -> {"new", "packet", "prompt", "run", "spawn", "spawned", "waiting",
                       "parse", "clear", "check", "forward", "answer", "Completed",
                       "Rejected", "AuthRequired"}]
  /\ reply \in [Tasks -> Texts] /\ active \subseteq Tasks
  /\ Len(sessions) =< MaxTracked

\* A conversation has one entry: the find(), position() and retain() of
\* ProfileAdapter mean the same one.
OneEntryEach ==
  \A i, j \in DOMAIN sessions : sessions[i][1] = sessions[j][1] => i = j

\* A harness session is only ever continued for the agent and the context it
\* was started for, whoever names that context (conversation_key), and only
\* for a message that is addressed to this agent and signed by whom it claims.
SessionsArePrivate ==
  \A t \in Tasks : child[t] = "runs" =>
    /\ Gate(Me, msg[t], Admitted) = "Proven"
    /\ session[t] # NoSession =>
         maker[session[t]] = [signer |-> msg[t].signer, context |-> msg[t].context]

\* When the process is gone, every child that was recorded as running when
\* kill() took its copy has been signalled, although other children ended and
\* were removed in the meantime: a set of pids, not one slot.
KillReachesTracked == agent = "down" => tracked \subseteq signalled

\* Every message that is let in is answered, unless the process ends.
TasksEnd ==
  \A t \in Tasks : pc[t] = "prompt" ~> (pc[t] \in {"Completed", "Rejected"} \/ ~Up)
=============================================================================
