---------------------------- MODULE TaskDispatch ----------------------------
(***************************************************************************)
(* Sending one task to a named agent: how `agentbridge delegate' and the   *)
(* NEXT of a reply find the peer (commands/delegate.rs,                    *)
(* resolve_handoff_target of register.rs) in the leases of this host       *)
(* (local_registry.rs), at dir-runtime and in the Agent Directory          *)
(* (member_source.rs), and how LiveA2ATaskAdapter (experiments/mod.rs,     *)
(* auth_required.rs) sends it, with its retries.  Agents start, stop and   *)
(* crash in between, and take over each other's URLs.                      *)
(*                                                                         *)
(* A listener is a process: its pid is the process itself.                 *)
(***************************************************************************)
EXTENDS Admission, Naturals, FiniteSets

CONSTANTS
  Procs,
  Name, Did, Url,      \* of each process; NoUrl: it listens on SLIM only
  Announces,           \* processes that describe themselves to dir-runtime
  Strict,              \* processes with SHADI_MEMBER_HUMAN_DIDS set
  Published,           \* processes whose record the Agent Directory has
  NoUrl,
  Requests,            \* [kind, to, url]: "delegate" or "next", a name or a DID
  Policies,            \* SHADI_AUTH_REQUIRED_POLICY
  MaxAttempts,         \* SHADI_AUTH_REQUIRED_MAX_ATTEMPTS
  MaxRetries,          \* SHADI_LIVE_A2A_RETRY_ATTEMPTS
  SlimFallback         \* whether the listener that says NEXT has a SLIM node

\* publish() takes no record without a DID, and no name that reads like one.
ASSUME NamesAssumption ==
  \A p \in Procs : Did[p] # NoDid /\ \A q \in Procs : Name[p] # Did[q]

ASSUME PublishedAssumption == Published \subseteq Procs

NoPeer == [name |-> "", did |-> NoDid, url |-> NoUrl]

VARIABLES
  proc,      \* "down", "leased" (the file is written), "up" (bound too)
  files,     \* leases, and descriptors of those that announce
  request, policy,
  stage,
  leased,    \* what the first look at the leases gave: a DID, "none", "ambiguous"
  peer, found,
  attempt,   \* of send_signed_task_slim
  parks,     \* of run_auth_required_loop
  accepted   \* processes that ran the task, with whom it was meant for

hostVars == <<proc, files>>
askVars == <<request, policy>>
dispatchVars == <<hostVars, askVars, stage, leased, peer, found, attempt, parks, accepted>>

DispatchInit ==
  /\ proc = [p \in Procs |-> "down"] /\ files = {}
  /\ request \in Requests /\ policy \in Policies
  /\ stage = "start" /\ leased = "none" /\ peer = NoPeer /\ found = "Local"
  /\ attempt = 0 /\ parks = 0 /\ accepted = {}

-----------------------------------------------------------------------------
(* Listeners, as run_unicast_listener and run_slim_listener start and end *)

sendVars == <<askVars, stage, leased, peer, found, attempt, parks, accepted>>

Alive(p) == proc[p] # "down"

\* The lease is written before the address is bound.
Leases(p) ==
  /\ proc[p] = "down" /\ proc' = [proc EXCEPT ![p] = "leased"]
  /\ files' = IF p \in Announces THEN files ELSE files \cup {p}
  /\ UNCHANGED sendVars

Taken(p) == Url[p] # NoUrl /\ \E q \in Procs : proc[q] = "up" /\ Url[q] = Url[p]

Binds(p) ==
  /\ proc[p] = "leased" /\ ~Taken(p)
  /\ proc' = [proc EXCEPT ![p] = "up"]
  /\ files' = files \cup {p}
  /\ UNCHANGED sendVars

\* The address is taken, or the listener stops: the guard removes the file.
Stops(p) ==
  /\ Alive(p) /\ proc' = [proc EXCEPT ![p] = "down"]
  /\ files' = files \ {p}
  /\ UNCHANGED sendVars

Crashes(p) ==
  /\ Alive(p) /\ proc' = [proc EXCEPT ![p] = "down"]
  /\ UNCHANGED <<files, sendVars>>

-----------------------------------------------------------------------------
(* LocalAdapterRegistry *)

Candidate(p) == [name |-> Name[p], did |-> Did[p], url |-> Url[p]]

\* A DID is the portable name; a tool name is an alias on this host.
Matches(p, query) == query = Did[p] \/ query = Name[p]

IsDid(query) == \E p \in Procs : query = Did[p]

\* list_live drops the leases of processes that are gone.
Swept == {p \in files : Alive(p) \/ p \in Announces}

list_live == {p \in files : Alive(p) /\ p \notin Announces}

find_live(query) == {p \in list_live : Matches(p, query)}

\* resolve_live's answer for a set of matches.
Unique(matches) ==
  CASE matches = {} -> "none"
    [] Cardinality(matches) = 1 -> "one"
    [] OTHER -> "ambiguous"

TheOne(matches) == Candidate(CHOOSE p \in matches : TRUE)

-----------------------------------------------------------------------------
(* delegate: resolve_peer_found *)

Stage(s) == stage = s
Fail == stage' = "failed"

\* The peer is settled; --a2a-url replaces its locator, never its name.
apply_locator_override(q) ==
  IF request.url = NoUrl THEN q ELSE [q EXCEPT !.url = request.url]

Settle(q, where) ==
  /\ peer' = apply_locator_override(q) /\ found' = where /\ stage' = "send"

\* Nothing was resolved: a DID with a locator of the caller's is still a peer.
Unresolved ==
  IF IsDid(request.to) /\ request.url # NoUrl
  THEN Settle([name |-> request.to, did |-> request.to, url |-> NoUrl], "Local")
  ELSE Fail /\ UNCHANGED <<peer, found>>

LookAtLeases ==
  /\ Stage("start") /\ request.kind = "delegate"
  /\ LET matches == find_live(request.to)
     IN /\ leased' = IF Unique(matches) = "one" THEN TheOne(matches).did ELSE Unique(matches)
        /\ IF leased' = "ambiguous"
           THEN Unresolved
           ELSE /\ stage' = IF IsDid(request.to) THEN "fallback" ELSE "runtime"
                /\ UNCHANGED <<peer, found>>
  /\ files' = Swept
  /\ UNCHANGED <<proc, askVars, attempt, parks, accepted>>

\* What dir-runtime reports: a crash leaves the descriptor behind.
Running(query) == {p \in files \cap Announces : Matches(p, query)}

\* find_running_peer_at: --a2a-url picks among several.
Picked(matches) ==
  LET at == {p \in matches : request.url # NoUrl /\ Url[p] = request.url}
  IN IF Cardinality(matches) > 1 /\ Cardinality(at) = 1 THEN at ELSE matches

\* For a name it comes before the Directory, for a DID after it.
AskRuntime ==
  /\ Stage("runtime")
  /\ LET matches == Picked(Running(request.to))
         answer == Unique(matches)
         other == TheOne(matches)
     IN CASE answer = "ambiguous" -> Unresolved
          [] answer = "none" ->
               IF IsDid(request.to)
               THEN Unresolved
               ELSE stage' = "fallback" /\ UNCHANGED <<peer, found>>
          [] answer = "one" /\ leased = "none" -> Settle(other, "Runtime")
          [] answer = "one" /\ leased \notin {"none", other.did} -> Unresolved
          [] OTHER -> stage' = "named" /\ peer' = other /\ UNCHANGED found
  /\ UNCHANGED <<hostVars, askVars, leased, attempt, parks, accepted>>

\* No dir-runtime is normal, and any other error of it is only printed.
RuntimeSilent ==
  /\ Stage("runtime")
  /\ IF IsDid(request.to)
     THEN Unresolved
     ELSE stage' = "fallback" /\ UNCHANGED <<peer, found>>
  /\ UNCHANGED <<hostVars, askVars, leased, attempt, parks, accepted>>

\* resolve_adapter_peer, under the label that the first look decided.
Label == IF leased = "none" THEN "Directory" ELSE "Local"

\* names_only: the caller's URL is the announced listener's alone.
NamesOnly(other, lease) ==
  request.url # NoUrl /\ other.url = request.url /\ lease.url # request.url

InLeases ==
  /\ stage \in {"fallback", "named"}
  /\ LET matches == find_live(request.to)
         lease == TheOne(matches)
     IN CASE Unique(matches) = "ambiguous" -> Unresolved
          [] Unique(matches) = "one" ->
               IF Stage("named") /\ NamesOnly(peer, lease)
               THEN Settle(peer, "Runtime")
               ELSE Settle(lease, Label)
          [] OTHER ->
               IF IsDid(request.to)
               THEN stage' = "directory" /\ UNCHANGED <<peer, found>>
               ELSE Unresolved
  /\ files' = Swept
  /\ UNCHANGED <<proc, askVars, leased, attempt, parks, accepted>>

Records == {p \in Published : Did[p] = request.to}

InDirectory ==
  /\ Stage("directory") /\ Records # {}
  /\ \E p \in Records : Settle(Candidate(p), Label)
  /\ UNCHANGED <<hostVars, askVars, leased, attempt, parks, accepted>>

\* dir-runtime is asked about a DID only when the Directory has no such record.
NotInDirectory ==
  /\ Stage("directory") /\ Records = {}
  /\ IF leased = "none"
     THEN stage' = "runtime" /\ UNCHANGED <<peer, found>>
     ELSE Unresolved
  /\ UNCHANGED <<hostVars, askVars, leased, attempt, parks, accepted>>

\* The gateway is down, or a record cannot be read.
DirectoryFails ==
  /\ Stage("directory") /\ Unresolved
  /\ UNCHANGED <<hostVars, askVars, leased, attempt, parks, accepted>>

-----------------------------------------------------------------------------
(* NEXT: resolve_handoff_target looks at the leases only *)

ResolveNext ==
  /\ Stage("start") /\ request.kind = "next"
  /\ LET matches == find_live(request.to)
         answer == Unique(matches)
     IN CASE answer = "one" ->
               peer' = TheOne(matches) /\ stage' = "send"
          [] answer = "none" /\ SlimFallback ->
               peer' = [NoPeer EXCEPT !.name = request.to] /\ stage' = "send"
          [] OTHER -> Fail /\ UNCHANGED peer
  /\ files' = Swept
  /\ UNCHANGED <<proc, askVars, leased, found, attempt, parks, accepted>>

-----------------------------------------------------------------------------
(* LiveA2ATaskAdapter *)

\* task_message: signed by the sender, addressed to the peer's DID if known.
Message == [dest |-> peer.did, proof |-> "signed", claims |-> "sender",
            signer |-> "sender", binding |-> NoBinding]

\* Whoever is bound to the URL, or has the name on SLIM, gets it.
Receivers ==
  {p \in Procs : /\ proc[p] = "up"
                 /\ IF peer.url # NoUrl THEN Url[p] = peer.url
                    ELSE Url[p] = NoUrl /\ Name[p] = peer.name}

GateOf(p) == Gate(Did[p], Message, IF p \in Strict THEN {"human"} ELSE {})

\* The task runs at the receiver, whether or not the answer comes back.
Accepts(p) ==
  accepted' = IF GateOf(p) = "Proven"
              THEN accepted \cup {[proc |-> p, did |-> peer.did, name |-> peer.name]}
              ELSE accepted

\* Mutant: the repeat bound is not looked at.
DecideWithoutBound(n) ==
  CASE policy = "deny" -> "Deny"
    [] policy = "ask" /\ n > 1 -> "Escalate"
    [] OTHER -> "ReProve"

\* decide_auth_required, for the attempt-th park.
decide_auth_required(n) ==
  CASE n > MaxAttempts \/ policy = "deny" -> "Deny"
    [] n <= MaxAttempts /\ policy = "ask" /\ n > 1 -> "Escalate"
    [] OTHER -> "ReProve"

\* run_auth_required_loop: one turn.
Parked ==
  LET action == decide_auth_required(parks + 1)
  IN /\ parks' = IF parks > MaxAttempts THEN parks ELSE parks + 1
     /\ attempt' = 0
     /\ stage' = CASE action = "Deny" -> "failed"
                   [] action = "Escalate" -> "escalate"
                   [] OTHER -> "send"

\* a2a_reply: a task the peer rejects is an error of the sender's.
Answered(p) ==
  /\ Stage("send") /\ p \in Receivers
  /\ Accepts(p)
  /\ IF GateOf(p) = "AuthRequired"
     THEN Parked
     ELSE /\ stage' = IF GateOf(p) = "Proven" THEN "done" ELSE "failed"
          /\ UNCHANGED <<attempt, parks>>
  /\ UNCHANGED <<hostVars, askVars, leased, peer, found>>

\* SHADI_AUTH_REQUIRED_ESCALATE holds a note, or the task is denied.
Escalate(noted) ==
  /\ Stage("escalate") /\ stage' = IF noted THEN "send" ELSE "failed"
  /\ UNCHANGED <<hostVars, askVars, leased, peer, found, attempt, parks, accepted>>

\* Over a URL an error is final; over SLIM a transient one is tried again.
Again ==
  IF peer.url = NoUrl /\ attempt < MaxRetries
  THEN attempt' = attempt + 1 /\ UNCHANGED stage
  ELSE Fail /\ UNCHANGED attempt

NotReached ==
  /\ Stage("send") /\ Again
  /\ UNCHANGED <<hostVars, askVars, leased, peer, found, parks, accepted>>

\* The session closes under the answer (client.destroy() is part of the attempt).
AnswerLost(p) ==
  /\ Stage("send") /\ p \in Receivers
  /\ Accepts(p) /\ Again
  /\ UNCHANGED <<hostVars, askVars, leased, peer, found, parks>>

\* No DID in the environment, or an error that is not transient.
SendFails ==
  /\ Stage("send") /\ Fail
  /\ UNCHANGED <<hostVars, askVars, leased, peer, found, attempt, parks, accepted>>

-----------------------------------------------------------------------------
Client ==
  \/ LookAtLeases \/ AskRuntime \/ RuntimeSilent \/ InLeases
  \/ InDirectory \/ NotInDirectory \/ DirectoryFails \/ ResolveNext
  \/ \E p \in Procs : Answered(p) \/ AnswerLost(p)
  \/ \E noted \in BOOLEAN : Escalate(noted)
  \/ NotReached \/ SendFails

Host == \E p \in Procs : Leases(p) \/ Binds(p) \/ Stops(p) \/ Crashes(p)

DispatchNext == Client \/ Host

DispatchSafety == DispatchInit /\ [][DispatchNext]_dispatchVars

-----------------------------------------------------------------------------
DispatchTypeOK ==
  /\ proc \in [Procs -> {"down", "leased", "up"}] /\ files \subseteq Procs
  /\ stage \in {"start", "runtime", "fallback", "named", "directory", "send",
                "escalate", "done", "failed"}
  /\ attempt \in 0..MaxRetries /\ parks \in 0..MaxAttempts + 1

\* The task is only ever run by an agent it was meant for: one with the DID
\* that was asked for, or with the DID that held the asked name when it was
\* looked up, or, over SLIM without a lease, with that name, although the
\* agent may have gone and another taken over its URL since.
DeliveredToTheNamed ==
  \A a \in accepted :
    /\ a.did # NoDid => Did[a.proc] = a.did
    /\ a.did = NoDid => Name[a.proc] = request.to
    /\ IsDid(request.to) => Did[a.proc] = request.to
    /\ ~IsDid(request.to) => \E p \in Procs : Name[p] = request.to /\ Did[p] = Did[a.proc]
=============================================================================
