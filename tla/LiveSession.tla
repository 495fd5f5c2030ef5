---------------------------- MODULE LiveSession ----------------------------
(***************************************************************************)
(* A sandbox session of shadictl under --watch-policy.  Two threads share  *)
(* a LivePolicy behind one mutex: the main thread launches the sandboxed   *)
(* child, polls it and relaunches it (run_sandboxed_command), the listener *)
(* serves the control socket, one connection at a time, and applies        *)
(* policy patches (policy_watch, apply_policy_patch).  The flags the two   *)
(* exchange are atomics, read one by one.  The child may exit, a signal    *)
(* may arrive and any launch step may fail at any time.                    *)
(*                                                                         *)
(* A section under the mutex is one action; nothing in such a section      *)
(* panics, so the lock is never poisoned.  Lists whose order and           *)
(* repetitions are never observed are sets.                                *)
(***************************************************************************)
EXTENDS Naturals, Sequences, FiniteSets

CONSTANTS
  Clients,      \* processes that may connect to the control socket
  Trusted,      \* the clients that authorize_control_peer lets through
  NoClient,
  Paths,
  Dests,        \* network destinations as they are written
  Normal,       \* normalize_net_allow, a function on Dests
  Commands,
  RunCommand,   \* the command of the session
  Launch,       \* the resolved policy: [read, write, net]
  LaunchRules,  \* the resolved command rules: [allow, blocked]
  Patches,      \* the policy patches clients may send
  Secrets,      \* the trusted secrets a launch serves at an endpoint
  MaxRequests   \* bound: requests served in a session

Policy == [read : SUBSET Paths, write : SUBSET Paths, net : SUBSET Dests]
Rules == [allow : SUBSET Commands, blocked : SUBSET Commands]
Staged == [read : SUBSET Paths, write : SUBSET Paths, allow : SUBSET Paths]
\* endpoint_paths: a fresh directory for every secret of a launch.
endpoint_paths(launch) == {launch} \X Secrets
Reach == SUBSET (Paths \cup (Nat \X Secrets))

PolicyPatch ==
  [add_read : SUBSET Paths, add_write : SUBSET Paths, add_allow : SUBSET Paths,
   add_net : SUBSET Dests, remove_net : SUBSET Dests,
   add_allow_command : SUBSET Commands, remove_allow_command : SUBSET Commands,
   add_block_command : SUBSET Commands, remove_block_command : SUBSET Commands]

ASSUME ClientsAssumption == Trusted \subseteq Clients /\ NoClient \notin Clients
\* Normalizing drops scheme, path and case: doing it twice changes nothing.
ASSUME NormalAssumption ==
  Normal \in [Dests -> Dests] /\ \A d \in Dests : Normal[Normal[d]] = Normal[d]
ASSUME LaunchAssumption ==
  Launch \in Policy /\ LaunchRules \in Rules /\ RunCommand \in Commands
ASSUME PatchesAssumption == Patches \subseteq PolicyPatch /\ MaxRequests \in Nat

VARIABLES
  policy,      \* LivePolicy.policy
  rules,       \* LivePolicy.allow, .blocked
  staged,      \* LivePolicy.staged_read, .staged_write, .staged_allow
  net_list,    \* contents of LivePolicy.live_net_allowlist; {} when it is None
  net_live,    \* live_net_allowlist.is_some()
  child_pid,   \* LivePolicy.child_pid; 0 before the first launch
  raised,      \* the atomics that hold true: restart, terminate, interrupted
  pc,          \* where the main thread is
  polled,      \* the flag of PollOrder it reads next
  saw,         \* the flags it saw raised in this iteration
  base_policy, \* its copy of the policy for the next launch
  runtime_policy, \* what prepare_sandbox_launch makes of it: [read, write]
  child,       \* the last child: [pid, status, read, write]
  control,     \* control_live.is_some()
  proxy,       \* net_proxy_handle.is_some()
  artifact,    \* the Git snapshot artifact is written
  socket,      \* the endpoint file exists
  backlog,     \* clients connected and not accepted
  serving,     \* the client whose stream is handled, or NoClient
  requests,    \* requests served
  granted,     \* history: <<path, mode>> acknowledged as pending_restart
  stop_first   \* history: a stop flag was up when restart was last read

shared == <<policy, rules, staged, net_list, net_live, child_pid>>
link == <<socket, backlog, serving, requests, granted>>
poll == <<polled, saw, stop_first>>
copies == <<base_policy, runtime_policy>>
vars == <<shared, raised, pc, poll, copies, child, control, proxy,
          artifact, link>>

Stops == {"interrupted", "terminate"}
Flags == Stops \cup {"restart"}
Launching == {"snapshot", "prepare", "spawn"}
Holding == {"publish", "deliver", "bridge", "poll", "flags"}
Restarting == {"stop_bridge", "proxy", "apply"}
Ending == {"ending", "returning", "closing", "done"}
Modes == {"read", "write"}

-----------------------------------------------------------------------------
(* Helpers *)

is_command_blocked(cmd) == cmd \in rules.blocked /\ cmd \notin rules.allow

\* Mutant: the launch entries are taken as they are written.
InitialListRaw(dests) == dests

InitialList(dests) == {Normal[d] : d \in dests}

\* Additions first, then removals, of normalized entries.
PatchedNet(patch) ==
  (net_list \cup {Normal[d] : d \in patch.add_net})
    \ {Normal[d] : d \in patch.remove_net}

PatchedRules(patch) ==
  [allow |-> (rules.allow \cup patch.add_allow_command) \ patch.remove_allow_command,
   blocked |-> (rules.blocked \cup patch.add_block_command) \ patch.remove_block_command]

PatchedStage(patch) ==
  [read |-> staged.read \cup patch.add_read,
   write |-> staged.write \cup patch.add_write,
   allow |-> staged.allow \cup patch.add_allow]

has_fs_changes(patch) == patch.add_read \cup patch.add_write \cup patch.add_allow # {}
has_net_changes(patch) == patch.add_net \cup patch.remove_net # {}

\* What the caller is promised by filesystem: PendingRestart.
Grants(patch) == ((patch.add_read \cup patch.add_allow) \X {"read"})
                   \cup ((patch.add_write \cup patch.add_allow) \X {"write"})

AnyStaged == staged.read \cup staged.write \cup staged.allow # {}
NothingStaged == [read |-> {}, write |-> {}, allow |-> {}]

\* Mutant: the read-write paths are only made readable.
WithStagedReadOnly ==
  [policy EXCEPT !.read = @ \cup staged.read \cup staged.allow,
                 !.write = @ \cup staged.write]

\* The policy with every staged path allowed.
WithStaged ==
  [policy EXCEPT !.read = @ \cup staged.read \cup staged.allow,
                 !.write = @ \cup staged.write \cup staged.allow]

-----------------------------------------------------------------------------
(* run_sandboxed_command up to its loop.  Either of the proxy and the      *)
(* control socket may fail to start, and the session goes on without it.   *)

Init ==
  /\ policy = Launch
  /\ rules = LaunchRules
  /\ staged = NothingStaged
  /\ proxy \in BOOLEAN
  /\ net_live = proxy
  /\ net_list = IF proxy THEN InitialList(Launch.net) ELSE {}
  /\ child_pid = 0
  /\ raised = {}
  /\ pc = "snapshot"
  /\ polled = 1 /\ saw = {} /\ stop_first = FALSE
  /\ base_policy = Launch
  /\ runtime_policy = [read |-> {}, write |-> {}]
  /\ child = [pid |-> 0, status |-> "none", read |-> {}, write |-> {}]
  /\ control \in BOOLEAN
  /\ artifact = FALSE
  /\ socket = control
  /\ backlog = {} /\ serving = NoClient /\ requests = 0 /\ granted = {}

-----------------------------------------------------------------------------
(* The launch loop: main thread *)

\* snapshot_live_policy, or the resolved policy when there is no control.
Snapshot == IF control THEN policy ELSE Launch

TakeSnapshot ==
  /\ pc = "snapshot"
  /\ base_policy' = Snapshot
  /\ pc' = "prepare"
  /\ UNCHANGED <<shared, raised, poll, runtime_policy, child, control, proxy,
                 artifact, link>>

\* Mutant: the endpoints pile up from launch to launch.
WithEndpointsOfBefore ==
  [read |-> base_policy.read \cup runtime_policy.read
              \cup endpoint_paths(child.pid + 1),
   write |-> base_policy.write \cup runtime_policy.write
               \cup endpoint_paths(child.pid + 1)]

\* The child may also read and write the endpoints its secrets are served at.
WithEndpoints ==
  [read |-> base_policy.read \cup endpoint_paths(child.pid + 1),
   write |-> base_policy.write \cup endpoint_paths(child.pid + 1)]

PrepareLaunch ==
  /\ pc = "prepare"
  /\ runtime_policy' = WithEndpoints
  /\ pc' = "spawn"
  /\ UNCHANGED <<shared, raised, poll, base_policy, child, control, proxy,
                 artifact, link>>

\* A secret that cannot be resolved: return 2, with no snapshot artifact.
PrepareFails ==
  /\ pc = "prepare"
  /\ pc' = "returning"
  /\ UNCHANGED <<shared, raised, poll, copies, child, control, proxy,
                 artifact, link>>

\* The launched child is confined to runtime_policy; run_command is not checked
\* against the command rules again.
Spawn ==
  /\ pc = "spawn"
  /\ child' = [pid |-> child.pid + 1, status |-> "running",
               read |-> runtime_policy.read, write |-> runtime_policy.write]
  /\ pc' = "publish"
  /\ UNCHANGED <<shared, raised, poll, copies, control, proxy, artifact,
                 link>>

SpawnFails ==
  /\ pc = "spawn"
  /\ artifact' = TRUE
  /\ pc' = "returning"
  /\ UNCHANGED <<shared, raised, poll, copies, child, control, proxy, link>>

\* child_pid.store, under the lock.
Publish ==
  /\ pc = "publish"
  /\ child_pid' = IF control THEN child.pid ELSE child_pid
  /\ pc' = "deliver"
  /\ UNCHANGED <<policy, rules, staged, net_list, net_live, raised, poll,
                 copies, child, control, proxy, artifact, link>>

\* deliver_after_spawn, then start_internal_slim_bridge; both may have
\* nothing to do.
SetUp ==
  /\ \/ pc = "deliver" /\ pc' = "bridge"
     \/ pc = "bridge" /\ pc' = "poll"
  /\ UNCHANGED <<shared, raised, poll, copies, child, control, proxy,
                 artifact, link>>

\* child.kill() and child.wait().
Killed == [child EXCEPT !.status = "reaped"]

SetUpFails ==
  /\ pc \in {"deliver", "bridge"}
  /\ child' = Killed
  /\ artifact' = TRUE
  /\ pc' = "returning"
  /\ UNCHANGED <<shared, raised, poll, copies, control, proxy, link>>

-----------------------------------------------------------------------------
(* wait_for_child_or_interrupt *)

\* Mutant: terminate is read before restart.
PollStopsFirst == <<"interrupted", "terminate", "restart">>

\* Mutant: terminate is not read at all.
PollNoStops == <<"restart">>

\* Restart is read before terminate.
PollOrder == <<"restart", "interrupted", "terminate">>

\* try_wait finds the child still running.
StillRunning ==
  /\ pc = "poll" /\ child.status = "running"
  /\ polled' = 1 /\ saw' = {}
  /\ pc' = "flags"
  /\ UNCHANGED <<shared, raised, stop_first, copies, child, control, proxy,
                 artifact, link>>

\* try_wait returns the status of the child and reaps it.
Exited ==
  /\ pc = "poll" /\ child.status = "exited"
  /\ child' = Killed
  /\ pc' = "ending"
  /\ UNCHANGED <<shared, raised, poll, copies, control, proxy, artifact,
                 link>>

\* try_wait, or the wait after a kill, returns an error: there is no such
\* child any more.
WaitFails ==
  /\ \/ pc = "poll" /\ child.status = "exited"
     \/ pc = "flags" /\ polled > Len(PollOrder) /\ saw # {}
  /\ child' = Killed
  /\ artifact' = TRUE
  /\ pc' = "returning"
  /\ UNCHANGED <<shared, raised, poll, copies, control, proxy, link>>

ReadFlag ==
  /\ pc = "flags" /\ polled <= Len(PollOrder)
  /\ saw' = saw \cup (raised \cap {PollOrder[polled]})
  /\ stop_first' = IF PollOrder[polled] = "restart"
                     THEN raised \cap Stops # {} ELSE stop_first
  /\ polled' = polled + 1
  /\ UNCHANGED <<shared, raised, pc, copies, child, control, proxy,
                 artifact, link>>

Terminated ==
  /\ pc = "flags" /\ polled > Len(PollOrder) /\ saw \cap Stops # {}
  /\ child' = Killed
  /\ pc' = "ending"
  /\ UNCHANGED <<shared, raised, poll, copies, control, proxy, artifact,
                 link>>

RestartRequested ==
  /\ pc = "flags" /\ polled > Len(PollOrder) /\ saw = {"restart"}
  /\ child' = Killed
  /\ pc' = "stop_bridge"
  /\ UNCHANGED <<shared, raised, poll, copies, control, proxy, artifact,
                 link>>

Sleep ==
  /\ pc = "flags" /\ polled > Len(PollOrder) /\ saw = {}
  /\ pc' = "poll"
  /\ UNCHANGED <<shared, raised, poll, copies, child, control, proxy,
                 artifact, link>>

-----------------------------------------------------------------------------
(* The restart arm: stop the bridge, close the secret endpoints, restart   *)
(* the proxy on its port, apply what is staged, go round.                  *)

StopBridge ==
  /\ pc = "stop_bridge"
  /\ \/ pc' = "proxy" /\ artifact' = artifact
     \/ pc' = "returning" /\ artifact' = TRUE  \* the bridge ended with an error
  /\ UNCHANGED <<shared, raised, poll, copies, child, control, proxy, link>>

\* The restarted proxy shares the live allowlist.  A port that cannot be
\* rebound leaves the session without a proxy, with a warning.
RestartProxy ==
  /\ pc = "proxy"
  /\ proxy' \in {proxy, FALSE}
  /\ pc' = "apply"
  /\ UNCHANGED <<shared, raised, poll, copies, child, control, artifact,
                 link>>

\* apply_staged_policy_updates, under the lock.
ApplyStaged ==
  /\ pc = "apply"
  /\ policy' = IF AnyStaged THEN WithStaged ELSE policy
  /\ staged' = NothingStaged
  /\ raised' = raised \ {"restart"}
  /\ pc' = "snapshot"
  /\ UNCHANGED <<rules, net_list, net_live, child_pid, poll, copies, child,
                 control, proxy, artifact, link>>

-----------------------------------------------------------------------------
(* The exit arm: the bridge is stopped and the background delivery joined, *)
(* either of which may fail; the artifact is written in every case.        *)

Finish ==
  /\ pc = "ending"
  /\ artifact' = TRUE
  /\ pc' = "returning"
  /\ UNCHANGED <<shared, raised, poll, copies, child, control, proxy, link>>

\* ControlSocketHandle is dropped first, then the proxy.
CloseSocket ==
  /\ pc = "returning"
  /\ socket' = FALSE
  /\ pc' = "closing"
  /\ UNCHANGED <<shared, raised, poll, copies, child, control, proxy,
                 artifact, backlog, serving, requests, granted>>

ExitProcess ==
  /\ pc = "closing"
  /\ proxy' = FALSE
  /\ backlog' = {} /\ serving' = NoClient
  /\ pc' = "done"
  /\ UNCHANGED <<shared, raised, poll, copies, child, control, artifact,
                 socket, requests, granted>>

Main == \/ TakeSnapshot \/ PrepareLaunch \/ PrepareFails \/ Spawn \/ SpawnFails
        \/ Publish \/ SetUp \/ SetUpFails
        \/ StillRunning \/ Exited \/ WaitFails \/ ReadFlag
        \/ Terminated \/ RestartRequested \/ Sleep
        \/ StopBridge \/ RestartProxy \/ ApplyStaged
        \/ Finish \/ CloseSocket \/ ExitProcess

-----------------------------------------------------------------------------
(* The control socket *)

main == <<pc, poll, copies, child, control, proxy, artifact>>

Connect(c) ==
  /\ socket /\ c # serving /\ c \notin backlog
  /\ backlog' = backlog \cup {c}
  /\ UNCHANGED <<shared, raised, main, socket, serving, requests, granted>>

\* authorize_control_peer: the user of the session, outside every sandbox.
Authorized(c) == c \in Trusted

\* accept_loop: a peer that is not authorized is answered with an error and
\* dropped; another one is served until it goes away.
Accept(c) ==
  /\ serving = NoClient /\ c \in backlog
  /\ backlog' = backlog \ {c}
  /\ serving' = IF Authorized(c) THEN c ELSE NoClient
  /\ UNCHANGED <<shared, raised, main, socket, requests, granted>>

\* End of file, a line that is too long, or a stream that breaks.
Hangup ==
  /\ serving # NoClient
  /\ serving' = NoClient
  /\ UNCHANGED <<shared, raised, main, socket, backlog, requests, granted>>

\* A line of the connection that is served.
Request ==
  /\ serving # NoClient /\ requests < MaxRequests
  /\ requests' = requests + 1
  /\ UNCHANGED <<main, child_pid, net_live, socket, backlog, serving>>

\* handle_query, handle_resources, or a line that is no message.
Query ==
  /\ Request
  /\ UNCHANGED <<policy, rules, staged, net_list, raised, granted>>

handle_terminate ==
  /\ Request
  /\ raised' = raised \cup {"terminate"}
  /\ UNCHANGED <<policy, rules, staged, net_list, granted>>

\* Mutant: the restart flag is not raised.
RaisedByNothing(patch) == raised

\* A patch that stages anything asks for a restart.
RaisedBy(patch) ==
  IF has_fs_changes(patch) THEN raised \cup {"restart"} ELSE raised

\* Commands apply at once, paths are staged, and the network changes apply
\* when there is a live allowlist and are rejected otherwise; a rejected axis
\* does not hold back the others.
handle_patch(patch) ==
  /\ Request
  /\ rules' = PatchedRules(patch)
  /\ staged' = PatchedStage(patch)
  /\ IF has_net_changes(patch) /\ net_live
       THEN /\ net_list' = PatchedNet(patch)
            /\ policy' = [policy EXCEPT !.net = PatchedNet(patch)]
       ELSE UNCHANGED <<net_list, policy>>
  /\ raised' = RaisedBy(patch)
  /\ granted' = granted \cup Grants(patch)

Listener == Query \/ handle_terminate \/ Hangup
              \/ (\E patch \in Patches : handle_patch(patch))
              \/ (\E c \in Clients : Accept(c))

-----------------------------------------------------------------------------
(* The environment *)

ChildExits ==
  /\ child.status = "running"
  /\ child' = [child EXCEPT !.status = "exited"]
  /\ UNCHANGED <<shared, raised, pc, poll, copies, control, proxy, artifact,
                 link>>

\* SIGINT, SIGTERM, SIGHUP or SIGQUIT.
Signal ==
  /\ pc # "done" /\ "interrupted" \notin raised
  /\ raised' = raised \cup {"interrupted"}
  /\ UNCHANGED <<shared, main, link>>

Environment == ChildExits \/ Signal \/ (\E c \in Clients : Connect(c))

Next == Main \/ Listener \/ Environment

Safety == Init /\ [][Next]_vars

\* The main thread is always scheduled; its kills, waits and set-up steps
\* return.  Of the set-up steps this is an assumption: deliver_after_spawn
\* waits for a peer that has fetched its secret and does not read it (module
\* SecretDelivery, DeliveryEnds), and no flag is looked at meanwhile.  Nothing
\* is assumed of clients, of signals or of the child.
Spec == Safety /\ WF_vars(Main)

-----------------------------------------------------------------------------
(* Properties *)

\* The variables keep their types (LivePolicy and the locals of
\* run_sandboxed_command), and the flags read so far bound what was seen.
TypeOK ==
  /\ policy \in Policy /\ rules \in Rules /\ staged \in Staged
  /\ net_list \in SUBSET Dests /\ net_live \in BOOLEAN
  /\ child_pid \in Nat
  /\ raised \in SUBSET Flags
  /\ pc \in Launching \cup Holding \cup Restarting \cup Ending
  /\ polled \in 1..Len(PollOrder) + 1 /\ saw \in SUBSET Flags
  /\ stop_first \in BOOLEAN
  /\ base_policy \in Policy /\ runtime_policy \in [read : Reach, write : Reach]
  /\ child \in [pid : Nat, status : {"none", "running", "exited", "reaped"},
                read : Reach, write : Reach]
  /\ control \in BOOLEAN /\ proxy \in BOOLEAN /\ artifact \in BOOLEAN
  /\ socket \in BOOLEAN
  /\ backlog \in SUBSET Clients /\ serving \in Trusted \cup {NoClient}
  /\ requests \in Nat
  /\ granted \in SUBSET (Paths \X Modes)

\* The restart flag is up exactly while something is staged, whatever patches
\* land around apply_staged_policy_updates: a staged path always has a restart
\* coming, and a child is never killed for nothing.
StagedIsScheduled == "restart" \in raised <=> AnyStaged

\* The paths the child of a launch under this policy is given.
Holds(read, write, grant) == grant[1] \in (IF grant[2] = "read" THEN read ELSE write)

\* A path that was acknowledged as pending_restart is never dropped: until it
\* is in the policy it is staged, also when the patch lands in the middle of a
\* relaunch.
NoGrantIsLost ==
  \A grant \in granted :
    \/ Holds(policy.read, policy.write, grant)
    \/ Holds(staged.read \cup staged.allow, staged.write \cup staged.allow, grant)

\* A running child is confined to the filesystem rules that query_policy
\* shows, which only change while there is no child, and to the endpoints of
\* its own launch, which query_policy does not show: those of an earlier launch
\* are not among its rules.
ChildHasThePolicy ==
  child.status = "running" =>
    /\ child.read = policy.read \cup endpoint_paths(child.pid)
    /\ child.write = policy.write \cup endpoint_paths(child.pid)

\* A stop that came before the restart wins (the comment on the order of the
\* two reads): the child is never relaunched over a terminate request or a
\* signal that was already there when the restart was seen.
StopKeepsPriority == pc \in Restarting => ~stop_first

\* The session never returns over a running child, whichever launch step
\* failed.
NoOrphan == pc \in Ending => child.status # "running"

\* The proxy enforces the destinations of the policy that query_policy shows,
\* in normalized form.
NetworkInSync == net_live => {Normal[d] : d \in policy.net} = net_list

\* A request to terminate, or a signal, ends the session; no stream of
\* patches can put it off.
StopEnds == (raised \cap Stops # {}) ~> (pc = "done")

\* An acknowledged path reaches a child that is launched with it, or the
\* session ends: the listener raises restart_requested and the main thread
\* relaunches the child by itself.  The reply to the client says otherwise,
\* "staged axes ({}) require manual process restart" (policy_patch.rs:226, and
\* the tests of policy_watch.rs that expect it).
GrantsTakeEffect ==
  \A p \in Paths, mode \in Modes :
    (<<p, mode>> \in granted)
      ~> \/ pc \in Ending
         \/ child.status # "none" /\ Holds(child.read, child.write, <<p, mode>>)

-----------------------------------------------------------------------------
(* Refinement *)

RightsOf(read, write) == (read \X {"read"}) \cup (write \X {"write"})

EndpointRights == [n \in Nat |-> RightsOf(endpoint_paths(n), endpoint_paths(n))]

Abstract == INSTANCE Confinement
  WITH Rights <- Paths \X Modes, Initial <- RightsOf(Launch.read, Launch.write),
       rights <- RightsOf(policy.read, policy.write),
       promised <- RightsOf(staged.read \cup staged.allow, staged.write \cup staged.allow),
       running <- child.status = "running", held <- RightsOf(child.read, child.write),
       launches <- child.pid,
       Own <- EndpointRights,
       over <- pc \in Ending

\* The session keeps the promise of module Confinement, whatever patches,
\* signals, failures and exits of the child come between the steps of a
\* relaunch: a running child has exactly the rights that query_policy shows and
\* those on the endpoints of its own launch, no other right was neither in the
\* launch policy nor acknowledged to a trusted client, and
\* run_sandboxed_command leaves no child behind.
ImplementsConfinement == Abstract!Spec

-----------------------------------------------------------------------------
(* What comments and documents say and the code does not do *)

\* "The proxy is kept alive for the lifetime of run_sandboxed_command": a
\* child of a session that started a proxy never runs without one.
ProxyGuardsTheChild == child.status = "running" /\ net_live => proxy

=============================================================================
