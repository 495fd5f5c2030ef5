------------------------- MODULE LiveSessionProofs -------------------------
(***************************************************************************)
(* The safety properties of LiveSession for every set of clients, paths,   *)
(* destinations, commands and patches.                                     *)
(***************************************************************************)
EXTENDS LiveSession, TLAPS

-----------------------------------------------------------------------------
(* The inductive invariant *)

\* A session whose control socket could not be opened is never changed.
Untouched ==
  ~control => /\ policy = Launch /\ staged = NothingStaged
              /\ ~socket /\ backlog = {} /\ serving = NoClient

\* The main thread holds every running child, and launches the next one from
\* a copy of the policy whose filesystem rules are still current, with the
\* endpoints of that launch added.
Confined ==
  /\ child.status = "running" => pc \in Holding
  /\ ChildHasThePolicy
  /\ pc \in {"prepare", "spawn"} => /\ base_policy.read = policy.read
                                    /\ base_policy.write = policy.write
  /\ pc = "spawn" =>
       /\ runtime_policy.read = policy.read \cup endpoint_paths(child.pid + 1)
       /\ runtime_policy.write = policy.write \cup endpoint_paths(child.pid + 1)

\* A stop flag that was up when restart was read is either seen already or
\* still to be read.
StopIsRead ==
  /\ StopKeepsPriority
  /\ pc = "flags" /\ stop_first =>
       /\ polled = 2 => raised \cap Stops # {}
       /\ polled = 3 => "interrupted" \in saw \/ "terminate" \in raised
       /\ polled = 4 => saw \cap Stops # {}

\* The inductive invariant.
IInv == /\ TypeOK
        /\ StagedIsScheduled
        /\ NoGrantIsLost
        /\ NetworkInSync
        /\ Untouched
        /\ Confined
        /\ StopIsRead

-----------------------------------------------------------------------------
(* Lemmas *)

\* The three reads of wait_for_child_or_interrupt, restart first.
LEMMA PollFacts ==
  /\ Len(PollOrder) = 3
  /\ PollOrder[1] = "restart"
  /\ PollOrder[2] = "interrupted"
  /\ PollOrder[3] = "terminate"
BY DEF PollOrder

\* The state run_sandboxed_command enters its loop with satisfies the
\* invariant.
LEMMA InitIInv == Init => IInv
<1> SUFFICES ASSUME Init PROVE IInv
  OBVIOUS
<1> USE ClientsAssumption, NormalAssumption, LaunchAssumption, PollFacts
<1>1. TypeOK
  <2>1. policy \in Policy /\ rules \in Rules /\ base_policy \in Policy
    BY DEF Init
  <2>2. staged \in Staged
    BY DEF Init, Staged, NothingStaged
  <2>3. net_list \in SUBSET Dests
    BY DEF Init, InitialList, Policy
  <2>4. child \in [pid : Nat, status : {"none", "running", "exited", "reaped"},
                   read : Reach, write : Reach]
    BY DEF Init, Reach
  <2>5. /\ net_live \in BOOLEAN /\ stop_first \in BOOLEAN /\ control \in BOOLEAN
        /\ proxy \in BOOLEAN /\ artifact \in BOOLEAN /\ socket \in BOOLEAN
    BY DEF Init
  <2>6. runtime_policy \in [read : Reach, write : Reach]
    BY DEF Init, Reach
  <2>7. QED
    BY <2>1, <2>2, <2>3, <2>4, <2>5, <2>6 DEF Init, TypeOK, Flags, Launching
<1>2. StagedIsScheduled /\ NoGrantIsLost /\ NetworkInSync
  BY DEF Init, StagedIsScheduled, NoGrantIsLost, NetworkInSync, AnyStaged,
         NothingStaged, InitialList, Policy
<1>3. Untouched /\ Confined /\ StopIsRead
  BY DEF Init, Untouched, Confined, StopIsRead, StopKeepsPriority, Restarting,
         ChildHasThePolicy
<1>4. QED
  BY <1>1, <1>2, <1>3 DEF IInv

\* A step of the main thread that touches neither the shared policy nor the
\* flags keeps what the invariant says of them.
LEMMA KeepsPolicy ==
  ASSUME IInv, UNCHANGED <<policy, staged, net_list, net_live, raised, granted>>
  PROVE StagedIsScheduled' /\ NoGrantIsLost' /\ NetworkInSync'
BY DEF IInv, StagedIsScheduled, NoGrantIsLost, NetworkInSync, AnyStaged, Holds

\* Every step of the launch loop keeps the invariant.
LEMMA LaunchIInv ==
  ASSUME IInv,
         \/ TakeSnapshot \/ PrepareLaunch \/ PrepareFails \/ Spawn \/ SpawnFails
         \/ Publish \/ SetUp \/ SetUpFails
  PROVE IInv'
<1> USE ClientsAssumption, NormalAssumption, LaunchAssumption, PollFacts
<1> USE DEF shared, link, poll, copies
<1>0. TypeOK /\ Untouched /\ Confined /\ StopIsRead
  BY DEF IInv
<1>1. UNCHANGED <<policy, staged, net_list, net_live, raised, granted, control,
                  socket, backlog, serving>>
  BY DEF TakeSnapshot, PrepareLaunch, PrepareFails, Spawn, SpawnFails, Publish,
         SetUp, SetUpFails
<1>2. TypeOK'
  <2>1. base_policy' \in Policy
    BY <1>0 DEF TypeOK, TakeSnapshot, PrepareLaunch, PrepareFails, Spawn,
         SpawnFails, Publish, SetUp, SetUpFails, Snapshot
  <2>2. child' \in [pid : Nat, status : {"none", "running", "exited", "reaped"},
                    read : Reach, write : Reach]
    BY <1>0 DEF TypeOK, TakeSnapshot, PrepareLaunch, PrepareFails, Spawn,
         SpawnFails, Publish, SetUp, SetUpFails, Killed
  <2>3. child_pid' \in Nat /\ artifact' \in BOOLEAN
    BY <1>0 DEF TypeOK, TakeSnapshot, PrepareLaunch, PrepareFails, Spawn,
         SpawnFails, Publish, SetUp, SetUpFails
  <2>4. pc' \in Launching \cup Holding \cup Ending
    BY <1>0 DEF TakeSnapshot, PrepareLaunch, PrepareFails, Spawn, SpawnFails,
         Publish, SetUp, SetUpFails, Launching, Holding, Ending
  <2>5. UNCHANGED <<rules, proxy, requests, poll>>
    BY DEF TakeSnapshot, PrepareLaunch, PrepareFails, Spawn, SpawnFails, Publish,
           SetUp, SetUpFails
  <2>6. runtime_policy' \in [read : Reach, write : Reach]
    <3>1. CASE PrepareLaunch
      <4>1. child.pid + 1 \in Nat /\ base_policy \in Policy
        BY <1>0 DEF TypeOK
      <4>2. endpoint_paths(child.pid + 1) \subseteq Nat \X Secrets
        BY <4>1 DEF endpoint_paths
      <4>3. QED
        BY <3>1, <4>1, <4>2 DEF PrepareLaunch, WithEndpoints, Reach, Policy
    <3>2. CASE UNCHANGED runtime_policy
      BY <1>0, <3>2 DEF TypeOK
    <3>3. QED
      BY <3>1, <3>2 DEF TakeSnapshot, PrepareFails, Spawn, SpawnFails, Publish,
           SetUp, SetUpFails
  <2>7. QED
    BY <1>0, <1>1, <2>1, <2>2, <2>3, <2>4, <2>5, <2>6 DEF TypeOK
<1>3. StagedIsScheduled' /\ NoGrantIsLost' /\ NetworkInSync'
  BY <1>1, KeepsPolicy
<1>4. Untouched'
  BY <1>0, <1>1 DEF Untouched
<1>5. Confined'
  <2>1. CASE PrepareLaunch
    BY <1>0, <1>1, <2>1 DEF Confined, ChildHasThePolicy, TypeOK, Holding,
         PrepareLaunch, WithEndpoints
  <2>2. CASE Spawn
    <3>1. child.pid \in Nat
      BY <1>0 DEF TypeOK
    <3>2. /\ child'.pid = child.pid + 1 /\ pc' = "publish"
          /\ child'.read = policy'.read \cup endpoint_paths(child'.pid)
          /\ child'.write = policy'.write \cup endpoint_paths(child'.pid)
      BY <1>0, <1>1, <2>2, <3>1 DEF Confined, Spawn
    <3>3. QED
      BY <3>2 DEF Confined, ChildHasThePolicy, Holding
  <2>3. CASE TakeSnapshot
    BY <1>0, <1>1, <2>3 DEF Confined, ChildHasThePolicy, Untouched, Holding,
         TakeSnapshot, Snapshot
  <2>4. CASE PrepareFails \/ SpawnFails \/ Publish \/ SetUp \/ SetUpFails
    BY <1>0, <1>1, <2>4 DEF Confined, ChildHasThePolicy, TypeOK, Holding,
         PrepareFails, SpawnFails, Publish, SetUp, SetUpFails, Killed
  <2>5. QED
    BY <2>1, <2>2, <2>3, <2>4
<1>6. StopIsRead'
  BY <1>0, <1>1 DEF StopIsRead, StopKeepsPriority, Restarting, TakeSnapshot,
       PrepareLaunch, PrepareFails, Spawn, SpawnFails, Publish, SetUp,
       SetUpFails
<1>7. QED
  BY <1>2, <1>3, <1>4, <1>5, <1>6 DEF IInv

\* Every step of wait_for_child_or_interrupt, of the restart arm before the
\* staged paths are applied and of the exit arm keeps the invariant.
LEMMA WaitIInv ==
  ASSUME IInv,
         \/ StillRunning \/ Exited \/ WaitFails \/ ReadFlag \/ Terminated
         \/ RestartRequested \/ Sleep \/ StopBridge \/ RestartProxy
         \/ Finish \/ CloseSocket \/ ExitProcess
  PROVE IInv'
<1> USE ClientsAssumption, PollFacts
<1> USE DEF shared, link, poll, copies
<1>0. TypeOK /\ Untouched /\ Confined /\ StopIsRead
  BY DEF IInv
<1>1. UNCHANGED <<policy, staged, net_list, net_live, raised, granted, control,
                  rules, child_pid, copies, requests>>
  BY DEF StillRunning, Exited, WaitFails, ReadFlag, Terminated, RestartRequested,
         Sleep, StopBridge, RestartProxy, Finish, CloseSocket, ExitProcess
<1>2. TypeOK'
  <2>1. child' \in [pid : Nat, status : {"none", "running", "exited", "reaped"},
                    read : Reach, write : Reach]
    BY <1>0 DEF TypeOK, StillRunning, Exited, WaitFails, ReadFlag, Terminated,
         RestartRequested, Sleep, StopBridge, RestartProxy, Finish, CloseSocket,
         ExitProcess, Killed
  <2>2. polled' \in 1..4 /\ saw' \in SUBSET Flags
    <3>1. polled \in 1..4 /\ saw \in SUBSET Flags /\ raised \in SUBSET Flags
      BY <1>0 DEF TypeOK
    <3>2. CASE ReadFlag
      <4>1. polled \in 1..3 /\ polled' = polled + 1
        BY <3>1, <3>2 DEF ReadFlag
      <4>2. saw' \in SUBSET Flags
        BY <3>1, <3>2 DEF ReadFlag
      <4>3. QED
        BY <4>1, <4>2
    <3>3. CASE StillRunning
      BY <3>1, <3>3 DEF StillRunning
    <3>4. CASE UNCHANGED <<polled, saw>>
      BY <3>1, <3>4
    <3>5. QED
      BY <3>2, <3>3, <3>4 DEF Exited, WaitFails, Terminated, RestartRequested,
           Sleep, StopBridge, RestartProxy, Finish, CloseSocket, ExitProcess
  <2>3. /\ stop_first' \in BOOLEAN /\ artifact' \in BOOLEAN
        /\ proxy' \in BOOLEAN /\ socket' \in BOOLEAN
    BY <1>0 DEF TypeOK, StillRunning, Exited, WaitFails, ReadFlag, Terminated,
         RestartRequested, Sleep, StopBridge, RestartProxy, Finish, CloseSocket,
         ExitProcess
  <2>4. pc' \in Holding \cup Restarting \cup Ending
    BY <1>0 DEF TypeOK, StillRunning, Exited, WaitFails, ReadFlag, Terminated,
         RestartRequested, Sleep, StopBridge, RestartProxy, Finish, CloseSocket,
         ExitProcess, Holding, Restarting, Ending
  <2>5. backlog' \in SUBSET Clients /\ serving' \in Trusted \cup {NoClient}
    BY <1>0 DEF TypeOK, StillRunning, Exited, WaitFails, ReadFlag, Terminated,
         RestartRequested, Sleep, StopBridge, RestartProxy, Finish, CloseSocket,
         ExitProcess
  <2>6. QED
    BY <1>0, <1>1, <2>1, <2>2, <2>3, <2>4, <2>5 DEF TypeOK
<1>3. StagedIsScheduled' /\ NoGrantIsLost' /\ NetworkInSync'
  BY <1>1, KeepsPolicy
<1>4. Untouched'
  BY <1>0, <1>1 DEF Untouched, StillRunning, Exited, WaitFails, ReadFlag,
       Terminated, RestartRequested, Sleep, StopBridge, RestartProxy, Finish,
       CloseSocket, ExitProcess
<1>5. Confined'
  BY <1>0, <1>1 DEF Confined, ChildHasThePolicy, TypeOK, Holding, StillRunning,
       Exited, WaitFails, ReadFlag, Terminated, RestartRequested, Sleep,
       StopBridge, RestartProxy, Finish, CloseSocket, ExitProcess, Killed
<1>6. StopIsRead'
  <2>1. CASE ReadFlag
    <3>0. pc = "flags" /\ pc' = "flags" /\ polled \in 1..3 /\ polled' = polled + 1
      BY <1>0, <2>1 DEF ReadFlag, TypeOK
    <3>1. CASE polled = 1
      <4>1. stop_first' => raised' \cap Stops # {}
        BY <1>1, <2>1, <3>1 DEF ReadFlag
      <4>2. QED
        BY <3>0, <3>1, <4>1 DEF StopIsRead, StopKeepsPriority, Restarting
    <3>2. CASE polled = 2
      <4>1. stop_first' = stop_first /\ saw' = saw \cup (raised \cap {"interrupted"})
        BY <2>1, <3>2 DEF ReadFlag
      <4>2. QED
        BY <1>0, <1>1, <3>0, <3>2, <4>1 DEF StopIsRead, StopKeepsPriority,
             Restarting, Stops
    <3>3. CASE polled = 3
      <4>1. stop_first' = stop_first /\ saw' = saw \cup (raised \cap {"terminate"})
        BY <2>1, <3>3 DEF ReadFlag
      <4>2. QED
        BY <1>0, <1>1, <3>0, <3>3, <4>1 DEF StopIsRead, StopKeepsPriority,
             Restarting, Stops
    <3>4. QED
      BY <3>0, <3>1, <3>2, <3>3
  <2>2. CASE RestartRequested
    <3>1. polled = 4 /\ pc = "flags" /\ saw \cap Stops = {}
      BY <1>0, <2>2 DEF RestartRequested, TypeOK, Stops
    <3>2. ~stop_first
      BY <1>0, <3>1 DEF StopIsRead
    <3>3. ~stop_first' /\ pc' # "flags"
      BY <2>2, <3>2 DEF RestartRequested
    <3>4. QED
      BY <3>3 DEF StopIsRead, StopKeepsPriority
  <2>3. CASE StillRunning
    <3>1. pc' = "flags" /\ polled' = 1
      BY <2>3 DEF StillRunning
    <3>2. QED
      BY <3>1 DEF StopIsRead, StopKeepsPriority, Restarting
  <2>4. CASE Exited \/ WaitFails \/ Terminated \/ Sleep \/ Finish \/ CloseSocket
             \/ ExitProcess
    BY <2>4 DEF StopIsRead, StopKeepsPriority, Restarting, Exited, WaitFails,
         Terminated, Sleep, Finish, CloseSocket, ExitProcess
  <2>5. CASE StopBridge \/ RestartProxy
    <3>1. pc \in Restarting /\ pc' # "flags" /\ stop_first' = stop_first
      BY <2>5 DEF StopBridge, RestartProxy, Restarting
    <3>2. ~stop_first
      BY <1>0, <3>1 DEF StopIsRead, StopKeepsPriority
    <3>3. QED
      BY <3>1, <3>2 DEF StopIsRead, StopKeepsPriority
  <2>6. QED
    BY <2>1, <2>2, <2>3, <2>4, <2>5
<1>7. QED
  BY <1>2, <1>3, <1>4, <1>5, <1>6 DEF IInv

\* apply_staged_policy_updates moves every staged path into the policy and
\* lowers the restart flag in the same critical section; no child runs then.
LEMMA ApplyIInv == ASSUME IInv, ApplyStaged PROVE IInv'
<1> USE DEF shared, link, poll, copies
<1>0. /\ TypeOK /\ StagedIsScheduled /\ NoGrantIsLost /\ NetworkInSync
      /\ Untouched /\ Confined /\ StopIsRead
  BY DEF IInv
<1>1. /\ policy' \in Policy
      /\ policy'.read = policy.read \cup staged.read \cup staged.allow
      /\ policy'.write = policy.write \cup staged.write \cup staged.allow
      /\ policy'.net = policy.net
  BY <1>0 DEF TypeOK, ApplyStaged, WithStaged, AnyStaged, Policy, Staged
<1>2. staged' = NothingStaged /\ staged' \in Staged
  BY DEF ApplyStaged, NothingStaged, Staged
<1>3. TypeOK'
  BY <1>0, <1>1, <1>2 DEF TypeOK, ApplyStaged, Launching
<1>4. StagedIsScheduled'
  BY <1>2 DEF StagedIsScheduled, AnyStaged, NothingStaged, ApplyStaged
<1>5. NoGrantIsLost'
  BY <1>0, <1>1 DEF NoGrantIsLost, Holds, ApplyStaged
<1>6. NetworkInSync'
  BY <1>0, <1>1 DEF NetworkInSync, ApplyStaged
<1>7. Untouched'
  BY <1>0, <1>2 DEF Untouched, ApplyStaged, AnyStaged, NothingStaged
<1>8. Confined'
  BY <1>0 DEF Confined, ChildHasThePolicy, ApplyStaged, Holding
<1>9. StopIsRead'
  BY <1>0 DEF StopIsRead, StopKeepsPriority, ApplyStaged, Restarting
<1>10. QED
  BY <1>3, <1>4, <1>5, <1>6, <1>7, <1>8, <1>9 DEF IInv

\* The requests a connection can make, and the comings and goings of clients,
\* keep the invariant.
LEMMA ListenerIInv == ASSUME IInv, Listener PROVE IInv'
<1> USE ClientsAssumption DEF main, shared, link, poll, copies
<1>0. /\ TypeOK /\ StagedIsScheduled /\ NoGrantIsLost /\ NetworkInSync
      /\ Untouched /\ Confined /\ StopIsRead
  BY DEF IInv
<1>1. CASE Query \/ Hangup \/ (\E c \in Clients : Accept(c))
  <2>1. UNCHANGED <<policy, staged, net_list, net_live, raised, granted, control,
                    rules, child_pid, main, socket>>
    BY <1>1 DEF Query, Request, Hangup, Accept
  <2>2. TypeOK'
    BY <1>0, <1>1, <2>1 DEF TypeOK, Query, Request, Hangup, Accept, Authorized
  <2>3. StagedIsScheduled' /\ NoGrantIsLost' /\ NetworkInSync'
    BY <2>1, KeepsPolicy
  <2>4. Untouched'
    BY <1>0, <1>1, <2>1 DEF Untouched, Query, Request, Hangup, Accept
  <2>5. Confined' /\ StopIsRead'
    BY <1>0, <2>1 DEF Confined, ChildHasThePolicy, StopIsRead, StopKeepsPriority
  <2>6. QED
    BY <2>2, <2>3, <2>4, <2>5 DEF IInv
<1>2. CASE handle_terminate
  <2>1. UNCHANGED <<policy, staged, net_list, net_live, granted, control, rules,
                    child_pid, main, socket, backlog, serving>>
    BY <1>2 DEF handle_terminate, Request
  <2>2. TypeOK'
    BY <1>0, <1>2, <2>1 DEF TypeOK, handle_terminate, Request, Flags, Stops
  <2>3. StagedIsScheduled' /\ NoGrantIsLost' /\ NetworkInSync'
    BY <1>0, <1>2, <2>1 DEF StagedIsScheduled, NoGrantIsLost, NetworkInSync,
         AnyStaged, Holds, handle_terminate
  <2>4. Untouched' /\ Confined' /\ StopIsRead'
    BY <1>0, <1>2, <2>1 DEF Untouched, Confined, ChildHasThePolicy, StopIsRead,
         StopKeepsPriority, Stops, handle_terminate
  <2>5. QED
    BY <2>2, <2>3, <2>4 DEF IInv
<1>3. ASSUME NEW patch \in Patches, handle_patch(patch) PROVE IInv'
  <2>0. patch \in PolicyPatch
    BY PatchesAssumption
  <2>1. UNCHANGED <<net_live, control, child_pid, main, socket, backlog, serving>>
        /\ serving # NoClient /\ requests' \in Nat
    BY <1>0, <1>3 DEF handle_patch, Request, TypeOK
  <2>2. /\ policy' \in Policy
        /\ policy'.read = policy.read /\ policy'.write = policy.write
        /\ net_list' \in SUBSET Dests
    BY <1>0, <1>3, <2>0, NormalAssumption DEF handle_patch, TypeOK, PatchedNet,
         Policy, PolicyPatch
  <2>3. /\ staged' = PatchedStage(patch)
        /\ staged' \in Staged
    BY <1>0, <1>3, <2>0 DEF handle_patch, PatchedStage, TypeOK, Staged, PolicyPatch
  <2>4. rules' \in Rules
    BY <1>0, <1>3, <2>0 DEF handle_patch, PatchedRules, TypeOK, Rules, PolicyPatch
  <2>5. raised' \in SUBSET Flags
    BY <1>0, <1>3 DEF handle_patch, RaisedBy, TypeOK, Flags
  <2>6. granted' \in SUBSET (Paths \X Modes)
    BY <1>0, <1>3, <2>0 DEF handle_patch, Grants, TypeOK, Modes, PolicyPatch
  <2>7. TypeOK'
    BY <1>0, <2>1, <2>2, <2>3, <2>4, <2>5, <2>6 DEF TypeOK
  <2>8. StagedIsScheduled'
    BY <1>0, <1>3, <2>3 DEF StagedIsScheduled, AnyStaged, PatchedStage, RaisedBy,
         handle_patch, has_fs_changes
  <2>9. NoGrantIsLost'
    <3>1. ASSUME NEW grant \in granted'
          PROVE \/ Holds(policy'.read, policy'.write, grant)
                \/ Holds(staged'.read \cup staged'.allow,
                         staged'.write \cup staged'.allow, grant)
      <4>1. CASE grant \in granted
        BY <1>0, <2>2, <2>3, <4>1 DEF NoGrantIsLost, Holds, PatchedStage
      <4>2. CASE grant \in Grants(patch)
        BY <2>3, <4>2 DEF Grants, Holds, PatchedStage
      <4>3. QED
        BY <1>3, <3>1, <4>1, <4>2 DEF handle_patch
    <3>2. QED
      BY <3>1 DEF NoGrantIsLost
  <2>10. NetworkInSync'
    <3>1. CASE has_net_changes(patch) /\ net_live
      <4>1. policy'.net = PatchedNet(patch) /\ net_list' = PatchedNet(patch)
        BY <1>0, <1>3, <3>1 DEF handle_patch, TypeOK, Policy
      <4>2. \A d \in PatchedNet(patch) : Normal[d] = d
        BY <1>0, <2>0, <3>1, NormalAssumption DEF PatchedNet, NetworkInSync,
             PolicyPatch, TypeOK, Policy
      <4>3. QED
        BY <4>1, <4>2 DEF NetworkInSync
    <3>2. CASE ~(has_net_changes(patch) /\ net_live)
      BY <1>0, <1>3, <2>1, <3>2 DEF handle_patch, NetworkInSync
    <3>3. QED
      BY <3>1, <3>2
  <2>11. Untouched' /\ Confined'
    BY <1>0, <2>1, <2>2 DEF Untouched, Confined, ChildHasThePolicy
  <2>12. StopIsRead'
    BY <1>0, <1>3, <2>1 DEF StopIsRead, StopKeepsPriority, handle_patch, RaisedBy
  <2>13. QED
    BY <2>7, <2>8, <2>9, <2>10, <2>11, <2>12 DEF IInv
<1>4. QED
  BY <1>1, <1>2, <1>3 DEF Listener

\* A child that exits, a signal and a client that connects keep the invariant.
LEMMA EnvironmentIInv == ASSUME IInv, Environment PROVE IInv'
<1> USE DEF main, shared, link, poll, copies
<1>0. /\ TypeOK /\ StagedIsScheduled /\ NoGrantIsLost /\ NetworkInSync
      /\ Untouched /\ Confined /\ StopIsRead
  BY DEF IInv
<1>1. CASE ChildExits
  <2>1. child' \in [pid : Nat, status : {"none", "running", "exited", "reaped"},
                    read : Reach, write : Reach]
        /\ child'.status = "exited"
    BY <1>0, <1>1 DEF ChildExits, TypeOK
  <2>2. TypeOK'
    BY <1>0, <1>1, <2>1 DEF TypeOK, ChildExits
  <2>3. StagedIsScheduled' /\ NoGrantIsLost' /\ NetworkInSync'
    BY <1>1, KeepsPolicy DEF ChildExits
  <2>4. Untouched' /\ Confined' /\ StopIsRead'
    BY <1>0, <1>1, <2>1 DEF Untouched, Confined, ChildHasThePolicy, StopIsRead,
         StopKeepsPriority, ChildExits
  <2>5. QED
    BY <2>2, <2>3, <2>4 DEF IInv
<1>2. CASE Signal
  BY <1>0, <1>2 DEF IInv, Signal, TypeOK, Flags, Stops, StagedIsScheduled,
       AnyStaged, NoGrantIsLost, Holds, NetworkInSync, Untouched, Confined,
       ChildHasThePolicy, StopIsRead, StopKeepsPriority
<1>3. CASE \E c \in Clients : Connect(c)
  BY <1>0, <1>3, KeepsPolicy DEF IInv, Connect, TypeOK, Untouched, Confined,
       ChildHasThePolicy, StopIsRead, StopKeepsPriority
<1>4. QED
  BY <1>1, <1>2, <1>3 DEF Environment

\* Every step of the session keeps the invariant.
LEMMA NextIInv == IInv /\ [Next]_vars => IInv'
<1> SUFFICES ASSUME IInv, [Next]_vars PROVE IInv'
  OBVIOUS
<1>1. CASE Main
  BY <1>1, LaunchIInv, WaitIInv, ApplyIInv DEF Main
<1>2. CASE Listener
  BY <1>2, ListenerIInv
<1>3. CASE Environment
  BY <1>3, EnvironmentIInv
<1>4. CASE UNCHANGED vars
  BY <1>4 DEF IInv, vars, shared, link, poll, copies, TypeOK, StagedIsScheduled,
       AnyStaged, NoGrantIsLost, Holds, NetworkInSync, Untouched, Confined,
       ChildHasThePolicy, StopIsRead, StopKeepsPriority
<1>5. QED
  BY <1>1, <1>2, <1>3, <1>4 DEF Next

-----------------------------------------------------------------------------
(* The theorems *)

\* The inductive invariant holds in every session.
THEOREM Invariance == Safety => []IInv
<1>1. Init => IInv
  BY InitIInv
<1>2. IInv /\ [Next]_vars => IInv'
  BY NextIInv
<1>3. QED
  BY <1>1, <1>2, PTL DEF Safety

\* The variables keep their types, and only an authorized peer is served.
THEOREM TypeCorrect == Safety => []TypeOK
<1>1. IInv => TypeOK
  BY DEF IInv
<1>2. QED
  BY <1>1, Invariance, PTL

\* No acknowledged path is ever dropped, and the restart flag is up exactly
\* while one waits (handle_patch against apply_staged_policy_updates).
THEOREM GrantsAreKept == Safety => [](StagedIsScheduled /\ NoGrantIsLost)
<1>1. IInv => StagedIsScheduled /\ NoGrantIsLost
  BY DEF IInv
<1>2. QED
  BY <1>1, Invariance, PTL

\* A running child always has the filesystem rules of the live policy and the
\* endpoints of its own launch (WithEndpoints), and nothing else.
THEOREM ChildIsConfined == Safety => []ChildHasThePolicy
<1>1. IInv => ChildHasThePolicy
  BY DEF IInv, Confined
<1>2. QED
  BY <1>1, Invariance, PTL

\* The proxy's list is the normal form of the destinations query_policy shows,
\* through every patch, rejected ones and removals included, and every relaunch.
THEOREM NetworkFollowsThePolicy == Safety => []NetworkInSync
<1>1. IInv => NetworkInSync
  BY DEF IInv
<1>2. QED
  BY <1>1, Invariance, PTL

\* The order of the two reads in wait_for_child_or_interrupt gives a stop its
\* priority over a restart.
THEOREM StopWins == Safety => []StopKeepsPriority
<1>1. IInv => StopKeepsPriority
  BY DEF IInv, StopIsRead
<1>2. QED
  BY <1>1, Invariance, PTL

\* No path out of run_sandboxed_command leaves a child running.
THEOREM NoChildIsLeft == Safety => []NoOrphan
<1>1. IInv => NoOrphan
  BY DEF IInv, Confined, NoOrphan, Holding, Ending
<1>2. QED
  BY <1>1, Invariance, PTL
-----------------------------------------------------------------------------
(* Refinement *)

\* A patch promises what it acknowledges: the staged paths, read as rights,
\* grow by the grants of the patch.
LEMMA PatchPromises ==
  ASSUME NEW s \in Staged, NEW patch \in PolicyPatch
  PROVE RightsOf((s.read \cup patch.add_read) \cup (s.allow \cup patch.add_allow),
                 (s.write \cup patch.add_write) \cup (s.allow \cup patch.add_allow))
          = RightsOf(s.read \cup s.allow, s.write \cup s.allow) \cup Grants(patch)
BY DEF RightsOf, Grants, Staged, PolicyPatch

\* The rights of a union are the union of the rights.
LEMMA RightsOfUnion ==
  ASSUME NEW r, NEW w, NEW r2, NEW w2
  PROVE RightsOf(r \cup r2, w \cup w2) = RightsOf(r, w) \cup RightsOf(r2, w2)
BY DEF RightsOf

\* A session starts without a child, and with the rights it was launched with.
LEMMA InitConfinement == Init => Abstract!Init
<1> SUFFICES ASSUME Init PROVE Abstract!Init
  OBVIOUS
<1>1. RightsOf({}, {}) = {}
  BY DEF RightsOf
<1>2. RightsOf(staged.read \cup staged.allow, staged.write \cup staged.allow) = {}
  BY <1>1 DEF Init, NothingStaged
<1>3. /\ RightsOf(policy.read, policy.write) = RightsOf(Launch.read, Launch.write)
      /\ (child.status = "running") = FALSE /\ (pc \in Ending) = FALSE
      /\ RightsOf(child.read, child.write) = {} /\ child.pid = 0
  BY <1>1 DEF Init, Ending
<1>4. QED
  BY <1>2, <1>3 DEF Abstract!Init

\* A step that touches neither the policy, the staged paths nor the child, and
\* does not begin or leave the end of the session, is no step of Confinement.
LEMMA ConfinementStill ==
  ASSUME policy'.read = policy.read, policy'.write = policy.write,
         UNCHANGED <<staged, child>>, (pc' \in Ending) <=> (pc \in Ending)
  PROVE UNCHANGED Abstract!confinementVars
BY DEF Abstract!confinementVars

\* The steps of the main thread that launch a child: only Spawn is seen, and
\* it gives the child the rights of the policy as it is now and its own.
LEMMA LaunchConfinement ==
  ASSUME IInv,
         \/ TakeSnapshot \/ PrepareLaunch \/ PrepareFails \/ Spawn \/ SpawnFails
         \/ Publish \/ SetUp \/ SetUpFails
  PROVE [Abstract!Next]_(Abstract!confinementVars)
<1> USE DEF shared, link, poll, copies
<1>0. TypeOK /\ Confined
  BY DEF IInv
<1>1. UNCHANGED <<policy, staged>>
  BY DEF TakeSnapshot, PrepareLaunch, PrepareFails, Spawn, SpawnFails, Publish,
         SetUp, SetUpFails
<1>2. CASE TakeSnapshot \/ PrepareLaunch \/ Publish \/ SetUp
  <2>1. UNCHANGED child /\ pc \notin Ending /\ pc' \notin Ending
    BY <1>2 DEF TakeSnapshot, PrepareLaunch, Publish, SetUp, Ending
  <2>2. QED
    BY <1>1, <2>1, ConfinementStill
<1>3. CASE Spawn
  <2>1. /\ child.status # "running" /\ child'.status = "running"
        /\ child.pid \in Nat /\ child'.pid = child.pid + 1
        /\ child'.read = policy.read \cup endpoint_paths(child'.pid)
        /\ child'.write = policy.write \cup endpoint_paths(child'.pid)
        /\ pc \notin Ending /\ pc' \notin Ending
    BY <1>0, <1>3 DEF TypeOK, Confined, Holding, Ending, Spawn
  <2>2. RightsOf(child'.read, child'.write)
          = RightsOf(policy.read, policy.write)
              \cup RightsOf(endpoint_paths(child'.pid), endpoint_paths(child'.pid))
    BY <2>1, RightsOfUnion
  <2>3. EndpointRights[child'.pid]
          = RightsOf(endpoint_paths(child'.pid), endpoint_paths(child'.pid))
    BY <2>1 DEF EndpointRights
  <2>4. RightsOf(child.read, child.write)'
          = RightsOf(policy.read, policy.write) \cup EndpointRights[child.pid']
    BY <2>2, <2>3
  <2>5. UNCHANGED <<RightsOf(policy.read, policy.write),
                    RightsOf(staged.read \cup staged.allow,
                             staged.write \cup staged.allow), pc \in Ending>>
    BY <1>1, <2>1
  <2>6. child.pid' = child.pid + 1 /\ (child.status = "running")' = TRUE
    BY <2>1
  <2>7. Abstract!Start
    BY <2>1, <2>4, <2>5, <2>6 DEF Abstract!Start
  <2>8. QED
    BY <2>7 DEF Abstract!Next
<1>4. CASE PrepareFails \/ SpawnFails \/ SetUpFails
  <2>1. /\ child'.status # "running" /\ child'.read = child.read
        /\ child'.pid = child.pid /\ child'.write = child.write /\ pc' \in Ending
    BY <1>0, <1>4 DEF TypeOK, Confined, Holding, Ending, PrepareFails, SpawnFails,
         SetUpFails, Killed
  <2>2. Abstract!End
    BY <1>1, <2>1 DEF Abstract!End
  <2>3. QED
    BY <2>2 DEF Abstract!Next
<1>5. QED
  BY <1>2, <1>3, <1>4

\* The steps that wait for the child, restart it or end the session: the
\* child is gone before anything else changes.
LEMMA WaitConfinement ==
  ASSUME IInv,
         \/ StillRunning \/ Exited \/ WaitFails \/ ReadFlag \/ Terminated
         \/ RestartRequested \/ Sleep \/ StopBridge \/ RestartProxy
         \/ Finish \/ CloseSocket \/ ExitProcess
  PROVE [Abstract!Next]_(Abstract!confinementVars)
<1> USE DEF shared, link, poll, copies
<1>0. TypeOK /\ Confined
  BY DEF IInv
<1>1. UNCHANGED <<policy, staged>>
  BY DEF StillRunning, Exited, WaitFails, ReadFlag, Terminated, RestartRequested,
         Sleep, StopBridge, RestartProxy, Finish, CloseSocket, ExitProcess
<1>2. CASE StillRunning \/ ReadFlag \/ Sleep \/ RestartProxy \/ Finish
             \/ CloseSocket \/ ExitProcess
  <2>1. UNCHANGED child /\ (pc' \in Ending <=> pc \in Ending)
    BY <1>2 DEF StillRunning, ReadFlag, Sleep, RestartProxy, Finish, CloseSocket,
         ExitProcess, Ending
  <2>2. QED
    BY <1>1, <2>1, ConfinementStill
<1>3. CASE RestartRequested
  <2>1. /\ child'.status # "running" /\ child'.read = child.read
        /\ child'.pid = child.pid /\ child'.write = child.write /\ pc \notin Ending /\ pc' \notin Ending
    BY <1>0, <1>3 DEF TypeOK, RestartRequested, Killed, Ending
  <2>2. Abstract!Stop
    BY <1>1, <2>1 DEF Abstract!Stop
  <2>3. QED
    BY <2>2 DEF Abstract!Next
<1>4. CASE Exited \/ WaitFails \/ Terminated
  <2>1. /\ child'.status # "running" /\ child'.read = child.read
        /\ child'.pid = child.pid /\ child'.write = child.write /\ pc' \in Ending
    BY <1>0, <1>4 DEF TypeOK, Exited, WaitFails, Terminated, Killed, Ending
  <2>2. Abstract!End
    BY <1>1, <2>1 DEF Abstract!End
  <2>3. QED
    BY <2>2 DEF Abstract!Next
<1>5. CASE StopBridge
  <2>1. UNCHANGED child /\ child.status # "running" /\ pc \notin Ending
    BY <1>0, <1>5 DEF StopBridge, Confined, Holding, Ending
  <2>2. CASE pc' = "proxy"
    <3>1. pc' \notin Ending
      BY <2>2 DEF Ending
    <3>2. QED
      BY <1>1, <2>1, <3>1, ConfinementStill
  <2>3. CASE pc' = "returning"
    <3>1. pc' \in Ending
      BY <2>3 DEF Ending
    <3>2. Abstract!End
      BY <1>1, <2>1, <3>1 DEF Abstract!End
    <3>3. QED
      BY <3>2 DEF Abstract!Next
  <2>4. QED
    BY <1>5, <2>2, <2>3 DEF StopBridge
<1>6. QED
  BY <1>2, <1>3, <1>4, <1>5

\* apply_staged_policy_updates grants what was promised, all of it, while no
\* child runs.
LEMMA ApplyConfinement ==
  ASSUME IInv, ApplyStaged
  PROVE [Abstract!Next]_(Abstract!confinementVars)
<1>0. TypeOK /\ Confined
  BY DEF IInv
<1>1. /\ policy'.read = policy.read \cup (staged.read \cup staged.allow)
      /\ policy'.write = policy.write \cup (staged.write \cup staged.allow)
  BY <1>0 DEF TypeOK, ApplyStaged, WithStaged, AnyStaged, Policy, Staged
<1>2. RightsOf(policy'.read, policy'.write)
        = RightsOf(policy.read, policy.write)
            \cup RightsOf(staged.read \cup staged.allow, staged.write \cup staged.allow)
  BY <1>1, RightsOfUnion
<1>3. RightsOf(staged'.read \cup staged'.allow, staged'.write \cup staged'.allow) = {}
  BY DEF ApplyStaged, NothingStaged, RightsOf
<1>4. /\ UNCHANGED child /\ child.status # "running"
      /\ pc \notin Ending /\ pc' \notin Ending
  BY <1>0 DEF ApplyStaged, Confined, Holding, Ending
<1>5. Abstract!Grant
  BY <1>2, <1>3, <1>4 DEF Abstract!Grant
<1>6. QED
  BY <1>5 DEF Abstract!Next

\* Of what a client can ask, only a patch is seen, as the promise it
\* acknowledges; the child and the policy's rights are not touched.
LEMMA ListenerConfinement ==
  ASSUME IInv, Listener
  PROVE [Abstract!Next]_(Abstract!confinementVars)
<1> USE DEF main, shared, link, poll, copies
<1>0. TypeOK
  BY DEF IInv
<1>1. CASE Query \/ Hangup \/ handle_terminate \/ (\E c \in Clients : Accept(c))
  <2>1. UNCHANGED <<policy, staged, child, pc>>
    BY <1>1 DEF Query, Request, Hangup, handle_terminate, Accept
  <2>2. QED
    BY <2>1, ConfinementStill
<1>2. ASSUME NEW patch \in Patches, handle_patch(patch)
      PROVE [Abstract!Next]_(Abstract!confinementVars)
  <2>0. patch \in PolicyPatch
    BY PatchesAssumption
  <2>1. /\ UNCHANGED <<child, pc>>
        /\ policy'.read = policy.read /\ policy'.write = policy.write
    BY <1>0, <1>2 DEF handle_patch, Request, TypeOK, Policy
  <2>2. RightsOf(staged'.read \cup staged'.allow, staged'.write \cup staged'.allow)
          = RightsOf(staged.read \cup staged.allow, staged.write \cup staged.allow)
              \cup Grants(patch)
    <3>1. /\ staged'.read = staged.read \cup patch.add_read
          /\ staged'.write = staged.write \cup patch.add_write
          /\ staged'.allow = staged.allow \cup patch.add_allow
      BY <1>2 DEF handle_patch, PatchedStage
    <3>2. QED
      BY <1>0, <2>0, <3>1, PatchPromises DEF TypeOK
  <2>3. Grants(patch) \in SUBSET (Paths \X Modes)
    BY <2>0 DEF Grants, Modes, PolicyPatch
  <2>4. Abstract!Promise(Grants(patch))
    BY <2>1, <2>2 DEF Abstract!Promise
  <2>5. QED
    BY <2>3, <2>4 DEF Abstract!Next
<1>3. QED
  BY <1>1, <1>2 DEF Listener

\* A child may stop by itself; a signal and a connection are not seen.
LEMMA EnvironmentConfinement ==
  ASSUME IInv, Environment
  PROVE [Abstract!Next]_(Abstract!confinementVars)
<1> USE DEF main, shared, link, poll, copies
<1>1. CASE ChildExits
  <2>1. /\ UNCHANGED <<policy, staged, pc>> /\ child'.status # "running"
        /\ child'.pid = child.pid
        /\ child'.read = child.read /\ child'.write = child.write
    BY <1>1 DEF IInv, TypeOK, ChildExits
  <2>2. Abstract!Stop
    BY <2>1 DEF Abstract!Stop
  <2>3. QED
    BY <2>2 DEF Abstract!Next
<1>2. CASE Signal \/ (\E c \in Clients : Connect(c))
  <2>1. UNCHANGED <<policy, staged, child, pc>>
    BY <1>2 DEF Signal, Connect
  <2>2. QED
    BY <2>1, ConfinementStill
<1>3. QED
  BY <1>1, <1>2 DEF Environment

\* Every step of the session is one step of Confinement, or none.
LEMMA NextConfinement ==
  IInv /\ [Next]_vars => [Abstract!Next]_(Abstract!confinementVars)
<1> SUFFICES ASSUME IInv, [Next]_vars
             PROVE [Abstract!Next]_(Abstract!confinementVars)
  OBVIOUS
<1>1. CASE Main
  BY <1>1, LaunchConfinement, WaitConfinement, ApplyConfinement DEF Main
<1>2. CASE Listener
  BY <1>2, ListenerConfinement
<1>3. CASE Environment
  BY <1>3, EnvironmentConfinement
<1>4. CASE UNCHANGED vars
  <2>1. UNCHANGED <<policy, staged, child, pc>>
    BY <1>4 DEF vars, shared
  <2>2. QED
    BY <2>1, ConfinementStill
<1>5. QED
  BY <1>1, <1>2, <1>3, <1>4 DEF Next

\* A live session implements Confinement: the rights of a child are exactly
\* those of the live policy and of its own launch for as long as it runs, the
\* policy's grow only between two children and only by what handle_patch
\* acknowledged, and a session on its way out has no child.
THEOREM RefinesConfinement == Safety => ImplementsConfinement
<1>1. Init => Abstract!Init
  BY InitConfinement
<1>2. IInv /\ [Next]_vars => [Abstract!Next]_(Abstract!confinementVars)
  BY NextConfinement
<1>3. QED
  BY <1>1, <1>2, Invariance, PTL DEF Safety, ImplementsConfinement, Abstract!Spec
=============================================================================
