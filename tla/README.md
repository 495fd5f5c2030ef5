# A TLA+ development for SHADI

SHADI runs autonomous agents: it confines them (`shadi_sandbox`, `shadictl`),
gives them secrets and identities (`agent_secrets`, `shadi_credential`,
`shadi_identity`), lets them reach each other (`shadi_a2a`,
`agent_transport_slim`, `slim_mas`, `agentbridge`) and coordinates them
(`shadi_mas`, `agentbridge coordinate`).  This directory holds TLA+ models of
the parts that carry protocol logic of their own, TLC configurations that
check them on small instances, and TLAPS proofs of what holds on every
instance.  `PROJECT.json` ties each definition to the lines it translates,
each property to a change of the code that would break it, and each hazard to
the properties that would notice it.

Run `tlc -config X.cfg Module` for a run of the table below and
`tlapm Module.tla` for the eight `*Proofs` modules.

## Inventory

| Component | State it keeps | Operations | What is hard about it | What makes it correct |
|---|---|---|---|---|
| Development engine (`shadi_mas/src/engines/development.rs`, `runtime.rs`) | active epoch, proposals, votes, seen event ids, selected artifacts, counters | `MasRuntime::apply` of an event | events arrive repeated, early, late and from anybody | an id takes effect once, an epoch is decided once, from what was submitted in it |
| Preference, cascade and resource engines (`engines/preference.rs`, `cascade.rs`, `resource.rs`) | active epoch, announced scalars, seen ids, and a plant: optimum, supply chain, or stock | `apply`, `metric`, `current_value` | the same, and sums that run over all rounds | no scalar crosses an epoch or an agent; goods are conserved; every breached round is counted once |
| CONVERGE controller (`engines/converge.rs`) | last metric, streak, epochs done, ballots, halt | `begin_epoch`, `vote`, `record_metric`, `conclude_votes` | boundaries of plateau, horizon and majority | a halt is earned by what was recorded |
| Assembly (`assembly.rs`) | inferred pattern | `ingest`, `finish` | opinions come one by one, ties of keywords | the last opinion decides |
| `agentbridge coordinate` (`agentbridge_cli/src/commands/coordinate.rs`) | round, collected proposals, report | `run`, `run_assembly`, `run_converge`, `drive_converge`, `finish` | agents fail in any call; two epoch counters (driver, engine) must agree | the report is the engine's history; the run ends |
| Live sandbox session (`shadictl/src/sandbox_snapshot.rs`, `policy_watch.rs`, `shadi_sandbox/src/policy_patch.rs`) | `LivePolicy` behind a mutex, three atomics, child, proxy, control socket, Git snapshot | launch, poll, kill, relaunch; `query_policy`, `patch_policy`, `terminate` | two threads and a child; patches land in the middle of a relaunch; every launch step may fail | acknowledged grants are kept, the child has the paths of the policy shown and the endpoints of its own launch, a stop ends the session |
| Control protocol (`shadi_sandbox/src/control.rs`) | endpoint file | connect, request, response | one connection at a time | only the owner's processes are served |
| Network proxy (`shadi_sandbox/src/net_proxy.rs`) | allowlist behind a lock, permits, listener, a thread per connection | accept, shed, parse, admit, resolve, tunnel; update, restart, drop | a cap that every way out must respect, a list replaced while it is read, names resolved under the lock, rebinding the port | only what a list in force covers is connected to; control is served whatever clients do |
| Trusted secret delivery (`shadictl/src/trusted_secret_delivery.rs`) | rules, brokers, endpoints, workers | resolve, prepare, deliver, delegate, join, clean up | deadline against a late peer, a peer that does not read, strangers at the endpoint, a relaunch over old workers | a secret is handed out once, to the kind of process it is for; workers and endpoints do not outlive their launch |
| Policy resolution and back ends (`policy.rs`, `resolve.rs`, `platform/`) | none | layer profiles; spawn, kill, wait | precedence of layers | the explicit layer wins |
| `shadictl` shell and one-shot commands | none of their own | parsing, dispatch | – | – |
| `agentbridge register`: life of a listener (`register.rs`, `announce.rs`, `record.rs`, `main.rs`) | listeners, card, `PENDING`, the SIGTERM slot, `LISTENING`, provisioned directories, descriptor | provision, announce, come up, publish, withdraw, signals, exit | five threads of which each may end the process, two locks, two signal handlers | listed only once every listener has come up, and never again once withdrawn; nothing is left behind; told to stop, it stops |
| `agentbridge register`: tasks (`register.rs`, `adapters/profile.rs`, `subprocess.rs`) | harness sessions by conversation, running children | admit, continue a session, spawn, track, retry without a session, hand off, kill | tasks share one session table and one set of children | a session serves the sender it was started for; a kill reaches every child it knows of |
| Finding and reaching a peer (`delegate.rs`, `local_registry.rs`, `member_source.rs`, `shadi_mas/src/experiments`) | leases and descriptors of a host | look up by name or DID, send by URL or SLIM, retry, AUTH_REQUIRED loop | processes crash and take over URLs and names between look-up and delivery | the agent that runs a task is the one named |
| Admission (`shadi_identity/did_proof.rs`, `binding.rs`, and their callers) | none | unwrap a signed message, verify a certificate | borrowed and expired certificates, forged claims | – (operators used by the others) |
| Channel owner (`agentbridge/src/owner.rs`, `owner_intake.rs`) and the Desktop's commands on it (`commands/owner.rs`, `channel_manager.rs`, `slim.rs`) | rules, inbox, audit log, waiting callers, rooms and their store | request, decide by rule, ask, approve, deny, expire; start, join, create, invite, forget, remove | windows, timers and requests race over three locks; a join holds one of them for its whole time-out; the disk fills up, and a write that fails or is interrupted cuts its file short | a grant is recorded and earned, an ask has one verdict, a reported change is stored and lost only with its file, everybody is answered |
| `shadi_a2a`, `agent_transport_slim`, `slim_mas` | sessions of the SLIM library | send, receive | – | – |
| `shadi_credential`, `agent_secrets`, `shadi_memory` | sealed files, key stores, a database | put, get | – | – |
| `shadi_telemetry`, `shadi_py`, rest of the Desktop, examples | – | exporters, bindings, user interface | – | – |

How they interact.  `coordinate` asks agents one after the other, turns each
reply into a `CoordinationEvent` and hands it to one engine through
`MasRuntime::apply`; for CONVERGE it also feeds the controller, which decides
after each epoch whether to go on.  `--assembly` runs the session that picks
the class first.  In `shadictl run` the main thread owns the child, the proxy
and the snapshot; a listener thread serves the control socket.  The two share
`LivePolicy` under one mutex and the atomics `restart_requested` and
`terminate_requested`; a signal handler raises a third one.  A network patch
goes through `LivePolicy` to the proxy's allowlist; the secrets of a launch are
handed out between the spawn and the wait of the same main thread, over
endpoints whose paths are added to the rights of that child only.  An agent is
reached in three stages, each a module: a sender finds it (`TaskDispatch`), the
listener it finds is alive and announced or not (`AgentListener`), and its
executor admits the message (`Admission`) and runs it (`TaskExecutor`).  A
channel owner admits by the same certificates and lends its approval to a
channel manager, which waits for it.

## Modules

| Module | Models | State and actions |
|---|---|---|
| `EpochRounds` | abstract: what every engine promises | the open epoch, the table of its contributions, the ledger of verdicts; `Put`, `Close` |
| `DevelopmentEngine` | `DevelopmentEngine::apply`, `accept_proposal`, `accept_vote`, `try_finalize` with the bookkeeping of `MasRuntime` | the fields of the engine; one action per way through `apply` (six refusals, `HoldProposal`, `FinalizeEpoch`, `AcceptVote`, `ApplyNothing`) |
| `ScalarEngine` | the epoch discipline written three times in `preference.rs`, `cascade.rs`, `resource.rs`; the constant `Class` selects the differences | as above, with `announced` and `current` |
| `ConvergePlants` | what a finalized round does: `apply_orders`, `apply_extractions`, `metric` | EXTENDS `ScalarEngine`; the plant moves in the step that finalizes, never apart from it |
| `ConvergeController` | all methods of `ConvergeController`, in any order | its fields |
| `ConvergeRun` | `run_converge`, `drive_converge`, `ask_for_announce`, `derive_rules` | composes `ConvergePlants` and an instance of `ConvergeController` with the driver's program counter |
| `Coordinate` | the development branch of `run()` and `finish()` | EXTENDS `DevelopmentEngine` |
| `Assembly` | `infer_pattern`, `AssemblySession`, `run_assembly` and the dispatch of `run()` | the session, the seed and the replies |
| `Confinement` | abstract: what a live session promises about the file system | the rights of the policy, what was promised and not granted, whether a child runs and with what, whether the session is over; `Promise`, `Grant`, `Start`, `Stop`, `End` |
| `LiveSession` | `run_sandboxed_command`, `policy_watch`, `apply_policy_patch` | a main thread (`pc`), a listener (`serving`), clients (`backlog`), the child and the rights it is given (`runtime_policy`: the policy and the endpoints of this launch), the flags |
| `NetProxy` | `net_proxy.rs`: `accept_loop`, `handle_connection` with its SOCKS5 and HTTP front ends, `is_host_allowed`, `is_ip_allowed`, `NetAllowlist::update`, `restart`, `Drop` | accept loops by generation, their counts, the backlog, a record per connection, the list and the patch that waits for the lock |
| `SecretLaunch` | what a launch with secrets keeps and promises | the launch (`pc`, `turn`), its brokers, endpoints and workers, a directory left by an endpoint that failed (`stray`), the processes that connect; the properties |
| `SecretDelivery` | `trusted_secret_delivery.rs` on Unix | EXTENDS `SecretLaunch`; the rules are resolved one by one, the direct ones first, then those of the policy, into brokers or a refusal |
| `AgentListener` | one `agentbridge register` process | a program counter per thread (main, listeners, card, SIGTERM, Ctrl-C), the two locks and what they guard, the descriptor, the directories |
| `Admission` | `unwrap_signed_message`, `verify_binding`, `admit_binding` | operators over abstract keys |
| `TaskExecutor` | `AgentBridgeExecutor::execute` over one `ProfileAdapter` | a program counter per task, `sessions`, `active_pids`, the kill |
| `TaskDispatch` | `delegate`, `resolve_handoff_target`, `LiveA2ATaskAdapter`, `run_auth_required_loop` | processes and their files on one host, one client and what it has found; two instances of `Admission`, for listeners with and without a list of humans |
| `ChannelOwner` | `owner.rs`, `owner_intake.rs` and the Desktop's owner, channel manager and room commands | owners, inbox, audit and policy files, rooms and store, the files cut short (`torn`), requests (`call`) and windows (`ui`) with the locks they hold |
| `DevelopmentEngineProofs` | theorems about `DevelopmentEngine`, `Coordinate`, `Assembly` | |
| `ScalarEngineProofs` | theorems about `ScalarEngine`, `ConvergePlants`, `ConvergeController`, `ConvergeRun` | |
| `TaskProofs` | theorems about `TaskExecutor`, `TaskDispatch` | |
| `LiveSessionProofs`, `NetProxyProofs`, `SecretDeliveryProofs`, `AgentListenerProofs`, `ChannelOwnerProofs` | theorems about the module of that name | |
| `MCSandboxServices`, `MCTasks`, `MCConvergeRun`, `MCCoordinate` | instances that hold several state machines; `mode` says which of them a behaviour shows, and a behaviour never changes it (`MCConvergeRun` extends the run of a supply chain and has the other classes as instances) | |
| the other `MC…` | instances of one module | |

Definitions keep the source's names where TLA+ allows it.  Variables marked
*history* in the modules (`consumed`, `rounds`, `ballots` of
`Coordinate`, `metrics`, `granted`, `stop_first`, `shown`, `received`,
`withdrawn`, `early`, `maker`, `tracked`, `accepted`, `invited`, `told`) record
what happened and are read by properties only.  `told` holds what the room
commands reported, additions and removals.

### Abstractions

* Data.  Artifacts, ids, paths, destinations and commands are model values.  A
  text is what can be told of it: its CLASS lines and its keyword counts; a
  reply of an agent is a value, a ballot or nothing readable.  Lists whose
  order and repetitions nothing observes are sets.
* Numbers.  Floats of the plants become integers in scaled units (cost in
  halves, price in eightieths) and regrowth is rounded down; the preference
  metric is the square of the distance.  Rounding of floats is not covered.
* The optimum of the preference class comes from a linear solver; here it is a
  constant.
* Atomicity.  A section under the mutex of `LivePolicy` is one action, each
  read of an atomic is one action, and nothing in a section panics, so the
  lock is never poisoned.  Installing the signal handlers is taken to succeed.
  In `AgentListener` and `ChannelOwner` a lock that is held over several steps
  is a variable, so that waiting for it can be seen; in `NetProxy` the read
  lock is held for several steps only while a name is resolved.
* Names and addresses.  A host is its sequence of labels, so that a wildcard
  can be told from its apex; an allowlist entry is what `normalize_net_allow`
  and `split_entry` leave of it, with a port, any port, or a port that does not
  parse.  A key is its DID and a signature the key that made it.
* Rights of a child.  Those of the file system are modelled: the paths of the
  policy and the endpoints of the launch.  The proxy's port and, on macOS, the
  use of local sockets, which `sandbox_snapshot.rs` adds to the same record,
  are not.
* Files.  `std::fs::write` truncates before it writes: when it fails, or the
  process ends in it, the file holds the old contents or is cut short, and a
  file that is cut short does not parse.  The audit log is appended to.
* Time.  Deadlines are counted in polls (`Deadline`) or ticks (`Within`,
  `ask_timeout`), and a tick may come at any step.
* External.  Agents, operating-system calls, Git and the clients of the
  control socket are nondeterministic: any reply, any failure the code
  handles.
* History variables are bounded with the calls: `MaxCalls`, `MaxRequests`,
  `MaxRecords` are the only bounds in guards, and no theorem depends on their
  value.

## Runs

| Run | Expect | What it asks |
|---|---|---|
| `development_engine` | pass | seven deliveries of fifteen events that clash in id, epoch, source and payload: `ExactlyOnce`, `SelectedWasSubmitted`, `NoIdleQuorum`, and `ImplementsRounds`, the refinement of `EpochRounds` |
| `scalar_engine` | pass | seven deliveries of thirteen announcements: `ScalarsAreTheirOwn`, `FirstAnnouncementStands`, `ImplementsRounds` |
| `converge` | pass | whole CONVERGE runs of the three classes, one of a crew that lists an agent twice, and the controller called in any order: `PlantsKeepTheirBooks` (goods are conserved; the stock follows from the rounds closed, and each round that breached it is counted once), `ReportIsTheHistory`, `LabelIsTrue`, `HaltsAreEarned`, `RunsEnd` |
| `coordinate` | pass | the assembly before a run, and a development run with a quorum of the whole crew: `LastOpinionDecides`, `WinnerHasMostEndorsements`, `RunEnds` |
| `live_session` | pass | `NoGrantIsLost`, `StopKeepsPriority`, `NetworkInSync`; `ImplementsConfinement`, the refinement of `Confinement`: a child has the paths of the policy and the endpoints of its own launch, and none of an earlier one; `StopEnds`, `GrantsTakeEffect` |
| `sandbox_services` | pass | the proxy: `PermitsAreExact`, `TunnelsWereAllowed`, `ControlIsServed`; the secrets of a launch: `OneReader`, `NothingIsLeft` (but for the directory of an endpoint that failed), `DeliveryEnds` (but for a peer that neither reads its secret nor goes away).  `OneReader` tells the child from the others, not an authorized helper from another process |
| `listener` | pass | every command line of `register`: `ListedIsReady` (a listener that has since returned counts as one that came up), `ExitLeavesNothing` (of the directories of the record; parents that were made on the way are not part of it), `StopsWhole` |
| `tasks` | pass | two tasks in one listener: `SessionsArePrivate`, `KillReachesTracked`, `TasksEnd`; one task on its way: `DeliveredToTheNamed`, `EveryDispatchEnds`.  No session of another sender is resumed; that a session just stored is kept is not asked: another task of the conversation that retries clears it (`profile.rs:870`), and the next one begins a new session.  Over SLIM `DeliveredToTheNamed` rests on the theorem, no message of this instance makes it interesting |
| `channel_owner` | pass | `GrantsAreEarned`, `OneVerdict` (of the replies of the owner; a caller that was told that nobody answered is excepted, see the findings), `RoomsAreRemembered` (unless the last write of the store was cut short), `LocksAreInOrder`, `EveryCallEnds` |
| `coordinate_quorum` | violation | the documented rule of the winner, with a quorum below the size of the crew |
| `live_proxy` | violation | a child of a session with a proxy never runs without one |
| `listener_ctrl_c` | violation | Ctrl-C withdraws the announcement |

### Bounds

* Engines: two epochs can be finalized and a third opened with seven calls;
  the events contain every kind of source, payload and pattern, an id used by
  two events, a stale and an early epoch.  A duplicate, a stale and a deferred
  delivery fit next to a finalized epoch.
* `converge`: five epochs at most, more than the four in which a plateau of
  three can appear and twice the lead of two, so that an order placed in a run
  also arrives in it; the shock of the demand comes in the second period, and
  the greedy extraction exhausts the stock in two rounds.  The controller by
  itself has a horizon of five, a plateau of two, a repeated roster entry and a
  stranger that votes.  `MaxCalls` is above anything the driver can use, so it
  never cuts a behaviour off.
* `coordinate`: three agents, so that an endorsement can be outvoted, and two
  rounds, so that one can be a retry; seven texts that cover no, one and two
  CLASS lines with and without a name, and leading, tied and missing keywords.
* `live_session`: three requests are a patch, a patch that lands in the
  relaunch of the first, and a terminate; one client is trusted and one is
  not; a path is granted in both modes or in one; a host is written in two
  ways; every launch has a secret, so that the endpoint of one can be told from
  that of the next.
* `sandbox_services`: a cap of one and two connections, so that one is shed or
  waits; two accept loops are one restart with a handler of the old loop still
  running; one patch between two lists that differ in wildcard, port and a port
  that does not parse; a name that resolves to the asked address or not.  Two
  brokers, the child and one helper, which comes with the right nonce or a wrong
  one and runs the authorized program or another, two launches, and one
  configuration for each way `resolve` refuses a rule.
* `listener`: one skill folder and every combination of listeners, card,
  announcement, record and isolation; nothing else is bounded.
* `tasks`: two tasks and one tracked conversation, so that the eviction of
  `MAX_TRACKED_CONVERSATIONS` happens with the second; twelve messages, of
  which each meets one refusal of the admission.  Four processes, of which two
  share a URL, two a name and two a DID, one retry and two parks.
* `channel_owner`: two requests and two windows; the menus (`MCMenus`) group
  the commands that touch the same state, since all of them at once do not fit:
  two approvals against two windows, rules against asks, a change of policy or
  a restart under a certified request, rooms under a join, a disk that fills up
  and a restart in the middle of a write, of rooms and of the files of policy
  and configuration, and the commands of the channel manager.

### Fairness

Only liveness properties use it.  `RunsEnd` and `RunEnds` assume weak fairness
of the driver: it is one sequential program, and every call of an agent is
assumed to return.  Nothing in the code sees to that: a subprocess is waited
for without a time limit (`subprocess.rs:82`), so an agent that hangs holds up
the run.  `StopEnds` and `GrantsTakeEffect` assume it of the main thread
(`Main`): kill, wait and the steps of a launch return.  Of the delivery of a
secret, which is one of these steps, this holds of a child that reads what it
fetched or goes away (`DeliveryEnds`); one that does neither keeps the main
thread in the launch, and a stop with it.
`ControlIsServed` assumes that the proxy does something while one of its
threads can, which is less than the operating system gives; clients and hosts
may keep silent and tunnels open for ever.  `DeliveryEnds` assumes the main
thread and the workers run and nothing of the processes that connect: the child
may never fetch its secret, and the property excepts by name the child or the
helper that fetches it, stays and does not read, since `write_all`
(`trusted_secret_delivery.rs:968`, `1101`) has no time limit.
`StopsWhole` assumes each thread of the process runs, nothing of signals.
`TasksEnd` assumes that the blocking threads run and that a harness ends,
which the code leaves to the harness; `EveryDispatchEnds` that the client goes
on.  `EveryCallEnds` assumes that timers, joins (which time out) and handlers
go on (`System`), nothing of the owner's windows.

## Proofs

TLAPS checks the proof modules for all values of the constants, from the named
`ASSUME`s only: finite id sets, a roster over known agents, `None` outside the
data, normalization idempotent, allowlists of entries, an address asked for by
a SOCKS5 address frame is an address, a table of at least one session, a
request names a channel, the store holds rooms, the rules of a policy are a
list, a run starts with epoch 0 and a crew of at least one agent, the plants
have a lead of at least one and a demand for every period, an announced number
that is finite is an integer, no agent is named
like a DID.  TLC evaluates them in the runs.

Each module states its inductive invariant `IInv` as a conjunction of named
parts, shows that `Init` implies it and that every action keeps it, and derives
the properties of the run from it.  Theorems are stated for the safety part
(`Safety`, without fairness) of a specification.  Where a list has no type that
can be named beforehand, or the code goes through a table in order, the proofs
argue with positions: the models say `the entry at position i is dropped' or
`these numbers in ascending order' and not how a library function computes it,
which the provers could not follow (a fold, a sort or a filter is an induction
over data).

* `DevelopmentEngineProofs`.  `IInv` is the conjunction of the type
  invariant and the properties of the run, plus `DecidedExactlyThePast`.
  `SelectedWasSubmitted` is not inductive alone: the artifact selected comes
  from `proposals`, so it needs `HeldAreCurrent` (everything held was
  submitted in the active epoch), which in turn needs `ExactlyOnce` so that
  the record of an earlier submission cannot be overwritten by a later event
  with its id.  `WinnerExists` shows by the well-ordering of the naturals that
  the tally has a maximum, so that finalizing is never undefined.  From `IInv`
  follow `BooksBalance`, `DecisionsAreEarned`, `EpochsAreSeparate`, the action
  property `DecisionsAreFinal`, and `RefinesRounds`: each accepted proposal is
  a `Put` or a `Close` of `EpochRounds`, all else stutters.

  The driver: `WinnersAreEndorsed` is about a quorum of the whole crew
  (`WholeCrew`), the case the comment at `coordinate.rs:184` describes and the
  default of 2 gives a crew of two; with a smaller one the property is the
  violation of `coordinate_quorum`.  The proposals that are
  applied before the votes cannot reach that quorum before the last of them
  carries its votes, and never do when the crew lists an agent twice, since one
  entry per name is held.  `RoundIsOwn` says so at each step of the driver;
  `VotesSeen` says that by the time of the decision the tally has counted every
  ballot, and `Verdict` follows.  A retry is deferred as a whole, so that the
  engine's epoch may stay behind the round.  `RunsDriveTheEngine` shows that
  every step of the driver hands the engine an event it was proved for or none,
  and `RunsCloseTheirRounds` that a run therefore refines `EpochRounds` and
  takes no decision back.  The assembly: `CrewDecides` rests
  on `AssemblyInv`, while the crew is asked the session holds the latest
  opinion, and the seed as long as nobody had one.
* `ScalarEngineProofs`.  The same argument for the three scalar engines, with
  `announced` in the place of `proposals`; `RefinesRounds` maps the whole
  table to the verdict.

  The plants: `BooksAreKept` is `PlantsKeepTheirBooks` for every stream of
  events: the pipeline holds the orders of the last `Lead` rounds, the stock is
  what the rounds closed so far leave of it and the breaches are as many as the
  rounds that left too little (`BreachesAreCounted`), and the inventory position of a stage is what it started with, plus
  all it ordered, less all it was asked for (`GoodsAreConserved`).  Only a
  finalized round moves a plant, whatever the engine refuses in between.  The
  sums run over a growing history, and what a sum is cannot be shown by
  induction over data; so the books are argued with a *running account*: a
  function from positions to totals that starts with nothing and adds one entry
  at each position.  The invariant carries that accounts exist which balance
  (`BooksBalanced`; a round shifts the one of the pipeline and extends the one
  of the trade by an entry), and the least position at which the recursive sum
  and an account would differ shows that there is none (`SumIsRunning`).  The
  stock is argued likewise: `StockKept` carries that a record of it exists which
  starts with the initial stock and follows each round, a round extends it by
  one entry and the set of breached rounds by at most that round (`StockStep`),
  and there is one such record, which `StockHistory` works out
  (`StockIsHistory`).
  `RunsDriveThePlant` shows that the driver of a run is one of the
  environments the plants were proved for, and `RunsKeepTheBooks`,
  `RunsCloseTheirRounds` carry the theorems about plants and engine over to it.
  The controller: `CtlInv` says that the streak never reaches further back than
  the second score and that each epoch in it failed to improve on the one
  before; `HaltsAreEarned` is that a halt is given by what the scores and votes
  show.  It is proved for the controller of a run (`plateau_k` is 3, any roster
  and any horizon); the run of TLC calls another one in any order.  The driver:
  `RunInv` ties the engine, the controller and the report.  `InStep` says of a
  crew of distinct agents that the round is filled seat by seat, that its last
  announcement finalizes it and that the report then has one entry for every
  epoch the engine closed; `NoSecondSeat` that a crew that lists an agent twice
  never closes one. `ReportsAreTheHistory` and `LabelsHold` follow.  Nothing is
  assumed of the values of the scores: they are folds, and the proof only
  compares them.
* `LiveSessionProofs`.  `IInv` strengthens the run's invariants by what the
  main thread knows at each of its steps: `Untouched` (a session without a
  control socket keeps its launch policy), `Confined` (the main thread holds
  every running child, and between the snapshot and the launch its copy of the
  policy has the current paths, and the rights of the child are those and the
  endpoints of its launch) and `StopIsRead` (a stop that was up when the
  restart was read is already seen or still to be read).  `ChildHasThePolicy`
  alone fails in the step that launches, `StopKeepsPriority` in the step that
  reads the second flag. `RefinesConfinement` maps an acknowledged patch of the
  paths (`handle_patch`) to `Promise`, the step that merges what was staged to
  `Grant`, the spawn to `Start`, the kill of a relaunch and the end of a child
  to `Stop`, and each way out of the session to `End`; everything else
  stutters.  That the child is launched with the rights of the policy and the
  endpoints of this launch, and not of the copy taken before a patch landed or
  of the launch before, is where `Confined` is needed.
  `NetworkFollowsThePolicy` is `NetworkInSync`: the allowlist of a running
  proxy is that of the policy, since both are written in one section.
* `NetProxyProofs`.  `PermitsHold`: the count is the cardinality of the set of
  running handlers, so a step that ends a handler must take exactly one member
  out of it and a spawn put one in; that the spawned connection is not yet in
  the set is `Backlog` (who waits in the queue is queued, and once), that the
  permit goes back to the loop it came from is `Assigned`.
  `TunnelsAreAllowed`: the decision reads `list` as it is at that step, and
  `ListIsShown` says that this list is among those in force since the
  connection was accepted, for the handler that resolves a name because a
  writer waits for it (`NoReader`), for all others because a written list is
  shown to them.  `SubdomainIsBelow` ties the code's suffix comparison (on
  reversed sequences) to the labels in front of the domain, and `Covered` is
  stated without the operators of the code.

* `SecretDeliveryProofs`.  `SecretsHaveOneReader` needs to know of every broker
  whether its payload is still to be written (`Unread`), which depends on the
  step of the launch for a direct one and on its worker for a delegated one, and
  that a worker about to write has not let the launched child in.
  That follows from the processes alone: the child is no child of itself
  (`Parents`), and a relay is.  `LaunchesLeaveNothing` rests on `Joined`: which
  workers can exist and which endpoints are left at each step, with the
  position of the loop that closes them.  A directory without an owner is left
  by the preparation alone, before anything was handed out, and the launch only
  closes from there on (`Stray`).
* `AgentListenerProofs`.  `ListingIsSound` and `ExitsAreClean` share one
  invariant, whose core is who holds which of the two locks (`Locked`): the
  listener that brings `PENDING` to zero writes the descriptor and fills the
  SIGTERM slot under both (`Listed`), so that a signal finds either nothing or
  all of it.  `Counted` says that `PENDING` never counts fewer listeners than
  are still to come up, without adding them up: the last one is the only one.
  `Withdrew` and `Noted` are what each thread on its way to `exit` has done.
  `WithdrawalsStand` is the action property next to `ListingIsSound`: withdrawn,
  the agent is never listed again.
  `NoCircularWait` is the converse of `Locked`: a lock that is taken is taken by
  a thread that can go on or waits for the other lock only, always PENDING before
  the slot.
* `TaskProofs`.  `TableIsTrue`: every entry of the session table names a
  session that was started for its key, and no key is there twice
  (`TableHasOneEntryEach`), so that dropping the entry a task found drops the
  entry of that task.  `Held` says what the locals of `run()` may be at each
  step, the answer of the harness included: a task that looked a session up
  keeps it while others evict or replace it.  `KillIsComplete` needs that
  `active_pids` is the set of tasks that wait for their child (`Targeted`).

  The dispatch: `TasksReachTheNamed` relates the listener that took a task to
  what the request asked for, although listeners come and go and share URLs
  between the look-up and the call.  What the client settled on stays `Named`:
  it matches the request by DID or by name, whatever happened since, and the
  admission of the listener that answers does the rest.  `NamesAssumption` is what
  `publish()` checks before it writes a record: a name is a safe file name,
  which no DID is, and the DID is not empty.
* `ChannelOwnerProofs`.  `Books` relates each inbox to the audit log: a number
  was given to one request (`AskedForOne`), an ask in an inbox was recorded and
  is not settled (`Inbox`), a settled one is settled once, and a recorded grant
  has its reason in front of it (`Reasons`).  The log only grows (`Carries`),
  so what a caller, a window or a letter between them has learnt from it stays
  true: `SoundCall` and `SoundCommand` say what that is at each of their steps.
   That the answer a window sends reaches the request it was given for is
  `AskedForOne` once more, since caller and window only share the owner and the
  number.  `Held` (the window that holds the owner keeps others from changing
  which owner runs) is needed for the commands that use it after waiting for
  the SLIM state.  `RoomsSurvive` needs that what was reported is true of the
  rooms, and of the store as long as it can be read (`Told`): a change that
  could not be written is not reported, and takes back what it undoes; a store
  that was cut short comes back as no rooms, and nothing is reported of those
  any more.  `VerdictsAreFinal` is the
  action property that goes with `OneVerdict`: by `Carries` and `Inbox` no step
  takes a recorded verdict back or brings its ask into an inbox again.
  `NoCircularWait` is
  `LocksAreInOrder`; it needs that whoever has the SLIM state is in a join,
  whoever has the owner waits for the SLIM state, and no two joins are under
  way (`Exclusive`), so that nobody gives back a lock of somebody else.

Only model-checked: the liveness properties (`RunsEnd`, `RunEnds`, `StopEnds`,
`GrantsTakeEffect`, `ControlIsServed`, `DeliveryEnds`, `StopsWhole`,
`TasksEnd`, `EveryDispatchEnds`, `EveryCallEnds`), since fairness is out of the
prover's reach.  Of two of them the part that is safety is proved: nobody waits
in a circle for the locks of the listener and of the channel owner.  For the
cascade and the resource class the label of a run is the same theorem as for
the preference class: `Class` is a constant of `ConvergeRun`.

## Findings

Three disagreements of code and documentation are runs; `PROJECT.json` quotes
the lines.

* A quorum below the size of the crew is met by the proposals that are
  applied before the vote; the endorsements arrive after the decision.
* When the proxy's port cannot be bound again in a relaunch, the child runs
  without it and network patches are still answered as applied.
* Until `record::listening()` a Ctrl-C is handled by the provisioning handler,
  which exits without withdrawing an announcement that is already published.

Others met on the way, not runs of their own.  In the engines and drivers:

* a round that misses the quorum leaves the engine in its epoch, while the
  driver goes on with the next (`coordinate.rs:338`): the retry is deferred as
  a whole;
* ties go to the alphabetically last id (`max_by_key` keeps the last
  maximum), the comment at `development.rs:101` says first;
* "force-finalizing best artifact" (`coordinate.rs:349`) finalizes nothing:
  `try_finalize` still requires the quorum;
* the quorum counts proposals, the documents say endorsements
  (`docs/content/agentbridge.md:268`);
* a cascade always halts as no-solution after its fourth epoch, since the cost
  of a chain never falls, before the shock can reach stage 0 of a longer chain
  (`cascade.rs:80`);
* `--pattern development` does not seed an assembly, only a paper class does.

In the sandbox:

* when preparing a relaunch fails, the command returns without the "after"
  snapshot of a session that did run a child (`sandbox_snapshot.rs:342`);
* a command blocked by a patch is relaunched all the same:
  `is_command_blocked` is asked once, before the first launch;
* the network axis is documented as `pending_restart`
  (`docs/content/sandbox.md:416`), the code applies it at once or rejects it;
* the answer to a patch of paths says that it will "require manual process
  restart" (`policy_patch.rs:226`, expected by the tests at
  `policy_watch.rs:1111`, `1381` and `1540`; `sandbox.md:424` asks for a
  relaunch of the agent).  None is needed: the listener raises
  `restart_requested` for such a patch and the main thread kills and relaunches
  the child by itself, which is what `GrantsTakeEffect` shows;
* `prepare_secret_broker` makes the endpoint's directory first; when the bind,
  the nonce or the non-blocking mode then fails, it returns without removing
  it, and nobody else knows of it (`trusted_secret_delivery.rs:795-801`);
* a secret is written without a time limit
  (`trusted_secret_delivery.rs:968`, `1101`): a peer that does not read one
  larger than the socket's buffer holds up the launch, deadline or not, or the
  worker that is joined at its end;
* the cap of the proxy is per accept loop: after a restart the tunnels of the
  loop before it are not counted.

In `agentbridge register` and `delegate`:

* a signal during provisioning leaves a directory that was made and not yet
  noted in `CREATED` (`record.rs:36`);
* a card listener that ends before the announcement is known withdraws
  nothing, and the listeners go on;
* a Ctrl-C between `listening()` and the first poll of a listener's `ctrl_c()`
  is lost;
* a lease stays behind on the ways out that call `exit()`; look-ups skip it
  once its process is gone;
* a child that is spawned and not yet tracked survives a kill, while
  `announce.rs:578` speaks of every running child;
* cancelling a task only reports it cancelled, its child runs on;
* a SLIM answer that is lost makes the client send the task again, and it is
  executed twice;
* `delegate` looks the lease up twice: a peer that comes from the Agent
  Directory because its lease went in between is taken for a local one, and the
  warning that nothing checks its DID is not printed.

In the channel owner and the Desktop:

* the owner may approve as the wait of the channel manager runs out: the audit
  log has a grant, the channel manager was told nobody answered
  (`owner.rs:220`, `channel_manager.rs:526`);
* a policy saved while `owner_start` runs is on disk and not in force, against
  `commands/owner.rs:264`; two `owner_start` at once leave the inbox on an
  owner that is not the one served (`slim.rs:291`);
* the intake works on the channels it was started with, and `approve` does not
  look again whether the channel is still held;
* a join holds the SLIM state for its whole time-out, and `with_owner` waits
  for it with the owner locked, so that requests wait too;
* `slim_group_create` records its candidates as admitted and invites nobody;
* the trust set is extended before the invite, and stays so when it fails;
* the store of the rooms is written in place (`slim.rs:540`): a disk that is
  full, or an end of the Desktop in the write, can cost the rooms stored before,
  the next start takes a file it cannot read for no rooms and the next change
  overwrites it, while the comment on `persist` says that "silently losing
  rooms is what this feature exists to stop" (`slim.rs:514`);
* the policy and the channel manager's configuration are written the same way
  (`commands/owner.rs:277`, `channel_manager.rs:702`): with a policy that is cut
  short the owner does not start until one is saved again.

## Not modelled

* Update rules (`update_rule.rs`): a recursive parser and evaluator over
  strings and floats, without state.
* Policy resolution (`resolve.rs`): pure layering of profiles; the platform
  back ends are operating-system calls and appear as steps that may fail.
* `shadi_a2a`, `agent_transport_slim` and `slim_mas` bind the SLIM library;
  what they can do to a task (lose an answer, time out, reach nobody) is in
  `TaskDispatch` and `ChannelOwner`.
* `shadi_credential`, `agent_secrets`, `shadi_memory`: single-process reads
  and writes of sealed files, key stores and a database, and cryptography.
* The shell of `shadictl`, its one-shot commands, the rest of the Desktop,
  telemetry, bindings and the demo bot: parsing, presentation and calls of the
  parts above.
* Of modelled files: the Windows pipe of secret delivery, output parsing of
  the harnesses, texts of prompts and reports, and the in-file unit tests.

The definitions cover a small share of the lines of the repository, and most of
the rest could not be covered without modelling what has no state to speak of:
more than a third of the Rust lines are tests that live in the source files,
and argument parsing, presentation, serialization and calls of libraries make
up most of the others.

## Plan

1. done: engines, controller, drivers, assembly; live session; their proofs.
2. done: secret delivery, the proxy and its proofs, the life of a listener,
   tasks and their dispatch, the channel owner.
3. done: theorems about secret delivery, the listener, the executor, the
   channel owner, and the network rules of a live session.
4. done: theorems about the drivers, the plants, the controller, the assembly
   and the dispatch.
5. done: the books of the plants, live sessions as a refinement of
   `Confinement`, the theorems of engines and plants carried over to the runs
   that drive them, the order of locks, and action properties of the listener
   and the channel owner.
6. `NetworkInSync` across `LiveSession` and `NetProxy`: the list a patch
   writes is the abstract list of the session, as a refinement.
7. `PolicyResolution`: layering as operators against a reference definition.
