--------------------------- MODULE SecretDelivery ---------------------------
(***************************************************************************)
(* Trusted secrets of `shadictl`, crates/shadictl/src/                     *)
(* trusted_secret_delivery.rs: the rules that apply to the launched        *)
(* program are resolved, every secret gets a broker with an endpoint of    *)
(* its own, and after the spawn the brokers hand out their secrets, the    *)
(* direct ones in turn on the main thread and with a deadline, a delegated *)
(* one from a worker thread that lives as long as the child.  The          *)
(* processes that connect are external.  Unix; time is counted in polls.   *)
(***************************************************************************)
EXTENDS SecretLaunch, Integers, FiniteSets, SequencesExt

CONSTANTS
  Command,       \* canonical path of the launched program
  Relays,        \* programs is_relay_executable_name knows
  Configs,       \* what command line and policy file may say: rules, as below
  Helpers,       \* processes other than the launched child
  Installed,     \* programs that canonicalize_executable finds
  Programs,      \* executables, Command among them
  Deadline,      \* TRUSTED_SECRET_DELIVERY_TIMEOUT, in polls
  MaxBrokers,    \* bound: secrets of a launch
  MaxConnects,   \* bound: connections waiting at a time
  MaxLaunches,   \* bound: launches of a session
  None

Pids == Helpers \cup {Child}

(* A direct rule names program, secret and endpoint variable, and pins the
   program's digest or not; one of the command line applies to any program
   and may name another executable.  A policy rule also lists children and
   digests.  A digest fits the file that was there at the start, or is bad. *)
DirectRule == [program : Programs, name : STRING, exec : Programs \cup {None},
               fd_env : STRING \cup {None}, sha256 : {"good", "bad", None}]
PolicyRule == [program : Programs,
               actions : SUBSET {"Disclose", "Use", "DelegateToChild"},
               children : Seq(Programs), child_sha256 : Seq({"good", "bad"}),
               name : STRING \cup {None}, fd_env : STRING \cup {None}]

mainVars == <<config, pc, brokers, turn, polls, dirs, stray, failed, relaunch,
              launches>>
workVars == <<backlog, worker, held, received>>
vars == <<mainVars, workVars, replaced, proc>>

-----------------------------------------------------------------------------
(* resolve_launch_secret_config and PendingTrustedSecretDelivery::new *)

\* canonicalize_policy_program: a program that is not there fails the launch,
\* whichever program the rule is for.
Unresolved(rule) == rule.program \notin Installed

Applies(rule) == rule.program = Command

Delegates(rule) == "DelegateToChild" \in rule.actions

is_relay_executable_name(program) == program \in Relays

\* compute_file_sha256 against a pin: the file must be the one pinned.
HashMismatch(program, pin) == (pin = "bad") \/ (pin = "good" /\ program \in replaced)

\* exec_sha256 of process_trusted_secret does not fit the executable.
PinError(rule) == HashMismatch(rule.program, rule.sha256)

\* A rule of process_secret_policy is malformed, or pins a digest in vain.
PolicyError(rule) ==
  \/ rule.actions = {}
  \/ Delegates(rule) /\ (rule.children = <<>> \/ rule.name = None \/ rule.fd_env = None)
  \/ ~Delegates(rule) /\ rule.children # <<>>
  \/ rule.child_sha256 # <<>> /\ Len(rule.child_sha256) # Len(rule.children)
  \/ ~(Range(rule.children) \subseteq Installed)
  \/ \E i \in DOMAIN rule.child_sha256 \cap DOMAIN rule.children :
       HashMismatch(rule.children[i], rule.child_sha256[i])

DirectBroker(rule) ==
  [kind |-> "Direct", name |-> rule.name, exec |-> rule.exec, fd_env |-> rule.fd_env,
   children |-> <<>>, sha256 |-> <<>>]

DelegatedBroker(rule) ==
  [kind |-> "Delegated", name |-> rule.name, exec |-> Command, fd_env |-> rule.fd_env,
   children |-> rule.children, sha256 |-> rule.child_sha256]

\* What new() refuses: a name configured twice, a mapping that is missing or
\* meant for another program, a child that would only relay the secret.
RefusedAt(i) ==
  \/ \E j \in 1..(i - 1) : brokers[j].name = brokers[i].name
  \/ brokers[i].exec # Command \/ brokers[i].fd_env = None
  \/ \E child \in Range(brokers[i].children) : is_relay_executable_name(child)

-----------------------------------------------------------------------------
Init ==
  /\ config \in Configs
  /\ pc = "resolve" /\ brokers = <<>> /\ turn = 1 /\ polls = 0
  /\ dirs = {} /\ stray = FALSE /\ failed = FALSE /\ relaunch = FALSE /\ launches = 0
  /\ backlog = <<>> /\ worker = <<>> /\ held = <<>> /\ received = <<>>
  /\ replaced = {}
  /\ proc = [p \in Pids |-> [status |-> "none", program |-> Command, parent |-> "init"]]

Alive(p) == proc[p].status \in {"running", "zombie"}   \* kill(pid, 0)
Running(p) == proc[p].status = "running"

\* The launch begins with no secret; those of an earlier one have been dropped.
Begin ==
  /\ pc = "resolve"
  /\ pc' = "direct" /\ turn' = 1
  /\ brokers' = <<>> /\ backlog' = <<>> /\ worker' = <<>> /\ held' = <<>> /\ received' = <<>>
  /\ UNCHANGED <<config, polls, dirs, stray, failed, relaunch, launches, replaced, proc>>

AddBroker(b) ==
  /\ brokers' = Append(brokers, b)
  /\ backlog' = Append(backlog, <<>>) /\ worker' = Append(worker, "none")
  /\ held' = Append(held, None) /\ received' = Append(received, <<>>)

\* One rule after the other: first process_trusted_secret, with what the command
\* line says, then process_secret_policy.
ResolveDirect ==
  /\ pc = "direct" /\ turn <= Len(config.direct)
  /\ LET rule == config.direct[turn]
     IN /\ ~Unresolved(rule)
        /\ IF Applies(rule)
           THEN ~PinError(rule) /\ AddBroker(DirectBroker(rule))
           ELSE UNCHANGED <<brokers, workVars>>
  /\ turn' = turn + 1
  /\ UNCHANGED <<config, pc, polls, dirs, stray, failed, relaunch, launches, replaced, proc>>

DirectResolved ==
  /\ pc = "direct" /\ turn > Len(config.direct)
  /\ pc' = "policy" /\ turn' = 1
  /\ UNCHANGED <<config, brokers, polls, dirs, stray, failed, relaunch, launches, workVars,
                 replaced, proc>>

ResolvePolicy ==
  /\ pc = "policy" /\ turn <= Len(config.policy)
  /\ LET rule == config.policy[turn]
     IN /\ ~Unresolved(rule) /\ (Applies(rule) => ~PolicyError(rule))
        /\ IF Applies(rule) /\ Delegates(rule)
           THEN AddBroker(DelegatedBroker(rule))
           ELSE UNCHANGED <<brokers, workVars>>
  /\ turn' = turn + 1
  /\ UNCHANGED <<config, pc, polls, dirs, stray, failed, relaunch, launches, replaced, proc>>

\* A launched program that would only relay its secrets.
RelayRefused == brokers # <<>> /\ is_relay_executable_name(Command)

Resolved ==
  /\ pc = "policy" /\ turn > Len(config.policy) /\ ~RelayRefused
  /\ pc' = "prepare" /\ turn' = 1
  /\ launches' = launches + 1
  /\ UNCHANGED <<config, brokers, polls, dirs, stray, failed, relaunch, workVars, replaced, proc>>

\* The first error ends the session.
Refuse ==
  /\ \/ /\ pc = "direct" /\ turn <= Len(config.direct)
        /\ LET rule == config.direct[turn]
           IN Unresolved(rule) \/ (Applies(rule) /\ PinError(rule))
     \/ /\ pc = "policy" /\ turn <= Len(config.policy)
        /\ LET rule == config.policy[turn]
           IN Unresolved(rule) \/ (Applies(rule) /\ PolicyError(rule))
     \/ pc = "policy" /\ turn > Len(config.policy) /\ RelayRefused
  /\ pc' = "done" /\ failed' = TRUE
  /\ UNCHANGED <<config, brokers, turn, polls, dirs, stray, relaunch, launches, workVars,
                 replaced, proc>>

\* prepare_secret_broker: directory, listener, nonce, environment.
PrepareBroker ==
  /\ pc = "prepare" /\ turn <= Len(brokers) /\ ~RefusedAt(turn)
  /\ dirs' = dirs \cup {turn}
  /\ turn' = turn + 1
  /\ UNCHANGED <<config, pc, brokers, polls, stray, failed, relaunch, launches, workVars,
                 replaced, proc>>

\* The directory is made, and then the listener cannot be bound or made
\* non-blocking, or there is no nonce: no broker owns the directory.
EndpointFails ==
  /\ pc = "prepare" /\ turn <= Len(brokers) /\ ~RefusedAt(turn)
  /\ stray' = TRUE
  /\ pc' = "close" /\ turn' = 1 /\ failed' = TRUE
  /\ UNCHANGED <<config, brokers, polls, dirs, relaunch, launches, workVars, replaced, proc>>

\* A secret is refused, the keychain has no such key, a directory cannot be
\* made, or inject_keychain_secrets or the spawn fails: the brokers prepared so
\* far are dropped.
PrepareFails ==
  /\ pc = "prepare"
  /\ pc' = "close" /\ turn' = 1 /\ failed' = TRUE
  /\ UNCHANGED <<config, brokers, polls, dirs, stray, relaunch, launches, workVars, replaced, proc>>

Spawn ==
  /\ pc = "prepare" /\ turn > Len(brokers)
  /\ proc' = [proc EXCEPT ![Child] = [status |-> "running", program |-> Command, parent |-> "shadictl"]]
  /\ pc' = "deliver" /\ turn' = 1 /\ polls' = 0
  /\ UNCHANGED <<config, brokers, dirs, stray, failed, relaunch, launches, workVars, replaced>>

-----------------------------------------------------------------------------
(* deliver_after_spawn *)

\* Until the thread that owns the listener is done with it.
Listening(i) ==
  /\ i \in dirs
  /\ brokers[i].kind = "Direct" =>
       (pc = "deliver" /\ turn <= i) \/ (pc = "write" /\ turn < i)
  /\ brokers[i].kind = "Delegated" => worker[i] \notin {"served", "failed", "joined"}

NextBroker == turn' = turn + 1 /\ polls' = 0

AllServed ==
  /\ pc = "deliver" /\ turn > Len(brokers)
  /\ pc' = "wait"
  /\ UNCHANGED <<config, brokers, turn, polls, dirs, stray, failed, relaunch, launches,
                 workVars, replaced, proc>>

AtDirect ==
  /\ pc = "deliver" /\ turn <= Len(brokers) /\ brokers[turn].kind = "Direct"
  /\ polls < Deadline

\* kill() takes the whole process group, the helpers of the child included;
\* wait() then reaps the child.
GroupKilled ==
  [p \in Pids |-> IF p = Child \/ proc[p].parent = Child
                  THEN [proc[p] EXCEPT !.status = "gone", !.parent = "init"] ELSE proc[p]]

GiveUp ==
  /\ pc' = "close" /\ turn' = 1 /\ failed' = TRUE
  /\ proc' = GroupKilled
  /\ UNCHANGED <<config, brokers, polls, dirs, stray, relaunch, launches, worker, held,
                 received, replaced>>

\* Mutant: the process is recognised by its executable alone.
RunsTheCommand(c) ==
  Running(c.pid) /\ proc[c.pid].program = Command /\ c.nonce = "right"

\* Pid, executable and nonce of the launched child.
Verified(c) ==
  c.pid = Child /\ Running(Child) /\ proc[Child].program = Command /\ c.nonce = "right"

\* The listener is closed and the payload goes to the child from here on.
Deliver ==
  /\ AtDirect /\ backlog[turn] # <<>> /\ Verified(Head(backlog[turn]))
  /\ received' = [received EXCEPT ![turn] = Append(@, Head(backlog[turn]).pid)]
  /\ backlog' = [backlog EXCEPT ![turn] = <<>>]
  /\ pc' = "write"
  /\ UNCHANGED <<config, brokers, turn, polls, dirs, stray, failed, relaunch,
                 launches,
                 worker, held, replaced, proc>>

\* write_all returns: the child has taken the payload, or has hung up.
WriteDone ==
  /\ pc = "write"
  /\ pc' = "deliver" /\ NextBroker
  /\ UNCHANGED <<config, brokers, dirs, stray, failed, relaunch, launches, workVars, replaced,
                 proc>>

WriteFails == pc = "write" /\ GiveUp /\ UNCHANGED backlog

\* Anybody else at the endpoint of a direct secret ends the launch.
DirectRejects ==
  /\ AtDirect /\ backlog[turn] # <<>> /\ ~Verified(Head(backlog[turn]))
  /\ backlog' = [backlog EXCEPT ![turn] = Tail(@)]
  /\ GiveUp

\* The peer hung up before it could be asked who it is: wait for another.
DirectDisconnected ==
  /\ AtDirect /\ backlog[turn] # <<>> /\ ~Running(Head(backlog[turn]).pid) /\ Alive(Child)
  /\ backlog' = [backlog EXCEPT ![turn] = Tail(@)]
  /\ polls' = polls + 1
  /\ UNCHANGED <<config, pc, brokers, turn, dirs, stray, failed, relaunch, launches, worker,
                 held, received, replaced, proc>>

\* A child that exits is a zombie until it is waited for, so it stays alive
\* here and the loop runs into its deadline.
PollDirect ==
  /\ AtDirect /\ backlog[turn] = <<>> /\ Alive(Child)
  /\ polls' = polls + 1
  /\ UNCHANGED <<config, pc, brokers, turn, dirs, stray, failed, relaunch, launches, workVars,
                 replaced, proc>>

DirectTimesOut ==
  /\ pc = "deliver" /\ turn <= Len(brokers) /\ brokers[turn].kind = "Direct"
  /\ polls = Deadline
  /\ GiveUp /\ UNCHANGED backlog

start_delegated_secret_delivery ==
  /\ pc = "deliver" /\ turn <= Len(brokers) /\ brokers[turn].kind = "Delegated"
  /\ worker' = [worker EXCEPT ![turn] = "check"]
  /\ NextBroker
  /\ UNCHANGED <<config, pc, brokers, dirs, stray, failed, relaunch, launches, backlog, held,
                 received, replaced, proc>>

-----------------------------------------------------------------------------
(* The worker thread of a delegated secret *)

Becomes(i, state) == worker' = [worker EXCEPT ![i] = state]

\* Mutant: the worker goes on while there may be somebody to serve.
CheckForever(i) == worker[i] = "check" /\ Becomes(i, "accept")

CheckParent(i) ==
  /\ worker[i] = "check"
  /\ Becomes(i, IF Alive(Child) THEN "accept" ELSE "failed")

WorkerChecks(i) ==
  /\ CheckParent(i)
  /\ UNCHANGED <<mainVars, backlog, held, received, replaced, proc>>

WorkerPolls(i) ==
  /\ worker[i] = "accept" /\ backlog[i] = <<>>
  /\ Becomes(i, "check")
  /\ UNCHANGED <<mainVars, backlog, held, received, replaced, proc>>

\* Executable, digest, parent and nonce of the peer, in this order.
Authorized(i, c) ==
  /\ Running(c.pid)
  /\ \E k \in DOMAIN brokers[i].children :
       /\ brokers[i].children[k] = proc[c.pid].program
       /\ \A j \in 1..(k - 1) : brokers[i].children[j] # proc[c.pid].program
       /\ brokers[i].sha256 # <<>> => ~HashMismatch(proc[c.pid].program, brokers[i].sha256[k])
  /\ proc[c.pid].parent = Child
  /\ c.nonce = "right"

\* An authorized peer is written to, and the worker ends with that.
WorkerAccepts(i) ==
  /\ worker[i] = "accept" /\ backlog[i] # <<>>
  /\ backlog' = [backlog EXCEPT ![i] = Tail(@)]
  /\ \/ /\ Authorized(i, Head(backlog[i]))
        /\ held' = [held EXCEPT ![i] = Head(backlog[i]).pid]
        /\ received' = [received EXCEPT ![i] = Append(@, Head(backlog[i]).pid)]
        /\ Becomes(i, "write")
     \/ /\ ~Authorized(i, Head(backlog[i]))
        /\ Becomes(i, "check") /\ UNCHANGED <<held, received>>
  /\ UNCHANGED <<mainVars, replaced, proc>>

\* write_all returns in the worker.
WorkerWrote(i, result) ==
  /\ worker[i] = "write"
  /\ Becomes(i, result)
  /\ held' = [held EXCEPT ![i] = None]
  /\ UNCHANGED <<mainVars, backlog, received, replaced, proc>>

-----------------------------------------------------------------------------
(* run_sandboxed_command after the delivery *)

Ended(i) == worker[i] \in {"none", "served", "failed", "joined"}

\* The child has exited and is reaped; its helpers live on without it.
Orphaned ==
  [p \in Pids |-> CASE p = Child -> [proc[p] EXCEPT !.status = "gone"]
                    [] proc[p].parent = Child -> [proc[p] EXCEPT !.parent = "init"]
                    [] OTHER -> proc[p]]

ChildReaped ==
  /\ pc = "wait" /\ proc[Child].status = "zombie"
  /\ proc' = Orphaned
  /\ pc' = "background" /\ turn' = 1
  /\ UNCHANGED <<config, brokers, polls, dirs, stray, failed, relaunch, launches, workVars,
                 replaced>>

\* A terminate or restart request.
ChildKilled(again) ==
  /\ pc = "wait"
  /\ again => launches < MaxLaunches
  /\ proc' = GroupKilled
  /\ pc' = (IF again THEN "close" ELSE "background") /\ turn' = 1
  /\ relaunch' = again
  /\ UNCHANGED <<config, brokers, polls, dirs, stray, failed, launches, workVars, replaced>>

\* wait_for_background_delivery stops at the first worker that failed.
wait_for_background_delivery ==
  /\ pc = "background"
  /\ \/ /\ turn > Len(brokers)
        /\ pc' = "close" /\ turn' = 1 /\ UNCHANGED <<failed, worker>>
     \/ /\ turn <= Len(brokers) /\ Ended(turn)
        /\ worker' = [worker EXCEPT ![turn] = IF @ = "none" THEN @ ELSE "joined"]
        /\ IF worker[turn] = "failed" THEN failed' = TRUE /\ pc' = "close" /\ turn' = 1
                                      ELSE turn' = turn + 1 /\ UNCHANGED <<failed, pc>>
  /\ UNCHANGED <<config, brokers, polls, dirs, stray, relaunch, launches, backlog, held,
                 received, replaced, proc>>

\* Mutant: the directory is removed under a worker that is still there.
CloseWithoutJoin ==
  /\ turn <= Len(brokers)
  /\ UNCHANGED worker

JoinAtTurn ==
  /\ turn <= Len(brokers) /\ Ended(turn)
  /\ worker' = [worker EXCEPT ![turn] = IF @ = "none" THEN @ ELSE "joined"]

\* close_parent_fds, also run by drop: join, then remove the endpoint.
close_parent_fds ==
  /\ pc = "close"
  /\ JoinAtTurn
  /\ dirs' = dirs \ {turn}
  /\ backlog' = [backlog EXCEPT ![turn] = <<>>]
  /\ turn' = turn + 1
  /\ UNCHANGED <<config, pc, brokers, polls, stray, failed, relaunch, launches, held, received,
                 replaced, proc>>

Closed ==
  /\ pc = "close" /\ turn > Len(brokers)
  /\ pc' = IF relaunch THEN "resolve" ELSE "done"
  /\ relaunch' = FALSE
  /\ UNCHANGED <<config, brokers, turn, polls, dirs, stray, failed, launches, workVars,
                 replaced, proc>>

Main ==
  \/ Begin \/ ResolveDirect \/ DirectResolved \/ ResolvePolicy \/ Resolved \/ Refuse
  \/ PrepareBroker \/ EndpointFails \/ PrepareFails \/ Spawn
  \/ AllServed \/ Deliver \/ (~Running(Child) /\ WriteFails)
  \/ DirectRejects \/ DirectDisconnected \/ PollDirect \/ DirectTimesOut
  \/ start_delegated_secret_delivery
  \/ ChildReaped \/ wait_for_background_delivery \/ close_parent_fds \/ Closed

Worker(i) ==
  /\ i \in DOMAIN brokers
  /\ \/ WorkerChecks(i) \/ WorkerPolls(i) \/ WorkerAccepts(i)
     \/ worker[i] = "write" /\ ~Running(held[i]) /\ WorkerWrote(i, "failed")

-----------------------------------------------------------------------------
(* The processes: they start, connect, read, hang up and exit as they like. *)

Connections ==
  {c \in (DOMAIN backlog) \X (1 .. MaxConnects) : c[2] <= Len(backlog[c[1]])}

Connect(p, i, nonce) ==
  /\ Running(p) /\ i \in DOMAIN brokers /\ Listening(i)
  /\ Cardinality(Connections) < MaxConnects
  /\ backlog' = [backlog EXCEPT ![i] = Append(@, [pid |-> p, nonce |-> nonce])]
  /\ UNCHANGED <<mainVars, worker, held, received, replaced, proc>>

Fork(p, program) ==
  /\ proc[p].status \in {"none", "gone"} /\ Running(Child)
  /\ proc' = [proc EXCEPT ![p] = [status |-> "running", program |-> program, parent |-> Child]]
  /\ UNCHANGED <<mainVars, workVars, replaced>>

Exit(p) ==
  /\ Running(p)
  /\ proc' = [proc EXCEPT ![p].status = IF p = Child THEN "zombie" ELSE "gone"]
  /\ UNCHANGED <<mainVars, workVars, replaced>>

Replace(program) ==
  /\ replaced' = replaced \cup {program}
  /\ UNCHANGED <<mainVars, workVars, proc>>

\* The peer of a connection takes what is written to it, or hangs up.
PeerReads ==
  \/ WriteDone \/ WriteFails
  \/ \E i \in DOMAIN brokers, result \in {"served", "failed"} : WorkerWrote(i, result)

Environment ==
  \/ PeerReads
  \/ \E p \in Pids, i \in DOMAIN brokers, nonce \in {"right", "wrong"} : Connect(p, i, nonce)
  \/ \E p \in Pids \ {Child}, program \in Programs : Fork(p, program)
  \/ \E p \in Pids : Exit(p)
  \/ \E program \in Programs : Replace(program)
  \/ \E again \in BOOLEAN : ChildKilled(again)

Finished == pc = "done" /\ UNCHANGED vars

Next == Main \/ (\E i \in 1..MaxBrokers : Worker(i)) \/ Environment \/ Finished

\* What is true whatever the scheduler does.
Safety == Init /\ [][Next]_vars

\* The main thread and the workers are scheduled, and a write to a process that
\* is gone fails; nothing is asked of the processes that connect, not even that
\* they read what they fetched.
Spec ==
  Safety /\ WF_vars(Main) /\ \A i \in 1..MaxBrokers : WF_vars(Worker(i))

=============================================================================
