---------------------------- MODULE AgentListener ----------------------------
(***************************************************************************)
(* The life of one `agentbridge register` process:                         *)
(* crates/agentbridge_cli/src/commands/register.rs (the listeners),        *)
(* announce.rs (the descriptor written for dir-runtime), record.rs (the    *)
(* directories provisioned from a DIR record) and main.rs (the order).     *)
(* The main thread runs one listener, a second thread the unicast listener *)
(* next to SLIM, a third the card listener; two more wait for SIGTERM and  *)
(* for a Ctrl-C before any listener handles it.  Any of them may end the   *)
(* process.                                                                *)
(***************************************************************************)
EXTENDS Naturals, FiniteSets

CONSTANTS
  Skills,     \* the skill folders of the record
  Root        \* the config root of an isolated profile

ASSUME RootIsNoSkill == Root \notin Skills

\* Where the main thread is besides writing the folder of a skill.
Steps == {"prepare", "root", "noteRoot", "skills", "announce", "announced", "listen", "cleanup"}

ASSUME SkillsAreNoSteps == Skills \cap Steps = {}

(* What the command line asks for: the listeners, --dir-announce, a card
   listener of its own (SLIM and gRPC do not serve the card), --record and
   whether its profile runs isolated. *)
Listeners == {"slim", "a2a"}

Confs ==
  { c \in [serve : (SUBSET Listeners) \ {{}}, announce : BOOLEAN, card : BOOLEAN,
           record : BOOLEAN, isolated : BOOLEAN] :
      (c.isolated => c.record) /\ (c.announce /\ c.serve = {"slim"} => c.card) }

VARIABLES
  conf,
  process,    \* "up", "exited", or "killed" by the default action of a signal
  main,       \* where the main thread is
  lst,        \* listener -> where its thread is
  result,     \* listener -> "Ok" or "Err", once it has returned
  card,       \* the card listener's thread
  term,       \* the thread that waits for SIGTERM
  int,        \* the thread that waits for Ctrl-C until a listener does
  polled,     \* some ctrl_c() has been polled: SIGINT no longer kills
  seen,       \* listeners whose ctrl_c() has resolved
  LISTENING,
  pending,    \* PENDING: the listeners it waits for; 0 is None
  pendLock,   \* who holds it, or "free"
  slot,       \* the path SIGTERM deletes is set
  slotLock,
  written,    \* the path the guard deletes is set
  ANNOUNCED,
  descriptor, \* the file dir-runtime reads
  lease,      \* the file list --local reads
  todo,       \* skills not written yet
  dirs,       \* directories this run made
  CREATED,    \* the ones it has noted
  withdrawn,  \* history: withdraw() has run
  early       \* history: a signal cleaned up before the record was provisioned

procVars == <<conf, process, result>>
sigVars == <<term, int, polled, seen, LISTENING>>
annVars == <<pending, pendLock, slot, slotLock, written, ANNOUNCED, descriptor, withdrawn>>
recVars == <<todo, dirs, CREATED, early>>
vars == <<procVars, main, lst, card, sigVars, annVars, lease, recVars>>

Up == process = "up"

\* The listener the main thread runs, and the one that gets a thread.
MainListener == IF "slim" \in conf.serve THEN "slim" ELSE "a2a"
IsMain(l) == l = MainListener

Init ==
  /\ conf \in Confs
  /\ process = "up" /\ main = "prepare"
  /\ lst = [l \in Listeners |-> "off"] /\ result = [l \in Listeners |-> "none"]
  /\ card = "off" /\ term = "off" /\ int = "off" /\ polled = FALSE /\ seen = {} /\ LISTENING = FALSE
  /\ pending = 0 /\ pendLock = "free" /\ slot = FALSE /\ slotLock = "free"
  /\ written = FALSE /\ ANNOUNCED = FALSE /\ descriptor = FALSE /\ withdrawn = FALSE
  /\ lease = FALSE /\ todo = Skills /\ dirs = {} /\ CREATED = {} /\ early = FALSE

-----------------------------------------------------------------------------
(* Ways out *)

Provisioning == main \in {"root", "noteRoot", "skills"} \cup Skills

\* record::cleanup.
Cleanup ==
  /\ dirs' = dirs \ CREATED /\ CREATED' = {} /\ early' = (early \/ Provisioning)
  /\ UNCHANGED todo

\* std::process::exit: no guard is dropped.
Exit == process' = "exited" /\ UNCHANGED <<conf, result>>

\* Mutant: the file is deleted and a descriptor still waiting is not cancelled.
WithdrawWritten ==
  /\ pending' = pending
  /\ descriptor' = (descriptor /\ ~written) /\ written' = FALSE /\ withdrawn' = TRUE

\* withdraw(): a descriptor that waits is cancelled, one that was written deleted.
CancelOrRemove ==
  /\ pending' = 0
  /\ descriptor' = (descriptor /\ ~written) /\ written' = FALSE /\ withdrawn' = TRUE

Withdraw ==
  /\ pendLock = "free"
  /\ CancelOrRemove
  /\ UNCHANGED <<pendLock, slot, slotLock, ANNOUNCED>>

-----------------------------------------------------------------------------
(* prepare: the record *)

\* The signal threads are registered before anything is made.
Prepare ==
  /\ Up /\ main = "prepare"
  /\ main' = CASE ~conf.record -> "announce" [] conf.record /\ conf.isolated -> "root" [] OTHER -> "skills"
  /\ term' = IF conf.record THEN "waiting" ELSE term
  /\ int' = IF conf.record THEN "waiting" ELSE int
  /\ polled' = conf.record
  /\ UNCHANGED <<procVars, lst, card, seen, LISTENING, annVars, lease, recVars>>

\* tempdir_in(..).keep() makes the config root, created() notes it.
MakeRoot ==
  /\ Up /\ main = "root"
  /\ dirs' = dirs \cup {Root} /\ main' = "noteRoot"
  /\ UNCHANGED <<procVars, lst, card, sigVars, annVars, lease, todo, CREATED, early>>

NoteRoot ==
  /\ Up /\ main = "noteRoot"
  /\ CREATED' = CREATED \cup {Root} /\ main' = "skills"
  /\ UNCHANGED <<procVars, lst, card, sigVars, annVars, lease, todo, dirs, early>>

\* The reference does not resolve, the signature or the CID is another, a
\* folder exists, a skill has no SKILL.md: what was made is removed.
ProvisionFails ==
  /\ Up /\ main = "skills"
  /\ dirs' = dirs \ CREATED /\ CREATED' = {} /\ main' = "cleanup"
  /\ UNCHANGED <<procVars, lst, card, sigVars, annVars, lease, todo, early>>

MakeSkill(s) ==
  /\ Up /\ main = "skills" /\ s \in todo
  /\ dirs' = dirs \cup {s} /\ main' = s
  /\ UNCHANGED <<procVars, lst, card, sigVars, annVars, lease, todo, CREATED, early>>

NoteSkill(s) ==
  /\ Up /\ main = s
  /\ CREATED' = CREATED \cup {s} /\ todo' = todo \ {s} /\ main' = "skills"
  /\ UNCHANGED <<procVars, lst, card, sigVars, annVars, lease, dirs, early>>

Provisioned ==
  /\ Up /\ main = "skills" /\ todo = {}
  /\ main' = "announce"
  /\ UNCHANGED <<procVars, lst, card, sigVars, annVars, lease, recVars>>

\* The settings, the card, the A2A address or the directory are no good.
ConfigureFails ==
  /\ Up /\ main = "announce"
  /\ main' = "cleanup"
  /\ UNCHANGED <<procVars, lst, card, sigVars, annVars, lease, recVars>>

-----------------------------------------------------------------------------
(* announce::start *)

NeedsCard == conf.card

ServeCard ==
  /\ Up /\ main = "announce" /\ NeedsCard /\ card = "off"
  /\ card' = "serving"
  /\ UNCHANGED <<procVars, main, lst, sigVars, annVars, lease, recVars>>

ListenersAwaited == Cardinality(conf.serve)

\* PENDING is set with the SIGTERM handler already registered.
StartPending ==
  /\ Up /\ main = "announce" /\ conf.announce /\ (NeedsCard => card # "off")
  /\ pendLock = "free"
  /\ term' = IF term = "off" THEN "waiting" ELSE term
  /\ pending' = ListenersAwaited
  /\ main' = "announced"
  /\ UNCHANGED <<procVars, lst, card, int, polled, seen, LISTENING, pendLock, slot, slotLock,
                 written, ANNOUNCED, descriptor, withdrawn, lease, recVars>>

Started == [l \in Listeners |-> IF l \in conf.serve THEN "starting" ELSE "off"]

SetAnnounced ==
  /\ Up /\ main = "announced"
  /\ ANNOUNCED' = TRUE /\ lst' = Started /\ main' = "listen"
  /\ UNCHANGED <<procVars, card, sigVars, pending, pendLock, slot, slotLock, written,
                 descriptor, withdrawn, lease, recVars>>

StartUnannounced ==
  /\ Up /\ main = "announce" /\ ~conf.announce /\ (NeedsCard => card # "off")
  /\ lst' = Started /\ main' = "listen"
  /\ UNCHANGED <<procVars, card, sigVars, annVars, lease, recVars>>

\* card_listener_stopped: announced, it takes the agent down with it.
CardStops ==
  /\ Up /\ card = "serving"
  /\ card' = IF ANNOUNCED THEN "stopping" ELSE "stopped"
  /\ UNCHANGED <<procVars, main, lst, sigVars, annVars, lease, recVars>>

CardWithdraws ==
  /\ Up /\ card = "stopping"
  /\ Withdraw /\ card' = "leaving"
  /\ UNCHANGED <<procVars, main, lst, sigVars, lease, recVars>>

CardExits ==
  /\ Up /\ card = "leaving"
  /\ Cleanup /\ Exit
  /\ UNCHANGED <<main, lst, card, sigVars, annVars, lease>>

-----------------------------------------------------------------------------
(* run_slim_listener and run_unicast_listener *)

AtL(l, pc) == Up /\ lst[l] = pc
GoL(l, pc) == lst' = [lst EXCEPT ![l] = pc]

\* The listener the main thread runs takes the lease, unless announced.
StartListener(l) ==
  /\ AtL(l, "starting")
  /\ GoL(l, "ready")
  /\ lease' = (lease \/ (IsMain(l) /\ ~conf.announce))
  /\ UNCHANGED <<procVars, main, card, sigVars, annVars, recVars>>

Returns(l, how) ==
  /\ GoL(l, "returned") /\ result' = [result EXCEPT ![l] = how]
  /\ lease' = (lease /\ ~IsMain(l))
  /\ UNCHANGED <<conf, process, main, card, sigVars, annVars, recVars>>

\* No sandbox, no SLIM node, no DID, an address in use, no certificates, or a
\* server that ends within its first 300 ms.
StartFails(l) == AtL(l, "starting") /\ Returns(l, "Err")

\* listener_ready(): not the last one, or nothing waits.
ReadyEarly(l) ==
  /\ AtL(l, "ready") /\ pendLock = "free" /\ pending # 1
  /\ pending' = IF pending = 0 THEN 0 ELSE pending - 1
  /\ GoL(l, "unmarked")
  /\ UNCHANGED <<procVars, main, card, sigVars, pendLock, slot, slotLock, written,
                 ANNOUNCED, descriptor, withdrawn, lease, recVars>>

\* The last one takes the descriptor, with PENDING held until it returns.
ReadyLast(l) ==
  /\ AtL(l, "ready") /\ pendLock = "free" /\ pending = 1
  /\ pending' = 0 /\ pendLock' = l
  /\ GoL(l, "publish")
  /\ UNCHANGED <<procVars, main, card, sigVars, slot, slotLock, written, ANNOUNCED,
                 descriptor, withdrawn, lease, recVars>>

Publish(l) ==
  /\ AtL(l, "publish") /\ slotLock = "free"
  /\ slotLock' = l /\ descriptor' = TRUE
  /\ GoL(l, "published")
  /\ UNCHANGED <<procVars, main, card, sigVars, pending, pendLock, slot, written,
                 ANNOUNCED, withdrawn, lease, recVars>>

\* --dir-announce was asked for: the process ends, with both locks held.
PublishFails(l) ==
  /\ AtL(l, "publish") /\ slotLock = "free"
  /\ Cleanup /\ Exit
  /\ UNCHANGED <<main, lst, card, sigVars, annVars, lease>>

NotePublished(l) ==
  /\ AtL(l, "published")
  /\ slot' = TRUE /\ slotLock' = "free" /\ written' = TRUE /\ pendLock' = "free"
  /\ GoL(l, "unmarked")
  /\ UNCHANGED <<procVars, main, card, sigVars, pending, ANNOUNCED, descriptor,
                 withdrawn, lease, recVars>>

\* record::listening(), and then the first poll of ctrl_c().
MarkListening(l) ==
  /\ AtL(l, "unmarked")
  /\ LISTENING' = TRUE /\ GoL(l, "marked")
  /\ UNCHANGED <<procVars, main, card, term, int, polled, seen, annVars, lease, recVars>>

Serve(l) ==
  /\ AtL(l, "marked")
  /\ polled' = TRUE /\ GoL(l, "serving")
  /\ UNCHANGED <<procVars, main, card, term, int, seen, LISTENING, annVars, lease, recVars>>

ServerStops(l) == AtL(l, "serving") /\ Returns(l, "Err")

CtrlC(l) == AtL(l, "serving") /\ l \in seen /\ Returns(l, "Ok")

-----------------------------------------------------------------------------
(* start_listeners: what follows a listener *)

AtReturn(l) == Up /\ lst[l] = "returned"

\* The unicast thread: a Ctrl-C ends the process, an error when announced.
UnicastEnds(l) ==
  /\ AtReturn(l) /\ ~IsMain(l)
  /\ GoL(l, CASE result[l] = "Err" /\ ~conf.announce -> "ended"
              [] conf.announce -> "withdraw"
              [] OTHER -> "leave")
  /\ UNCHANGED <<procVars, main, card, sigVars, annVars, lease, recVars>>

UnicastWithdraws(l) ==
  /\ AtL(l, "withdraw")
  /\ Withdraw /\ GoL(l, "leave")
  /\ UNCHANGED <<procVars, main, card, sigVars, lease, recVars>>

UnicastExits(l) ==
  /\ AtL(l, "leave")
  /\ Cleanup /\ Exit
  /\ UNCHANGED <<main, lst, card, sigVars, annVars, lease>>

\* The main thread: the guard is dropped, what was provisioned is removed.
DropAnnouncement ==
  /\ AtReturn(MainListener) /\ main = "listen"
  /\ main' = "cleanup"
  /\ IF conf.announce THEN Withdraw ELSE UNCHANGED annVars
  /\ UNCHANGED <<procVars, lst, card, sigVars, lease, recVars>>

MainExits ==
  /\ Up /\ main = "cleanup"
  /\ Cleanup /\ Exit
  /\ UNCHANGED <<main, lst, card, sigVars, annVars, lease>>

-----------------------------------------------------------------------------
(* Signals *)

\* The default action, until a handler is registered.
SigTerm ==
  /\ Up /\ term \in {"off", "waiting"}
  /\ \/ term = "off" /\ process' = "killed" /\ UNCHANGED <<conf, result, term>>
     \/ term = "waiting" /\ term' = "caught" /\ UNCHANGED procVars
  /\ UNCHANGED <<main, lst, card, int, polled, seen, LISTENING, annVars, lease, recVars>>

\* Mutant: the slot is given back, as if its path were all it is for.
HoldNothing == slotLock' = "free"

\* The slot is held until the process has gone.
HoldSlot == slotLock' = "term"

TermTakes ==
  /\ Up /\ term = "caught" /\ slotLock = "free"
  /\ HoldSlot /\ slot' = FALSE
  /\ descriptor' = (descriptor /\ ~slot)
  /\ term' = "cleanup"
  /\ UNCHANGED <<procVars, main, lst, card, int, polled, seen, LISTENING, pending, pendLock,
                 written, ANNOUNCED, withdrawn, lease, recVars>>

\* Mutant: the announcement is withdrawn with the slot held.
TermWithdraws ==
  /\ Up /\ term = "cleanup" /\ pendLock = "free"
  /\ Cleanup /\ term' = "leaving"
  /\ UNCHANGED <<procVars, main, lst, card, int, polled, seen, LISTENING, annVars, lease>>

TermCleansUp ==
  /\ Up /\ term = "cleanup"
  /\ Cleanup /\ term' = "leaving"
  /\ UNCHANGED <<procVars, main, lst, card, int, polled, seen, LISTENING, annVars, lease>>

TermExits ==
  /\ Up /\ term = "leaving" /\ Exit
  /\ UNCHANGED <<main, lst, card, sigVars, annVars, lease, recVars>>

Polling == {l \in conf.serve : lst[l] = "serving"}

\* A Ctrl-C resolves every ctrl_c() that has been polled; before the first is,
\* it kills.
SigInt ==
  /\ Up
  /\ \/ ~polled /\ process' = "killed" /\ UNCHANGED <<conf, result, int, seen>>
     \/ /\ polled
        /\ seen' = seen \cup Polling
        /\ int' = IF int = "waiting" THEN "caught" ELSE int
        /\ UNCHANGED procVars
  /\ UNCHANGED <<main, lst, card, term, polled, LISTENING, annVars, lease, recVars>>

\* on_sigint_until_listening
IntChecks ==
  /\ Up /\ int = "caught"
  /\ int' = IF LISTENING THEN "waiting" ELSE "cleanup"
  /\ UNCHANGED <<procVars, main, lst, card, term, polled, seen, LISTENING, annVars, lease, recVars>>

IntCleansUp ==
  /\ Up /\ int = "cleanup"
  /\ Cleanup /\ int' = "leaving"
  /\ UNCHANGED <<procVars, main, lst, card, term, polled, seen, LISTENING, annVars, lease>>

IntExits ==
  /\ Up /\ int = "leaving" /\ Exit
  /\ UNCHANGED <<main, lst, card, sigVars, annVars, lease, recVars>>

-----------------------------------------------------------------------------
MainSteps ==
  \/ Prepare \/ MakeRoot \/ NoteRoot \/ Provisioned
  \/ \E s \in Skills : MakeSkill(s) \/ NoteSkill(s)
  \/ ServeCard \/ StartPending \/ SetAnnounced \/ StartUnannounced
  \/ DropAnnouncement \/ MainExits

ListenerSteps(l) ==
  \/ ReadyEarly(l) \/ ReadyLast(l) \/ Publish(l) \/ NotePublished(l)
  \/ MarkListening(l) \/ Serve(l) \/ CtrlC(l)
  \/ UnicastEnds(l) \/ UnicastWithdraws(l) \/ UnicastExits(l)

CardSteps == CardWithdraws \/ CardExits
TermSteps == TermTakes \/ TermCleansUp \/ TermExits
IntSteps == IntChecks \/ IntCleansUp \/ IntExits

Environment ==
  \/ ProvisionFails \/ ConfigureFails \/ CardStops \/ SigTerm \/ SigInt
  \/ \E l \in Listeners : StartListener(l) \/ StartFails(l) \/ PublishFails(l) \/ ServerStops(l)

Next ==
  \/ MainSteps \/ CardSteps \/ TermSteps \/ IntSteps \/ Environment
  \/ \E l \in Listeners : ListenerSteps(l)

\* What is true whatever the scheduler does.
Safety == Init /\ [][Next]_vars

\* Every thread is scheduled.  Nothing is asked of the network, the disk or the
\* user: a listener may connect for ever.
Spec ==
  /\ Safety
  /\ WF_vars(MainSteps) /\ WF_vars(CardSteps) /\ WF_vars(TermSteps) /\ WF_vars(IntSteps)
  /\ \A l \in Listeners : WF_vars(ListenerSteps(l))

-----------------------------------------------------------------------------
(* Properties *)

Answers(l) == lst[l] \in {"publish", "published", "unmarked", "marked", "serving", "returned",
                          "withdraw", "leave"}

\* dir-runtime lists the agent only once every listener has come up, and never
\* again after the announcement was withdrawn, whatever order the listeners'
\* threads, the card's and the guard take the locks in.
ListedIsReady == descriptor => (\A l \in conf.serve : Answers(l)) /\ ~withdrawn

\* Whichever thread ends the process, the descriptor is gone, and with a record
\* that was provisioned every directory made for it.  Two ways out are excepted:
\* a Ctrl-C that no listener handles yet leaves the descriptor, and a signal
\* during provisioning the directories made meanwhile.
ExitLeavesNothing ==
  process = "exited" => /\ int # "leaving" => ~descriptor
                        /\ ~early => dirs = {}

\* A process that has been told to stop, or that was announced and has lost a
\* listener or its card, ends: no two threads wait for each other's lock.
ToldToStop ==
  \/ term = "caught" \/ card = "stopping"
  \/ \E l \in conf.serve : lst[l] = "returned" /\ (result[l] = "Ok" \/ conf.announce)

StopsWhole == ToldToStop ~> ~Up

\* As announce.rs has it, Ctrl-C returns through the listeners, which drops the
\* announcement.
CtrlCWithdraws == process = "exited" => ~descriptor

=============================================================================
