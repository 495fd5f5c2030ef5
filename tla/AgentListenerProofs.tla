------------------------ MODULE AgentListenerProofs ------------------------
(***************************************************************************)
(* The safety properties of AgentListener for every record.                *)
(***************************************************************************)
EXTENDS AgentListener, FiniteSetTheorems, TLAPS

-----------------------------------------------------------------------------
(* The inductive invariant *)

\* Before listen() returns a guard no listener runs.
Unstarted == {"prepare", "root", "noteRoot", "skills", "announce", "announced"} \cup Skills

Provision == {"root", "noteRoot", "skills"} \cup Skills

\* The directory that has been made and not been noted.
Making == CASE main = "noteRoot" -> {Root}
            [] main \in Skills -> {main}
            [] OTHER -> {}

Announced == conf.announce

\* A listener that has not called listener_ready().
Waits(l) == lst[l] \in {"off", "starting", "ready"}

AllAnswer == \A l \in conf.serve : Answers(l)

Kinds ==
  /\ conf \in Confs
  /\ main \in Steps \cup Skills
  /\ lst \in [Listeners -> {"off", "starting", "ready", "publish", "published", "unmarked",
                            "marked", "serving", "returned", "withdraw", "leave", "ended"}]
  /\ pending \in 0 .. 2

\* Nothing is served, withdrawn or signalled before its thread exists.
Ordered ==
  /\ main \in Unstarted => (\A l \in Listeners : lst[l] = "off") /\ ~withdrawn /\ ~ANNOUNCED
  /\ card \in {"stopping", "leaving"} => ANNOUNCED
  /\ main = "prepare" => term = "off" /\ int = "off"
  /\ \A l \in Listeners : lst[l] # "off" => l \in conf.serve

\* PENDING waits for at least the listeners that have not come up.
Counted ==
  /\ pending # 0 => Announced /\ ~withdrawn
  /\ pending = 1 => \A k, l \in conf.serve : Waits(k) /\ Waits(l) => k = l

\* Who holds which lock.
Locked ==
  /\ \A l \in Listeners : lst[l] \in {"publish", "published"} => pendLock = l
  /\ \A l \in Listeners : lst[l] = "published" => slotLock = l
  /\ term \in {"cleanup", "leaving"} => slotLock = "term"

\* The descriptor is written by the last listener that comes up, and both paths
\* to it are set before the locks are given back.
Listed ==
  /\ \A l \in Listeners : lst[l] \in {"publish", "published"} => Announced /\ ~withdrawn /\ AllAnswer
  /\ \A l \in Listeners : lst[l] = "publish" => ~descriptor
  /\ descriptor => Announced /\ ~withdrawn /\ AllAnswer
  /\ descriptor => (slot /\ written) \/ \E l \in Listeners : lst[l] = "published"

\* A thread on its way out has withdrawn what was announced.
Withdrew ==
  /\ term \in {"cleanup", "leaving"} => ~descriptor
  /\ card = "leaving" => withdrawn
  /\ \A l \in Listeners : /\ lst[l] = "withdraw" => Announced
                          /\ lst[l] = "ended" => ~Announced
                          /\ lst[l] = "leave" => withdrawn \/ ~Announced
  /\ main = "cleanup" => withdrawn \/ ~Announced \/ \A l \in Listeners : lst[l] = "off"

\* Every directory is noted, but for the one that is being made.
Noted ==
  /\ early \/ dirs \subseteq CREATED \cup Making
  /\ "leaving" \in {term, int} => early \/ (dirs = {} /\ main \notin {"prepare"} \cup Provision)

\* The inductive invariant.
IInv == Kinds /\ Ordered /\ Counted /\ Locked /\ Listed /\ Withdrew /\ Noted /\ ExitLeavesNothing

-----------------------------------------------------------------------------
(* Lemmas *)

\* PENDING starts with the number of listeners there are: one, when any two of
\* them are the same, or two.
LEMMA AwaitedFacts ==
  ASSUME conf \in Confs
  PROVE /\ ListenersAwaited \in 1 .. 2
        /\ ListenersAwaited = 1 => \A k, l \in conf.serve : k = l
<1>1. conf.serve = {"slim"} \/ conf.serve = {"a2a"} \/ conf.serve = {"slim", "a2a"}
  <2>1. conf.serve \in SUBSET Listeners /\ conf.serve # {}
    BY DEF Confs
  <2>2. CASE "slim" \in conf.serve /\ "a2a" \in conf.serve
    BY <2>1, <2>2 DEF Listeners
  <2>3. CASE "slim" \notin conf.serve
    BY <2>1, <2>3 DEF Listeners
  <2>4. CASE "a2a" \notin conf.serve
    BY <2>1, <2>4 DEF Listeners
  <2> QED
    BY <2>2, <2>3, <2>4
<1>2. Cardinality({"slim"}) = 1 /\ Cardinality({"a2a"}) = 1
  BY FS_Singleton
<1>3. Cardinality({"slim", "a2a"}) = 2
  <2>1. {"slim", "a2a"} = {"slim"} \cup {"a2a"} /\ IsFiniteSet({"slim"}) /\ "a2a" \notin {"slim"}
    BY FS_Singleton
  <2>2. Cardinality({"slim"} \cup {"a2a"}) = Cardinality({"slim"}) + 1
    BY <2>1, FS_AddElement
  <2> QED
    BY <2>1, <2>2, <1>2
<1> QED
  BY <1>1, <1>2, <1>3 DEF ListenersAwaited

\* Before anything is provisioned the invariant holds.
LEMMA InitIInv == Init => IInv
<1> SUFFICES ASSUME Init PROVE IInv
  OBVIOUS
<1> USE SkillsAreNoSteps
    DEF Init, Kinds, Ordered, Counted, Locked, Listed, Withdrew, Noted, ExitLeavesNothing,
        Announced, AllAnswer, Answers, Waits, Unstarted, Provision, Making, Steps, Listeners
<1> QED
  BY DEF IInv

\* The main thread, provisioning the record.
LEMMA RecordIInv == ASSUME IInv, Prepare \/ MakeRoot \/ NoteRoot \/ Provisioned \/ ProvisionFails \/ ConfigureFails PROVE IInv'
<1> USE SkillsAreNoSteps
    DEF IInv, Kinds, Ordered, Counted, Locked, Listed, Withdrew, Noted, ExitLeavesNothing,
        Announced, AllAnswer, Answers, Waits, Unstarted, Provision, Making, Steps, Listeners, Up,
        procVars, sigVars, annVars, recVars
<1>1. CASE Prepare
  BY <1>1 DEF Prepare
<1>2. CASE MakeRoot
  BY <1>2 DEF MakeRoot
<1>3. CASE NoteRoot
  BY <1>3 DEF NoteRoot
<1>4. CASE Provisioned
  BY <1>4 DEF Provisioned
<1>5. CASE ProvisionFails
  BY <1>5 DEF ProvisionFails
<1>6. CASE ConfigureFails
  BY <1>6 DEF ConfigureFails
<1> QED
  BY <1>1, <1>2, <1>3, <1>4, <1>5, <1>6

\* The main thread, writing the folder of a skill.
LEMMA SkillIInv == ASSUME IInv, NEW s \in Skills, MakeSkill(s) \/ NoteSkill(s) PROVE IInv'
<1> USE SkillsAreNoSteps
    DEF IInv, Kinds, Ordered, Counted, Locked, Listed, Withdrew, Noted, ExitLeavesNothing,
        Announced, AllAnswer, Answers, Waits, Unstarted, Provision, Making, Steps, Listeners, Up,
        procVars, sigVars, annVars, recVars
<1>1. CASE MakeSkill(s)
  BY <1>1 DEF MakeSkill
<1>2. CASE NoteSkill(s)
  BY <1>2 DEF NoteSkill
<1> QED
  BY <1>1, <1>2

\* The main thread, from the announcement to the end of the process.
LEMMA MainIInv == ASSUME IInv, ServeCard \/ StartPending \/ SetAnnounced \/ StartUnannounced \/ DropAnnouncement \/ MainExits PROVE IInv'
<1> USE SkillsAreNoSteps
    DEF IInv, Kinds, Ordered, Counted, Locked, Listed, Withdrew, Noted, ExitLeavesNothing,
        Announced, AllAnswer, Answers, Waits, Unstarted, Provision, Making, Steps, Listeners, Up,
        procVars, sigVars, annVars, recVars
<1>1. CASE ServeCard
  BY <1>1 DEF ServeCard
<1>2. CASE StartPending
  <2>1. Kinds'
    BY <1>2, AwaitedFacts DEF StartPending
  <2>2. Ordered'
    BY <1>2 DEF StartPending
  <2>3. Counted'
    BY <1>2, AwaitedFacts DEF StartPending
  <2>4. Locked'
    BY <1>2 DEF StartPending
  <2>5. Listed'
    BY <1>2 DEF StartPending
  <2>6. Withdrew'
    BY <1>2 DEF StartPending
  <2>7. Noted'
    BY <1>2 DEF StartPending
  <2>8. ExitLeavesNothing'
    BY <1>2 DEF StartPending
  <2> QED
    BY <2>1, <2>2, <2>3, <2>4, <2>5, <2>6, <2>7, <2>8
<1>3. CASE SetAnnounced
  <2>1. Kinds'
    BY <1>3 DEF SetAnnounced, Started
  <2>2. Ordered'
    BY <1>3 DEF SetAnnounced, Started
  <2>3. Counted'
    <3>1. \A l \in conf.serve : l \in Listeners /\ Waits(l)
      BY <1>3 DEF SetAnnounced, Confs
    <3>2. pending = 1 => \A k, l \in conf.serve : k = l
      BY <3>1
    <3>3. conf' = conf /\ pending' = pending /\ withdrawn' = withdrawn
      BY <1>3 DEF SetAnnounced
    <3> QED
      BY <3>2, <3>3
  <2>4. Locked'
    BY <1>3 DEF SetAnnounced, Started
  <2>5. Listed'
    BY <1>3 DEF SetAnnounced, Started
  <2>6. Withdrew'
    BY <1>3 DEF SetAnnounced, Started
  <2>7. Noted'
    BY <1>3 DEF SetAnnounced, Started
  <2>8. ExitLeavesNothing'
    BY <1>3 DEF SetAnnounced, Started
  <2> QED
    BY <2>1, <2>2, <2>3, <2>4, <2>5, <2>6, <2>7, <2>8
<1>4. CASE StartUnannounced
  BY <1>4 DEF StartUnannounced, Started
<1>5. CASE DropAnnouncement
  <2>1. Kinds'
    BY <1>5 DEF DropAnnouncement, AtReturn, MainListener, Withdraw, CancelOrRemove
  <2>2. Ordered'
    BY <1>5 DEF DropAnnouncement, AtReturn, MainListener, Withdraw, CancelOrRemove
  <2>3. Counted'
    BY <1>5 DEF DropAnnouncement, AtReturn, MainListener, Withdraw, CancelOrRemove
  <2>4. Locked'
    BY <1>5 DEF DropAnnouncement, AtReturn, MainListener, Withdraw, CancelOrRemove
  <2>5. Listed'
    BY <1>5 DEF DropAnnouncement, AtReturn, MainListener, Withdraw, CancelOrRemove
  <2>6. Withdrew'
    BY <1>5 DEF DropAnnouncement, AtReturn, MainListener, Withdraw, CancelOrRemove
  <2>7. Noted'
    BY <1>5 DEF DropAnnouncement, AtReturn, MainListener, Withdraw, CancelOrRemove
  <2>8. ExitLeavesNothing'
    BY <1>5 DEF DropAnnouncement, AtReturn, MainListener, Withdraw, CancelOrRemove
  <2> QED
    BY <2>1, <2>2, <2>3, <2>4, <2>5, <2>6, <2>7, <2>8
<1>6. CASE MainExits
  <2>1. Kinds'
    BY <1>6 DEF MainExits, Provisioning, Cleanup, Exit
  <2>2. Ordered'
    BY <1>6 DEF MainExits, Provisioning, Cleanup, Exit
  <2>3. Counted'
    BY <1>6 DEF MainExits, Provisioning, Cleanup, Exit
  <2>4. Locked'
    BY <1>6 DEF MainExits, Provisioning, Cleanup, Exit
  <2>5. Listed'
    BY <1>6 DEF MainExits, Provisioning, Cleanup, Exit
  <2>6. Withdrew'
    BY <1>6 DEF MainExits, Provisioning, Cleanup, Exit
  <2>7. Noted'
    BY <1>6 DEF MainExits, Provisioning, Cleanup, Exit
  <2>8. ExitLeavesNothing'
    <3>1. ~descriptor /\ descriptor' = descriptor
      <4>1. PICK l \in conf.serve : l \in Listeners
        BY DEF Confs
      <4>2. descriptor => ~withdrawn /\ Announced /\ lst[l] # "off"
        BY <4>1
      <4> QED
        BY <1>6, <4>1, <4>2 DEF MainExits
    <3>2. early' \/ dirs' = {}
      BY <1>6 DEF MainExits, Provisioning, Cleanup
    <3> QED
      BY <3>1, <3>2
  <2> QED
    BY <2>1, <2>2, <2>3, <2>4, <2>5, <2>6, <2>7, <2>8
<1> QED
  BY <1>1, <1>2, <1>3, <1>4, <1>5, <1>6

\* The card listener's thread.
LEMMA CardIInv == ASSUME IInv, CardStops \/ CardSteps PROVE IInv'
<1> USE SkillsAreNoSteps
    DEF IInv, Kinds, Ordered, Counted, Locked, Listed, Withdrew, Noted, ExitLeavesNothing,
        Announced, AllAnswer, Answers, Waits, Unstarted, Provision, Making, Steps, Listeners, Up,
        procVars, sigVars, annVars, recVars
<1>1. CASE CardStops
  BY <1>1 DEF CardStops
<1>2. CASE CardWithdraws
  <2>1. Kinds'
    BY <1>2 DEF CardWithdraws, Withdraw, CancelOrRemove
  <2>2. Ordered'
    BY <1>2 DEF CardWithdraws, Withdraw, CancelOrRemove
  <2>3. Counted'
    BY <1>2 DEF CardWithdraws, Withdraw, CancelOrRemove
  <2>4. Locked'
    BY <1>2 DEF CardWithdraws, Withdraw, CancelOrRemove
  <2>5. Listed'
    BY <1>2 DEF CardWithdraws, Withdraw, CancelOrRemove
  <2>6. Withdrew'
    BY <1>2 DEF CardWithdraws, Withdraw, CancelOrRemove
  <2>7. Noted'
    BY <1>2 DEF CardWithdraws, Withdraw, CancelOrRemove
  <2>8. ExitLeavesNothing'
    BY <1>2 DEF CardWithdraws, Withdraw, CancelOrRemove
  <2> QED
    BY <2>1, <2>2, <2>3, <2>4, <2>5, <2>6, <2>7, <2>8
<1>3. CASE CardExits
  BY <1>3 DEF CardExits, Provisioning, Cleanup, Exit
<1> QED
  BY <1>1, <1>2, <1>3 DEF CardSteps

\* The threads that wait for a signal.
LEMMA SignalIInv == ASSUME IInv, SigTerm \/ SigInt \/ TermSteps \/ IntSteps PROVE IInv'
<1> USE SkillsAreNoSteps
    DEF IInv, Kinds, Ordered, Counted, Locked, Listed, Withdrew, Noted, ExitLeavesNothing,
        Announced, AllAnswer, Answers, Waits, Unstarted, Provision, Making, Steps, Listeners, Up,
        procVars, sigVars, annVars, recVars
<1>1. CASE SigTerm
  BY <1>1 DEF SigTerm
<1>2. CASE SigInt
  BY <1>2 DEF SigInt
<1>3. CASE TermTakes
  BY <1>3 DEF TermTakes, HoldSlot
<1>4. CASE TermCleansUp
  BY <1>4 DEF TermCleansUp, Provisioning, Cleanup
<1>5. CASE TermExits
  BY <1>5 DEF TermExits, Exit
<1>6. CASE IntChecks
  BY <1>6 DEF IntChecks
<1>7. CASE IntCleansUp
  <2>1. Kinds'
    BY <1>7 DEF IntCleansUp, Provisioning, Cleanup
  <2>2. Ordered'
    BY <1>7 DEF IntCleansUp, Provisioning, Cleanup
  <2>3. Counted'
    BY <1>7 DEF IntCleansUp, Provisioning, Cleanup
  <2>4. Locked'
    BY <1>7 DEF IntCleansUp, Provisioning, Cleanup
  <2>5. Listed'
    BY <1>7 DEF IntCleansUp, Provisioning, Cleanup
  <2>6. Withdrew'
    BY <1>7 DEF IntCleansUp, Provisioning, Cleanup
  <2>7. Noted'
    BY <1>7 DEF IntCleansUp, Provisioning, Cleanup
  <2>8. ExitLeavesNothing'
    BY <1>7 DEF IntCleansUp, Provisioning, Cleanup
  <2> QED
    BY <2>1, <2>2, <2>3, <2>4, <2>5, <2>6, <2>7, <2>8
<1>8. CASE IntExits
  BY <1>8 DEF IntExits, Exit
<1> QED
  BY <1>1, <1>2, <1>3, <1>4, <1>5, <1>6, <1>7, <1>8 DEF TermSteps, IntSteps

\* A listener that comes up and publishes the descriptor.
LEMMA ReadyIInv == ASSUME IInv, NEW l \in Listeners,
         StartListener(l) \/ ReadyEarly(l) \/ ReadyLast(l) \/ Publish(l) \/ PublishFails(l) \/ NotePublished(l) PROVE IInv'
<1> USE SkillsAreNoSteps
    DEF IInv, Kinds, Ordered, Counted, Locked, Listed, Withdrew, Noted, ExitLeavesNothing,
        Announced, AllAnswer, Answers, Waits, Unstarted, Provision, Making, Steps, Listeners, Up,
        procVars, sigVars, annVars, recVars
<1>1. CASE StartListener(l)
  BY <1>1 DEF StartListener, AtL, GoL
<1>2. CASE ReadyEarly(l)
  <2>1. Kinds'
    BY <1>2 DEF ReadyEarly, AtL, GoL
  <2>2. Ordered'
    BY <1>2 DEF ReadyEarly, AtL, GoL
  <2>3. Counted'
    <3>1. /\ conf' = conf /\ withdrawn' = withdrawn
          /\ pending' = IF pending = 0 THEN 0 ELSE pending - 1
          /\ \A k \in Listeners : lst'[k] = IF k = l THEN "unmarked" ELSE lst[k]
      BY <1>2 DEF ReadyEarly, AtL, GoL
    <3>2. ~Waits(l)' /\ \A j, k \in conf.serve : j # l /\ k # l => j = k
      BY <3>1 DEF Confs
    <3> QED
      BY <3>1, <3>2
  <2>4. Locked'
    BY <1>2 DEF ReadyEarly, AtL, GoL
  <2>5. Listed'
    BY <1>2 DEF ReadyEarly, AtL, GoL
  <2>6. Withdrew'
    BY <1>2 DEF ReadyEarly, AtL, GoL
  <2>7. Noted'
    BY <1>2 DEF ReadyEarly, AtL, GoL
  <2>8. ExitLeavesNothing'
    BY <1>2 DEF ReadyEarly, AtL, GoL
  <2> QED
    BY <2>1, <2>2, <2>3, <2>4, <2>5, <2>6, <2>7, <2>8
<1>3. CASE ReadyLast(l)
  <2>1. Kinds'
    BY <1>3 DEF ReadyLast, AtL, GoL
  <2>2. Ordered'
    BY <1>3 DEF ReadyLast, AtL, GoL
  <2>3. Counted'
    BY <1>3 DEF ReadyLast, AtL, GoL
  <2>4. Locked'
    BY <1>3 DEF ReadyLast, AtL, GoL
  <2>5. Listed'
    <3>1. /\ conf' = conf /\ withdrawn' = withdrawn /\ descriptor' = descriptor
          /\ slot' = slot /\ written' = written /\ lst[l] = "ready" /\ pendLock = "free"
          /\ Announced /\ ~withdrawn /\ l \in conf.serve
          /\ \A k \in Listeners : lst'[k] = IF k = l THEN "publish" ELSE lst[k]
      BY <1>3 DEF ReadyLast, AtL, GoL
    <3>2. ~descriptor
      BY <3>1
    <3>3. \A k \in conf.serve : k # l => k \in Listeners /\ ~Waits(k) /\ lst[k] # "ended"
      BY <1>3, <3>1 DEF ReadyLast, Confs
    <3>4. AllAnswer'
      BY <3>1, <3>3
    <3> QED
      BY <3>1, <3>2, <3>4
  <2>6. Withdrew'
    BY <1>3 DEF ReadyLast, AtL, GoL
  <2>7. Noted'
    BY <1>3 DEF ReadyLast, AtL, GoL
  <2>8. ExitLeavesNothing'
    BY <1>3 DEF ReadyLast, AtL, GoL
  <2> QED
    BY <2>1, <2>2, <2>3, <2>4, <2>5, <2>6, <2>7, <2>8
<1>4. CASE Publish(l)
  BY <1>4 DEF Publish, AtL, GoL
<1>5. CASE PublishFails(l)
  BY <1>5 DEF PublishFails, AtL, GoL, Provisioning, Cleanup, Exit
<1>6. CASE NotePublished(l)
  BY <1>6 DEF NotePublished, AtL, GoL
<1> QED
  BY <1>1, <1>2, <1>3, <1>4, <1>5, <1>6

\* A listener that serves, and what follows it.
LEMMA ServeIInv == ASSUME IInv, NEW l \in Listeners,
         \/ MarkListening(l) \/ Serve(l) \/ StartFails(l) \/ ServerStops(l) \/ CtrlC(l)
         \/ UnicastEnds(l) \/ UnicastWithdraws(l) \/ UnicastExits(l) PROVE IInv'
<1> USE SkillsAreNoSteps
    DEF IInv, Kinds, Ordered, Counted, Locked, Listed, Withdrew, Noted, ExitLeavesNothing,
        Announced, AllAnswer, Answers, Waits, Unstarted, Provision, Making, Steps, Listeners, Up,
        procVars, sigVars, annVars, recVars
<1>1. CASE MarkListening(l)
  BY <1>1 DEF MarkListening, AtL, GoL
<1>2. CASE Serve(l)
  BY <1>2 DEF Serve, AtL, GoL
<1>3. CASE StartFails(l)
  BY <1>3 DEF StartFails, AtL, GoL, Returns
<1>4. CASE ServerStops(l)
  BY <1>4 DEF ServerStops, AtL, GoL, Returns
<1>5. CASE CtrlC(l)
  BY <1>5 DEF CtrlC, AtL, GoL, Returns
<1>6. CASE UnicastEnds(l)
  BY <1>6 DEF UnicastEnds, AtL, GoL, AtReturn
<1>7. CASE UnicastWithdraws(l)
  <2>1. Kinds'
    BY <1>7 DEF UnicastWithdraws, AtL, GoL, Withdraw, CancelOrRemove
  <2>2. Ordered'
    BY <1>7 DEF UnicastWithdraws, AtL, GoL, Withdraw, CancelOrRemove
  <2>3. Counted'
    BY <1>7 DEF UnicastWithdraws, AtL, GoL, Withdraw, CancelOrRemove
  <2>4. Locked'
    BY <1>7 DEF UnicastWithdraws, AtL, GoL, Withdraw, CancelOrRemove
  <2>5. Listed'
    BY <1>7 DEF UnicastWithdraws, AtL, GoL, Withdraw, CancelOrRemove
  <2>6. Withdrew'
    BY <1>7 DEF UnicastWithdraws, AtL, GoL, Withdraw, CancelOrRemove
  <2>7. Noted'
    BY <1>7 DEF UnicastWithdraws, AtL, GoL, Withdraw, CancelOrRemove
  <2>8. ExitLeavesNothing'
    BY <1>7 DEF UnicastWithdraws, AtL, GoL, Withdraw, CancelOrRemove
  <2> QED
    BY <2>1, <2>2, <2>3, <2>4, <2>5, <2>6, <2>7, <2>8
<1>8. CASE UnicastExits(l)
  BY <1>8 DEF UnicastExits, AtL, GoL, Provisioning, Cleanup, Exit
<1> QED
  BY <1>1, <1>2, <1>3, <1>4, <1>5, <1>6, <1>7, <1>8

\* Every step of every thread keeps the invariant.
LEMMA NextIInv == IInv /\ [Next]_vars => IInv'
<1> SUFFICES ASSUME IInv, [Next]_vars PROVE IInv'
  OBVIOUS
<1>1. CASE MainSteps
  BY <1>1, RecordIInv, SkillIInv, MainIInv DEF MainSteps
<1>2. CASE CardSteps
  BY <1>2, CardIInv
<1>3. CASE TermSteps \/ IntSteps
  BY <1>3, SignalIInv
<1>4. CASE Environment
  BY <1>4, RecordIInv, CardIInv, SignalIInv, ReadyIInv, ServeIInv DEF Environment
<1>5. ASSUME NEW l \in Listeners, ListenerSteps(l) PROVE IInv'
  BY <1>5, ReadyIInv, ServeIInv DEF ListenerSteps
<1>6. CASE UNCHANGED vars
  BY <1>6 DEF vars, procVars, sigVars, annVars, recVars, IInv, Kinds, Ordered, Counted, Locked,
              Listed, Withdrew, Noted, ExitLeavesNothing, Announced, AllAnswer, Answers, Waits,
              Making
<1> QED
  BY <1>1, <1>2, <1>3, <1>4, <1>5, <1>6 DEF Next

LEMMA Invariance == Safety => []IInv
  BY InitIInv, NextIInv, PTL DEF Safety

-----------------------------------------------------------------------------
(* Theorems *)

\* dir-runtime lists the agent only once every listener has come up and never
\* after the announcement was withdrawn: listener_ready() and withdraw() agree
\* on it under PENDING, and on_sigterm under the slot.
THEOREM ListingIsSound == Safety => []ListedIsReady
<1>1. IInv => ListedIsReady
  BY DEF IInv, Listed, AllAnswer, ListedIsReady
<1> QED
  BY <1>1, Invariance, PTL

\* Whichever thread ends the process, the descriptor and the directories of a
\* provisioned record are gone, but for the two ways out ExitLeavesNothing
\* names.
THEOREM ExitsAreClean == Safety => []ExitLeavesNothing
<1>1. IInv => ExitLeavesNothing
  BY DEF IInv
<1> QED
  BY <1>1, Invariance, PTL

\* The announcement is given up once: after withdraw() no listener that comes
\* up late, and none that was about to publish, lists the agent again.
WithdrawnForGood == [][withdrawn => withdrawn' /\ ~descriptor']_vars

\* withdraw() and listener_ready() meet under PENDING in either order, and the
\* agent stays unlisted.
THEOREM WithdrawalsStand == Safety => WithdrawnForGood
<1>1. [Next]_vars /\ withdrawn => withdrawn'
  <2> SUFFICES ASSUME [Next]_vars, withdrawn PROVE withdrawn'
    OBVIOUS
  <2> USE DEF Withdraw, CancelOrRemove, annVars
  <2>1. CASE MainSteps
    BY <2>1 DEF MainSteps, Prepare, MakeRoot, NoteRoot, Provisioned, MakeSkill, NoteSkill,
         ServeCard, StartPending, SetAnnounced, StartUnannounced, DropAnnouncement, MainExits
  <2>2. CASE CardSteps \/ TermSteps \/ IntSteps
    BY <2>2 DEF CardSteps, CardWithdraws, CardExits, TermSteps, TermTakes, TermCleansUp,
         TermExits, IntSteps, IntChecks, IntCleansUp, IntExits
  <2>3. CASE Environment
    BY <2>3 DEF Environment, ProvisionFails, ConfigureFails, CardStops, SigTerm, SigInt,
         StartListener, StartFails, PublishFails, ServerStops, Returns
  <2>4. ASSUME NEW l \in Listeners, ListenerSteps(l) PROVE withdrawn'
    BY <2>4 DEF ListenerSteps, ReadyEarly, ReadyLast, Publish, NotePublished, MarkListening,
         Serve, CtrlC, Returns, UnicastEnds, UnicastWithdraws, UnicastExits
  <2>5. CASE UNCHANGED vars
    BY <2>5 DEF vars
  <2> QED
    BY <2>1, <2>2, <2>3, <2>4, <2>5 DEF Next
<1>2. IInv' /\ withdrawn' => ~descriptor'
  BY DEF IInv, Listed
<1>3. IInv /\ [Next]_vars => (withdrawn => withdrawn' /\ ~descriptor')
  BY <1>1, <1>2, NextIInv
<1> QED
  BY <1>3, Invariance, PTL DEF Safety, WithdrawnForGood

-----------------------------------------------------------------------------
(* The locks *)

\* PENDING is taken before the slot.  Whoever holds PENDING is the listener that
\* publishes, which waits at most for the slot; whoever holds the slot waits for
\* nothing, be it that listener, which has PENDING too, or on_sigterm, which is
\* on its way out.  All other threads wait with empty hands.
LocksAreOrdered ==
  /\ pendLock = "free" \/ pendLock \in Listeners
  /\ pendLock \in Listeners => lst[pendLock] \in {"publish", "published"}
  /\ slotLock = "free" \/ slotLock = "term" \/ slotLock \in Listeners
  /\ slotLock = "term" => term \in {"cleanup", "leaving"}
  /\ slotLock \in Listeners => pendLock = slotLock /\ lst[slotLock] = "published"

\* A step that takes and gives back no lock, of a thread that holds none.
LEMMA LocksStay ==
  ASSUME LocksAreOrdered,
         UNCHANGED <<pendLock, slotLock>>,
         term \in {"cleanup", "leaving"} => term' \in {"cleanup", "leaving"},
         \A l \in Listeners : lst[l] \in {"publish", "published"} => lst'[l] = lst[l]
  PROVE  LocksAreOrdered'
  BY DEF LocksAreOrdered

\* The steps of the main thread, the card's and the ones that wait for a signal.
LEMMA ThreadsKeepLocks ==
  ASSUME IInv, LocksAreOrdered,
         \/ MainSteps \/ CardSteps \/ IntSteps \/ CardStops \/ SigTerm \/ SigInt
         \/ ProvisionFails \/ ConfigureFails \/ TermCleansUp \/ TermExits
  PROVE  LocksAreOrdered'
<1>1. UNCHANGED <<pendLock, slotLock>>
  BY DEF MainSteps, Prepare, MakeRoot, NoteRoot, Provisioned, MakeSkill, NoteSkill, ServeCard,
         StartPending, SetAnnounced, StartUnannounced, DropAnnouncement, MainExits, CardSteps,
         CardWithdraws, CardExits, IntSteps, IntChecks, IntCleansUp, IntExits, CardStops, SigTerm,
         SigInt, ProvisionFails, ConfigureFails, TermCleansUp, TermExits, Withdraw, annVars
<1>2. term \in {"cleanup", "leaving"} => term' \in {"cleanup", "leaving"}
  BY DEF MainSteps, Prepare, MakeRoot, NoteRoot, Provisioned, MakeSkill, NoteSkill, ServeCard,
         StartPending, SetAnnounced, StartUnannounced, DropAnnouncement, MainExits, CardSteps,
         CardWithdraws, CardExits, IntSteps, IntChecks, IntCleansUp, IntExits, CardStops, SigTerm,
         SigInt, ProvisionFails, ConfigureFails, TermCleansUp, TermExits, sigVars, IInv, Ordered
<1>3. CASE SetAnnounced \/ StartUnannounced
  <2>1. \A l \in Listeners : lst[l] = "off"
    BY <1>3 DEF SetAnnounced, StartUnannounced, IInv, Ordered, Unstarted
  <2> QED
    BY <1>1, <1>2, <2>1, LocksStay
<1>4. CASE ~(SetAnnounced \/ StartUnannounced)
  <2>1. lst' = lst
    BY <1>4 DEF MainSteps, Prepare, MakeRoot, NoteRoot, Provisioned, MakeSkill, NoteSkill,
           ServeCard, StartPending, DropAnnouncement, MainExits, CardSteps, CardWithdraws,
           CardExits, IntSteps, IntChecks, IntCleansUp, IntExits, CardStops, SigTerm, SigInt,
           ProvisionFails, ConfigureFails, TermCleansUp, TermExits
  <2> QED
    BY <1>1, <1>2, <2>1, LocksStay
<1> QED
  BY <1>3, <1>4

\* The steps of a listener.
LEMMA ListenersKeepLocks ==
  ASSUME IInv, LocksAreOrdered, NEW l \in Listeners,
         \/ ListenerSteps(l) \/ StartListener(l) \/ StartFails(l) \/ PublishFails(l)
         \/ ServerStops(l)
  PROVE  LocksAreOrdered'
<1> USE DEF Up, AtL, GoL, AtReturn, IInv, Kinds
<1>1. "free" \notin Listeners /\ "term" \notin Listeners
  BY DEF Listeners
<1>2. CASE ReadyLast(l)
  BY <1>1, <1>2 DEF ReadyLast, LocksAreOrdered, sigVars
<1>3. CASE Publish(l)
  BY <1>1, <1>3 DEF Publish, LocksAreOrdered, Locked, sigVars
<1>4. CASE NotePublished(l)
  BY <1>1, <1>4 DEF NotePublished, LocksAreOrdered, sigVars
<1>5. CASE StartListener(l) \/ StartFails(l) \/ PublishFails(l) \/ ServerStops(l) \/ CtrlC(l)
  BY <1>5, LocksStay DEF StartListener, StartFails, PublishFails, ServerStops, CtrlC, Returns,
         sigVars, annVars
<1>6. CASE ReadyEarly(l) \/ MarkListening(l) \/ Serve(l)
  BY <1>6, LocksStay DEF ReadyEarly, MarkListening, Serve, sigVars, annVars
<1>7. CASE UnicastEnds(l) \/ UnicastWithdraws(l) \/ UnicastExits(l)
  BY <1>7, LocksStay DEF UnicastEnds, UnicastWithdraws, UnicastExits, Withdraw, sigVars, annVars
<1> QED
  BY <1>2, <1>3, <1>4, <1>5, <1>6, <1>7 DEF ListenerSteps

\* No two threads wait for each other's lock, which is the safety half of
\* StopsWhole: withdraw() waits for a listener that can go on, and that one at
\* most for a thread that is about to end the process.
THEOREM NoCircularWait == Safety => []LocksAreOrdered
<1>1. Init => LocksAreOrdered
  BY DEF Init, LocksAreOrdered, Listeners
<1>2. IInv /\ LocksAreOrdered /\ [Next]_vars => LocksAreOrdered'
  <2> SUFFICES ASSUME IInv, LocksAreOrdered, [Next]_vars PROVE LocksAreOrdered'
    OBVIOUS
  <2>1. CASE TermTakes
    BY <2>1 DEF TermTakes, HoldSlot, LocksAreOrdered, Listeners
  <2>2. CASE UNCHANGED vars
    BY <2>2, LocksStay DEF vars, sigVars, annVars
  <2>3. ASSUME NEW l \in Listeners,
               \/ ListenerSteps(l) \/ StartListener(l) \/ StartFails(l) \/ PublishFails(l)
               \/ ServerStops(l)
        PROVE  LocksAreOrdered'
    BY <2>3, ListenersKeepLocks
  <2> QED
    BY <2>1, <2>2, <2>3, ThreadsKeepLocks DEF Next, Environment, TermSteps
<1> QED
  BY <1>1, <1>2, Invariance, PTL DEF Safety

=============================================================================
