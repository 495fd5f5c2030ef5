------------------------ MODULE SecretDeliveryProofs ------------------------
(***************************************************************************)
(* The safety properties of SecretDelivery for every configuration, every  *)
(* set of processes and every number of secrets and launches.              *)
(***************************************************************************)
EXTENDS SecretDelivery, SequenceTheorems, TLAPS

-----------------------------------------------------------------------------
(* The inductive invariant *)

AnyBroker ==
  {DirectBroker(c.direct[i]) : c \in Configs, i \in Nat}
    \cup {DelegatedBroker(c.policy[i]) : c \in Configs, i \in Nat}

States == {"none", "check", "accept", "write", "served", "failed", "joined"}
Conns == [pid : Pids, nonce : {"right", "wrong"}]
Holders == Pids \cup {None}

Kinds ==
  /\ config \in Configs
  /\ pc \in {"resolve", "direct", "policy", "prepare", "deliver", "write", "wait",
             "background", "close", "done"}
  /\ turn \in Nat \ {0}
  /\ brokers \in Seq(AnyBroker) /\ worker \in Seq(States) /\ held \in Seq(Holders)
  /\ backlog \in Seq(Seq(Conns)) /\ received \in Seq(Seq(Holders))
  /\ Len(worker) = Len(brokers) /\ Len(held) = Len(brokers)
  /\ Len(backlog) = Len(brokers) /\ Len(received) = Len(brokers)

\* Which worker threads there are, and which endpoints.
Joined ==
  /\ pc \in {"resolve", "direct", "policy", "done"} => dirs = {}
  /\ dirs \subseteq 1 .. Len(brokers)
  /\ \A i \in 1 .. Len(brokers) :
       /\ brokers[i].kind = "Direct" => worker[i] = "none"
       /\ pc \in {"direct", "policy", "prepare"} => worker[i] = "none"
       /\ pc \in {"deliver", "write"} /\ turn <= i => worker[i] = "none"
       /\ pc = "close" /\ i < turn => worker[i] \in {"none", "joined"} /\ i \notin dirs
       /\ pc \in {"resolve", "done"} => worker[i] \in {"none", "joined"}

\* The payload of a broker is still to be written.
Unread(i) ==
  \/ /\ brokers[i].kind = "Direct"
     /\ \/ pc \in {"direct", "policy", "prepare"}
        \/ pc = "deliver" /\ turn <= i
        \/ pc = "write" /\ turn < i
  \/ brokers[i].kind = "Delegated" /\ worker[i] \in {"none", "check", "accept"}

\* Who is given it.
Reader(i) ==
  /\ Unread(i) => received[i] = <<>>
  /\ received[i] # <<>> =>
       \E p \in Holders : received[i] = <<p>> /\ (p = Child <=> brokers[i].kind = "Direct")

Readers == \A i \in 1 .. Len(brokers) : Reader(i)

\* The launched child is not a child of itself.
Parents ==
  /\ proc \in [Pids -> [status : {"none", "running", "zombie", "gone"},
                        program : Programs \cup {Command},
                        parent : {"init", "shadictl", Child}]]
  /\ proc[Child].parent # Child

\* The directory that nobody owns belongs to a launch that ends before it hands
\* out anything; only the end of a child is followed by a relaunch.
Stray ==
  /\ pc # "close" => ~relaunch
  /\ stray => /\ failed /\ pc \in {"close", "done"} /\ ~relaunch
              /\ \A i \in 1 .. Len(brokers) : worker[i] = "none" /\ received[i] = <<>>

\* The inductive invariant; Stray is kept on top of it.
IInv == Kinds /\ Joined /\ Readers /\ Parents
-----------------------------------------------------------------------------
(* Lemmas *)

\* A broker is direct or delegated.
LEMMA BrokerKinds == \A b \in AnyBroker : b.kind \in {"Direct", "Delegated"}
  BY DEF AnyBroker, DirectBroker, DelegatedBroker

LEMMA KindOf ==
  ASSUME IInv
  PROVE  Len(brokers) \in Nat /\ \A i \in 1 .. Len(brokers) : brokers[i].kind \in {"Direct", "Delegated"}
  BY BrokerKinds DEF IInv, Kinds

\* A session starts with nothing prepared.
LEMMA InitIInv == Init => IInv
<1> SUFFICES ASSUME Init PROVE IInv
  OBVIOUS
<1>1. Kinds
  BY DEF Init, Kinds
<1>2. Joined /\ Readers
  BY DEF Init, Joined, Readers
<1>3. Parents
  BY DEF Init, Parents, Pids, Child
<1> QED
  BY <1>1, <1>2, <1>3 DEF IInv

\* The steps of the main thread that change neither a broker nor a process.
LEMMA QuietIInv ==
  ASSUME IInv, \/ DirectResolved \/ Resolved \/ Refuse \/ PrepareBroker \/ EndpointFails
         \/ PrepareFails \/ AllServed \/ WriteDone \/ PollDirect \/ Closed
  PROVE  IInv'
<1> USE DEF IInv, Kinds, Joined, Readers, Reader, Unread, Parents, workVars
<1>1. CASE DirectResolved
  <2>1. /\ pc = "direct" /\ pc' = "policy" /\ turn' = 1
        /\ UNCHANGED <<config, brokers, dirs, workVars, proc>>
    BY <1>1 DEF DirectResolved
  <2>2. Kinds' /\ Parents' /\ Joined'
    BY <2>1
  <2> QED
    BY <2>1, <2>2, BrokerKinds
<1>2. CASE Resolved
  <2>1. /\ pc = "policy" /\ pc' = "prepare" /\ turn' = 1
        /\ UNCHANGED <<config, brokers, dirs, workVars, proc>>
    BY <1>2 DEF Resolved
  <2>2. Kinds' /\ Parents'
    BY <2>1
  <2>3. Joined'
    BY <2>1
  <2> QED
    BY <2>1, <2>2, <2>3, BrokerKinds
<1>3. CASE Refuse
  <2>1. pc \in {"direct", "policy"} /\ pc' = "done"
    BY <1>3 DEF Refuse
  <2> QED
    BY <1>3, <2>1, BrokerKinds DEF Refuse
<1>4. CASE PrepareBroker
  BY <1>4, BrokerKinds DEF PrepareBroker
<1>5. CASE PrepareFails
  BY <1>5, BrokerKinds DEF PrepareFails
<1>6. CASE AllServed
  BY <1>6, BrokerKinds DEF AllServed
<1>7. CASE PollDirect
  BY <1>7, BrokerKinds DEF PollDirect
<1>8. CASE Closed
  BY <1>8, BrokerKinds DEF Closed
<1>9. CASE EndpointFails
  BY <1>9, BrokerKinds DEF EndpointFails
<1>10. CASE WriteDone
  <2>1. /\ pc = "write" /\ pc' = "deliver" /\ turn' = turn + 1
        /\ UNCHANGED <<config, brokers, dirs, workVars, proc>>
    BY <1>10 DEF WriteDone, NextBroker
  <2>2. Kinds' /\ Parents'
    BY <2>1
  <2>3. \A i \in 1 .. Len(brokers) : turn' <= i => turn < i /\ turn <= i
    BY <2>1, KindOf
  <2>4. Joined'
    BY <2>1, <2>3
  <2>5. Readers'
    BY <2>1, <2>3, KindOf
  <2> QED
    BY <2>2, <2>4, <2>5
<1> QED
  BY <1>1, <1>2, <1>3, <1>4, <1>5, <1>6, <1>7, <1>8, <1>9, <1>10

Procs == [status : {"none", "running", "zombie", "gone"}, program : Programs \cup {Command},
          parent : {"init", "shadictl", Child}]

\* Reaping the child leaves its helpers to init.
LEMMA OrphanedParents == ASSUME Parents, proc' = Orphaned PROVE Parents'
<1>1. Child \in Pids /\ proc[Child] \in Procs
  BY DEF Parents, Procs, Pids
<1>2. \A p \in Pids : Orphaned[p] \in Procs
  BY DEF Orphaned, Parents, Procs
<1>3. Orphaned[Child] = [proc[Child] EXCEPT !.status = "gone"]
  BY <1>1 DEF Orphaned, Parents
<1>4. Orphaned[Child].parent = proc[Child].parent
  BY <1>1, <1>3 DEF Procs
<1>5. Orphaned \in [Pids -> Procs]
  BY <1>2 DEF Orphaned
<1> QED
  BY <1>4, <1>5 DEF Parents, Procs

\* Killing the group leaves nobody with the child for a parent.
LEMMA KilledParents == ASSUME Parents, proc' = GroupKilled PROVE Parents'
<1>1. Child \in Pids /\ proc[Child] \in Procs
  BY DEF Parents, Procs, Pids
<1>2. \A p \in Pids : GroupKilled[p] \in Procs
  BY DEF GroupKilled, Parents, Procs
<1>3. GroupKilled[Child].parent = "init"
  BY <1>1 DEF GroupKilled, Procs
<1>4. GroupKilled \in [Pids -> Procs]
  BY <1>2 DEF GroupKilled
<1> QED
  BY <1>3, <1>4 DEF Parents, Procs, Child

\* A process that exits keeps its parent.
LEMMA ExitParents == ASSUME Parents, NEW p \in Pids, Exit(p) PROVE Parents'
<1> DEFINE s == IF p = Child THEN "zombie" ELSE "gone"
<1>1. proc' = [proc EXCEPT ![p].status = s] /\ s \in {"zombie", "gone"}
  BY DEF Exit
<1> HIDE DEF s
<1>2. \A q \in Pids : proc[q] \in Procs /\ proc'[q] = IF q = p THEN [proc[p] EXCEPT !.status = s] ELSE proc[q]
  BY <1>1 DEF Parents, Procs
<1>3. \A q \in Pids : proc'[q] \in Procs /\ proc'[q].parent = proc[q].parent
  BY <1>1, <1>2 DEF Procs
<1>4. proc' \in [Pids -> Procs]
  BY <1>1, <1>3 DEF Parents
<1> QED
  BY <1>3, <1>4 DEF Parents, Procs, Pids

\* The steps that begin a launch, start its child and see it end.
LEMMA SpawnIInv ==
  ASSUME IInv, Begin \/ Spawn \/ ChildReaped \/ \E again \in BOOLEAN : ChildKilled(again)
  PROVE  IInv'
<1> USE DEF IInv, Kinds, Joined, Readers, Reader, Unread, workVars
<1>1. CASE Begin
  BY <1>1 DEF Begin, Parents
<1>2. CASE Spawn
  <2>1. Parents'
    BY <1>2 DEF Spawn, Parents, Pids, Child
  <2>2. /\ pc = "prepare" /\ pc' = "deliver" /\ turn' = 1
        /\ UNCHANGED <<config, brokers, dirs, workVars>>
    BY <1>2 DEF Spawn
  <2>3. Readers'
    BY <2>2, KindOf
  <2> QED
    BY <2>1, <2>2, <2>3
<1>3. CASE ChildReaped
  BY <1>3, OrphanedParents, BrokerKinds DEF ChildReaped
<1>4. ASSUME NEW again \in BOOLEAN, ChildKilled(again) PROVE IInv'
  BY <1>4, KilledParents, BrokerKinds DEF ChildKilled
<1> QED
  BY <1>1, <1>2, <1>3, <1>4

\* A helper is started, or a file replaced.
LEMMA ProcessIInv ==
  ASSUME IInv, NEW p \in Pids, NEW program \in Programs,
         (p # Child /\ Fork(p, program)) \/ Replace(program)
  PROVE  IInv'
<1> USE DEF IInv, Kinds, Joined, Readers, Reader, Unread, workVars
<1>1. CASE p # Child /\ Fork(p, program)
  <2>1. Parents'
    BY <1>1 DEF Fork, Parents
  <2>2. UNCHANGED <<mainVars, workVars>>
    BY <1>1 DEF Fork
  <2> QED
    BY <2>1, <2>2 DEF mainVars
<1>2. CASE Replace(program)
  BY <1>2 DEF Replace, mainVars, Parents
<1> QED
  BY <1>1, <1>2

\* A process exits.
LEMMA ExitIInv == ASSUME IInv, NEW p \in Pids, Exit(p) PROVE IInv'
<1>1. Parents'
  BY ExitParents DEF IInv
<1>2. UNCHANGED <<mainVars, workVars>>
  BY DEF Exit
<1> QED
  BY <1>1, <1>2 DEF mainVars, workVars, IInv, Kinds, Joined, Readers, Reader, Unread

\* A rule that applies adds a broker that has served nobody.
LEMMA AddBrokerIInv ==
  ASSUME IInv, pc \in {"direct", "policy"}, NEW b \in AnyBroker, AddBroker(b), turn' = turn + 1,
         UNCHANGED <<config, pc, dirs, proc>>
  PROVE  IInv'
<1> USE DEF IInv, Kinds
<1> DEFINE n == Len(brokers)
<1>1. /\ brokers' \in Seq(AnyBroker) /\ worker' \in Seq(States) /\ held' \in Seq(Holders)
      /\ backlog' \in Seq(Seq(Conns)) /\ received' \in Seq(Seq(Holders))
  BY DEF AddBroker, States, Holders
<1>2. /\ Len(brokers') = n + 1 /\ Len(worker') = n + 1 /\ Len(held') = n + 1
      /\ Len(backlog') = n + 1 /\ Len(received') = n + 1 /\ n \in Nat
  BY DEF AddBroker
<1>3. /\ \A i \in 1 .. n : brokers'[i] = brokers[i] /\ worker'[i] = worker[i] /\ received'[i] = received[i]
      /\ worker'[n + 1] = "none" /\ received'[n + 1] = <<>>
  BY DEF AddBroker
<1> HIDE DEF n
<1>4. \A i \in 1 .. n + 1 : i \in 1 .. n \/ i = n + 1
  BY <1>2
<1>5. \A i \in 1 .. n + 1 : worker'[i] = "none"
  BY <1>3, <1>4 DEF Joined, n
<1>6. Joined'
  BY <1>2, <1>5 DEF Joined
<1>7. \A i \in 1 .. n : received[i] = <<>>
  BY KindOf DEF Readers, Reader, Unread, Joined, n
<1>8. \A i \in 1 .. n + 1 : received'[i] = <<>>
  BY <1>3, <1>4, <1>7
<1>9. Readers'
  BY <1>2, <1>5, <1>8 DEF Readers, Reader
<1> QED
  BY <1>1, <1>2, <1>6, <1>9 DEF Parents

\* resolve_launch_secret_config, rule by rule.
LEMMA ResolveIInv ==
  ASSUME IInv, ResolveDirect \/ ResolvePolicy
  PROVE  IInv'
<1>1. CASE UNCHANGED <<brokers, workVars>>
  <2>1. pc \in {"direct", "policy"} /\ turn' = turn + 1 /\ UNCHANGED <<config, pc, dirs, proc>>
    BY DEF ResolveDirect, ResolvePolicy
  <2>2. UNCHANGED <<brokers, backlog, worker, held, received>>
    BY <1>1 DEF workVars
  <2>3. Kinds' /\ Parents'
    BY <2>1, <2>2 DEF IInv, Kinds, Parents
  <2>4. Joined'
    BY <2>1, <2>2 DEF IInv, Joined
  <2>5. Readers'
    BY <2>1, <2>2, KindOf DEF IInv, Readers, Reader, Unread
  <2> QED
    BY <2>3, <2>4, <2>5 DEF IInv
<1>2. ASSUME ~UNCHANGED <<brokers, workVars>>
      PROVE  \E b \in AnyBroker : AddBroker(b)
  <2>1. CASE ResolveDirect
    <3>1. AddBroker(DirectBroker(config.direct[turn]))
      BY <1>2, <2>1 DEF ResolveDirect
    <3> QED
      BY <3>1 DEF AnyBroker, IInv, Kinds
  <2>2. CASE ResolvePolicy
    <3>1. AddBroker(DelegatedBroker(config.policy[turn]))
      BY <1>2, <2>2 DEF ResolvePolicy
    <3> QED
      BY <3>1 DEF AnyBroker, IInv, Kinds
  <2> QED
    BY <2>1, <2>2
<1>3. /\ pc \in {"direct", "policy"} /\ turn' = turn + 1
      /\ UNCHANGED <<config, pc, dirs, proc>>
  BY DEF ResolveDirect, ResolvePolicy
<1> QED
  BY <1>1, <1>2, <1>3, AddBrokerIInv

\* An entry of a sequence is replaced: the others stay.
LEMMA SetAt ==
  ASSUME NEW S, NEW s \in Seq(S), NEW i \in 1 .. Len(s), NEW e \in S,
         NEW r, r = [s EXCEPT ![i] = e]
  PROVE  /\ r \in Seq(S) /\ Len(r) = Len(s)
         /\ \A j \in 1 .. Len(s) : r[j] = IF j = i THEN e ELSE s[j]
  BY ExceptSeq

\* A step that only takes connections in or drops them.
LEMMA BacklogIInv ==
  ASSUME IInv, NEW i \in 1 .. Len(brokers), NEW q \in Seq(Conns),
         backlog' = [backlog EXCEPT ![i] = q],
         UNCHANGED <<config, pc, brokers, turn, dirs, worker, held, received, proc>>
  PROVE  IInv'
<1>1. backlog' \in Seq(Seq(Conns)) /\ Len(backlog') = Len(backlog)
  BY SetAt DEF IInv, Kinds
<1> QED
  BY <1>1 DEF IInv, Kinds, Joined, Readers, Reader, Unread, Parents

\* The head of a queue and what is behind it.
LEMMA QueueFacts ==
  ASSUME IInv, NEW i \in 1 .. Len(brokers)
  PROVE  /\ backlog[i] \in Seq(Conns)
         /\ backlog[i] # <<>> => Head(backlog[i]) \in Conns /\ Tail(backlog[i]) \in Seq(Conns)
  BY DEF IInv, Kinds

\* GiveUp: the child is killed and the brokers are closed.
LEMMA GiveUpIInv ==
  ASSUME IInv, GiveUp, backlog' \in Seq(Seq(Conns)), Len(backlog') = Len(backlog) PROVE IInv'
<1>1. Parents'
  BY KilledParents DEF GiveUp, IInv
<1>2. /\ pc' = "close" /\ turn' = 1
      /\ UNCHANGED <<config, brokers, dirs, worker, held, received>>
  BY DEF GiveUp
<1>3. Kinds' /\ Joined'
  BY <1>2 DEF IInv, Kinds, Joined
<1>4. Readers'
  BY <1>2, KindOf DEF IInv, Readers, Reader, Unread
<1> QED
  BY <1>1, <1>3, <1>4 DEF IInv

\* The loop of deliver_secret_to_process around a direct secret.
LEMMA DirectIInv ==
  ASSUME IInv, DirectRejects \/ DirectDisconnected \/ DirectTimesOut \/ WriteFails
  PROVE  IInv'
<1>0. DirectRejects \/ DirectDisconnected =>
        turn \in 1 .. Len(brokers) /\ Len(backlog) = Len(brokers)
  BY KindOf DEF DirectRejects, DirectDisconnected, AtDirect, IInv, Kinds
<1>1. CASE DirectRejects
  <2>0. turn \in 1 .. Len(backlog) /\ backlog \in Seq(Seq(Conns))
    BY <1>0, <1>1 DEF IInv, Kinds
  <2>1. Tail(backlog[turn]) \in Seq(Conns) /\ backlog' = [backlog EXCEPT ![turn] = Tail(backlog[turn])]
    BY <1>0, <1>1, QueueFacts DEF DirectRejects
  <2>2. backlog' \in Seq(Seq(Conns)) /\ Len(backlog') = Len(backlog)
    BY <2>0, <2>1, SetAt
  <2> QED
    BY <1>1, <2>2, GiveUpIInv DEF DirectRejects
<1>2. CASE DirectDisconnected
  <2>1. Tail(backlog[turn]) \in Seq(Conns) /\ backlog' = [backlog EXCEPT ![turn] = Tail(backlog[turn])]
    BY <1>0, <1>2, QueueFacts DEF DirectDisconnected
  <2> QED
    BY <1>0, <1>2, <2>1, BacklogIInv DEF DirectDisconnected
<1>3. CASE DirectTimesOut
  BY <1>3, GiveUpIInv DEF DirectTimesOut, IInv, Kinds
<1>4. CASE WriteFails
  BY <1>4, GiveUpIInv DEF WriteFails, IInv, Kinds
<1> QED
  BY <1>1, <1>2, <1>3, <1>4

\* The secret goes to the launched child, whose turn it is.
LEMMA DeliverIInv == ASSUME IInv, Deliver PROVE IInv'
<1>0. /\ turn \in 1 .. Len(brokers) /\ pc = "deliver" /\ brokers[turn].kind = "Direct"
      /\ Len(backlog) = Len(brokers) /\ Len(received) = Len(brokers)
  BY KindOf DEF Deliver, AtDirect, IInv, Kinds
<1>1. received[turn] = <<>>
  BY <1>0 DEF IInv, Readers, Reader, Unread
<1>2. Append(received[turn], Head(backlog[turn]).pid) = <<Child>>
  BY <1>1 DEF Deliver, Verified
<1>3. <<Child>> \in Seq(Holders) /\ Child \in Holders
  BY DEF Holders, Pids
<1>4. received' = [received EXCEPT ![turn] = <<Child>>] /\ backlog' = [backlog EXCEPT ![turn] = <<>>]
  BY <1>2 DEF Deliver
<1>5. /\ received' \in Seq(Seq(Holders)) /\ Len(received') = Len(received)
      /\ \A j \in 1 .. Len(received) : received'[j] = IF j = turn THEN <<Child>> ELSE received[j]
  BY <1>0, <1>3, <1>4, SetAt DEF IInv, Kinds
<1>6. backlog' \in Seq(Seq(Conns)) /\ Len(backlog') = Len(backlog)
  BY <1>0, <1>4, SetAt DEF IInv, Kinds
<1>7. pc' = "write" /\ UNCHANGED <<config, turn, brokers, dirs, worker, held, proc>>
  BY DEF Deliver
<1>8. Kinds' /\ Joined' /\ Parents'
  <2>1. Kinds'
    BY <1>0, <1>5, <1>6, <1>7 DEF IInv, Kinds
  <2>2. Joined'
    BY <1>0, <1>7, KindOf DEF IInv, Kinds, Joined
  <2>3. Parents'
    BY <1>7 DEF IInv, Parents
  <2> QED
    BY <2>1, <2>2, <2>3
<1>9. ASSUME NEW i \in 1 .. Len(brokers) PROVE Reader(i)'
  <2>1. Reader(i) /\ (brokers[i].kind = "Direct" => worker[i] = "none")
    BY DEF IInv, Readers, Joined
  <2>2. CASE i = turn
    <3>1. ~Unread(i)' /\ received'[i] = <<Child>> /\ worker'[i] = "none" /\ brokers'[i].kind = "Direct"
      BY <1>0, <1>5, <1>7, <2>1, <2>2 DEF Unread
    <3> QED
      BY <1>3, <3>1 DEF Reader
  <2>3. CASE i # turn
    <3>1. Unread(i)' => Unread(i)
      BY <1>0, <1>7, KindOf DEF Unread
    <3>2. received'[i] = received[i] /\ brokers'[i] = brokers[i] /\ worker'[i] = worker[i] /\ held'[i] = held[i]
      BY <1>0, <1>5, <1>7, <2>3
    <3> QED
      BY <2>1, <3>1, <3>2 DEF Reader
  <2> QED
    BY <2>2, <2>3
<1> QED
  BY <1>7, <1>8, <1>9 DEF IInv, Readers

\* A step of a worker, or one that joins it: nothing is written.
LEMMA WorkerMoves ==
  ASSUME IInv, NEW i \in 1 .. Len(brokers), NEW e \in States,
         worker' = [worker EXCEPT ![i] = e], UNCHANGED <<brokers, received>>
  PROVE  /\ worker' \in Seq(States) /\ Len(worker') = Len(worker) /\ Len(worker) = Len(brokers)
         /\ \A j \in 1 .. Len(brokers) : worker'[j] = IF j = i THEN e ELSE worker[j]
  BY SetAt DEF IInv, Kinds

\* start_delegated_secret_delivery starts the worker whose turn it is.
LEMMA StartIInv == ASSUME IInv, start_delegated_secret_delivery PROVE IInv'
<1>0. /\ turn \in 1 .. Len(brokers) /\ pc = "deliver" /\ brokers[turn].kind = "Delegated"
      /\ worker[turn] = "none"
  BY KindOf DEF start_delegated_secret_delivery, IInv, Kinds, Joined
<1>1. /\ worker' = [worker EXCEPT ![turn] = "check"] /\ turn' = turn + 1
      /\ UNCHANGED <<config, pc, brokers, dirs, backlog, held, received, proc>>
  BY DEF start_delegated_secret_delivery, NextBroker
<1>2. /\ worker' \in Seq(States) /\ Len(worker') = Len(worker) /\ Len(worker) = Len(brokers)
      /\ \A j \in 1 .. Len(brokers) : worker'[j] = IF j = turn THEN "check" ELSE worker[j]
  BY <1>0, <1>1, WorkerMoves DEF States
<1>3. Kinds' /\ Joined' /\ Parents'
  BY <1>0, <1>1, <1>2, KindOf DEF IInv, Kinds, Joined, Parents
<1>4. ASSUME NEW i \in 1 .. Len(brokers) PROVE Reader(i)'
  <2>1. Reader(i)
    BY DEF IInv, Readers
  <2>2. Unread(i)' => Unread(i)
    BY <1>0, <1>1, <1>2, KindOf DEF Unread
  <2> QED
    BY <1>1, <2>1, <2>2 DEF Reader
<1> QED
  BY <1>1, <1>3, <1>4 DEF IInv, Readers

\* A join: an ended worker becomes joined, one that never was stays none.
LEMMA JoinFacts ==
  ASSUME IInv, turn \in 1 .. Len(brokers), Ended(turn), UNCHANGED <<brokers, received>>,
         worker' = [worker EXCEPT ![turn] = IF @ = "none" THEN @ ELSE "joined"]
  PROVE  /\ worker' \in Seq(States) /\ Len(worker') = Len(worker) /\ Len(worker) = Len(brokers)
         /\ worker'[turn] \in {"none", "joined"}
         /\ \A j \in 1 .. Len(brokers) :
              worker'[j] = worker[j] \/ (j = turn /\ worker[j] \in {"served", "failed", "joined"} /\ worker'[j] = "joined")
<1> DEFINE e == IF worker[turn] = "none" THEN "none" ELSE "joined"
<1>1. e \in States /\ worker' = [worker EXCEPT ![turn] = e]
  BY DEF States
<1>2. /\ worker' \in Seq(States) /\ Len(worker') = Len(worker) /\ Len(worker) = Len(brokers)
      /\ \A j \in 1 .. Len(brokers) : worker'[j] = IF j = turn THEN e ELSE worker[j]
  BY <1>1, WorkerMoves
<1> QED
  BY <1>2 DEF Ended

\* A worker that is joined, and a main thread past the delivery, leave what was
\* read as it is.
LEMMA JoinedReaders ==
  ASSUME IInv, pc \in {"background", "close"}, pc' \in {"background", "close"},
         UNCHANGED <<brokers, held, received>>,
         \A j \in 1 .. Len(brokers) :
           worker'[j] = worker[j] \/ (worker[j] \in {"served", "failed", "joined"} /\ worker'[j] = "joined")
  PROVE  Readers'
<1> SUFFICES ASSUME NEW i \in 1 .. Len(brokers) PROVE Reader(i)'
  BY DEF Readers
<1>1. Reader(i)
  BY DEF IInv, Readers
<1>2. Unread(i)' => Unread(i)
  BY KindOf DEF Unread
<1> QED
  BY <1>1, <1>2 DEF Reader

\* wait_for_background_delivery, after the child.
LEMMA BackgroundIInv == ASSUME IInv, wait_for_background_delivery PROVE IInv'
<1>0. /\ pc = "background" /\ pc' \in {"background", "close"}
      /\ pc' = "close" => turn' = 1
      /\ turn' \in Nat \ {0}
      /\ UNCHANGED <<config, brokers, dirs, backlog, held, received, proc>>
  BY DEF wait_for_background_delivery, IInv, Kinds
<1>1. /\ worker' \in Seq(States) /\ Len(worker') = Len(worker) /\ Len(worker) = Len(brokers)
      /\ \A j \in 1 .. Len(brokers) :
           worker'[j] = worker[j] \/ (worker[j] \in {"served", "failed", "joined"} /\ worker'[j] = "joined")
  <2>1. CASE turn > Len(brokers)
    BY <2>1, KindOf DEF wait_for_background_delivery, IInv, Kinds
  <2>2. CASE ~(turn > Len(brokers))
    <3>1. turn \in 1 .. Len(brokers)
      BY <2>2, KindOf DEF IInv, Kinds
    <3>2. Ended(turn) /\ worker' = [worker EXCEPT ![turn] = IF @ = "none" THEN @ ELSE "joined"]
      BY <2>2 DEF wait_for_background_delivery
    <3> QED
      BY <1>0, <3>1, <3>2, JoinFacts
  <2> QED
    BY <2>1, <2>2
<1>2. Kinds' /\ Joined' /\ Parents'
  <2>1. Kinds' /\ Parents'
    BY <1>0, <1>1 DEF IInv, Kinds, Parents
  <2>2. Joined'
    BY <1>0, <1>1, KindOf DEF IInv, Joined
  <2> QED
    BY <2>1, <2>2
<1>3. Readers'
  BY <1>0, <1>1, JoinedReaders
<1> QED
  BY <1>2, <1>3 DEF IInv

\* close_parent_fds joins a worker before it removes the endpoint.
LEMMA CloseIInv == ASSUME IInv, close_parent_fds PROVE IInv'
<1>0. /\ turn \in 1 .. Len(brokers) /\ pc = "close" /\ Ended(turn)
      /\ Len(backlog) = Len(brokers)
  BY KindOf DEF close_parent_fds, JoinAtTurn, IInv, Kinds
<1>1. /\ worker' = [worker EXCEPT ![turn] = IF @ = "none" THEN @ ELSE "joined"]
      /\ dirs' = dirs \ {turn} /\ backlog' = [backlog EXCEPT ![turn] = <<>>] /\ turn' = turn + 1
      /\ UNCHANGED <<config, pc, brokers, held, received, proc>>
  BY DEF close_parent_fds, JoinAtTurn
<1>2. /\ worker' \in Seq(States) /\ Len(worker') = Len(worker) /\ Len(worker) = Len(brokers)
      /\ worker'[turn] \in {"none", "joined"}
      /\ \A j \in 1 .. Len(brokers) :
           worker'[j] = worker[j] \/ (j = turn /\ worker[j] \in {"served", "failed", "joined"} /\ worker'[j] = "joined")
  BY <1>0, <1>1, JoinFacts
<1>3. backlog' \in Seq(Seq(Conns)) /\ Len(backlog') = Len(backlog)
  BY <1>0, <1>1, SetAt DEF IInv, Kinds
<1>4. Kinds' /\ Parents'
  BY <1>0, <1>1, <1>2, <1>3, KindOf DEF IInv, Kinds, Parents
<1>5. Joined'
  BY <1>0, <1>1, <1>2, KindOf DEF IInv, Joined
<1>6. Readers'
  BY <1>0, <1>1, <1>2, JoinedReaders
<1> QED
  BY <1>4, <1>5, <1>6 DEF IInv

\* A step of a worker touches what belongs to its own broker, which is
\* delegated and, until its write, has not been read.
LEMMA WorkerIInv ==
  ASSUME IInv, NEW i \in 1 .. Len(brokers), worker[i] \in {"check", "accept", "write"},
         NEW e \in {"check", "accept", "write", "served", "failed"},
         worker' = [worker EXCEPT ![i] = e], UNCHANGED <<mainVars, proc>>,
         backlog' \in Seq(Seq(Conns)), held' \in Seq(Holders), received' \in Seq(Seq(Holders)),
         Len(backlog') = Len(brokers), Len(held') = Len(brokers), Len(received') = Len(brokers),
         \A j \in 1 .. Len(brokers) : j # i => held'[j] = held[j] /\ received'[j] = received[j],
         brokers[i].kind = "Delegated" /\ Reader(i)
           /\ (worker[i] # "write" => received[i] = <<>>) => Reader(i)'
  PROVE  IInv'
<1>0. e \in States /\ Len(worker) = Len(brokers)
  BY DEF States, IInv, Kinds
<1>1. /\ worker' \in Seq(States) /\ Len(worker') = Len(worker)
      /\ \A j \in 1 .. Len(brokers) : worker'[j] = IF j = i THEN e ELSE worker[j]
  <2>1. worker \in Seq(States) /\ i \in 1 .. Len(worker)
    BY <1>0 DEF IInv, Kinds
  <2> QED
    BY <1>0, <2>1, SetAt
<1>2. UNCHANGED <<config, pc, brokers, turn, dirs>>
  BY DEF mainVars
<1>3. /\ brokers[i].kind = "Delegated" /\ Reader(i)
      /\ worker[i] # "write" => received[i] = <<>>
  <2>1. brokers[i].kind = "Delegated"
    BY KindOf DEF IInv, Joined
  <2> QED
    BY <2>1 DEF IInv, Readers, Reader, Unread
<1>4. Kinds' /\ Parents'
  <2>1. Kinds'
    BY <1>0, <1>1, <1>2 DEF IInv, Kinds
  <2>2. Parents'
    BY DEF IInv, Parents
  <2> QED
    BY <2>1, <2>2
<1>5. Joined'
  <2>1. pc \notin {"direct", "policy", "prepare", "resolve", "done"}
    BY DEF IInv, Joined
  <2>2. pc = "deliver" => ~(turn <= i)
    BY DEF IInv, Joined
  <2>3. pc = "close" => ~(i < turn)
    BY DEF IInv, Joined
  <2> QED
    BY <1>1, <1>2, <1>3, <2>1, <2>2, <2>3 DEF IInv, Joined
<1>6. ASSUME NEW j \in 1 .. Len(brokers) PROVE Reader(j)'
  <2>1. CASE j = i
    BY <1>3, <2>1
  <2>2. CASE j # i
    <3>1. Reader(j) /\ worker'[j] = worker[j] /\ held'[j] = held[j] /\ received'[j] = received[j]
      BY <1>1, <2>2 DEF IInv, Readers
    <3>2. Unread(j)' <=> Unread(j)
      BY <1>2, <3>1 DEF Unread
    <3> QED
      BY <1>2, <3>1, <3>2 DEF Reader
  <2> QED
    BY <2>1, <2>2
<1> QED
  BY <1>2, <1>4, <1>5, <1>6 DEF IInv, Readers

\* The write of a worker ends, well or not.
LEMMA WroteIInv ==
  ASSUME IInv, NEW i \in 1 .. Len(brokers), NEW result \in {"served", "failed"},
         WorkerWrote(i, result)
  PROVE  IInv'
<1>0. /\ Len(held) = Len(brokers) /\ Len(backlog) = Len(brokers) /\ Len(received) = Len(brokers)
      /\ backlog \in Seq(Seq(Conns)) /\ held \in Seq(Holders) /\ received \in Seq(Seq(Holders))
  BY DEF IInv, Kinds
<1>1. /\ worker[i] = "write" /\ worker' = [worker EXCEPT ![i] = result]
      /\ held' = [held EXCEPT ![i] = None]
      /\ UNCHANGED <<mainVars, backlog, received, proc>>
  BY DEF WorkerWrote, Becomes
<1>2. /\ held' \in Seq(Holders) /\ Len(held') = Len(held)
      /\ \A j \in 1 .. Len(held) : held'[j] = IF j = i THEN None ELSE held[j]
  BY <1>0, <1>1, SetAt DEF Holders
<1>3. brokers' = brokers
  BY <1>1 DEF mainVars
<1>4. worker'[i] = result
  <2>1. /\ result \in States /\ worker' = [worker EXCEPT ![i] = result]
        /\ worker \in Seq(States) /\ i \in 1 .. Len(worker)
    BY <1>1 DEF States, IInv, Kinds
  <2> QED
    BY <2>1, SetAt
<1>5. ASSUME brokers[i].kind = "Delegated", Reader(i) PROVE Reader(i)'
  <2>1. ~Unread(i)'
    BY <1>3, <1>4, <1>5 DEF Unread
  <2> QED
    BY <1>1, <1>3, <1>5, <2>1 DEF Reader
<1> QED
  BY <1>0, <1>1, <1>2, <1>5, WorkerIInv

\* The loop of the worker thread.
LEMMA WorkersIInv == ASSUME IInv, NEW i, Worker(i) PROVE IInv'
<1>0. /\ i \in 1 .. Len(brokers) /\ Len(worker) = Len(brokers) /\ Len(held) = Len(brokers)
      /\ Len(backlog) = Len(brokers) /\ Len(received) = Len(brokers)
      /\ backlog \in Seq(Seq(Conns)) /\ held \in Seq(Holders) /\ received \in Seq(Seq(Holders))
      /\ brokers' = brokers
  BY DEF Worker, WorkerChecks, WorkerPolls, WorkerAccepts, WorkerWrote, mainVars, IInv, Kinds
<1>1. CASE WorkerChecks(i)
  <2> DEFINE e == IF Alive(Child) THEN "accept" ELSE "failed"
  <2>1. /\ worker[i] = "check" /\ e \in {"accept", "failed"} /\ worker' = [worker EXCEPT ![i] = e]
        /\ UNCHANGED <<mainVars, backlog, held, received, proc>>
    BY <1>1 DEF WorkerChecks, CheckParent, Becomes
  <2> HIDE DEF e
  <2>2. worker'[i] = e
    BY <1>0, <2>1, WorkerMoves DEF States
  <2>3. received[i] = <<>> => Reader(i)'
    BY <2>1, <2>2 DEF Reader
  <2> QED
    BY <1>0, <2>1, <2>3, WorkerIInv
<1>2. CASE WorkerPolls(i)
  <2>1. /\ worker[i] = "accept" /\ worker' = [worker EXCEPT ![i] = "check"]
        /\ UNCHANGED <<mainVars, backlog, held, received, proc>>
    BY <1>2 DEF WorkerPolls, Becomes
  <2>2. worker'[i] = "check"
    BY <1>0, <2>1, WorkerMoves DEF States
  <2>3. received[i] = <<>> => Reader(i)'
    BY <2>1, <2>2 DEF Reader
  <2> QED
    BY <1>0, <2>1, <2>3, WorkerIInv
<1>3. CASE WorkerAccepts(i)
  <2> DEFINE c == Head(backlog[i])
  <2>1. /\ worker[i] = "accept" /\ backlog' = [backlog EXCEPT ![i] = Tail(backlog[i])]
        /\ backlog[i] # <<>> /\ UNCHANGED <<mainVars, proc>>
    BY <1>3 DEF WorkerAccepts
  <2>2. Tail(backlog[i]) \in Seq(Conns) /\ c \in Conns
    BY <1>0, <2>1, QueueFacts
  <2>3. backlog' \in Seq(Seq(Conns)) /\ Len(backlog') = Len(brokers)
    BY <1>0, <2>1, <2>2, SetAt
  <2>4. CASE Authorized(i, c)
    <3>1. /\ held' = [held EXCEPT ![i] = c.pid] /\ worker' = [worker EXCEPT ![i] = "write"]
          /\ received' = [received EXCEPT ![i] = Append(received[i], c.pid)]
      BY <1>3, <2>4 DEF WorkerAccepts, Becomes
    <3>2. c.pid \in Holders /\ c.pid # Child
      BY <2>2, <2>4 DEF Authorized, IInv, Parents, Conns, Holders
    <3>3. /\ held' \in Seq(Holders) /\ Len(held') = Len(held)
          /\ \A j \in 1 .. Len(held) : held'[j] = IF j = i THEN c.pid ELSE held[j]
      BY <1>0, <3>1, <3>2, SetAt
    <3>4. Append(received[i], c.pid) \in Seq(Holders)
      BY <1>0, <3>2
    <3>5. /\ received' \in Seq(Seq(Holders)) /\ Len(received') = Len(received)
          /\ \A j \in 1 .. Len(received) :
               received'[j] = IF j = i THEN Append(received[i], c.pid) ELSE received[j]
      BY <1>0, <3>1, <3>4, SetAt
    <3>6. worker'[i] = "write"
      BY <1>0, <3>1, ExceptSeq DEF IInv, Kinds, States
    <3>7. ASSUME brokers[i].kind = "Delegated", received[i] = <<>> PROVE Reader(i)'
      <4>1. received'[i] = <<c.pid>>
        <5>1. received'[i] = Append(<<>>, c.pid)
          BY <1>0, <3>5, <3>7
        <5> QED
          BY <5>1
      <4>2. ~Unread(i)'
        BY <1>0, <3>6, <3>7 DEF Unread
      <4> QED
        BY <1>0, <3>2, <3>7, <4>1, <4>2 DEF Reader
    <3> QED
      BY <1>0, <2>1, <2>3, <3>1, <3>3, <3>5, <3>7, WorkerIInv
  <2>5. CASE ~Authorized(i, c)
    <3>1. UNCHANGED <<held, received>> /\ worker' = [worker EXCEPT ![i] = "check"]
      BY <1>3, <2>5 DEF WorkerAccepts, Becomes
    <3>2. worker'[i] = "check"
      BY <1>0, <3>1, WorkerMoves DEF States
    <3>3. received[i] = <<>> => Reader(i)'
      BY <3>1, <3>2 DEF Reader
    <3> QED
      BY <1>0, <2>1, <2>3, <3>1, <3>3, WorkerIInv
  <2> QED
    BY <2>4, <2>5
<1>4. ASSUME worker[i] = "write", WorkerWrote(i, "failed") PROVE IInv'
  BY <1>0, <1>4, WroteIInv
<1> QED
  BY <1>1, <1>2, <1>3, <1>4 DEF Worker

\* A process connects to an endpoint.
LEMMA ConnectIInv ==
  ASSUME IInv, NEW p \in Pids, NEW i \in DOMAIN brokers, NEW nonce \in {"right", "wrong"},
         Connect(p, i, nonce)
  PROVE  IInv'
<1>1. i \in 1 .. Len(brokers) /\ [pid |-> p, nonce |-> nonce] \in Conns
  BY DEF IInv, Kinds, Conns
<1>2. Append(backlog[i], [pid |-> p, nonce |-> nonce]) \in Seq(Conns)
  BY <1>1, QueueFacts
<1>3. /\ backlog' = [backlog EXCEPT ![i] = Append(backlog[i], [pid |-> p, nonce |-> nonce])]
      /\ UNCHANGED <<config, pc, brokers, turn, dirs, worker, held, received, proc>>
  BY DEF Connect, mainVars
<1> QED
  BY <1>1, <1>2, <1>3, BacklogIInv

\* Every step of the main thread, the workers and the processes keeps the
\* invariant.
LEMMA NextIInv == IInv /\ [Next]_vars => IInv'
<1> SUFFICES ASSUME IInv, [Next]_vars PROVE IInv'
  OBVIOUS
<1>1. CASE Main
  BY <1>1, QuietIInv, SpawnIInv, ResolveIInv, DirectIInv, DeliverIInv, StartIInv, BackgroundIInv,
     CloseIInv DEF Main
<1>2. ASSUME NEW i \in 1 .. MaxBrokers, Worker(i) PROVE IInv'
  BY <1>2, WorkersIInv
<1>3. CASE Environment
  <2>1. ASSUME NEW p \in Pids, NEW i \in DOMAIN brokers, NEW nonce \in {"right", "wrong"},
               Connect(p, i, nonce)
        PROVE  IInv'
    BY <2>1, ConnectIInv
  <2>2. ASSUME NEW p \in Pids \ {Child}, NEW program \in Programs, Fork(p, program) PROVE IInv'
    BY <2>2, ProcessIInv
  <2>3. ASSUME NEW program \in Programs, Replace(program) PROVE IInv'
    BY <2>3, ProcessIInv DEF Pids
  <2>4. ASSUME NEW p \in Pids, Exit(p) PROVE IInv'
    BY <2>4, ExitIInv
  <2>5. ASSUME NEW again \in BOOLEAN, ChildKilled(again) PROVE IInv'
    BY <2>5, SpawnIInv
  <2>6. CASE PeerReads
    <3>1. CASE WriteDone \/ WriteFails
      BY <3>1, QuietIInv, DirectIInv
    <3>2. ASSUME NEW i \in DOMAIN brokers, NEW result \in {"served", "failed"},
                 WorkerWrote(i, result)
          PROVE  IInv'
      <4>1. i \in 1 .. Len(brokers)
        BY DEF IInv, Kinds
      <4> QED
        BY <3>2, <4>1, WroteIInv
    <3> QED
      BY <2>6, <3>1, <3>2 DEF PeerReads
  <2> QED
    BY <1>3, <2>1, <2>2, <2>3, <2>4, <2>5, <2>6 DEF Environment
<1>4. CASE UNCHANGED vars
  BY <1>4 DEF vars, mainVars, workVars, IInv, Kinds, Joined, Readers, Reader, Unread, Parents
<1> QED
  BY <1>1, <1>2, <1>3, <1>4 DEF Next, Finished

\* Nothing is handed out, and nothing relaunched, after an endpoint failed.
LEMMA InitStray == Init => Stray
  BY DEF Init, Stray

LEMMA NextStray == IInv /\ Stray /\ [Next]_vars => Stray'
<1> SUFFICES ASSUME IInv, Stray, [Next]_vars PROVE Stray'
  OBVIOUS
<1> USE DEF Stray
<1>0. \A i \in 1 .. Len(brokers) :
        pc \in {"direct", "policy", "prepare"} => worker[i] = "none" /\ received[i] = <<>>
  BY KindOf DEF IInv, Joined, Readers, Reader, Unread
<1>1. CASE Begin \/ ResolveDirect \/ DirectResolved \/ ResolvePolicy \/ Resolved \/ Refuse
           \/ PrepareBroker \/ PrepareFails \/ Spawn \/ AllServed \/ Deliver \/ DirectRejects
           \/ DirectDisconnected \/ PollDirect \/ DirectTimesOut \/ WriteDone \/ WriteFails
           \/ start_delegated_secret_delivery \/ ChildReaped \/ wait_for_background_delivery
  <2>1. /\ pc \notin {"close", "done"} /\ stray' = stray /\ relaunch' = relaunch
    BY <1>1 DEF Begin, ResolveDirect, DirectResolved, ResolvePolicy, Resolved, Refuse,
         PrepareBroker, PrepareFails, Spawn, AllServed, Deliver, AtDirect, DirectRejects,
         DirectDisconnected, PollDirect, DirectTimesOut, GiveUp, WriteDone, WriteFails,
         start_delegated_secret_delivery, ChildReaped, wait_for_background_delivery
  <2> QED
    BY <2>1
<1>2. CASE EndpointFails
  BY <1>0, <1>2 DEF EndpointFails, workVars
<1>3. CASE close_parent_fds
  <2>1. /\ UNCHANGED <<pc, brokers, failed, relaunch, stray, received>>
        /\ pc = "close" /\ turn \in 1 .. Len(brokers) /\ Ended(turn)
        /\ worker' = [worker EXCEPT ![turn] = IF @ = "none" THEN @ ELSE "joined"]
    BY <1>3, KindOf DEF close_parent_fds, JoinAtTurn, IInv, Kinds
  <2>2. ASSUME NEW i \in 1 .. Len(brokers), worker[i] = "none" PROVE worker'[i] = "none"
    BY <2>1, <2>2, JoinFacts
  <2> QED
    BY <2>1, <2>2
<1>4. CASE Closed
  BY <1>4 DEF Closed, workVars
<1>5. ASSUME NEW i \in DOMAIN brokers,
             \/ WorkerChecks(i) \/ WorkerPolls(i) \/ WorkerAccepts(i)
             \/ \E result \in {"served", "failed"} : WorkerWrote(i, result)
      PROVE  Stray'
  <2>1. i \in 1 .. Len(brokers) /\ worker[i] # "none" /\ UNCHANGED mainVars
    BY <1>5 DEF IInv, Kinds, WorkerChecks, CheckParent, WorkerPolls, WorkerAccepts, WorkerWrote
  <2>2. ~stray
    BY <2>1
  <2> QED
    BY <2>1, <2>2 DEF mainVars
<1>6. ASSUME NEW again \in BOOLEAN, ChildKilled(again) PROVE Stray'
  BY <1>6 DEF ChildKilled
<1>7. ASSUME UNCHANGED <<mainVars, worker, received>> PROVE Stray'
  BY <1>7 DEF mainVars
<1>8. CASE Environment
  BY <1>1, <1>5, <1>6, <1>7, <1>8 DEF Environment, PeerReads, Connect, Fork, Exit, Replace, workVars
<1>9. CASE Main
  BY <1>1, <1>2, <1>3, <1>4, <1>9 DEF Main
<1>10. ASSUME NEW i \in 1 .. MaxBrokers, Worker(i) PROVE Stray'
  BY <1>5, <1>10 DEF Worker
<1>11. CASE UNCHANGED vars
  BY <1>7, <1>11 DEF vars, workVars
<1> QED
  BY <1>8, <1>9, <1>10, <1>11 DEF Next, Finished

LEMMA Invariance == Safety => [](IInv /\ Stray)
<1>1. Init => IInv /\ Stray
  BY InitIInv, InitStray
<1>2. IInv /\ Stray /\ [Next]_vars => (IInv /\ Stray)'
  BY NextIInv, NextStray
<1> QED
  BY <1>1, <1>2, PTL DEF Safety

-----------------------------------------------------------------------------
(* Theorems *)

\* A secret is handed out at most once in a launch: a direct one to the launched
\* child (deliver_secret_to_process), a delegated one to one of its helpers
\* (start_delegated_secret_delivery), whatever connects to the endpoints.
THEOREM SecretsHaveOneReader == Safety => []OneReader
<1>1. IInv => OneReader
  <2> SUFFICES ASSUME IInv, NEW i \in 1 .. Len(brokers)
               PROVE  /\ Len(received[i]) <= 1
                      /\ \A k \in DOMAIN received[i] :
                           (received[i][k] = Child) = (brokers[i].kind = "Direct")
    BY DEF OneReader, IInv, Kinds
  <2>1. Reader(i)
    BY DEF IInv, Readers
  <2>2. CASE received[i] = <<>>
    BY <2>2
  <2>3. ASSUME NEW p \in Holders, received[i] = <<p>>, p = Child <=> brokers[i].kind = "Direct"
        PROVE  /\ Len(received[i]) <= 1
               /\ \A k \in DOMAIN received[i] :
                    (received[i][k] = Child) = (brokers[i].kind = "Direct")
    BY <2>3
  <2> QED
    BY <2>1, <2>2, <2>3 DEF Reader
<1> QED
  BY <1>1, Invariance, PTL

\* When the command returns or launches anew, every worker has been joined and
\* every endpoint removed, whichever step failed (close_parent_fds and drop);
\* the directory of an endpoint that could not be set up stays behind only in a
\* command that fails without having handed out a secret of that launch.
THEOREM LaunchesLeaveNothing == Safety => []NothingIsLeft
<1>1. IInv /\ Stray => NothingIsLeft
  BY DEF IInv, Kinds, Joined, Stray, NothingIsLeft
<1> QED
  BY <1>1, Invariance, PTL

=============================================================================
