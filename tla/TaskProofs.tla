----------------------------- MODULE TaskProofs -----------------------------
(***************************************************************************)
(* The safety properties of TaskExecutor for every set of tasks and        *)
(* messages, every admission policy and every number of sessions, and that *)
(* of TaskDispatch for every set of listeners and requests.                *)
(***************************************************************************)
EXTENDS TaskExecutor, TaskDispatch, SequenceTheorems, FiniteSetTheorems, WellFoundedInduction, TLAPS

-----------------------------------------------------------------------------
(* The inductive invariant *)

Received == Messages \cup {NoMessage}
Makers == {[signer |-> m.signer, context |-> m.context] : m \in Received}
Keys == {conversation_key(m) : m \in Received}
Outs == [ok : BOOLEAN, stale : BOOLEAN, sid : Nat]

\* Between a lookup of the session and the answer the locals of run() are live.
InRun == {"run", "spawn", "spawned", "waiting", "parse", "clear"}

\* The session was started for the agent and the context of the message.
StartedFor(sid, m) ==
  sid \in 1 .. Len(maker) /\ maker[sid] = [signer |-> m.signer, context |-> m.context]

Kinds ==
  /\ TypeOK
  /\ msg \in [Tasks -> Received] /\ session \in [Tasks -> Nat] /\ out \in [Tasks -> Outs]
  /\ child \in [Tasks -> {"none", "runs", "gone"}]
  /\ agent \in {"up", "killing", "down"}
  /\ sessions \in Seq(Keys \X Nat) /\ maker \in Seq(Makers)

\* Every entry of the table names a session that was started for its key.
TableIsTrue ==
  /\ OneEntryEach
  /\ \A i \in 1 .. Len(sessions) :
       \E m \in Received : sessions[i][1] = conversation_key(m) /\ StartedFor(sessions[i][2], m)

\* What the tasks hold, at every step of theirs.
Held ==
  \A t \in Tasks :
    /\ child[t] = "runs" => pc[t] \in {"spawned", "waiting"}
    /\ pc[t] \in InRun \cup {"prompt"} => Gate(Me, msg[t], Admitted) = "Proven"
    /\ session[t] # NoSession => pc[t] \in InRun /\ StartedFor(session[t], msg[t])
    /\ out[t].sid # NoSession => pc[t] \in InRun /\ StartedFor(out[t].sid, msg[t])

\* The pids kill() copies are those of the tasks that wait for their child.
Targeted ==
  /\ active = {t \in Tasks : pc[t] = "waiting"}
  /\ agent # "up" => tracked \subseteq targets \cup signalled
  /\ agent = "down" => targets = {}

\* The inductive invariant.
IInv == Kinds /\ TableIsTrue /\ Held /\ Targeted

-----------------------------------------------------------------------------
(* Lemmas about the table of sessions *)

\* A nonempty set of naturals has a least element, and Min is it.
LEMMA MinFacts ==
  ASSUME NEW T, T \subseteq Nat, T # {}
  PROVE  Min(T) \in T
<1> DEFINE R == OpToRel(<, Nat)
<1>1. IsWellFoundedOn(R, Nat)
  BY NatLessThanWellFounded
<1>2. \E m \in T : \A k \in T : ~(<<k, m>> \in R)
  BY <1>1, WFMin
<1>3. \A k, m \in Nat : ~(<<k, m>> \in R) => m <= k
  BY DEF OpToRel
<1>4. \E m \in T : \A k \in T : m <= k
  BY <1>2, <1>3
<1> QED
  BY <1>4 DEF Min

\* find() and position() give an entry of the conversation when there is one.
LEMMA PositionFacts ==
  ASSUME sessions \in Seq(Keys \X Nat), NEW c
  PROVE  /\ Position(c) \in 0 .. Len(sessions)
         /\ Position(c) # 0 => sessions[Position(c)][1] = c
         /\ Position(c) = 0 => \A i \in 1 .. Len(sessions) : sessions[i][1] # c
<1> DEFINE T == {i \in 1 .. Len(sessions) : sessions[i][1] = c}
<1>1. Position(c) = IF T # {} THEN Min(T) ELSE 0
  BY DEF Position, SelectInSeq
<1>2. T \subseteq Nat /\ Len(sessions) \in Nat
  OBVIOUS
<1>3. T # {} => Min(T) \in T
  BY <1>2, MinFacts
<1>4. CASE T = {}
  BY <1>1, <1>2, <1>4
<1>5. CASE T # {}
  <2>1. PICK m : m = Position(c)
    OBVIOUS
  <2>2. m \in T
    BY <1>1, <1>3, <1>5, <2>1
  <2> QED
    BY <1>2, <2>1, <2>2
<1> QED
  BY <1>4, <1>5

\* Vec::remove: the entries behind move up.
LEMMA RemoveAtFacts ==
  ASSUME NEW S, NEW s \in Seq(S), NEW i \in 1 .. Len(s)
  PROVE  /\ RemoveAt(s, i) \in Seq(S) /\ Len(RemoveAt(s, i)) = Len(s) - 1
         /\ \A k \in 1 .. Len(s) - 1 : RemoveAt(s, i)[k] = IF k < i THEN s[k] ELSE s[k + 1]
<1> DEFINE a == SubSeq(s, 1, i - 1)
           b == SubSeq(s, i + 1, Len(s))
<1>1. a \in Seq(S) /\ Len(a) = i - 1 /\ \A k \in 1 .. i - 1 : a[k] = s[k]
  OBVIOUS
<1>2. b \in Seq(S) /\ Len(b) = Len(s) - i /\ \A k \in 1 .. Len(s) - i : b[k] = s[k + i]
  OBVIOUS
<1>3. RemoveAt(s, i) = a \o b
  BY DEF RemoveAt
<1> HIDE DEF a, b
<1>4. Len(s) \in Nat /\ a \o b \in Seq(S) /\ Len(a \o b) = Len(s) - 1
  <2>1. Len(s) \in Nat
    OBVIOUS
  <2>2. a \o b \in Seq(S) /\ Len(a \o b) = Len(a) + Len(b)
    BY <1>1, <1>2, ConcatProperties
  <2> QED
    BY <1>1, <1>2, <2>1, <2>2
<1>5. ASSUME NEW k \in 1 .. Len(s) - 1 PROVE (a \o b)[k] = IF k < i THEN s[k] ELSE s[k + 1]
  <2>1. (a \o b)[k] = IF k <= Len(a) THEN a[k] ELSE b[k - Len(a)]
    BY <1>1, <1>2, <1>4
  <2>2. CASE k < i
    BY <1>1, <1>4, <2>1, <2>2
  <2>3. CASE ~(k < i)
    <3>1. k - (i - 1) \in 1 .. Len(s) - i /\ (k - (i - 1)) + i = k + 1
      BY <1>4, <2>3
    <3> QED
      BY <1>1, <1>2, <1>4, <2>1, <2>3, <3>1
  <2> QED
    BY <2>2, <2>3
<1> QED
  BY <1>3, <1>4, <1>5

\* What is kept of the table when an entry is taken out: entries that were
\* there, each once.
Kept(s) ==
  /\ s \in Seq(Keys \X Nat) /\ Len(s) <= Len(sessions)
  /\ \A i \in 1 .. Len(s) : \E k \in 1 .. Len(sessions) : s[i] = sessions[k]
  /\ \A i, j \in 1 .. Len(s) : s[i][1] = s[j][1] => i = j

\* Without one entry the others are left, in their order and each once.
LEMMA EntryTakenOut ==
  ASSUME sessions \in Seq(Keys \X Nat), OneEntryEach, NEW p \in 1 .. Len(sessions),
         NEW w \in Seq(Keys \X Nat), Len(w) = Len(sessions) - 1,
         \A k \in 1 .. Len(sessions) - 1 : w[k] = IF k < p THEN sessions[k] ELSE sessions[k + 1]
  PROVE  Kept(w) /\ \A i \in 1 .. Len(w) : w[i][1] # sessions[p][1]
<1> DEFINE n == Len(sessions)
           Old(i) == IF i < p THEN i ELSE i + 1
<1>1. n \in Nat /\ DOMAIN sessions = 1 .. n
  OBVIOUS
<1>2. \A i, j \in 1 .. n : sessions[i][1] = sessions[j][1] => i = j
  BY <1>1 DEF OneEntryEach
<1> HIDE DEF n
<1>3. \A i \in 1 .. n - 1 : Old(i) \in 1 .. n /\ Old(i) # p /\ w[i] = sessions[Old(i)]
  <2>1. p \in 1 .. n /\ \A k \in 1 .. n - 1 : w[k] = IF k < p THEN sessions[k] ELSE sessions[k + 1]
    BY DEF n
  <2>2. ASSUME NEW i \in 1 .. n - 1
        PROVE  Old(i) \in 1 .. n /\ Old(i) # p /\ w[i] = sessions[Old(i)]
    <3>1. CASE i < p
      BY <1>1, <2>1, <3>1
    <3>2. CASE ~(i < p)
      BY <1>1, <2>1, <3>2
    <3> QED
      BY <3>1, <3>2
  <2> QED
    BY <2>2
<1>4. \A i, j \in 1 .. n - 1 : Old(i) = Old(j) => i = j
  BY <1>1
<1> HIDE DEF Old
<1>5. ASSUME NEW i \in 1 .. n - 1, NEW j \in 1 .. n - 1, w[i][1] = w[j][1] PROVE i = j
  <2>1. sessions[Old(i)][1] = sessions[Old(j)][1] /\ Old(i) \in 1 .. n /\ Old(j) \in 1 .. n
    BY <1>3, <1>5
  <2> QED
    BY <1>2, <1>4, <2>1
<1>6. \A i \in 1 .. n - 1 : w[i][1] # sessions[p][1]
  BY <1>2, <1>3 DEF n
<1>7. \A i \in 1 .. n - 1 : \E k \in 1 .. n : w[i] = sessions[k]
  BY <1>3
<1> QED
  BY <1>1, <1>5, <1>6, <1>7 DEF Kept, n

\* clear_session keeps the entries of the other conversations, and only those.
LEMMA WithoutFacts ==
  ASSUME sessions \in Seq(Keys \X Nat), OneEntryEach, NEW c
  PROVE  /\ Kept(Without(c))
         /\ \A i \in 1 .. Len(Without(c)) : Without(c)[i][1] # c
         /\ Position(c) # 0 => Len(Without(c)) = Len(sessions) - 1
<1> DEFINE p == Position(c)
<1>1. /\ p \in 0 .. Len(sessions)
      /\ p # 0 => sessions[p][1] = c
      /\ p = 0 => \A i \in 1 .. Len(sessions) : sessions[i][1] # c
  BY PositionFacts
<1> HIDE DEF p
<1>2. CASE p = 0
  <2>1. Without(c) = sessions
    BY <1>2 DEF Without, p
  <2>2. \A i \in 1 .. Len(sessions) : \E k \in 1 .. Len(sessions) : sessions[i] = sessions[k]
    OBVIOUS
  <2>3. \A i, j \in 1 .. Len(sessions) : sessions[i][1] = sessions[j][1] => i = j
    BY DEF OneEntryEach
  <2> QED
    BY <1>1, <1>2, <2>1, <2>2, <2>3 DEF Kept, p
<1>3. CASE p # 0
  <2>1. p \in 1 .. Len(sessions) /\ Without(c) = RemoveAt(sessions, p)
    BY <1>1, <1>3 DEF Without, p
  <2>2. /\ Without(c) \in Seq(Keys \X Nat) /\ Len(Without(c)) = Len(sessions) - 1
        /\ \A k \in 1 .. Len(sessions) - 1 :
             Without(c)[k] = IF k < p THEN sessions[k] ELSE sessions[k + 1]
    BY <2>1, RemoveAtFacts
  <2>3. Kept(Without(c)) /\ \A i \in 1 .. Len(Without(c)) : Without(c)[i][1] # sessions[p][1]
    BY <2>1, <2>2, EntryTakenOut
  <2> QED
    BY <1>1, <1>3, <2>2, <2>3
<1> QED
  BY <1>2, <1>3

\* Vec::remove(0) keeps the others.
LEMMA TailFacts ==
  ASSUME sessions \in Seq(Keys \X Nat), OneEntryEach, sessions # <<>>
  PROVE  Kept(Tail(sessions)) /\ Len(Tail(sessions)) = Len(sessions) - 1
<1>1. /\ Tail(sessions) \in Seq(Keys \X Nat) /\ Len(Tail(sessions)) = Len(sessions) - 1
      /\ 1 \in 1 .. Len(sessions)
      /\ \A k \in 1 .. Len(sessions) - 1 : Tail(sessions)[k] = sessions[k + 1]
  OBVIOUS
<1>2. \A k \in 1 .. Len(sessions) - 1 : Tail(sessions)[k] = IF k < 1 THEN sessions[k] ELSE sessions[k + 1]
  BY <1>1
<1> QED
  BY <1>1, <1>2, EntryTakenOut

\* A session that is found was started for the agent and the context asked for.
LEMMA LookupFacts ==
  ASSUME sessions \in Seq(Keys \X Nat), TableIsTrue, NEW m \in Received
  PROVE  LET sid == session_id(conversation_key(m))
         IN sid \in Nat /\ (sid # NoSession => StartedFor(sid, m))
<1> DEFINE c == conversation_key(m)
           p == Position(c)
<1>1. p \in 0 .. Len(sessions) /\ (p # 0 => sessions[p][1] = c)
  BY PositionFacts
<1>2. session_id(c) = IF p = 0 THEN NoSession ELSE sessions[p][2]
  BY DEF session_id
<1> HIDE DEF p
<1>3. CASE p = 0
  BY <1>2, <1>3 DEF NoSession
<1>4. CASE p # 0
  <2>1. p \in 1 .. Len(sessions) /\ sessions[p] \in Keys \X Nat
    BY <1>1, <1>4
  <2>2. PICK n \in Received : c = conversation_key(n) /\ StartedFor(sessions[p][2], n)
    BY <1>1, <1>4, <2>1 DEF TableIsTrue
  <2>3. m.signer = n.signer /\ m.context = n.context
    BY <2>2 DEF conversation_key
  <2> QED
    BY <1>2, <1>4, <2>1, <2>2, <2>3 DEF StartedFor
<1> QED
  BY <1>3, <1>4

\* The record of who a session was started for is never rewritten.
LEMMA MakerGrows ==
  ASSUME maker \in Seq(Makers),
         maker' = maker \/ \E x \in Makers : maker' = Append(maker, x)
  PROVE  \A sid, m : StartedFor(sid, m) => StartedFor(sid, m)'
<1> SUFFICES ASSUME NEW sid, NEW m, StartedFor(sid, m) PROVE StartedFor(sid, m)'
  OBVIOUS
<1>1. CASE maker' = maker
  BY <1>1 DEF StartedFor
<1>2. ASSUME NEW x \in Makers, maker' = Append(maker, x) PROVE StartedFor(sid, m)'
  <2>1. Len(maker') = Len(maker) + 1 /\ Len(maker) \in Nat
    BY <1>2
  <2>2. \A i \in 1 .. Len(maker) : maker'[i] = maker[i]
    BY <1>2
  <2> QED
    BY <2>1, <2>2 DEF StartedFor
<1> QED
  BY <1>1, <1>2

\* Entries that were in the table are as true in what is kept of it.
LEMMA KeptIsTrue ==
  ASSUME TableIsTrue, NEW s, Kept(s)
  PROVE  \A i \in 1 .. Len(s) :
           \E m \in Received : s[i][1] = conversation_key(m) /\ StartedFor(s[i][2], m)
<1> TAKE i \in 1 .. Len(s)
<1>1. PICK k \in 1 .. Len(sessions) : s[i] = sessions[k]
  BY DEF Kept
<1> QED
  BY <1>1 DEF TableIsTrue

\* store_session keeps the table within its bound, one entry to a conversation,
\* and true when the session it stores was started for that conversation.
LEMMA StoreFacts ==
  ASSUME sessions \in Seq(Keys \X Nat), Len(sessions) <= MaxTracked, TableIsTrue, maker' = maker,
         NEW m \in Received, NEW sid \in Nat, StartedFor(sid, m),
         store_session(conversation_key(m), sid)
  PROVE  sessions' \in Seq(Keys \X Nat) /\ Len(sessions') <= MaxTracked /\ TableIsTrue'
<1> DEFINE c == conversation_key(m)
           k == IF Position(c) = 0 /\ Len(sessions) >= MaxTracked
                THEN Tail(sessions) ELSE Without(c)
<1>1. sessions' = Append(k, <<c, sid>>)
  BY DEF store_session
<1>2. OneEntryEach /\ Len(sessions) \in Nat /\ MaxTracked \in Nat \ {0}
  BY TrackedIsPositive DEF TableIsTrue
<1>3. /\ Position(c) \in 0 .. Len(sessions)
      /\ Position(c) = 0 => \A i \in 1 .. Len(sessions) : sessions[i][1] # c
  BY PositionFacts
<1>4. Kept(k) /\ Len(k) + 1 <= MaxTracked /\ \A i \in 1 .. Len(k) : k[i][1] # c
  <2>1. CASE Position(c) = 0 /\ Len(sessions) >= MaxTracked
    <3>1. sessions # <<>>
      BY <1>2, <2>1
    <3>2. Kept(Tail(sessions)) /\ Len(Tail(sessions)) = Len(sessions) - 1
      BY <1>2, <3>1, TailFacts
    <3>3. \A i \in 1 .. Len(Tail(sessions)) : Tail(sessions)[i][1] # c
      BY <1>3, <2>1, <3>2 DEF Kept
    <3> QED
      BY <1>2, <2>1, <3>2, <3>3
  <2>2. CASE ~(Position(c) = 0 /\ Len(sessions) >= MaxTracked)
    <3>1. /\ Kept(Without(c)) /\ \A i \in 1 .. Len(Without(c)) : Without(c)[i][1] # c
          /\ Position(c) # 0 => Len(Without(c)) = Len(sessions) - 1
      BY <1>2, WithoutFacts
    <3>2. Len(Without(c)) \in Nat /\ Len(Without(c)) <= Len(sessions)
      BY <3>1 DEF Kept
    <3> QED
      BY <1>2, <1>3, <2>2, <3>1, <3>2
  <2> QED
    BY <2>1, <2>2
<1>5. \A i \in 1 .. Len(k) :
        \E n \in Received : k[i][1] = conversation_key(n) /\ StartedFor(k[i][2], n)
  BY <1>4, KeptIsTrue
<1>6. c \in Keys /\ <<c, sid>> \in Keys \X Nat /\ <<c, sid>>[1] = c /\ <<c, sid>>[2] = sid
  BY DEF Keys
<1> HIDE DEF k, c
<1>7. /\ sessions' \in Seq(Keys \X Nat) /\ Len(sessions') = Len(k) + 1 /\ Len(k) \in Nat
      /\ \A i \in 1 .. Len(k) : sessions'[i] = k[i]
      /\ sessions'[Len(k) + 1] = <<c, sid>>
  BY <1>1, <1>4, <1>6 DEF Kept
<1>8. OneEntryEach'
  <2>1. DOMAIN sessions' = 1 .. Len(k) + 1
    BY <1>7
  <2>2. \A i, j \in 1 .. Len(k) : sessions'[i][1] = sessions'[j][1] => i = j
    BY <1>4, <1>7 DEF Kept
  <2>3. \A i \in 1 .. Len(k) : sessions'[i][1] # sessions'[Len(k) + 1][1]
    BY <1>4, <1>6, <1>7
  <2>4. \A i \in 1 .. Len(k) + 1 : i \in 1 .. Len(k) \/ i = Len(k) + 1
    BY <1>7
  <2> QED
    BY <2>1, <2>2, <2>3, <2>4 DEF OneEntryEach
<1>9. ASSUME NEW i \in 1 .. Len(sessions')
      PROVE  \E n \in Received : sessions'[i][1] = conversation_key(n) /\ StartedFor(sessions'[i][2], n)
  <2>1. CASE i \in 1 .. Len(k)
    BY <1>5, <1>7, <2>1
  <2>2. CASE i = Len(k) + 1
    BY <1>6, <1>7, <2>2 DEF c
  <2> QED
    BY <1>7, <2>1, <2>2
<1>10. \A x, n : StartedFor(x, n)' <=> StartedFor(x, n)
  BY DEF StartedFor
<1> QED
  BY <1>4, <1>7, <1>8, <1>9, <1>10 DEF TableIsTrue

-----------------------------------------------------------------------------
(* The steps *)

\* A step that leaves the table alone leaves it true.
LEMMA TableUnchanged ==
  ASSUME sessions' = sessions, maker' = maker
  PROVE  /\ TableIsTrue => TableIsTrue'
         /\ \A sid, m : StartedFor(sid, m) => StartedFor(sid, m)'
  BY DEF TableIsTrue, OneEntryEach, StartedFor

\* The listener starts with no task, no session and no child.
LEMMA InitIInv == Init => IInv
<1> SUFFICES ASSUME Init PROVE IInv
  OBVIOUS
<1>1. Kinds
  BY TrackedIsPositive DEF Init, Kinds, TypeOK, Received, Outs, Nothing, NoSession, Texts
<1>2. TableIsTrue
  BY DEF Init, TableIsTrue, OneEntryEach
<1>3. Held /\ Targeted
  BY DEF Init, Held, Targeted, InRun, Nothing
<1> QED
  BY <1>1, <1>2, <1>3 DEF IInv

\* The steps of a task that touch neither the table nor what run() holds.
LEMMA QuietIInv ==
  ASSUME IInv, NEW t \in Tasks,
         \/ StoreHandoff(t) \/ LookUp(t) \/ Spawn(t) \/ Track(t) \/ Untrack(t)
         \/ WithholdReply(t) \/ LetReplyGo(t) \/ Forward(t) \/ Complete(t)
  PROVE  IInv'
<1> USE DEF IInv, Kinds, TypeOK, Held, Targeted, InRun, At, Go, runVars, killVars, Texts
<1>1. CASE StoreHandoff(t)
  BY <1>1, TableUnchanged DEF StoreHandoff
<1>2. CASE LookUp(t)
  BY <1>2, TableUnchanged DEF LookUp
<1>3. CASE Spawn(t)
  BY <1>3, TableUnchanged DEF Spawn
<1>4. CASE Track(t)
  BY <1>4, TableUnchanged DEF Track
<1>5. CASE Untrack(t)
  BY <1>5, TableUnchanged DEF Untrack, Forget
<1>6. CASE WithholdReply(t)
  BY <1>6, TableUnchanged DEF WithholdReply
<1>7. CASE LetReplyGo(t)
  BY <1>7, TableUnchanged DEF LetReplyGo
<1>8. CASE Forward(t)
  BY <1>8, TableUnchanged DEF Forward
<1>9. CASE Complete(t)
  BY <1>9, TableUnchanged DEF Complete
<1> QED
  BY <1>1, <1>2, <1>3, <1>4, <1>5, <1>6, <1>7, <1>8, <1>9

\* The steps of run(): the session it continues is looked up again, what the
\* child left is stored, dropped or asked for once more.
LEMMA RunIInv ==
  ASSUME IInv, NEW t \in Tasks,
         \/ Resume(t) \/ RunRefused(t) \/ Failed(t) \/ ClearAndRetry(t)
         \/ \E text \in {"plain", "next", "error"} : Succeeded(t, text)
  PROVE  IInv'
<1> USE DEF IInv, Kinds, TypeOK, Held, Targeted, InRun, At, Go, runVars, killVars, Texts
<1>0. Conversation(t) = conversation_key(msg[t]) /\ msg[t] \in Received
  BY DEF Conversation
<1>1. CASE Resume(t)
  <2>1. session_id(Conversation(t)) \in Nat
        /\ (session_id(Conversation(t)) # NoSession => StartedFor(session_id(Conversation(t)), msg[t]))
    BY <1>0, LookupFacts
  <2>2. PICK sid : sid = IF use[t] THEN session_id(Conversation(t)) ELSE NoSession
    OBVIOUS
  <2>3. sid \in Nat /\ (sid # NoSession => StartedFor(sid, msg[t]))
    BY <2>1, <2>2 DEF NoSession
  <2>4. /\ session' = [session EXCEPT ![t] = sid] /\ pc' = [pc EXCEPT ![t] = "spawn"] /\ pc[t] = "run"
        /\ UNCHANGED <<msg, had, use, out, reply, sessions, maker, child, active, killVars>>
    BY <1>1, <2>2 DEF Resume
  <2> QED
    BY <2>3, <2>4, TableUnchanged
<1>2. Nothing \in Outs /\ Nothing.sid = NoSession /\ NoSession \in Nat
  BY DEF Nothing, Outs, NoSession
<1>3. CASE RunRefused(t)
  BY <1>2, <1>3, TableUnchanged DEF RunRefused, Answer, Forgotten
<1>4. CASE Failed(t)
  <2>1. CASE ToRetry(t)
    <3>1. /\ pc[t] = "parse" /\ pc' = [pc EXCEPT ![t] = "clear"]
          /\ UNCHANGED <<msg, reply, runVars, sessions, maker, child, active, killVars>>
      BY <1>4, <2>1 DEF Failed
    <3> QED
      BY <3>1, TableUnchanged
  <2>2. CASE ~ToRetry(t)
    <3>1. Answer(t, "error") /\ pc[t] = "parse"
      BY <1>4, <2>2 DEF Failed
    <3>2. UNCHANGED <<msg, sessions, maker, child, active, killVars>>
      BY <1>4 DEF Failed
    <3> QED
      BY <1>2, <3>1, <3>2, TableUnchanged DEF Answer, Forgotten
  <2> QED
    BY <2>1, <2>2
<1>5. ASSUME NEW text \in {"plain", "next", "error"}, Succeeded(t, text) PROVE IInv'
  <2>1. sessions' \in Seq(Keys \X Nat) /\ Len(sessions') <= MaxTracked /\ TableIsTrue'
    <3>1. CASE out[t].sid = NoSession
      BY <1>5, <3>1, TableUnchanged DEF Succeeded
    <3>2. CASE out[t].sid # NoSession
      <4>1. out[t].sid \in Nat /\ StartedFor(out[t].sid, msg[t])
        BY <3>2 DEF Outs
      <4>2. store_session(conversation_key(msg[t]), out[t].sid) /\ maker' = maker
        BY <1>0, <1>5, <3>2 DEF Succeeded
      <4> QED
        BY <1>0, <4>1, <4>2, StoreFacts
    <3> QED
      BY <3>1, <3>2
  <2>2. \A sid, m : StartedFor(sid, m) => StartedFor(sid, m)'
    BY <1>5 DEF Succeeded, StartedFor
  <2> QED
    BY <1>2, <1>5, <2>1, <2>2 DEF Succeeded, Answer, Forgotten
<1>6. CASE ClearAndRetry(t)
  <2>1. sessions' = Without(Conversation(t)) /\ maker' = maker
    BY <1>6 DEF ClearAndRetry, clear_session
  <2>2. Kept(sessions')
    BY <2>1, WithoutFacts DEF TableIsTrue
  <2>3. \A sid, m : StartedFor(sid, m) <=> StartedFor(sid, m)'
    BY <2>1 DEF StartedFor
  <2>4. TableIsTrue'
    <3>1. OneEntryEach'
      <4>1. DOMAIN sessions' = 1 .. Len(sessions')
        BY <2>2 DEF Kept
      <4>2. \A i, j \in 1 .. Len(sessions') : sessions'[i][1] = sessions'[j][1] => i = j
        BY <2>2 DEF Kept
      <4> QED
        BY <4>1, <4>2 DEF OneEntryEach
    <3> QED
      BY <2>2, <2>3, <3>1, KeptIsTrue DEF TableIsTrue
  <2>5. sessions' \in Seq(Keys \X Nat) /\ Len(sessions') <= MaxTracked
    BY <2>2, TrackedIsPositive DEF Kept
  <2> QED
    BY <1>6, <2>1, <2>3, <2>4, <2>5 DEF ClearAndRetry
<1> QED
  BY <1>1, <1>3, <1>4, <1>5, <1>6

\* A harness that ends continued the session it was given, or started one for
\* the message it was run on.
LEMMA HarnessIInv ==
  ASSUME IInv, NEW t \in Tasks, NEW o \in Outcomes(t), ChildExits(t, o) PROVE IInv'
<1> USE DEF IInv, Kinds, TypeOK, Held, Targeted, InRun, killVars
<1> DEFINE mine == [signer |-> msg[t].signer, context |-> msg[t].context]
<1>1. /\ child[t] = "runs" /\ pc[t] \in {"spawned", "waiting"} /\ mine \in Makers
      /\ Len(maker) \in Nat
  BY DEF ChildExits, Makers
<1>2. o \in Outs /\ o.sid \in Nat
      /\ (o.sid = NoSession \/ o.sid = session[t] \/ o.sid = Len(maker) + 1)
  BY <1>1 DEF Outcomes, Outs, NoSession
<1>3. maker' = IF o.sid > Len(maker) THEN Append(maker, mine) ELSE maker
  BY DEF ChildExits
<1>4. maker' \in Seq(Makers) /\ \A sid, m : StartedFor(sid, m) => StartedFor(sid, m)'
  BY <1>1, <1>3, MakerGrows
<1>5. o.sid # NoSession => StartedFor(o.sid, msg[t])'
  <2>1. CASE o.sid = session[t]
    BY <1>4, <2>1 DEF ChildExits
  <2>2. CASE o.sid = Len(maker) + 1
    <3>1. maker' = Append(maker, mine)
      BY <1>1, <1>3, <2>2
    <3>2. Len(maker') = Len(maker) + 1 /\ maker'[Len(maker) + 1] = mine
      BY <1>1, <3>1
    <3> QED
      BY <1>1, <2>2, <3>2 DEF ChildExits, StartedFor
  <2> QED
    BY <1>2, <2>1, <2>2
<1>6. TableIsTrue'
  BY <1>4 DEF ChildExits, TableIsTrue, OneEntryEach
<1>7. Held'
  BY <1>1, <1>2, <1>4, <1>5 DEF ChildExits
<1> QED
  BY <1>1, <1>2, <1>4, <1>6, <1>7 DEF ChildExits

\* A message that passes the gate starts a task anew.
LEMMA ReceiveIInv ==
  ASSUME IInv, NEW t \in Tasks, NEW m \in Messages, Receive(t, m) PROVE IInv'
<1> USE DEF IInv, Kinds, TypeOK, Held, Targeted, InRun, Go, runVars, killVars
<1>1. Gate(Me, m, Admitted) \in {"Proven", "Rejected", "AuthRequired"}
  BY DEF Gate, admit_message, admit_binding
<1>2. CASE Gate(Me, m, Admitted) = "Proven"
  <2>1. /\ msg' = [msg EXCEPT ![t] = m] /\ m \in Received
        /\ pc' = [pc EXCEPT ![t] = IF m.packet THEN "packet" ELSE "prompt"]
        /\ pc[t] \in {"new", "AuthRequired"} /\ agent = "up"
        /\ UNCHANGED <<runVars, reply, sessions, maker, child, active, killVars>>
    BY <1>2 DEF Receive, Received
  <2> QED
    BY <1>2, <2>1, TableUnchanged
<1>3. CASE Gate(Me, m, Admitted) # "Proven"
  <2>1. /\ pc' = [pc EXCEPT ![t] = Gate(Me, m, Admitted)]
        /\ pc[t] \in {"new", "AuthRequired"} /\ agent = "up"
        /\ UNCHANGED <<msg, runVars, reply, sessions, maker, child, active, killVars>>
    BY <1>3 DEF Receive
  <2> QED
    BY <1>1, <1>3, <2>1, TableUnchanged
<1> QED
  BY <1>2, <1>3

\* kill() and the end of the process.
LEMMA KillIInv ==
  ASSUME IInv, KillBegins \/ ProcessExits \/ \E t \in Tasks : Terminate(t) PROVE IInv'
<1> USE DEF IInv, Kinds, TypeOK, Held, Targeted, taskVars, runVars
<1>1. CASE KillBegins
  BY <1>1, TableUnchanged DEF KillBegins
<1>2. CASE ProcessExits
  BY <1>2, TableUnchanged DEF ProcessExits
<1>3. ASSUME NEW t \in Tasks, Terminate(t) PROVE IInv'
  BY <1>3, TableUnchanged DEF Terminate
<1> QED
  BY <1>1, <1>2, <1>3

\* Every step of every task, of a harness and of kill() keeps the invariant.
LEMMA NextIInv == IInv /\ [Next]_vars => IInv'
<1> SUFFICES ASSUME IInv, [Next]_vars PROVE IInv'
  OBVIOUS
<1>1. ASSUME NEW t \in Tasks, Step(t) PROVE IInv'
  BY <1>1, QuietIInv, RunIInv DEF Step
<1>2. ASSUME NEW t \in Tasks, Harness(t) PROVE IInv'
  BY <1>2, HarnessIInv DEF Harness
<1>3. ASSUME NEW t \in Tasks, NEW m \in Messages, Receive(t, m) PROVE IInv'
  BY <1>3, ReceiveIInv
<1>4. CASE KillBegins \/ ProcessExits \/ \E t \in Tasks : Terminate(t)
  BY <1>4, KillIInv
<1>5. CASE UNCHANGED vars
  BY <1>5, TableUnchanged DEF vars, taskVars, runVars, killVars, IInv, Kinds, TypeOK, Held, Targeted
<1> QED
  BY <1>1, <1>2, <1>3, <1>4, <1>5 DEF Next

LEMMA Invariance == Safety => []IInv
  BY InitIInv, NextIInv, PTL DEF Safety

-----------------------------------------------------------------------------
(* Theorems *)

\* The tasks stay in their states, and the table of sessions never holds more
\* than MAX_TRACKED_CONVERSATIONS entries.
THEOREM TypeCorrect == Safety => []TypeOK
<1>1. IInv => TypeOK
  BY DEF IInv, Kinds
<1> QED
  BY <1>1, Invariance, PTL

\* A conversation never gets two entries, so store_session, session_id and
\* clear_session mean the same one.
THEOREM TableHasOneEntryEach == Safety => []OneEntryEach
<1>1. IInv => OneEntryEach
  BY DEF IInv, TableIsTrue
<1> QED
  BY <1>1, Invariance, PTL

\* However the tasks interleave between two locks, a harness only ever runs on
\* a message that passed the gate, and continues only a session that was
\* started for the agent and the context of that message.
THEOREM SessionsStayPrivate == Safety => []SessionsArePrivate
<1>1. IInv => SessionsArePrivate
  BY DEF IInv, Held, InRun, StartedFor, SessionsArePrivate
<1> QED
  BY <1>1, Invariance, PTL

\* kill_in_flight() signals every child that was recorded when it looked.
THEOREM KillIsComplete == Safety => []KillReachesTracked
<1>1. IInv => KillReachesTracked
  BY DEF IInv, Targeted, KillReachesTracked
<1> QED
  BY <1>1, Invariance, PTL

-----------------------------------------------------------------------------
(* A task on its way to a named agent *)

\* What a peer the client settled on has to do with the request, whatever
\* happens to the listeners afterwards.
Named(q) ==
  /\ q.did = NoDid => q.url = NoUrl /\ q.name = request.to
  /\ q.did # NoDid /\ IsDid(request.to) => q.did = request.to
  /\ q.did # NoDid /\ ~IsDid(request.to) =>
       \E p \in Procs : Name[p] = request.to /\ Did[p] = q.did

\* The inductive invariant of the client.
DispatchInv ==
  /\ files \subseteq Procs
  /\ stage \in {"named", "send", "escalate"} => Named(peer)
  /\ stage = "named" => \E p \in Procs : peer = Candidate(p)
  /\ \A a \in accepted : a.proc \in Procs
  /\ DeliveredToTheNamed

\* resolve_live answers with a record that matches the query.
LEMMA TheOneMatches ==
  ASSUME NEW M, M \subseteq {p \in Procs : Matches(p, request.to)}, Unique(M) = "one"
  PROVE  Named(TheOne(M))
<1>1. M # {}
  BY FS_EmptySet DEF Unique
<1>2. PICK p \in M : p = CHOOSE x \in M : TRUE
  BY <1>1
<1>3. TheOne(M) = [name |-> Name[p], did |-> Did[p], url |-> Url[p]]
  BY <1>2 DEF TheOne, Candidate
<1>4. p \in Procs /\ (request.to = Did[p] \/ request.to = Name[p]) /\ Did[p] # NoDid
  BY NamesAssumption DEF Matches
<1>5. CASE IsDid(request.to)
  BY <1>3, <1>4, <1>5, NamesAssumption DEF IsDid, Named
<1>6. CASE ~IsDid(request.to)
  BY <1>3, <1>4, <1>6 DEF IsDid, Named
<1> QED
  BY <1>5, <1>6

\* The caller's locator changes nothing about who is meant.
LEMMA SettleIsNamed ==
  ASSUME NEW q, q.did # NoDid, Named(q), NEW w, Settle(q, w), UNCHANGED request,
         q = [name |-> q.name, did |-> q.did, url |-> q.url]
  PROVE  Named(peer)'
<1>1. peer'.did = q.did
  BY DEF Settle, apply_locator_override
<1> QED
  BY <1>1 DEF Named, IsDid

\* It is a candidate, and candidates have DIDs.
LEMMA CandidateFields ==
  ASSUME NEW M, M \subseteq Procs, Unique(M) = "one"
  PROVE  LET q == TheOne(M) IN
         /\ q.did # NoDid /\ q = [name |-> q.name, did |-> q.did, url |-> q.url]
         /\ \E p \in Procs : q = Candidate(p)
<1>1. M # {}
  BY FS_EmptySet DEF Unique
<1>2. PICK p \in M : p = CHOOSE x \in M : TRUE
  BY <1>1
<1>3. TheOne(M) = [name |-> Name[p], did |-> Did[p], url |-> Url[p]]
  BY <1>2 DEF TheOne, Candidate
<1>4. TheOne(M) = Candidate(p) /\ p \in Procs
  BY <1>2 DEF TheOne
<1> QED
  BY <1>3, <1>4, NamesAssumption

\* A DID that nothing resolves is still a name of its own.
LEMMA UnresolvedIsNamed ==
  ASSUME Unresolved, UNCHANGED request
  PROVE  stage' = "failed" \/ (stage' = "send" /\ Named(peer)')
<1>1. CASE IsDid(request.to) /\ request.url # NoUrl
  <2> DEFINE q == [name |-> request.to, did |-> request.to, url |-> NoUrl]
  <2>1. Settle(q, "Local")
    BY <1>1 DEF Unresolved
  <2>2. q.did # NoDid /\ Named(q) /\ q = [name |-> q.name, did |-> q.did, url |-> q.url]
    BY <1>1, NamesAssumption DEF Named, IsDid
  <2> HIDE DEF q
  <2> QED
    BY <2>1, <2>2, SettleIsNamed DEF Settle
<1>2. CASE ~(IsDid(request.to) /\ request.url # NoUrl)
  BY <1>2 DEF Unresolved, Fail
<1> QED
  BY <1>1, <1>2

\* A step that runs no task leaves the ones that ran in order.
LEMMA NothingRuns ==
  ASSUME DispatchInv, UNCHANGED <<request, accepted>>, files' \subseteq Procs,
         stage' \in {"named", "send", "escalate"} => Named(peer)',
         stage' = "named" => \E p \in Procs : peer' = Candidate(p)
  PROVE  DispatchInv'
BY DEF DispatchInv, DeliveredToTheNamed, IsDid

\* The leases that are listed are of processes and match.
LEMMA LiveMatches ==
  ASSUME DispatchInv
  PROVE  /\ find_live(request.to) \subseteq {p \in Procs : Matches(p, request.to)}
         /\ Swept \subseteq Procs
BY DEF DispatchInv, find_live, list_live, Swept

\* The first look at the leases.
LEMMA LookInv == ASSUME DispatchInv, LookAtLeases PROVE DispatchInv'
<1>1. /\ UNCHANGED <<request, accepted>> /\ files' = Swept
      /\ \/ Unresolved
         \/ stage' \in {"fallback", "runtime"}
  BY DEF LookAtLeases, askVars
<1> QED
  BY <1>1, UnresolvedIsNamed, NothingRuns, LiveMatches

\* What dir-runtime reports, or does not.
LEMMA RuntimeInv == ASSUME DispatchInv, AskRuntime \/ RuntimeSilent PROVE DispatchInv'
<1> DEFINE M == Picked(Running(request.to))
<1>0. UNCHANGED <<request, accepted, files>> /\ files \subseteq Procs
  BY DEF AskRuntime, RuntimeSilent, askVars, hostVars, DispatchInv
<1>1. M \subseteq {p \in Procs : Matches(p, request.to)}
  BY <1>0 DEF Picked, Running
<1>2. \/ Unresolved
      \/ stage' = "fallback"
      \/ Unique(M) = "one" /\ Settle(TheOne(M), "Runtime")
      \/ Unique(M) = "one" /\ peer' = TheOne(M) /\ stage' = "named"
  <2>1. CASE RuntimeSilent
    BY <2>1 DEF RuntimeSilent
  <2>2. CASE AskRuntime
    <3>1. Unique(M) \in {"none", "one", "ambiguous"}
      BY DEF Unique
    <3> HIDE DEF M
    <3> QED
      BY <2>2, <3>1 DEF AskRuntime, M
  <2> QED
    BY <2>1, <2>2
<1> HIDE DEF M
<1>3. CASE Unresolved
  BY <1>0, <1>3, UnresolvedIsNamed, NothingRuns
<1>4. CASE stage' = "fallback"
  BY <1>0, <1>4, NothingRuns
<1>5. CASE Unique(M) = "one" /\ Settle(TheOne(M), "Runtime")
  BY <1>0, <1>1, <1>5, TheOneMatches, CandidateFields, SettleIsNamed, NothingRuns DEF Settle
<1>6. CASE Unique(M) = "one" /\ peer' = TheOne(M) /\ stage' = "named"
  <2>1. Named(TheOne(M))
    BY <1>1, <1>6, TheOneMatches
  <2>2. Named(peer)'
    BY <1>0, <1>6, <2>1 DEF Named, IsDid
  <2> QED
    BY <1>0, <1>1, <1>6, <2>2, CandidateFields, NothingRuns
<1> QED
  BY <1>2, <1>3, <1>4, <1>5, <1>6

\* The second look at the leases, when some listener may have gone or come.
LEMMA LeasesInv == ASSUME DispatchInv, InLeases PROVE DispatchInv'
<1> DEFINE M == find_live(request.to)
<1>0. UNCHANGED <<request, accepted>> /\ files' = Swept /\ Swept \subseteq Procs
      /\ M \subseteq {p \in Procs : Matches(p, request.to)}
  BY LiveMatches DEF InLeases, askVars
<1>1. \/ Unresolved
      \/ stage' = "directory"
      \/ Unique(M) = "one" /\ Settle(TheOne(M), Label)
      \/ stage = "named" /\ Settle(peer, "Runtime")
  BY DEF InLeases, Stage
<1> HIDE DEF M
<1>2. CASE Unresolved
  BY <1>0, <1>2, UnresolvedIsNamed, NothingRuns
<1>3. CASE stage' = "directory"
  BY <1>0, <1>3, NothingRuns
<1>4. CASE Unique(M) = "one" /\ Settle(TheOne(M), Label)
  BY <1>0, <1>4, TheOneMatches, CandidateFields, SettleIsNamed, NothingRuns DEF Settle
<1>5. CASE stage = "named" /\ Settle(peer, "Runtime")
  <2>1. PICK p \in Procs : peer = Candidate(p)
    BY <1>5 DEF DispatchInv
  <2>2. peer.did # NoDid /\ peer = [name |-> peer.name, did |-> peer.did, url |-> peer.url]
    BY <2>1, NamesAssumption DEF Candidate
  <2>3. Named(peer)
    BY <1>5 DEF DispatchInv
  <2>4. PICK q : q = peer
    OBVIOUS
  <2>5. Named(peer)'
    BY <1>0, <1>5, <2>2, <2>3, <2>4, SettleIsNamed
  <2> QED
    BY <1>0, <1>5, <2>5, NothingRuns DEF Settle
<1> QED
  BY <1>1, <1>2, <1>3, <1>4, <1>5

\* The records of the Agent Directory.
LEMMA DirectoryInv ==
  ASSUME DispatchInv, InDirectory \/ NotInDirectory \/ DirectoryFails PROVE DispatchInv'
<1>0. UNCHANGED <<request, accepted, files>> /\ files \subseteq Procs
  BY DEF InDirectory, NotInDirectory, DirectoryFails, askVars, hostVars, DispatchInv
<1>1. CASE InDirectory
  <2>1. PICK p \in Published : Did[p] = request.to /\ Settle(Candidate(p), Label)
    BY <1>1 DEF InDirectory, Records
  <2>2. p \in Procs
    BY PublishedAssumption
  <2> DEFINE q == Candidate(p)
  <2>3. q.did = request.to /\ q.did # NoDid /\ q = [name |-> q.name, did |-> q.did, url |-> q.url]
    BY <2>1, <2>2, NamesAssumption DEF Candidate
  <2>4. Named(q)
    BY <2>1, <2>2, <2>3 DEF Named, IsDid
  <2> HIDE DEF q
  <2> QED
    BY <1>0, <2>1, <2>3, <2>4, SettleIsNamed, NothingRuns DEF Settle, q
<1>2. CASE NotInDirectory \/ DirectoryFails
  <2>1. Unresolved \/ stage' = "runtime"
    BY <1>2 DEF NotInDirectory, DirectoryFails
  <2> QED
    BY <1>0, <2>1, UnresolvedIsNamed, NothingRuns
<1> QED
  BY <1>1, <1>2

\* The NEXT of a reply: a lease, or the name alone over SLIM.
LEMMA NextInv == ASSUME DispatchInv, ResolveNext PROVE DispatchInv'
<1> DEFINE M == find_live(request.to)
<1>0. UNCHANGED <<request, accepted>> /\ files' = Swept /\ Swept \subseteq Procs
      /\ M \subseteq {p \in Procs : Matches(p, request.to)}
  BY LiveMatches DEF ResolveNext, askVars
<1>1. \/ Unique(M) = "one" /\ peer' = TheOne(M) /\ stage' = "send"
      \/ peer' = [NoPeer EXCEPT !.name = request.to] /\ stage' = "send"
      \/ stage' = "failed"
  BY DEF ResolveNext, Fail
<1> HIDE DEF M
<1>2. CASE Unique(M) = "one" /\ peer' = TheOne(M) /\ stage' = "send"
  <2>1. Named(TheOne(M))
    BY <1>0, <1>2, TheOneMatches
  <2>2. Named(peer)'
    BY <1>0, <1>2, <2>1 DEF Named, IsDid
  <2> QED
    BY <1>0, <1>2, <2>2, NothingRuns
<1>3. CASE peer' = [NoPeer EXCEPT !.name = request.to] /\ stage' = "send"
  <2>1. Named(peer)'
    BY <1>0, <1>3 DEF Named, NoPeer
  <2> QED
    BY <1>0, <1>3, <2>1, NothingRuns
<1>4. CASE stage' = "failed"
  BY <1>0, <1>4, NothingRuns
<1> QED
  BY <1>1, <1>2, <1>3, <1>4

\* The gate of the receiver decides who runs the task.
LEMMA RunsAtTheNamed ==
  ASSUME DispatchInv, NEW p \in Procs, stage = "send", p \in Receivers, Accepts(p),
         UNCHANGED <<request, peer, files>>, stage' # "named"
  PROVE  DispatchInv'
<1> DEFINE r == [proc |-> p, did |-> peer.did, name |-> peer.name]
<1>1. Named(peer) /\ Named(peer)'
  BY DEF DispatchInv, Named, IsDid
<1>2. CASE GateOf(p) # "Proven"
  BY <1>1, <1>2, NothingRuns DEF Accepts, DispatchInv
<1>3. CASE GateOf(p) = "Proven"
  <2>1. peer.did # NoDid => peer.did = Did[p]
    BY <1>3 DEF GateOf, Gate, wrong_destination, Message
  <2>2. peer.did = NoDid => Name[p] = request.to
    BY <1>1 DEF Named, Receivers
  <2>3. accepted' = accepted \cup {r}
    BY <1>3 DEF Accepts
  <2>4. IsDid(request.to) => Did[p] = request.to
    BY <1>1, <2>1, <2>2, NamesAssumption DEF Named, IsDid
  <2>5. ~IsDid(request.to) => \E q \in Procs : Name[q] = request.to /\ Did[q] = Did[p]
    BY <1>1, <2>1, <2>2 DEF Named
  <2>6. DeliveredToTheNamed'
    BY <2>1, <2>2, <2>3, <2>4, <2>5 DEF DispatchInv, DeliveredToTheNamed, IsDid
  <2> QED
    BY <1>1, <2>3, <2>6 DEF DispatchInv
<1> QED
  BY <1>2, <1>3

\* Sending, with its retries, parks and escalations.
LEMMA SendInv ==
  ASSUME DispatchInv, \/ \E p \in Procs : Answered(p) \/ AnswerLost(p)
                      \/ \E noted \in BOOLEAN : Escalate(noted)
                      \/ NotReached \/ SendFails
  PROVE  DispatchInv'
<1>1. ASSUME NEW p \in Procs, Answered(p) \/ AnswerLost(p) PROVE DispatchInv'
  <2>1. /\ stage = "send" /\ p \in Receivers /\ Accepts(p) /\ UNCHANGED <<request, peer, files>>
        /\ stage' # "named"
    BY <1>1 DEF Answered, AnswerLost, Stage, hostVars, askVars, Parked, Again, Fail
  <2> QED
    BY <2>1, RunsAtTheNamed
<1>2. CASE (\E noted \in BOOLEAN : Escalate(noted)) \/ NotReached \/ SendFails
  <2>1. /\ stage \in {"send", "escalate"} /\ stage' \in {"send", "failed"}
        /\ UNCHANGED <<request, peer, files, accepted>>
    BY <1>2 DEF Escalate, NotReached, SendFails, Stage, hostVars, askVars, Again, Fail
  <2>2. Named(peer)'
    BY <2>1 DEF DispatchInv, Named, IsDid
  <2> QED
    BY <2>1, <2>2, NothingRuns DEF DispatchInv
<1> QED
  BY <1>1, <1>2

\* Listeners that start, stop and crash run nothing.
LEMMA HostInv == ASSUME DispatchInv, Host PROVE DispatchInv'
<1>1. UNCHANGED <<request, peer, stage, accepted>> /\ files' \subseteq Procs
  BY DEF Host, Leases, Binds, Stops, Crashes, sendVars, askVars, DispatchInv
<1> QED
  BY <1>1 DEF DispatchInv, DeliveredToTheNamed, Named, IsDid, Candidate

\* The inductive invariant of the client holds throughout.
THEOREM DispatchInvariance == DispatchSafety => []DispatchInv
<1>1. DispatchInit => DispatchInv
  BY DEF DispatchInit, DispatchInv, DeliveredToTheNamed
<1>2. ASSUME DispatchInv, [DispatchNext]_dispatchVars PROVE DispatchInv'
  <2>1. CASE Client
    BY <1>2, <2>1, LookInv, RuntimeInv, LeasesInv, DirectoryInv, NextInv, SendInv DEF Client
  <2>2. CASE Host
    BY <1>2, <2>2, HostInv
  <2>3. CASE UNCHANGED dispatchVars
    BY <1>2, <2>3 DEF dispatchVars, hostVars, askVars, DispatchInv, DeliveredToTheNamed, Named, IsDid, Candidate
  <2> QED
    BY <1>2, <2>1, <2>2, <2>3 DEF DispatchNext
<1> QED
  BY <1>1, <1>2, PTL DEF DispatchSafety

\* For every set of listeners, leases, descriptors and records and any order of
\* their starts, stops and crashes, the task is only ever run by an agent it was
\* meant for, on the first sending and on every repeated one.
THEOREM TasksReachTheNamed == DispatchSafety => []DeliveredToTheNamed
<1>1. DispatchInv => DeliveredToTheNamed
  BY DEF DispatchInv
<1> QED
  BY <1>1, DispatchInvariance, PTL

=============================================================================
