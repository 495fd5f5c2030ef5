------------------------- MODULE ChannelOwnerProofs -------------------------
(***************************************************************************)
(* The safety properties of ChannelOwner for every policy, every set of    *)
(* requests, channels and members, and any number of calls, windows and    *)
(* restarts.                                                               *)
(***************************************************************************)
EXTENDS ChannelOwner, SequenceTheorems, FiniteSetTheorems, WellFoundedInduction, TLAPS

-----------------------------------------------------------------------------
(* The inductive invariant *)

AnyPolicy == Policies \cup {x.policy : x \in Menus}

IsOwner(o) ==
  /\ DOMAIN o = {"policy", "channels", "pending", "next_ask", "waiting"}
  /\ o.policy \in AnyPolicy /\ o.next_ask \in Nat \ {0}
  /\ DOMAIN o.pending \subseteq 1 .. (o.next_ask - 1)
  /\ \A id \in DOMAIN o.pending :
       DOMAIN o.pending[id] = {"request", "left"} /\ o.pending[id].request \in Requests

Owned ==
  /\ owners \in Seq(Range(owners)) /\ \A k \in 1 .. Len(owners) : IsOwner(owners[k])
  /\ running \in 0 .. Len(owners) /\ served \in 0 .. Len(owners)
  /\ audit \in Seq(Range(audit))

CallFields == {"kind", "pc", "request", "owner", "age", "seen", "ask", "timer", "mail", "reply", "grant"}
CommandFields == {"pc", "cmd", "arg", "owner", "ask", "answer", "request"}

Kinds ==
  /\ menu \in Menus /\ saved \in AnyPolicy
  /\ DOMAIN call = Calls /\ DOMAIN ui = Windows
  /\ \A c \in Calls : DOMAIN call[c] = CallFields
  /\ \A w \in Windows : DOMAIN ui[w] = CommandFields
  /\ \A w \in Windows : /\ ui[w].pc = "set_policy" => ui[w].arg \in AnyPolicy
                        /\ ui[w].pc = "join" => ui[w].arg \in Channels
                        /\ ui[w].pc \in {"serve", "publish"} => ui[w].owner \in 1 .. Len(owners)

\* A command that works on the owner finds one, and nobody changes it meanwhile.
Held ==
  \A w \in Windows : /\ ui[w].pc = "held" => locked = w
                     /\ ui[w].pc \in {"status", "held"} => running # 0

\* The log has that the owner was asked, that a request was granted for a
\* reason, and that an ask was settled the way a reply says.
Asked(k, id, q) ==
  \E j \in DOMAIN audit : /\ audit[j].outcome = "asked" /\ audit[j].request = q
                          /\ audit[j].owner = k /\ audit[j].ask = id
Earned(q) == \E i \in Granted(q) : Justified(i)
Settled(k, id, reply) ==
  \E i \in DOMAIN audit : /\ audit[i].outcome = IF reply = "Grant" THEN "granted" ELSE "denied"
                          /\ audit[i].owner = k /\ audit[i].ask = id

Numbered ==
  \A i \in DOMAIN audit :
    /\ audit[i].outcome = "asked" => audit[i].ask # None
    /\ audit[i].ask # None => /\ audit[i].owner \in 1 .. Len(owners)
                              /\ audit[i].ask \in 1 .. (owners[audit[i].owner].next_ask - 1)

AskedForOne ==
  \A i, j \in DOMAIN audit :
    /\ audit[i].outcome = "asked" /\ audit[j].outcome = "asked"
    /\ audit[i].owner = audit[j].owner /\ audit[i].ask = audit[j].ask
    => audit[i].request = audit[j].request

Reasons == \A i \in DOMAIN audit : audit[i].outcome = "granted" => Justified(i)

SettledOnce ==
  \A i, j \in DOMAIN audit :
    IsSettlement(i) /\ IsSettlement(j) /\ audit[i].owner = audit[j].owner /\ audit[i].ask = audit[j].ask
    => i = j

Inbox ==
  \A k \in 1 .. Len(owners) : \A id \in DOMAIN owners[k].pending :
    /\ Asked(k, id, owners[k].pending[id].request)
    /\ \A i \in DOMAIN audit : IsSettlement(i) /\ audit[i].owner = k => audit[i].ask # id

Books == Numbered /\ AskedForOne /\ Reasons /\ SettledOnce /\ Inbox

\* What is said to whoever waits for the ask is what was recorded.
Speaks(k, id, q, a) ==
  /\ a.reply \in {"Grant", "DeniedByOwner"} /\ Settled(k, id, a.reply)
  /\ a.grant # None => a.grant = q /\ Earned(q)

SoundCall(r) ==
  /\ r.pc \in {"decide", "lookup", "listing", "register", "wait", "lapse", "invite"}
       => r.owner \in 1 .. Len(owners) /\ r.request \in Requests
  /\ r.pc \in {"idle", "decide", "lookup", "listing", "invite"} => r.ask = None
  /\ r.ask # None => Asked(r.owner, r.ask, r.request)
  /\ (r.pc \in {"lookup", "listing"} \/ (r.pc = "decide" /\ r.kind = "cm")) => r.reply = "Denied"
  /\ r.pc = "invite" => Earned(r.request)
  /\ r.mail # None => r.pc = "wait" /\ Speaks(r.owner, r.ask, r.request, r.mail)
  /\ r.grant # None => r.grant = r.request /\ Earned(r.request)
  /\ r.ask # None /\ r.reply \in {"Grant", "DeniedByOwner"} => Settled(r.owner, r.ask, r.reply)

CallIsSound(c) == SoundCall(call[c])

SoundCommand(r) ==
  /\ r.pc \in {"is_waiting", "answer", "send", "invite"} =>
       /\ r.owner \in 1 .. Len(owners) /\ r.ask \in Nat /\ r.request \in Requests
       /\ Asked(r.owner, r.ask, r.request) /\ Speaks(r.owner, r.ask, r.request, r.answer)
  /\ r.pc \in {"is_waiting", "invite"} => Earned(r.request)

CommandIsSound(w) == SoundCommand(ui[w])

InvitesAreEarned == \A q \in invited : Earned(q)

Told ==
  /\ rooms \in [Channels -> KnownRooms \cup {None}]
  /\ store \in [Channels -> KnownRooms \cup {None}]
  /\ \A f \in told :
       /\ f.channel \in Channels /\ Holds(f, rooms[f.channel])
       /\ "rooms" \notin torn => Holds(f, store[f.channel])

IInv ==
  /\ Owned /\ Kinds /\ Held /\ Books /\ InvitesAreEarned /\ Told
  /\ (\A c \in Calls : CallIsSound(c)) /\ (\A w \in Windows : CommandIsSound(w))

-----------------------------------------------------------------------------
(* Lemmas about sequences and numbers *)

\* A nonempty set of naturals has a least element, and Min is it.
LEMMA MinIsMember ==
  ASSUME NEW T, T \subseteq Nat, T # {}
  PROVE  Min(T) \in T
<1> DEFINE R == OpToRel(<, Nat)
<1>1. \E m \in T : \A k \in T : ~(<<k, m>> \in R)
  BY NatLessThanWellFounded, WFMin
<1>2. \A k, m \in Nat : ~(<<k, m>> \in R) => m <= k
  BY DEF OpToRel
<1>3. \E m \in T : \A k \in T : m <= k
  BY <1>1, <1>2
<1> QED
  BY <1>3 DEF Min

\* A list whose entries have no type of their own, with more entries at its end.
LEMMA ListGrows ==
  ASSUME NEW a, a \in Seq(Range(a)), NEW T, NEW e \in Seq(T)
  PROVE  /\ a \o e \in Seq(Range(a \o e)) /\ Len(a \o e) = Len(a) + Len(e)
         /\ Len(a) \in Nat /\ Len(e) \in Nat
         /\ DOMAIN a = 1 .. Len(a) /\ DOMAIN (a \o e) = 1 .. Len(a) + Len(e)
         /\ \A i \in 1 .. Len(a) : (a \o e)[i] = a[i]
         /\ \A i \in 1 .. Len(e) : (a \o e)[Len(a) + i] = e[i]
<1> DEFINE S == Range(a) \cup T
<1>1. a \in Seq(S) /\ e \in Seq(S)
  BY SeqMonotonic
<1> HIDE DEF S
<1>2. /\ a \o e \in Seq(S) /\ Len(a \o e) = Len(a) + Len(e)
      /\ \A i \in 1 .. Len(a) + Len(e) : (a \o e)[i] = IF i <= Len(a) THEN a[i] ELSE e[i - Len(a)]
  BY <1>1, ConcatProperties
<1>3. a \o e \in Seq(Range(a \o e))
  BY <1>2, SeqOfRange
<1>4. Len(a) \in Nat /\ Len(e) \in Nat /\ DOMAIN a = 1 .. Len(a) /\ DOMAIN (a \o e) = 1 .. Len(a \o e)
  BY <1>1, <1>2, LenProperties
<1> QED
  BY <1>2, <1>3, <1>4

\* The same of a list in which one entry is replaced.
LEMMA ListPut ==
  ASSUME NEW a, a \in Seq(Range(a)), NEW k \in 1 .. Len(a), NEW o
  PROVE  /\ [a EXCEPT ![k] = o] \in Seq(Range([a EXCEPT ![k] = o]))
         /\ Len([a EXCEPT ![k] = o]) = Len(a) /\ Len(a) \in Nat
         /\ [a EXCEPT ![k] = o][k] = o
         /\ \A j \in 1 .. Len(a) : j # k => [a EXCEPT ![k] = o][j] = a[j]
<1> DEFINE S == Range(a) \cup {o}
           b == [a EXCEPT ![k] = o]
<1>1. a \in Seq(S) /\ o \in S
  BY SeqMonotonic
<1> HIDE DEF S
<1>2. b \in Seq(S) /\ Len(b) = Len(a) /\ \A j \in 1 .. Len(a) : b[j] = IF j = k THEN o ELSE a[j]
  BY <1>1, ExceptSeq
<1>3. b \in Seq(Range(b))
  BY <1>2, SeqOfRange
<1>4. Len(a) \in Nat
  BY <1>1, LenProperties
<1> QED
  BY <1>2, <1>3, <1>4

-----------------------------------------------------------------------------
(* Lemmas about an Owner *)

\* The first rule that matches, or the default, and never the owner in person,
\* is behind a decision; a rule that removes names removals.
LEMMA VerdictFacts ==
  ASSUME NEW o, o.policy \in AnyPolicy, NEW q
  PROVE  LET v == Verdict(o, q)
         IN /\ v.outcome \in {"granted", "refused", "asked"} /\ v.by # "Owner"
            /\ v.by = "Rule" /\ q.action = "delete" => v.of = "delete"
<1> DEFINE rules == o.policy.rules
           hits == {i \in DOMAIN rules : matches(rules[i], q)}
           d == decide(o.policy, q)
<1>1. rules \in Seq(Range(rules))
  BY RulesAreOrdered DEF AnyPolicy
<1>2. hits \subseteq Nat
  BY <1>1, LenProperties
<1>3. hits # {} => Min(hits) \in hits
  BY <1>2, MinIsMember
<1>4. d.by \in {"Default", "Rule"}
  BY DEF decide
<1>5. d.by = "Rule" => hits # {} /\ d.of = rules[Min(hits)].action
  BY DEF decide
<1>6. d.by = "Rule" /\ q.action = "delete" => d.of = "delete"
  BY <1>3, <1>5 DEF matches
<1> HIDE DEF d
<1>7. CASE q.channel \notin o.channels
  BY <1>7 DEF Verdict
<1>8. CASE q.channel \in o.channels
  <2>1. /\ Verdict(o, q).by = d.by /\ Verdict(o, q).of = d.of
        /\ Verdict(o, q).outcome \in {"granted", "refused", "asked"}
    BY <1>8 DEF Verdict, d
  <2> QED
    BY <1>4, <1>6, <2>1
<1> QED
  BY <1>7, <1>8

\* A decision takes a number for an ask, and keeps the ask if it is recorded.
LEMMA AskingFacts ==
  ASSUME NEW o, IsOwner(o), NEW q \in Requests, NEW left,
         NEW n, n = Asking(o, q, left), NEW asks, asks = (Verdict(o, q).outcome = "asked")
  PROVE  /\ IsOwner(n)
         /\ n.next_ask = IF asks THEN o.next_ask + 1 ELSE o.next_ask
         /\ \A id \in DOMAIN n.pending :
              \/ id \in DOMAIN o.pending /\ n.pending[id] = o.pending[id]
              \/ asks /\ disk /\ id = o.next_ask /\ n.pending[id].request = q
<1> DEFINE new == [request |-> q, left |-> left]
           more == With(o.pending, o.next_ask, new)
<1>1. /\ DOMAIN more = {o.next_ask} \cup DOMAIN o.pending
      /\ more[o.next_ask] = new
      /\ \A id \in DOMAIN o.pending : id # o.next_ask => more[id] = o.pending[id]
  BY DEF With
<1>2. o.next_ask \notin DOMAIN o.pending
  BY DEF IsOwner
<1> HIDE DEF more
<1>3. /\ DOMAIN n = DOMAIN o /\ n.policy = o.policy
      /\ n.next_ask = IF asks THEN o.next_ask + 1 ELSE o.next_ask
      /\ n.pending = IF asks /\ disk THEN more ELSE o.pending
  BY DEF Asking, IsOwner, more
<1>4. CASE asks /\ disk
  BY <1>1, <1>2, <1>3, <1>4 DEF IsOwner
<1>5. CASE ~(asks /\ disk)
  BY <1>3, <1>5 DEF IsOwner
<1> QED
  BY <1>4, <1>5

-----------------------------------------------------------------------------
(* The owners and the log *)

Grows == Len(audit) <= Len(audit') /\ \A i \in 1 .. Len(audit) : audit'[i] = audit[i]

\* What every step leaves of the owners and of the log.
Carries == Owned' /\ Books' /\ Grows /\ Len(owners) <= Len(owners')

\* Nothing is recorded, no ask comes and none takes a number.
Quiet ==
  /\ audit' = audit /\ Len(owners) <= Len(owners')
  /\ \A k \in 1 .. Len(owners) : owners[k].next_ask <= owners'[k].next_ask
  /\ \A k \in 1 .. Len(owners') : \A id \in DOMAIN owners'[k].pending :
       /\ k \in 1 .. Len(owners) /\ id \in DOMAIN owners[k].pending
       /\ owners'[k].pending[id].request = owners[k].pending[id].request

\* A step that records nothing and asks nothing leaves the books in order.
LEMMA QuietCarries ==
  ASSUME Owned, Books, Quiet, Owned'
  PROVE  Carries
<1>1. Len(owners) \in Nat /\ Len(owners') \in Nat /\ Len(audit) \in Nat /\ DOMAIN audit = 1 .. Len(audit)
  BY LenProperties DEF Owned
<1>2. Grows
  BY <1>1 DEF Quiet, Grows
<1>3. Numbered'
  <2>1. \A k \in 1 .. Len(owners) :
          /\ owners[k].next_ask \in Nat /\ owners'[k].next_ask \in Nat
          /\ owners[k].next_ask <= owners'[k].next_ask
    BY <1>1 DEF Quiet, Owned, IsOwner
  <2>2. audit' = audit /\ Len(owners) <= Len(owners')
    BY DEF Quiet
  <2>3. Numbered
    BY DEF Books
  <2> SUFFICES ASSUME NEW i \in DOMAIN audit
               PROVE  /\ audit[i].outcome = "asked" => audit[i].ask # None
                      /\ audit[i].ask # None =>
                           /\ audit[i].owner \in 1 .. Len(owners')
                           /\ audit[i].ask \in 1 .. owners'[audit[i].owner].next_ask - 1
    BY <2>2 DEF Numbered
  <2>4. PICK k, q : k = audit[i].owner /\ q = audit[i].ask
    OBVIOUS
  <2>5. q # None => k \in 1 .. Len(owners) /\ q \in 1 .. owners[k].next_ask - 1
    BY <2>3, <2>4 DEF Numbered
  <2>6. q # None => k \in 1 .. Len(owners') /\ q \in 1 .. owners'[k].next_ask - 1
    BY <1>1, <2>1, <2>2, <2>5
  <2> QED
    BY <2>3, <2>4, <2>6 DEF Numbered
<1>4. AskedForOne' /\ Reasons' /\ SettledOnce'
  BY DEF Books, AskedForOne, Reasons, SettledOnce, Quiet, Justified, IsSettlement
<1>5. Inbox'
  BY DEF Books, Inbox, Quiet, Asked, IsSettlement
<1> QED
  BY <1>2, <1>3, <1>4, <1>5 DEF Carries, Books, Quiet

\* One owner changes, the others stay.
LEMMA PutFacts ==
  ASSUME Owned, NEW k \in 1 .. Len(owners), NEW o, Put(k, o)
  PROVE  /\ owners' \in Seq(Range(owners')) /\ Len(owners') = Len(owners) /\ Len(owners) \in Nat
         /\ owners'[k] = o /\ \A j \in 1 .. Len(owners) : j # k => owners'[j] = owners[j]
<1>1. owners \in Seq(Range(owners)) /\ owners' = [owners EXCEPT ![k] = o]
  BY DEF Put, Owned
<1>2. [owners EXCEPT ![k] = o] \in Seq(Range([owners EXCEPT ![k] = o]))
  BY <1>1, ListPut
<1>3. Len(owners) \in Nat
  BY <1>1, ListPut
<1>4. Len([owners EXCEPT ![k] = o]) = Len(owners)
  BY <1>1, ListPut
<1>5. \A j \in 1 .. Len(owners) : j # k => [owners EXCEPT ![k] = o][j] = owners[j]
  BY <1>1, ListPut
<1> QED
  BY <1>1, <1>2, <1>3, <1>4, <1>5, ListPut

\* What is recorded comes at the end of the log, if the disk takes it.
LEMMA RecordFacts ==
  ASSUME Owned, NEW T, NEW e \in Seq(T), record(e)
  PROVE  /\ audit' \in Seq(Range(audit')) /\ Grows
         /\ Len(audit) \in Nat /\ Len(e) \in Nat /\ Len(audit') \in Nat
         /\ DOMAIN audit = 1 .. Len(audit) /\ DOMAIN audit' = 1 .. Len(audit')
         /\ ~disk => audit' = audit
         /\ disk => /\ Len(audit') = Len(audit) + Len(e)
                    /\ \A i \in 1 .. Len(e) : audit'[Len(audit) + i] = e[i]
<1>1. audit \in Seq(Range(audit))
  BY DEF Owned
<1>2. Len(audit) \in Nat /\ Len(e) \in Nat /\ DOMAIN audit = 1 .. Len(audit)
  BY <1>1, ListGrows
<1>3. CASE disk
  <2>1. audit' = audit \o e
    BY <1>3 DEF record
  <2>2. /\ audit \o e \in Seq(Range(audit \o e)) /\ Len(audit \o e) = Len(audit) + Len(e)
        /\ DOMAIN (audit \o e) = 1 .. Len(audit) + Len(e)
    BY <1>1, ListGrows
  <2>3. \A i \in 1 .. Len(audit) : (audit \o e)[i] = audit[i]
    BY <1>1, ListGrows
  <2>4. \A i \in 1 .. Len(e) : (audit \o e)[Len(audit) + i] = e[i]
    BY <1>1, ListGrows
  <2> QED
    BY <1>2, <1>3, <2>1, <2>2, <2>3, <2>4 DEF Grows
<1>4. CASE ~disk
  <2>1. audit' = audit
    BY <1>4 DEF record
  <2>2. /\ audit' \in Seq(Range(audit')) /\ Grows /\ Len(audit') \in Nat
        /\ DOMAIN audit' = 1 .. Len(audit')
    BY <1>1, <1>2, <2>1 DEF Grows
  <2> QED
    BY <1>2, <1>4, <2>1, <2>2, Zenon
<1> QED
  BY <1>3, <1>4

\* One owner changes and gets no ask; nothing is recorded.
LEMMA PutCarries ==
  ASSUME Owned, Books, NEW k \in 1 .. Len(owners), NEW o, IsOwner(o), Put(k, o),
         owners[k].next_ask <= o.next_ask,
         \A id \in DOMAIN o.pending :
            id \in DOMAIN owners[k].pending /\ o.pending[id].request = owners[k].pending[id].request,
         UNCHANGED <<running, served, audit>>
  PROVE  Carries
<1>1. /\ owners' \in Seq(Range(owners')) /\ Len(owners') = Len(owners) /\ Len(owners) \in Nat
      /\ owners'[k] = o /\ \A j \in 1 .. Len(owners) : j # k => owners'[j] = owners[j]
  BY PutFacts
<1>2. Owned'
  BY <1>1 DEF Owned
<1>3. Quiet
  <2>1. \A j \in 1 .. Len(owners) : owners[j].next_ask \in Nat
    BY DEF Owned, IsOwner
  <2> QED
    BY <1>1, <2>1 DEF Quiet
<1> QED
  BY <1>2, <1>3, QuietCarries

\* Nothing of the owners or of the log changes.
LEMMA StillCarries ==
  ASSUME Owned, Books, UNCHANGED ownerVars
  PROVE  Carries
<1>1. Len(owners) \in Nat
  BY LenProperties DEF Owned
<1>2. Owned' /\ Quiet
  BY <1>1 DEF ownerVars, Owned, Quiet, IsOwner
<1> QED
  BY <1>2, QuietCarries

\* A request is decided: one entry, and an ask of the next number if it asks.
LEMMA DecisionCarries ==
  ASSUME Owned, Books, NEW k \in 1 .. Len(owners), NEW o, IsOwner(o), Put(k, o),
         NEW e, record(<<e>>), e.owner = k, e.outcome \in {"granted", "refused", "asked"},
         e.outcome = "granted" =>
           e.by # "Owner" /\ (e.by = "Rule" /\ e.request.action = "delete" => e.of = "delete"),
         e.outcome # "asked" => e.ask = None /\ o.next_ask = owners[k].next_ask,
         e.outcome = "asked" => o.next_ask = owners[k].next_ask + 1,
         e.outcome = "asked" /\ disk => e.ask = owners[k].next_ask,
         \A id \in DOMAIN o.pending :
            \/ id \in DOMAIN owners[k].pending /\ o.pending[id] = owners[k].pending[id]
            \/ disk /\ e.outcome = "asked" /\ id = owners[k].next_ask /\ o.pending[id].request = e.request,
         UNCHANGED <<running, served>>
  PROVE  Carries
<1>1. /\ owners' \in Seq(Range(owners')) /\ Len(owners') = Len(owners) /\ Len(owners) \in Nat
      /\ owners'[k] = o /\ \A j \in 1 .. Len(owners) : j # k => owners'[j] = owners[j]
  BY PutFacts
<1>2. owners[k].next_ask \in Nat \ {0} /\ o.next_ask \in Nat \ {0}
  BY DEF Owned, IsOwner
<1>3. CASE ~disk
  <2>1. audit' = audit
    BY <1>3 DEF record
  <2> QED
    BY <1>2, <1>3, <2>1, PutCarries
<1>4. CASE disk
  <2>9. PICK n \in Nat : n = Len(audit)
    BY LenProperties DEF Owned
  <2>0. <<e>> \in Seq({e}) /\ Len(<<e>>) = 1 /\ <<e>>[1] = e
    OBVIOUS
  <2>1. /\ audit' \in Seq(Range(audit')) /\ Grows /\ n \in Nat
        /\ DOMAIN audit = 1 .. n /\ DOMAIN audit' = 1 .. n + 1 /\ Len(audit') = n + 1
        /\ \A i \in 1 .. n : audit'[i] = audit[i]
        /\ audit'[n + 1] = e
    <3>1. /\ audit' \in Seq(Range(audit')) /\ Grows
          /\ Len(audit) \in Nat /\ Len(audit') \in Nat
          /\ DOMAIN audit = 1 .. Len(audit) /\ DOMAIN audit' = 1 .. Len(audit')
      BY <2>0, RecordFacts
    <3>2. Len(audit') = Len(audit) + Len(<<e>>)
      BY <1>4, <2>0, RecordFacts
    <3>3. \A i \in 1 .. Len(<<e>>) : audit'[Len(audit) + i] = <<e>>[i]
      BY <1>4, <2>0, RecordFacts
    <3> QED
      BY <2>0, <2>9, <3>1, <3>2, <3>3 DEF Grows
  <2>2. Owned'
    BY <1>1, <2>1 DEF Owned
  <2>3. Numbered'
    <3>1. \A j \in 1 .. Len(owners) :
            /\ owners[j].next_ask \in Nat /\ owners'[j].next_ask \in Nat
            /\ owners[j].next_ask <= owners'[j].next_ask
      BY <1>1, <1>2 DEF Owned, IsOwner
    <3>2. ASSUME NEW i \in 1 .. n
          PROVE  /\ audit'[i].outcome = "asked" => audit'[i].ask # None
                 /\ audit'[i].ask # None =>
                      /\ audit'[i].owner \in 1 .. Len(owners')
                      /\ audit'[i].ask \in 1 .. (owners'[audit'[i].owner].next_ask - 1)
      <4>1. audit'[i] = audit[i] /\ i \in DOMAIN audit
        BY <2>1
      <4>2. /\ audit[i].outcome = "asked" => audit[i].ask # None
            /\ audit[i].ask # None => /\ audit[i].owner \in 1 .. Len(owners)
                                      /\ audit[i].ask \in 1 .. (owners[audit[i].owner].next_ask - 1)
        BY <4>1 DEF Books, Numbered
      <4> QED
        BY <1>1, <3>1, <4>1, <4>2
    <3>3. /\ e.outcome = "asked" => e.ask # None
          /\ e.ask # None => e.owner \in 1 .. Len(owners') /\ e.ask \in 1 .. (owners'[e.owner].next_ask - 1)
      BY <1>1, <1>2, <1>4, NoneIsApart
    <3> QED
      BY <2>1, <3>2, <3>3 DEF Numbered
  <2>4. \A i \in 1 .. n : audit[i].outcome = "asked" /\ audit[i].owner = k => audit[i].ask # owners[k].next_ask
    BY <1>2, <2>1 DEF Books, Numbered
  <2>5. AskedForOne'
    BY <1>4, <2>1, <2>4 DEF Books, AskedForOne
  <2>6. Reasons'
    <3>1. ASSUME NEW i \in 1 .. n, audit[i].outcome = "granted" PROVE Justified(i)'
      BY <2>1, <3>1 DEF Books, Reasons, Justified
    <3>2. e.outcome = "granted" => Justified(n + 1)'
      BY <2>1, Zenon DEF Justified
    <3> QED
      BY <2>1, <3>1, <3>2 DEF Reasons
  <2>7. SettledOnce'
    BY <2>1 DEF Books, SettledOnce, IsSettlement
  <2>8. Inbox'
    <3> SUFFICES ASSUME NEW j \in 1 .. Len(owners), NEW id \in DOMAIN owners'[j].pending
                 PROVE  /\ Asked(j, id, owners[j].pending[id].request)'
                        /\ \A i \in DOMAIN audit' : IsSettlement(i)' /\ audit'[i].owner = j => audit'[i].ask # id
      BY <1>1 DEF Inbox
    <3>1. CASE id \in DOMAIN owners[j].pending /\ owners'[j].pending[id] = owners[j].pending[id]
      <4>1. Asked(j, id, owners[j].pending[id].request)
        BY <3>1 DEF Books, Inbox
      <4>2. Asked(j, id, owners[j].pending[id].request)'
        BY <2>1, <3>1, <4>1 DEF Asked
      <4> QED
        BY <2>1, <3>1, <4>2 DEF Books, Inbox, IsSettlement
    <3>2. CASE j = k /\ e.outcome = "asked" /\ id = owners[k].next_ask /\ o.pending[id].request = e.request
      <4>0. /\ e.owner = j /\ e.ask = id /\ e.request = owners'[j].pending[id].request
            /\ n + 1 \in DOMAIN audit' /\ audit'[n + 1] = e
        BY <1>1, <1>4, <2>1, <3>2
      <4>1. Asked(j, id, owners[j].pending[id].request)'
        BY <3>2, <4>0 DEF Asked
      <4>2. ASSUME NEW i \in 1 .. n, audit[i].owner = j, audit[i].ask # None PROVE audit[i].ask # id
        <5>1. audit[i].ask \in 1 .. (owners[j].next_ask - 1)
          BY <2>1, <4>2 DEF Books, Numbered
        <5> QED
          BY <1>2, <3>2, <5>1
      <4> QED
        BY <2>1, <3>2, <4>1, <4>2 DEF IsSettlement
    <3> QED
      BY <1>1, <3>1, <3>2
  <2> QED
    BY <1>1, <2>1, <2>2, <2>3, <2>5, <2>6, <2>7, <2>8 DEF Carries, Books
<1> QED
  BY <1>3, <1>4

\* Asks of one inbox are settled, each once, and leave it.
LEMMA SettlementCarries ==
  ASSUME Owned, Books, NEW k \in 1 .. Len(owners), NEW o, IsOwner(o), Put(k, o),
         o.next_ask = owners[k].next_ask, NEW T, NEW es \in Seq(T), record(es),
         \A i \in 1 .. Len(es) : /\ es[i].owner = k /\ es[i].outcome \in {"granted", "denied"}
                                 /\ es[i].ask \in DOMAIN owners[k].pending,
         \A i \in 1 .. Len(es) : es[i].outcome = "granted" =>
            es[i].by = "Owner" /\ ~es[i].late /\ es[i].request = owners[k].pending[es[i].ask].request,
         \A i, j \in 1 .. Len(es) : es[i].ask = es[j].ask => i = j,
         \A id \in DOMAIN o.pending :
            id \in DOMAIN owners[k].pending /\ o.pending[id] = owners[k].pending[id],
         disk => \A i \in 1 .. Len(es) : es[i].ask \notin DOMAIN o.pending,
         UNCHANGED <<running, served>>
  PROVE  Carries
<1>1. /\ owners' \in Seq(Range(owners')) /\ Len(owners') = Len(owners) /\ Len(owners) \in Nat
      /\ owners'[k] = o /\ \A j \in 1 .. Len(owners) : j # k => owners'[j] = owners[j]
  BY PutFacts
<1>2. \A j \in 1 .. Len(owners) :
        owners[j].next_ask \in Nat /\ owners'[j].next_ask = owners[j].next_ask
  BY <1>1 DEF Owned, IsOwner
<1>3. CASE ~disk
  <2>1. audit' = audit
    BY <1>3 DEF record
  <2>2. owners[k].next_ask <= o.next_ask
    BY <1>2
  <2> QED
    BY <2>1, <2>2, PutCarries
<1>4. CASE disk
  <2>1. PICK n \in Nat : n = Len(audit)
    BY LenProperties DEF Owned
  <2>2. PICK m \in Nat : m = Len(es)
    BY LenProperties
  <2>3. /\ audit' \in Seq(Range(audit')) /\ Grows /\ DOMAIN audit = 1 .. n
        /\ DOMAIN audit' = 1 .. Len(audit')
    BY <2>1, RecordFacts
  <2>4. Len(audit') = n + m
    BY <1>4, <2>1, <2>2, RecordFacts
  <2>5. \A i \in 1 .. n : audit'[i] = audit[i]
    BY <2>1, <2>3 DEF Grows
  <2>6. \A i \in 1 .. m : audit'[n + i] = es[i]
    BY <1>4, <2>1, <2>2, RecordFacts
  <2>7. ASSUME NEW i \in DOMAIN audit', i \notin 1 .. n
        PROVE  i - n \in 1 .. m /\ audit'[i] = es[i - n]
    <3>1. i - n \in 1 .. m /\ n + (i - n) = i
      BY <2>3, <2>4, <2>7
    <3> QED
      BY <2>6, <3>1
  <2>8. Owned'
    BY <1>1, <2>3 DEF Owned
  <2>9. \A id \in DOMAIN owners[k].pending : id \in 1 .. (owners[k].next_ask - 1)
    BY DEF Owned, IsOwner
  <2>10. Numbered'
    <3>1. ASSUME NEW i \in 1 .. n
          PROVE  /\ audit'[i].outcome = "asked" => audit'[i].ask # None
                 /\ audit'[i].ask # None =>
                      /\ audit'[i].owner \in 1 .. Len(owners')
                      /\ audit'[i].ask \in 1 .. (owners'[audit'[i].owner].next_ask - 1)
      <4>1. audit'[i] = audit[i] /\ i \in DOMAIN audit
        BY <2>3, <2>5
      <4> QED
        BY <1>1, <1>2, <4>1 DEF Books, Numbered
    <3>2. ASSUME NEW i \in 1 .. m
          PROVE  /\ es[i].outcome # "asked" /\ es[i].owner \in 1 .. Len(owners')
                 /\ es[i].ask \in 1 .. (owners'[es[i].owner].next_ask - 1)
      BY <1>1, <1>2, <2>2, <2>9
    <3> QED
      BY <2>7, <3>1, <3>2 DEF Numbered
  <2>11. AskedForOne'
    <3>1. \A i \in DOMAIN audit' : audit'[i].outcome = "asked" => i \in 1 .. n
      BY <2>2, <2>7
    <3> QED
      BY <2>3, <2>5, <3>1 DEF Books, AskedForOne
  <2>12. Reasons'
    <3>1. ASSUME NEW i \in 1 .. n, audit[i].outcome = "granted" PROVE Justified(i)'
      <4>1. Justified(i)
        BY <2>3, <3>1 DEF Books, Reasons
      <4>2. audit'[i] = audit[i] /\ \A j \in 1 .. (i - 1) : audit'[j] = audit[j]
        BY <2>5
      <4> QED
        BY <4>1, <4>2, ZenonT(30) DEF Justified
    <3>2. ASSUME NEW i \in DOMAIN audit', i \notin 1 .. n, audit'[i].outcome = "granted"
          PROVE  Justified(i)'
      <4> DEFINE e == es[i - n]
      <4>1. /\ audit'[i] = e /\ e.by = "Owner" /\ ~e.late /\ e.owner = k
            /\ e.ask \in DOMAIN owners[k].pending /\ e.request = owners[k].pending[e.ask].request
        BY <2>2, <2>7, <3>2
      <4> HIDE DEF e
      <4>2. Asked(k, e.ask, e.request)
        BY <4>1 DEF Books, Inbox
      <4>3. PICK j \in 1 .. n : /\ audit[j].outcome = "asked" /\ audit[j].request = e.request
                                /\ audit[j].owner = k /\ audit[j].ask = e.ask
        BY <2>3, <4>2 DEF Asked
      <4>4. j \in 1 .. (i - 1) /\ audit'[j] = audit[j]
        BY <2>3, <2>4, <2>5, <3>2
      <4> QED
        BY <4>1, <4>3, <4>4, Zenon DEF Justified
    <3> QED
      BY <2>5, <3>1, <3>2 DEF Reasons
  <2>13. \A i \in 1 .. n, id \in DOMAIN owners[k].pending :
           IsSettlement(i) /\ audit[i].owner = k => audit[i].ask # id
    BY <2>3 DEF Books, Inbox
  <2>14. SettledOnce'
    <3> SUFFICES ASSUME NEW i \in DOMAIN audit', NEW j \in DOMAIN audit',
                        IsSettlement(i)', IsSettlement(j)',
                        audit'[i].owner = audit'[j].owner, audit'[i].ask = audit'[j].ask
                 PROVE  i = j
      BY DEF SettledOnce
    <3>1. CASE i \in 1 .. n /\ j \in 1 .. n
      BY <2>3, <2>5, <3>1 DEF Books, SettledOnce, IsSettlement
    <3>2. CASE i \in 1 .. n /\ j \notin 1 .. n
      <4>1. audit'[j].owner = k /\ audit'[j].ask \in DOMAIN owners[k].pending /\ audit'[i] = audit[i]
        BY <2>2, <2>5, <2>7, <3>2
      <4> QED
        BY <2>13, <3>2, <4>1 DEF IsSettlement
    <3>3. CASE i \notin 1 .. n /\ j \in 1 .. n
      <4>1. audit'[i].owner = k /\ audit'[i].ask \in DOMAIN owners[k].pending /\ audit'[j] = audit[j]
        BY <2>2, <2>5, <2>7, <3>3
      <4> QED
        BY <2>13, <3>3, <4>1 DEF IsSettlement
    <3>4. CASE i \notin 1 .. n /\ j \notin 1 .. n
      <4>1. i - n = j - n
        BY <2>2, <2>7, <3>4
      <4> QED
        BY <2>3, <2>4, <4>1
    <3> QED
      BY <3>1, <3>2, <3>3, <3>4
  <2>15. Inbox'
    <3> SUFFICES ASSUME NEW j \in 1 .. Len(owners), NEW id \in DOMAIN owners'[j].pending
                 PROVE  /\ Asked(j, id, owners[j].pending[id].request)'
                        /\ \A i \in DOMAIN audit' : IsSettlement(i)' /\ audit'[i].owner = j => audit'[i].ask # id
      BY <1>1 DEF Inbox
    <3>1. id \in DOMAIN owners[j].pending /\ owners'[j].pending[id] = owners[j].pending[id]
      BY <1>1
    <3>2. Asked(j, id, owners[j].pending[id].request)
      BY <3>1 DEF Books, Inbox
    <3>3. Asked(j, id, owners[j].pending[id].request)'
      BY <2>3, <2>4, <2>5, <3>1, <3>2 DEF Asked
    <3>4. \A i \in 1 .. n : IsSettlement(i)' /\ audit'[i].owner = j => audit'[i].ask # id
      <4>1. \A i \in 1 .. n : IsSettlement(i) /\ audit[i].owner = j => audit[i].ask # id
        BY <2>3, <3>1 DEF Books, Inbox
      <4> QED
        BY <2>5, <4>1 DEF IsSettlement
    <3>5. ASSUME NEW i \in DOMAIN audit', i \notin 1 .. n, audit'[i].owner = j PROVE audit'[i].ask # id
      BY <1>1, <1>4, <2>2, <2>7, <3>5
    <3> QED
      BY <3>3, <3>4, <3>5
  <2> QED
    BY <1>1, <2>3, <2>8, <2>10, <2>11, <2>12, <2>14, <2>15 DEF Carries, Books
<1> QED
  BY <1>3, <1>4

\* An Owner as a command or a handler works on it, with its inbox as it was.
SameInbox(o, k) ==
  IsOwner(o) /\ o.next_ask = owners[k].next_ask /\ o.pending = owners[k].pending

\* The last entry of the log.
LEMMA LastEntry ==
  ASSUME Owned, NEW e, record(<<e>>), disk
  PROVE  \E i \in DOMAIN audit' : audit'[i] = e
<1>1. <<e>> \in Seq({e}) /\ Len(<<e>>) = 1 /\ <<e>>[1] = e
  OBVIOUS
<1>2. Len(audit) \in Nat /\ DOMAIN audit' = 1 .. Len(audit')
  BY <1>1, RecordFacts
<1>3. Len(audit') = Len(audit) + Len(<<e>>)
  BY <1>1, RecordFacts
<1>4. \A i \in 1 .. Len(<<e>>) : audit'[Len(audit) + i] = <<e>>[i]
  BY <1>1, RecordFacts
<1> QED
  BY <1>1, <1>2, <1>3, <1>4

\* request and request_until: a grant has its reason in the log, and an ask is
\* in the log before anybody can answer it.
LEMMA DecisionFacts ==
  ASSUME Owned, Books, NEW k \in 1 .. Len(owners), NEW o, SameInbox(o, k),
         NEW q \in Requests, NEW left, NEW ask,
         ask = (IF Outcome(o, q) = "asked" THEN o.next_ask ELSE None),
         Put(k, Asking(o, q, left)), record(<<Entry(k, Verdict(o, q), q, ask, FALSE)>>),
         UNCHANGED <<running, served>>
  PROVE  /\ Carries
         /\ Outcome(o, q) = "granted" => Earned(q)'
         /\ Outcome(o, q) = "asked" => ask \in Nat /\ Asked(k, ask, q)'
<1> DEFINE v == Verdict(o, q)
           n == Asking(o, q, left)
           e == Entry(k, v, q, ask, FALSE)
           asks == v.outcome = "asked"
<1>1. /\ v.outcome \in {"granted", "refused", "asked"} /\ v.by # "Owner"
      /\ v.by = "Rule" /\ q.action = "delete" => v.of = "delete"
  BY VerdictFacts DEF SameInbox, IsOwner
<1>2. /\ IsOwner(n) /\ n.next_ask = IF asks THEN o.next_ask + 1 ELSE o.next_ask
      /\ \A id \in DOMAIN n.pending :
           \/ id \in DOMAIN o.pending /\ n.pending[id] = o.pending[id]
           \/ asks /\ disk /\ id = o.next_ask /\ n.pending[id].request = q
  <2>1. IsOwner(o) /\ n = Asking(o, q, left) /\ asks = (Verdict(o, q).outcome = "asked")
    BY DEF SameInbox
  <2> HIDE DEF n, asks
  <2> QED
    BY <2>1, AskingFacts
<1>3. /\ e.owner = k /\ e.outcome = v.outcome /\ e.by = v.by /\ e.of = v.of
      /\ e.request = q /\ e.ask = ask
  BY DEF Entry
<1>4. Outcome(o, q) = IF disk THEN v.outcome ELSE "error"
  BY DEF Outcome
<1> HIDE DEF v, n, e
<1>5. o.next_ask = owners[k].next_ask /\ o.pending = owners[k].pending
  BY DEF SameInbox
<1>6. Put(k, n) /\ record(<<e>>)
  BY DEF n, e, v
<1>7. asks /\ disk => ask = o.next_ask
  BY <1>4
<1>8. ~asks => ask = None
  BY <1>1, <1>4
<1>9. Carries
  <2>1. v.outcome # "asked" => e.ask = None /\ n.next_ask = owners[k].next_ask
    BY <1>2, <1>3, <1>5, <1>8
  <2>2. v.outcome = "asked" => n.next_ask = owners[k].next_ask + 1
    BY <1>2, <1>5
  <2>3. v.outcome = "asked" /\ disk => e.ask = owners[k].next_ask
    BY <1>3, <1>5, <1>7
  <2>4. \A id \in DOMAIN n.pending :
           \/ id \in DOMAIN owners[k].pending /\ n.pending[id] = owners[k].pending[id]
           \/ disk /\ e.outcome = "asked" /\ id = owners[k].next_ask /\ n.pending[id].request = e.request
    BY <1>2, <1>3, <1>5
  <2> HIDE DEF asks
  <2> QED
    BY <1>1, <1>2, <1>3, <1>6, <2>1, <2>2, <2>3, <2>4, DecisionCarries
<1>10. ASSUME Outcome(o, q) = "granted" PROVE Earned(q)'
  <2>1. disk /\ e.outcome = "granted"
    BY <1>3, <1>4, <1>10
  <2>2. PICK i \in DOMAIN audit' : audit'[i] = e
    BY <1>6, <2>1, LastEntry
  <2>3. Justified(i)'
    BY <2>1, <2>2, <1>9 DEF Carries, Books, Reasons
  <2> QED
    BY <1>3, <2>1, <2>2, <2>3 DEF Earned, Granted
<1>11. ASSUME Outcome(o, q) = "asked" PROVE ask \in Nat /\ Asked(k, ask, q)'
  <2>1. disk /\ e.outcome = "asked" /\ ask = o.next_ask
    BY <1>3, <1>4, <1>11
  <2>2. PICK i \in DOMAIN audit' : audit'[i] = e
    BY <1>6, <2>1, LastEntry
  <2>3. ask \in Nat
    BY <2>1 DEF SameInbox, IsOwner
  <2> QED
    BY <1>3, <2>1, <2>2, <2>3 DEF Asked
<1> QED
  BY <1>9, <1>10, <1>11

\* approve and deny: the answer is in the log, to the request that was asked.
LEMMA AnswerFacts ==
  ASSUME Owned, Books, NEW k \in 1 .. Len(owners), NEW o, SameInbox(o, k), NEW id, Live(o, id),
         NEW q, q = o.pending[id].request, NEW outcome \in {"granted", "denied"},
         Put(k, Taken(o, id)),
         record(<<Entry(k, Answer(outcome, "Owner"), q, id, o.pending[id].left = 0)>>),
         UNCHANGED <<running, served>>
  PROVE  /\ Carries /\ id \in Nat /\ q \in Requests /\ Asked(k, id, q)'
         /\ disk => Settled(k, id, IF outcome = "granted" THEN "Grant" ELSE "DeniedByOwner")'
         /\ disk /\ outcome = "granted" => Earned(q)'
<1> DEFINE n == Taken(o, id)
           e == Entry(k, Answer(outcome, "Owner"), q, id, o.pending[id].left = 0)
<1>1. id \in DOMAIN o.pending /\ ~(o.pending[id].left = 0)
  BY DEF Live
<1>2. id \in Nat /\ q \in Requests /\ Asked(k, id, q)
  BY <1>1 DEF SameInbox, IsOwner, Books, Inbox
<1>3. /\ IsOwner(n) /\ n.next_ask = o.next_ask /\ DOMAIN n.pending = DOMAIN o.pending \ {id}
      /\ \A i \in DOMAIN n.pending : n.pending[i] = o.pending[i]
  <2>1. /\ IsOwner(o) /\ DOMAIN n = DOMAIN o /\ n.policy = o.policy /\ n.next_ask = o.next_ask
        /\ n.pending = Without(o.pending, {id})
    BY DEF SameInbox, IsOwner, Taken
  <2> HIDE DEF n
  <2>2. /\ DOMAIN n.pending = DOMAIN o.pending \ {id}
        /\ \A i \in DOMAIN n.pending : n.pending[i] = o.pending[i]
    BY <2>1 DEF Without
  <2> QED
    BY <2>1, <2>2 DEF IsOwner
<1>4. /\ e.owner = k /\ e.outcome = outcome /\ e.by = "Owner" /\ e.request = q /\ e.ask = id
      /\ e.late = (o.pending[id].left = 0)
  BY DEF Entry, Answer
<1>5. ~e.late
  BY <1>1, <1>4
<1>6. Put(k, n) /\ record(<<e>>)
  OBVIOUS
<1> HIDE DEF n, e
<1>7. o.next_ask = owners[k].next_ask /\ o.pending = owners[k].pending
  BY DEF SameInbox
<1>8. <<e>> \in Seq({e}) /\ Len(<<e>>) = 1 /\ <<e>>[1] = e
  OBVIOUS
<1>9. Carries
  <2>0. PICK es : es = <<e>>
    OBVIOUS
  <2>1. es \in Seq({e}) /\ Len(es) = 1 /\ record(es) /\ \A i \in 1 .. Len(es) : es[i] = e
    BY <1>6, <1>8, <2>0
  <2>2. \A i \in 1 .. Len(es) : /\ es[i].owner = k /\ es[i].outcome \in {"granted", "denied"}
                                /\ es[i].ask \in DOMAIN owners[k].pending
    BY <1>1, <1>4, <1>7, <2>1
  <2>3. \A i \in 1 .. Len(es) : es[i].outcome = "granted" =>
          es[i].by = "Owner" /\ ~es[i].late /\ es[i].request = owners[k].pending[es[i].ask].request
    BY <1>4, <1>5, <1>7, <2>1, Zenon
  <2>4. \A i, j \in 1 .. Len(es) : es[i].ask = es[j].ask => i = j
    BY <2>1
  <2>5. /\ \A i \in DOMAIN n.pending : i \in DOMAIN owners[k].pending /\ n.pending[i] = owners[k].pending[i]
        /\ disk => \A i \in 1 .. Len(es) : es[i].ask \notin DOMAIN n.pending
    BY <1>3, <1>4, <1>7, <2>1
  <2>6. n.next_ask = owners[k].next_ask
    BY <1>3, <1>7
  <2> QED
    BY <1>3, <1>6, <2>1, <2>2, <2>3, <2>4, <2>5, <2>6, SettlementCarries
<1>10. Asked(k, id, q)'
  BY <1>2, <1>9, LenProperties DEF Carries, Grows, Asked, Owned
<1>11. ASSUME disk
       PROVE  /\ Settled(k, id, IF outcome = "granted" THEN "Grant" ELSE "DeniedByOwner")'
              /\ outcome = "granted" => Earned(q)'
  <2>1. PICK i \in DOMAIN audit' : audit'[i] = e
    BY <1>6, <1>11, LastEntry
  <2>2. Settled(k, id, IF outcome = "granted" THEN "Grant" ELSE "DeniedByOwner")'
    BY <1>4, <2>1 DEF Settled
  <2>3. outcome = "granted" => Justified(i)'
    BY <1>4, <1>9, <2>1 DEF Carries, Books, Reasons
  <2> QED
    BY <1>4, <2>1, <2>2, <2>3 DEF Earned, Granted
<1> QED
  BY <1>2, <1>9, <1>10, <1>11

\* expire: every ask that is denied for its time leaves the inbox.
LEMMA ExpiryFacts ==
  ASSUME Owned, Books, NEW k \in 1 .. Len(owners), NEW o, SameInbox(o, k), Expires(k, o),
         UNCHANGED <<running, served>>
  PROVE  Carries
<1> DEFINE n == Expired(o)
           L == Lapsed(o)
<1>1. /\ IsOwner(n) /\ n.next_ask = o.next_ask /\ DOMAIN n.pending = DOMAIN o.pending \ ExpiredIds(o)
      /\ \A i \in DOMAIN n.pending : n.pending[i] = o.pending[i]
  <2>1. /\ IsOwner(o) /\ DOMAIN n = DOMAIN o /\ n.policy = o.policy /\ n.next_ask = o.next_ask
        /\ n.pending = Without(o.pending, ExpiredIds(o))
    BY DEF SameInbox, IsOwner, Expired
  <2> HIDE DEF n
  <2>2. /\ DOMAIN n.pending = DOMAIN o.pending \ ExpiredIds(o)
        /\ \A i \in DOMAIN n.pending : n.pending[i] = o.pending[i]
    BY <2>1 DEF Without
  <2> QED
    BY <2>1, <2>2 DEF IsOwner
<1>2. disk => ExpiredIds(o) = L
  BY DEF ExpiredIds
<1>3. L \subseteq DOMAIN o.pending /\ IsFiniteSet(L)
  <2>1. L \subseteq DOMAIN o.pending
    BY DEF Lapsed
  <2>2. L \subseteq 1 .. (o.next_ask - 1) /\ o.next_ask - 1 \in Int
    BY <2>1 DEF SameInbox, IsOwner
  <2>3. IsFiniteSet(1 .. (o.next_ask - 1))
    BY <2>2, FS_Interval
  <2> HIDE DEF L
  <2>4. IsFiniteSet(L)
    BY <2>2, <2>3, FS_Subset
  <2> QED
    BY <2>1, <2>4
<1>4. Cardinality(L) \in Nat
  BY <1>3, FS_CardinalityType
<1>5. PICK ids \in Ascending(L) : record(Timeouts(k, o, ids))
  BY DEF Expires
<1>6. /\ ids \in [1 .. Cardinality(L) -> L]
      /\ \A i, j \in 1 .. Cardinality(L) : i < j => ids[i] < ids[j]
  BY DEF Ascending
<1>7. Put(k, n)
  BY DEF Expires
<1> HIDE DEF n, L
<1> DEFINE es == Timeouts(k, o, ids)
           T == {es[i] : i \in 1 .. Cardinality(L)}
<1>8. /\ DOMAIN es = 1 .. Cardinality(L) /\ es \in [1 .. Cardinality(L) -> T]
      /\ \A i \in 1 .. Cardinality(L) :
           es[i].owner = k /\ es[i].outcome = "denied" /\ es[i].ask = ids[i]
  BY <1>6 DEF Timeouts, Entry, Answer
<1> HIDE DEF es, T
<1>9. es \in Seq(T) /\ Len(es) = Cardinality(L)
  BY <1>4, <1>8
<1>10. \A i, j \in 1 .. Cardinality(L) : ids[i] = ids[j] => i = j
  <2>1. \A i \in 1 .. Cardinality(L) : ids[i] \in Int
    BY <1>3, <1>6 DEF SameInbox, IsOwner
  <2> QED
    BY <1>4, <1>6, <2>1
<1>11. o.next_ask = owners[k].next_ask /\ o.pending = owners[k].pending
  BY DEF SameInbox
<1>12. /\ \A i \in 1 .. Len(es) : /\ es[i].owner = k /\ es[i].outcome \in {"granted", "denied"}
                                  /\ es[i].ask \in DOMAIN owners[k].pending
       /\ \A i \in 1 .. Len(es) : es[i].outcome # "granted"
       /\ \A i, j \in 1 .. Len(es) : es[i].ask = es[j].ask => i = j
  BY <1>3, <1>6, <1>8, <1>9, <1>10, <1>11
<1>13. /\ \A i \in DOMAIN n.pending : i \in DOMAIN owners[k].pending /\ n.pending[i] = owners[k].pending[i]
       /\ disk => \A i \in 1 .. Len(es) : es[i].ask \notin DOMAIN n.pending
  BY <1>1, <1>2, <1>6, <1>8, <1>9, <1>11
<1>14. record(es) /\ n.next_ask = owners[k].next_ask
  BY <1>1, <1>5, <1>11 DEF es
<1> QED
  BY <1>1, <1>7, <1>9, <1>12, <1>13, <1>14, SettlementCarries

-----------------------------------------------------------------------------
(* What the log has once it has for good *)

\* An ask stays in the log.
LEMMA AskedStays ==
  ASSUME Owned, Carries, NEW k, NEW id, NEW q, Asked(k, id, q)
  PROVE  Asked(k, id, q)'
BY LenProperties DEF Carries, Grows, Asked, Owned

\* A verdict stays in the log.
LEMMA SettledStays ==
  ASSUME Owned, Carries, NEW k, NEW id, NEW reply, Settled(k, id, reply)
  PROVE  Settled(k, id, reply)'
BY LenProperties DEF Carries, Grows, Settled, Owned

\* A grant stays in the log, with its reason.
LEMMA EarnedStays ==
  ASSUME Owned, Carries, NEW q, Earned(q)
  PROVE  Earned(q)'
<1>1. PICK i \in Granted(q) : Justified(i)
  BY DEF Earned
<1>2. i \in DOMAIN audit' /\ audit'[i] = audit[i]
  BY LenProperties DEF Granted, Carries, Grows, Owned
<1>3. audit'[i].outcome = "granted" /\ audit'[i].request = q
  BY <1>2 DEF Granted
<1>4. Justified(i)'
  BY <1>2, <1>3 DEF Carries, Books, Reasons
<1> QED
  BY <1>2, <1>3, <1>4 DEF Earned, Granted

\* An answer that says what was recorded goes on saying so.
LEMMA SpeaksStays ==
  ASSUME Owned, Carries, NEW k, NEW id, NEW q, NEW a, Speaks(k, id, q, a)
  PROVE  Speaks(k, id, q, a)'
<1>1. a.reply \in {"Grant", "DeniedByOwner"} /\ Settled(k, id, a.reply)'
  BY SettledStays DEF Speaks
<1>2. a.grant # None => a.grant = q /\ Earned(q)'
  BY EarnedStays DEF Speaks
<1> QED
  BY <1>1, <1>2 DEF Speaks

\* What is true of a call that a step leaves as it is stays true.
LEMMA CallStays ==
  ASSUME Owned, Carries, NEW r, SoundCall(r)
  PROVE  SoundCall(r)'
<1>1. Len(owners) \in Nat /\ Len(owners') \in Nat /\ Len(owners) <= Len(owners')
  BY LenProperties DEF Owned, Carries
<1>2. r.ask # None => Asked(r.owner, r.ask, r.request)'
  BY AskedStays DEF SoundCall
<1>3. (r.pc = "invite" \/ r.grant # None) => Earned(r.request)'
  BY EarnedStays DEF SoundCall
<1>4. r.mail # None => Speaks(r.owner, r.ask, r.request, r.mail)'
  BY SpeaksStays DEF SoundCall
<1>5. r.ask # None /\ r.reply \in {"Grant", "DeniedByOwner"} => Settled(r.owner, r.ask, r.reply)'
  BY SettledStays DEF SoundCall
<1> QED
  BY <1>1, <1>2, <1>3, <1>4, <1>5 DEF SoundCall

\* The same of a command.
LEMMA CommandStays ==
  ASSUME Owned, Carries, NEW r, SoundCommand(r)
  PROVE  SoundCommand(r)'
<1>1. Len(owners) \in Nat /\ Len(owners') \in Nat /\ Len(owners) <= Len(owners')
  BY LenProperties DEF Owned, Carries
<1>2. ASSUME r.pc \in {"is_waiting", "answer", "send", "invite"}
      PROVE  Asked(r.owner, r.ask, r.request)' /\ Speaks(r.owner, r.ask, r.request, r.answer)'
  BY <1>2, AskedStays, SpeaksStays DEF SoundCommand
<1>3. r.pc \in {"is_waiting", "invite"} => Earned(r.request)'
  BY EarnedStays DEF SoundCommand
<1> QED
  BY <1>1, <1>2, <1>3 DEF SoundCommand

\* A step that gives a call another record.
LEMMA CallBecomes ==
  ASSUME NEW c, NEW r, call'[c] = r, SoundCall(r)'
  PROVE  CallIsSound(c)'
BY DEF CallIsSound, SoundCall, Asked, Earned, Granted, Speaks, Settled

\* A step that gives a command another record.
LEMMA CommandBecomes ==
  ASSUME NEW w, NEW r, ui'[w] = r, SoundCommand(r)'
  PROVE  CommandIsSound(w)'
BY DEF CommandIsSound, SoundCommand, Asked, Earned, Granted, Speaks, Settled

\* One call changes, into one that is sound, and the others stay.
LEMMA OneCallChanges ==
  ASSUME Owned, Carries, DOMAIN call = Calls, \A d \in Calls : CallIsSound(d),
         NEW c \in Calls, NEW r, call' = [call EXCEPT ![c] = r], SoundCall(r)'
  PROVE  \A d \in Calls : CallIsSound(d)'
<1> SUFFICES ASSUME NEW d \in Calls PROVE CallIsSound(d)'
  OBVIOUS
<1>1. CASE d = c
  BY <1>1, CallBecomes
<1>2. CASE d # c
  <2>1. PICK x : x = call[d]
    OBVIOUS
  <2>2. SoundCall(x) /\ call'[d] = x
    BY <1>2, <2>1 DEF CallIsSound
  <2>3. SoundCall(x)'
    BY <2>2, CallStays
  <2> QED
    BY <2>2, <2>3, CallBecomes
<1> QED
  BY <1>1, <1>2

\* No call changes.
LEMMA NoCallChanges ==
  ASSUME Owned, Carries, \A d \in Calls : CallIsSound(d), UNCHANGED call
  PROVE  \A d \in Calls : CallIsSound(d)'
<1> SUFFICES ASSUME NEW d \in Calls PROVE CallIsSound(d)'
  OBVIOUS
<1>1. PICK x : x = call[d]
  OBVIOUS
<1>2. SoundCall(x) /\ call'[d] = x
  BY <1>1 DEF CallIsSound
<1>3. SoundCall(x)'
  BY <1>2, CallStays
<1> QED
  BY <1>2, <1>3, CallBecomes

\* One command changes, into one that is sound, and the others stay.
LEMMA OneCommandChanges ==
  ASSUME Owned, Carries, DOMAIN ui = Windows, \A v \in Windows : CommandIsSound(v),
         NEW w \in Windows, NEW r, ui' = [ui EXCEPT ![w] = r], SoundCommand(r)'
  PROVE  \A v \in Windows : CommandIsSound(v)'
<1> SUFFICES ASSUME NEW v \in Windows PROVE CommandIsSound(v)'
  OBVIOUS
<1>1. CASE v = w
  BY <1>1, CommandBecomes
<1>2. CASE v # w
  <2>1. PICK x : x = ui[v]
    OBVIOUS
  <2>2. SoundCommand(x) /\ ui'[v] = x
    BY <1>2, <2>1 DEF CommandIsSound
  <2>3. SoundCommand(x)'
    BY <2>2, CommandStays
  <2> QED
    BY <2>2, <2>3, CommandBecomes
<1> QED
  BY <1>1, <1>2

\* No command changes.
LEMMA NoCommandChanges ==
  ASSUME Owned, Carries, \A v \in Windows : CommandIsSound(v), UNCHANGED ui
  PROVE  \A v \in Windows : CommandIsSound(v)'
<1> SUFFICES ASSUME NEW v \in Windows PROVE CommandIsSound(v)'
  OBVIOUS
<1>1. PICK x : x = ui[v]
  OBVIOUS
<1>2. SoundCommand(x) /\ ui'[v] = x
  BY <1>1 DEF CommandIsSound
<1>3. SoundCommand(x)'
  BY <1>2, CommandStays
<1> QED
  BY <1>2, <1>3, CommandBecomes

-----------------------------------------------------------------------------
(* Every step carries the owners and the log on *)

\* What a command does to an Owner besides its inbox.
LEMMA OwnerParts ==
  ASSUME Owned, NEW k \in 1 .. Len(owners), NEW x
  PROVE  /\ SameInbox(owners[k], k) /\ SameInbox([owners[k] EXCEPT !.channels = x], k)
         /\ SameInbox([owners[k] EXCEPT !.waiting = x], k)
         /\ x \in AnyPolicy => SameInbox([owners[k] EXCEPT !.policy = x], k)
<1> USE DEF SameInbox, IsOwner
<1>1. IsOwner(owners[k])
  BY DEF Owned
<1>2. SameInbox([owners[k] EXCEPT !.channels = x], k)
  BY <1>1
<1>3. SameInbox([owners[k] EXCEPT !.waiting = x], k)
  BY <1>1
<1>4. x \in AnyPolicy => SameInbox([owners[k] EXCEPT !.policy = x], k)
  BY <1>1
<1> QED
  BY <1>1, <1>2, <1>3, <1>4

\* An Owner whose inbox is as it was leaves the books in order.
LEMMA SameInboxCarries ==
  ASSUME Owned, Books, NEW k \in 1 .. Len(owners), NEW o, SameInbox(o, k), Put(k, o),
         UNCHANGED <<running, served, audit>>
  PROVE  Carries
<1>1. IsOwner(o) /\ owners[k].next_ask <= o.next_ask
  BY DEF SameInbox, IsOwner
<1>2. \A id \in DOMAIN o.pending :
        id \in DOMAIN owners[k].pending /\ o.pending[id].request = owners[k].pending[id].request
  BY DEF SameInbox
<1> QED
  BY <1>1, <1>2, PutCarries

\* So does one that only has other callers waiting.
LEMMA WaitingCarries ==
  ASSUME Owned, Books, NEW k \in 1 .. Len(owners), NEW x,
         owners' = [owners EXCEPT ![k] = [owners[k] EXCEPT !.waiting = x]],
         UNCHANGED <<running, served, audit>>
  PROVE  Carries
<1>1. PICK o : o = [owners[k] EXCEPT !.waiting = x]
  OBVIOUS
<1>2. Put(k, o) /\ SameInbox(o, k)
  BY <1>1, OwnerParts DEF Put
<1> QED
  BY <1>2, SameInboxCarries

\* The steps of a request that is under way.
LEMMA HandlersCarry ==
  ASSUME IInv, NEW c \in Calls, Handler(c)
  PROVE  Carries
<1> USE DEF IInv
<1>1. PICK k : k = call[c].owner
  OBVIOUS
<1>2. PICK q : q = call[c].request
  OBVIOUS
<1>3. call[c].pc \in {"decide", "register", "wait", "lapse"} => k \in 1 .. Len(owners) /\ q \in Requests
  BY <1>1, <1>2 DEF CallIsSound, SoundCall
<1>4. CASE HandleRequest(c)
  <2>1. PICK o : o = owners[k]
    OBVIOUS
  <2>2. k \in 1 .. Len(owners) /\ q \in Requests /\ SameInbox(o, k)
    BY <1>3, <1>4, <2>1, OwnerParts DEF HandleRequest
  <2>3. PICK left : Put(k, Asking(o, q, left))
    BY <1>1, <1>2, <1>4, <2>1 DEF HandleRequest
  <2>4. PICK ask : /\ ask = (IF Outcome(o, q) = "asked" THEN o.next_ask ELSE None)
                   /\ record(<<Entry(k, Verdict(o, q), q, ask, FALSE)>>)
    BY <1>1, <1>2, <1>4, <2>1 DEF HandleRequest
  <2>5. UNCHANGED <<running, served>>
    BY <1>4 DEF HandleRequest
  <2> QED
    BY <2>2, <2>3, <2>4, <2>5, DecisionFacts
<1>5. CASE DecideForManager(c)
  <2>1. PICK o : o = [owners[k] EXCEPT !.channels = @ \cup {q.channel}]
    OBVIOUS
  <2>2. k \in 1 .. Len(owners) /\ q \in Requests
    BY <1>3, <1>5 DEF DecideForManager
  <2>3. SameInbox(o, k)
    BY <2>1, <2>2, OwnerParts
  <2>4. PICK left : Put(k, Asking(o, q, left))
    BY <1>1, <1>2, <1>5, <2>1 DEF DecideForManager
  <2>5. PICK ask : /\ ask = (IF Outcome(o, q) = "asked" THEN o.next_ask ELSE None)
                   /\ record(<<Entry(k, Verdict(o, q), q, ask, FALSE)>>)
    <3>1. record(<<Entry(k, Verdict(o, q), q,
                         IF Outcome(o, q) = "asked" THEN o.next_ask ELSE None, FALSE)>>)
      BY <1>1, <1>2, <1>5, <2>1 DEF DecideForManager
    <3> QED
      BY <3>1
  <2>6. UNCHANGED <<running, served>>
    BY <1>5 DEF DecideForManager
  <2> QED
    BY <2>2, <2>3, <2>4, <2>5, <2>6, DecisionFacts
<1>6. CASE Register(c)
  <2>1. k \in 1 .. Len(owners) /\ UNCHANGED <<running, served, audit>>
    BY <1>3, <1>6 DEF Register
  <2>2. PICK x : owners' = [owners EXCEPT ![k] = [owners[k] EXCEPT !.waiting = x]]
    BY <1>1, <1>6 DEF Register
  <2> QED
    BY <2>1, <2>2, WaitingCarries
<1>7. CASE TimesOut(c)
  <2>1. k \in 1 .. Len(owners) /\ UNCHANGED <<running, served, audit>>
    BY <1>3, <1>7 DEF TimesOut
  <2>2. PICK x : owners' = [owners EXCEPT ![k] = [owners[k] EXCEPT !.waiting = x]]
    BY <1>1, <1>7 DEF TimesOut
  <2> QED
    BY <2>1, <2>2, WaitingCarries
<1>8. CASE Lapse(c)
  <2>1. PICK o : o = owners[k]
    OBVIOUS
  <2>2. k \in 1 .. Len(owners) /\ SameInbox(o, k)
    BY <1>3, <1>8, <2>1, OwnerParts DEF Lapse
  <2>3. Expires(k, o) /\ UNCHANGED <<running, served>>
    BY <1>1, <1>8, <2>1 DEF Lapse
  <2> QED
    BY <2>2, <2>3, ExpiryFacts
<1>9. ASSUME NEW ok \in BOOLEAN, InviteGranted(c, ok) PROVE Carries
  BY <1>9, StillCarries DEF InviteGranted
<1>10. CASE LookUp(c) \/ Listing(c) \/ Answered(c)
  BY <1>10, StillCarries DEF LookUp, Listing, Answered
<1> QED
  BY <1>4, <1>5, <1>6, <1>7, <1>8, <1>9, <1>10 DEF Handler

\* The steps of a command that is under way.
LEMMA CommandsCarry ==
  ASSUME IInv, NEW w \in Windows, Command(w)
  PROVE  Carries
<1> USE DEF IInv
<1>1. PICK k : k = running
  OBVIOUS
<1>2. PICK j : j = ui[w].owner
  OBVIOUS
<1>3. /\ ui[w].pc = "held" => k \in 1 .. Len(owners)
      /\ ui[w].pc \in {"answer", "serve", "publish"} => j \in 1 .. Len(owners)
      /\ Len(owners) \in Nat
  <2>1. Len(owners) \in Nat /\ k \in 0 .. Len(owners)
    BY <1>1, LenProperties DEF Owned
  <2> QED
    BY <1>1, <1>2, <2>1 DEF Held, Kinds, CommandIsSound, SoundCommand
<1>4. PICK o : o = HoldOnly(owners[k])
  OBVIOUS
<1>5. k \in 1 .. Len(owners) => SameInbox(o, k)
  BY <1>4, OwnerParts DEF HoldOnly
<1>6. CASE StartServes(w)
  <2>1. UNCHANGED <<owners, audit, running>> /\ served' \in 0 .. Len(owners)
    BY <1>2, <1>3, <1>6 DEF StartServes, Owned
  <2>2. Owned' /\ Quiet
    BY <1>3, <2>1 DEF Owned, Quiet, IsOwner
  <2> QED
    BY <2>2, QuietCarries
<1>7. CASE StartPublishes(w)
  <2>1. UNCHANGED <<owners, audit, served>> /\ running' \in 0 .. Len(owners)
    BY <1>2, <1>3, <1>7 DEF StartPublishes, Owned
  <2>2. Owned' /\ Quiet
    BY <1>3, <2>1 DEF Owned, Quiet, IsOwner
  <2> QED
    BY <2>2, QuietCarries
<1>8. CASE owner_status(w)
  <2>1. k \in 1 .. Len(owners) /\ Put(k, o) /\ UNCHANGED <<running, served, audit>>
    BY <1>1, <1>3, <1>4, <1>8 DEF owner_status, Holding
  <2> QED
    BY <1>5, <2>1, SameInboxCarries
<1>9. CASE owner_pending(w)
  <2>1. k \in 1 .. Len(owners) /\ Expires(k, o) /\ UNCHANGED <<running, served>>
    BY <1>1, <1>3, <1>4, <1>9 DEF owner_pending, Holding
  <2> QED
    BY <1>5, <2>1, ExpiryFacts
<1>10. ASSUME NEW outcome \in {"granted", "denied"}, ui[w].pc = "held", Settles(w, outcome),
              UNCHANGED <<running, served>>
       PROVE  Carries
  <2>1. PICK id : id = ui[w].ask
    OBVIOUS
  <2>2. k \in 1 .. Len(owners) /\ SameInbox(o, k)
    BY <1>3, <1>5, <1>10
  <2>3. CASE Live(o, id)
    <3>1. PICK q : q = o.pending[id].request
      OBVIOUS
    <3>2. id \in DOMAIN o.pending
      BY <2>3 DEF Live
    <3>3. /\ Put(k, Taken(o, id))
          /\ record(<<Entry(k, Answer(outcome, "Owner"), q, id, o.pending[id].left = 0)>>)
      BY <1>1, <1>4, <1>10, <2>1, <2>3, <3>1, <3>2 DEF Settles
    <3> QED
      BY <1>10, <2>2, <2>3, <3>1, <3>3, AnswerFacts
  <2>4. CASE ~Live(o, id) /\ id \in DOMAIN o.pending
    <3>1. Expires(k, o)
      BY <1>1, <1>4, <1>10, <2>1, <2>4 DEF Settles
    <3> QED
      BY <1>10, <2>2, <3>1, ExpiryFacts
  <2>5. CASE ~Live(o, id) /\ id \notin DOMAIN o.pending
    <3>1. Put(k, o) /\ UNCHANGED audit
      BY <1>1, <1>4, <1>10, <2>1, <2>5 DEF Settles
    <3> QED
      BY <1>10, <2>2, <3>1, SameInboxCarries
  <2> QED
    BY <2>3, <2>4, <2>5
<1>11. CASE owner_approve(w)
  BY <1>10, <1>11 DEF owner_approve, Holding
<1>12. CASE owner_deny(w)
  BY <1>10, <1>12 DEF owner_deny, Holding
<1>13. CASE TakeSender(w)
  <2>1. j \in 1 .. Len(owners) /\ UNCHANGED <<running, served, audit>>
    BY <1>3, <1>13 DEF TakeSender
  <2>2. PICK x : owners' = [owners EXCEPT ![j] = [owners[j] EXCEPT !.waiting = x]]
    BY <1>2, <1>13 DEF TakeSender
  <2> QED
    BY <2>1, <2>2, WaitingCarries
<1>14. CASE PolicySet(w)
  <2>1. CASE running = 0
    BY <1>14, <2>1, StillCarries DEF PolicySet, ownerVars
  <2>2. CASE running # 0
    <3>1. k \in 1 .. Len(owners)
      BY <1>1, <1>3, <2>2 DEF Owned
    <3>2. PICK n : n = [owners[k] EXCEPT !.policy = ui[w].arg]
      OBVIOUS
    <3>3. SameInbox(n, k)
      BY <1>14, <3>1, <3>2, OwnerParts DEF PolicySet, Kinds
    <3>4. Put(k, n) /\ UNCHANGED <<running, served, audit>>
      BY <1>1, <1>14, <2>2, <3>2 DEF PolicySet, Put
    <3> QED
      BY <3>1, <3>3, <3>4, SameInboxCarries
  <2> QED
    BY <2>1, <2>2
<1>15. ASSUME NEW ok \in BOOLEAN, InviteApproved(w, ok) \/ JoinEnds(w, ok) PROVE Carries
  BY <1>15, StillCarries DEF InviteApproved, JoinEnds
<1>16. CASE StartReports(w) \/ IsWaiting(w) \/ SendAnswer(w) \/ ManagerReplied(w)
  BY <1>16, StillCarries DEF StartReports, IsWaiting, SendAnswer, ManagerReplied
<1> QED
  BY <1>6, <1>7, <1>8, <1>9, <1>11, <1>12, <1>13, <1>14, <1>15, <1>16 DEF Command

\* Every owner may change, but not the numbers of its asks or what was asked.
LEMMA EveryOwnerCarries ==
  ASSUME Owned, Books, UNCHANGED audit, running' \in 0 .. Len(owners), served' \in 0 .. Len(owners),
         owners' \in [1 .. Len(owners) -> Range(owners')],
         \A k \in 1 .. Len(owners) :
            /\ IsOwner(owners'[k]) /\ owners'[k].next_ask = owners[k].next_ask
            /\ \A id \in DOMAIN owners'[k].pending :
                 /\ id \in DOMAIN owners[k].pending
                 /\ owners'[k].pending[id].request = owners[k].pending[id].request
  PROVE  Carries
<1>1. Len(owners) \in Nat
  BY LenProperties DEF Owned
<1>2. owners' \in Seq(Range(owners')) /\ Len(owners') = Len(owners)
  BY <1>1
<1>3. Owned'
  BY <1>2 DEF Owned
<1>4. Quiet
  BY <1>1, <1>2 DEF Quiet, IsOwner
<1> QED
  BY <1>3, <1>4, QuietCarries

\* Requests that arrive, what humans begin, the clock and the faults.
LEMMA EnvironmentCarries ==
  ASSUME IInv, Environment \/ Tick
  PROVE  Carries
<1> USE DEF IInv
<1>1. Len(owners) \in Nat /\ DOMAIN owners = 1 .. Len(owners)
  BY LenProperties DEF Owned
<1>2. ASSUME NEW w \in Windows, StartLoads(w) PROVE Carries
  <2>1. PICK n : n = [policy |-> saved, channels |-> held_channels, pending |-> <<>>,
                      next_ask |-> 1, waiting |-> {}]
    OBVIOUS
  <2>2. IsOwner(n) /\ DOMAIN n.pending = {}
    BY <2>1 DEF IsOwner, Kinds
  <2>3. PICK S : S = Range(owners) \cup {n}
    OBVIOUS
  <2>4. owners \in Seq(S) /\ n \in S
    BY <2>3, SeqMonotonic DEF Owned
  <2>5. owners' = Append(owners, n) /\ UNCHANGED <<running, served, audit>>
    BY <1>2, <2>1 DEF StartLoads
  <2>6. /\ owners' \in Seq(S) /\ Len(owners') = Len(owners) + 1
        /\ owners'[Len(owners) + 1] = n
        /\ \A k \in 1 .. Len(owners) : owners'[k] = owners[k]
    BY <2>4, <2>5, AppendProperties
  <2>7. Owned'
    <3>1. owners' \in Seq(Range(owners'))
      BY <2>6, SeqOfRange
    <3> QED
      BY <1>1, <2>2, <2>5, <2>6, <3>1 DEF Owned
  <2>8. Quiet
    <3>1. audit' = audit /\ Len(owners) <= Len(owners')
      BY <1>1, <2>5, <2>6
    <3>2. \A k \in 1 .. Len(owners) : owners[k].next_ask <= owners'[k].next_ask
      BY <1>1, <2>6 DEF Owned, IsOwner
    <3>3. \A k \in 1 .. Len(owners') : k \in 1 .. Len(owners) \/ k = Len(owners) + 1
      BY <1>1, <2>6
    <3>4. DOMAIN owners'[Len(owners) + 1].pending = {}
      BY <2>2, <2>6
    <3> QED
      BY <2>6, <3>1, <3>2, <3>3, <3>4 DEF Quiet
  <2> QED
    BY <2>7, <2>8, QuietCarries
<1>3. CASE Tick
  <2>1. owners' \in [1 .. Len(owners) -> Range(owners')] /\ UNCHANGED <<running, served, audit>>
    BY <1>1, <1>3 DEF Tick, Range
  <2>2. ASSUME NEW k \in 1 .. Len(owners)
        PROVE  /\ IsOwner(owners'[k]) /\ owners'[k].next_ask = owners[k].next_ask
               /\ \A id \in DOMAIN owners'[k].pending :
                    /\ id \in DOMAIN owners[k].pending
                    /\ owners'[k].pending[id].request = owners[k].pending[id].request
    <3>1. IsOwner(owners[k])
      BY DEF Owned
    <3>2. PICK o : o = owners[k]
      OBVIOUS
    <3>3. owners'[k] = Aged(o)
      BY <1>1, <1>3, <3>2 DEF Tick
    <3>4. /\ DOMAIN Aged(o) = DOMAIN o /\ DOMAIN Aged(o).pending = DOMAIN o.pending
          /\ Aged(o).next_ask = o.next_ask /\ Aged(o).policy = o.policy
      BY <3>1, <3>2 DEF IsOwner, Aged
    <3>5. \A id \in DOMAIN o.pending : /\ DOMAIN Aged(o).pending[id] = DOMAIN o.pending[id]
                                       /\ Aged(o).pending[id].request = o.pending[id].request
      BY <3>1, <3>2 DEF IsOwner, Aged
    <3> QED
      BY <3>1, <3>2, <3>3, <3>4, <3>5 DEF IsOwner
  <2>3. running' \in 0 .. Len(owners) /\ served' \in 0 .. Len(owners) /\ UNCHANGED audit
    BY <2>1 DEF Owned
  <2> QED
    BY <2>1, <2>2, <2>3, EveryOwnerCarries
<1>4. CASE Restart
  <2>1. owners' \in [1 .. Len(owners) -> Range(owners')]
    BY <1>1, <1>4 DEF Restart, Range
  <2>2. ASSUME NEW k \in 1 .. Len(owners)
        PROVE  /\ IsOwner(owners'[k]) /\ owners'[k].next_ask = owners[k].next_ask
               /\ \A id \in DOMAIN owners'[k].pending :
                    /\ id \in DOMAIN owners[k].pending
                    /\ owners'[k].pending[id].request = owners[k].pending[id].request
    <3>1. IsOwner(owners[k])
      BY DEF Owned
    <3>2. owners'[k] = [owners[k] EXCEPT !.pending = <<>>, !.waiting = {}]
      BY <1>1, <1>4 DEF Restart
    <3>3. /\ DOMAIN owners'[k] = DOMAIN owners[k] /\ owners'[k].pending = <<>>
          /\ owners'[k].next_ask = owners[k].next_ask /\ owners'[k].policy = owners[k].policy
      BY <3>1, <3>2 DEF IsOwner
    <3>4. DOMAIN owners'[k].pending = {}
      BY <3>3
    <3> QED
      BY <3>1, <3>3, <3>4 DEF IsOwner
  <2>3. running' \in 0 .. Len(owners) /\ served' \in 0 .. Len(owners) /\ UNCHANGED audit
    <3>1. running' = 0 /\ served' = 0 /\ UNCHANGED audit
      BY <1>4 DEF Restart
    <3> QED
      BY <1>1, <3>1
  <2> QED
    BY <2>1, <2>2, <2>3, EveryOwnerCarries
<1>5. CASE DiskFills
  BY <1>5, StillCarries DEF DiskFills
<1>6. ASSUME NEW c \in Calls, NEW m, AgentAsks(c, m) \/ ManagerAsks(c, m) PROVE Carries
  BY <1>6, StillCarries DEF AgentAsks, ManagerAsks
<1>7. ASSUME NEW w \in Windows, NEW cmd, NEW x, with_owner(w, cmd, x) \/ ManagerCalled(w, cmd, x)
      PROVE  Carries
  BY <1>7, StillCarries DEF with_owner, ManagerCalled
<1>8. ASSUME NEW w \in Windows, NEW ch, NEW x,
             \/ PolicyWritten(w, x) \/ slim_group_create(w, ch, x) \/ slim_group_invite(w, ch, x)
             \/ slim_group_remove_member(w, ch, x) \/ slim_group_forget(w, ch) \/ JoinBegins(w, ch)
             \/ channel_manager_configure(w)
      PROVE  Carries
  BY <1>8, StillCarries DEF PolicyWritten, slim_group_create, slim_group_invite,
       slim_group_remove_member, slim_group_forget, ChangesRoom, JoinBegins, channel_manager_configure
<1>9. ASSUME NEW w \in Windows, Human(w) PROVE Carries
  BY <1>2, <1>7, <1>8, <1>9 DEF Human
<1> QED
  BY <1>3, <1>4, <1>5, <1>6, <1>9 DEF Environment

\* The owners, their inboxes and the log, over every step.
LEMMA StepCarries ==
  ASSUME IInv, [Next]_vars
  PROVE  Carries
<1>1. CASE UNCHANGED vars
  BY <1>1, StillCarries DEF IInv, vars
<1> QED
  BY <1>1, HandlersCarry, CommandsCarry, EnvironmentCarries DEF Next, System

-----------------------------------------------------------------------------
(* Rooms *)

Rooms == [Channels -> KnownRooms \cup {None}]

\* What is true of the rooms when it is true that facts were reported.
Keeps(r, facts) ==
  \A f \in facts : f.channel \in Channels /\ Holds(f, r[f.channel])

\* A restart keeps the rooms and who was admitted to them.
LEMMA ReloadFacts ==
  ASSUME NEW r \in Rooms, NEW facts, Keeps(r, facts)
  PROVE  Reload(r) \in Rooms /\ Keeps(Reload(r), facts)
<1>1. ASSUME NEW ch \in Channels, r[ch] # None
      PROVE  /\ Reload(r)[ch] = [r[ch] EXCEPT !.live = FALSE] /\ Reload(r)[ch] \in KnownRooms
             /\ Reload(r)[ch].admitted = r[ch].admitted
  <2>1. r[ch] \in KnownRooms
    BY <1>1 DEF Rooms
  <2>2. Reload(r)[ch] = [r[ch] EXCEPT !.live = FALSE]
    BY <1>1 DEF Reload
  <2> QED
    BY <2>1, <2>2 DEF KnownRooms
<1>2. \A ch \in Channels : r[ch] = None => Reload(r)[ch] = None
  BY DEF Reload
<1>3. Reload(r) = [ch \in Channels |-> Reload(r)[ch]]
  BY DEF Reload
<1>4. Reload(r) \in Rooms
  BY <1>1, <1>2, <1>3 DEF Rooms
<1>5. Keeps(Reload(r), facts)
  <2>1. \A ch \in Channels : /\ (Reload(r)[ch] = None) = (r[ch] = None)
                             /\ r[ch] # None => Reload(r)[ch].admitted = r[ch].admitted
    BY <1>1, <1>2, NoneIsApart
  <2> QED
    BY <2>1 DEF Keeps, Holds
<1> QED
  BY <1>4, <1>5

\* A room changes and is stored, or cannot be: what is reported of it is true
\* of the rooms, and of a store that can be read.
LEMMA ChangeIsKept ==
  ASSUME Told, NEW new \in Rooms, NEW facts, Keeps(new, facts),
         rooms' = new, persist(new), Done(facts)
  PROVE  Told'
<1>1. /\ rooms \in Rooms /\ store \in Rooms /\ Keeps(rooms, told)
      /\ "rooms" \notin torn => Keeps(store, told)
  BY DEF Told, Rooms, Keeps
<1>2. ASSUME rooms' \in Rooms, store' \in Rooms, Keeps(rooms', told'),
             "rooms" \notin torn' => Keeps(store', told')
      PROVE  Told'
  BY <1>2 DEF Told, Rooms, Keeps, Holds
<1>3. CASE disk
  <2>1. store' = Reload(new) /\ told' = facts
    BY <1>3 DEF persist, Done
  <2>2. Reload(new) \in Rooms /\ Keeps(Reload(new), facts)
    BY ReloadFacts
  <2> QED
    BY <1>2, <2>1, <2>2
<1>4. CASE ~disk
  <2>1. store' = store /\ told' = told \cap facts /\ ("rooms" \in torn => "rooms" \in torn')
    BY <1>4 DEF persist, Done, Written
  <2>2. Keeps(new, told \cap facts) /\ ("rooms" \notin torn => Keeps(store, told \cap facts))
    BY <1>1 DEF Keeps
  <2> QED
    BY <1>1, <1>2, <2>1, <2>2
<1> QED
  BY <1>3, <1>4

\* invite_members: whoever had the name before has it no more.
LEMMA InviteIsKept ==
  ASSUME Told, NEW channel \in Channels, NEW member \in Invitees, rooms[channel] # None,
         Invites(channel, member)
  PROVE  Told'
<1> DEFINE new == [rooms EXCEPT ![channel].admitted = {m \in @ : m.name # member.name} \cup {member}]
           facts == {f \in told : f.channel # channel \/ f.member = None \/ f.member.name # member.name}
                      \cup {Fact(channel, member, TRUE)}
<1>1. rooms' = new /\ persist(new) /\ Done(facts)
  BY DEF Invites
<1>2. rooms \in Rooms /\ rooms[channel] \in KnownRooms
  BY DEF Told, Rooms
<1>3. /\ new[channel] \in KnownRooms
      /\ new[channel].admitted = {m \in rooms[channel].admitted : m.name # member.name} \cup {member}
  BY <1>2 DEF KnownRooms, Rooms
<1>4. \A ch \in Channels : ch # channel => new[ch] = rooms[ch]
  BY <1>2 DEF Rooms
<1>5. DOMAIN new = Channels /\ new = [ch \in Channels |-> new[ch]]
  BY <1>2 DEF Rooms
<1> HIDE DEF new
<1>6. new \in Rooms
  BY <1>2, <1>3, <1>4, <1>5 DEF Rooms
<1>7. Keeps(new, facts)
  <2>1. ASSUME NEW f \in told, f.channel # channel \/ f.member = None \/ f.member.name # member.name
        PROVE  f.channel \in Channels /\ Holds(f, new[f.channel])
    <3>1. f.channel \in Channels /\ Holds(f, rooms[f.channel])
      BY DEF Told
    <3>2. CASE f.channel # channel
      BY <1>4, <3>1, <3>2
    <3>3. CASE f.channel = channel
      <4>1. f.member # None =>
              (f.member \in new[channel].admitted <=> f.member \in rooms[channel].admitted)
        BY <1>3, <2>1, <3>3
      <4>2. new[channel] # None
        BY <1>3, NoneIsApart
      <4> QED
        BY <3>1, <3>3, <4>1, <4>2 DEF Holds
    <3> QED
      BY <3>2, <3>3
  <2>2. PICK g : g = Fact(channel, member, TRUE)
    OBVIOUS
  <2>3. g.channel \in Channels /\ Holds(g, new[g.channel])
    BY <1>3, <2>2, NoneIsApart DEF Fact, Holds
  <2> QED
    BY <2>1, <2>2, <2>3 DEF Keeps
<1> HIDE DEF facts
<1> QED
  BY <1>1, <1>6, <1>7, ChangeIsKept

\* A command that gives a channel another room, or none.
LEMMA RoomIsKept ==
  ASSUME Told, NEW w, NEW channel \in Channels, NEW room \in KnownRooms \cup {None}, NEW facts,
         ChangesRoom(w, channel, room, facts),
         \A f \in facts : \/ f \in told /\ f.channel # channel
                          \/ f.channel = channel /\ Holds(f, room)
  PROVE  Told'
<1> DEFINE new == [rooms EXCEPT ![channel] = room]
<1>1. rooms' = new /\ persist(new) /\ Done(facts)
  BY DEF ChangesRoom
<1>2. rooms \in Rooms
  BY DEF Told, Rooms
<1>3. new \in Rooms /\ new[channel] = room /\ \A ch \in Channels : ch # channel => new[ch] = rooms[ch]
  BY <1>2 DEF Rooms
<1> HIDE DEF new
<1>4. Keeps(new, facts)
  BY <1>3 DEF Keeps, Told
<1> QED
  BY <1>1, <1>3, <1>4, ChangeIsKept

\* What was reported of the rooms, over every step.
LEMMA StepKeepsRooms ==
  ASSUME IInv, [Next]_vars
  PROVE  Told'
<1> USE DEF IInv
<1>1. ASSUME UNCHANGED roomVars PROVE Told'
  BY <1>1 DEF roomVars, Told
<1>2. ASSUME NEW q \in Requests, Invitable(q), Invites(q.channel, Member(q)) PROVE Told'
  <2>1. q.channel \in Channels /\ Member(q) \in Invitees /\ rooms[q.channel] # None
    BY <1>2, RequestsNameChannels DEF Invitees, Invitable
  <2> QED
    BY <1>2, <2>1, InviteIsKept
<1>3. ASSUME NEW c \in Calls, NEW ok \in BOOLEAN, InviteGranted(c, ok) PROVE Told'
  <2>1. call[c].request \in Requests
    BY <1>3 DEF InviteGranted, CallIsSound, SoundCall
  <2>2. \/ Invitable(call[c].request) /\ Invites(call[c].request.channel, Member(call[c].request))
        \/ UNCHANGED roomVars
    BY <1>3 DEF InviteGranted
  <2> QED
    BY <1>1, <1>2, <2>1, <2>2
<1>4. ASSUME NEW w \in Windows, NEW ok \in BOOLEAN, InviteApproved(w, ok) PROVE Told'
  <2>1. ui[w].request \in Requests
    BY <1>4 DEF InviteApproved, CommandIsSound, SoundCommand
  <2>2. \/ Invitable(ui[w].request) /\ Invites(ui[w].request.channel, Member(ui[w].request))
        \/ UNCHANGED roomVars
    BY <1>4 DEF InviteApproved
  <2> QED
    BY <1>1, <1>2, <2>1, <2>2
<1>5. ASSUME NEW w \in Windows, NEW ok \in BOOLEAN, JoinEnds(w, ok) PROVE Told'
  <2>1. CASE ok
    <3> DEFINE channel == ui[w].arg
               room == IF rooms[channel] = None
                       THEN [moderator |-> FALSE, live |-> TRUE, admitted |-> {}]
                       ELSE [rooms[channel] EXCEPT !.live = TRUE]
               new == [rooms EXCEPT ![channel] = room]
               facts == {f \in told : f.channel # channel \/ f.member # None}
                          \cup {Fact(channel, None, TRUE)}
    <3>1. channel \in Channels
      BY <1>5 DEF JoinEnds, Kinds
    <3>2. rooms' = new /\ persist(new) /\ Done(facts)
      BY <1>5, <2>1 DEF JoinEnds
    <3>3. rooms \in Rooms
      BY DEF Told, Rooms
    <3>4. /\ room \in KnownRooms
          /\ rooms[channel] # None => room.admitted = rooms[channel].admitted
          /\ rooms[channel] = None => room.admitted = {}
      BY <3>1, <3>3 DEF Rooms, KnownRooms
    <3> HIDE DEF room
    <3>5. /\ new \in Rooms /\ new[channel] = room
          /\ \A ch \in Channels : ch # channel => new[ch] = rooms[ch]
      BY <3>1, <3>3, <3>4 DEF Rooms
    <3> HIDE DEF new
    <3>6. Keeps(new, facts)
      <4>1. ASSUME NEW f \in told, f.channel # channel \/ f.member # None
            PROVE  f.channel \in Channels /\ Holds(f, new[f.channel])
        <5>1. f.channel \in Channels /\ Holds(f, rooms[f.channel])
          BY DEF Told
        <5>2. CASE f.channel # channel
          BY <3>5, <5>1, <5>2
        <5>3. CASE f.channel = channel
          <6>1. new[channel] = room /\ room # None
            BY <3>4, <3>5, NoneIsApart
          <6> QED
            BY <3>4, <4>1, <5>1, <5>3, <6>1 DEF Holds
        <5> QED
          BY <5>2, <5>3
      <4>2. PICK g : g = Fact(channel, None, TRUE)
        OBVIOUS
      <4>3. g.channel \in Channels /\ Holds(g, new[g.channel])
        BY <3>1, <3>4, <3>5, <4>2, NoneIsApart DEF Fact, Holds
      <4> QED
        BY <4>1, <4>2, <4>3 DEF Keeps
    <3> HIDE DEF facts
    <3> QED
      BY <3>2, <3>5, <3>6, ChangeIsKept
  <2>2. CASE ~ok
    BY <1>1, <1>5, <2>2 DEF JoinEnds
  <2> QED
    BY <2>1, <2>2
<1>6. ASSUME NEW w \in Windows, NEW channel \in Channels, NEW members \in SUBSET Members,
             slim_group_create(w, channel, members)
      PROVE  Told'
  <2>1. PICK room : room = [moderator |-> TRUE, live |-> TRUE, admitted |-> members]
    OBVIOUS
  <2>2. PICK facts : facts = NotOf(channel)
                            \cup {Fact(channel, m, TRUE) : m \in members \cup {None}}
    OBVIOUS
  <2>3. room \in KnownRooms
    BY <2>1 DEF KnownRooms, Invitees
  <2>4. \A f \in facts : \/ f \in told /\ f.channel # channel
                         \/ f.channel = channel /\ Holds(f, room)
    <3>1. \A m \in members \cup {None} :
            Fact(channel, m, TRUE).channel = channel /\ Holds(Fact(channel, m, TRUE), room)
      BY <2>1, <2>3, NoneIsApart DEF Fact, Holds
    <3> QED
      BY <2>2, <3>1 DEF NotOf
  <2>5. ChangesRoom(w, channel, room, facts)
    BY <1>6, <2>1, <2>2 DEF slim_group_create
  <2> QED
    BY <2>3, <2>4, <2>5, RoomIsKept
<1>7. ASSUME NEW w \in Windows, NEW channel \in Channels, NEW member \in Members,
             slim_group_invite(w, channel, member)
      PROVE  Told'
  BY <1>7, InviteIsKept DEF slim_group_invite, Invitees
<1>8. ASSUME NEW w \in Windows, NEW channel \in Channels, NEW m, slim_group_remove_member(w, channel, m)
      PROVE  Told'
  <2>1. PICK room : room = [rooms[channel] EXCEPT !.admitted = @ \ {m}]
    OBVIOUS
  <2>2. PICK facts : facts = {f \in told : f.channel # channel \/ f.member # m}
                            \cup {Fact(channel, m, FALSE)}
    OBVIOUS
  <2>3. rooms[channel] \in KnownRooms
    BY <1>8 DEF slim_group_remove_member, Told
  <2>4. room \in KnownRooms /\ room.admitted = rooms[channel].admitted \ {m}
    BY <2>1, <2>3 DEF KnownRooms
  <2>5. \A f \in facts : \/ f \in told /\ f.channel # channel
                         \/ f.channel = channel /\ Holds(f, room)
    <3>1. room # None /\ m # None
      BY <1>8, <2>3, <2>4, NoneIsApart DEF slim_group_remove_member, KnownRooms
    <3>2. ASSUME NEW f \in told, f.channel = channel, f.member # m PROVE Holds(f, room)
      <4>1. Holds(f, rooms[channel]) /\ rooms[channel] # None
        BY <1>8, <3>2 DEF Told, slim_group_remove_member
      <4> QED
        BY <2>4, <3>1, <3>2, <4>1 DEF Holds
    <3>3. Fact(channel, m, FALSE).channel = channel /\ Holds(Fact(channel, m, FALSE), room)
      BY <2>4, <3>1 DEF Fact, Holds
    <3> QED
      BY <2>2, <3>2, <3>3
  <2>6. ChangesRoom(w, channel, room, facts)
    BY <1>8, <2>1, <2>2 DEF slim_group_remove_member
  <2> QED
    BY <2>4, <2>5, <2>6, RoomIsKept
<1>9. ASSUME NEW w \in Windows, NEW channel \in Channels, slim_group_forget(w, channel) PROVE Told'
  <2>1. PICK facts : facts = NotOf(channel) \cup {Fact(channel, None, FALSE)}
    OBVIOUS
  <2>2. \A f \in facts : \/ f \in told /\ f.channel # channel
                         \/ f.channel = channel /\ Holds(f, None)
    <3>1. Fact(channel, None, FALSE).channel = channel /\ Holds(Fact(channel, None, FALSE), None)
      BY DEF Fact, Holds
    <3> QED
      BY <2>1, <3>1 DEF NotOf
  <2>3. ChangesRoom(w, channel, None, facts)
    BY <1>9, <2>1 DEF slim_group_forget
  <2> QED
    BY <2>2, <2>3, RoomIsKept
<1>10. CASE Restart
  <2>1. store' = store /\ ("rooms" \in torn => "rooms" \in torn') /\ store \in Rooms
    BY <1>10 DEF Restart, Told, Rooms
  <2>2. CASE "rooms" \in torn'
    <3>1. rooms' = NoRooms /\ told' = {}
      BY <1>10, <2>2 DEF Restart
    <3> QED
      BY <2>1, <3>1 DEF Told, Rooms, NoRooms
  <2>3. CASE "rooms" \notin torn'
    <3>1. rooms' = Reload(store) /\ told' = told
      BY <1>10, <2>3 DEF Restart
    <3>2. Keeps(store, told)
      BY <2>1, <2>3 DEF Told, Keeps
    <3>3. Reload(store) \in Rooms /\ Keeps(Reload(store), told)
      BY <2>1, <3>2, ReloadFacts
    <3> QED
      BY <2>1, <3>1, <3>2, <3>3 DEF Told, Rooms, Keeps, Holds
  <2> QED
    BY <2>2, <2>3
<1>11. ASSUME NEW c \in Calls, NEW m,
              \/ HandleRequest(c) \/ LookUp(c) \/ Listing(c) \/ DecideForManager(c) \/ Register(c)
              \/ Answered(c) \/ TimesOut(c) \/ Lapse(c) \/ AgentAsks(c, m) \/ ManagerAsks(c, m)
       PROVE  UNCHANGED roomVars
  BY <1>11 DEF HandleRequest, LookUp, Listing, DecideForManager, Register, Answered, TimesOut, Lapse,
       AgentAsks, ManagerAsks
<1>12. ASSUME NEW w \in Windows,
              \/ StartServes(w) \/ StartPublishes(w) \/ StartReports(w) \/ owner_status(w)
              \/ owner_pending(w) \/ owner_approve(w) \/ owner_deny(w) \/ IsWaiting(w)
              \/ TakeSender(w) \/ SendAnswer(w) \/ PolicySet(w) \/ ManagerReplied(w)
       PROVE  UNCHANGED roomVars
  BY <1>12 DEF StartServes, StartPublishes, StartReports, owner_status, owner_pending, owner_approve,
       owner_deny, IsWaiting, TakeSender, SendAnswer, PolicySet, ManagerReplied
<1>13. ASSUME NEW w \in Windows, NEW cmd, NEW x,
              \/ StartLoads(w) \/ with_owner(w, cmd, x) \/ JoinBegins(w, x) \/ ManagerCalled(w, cmd, x)
       PROVE  UNCHANGED roomVars
  BY <1>13 DEF StartLoads, with_owner, JoinBegins, ManagerCalled
<1>19. ASSUME NEW w \in Windows, NEW x, PolicyWritten(w, x) \/ channel_manager_configure(w)
       PROVE  Told'
  <2>1. UNCHANGED <<rooms, store, told>> /\ ("rooms" \in torn => "rooms" \in torn')
    BY <1>19 DEF PolicyWritten, channel_manager_configure, Written
  <2> QED
    BY <2>1 DEF Told
<1>14. CASE Tick \/ DiskFills \/ UNCHANGED vars
  BY <1>1, <1>14 DEF Tick, DiskFills, vars
<1>15. ASSUME NEW c \in Calls, Handler(c) PROVE Told'
  BY <1>1, <1>3, <1>11, <1>15 DEF Handler
<1>16. ASSUME NEW w \in Windows, Command(w) PROVE Told'
  BY <1>1, <1>4, <1>5, <1>12, <1>16 DEF Command
<1>17. ASSUME NEW w \in Windows, Human(w) PROVE Told'
  BY <1>1, <1>6, <1>7, <1>8, <1>9, <1>13, <1>17, <1>19 DEF Human
<1>18. CASE Environment
  BY <1>1, <1>10, <1>11, <1>14, <1>17, <1>18 DEF Environment
<1> QED
  BY <1>14, <1>15, <1>16, <1>18 DEF Next, System

-----------------------------------------------------------------------------
(* Calls *)

\* What a call that is over leaves says no more than the call did.
LEMMA OverIsSound ==
  ASSUME NEW r, DOMAIN r = CallFields, SoundCall(r)'
  PROVE  SoundCall(Over(r))'
BY DEF SoundCall, Over, CallFields

\* The steps of a request that is under way leave every call sound.
LEMMA HandlersKeepCalls ==
  ASSUME IInv, Carries, NEW c \in Calls, Handler(c)
  PROVE  \A d \in Calls : CallIsSound(d)'
<1> USE DEF IInv
<1>0. PICK r : r = call[c]
  OBVIOUS
<1>1. PICK k : k = r.owner
  OBVIOUS
<1>2. PICK q : q = r.request
  OBVIOUS
<1>3. DOMAIN r = CallFields /\ SoundCall(r) /\ DOMAIN call = Calls
  BY <1>0 DEF Kinds, CallIsSound, CallFields
<1>4. SoundCall(r)' /\ SoundCall(Over(r))'
  BY <1>3, CallStays, OverIsSound
<1>5. ASSUME NEW x, call' = [call EXCEPT ![c] = x], SoundCall(x)'
      PROVE  \A d \in Calls : CallIsSound(d)'
  BY <1>3, <1>5, OneCallChanges
<1>6. ASSUME NEW reply, Replies(c, reply), r.ask = None \/ reply \notin {"Grant", "DeniedByOwner"}
      PROVE  \A d \in Calls : CallIsSound(d)'
  <2>1. PICK x : x = [Over(r) EXCEPT !.reply = reply]
    OBVIOUS
  <2>2. SoundCall(x)'
    BY <1>3, <1>4, <1>6, <2>1 DEF SoundCall, Over, CallFields
  <2>3. call' = [call EXCEPT ![c] = x]
    BY <1>0, <1>6, <2>1 DEF Replies
  <2> QED
    BY <1>5, <2>2, <2>3
<1>7. CASE HandleRequest(c)
  <2>1. PICK o : o = owners[k]
    OBVIOUS
  <2>2. k \in 1 .. Len(owners) /\ q \in Requests /\ SameInbox(o, k) /\ r.pc = "decide" /\ r.ask = None
    BY <1>0, <1>1, <1>2, <1>3, <1>7, <2>1, OwnerParts DEF HandleRequest, SoundCall
  <2>3. PICK left : Put(k, Asking(o, q, left))
    BY <1>0, <1>1, <1>2, <1>7, <2>1 DEF HandleRequest
  <2>4. PICK ask : /\ ask = (IF Outcome(o, q) = "asked" THEN o.next_ask ELSE None)
                   /\ record(<<Entry(k, Verdict(o, q), q, ask, FALSE)>>)
    BY <1>0, <1>1, <1>2, <1>7, <2>1 DEF HandleRequest
  <2>5. UNCHANGED <<running, served>>
    BY <1>7 DEF HandleRequest
  <2>6. Outcome(o, q) = "granted" => Earned(q)'
    BY <2>2, <2>3, <2>4, <2>5, DecisionFacts
  <2>7. CASE Outcome(o, q) = "granted"
    <3>1. PICK x : x = [r EXCEPT !.pc = "invite"]
      OBVIOUS
    <3>2. call' = [call EXCEPT ![c] = x]
      BY <1>0, <1>1, <1>2, <1>7, <2>1, <2>7, <3>1 DEF HandleRequest, Goes
    <3>3. SoundCall(x)'
      BY <1>2, <1>3, <1>4, <2>2, <2>6, <2>7, <3>1 DEF SoundCall, CallFields
    <3> QED
      BY <1>5, <3>2, <3>3
  <2>8. CASE Outcome(o, q) # "granted"
    <3>1. Replies(c, Outcome(o, q))
      BY <1>0, <1>1, <1>2, <1>7, <2>1, <2>8 DEF HandleRequest
    <3> QED
      BY <1>6, <2>2, <3>1
  <2> QED
    BY <2>7, <2>8
<1>8. CASE DecideForManager(c)
  <2>1. PICK o : o = [owners[k] EXCEPT !.channels = @ \cup {q.channel}]
    OBVIOUS
  <2>2. /\ k \in 1 .. Len(owners) /\ q \in Requests /\ r.pc = "decide" /\ r.kind = "cm"
        /\ r.ask = None /\ r.reply = "Denied"
    BY <1>0, <1>1, <1>2, <1>3, <1>8 DEF DecideForManager, SoundCall
  <2>3. SameInbox(o, k)
    BY <2>1, <2>2, OwnerParts
  <2>4. PICK left : Put(k, Asking(o, q, left))
    BY <1>0, <1>1, <1>2, <1>8, <2>1 DEF DecideForManager
  <2>5. PICK ask : ask = IF Outcome(o, q) = "asked" THEN o.next_ask ELSE None
    OBVIOUS
  <2>6. record(<<Entry(k, Verdict(o, q), q, ask, FALSE)>>)
    <3>1. record(<<Entry(k, Verdict(o, q), q,
                         IF Outcome(o, q) = "asked" THEN o.next_ask ELSE None, FALSE)>>)
      BY <1>0, <1>1, <1>2, <1>8, <2>1 DEF DecideForManager
    <3> QED
      BY <2>5, <3>1
  <2>7. UNCHANGED <<running, served>>
    BY <1>8 DEF DecideForManager
  <2>8. /\ Outcome(o, q) = "granted" => Earned(q)'
        /\ Outcome(o, q) = "asked" => ask \in Nat /\ Asked(k, ask, q)'
    BY <2>2, <2>3, <2>4, <2>5, <2>6, <2>7, DecisionFacts
  <2>9. CASE Outcome(o, q) = "asked"
    <3>1. PICK t : call' = [call EXCEPT ![c] = [r EXCEPT !.pc = "register", !.ask = ask, !.timer = t,
                                                         !.age = 0, !.seen = {}]]
      <4>1. call' = [call EXCEPT ![c] = [@ EXCEPT !.pc = "register", !.ask = o.next_ask,
                       !.timer = Min({o.policy.ask_timeout, Within}), !.age = 0, !.seen = {}]]
        BY <1>0, <1>1, <1>2, <1>8, <2>1, <2>9 DEF DecideForManager
      <4> QED
        BY <1>0, <2>5, <2>9, <4>1
    <3>2. PICK x : x = [r EXCEPT !.pc = "register", !.ask = ask, !.timer = t, !.age = 0, !.seen = {}]
      OBVIOUS
    <3>3. call' = [call EXCEPT ![c] = x]
      BY <3>1, <3>2
    <3>4. SoundCall(x)'
      BY <1>1, <1>2, <1>3, <1>4, <2>2, <2>8, <2>9, <3>2 DEF SoundCall, CallFields
    <3> QED
      BY <1>5, <3>3, <3>4
  <2>10. CASE Outcome(o, q) = "granted"
    <3>1. PICK x : x = [Over(r) EXCEPT !.reply = "Grant", !.grant = q]
      OBVIOUS
    <3>2. call' = [call EXCEPT ![c] = x]
      BY <1>0, <1>1, <1>2, <1>8, <2>1, <2>10, <3>1 DEF DecideForManager
    <3>3. SoundCall(x)'
      BY <1>2, <1>3, <1>4, <2>2, <2>8, <2>10, <3>1 DEF SoundCall, Over, CallFields
    <3> QED
      BY <1>5, <3>2, <3>3
  <2>11. CASE Outcome(o, q) \notin {"asked", "granted"}
    <3>1. PICK x : x = Over(r)
      OBVIOUS
    <3>2. call' = [call EXCEPT ![c] = x]
      BY <1>0, <1>1, <1>2, <1>8, <2>1, <2>11, <3>1 DEF DecideForManager
    <3> QED
      BY <1>4, <1>5, <3>1, <3>2
  <2> QED
    BY <2>9, <2>10, <2>11
<1>9. CASE Register(c) \/ TimesOut(c)
  <2>1. PICK pc \in {"wait", "lapse"} : call' = [call EXCEPT ![c] = [r EXCEPT !.pc = pc]]
    BY <1>0, <1>9 DEF Register, TimesOut, Goes
  <2>2. PICK x : x = [r EXCEPT !.pc = pc]
    OBVIOUS
  <2>3. r.pc \in {"register", "wait"} /\ r.mail = None
    BY <1>0, <1>3, <1>9 DEF Register, TimesOut, SoundCall
  <2>4. SoundCall(x)'
    BY <1>3, <1>4, <2>2, <2>3 DEF SoundCall, CallFields
  <2> QED
    BY <1>5, <2>1, <2>2, <2>4
<1>10. CASE LookUp(c)
  <2>1. CASE Goes(c, "done")
    <3>1. PICK x : x = Over(r)
      OBVIOUS
    <3>2. call' = [call EXCEPT ![c] = x]
      BY <1>0, <2>1, <3>1 DEF Goes
    <3> QED
      BY <1>4, <1>5, <3>1, <3>2
  <2>2. CASE call' = [call EXCEPT ![c].pc = "listing", ![c].seen = listed]
    <3>1. PICK x : x = [r EXCEPT !.pc = "listing", !.seen = listed]
      OBVIOUS
    <3>2. call' = [call EXCEPT ![c] = x]
      BY <1>0, <1>3, <2>2, <3>1
    <3>3. r.pc = "lookup" /\ r.mail = None
      BY <1>0, <1>3, <1>10 DEF LookUp, SoundCall
    <3>4. SoundCall(x)'
      BY <1>3, <1>4, <3>1, <3>3 DEF SoundCall, CallFields
    <3> QED
      BY <1>5, <3>2, <3>4
  <2> QED
    BY <1>10, <2>1, <2>2 DEF LookUp
<1>11. CASE Listing(c)
  <2>1. PICK x : x = IF r.request.channel \in r.seen THEN [r EXCEPT !.pc = "decide", !.seen = {}] ELSE Over(r)
    OBVIOUS
  <2>2. call' = [call EXCEPT ![c] = x]
    BY <1>0, <1>11, <2>1 DEF Listing
  <2>3. r.pc = "listing" /\ r.mail = None
    BY <1>0, <1>3, <1>11 DEF Listing, SoundCall
  <2>4. SoundCall([r EXCEPT !.pc = "decide", !.seen = {}])'
    BY <1>3, <1>4, <2>3 DEF SoundCall, CallFields
  <2>5. SoundCall(x)'
    BY <1>4, <2>1, <2>4
  <2> QED
    BY <1>5, <2>2, <2>5
<1>12. CASE Answered(c)
  <2>1. PICK x : x = [Over(r) EXCEPT !.reply = r.mail.reply, !.grant = r.mail.grant]
    OBVIOUS
  <2>2. call' = [call EXCEPT ![c] = x]
    BY <1>0, <1>12, <2>1 DEF Answered
  <2>3. Speaks(r.owner, r.ask, r.request, r.mail)'
    BY <1>0, <1>4, <1>12 DEF Answered, SoundCall
  <2>4. /\ r.mail.reply \in {"Grant", "DeniedByOwner"} /\ Settled(r.owner, r.ask, r.mail.reply)'
        /\ r.mail.grant # None => r.mail.grant = r.request /\ Earned(r.request)'
    BY <2>3 DEF Speaks
  <2>5. SoundCall(x)'
    BY <1>3, <1>4, <2>1, <2>4 DEF SoundCall, Over, CallFields
  <2> QED
    BY <1>5, <2>2, <2>5
<1>13. CASE Lapse(c)
  BY <1>6, <1>13 DEF Lapse
<1>14. ASSUME NEW ok \in BOOLEAN, InviteGranted(c, ok) PROVE \A d \in Calls : CallIsSound(d)'
  <2>1. PICK reply : Replies(c, reply)
    BY <1>14 DEF InviteGranted
  <2>2. r.ask = None
    BY <1>0, <1>3, <1>14 DEF InviteGranted, SoundCall
  <2> QED
    BY <1>6, <2>1, <2>2
<1> QED
  BY <1>7, <1>8, <1>9, <1>10, <1>11, <1>12, <1>13, <1>14 DEF Handler


\* So do the requests that arrive, ...
LEMMA ArrivalsKeepCalls ==
  ASSUME IInv, Carries, NEW c \in Calls,
         (\E m \in menu.messages : AgentAsks(c, m)) \/ (\E a \in menu.approvals : ManagerAsks(c, a))
  PROVE  \A d \in Calls : CallIsSound(d)'
<1> USE DEF IInv
<1>1. DOMAIN call = Calls /\ menu \in Menus
  BY DEF Kinds
<1>2. ASSUME served # 0 PROVE served \in 1 .. Len(owners')
  <2>1. Len(owners) \in Nat /\ Len(owners') \in Nat /\ Len(owners) <= Len(owners')
    BY LenProperties DEF Owned, Carries
  <2> QED
    BY <1>2, <2>1 DEF Owned
<1>3. ASSUME NEW x, call' = [call EXCEPT ![c] = x], SoundCall(x)'
      PROVE  \A d \in Calls : CallIsSound(d)'
  BY <1>1, <1>3, OneCallChanges
<1>4. PICK k : k = served
  OBVIOUS
<1>5. ASSUME NEW m \in menu.messages, AgentAsks(c, m) PROVE \A d \in Calls : CallIsSound(d)'
  <2>1. CASE admit(m)
    <3>1. PICK q : q = AdmittedRequest(m)
      OBVIOUS
    <3>2. q \in Requests
      BY <1>1, <2>1, <3>1 DEF Requests
    <3>3. PICK x : x = [NoCall EXCEPT !.kind = "a2a", !.pc = "decide", !.owner = k, !.request = q]
      OBVIOUS
    <3>4. call' = [call EXCEPT ![c] = x] /\ k \in 1 .. Len(owners')
      BY <1>2, <1>4, <1>5, <2>1, <3>1, <3>3 DEF AgentAsks, Arrives
    <3>5. SoundCall(x)'
      BY <3>2, <3>3, <3>4 DEF SoundCall, NoCall
    <3> QED
      BY <1>3, <3>4, <3>5
  <2>2. CASE ~admit(m)
    <3>1. PICK x : x = [NoCall EXCEPT !.kind = "a2a", !.pc = "done", !.reply = "Rejected"]
      OBVIOUS
    <3>2. call' = [call EXCEPT ![c] = x]
      BY <1>5, <2>2, <3>1 DEF AgentAsks
    <3>3. SoundCall(x)'
      BY <3>1 DEF SoundCall, NoCall
    <3> QED
      BY <1>3, <3>2, <3>3
  <2> QED
    BY <2>1, <2>2
<1>6. ASSUME NEW a \in menu.approvals, ManagerAsks(c, a) PROVE \A d \in Calls : CallIsSound(d)'
  <2>1. PICK q : q = a.request
    OBVIOUS
  <2>2. q \in Requests
    BY <1>1, <2>1 DEF Requests
  <2>3. PICK pc \in {"lookup", "done"} :
          call' = [call EXCEPT ![c] = [NoCall EXCEPT !.kind = "cm", !.owner = k, !.request = q,
                                                     !.pc = pc, !.reply = "Denied"]]
    BY <1>4, <1>6, <2>1 DEF ManagerAsks
  <2>4. PICK x : x = [NoCall EXCEPT !.kind = "cm", !.owner = k, !.request = q, !.pc = pc, !.reply = "Denied"]
    OBVIOUS
  <2>5. call' = [call EXCEPT ![c] = x] /\ k \in 1 .. Len(owners')
    BY <1>2, <1>4, <1>6, <2>3, <2>4 DEF ManagerAsks, Arrives
  <2>6. SoundCall(x)'
    BY <2>2, <2>4, <2>5 DEF SoundCall, NoCall
  <2> QED
    BY <1>3, <2>5, <2>6
<1> QED
  BY <1>5, <1>6

\* ... the answer of a human, which reaches the caller that asked, ...
LEMMA SendingKeepsCalls ==
  ASSUME IInv, Carries, NEW w \in Windows, SendAnswer(w)
  PROVE  \A d \in Calls : CallIsSound(d)'
<1> USE DEF IInv
<1> SUFFICES ASSUME NEW c \in Calls PROVE CallIsSound(c)'
  OBVIOUS
<1>1. PICK r : r = call[c]
  OBVIOUS
<1>2. PICK u : u = ui[w]
  OBVIOUS
<1>3. DOMAIN r = CallFields /\ SoundCall(r) /\ SoundCommand(u) /\ u.pc = "send"
  BY <1>1, <1>2 DEF Kinds, CallIsSound, CommandIsSound, SendAnswer
<1>4. SoundCall(r)'
  BY <1>3, CallStays
<1>5. CASE ~Receives(w, c)
  <2>1. call'[c] = r
    BY <1>1, <1>5 DEF SendAnswer
  <2> QED
    BY <1>4, <2>1, CallBecomes
<1>6. CASE Receives(w, c)
  <2>1. PICK x : x = [r EXCEPT !.mail = u.answer]
    OBVIOUS
  <2>2. call'[c] = x
    BY <1>1, <1>2, <1>6, <2>1 DEF SendAnswer
  <2>3. r.pc = "wait" /\ r.owner = u.owner /\ r.ask = u.ask
    BY <1>1, <1>2, <1>6 DEF Receives
  <2>4. /\ u.ask \in Nat /\ Asked(u.owner, u.ask, u.request)
        /\ Speaks(u.owner, u.ask, u.request, u.answer)
    BY <1>3 DEF SoundCommand
  <2>5. Asked(u.owner, u.ask, r.request)
    BY <1>3, <2>3, <2>4, NoneIsApart DEF SoundCall
  <2>6. r.request = u.request
    BY <2>4, <2>5 DEF Asked, Books, AskedForOne
  <2>7. Speaks(r.owner, r.ask, r.request, u.answer)'
    BY <2>3, <2>4, <2>6, SpeaksStays
  <2>8. SoundCall(x)'
    BY <1>3, <1>4, <2>1, <2>3, <2>7 DEF SoundCall, CallFields
  <2> QED
    BY <2>2, <2>8, CallBecomes
<1> QED
  BY <1>5, <1>6

\* ... a second that passes, and a restart, which loses those under way.
LEMMA TimeKeepsCalls ==
  ASSUME IInv, Carries, Tick \/ Restart
  PROVE  \A d \in Calls : CallIsSound(d)'
<1> USE DEF IInv
<1> SUFFICES ASSUME NEW c \in Calls PROVE CallIsSound(c)'
  OBVIOUS
<1>1. PICK r : r = call[c]
  OBVIOUS
<1>2. DOMAIN r = CallFields /\ SoundCall(r)
  BY <1>1 DEF Kinds, CallIsSound
<1>3. SoundCall(r)'
  BY <1>2, CallStays
<1>4. CASE Tick
  <2>1. PICK t, age : call'[c] = [r EXCEPT !.timer = t, !.age = age]
    BY <1>1, <1>4 DEF Tick
  <2>2. PICK x : x = [r EXCEPT !.timer = t, !.age = age]
    OBVIOUS
  <2>3. SoundCall(x)'
    BY <1>2, <1>3, <2>2 DEF SoundCall, CallFields
  <2> QED
    BY <2>1, <2>2, <2>3, CallBecomes
<1>5. CASE Restart
  <2>1. PICK x : x = [NoCall EXCEPT !.pc = "done", !.reply = "Lost"]
    OBVIOUS
  <2>2. call'[c] = r \/ call'[c] = x
    BY <1>1, <1>5, <2>1 DEF Restart
  <2>3. SoundCall(x)'
    BY <2>1 DEF SoundCall, NoCall
  <2> QED
    BY <1>3, <2>2, <2>3, CallBecomes
<1> QED
  BY <1>4, <1>5

\* The calls, over every step.
LEMMA StepKeepsCalls ==
  ASSUME IInv, [Next]_vars
  PROVE  \A d \in Calls : CallIsSound(d)'
<1>1. Carries
  BY StepCarries
<1>2. ASSUME UNCHANGED call PROVE \A d \in Calls : CallIsSound(d)'
  BY <1>1, <1>2, NoCallChanges DEF IInv
<1>3. ASSUME NEW w \in Windows, Command(w) PROVE \A d \in Calls : CallIsSound(d)'
  <2>1. SendAnswer(w) \/ UNCHANGED call
    BY <1>3 DEF Command, StartServes, StartPublishes, StartReports, owner_status, owner_pending,
         owner_approve, owner_deny, IsWaiting, TakeSender, InviteApproved, PolicySet, JoinEnds, ManagerReplied
  <2> QED
    BY <1>1, <1>2, <2>1, SendingKeepsCalls
<1>4. ASSUME NEW w \in Windows, Human(w) PROVE UNCHANGED call
  BY <1>4 DEF Human, StartLoads, with_owner, PolicyWritten, slim_group_create, slim_group_invite,
       slim_group_remove_member, slim_group_forget, ChangesRoom, JoinBegins, ManagerCalled,
       channel_manager_configure
<1>5. CASE UNCHANGED vars \/ DiskFills
  BY <1>2, <1>5 DEF vars, DiskFills
<1>6. CASE System
  BY <1>1, <1>3, <1>6, HandlersKeepCalls, TimeKeepsCalls DEF System
<1>7. CASE Environment
  BY <1>1, <1>2, <1>4, <1>5, <1>7, ArrivalsKeepCalls, TimeKeepsCalls DEF Environment
<1> QED
  BY <1>5, <1>6, <1>7 DEF Next


-----------------------------------------------------------------------------
(* Commands *)

\* Most of a command's steps say nothing of an ask.
LEMMA SilentCommand ==
  ASSUME NEW u, u.pc \notin {"is_waiting", "answer", "send", "invite"}
  PROVE  SoundCommand(u)'
BY DEF SoundCommand

\* approve and deny say to whoever waits what the log has.
LEMMA SettlingKeepsCommands ==
  ASSUME IInv, Carries, NEW w \in Windows, NEW outcome \in {"granted", "denied"},
         ui[w].pc = "held", Settles(w, outcome), UNCHANGED <<running, served>>
  PROVE  \A v \in Windows : CommandIsSound(v)'
<1> USE DEF IInv
<1>1. DOMAIN ui = Windows
  BY DEF Kinds
<1>2. ASSUME NEW x, ui' = [ui EXCEPT ![w] = x], SoundCommand(x)'
      PROVE  \A v \in Windows : CommandIsSound(v)'
  BY <1>1, <1>2, OneCommandChanges
<1>3. CASE Ends(w)
  <2>1. PICK x : x = Idle
    OBVIOUS
  <2>2. ui' = [ui EXCEPT ![w] = x] /\ x.pc = "idle"
    BY <1>3, <2>1 DEF Ends, Idle
  <2> QED
    BY <1>2, <2>2, SilentCommand
<1>4. PICK k : k = running
  OBVIOUS
<1>5. PICK o : o = HoldOnly(owners[k])
  OBVIOUS
<1>6. PICK id : id = ui[w].ask
  OBVIOUS
<1>7. CASE Live(o, id)
  <2>1. k \in 1 .. Len(owners)
    <3>1. Len(owners) \in Nat /\ k \in 0 .. Len(owners) /\ k # 0
      BY <1>4, LenProperties DEF Owned, Held
    <3> QED
      BY <3>1
  <2>2. SameInbox(o, k)
    BY <1>5, <2>1, OwnerParts DEF HoldOnly
  <2>3. PICK q : q = o.pending[id].request
    OBVIOUS
  <2>4. id \in DOMAIN o.pending
    BY <1>7 DEF Live
  <2>5. /\ Put(k, Taken(o, id))
        /\ record(<<Entry(k, Answer(outcome, "Owner"), q, id, o.pending[id].left = 0)>>)
    BY <1>4, <1>5, <1>6, <1>7, <2>3, <2>4 DEF Settles
  <2>6. /\ id \in Nat /\ q \in Requests /\ Asked(k, id, q)'
        /\ disk => Settled(k, id, IF outcome = "granted" THEN "Grant" ELSE "DeniedByOwner")'
        /\ disk /\ outcome = "granted" => Earned(q)'
    BY <1>7, <2>1, <2>2, <2>3, <2>5, AnswerFacts
  <2>7. PICK a : a = IF outcome = "granted" THEN [reply |-> "Grant", grant |-> q]
                     ELSE [reply |-> "DeniedByOwner", grant |-> None]
    OBVIOUS
  <2>8. PICK u : u = ui[w]
    OBVIOUS
  <2>9. PICK x : x = [u EXCEPT !.pc = IF outcome = "granted" THEN "is_waiting" ELSE "answer",
                               !.owner = k, !.request = q, !.answer = a]
    OBVIOUS
  <2>10. CASE disk
    <3>1. ui' = [ui EXCEPT ![w] = x]
      BY <1>4, <1>5, <1>6, <1>7, <2>3, <2>4, <2>7, <2>8, <2>9, <2>10 DEF Settles
    <3>2. DOMAIN u = CommandFields /\ u.ask = id
      BY <1>6, <2>8 DEF Kinds
    <3>3. /\ x.owner = k /\ x.request = q /\ x.answer = a /\ x.ask = id
          /\ x.pc = IF outcome = "granted" THEN "is_waiting" ELSE "answer"
      BY <2>9, <3>2 DEF CommandFields
    <3>4. Speaks(k, id, q, a)'
      BY <2>6, <2>7, <2>10 DEF Speaks
    <3>5. k \in 1 .. Len(owners')
      BY <2>1, LenProperties DEF Owned, Carries
    <3>6. SoundCommand(x)'
      BY <2>6, <2>10, <3>3, <3>4, <3>5 DEF SoundCommand
    <3> QED
      BY <1>2, <3>1, <3>6
  <2>11. CASE ~disk
    BY <1>3, <1>4, <1>5, <1>6, <1>7, <2>4, <2>11 DEF Settles, Ends
  <2> QED
    BY <2>10, <2>11
<1>8. CASE ~Live(o, id)
  BY <1>3, <1>4, <1>5, <1>6, <1>8 DEF Settles
<1> QED
  BY <1>7, <1>8

\* The steps of a command that is under way.
LEMMA CommandsKeepCommands ==
  ASSUME IInv, Carries, NEW w \in Windows, Command(w)
  PROVE  \A v \in Windows : CommandIsSound(v)'
<1> USE DEF IInv
<1>1. DOMAIN ui = Windows
  BY DEF Kinds
<1>2. ASSUME NEW x, ui' = [ui EXCEPT ![w] = x], SoundCommand(x)'
      PROVE  \A v \in Windows : CommandIsSound(v)'
  BY <1>1, <1>2, OneCommandChanges
<1>3. CASE Ends(w)
  <2>1. PICK x : x = Idle
    OBVIOUS
  <2>2. ui' = [ui EXCEPT ![w] = x] /\ x.pc = "idle"
    BY <1>3, <2>1 DEF Ends, Idle
  <2> QED
    BY <1>2, <2>2, SilentCommand
<1>4. PICK u : u = ui[w]
  OBVIOUS
<1>5. DOMAIN u = CommandFields /\ SoundCommand(u)
  BY <1>4 DEF Kinds, CommandIsSound
<1>6. SoundCommand(u)'
  BY <1>5, CommandStays
<1>7. CASE StartServes(w) \/ StartPublishes(w) \/ StartReports(w)
  <2>1. ASSUME NEW x, ui' = [ui EXCEPT ![w] = x], x.pc \in {"publish", "status", "held"}
        PROVE  \A v \in Windows : CommandIsSound(v)'
    BY <1>2, <2>1, SilentCommand
  <2>2. ASSUME NEW pc \in {"publish", "status"}, ui' = [ui EXCEPT ![w].pc = pc]
        PROVE  \A v \in Windows : CommandIsSound(v)'
    <3>1. PICK x : x = [u EXCEPT !.pc = pc]
      OBVIOUS
    <3>2. ui' = [ui EXCEPT ![w] = x] /\ x.pc = pc
      BY <1>1, <1>4, <1>5, <2>2, <3>1 DEF CommandFields
    <3> QED
      BY <2>1, <3>2
  <2>3. CASE StartReports(w)
    <3>1. PICK x : x = [u EXCEPT !.pc = "held", !.cmd = "status"]
      OBVIOUS
    <3>2. ui' = [ui EXCEPT ![w] = x] /\ x.pc = "held"
      BY <1>1, <1>4, <1>5, <2>3, <3>1 DEF CommandFields, StartReports
    <3> QED
      BY <2>1, <3>2
  <2> QED
    BY <1>3, <1>7, <2>2, <2>3 DEF StartServes, StartPublishes
<1>8. CASE IsWaiting(w)
  <2>1. PICK pc \in {"answer", "invite"} : ui' = [ui EXCEPT ![w] = [u EXCEPT !.pc = pc]]
    BY <1>1, <1>4, <1>8 DEF IsWaiting
  <2>2. PICK x : x = [u EXCEPT !.pc = pc]
    OBVIOUS
  <2>3. u.pc = "is_waiting"
    BY <1>4, <1>8 DEF IsWaiting
  <2>4. SoundCommand(x)'
    BY <1>5, <1>6, <2>2, <2>3 DEF SoundCommand, CommandFields
  <2> QED
    BY <1>2, <2>1, <2>2, <2>4
<1>9. CASE TakeSender(w)
  <2>1. Ends(w) \/ ui' = [ui EXCEPT ![w] = [u EXCEPT !.pc = "send"]]
    BY <1>1, <1>4, <1>9 DEF TakeSender, Ends
  <2>2. PICK x : x = [u EXCEPT !.pc = "send"]
    OBVIOUS
  <2>3. u.pc = "answer"
    BY <1>4, <1>9 DEF TakeSender
  <2>4. SoundCommand(x)'
    BY <1>5, <1>6, <2>2, <2>3 DEF SoundCommand, CommandFields
  <2> QED
    BY <1>2, <1>3, <2>1, <2>2, <2>4
<1>10. CASE owner_approve(w) \/ owner_deny(w)
  <2>1. PICK outcome \in {"granted", "denied"} : Settles(w, outcome)
    BY <1>10 DEF owner_approve, owner_deny
  <2>2. ui[w].pc = "held" /\ UNCHANGED <<running, served>>
    BY <1>10 DEF owner_approve, owner_deny, Holding
  <2> QED
    BY <2>1, <2>2, SettlingKeepsCommands
<1>11. ASSUME NEW ok \in BOOLEAN,
              \/ owner_status(w) \/ owner_pending(w) \/ SendAnswer(w) \/ InviteApproved(w, ok)
              \/ PolicySet(w) \/ JoinEnds(w, ok) \/ ManagerReplied(w)
       PROVE  Ends(w)
  BY <1>11 DEF owner_status, owner_pending, SendAnswer, InviteApproved, PolicySet, JoinEnds, ManagerReplied
<1> QED
  BY <1>3, <1>7, <1>8, <1>9, <1>10, <1>11 DEF Command

\* What a human begins.
LEMMA HumansKeepCommands ==
  ASSUME IInv, Carries, NEW w \in Windows, Human(w)
  PROVE  \A v \in Windows : CommandIsSound(v)'
<1> USE DEF IInv
<1>1. DOMAIN ui = Windows
  BY DEF Kinds
<1>2. ASSUME NEW x, ui' = [ui EXCEPT ![w] = x], x.pc \in {"serve", "held", "set_policy", "join", "called"}
      PROVE  \A v \in Windows : CommandIsSound(v)'
  BY <1>1, <1>2, OneCommandChanges, SilentCommand
<1>3. ASSUME UNCHANGED ui PROVE \A v \in Windows : CommandIsSound(v)'
  BY <1>3, NoCommandChanges
<1>4. CASE StartLoads(w)
  <2>1. PICK x : x = [Idle EXCEPT !.pc = "serve", !.owner = Len(owners) + 1]
    OBVIOUS
  <2> QED
    BY <1>2, <1>4, <2>1 DEF StartLoads, Idle
<1>5. ASSUME NEW cmd, NEW ask, with_owner(w, cmd, ask) PROVE \A v \in Windows : CommandIsSound(v)'
  <2>1. PICK x : x = [Idle EXCEPT !.pc = "held", !.cmd = cmd, !.ask = ask]
    OBVIOUS
  <2> QED
    BY <1>2, <1>5, <2>1 DEF with_owner, Idle
<1>6. ASSUME NEW policy, PolicyWritten(w, policy) PROVE \A v \in Windows : CommandIsSound(v)'
  <2>1. PICK x : x = [Idle EXCEPT !.pc = "set_policy", !.arg = policy]
    OBVIOUS
  <2> QED
    <3>1. ui' = [ui EXCEPT ![w] = x] \/ UNCHANGED ui
      BY <1>6, <2>1 DEF PolicyWritten
    <3>2. x.pc = "set_policy"
      BY <2>1 DEF Idle
    <3> QED
      BY <1>2, <1>3, <3>1, <3>2
<1>7. ASSUME NEW channel, JoinBegins(w, channel) PROVE \A v \in Windows : CommandIsSound(v)'
  <2>1. PICK x : x = [Idle EXCEPT !.pc = "join", !.arg = channel]
    OBVIOUS
  <2> QED
    BY <1>2, <1>7, <2>1 DEF JoinBegins, Idle
<1>8. ASSUME NEW cmd, NEW channel, ManagerCalled(w, cmd, channel) PROVE \A v \in Windows : CommandIsSound(v)'
  <2>1. PICK x : x = [Idle EXCEPT !.pc = "called", !.cmd = cmd, !.arg = channel, !.answer = listed]
    OBVIOUS
  <2> QED
    BY <1>2, <1>8, <2>1 DEF ManagerCalled, Idle
<1>9. ASSUME NEW channel, NEW x,
             \/ slim_group_create(w, channel, x) \/ slim_group_invite(w, channel, x)
             \/ slim_group_remove_member(w, channel, x) \/ slim_group_forget(w, channel)
             \/ channel_manager_configure(w)
      PROVE  UNCHANGED ui
  BY <1>9 DEF slim_group_create, slim_group_invite, slim_group_remove_member, slim_group_forget, Short,
       channel_manager_configure
<1> QED
  BY <1>3, <1>4, <1>5, <1>6, <1>7, <1>8, <1>9 DEF Human

\* The commands, over every step.
LEMMA StepKeepsCommands ==
  ASSUME IInv, [Next]_vars
  PROVE  \A v \in Windows : CommandIsSound(v)'
<1>1. Carries
  BY StepCarries
<1>2. ASSUME UNCHANGED ui PROVE \A v \in Windows : CommandIsSound(v)'
  BY <1>1, <1>2, NoCommandChanges DEF IInv
<1>3. CASE Restart
  <2> SUFFICES ASSUME NEW v \in Windows PROVE CommandIsSound(v)'
    OBVIOUS
  <2>1. PICK x : x = Idle
    OBVIOUS
  <2>2. ui'[v] = x /\ x.pc = "idle"
    BY <1>3, <2>1 DEF Restart, Idle
  <2> QED
    BY <2>2, SilentCommand, CommandBecomes
<1>4. ASSUME NEW c \in Calls, Handler(c) PROVE UNCHANGED ui
  BY <1>4 DEF Handler, HandleRequest, InviteGranted, LookUp, Listing, DecideForManager, Register,
       Answered, TimesOut, Lapse
<1>5. ASSUME NEW c, NEW m, AgentAsks(c, m) \/ ManagerAsks(c, m) PROVE UNCHANGED ui
  BY <1>5 DEF AgentAsks, ManagerAsks
<1>6. CASE UNCHANGED vars \/ DiskFills \/ Tick
  BY <1>2, <1>6 DEF vars, DiskFills, Tick
<1>7. CASE System
  BY <1>1, <1>2, <1>4, <1>6, <1>7, CommandsKeepCommands DEF System
<1>8. CASE Environment
  BY <1>1, <1>2, <1>3, <1>5, <1>6, <1>8, HumansKeepCommands DEF Environment
<1> QED
  BY <1>6, <1>7, <1>8 DEF Next


-----------------------------------------------------------------------------
(* Shapes and locks *)

\* The records of the calls keep their fields.
LEMMA CallsKeepTheirFields ==
  ASSUME IInv, [Next]_vars
  PROVE  DOMAIN call' = Calls /\ \A c \in Calls : DOMAIN call'[c] = CallFields
<1>1. DOMAIN call = Calls /\ \A c \in Calls : DOMAIN call[c] = CallFields
  BY DEF IInv, Kinds
<1> USE DEF Over, NoCall, CallFields
<1>2. ASSUME NEW c \in Calls, NEW x, call' = [call EXCEPT ![c] = x], DOMAIN x = CallFields
      PROVE  DOMAIN call' = Calls /\ \A d \in Calls : DOMAIN call'[d] = CallFields
  BY <1>1, <1>2
<1>3. ASSUME NEW c \in Calls, Handler(c)
      PROVE  DOMAIN call' = Calls /\ \A d \in Calls : DOMAIN call'[d] = CallFields
  <2>1. CASE HandleRequest(c)
    BY <1>1, <2>1 DEF HandleRequest, Goes, Replies
  <2>2. ASSUME NEW ok \in BOOLEAN, InviteGranted(c, ok)
        PROVE  DOMAIN call' = Calls /\ \A d \in Calls : DOMAIN call'[d] = CallFields
    BY <1>1, <2>2 DEF InviteGranted, Replies
  <2>3. CASE LookUp(c)
    BY <1>1, <2>3 DEF LookUp, Goes
  <2>4. CASE Listing(c)
    BY <1>1, <2>4 DEF Listing
  <2>5. CASE DecideForManager(c)
    BY <1>1, <2>5 DEF DecideForManager
  <2>6. CASE Register(c) \/ TimesOut(c)
    BY <1>1, <2>6 DEF Register, TimesOut, Goes
  <2>7. CASE Answered(c)
    BY <1>1, <2>7 DEF Answered
  <2>8. CASE Lapse(c)
    BY <1>1, <2>8 DEF Lapse, Replies
  <2> QED
    BY <1>3, <2>1, <2>2, <2>3, <2>4, <2>5, <2>6, <2>7, <2>8 DEF Handler
<1>4. ASSUME NEW c \in Calls, NEW m, AgentAsks(c, m) \/ ManagerAsks(c, m)
      PROVE  DOMAIN call' = Calls /\ \A d \in Calls : DOMAIN call'[d] = CallFields
  BY <1>1, <1>4 DEF AgentAsks, ManagerAsks
<1>5. CASE Tick
  BY <1>1, <1>5 DEF Tick
<1>6. CASE Restart
  BY <1>1, <1>6 DEF Restart
<1>7. ASSUME NEW w \in Windows, SendAnswer(w)
      PROVE  DOMAIN call' = Calls /\ \A d \in Calls : DOMAIN call'[d] = CallFields
  BY <1>1, <1>7 DEF SendAnswer
<1>8. ASSUME NEW w \in Windows, Command(w)
      PROVE  SendAnswer(w) \/ UNCHANGED call
  BY <1>8 DEF Command, StartServes, StartPublishes, StartReports, owner_status, owner_pending,
       owner_approve, owner_deny, IsWaiting, TakeSender, InviteApproved, PolicySet, JoinEnds, ManagerReplied
<1>9. ASSUME NEW w \in Windows, Human(w) PROVE UNCHANGED call
  BY <1>9 DEF Human, StartLoads, with_owner, PolicyWritten, slim_group_create, slim_group_invite,
       slim_group_remove_member, slim_group_forget, ChangesRoom, JoinBegins, ManagerCalled,
       channel_manager_configure
<1>10. CASE UNCHANGED vars \/ DiskFills
  BY <1>1, <1>10 DEF vars, DiskFills
<1>11. CASE System
  BY <1>1, <1>3, <1>5, <1>7, <1>8, <1>11 DEF System
<1>12. CASE Environment
  BY <1>1, <1>4, <1>6, <1>9, <1>10, <1>12 DEF Environment
<1> QED
  BY <1>10, <1>11, <1>12 DEF Next

\* The windows: their records, and who holds the owner.
Windowed ==
  /\ saved \in AnyPolicy /\ menu \in Menus
  /\ DOMAIN ui = Windows
  /\ \A w \in Windows : /\ DOMAIN ui[w] = CommandFields
                        /\ ui[w].pc = "set_policy" => ui[w].arg \in AnyPolicy
                        /\ ui[w].pc = "join" => ui[w].arg \in Channels
                        /\ ui[w].pc \in {"serve", "publish"} => ui[w].owner \in 1 .. Len(owners)
                        /\ ui[w].pc = "held" => locked = w
                        /\ ui[w].pc \in {"status", "held"} => running # 0

\* The steps of a command change nothing under another that holds the owner.
LEMMA CommandsKeepWindows ==
  ASSUME IInv, Carries, NEW w \in Windows, Command(w)
  PROVE  Windowed'
<1>1. Windowed
  BY DEF IInv, Windowed, Kinds, Held
<1>2. Len(owners) \in Nat /\ Len(owners') \in Nat /\ Len(owners) <= Len(owners') /\ \A v \in Windows : v # None
  BY LenProperties, NoneIsApart DEF IInv, Owned, Carries, Windows
<1> USE DEF Windowed, CommandFields, Ends, Idle, boundVars
<1>3. CASE StartServes(w)
  BY <1>1, <1>2, <1>3 DEF StartServes
<1>4. CASE StartPublishes(w)
  BY <1>1, <1>2, <1>4 DEF StartPublishes
<1>5. CASE StartReports(w)
  BY <1>1, <1>2, <1>5 DEF StartReports, ownerVars
<1>6. CASE owner_status(w) \/ owner_pending(w)
  BY <1>1, <1>2, <1>6 DEF owner_status, owner_pending, Holding
<1>7. CASE owner_approve(w) \/ owner_deny(w)
  <2>1. PICK x : /\ DOMAIN x = CommandFields /\ x.pc \in {"idle", "is_waiting", "answer"}
                 /\ ui' = [ui EXCEPT ![w] = x]
    BY <1>1, <1>7 DEF owner_approve, owner_deny, Settles
  <2>2. UNCHANGED <<running, saved, menu>> /\ ui[w].pc = "held" /\ locked' = None
    BY <1>7 DEF owner_approve, owner_deny, Holding
  <2> QED
    BY <1>1, <1>2, <2>1, <2>2
<1>8. CASE IsWaiting(w)
  BY <1>1, <1>2, <1>8 DEF IsWaiting, ownerVars
<1>9. CASE TakeSender(w)
  BY <1>1, <1>2, <1>9 DEF TakeSender
<1>10. CASE SendAnswer(w)
  BY <1>1, <1>2, <1>10 DEF SendAnswer, ownerVars
<1>11. ASSUME NEW ok \in BOOLEAN, InviteApproved(w, ok) \/ JoinEnds(w, ok) PROVE Windowed'
  BY <1>1, <1>2, <1>11 DEF InviteApproved, JoinEnds, ownerVars
<1>12. CASE PolicySet(w)
  BY <1>1, <1>2, <1>12 DEF PolicySet
<1>13. CASE ManagerReplied(w)
  BY <1>1, <1>2, <1>13 DEF ManagerReplied, ownerVars
<1> QED
  BY <1>3, <1>4, <1>5, <1>6, <1>7, <1>8, <1>9, <1>10, <1>11, <1>12, <1>13 DEF Command

\* Neither does a command that begins.
LEMMA HumansKeepWindows ==
  ASSUME IInv, Carries, NEW w \in Windows, Human(w)
  PROVE  Windowed'
<1>1. Windowed
  BY DEF IInv, Windowed, Kinds, Held
<1>2. Len(owners) \in Nat /\ Len(owners') \in Nat /\ Len(owners) <= Len(owners') /\ \A v \in Windows : v # None
  BY LenProperties, NoneIsApart DEF IInv, Owned, Carries, Windows
<1> USE DEF Windowed, CommandFields, Ends, Idle, Begins, ownerVars
<1>3. CASE StartLoads(w)
  <2>1. Len(owners') = Len(owners) + 1
    BY <1>3 DEF StartLoads, IInv, Owned
  <2> QED
    BY <1>1, <1>2, <1>3, <2>1 DEF StartLoads
<1>4. ASSUME NEW cmd, NEW ask, with_owner(w, cmd, ask) PROVE Windowed'
  BY <1>1, <1>2, <1>4 DEF with_owner
<1>5. ASSUME NEW policy \in Policies, PolicyWritten(w, policy) PROVE Windowed'
  <2>1. CASE disk
    <3>1. /\ saved' = policy /\ policy \in AnyPolicy /\ UNCHANGED <<owners, running, locked, menu>>
          /\ ui' = [ui EXCEPT ![w] = [Idle EXCEPT !.pc = "set_policy", !.arg = policy]]
      BY <1>5, <2>1 DEF PolicyWritten, AnyPolicy
    <3> QED
      BY <1>1, <3>1
  <2>2. CASE ~disk
    BY <1>1, <1>2, <1>5, <2>2 DEF PolicyWritten
  <2> QED
    BY <2>1, <2>2
<1>6. ASSUME NEW channel \in Channels, JoinBegins(w, channel) PROVE Windowed'
  BY <1>1, <1>2, <1>6 DEF JoinBegins
<1>7. ASSUME NEW cmd, NEW channel, ManagerCalled(w, cmd, channel) PROVE Windowed'
  BY <1>1, <1>2, <1>7 DEF ManagerCalled
<1>8. ASSUME NEW channel, NEW x,
             \/ slim_group_create(w, channel, x) \/ slim_group_invite(w, channel, x)
             \/ slim_group_remove_member(w, channel, x) \/ slim_group_forget(w, channel)
             \/ channel_manager_configure(w)
      PROVE  UNCHANGED <<saved, menu, ui, owners, locked, running>>
  BY <1>8 DEF slim_group_create, slim_group_invite, slim_group_remove_member, slim_group_forget, Short,
       ChangesRoom, channel_manager_configure
<1>9. ASSUME UNCHANGED <<saved, menu, ui, owners, locked, running>> PROVE Windowed'
  BY <1>1, <1>9
<1> QED
  BY <1>3, <1>4, <1>5, <1>6, <1>7, <1>8, <1>9 DEF Human

\* The records, the locks and the owner that the commands work on, over every step.
LEMMA StepKeepsKinds ==
  ASSUME IInv, [Next]_vars
  PROVE  Kinds' /\ Held'
<1>1. Carries
  BY StepCarries
<1>2. Windowed
  BY DEF IInv, Windowed, Kinds, Held
<1>3. ASSUME UNCHANGED <<saved, menu, ui, locked, running>> PROVE Windowed'
  <2>1. Len(owners) \in Nat /\ Len(owners') \in Nat /\ Len(owners) <= Len(owners')
    BY <1>1, LenProperties DEF IInv, Owned, Carries
  <2> QED
    BY <1>2, <1>3, <2>1 DEF Windowed
<1>4. ASSUME NEW c \in Calls, Handler(c) PROVE UNCHANGED <<saved, menu, ui, locked, running>>
  BY <1>4 DEF Handler, HandleRequest, InviteGranted, LookUp, Listing, DecideForManager, Register,
       Answered, TimesOut, Lapse, ownerVars, boundVars
<1>5. ASSUME NEW c, NEW m, AgentAsks(c, m) \/ ManagerAsks(c, m)
      PROVE  UNCHANGED <<saved, menu, ui, locked, running>>
  BY <1>5 DEF AgentAsks, ManagerAsks, ownerVars, boundVars
<1>6. Windowed'
  <2>1. CASE UNCHANGED vars \/ DiskFills \/ Tick
    BY <1>3, <2>1 DEF vars, DiskFills, Tick, ownerVars, boundVars
  <2>2. CASE Restart
    BY <1>2, <2>2 DEF Restart, Windowed, Idle, CommandFields
  <2>3. CASE System
    BY <1>1, <1>3, <1>4, <2>1, <2>3, CommandsKeepWindows DEF System
  <2>4. CASE Environment
    BY <1>1, <1>3, <1>5, <2>1, <2>2, <2>4, HumansKeepWindows DEF Environment
  <2> QED
    BY <2>1, <2>3, <2>4 DEF Next
<1>7. DOMAIN call' = Calls /\ \A c \in Calls : DOMAIN call'[c] = CallFields
  BY CallsKeepTheirFields
<1> QED
  BY <1>6, <1>7 DEF Windowed, Kinds, Held

-----------------------------------------------------------------------------
(* Invites *)

\* Only what was granted becomes an invite, over every step.
LEMMA StepKeepsInvites ==
  ASSUME IInv, [Next]_vars
  PROVE  InvitesAreEarned'
<1> USE DEF IInv
<1>1. Carries
  BY StepCarries
<1>2. ASSUME UNCHANGED invited PROVE InvitesAreEarned'
  <2>1. \A q \in invited : Earned(q)'
    BY <1>1, EarnedStays DEF InvitesAreEarned
  <2> QED
    BY <1>2, <2>1 DEF InvitesAreEarned
<1>3. ASSUME NEW q, Earned(q), invited' \subseteq invited \cup {q} PROVE InvitesAreEarned'
  <2>1. \A p \in invited \cup {q} : Earned(p)'
    BY <1>1, <1>3, EarnedStays DEF InvitesAreEarned
  <2> QED
    BY <1>3, <2>1 DEF InvitesAreEarned
<1>4. ASSUME NEW c \in Calls, NEW ok \in BOOLEAN, InviteGranted(c, ok) PROVE InvitesAreEarned'
  <2>1. PICK q : q = call[c].request
    OBVIOUS
  <2>2. Earned(q)
    BY <1>4, <2>1 DEF InviteGranted, CallIsSound, SoundCall
  <2>3. invited' \subseteq invited \cup {q}
    BY <1>4, <2>1 DEF InviteGranted
  <2> QED
    BY <1>3, <2>2, <2>3
<1>5. ASSUME NEW w \in Windows, NEW ok \in BOOLEAN, InviteApproved(w, ok) PROVE InvitesAreEarned'
  <2>1. PICK q : q = ui[w].request
    OBVIOUS
  <2>2. Earned(q)
    BY <1>5, <2>1 DEF InviteApproved, CommandIsSound, SoundCommand
  <2>3. invited' \subseteq invited \cup {q}
    BY <1>5, <2>1 DEF InviteApproved
  <2> QED
    BY <1>3, <2>2, <2>3
<1>6. ASSUME NEW c \in Calls, Handler(c) PROVE InvitesAreEarned'
  BY <1>2, <1>4, <1>6 DEF Handler, HandleRequest, LookUp, Listing, DecideForManager, Register,
       Answered, TimesOut, Lapse
<1>7. ASSUME NEW w \in Windows, Command(w) PROVE InvitesAreEarned'
  BY <1>2, <1>5, <1>7 DEF Command, StartServes, StartPublishes, StartReports, owner_status, owner_pending,
       owner_approve, owner_deny, IsWaiting, TakeSender, SendAnswer, PolicySet, JoinEnds, ManagerReplied
<1>8. ASSUME NEW w \in Windows, Human(w) PROVE UNCHANGED invited
  BY <1>8 DEF Human, StartLoads, with_owner, PolicyWritten, slim_group_create, slim_group_invite,
       slim_group_remove_member, slim_group_forget, ChangesRoom, JoinBegins, ManagerCalled,
       channel_manager_configure
<1>9. ASSUME NEW c, NEW m, AgentAsks(c, m) \/ ManagerAsks(c, m) PROVE UNCHANGED invited
  BY <1>9 DEF AgentAsks, ManagerAsks
<1>10. CASE UNCHANGED vars \/ DiskFills \/ Tick \/ Restart
  BY <1>2, <1>10 DEF vars, DiskFills, Tick, Restart
<1> QED
  BY <1>2, <1>6, <1>7, <1>8, <1>9, <1>10 DEF Next, System, Environment

-----------------------------------------------------------------------------
(* The theorems *)

\* The Desktop starts without an owner, a call or a command, and with the rooms
\* of its store.
LEMMA InitIsSound ==
  ASSUME Init
  PROVE  IInv
<1> USE DEF Init
<1>1. DOMAIN <<>> = {} /\ <<>> \in Seq(Range(<<>>)) /\ Len(<<>>) = 0
  BY DEF Range
<1>2. Owned
  BY <1>1 DEF Owned
<1>3. Books
  BY <1>1 DEF Books, Numbered, AskedForOne, Reasons, SettledOnce, Inbox
<1>4. Kinds /\ Held
  BY DEF Kinds, Held, AnyPolicy, NoCall, Idle, CallFields, CommandFields
<1>5. InvitesAreEarned
  BY DEF InvitesAreEarned
<1>6. Told
  <2>1. store \in Rooms /\ Keeps(store, {})
    BY RoomsAreStored DEF Rooms, Keeps
  <2>2. Reload(store) \in Rooms
    BY <2>1, ReloadFacts
  <2> QED
    BY <2>1, <2>2 DEF Told, Rooms
<1>7. ASSUME NEW c \in Calls PROVE CallIsSound(c)
  BY DEF CallIsSound, SoundCall, NoCall
<1>8. ASSUME NEW w \in Windows PROVE CommandIsSound(w)
  BY DEF CommandIsSound, SoundCommand, Idle
<1> QED
  BY <1>2, <1>3, <1>4, <1>5, <1>6, <1>7, <1>8 DEF IInv

\* The invariant holds in every state of every behaviour.
LEMMA Invariance == Safety => []IInv
<1>1. Init => IInv
  BY InitIsSound
<1>2. IInv /\ [Next]_vars => IInv'
  <2> SUFFICES ASSUME IInv, [Next]_vars PROVE IInv'
    OBVIOUS
  <2>1. Owned' /\ Books'
    BY StepCarries DEF Carries
  <2>2. Kinds' /\ Held' /\ InvitesAreEarned' /\ Told'
    BY StepKeepsKinds, StepKeepsInvites, StepKeepsRooms
  <2>3. (\A c \in Calls : CallIsSound(c)') /\ (\A w \in Windows : CommandIsSound(w)')
    BY StepKeepsCalls, StepKeepsCommands
  <2> QED
    BY <2>1, <2>2, <2>3 DEF IInv
<1> QED
  BY <1>1, <1>2, PTL DEF Safety

\* Whatever requests, answers, timeouts, restarts and changes of the policy
\* interleave, nobody is invited, and the channel manager is handed no grant,
\* without a grant of that very request in the log of `record', by a rule that
\* speaks of it or by the owner in time (request, approve and Approvals::decide).
THEOREM GrantsHaveReasons == Safety => []GrantsAreEarned
<1>1. IInv => GrantsAreEarned
  BY DEF IInv, GrantsAreEarned, InvitesAreEarned, CallIsSound, SoundCall, Earned
<1> QED
  BY <1>1, Invariance, PTL

\* An ask is settled once, by approve, deny or expire, and a grant or a denial
\* that a caller of the channel manager is handed is the verdict in the log.  The
\* caller whose wait timed out is told that nobody answered; of it this says
\* nothing, and the log may have a grant.
THEOREM VerdictsAreUnique == Safety => []OneVerdict
<1>1. IInv => OneVerdict
  <2> SUFFICES ASSUME IInv PROVE OneVerdict
    OBVIOUS
  <2>1. SettledOnce
    BY DEF IInv, Books
  <2>2. ASSUME NEW c \in Calls, NEW i \in DOMAIN audit, call[c].ask # None, IsSettlement(i), Of(i, c),
               call[c].reply \in {"Grant", "DeniedByOwner"}
        PROVE  audit[i].outcome = IF call[c].reply = "Grant" THEN "granted" ELSE "denied"
    <3>1. PICK j \in DOMAIN audit :
            /\ audit[j].outcome = IF call[c].reply = "Grant" THEN "granted" ELSE "denied"
            /\ audit[j].owner = call[c].owner /\ audit[j].ask = call[c].ask
      BY <2>2 DEF IInv, CallIsSound, SoundCall, Settled
    <3>2. j = i
      BY <2>1, <2>2, <3>1 DEF SettledOnce, IsSettlement, Of
    <3> QED
      BY <3>1, <3>2
  <2> QED
    BY <2>1, <2>2 DEF OneVerdict, SettledOnce
<1> QED
  BY <1>1, Invariance, PTL

\* No step takes a verdict back: what the log has of a settled ask stays there,
\* at its place, no later answer or timeout settles the ask again, and the ask is
\* in no inbox any more, of an owner that is replaced by owner_start or restarted
\* included.
VerdictStands(i) ==
  /\ i \in DOMAIN audit' /\ audit'[i] = audit[i]
  /\ \A j \in DOMAIN audit' :
       IsSettlement(j)' /\ audit'[j].owner = audit[i].owner /\ audit'[j].ask = audit[i].ask => j = i
  /\ \A k \in DOMAIN owners' : k = audit[i].owner => audit[i].ask \notin DOMAIN owners'[k].pending

VerdictsStand == [][\A i \in DOMAIN audit : IsSettlement(i) => VerdictStands(i)]_vars

\* A verdict that approve, deny or expire has recorded is never taken back.
THEOREM VerdictsAreFinal == Safety => VerdictsStand
<1>1. IInv /\ [Next]_vars => \A i \in DOMAIN audit : IsSettlement(i) => VerdictStands(i)
  <2> SUFFICES ASSUME IInv, [Next]_vars, NEW i \in DOMAIN audit, IsSettlement(i)
               PROVE  VerdictStands(i)
    OBVIOUS
  <2>1. Owned /\ Owned' /\ Books' /\ Grows
    BY StepCarries DEF Carries, IInv
  <2>2. i \in DOMAIN audit' /\ audit'[i] = audit[i]
    <3>1. DOMAIN audit = 1 .. Len(audit) /\ Len(audit) \in Nat
      BY <2>1, LenProperties DEF Owned
    <3>2. DOMAIN audit' = 1 .. Len(audit') /\ Len(audit') \in Nat
      BY <2>1, LenProperties DEF Owned
    <3> QED
      BY <2>1, <3>1, <3>2 DEF Grows
  <2>3. IsSettlement(i)'
    BY <2>2 DEF IsSettlement
  <2>4. ASSUME NEW j \in DOMAIN audit', IsSettlement(j)', audit'[j].owner = audit[i].owner,
               audit'[j].ask = audit[i].ask
        PROVE  j = i
    BY <2>1, <2>2, <2>3, <2>4 DEF Books, SettledOnce, IsSettlement
  <2>5. ASSUME NEW k \in DOMAIN owners', k = audit[i].owner
        PROVE  audit[i].ask \notin DOMAIN owners'[k].pending
    BY <2>1, <2>2, <2>3, <2>5, LenProperties DEF Books, Inbox, Owned
  <2> QED
    BY <2>2, <2>4, <2>5 DEF VerdictStands
<1> QED
  BY <1>1, Invariance, PTL DEF Safety, VerdictsStand

\* What a command of the Desktop reported done about a room (create, invite,
\* join, remove, forget) is true of the rooms it knows, across restarts, until a
\* write of the store is cut short: std::fs::write empties the file first, so a
\* full disk, or a Desktop that ends in the write, can cost every room.  Nothing
\* else does.
THEOREM RoomsSurvive == Safety => []RoomsAreRemembered
<1>1. IInv => RoomsAreRemembered
  BY DEF IInv, Told, RoomsAreRemembered
<1> QED
  BY <1>1, Invariance, PTL

-----------------------------------------------------------------------------
(* The locks *)

\* Whoever has the SLIM state is in a join and whoever has the Owner waits for
\* the SLIM state; no two joins are under way.
Exclusive ==
  /\ joining # None => joining \in Windows /\ ui[joining].pc = "join"
  /\ locked # None => locked \in Windows /\ ui[locked].pc = "held"
  /\ \A w \in Windows : ui[w].pc = "join" => joining = w

\* The records of the windows, with who has which lock.
Shared == DOMAIN ui = Windows /\ (\A w \in Windows : DOMAIN ui[w] = CommandFields) /\ Exclusive

\* A command that has no lock and takes none.
LEMMA LocksStay ==
  ASSUME Shared, NEW w \in Windows, NEW x, x.pc \notin {"join", "held"},
         ui[w].pc \notin {"join", "held"}, ui' = [ui EXCEPT ![w] = x], UNCHANGED <<locked, joining>>
  PROVE  Exclusive'
BY DEF Shared, Exclusive

\* A step of a command gives back the lock it had, and takes one that was free.
LEMMA CommandsKeepLocks ==
  ASSUME IInv, Exclusive, NEW w \in Windows, Command(w)
  PROVE  Exclusive'
<1>1. Shared /\ \A v \in Windows : v # None
  BY NoneIsApart DEF IInv, Kinds, Shared, Windows
<1> USE DEF Ends, Idle, CommandFields
<1>2. CASE StartReports(w)
  BY <1>1, <1>2 DEF StartReports, Shared, Exclusive
<1>3. CASE owner_status(w) \/ owner_pending(w) \/ owner_approve(w) \/ owner_deny(w)
  <2>1. PICK x : x.pc \notin {"join", "held"} /\ ui' = [ui EXCEPT ![w] = x]
    BY <1>1, <1>3 DEF owner_status, owner_pending, owner_approve, owner_deny, Settles, Shared
  <2>2. ui[w].pc = "held" /\ locked' = None /\ UNCHANGED joining
    BY <1>3 DEF owner_status, owner_pending, owner_approve, owner_deny, Holding
  <2> QED
    BY <1>1, <2>1, <2>2 DEF Shared, Exclusive
<1>4. ASSUME NEW ok \in BOOLEAN, JoinEnds(w, ok) PROVE Exclusive'
  <2>1. ui' = [ui EXCEPT ![w] = Idle] /\ ui[w].pc = "join" /\ joining' = None /\ UNCHANGED locked
    BY <1>4 DEF JoinEnds
  <2> QED
    BY <1>1, <2>1 DEF Shared, Exclusive
<1>5. ASSUME \/ StartServes(w) \/ StartPublishes(w) \/ IsWaiting(w) \/ TakeSender(w) \/ SendAnswer(w)
             \/ PolicySet(w) \/ ManagerReplied(w) \/ \E ok \in BOOLEAN : InviteApproved(w, ok)
      PROVE  Exclusive'
  <2>1. UNCHANGED <<locked, joining>> /\ ui[w].pc \notin {"join", "held"}
    BY <1>5 DEF StartServes, StartPublishes, IsWaiting, TakeSender, SendAnswer, PolicySet, ManagerReplied,
         InviteApproved
  <2>2. \E x : x.pc \notin {"join", "held"} /\ ui' = [ui EXCEPT ![w] = x]
    <3>1. CASE StartServes(w) \/ StartPublishes(w) \/ IsWaiting(w)
      BY <1>1, <3>1 DEF StartServes, StartPublishes, IsWaiting, Shared
    <3>2. CASE TakeSender(w)
      BY <1>1, <3>2 DEF TakeSender, Shared
    <3>3. CASE SendAnswer(w) \/ PolicySet(w) \/ ManagerReplied(w) \/ \E ok \in BOOLEAN : InviteApproved(w, ok)
      BY <3>3 DEF SendAnswer, PolicySet, ManagerReplied, InviteApproved
    <3> QED
      BY <1>5, <3>1, <3>2, <3>3
  <2> QED
    BY <1>1, <2>1, <2>2, LocksStay
<1> QED
  BY <1>2, <1>3, <1>4, <1>5 DEF Command

\* A command that begins takes at most one lock, and only a free one.
LEMMA HumansKeepLocks ==
  ASSUME IInv, Exclusive, NEW w \in Windows, Human(w)
  PROVE  Exclusive'
<1>1. Shared /\ \A v \in Windows : v # None
  BY NoneIsApart DEF IInv, Kinds, Shared, Windows
<1> USE DEF Idle, Begins
<1>2. CASE StartLoads(w)
  BY <1>1, <1>2 DEF StartLoads, Shared, Exclusive
<1>3. ASSUME NEW cmd, NEW ask, with_owner(w, cmd, ask) PROVE Exclusive'
  BY <1>1, <1>3 DEF with_owner, Shared, Exclusive
<1>4. ASSUME NEW policy, PolicyWritten(w, policy) PROVE Exclusive'
  BY <1>1, <1>4 DEF PolicyWritten, Shared, Exclusive
<1>5. ASSUME NEW channel, JoinBegins(w, channel) PROVE Exclusive'
  BY <1>1, <1>5 DEF JoinBegins, SlimFree, Shared, Exclusive
<1>6. ASSUME NEW cmd, NEW channel, ManagerCalled(w, cmd, channel) PROVE Exclusive'
  BY <1>1, <1>6 DEF ManagerCalled, Shared, Exclusive
<1>7. ASSUME NEW channel, NEW x,
             \/ slim_group_create(w, channel, x) \/ slim_group_invite(w, channel, x)
             \/ slim_group_remove_member(w, channel, x) \/ slim_group_forget(w, channel)
             \/ channel_manager_configure(w)
      PROVE  UNCHANGED <<ui, locked, joining>>
  BY <1>7 DEF slim_group_create, slim_group_invite, slim_group_remove_member, slim_group_forget, Short,
       ChangesRoom, channel_manager_configure
<1>8. ASSUME UNCHANGED <<ui, locked, joining>> PROVE Exclusive'
  BY <1>8 DEF Exclusive
<1> QED
  BY <1>2, <1>3, <1>4, <1>5, <1>6, <1>7, <1>8 DEF Human

\* Requests hold no lock from one step to the next, and a restart frees both.
LEMMA StepKeepsLocks ==
  ASSUME IInv, Exclusive, [Next]_vars
  PROVE  Exclusive'
<1>1. ASSUME UNCHANGED <<ui, locked, joining>> PROVE Exclusive'
  BY <1>1 DEF Exclusive
<1>2. ASSUME NEW c \in Calls, Handler(c) PROVE UNCHANGED <<ui, locked, joining>>
  BY <1>2 DEF Handler, HandleRequest, InviteGranted, LookUp, Listing, DecideForManager, Register,
       Answered, TimesOut, Lapse
<1>3. ASSUME NEW c, NEW m, AgentAsks(c, m) \/ ManagerAsks(c, m) PROVE UNCHANGED <<ui, locked, joining>>
  BY <1>3 DEF AgentAsks, ManagerAsks
<1>4. CASE UNCHANGED vars \/ DiskFills \/ Tick
  BY <1>1, <1>4 DEF vars, DiskFills, Tick
<1>5. CASE Restart
  BY <1>5 DEF Restart, Exclusive, Idle
<1>6. CASE System
  BY <1>1, <1>2, <1>4, <1>6, CommandsKeepLocks DEF System
<1>7. CASE Environment
  BY <1>1, <1>3, <1>4, <1>5, <1>7, HumansKeepLocks DEF Environment
<1> QED
  BY <1>4, <1>6, <1>7 DEF Next

\* For any number of windows and requests, the Owner is only ever waited for
\* behind a command that waits for the SLIM state, and the SLIM state behind a
\* join, which times out: with_owner and slim_group_join never wait for each
\* other in a circle, and no way out of a command keeps a lock.
THEOREM NoCircularWait == Safety => []LocksAreInOrder
<1>1. Init => Exclusive
  BY DEF Init, Exclusive, Idle
<1>2. IInv /\ Exclusive /\ [Next]_vars => Exclusive'
  BY StepKeepsLocks
<1>3. Exclusive => LocksAreInOrder
  BY DEF Exclusive, LocksAreInOrder, WantsSlim, WantsOwner
<1> QED
  BY <1>1, <1>2, <1>3, Invariance, PTL DEF Safety

=============================================================================
