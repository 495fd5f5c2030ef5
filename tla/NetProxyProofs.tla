--------------------------- MODULE NetProxyProofs ---------------------------
(***************************************************************************)
(* The permits and the admission of the network proxy, for every cap, any  *)
(* number of connections and of restarts, and every allowlist.             *)
(***************************************************************************)
EXTENDS NetProxy, FiniteSetTheorems, TLAPS

\* The handlers that hold a permit.
Live == {"hello", "resolve", "connect", "tunnel"}

Connection ==
  [pc : Live \cup {"none", "queued", "closed"}, gen : 0..MaxGens,
   ask : Asks \cup {None}, up : BOOLEAN, down : BOOLEAN]

TypeOK ==
  /\ list \in Seq(Entry)
  /\ writer # None => writer \in Seq(Entry)
  /\ in_flight \in [1..MaxGens -> Int]
  /\ queue \in Seq(Conns \cup {None})
  /\ conn \in [Conns -> Connection]
  /\ shown \in [Conns -> SUBSET Seq(Entry)]

\* A connection waits in the backlog once, and nobody else is in it.
Backlog ==
  /\ \A i \in DOMAIN queue : queue[i] # None => conn[queue[i]].pc = "queued"
  /\ \A i, j \in DOMAIN queue : queue[i] = queue[j] /\ queue[i] # None => i = j

\* A handler belongs to an accept loop and has a request to read.
Assigned ==
  \A c \in Conns :
    /\ conn[c].pc \in Live => conn[c].gen \in 1..MaxGens
    /\ conn[c].pc \in Live \cup {"queued"} => conn[c].ask \in Asks

\* What a handler is about to read is among the lists it was shown.
ListIsShown ==
  \A c \in Conns :
    /\ conn[c].pc \in {"hello", "resolve"} => list \in shown[c]
    /\ conn[c].pc = "resolve" => Destination(c).host \in Addresses

\* The inductive invariant.
IInv == TypeOK /\ Backlog /\ Assigned /\ ListIsShown /\ PermitsAreExact /\ TunnelsWereAllowed

-----------------------------------------------------------------------------
(* Lemmas *)

\* A wildcard that matches has labels of the host in front of it.
LEMMA SubdomainIsBelow ==
  ASSUME NEW host \in Host, NEW domain \in Host, IsSubdomain(domain, host)
  PROVE  IsBelow(host, domain)
<1> DEFINE n == Len(host)
           m == Len(domain)
           k == (n - m) + 1
<1>1. n \in Nat /\ m \in Nat /\ m > 0 /\ n > m
  BY DEF IsSubdomain, Host
<1>2. k \in 2..n
  BY <1>1
<1>3. \A i \in 1..m : domain[(m - i) + 1] = host[(n - i) + 1]
  <2> TAKE i \in 1..m
  <2>1. SubSeq(Reverse(domain), 1, Len(Reverse(domain)))
          = SubSeq(Reverse(host), 1, Len(Reverse(domain)))
    BY DEF IsSubdomain, IsSuffix, IsPrefix
  <2>2. Reverse(domain) \in Seq(STRING) /\ Len(Reverse(domain)) = m
    BY DEF Reverse, Host
  <2>3. Reverse(host) \in Seq(STRING) /\ Len(Reverse(host)) = n
    BY DEF Reverse, Host
  <2>4. Reverse(domain)[i] = Reverse(host)[i]
    BY <1>1, <2>1, <2>2, <2>3
  <2> QED
    BY <1>1, <2>4 DEF Reverse, Host
<1>4. SubSeq(host, k, n) = domain
  <2>1. SubSeq(host, k, n) \in Seq(STRING) /\ Len(SubSeq(host, k, n)) = m
    BY <1>1, <1>2 DEF Host
  <2>2. \A j \in 1..m : SubSeq(host, k, n)[j] = domain[j]
    <3> TAKE j \in 1..m
    <3>1. SubSeq(host, k, n)[j] = host[(k + j) - 1]
      BY <1>1, <1>2 DEF Host
    <3>2. (m - j) + 1 \in 1..m /\ (n - ((m - j) + 1)) + 1 = (k + j) - 1
          /\ (m - ((m - j) + 1)) + 1 = j
      BY <1>1
    <3> QED
      BY <1>3, <3>1, <3>2
  <2> QED
    BY <2>1, <2>2 DEF Host
<1> QED
  BY <1>2, <1>4 DEF IsBelow

\* The handlers of an accept loop are finitely many.
LEMMA HandledIsFinite ==
  ASSUME NEW g
  PROVE  IsFiniteSet(Handled(g))
<1>1. IsFiniteSet(Conns)
  BY FS_Interval, BoundsAreNumbers DEF Conns
<1>2. Handled(g) \in SUBSET Conns
  BY DEF Handled
<1> QED
  BY <1>1, <1>2, FS_Subset

\* A step that starts and ends no handler keeps the permits exact.
LEMMA PermitsKept ==
  ASSUME PermitsAreExact, UNCHANGED in_flight,
         \A c \in Conns : (conn[c].pc \in Live \/ conn'[c].pc \in Live) =>
           conn[c].pc \in Live /\ conn'[c].pc \in Live /\ conn'[c].gen = conn[c].gen
  PROVE  PermitsAreExact'
<1> SUFFICES ASSUME NEW g \in 1..MaxGens PROVE Handled(g)' = Handled(g)
  BY DEF PermitsAreExact
<1> QED
  BY DEF Handled, Live

\* What is left of the backlog is as it was.
LEMMA TailOfBacklog ==
  ASSUME TypeOK, Backlog, queue # <<>>
  PROVE  /\ Tail(queue) \in Seq(Conns \cup {None})
         /\ Head(queue) \in Conns \cup {None}
         /\ Head(queue) # None => conn[Head(queue)].pc = "queued"
         /\ \A i \in DOMAIN Tail(queue) :
              /\ i + 1 \in DOMAIN queue /\ Tail(queue)[i] = queue[i + 1]
              /\ Tail(queue)[i] # None => Tail(queue)[i] # Head(queue)
<1>1. queue \in Seq(Conns \cup {None}) /\ Len(queue) \in Nat \ {0} /\ DOMAIN queue = 1..Len(queue)
  BY DEF TypeOK
<1>2. Head(queue) = queue[1] /\ 1 \in DOMAIN queue
  BY <1>1
<1>3. Tail(queue) \in Seq(Conns \cup {None}) /\ DOMAIN Tail(queue) = 1..(Len(queue) - 1)
  BY <1>1
<1>4. \A i \in DOMAIN Tail(queue) : i + 1 \in DOMAIN queue /\ Tail(queue)[i] = queue[i + 1] /\ i + 1 # 1
  BY <1>1, <1>3
<1> QED
  BY <1>1, <1>2, <1>3, <1>4 DEF Backlog

\* The connection that is taken out of the backlog goes its own way.
LEMMA PopBacklog ==
  ASSUME TypeOK, Backlog, queue # <<>>, queue' = Tail(queue),
         \A d \in Conns : d # Head(queue) => conn'[d].pc = conn[d].pc
  PROVE  Backlog'
<1>1. \A i \in DOMAIN queue' : /\ i + 1 \in DOMAIN queue /\ queue'[i] = queue[i + 1]
                               /\ queue'[i] # None => queue'[i] # Head(queue)
  BY TailOfBacklog
<1>2. \A i \in DOMAIN queue' : i \in Nat /\ queue'[i] \in Conns \cup {None}
  BY TailOfBacklog
<1>3. \A i \in DOMAIN queue' : queue'[i] # None => conn'[queue'[i]].pc = "queued"
  BY <1>1, <1>2 DEF Backlog
<1>4. \A i, j \in DOMAIN queue' : queue'[i] = queue'[j] /\ queue'[i] # None => i = j
  <2> SUFFICES ASSUME NEW i \in DOMAIN queue', NEW j \in DOMAIN queue',
                      queue'[i] = queue'[j], queue'[i] # None
               PROVE  i = j
    OBVIOUS
  <2>1. i + 1 = j + 1
    BY <1>1 DEF Backlog
  <2> QED
    BY <1>2, <2>1
<1> QED
  BY <1>3, <1>4 DEF Backlog

\* The state NetProxy::start returns with.
LEMMA InitIInv == Init => IInv
<1> SUFFICES ASSUME Init PROVE IInv
  OBVIOUS
<1> USE BoundsAreNumbers, ListsAreOfEntries DEF Init
<1>1. TypeOK
  BY DEF TypeOK, Connection
<1>2. Backlog /\ Assigned /\ ListIsShown /\ TunnelsWereAllowed
  BY DEF Backlog, Assigned, ListIsShown, TunnelsWereAllowed, Live
<1>3. PermitsAreExact
  <2> SUFFICES ASSUME NEW g \in 1..MaxGens PROVE in_flight[g] = Cardinality(Handled(g)) /\ in_flight[g] <= Cap
    BY DEF PermitsAreExact
  <2>1. Handled(g) = {}
    BY DEF Handled
  <2> QED
    BY <2>1, FS_EmptySet
<1> QED
  BY <1>1, <1>2, <1>3 DEF IInv

\* A handler ends: its connection is closed and its permit returned.
LEMMA HandlerEndsStep ==
  ASSUME IInv, NEW c \in Conns, conn[c].pc \in Live, HandlerEnds(c)
  PROVE  IInv'
<1> USE BoundsAreNumbers
<1> DEFINE k == conn[c].gen
<1>1. k \in 1..MaxGens
  BY DEF IInv, Assigned
<1>2. /\ conn' = [conn EXCEPT ![c].pc = "closed"]
      /\ in_flight' = [in_flight EXCEPT ![k] = @ - 1]
      /\ UNCHANGED <<list, writer, queue, shown>>
  BY DEF HandlerEnds, Closed, Drop_permit, Release, listVars
<1>3. TypeOK'
  <2>1. [conn[c] EXCEPT !.pc = "closed"] \in Connection
    BY DEF IInv, TypeOK, Connection
  <2>2. conn' \in [Conns -> Connection]
    BY <1>2, <2>1 DEF IInv, TypeOK
  <2>3. in_flight' \in [1..MaxGens -> Int]
    BY <1>1, <1>2 DEF IInv, TypeOK
  <2> QED
    BY <1>2, <2>2, <2>3 DEF IInv, TypeOK
<1>4. \A d \in Conns : /\ conn'[d].gen = conn[d].gen /\ conn'[d].ask = conn[d].ask
                       /\ conn'[d].pc = IF d = c THEN "closed" ELSE conn[d].pc
  BY <1>2 DEF IInv, TypeOK, Connection
<1>5. Backlog'
  <2>1. conn[c].pc # "queued"
    BY DEF Live
  <2>2. \A i \in DOMAIN queue : queue[i] \in Conns \cup {None}
    BY DEF IInv, TypeOK
  <2> QED
    BY <1>2, <1>4, <2>1, <2>2 DEF IInv, Backlog
<1>6. Assigned' /\ ListIsShown' /\ TunnelsWereAllowed'
  BY <1>2, <1>4 DEF IInv, Assigned, ListIsShown, TunnelsWereAllowed, Live, Destination
<1>7. PermitsAreExact'
  <2> SUFFICES ASSUME NEW g \in 1..MaxGens
               PROVE  in_flight'[g] = Cardinality(Handled(g)') /\ in_flight'[g] <= Cap
    BY DEF PermitsAreExact
  <2>1. in_flight[g] = Cardinality(Handled(g)) /\ in_flight[g] <= Cap /\ in_flight[g] \in Int
    BY DEF IInv, PermitsAreExact, TypeOK
  <2>2. CASE g = k
    <3>1. Handled(g)' = Handled(g) \ {c} /\ c \in Handled(g)
      BY <1>4, <2>2 DEF Handled, Live
    <3>2. Cardinality(Handled(g) \ {c}) = Cardinality(Handled(g)) - 1
      BY <3>1, HandledIsFinite, FS_RemoveElement
    <3>3. in_flight'[g] = in_flight[g] - 1
      BY <1>2, <2>2 DEF IInv, TypeOK
    <3> QED
      BY <2>1, <3>1, <3>2, <3>3
  <2>3. CASE g # k
    <3>1. Handled(g)' = Handled(g)
      BY <1>4, <2>3 DEF Handled, Live
    <3>2. in_flight'[g] = in_flight[g]
      BY <1>2, <2>3 DEF IInv, TypeOK
    <3> QED
      BY <2>1, <3>1, <3>2
  <2> QED
    BY <2>2, <2>3
<1> QED
  BY <1>3, <1>5, <1>6, <1>7 DEF IInv

\* Restarting, and rebinding or not, leaves the connections alone.
LEMMA OwnerStep ==
  ASSUME IInv, RestartBegins \/ Drop \/ Joined \/ Rebinds \/ BindFails
  PROVE  IInv'
<1> USE BoundsAreNumbers
<1>1. UNCHANGED <<list, writer, in_flight, conn, shown>>
  BY DEF RestartBegins, Drop, Joined, Rebinds, BindFails, listVars
<1>2. queue' \in {queue, Append(queue, None)}
  BY DEF RestartBegins, Drop, Joined, Rebinds, BindFails
<1>3. queue \in Seq(Conns \cup {None})
  BY DEF IInv, TypeOK
<1>4. TypeOK'
  <2>1. queue' \in Seq(Conns \cup {None})
    BY <1>2, <1>3
  <2> QED
    BY <1>1, <2>1 DEF IInv, TypeOK
<1>5. Backlog'
  <2>1. CASE queue' = queue
    BY <1>1, <2>1 DEF IInv, Backlog
  <2>2. CASE queue' = Append(queue, None)
    <3>1. \A i \in DOMAIN queue' : queue'[i] # None => i \in DOMAIN queue /\ queue'[i] = queue[i]
      BY <1>3, <2>2
    <3> QED
      BY <1>1, <3>1 DEF IInv, Backlog
  <2> QED
    BY <1>2, <2>1, <2>2
<1>6. Assigned' /\ ListIsShown' /\ TunnelsWereAllowed'
  BY <1>1 DEF IInv, Assigned, ListIsShown, TunnelsWereAllowed, Destination
<1>7. PermitsAreExact'
  BY <1>1 DEF IInv, PermitsAreExact, Handled
<1> QED
  BY <1>4, <1>5, <1>6, <1>7 DEF IInv

\* The end of an accept loop closes what waits in its backlog.
LEMMA LoopEndsStep ==
  ASSUME IInv, NEW g, LoopEnds(g), UNCHANGED <<list, writer, in_flight, shown>>
  PROVE  IInv'
<1> USE BoundsAreNumbers
<1>1. queue' = <<>>
  BY DEF LoopEnds
<1>2. \A c \in Conns : conn'[c] = IF conn[c].pc = "queued" THEN [conn[c] EXCEPT !.pc = "closed"]
                                                          ELSE conn[c]
  BY DEF LoopEnds
<1>3. \A c \in Conns : conn[c] \in Connection
  BY DEF IInv, TypeOK
<1>4. conn' \in [Conns -> Connection]
  <2>1. \A c \in Conns : [conn[c] EXCEPT !.pc = "closed"] \in Connection
    BY <1>3 DEF Connection
  <2> QED
    BY <1>3, <2>1 DEF LoopEnds
<1>5. TypeOK'
  BY <1>1, <1>4 DEF IInv, TypeOK
<1>6. Backlog'
  BY <1>1 DEF Backlog
<1>7. \A c \in Conns : /\ conn'[c].gen = conn[c].gen /\ conn'[c].ask = conn[c].ask
                       /\ conn'[c].pc = IF conn[c].pc = "queued" THEN "closed" ELSE conn[c].pc
  BY <1>2, <1>3 DEF Connection
<1>8. Assigned' /\ ListIsShown' /\ TunnelsWereAllowed'
  BY <1>7 DEF IInv, Assigned, ListIsShown, TunnelsWereAllowed, Live, Destination
<1>9. PermitsAreExact'
  BY <1>7, PermitsKept DEF IInv, Live
<1> QED
  BY <1>5, <1>6, <1>8, <1>9 DEF IInv

\* A connection that is shed, or gets no thread, is closed without a permit.
LEMMA ShedStep ==
  ASSUME IInv, queue # <<>>, Head(queue) # None, queue' = Tail(queue), conn' = Closed(Head(queue)),
         UNCHANGED <<list, writer, in_flight, shown>>
  PROVE  IInv'
<1> USE BoundsAreNumbers
<1> DEFINE h == Head(queue)
<1>1. /\ h \in Conns /\ conn[h].pc = "queued" /\ queue' \in Seq(Conns \cup {None})
      /\ \A i \in DOMAIN queue' : /\ i + 1 \in DOMAIN queue /\ queue'[i] = queue[i + 1]
                                   /\ queue'[i] # None => queue'[i] # h
  BY TailOfBacklog DEF IInv
<1>2. conn' = [conn EXCEPT ![h].pc = "closed"]
  BY DEF Closed
<1>3. [conn[h] EXCEPT !.pc = "closed"] \in Connection
  BY <1>1 DEF IInv, TypeOK, Connection
<1>4. TypeOK'
  BY <1>1, <1>2, <1>3 DEF IInv, TypeOK
<1>5. \A d \in Conns : /\ conn'[d].gen = conn[d].gen /\ conn'[d].ask = conn[d].ask
                       /\ conn'[d].pc = IF d = h THEN "closed" ELSE conn[d].pc
  BY <1>1, <1>2 DEF IInv, TypeOK, Connection
<1>6. Backlog'
  BY <1>5, PopBacklog DEF IInv
<1>7. Assigned' /\ ListIsShown' /\ TunnelsWereAllowed'
  BY <1>5 DEF IInv, Assigned, ListIsShown, TunnelsWereAllowed, Live, Destination
<1>8. PermitsAreExact'
  BY <1>1, <1>5, PermitsKept DEF IInv, Live
<1> QED
  BY <1>4, <1>6, <1>7, <1>8 DEF IInv

\* A handler begins, with a permit that the cap leaves room for.
LEMMA SpawnStep ==
  ASSUME IInv, NEW g \in 1..MaxGens, queue # <<>>, Head(queue) # None, ~AtCap(g),
         queue' = Tail(queue),
         conn' = [conn EXCEPT ![Head(queue)].pc = "hello", ![Head(queue)].gen = g],
         in_flight' = [in_flight EXCEPT ![g] = @ + 1],
         shown' = [shown EXCEPT ![Head(queue)] = {list}],
         UNCHANGED <<list, writer>>
  PROVE  IInv'
<1> USE BoundsAreNumbers
<1> DEFINE h == Head(queue)
<1>1. /\ h \in Conns /\ conn[h].pc = "queued" /\ queue' \in Seq(Conns \cup {None})
      /\ \A i \in DOMAIN queue' : /\ i + 1 \in DOMAIN queue /\ queue'[i] = queue[i + 1]
                                   /\ queue'[i] # None => queue'[i] # h
  BY TailOfBacklog DEF IInv
<1>2. \A d \in Conns : conn'[d] = IF d = h THEN [conn[h] EXCEPT !.pc = "hello", !.gen = g] ELSE conn[d]
  BY <1>1 DEF IInv, TypeOK
<1>3. [conn[h] EXCEPT !.pc = "hello", !.gen = g] \in Connection
  <2>1. conn[h] \in Connection /\ g \in 0..MaxGens
    BY <1>1 DEF IInv, TypeOK
  <2> QED
    BY <2>1 DEF Connection, Live
<1>4. TypeOK'
  <2>1. conn' \in [Conns -> Connection]
    BY <1>1, <1>2, <1>3 DEF IInv, TypeOK
  <2>2. in_flight' \in [1..MaxGens -> Int] /\ shown' \in [Conns -> SUBSET Seq(Entry)]
    BY <1>1 DEF IInv, TypeOK
  <2> QED
    BY <1>1, <2>1, <2>2 DEF IInv, TypeOK
<1>5. \A d \in Conns : /\ conn'[d].ask = conn[d].ask
                       /\ conn'[d].gen = IF d = h THEN g ELSE conn[d].gen
                       /\ conn'[d].pc = IF d = h THEN "hello" ELSE conn[d].pc
  BY <1>1, <1>2 DEF IInv, TypeOK, Connection
<1>6. Backlog'
  BY <1>5, PopBacklog DEF IInv
<1>7. Assigned'
  BY <1>1, <1>5 DEF IInv, Assigned, Live
<1>8. \A d \in Conns : shown'[d] = IF d = h THEN {list} ELSE shown[d]
  BY <1>1 DEF IInv, TypeOK
<1>9. ListIsShown' /\ TunnelsWereAllowed'
  <2>1. \A d \in Conns : Destination(d)' = Destination(d)
    BY <1>5 DEF Destination
  <2>2. ListIsShown'
    <3> SUFFICES ASSUME NEW d \in Conns
                 PROVE  /\ conn'[d].pc \in {"hello", "resolve"} => list' \in shown'[d]
                        /\ conn'[d].pc = "resolve" => Destination(d)'.host \in Addresses
      BY DEF ListIsShown
    <3>1. CASE d = h
      <4>1. conn'[d].pc = "hello"
        BY <1>5, <3>1
      <4>2. list' \in shown'[d]
        <5>1. list' = list
          OBVIOUS
        <5>2. shown'[d] = {list}
          BY <1>8, <3>1
        <5> QED
          BY <5>1, <5>2
      <4> QED
        BY <4>1, <4>2
    <3>2. CASE d # h
      BY <1>5, <1>8, <2>1, <3>2 DEF IInv, ListIsShown
    <3> QED
      BY <3>1, <3>2
  <2>3. TunnelsWereAllowed'
    BY <1>5, <1>8, <2>1 DEF IInv, TunnelsWereAllowed
  <2> QED
    BY <2>2, <2>3
<1>10. PermitsAreExact'
  <2> SUFFICES ASSUME NEW k \in 1..MaxGens
               PROVE  in_flight'[k] = Cardinality(Handled(k)') /\ in_flight'[k] <= Cap
    BY DEF PermitsAreExact
  <2>1. in_flight[k] = Cardinality(Handled(k)) /\ in_flight[k] <= Cap /\ in_flight[k] \in Int
    BY DEF IInv, PermitsAreExact, TypeOK
  <2>2. CASE k = g
    <3>1. Handled(k)' = Handled(k) \cup {h} /\ h \notin Handled(k)
      <4>1. \A j : j \in Handled(k)' <=> j \in Handled(k) \/ j = h
        BY <1>1, <1>5, <2>2 DEF Handled
      <4>2. h \notin Handled(k)
        BY <1>1, <1>5, <2>2 DEF Handled
      <4> QED
        BY <4>1, <4>2
    <3>2. Cardinality(Handled(k) \cup {h}) = Cardinality(Handled(k)) + 1
      BY <3>1, HandledIsFinite, FS_AddElement
    <3>3. in_flight'[k] = in_flight[k] + 1 /\ in_flight[k] < Cap
      BY <2>1, <2>2 DEF IInv, TypeOK, AtCap
    <3> QED
      BY <2>1, <3>1, <3>2, <3>3
  <2>3. CASE k # g
    <3>1. Handled(k)' = Handled(k)
      <4>1. \A j : j \in Handled(k)' <=> j \in Handled(k)
        BY <1>1, <1>5, <2>3 DEF Handled
      <4> QED
        BY <4>1
    <3>2. in_flight'[k] = in_flight[k]
      BY <2>3 DEF IInv, TypeOK
    <3> QED
      BY <2>1, <3>1, <3>2
  <2> QED
    BY <2>2, <2>3
<1> QED
  BY <1>4, <1>6, <1>7, <1>9, <1>10 DEF IInv

\* A client's connection joins the end of the backlog.
LEMMA ConnectStep ==
  ASSUME IInv, NEW c \in Conns, NEW ask \in Asks, ClientConnects(c, ask)
  PROVE  IInv'
<1> USE BoundsAreNumbers
<1>1. /\ conn[c].pc = "none" /\ queue' = Append(queue, c)
      /\ conn' = [conn EXCEPT ![c].pc = "queued", ![c].ask = ask]
      /\ UNCHANGED <<list, writer, in_flight, shown>>
  BY DEF ClientConnects, listVars
<1>2. queue \in Seq(Conns \cup {None}) /\ c # None
  BY DEF IInv, TypeOK, Conns
<1>3. \A d \in Conns : conn'[d] = IF d = c THEN [conn[c] EXCEPT !.pc = "queued", !.ask = ask] ELSE conn[d]
  BY <1>1 DEF IInv, TypeOK
<1>4. [conn[c] EXCEPT !.pc = "queued", !.ask = ask] \in Connection
  BY DEF IInv, TypeOK, Connection
<1>5. TypeOK'
  <2>1. conn' \in [Conns -> Connection]
    BY <1>1, <1>3, <1>4 DEF IInv, TypeOK
  <2>2. queue' \in Seq(Conns \cup {None})
    BY <1>1, <1>2
  <2> QED
    BY <1>1, <2>1, <2>2 DEF IInv, TypeOK
<1>6. \A d \in Conns : /\ conn'[d].gen = conn[d].gen
                       /\ conn'[d].ask = IF d = c THEN ask ELSE conn[d].ask
                       /\ conn'[d].pc = IF d = c THEN "queued" ELSE conn[d].pc
  <2>1. conn[c] = [pc |-> conn[c].pc, gen |-> conn[c].gen, ask |-> conn[c].ask,
                   up |-> conn[c].up, down |-> conn[c].down]
    BY DEF IInv, TypeOK, Connection
  <2> QED
    BY <1>3, <2>1
<1>7. Backlog'
  <2>1. \A i \in DOMAIN queue : queue[i] \in Conns \cup {None} /\ queue[i] # c
    BY <1>1, <1>2 DEF IInv, Backlog
  <2>2. /\ DOMAIN queue' = 1..(Len(queue) + 1) /\ DOMAIN queue = 1..Len(queue) /\ Len(queue) \in Nat
        /\ queue'[Len(queue) + 1] = c
        /\ \A i \in DOMAIN queue : queue'[i] = queue[i]
    BY <1>1, <1>2
  <2>3. \A i \in DOMAIN queue' : i \in DOMAIN queue \/ i = Len(queue) + 1
    BY <2>2
  <2>4. \A i \in DOMAIN queue' : queue'[i] # None => conn'[queue'[i]].pc = "queued"
    BY <1>6, <2>1, <2>2, <2>3 DEF IInv, Backlog
  <2>5. \A i, j \in DOMAIN queue' : queue'[i] = queue'[j] /\ queue'[i] # None => i = j
    BY <2>1, <2>2, <2>3 DEF IInv, Backlog
  <2> QED
    BY <2>4, <2>5 DEF Backlog
<1>8. Assigned'
  <2>1. conn[c].pc \notin Live
    BY <1>1 DEF Live
  <2>2. "queued" \notin Live
    BY DEF Live
  <2>3. Assigned
    BY DEF IInv
  <2> QED
    BY <1>6, <2>1, <2>2, <2>3 DEF Assigned
<1>9. ListIsShown' /\ TunnelsWereAllowed'
  <2>1. \A d \in Conns : d # c => Destination(d)' = Destination(d)
    BY <1>6 DEF Destination
  <2>2. ListIsShown'
    <3> SUFFICES ASSUME NEW d \in Conns
                 PROVE  /\ conn'[d].pc \in {"hello", "resolve"} => list' \in shown'[d]
                        /\ conn'[d].pc = "resolve" => Destination(d)'.host \in Addresses
      BY DEF ListIsShown
    <3>1. CASE d = c
      BY <1>6, <3>1
    <3>2. CASE d # c
      BY <1>1, <1>6, <2>1, <3>2 DEF IInv, ListIsShown
    <3> QED
      BY <3>1, <3>2
  <2>3. TunnelsWereAllowed'
    BY <1>1, <1>6, <2>1 DEF IInv, TunnelsWereAllowed
  <2> QED
    BY <2>2, <2>3
<1>10. PermitsAreExact'
  <2>1. conn[c].pc = "none" /\ UNCHANGED in_flight
    BY <1>1
  <2>2. PermitsAreExact
    BY DEF IInv
  <2>3. \A d \in Conns : conn'[d].pc \in Live \/ conn[d].pc \in Live => d # c
    BY <1>6, <2>1 DEF Live
  <2> QED
    BY <1>6, <2>1, <2>2, <2>3, PermitsKept
<1> QED
  BY <1>5, <1>7, <1>8, <1>9, <1>10 DEF IInv

\* A handler goes on to where it may be: it keeps its permit and its request.
LEMMA HandlerMoves ==
  ASSUME IInv, NEW c \in Conns, conn[c].pc \in Live, conn' \in [Conns -> Connection],
         \A d \in Conns : /\ conn'[d].gen = conn[d].gen /\ conn'[d].ask = conn[d].ask
                          /\ d # c => conn'[d].pc = conn[d].pc,
         conn'[c].pc \in Live,
         conn'[c].pc = "hello" => conn[c].pc = "hello",
         conn'[c].pc = "resolve" => conn[c].pc = "hello" /\ Destination(c).host \in Addresses,
         conn'[c].pc \in {"connect", "tunnel"} => Covered(Destination(c), shown[c]),
         UNCHANGED <<proxyVars, listVars, shown>>
  PROVE  IInv'
<1>1. UNCHANGED <<list, writer, in_flight, queue, shown>>
  BY DEF proxyVars, listVars
<1>2. TypeOK'
  BY <1>1 DEF IInv, TypeOK
<1>3. Backlog'
  <2>1. \A i \in DOMAIN queue : queue[i] \in Conns \cup {None}
    BY DEF IInv, TypeOK
  <2>2. conn[c].pc # "queued"
    BY DEF Live
  <2> QED
    BY <1>1, <2>1, <2>2 DEF IInv, Backlog
<1>4. Assigned'
  BY <1>1 DEF IInv, Assigned
<1>5. ListIsShown'
  BY <1>1 DEF IInv, ListIsShown, Destination
<1>6. TunnelsWereAllowed'
  BY <1>1 DEF IInv, TunnelsWereAllowed, Destination
<1>7. PermitsAreExact'
  BY <1>1, PermitsKept DEF IInv
<1> QED
  BY <1>2, <1>3, <1>4, <1>5, <1>6, <1>7 DEF IInv

\* What a request is parsed to: the host it names, an address if it says so.
LEMMA ParsedHost ==
  ASSUME NEW ask \in Asks
  PROVE  /\ Parsed(ask).host = ask.host /\ Parsed(ask).host \in Host
         /\ Parsed(ask).is_resolved_ip => Parsed(ask).host \in Addresses
<1>1. ask.host \in Host /\ (ask.form = "address" => ask.host \in Addresses)
  BY AddressesAreHosts
<1>2. CASE ask.proto = "socks5"
  <2>1. Parsed(ask) = [host |-> ask.host, port |-> ask.port, is_resolved_ip |-> (ask.form = "address")]
    BY <1>2 DEF Parsed, parse_socks5_request, Request
  <2>2. Parsed(ask).host = ask.host
    BY <2>1
  <2>3. Parsed(ask).is_resolved_ip = (ask.form = "address")
    BY <2>1
  <2> QED
    BY <1>1, <2>2, <2>3, Zenon
<1>3. CASE ask.proto # "socks5"
  <2> DEFINE port == split_authority(ask, IF ask.form = "CONNECT" THEN None ELSE 80)
  <2>1. Parsed(ask) = [host |-> ask.host, port |-> port, is_resolved_ip |-> (ask.host \in Addresses)]
    BY <1>3 DEF Parsed, parse_http_proxy_request, Request
  <2> HIDE DEF port
  <2>2. Parsed(ask).host = ask.host
    BY <2>1
  <2>3. Parsed(ask).is_resolved_ip = (ask.host \in Addresses)
    BY <2>1
  <2> QED
    BY <1>1, <2>2, <2>3, Zenon
<1> QED
  BY <1>2, <1>3

\* What the list allows by name, it covers.
LEMMA AllowedIsCovered ==
  ASSUME NEW dest, dest.host \in Host, NEW entries \in Seq(Entry), NEW lists, entries \in lists,
         is_host_allowed(dest.host, dest.port, entries)
  PROVE  Covered(dest, lists)
<1>1. PICK i \in DOMAIN entries :
        /\ admits(entries[i].port, dest.port)
        /\ \/ entries[i].kind = "all"
           \/ entries[i].kind = "exact" /\ entries[i].host = dest.host
           \/ entries[i].kind = "suffix" /\ IsSubdomain(entries[i].host, dest.host)
  BY DEF is_host_allowed
<1>2. entries[i] \in Entry
  OBVIOUS
<1>3. entries[i].host \in Host
  BY <1>2 DEF Entry
<1>4. IsSubdomain(entries[i].host, dest.host) => IsBelow(dest.host, entries[i].host)
  BY <1>3, SubdomainIsBelow
<1>5. entries[i].port \in {AnyPort, dest.port}
  BY <1>1 DEF admits
<1> QED
  BY <1>1, <1>4, <1>5 DEF Covered

\* So is an address that an entry's name resolves to.
LEMMA ResolvedIsCovered ==
  ASSUME NEW dest, dest.host \in Host, dest.host \in Addresses,
         NEW entries \in Seq(Entry), NEW lists, entries \in lists, NEW answer \in Answers,
         is_ip_allowed(dest.host, dest.port, entries, answer)
  PROVE  Covered(dest, lists)
<1>1. CASE is_host_allowed(dest.host, dest.port, entries)
  BY <1>1, AllowedIsCovered
<1>2. CASE \E i \in DOMAIN entries :
             /\ admits(entries[i].port, dest.port)
             /\ entries[i].kind = "exact" /\ dest.host \in answer[entries[i].host]
  BY <1>2 DEF Covered, admits
<1> QED
  BY <1>1, <1>2 DEF is_ip_allowed

\* A handler decides on a list it was shown.
LEMMA DecideStep ==
  ASSUME IInv, NEW c \in Conns, conn[c].pc \in {"hello", "resolve"}, NEW allowed, Decide(c, allowed),
         allowed => Covered(Destination(c), shown[c])
  PROVE  IInv'
<1>1. conn[c].pc \in Live
  BY DEF Live
<1>2. CASE ~allowed /\ HandlerEnds(c)
  BY <1>1, <1>2, HandlerEndsStep
<1>3. CASE allowed /\ conn' = [conn EXCEPT ![c].pc = "connect"] /\ UNCHANGED <<proxyVars, listVars, shown>>
  <2>1. [conn[c] EXCEPT !.pc = "connect"] \in Connection
    BY DEF IInv, TypeOK, Connection, Live
  <2>2. conn' \in [Conns -> Connection]
    BY <1>3, <2>1 DEF IInv, TypeOK
  <2>3. conn'[c].pc = "connect"
        /\ \A d \in Conns : /\ conn'[d].gen = conn[d].gen /\ conn'[d].ask = conn[d].ask
                            /\ d # c => conn'[d].pc = conn[d].pc
    BY <1>3 DEF IInv, TypeOK, Connection
  <2>4. conn'[c].pc \in Live
    BY <2>3 DEF Live
  <2> QED
    BY <1>1, <1>3, <2>2, <2>3, <2>4, HandlerMoves
<1> QED
  BY <1>2, <1>3 DEF Decide

\* A name is looked up in the list, an address in what its names resolve to.
LEMMA AdmitStep ==
  ASSUME IInv, NEW c \in Conns, AdmitName(c) \/ \E answer \in Answers : AdmitAddress(c, answer)
  PROVE  IInv'
<1> DEFINE dest == Destination(c)
<1>1. conn[c].pc \in {"hello", "resolve"}
  BY DEF AdmitName, AdmitAddress, Asked
<1>2. dest.host \in Host
  <2>1. conn[c].ask \in Asks
    BY <1>1 DEF IInv, Assigned, Live
  <2> QED
    BY <2>1, ParsedHost DEF Destination
<1>3. list \in Seq(Entry) /\ list \in shown[c]
  BY <1>1 DEF IInv, TypeOK, ListIsShown
<1>4. CASE AdmitName(c)
  <2>1. is_host_allowed(dest.host, dest.port, list) => Covered(dest, shown[c])
    BY <1>2, <1>3, AllowedIsCovered
  <2> QED
    BY <1>1, <1>4, <2>1, DecideStep DEF AdmitName
<1>5. ASSUME NEW answer \in Answers, AdmitAddress(c, answer) PROVE IInv'
  <2>1. dest.host \in Addresses
    BY <1>5 DEF IInv, ListIsShown, AdmitAddress
  <2>2. is_ip_allowed(dest.host, dest.port, list, answer) => Covered(dest, shown[c])
    BY <1>2, <1>3, <2>1, ResolvedIsCovered
  <2> QED
    BY <1>1, <1>5, <2>2, DecideStep DEF AdmitAddress
<1> QED
  BY <1>4, <1>5

\* The lock is taken for an address, the upstream host answers, a side ends.
LEMMA MoveStep ==
  ASSUME IInv, NEW c \in Conns,
         BeginResolve(c) \/ UpstreamConnects(c) \/ CopyEnds(c, "up") \/ CopyEnds(c, "down")
  PROVE  IInv'
<1>1. conn[c] \in Connection /\ conn \in [Conns -> Connection]
  BY DEF IInv, TypeOK
<1>2. UNCHANGED <<proxyVars, listVars, shown>>
  BY DEF BeginResolve, UpstreamConnects, CopyEnds
<1>3. CASE BeginResolve(c)
  <2>1. conn' = [conn EXCEPT ![c].pc = "resolve"] /\ conn[c].pc = "hello"
    BY <1>3 DEF BeginResolve, Asked
  <2>2. [conn[c] EXCEPT !.pc = "resolve"] \in Connection
    BY <1>1 DEF Connection, Live
  <2>3. conn' \in [Conns -> Connection]
    BY <1>1, <2>1, <2>2
  <2>4. conn'[c].pc = "resolve"
        /\ \A d \in Conns : /\ conn'[d].gen = conn[d].gen /\ conn'[d].ask = conn[d].ask
                            /\ d # c => conn'[d].pc = conn[d].pc
    BY <1>1, <2>1 DEF Connection
  <2>5. conn[c].ask \in Asks
    BY <2>1 DEF IInv, Assigned, Live
  <2>6. Destination(c).host \in Addresses
    BY <1>3, <2>5, ParsedHost DEF BeginResolve, Destination
  <2>7. conn[c].pc \in Live /\ conn'[c].pc \in Live
    BY <2>1, <2>4 DEF Live
  <2> QED
    BY <1>2, <2>1, <2>3, <2>4, <2>6, <2>7, HandlerMoves
<1>4. CASE UpstreamConnects(c)
  <2>1. conn' = [conn EXCEPT ![c].pc = "tunnel"] /\ conn[c].pc = "connect"
    BY <1>4 DEF UpstreamConnects
  <2>2. [conn[c] EXCEPT !.pc = "tunnel"] \in Connection
    BY <1>1 DEF Connection, Live
  <2>3. conn' \in [Conns -> Connection]
    BY <1>1, <2>1, <2>2
  <2>4. conn'[c].pc = "tunnel"
        /\ \A d \in Conns : /\ conn'[d].gen = conn[d].gen /\ conn'[d].ask = conn[d].ask
                            /\ d # c => conn'[d].pc = conn[d].pc
    BY <1>1, <2>1 DEF Connection
  <2>5. Covered(Destination(c), shown[c])
    BY <2>1 DEF IInv, TunnelsWereAllowed
  <2>6. conn[c].pc \in Live /\ conn'[c].pc \in Live
    BY <2>1, <2>4 DEF Live
  <2> QED
    BY <1>2, <2>3, <2>4, <2>5, <2>6, HandlerMoves
<1>5. ASSUME NEW way \in {"up", "down"}, CopyEnds(c, way) PROVE IInv'
  <2>1. conn' = [conn EXCEPT ![c][way] = TRUE] /\ conn[c].pc = "tunnel"
    BY <1>5 DEF CopyEnds
  <2>2. [conn[c] EXCEPT ![way] = TRUE] \in Connection
    BY <1>1, <1>5 DEF Connection
  <2>3. conn' \in [Conns -> Connection]
    BY <1>1, <2>1, <2>2
  <2>4. \A d \in Conns : /\ conn'[d].gen = conn[d].gen /\ conn'[d].ask = conn[d].ask
                         /\ conn'[d].pc = conn[d].pc
    BY <1>1, <1>5, <2>1 DEF Connection
  <2>5. Covered(Destination(c), shown[c])
    BY <2>1 DEF IInv, TunnelsWereAllowed
  <2>6. conn[c].pc \in Live /\ conn'[c].pc \in Live /\ conn'[c].pc = "tunnel"
    BY <2>1, <2>4 DEF Live
  <2> QED
    BY <1>2, <2>3, <2>4, <2>5, <2>6, HandlerMoves
<1> QED
  BY <1>3, <1>4, <1>5

\* A patch is announced, and written when nobody reads: who has not decided yet
\* is shown the new list.
LEMMA ListStep ==
  ASSUME IInv, WriteList \/ \E new \in Lists : Update(new)
  PROVE  IInv'
<1>1. UNCHANGED <<in_flight, queue, conn>>
  BY DEF WriteList, Update, proxyVars
<1>2. list' \in Seq(Entry) /\ (writer' # None => writer' \in Seq(Entry))
  BY ListsAreOfEntries DEF WriteList, Update, IInv, TypeOK
<1>3. \A c \in Conns : /\ shown'[c] \in SUBSET Seq(Entry) /\ shown[c] \subseteq shown'[c]
                       /\ conn[c].pc \in {"hello", "resolve"} => list' \in shown'[c]
  <2>1. CASE WriteList
    <3> TAKE c \in Conns
    <3>1. shown'[c] = IF conn[c].pc = "hello" THEN shown[c] \cup {list'} ELSE shown[c]
      BY <2>1 DEF WriteList
    <3>2. conn[c].pc # "resolve"
      BY <2>1 DEF WriteList, NoReader
    <3>3. shown[c] \in SUBSET Seq(Entry)
      BY DEF IInv, TypeOK
    <3> QED
      BY <1>2, <3>1, <3>2, <3>3
  <2>2. CASE \E new \in Lists : Update(new)
    <3>1. UNCHANGED <<list, shown>>
      BY <2>2 DEF Update
    <3> QED
      BY <3>1 DEF IInv, TypeOK, ListIsShown
  <2> QED
    BY <2>1, <2>2
<1>4. TypeOK'
  <2>1. shown' \in [Conns -> SUBSET Seq(Entry)]
    <3>1. CASE WriteList
      BY <1>3, <3>1 DEF WriteList
    <3>2. CASE \E new \in Lists : Update(new)
      BY <3>2 DEF Update, IInv, TypeOK
    <3> QED
      BY <3>1, <3>2
  <2> QED
    BY <1>1, <1>2, <2>1 DEF IInv, TypeOK
<1>5. Backlog' /\ Assigned'
  BY <1>1 DEF IInv, Backlog, Assigned
<1>6. ListIsShown'
  BY <1>1, <1>3 DEF IInv, ListIsShown, Destination
<1>7. TunnelsWereAllowed'
  <2> SUFFICES ASSUME NEW c \in Conns, conn'[c].pc \in {"connect", "tunnel"}
               PROVE  Covered(Destination(c)', shown'[c])
    BY DEF TunnelsWereAllowed
  <2>1. Covered(Destination(c), shown[c])
    BY <1>1 DEF IInv, TunnelsWereAllowed
  <2>2. Destination(c)' = Destination(c)
    BY <1>1 DEF Destination
  <2>3. shown[c] \subseteq shown'[c]
    BY <1>3
  <2> QED
    BY <2>1, <2>2, <2>3, Zenon DEF Covered
<1>8. PermitsAreExact'
  BY <1>1 DEF IInv, PermitsAreExact, Handled
<1> QED
  BY <1>4, <1>5, <1>6, <1>7, <1>8 DEF IInv

\* A step of an accept loop.
LEMMA AcceptStep ==
  ASSUME IInv, NEW g \in 1..MaxGens,
         AcceptStopped(g) \/ Shed(g) \/ Spawn(g) \/ Spawned(g) \/ AcceptFails(g)
  PROVE  IInv'
<1>1. CASE AcceptStopped(g)
  BY <1>1, LoopEndsStep DEF AcceptStopped, listVars
<1>2. CASE AcceptFails(g)
  BY <1>2, LoopEndsStep DEF AcceptFails, listVars
<1>3. CASE Shed(g)
  BY <1>3, ShedStep DEF Shed, Accept, listVars
<1>4. CASE Spawn(g)
  <2>1. /\ queue # <<>> /\ Head(queue) # None /\ ~AtCap(g) /\ queue' = Tail(queue)
        /\ UNCHANGED <<list, writer>>
    BY <1>4 DEF Spawn, Accept, listVars
  <2>2. CASE conn' = Closed(Head(queue)) /\ UNCHANGED <<in_flight, shown>>
    BY <2>1, <2>2, ShedStep
  <2>3. CASE /\ conn' = [conn EXCEPT ![Head(queue)].pc = "hello", ![Head(queue)].gen = g]
             /\ in_flight' = [in_flight EXCEPT ![g] = @ + 1]
             /\ shown' = [shown EXCEPT ![Head(queue)] = {list}]
    BY <2>1, <2>3, SpawnStep
  <2> QED
    BY <1>4, <2>2, <2>3 DEF Spawn
<1>5. CASE Spawned(g) /\ LoopEnds(g)
  BY <1>5, LoopEndsStep DEF Spawned, listVars
<1>6. CASE Spawned(g) /\ UNCHANGED <<conn, queue>>
  <2>1. UNCHANGED <<list, writer, in_flight, queue, conn, shown>>
    BY <1>6 DEF Spawned, listVars
  <2> QED
    BY <2>1 DEF IInv, TypeOK, Backlog, Assigned, ListIsShown, PermitsAreExact, Handled,
                TunnelsWereAllowed, Destination
<1> QED
  BY <1>1, <1>2, <1>3, <1>4, <1>5, <1>6 DEF Spawned

\* Every step keeps the invariant.
LEMMA NextIInv == IInv /\ [Next]_vars => IInv'
<1> SUFFICES ASSUME IInv, [Next]_vars PROVE IInv'
  OBVIOUS
<1>1. CASE UNCHANGED vars
  <2>1. UNCHANGED <<list, writer, in_flight, queue, conn, shown>>
    BY <1>1 DEF vars, proxyVars, listVars
  <2> QED
    BY <2>1 DEF IInv, TypeOK, Backlog, Assigned, ListIsShown, PermitsAreExact, Handled,
                TunnelsWereAllowed, Destination
<1>2. ASSUME NEW g \in 1..MaxGens,
             AcceptStopped(g) \/ Shed(g) \/ Spawn(g) \/ Spawned(g) \/ AcceptFails(g)
      PROVE  IInv'
  BY <1>2, AcceptStep
<1>3. ASSUME NEW c \in Conns, AdmitName(c) \/ \E answer \in Answers : AdmitAddress(c, answer)
      PROVE  IInv'
  BY <1>3, AdmitStep
<1>4. ASSUME NEW c \in Conns, PipeEnds(c) \/ HandshakeFails(c) \/ UpstreamFails(c)
      PROVE  IInv'
  BY <1>4, HandlerEndsStep DEF PipeEnds, HandshakeFails, UpstreamFails, Live
<1>5. ASSUME NEW c \in Conns,
             BeginResolve(c) \/ UpstreamConnects(c) \/ CopyEnds(c, "up") \/ CopyEnds(c, "down")
      PROVE  IInv'
  BY <1>5, MoveStep
<1>6. CASE RestartBegins \/ Drop \/ Joined \/ Rebinds \/ BindFails
  BY <1>6, OwnerStep
<1>7. CASE WriteList \/ \E new \in Lists : Update(new)
  BY <1>7, ListStep
<1>8. ASSUME NEW c \in Conns, NEW ask \in Asks, ClientConnects(c, ask) PROVE IInv'
  BY <1>8, ConnectStep
<1> QED
  <2>1. CASE Serve
    BY <1>2, <1>3, <1>4, <1>5, <2>1 DEF Serve
  <2>2. CASE Resolve
    BY <1>3, <2>2 DEF Resolve
  <2>3. CASE Control
    BY <1>6, <1>7, <2>3 DEF Control
  <2>4. CASE Environment
    BY <1>2, <1>4, <1>5, <1>6, <1>7, <1>8, <2>4 DEF Environment
  <2> QED
    BY <1>1, <2>1, <2>2, <2>3, <2>4 DEF Next

-----------------------------------------------------------------------------
(* Theorems *)

\* The inductive invariant holds of every reachable state of the proxy.
THEOREM ProxyInvariant == Spec => []IInv
  BY InitIInv, NextIInv, PTL DEF Spec

\* The count that accept_loop compares with the cap is the number of handlers
\* that run, however each of them ends, through every restart.
THEOREM PermitsHold == Spec => []PermitsAreExact
<1>1. IInv => PermitsAreExact
  BY DEF IInv
<1> QED
  BY <1>1, ProxyInvariant, PTL

\* No destination is connected to, and no tunnel stays open, that an entry of a
\* list in force since the connection was accepted does not cover.
THEOREM TunnelsAreAllowed == Spec => []TunnelsWereAllowed
<1>1. IInv => TunnelsWereAllowed
  BY DEF IInv
<1> QED
  BY <1>1, ProxyInvariant, PTL

=============================================================================
