------------------------------ MODULE NetProxy ------------------------------
(***************************************************************************)
(* The network proxy of a sandbox, crates/shadi_sandbox/src/net_proxy.rs:  *)
(* an accept loop that sheds connections above a cap, a handler thread per *)
(* connection that speaks SOCKS5 or HTTP, the shared allowlist that a      *)
(* policy patch replaces while handlers read it, and restart on the same   *)
(* port.  Clients, resolver and upstream hosts are external.               *)
(***************************************************************************)
EXTENDS Integers, Sequences, FiniteSets, SequencesExt

CONSTANTS
  MaxConns,     \* bound: connections clients make, numbered as they come
  Asks,         \* what they ask for: [proto, form, host, port]
  Addresses,    \* the hosts that are addresses
  Lists,        \* the allowlists a patch may set: sequences of entries
  Resolves,     \* Resolves[host]: the addresses a host name may resolve to
  Cap,          \* MAX_CONCURRENT_CONNECTIONS
  Attempts,     \* of bind_with_retry
  MaxGens,      \* bound: accept loops started
  MaxUpdates,   \* bound: updates of the list
  AnyPort, BadPort, \* EntryPort
  None

Conns == 1..MaxConns

(* A host is a sequence of labels, an address a sequence of one.  An entry is
   what normalize_net_allow and split_entry make of it: "*", a name, or the
   suffix of a wildcard, with a port, any port, or one that does not parse. *)
Host == Seq(STRING) \ {<<>>}
Entry == [kind : {"all", "exact", "suffix"}, host : Host, port : Nat \cup {AnyPort, BadPort}]

ASSUME BoundsAreNumbers == MaxConns \in Nat /\ MaxGens \in Nat \ {0} /\ Cap \in Nat /\ None \notin Nat
ASSUME ListsAreOfEntries == Lists \subseteq Seq(Entry) /\ None \notin Lists
ASSUME AddressesAreHosts ==
  \A ask \in Asks : ask.host \in Host /\ (ask.form = "address" => ask.host \in Addresses)

VARIABLES
  list,       \* the entries behind the RwLock
  writer,     \* the list a patch waits to write, or None
  updates,
  gen,        \* the accept loop of the current NetProxy
  loop,       \* gen -> "accept", "spawned", "ended"
  stop,       \* gen -> its stop flag
  in_flight,  \* gen -> the count its permits hold
  queue,      \* connections in the backlog of the listener; None is the wake
  owner,      \* what restart() or drop() is doing
  tries,
  conn,       \* connection -> [pc, gen, ask, up, down]
  shown       \* history: connection -> the lists in force since it was accepted

proxyVars == <<gen, loop, stop, in_flight, queue, owner, tries>>
listVars == <<list, writer, updates>>
vars == <<proxyVars, listVars, conn, shown>>

-----------------------------------------------------------------------------
(* Matching *)

admits(port, wanted) == port = AnyPort \/ port = wanted

\* Mutant: the apex of a wildcard is taken for one of its subdomains.
SuffixOrApex(suffix, host) == IsSuffix(suffix, host)

\* "*.example.com" is for sub.example.com and not for example.com.
IsSubdomain(suffix, host) == IsSuffix(suffix, host) /\ Len(host) > Len(suffix)

is_host_allowed(host, port, entries) ==
  \E i \in DOMAIN entries :
    /\ admits(entries[i].port, port)
    /\ \/ entries[i].kind = "all"
       \/ entries[i].kind = "exact" /\ entries[i].host = host
       \/ entries[i].kind = "suffix" /\ IsSubdomain(entries[i].host, host)

\* A client that has resolved the name itself: an entry that names a host is
\* resolved again, and its answers may differ.
is_ip_allowed(ip, port, entries, answer) ==
  \/ is_host_allowed(ip, port, entries)
  \/ \E i \in DOMAIN entries :
       /\ admits(entries[i].port, port)
       /\ entries[i].kind = "exact" /\ ip \in answer[entries[i].host]

Names == DOMAIN Resolves
Answers == {a \in [Names -> UNION {Resolves[n] : n \in Names}] : \A n \in Names : a[n] \in Resolves[n]}

-----------------------------------------------------------------------------
(* Requests: a SOCKS5 frame says by its address type whether it names a host,
   an HTTP head is looked at; a port is missing only from the latter. *)

Request(host, port, ip) == [host |-> host, port |-> port, is_resolved_ip |-> ip]

parse_socks5_request(ask) == Request(ask.host, ask.port, ask.form = "address")

\* Malformed when no port is given and the scheme has no default.
split_authority(ask, default_port) == IF ask.port = None THEN default_port ELSE ask.port

parse_http_proxy_request(ask) ==
  Request(ask.host, split_authority(ask, IF ask.form = "CONNECT" THEN None ELSE 80),
          ask.host \in Addresses)

\* handle_connection tells the two apart by the first byte.
Parsed(ask) == IF ask.proto = "socks5" THEN parse_socks5_request(ask) ELSE parse_http_proxy_request(ask)

Malformed(ask) == Parsed(ask).port = None

-----------------------------------------------------------------------------
Closed(c) == [conn EXCEPT ![c].pc = "closed"]

Init ==
  /\ list \in Lists /\ writer = None /\ updates = 0
  /\ gen = 1 /\ owner = "running" /\ tries = 0 /\ queue = <<>>
  /\ loop = [g \in 1..MaxGens |-> IF g = 1 THEN "accept" ELSE "none"]
  /\ stop = [g \in 1..MaxGens |-> FALSE]
  /\ in_flight = [g \in 1..MaxGens |-> 0]
  /\ conn = [c \in Conns |-> [pc |-> "none", gen |-> 0, ask |-> None, up |-> FALSE, down |-> FALSE]]
  /\ shown = [c \in Conns |-> {}]

Bound(g) == loop[g] \in {"accept", "spawned"}

\* The kernel completes a connection as long as the listener is open.
ClientConnects(c, ask) ==
  /\ Bound(gen) /\ conn[c].pc = "none" /\ \A d \in 1..(c - 1) : conn[d].pc # "none"
  /\ conn' = [conn EXCEPT ![c].pc = "queued", ![c].ask = ask]
  /\ queue' = Append(queue, c)
  /\ UNCHANGED <<gen, loop, stop, in_flight, owner, tries, listVars, shown>>

-----------------------------------------------------------------------------
(* accept_loop *)

\* The listener goes with the loop, and so does what waits in its backlog.
LoopEnds(g) ==
  /\ loop' = [loop EXCEPT ![g] = "ended"]
  /\ conn' = [c \in Conns |-> IF conn[c].pc = "queued" THEN [conn[c] EXCEPT !.pc = "closed"] ELSE conn[c]]
  /\ queue' = <<>>

\* Mutant: the loop waits for a handler to end before it takes another.
AcceptBelowCap(g) == loop[g] = "accept" /\ queue # <<>> /\ in_flight[g] < Cap

Accept(g) == loop[g] = "accept" /\ queue # <<>>

AcceptStopped(g) ==
  /\ Accept(g) /\ stop[g]
  /\ LoopEnds(g)
  /\ UNCHANGED <<gen, stop, in_flight, owner, tries, listVars, shown>>

AtCap(g) == in_flight[g] >= Cap

Shed(g) ==
  /\ Accept(g) /\ ~stop[g] /\ AtCap(g) /\ Head(queue) # None
  /\ queue' = Tail(queue) /\ conn' = Closed(Head(queue))
  /\ UNCHANGED <<gen, loop, stop, in_flight, owner, tries, listVars, shown>>

\* The permit goes to the handler; with a thread that cannot be spawned it is
\* dropped at once.
Spawn(g) ==
  /\ Accept(g) /\ ~stop[g] /\ ~AtCap(g) /\ Head(queue) # None
  /\ queue' = Tail(queue)
  /\ \/ /\ conn' = [conn EXCEPT ![Head(queue)].pc = "hello", ![Head(queue)].gen = g]
        /\ in_flight' = [in_flight EXCEPT ![g] = @ + 1]
        /\ shown' = [shown EXCEPT ![Head(queue)] = {list}]
     \/ /\ conn' = Closed(Head(queue))
        /\ UNCHANGED <<in_flight, shown>>
  /\ loop' = [loop EXCEPT ![g] = "spawned"]
  /\ UNCHANGED <<gen, stop, owner, tries, listVars>>

\* The flag is read again before the next accept.
Spawned(g) ==
  /\ loop[g] = "spawned"
  /\ \/ stop[g] /\ LoopEnds(g)
     \/ ~stop[g] /\ loop' = [loop EXCEPT ![g] = "accept"] /\ UNCHANGED <<conn, queue>>
  /\ UNCHANGED <<gen, stop, in_flight, owner, tries, listVars, shown>>

-----------------------------------------------------------------------------
(* handle_connection: handle_socks5 and handle_http *)

Release(c) == in_flight' = [in_flight EXCEPT ![conn[c].gen] = @ - 1]

\* Mutant: the count falls when a tunnel ends, not when a handler does.
ReleaseTunnel(c) ==
  in_flight' = IF conn[c].pc = "tunnel"
               THEN [in_flight EXCEPT ![conn[c].gen] = @ - 1] ELSE in_flight

Drop_permit(c) == Release(c)

HandlerEnds(c) ==
  /\ conn' = Closed(c) /\ Drop_permit(c)
  /\ UNCHANGED <<gen, loop, stop, queue, owner, tries, listVars, shown>>

\* A peer that says nothing for HANDSHAKE_TIMEOUT, a frame or a head that does
\* not parse, a command that is not CONNECT.
HandshakeFails(c) == conn[c].pc = "hello" /\ HandlerEnds(c)

Destination(c) == Parsed(conn[c].ask)

\* The read lock: no patch is written while a handler holds it, and none is
\* taken while a patch waits.
CanRead == writer = None

Asked(c) == conn[c].pc = "hello" /\ ~Malformed(conn[c].ask) /\ CanRead

Decide(c, allowed) ==
  \/ /\ allowed
     /\ conn' = [conn EXCEPT ![c].pc = "connect"]
     /\ UNCHANGED <<proxyVars, listVars, shown>>
  \/ ~allowed /\ HandlerEnds(c)

AdmitName(c) ==
  /\ Asked(c) /\ ~Destination(c).is_resolved_ip
  /\ Decide(c, is_host_allowed(Destination(c).host, Destination(c).port, list))

\* An address is resolved for with the lock held.
BeginResolve(c) ==
  /\ Asked(c) /\ Destination(c).is_resolved_ip
  /\ conn' = [conn EXCEPT ![c].pc = "resolve"]
  /\ UNCHANGED <<proxyVars, listVars, shown>>

AdmitAddress(c, answer) ==
  /\ conn[c].pc = "resolve"
  /\ Decide(c, is_ip_allowed(Destination(c).host, Destination(c).port, list, answer))

\* Host unreachable, or the client is gone when the reply is written.
UpstreamFails(c) == conn[c].pc = "connect" /\ HandlerEnds(c)

UpstreamConnects(c) ==
  /\ conn[c].pc = "connect"
  /\ conn' = [conn EXCEPT ![c].pc = "tunnel"]
  /\ UNCHANGED <<proxyVars, listVars, shown>>

\* copy_stream: one direction ends, without a timeout, when its source does,
\* and shuts the other side down for writing only.
CopyEnds(c, way) ==
  /\ conn[c].pc = "tunnel" /\ ~conn[c][way]
  /\ conn' = [conn EXCEPT ![c][way] = TRUE]
  /\ UNCHANGED <<proxyVars, listVars, shown>>

\* pipe_bidirectional returns when both have.
PipeEnds(c) == conn[c].pc = "tunnel" /\ conn[c].up /\ conn[c].down /\ HandlerEnds(c)

-----------------------------------------------------------------------------
(* NetAllowlist::update from the control socket's thread *)

Update(new) ==
  /\ writer = None /\ updates < MaxUpdates
  /\ writer' = new /\ updates' = updates + 1
  /\ UNCHANGED <<proxyVars, list, conn, shown>>

NoReader == \A c \in Conns : conn[c].pc # "resolve"

WriteList ==
  /\ writer # None /\ NoReader
  /\ list' = writer /\ writer' = None
  /\ shown' = [c \in Conns |-> IF conn[c].pc = "hello" THEN shown[c] \cup {list'} ELSE shown[c]]
  /\ UNCHANGED <<proxyVars, updates, conn>>

-----------------------------------------------------------------------------
(* restart and drop *)

\* The flag is raised and the loop woken by a connection.
RestartBegins ==
  /\ owner = "running" /\ gen < MaxGens
  /\ stop' = [stop EXCEPT ![gen] = TRUE]
  /\ queue' = IF Bound(gen) THEN Append(queue, None) ELSE queue
  /\ owner' = "joining"
  /\ UNCHANGED <<gen, loop, in_flight, tries, listVars, conn, shown>>

Joined ==
  /\ owner = "joining" /\ loop[gen] = "ended"
  /\ owner' = "binding" /\ tries' = 0
  /\ UNCHANGED <<gen, loop, stop, in_flight, queue, listVars, conn, shown>>

Rebinds ==
  /\ owner = "binding" /\ tries < Attempts
  /\ gen' = gen + 1
  /\ loop' = [loop EXCEPT ![gen + 1] = "accept"]
  /\ owner' = "running"
  /\ UNCHANGED <<stop, in_flight, queue, tries, listVars, conn, shown>>

\* Somebody else has the port for the moment.
BindFails ==
  /\ owner = "binding" /\ tries < Attempts
  /\ tries' = tries + 1
  /\ owner' = IF tries + 1 = Attempts THEN "none" ELSE owner
  /\ UNCHANGED <<gen, loop, stop, in_flight, queue, listVars, conn, shown>>

\* Drop does not wait for the loop.
Drop ==
  /\ owner = "running"
  /\ stop' = [stop EXCEPT ![gen] = TRUE]
  /\ queue' = IF Bound(gen) THEN Append(queue, None) ELSE queue
  /\ owner' = "none"
  /\ UNCHANGED <<gen, loop, in_flight, tries, listVars, conn, shown>>

\* accept() fails for good, out of descriptors for instance.
AcceptFails(g) ==
  /\ loop[g] = "accept" /\ LoopEnds(g)
  /\ UNCHANGED <<gen, stop, in_flight, owner, tries, listVars, shown>>

-----------------------------------------------------------------------------
Serve ==
  \/ \E g \in 1..MaxGens : AcceptStopped(g) \/ Shed(g) \/ Spawn(g) \/ Spawned(g)
  \/ \E c \in Conns : AdmitName(c) \/ BeginResolve(c) \/ PipeEnds(c)

Resolve == \E c \in Conns, answer \in Answers : AdmitAddress(c, answer)

Control == Joined \/ Rebinds \/ BindFails \/ WriteList

Environment ==
  \/ \E c \in Conns, ask \in Asks : ClientConnects(c, ask)
  \/ \E c \in Conns : \/ HandshakeFails(c) \/ UpstreamFails(c) \/ UpstreamConnects(c)
                      \/ CopyEnds(c, "up") \/ CopyEnds(c, "down")
  \/ \E new \in Lists : Update(new)
  \/ RestartBegins \/ Drop \/ \E g \in 1..MaxGens : AcceptFails(g)

Next == Serve \/ Resolve \/ Control \/ Environment

\* The threads of the proxy are scheduled and the resolver answers.  Nothing is
\* asked of clients and hosts: a tunnel may stay open for ever.
Spec ==
  /\ Init /\ [][Next]_vars
  /\ WF_vars(Serve) /\ WF_vars(Control)
  /\ \A c \in Conns : WF_vars(\E answer \in Answers : AdmitAddress(c, answer))

-----------------------------------------------------------------------------
(* Properties *)

Handled(g) == {c \in Conns : conn[c].gen = g /\ conn[c].pc \in {"hello", "resolve", "connect", "tunnel"}}

\* The count of an accept loop is the number of handlers it has running,
\* however each of them ends, and it never exceeds the cap.
PermitsAreExact ==
  \A g \in 1..MaxGens : in_flight[g] = Cardinality(Handled(g)) /\ in_flight[g] <= Cap

\* A host is below a domain when labels are left in front of it.
IsBelow(host, domain) ==
  \E k \in 2..Len(host) : SubSeq(host, k, Len(host)) = domain

\* Some entry of one of the lists is for the destination, port included, by
\* name or by an address its name resolves to.
Covered(dest, lists) ==
  \E entries \in lists : \E i \in DOMAIN entries :
    /\ entries[i].port \in {AnyPort, dest.port}
    /\ \/ entries[i].kind = "all"
       \/ entries[i].host = dest.host /\ entries[i].kind = "exact"
       \/ entries[i].kind = "suffix" /\ IsBelow(dest.host, entries[i].host)
       \/ /\ dest.host \in Addresses /\ entries[i].kind = "exact"
          /\ \E answer \in Answers : dest.host \in answer[entries[i].host]

\* A tunnel is only ever open to a destination that one of the lists in force
\* since the connection was accepted allows: a patch is not mixed with the list
\* before it, and a restart takes no handler's list away.
TunnelsWereAllowed ==
  \A c \in Conns : conn[c].pc \in {"connect", "tunnel"} => Covered(Destination(c), shown[c])

\* A restart comes to an end, with a proxy on the port or without one, and a
\* patch reaches the list, whatever connections are open and however full the
\* proxy is.
ControlIsServed ==
  /\ (owner \in {"joining", "binding"}) ~> (owner \in {"running", "none"})
  /\ (writer # None) ~> (writer = None)

=============================================================================
