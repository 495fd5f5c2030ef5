------------------------- MODULE MCSandboxServices -------------------------
(***************************************************************************)
(* What `shadictl' runs beside a sandboxed child: the network proxy, or    *)
(* the delivery of its trusted secrets; `mode' says which of the two a     *)
(* behaviour shows.                                                        *)
(*                                                                         *)
(* The proxy: two connections over a cap of one, two accept loops, a list  *)
(* with a wildcard and one with ports, and a name that resolves to an      *)
(* address or to none.  Secrets: sessions with a direct and a delegated    *)
(* secret, with rules that are refused, and with a rule for another        *)
(* program.                                                                *)
(***************************************************************************)
EXTENDS NetProxy, SecretLaunch

CONSTANTS Command, h1, tool, other, sh, nowhere

VARIABLE mode

Entry_(kind, host, port) == [kind |-> kind, host |-> host, port |-> port]
Apex == <<"example", "com">>
Sub == <<"sub", "example", "com">>
Addr == <<"10.0.0.1">>
MCAddresses == {Addr}

MCLists ==
  { <<Entry_("suffix", Apex, AnyPort)>>,
    <<Entry_("exact", Apex, 443), Entry_("exact", Sub, BadPort)>> }

Ask(proto, form, host, port) == [proto |-> proto, form |-> form, host |-> host, port |-> port]

MCAsks ==
  { Ask("socks5", "domain", Sub, 443), Ask("socks5", "address", Addr, 443),
    Ask("http", "CONNECT", Apex, 443), Ask("http", "CONNECT", Sub, None),
    Ask("http", "GET", Apex, None) }

MCResolves == [n \in {Apex, Sub} |-> {{}, {Addr}}]

-----------------------------------------------------------------------------
Direct(name) ==
  [program |-> Command, name |-> name, exec |-> Command, fd_env |-> "FD", sha256 |-> None]
Policy(name) ==
  [program |-> Command, actions |-> {"DelegateToChild"}, children |-> <<tool>>,
   child_sha256 |-> <<"good">>, name |-> name, fd_env |-> "FD2"]
Session(direct, policy) == [direct |-> direct, policy |-> policy]

MCInstalled == {Command, tool, other, sh}

MCConfigs ==
  { Session(<<Direct("a")>>, <<Policy("b")>>),
    Session(<<Direct("a"), Direct("b")>>, <<>>),
    Session(<<[Direct("a") EXCEPT !.program = other]>>, <<Policy("b")>>),
    Session(<<Direct("a")>>, <<Policy("a")>>),
    Session(<<[Direct("a") EXCEPT !.exec = other]>>, <<>>),
    Session(<<[Direct("a") EXCEPT !.sha256 = "bad"]>>, <<>>),
    Session(<<Direct("a")>>, <<[Policy("b") EXCEPT !.children = <<sh>>]>>),
    Session(<<[Direct("a") EXCEPT !.program = nowhere]>>, <<>>),
    Session(<<>>, <<>>),
    Session(<<>>, <<[Policy("b") EXCEPT !.children = <<>>]>>),
    Session(<<>>, <<[Policy("b") EXCEPT !.actions = {"Use"}]>>),
    Session(<<>>, <<[Policy("b") EXCEPT !.actions = {"Use"}, !.children = <<>>, !.child_sha256 = <<>>]>>) }

S == INSTANCE SecretDelivery
       WITH Relays <- {sh}, Configs <- MCConfigs, Helpers <- {h1}, Installed <- MCInstalled,
            Programs <- {tool, Command}, Deadline <- 2, MaxBrokers <- 2, MaxConnects <- 2,
            MaxLaunches <- 2

secretVars == <<config, pc, brokers, turn, polls, dirs, stray, backlog, worker, held, failed,
                relaunch, launches, replaced, proc, received>>

-----------------------------------------------------------------------------
\* The service that is not shown stays as it begins.
MCInit ==
  /\ mode \in {"proxy", "secrets"} /\ Init /\ S!Init
  /\ mode = "proxy" => config = Session(<<>>, <<>>)
  /\ mode = "secrets" => list = <<Entry_("suffix", Apex, AnyPort)>>

ProxyStep(A) == mode = "proxy" /\ A /\ UNCHANGED <<mode, secretVars>>
SecretStep(A) == mode = "secrets" /\ A /\ UNCHANGED <<mode, vars>>

MCNext == ProxyStep(Next) \/ SecretStep(S!Next)

all == <<mode, vars, secretVars>>

\* Of the proxy less is asked than in its own Spec: that it does something
\* while one of its threads can.
MCSpec ==
  /\ MCInit /\ [][MCNext]_all
  /\ WF_all(ProxyStep(Serve \/ Resolve \/ Control))
  /\ WF_all(SecretStep(S!Main)) /\ \A i \in 1..2 : WF_all(SecretStep(S!Worker(i)))

=============================================================================
