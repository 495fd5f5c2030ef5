--------------------------- MODULE MCChannelOwner ---------------------------
(***************************************************************************)
(* Two requests at a time, of agents or of the channel manager, over a     *)
(* room of this Desktop and a channel of the manager's, and two windows.   *)
(***************************************************************************)
EXTENDS ChannelOwner

MCChannels == {"room", "managed"}

Room(members) == [moderator |-> TRUE, live |-> FALSE, admitted |-> members]
MCStoredRooms == {[room |-> Room({}), managed |-> None]}

Rule(channel, action, by, decision) ==
  [channel |-> channel, invitee |-> None, requested_by |-> by, requested_by_human |-> None,
   action |-> action, decision |-> decision]

AskAll == [rules |-> <<>>, default |-> "ask", ask_timeout |-> 2]
AllowA == [AskAll EXCEPT !.rules = <<Rule("*", None, "a", "allow")>>]
MCPolicies == {AskAll, AllowA}

Wants(channel, did, action, requester) ==
  [channel |-> channel, invitee_name |-> "n", invitee_did |-> did, action |-> action,
   requester |-> requester, human |-> None]

Signed(request, claims, binding) ==
  [request |-> request, proof |-> "signed", claims |-> claims, signer |-> "a",
   binding |-> binding]

Certificate(of) == [human |-> "h", agent |-> of, signer |-> "h", expired |-> FALSE]

Approval(request) == [app |-> TRUE, peer |-> "cm", request |-> request]

ByA == Signed(Wants("room", "d", "add", None), "a", NoBinding)
Forged == [ByA EXCEPT !.claims = "b"]
Unreadable == [ByA EXCEPT !.request = None]
Certified == [ByA EXCEPT !.binding = Certificate("a")]
Borrowed == [ByA EXCEPT !.binding = Certificate("b")]
RemovalByA == Approval(Wants("managed", None, "delete", "a"))
AddByB == Approval(Wants("managed", None, "add", "b"))

MCMembers == {[name |-> "n", did |-> "d"]}

Stranger == [AddByB EXCEPT !.peer = "x"]

MCListings == {{"managed"}}

Menu(policy, messages, approvals, calls, commands_, does) ==
  [policy |-> policy, messages |-> messages, approvals |-> approvals, calls |-> calls,
   commands |-> commands_, does |-> does]

MCMenus ==
  { Menu(AskAll, {}, {RemovalByA, AddByB}, 2, 2, {"start", "approve"}),
    Menu(AllowA, {ByA}, {RemovalByA, Stranger}, 1, 4, {"start", "approve", "deny", "pending"}),
    Menu(AskAll, {Certified, Borrowed, Forged, Unreadable}, {}, 1, 3,
         {"start", "join", "approve", "policy", "restart"}),
    Menu(AskAll, {}, {}, 0, 3, {"create", "forget", "remove", "invite", "join", "restart", "disk"}),
    Menu(AskAll, {}, {}, 0, 3, {"start", "policy", "configure", "restart", "disk"}),
    Menu(AllowA, {ByA}, {}, 1, 3, {"start", "join", "forget", "remove"}),
    Menu(AskAll, {ByA}, {AddByB}, 1, 3, {"start", "approve", "disk", "join"}),
    Menu(AskAll, {}, {AddByB}, 1, 3,
         {"start", "status", "configure", "cm_rooms", "cm_create", "cm_delete"}) }

=============================================================================
