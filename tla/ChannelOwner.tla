---------------------------- MODULE ChannelOwner ----------------------------
(***************************************************************************)
(* The owner of channels: its standing rules and its inbox                 *)
(* (agentbridge/src/owner.rs), the requests agents send it over A2A        *)
(* (owner_intake.rs), the channel manager that waits for its approval, and *)
(* the commands of the Desktop (apps/shadi_desktop/src-tauri/src/commands: *)
(* owner.rs, channel_manager.rs, slim.rs).                                 *)
(*                                                                         *)
(* Requests, commands and timers interleave; a section under one of the    *)
(* locks is one step, and a join, or a command on the owner that waits for *)
(* the SLIM state, holds its lock over several.  Agents, the channel       *)
(* manager and SLIM are external.  Time is counted in ticks.               *)
(***************************************************************************)
EXTENDS Integers, Sequences, FiniteSets, SequencesExt, FiniteSetsExt

CONSTANTS
  Menus,        \* bound: what a behaviour may show: [policy, messages, approvals,
                \* calls, commands, does], where the messages of agents are those of Admission
                \* with a request, an approval is [app, peer, request], and
                \* `does' names commands and faults
  MaxCalls,     \* bound: requests
  Policies,     \* policies that are saved: [rules, default, ask_timeout]
  StoredRooms,  \* the rooms the store may hold at the start
  Channels,
  Members,      \* who a human may invite: [name, did]
  Listings,     \* the channels the channel manager may list at the start
  ManagerDid,   \* the approval identity of the configured channel manager
  Within,       \* ANSWER_WITHIN_SECONDS, in ticks
  MaxWindows,   \* bound: commands of the Desktop under way at a time
  MaxRestarts,  \* bound: restarts of the Desktop
  NoDid, NoBinding, Malformed, None

Calls == 1..MaxCalls
Windows == 1..MaxWindows

(* An InviteRequest is [channel, invitee_name, invitee_did, action, requester,
   human]; a rule has the same fields, each of which may be None, and a
   decision.  A room is None or [moderator, live, admitted]; the members it
   has admitted are requests' [name, did]. *)

VARIABLES
  owners,    \* the Owner and Approvals of every owner_start, oldest first
  running,   \* OwnerState: the owner the commands work on, 0 for none
  served,    \* the owner behind the SLIM service, 0 for none
  locked,    \* the window that holds OwnerState and its Owner
  audit,     \* owner-audit.jsonl
  saved,     \* owner-policy.json
  rooms, store,
  torn,      \* the files whose last write was cut short: they cannot be read
  joining,   \* the window whose join holds the SLIM state
  config,    \* whether a channel manager is configured
  owned,     \* ChannelManagerState.owned
  listed,    \* the channels the channel manager lists with this owner
  disk,      \* whether files can be written
  call,      \* the requests under way
  ui,        \* the commands under way
  commands, restarts,
  menu,      \* the member of Menus this behaviour shows
  invited,   \* history: the requests that became an invite
  told       \* history: what commands reported done of rooms and members, there
             \* or not there any more: [channel, member, there]

roomVars == <<rooms, store, torn, told>>
cmVars == <<config, owned, listed>>
ownerVars == <<owners, running, served, audit>>
boundVars == <<commands, restarts, menu>>
vars == <<ownerVars, locked, saved, roomVars, joining, cmVars, disk, call, ui,
          boundVars, invited>>

A == INSTANCE Admission

-----------------------------------------------------------------------------
(* OwnerPolicy *)

\* Mutant: a rule that names no action decides removals too.
MatchesAnyAction(rule, q) ==
  /\ rule.channel \in {"*", q.channel}
  /\ rule.action \in {None, q.action}
  /\ rule.invitee \in {None, q.invitee_name, q.invitee_did}
  /\ rule.requested_by \in {None, q.requester}
  /\ rule.requested_by_human \in {None, q.human}

\* A DID is compared with the DID, any other invitee with the name.
matches(rule, q) ==
  /\ rule.channel \in {"*", q.channel}
  /\ (IF rule.action = None THEN "add" ELSE rule.action) = q.action
  /\ rule.invitee \in {None, q.invitee_name, q.invitee_did}
  /\ rule.requested_by \in {None, q.requester}
  /\ rule.requested_by_human \in {None, q.human}

\* The first rule that matches decides.  `of' is history: the action it names.
decide(policy, q) ==
  LET hits == {i \in DOMAIN policy.rules : matches(policy.rules[i], q)}
      first == policy.rules[Min(hits)]
  IN IF hits = {} THEN [decision |-> policy.default, by |-> "Default", of |-> None]
     ELSE [decision |-> first.decision, by |-> "Rule", of |-> first.action]

Verdict(o, q) ==
  IF q.channel \notin o.channels
  THEN [outcome |-> "refused", by |-> "NotHeld", of |-> None]
  ELSE LET d == decide(o.policy, q)
       IN [outcome |-> CASE d.decision = "allow" -> "granted"
                         [] d.decision = "block" -> "refused"
                         [] OTHER -> "asked",
           by |-> d.by, of |-> d.of]

-----------------------------------------------------------------------------
(* Owner.  Without a disk `record' fails, and what it was to record fails. *)

\* `late' is history: whether the ask had expired.
Entry(k, v, q, ask, late) ==
  [owner |-> k, outcome |-> v.outcome, by |-> v.by, of |-> v.of, request |-> q,
   ask |-> ask, late |-> late]

Answer(outcome, by) == [outcome |-> outcome, by |-> by, of |-> None]

record(entries) == audit' = IF disk THEN audit \o entries ELSE audit

With(pending, id, ask) ==
  [i \in DOMAIN pending \cup {id} |-> IF i = id THEN ask ELSE pending[i]]

\* request: an ask takes its number before it is recorded.
Asking(o, q, left) ==
  LET asks == Verdict(o, q).outcome = "asked"
  IN [o EXCEPT !.next_ask = IF asks THEN @ + 1 ELSE @,
               !.pending = IF asks /\ disk THEN With(@, o.next_ask, [request |-> q, left |-> left])
                           ELSE @]

Outcome(o, q) == IF disk THEN Verdict(o, q).outcome ELSE "error"

Lapsed(o) == {id \in DOMAIN o.pending : o.pending[id].left = 0}

Without(pending, ids) == [id \in DOMAIN pending \ ids |-> pending[id]]

\* expire: the first record that fails ends the loop with its ask removed.
ExpiredIds(o) == IF disk \/ Lapsed(o) = {} THEN Lapsed(o) ELSE {Min(Lapsed(o))}

\* The numbers of a set in the order `pending' keeps them in.
Ascending(ids) ==
  {s \in [1..Cardinality(ids) -> ids] : \A i, j \in DOMAIN s : i < j => s[i] < s[j]}

Timeouts(k, o, ids) ==
  [i \in DOMAIN ids |->
     Entry(k, Answer("denied", "Timeout"), o.pending[ids[i]].request, ids[i], TRUE)]

Expired(o) == [o EXCEPT !.pending = Without(@, ExpiredIds(o))]

Live(o, id) == id \in DOMAIN o.pending /\ o.pending[id].left > 0

\* Mutant: the ask stays in the inbox.
Peeked(o, id) == o

\* take_live; an ask found too late is expired with the others.
Taken(o, id) == [o EXCEPT !.pending = Without(@, {id})]

-----------------------------------------------------------------------------
NoCall == [kind |-> None, pc |-> "idle", request |-> None, owner |-> 0, age |-> 0,
           seen |-> {}, ask |-> None, timer |-> 0, mail |-> None, reply |-> None, grant |-> None]
Idle == [pc |-> "idle", cmd |-> None, arg |-> None, owner |-> 0, ask |-> None, answer |-> None, request |-> None]

Reload(s) == [ch \in Channels |-> IF s[ch] = None THEN None ELSE [s[ch] EXCEPT !.live = FALSE]]

Init ==
  /\ store \in StoredRooms /\ rooms = Reload(store) /\ torn = {} /\ told = {}
  /\ menu \in Menus /\ saved = menu.policy /\ config \in BOOLEAN /\ listed \in Listings
  /\ owners = <<>> /\ running = 0 /\ served = 0 /\ locked = None /\ audit = <<>>
  /\ joining = None /\ owned = {} /\ disk = TRUE
  /\ call = [c \in Calls |-> NoCall] /\ ui = [w \in Windows |-> Idle]
  /\ commands = 0 /\ restarts = 0 /\ invited = {}

SlimFree == joining = None

\* Mutant: decide keeps the Owner locked while it waits for the answer.
CoreFreeOfWaits(k) ==
  /\ locked = None \/ k # running
  /\ \A c \in Calls : call[c].owner = k => call[c].pc \notin {"register", "wait", "lapse"}

\* The mutex of an Owner: only a command keeps it over several steps.
CoreFree(k) == locked = None \/ k # running

Put(k, o) == owners' = [owners EXCEPT ![k] = o]

Expires(k, o) ==
  /\ Put(k, Expired(o))
  /\ \E ids \in Ascending(Lapsed(o)) : record(Timeouts(k, o, ids))

\* What a call that is over leaves for the properties.
Over(r) == [r EXCEPT !.pc = "done", !.age = 0, !.seen = {}, !.timer = 0, !.mail = None]

Goes(c, pc) ==
  call' = [call EXCEPT ![c] = IF pc = "done" THEN Over(@) ELSE [@ EXCEPT !.pc = pc]]

Replies(c, reply) == call' = [call EXCEPT ![c] = [Over(@) EXCEPT !.reply = reply]]

held_channels == {ch \in Channels : rooms[ch] # None /\ rooms[ch].moderator} \cup owned

HoldOnly(o) == [o EXCEPT !.channels = held_channels]

-----------------------------------------------------------------------------
(* Rooms of this Desktop, under the SLIM lock *)

\* std::fs::write empties the file and then writes it.  On a full disk it fails
\* before or after that.
Written(file) ==
  torn' \in IF disk THEN {torn \ {file}} ELSE {torn, torn \cup {file}}

\* Mutant: the rooms are written when the Desktop is closed.
KeepStore(new) == store' = store /\ Written("rooms")

\* persist: what is written has no session.
persist(new) ==
  /\ store' = IF disk THEN Reload(new) ELSE store
  /\ Written("rooms")

\* A command whose persist fails reports an error, and takes back what its
\* change contradicts.
Done(facts) == told' = IF disk THEN facts ELSE told \cap facts

Fact(channel, member, there) == [channel |-> channel, member |-> member, there |-> there]

Member(q) == [name |-> q.invitee_name, did |-> q.invitee_did]

\* RoomInviter::invite, after the grant has been verified.
Invitable(q) ==
  /\ q.action = "add" /\ q.invitee_did # None
  /\ rooms[q.channel] # None /\ rooms[q.channel].moderator /\ rooms[q.channel].live

\* invite_members
Invites(channel, member) ==
  LET new == [rooms EXCEPT ![channel].admitted =
                {m \in @ : m.name # member.name} \cup {member}]
  IN /\ rooms' = new /\ persist(new)
     /\ Done({f \in told : f.channel # channel \/ f.member = None \/ f.member.name # member.name}
               \cup {Fact(channel, member, TRUE)})

-----------------------------------------------------------------------------
(* Requests of agents: OwnerExecutor::handle *)

\* admit: a proof is required, a certificate is not; parse_request reads the
\* body, which is None when it cannot.
admit(m) ==
  /\ m.request # None
  /\ A!unwrap_signed_message(m) = "verified"
  /\ \/ m.binding = NoBinding
     \/ m.binding # Malformed /\ A!verify_binding(m.binding) /\ m.binding.agent = m.claims

AdmittedRequest(m) ==
  [m.request EXCEPT !.requester = m.claims,
                    !.human = IF m.binding = NoBinding THEN None ELSE m.binding.human]

\* The calls are numbered as they arrive.
Arrives(c) ==
  /\ served # 0 /\ c <= menu.calls /\ call[c].pc = "idle" /\ \A d \in 1..(c - 1) : call[d].pc # "idle"

AgentAsks(c, m) ==
  /\ Arrives(c)
  /\ call' = [call EXCEPT ![c] = IF admit(m)
       THEN [NoCall EXCEPT !.kind = "a2a", !.pc = "decide", !.owner = served,
                           !.request = AdmittedRequest(m)]
       ELSE [NoCall EXCEPT !.kind = "a2a", !.pc = "done", !.reply = "Rejected"]]
  /\ UNCHANGED <<ownerVars, locked, saved, roomVars, joining, cmVars, disk, ui,
                 boundVars, invited>>

Left(limit, c) == Max({0, limit - call[c].age})

HandleRequest(c) ==
  LET k == call[c].owner
      o == owners[k]
      q == call[c].request
      outcome == Outcome(o, q)
      ask == IF outcome = "asked" THEN o.next_ask ELSE None
  IN /\ call[c].kind = "a2a" /\ call[c].pc = "decide" /\ CoreFree(k)
     /\ Put(k, Asking(o, q, Left(o.policy.ask_timeout, c)))
     /\ record(<<Entry(k, Verdict(o, q), q, ask, FALSE)>>)
     /\ IF outcome = "granted" THEN Goes(c, "invite") ELSE Replies(c, outcome)
     /\ UNCHANGED <<running, served, locked, saved, roomVars, joining, cmVars, disk,
                    ui, boundVars, invited>>

InviteGranted(c, ok) ==
  LET q == call[c].request
      invites == ok /\ Invitable(q)
  IN /\ call[c].pc = "invite" /\ SlimFree
     /\ IF invites THEN Invites(q.channel, Member(q)) ELSE UNCHANGED roomVars
     /\ invited' = IF invites THEN invited \cup {q} ELSE invited
     /\ Replies(c, IF invites /\ disk THEN "Completed" ELSE "Failed")
     /\ UNCHANGED <<ownerVars, locked, saved, joining, cmVars, disk, ui, boundVars>>

-----------------------------------------------------------------------------
(* Requests of the channel manager: approve and Approvals::decide *)

check_approval_caller(a) == config /\ a.app /\ a.peer = ManagerDid

\* An action that is neither add nor delete is refused with the caller.
ManagerAsks(c, a) ==
  /\ Arrives(c)
  /\ call' = [call EXCEPT ![c] =
       [NoCall EXCEPT !.kind = "cm", !.owner = served, !.request = a.request,
                      !.pc = IF check_approval_caller(a) /\ a.request.action \in {"add", "delete"}
                             THEN "lookup" ELSE "done",
                      !.reply = "Denied"]]
  /\ UNCHANGED <<ownerVars, locked, saved, roomVars, joining, cmVars, disk, ui,
                 boundVars, invited>>

\* owner_identity takes the SLIM lock; then the channel manager is asked.
LookUp(c) ==
  /\ call[c].pc = "lookup" /\ SlimFree
  /\ \/ call' = [call EXCEPT ![c].pc = "listing", ![c].seen = listed]
     \/ Goes(c, "done")
  /\ UNCHANGED <<ownerVars, locked, saved, roomVars, joining, cmVars, disk, ui,
                 boundVars, invited>>

Listing(c) ==
  /\ call[c].pc = "listing"
  /\ owned' = call[c].seen
  /\ call' = [call EXCEPT ![c] = IF @.request.channel \in @.seen
                                  THEN [@ EXCEPT !.pc = "decide", !.seen = {}] ELSE Over(@)]
  /\ UNCHANGED <<ownerVars, locked, saved, roomVars, joining, config, listed, disk, ui,
                 boundVars, invited>>

\* request_until on a channel that is held from now on.
DecideForManager(c) ==
  LET k == call[c].owner
      q == call[c].request
      o == [owners[k] EXCEPT !.channels = @ \cup {q.channel}]
      outcome == Outcome(o, q)
      within == Min({o.policy.ask_timeout, Within})
      ask == IF outcome = "asked" THEN o.next_ask ELSE None
  IN /\ call[c].kind = "cm" /\ call[c].pc = "decide" /\ CoreFree(k)
     /\ Put(k, Asking(o, q, Left(within, c)))
     /\ record(<<Entry(k, Verdict(o, q), q, ask, FALSE)>>)
     /\ call' = [call EXCEPT ![c] =
          CASE outcome = "asked" -> [@ EXCEPT !.pc = "register", !.ask = ask, !.timer = within,
                                              !.age = 0, !.seen = {}]
            [] outcome = "granted" -> [Over(@) EXCEPT !.reply = "Grant", !.grant = q]
            [] OTHER -> Over(@)]
     /\ UNCHANGED <<running, served, locked, saved, roomVars, joining, cmVars, disk, ui,
                    boundVars, invited>>

\* The ask is in the inbox before anybody waits for it.
Register(c) ==
  /\ call[c].pc = "register"
  /\ owners' = [owners EXCEPT ![call[c].owner].waiting = @ \cup {call[c].ask}]
  /\ Goes(c, "wait")
  /\ UNCHANGED <<running, served, audit, locked, saved, roomVars, joining, cmVars, disk,
                 ui, boundVars, invited>>

Answered(c) ==
  /\ call[c].pc = "wait" /\ call[c].mail # None
  /\ call' = [call EXCEPT ![c] = [Over(@) EXCEPT !.reply = call[c].mail.reply,
                                                 !.grant = call[c].mail.grant]]
  /\ UNCHANGED <<ownerVars, locked, saved, roomVars, joining, cmVars, disk, ui,
                 boundVars, invited>>

\* An answer that is there is taken before the timer; the sender may have been
\* taken out of `waiting' by a command that has not sent yet.
TimesOut(c) ==
  /\ call[c].pc = "wait" /\ call[c].mail = None /\ call[c].timer = 0
  /\ owners' = [owners EXCEPT ![call[c].owner].waiting = @ \ {call[c].ask}]
  /\ Goes(c, "lapse")
  /\ UNCHANGED <<running, served, audit, locked, saved, roomVars, joining, cmVars, disk,
                 ui, boundVars, invited>>

Lapse(c) ==
  LET k == call[c].owner
  IN /\ call[c].pc = "lapse" /\ CoreFree(k)
     /\ Expires(k, owners[k]) /\ Replies(c, "TooLate")
     /\ UNCHANGED <<running, served, locked, saved, roomVars, joining, cmVars, disk, ui,
                    boundVars, invited>>

Handler(c) ==
  \/ HandleRequest(c) \/ (\E ok \in BOOLEAN : InviteGranted(c, ok))
  \/ LookUp(c) \/ Listing(c) \/ DecideForManager(c) \/ Register(c)
  \/ Answered(c) \/ TimesOut(c) \/ Lapse(c)

-----------------------------------------------------------------------------
(* Commands of the Desktop *)

Begins(w, cmd) ==
  /\ ui[w].pc = "idle" /\ \A v \in 1..(w - 1) : ui[v].pc # "idle"
  /\ cmd \in menu.does /\ commands < menu.commands
  /\ commands' = commands + 1 /\ UNCHANGED <<restarts, menu>>

Ends(w) == ui' = [ui EXCEPT ![w] = Idle]

\* owner_start: the check, the policy and the channels it begins with.
StartLoads(w) ==
  /\ Begins(w, "start") /\ running = 0 /\ locked = None /\ SlimFree
  /\ "policy" \notin torn
  /\ owners' = Append(owners, [policy |-> saved, channels |-> held_channels,
                               pending |-> <<>>, next_ask |-> 1, waiting |-> {}])
  /\ ui' = [ui EXCEPT ![w] = [Idle EXCEPT !.pc = "serve", !.owner = Len(owners) + 1]]
  /\ UNCHANGED <<running, served, audit, locked, saved, roomVars, joining, cmVars, disk,
                 call, invited>>

\* serve_owner: a service that runs is left as it is.
StartServes(w) ==
  /\ ui[w].pc = "serve" /\ SlimFree
  /\ \/ /\ served' = IF served = 0 THEN ui[w].owner ELSE served
        /\ ui' = [ui EXCEPT ![w].pc = "publish"]
     \/ served = 0 /\ Ends(w) /\ UNCHANGED served
  /\ UNCHANGED <<owners, running, audit, locked, saved, roomVars, joining, cmVars, disk,
                 call, boundVars, invited>>

\* Whatever is running by now; the status that follows holds its channels.
StartPublishes(w) ==
  /\ ui[w].pc = "publish" /\ locked = None
  /\ running' = ui[w].owner
  /\ ui' = [ui EXCEPT ![w].pc = "status"]
  /\ UNCHANGED <<owners, served, audit, locked, saved, roomVars, joining, cmVars, disk,
                 call, boundVars, invited>>

StartReports(w) ==
  /\ ui[w].pc = "status" /\ locked = None
  /\ locked' = w /\ ui' = [ui EXCEPT ![w].pc = "held", ![w].cmd = "status"]
  /\ UNCHANGED <<ownerVars, saved, roomVars, joining, cmVars, disk, call, boundVars, invited>>

\* with_owner takes OwnerState and the Owner, and waits for the SLIM state.
with_owner(w, cmd, ask) ==
  /\ Begins(w, cmd) /\ running # 0 /\ locked = None
  /\ locked' = w
  /\ ui' = [ui EXCEPT ![w] = [Idle EXCEPT !.pc = "held", !.cmd = cmd, !.ask = ask]]
  /\ UNCHANGED <<ownerVars, saved, roomVars, joining, cmVars, disk, call, invited>>

\* Mutant: an approval keeps the Owner until its grant has been passed on.
HoldingOn(w, cmd) ==
  /\ ui[w].pc = "held" /\ ui[w].cmd = cmd /\ SlimFree
  /\ locked' = IF cmd = "approve" THEN locked ELSE None

Holding(w, cmd) == ui[w].pc = "held" /\ ui[w].cmd = cmd /\ SlimFree /\ locked' = None

owner_status(w) ==
  /\ Holding(w, "status") /\ Ends(w)
  /\ Put(running, HoldOnly(owners[running]))
  /\ UNCHANGED <<running, served, audit, saved, roomVars, joining, cmVars, disk, call,
                 boundVars, invited>>

owner_pending(w) ==
  /\ Holding(w, "pending") /\ Ends(w)
  /\ Expires(running, HoldOnly(owners[running]))
  /\ UNCHANGED <<running, served, saved, roomVars, joining, cmVars, disk, call,
                 boundVars, invited>>

\* approve and deny: an ask that is live is taken, and its answer recorded.
Settles(w, outcome) ==
  LET o == HoldOnly(owners[running])
      id == ui[w].ask
      late == o.pending[id].left = 0
      q == o.pending[id].request
  IN \/ /\ Live(o, id)
        /\ Put(running, Taken(o, id))
        /\ record(<<Entry(running, Answer(outcome, "Owner"), q, id, late)>>)
        /\ ui' = [ui EXCEPT ![w] = IF disk
             THEN [@ EXCEPT !.pc = IF outcome = "granted" THEN "is_waiting" ELSE "answer",
                            !.owner = running, !.request = q,
                            !.answer = IF outcome = "granted"
                                       THEN [reply |-> "Grant", grant |-> q]
                                       ELSE [reply |-> "DeniedByOwner", grant |-> None]]
             ELSE Idle]
     \/ /\ ~Live(o, id) /\ id \in DOMAIN o.pending
        /\ Expires(running, o) /\ Ends(w)
     \/ /\ id \notin DOMAIN o.pending
        /\ Put(running, o) /\ Ends(w) /\ UNCHANGED audit

owner_approve(w) ==
  /\ Holding(w, "approve") /\ Settles(w, "granted")
  /\ UNCHANGED <<running, served, saved, roomVars, joining, cmVars, disk, call,
                 boundVars, invited>>

owner_deny(w) ==
  /\ Holding(w, "deny") /\ Settles(w, "denied")
  /\ UNCHANGED <<running, served, saved, roomVars, joining, cmVars, disk, call,
                 boundVars, invited>>

\* The grant goes to the channel manager that waits, or becomes an invite.
IsWaiting(w) ==
  /\ ui[w].pc = "is_waiting"
  /\ ui' = [ui EXCEPT ![w].pc = IF ui[w].ask \in owners[ui[w].owner].waiting
                                THEN "answer" ELSE "invite"]
  /\ UNCHANGED <<ownerVars, locked, saved, roomVars, joining, cmVars, disk, call,
                 boundVars, invited>>

\* Approvals::answer takes the sender under the lock, and sends outside it.
TakeSender(w) ==
  /\ ui[w].pc = "answer"
  /\ owners' = [owners EXCEPT ![ui[w].owner].waiting = @ \ {ui[w].ask}]
  /\ ui' = [ui EXCEPT ![w] = IF ui[w].ask \in owners[ui[w].owner].waiting
                             THEN [@ EXCEPT !.pc = "send"] ELSE Idle]
  /\ UNCHANGED <<running, served, audit, locked, saved, roomVars, joining, cmVars, disk,
                 call, boundVars, invited>>

Receives(w, c) ==
  call[c].pc = "wait" /\ call[c].owner = ui[w].owner /\ call[c].ask = ui[w].ask

SendAnswer(w) ==
  /\ ui[w].pc = "send" /\ Ends(w)
  /\ call' = [c \in Calls |-> IF Receives(w, c) THEN [call[c] EXCEPT !.mail = ui[w].answer]
                              ELSE call[c]]
  /\ UNCHANGED <<ownerVars, locked, saved, roomVars, joining, cmVars, disk, boundVars, invited>>

InviteApproved(w, ok) ==
  LET q == ui[w].request
      invites == ok /\ Invitable(q)
  IN /\ ui[w].pc = "invite" /\ SlimFree /\ Ends(w)
     /\ IF invites THEN Invites(q.channel, Member(q)) ELSE UNCHANGED roomVars
     /\ invited' = IF invites THEN invited \cup {q} ELSE invited
     /\ UNCHANGED <<ownerVars, locked, saved, joining, cmVars, disk, call, boundVars>>

\* owner_policy_set writes the file and then looks for an owner that runs.
PolicyWritten(w, policy) ==
  /\ Begins(w, "policy") /\ Written("policy")
  /\ \/ /\ disk /\ saved' = policy
        /\ ui' = [ui EXCEPT ![w] = [Idle EXCEPT !.pc = "set_policy", !.arg = policy]]
     \/ ~disk /\ UNCHANGED <<saved, ui>>
  /\ UNCHANGED <<ownerVars, locked, rooms, store, told, joining, cmVars, disk, call, invited>>

PolicySet(w) ==
  /\ ui[w].pc = "set_policy" /\ locked = None /\ Ends(w)
  /\ IF running = 0 THEN UNCHANGED owners
     ELSE owners' = [owners EXCEPT ![running].policy = ui[w].arg]
  /\ UNCHANGED <<running, served, audit, locked, saved, roomVars, joining, cmVars, disk,
                 call, boundVars, invited>>

-----------------------------------------------------------------------------
(* Commands on rooms *)

\* Everything told of a channel, for a command that replaces or drops it.
NotOf(channel) == {f \in told : f.channel # channel}

ChangesRoom(w, channel, room, facts) ==
  LET new == [rooms EXCEPT ![channel] = room]
  IN /\ rooms' = new /\ persist(new) /\ Done(facts)
     /\ UNCHANGED <<ownerVars, locked, saved, joining, cmVars, disk, call, invited>>

Short(w, cmd) == Begins(w, cmd) /\ SlimFree /\ UNCHANGED ui

\* A room replaces the one that is known by its name.
slim_group_create(w, channel, members) ==
  /\ Short(w, "create")
  /\ ChangesRoom(w, channel, [moderator |-> TRUE, live |-> TRUE, admitted |-> members],
                 NotOf(channel) \cup {Fact(channel, m, TRUE) : m \in members \cup {None}})

\* By hand, without a grant; SLIM refuses who does not moderate.
slim_group_invite(w, channel, member) ==
  /\ Short(w, "invite")
  /\ rooms[channel] # None /\ rooms[channel].live
  /\ Invites(channel, member)
  /\ UNCHANGED <<ownerVars, locked, saved, joining, cmVars, disk, call, invited>>

\* The member goes from the session first.
slim_group_remove_member(w, channel, m) ==
  /\ Short(w, "remove")
  /\ rooms[channel] # None /\ rooms[channel].moderator /\ rooms[channel].live
  /\ m \in rooms[channel].admitted
  /\ ChangesRoom(w, channel, [rooms[channel] EXCEPT !.admitted = @ \ {m}],
                 {f \in told : f.channel # channel \/ f.member # m}
                   \cup {Fact(channel, m, FALSE)})

slim_group_forget(w, channel) ==
  /\ Short(w, "forget") /\ rooms[channel] # None
  /\ ChangesRoom(w, channel, None, NotOf(channel) \cup {Fact(channel, None, FALSE)})

\* listen_for_session waits with the SLIM state locked.
JoinBegins(w, channel) ==
  /\ Begins(w, "join") /\ SlimFree
  /\ joining' = w
  /\ ui' = [ui EXCEPT ![w] = [Idle EXCEPT !.pc = "join", !.arg = channel]]
  /\ UNCHANGED <<ownerVars, locked, saved, roomVars, cmVars, disk, call, invited>>

\* The moderator's invitation arrives, or the wait times out.  A room that is
\* known keeps its role and its members.
JoinEnds(w, ok) ==
  LET channel == ui[w].arg
      room == IF rooms[channel] = None
              THEN [moderator |-> FALSE, live |-> TRUE, admitted |-> {}]
              ELSE [rooms[channel] EXCEPT !.live = TRUE]
      new == [rooms EXCEPT ![channel] = room]
  IN /\ ui[w].pc = "join" /\ joining' = None /\ Ends(w)
     /\ IF ok THEN /\ rooms' = new /\ persist(new)
                   /\ Done({f \in told : f.channel # channel \/ f.member # None}
                             \cup {Fact(channel, None, TRUE)})
              ELSE UNCHANGED roomVars
     /\ UNCHANGED <<ownerVars, locked, saved, cmVars, disk, call, boundVars, invited>>

-----------------------------------------------------------------------------
(* Commands on the channel manager *)

\* channel_manager_configure writes its file, or removes it without a config.
channel_manager_configure(w) ==
  /\ Begins(w, "configure")
  /\ \/ config' = FALSE /\ owned' = {} /\ torn' = torn \ {"config"}
     \/ disk /\ config' = TRUE /\ owned' = {} /\ Written("config")
     \/ ~disk /\ Written("config") /\ UNCHANGED <<config, owned>>
  /\ UNCHANGED <<ownerVars, locked, saved, rooms, store, told, joining, listed, disk, call,
                 ui, invited>>

\* channel_manager_rooms, _room_create and _room_delete ask first ...
ManagerCalled(w, cmd, channel) ==
  /\ Begins(w, cmd) /\ config /\ SlimFree
  /\ cmd = "cm_create" => running # 0 /\ locked = None
  /\ listed' = CASE cmd = "cm_create" -> listed \cup {channel}
                 [] cmd = "cm_delete" -> listed \ {channel}
                 [] OTHER -> listed
  /\ ui' = [ui EXCEPT ![w] = [Idle EXCEPT !.pc = "called", !.cmd = cmd, !.arg = channel,
                                         !.answer = listed]]
  /\ UNCHANGED <<ownerVars, locked, saved, roomVars, joining, config, owned, disk, call,
                 invited>>

\* ... and keep what they learnt.
ManagerReplied(w) ==
  /\ ui[w].pc = "called" /\ Ends(w)
  /\ owned' = CASE ui[w].cmd = "cm_create" -> owned \cup {ui[w].arg}
                [] ui[w].cmd = "cm_delete" -> owned \ {ui[w].arg}
                [] OTHER -> ui[w].answer
  /\ UNCHANGED <<ownerVars, locked, saved, roomVars, joining, config, listed, disk, call,
                 boundVars, invited>>

-----------------------------------------------------------------------------
Command(w) ==
  \/ StartServes(w) \/ StartPublishes(w) \/ StartReports(w)
  \/ owner_status(w) \/ owner_pending(w) \/ owner_approve(w) \/ owner_deny(w)
  \/ IsWaiting(w) \/ TakeSender(w) \/ SendAnswer(w)
  \/ (\E ok \in BOOLEAN : InviteApproved(w, ok))
  \/ PolicySet(w) \/ (\E ok \in BOOLEAN : JoinEnds(w, ok)) \/ ManagerReplied(w)

Asks == IF running = 0 THEN {} ELSE 1..(owners[running].next_ask - 1)

Human(w) ==
  \/ StartLoads(w)
  \/ \E cmd \in {"status", "pending"} : with_owner(w, cmd, None)
  \/ \E cmd \in {"approve", "deny"}, ask \in Asks : with_owner(w, cmd, ask)
  \/ \E policy \in Policies : PolicyWritten(w, policy)
  \/ \E channel \in Channels :
       \/ \E members \in SUBSET Members : slim_group_create(w, channel, members)
       \/ \E member \in Members : slim_group_invite(w, channel, member)
       \/ slim_group_forget(w, channel)
       \/ JoinBegins(w, channel)
       \/ \E cmd \in {"cm_rooms", "cm_create", "cm_delete"} : ManagerCalled(w, cmd, channel)
       \/ rooms[channel] # None /\ \E m \in rooms[channel].admitted :
            slim_group_remove_member(w, channel, m)
  \/ channel_manager_configure(w)

Down(n) == Max({0, n - 1})

Aged(o) == [o EXCEPT !.pending = [id \in DOMAIN @ |-> [@[id] EXCEPT !.left = Down(@)]]]

\* A second passes: asks and timers run down, and a request that waits for the
\* Owner has taken its time before.
Tick ==
  /\ owners' = [k \in DOMAIN owners |-> Aged(owners[k])]
  /\ call' = [c \in Calls |-> [call[c] EXCEPT
       !.timer = IF call[c].pc = "wait" THEN Down(@) ELSE @,
       !.age = IF call[c].pc = "decide" THEN Min({owners[call[c].owner].policy.ask_timeout, @ + 1}) ELSE @]]
  /\ UNCHANGED <<running, served, audit, locked, saved, roomVars, joining, cmVars, disk,
                 ui, boundVars, invited>>

DiskFills ==
  /\ "disk" \in menu.does /\ disk /\ disk' = FALSE
  /\ UNCHANGED <<ownerVars, locked, saved, roomVars, joining, cmVars, call, ui, boundVars, invited>>

CanBegin(cmds) ==
  menu.does \cap cmds # {} /\ commands < menu.commands /\ \E w \in Windows : ui[w].pc = "idle"

\* The files that somebody may be writing when the Desktop ends.
UnderWrite ==
  {file \in {"rooms", "policy", "config"} :
     CASE file = "policy" -> CanBegin({"policy"})
       [] file = "config" -> CanBegin({"configure"})
       [] OTHER ->
            \/ joining # None
            \/ CanBegin({"create"})
            \/ CanBegin({"invite", "remove", "forget"}) /\ \E ch \in Channels : rooms[ch] # None
            \/ \E c \in Calls : call[c].pc = "invite" /\ Invitable(call[c].request)
            \/ \E w \in Windows : ui[w].pc = "invite" /\ Invitable(ui[w].request)}

NoRooms == [ch \in Channels |-> None]

\* The Desktop ends, perhaps in the middle of a write, and starts again: nobody
\* is served, and a file that cannot be read is reported and counts for nothing.
\* With the rooms goes what was told of them.
Restart ==
  /\ "restart" \in menu.does /\ restarts < MaxRestarts /\ restarts' = restarts + 1
  /\ owners' = [k \in DOMAIN owners |-> [owners[k] EXCEPT !.pending = <<>>, !.waiting = {}]]
  /\ running' = 0 /\ served' = 0 /\ locked' = None /\ joining' = None /\ owned' = {}
  /\ torn' \in {torn \cup cut : cut \in SUBSET UnderWrite}
  /\ rooms' = IF "rooms" \in torn' THEN NoRooms ELSE Reload(store)
  /\ told' = IF "rooms" \in torn' THEN {} ELSE told
  /\ config' = (config /\ "config" \notin torn')
  /\ call' = [c \in Calls |-> IF call[c].pc = "idle" THEN call[c]
                              ELSE [NoCall EXCEPT !.pc = "done", !.reply = "Lost"]]
  /\ ui' = [w \in Windows |-> Idle]
  /\ UNCHANGED <<audit, saved, store, listed, disk, commands, menu, invited>>

Environment ==
  \/ \E c \in Calls : (\E m \in menu.messages : AgentAsks(c, m)) \/ (\E a \in menu.approvals : ManagerAsks(c, a))
  \/ \E w \in Windows : Human(w)
  \/ DiskFills \/ Restart

System == (\E c \in Calls : Handler(c)) \/ (\E w \in Windows : Command(w)) \/ Tick

Next == System \/ Environment

\* What is true whatever the scheduler does.
Safety == Init /\ [][Next]_vars

\* While a handler or a command that has begun, a join included, for which the
\* Desktop always sets a time limit, can go on, or a timer runs, something of it
\* happens.  Nobody has to answer.
Spec == Safety /\ WF_vars(System)

-----------------------------------------------------------------------------
(* What the constants are *)

\* Requests that may be under way, and whom they or a human may invite.
Requests ==
  {AdmittedRequest(m) : m \in {n \in UNION {x.messages : x \in Menus} : admit(n)}}
    \cup {a.request : a \in UNION {x.approvals : x \in Menus}}

Invitees == Members \cup {Member(q) : q \in Requests}

KnownRooms == [moderator : BOOLEAN, live : BOOLEAN, admitted : SUBSET Invitees]

ASSUME RequestsNameChannels == \A q \in Requests : q.channel \in Channels

ASSUME RoomsAreStored == StoredRooms \subseteq [Channels -> KnownRooms \cup {None}]

ASSUME RulesAreOrdered ==
  \A p \in Policies \cup {x.policy : x \in Menus} : p.rules \in Seq(Range(p.rules))

ASSUME NoneIsApart == None \notin Nat /\ None \notin KnownRooms /\ None \notin Invitees

-----------------------------------------------------------------------------
(* Properties *)

Granted(q) == {i \in DOMAIN audit : audit[i].outcome = "granted" /\ audit[i].request = q}

\* Nobody is removed by a rule that does not speak of removals, and the owner
\* has seen, in time, the very request it allows.
Justified(i) ==
  LET e == audit[i]
  IN IF e.by = "Owner"
     THEN ~e.late /\ \E j \in 1..(i - 1) :
            /\ audit[j].outcome = "asked" /\ audit[j].request = e.request
            /\ audit[j].owner = e.owner /\ audit[j].ask = e.ask
     ELSE e.by = "Rule" /\ e.request.action = "delete" => e.of = "delete"

\* An invite that was sent, and a grant that the channel manager was handed, is
\* for the request that was made, and the audit log has that request as granted
\* by a rule that speaks of it or by the owner before it expired: whatever
\* requests, answers, timeouts and changes of the policy interleave.
GrantsAreEarned ==
  /\ \A q \in invited : \E i \in Granted(q) : Justified(i)
  /\ \A c \in Calls : call[c].grant # None =>
       call[c].grant = call[c].request /\ \E i \in Granted(call[c].request) : Justified(i)

IsSettlement(i) == audit[i].ask # None /\ audit[i].outcome \in {"granted", "denied"}

Of(i, c) == audit[i].owner = call[c].owner /\ audit[i].ask = call[c].ask

\* An ask is settled once, by the owner or by its timeout, however many windows
\* answer it and whatever is left in the inbox, and an answer the channel
\* manager is handed is the one that was recorded.
OneVerdict ==
  /\ \A i, j \in {n \in DOMAIN audit : IsSettlement(n)} :
       audit[i].owner = audit[j].owner /\ audit[i].ask = audit[j].ask => i = j
  /\ \A c \in Calls, i \in DOMAIN audit : call[c].ask # None /\ IsSettlement(i) /\ Of(i, c) =>
       /\ call[c].reply = "Grant" => audit[i].outcome = "granted"
       /\ call[c].reply = "DeniedByOwner" => audit[i].outcome = "denied"

\* A room that is there is known, with the member; one that is not is not.
Holds(f, room) ==
  f.there <=> room # None /\ (f.member # None => f.member \in room.admitted)

\* What a command reported done about a room, a removal too, is so until another
\* command undoes it, and survives restarts of the Desktop, as long as the last
\* write of the store was not cut short.  A persist that fails on a full disk, or
\* in which the Desktop ends, can cost every room the store had; nothing else
\* does, and what is reported after such a loss is remembered again.
RoomsAreRemembered == \A f \in told : Holds(f, rooms[f.channel])

\* The commands that wait for the SLIM state, and those that wait for the Owner.
WantsSlim(w) == ui[w].pc \in {"serve", "held", "invite"}
WantsOwner(w) == ui[w].pc \in {"publish", "status", "set_policy"}

\* Nobody waits in a circle.  A lock that is held is held by a command under way:
\* the join that has the SLIM state waits for no lock, and the command that has
\* the Owner (with_owner) waits for the SLIM state at most, and not for itself.
\* Requests wait for both and hold neither.
LocksAreInOrder ==
  /\ joining # None => ui[joining].pc # "idle" /\ ~WantsSlim(joining) /\ ~WantsOwner(joining)
  /\ locked # None => ui[locked].pc # "idle" /\ ~WantsOwner(locked)

\* Every request is answered: an ask that nobody answers, a full disk or a join
\* that holds the SLIM state keep no caller waiting.
EveryCallEnds == \A c \in Calls : (call[c].pc # "idle") ~> (call[c].pc = "done")

=============================================================================
