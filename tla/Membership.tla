------------------------------ MODULE Membership ------------------------------
(* How the bot brings the assistant of one chat into the group and what it     *)
(* remembers about it: statusCache and inviteCache (two hours) of vc, the list *)
(* of administrators (one hour, ten minutes when the fetch failed), the        *)
(* participant updates that correct them, /reload and /leaveall.  Telegram is  *)
(* outside: the group's real state changes under the caches.  An administrator *)
(* status of the assistant counts as "member".                                 *)
EXTENDS Naturals, Sequences, FiniteSets

CONSTANTS Commands,   \* goroutines of users' commands
          Listeners,  \* goroutines of participant updates
          None,       \* no entry
          MaxWorld,   \* bound: changes of the group from outside
          MaxFaults,  \* bound: requests that fail
          MaxPending  \* bound: updates on their way

Procs == Commands \cup Listeners

ASSUME MembershipAssumption ==
    /\ MaxWorld \in Nat /\ MaxFaults \in Nat /\ MaxPending \in Nat
    /\ None \notin {"left", "member", "restricted", "kicked", "full", "weak", "failed"}
    /\ None \notin Nat

VARIABLES status,   \* the assistant's real status in the group
          bot,      \* the bot's real role: "full" rights, "weak" admin, "member", "out"
          valid,    \* the invite link that works
          updates,  \* participant updates on their way
          seen,     \* statusCache
          invite,   \* inviteCache
          admins,   \* AdminCache: the role it shows for the bot, or "failed", the
                    \* empty list a failed fetch leaves
          queued,   \* ChatCache has tracks for the chat
          pc, loc,  \* step and locals of each goroutine
          world, faults, hist

group   == <<status, bot, valid, updates>>
caches  == <<seen, invite, admins>>
vars    == <<group, caches, queued, pc, loc, world, faults, hist>>

Statuses == {"left", "member", "restricted", "kicked"}
Roles    == {"full", "weak", "member", "out"}
Admins   == {"full", "weak"}
NoLink   == 0                                  \* the empty link
NoLocals == [op |-> "none", old |-> "left", new |-> "left", list |-> None, link |-> NoLink]

Goto(p, step, l) == /\ pc' = [pc EXCEPT ![p] = step]
                    /\ loc' = [loc EXCEPT ![p] = IF step = "idle" THEN NoLocals ELSE l]
Then(p, step)    == Goto(p, step, loc[p])
Return(p)        == Then(p, "idle")
At(p, step)      == pc[p] = step
Idle(p)          == At(p, "idle")
Op(p)            == loc[p].op

Answers == UNCHANGED <<faults, hist>>
Fails   == /\ faults < MaxFaults /\ faults' = faults + 1
           /\ hist' = [hist EXCEPT !.failed = TRUE]

(* A request of the bot fails, always for a bot that is out of the group *)
Refused == IF bot = "out" THEN Answers ELSE Fails

Start(p, step, l) ==
    /\ Idle(p)
    /\ Goto(p, step, l)
    /\ hist' = [hist EXCEPT !.overlap = @ \/ \E q \in Procs : ~Idle(q)]
    /\ UNCHANGED <<group, caches, world, faults>>
Locals(op) == [NoLocals EXCEPT !.op = op]

-----------------------------------------------------------------------------
(* The group.  A bot hears of changes of its own role always, of other         *)
(* members only while it is an administrator.                                  *)

Update(who, old, new) == [who |-> who, old |-> old, new |-> new]

(* What getStatusFromParticipant makes of the participant: a ban reads as a    *)
(* leave when it carries "left", else, having rights, as a restriction         *)
Reported(s) == IF s = "kicked" THEN {"left", "restricted"} ELSE {s}

(* The update that tells of the change, if there is one.  One that reads as no *)
(* change at all is missed, too; one that reads as a restriction is kept in    *)
(* mind, for nothing is recorded of it.                                        *)
StatusBecomes(s) ==
    /\ status' = s
    /\ IF bot \in Admins /\ s # status
       THEN \E o \in Reported(status), n \in Reported(s) :
               /\ updates' = Append(updates, Update("assistant", o, n))
               /\ hist' = [hist EXCEPT !.missed = @ \/ o = n,
                                       !.restricted = @ \/ "restricted" \in {o, n}]
       ELSE /\ hist' = [hist EXCEPT !.missed = @ \/ s # status]
            /\ UNCHANGED updates

(* An administrator of the group, or the assistant's owner, acts *)
AssistantChanges ==
    /\ world < MaxWorld /\ world' = world + 1 /\ Len(updates) < MaxPending
    /\ \E s \in Statuses \ {status} : StatusBecomes(s)
    /\ UNCHANGED <<bot, valid, caches, queued, pc, loc, faults>>

RoleReported(r) == IF r \in Admins THEN {"admin"}
                   ELSE IF r = "member" THEN {"member"} ELSE {"left", "restricted"}

(* The bot is promoted, demoted, removed or added; its way back is not counted *)
BotChanges ==
    /\ Len(updates) < MaxPending
    /\ IF bot = "out" THEN UNCHANGED world ELSE world < MaxWorld /\ world' = world + 1
    /\ \E r \in Roles \ {bot}, o \in RoleReported(bot) : \E n \in RoleReported(r) :
          /\ bot' = r
          /\ updates' = Append(updates, Update("bot", o, n))
          /\ hist' = [hist EXCEPT !.moved = @ \/ {o, n} = {"admin", "left"}]
    /\ UNCHANGED <<status, valid, caches, queued, pc, loc, faults>>

LinkRevoked ==
    /\ world < MaxWorld /\ world' = world + 1
    /\ valid' = valid + 1
    /\ UNCHANGED <<status, bot, updates, caches, queued, pc, loc, faults, hist>>

-----------------------------------------------------------------------------
(* joinAssistant, called by PlayMedia: an error clears the chat's queue *)

(* A bot that is out of the group hears no command of it                       *)
Play(p) == bot # "out" /\ Start(p, "check", Locals("play")) /\ queued' = TRUE

GiveUp(p) == /\ queued' = FALSE
             /\ Return(p)

Route(p, s) ==
    \/ s = "member" /\ Then(p, "in")
    \/ s = "left"   /\ Then(p, "link")
    \/ s \in {"kicked", "restricted"}
       /\ Goto(p, "list", [loc[p] EXCEPT !.old = s])

CheckUserStats(p) ==
    /\ At(p, "check")
    /\ IF seen # None THEN Route(p, seen) ELSE Then(p, "ask")
    /\ UNCHANGED <<group, caches, queued, world, faults, hist>>

(* An error of GetChatMember of any kind is recorded as "left" *)
GetChatMember(p) ==
    /\ At(p, "ask")
    /\ \/ bot # "out" /\ Answers /\ seen' = status
       \/ Refused /\ seen' = "left"
    /\ Route(p, seen')
    /\ UNCHANGED <<group, invite, admins, queued, world>>

(* Unban or unmute, with the rights the cached list shows for the bot *)
MayUnban(p) ==
    /\ At(p, "listed") /\ Op(p) = "play"
    /\ \/ loc[p].list = "full" /\ Goto(p, "unban", [loc[p] EXCEPT !.list = None]) /\ UNCHANGED queued
       \/ loc[p].list # "full" /\ GiveUp(p)
    /\ UNCHANGED <<group, caches, world, faults, hist>>

EditBanned(p) ==
    LET s == IF status # loc[p].old THEN status
             ELSE IF status = "kicked" THEN "left" ELSE "member"
    IN  /\ At(p, "unban")
        /\ \/ /\ bot = "full" /\ StatusBecomes(s)
              /\ Goto(p, IF loc[p].old = "kicked" THEN "link" ELSE "in", Locals("play"))
              /\ UNCHANGED <<queued, faults>>
           \/ /\ \/ bot # "full" /\ Answers
                 \/ bot = "full" /\ Fails
              /\ GiveUp(p) /\ UNCHANGED <<status, updates>>
        /\ UNCHANGED <<bot, valid, caches, world>>

MutantJoinKeepsOldLink(p) ==     \* a list without an entry is a link, too
    /\ At(p, "link")
    /\ Goto(p, "join", [loc[p] EXCEPT !.link = IF invite = None THEN NoLink ELSE invite])
    /\ UNCHANGED <<group, caches, queued, world, faults, hist>>

(* joinUb: the cached link, or the group's link, exported if there is none *)
InviteLink(p) ==
    /\ At(p, "link")
    /\ \/ /\ invite \notin {None, NoLink}
          /\ Goto(p, "join", [loc[p] EXCEPT !.link = invite])
          /\ Answers /\ UNCHANGED <<invite, queued>>
       \/ /\ invite \in {None, NoLink} /\ bot = "full" /\ Answers
          /\ invite' = valid
          /\ Goto(p, "join", [loc[p] EXCEPT !.link = valid])
          /\ UNCHANGED queued
       \/ /\ invite \in {None, NoLink}
          /\ IF bot = "full" THEN Fails ELSE Answers
          /\ GiveUp(p) /\ UNCHANGED invite
    /\ UNCHANGED <<group, seen, admins, world>>

(* JoinChannel by the assistant *)
Joins(p) ==
    /\ At(p, "join") /\ status = "left" /\ loc[p].link = valid
    /\ StatusBecomes("member")
    /\ Goto(p, "joined", Locals("play"))
    /\ UNCHANGED <<bot, valid, caches, queued, world, faults>>

AlreadyParticipant(p) ==                       \* and the end of a join
    /\ \/ At(p, "join") /\ status \in {"member", "restricted"}
       \/ At(p, "joined")
    /\ seen' = "member"
    /\ Goto(p, "in", Locals("play"))
    /\ UNCHANGED <<group, invite, admins, queued, world, faults, hist>>

HashExpired(p) ==                              \* the link stays in the cache
    /\ At(p, "join") /\ status \in {"left", "kicked"}
    /\ loc[p].link # valid \/ status = "kicked"
    /\ GiveUp(p)
    /\ UNCHANGED <<group, caches, world, faults, hist>>

ChannelPrivate(p) ==
    /\ At(p, "join") /\ status = "kicked"
    /\ seen' = "left" /\ invite' = NoLink
    /\ GiveUp(p)
    /\ UNCHANGED <<group, admins, world, faults, hist>>

JoinFails(p) ==
    /\ At(p, "join")
    /\ Fails /\ GiveUp(p)
    /\ UNCHANGED <<group, caches, world>>

RequestSent(p) ==                              \* the group approves its joins
    /\ At(p, "join") /\ status = "left" /\ loc[p].link = valid
    /\ Goto(p, "approve", Locals("play"))
    /\ UNCHANGED <<group, caches, queued, world, faults, hist>>

(* MessagesHideChatJoinRequest: approved, without a word to the cache; gone,   *)
(* taken for accepted although it may have been declined; or refused           *)
Approve(p) ==
    /\ At(p, "approve")
    /\ \/ /\ bot = "full" /\ status = "left"
          /\ StatusBecomes("member")
          /\ Goto(p, "in", Locals("play")) /\ UNCHANGED <<seen, queued, faults>>
       \/ /\ seen' = "member" /\ UNCHANGED <<status, updates, queued>>
          /\ IF status = "left" THEN Fails ELSE Answers
          /\ Goto(p, "in", Locals("play"))
       \/ /\ IF bot = "full" THEN Fails ELSE Answers
          /\ GiveUp(p) /\ UNCHANGED <<status, updates, seen>>
    /\ UNCHANGED <<bot, valid, invite, admins, world>>

(* call.Play works for a member only; its failure clears the queue and leaves  *)
(* the caches as they are                                                      *)
PlayCall(p) ==
    /\ At(p, "in")
    /\ \/ status \in {"member", "restricted"} /\ Return(p) /\ UNCHANGED queued
       \/ status # "member" /\ GiveUp(p)
    /\ UNCHANGED <<group, caches, world, faults, hist>>

-----------------------------------------------------------------------------
(* The list of administrators.  GetAdmins: the entry unless a reload is        *)
(* forced, else a fetch, stored afterwards.                                    *)

Forced(p) == Op(p) \in {"reload", "promoted"}

GetAdmins(p) ==
    /\ At(p, "list")
    /\ IF admins = None \/ Forced(p) THEN Then(p, "fetch")
       ELSE Goto(p, "listed", [loc[p] EXCEPT !.list = admins])
    /\ UNCHANGED <<group, caches, queued, world, faults, hist>>

(* GetUserAdmin stores an empty list when the fetch failed; a forced reload    *)
(* leaves the cache as it is                                                   *)
FetchAdmins(p) ==
    /\ At(p, "fetch")
    /\ \/ bot # "out" /\ Answers /\ Goto(p, "store", [loc[p] EXCEPT !.list = bot])
       \/ Refused /\ IF Forced(p) THEN Return(p)
                     ELSE Goto(p, "store", [loc[p] EXCEPT !.list = "failed"])
    /\ UNCHANGED <<group, caches, queued, world>>

StoreAdmins(p) ==
    /\ At(p, "store")
    /\ admins' = loc[p].list
    /\ Then(p, "listed")
    /\ UNCHANGED <<group, seen, invite, queued, world, faults, hist>>

(* adminMode and playMode in front of a command, /reload, handleBotAdminChange *)
Command(p)  == bot # "out" /\ Start(p, "list", Locals("command")) /\ UNCHANGED queued
Listed(p) ==
    /\ At(p, "listed") /\ Op(p) # "play"
    /\ Return(p)
    /\ UNCHANGED <<group, caches, queued, world, faults, hist>>

Reload(p)   == bot # "out" /\ Start(p, "clear", Locals("reload")) /\ UNCHANGED queued
ClearForReload(p) ==
    /\ At(p, "clear")
    /\ admins' = None /\ invite' = NoLink
    /\ Then(p, "list")
    /\ UNCHANGED <<group, seen, queued, world, faults, hist>>

-----------------------------------------------------------------------------
(* Participant updates arrive in order; each is handled by a goroutine *)

ReceiveUpdate(p) ==
    /\ p \in Listeners /\ Idle(p) /\ updates # <<>>
    /\ LET u == Head(updates) IN
       Goto(p, IF u.who = "bot" THEN "botrole" ELSE "route",
            [Locals("update") EXCEPT !.old = u.old, !.new = u.new])
    /\ updates' = Tail(updates)
    /\ hist' = [hist EXCEPT !.overlap = @ \/ \E q \in Procs : ~Idle(q)]
    /\ UNCHANGED <<status, bot, valid, caches, queued, world, faults>>

Change(p, old, new) == /\ At(p, "route") /\ loc[p].old \in old /\ loc[p].new \in new
                       /\ UNCHANGED <<group, invite, admins, world>>

HandleJoin(p) ==
    /\ Change(p, {"left"}, {"member"})
    /\ seen' = "member" /\ Return(p) /\ UNCHANGED <<queued, faults, hist>>

MutantHandleLeaveForgets(p) ==
    /\ Change(p, {"member"}, {"left"})
    /\ queued' = FALSE /\ Return(p) /\ UNCHANGED <<seen, faults, hist>>

HandleLeave(p) ==
    /\ Change(p, {"member"}, {"left"})
    /\ seen' = "left" /\ queued' = FALSE /\ Return(p) /\ UNCHANGED <<faults, hist>>

(* handlePromotionDemotion: no promotion, nothing is recorded.  handleBan and  *)
(* handleUnban wait for "kicked", which no update reads as.                    *)
OtherChange(p) ==
    /\ Change(p, Statuses, Statuses)
    /\ <<loc[p].old, loc[p].new>> \notin {<<"left", "member">>, <<"member", "left">>}
    /\ Return(p) /\ UNCHANGED <<seen, queued, faults, hist>>

(* handleJoin and handleLeave for the bot: the list of administrators stays as *)
(* it is, the statuses are those of the assistant; leaving stops the music.    *)
BotJoins(p) ==
    /\ At(p, "botrole") /\ loc[p].old = "left" /\ loc[p].new \in {"member", "admin"}
    /\ Return(p)
    /\ UNCHANGED <<group, caches, queued, world, faults, hist>>

BotLeaves(p) ==
    /\ At(p, "botrole") /\ loc[p].old \in {"member", "admin"} /\ loc[p].new = "left"
    /\ queued' = FALSE /\ Return(p)
    /\ UNCHANGED <<group, caches, world, faults, hist>>

(* The other changes of the bot's role *)
RoleChange(p) == At(p, "botrole") /\ "left" \notin {loc[p].old, loc[p].new}

MutantDemotionKeepsList(p) ==
    LET promoted == loc[p].old # "admin" /\ loc[p].new = "admin"
    IN  /\ RoleChange(p)
        /\ \/ promoted /\ Goto(p, "list", Locals("promoted"))
           \/ ~promoted /\ Return(p)
        /\ UNCHANGED <<group, caches, queued, world, faults, hist>>

HandleBotAdminChange(p) ==
    LET promoted == loc[p].old # "admin" /\ loc[p].new = "admin"
        demoted  == loc[p].old = "admin" /\ loc[p].new # "admin"
    IN  /\ RoleChange(p)
        /\ \/ promoted /\ Goto(p, "list", Locals("promoted")) /\ UNCHANGED admins
           \/ demoted /\ admins' = None /\ Return(p)
           \/ ~promoted /\ ~demoted /\ Return(p) /\ UNCHANGED admins
        /\ UNCHANGED <<group, seen, invite, queued, world, faults, hist>>

-----------------------------------------------------------------------------
(* /leaveall: the assistant leaves every dialog that is not an active chat.    *)
(* ChatCache knows a group by its marked identifier, the dialogs name it by    *)
(* the bare one, so that the group is never found among the active ones.       *)

ChatKey   == "marked"
DialogKey == "bare"
ActiveChats == IF queued THEN {ChatKey} ELSE {}

LeaveAll(p) ==
    /\ Idle(p) /\ world < MaxWorld /\ world' = world + 1
    /\ status # "left" /\ Len(updates) < MaxPending
    /\ IF DialogKey \notin ActiveChats /\ status \in {"member", "restricted"}
       THEN StatusBecomes("left")
       ELSE UNCHANGED <<status, updates, hist>>
    /\ UNCHANGED <<bot, valid, caches, queued, pc, loc, faults>>

MutantExpireGoodLists == /\ admins \notin {None, "failed"} /\ admins' = None
                        /\ UNCHANGED <<group, seen, invite, queued, pc, loc, world,
                                       faults, hist>>

MutantStatusNeverOld ==        \* the entry has no time to live
    FALSE /\ UNCHANGED vars

(* Entries grow old: one hour and two *)
ExpireStatus == /\ seen # None /\ seen' = None
                /\ UNCHANGED <<group, invite, admins, queued, pc, loc, world, faults, hist>>

ExpireInvite == /\ invite # None /\ invite' = None
                /\ UNCHANGED <<group, seen, admins, queued, pc, loc, world, faults, hist>>

ExpireAdmins == /\ admins # None /\ admins' = None
                /\ UNCHANGED <<group, seen, invite, queued, pc, loc, world, faults, hist>>

Init ==
    /\ status \in {"left", "member"} /\ bot \in {"full", "member"} /\ valid = 1 /\ updates = <<>>
    /\ seen = None /\ invite = None /\ admins = None /\ queued = FALSE
    /\ pc = [p \in Procs |-> "idle"] /\ loc = [p \in Procs |-> NoLocals]
    /\ world = 0 /\ faults = 0
    /\ hist = [overlap |-> FALSE, failed |-> FALSE, missed |-> FALSE, restricted |-> FALSE,
             moved |-> FALSE]

Continue(p) ==
    \/ CheckUserStats(p) \/ GetChatMember(p) \/ MayUnban(p) \/ EditBanned(p)
    \/ InviteLink(p) \/ Joins(p) \/ AlreadyParticipant(p) \/ HashExpired(p)
    \/ ChannelPrivate(p) \/ JoinFails(p) \/ RequestSent(p) \/ Approve(p) \/ PlayCall(p)
    \/ GetAdmins(p) \/ FetchAdmins(p) \/ StoreAdmins(p) \/ Listed(p) \/ ClearForReload(p)
    \/ HandleJoin(p) \/ HandleLeave(p) \/ OtherChange(p)
    \/ BotJoins(p) \/ BotLeaves(p) \/ HandleBotAdminChange(p)

Next ==
    \/ AssistantChanges \/ BotChanges \/ LinkRevoked
    \/ ExpireStatus \/ ExpireInvite \/ ExpireAdmins
    \/ \E p \in Commands : Play(p) \/ Command(p) \/ Reload(p) \/ LeaveAll(p)
    \/ \E p \in Procs : ReceiveUpdate(p) \/ Continue(p)

Spec == Init /\ [][Next]_vars

(* Goroutines run on, entries grow old, and the users keep sending commands.   *)
FairSpec ==
    /\ Spec
    /\ WF_vars(ExpireStatus) /\ WF_vars(ExpireInvite) /\ WF_vars(ExpireAdmins)
    /\ \A p \in Procs : WF_vars(ReceiveUpdate(p) \/ Continue(p))
    /\ \A p \in Commands : SF_vars(Play(p)) /\ SF_vars(Command(p))

-----------------------------------------------------------------------------
(* Properties *)

(* The caches hold what their writers put there; a goroutine that joins has a  *)
(* link the group once had, and one that looks through the administrators has  *)
(* a list.                                                                     *)
TypeOK ==
    /\ status \in Statuses /\ bot \in Roles
    /\ seen \in Statuses \cup {None} /\ admins \in (Roles \ {"out"}) \cup {None, "failed"}
    /\ \A p \in Procs : At(p, "join") => loc[p].link \in 1 .. valid
    /\ \A p \in Procs : At(p, "listed") => loc[p].list # None

Settled == /\ \A p \in Procs : Idle(p)
           /\ updates = <<>> /\ ~hist.overlap /\ ~hist.failed

(* Once the updates are handled, one at a time and with nothing failed, the    *)
(* assistant is not taken for a member of a group it has left or was banned    *)
(* from with "left": PlayMedia would skip the join and fail for two hours.     *)
(* An update that reads as a restriction, a ban without "left" above all,      *)
(* records nothing, and none comes while the bot is no administrator, or of a  *)
(* change that reads as none: these are exempt.                                *)
AbsenceSeen ==
    Settled /\ ~hist.missed /\ ~hist.restricted =>
        (seen = "member" => status = "member")

(* The list of administrators follows the bot's promotions, demotions and      *)
(* removals.  Of an administrator that left, and of a bot that comes in as     *)
(* one, it learns nothing: these are exempt.                                   *)
ListFollows ==
    Settled /\ ~hist.moved /\ admins # None =>
        (admins \in Admins <=> bot \in Admins)

(* While users keep asking for music, an assistant that is not banned comes    *)
(* back, whatever the caches wrongly remember: a revoked link, a membership    *)
(* that ended, a list without the bot's rights.                                *)
AssistantReturns ==
    <>[](bot = "full" /\ status # "kicked") => <>[](status = "member")

(* A bot that has its rights is recognised again, after a fetch that failed or *)
(* a change of rights nobody told it about.                                    *)
RightsRecognised == <>[](bot = "full") => []<>(admins = "full")
=============================================================================
