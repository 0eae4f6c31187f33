-------------------------- MODULE MembershipProofs --------------------------
(***************************************************************************)
(* Theorems about Membership, for any number of goroutines, changes of the *)
(* group, failures and pending updates: its types, and what its two caches *)
(* say once the updates have been handled one at a time.                   *)
(***************************************************************************)
EXTENDS Membership, TLAPS

Words       == Statuses \cup {"admin"}
LocalFields == {"op", "old", "new", "list", "link"}
HistFields  == {"overlap", "failed", "missed", "restricted", "moved"}

\* The links and the list among the locals of a goroutine at a step.
LocalAt(step, l) ==
    /\ DOMAIN l = LocalFields
    /\ l.link \in Nat /\ l.link <= valid
    /\ step = "join" => l.link # NoLink
    /\ l.list \in (Roles \ {"out"}) \cup {None, "failed"}
    /\ step \in {"store", "listed"} => l.list # None

\* The shared variables have their types.
GroupTypes ==
    /\ status \in Statuses /\ bot \in Roles /\ valid \in Nat /\ valid >= 1
    /\ updates \in Seq([who : {"assistant", "bot"}, old : Words, new : Words])
CacheTypes ==
    /\ seen \in Statuses \cup {None} /\ admins \in (Roles \ {"out"}) \cup {None, "failed"}
    /\ invite = None \/ (invite \in Nat /\ invite <= valid)

\* The inductive invariant of TypeOK.
TypeInv ==
    /\ GroupTypes /\ CacheTypes /\ DOMAIN hist = HistFields
    /\ DOMAIN pc = Procs /\ DOMAIN loc = Procs
    /\ \A p \in Procs : LocalAt(pc[p], loc[p])

-----------------------------------------------------------------------------
\* While nothing overlaps one goroutine at most is under way.
Serial == \A p, q \in Procs : pc[p] # "idle" /\ pc[q] # "idle" => p = q

\* An arrival or a departure, as updates tell them.
Tells(old, new) == {old, new} = {"left", "member"}

\* No update about the assistant is pending.
Silent(us) == \A i \in 1 .. Len(us) : us[i].who # "assistant"

\* The last one that is pending tells whether the assistant is in the group.
LastTells(us, s) ==
    \A i \in 1 .. Len(us) :
        /\ us[i].who = "assistant"
        /\ \A j \in 1 .. Len(us) : j > i => us[j].who # "assistant"
        => (us[i].new = "member" <=> s = "member")

\* What a goroutine at a step knows of the assistant's status s.
Knows(s, step, l) ==
    /\ step = "joined" => s = "member"
    /\ step = "approve" => s = "left"
    /\ step = "route" => (l.new = "member" <=> s = "member")

\* What holds while nothing overlapped, failed or went unheard: with no update pending
\* or being handled, an assistant that is not in the group is not seen there.
Absent ==
    /\ Serial /\ status # "restricted"
    /\ \A i \in 1 .. Len(updates) :
          updates[i].who = "assistant" => Tells(updates[i].old, updates[i].new)
    /\ LastTells(updates, status)
    /\ \A p \in Procs : pc[p] = "route" => Tells(loc[p].old, loc[p].new)
    /\ Silent(updates) =>
          /\ \A p \in Procs : Knows(status, pc[p], loc[p])
          /\ (\A p \in Procs : pc[p] # "route") => (seen = "member" => status = "member")

\* The inductive invariant of AbsenceSeen.
Smooth == ~ hist.overlap /\ ~ hist.failed
Heard  == ~ hist.missed /\ ~ hist.restricted
Kept   == ~ hist.moved
AbsenceInv == TypeInv /\ (Smooth /\ Heard => Absent)

-----------------------------------------------------------------------------
\* A promotion or a demotion, and one of them that reads as a departure or an arrival.
Shifts(old, new) == old = "admin" <=> new # "admin"
Moves(old, new)  == {old, new} = {"admin", "left"}

\* No promotion or demotion of the bot is pending.
Settles(us) == \A i \in 1 .. Len(us) : us[i].who = "bot" => ~ Shifts(us[i].old, us[i].new)

\* The last one that is pending tells whether the bot, in role b, is an administrator.
LastRole(us, b) ==
    \A i \in 1 .. Len(us) :
        /\ us[i].who = "bot"
        /\ \A j \in 1 .. Len(us) :
              j > i /\ us[j].who = "bot" => ~ Shifts(us[j].old, us[j].new)
        => (us[i].new = "admin" <=> b \in Admins)

NoMoves(us) == \A i \in 1 .. Len(us) : us[i].who = "bot" => ~ Moves(us[i].old, us[i].new)

BotTells(us, b) == LastRole(us, b) /\ NoMoves(us)

\* A list shows the bot as an administrator exactly when its role b is one.
Fits(list, b) == list \in Admins <=> b \in Admins

\* A goroutine that is about to bring the list up to date, and what one at a step knows
\* of the bot's role b.
Mending(step, l) ==
    \/ step = "store"
    \/ step = "botrole" /\ Shifts(l.old, l.new)
    \/ step \in {"list", "fetch"} /\ l.op = "promoted"

Role(step, l, b) ==
    /\ step = "store" => Fits(l.list, b)
    /\ step = "botrole" => (l.new = "admin" <=> b \in Admins)
    /\ step \in {"list", "fetch"} /\ l.op = "promoted" => b \in Admins
    /\ step \in {"check", "ask", "clear"} => l.op # "promoted"

\* What holds while nothing overlapped, failed or moved: with no promotion or demotion
\* pending or being handled, the list shows whether the bot is an administrator.
Listing ==
    /\ Serial /\ BotTells(updates, bot)
    /\ \A p \in Procs : pc[p] = "botrole" => ~ Moves(loc[p].old, loc[p].new)
    /\ Settles(updates) =>
          /\ \A p \in Procs : Role(pc[p], loc[p], bot)
          /\ (\A p \in Procs : ~ Mending(pc[p], loc[p])) => (admins # None => Fits(admins, bot))

\* The inductive invariant of ListFollows.
ListInv == TypeInv /\ (Smooth /\ Kept => Listing)
-----------------------------------------------------------------------------
(* Types *)

\* What a step of goroutine p needs to keep the types.
LEMMA TypeMoved ==
    ASSUME TypeInv, GroupTypes', CacheTypes', DOMAIN hist' = HistFields, valid' = valid,
           NEW p \in Procs, NEW step, NEW l, Goto(p, step, l), step # "idle" => LocalAt(step, l)
    PROVE  TypeInv'
<1>1. /\ DOMAIN pc' = Procs /\ DOMAIN loc' = Procs
      /\ pc'[p] = step /\ loc'[p] = IF step = "idle" THEN NoLocals ELSE l
      /\ \A q \in Procs \ {p} : pc'[q] = pc[q] /\ loc'[q] = loc[q]
  BY DEF Goto, TypeInv
<1>2. LocalAt("idle", NoLocals)
  BY DEF LocalAt, NoLocals, NoLink, LocalFields, TypeInv, GroupTypes
<1>3. ASSUME NEW q \in Procs PROVE LocalAt(pc'[q], loc'[q])
  BY <1>1, <1>2 DEF TypeInv
<1>4. \A q \in Procs : LocalAt(pc[q], loc[q])'
  BY <1>3 DEF LocalAt
<1> QED
  BY <1>1, <1>4 DEF TypeInv

\* The same for a step that changes no shared variable but the queue and the history.
LEMMA TypeMovedOnly ==
    ASSUME TypeInv, UNCHANGED <<group, caches>>, DOMAIN hist' = HistFields,
           NEW p \in Procs, NEW step, NEW l, Goto(p, step, l), step # "idle" => LocalAt(step, l)
    PROVE  TypeInv'
<1>1. GroupTypes' /\ CacheTypes' /\ valid' = valid
  BY DEF TypeInv, GroupTypes, CacheTypes, group, caches
<1> QED
  BY <1>1, TypeMoved

\* The assistant's status changes, and the update that tells of it is one.
LEMMA StatusTypes ==
    ASSUME GroupTypes, NEW s \in Statuses, StatusBecomes(s), UNCHANGED <<bot, valid>>
    PROVE  GroupTypes'
<1>1. ASSUME NEW o \in Reported(status), NEW n \in Reported(s)
      PROVE  Update("assistant", o, n)
                \in [who : {"assistant", "bot"}, old : Words, new : Words]
  BY DEF Reported, Update, Words, Statuses, GroupTypes
<1>2. updates' \in Seq([who : {"assistant", "bot"}, old : Words, new : Words])
  <2>1. CASE updates' = updates
    BY <2>1 DEF GroupTypes
  <2>2. ASSUME NEW o \in Reported(status), NEW n \in Reported(s),
               updates' = Append(updates, Update("assistant", o, n))
        PROVE  updates' \in Seq([who : {"assistant", "bot"}, old : Words, new : Words])
    BY <1>1, <2>2 DEF GroupTypes
  <2> QED
    BY <2>1, <2>2 DEF StatusBecomes
<1> QED
  BY <1>2 DEF GroupTypes, StatusBecomes

\* Changes of the history keep its fields.
LEMMA HistTypes ==
    ASSUME DOMAIN hist = HistFields
    PROVE  /\ Answers => DOMAIN hist' = HistFields
           /\ Fails => DOMAIN hist' = HistFields
           /\ hist' = hist => DOMAIN hist' = HistFields
           /\ Refused => DOMAIN hist' = HistFields
           /\ \A s : StatusBecomes(s) => DOMAIN hist' = HistFields
BY DEF Answers, Fails, Refused, StatusBecomes, HistFields

\* The group and the caches change on their own.
LEMMA WorldTypes ==
    ASSUME TypeInv,
           \/ AssistantChanges \/ BotChanges \/ LinkRevoked
           \/ ExpireStatus \/ ExpireInvite \/ ExpireAdmins
    PROVE  TypeInv'
<1>1. /\ GroupTypes /\ CacheTypes /\ DOMAIN hist = HistFields
      /\ \A q \in Procs : LocalAt(pc[q], loc[q])
      /\ DOMAIN pc = Procs /\ DOMAIN loc = Procs
  BY DEF TypeInv
<1>2. ASSUME GroupTypes', CacheTypes', DOMAIN hist' = HistFields, valid' >= valid,
             UNCHANGED <<pc, loc>>
      PROVE  TypeInv'
  <2>1. \A q \in Procs : LocalAt(pc[q], loc[q])'
    BY <1>1, <1>2 DEF LocalAt, GroupTypes
  <2> QED
    BY <1>1, <1>2, <2>1 DEF TypeInv
<1>3. CASE AssistantChanges
  <2>1. PICK s \in Statuses : StatusBecomes(s)
    BY <1>3 DEF AssistantChanges
  <2>2. GroupTypes' /\ DOMAIN hist' = HistFields
    BY <1>1, <1>3, <2>1, StatusTypes, HistTypes DEF AssistantChanges
  <2>3. CacheTypes' /\ valid' >= valid
    BY <1>1, <1>3 DEF AssistantChanges, CacheTypes, caches, GroupTypes
  <2> QED
    BY <1>2, <1>3, <2>2, <2>3 DEF AssistantChanges
<1>4. CASE BotChanges
  <2>1. PICK r \in Roles, o \in RoleReported(bot) : \E n \in RoleReported(r) :
           /\ bot' = r /\ updates' = Append(updates, Update("bot", o, n))
           /\ hist' = [hist EXCEPT !.moved = @ \/ {o, n} = {"admin", "left"}]
    BY <1>4 DEF BotChanges
  <2>2. GroupTypes' /\ DOMAIN hist' = HistFields
    BY <1>1, <1>4, <2>1 DEF BotChanges, GroupTypes, Update, Words, Statuses, RoleReported, HistFields
  <2>3. CacheTypes' /\ valid' >= valid
    BY <1>1, <1>4 DEF BotChanges, CacheTypes, caches, GroupTypes
  <2> QED
    BY <1>1, <1>2, <1>4, <2>2, <2>3 DEF BotChanges
<1>5. CASE LinkRevoked
  <2>1. GroupTypes' /\ valid' >= valid
    BY <1>1, <1>5 DEF LinkRevoked, GroupTypes
  <2>2. CacheTypes'
    BY <1>1, <1>5 DEF LinkRevoked, CacheTypes, caches, GroupTypes
  <2> QED
    BY <1>1, <1>2, <1>5, <2>1, <2>2 DEF LinkRevoked
<1>6. CASE ExpireStatus \/ ExpireInvite \/ ExpireAdmins
  <2>1. GroupTypes' /\ valid' >= valid
    BY <1>1, <1>6 DEF ExpireStatus, ExpireInvite, ExpireAdmins, GroupTypes, group
  <2>2. CacheTypes'
    BY <1>1, <1>6 DEF ExpireStatus, ExpireInvite, ExpireAdmins, CacheTypes, group
  <2> QED
    BY <1>1, <1>2, <1>6, <2>1, <2>2 DEF ExpireStatus, ExpireInvite, ExpireAdmins
<1> QED
  BY <1>3, <1>4, <1>5, <1>6

\* The locals a goroutine has without a list and a link.
LEMMA PlainLocals ==
    ASSUME TypeInv, NEW op
    PROVE  /\ \A step : step \notin {"join", "store", "listed"} => LocalAt(step, Locals(op))
           /\ \A old, new, step : step \notin {"join", "store", "listed"} =>
                 LocalAt(step, [Locals(op) EXCEPT !.old = old, !.new = new])
           /\ Locals(op).op = op
BY DEF LocalAt, Locals, NoLocals, NoLink, LocalFields, TypeInv, GroupTypes

\* Commands and updates start.
LEMMA StartTypes ==
    ASSUME TypeInv, NEW p \in Procs,
           Play(p) \/ Command(p) \/ Reload(p) \/ LeaveAll(p) \/ ReceiveUpdate(p)
    PROVE  TypeInv'
<1>1. /\ GroupTypes /\ CacheTypes /\ DOMAIN hist = HistFields
      /\ \A q \in Procs : LocalAt(pc[q], loc[q])
      /\ DOMAIN pc = Procs /\ DOMAIN loc = Procs
  BY DEF TypeInv
<1>2. ASSUME NEW step \in {"check", "list", "clear"}, NEW op, Start(p, step, Locals(op))
      PROVE  TypeInv'
  <2>1. Goto(p, step, Locals(op)) /\ UNCHANGED <<group, caches>> /\ DOMAIN hist' = HistFields
    BY <1>1, <1>2 DEF Start, HistFields
  <2> QED
    BY <2>1, PlainLocals, TypeMovedOnly
<1>3. CASE Play(p) \/ Command(p) \/ Reload(p)
  BY <1>2, <1>3 DEF Play, Command, Reload
<1>4. CASE LeaveAll(p)
  <2>1. GroupTypes' /\ DOMAIN hist' = HistFields
    <3>1. CASE StatusBecomes("left")
      BY <1>1, <1>4, <3>1, StatusTypes, HistTypes DEF LeaveAll, Statuses
    <3>2. CASE UNCHANGED <<status, updates, hist>>
      BY <1>1, <1>4, <3>2 DEF LeaveAll, GroupTypes
    <3> QED
      BY <1>4, <3>1, <3>2 DEF LeaveAll
  <2> QED
    BY <1>1, <1>4, <2>1 DEF LeaveAll, TypeInv, CacheTypes, caches, LocalAt
<1>5. CASE ReceiveUpdate(p)
  <2> DEFINE u == Head(updates)
             step == IF u.who = "bot" THEN "botrole" ELSE "route"
             l == [Locals("update") EXCEPT !.old = u.old, !.new = u.new]
  <2>1. Goto(p, step, l) /\ updates' = Tail(updates) /\ UNCHANGED <<status, bot, valid, caches>>
    BY <1>5 DEF ReceiveUpdate
  <2>2. DOMAIN hist' = HistFields
    BY <1>1, <1>5 DEF ReceiveUpdate, HistFields
  <2>3. GroupTypes' /\ CacheTypes' /\ valid' = valid
    BY <1>1, <1>5, <2>1 DEF GroupTypes, CacheTypes, caches, ReceiveUpdate
  <2>4. LocalAt(step, l)
    BY PlainLocals
  <2> HIDE DEF step, l
  <2> QED
    BY <2>1, <2>2, <2>3, <2>4, TypeMoved
<1> QED
  BY <1>3, <1>4, <1>5

\* A goroutine goes on.
LEMMA ContinueTypes ==
    ASSUME TypeInv, NEW p \in Procs, Continue(p)
    PROVE  TypeInv'
<1>1. /\ GroupTypes /\ CacheTypes /\ DOMAIN hist = HistFields /\ LocalAt(pc[p], loc[p])
      /\ \A op, step : step \notin {"join", "store", "listed"} => LocalAt(step, Locals(op))
  BY PlainLocals DEF TypeInv
\* It only moves.
<1>2. ASSUME NEW step, NEW l, Goto(p, step, l), UNCHANGED <<group, caches>>,
             DOMAIN hist' = HistFields, step # "idle" => LocalAt(step, l)
      PROVE  TypeInv'
  BY <1>2, TypeMovedOnly
<1>3. ASSUME NEW step, step \notin {"join", "store", "listed"}
      PROVE  LocalAt(step, loc[p])
  BY <1>1, <1>3 DEF LocalAt
<1>4. /\ \A s : LocalAt("list", [loc[p] EXCEPT !.old = s])
      /\ LocalAt("unban", [loc[p] EXCEPT !.list = None])
      /\ \A x \in Nat : x <= valid /\ x # NoLink => LocalAt("join", [loc[p] EXCEPT !.link = x])
      /\ \A x \in (Roles \ {"out"}) \cup {"failed"}, step \in {"store", "listed"} :
            LocalAt(step, [loc[p] EXCEPT !.list = x])
  BY <1>1, MembershipAssumption DEF LocalAt, LocalFields, Roles
<1>5. ASSUME NEW s, Route(p, s)
      PROVE  \E step, l : Goto(p, step, l) /\ LocalAt(step, l)
  BY <1>3, <1>4, <1>5 DEF Route, Then
<1>6. ASSUME NEW s, UNCHANGED <<group, invite, admins>>, seen' = s, s \in Statuses,
             DOMAIN hist' = HistFields, NEW step, NEW l, Goto(p, step, l),
             step # "idle" => LocalAt(step, l)
      PROVE  TypeInv'
  <2>1. GroupTypes' /\ CacheTypes' /\ valid' = valid
    BY <1>1, <1>6 DEF GroupTypes, CacheTypes, group
  <2> QED
    BY <1>6, <2>1, TypeMoved
<1>7. ASSUME NEW s \in Statuses, StatusBecomes(s), UNCHANGED <<bot, valid, caches>>,
             DOMAIN hist' = HistFields, NEW step, NEW l, Goto(p, step, l),
             step # "idle" => LocalAt(step, l)
      PROVE  TypeInv'
  <2>1. GroupTypes' /\ valid' = valid
    BY <1>1, <1>7, StatusTypes
  <2>2. CacheTypes'
    BY <1>1, <1>7 DEF CacheTypes, caches
  <2> QED
    BY <1>7, <2>1, <2>2, TypeMoved
<1>8. CASE CheckUserStats(p)
  <2>1. CASE Then(p, "ask")
    BY <1>1, <1>2, <1>3, <1>8, <2>1 DEF CheckUserStats, Then
  <2>2. CASE Route(p, seen)
    BY <1>1, <1>2, <1>5, <1>8, <2>2 DEF CheckUserStats
  <2> QED
    BY <1>8, <2>1, <2>2 DEF CheckUserStats
<1>9. CASE GetChatMember(p)
  <2>1. seen' \in Statuses /\ DOMAIN hist' = HistFields
    BY <1>1, <1>9, HistTypes DEF GetChatMember, GroupTypes, Statuses
  <2> QED
    BY <1>5, <1>6, <1>9, <2>1 DEF GetChatMember
<1>10. CASE MayUnban(p)
  <2>1. CASE Goto(p, "unban", [loc[p] EXCEPT !.list = None])
    BY <1>1, <1>2, <1>4, <1>10, <2>1 DEF MayUnban
  <2>2. CASE GiveUp(p)
    BY <1>1, <1>2, <1>10, <2>2 DEF MayUnban, GiveUp, Return, Then
  <2> QED
    BY <1>10, <2>1, <2>2 DEF MayUnban
<1>11. CASE EditBanned(p)
  <2> DEFINE s == IF status # loc[p].old THEN status
                  ELSE IF status = "kicked" THEN "left" ELSE "member"
  <2>1. s \in Statuses
    BY <1>1 DEF GroupTypes, Statuses
  <2>2. CASE /\ StatusBecomes(s)
             /\ Goto(p, IF loc[p].old = "kicked" THEN "link" ELSE "in", Locals("play"))
    <3>1. DOMAIN hist' = HistFields
      BY <1>1, <2>2, HistTypes
    <3>2. UNCHANGED <<bot, valid, caches>>
      BY <1>11 DEF EditBanned
    <3> HIDE DEF s
    <3> QED
      BY <1>1, <1>7, <2>1, <2>2, <3>1, <3>2
  <2>3. CASE (Answers \/ Fails) /\ GiveUp(p) /\ UNCHANGED <<status, updates>>
    <3>1. DOMAIN hist' = HistFields
      BY <1>1, <2>3, HistTypes
    <3>2. UNCHANGED <<group, caches>>
      BY <1>11, <2>3 DEF EditBanned, group
    <3> QED
      BY <1>2, <2>3, <3>1, <3>2 DEF GiveUp, Return, Then
  <2> QED
    BY <1>11, <2>2, <2>3 DEF EditBanned
<1>12. CASE InviteLink(p)
  <2>1. DOMAIN hist' = HistFields /\ UNCHANGED <<group, seen, admins>>
    BY <1>1, <1>12, HistTypes DEF InviteLink
  <2>2. ASSUME NEW x \in Nat, x <= valid, x # NoLink, invite' \in {invite, x},
               Goto(p, "join", [loc[p] EXCEPT !.link = x])
        PROVE  TypeInv'
    <3>1. GroupTypes' /\ CacheTypes' /\ valid' = valid
      BY <1>1, <2>1, <2>2 DEF GroupTypes, CacheTypes, group
    <3> QED
      BY <1>4, <2>1, <2>2, <3>1, TypeMoved
  <2>3. CASE invite \notin {None, NoLink} /\ UNCHANGED invite
             /\ Goto(p, "join", [loc[p] EXCEPT !.link = invite])
    BY <1>1, <2>2, <2>3 DEF CacheTypes
  <2>4. CASE invite' = valid /\ Goto(p, "join", [loc[p] EXCEPT !.link = valid])
    BY <1>1, <2>2, <2>4 DEF GroupTypes, NoLink
  <2>5. CASE GiveUp(p) /\ UNCHANGED invite
    BY <1>1, <1>2, <2>1, <2>5 DEF GiveUp, Return, Then, caches
  <2> QED
    BY <1>12, <2>3, <2>4, <2>5 DEF InviteLink
<1>13. CASE Joins(p)
  <2>1. /\ StatusBecomes("member") /\ DOMAIN hist' = HistFields /\ "member" \in Statuses
        /\ UNCHANGED <<bot, valid, caches>> /\ Goto(p, "joined", Locals("play"))
    BY <1>1, <1>13, HistTypes DEF Joins, Statuses
  <2> QED
    BY <1>1, <1>7, <2>1
<1>14. CASE AlreadyParticipant(p)
  BY <1>1, <1>6, <1>14 DEF AlreadyParticipant, Statuses
<1>15. CASE HashExpired(p) \/ PlayCall(p) \/ JoinFails(p) \/ RequestSent(p)
  <2>1. UNCHANGED <<group, caches>> /\ DOMAIN hist' = HistFields
    BY <1>1, <1>15, HistTypes DEF HashExpired, PlayCall, JoinFails, RequestSent
  <2>2. Goto(p, "idle", loc[p]) \/ Goto(p, "approve", Locals("play"))
    BY <1>15 DEF HashExpired, PlayCall, JoinFails, RequestSent, GiveUp, Return, Then
  <2> QED
    BY <1>1, <1>2, <2>1, <2>2
<1>16. CASE ChannelPrivate(p)
  <2>1. GroupTypes' /\ CacheTypes' /\ valid' = valid
    BY <1>1, <1>16 DEF ChannelPrivate, GroupTypes, CacheTypes, group, Statuses, NoLink
  <2> QED
    BY <1>1, <1>16, <2>1, TypeMoved DEF ChannelPrivate, GiveUp, Return, Then
<1>17. CASE Approve(p)
  <2>1. CASE /\ StatusBecomes("member")
             /\ Goto(p, "in", Locals("play")) /\ UNCHANGED <<seen, queued, faults>>
    <3>1. DOMAIN hist' = HistFields /\ "member" \in Statuses /\ UNCHANGED <<bot, valid, caches>>
      BY <1>1, <1>17, <2>1, HistTypes DEF Approve, Statuses, caches
    <3> QED
      BY <1>1, <1>7, <2>1, <3>1
  <2>2. CASE /\ seen' = "member" /\ UNCHANGED <<status, updates, queued>>
             /\ IF status = "left" THEN Fails ELSE Answers
             /\ Goto(p, "in", Locals("play"))
    <3>1. DOMAIN hist' = HistFields /\ "member" \in Statuses
          /\ UNCHANGED <<group, invite, admins>>
      BY <1>1, <1>17, <2>2, HistTypes DEF Approve, Statuses, group
    <3> QED
      BY <1>1, <1>6, <2>2, <3>1
  <2>3. CASE /\ IF bot = "full" THEN Fails ELSE Answers
             /\ GiveUp(p) /\ UNCHANGED <<status, updates, seen>>
    <3>1. DOMAIN hist' = HistFields /\ UNCHANGED <<group, caches>>
      BY <1>1, <1>17, <2>3, HistTypes DEF Approve, group, caches
    <3> QED
      BY <1>2, <2>3, <3>1 DEF GiveUp, Return, Then
  <2> QED
    BY <1>17, <2>1, <2>2, <2>3 DEF Approve
<1>18. CASE GetAdmins(p)
  <2>1. CASE Then(p, "fetch")
    BY <1>1, <1>2, <1>3, <1>18, <2>1 DEF GetAdmins, Then
  <2>2. CASE admins # None /\ Goto(p, "listed", [loc[p] EXCEPT !.list = admins])
    BY <1>1, <1>2, <1>4, <1>18, <2>2 DEF GetAdmins, CacheTypes
  <2> QED
    BY <1>18, <2>1, <2>2 DEF GetAdmins
<1>19. CASE FetchAdmins(p)
  <2>1. UNCHANGED <<group, caches>> /\ DOMAIN hist' = HistFields
    BY <1>1, <1>19, HistTypes DEF FetchAdmins
  <2>2. \/ bot # "out" /\ Goto(p, "store", [loc[p] EXCEPT !.list = bot])
        \/ Goto(p, "store", [loc[p] EXCEPT !.list = "failed"])
        \/ Goto(p, "idle", loc[p])
    BY <1>19 DEF FetchAdmins, Return, Then
  <2> QED
    BY <1>1, <1>2, <1>4, <2>1, <2>2 DEF GroupTypes
<1>20. CASE StoreAdmins(p)
  <2>1. loc[p].list \in (Roles \ {"out"}) \cup {"failed"} /\ LocalAt("listed", loc[p])
    BY <1>1, <1>20 DEF StoreAdmins, At, LocalAt
  <2>2. GroupTypes' /\ CacheTypes' /\ valid' = valid
    BY <1>1, <1>20, <2>1 DEF StoreAdmins, GroupTypes, CacheTypes, group
  <2> QED
    BY <1>1, <1>20, <2>1, <2>2, TypeMoved DEF StoreAdmins, Then
<1>21. CASE Listed(p)
  BY <1>1, <1>2, <1>21 DEF Listed, Return, Then
<1>22. CASE ClearForReload(p)
  <2>1. GroupTypes' /\ CacheTypes' /\ valid' = valid
    BY <1>1, <1>22 DEF ClearForReload, GroupTypes, CacheTypes, group, NoLink
  <2> QED
    BY <1>1, <1>3, <1>22, <2>1, TypeMoved DEF ClearForReload, Then
<1>23. CASE HandleJoin(p) \/ HandleLeave(p) \/ OtherChange(p)
  <2>1. /\ UNCHANGED <<group, invite, admins>> /\ Goto(p, "idle", loc[p])
        /\ seen' \in Statuses \/ seen' = seen
    BY <1>23 DEF HandleJoin, HandleLeave, OtherChange, Change, Return, Then, Statuses
  <2>2. DOMAIN hist' = HistFields
    BY <1>1, <1>23, HistTypes DEF HandleJoin, HandleLeave, OtherChange
  <2>3. CASE seen' \in Statuses
    BY <1>6, <2>1, <2>2, <2>3
  <2>4. CASE seen' = seen
    BY <1>2, <2>1, <2>2, <2>4 DEF caches
  <2> QED
    BY <2>1, <2>3, <2>4
<1>24. CASE HandleBotAdminChange(p)
  <2>1. /\ Goto(p, "list", Locals("promoted")) \/ Goto(p, "idle", loc[p])
        /\ admins' = admins \/ admins' = None
        /\ UNCHANGED <<group, seen, invite, hist>>
    BY <1>24 DEF HandleBotAdminChange, RoleChange, Return, Then
  <2>2. GroupTypes' /\ CacheTypes' /\ valid' = valid
    BY <1>1, <2>1 DEF GroupTypes, CacheTypes, group
  <2> QED
    BY <1>1, <2>1, <2>2, TypeMoved
<1>25. CASE BotJoins(p) \/ BotLeaves(p)
  BY <1>1, <1>2, <1>25 DEF BotJoins, BotLeaves, Return, Then
<1> QED
  BY <1>8, <1>9, <1>10, <1>11, <1>12, <1>13, <1>14, <1>15, <1>16, <1>17, <1>18, <1>19, <1>20,
     <1>21, <1>22, <1>23, <1>24, <1>25 DEF Continue

\* The types hold at the start, and every step keeps them.
LEMMA TypesKept ==
    /\ Init => TypeInv
    /\ TypeInv /\ [Next]_vars => TypeInv'
<1>1. ASSUME Init PROVE TypeInv
  <2>1. GroupTypes /\ CacheTypes /\ DOMAIN hist = HistFields
    BY <1>1 DEF Init, GroupTypes, CacheTypes, HistFields, Statuses, Roles
  <2>2. LocalAt("idle", NoLocals)
    BY <1>1 DEF Init, LocalAt, NoLocals, NoLink, LocalFields
  <2> QED
    BY <1>1, <2>1, <2>2 DEF Init, TypeInv
<1>2. ASSUME TypeInv, [Next]_vars PROVE TypeInv'
  <2>1. CASE UNCHANGED vars
    BY <1>2, <2>1 DEF vars, TypeInv, GroupTypes, CacheTypes, LocalAt, group, caches
  <2>2. ASSUME NEW p \in Commands, Play(p) \/ Command(p) \/ Reload(p) \/ LeaveAll(p)
        PROVE  TypeInv'
    BY <1>2, <2>2, StartTypes DEF Procs
  <2> QED
    BY <1>2, <2>1, <2>2, WorldTypes, StartTypes, ContinueTypes DEF Next
<1> QED
  BY <1>1, <1>2

\* The caches hold what their writers put there; a goroutine that joins has a link the
\* group once had, and one that looks through the administrators has a list.
THEOREM MemberTypes == Spec => []TypeOK
<1>1. ASSUME TypeInv PROVE TypeOK
  BY <1>1 DEF TypeInv, TypeOK, GroupTypes, CacheTypes, LocalAt, At, NoLink
<1> QED
  BY <1>1, TypesKept, PTL DEF Spec

-----------------------------------------------------------------------------
(* What the history and the updates tell *)

\* A step that leaves the history smooth and complete.
LEMMA HistTells ==
    ASSUME DOMAIN hist = HistFields
    PROVE  /\ Fails => ~ Smooth'
           /\ Refused => Answers \/ ~ Smooth'
           /\ (hist' = hist \/ Answers) => (Smooth' => Smooth) /\ (Heard' => Heard) /\ (Kept' => Kept)
           /\ \A s : StatusBecomes(s) => (Smooth' => Smooth) /\ (Heard' => Heard) /\ (Kept' => Kept)
<1>1. Fails => ~ Smooth'
  BY DEF Fails, Smooth, HistFields
<1>2. (hist' = hist \/ Answers) => (Smooth' => Smooth) /\ (Heard' => Heard) /\ (Kept' => Kept)
  BY DEF Answers, Smooth, Heard, Kept
<1>3. ASSUME NEW s, StatusBecomes(s)
      PROVE  (Smooth' => Smooth) /\ (Heard' => Heard) /\ (Kept' => Kept)
  <2>1. /\ hist'.overlap = hist.overlap /\ hist'.failed = hist.failed /\ hist'.moved = hist.moved
        /\ hist.missed => hist'.missed
        /\ hist.restricted => hist'.restricted
    BY <1>3 DEF StatusBecomes, HistFields
  <2> QED
    BY <2>1 DEF Smooth, Heard, Kept
<1> QED
  BY <1>1, <1>2, <1>3 DEF Refused

\* A goroutine goes on: what is noted stays noted.
LEMMA ContinueHist ==
    ASSUME TypeInv, NEW p \in Procs, Continue(p)
    PROVE  (Smooth' => Smooth) /\ (Heard' => Heard) /\ (Kept' => Kept)
<1>1. DOMAIN hist = HistFields
  BY DEF TypeInv
<1>2. Fails \/ Refused => (Heard' => Heard) /\ (Smooth' => Smooth) /\ (Kept' => Kept)
  BY <1>1, HistTells DEF Refused, Fails, Heard, Kept, HistFields
<1>3. CASE EditBanned(p) \/ Joins(p) \/ Approve(p)
  BY <1>1, <1>2, <1>3, HistTells DEF EditBanned, Joins, Approve
<1>4. CASE GetChatMember(p) \/ InviteLink(p) \/ JoinFails(p) \/ FetchAdmins(p)
  BY <1>1, <1>2, <1>4, HistTells DEF GetChatMember, InviteLink, JoinFails, FetchAdmins
<1>5. CASE hist' = hist
  BY <1>1, <1>5, HistTells
<1> QED
  BY <1>3, <1>4, <1>5
     DEF Continue, CheckUserStats, MayUnban, AlreadyParticipant, HashExpired, ChannelPrivate,
         RequestSent, PlayCall, GetAdmins, StoreAdmins, Listed, ClearForReload, HandleJoin,
         HandleLeave, OtherChange, BotJoins, BotLeaves, HandleBotAdminChange

\* One update more.
LEMMA AppendTells ==
    ASSUME NEW R, NEW us \in Seq(R), NEW u \in R, NEW s
    PROVE  /\ Silent(Append(us, u)) => Silent(us) /\ u.who # "assistant"
           /\ u.who = "assistant" /\ (u.new = "member" <=> s = "member")
                 => LastTells(Append(us, u), s)
           /\ u.who # "assistant" /\ LastTells(us, s) => LastTells(Append(us, u), s)
           /\ Settles(Append(us, u)) =>
                 Settles(us) /\ (u.who = "bot" => ~ Shifts(u.old, u.new))
<1>1. /\ Len(Append(us, u)) = Len(us) + 1 /\ Len(us) \in Nat
      /\ Append(us, u)[Len(us) + 1] = u
      /\ \A i \in 1 .. Len(us) : Append(us, u)[i] = us[i]
  OBVIOUS
<1> DEFINE v == Append(us, u)
<1> HIDE DEF v
<1>2. Silent(v) => Silent(us) /\ u.who # "assistant"
  BY <1>1 DEF Silent, v
<1>3. u.who = "assistant" /\ (u.new = "member" <=> s = "member") => LastTells(v, s)
  BY <1>1 DEF LastTells, v
<1>4. u.who # "assistant" /\ LastTells(us, s) => LastTells(v, s)
  BY <1>1 DEF LastTells, v
<1>5. Settles(v) => Settles(us) /\ (u.who = "bot" => ~ Shifts(u.old, u.new))
  BY <1>1 DEF Settles, v
<1> QED
  BY <1>2, <1>3, <1>4, <1>5 DEF v

\* One update less.
LEMMA TailTells ==
    ASSUME NEW R, NEW us \in Seq(R), us # <<>>, NEW s
    PROVE  /\ Silent(us) => Silent(Tail(us)) /\ Head(us).who # "assistant"
           /\ Silent(Tail(us)) /\ Head(us).who # "assistant" => Silent(us)
           /\ LastTells(us, s) => LastTells(Tail(us), s)
           /\ LastTells(us, s) /\ Silent(Tail(us)) /\ Head(us).who = "assistant"
                 => (Head(us).new = "member" <=> s = "member")
           /\ Settles(Tail(us)) /\ (Head(us).who = "bot" => ~ Shifts(Head(us).old, Head(us).new))
                 => Settles(us)
<1>1. /\ Len(us) \in Nat /\ Len(us) >= 1 /\ Len(Tail(us)) = Len(us) - 1 /\ Head(us) = us[1]
      /\ \A i \in 1 .. Len(us) - 1 : Tail(us)[i] = us[i + 1]
  OBVIOUS
<1> DEFINE v == Tail(us)
<1> HIDE DEF v
<1>2. \A i \in 2 .. Len(us) : i - 1 \in 1 .. Len(v) /\ us[i] = v[i - 1]
  BY <1>1 DEF v
<1>3. Silent(us) => Silent(v) /\ Head(us).who # "assistant"
  BY <1>1 DEF Silent, v
<1>4. Silent(v) /\ Head(us).who # "assistant" => Silent(us)
  <2>1. ASSUME Silent(v), us[1].who # "assistant", NEW i \in 1 .. Len(us)
        PROVE  us[i].who # "assistant"
    <3>1. CASE i = 1
      BY <2>1, <3>1
    <3>2. CASE i # 1
      BY <1>1, <1>2, <2>1, <3>2 DEF Silent
    <3> QED
      BY <3>1, <3>2
  <2> QED
    BY <1>1, <2>1 DEF Silent
<1>5. LastTells(us, s) => LastTells(v, s)
  <2>1. ASSUME LastTells(us, s), NEW i \in 1 .. Len(v), v[i].who = "assistant",
               \A j \in 1 .. Len(v) : j > i => v[j].who # "assistant"
        PROVE  v[i].new = "member" <=> s = "member"
    <3>1. i + 1 \in 1 .. Len(us) /\ us[i + 1] = v[i]
      BY <1>1 DEF v
    <3>2. ASSUME NEW j \in 1 .. Len(us), j > i + 1
          PROVE  us[j].who # "assistant"
      BY <1>1, <1>2, <2>1, <3>2
    <3> QED
      BY <2>1, <3>1, <3>2 DEF LastTells
  <2> QED
    BY <2>1 DEF LastTells
<1>6. LastTells(us, s) /\ Silent(v) /\ Head(us).who = "assistant"
         => (Head(us).new = "member" <=> s = "member")
  <2>1. ASSUME Silent(v), NEW j \in 1 .. Len(us), j > 1
        PROVE  us[j].who # "assistant"
    BY <1>1, <1>2, <2>1 DEF Silent
  <2> QED
    BY <1>1, <2>1 DEF LastTells
<1>7. Settles(v) /\ (Head(us).who = "bot" => ~ Shifts(Head(us).old, Head(us).new)) => Settles(us)
  <2>1. ASSUME Settles(v), us[1].who = "bot" => ~ Shifts(us[1].old, us[1].new),
               NEW i \in 1 .. Len(us), us[i].who = "bot"
        PROVE  ~ Shifts(us[i].old, us[i].new)
    <3>1. CASE i = 1
      BY <2>1, <3>1
    <3>2. CASE i # 1
      BY <1>1, <1>2, <2>1, <3>2 DEF Settles
    <3> QED
      BY <3>1, <3>2
  <2> QED
    BY <1>1, <2>1 DEF Settles
<1> QED
  BY <1>3, <1>4, <1>5, <1>6, <1>7 DEF v

\* Where a goroutine is after a step, and where the others stay.
LEMMA Went ==
    ASSUME TypeInv, NEW p \in Procs, NEW step, NEW l, Goto(p, step, l)
    PROVE  /\ pc'[p] = step /\ loc'[p] = IF step = "idle" THEN NoLocals ELSE l
           /\ \A q \in Procs \ {p} : pc'[q] = pc[q] /\ loc'[q] = loc[q]
BY DEF Goto, TypeInv

-----------------------------------------------------------------------------
(* The assistant's absence *)

\* The part of Absent about the group.
GroupTells(us, s) ==
    /\ s # "restricted" /\ LastTells(us, s)
    /\ \A i \in 1 .. Len(us) : us[i].who = "assistant" => Tells(us[i].old, us[i].new)

\* What a step of the only goroutine under way needs to keep it.
LEMMA AbsentMoved ==
    ASSUME TypeInv, NEW p \in Procs, \A q \in Procs \ {p} : pc[q] = "idle",
           NEW step, NEW l, Goto(p, step, l),
           GroupTells(updates', status'), step = "route" => Tells(l.old, l.new),
           Silent(updates') => /\ Knows(status', step, l)
                               /\ step # "route" => (seen' = "member" => status' = "member")
    PROVE  Absent'
<1>1. /\ pc'[p] = step /\ (step # "idle" => loc'[p] = l)
      /\ \A q \in Procs \ {p} : pc'[q] = "idle"
  BY Went
<1>2. Serial'
  BY <1>1 DEF Serial
<1>3. \A q \in Procs : pc'[q] = "route" => Tells(loc'[q].old, loc'[q].new)
  BY <1>1
<1>4. Silent(updates') => \A q \in Procs : Knows(status', pc'[q], loc'[q])
  BY <1>1 DEF Knows
<1>5. Silent(updates') => ((\A q \in Procs : pc'[q] # "route") => (seen' = "member" => status' = "member"))
  BY <1>1
<1> QED
  BY <1>2, <1>3, <1>4, <1>5
     DEF Absent, GroupTells, Silent, LastTells, Knows, Tells

\* A change of the group around the goroutines.
LEMMA AbsentAround ==
    ASSUME TypeInv, Absent, UNCHANGED <<pc, loc>>, GroupTells(updates', status'),
           seen' = seen \/ seen' # "member",
           Silent(updates') => Silent(updates) /\ status' = status
    PROVE  Absent'
BY DEF Absent, GroupTells, Serial, Silent, LastTells, Knows, Tells

\* The assistant's status becomes s, and an update tells of it.
LEMMA StatusTells ==
    ASSUME TypeInv, Absent, NEW s \in Statuses, StatusBecomes(s), Heard'
    PROVE  /\ status' = s /\ GroupTells(updates', s)
           /\ (s = status /\ updates' = updates) \/ ~ Silent(updates')
<1>1. status \in {"left", "member", "kicked"} /\ DOMAIN hist = HistFields
      /\ updates \in Seq([who : {"assistant", "bot"}, old : Words, new : Words])
  BY DEF Absent, TypeInv, GroupTypes, Statuses
<1>2. CASE s = status
  BY <1>2 DEF StatusBecomes, Absent, GroupTells
<1>3. CASE s # status
  <2>1. PICK o \in Reported(status), n \in Reported(s) :
           /\ updates' = Append(updates, Update("assistant", o, n))
           /\ o # n /\ "restricted" \notin {o, n}
    BY <1>1, <1>3 DEF StatusBecomes, Heard, HistFields
  <2>2. s # "restricted"
    BY <2>1 DEF Reported
  <2>3. Tells(o, n) /\ (n = "member" <=> s = "member")
    BY <1>1, <2>1, <2>2 DEF Reported, Tells, Statuses
  <2> DEFINE u == Update("assistant", o, n)
  <2>4. /\ u \in [who : {"assistant", "bot"}, old : Words, new : Words]
        /\ u.who = "assistant" /\ u.old = o /\ u.new = n
    BY <1>1 DEF Update, Words, Reported, Statuses
  <2>5. updates' = Append(updates, u)
    BY <2>1
  <2> HIDE DEF u
  <2>6. LastTells(updates', s) /\ ~ Silent(updates')
    <3> DEFINE R == [who : {"assistant", "bot"}, old : Words, new : Words]
    <3>1. updates \in Seq(R) /\ u \in R /\ u.who = "assistant"
      BY <1>1, <2>4
    <3>2. u.new = "member" <=> s = "member"
      BY <2>3, <2>4
    <3> HIDE DEF R
    <3>3. Silent(Append(updates, u)) => u.who # "assistant"
      BY <3>1, AppendTells
    <3>4. LastTells(Append(updates, u), s)
      BY <3>1, <3>2, AppendTells
    <3> QED
      BY <2>5, <3>1, <3>3, <3>4
  <2>7. \A i \in 1 .. Len(updates') :
           updates'[i].who = "assistant" => Tells(updates'[i].old, updates'[i].new)
    BY <1>1, <2>3, <2>4, <2>5 DEF Absent
  <2> QED
    BY <2>2, <2>6, <2>7 DEF GroupTells, StatusBecomes
<1> QED
  BY <1>2, <1>3

\* The group changes, entries grow old, or the assistant leaves its idle groups.
LEMMA AbsentWorld ==
    ASSUME TypeInv, Smooth /\ Heard => Absent, Smooth', Heard',
           \/ AssistantChanges \/ BotChanges \/ LinkRevoked
           \/ ExpireStatus \/ ExpireInvite \/ ExpireAdmins \/ \E p \in Procs : LeaveAll(p)
    PROVE  Absent'
<1>1. DOMAIN hist = HistFields /\ updates \in Seq([who : {"assistant", "bot"}, old : Words, new : Words])
  BY DEF TypeInv, GroupTypes
<1>2. ASSUME NEW s \in Statuses, StatusBecomes(s), UNCHANGED <<pc, loc, seen>>
      PROVE  Absent'
  <2>1. Absent
    BY <1>1, <1>2, HistTells
  <2> QED
    BY <1>2, <2>1, StatusTells, AbsentAround
\* The assistant and the updates stay as they are.
<1>3. ASSUME UNCHANGED <<status, updates, pc, loc, hist>>, seen' = seen \/ seen' = None
      PROVE  Absent'
  <2>1. Absent
    BY <1>1, <1>3, HistTells
  <2> QED
    BY <1>3, <2>1, AbsentAround, MembershipAssumption DEF Absent, GroupTells
<1>4. CASE AssistantChanges
  BY <1>2, <1>4 DEF AssistantChanges, caches
<1>5. CASE BotChanges
  <2>1. PICK r \in Roles, o \in RoleReported(bot) : \E n \in RoleReported(r) :
           /\ bot' = r /\ updates' = Append(updates, Update("bot", o, n))
           /\ hist' = [hist EXCEPT !.moved = @ \/ {o, n} = {"admin", "left"}]
    BY <1>5 DEF BotChanges
  <2>2. PICK n \in RoleReported(r) :
           /\ updates' = Append(updates, Update("bot", o, n))
           /\ hist' = [hist EXCEPT !.moved = @ \/ {o, n} = {"admin", "left"}]
    BY <2>1
  <2> DEFINE u == Update("bot", o, n)
  <2>3. /\ u \in [who : {"assistant", "bot"}, old : Words, new : Words] /\ u.who = "bot"
        /\ updates' = Append(updates, u)
    BY <2>2 DEF Update, Words, Statuses, RoleReported
  <2> HIDE DEF u
  <2>4. Absent
    <3>1. /\ hist'.overlap = hist.overlap /\ hist'.failed = hist.failed
          /\ hist'.missed = hist.missed /\ hist'.restricted = hist.restricted
      BY <1>1, <2>2 DEF HistFields
    <3> QED
      BY <3>1 DEF Smooth, Heard
  <2>5. /\ Silent(Append(updates, u)) => Silent(updates)
        /\ LastTells(Append(updates, u), status)
    BY <1>1, <2>3, <2>4, AppendTells DEF Absent
  <2>6. \A i \in 1 .. Len(updates') :
           updates'[i].who = "assistant" => Tells(updates'[i].old, updates'[i].new)
    BY <1>1, <2>3, <2>4 DEF Absent
  <2>7. GroupTells(updates', status') /\ status' = status /\ seen' = seen /\ UNCHANGED <<pc, loc>>
    BY <1>5, <2>3, <2>4, <2>5, <2>6 DEF BotChanges, GroupTells, Absent, caches
  <2> QED
    BY <2>3, <2>4, <2>5, <2>7, AbsentAround
<1>6. CASE LinkRevoked \/ ExpireInvite \/ ExpireAdmins \/ ExpireStatus
  BY <1>3, <1>6 DEF LinkRevoked, ExpireInvite, ExpireAdmins, ExpireStatus, group, caches
<1>7. ASSUME NEW p \in Procs, LeaveAll(p) PROVE Absent'
  <2>1. CASE StatusBecomes("left")
    BY <1>2, <1>7, <2>1 DEF LeaveAll, caches, Statuses
  <2>2. CASE UNCHANGED <<status, updates, hist>>
    BY <1>3, <1>7, <2>2 DEF LeaveAll, caches
  <2> QED
    BY <1>7, <2>1, <2>2 DEF LeaveAll
<1> QED
  BY <1>4, <1>5, <1>6, <1>7

\* A goroutine starts while no other is under way.
LEMMA Alone ==
    ASSUME TypeInv, Smooth',
           hist' = [hist EXCEPT !.overlap = @ \/ \E q \in Procs : ~ Idle(q)]
    PROVE  /\ \A q \in Procs : pc[q] = "idle"
           /\ Smooth /\ (Heard' => Heard) /\ (Kept' => Kept)
<1>1. /\ hist'.overlap = (hist.overlap \/ \E q \in Procs : ~ Idle(q))
      /\ hist'.failed = hist.failed /\ hist'.missed = hist.missed
      /\ hist'.restricted = hist.restricted /\ hist'.moved = hist.moved
  BY DEF TypeInv, HistFields
<1> QED
  BY <1>1 DEF Smooth, Heard, Kept, Idle, At

\* Commands and updates start.
LEMMA AbsentStarts ==
    ASSUME TypeInv, Smooth /\ Heard => Absent, Smooth', Heard', NEW p \in Procs,
           Play(p) \/ Command(p) \/ Reload(p) \/ ReceiveUpdate(p)
    PROVE  Absent'
<1>1. /\ \A q \in Procs : pc[q] = "idle"
      /\ Absent
  <2>1. hist' = [hist EXCEPT !.overlap = @ \/ \E q \in Procs : ~ Idle(q)]
    BY DEF Play, Command, Reload, ReceiveUpdate, Start
  <2> QED
    BY <2>1, Alone
<1>2. ASSUME NEW step \in {"check", "list", "clear"}, NEW l, Start(p, step, l)
      PROVE  Absent'
  <2>1. Goto(p, step, l) /\ UNCHANGED <<status, updates, seen>>
    BY <1>2 DEF Start, group, caches
  <2>2. Silent(updates) => (seen = "member" => status = "member")
    BY <1>1 DEF Absent
  <2> QED
    BY <1>1, <2>1, <2>2, AbsentMoved DEF Absent, GroupTells, Knows
<1>3. CASE ReceiveUpdate(p)
  <2> DEFINE u == Head(updates)
             step == IF u.who = "bot" THEN "botrole" ELSE "route"
             l == [Locals("update") EXCEPT !.old = u.old, !.new = u.new]
  <2>1. /\ Goto(p, step, l) /\ updates' = Tail(updates) /\ updates # <<>>
        /\ UNCHANGED <<status, seen>>
    BY <1>3 DEF ReceiveUpdate, caches
  <2>2. l.old = u.old /\ l.new = u.new
    BY DEF Locals, NoLocals
  <2> HIDE DEF l
  <2>3. /\ updates \in Seq([who : {"assistant", "bot"}, old : Words, new : Words])
        /\ u = updates[1] /\ 1 \in 1 .. Len(updates) /\ u.who \in {"assistant", "bot"}
    <3> DEFINE R == [who : {"assistant", "bot"}, old : Words, new : Words]
    <3>1. updates \in Seq(R) /\ \A x \in R : x.who \in {"assistant", "bot"}
      BY DEF TypeInv, GroupTypes
    <3> HIDE DEF R
    <3>2. u = updates[1] /\ 1 \in 1 .. Len(updates) /\ updates[1] \in R
      BY <2>1, <3>1
    <3> QED
      BY <3>1, <3>2 DEF R
  <2>4. /\ LastTells(Tail(updates), status)
        /\ Silent(Tail(updates)) /\ u.who # "assistant" => Silent(updates)
        /\ Silent(Tail(updates)) /\ u.who = "assistant" => (u.new = "member" <=> status = "member")
    BY <1>1, <2>1, <2>3, TailTells DEF Absent
  <2>5. \A i \in 1 .. Len(Tail(updates)) :
           Tail(updates)[i].who = "assistant" => Tells(Tail(updates)[i].old, Tail(updates)[i].new)
    BY <1>1, <2>1, <2>3 DEF Absent
  <2>6. GroupTells(updates', status')
    BY <1>1, <2>1, <2>4, <2>5 DEF GroupTells, Absent
  <2>7. step = "route" => Tells(l.old, l.new)
    BY <1>1, <2>2, <2>3 DEF Absent
  <2>8. Silent(updates) => (seen = "member" => status = "member")
    BY <1>1 DEF Absent
  <2>9. Silent(updates') => /\ Knows(status', step, l)
                            /\ step # "route" => (seen' = "member" => status' = "member")
    BY <2>1, <2>2, <2>3, <2>4, <2>8 DEF Knows
  <2> HIDE DEF u, step
  <2> QED
    BY <1>1, <2>1, <2>6, <2>7, <2>9, AbsentMoved
<1> QED
  BY <1>2, <1>3 DEF Play, Command, Reload

\* A goroutine goes on.
LEMMA AbsentContinues ==
    ASSUME TypeInv, Smooth /\ Heard => Absent, Smooth', Heard', NEW p \in Procs, Continue(p)
    PROVE  Absent'
<1>1. Absent /\ ~ Fails /\ (Refused => Answers)
  BY ContinueHist, HistTells DEF TypeInv
<1>2. /\ GroupTells(updates, status) /\ pc[p] # "idle"
      /\ \A q \in Procs \ {p} : pc[q] = "idle"
      /\ Silent(updates) => Knows(status, pc[p], loc[p])
      /\ Silent(updates) /\ pc[p] # "route" => (seen = "member" => status = "member")
  <2>1. pc[p] # "idle"
    BY DEF Continue, CheckUserStats, GetChatMember, MayUnban, EditBanned, InviteLink, Joins,
           AlreadyParticipant, HashExpired, ChannelPrivate, JoinFails, RequestSent, Approve,
           PlayCall, GetAdmins, FetchAdmins, StoreAdmins, Listed, ClearForReload, HandleJoin,
           HandleLeave, OtherChange, BotJoins, BotLeaves, HandleBotAdminChange, RoleChange,
           Change, At
  <2> QED
    BY <1>1, <2>1 DEF Absent, GroupTells, Serial
<1> USE DEF At
\* It only moves, and sees the assistant in the group only if it is there.
<1>3. ASSUME NEW step, NEW l, step \notin {"joined", "approve", "route"}, Goto(p, step, l),
             UNCHANGED <<status, updates>>,
             \/ seen' = seen /\ pc[p] # "route"
             \/ Silent(updates) => (seen' = "member" => status = "member")
      PROVE  Absent'
  BY <1>2, <1>3, AbsentMoved DEF Knows
\* It changes the status of the assistant.
<1>4. ASSUME NEW s \in Statuses, StatusBecomes(s), seen' = seen,
             NEW step, NEW l, Goto(p, step, l), step # "route", pc[p] # "route",
             step \notin {"joined", "approve"} \/ s # status
      PROVE  Absent'
  <2>1. /\ status' = s /\ GroupTells(updates', s)
        /\ (s = status /\ updates' = updates) \/ ~ Silent(updates')
    BY <1>1, <1>4, StatusTells
  <2> QED
    BY <1>2, <1>4, <2>1, AbsentMoved DEF Knows
<1>5. CASE CheckUserStats(p)
  BY <1>3, <1>5 DEF CheckUserStats, Route, Then, group, caches
<1>6. CASE GetChatMember(p)
  BY <1>1, <1>3, <1>6 DEF GetChatMember, Route, Then, group
<1>7. CASE MayUnban(p) \/ HashExpired(p) \/ PlayCall(p)
  BY <1>3, <1>7 DEF MayUnban, HashExpired, PlayCall, GiveUp, Return, Then, group, caches
<1>8. CASE EditBanned(p)
  <2> DEFINE s == IF status # loc[p].old THEN status
                  ELSE IF status = "kicked" THEN "left" ELSE "member"
  <2>1. s \in Statuses
    BY DEF TypeInv, GroupTypes, Statuses
  <2>2. CASE /\ StatusBecomes(s)
             /\ Goto(p, IF loc[p].old = "kicked" THEN "link" ELSE "in", Locals("play"))
    <3>1. seen' = seen /\ pc[p] = "unban"
      BY <1>8 DEF EditBanned, caches
    <3> HIDE DEF s
    <3> QED
      BY <1>4, <2>1, <2>2, <3>1
  <2>3. CASE GiveUp(p) /\ UNCHANGED <<status, updates>>
    BY <1>3, <1>8, <2>3 DEF EditBanned, GiveUp, Return, Then, caches
  <2> QED
    BY <1>8, <2>2, <2>3 DEF EditBanned
<1>9. CASE InviteLink(p)
  BY <1>3, <1>9 DEF InviteLink, GiveUp, Return, Then, group
<1>10. CASE Joins(p)
  BY <1>4, <1>10 DEF Joins, caches, Statuses
<1>11. CASE AlreadyParticipant(p)
  <2>1. Silent(updates) => status = "member"
    BY <1>2, <1>11 DEF AlreadyParticipant, Knows, GroupTells
  <2> QED
    BY <1>3, <1>11, <2>1 DEF AlreadyParticipant, group
<1>12. CASE ChannelPrivate(p)
  BY <1>3, <1>12 DEF ChannelPrivate, GiveUp, Return, Then, group
<1>13. CASE RequestSent(p)
  <2>1. /\ Goto(p, "approve", Locals("play")) /\ UNCHANGED <<status, updates, seen>>
        /\ status = "left" /\ pc[p] = "join"
    BY <1>13 DEF RequestSent, group, caches
  <2> QED
    BY <1>2, <2>1, AbsentMoved DEF Knows
<1>14. CASE Approve(p)
  <2>1. CASE /\ StatusBecomes("member")
             /\ Goto(p, "in", Locals("play")) /\ UNCHANGED <<seen, queued, faults>>
    BY <1>4, <1>14, <2>1 DEF Approve, Statuses
  <2>2. CASE /\ seen' = "member" /\ UNCHANGED <<status, updates, queued>>
             /\ IF status = "left" THEN Fails ELSE Answers
             /\ Goto(p, "in", Locals("play"))
    <3>1. ~ Silent(updates)
      BY <1>1, <1>2, <1>14, <2>2 DEF Approve, Knows
    <3> QED
      BY <1>3, <2>2, <3>1
  <2>3. CASE GiveUp(p) /\ UNCHANGED <<status, updates, seen>>
    BY <1>3, <1>14, <2>3 DEF Approve, GiveUp, Return, Then
  <2> QED
    BY <1>14, <2>1, <2>2, <2>3 DEF Approve
<1>15. CASE GetAdmins(p) \/ FetchAdmins(p) \/ StoreAdmins(p) \/ Listed(p) \/ ClearForReload(p)
  BY <1>3, <1>15 DEF GetAdmins, FetchAdmins, StoreAdmins, Listed, ClearForReload, Return, Then,
                     group, caches
<1>16. ASSUME pc[p] = "route"
       PROVE  Tells(loc[p].old, loc[p].new)
  BY <1>1, <1>16 DEF Absent
<1>17. CASE HandleJoin(p)
  <2>1. loc[p].new = "member" /\ pc[p] = "route"
    BY <1>17 DEF HandleJoin, Change
  <2>2. Silent(updates) => status = "member"
    BY <1>2, <2>1 DEF Knows
  <2> QED
    BY <1>3, <1>17, <2>2 DEF HandleJoin, Change, Return, Then, group
<1>18. CASE HandleLeave(p)
  BY <1>1, <1>3, <1>18 DEF HandleLeave, Change, Return, Then, group
<1>19. ~ OtherChange(p)
  BY <1>16 DEF OtherChange, Change, Tells
<1>20. CASE BotJoins(p) \/ BotLeaves(p) \/ HandleBotAdminChange(p)
  BY <1>3, <1>20 DEF BotJoins, BotLeaves, HandleBotAdminChange, RoleChange, Return, Then, group, caches
<1> QED
  BY <1>1, <1>5, <1>6, <1>7, <1>8, <1>9, <1>10, <1>11, <1>12, <1>13, <1>14, <1>15, <1>17, <1>18,
     <1>19, <1>20 DEF Continue, JoinFails

\* Once the updates are handled, one at a time and with nothing failed or unheard, the
\* assistant is not taken for a member of a group it is not in (statusCache in vc).
THEOREM AbsenceKnown == Spec => []AbsenceSeen
<1>1. ASSUME Init PROVE AbsenceInv
  <2>1. /\ status \in {"left", "member"} /\ updates = <<>> /\ seen = None
        /\ \A q \in Procs : pc[q] = "idle"
    BY <1>1 DEF Init
  <2>2. Len(updates) = 0 /\ seen # "member"
    BY <2>1, MembershipAssumption
  <2>3. Absent
    BY <2>1, <2>2 DEF Absent, Serial, LastTells, Knows
  <2> QED
    BY <1>1, <2>3, TypesKept DEF AbsenceInv
<1>2. ASSUME AbsenceInv, [Next]_vars PROVE AbsenceInv'
  <2>1. TypeInv /\ TypeInv' /\ (Smooth /\ Heard => Absent)
    BY <1>2, TypesKept DEF AbsenceInv
  <2>2. ASSUME Smooth', Heard' PROVE Absent'
    <3>1. CASE UNCHANGED vars
      <4>1. Absent
        BY <2>1, <2>2, <3>1 DEF vars, Smooth, Heard
      <4> QED
        BY <3>1, <4>1 DEF vars, group, caches, Absent, Serial, LastTells, Tells, Silent, Knows
    <3>2. CASE \/ AssistantChanges \/ BotChanges \/ LinkRevoked
               \/ ExpireStatus \/ ExpireInvite \/ ExpireAdmins
      BY <2>1, <2>2, <3>2, AbsentWorld
    <3>3. ASSUME NEW p \in Commands, Play(p) \/ Command(p) \/ Reload(p) \/ LeaveAll(p)
          PROVE  Absent'
      BY <2>1, <2>2, <3>3, AbsentWorld, AbsentStarts DEF Procs
    <3>4. ASSUME NEW p \in Procs, ReceiveUpdate(p) \/ Continue(p)
          PROVE  Absent'
      BY <2>1, <2>2, <3>4, AbsentStarts, AbsentContinues
    <3> QED
      BY <1>2, <3>1, <3>2, <3>3, <3>4 DEF Next
  <2> QED
    BY <2>1, <2>2 DEF AbsenceInv
<1>3. ASSUME AbsenceInv PROVE AbsenceSeen
  <2>1. ASSUME Settled, ~ hist.missed, ~ hist.restricted
        PROVE  seen = "member" => status = "member"
    <3>1. Absent /\ (\A q \in Procs : pc[q] # "route") /\ Len(updates) = 0
      BY <1>3, <2>1 DEF Settled, AbsenceInv, Smooth, Heard, Idle, At
    <3> QED
      BY <3>1 DEF Absent, Silent
  <2> QED
    BY <2>1 DEF AbsenceSeen
<1> QED
  BY <1>1, <1>2, <1>3, PTL DEF Spec
-----------------------------------------------------------------------------
(* The list of administrators *)

\* One update more.
LEMMA AppendRoles ==
    ASSUME NEW R, NEW us \in Seq(R), NEW u \in R, NEW b
    PROVE  /\ u.who # "bot" /\ BotTells(us, b) => BotTells(Append(us, u), b)
           /\ u.who = "bot" /\ (u.new = "admin" <=> b \in Admins) /\ ~ Moves(u.old, u.new)
                 /\ (~ Shifts(u.old, u.new) => LastRole(us, b)) /\ NoMoves(us)
                 => BotTells(Append(us, u), b)
<1>1. /\ Len(Append(us, u)) = Len(us) + 1 /\ Len(us) \in Nat
      /\ Append(us, u)[Len(us) + 1] = u
      /\ \A i \in 1 .. Len(us) : Append(us, u)[i] = us[i]
  OBVIOUS
<1> DEFINE v == Append(us, u)
<1> HIDE DEF v
<1>2. /\ \A i \in 1 .. Len(v) : i = Len(us) + 1 \/ i \in 1 .. Len(us)
      /\ Len(us) + 1 \in 1 .. Len(v) /\ v[Len(us) + 1] = u
      /\ \A i \in 1 .. Len(us) : v[i] = us[i] /\ i \in 1 .. Len(v) /\ i < Len(us) + 1
  BY <1>1 DEF v
<1>3. NoMoves(us) /\ (u.who = "bot" => ~ Moves(u.old, u.new)) => NoMoves(v)
  BY <1>2 DEF NoMoves
<1>4. ASSUME u.who # "bot" \/ ~ Shifts(u.old, u.new), LastRole(us, b),
             u.who = "bot" => (u.new = "admin" <=> b \in Admins)
      PROVE  LastRole(v, b)
  <2>1. ASSUME NEW i \in 1 .. Len(v), v[i].who = "bot",
               \A j \in 1 .. Len(v) : j > i /\ v[j].who = "bot" => ~ Shifts(v[j].old, v[j].new)
        PROVE  v[i].new = "admin" <=> b \in Admins
    BY <1>2, <1>4, <2>1 DEF LastRole
  <2> QED
    BY <2>1 DEF LastRole
<1>5. ASSUME u.who = "bot", Shifts(u.old, u.new), u.new = "admin" <=> b \in Admins
      PROVE  LastRole(v, b)
  <2>1. ASSUME NEW i \in 1 .. Len(v), v[i].who = "bot",
               \A j \in 1 .. Len(v) : j > i /\ v[j].who = "bot" => ~ Shifts(v[j].old, v[j].new)
        PROVE  v[i].new = "admin" <=> b \in Admins
    BY <1>1, <1>2, <1>5, <2>1
  <2> QED
    BY <2>1 DEF LastRole
<1> QED
  BY <1>3, <1>4, <1>5 DEF BotTells, v

\* One update less.
LEMMA TailRoles ==
    ASSUME NEW R, NEW us \in Seq(R), us # <<>>, NEW b, BotTells(us, b)
    PROVE  /\ BotTells(Tail(us), b)
           /\ Head(us).who = "bot" =>
                 /\ ~ Moves(Head(us).old, Head(us).new)
                 /\ Settles(Tail(us)) => (Head(us).new = "admin" <=> b \in Admins)
<1>1. /\ Len(us) \in Nat /\ Len(us) >= 1 /\ Len(Tail(us)) = Len(us) - 1 /\ Head(us) = us[1]
      /\ \A i \in 1 .. Len(us) - 1 : Tail(us)[i] = us[i + 1]
  OBVIOUS
<1> DEFINE v == Tail(us)
<1> HIDE DEF v
<1>2. /\ \A i \in 2 .. Len(us) : i - 1 \in 1 .. Len(v) /\ us[i] = v[i - 1]
      /\ \A i \in 1 .. Len(v) : i + 1 \in 1 .. Len(us) /\ us[i + 1] = v[i]
      /\ 1 \in 1 .. Len(us)
  BY <1>1 DEF v
<1>3. NoMoves(v) /\ (Head(us).who = "bot" => ~ Moves(Head(us).old, Head(us).new))
  BY <1>1, <1>2 DEF BotTells, NoMoves
<1>4. LastRole(v, b)
  <2>1. ASSUME NEW i \in 1 .. Len(v), v[i].who = "bot",
               \A j \in 1 .. Len(v) : j > i /\ v[j].who = "bot" => ~ Shifts(v[j].old, v[j].new)
        PROVE  v[i].new = "admin" <=> b \in Admins
    <3>1. ASSUME NEW j \in 1 .. Len(us), j > i + 1, us[j].who = "bot"
          PROVE  ~ Shifts(us[j].old, us[j].new)
      <4>1. j \in 2 .. Len(us) /\ j - 1 > i
        BY <1>1, <3>1
      <4>2. j - 1 \in 1 .. Len(v) /\ us[j] = v[j - 1]
        BY <1>2, <4>1
      <4> QED
        BY <2>1, <3>1, <4>1, <4>2
    <3> QED
      BY <1>2, <2>1, <3>1 DEF BotTells, LastRole
  <2> QED
    BY <2>1 DEF LastRole
<1>5. ASSUME us[1].who = "bot", Settles(v) PROVE us[1].new = "admin" <=> b \in Admins
  <2>1. ASSUME NEW j \in 1 .. Len(us), j > 1, us[j].who = "bot"
        PROVE  ~ Shifts(us[j].old, us[j].new)
    BY <1>1, <1>2, <1>5, <2>1 DEF Settles
  <2> QED
    BY <1>2, <1>5, <2>1 DEF BotTells, LastRole
<1> QED
  BY <1>1, <1>3, <1>4, <1>5 DEF BotTells, v

\* What a step of the only goroutine under way needs to keep the list.
LEMMA ListMoved ==
    ASSUME TypeInv, NEW p \in Procs, \A q \in Procs \ {p} : pc[q] = "idle",
           NEW step, NEW l, Goto(p, step, l), BotTells(updates', bot'),
           step = "botrole" => ~ Moves(l.old, l.new),
           Settles(updates') =>
              /\ Role(step, l, bot')
              /\ ~ Mending(step, l) => (admins' # None => Fits(admins', bot'))
    PROVE  Listing'
<1>1. /\ pc'[p] = step /\ (step # "idle" => loc'[p] = l)
      /\ \A q \in Procs \ {p} : pc'[q] = "idle"
  BY Went
<1>2. Serial'
  BY <1>1 DEF Serial
<1>3. Settles(updates') => \A q \in Procs : Role(pc'[q], loc'[q], bot')
  BY <1>1 DEF Role
<1>4. Settles(updates') =>
         ((\A q \in Procs : ~ Mending(pc'[q], loc'[q])) => (admins' # None => Fits(admins', bot')))
  <2>1. step = "idle" => ~ Mending(step, l)
    BY DEF Mending
  <2> QED
    BY <1>1, <2>1
<1>5. \A q \in Procs : pc'[q] = "botrole" => ~ Moves(loc'[q].old, loc'[q].new)
  BY <1>1
<1> QED
  BY <1>2, <1>3, <1>4, <1>5
     DEF Listing, BotTells, LastRole, NoMoves, Settles, Role, Fits, Mending, Shifts, Moves

\* A change of the group or of the list around the goroutines.
LEMMA ListAround ==
    ASSUME Listing, UNCHANGED <<pc, loc>>, admins' = admins \/ admins' = None,
           BotTells(updates', bot'),
           Settles(updates') => Settles(updates) /\ (bot' \in Admins <=> bot \in Admins)
    PROVE  Listing'
<1>1. Serial'
  BY DEF Listing, Serial
<1>2. Settles(updates') => \A q \in Procs : Role(pc'[q], loc'[q], bot')
  BY DEF Listing, Role, Fits
<1>3. Settles(updates') =>
         ((\A q \in Procs : ~ Mending(pc'[q], loc'[q])) => (admins' # None => Fits(admins', bot')))
  BY DEF Listing, Fits
<1>4. \A q \in Procs : pc'[q] = "botrole" => ~ Moves(loc'[q].old, loc'[q].new)
  BY DEF Listing
<1> QED
  BY <1>1, <1>2, <1>3, <1>4
     DEF Listing, BotTells, LastRole, NoMoves, Settles, Role, Fits, Mending, Shifts, Moves

\* An update about the assistant is none about the bot.
LEMMA StatusSettles ==
    ASSUME TypeInv, NEW s \in Statuses, StatusBecomes(s), BotTells(updates, bot)
    PROVE  BotTells(updates', bot) /\ (Settles(updates') => Settles(updates))
<1>1. CASE updates' = updates
  BY <1>1
<1>2. ASSUME NEW o \in Reported(status), NEW n \in Reported(s),
             updates' = Append(updates, Update("assistant", o, n))
      PROVE  BotTells(updates', bot) /\ (Settles(updates') => Settles(updates))
  <2> DEFINE R == [who : {"assistant", "bot"}, old : Words, new : Words]
             u == Update("assistant", o, n)
  <2>1. updates \in Seq(R) /\ u \in R /\ u.who # "bot"
    BY DEF TypeInv, GroupTypes, Update, Words, Reported, Statuses
  <2>2. updates' = Append(updates, u)
    BY <1>2
  <2> HIDE DEF R, u
  <2> QED
    BY <2>1, <2>2, AppendTells, AppendRoles
<1> QED
  BY <1>1, <1>2 DEF StatusBecomes

\* The group changes, entries grow old, or the assistant leaves its idle groups.
LEMMA ListWorld ==
    ASSUME TypeInv, Smooth /\ Kept => Listing, Smooth', Kept',
           \/ AssistantChanges \/ BotChanges \/ LinkRevoked
           \/ ExpireStatus \/ ExpireInvite \/ ExpireAdmins \/ \E p \in Procs : LeaveAll(p)
    PROVE  Listing'
<1>1. /\ DOMAIN hist = HistFields
      /\ updates \in Seq([who : {"assistant", "bot"}, old : Words, new : Words])
  BY DEF TypeInv, GroupTypes
<1>2. ASSUME NEW s \in Statuses, StatusBecomes(s), UNCHANGED <<pc, loc, admins, bot>>
      PROVE  Listing'
  <2>1. Listing
    BY <1>1, <1>2, HistTells
  <2>2. BotTells(updates', bot) /\ (Settles(updates') => Settles(updates))
    BY <1>2, <2>1, StatusSettles DEF Listing
  <2> QED
    BY <1>2, <2>1, <2>2, ListAround
<1>3. ASSUME UNCHANGED <<bot, updates, pc, loc, hist>>, admins' = admins \/ admins' = None
      PROVE  Listing'
  <2>1. Listing /\ BotTells(updates, bot)
    BY <1>1, <1>3, HistTells DEF Listing
  <2> QED
    BY <1>3, <2>1, ListAround
<1>4. CASE AssistantChanges
  BY <1>2, <1>4 DEF AssistantChanges, caches
<1>5. CASE BotChanges
  <2>1. PICK r \in Roles, o \in RoleReported(bot) : \E n \in RoleReported(r) :
           /\ bot' = r /\ updates' = Append(updates, Update("bot", o, n))
           /\ hist' = [hist EXCEPT !.moved = @ \/ {o, n} = {"admin", "left"}]
    BY <1>5 DEF BotChanges
  <2>2. PICK n \in RoleReported(r) :
           /\ updates' = Append(updates, Update("bot", o, n))
           /\ hist' = [hist EXCEPT !.moved = @ \/ {o, n} = {"admin", "left"}]
    BY <2>1
  <2>3. Listing /\ ~ Moves(o, n)
    <3>1. /\ hist'.overlap = hist.overlap /\ hist'.failed = hist.failed
          /\ hist'.moved = (hist.moved \/ {o, n} = {"admin", "left"})
      BY <1>1, <2>2 DEF HistFields
    <3> QED
      BY <3>1 DEF Smooth, Kept, Moves
  <2>4. (o = "admin" <=> bot \in Admins) /\ (n = "admin" <=> r \in Admins)
    BY DEF RoleReported
  <2> DEFINE u == Update("bot", o, n)
             R == [who : {"assistant", "bot"}, old : Words, new : Words]
  <2>5. /\ u \in R /\ updates \in Seq(R) /\ updates' = Append(updates, u)
        /\ u.who = "bot" /\ u.old = o /\ u.new = n
    BY <1>1, <2>2 DEF Update, Words, Statuses, RoleReported
  <2> HIDE DEF u, R
  <2>6. Settles(updates') => Settles(updates) /\ ~ Shifts(o, n)
    BY <2>5, AppendTells
  <2>7. ~ Shifts(o, n) => (r \in Admins <=> bot \in Admins)
    BY <2>4 DEF Shifts
  <2>8. ~ Shifts(o, n) => LastRole(updates, r)
    BY <2>3, <2>7 DEF Listing, BotTells, LastRole
  <2>9. BotTells(updates', r)
    BY <2>3, <2>4, <2>5, <2>8, AppendRoles DEF Listing, BotTells
  <2> QED
    BY <1>5, <2>1, <2>3, <2>6, <2>7, <2>9, ListAround DEF BotChanges, caches
<1>6. CASE LinkRevoked \/ ExpireInvite \/ ExpireAdmins \/ ExpireStatus
  BY <1>3, <1>6 DEF LinkRevoked, ExpireInvite, ExpireAdmins, ExpireStatus, group, caches
<1>7. ASSUME NEW p \in Procs, LeaveAll(p) PROVE Listing'
  <2>1. CASE StatusBecomes("left")
    BY <1>2, <1>7, <2>1 DEF LeaveAll, caches, Statuses
  <2>2. CASE UNCHANGED <<status, updates, hist>>
    BY <1>3, <1>7, <2>2 DEF LeaveAll, caches
  <2> QED
    BY <1>7, <2>1, <2>2 DEF LeaveAll
<1> QED
  BY <1>4, <1>5, <1>6, <1>7

\* Commands and updates start.
LEMMA ListStarts ==
    ASSUME TypeInv, Smooth /\ Kept => Listing, Smooth', Kept', NEW p \in Procs,
           Play(p) \/ Command(p) \/ Reload(p) \/ ReceiveUpdate(p)
    PROVE  Listing'
<1>1. (\A q \in Procs : pc[q] = "idle") /\ Listing
  <2>1. hist' = [hist EXCEPT !.overlap = @ \/ \E q \in Procs : ~ Idle(q)]
    BY DEF Play, Command, Reload, ReceiveUpdate, Start
  <2> QED
    BY <2>1, Alone
<1>2. Settles(updates) => (admins # None => Fits(admins, bot))
  BY <1>1 DEF Listing, Mending
<1>3. ASSUME NEW step \in {"check", "list", "clear"}, NEW op \in {"play", "command", "reload"},
             Start(p, step, Locals(op))
      PROVE  Listing'
  <2> DEFINE l == Locals(op)
  <2>1. Goto(p, step, l) /\ UNCHANGED <<updates, bot, admins>> /\ l.op # "promoted"
    BY <1>3 DEF Start, group, caches, Locals, NoLocals
  <2>2. BotTells(updates, bot)
    BY <1>1 DEF Listing
  <2> HIDE DEF l
  <2>3. Role(step, l, bot) /\ step # "botrole"
    BY <2>1 DEF Role
  <2> QED
    BY <1>1, <1>2, <2>1, <2>2, <2>3, ListMoved
<1>4. CASE ReceiveUpdate(p)
  <2> DEFINE u == Head(updates)
             step == IF u.who = "bot" THEN "botrole" ELSE "route"
             l == [Locals("update") EXCEPT !.old = u.old, !.new = u.new]
             R == [who : {"assistant", "bot"}, old : Words, new : Words]
  <2>1. /\ Goto(p, step, l) /\ updates' = Tail(updates) /\ updates # <<>>
        /\ UNCHANGED <<bot, admins>>
    BY <1>4 DEF ReceiveUpdate, caches
  <2>2. l.old = u.old /\ l.new = u.new /\ updates \in Seq(R)
    BY DEF Locals, NoLocals, TypeInv, GroupTypes
  <2> HIDE DEF l, R
  <2>3. Settles(Tail(updates)) /\ (u.who = "bot" => ~ Shifts(u.old, u.new)) => Settles(updates)
    BY <2>1, <2>2, TailTells
  <2>4. ~ Mending(step, l) => (u.who = "bot" => ~ Shifts(u.old, u.new))
    BY <2>2 DEF Mending
  <2>5. /\ BotTells(Tail(updates), bot)
        /\ u.who = "bot" => /\ ~ Moves(u.old, u.new)
                            /\ Settles(Tail(updates)) => (u.new = "admin" <=> bot \in Admins)
    BY <1>1, <2>1, <2>2, TailRoles DEF Listing
  <2>6. /\ step = "botrole" => ~ Moves(l.old, l.new)
        /\ Settles(Tail(updates)) => Role(step, l, bot)
    BY <2>2, <2>5 DEF Role
  <2> HIDE DEF u, step
  <2> QED
    BY <1>1, <1>2, <2>1, <2>3, <2>4, <2>5, <2>6, ListMoved
<1> QED
  BY <1>3, <1>4 DEF Play, Command, Reload

\* A goroutine goes on.
LEMMA ListContinues ==
    ASSUME TypeInv, Smooth /\ Kept => Listing, Smooth', Kept', NEW p \in Procs, Continue(p)
    PROVE  Listing'
<1>1. Listing /\ ~ Fails /\ BotTells(updates, bot) /\ (Refused => bot = "out")
  BY ContinueHist, HistTells DEF TypeInv, Listing, Refused
<1>2. /\ \A q \in Procs \ {p} : pc[q] = "idle"
      /\ pc[p] = "botrole" => ~ Moves(loc[p].old, loc[p].new)
      /\ Settles(updates) =>
            /\ Role(pc[p], loc[p], bot)
            /\ ~ Mending(pc[p], loc[p]) => (admins # None => Fits(admins, bot))
  <2>1. pc[p] # "idle"
    BY DEF Continue, CheckUserStats, GetChatMember, MayUnban, EditBanned, InviteLink, Joins,
           AlreadyParticipant, HashExpired, ChannelPrivate, JoinFails, RequestSent, Approve,
           PlayCall, GetAdmins, FetchAdmins, StoreAdmins, Listed, ClearForReload, HandleJoin,
           HandleLeave, OtherChange, BotJoins, BotLeaves, HandleBotAdminChange, RoleChange,
           Change, At
  <2>2. \A q \in Procs \ {p} : pc[q] = "idle" /\ ~ Mending(pc[q], loc[q])
    BY <1>1, <2>1 DEF Listing, Serial, Mending
  <2> QED
    BY <1>1, <2>2 DEF Listing
<1> USE DEF At
\* It neither brings the list up to date nor is about to.
<1>3. ASSUME NEW step, NEW l, Goto(p, step, l), step \notin {"store", "botrole"}, UNCHANGED <<bot, admins>>,
             BotTells(updates', bot), Settles(updates') => Settles(updates),
             Settles(updates) => Role(step, l, bot), Mending(pc[p], loc[p]) => Mending(step, l)
      PROVE  Listing'
  BY <1>2, <1>3, ListMoved
\* The list is gone.
<1>4. ASSUME NEW step, NEW l, Goto(p, step, l), step = "idle", admins' = None,
             UNCHANGED <<bot, updates>>, ~ Mending(step, l)
      PROVE  Listing'
  <2>1. Role(step, l, bot)
    BY <1>4 DEF Role, Mending
  <2> QED
    BY <1>1, <1>4, <1>2, <2>1, ListMoved
<1>5. pc[p] \notin {"store", "botrole", "list", "fetch"} => ~ Mending(pc[p], loc[p])
  BY DEF Mending
<1>6. ASSUME NEW s \in Statuses, StatusBecomes(s)
      PROVE  BotTells(updates', bot) /\ (Settles(updates') => Settles(updates))
  BY <1>1, <1>6, StatusSettles
\* A step that is not on the way to the list.
<1>7. ASSUME NEW step, NEW l, Goto(p, step, l), UNCHANGED <<bot, admins>>,
             BotTells(updates', bot), Settles(updates') => Settles(updates),
             step \notin {"store", "botrole", "fetch"},
             step \in {"list", "check", "ask", "clear"} /\ Settles(updates) => l.op # "promoted",
             ~ Mending(pc[p], loc[p])
      PROVE  Listing'
  <2>1. Settles(updates) => Role(step, l, bot)
    BY <1>7 DEF Role
  <2> QED
    BY <1>3, <1>7, <2>1
<1>8. CASE CheckUserStats(p) \/ GetChatMember(p)
  <2>1. Settles(updates) => loc[p].op # "promoted"
    BY <1>2, <1>8 DEF CheckUserStats, GetChatMember, Role
  <2>2. \A s : [loc[p] EXCEPT !.old = s].op = loc[p].op
    BY DEF TypeInv, LocalAt, LocalFields
  <2>3. ~ Mending(pc[p], loc[p]) /\ UNCHANGED <<bot, admins, updates>>
    BY <1>5, <1>8 DEF CheckUserStats, GetChatMember, group, caches
  <2>4. ASSUME NEW s, Route(p, s) PROVE Listing'
    <3>1. CASE s \in {"member", "left"}
      BY <1>1, <1>7, <2>3, <2>4, <3>1 DEF Route, Then
    <3>2. CASE s \in {"kicked", "restricted"}
      <4> DEFINE l == [loc[p] EXCEPT !.old = s]
      <4>1. Goto(p, "list", l)
        BY <2>4, <3>2 DEF Route
      <4>2. l.op = loc[p].op
        BY <2>2
      <4> HIDE DEF l
      <4> QED
        BY <1>1, <1>7, <2>1, <2>3, <4>1, <4>2
    <3> QED
      BY <2>4, <3>1, <3>2 DEF Route
  <2>5. CASE Then(p, "ask")
    BY <1>1, <1>7, <2>1, <2>3, <2>5 DEF Then
  <2> QED
    BY <1>8, <2>4, <2>5 DEF CheckUserStats, GetChatMember
<1>9. CASE \/ MayUnban(p) \/ HashExpired(p) \/ PlayCall(p) \/ InviteLink(p)
           \/ AlreadyParticipant(p) \/ ChannelPrivate(p) \/ RequestSent(p) \/ Listed(p)
           \/ HandleJoin(p) \/ HandleLeave(p) \/ OtherChange(p)
  <2>1. ~ Mending(pc[p], loc[p]) /\ UNCHANGED <<bot, admins, updates>>
    BY <1>5, <1>9
       DEF MayUnban, HashExpired, PlayCall, InviteLink, AlreadyParticipant, ChannelPrivate,
           RequestSent, Listed, HandleJoin, HandleLeave, OtherChange, Change, group, caches
  <2>2. \E step, l : Goto(p, step, l) /\ step \in {"idle", "unban", "join", "in", "approve"}
    BY <1>9
       DEF MayUnban, HashExpired, PlayCall, InviteLink, AlreadyParticipant, ChannelPrivate,
           RequestSent, Listed, HandleJoin, HandleLeave, OtherChange, GiveUp, Return, Then
  <2> QED
    BY <1>1, <1>7, <2>1, <2>2
<1>10. CASE EditBanned(p)
  <2> DEFINE s == IF status # loc[p].old THEN status
                  ELSE IF status = "kicked" THEN "left" ELSE "member"
             step == IF loc[p].old = "kicked" THEN "link" ELSE "in"
  <2>1. s \in Statuses /\ step \notin {"store", "botrole", "fetch", "list", "check", "ask", "clear"}
    BY DEF TypeInv, GroupTypes, Statuses
  <2>2. CASE StatusBecomes(s) /\ Goto(p, step, Locals("play"))
    <3>1. pc[p] = "unban" /\ UNCHANGED <<bot, admins>>
      BY <1>10 DEF EditBanned, caches
    <3> HIDE DEF s, step
    <3> QED
      BY <1>5, <1>6, <1>7, <2>1, <2>2, <3>1
  <2>3. CASE GiveUp(p) /\ UNCHANGED <<status, updates>>
    BY <1>1, <1>5, <1>7, <1>10, <2>3 DEF EditBanned, GiveUp, Return, Then, caches
  <2> QED
    BY <1>10, <2>2, <2>3 DEF EditBanned
<1>11. CASE Joins(p)
  BY <1>5, <1>6, <1>7, <1>11 DEF Joins, caches, Statuses
<1>12. CASE Approve(p)
  <2>1. CASE StatusBecomes("member") /\ Goto(p, "in", Locals("play"))
    BY <1>5, <1>6, <1>7, <1>12, <2>1 DEF Approve, Statuses
  <2>2. CASE UNCHANGED updates
    BY <1>1, <1>5, <1>7, <1>12, <2>2 DEF Approve, GiveUp, Return, Then
  <2> QED
    BY <1>12, <2>1, <2>2 DEF Approve
<1>13. CASE GetAdmins(p)
  <2>1. CASE Then(p, "fetch")
    <3>1. /\ Mending("list", loc[p]) => Mending("fetch", loc[p])
          /\ Role("list", loc[p], bot) => Role("fetch", loc[p], bot)
      BY DEF Mending, Role
    <3> QED
      BY <1>1, <1>2, <1>3, <1>13, <2>1, <3>1 DEF GetAdmins, Then, group, caches
  <2>2. CASE ~ Forced(p) /\ Goto(p, "listed", [loc[p] EXCEPT !.list = admins])
    <3>1. ~ Mending("list", loc[p])
      BY <2>2 DEF Mending, Forced, Op
    <3> QED
      BY <1>1, <1>7, <1>13, <2>2, <3>1 DEF GetAdmins, group, caches
  <2> QED
    BY <1>13, <2>1, <2>2 DEF GetAdmins
<1>14. CASE FetchAdmins(p)
  <2>1. pc[p] = "fetch" /\ UNCHANGED <<bot, admins, updates>>
    BY <1>14 DEF FetchAdmins, group, caches
  <2>2. ASSUME NEW x, Goto(p, "store", [loc[p] EXCEPT !.list = x]), Fits(x, bot)
        PROVE  Listing'
    <3> DEFINE l == [loc[p] EXCEPT !.list = x]
    <3>1. l.list = x /\ Mending("store", l)
      BY DEF TypeInv, LocalAt, LocalFields, Mending
    <3>2. Goto(p, "store", l)
      BY <2>2
    <3> HIDE DEF l
    <3>3. Role("store", l, bot)
      BY <2>2, <3>1 DEF Role
    <3> QED
      BY <1>1, <1>2, <2>1, <3>1, <3>2, <3>3, ListMoved
  <2>3. CASE Goto(p, "store", [loc[p] EXCEPT !.list = bot])
    BY <2>2, <2>3 DEF Fits
  <2>4. CASE bot = "out" /\ ~ Forced(p) /\ Goto(p, "store", [loc[p] EXCEPT !.list = "failed"])
    BY <2>2, <2>4 DEF Fits, Admins
  <2>5. CASE bot = "out" /\ Forced(p) /\ Return(p)
    <3>1. Settles(updates) => ~ Mending(pc[p], loc[p])
      BY <1>2, <2>1, <2>5 DEF Role, Mending, Admins
    <3>2. Role("idle", loc[p], bot)
      BY DEF Role
    <3> QED
      BY <1>1, <1>2, <2>1, <2>5, <3>1, <3>2, ListMoved DEF Return, Then
  <2> QED
    BY <1>1, <1>14, <2>3, <2>4, <2>5 DEF FetchAdmins
<1>15. CASE StoreAdmins(p)
  <2>1. /\ Goto(p, "listed", loc[p]) /\ UNCHANGED <<bot, updates>> /\ admins' = loc[p].list
        /\ pc[p] = "store"
    BY <1>15 DEF StoreAdmins, Then, group
  <2>2. Role("listed", loc[p], bot)
    BY DEF Role
  <2> QED
    BY <1>1, <1>2, <2>1, <2>2, ListMoved DEF Role
<1>16. CASE ClearForReload(p)
  <2>1. pc[p] = "clear" /\ Goto(p, "list", loc[p]) /\ UNCHANGED <<bot, updates>> /\ admins' = None
    BY <1>16 DEF ClearForReload, Then, group
  <2>2. Settles(updates) => Role("list", loc[p], bot)
    BY <1>2, <2>1 DEF Role
  <2> QED
    BY <1>1, <1>2, <2>1, <2>2, ListMoved
<1>17. CASE HandleBotAdminChange(p)
  <2>1. pc[p] = "botrole" /\ UNCHANGED <<bot, updates>>
    BY <1>17 DEF HandleBotAdminChange, RoleChange, group
  <2>2. CASE /\ loc[p].old # "admin" /\ loc[p].new = "admin"
             /\ Goto(p, "list", Locals("promoted")) /\ UNCHANGED admins
    <3>1. Mending("list", Locals("promoted"))
      BY DEF Mending, Locals, NoLocals
    <3>2. Settles(updates) => Role("list", Locals("promoted"), bot)
      BY <1>2, <2>1, <2>2 DEF Role
    <3> QED
      BY <1>1, <1>2, <2>1, <2>2, <3>1, <3>2, ListMoved
  <2>3. CASE admins' = None /\ Return(p)
    <3>1. ~ Mending("idle", loc[p])
      BY DEF Mending
    <3> QED
      BY <1>4, <2>1, <2>3, <3>1 DEF Return, Then
  <2>4. CASE /\ Return(p) /\ UNCHANGED admins
             /\ ~ Shifts(loc[p].old, loc[p].new)
    <3>1. ~ Mending(pc[p], loc[p])
      BY <2>1, <2>4 DEF Mending
    <3> QED
      BY <1>1, <1>7, <2>1, <2>4, <3>1 DEF Return, Then
  <2> QED
    BY <1>17, <2>2, <2>3, <2>4 DEF HandleBotAdminChange, Shifts
<1>18. CASE BotJoins(p) \/ BotLeaves(p)
  <2>1. pc[p] = "botrole" /\ UNCHANGED <<bot, admins, updates>> /\ Return(p)
    BY <1>18 DEF BotJoins, BotLeaves, group, caches
  <2>2. ~ Shifts(loc[p].old, loc[p].new)
    BY <1>2, <1>18, <2>1 DEF BotJoins, BotLeaves, Moves, Shifts
  <2>3. ~ Mending(pc[p], loc[p])
    BY <2>1, <2>2 DEF Mending
  <2> QED
    BY <1>1, <1>7, <2>1, <2>3 DEF Return, Then
<1> QED
  BY <1>1, <1>8, <1>9, <1>10, <1>11, <1>12, <1>13, <1>14, <1>15, <1>16, <1>17, <1>18
     DEF Continue, JoinFails

\* Once the updates are handled, one at a time, with nothing failed and no administrator
\* that left or came in as one, the cached list of administrators shows the bot as an
\* administrator exactly when it is one (AdminCache, GetAdmins and handleBotAdminChange).
THEOREM ListKnown == Spec => []ListFollows
<1>1. ASSUME Init PROVE ListInv
  <2>1. /\ updates = <<>> /\ admins = None /\ \A q \in Procs : pc[q] = "idle"
    BY <1>1 DEF Init
  <2>2. Listing
    <3>1. Len(updates) = 0
      BY <2>1
    <3> QED
      BY <2>1, <3>1 DEF Listing, Serial, BotTells, LastRole, NoMoves, Role
  <2> QED
    BY <1>1, <2>2, TypesKept DEF ListInv
<1>2. ASSUME ListInv, [Next]_vars PROVE ListInv'
  <2>1. TypeInv /\ TypeInv' /\ (Smooth /\ Kept => Listing)
    BY <1>2, TypesKept DEF ListInv
  <2>2. ASSUME Smooth', Kept' PROVE Listing'
    <3>1. CASE UNCHANGED vars
      <4>1. Listing
        BY <2>1, <2>2, <3>1 DEF vars, Smooth, Kept
      <4> QED
        BY <3>1, <4>1, ListAround DEF vars, group, caches, Listing
    <3>2. CASE \/ AssistantChanges \/ BotChanges \/ LinkRevoked
               \/ ExpireStatus \/ ExpireInvite \/ ExpireAdmins
      BY <2>1, <2>2, <3>2, ListWorld
    <3>3. ASSUME NEW p \in Commands, Play(p) \/ Command(p) \/ Reload(p) \/ LeaveAll(p)
          PROVE  Listing'
      BY <2>1, <2>2, <3>3, ListWorld, ListStarts DEF Procs
    <3>4. ASSUME NEW p \in Procs, ReceiveUpdate(p) \/ Continue(p)
          PROVE  Listing'
      BY <2>1, <2>2, <3>4, ListStarts, ListContinues
    <3> QED
      BY <1>2, <3>1, <3>2, <3>3, <3>4 DEF Next
  <2> QED
    BY <2>1, <2>2 DEF ListInv
<1>3. ASSUME ListInv PROVE ListFollows
  <2>1. ASSUME Settled, ~ hist.moved, admins # None
        PROVE  admins \in Admins <=> bot \in Admins
    <3>1. Listing /\ (\A q \in Procs : pc[q] = "idle") /\ updates = <<>>
      BY <1>3, <2>1 DEF Settled, ListInv, Smooth, Kept, Idle, At
    <3>2. Settles(updates) /\ \A q \in Procs : ~ Mending(pc[q], loc[q])
      BY <3>1 DEF Settles, Mending
    <3> QED
      BY <2>1, <3>1, <3>2 DEF Listing, Fits
  <2> QED
    BY <2>1 DEF ListFollows
<1> QED
  BY <1>1, <1>2, <1>3, PTL DEF Spec
=============================================================================
