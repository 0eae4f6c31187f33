------------------------------ MODULE ChatRecord ------------------------------
(* The stored record of one chat (play mode, assistant, authorised users) and  *)
(* two stored preferences (a user's autoplay, the bot's logger), each behind a *)
(* cache whose entries live twenty minutes: core/db/mongo.go with              *)
(* core/cache/cache.go, and the handlers that read and write them.  Handlers   *)
(* are goroutines; a database call and the cache update that follows it are    *)
(* separate steps, and chatCacheMux is held where the code holds it.           *)
EXTENDS Naturals, FiniteSets

CONSTANTS Procs,        \* the goroutines that run a handler
          Clients,      \* the assistants the bot has started (availableClients)
          Stale,        \* an assistant of an earlier run that is not started
          Users,        \* the users /addauth and /removeauth name
          Admins,       \* the users the admin cache lists
          Modes,        \* the values of play_mode a button sends
          Everyone,     \* the default play mode
          None,         \* nil: no document, no cache entry, nobody
          Unset,        \* the empty assistant name
          MaxOps,       \* bound: handlers started
          MaxOverlap,   \* bound: handlers started, once two overlap
          MaxFaults     \* bound: database calls that fail

ASSUME ConstantsAssumption ==
    /\ Clients # {} /\ Stale \notin Clients /\ None \notin Clients \cup Procs
    /\ Unset \notin Clients \cup {Stale}
    /\ \A D \in SUBSET {"play_mode", "assistant", "auth_users"} :
          None \notin [D -> Clients \cup Modes \cup {Stale, Unset} \cup SUBSET Users]
    /\ \A D \in SUBSET {"on"} : None \notin [D -> BOOLEAN]
    /\ Everyone \in Modes
    /\ MaxOps \in Nat /\ MaxOverlap \in Nat /\ MaxFaults \in Nat

VARIABLES doc,      \* the chat's document in MongoDB
          cached,   \* the live entry of chatCache
          lock,     \* the holder of chatCacheMux
          pref,     \* pref[k]: the user's or the bot's document and cache entry
          pc, loc,  \* the step of each goroutine and its local variables
          ops, faults,
          about,    \* the handlers of this behaviour: the chat's record and the
                    \* preferences share no state, so one of them at a time
          hist      \* history, for the properties only

vars == <<doc, cached, lock, pref, pc, loc, ops, faults, about, hist>>

Scalars   == {"play_mode", "assistant"}
NoFields  == [f \in {} |-> Unset]           \* map[string]interface{}{}
With(r, f, v) == [g \in {f} \cup (IF r = None THEN {} ELSE DOMAIN r) |->
                     IF g = f THEN v ELSE r[g]]
Field(r, f, default) ==
    IF r # None /\ f \in DOMAIN r THEN r[f] ELSE default
Auth(r)   == Field(r, "auth_users", {})
NoLocals  == [op |-> "none", field |-> "none", val |-> Unset, rec |-> None]

-----------------------------------------------------------------------------
(* Steps of a goroutine *)

Goto(p, step, l) == /\ pc' = [pc EXCEPT ![p] = step]
                    /\ loc' = [loc EXCEPT ![p] = IF step = "idle" THEN NoLocals ELSE l]
Then(p, step)    == Goto(p, step, loc[p])
Return(p)        == Then(p, "idle")
At(p, step)      == pc[p] = step
Op(p)            == loc[p].op
Idle(p)          == At(p, "idle")

Overlaps == hist.overlap \/ \E q \in Procs : ~Idle(q)

(* A handler starts.  The history notes whether handlers ever overlapped and  *)
(* whether every handler so far was one that selects an assistant; a failure   *)
(* ends the latter as well.                                                    *)
Start(p, step, l) ==
    /\ Idle(p) /\ ops < MaxOps
    /\ Overlaps => ops < MaxOverlap
    /\ ops' = ops + 1
    /\ Goto(p, step, l)
    /\ hist' = [hist EXCEPT !.overlap = Overlaps,
                            !.clientsOnly = @ /\ l.op = "client"]
    /\ UNCHANGED <<doc, cached, lock, pref, faults>>

Locals(op, f, v) == [NoLocals EXCEPT !.op = op, !.field = f, !.val = v]

(* GetPlayMode, GetAdminMode, GetRtmpUrl, GetAuthUsers: getChat and a field *)
ReadSetting(p) == Start(p, "lookup", Locals("read", "play_mode", Unset))

(* A button of /settings: SetPlayMode or SetAdminMode, then the keyboard is   *)
(* drawn again from what is read back                                         *)
SettingsCallback(p) ==
    \E v \in Modes : Start(p, "update", Locals("set", "play_mode", v))

(* IsAuthUser first: it holds for an admin without a look at the record *)
AddAuthHandler(p) ==
    \E u \in Users \ Admins : Start(p, "lookup", Locals("add?", "auth_users", u))
RemoveAuthHandler(p) ==
    \E u \in Users : Start(p, IF u \in Admins THEN "pull" ELSE "lookup",
                           Locals(IF u \in Admins THEN "remove" ELSE "remove?",
                                  "auth_users", u))

GetClientName(p) ==
    \E c \in Clients : Start(p, "assign", Locals("client", "assistant", c))

AddChat(p)            == Start(p, "lookup", Locals("addchat", "none", Unset))
GetAllChats(p)        == Start(p, "scan", Locals("chats", "none", Unset))
ClearAllAssistants(p) == Start(p, "scan", Locals("clear", "assistant", Unset))

(* The preferences: k is "autoplay" (userDB) or "logger" (botDB) *)
GetStatus(p)   == \E k \in DOMAIN pref : Start(p, "status", Locals("get", k, FALSE))
Toggle(p)      == \E k \in DOMAIN pref : Start(p, "status", Locals("toggle", k, FALSE))
AddUser(p)     == Start(p, "user", Locals("adduser", "autoplay", FALSE))
GetAllUsers(p) == Start(p, "scan", Locals("users", "autoplay", FALSE))

-----------------------------------------------------------------------------
(* Database calls.  A call fails within the bound; a failed write may have     *)
(* been applied, its answer lost.                                              *)

Answers == /\ UNCHANGED faults
           /\ UNCHANGED hist
Fails   == /\ faults < MaxFaults
           /\ faults' = faults + 1
           /\ hist' = [hist EXCEPT !.failed = TRUE, !.clientsOnly = FALSE]

(* A failure after which the cache is not brought up to date with a write that *)
(* was, or will be, applied.                                                   *)
Misses  == /\ faults < MaxFaults
           /\ faults' = faults + 1
           /\ hist' = [hist EXCEPT !.failed = TRUE, !.lost = TRUE, !.clientsOnly = FALSE]

Stored(d) == \* the values scalars have had in the database
    [f \in Scalars |-> hist.written[f] \cup {Field(d, f, Unset)}]
Store(d)  == /\ doc' = d
             /\ UNCHANGED faults
             /\ hist' = [hist EXCEPT !.written = Stored(d)]

(* An update of the chat's document whose error ends the handler at step err *)
Write(p, d, step, err) ==
    \/ Store(d) /\ Then(p, step)
    \/ Fails /\ UNCHANGED doc /\ Then(p, err)
    \/ /\ doc' = d /\ faults < MaxFaults /\ faults' = faults + 1
       /\ hist' = [hist EXCEPT !.failed = TRUE, !.lost = TRUE,
                               !.clientsOnly = FALSE, !.written = Stored(d)]
       /\ Then(p, err)

-----------------------------------------------------------------------------
(* getChat: the entry, or the document; the entry is set without the mutex *)

Lookup(p) ==
    /\ At(p, "lookup")
    /\ IF cached # None THEN Goto(p, "have", [loc[p] EXCEPT !.rec = cached])
                        ELSE Then(p, "find")
    /\ UNCHANGED <<doc, cached, lock, pref, ops, faults, hist>>

Find(p) ==
    /\ At(p, "find")
    /\ \/ /\ Answers
          /\ Goto(p, IF doc = None THEN "have" ELSE "fill",
                  [loc[p] EXCEPT !.rec = doc])
       \/ Fails /\ Goto(p, "have", [loc[p] EXCEPT !.rec = None])
    /\ UNCHANGED <<doc, cached, lock, pref, ops>>

MutantFillLocks(p) ==     \* the entry is set under the mutex the caller may hold
    /\ At(p, "fill") /\ lock = None
    /\ cached' = loc[p].rec
    /\ Then(p, "have")
    /\ UNCHANGED <<doc, lock, pref, ops, faults, hist>>

Fill(p) ==
    /\ At(p, "fill")
    /\ cached' = loc[p].rec
    /\ Then(p, "have")
    /\ UNCHANGED <<doc, lock, pref, ops, faults, hist>>

(* What each caller does with the record getChat returned *)
Has(p, op) == /\ At(p, "have") /\ Op(p) \in op
              /\ UNCHANGED <<doc, cached, lock, pref, ops, faults, hist>>

SettingRead(p) == Has(p, {"read", "set"}) /\ Return(p)

ChatKnown(p) ==
    /\ Has(p, {"addchat"})
    /\ IF loc[p].rec = None THEN Then(p, "insert") ELSE Return(p)

NotYetAuthorised(p) ==
    /\ Has(p, {"add?"})
    /\ IF loc[p].val \in Auth(loc[p].rec) THEN Return(p)
       ELSE Goto(p, "push", [loc[p] EXCEPT !.op = "add", !.rec = None])

StillAuthorised(p) ==
    /\ Has(p, {"remove?"})
    /\ IF loc[p].val \notin Auth(loc[p].rec) THEN Return(p)
       ELSE Goto(p, "pull", [loc[p] EXCEPT !.op = "remove", !.rec = None])

Insert(p) ==
    /\ At(p, "insert")
    /\ Write(p, IF doc = None THEN NoFields ELSE doc, "idle", "idle")
    /\ UNCHANGED <<cached, lock, pref, ops>>

MutantUpdateKeepsGoing(p) ==  \* the error of the update is not looked at
    /\ At(p, "update")
    /\ Write(p, With(doc, loc[p].field, loc[p].val), "merge", "merge")
    /\ UNCHANGED <<cached, lock, pref, ops>>

(* updateChatField: $set with upsert, then the merged entry under the mutex *)
UpdateChatField(p) ==
    /\ At(p, "update")
    /\ Write(p, With(doc, loc[p].field, loc[p].val), "merge",
             IF Op(p) = "client" THEN "given" ELSE "lookup")
    /\ UNCHANGED <<cached, lock, pref, ops>>

Merge(p) ==
    /\ At(p, "merge") /\ lock = None
    /\ cached' = With(cached, loc[p].field, loc[p].val)
    /\ Then(p, IF Op(p) = "client" THEN "given" ELSE "lookup")
    /\ UNCHANGED <<doc, lock, pref, ops, faults, hist>>

-----------------------------------------------------------------------------
(* Authorised users: $addToSet (with upsert) or $pull, then the entry, read    *)
(* with getChat while chatCacheMux is held                                     *)

AddAuthUser(p) ==
    /\ At(p, "push")
    /\ Write(p, With(doc, "auth_users", Auth(doc) \cup {loc[p].val}), "lock", "idle")
    /\ UNCHANGED <<cached, lock, pref, ops>>

RemoveAuthUser(p) ==
    /\ At(p, "pull")
    /\ Write(p, IF doc = None \/ "auth_users" \notin DOMAIN doc THEN doc
                ELSE With(doc, "auth_users", Auth(doc) \ {loc[p].val}),
             "lock", "idle")
    /\ UNCHANGED <<cached, lock, pref, ops>>

MutantAcquireNothing(p) ==
    /\ At(p, "lock") /\ lock = None
    /\ Then(p, "lookup")
    /\ UNCHANGED <<doc, cached, lock, pref, ops, faults, hist>>

Acquire(p) ==
    /\ At(p, "lock") /\ lock = None
    /\ lock' = p
    /\ Then(p, "lookup")
    /\ UNCHANGED <<doc, cached, pref, ops, faults, hist>>

NewAuth(p) == IF Op(p) = "add" THEN Auth(loc[p].rec) \cup {loc[p].val}
                               ELSE Auth(loc[p].rec) \ {loc[p].val}

(* A write into the nil map of a failed or empty read panics; the deferred     *)
(* Unlock runs either way                                                      *)
CacheAuth(p) ==
    /\ At(p, "have") /\ Op(p) \in {"add", "remove"}
    /\ IF loc[p].rec = None THEN UNCHANGED cached
       ELSE cached' = With(loc[p].rec, "auth_users", NewAuth(p))
    /\ lock' = None
    /\ Return(p)
    /\ UNCHANGED <<doc, pref, ops, faults, hist>>

-----------------------------------------------------------------------------
(* Assistants *)

MutantAssignAlways(p) ==  \* the update has no filter
    /\ At(p, "assign")
    /\ Write(p, With(doc, "assistant", loc[p].val), "assigned", "update")
    /\ UNCHANGED <<cached, lock, pref, ops>>

(* AssignAssistant's update matches a document without an assistant, or        *)
(* inserts one; with another assistant in place the insert is a duplicate key  *)
Assign(p) ==
    /\ At(p, "assign")
    /\ \/ /\ Field(doc, "assistant", Unset) = Unset
          /\ Write(p, With(doc, "assistant", loc[p].val), "assigned", "update")
       \/ /\ Field(doc, "assistant", Unset) # Unset
          /\ \/ Answers /\ Then(p, "drop")
             \/ Fails /\ Then(p, "update")
          /\ UNCHANGED doc
    /\ UNCHANGED <<cached, lock, pref, ops>>

CacheAssigned(p) ==
    /\ At(p, "assigned") /\ lock = None
    /\ cached' = IF cached = None THEN None
                 ELSE With(cached, "assistant", loc[p].val)
    /\ Then(p, "given")
    /\ UNCHANGED <<doc, lock, pref, ops, faults, hist>>

MutantDropNothing(p) ==
    /\ At(p, "drop")
    /\ Then(p, IF Op(p) = "client" THEN "lookup" ELSE "idle")
    /\ UNCHANGED <<doc, cached, lock, pref, ops, faults, hist>>

DropEntry(p) ==
    /\ At(p, "drop")
    /\ cached' = None
    /\ Then(p, IF Op(p) = "client" THEN "lookup" ELSE "idle")
    /\ UNCHANGED <<doc, lock, pref, ops, faults, hist>>

(* GetAssistant's answer: an assistant that is not started, or none, is        *)
(* overwritten with the one this caller drew (SetAssistant)                    *)
Assigned(p) ==
    LET a == Field(loc[p].rec, "assistant", Unset) IN
    /\ Has(p, {"client"})
    /\ IF a \in Clients THEN Goto(p, "given", [loc[p] EXCEPT !.val = a])
                        ELSE Then(p, "update")

Given(p) ==
    /\ At(p, "given")
    /\ hist' = [hist EXCEPT !.given = @ \cup {loc[p].val}]
    /\ Return(p)
    /\ UNCHANGED <<doc, cached, lock, pref, ops, faults>>

-----------------------------------------------------------------------------
(* The scans: GetAllChats and GetAllUsers put an empty entry in the cache for  *)
(* every document.  ClearAllAssistants lists the chats that have an assistant, *)
(* unsets them all, then drops the entries of those it listed; an error of the *)
(* cursor or of Decode leaves the list short and is not looked at.             *)

Scan(p) ==
    /\ At(p, "scan")
    /\ \/ Fails /\ Then(p, "idle")
       \/ /\ Answers
          /\ \/ Op(p) = "chats" /\ Then(p, IF doc = None THEN "idle" ELSE "empty")
             \/ Op(p) = "users" /\ Then(p, IF pref["autoplay"].doc = None
                                            THEN "idle" ELSE "emptyuser")
             \/ /\ Op(p) = "clear"
                /\ Goto(p, "unset", [loc[p] EXCEPT
                     !.val = "assistant" \in (IF doc = None THEN {} ELSE DOMAIN doc)])
       \/ Misses /\ Op(p) = "clear" /\ Goto(p, "unset", [loc[p] EXCEPT !.val = FALSE])
    /\ UNCHANGED <<doc, cached, lock, pref, ops>>

EmptyEntry(p) ==
    /\ At(p, "empty")
    /\ cached' = NoFields
    /\ Return(p)
    /\ UNCHANGED <<doc, lock, pref, ops, faults, hist>>

UnsetAssistants(p) ==
    /\ At(p, "unset")
    /\ Write(p, IF doc = None THEN doc
                ELSE [f \in DOMAIN doc \ {"assistant"} |-> doc[f]],
             IF loc[p].val THEN "drop" ELSE "idle", "idle")
    /\ UNCHANGED <<cached, lock, pref, ops>>

-----------------------------------------------------------------------------
(* Preferences: FALSE unless stored; the entry is replaced by what was read,   *)
(* and an error of the read counts as "not stored"                             *)

Key(p) == loc[p].field
SetPref(p, part, r) == pref' = [pref EXCEPT ![Key(p)][part] = r]

Status(p) ==
    LET e == pref[Key(p)].cached
        Got(b) == [loc[p] EXCEPT !.val = b]
    IN  /\ At(p, "status")
        /\ IF e # None /\ "on" \in DOMAIN e
           THEN Goto(p, "got", Got(e.on)) /\ UNCHANGED <<faults, hist>>
           ELSE \/ Answers /\ Goto(p, "keep", Got(Field(pref[Key(p)].doc, "on", FALSE)))
                \/ Fails /\ Goto(p, "keep", Got(FALSE))
        /\ UNCHANGED <<doc, cached, lock, pref, ops>>

KeepStatus(p) ==
    /\ At(p, "keep")
    /\ SetPref(p, "cached", [on |-> loc[p].val])
    /\ Then(p, "got")
    /\ UNCHANGED <<doc, cached, lock, ops, faults, hist>>

(* /autoplay and /logger: with no argument the negation of what was read, with *)
(* one the value asked for, with a wrong one nothing                           *)
GotStatus(p) ==
    /\ At(p, "got")
    /\ \/ Return(p)
       \/ /\ Op(p) = "toggle"
          /\ \E b \in BOOLEAN : Goto(p, "setpref", [loc[p] EXCEPT !.val = b])
    /\ UNCHANGED <<doc, cached, lock, pref, ops, faults, hist>>

SetStatus(p) ==
    /\ At(p, "setpref")
    /\ \/ Answers /\ SetPref(p, "doc", [on |-> loc[p].val]) /\ Then(p, "mergepref")
       \/ Fails /\ UNCHANGED pref /\ Return(p)
       \/ Fails /\ SetPref(p, "doc", [on |-> loc[p].val]) /\ Return(p)
    /\ UNCHANGED <<doc, cached, lock, ops>>

MergeStatus(p) ==
    /\ At(p, "mergepref")
    /\ SetPref(p, "cached", [on |-> loc[p].val])
    /\ Return(p)
    /\ UNCHANGED <<doc, cached, lock, ops, faults, hist>>

(* AddUser: nothing when an entry exists, else an upsert and an empty entry *)
UserKnown == IF pref["autoplay"].doc = None THEN NoFields ELSE pref["autoplay"].doc
KnowUser  == pref' = [pref EXCEPT !["autoplay"].doc = UserKnown]
UpsertUser(p) ==
    /\ At(p, "user")
    /\ \/ pref["autoplay"].cached # None /\ Return(p) /\ UNCHANGED <<pref, faults, hist>>
       \/ /\ pref["autoplay"].cached = None
          /\ \/ Fails /\ (UNCHANGED pref \/ KnowUser) /\ Return(p)
             \/ Answers /\ KnowUser /\ Then(p, "emptyuser")
    /\ UNCHANGED <<doc, cached, lock, ops>>

EmptyUser(p) ==
    /\ At(p, "emptyuser")
    /\ SetPref(p, "cached", NoFields)
    /\ Return(p)
    /\ UNCHANGED <<doc, cached, lock, ops, faults, hist>>

-----------------------------------------------------------------------------
(* Twenty minutes pass: Get no longer returns the entry *)
Expire ==
    /\ \/ cached # None /\ cached' = None /\ UNCHANGED pref
       \/ \E k \in DOMAIN pref :
             /\ pref[k].cached # None
             /\ pref' = [pref EXCEPT ![k].cached = None]
             /\ UNCHANGED cached
    /\ UNCHANGED <<doc, lock, pc, loc, ops, faults, hist>>

Init ==
    /\ doc \in {None, With(None, "assistant", Stale), With(None, "play_mode", Everyone)}
    /\ cached = None /\ lock = None
    /\ pref = [k \in {"autoplay", "logger"} |-> [doc |-> None, cached |-> None]]
    /\ pc = [p \in Procs |-> "idle"] /\ loc = [p \in Procs |-> NoLocals]
    /\ ops = 0 /\ faults = 0
    /\ about \in {"chat", "preferences"}
    /\ hist = [overlap |-> FALSE, failed |-> FALSE, lost |-> FALSE, given |-> {},
               clientsOnly |-> TRUE, gone |-> Field(doc, "assistant", Unset) = Stale,
               written |-> [f \in Scalars |-> {Field(doc, f, Unset)}]]

Begin(p) ==
    \/ /\ about = "chat"
       /\ \/ ReadSetting(p) \/ SettingsCallback(p) \/ AddAuthHandler(p)
          \/ RemoveAuthHandler(p) \/ GetClientName(p) \/ AddChat(p)
          \/ GetAllChats(p) \/ ClearAllAssistants(p)
    \/ /\ about = "preferences"
       /\ \/ GetStatus(p) \/ Toggle(p) \/ AddUser(p) \/ GetAllUsers(p)

Continue(p) ==
    \/ Lookup(p) \/ Find(p) \/ Fill(p) \/ SettingRead(p)
    \/ ChatKnown(p) \/ NotYetAuthorised(p) \/ StillAuthorised(p) \/ Insert(p)
    \/ UpdateChatField(p) \/ Merge(p)
    \/ AddAuthUser(p) \/ RemoveAuthUser(p) \/ Acquire(p) \/ CacheAuth(p)
    \/ Assign(p) \/ CacheAssigned(p) \/ DropEntry(p) \/ Assigned(p) \/ Given(p)
    \/ Scan(p) \/ EmptyEntry(p) \/ UnsetAssistants(p)
    \/ Status(p) \/ KeepStatus(p) \/ GotStatus(p) \/ SetStatus(p) \/ MergeStatus(p)
    \/ UpsertUser(p) \/ EmptyUser(p)

Next == (Expire \/ \E p \in Procs : Begin(p) \/ Continue(p)) /\ UNCHANGED about

Spec == Init /\ [][Next]_vars

(* A goroutine that has started is scheduled and its database calls end, with  *)
(* an error after ten seconds at the latest.                                   *)
FairSpec == Spec /\ \A p \in Procs : WF_vars(Continue(p) /\ UNCHANGED about)

-----------------------------------------------------------------------------
(* Properties *)

Values == Clients \cup Modes \cup Users \cup {Stale, Unset}
IsRecord(r) ==
    \/ r = None
    \/ /\ DOMAIN r \subseteq Scalars \cup {"auth_users"}
       /\ Auth(r) \subseteq Users
       /\ \A f \in DOMAIN r \cap Scalars : r[f] \in Values
IsPref(r) == r = None \/ (DOMAIN r \subseteq {"on"} /\ Field(r, "on", FALSE) \in BOOLEAN)

(* The documents and entries have the fields the handlers write; the holder of *)
(* chatCacheMux is inside AddAuthUser or RemoveAuthUser and nowhere else.      *)
TypeOK ==
    /\ IsRecord(doc) /\ IsRecord(cached)
    /\ \A k \in DOMAIN pref : IsPref(pref[k].doc) /\ IsPref(pref[k].cached)
    /\ \A p \in Procs : IsRecord(loc[p].rec)
    /\ \A p \in Procs : lock = p <=> /\ Op(p) \in {"add", "remove"}
                                     /\ pc[p] \in {"lookup", "find", "fill", "have"}

AllIdle == \A p \in Procs : Idle(p)

(* Whatever the order of handlers and failures, the cache shows no play mode   *)
(* and no assistant that the database never held.                              *)
CachedWasWritten ==
    cached # None =>
        \A f \in Scalars \cap DOMAIN cached : cached[f] \in hist.written[f]

(* Callers that ask for the assistant of a chat, at the same time or one after *)
(* the other, with no other handler and no failure, all get the same one: two  *)
(* assistants of one chat would sit in its call twice.  When the chat's record *)
(* names an assistant that is not started this is so for callers that do not   *)
(* overlap only: getClientName overwrites that name without a filter, so two   *)
(* that both read it come away with a draw each.                               *)
AgreedAssistant ==
    hist.clientsOnly /\ (hist.gone => ~hist.overlap) => Cardinality(hist.given) <= 1

(* While handlers did not overlap, a field the cache holds is the stored one,  *)
(* and nobody is authorised in the cache who is not in the database - unless   *)
(* the answer of a write was lost, or /clearassistants could not list all the  *)
(* chats it then cleared.  The preferences, whose reads fill the cache as      *)
(* well, are current unless one of their calls failed, also after AddUser and  *)
(* GetAllUsers have replaced the entry by an empty one.                        *)
CacheCurrent ==
    AllIdle /\ ~hist.overlap =>
        /\ ~hist.lost /\ cached # None =>
              /\ \A f \in Scalars \cap DOMAIN cached : cached[f] = Field(doc, f, Unset)
              /\ Auth(cached) \subseteq Auth(doc)
        /\ ~hist.failed =>
              \A k \in DOMAIN pref :
                  LET e == pref[k].cached
                  IN  e # None /\ "on" \in DOMAIN e => e.on = Field(pref[k].doc, "on", FALSE)

(* Every handler returns: nobody waits for chatCacheMux for ever, although     *)
(* AddAuthUser keeps it during a database call.                                *)
HandlersReturn == \A p \in Procs : ~Idle(p) ~> Idle(p)

(* "GetPlayMode retrieves the play mode for a chat. It returns everyone by     *)
(* default" (mongo.go): with no overlap and no failure the mode a reader sees  *)
(* is the stored one.  It is not: an entry without the field hides it.         *)
ModeInForce ==
    \A p \in Procs :
        At(p, "have") /\ Op(p) = "read" /\ ~hist.overlap /\ ~hist.failed =>
            Field(loc[p].rec, "play_mode", Everyone) = Field(doc, "play_mode", Everyone)
=============================================================================
