-------------------------- MODULE ChatRecordProofs --------------------------
(***************************************************************************)
(* Theorems about ChatRecord, for any number of goroutines, assistants,    *)
(* users, modes and failures: types, what the cache may show, one          *)
(* assistant for all who ask, and a cache that is current while handlers   *)
(* do not overlap.                                                         *)
(***************************************************************************)
EXTENDS ChatRecord, FiniteSetTheorems, TLAPS

Fields == Scalars \cup {"auth_users"}
ScalarValues == Clients \cup Modes \cup {Stale, Unset}

\* A document or an entry with the fields the handlers write, and one or nothing.
IsDoc(r) ==
    /\ DOMAIN r \subseteq Fields /\ r = [f \in DOMAIN r |-> r[f]]
    /\ \A f \in DOMAIN r \cap Scalars : r[f] \in ScalarValues
    /\ "auth_users" \in DOMAIN r => r["auth_users"] \subseteq Users
Rec(r) == r = None \/ IsDoc(r)
IsOn(r) == r \in {NoFields} \cup {[on |-> b] : b \in BOOLEAN}
Pref(r) == r = None \/ IsOn(r)

\* Record r has field f.
Holds(r, f) == r # None /\ f \in DOMAIN r

-----------------------------------------------------------------------------
(* The operators on records *)

\* nil is no document.
LEMMA DocNotNone ==
    ASSUME NEW r, IsDoc(r)
    PROVE  r # None
<1>1. r \in [DOMAIN r -> ScalarValues \cup SUBSET Users]
  <2>1. \A f \in DOMAIN r : r[f] \in ScalarValues \cup SUBSET Users
    BY DEF IsDoc, Fields, Scalars
  <2> QED
    BY <2>1 DEF IsDoc
<1>2. DOMAIN r \in SUBSET {"play_mode", "assistant", "auth_users"}
  BY DEF IsDoc, Fields, Scalars
<1> QED
  BY <1>1, <1>2, ConstantsAssumption DEF ScalarValues

\* What With returns: field f has the value v, the others are those of r.
LEMMA WithLaw ==
    ASSUME NEW r, Rec(r), NEW f \in Fields, NEW v,
           IF f = "auth_users" THEN v \subseteq Users ELSE v \in ScalarValues
    PROVE  /\ IsDoc(With(r, f, v)) /\ With(r, f, v) # None
           /\ \A g : Holds(With(r, f, v), g) <=> g = f \/ Holds(r, g)
           /\ \A g : Holds(With(r, f, v), g) => With(r, f, v)[g] = IF g = f THEN v ELSE r[g]
           /\ \A g, d : Field(With(r, f, v), g, d) = IF g = f THEN v ELSE Field(r, g, d)
<1> DEFINE w == With(r, f, v)
<1>1. /\ DOMAIN w = {f} \cup (IF r = None THEN {} ELSE DOMAIN r)
      /\ w = [g \in DOMAIN w |-> w[g]]
      /\ \A g \in DOMAIN w : w[g] = IF g = f THEN v ELSE r[g]
  BY DEF With
<1> HIDE DEF w
<1>2. IsDoc(w)
  <2>1. r # None => IsDoc(r)
    BY DEF Rec
  <2> QED
    BY <1>1, <2>1 DEF IsDoc, Fields, Scalars
<1>3. w # None
  BY <1>2, DocNotNone
<1> QED
  BY <1>1, <1>2, <1>3 DEF Holds, Field, w

\* What an empty map holds.
LEMMA EmptyLaw ==
    /\ IsDoc(NoFields) /\ NoFields # None
    /\ \A f : ~ Holds(NoFields, f)
    /\ \A f, d : Field(NoFields, f, d) = d
<1>1. IsDoc(NoFields)
  BY DEF IsDoc, NoFields, Fields
<1> QED
  BY <1>1, DocNotNone DEF Holds, Field, NoFields

\* What $unset of the assistant leaves.
LEMMA UnsetLaw ==
    ASSUME IsDoc(doc), NEW d, d = [f \in DOMAIN doc \ {"assistant"} |-> doc[f]]
    PROVE  /\ IsDoc(d) /\ d # None /\ doc # None
           /\ \A g : Holds(d, g) <=> g # "assistant" /\ Holds(doc, g)
           /\ \A g : Holds(d, g) => d[g] = doc[g]
           /\ \A g, x : Field(d, g, x) = IF g = "assistant" THEN x ELSE Field(doc, g, x)
<1>1. DOMAIN d = DOMAIN doc \ {"assistant"} /\ \A g \in DOMAIN d : d[g] = doc[g]
  OBVIOUS
<1>2. IsDoc(d)
  BY <1>1 DEF IsDoc, Fields, Scalars
<1> QED
  BY <1>1, <1>2, DocNotNone DEF Holds, Field

\* A stored preference.
LEMMA OnLaw ==
    ASSUME NEW b \in BOOLEAN
    PROVE  /\ IsOn([on |-> b]) /\ [on |-> b] # None
           /\ Holds([on |-> b], "on") /\ [on |-> b]["on"] = b
           /\ Field([on |-> b], "on", FALSE) = b
<1>1. [on |-> b] \in [{"on"} -> BOOLEAN]
  OBVIOUS
<1>2. [on |-> b] # None
  BY <1>1, ConstantsAssumption
<1> QED
  BY <1>2 DEF IsOn, Holds, Field

\* Every record of a preference is empty or holds a Boolean.
LEMMA PrefLaw ==
    ASSUME NEW r, Pref(r)
    PROVE  Holds(r, "on") => r["on"] \in BOOLEAN
BY EmptyLaw, OnLaw DEF Pref, IsOn, Holds

\* The users of a record are users.
LEMMA AuthLaw ==
    ASSUME NEW r, Rec(r)
    PROVE  Auth(r) \subseteq Users
BY DEF Auth, Field, Rec, IsDoc
-----------------------------------------------------------------------------
(* The invariant of types and histories *)

\* The scalars of r are ones the database held.
Known(r) == \A f \in Scalars : Holds(r, f) => r[f] \in hist.written[f]

Keys        == {"autoplay", "logger"}
Reading     == {"lookup", "find", "fill", "have"}
LocalFields == {"op", "field", "val", "rec"}
PrivateShape ==
    /\ DOMAIN pc = Procs /\ DOMAIN loc = Procs
    /\ \A p \in Procs : DOMAIN loc[p] = LocalFields
HistShape ==
    /\ DOMAIN hist = {"overlap", "failed", "lost", "given", "clientsOnly", "gone", "written"}
    /\ DOMAIN hist.written = Scalars
PrefShape ==
    DOMAIN pref = Keys /\ \A k \in Keys : DOMAIN pref[k] = {"doc", "cached"}

\* The shared variables have their types, and only hold scalars that are known.
Shared ==
    /\ HistShape /\ PrefShape
    /\ Rec(doc) /\ Known(doc) /\ Rec(cached) /\ Known(cached)
    /\ \A k \in Keys : Pref(pref[k].doc) /\ Pref(pref[k].cached)

\* Which handler takes which steps.
Takes(op, step) ==
    \/ step = "idle" /\ op = "none"
    \/ step \in Reading /\ op \in {"read", "set", "add?", "remove?", "add", "remove",
                                   "client", "addchat"}
    \/ step \in {"update", "merge"} /\ op \in {"set", "client"}
    \/ step = "push" /\ op = "add"
    \/ step = "pull" /\ op = "remove"
    \/ step = "lock" /\ op \in {"add", "remove"}
    \/ step \in {"assign", "assigned", "given"} /\ op = "client"
    \/ step = "drop" /\ op \in {"client", "clear"}
    \/ step = "insert" /\ op = "addchat"
    \/ step = "scan" /\ op \in {"chats", "users", "clear"}
    \/ step = "empty" /\ op = "chats"
    \/ step = "unset" /\ op = "clear"
    \/ step \in {"status", "keep", "got"} /\ op \in {"get", "toggle"}
    \/ step \in {"setpref", "mergepref"} /\ op = "toggle"
    \/ step = "user" /\ op = "adduser"
    \/ step = "emptyuser" /\ op \in {"adduser", "users"}

\* The local variables l of a goroutine at a step.
Suits(l) ==
    /\ l.op = "set" => l.field = "play_mode" /\ l.val \in Modes
    /\ l.op = "client" => l.field = "assistant" /\ l.val \in Clients
    /\ l.op \in {"add?", "remove?", "add", "remove"} => l.val \in Users
    /\ l.op \in {"get", "toggle"} => l.field \in Keys /\ l.val \in BOOLEAN
    /\ l.op \in {"adduser", "users"} => l.field = "autoplay"
Sound(step, l) == Takes(l.op, step) /\ Suits(l) /\ Rec(l.rec) /\ Known(l.rec)
LocalAt(step, l) ==
    /\ Sound(step, l)
    /\ step = "merge" => l.val \in hist.written[l.field]
    /\ step = "assigned" => l.val \in hist.written["assistant"]

\* A goroutine inside AddAuthUser or RemoveAuthUser that has the mutex.
HasLock(step, l) == l.op \in {"add", "remove"} /\ step \in Reading

\* The inductive invariant of TypeOK and of CachedWasWritten.
RecordInv ==
    /\ PrivateShape /\ Shared
    /\ \A p \in Procs : LocalAt(pc[p], loc[p]) /\ (lock = p <=> HasLock(pc[p], loc[p]))

\* The database keeps what it has held.
Grown == \A f \in Scalars : hist.written[f] \subseteq hist'.written[f]

\* What a step of goroutine p needs to keep the invariant.
LEMMA Moved ==
    ASSUME RecordInv, Shared', Grown, NEW p \in Procs, NEW step, NEW l, Goto(p, step, l),
           step # "idle" => DOMAIN l = LocalFields /\ Sound(step, l),
           step = "merge" => l.val \in hist'.written[l.field],
           step = "assigned" => l.val \in hist'.written["assistant"],
           \A q \in Procs \ {p} : lock' = q <=> lock = q,
           lock' = p <=> step # "idle" /\ HasLock(step, l)
    PROVE  RecordInv'
<1>1. /\ DOMAIN pc' = Procs /\ DOMAIN loc' = Procs
      /\ pc'[p] = step /\ loc'[p] = IF step = "idle" THEN NoLocals ELSE l
      /\ \A q \in Procs \ {p} : pc'[q] = pc[q] /\ loc'[q] = loc[q]
  BY DEF Goto, RecordInv, PrivateShape
<1>2. /\ DOMAIN NoLocals = LocalFields /\ Sound("idle", NoLocals)
      /\ ~ HasLock("idle", NoLocals)
  BY DEF NoLocals, LocalFields, Sound, Takes, Suits, Rec, Known, Holds, HasLock, Reading
<1>3. ASSUME NEW q \in Procs
      PROVE  /\ DOMAIN loc'[q] = LocalFields
             /\ LocalAt(pc[q], loc[q])' /\ (lock' = q <=> HasLock(pc'[q], loc'[q]))
  <2>1. CASE q = p
    <3>1. Sound(pc'[p], loc'[p]) /\ DOMAIN loc'[p] = LocalFields
      BY <1>1, <1>2
    <3>2. Sound(pc[p], loc[p])'
      <4>1. Known(loc'[p].rec) => Known(loc[p].rec)'
        BY DEF Known, Grown
      <4> QED
        BY <3>1, <4>1 DEF Sound
    <3> QED
      BY <1>1, <1>2, <2>1, <3>1, <3>2 DEF LocalAt
  <2>2. CASE q # p
    <3>1. LocalAt(pc[q], loc[q]) /\ DOMAIN loc[q] = LocalFields
          /\ (lock = q <=> HasLock(pc[q], loc[q]))
      BY DEF RecordInv, PrivateShape
    <3>2. LocalAt(pc[q], loc[q]) => LocalAt(pc[q], loc[q])'
      <4>1. pc'[q] = pc[q] /\ loc'[q] = loc[q]
        BY <1>1, <2>2
      <4>2. Known(loc[q].rec) => Known(loc[q].rec)'
        BY <4>1 DEF Known, Grown
      <4>3. ASSUME LocalAt(pc[q], loc[q])
            PROVE  /\ pc[q] = "merge" => loc[q].val \in hist'.written[loc[q].field]
                   /\ pc[q] = "assigned" => loc[q].val \in hist'.written["assistant"]
        BY <4>3 DEF LocalAt, Sound, Takes, Suits, Scalars, Grown, Reading
      <4> QED
        BY <4>1, <4>2, <4>3 DEF LocalAt, Sound
    <3> QED
      BY <1>1, <2>2, <3>1, <3>2
  <2> QED
    BY <2>1, <2>2
<1> QED
  BY <1>1, <1>3 DEF RecordInv, PrivateShape

\* Goroutine p goes to a step with locals that suit it, and keeps the mutex or not.
Lands(p, step, l) ==
    /\ Goto(p, step, l)
    /\ step # "idle" => DOMAIN l = LocalFields /\ LocalAt(step, l)
    /\ HasLock(pc[p], loc[p]) <=> step # "idle" /\ HasLock(step, l)

\* The same for a step that leaves the mutex alone.
LEMMA Landed ==
    ASSUME RecordInv, Shared', Grown, NEW p \in Procs, NEW step, NEW l, Lands(p, step, l),
           lock' = lock
    PROVE  RecordInv'
<1>1. LocalAt(step, l) => /\ Sound(step, l)
                          /\ step = "merge" => l.val \in hist'.written[l.field]
                          /\ step = "assigned" => l.val \in hist'.written["assistant"]
  BY DEF LocalAt, Sound, Takes, Suits, Scalars, Grown, Reading
<1>2. lock = p <=> HasLock(pc[p], loc[p])
  BY DEF RecordInv
<1> QED
  BY <1>1, <1>2, Moved DEF Lands

\* What a step may do to the chat's record and entry.
LEMMA SharedAfter ==
    ASSUME Shared, HistShape', Grown, pref' = pref,
           doc' = doc \/ (Rec(doc) /\ Known(doc))',
           cached' = cached \/ (Rec(cached) /\ Known(cached))'
    PROVE  Shared'
<1>1. Known(doc) => (doc' = doc => Known(doc)')
  BY DEF Known, Grown
<1>2. Known(cached) => (cached' = cached => Known(cached)')
  BY DEF Known, Grown
<1> QED
  BY <1>1, <1>2 DEF Shared, PrefShape, Rec

\* A step that changes neither shares nor history of values.
LEMMA SharedSame ==
    ASSUME Shared, HistShape', hist'.written = hist.written, UNCHANGED <<doc, cached, pref>>
    PROVE  Shared' /\ Grown
BY SharedAfter DEF Grown

\* The local variables a handler starts with.
LEMMA StartLocals ==
    ASSUME NEW op, NEW f, NEW v
    PROVE  /\ DOMAIN Locals(op, f, v) = LocalFields
           /\ Locals(op, f, v).op = op /\ Locals(op, f, v).field = f
           /\ Locals(op, f, v).val = v /\ Locals(op, f, v).rec = None
BY DEF Locals, NoLocals, LocalFields

\* A handler starts: the shared variables stay as they are.
LEMMA Started ==
    ASSUME RecordInv, NEW p \in Procs, NEW step, NEW l, Start(p, step, l), DOMAIN l = LocalFields,
           l.rec = None, Suits(l), Takes(l.op, step), ~ HasLock(step, l),
           step \notin {"idle", "merge", "assigned"}
    PROVE  RecordInv'
<1>1. LocalAt(step, l)
  BY DEF LocalAt, Sound, Rec, Known, Holds
<1>2. /\ Goto(p, step, l) /\ pc[p] = "idle"
      /\ UNCHANGED <<doc, cached, lock, pref>>
      /\ hist' = [hist EXCEPT !.overlap = Overlaps, !.clientsOnly = @ /\ l.op = "client"]
  BY DEF Start, Idle, At
<1>3. HistShape' /\ hist'.written = hist.written
  BY <1>2 DEF RecordInv, Shared, HistShape
<1>4. ~ HasLock(pc[p], loc[p])
  BY <1>2 DEF HasLock, Reading
<1> QED
  BY <1>1, <1>2, <1>3, <1>4, SharedSame, Landed DEF Lands, RecordInv

\* The document is the written one, or as before.
Applied(d) == doc' = d /\ hist'.written = Stored(d)
Unapplied  == doc' = doc /\ hist'.written = hist.written
\* What a write does: it is applied, fails, or is applied and its answer is lost.
LEMMA WriteEffect ==
    ASSUME HistShape, NEW p \in Procs, NEW d, NEW step, NEW err, Write(p, d, step, err)
    PROVE  /\ HistShape' /\ hist'.overlap = hist.overlap /\ hist'.given = hist.given
           /\ hist'.gone = hist.gone
           /\ \/ /\ Applied(d) /\ Then(p, step) /\ hist'.clientsOnly = hist.clientsOnly
                 /\ hist'.lost = hist.lost /\ hist'.failed = hist.failed
              \/ /\ Unapplied /\ Then(p, err) /\ hist'.clientsOnly = FALSE
                 /\ hist'.lost = hist.lost /\ hist'.failed = TRUE
              \/ /\ Applied(d) /\ Then(p, err) /\ hist'.clientsOnly = FALSE
                 /\ hist'.lost = TRUE /\ hist'.failed = TRUE
<1>1. DOMAIN Stored(d) = Scalars
  BY DEF Stored
<1> HIDE DEF Stored
<1>2. CASE Store(d) /\ Then(p, step)
  BY <1>1, <1>2 DEF Store, Applied, HistShape
<1>3. CASE Fails /\ UNCHANGED doc /\ Then(p, err)
  BY <1>3 DEF Fails, Unapplied, HistShape
<1>4. CASE /\ doc' = d
           /\ hist' = [hist EXCEPT !.failed = TRUE, !.lost = TRUE,
                                   !.clientsOnly = FALSE, !.written = Stored(d)]
           /\ Then(p, err)
  BY <1>1, <1>4 DEF Applied, HistShape
<1> QED
  BY <1>2, <1>3, <1>4 DEF Write

\* After it the document is known.
LEMMA WriteKeeps ==
    ASSUME Shared, HistShape', NEW d, Rec(d), Applied(d) \/ Unapplied,
           UNCHANGED <<cached, pref>>
    PROVE  /\ Shared' /\ Grown
           /\ Applied(d) => \A f \in Scalars : Holds(d, f) => d[f] \in hist'.written[f]
<1>1. \A f \in Scalars : Stored(d)[f] = hist.written[f] \cup {Field(d, f, Unset)}
  BY DEF Stored
<1>2. Grown
  BY <1>1 DEF Grown, Applied, Unapplied
<1>3. Applied(d) => \A f \in Scalars : Holds(d, f) => d[f] \in hist'.written[f]
  BY <1>1 DEF Applied, Field, Holds
<1>4. Applied(d) => (Rec(doc) /\ Known(doc))'
  BY <1>3 DEF Applied, Rec, Known
<1>5. Shared'
  BY <1>2, <1>4, SharedAfter DEF Unapplied
<1> QED
  BY <1>2, <1>3, <1>5

\* A failed call is noted.
LEMMA FailsEffect ==
    ASSUME HistShape, Fails
    PROVE  /\ HistShape' /\ hist'.written = hist.written /\ hist'.overlap = hist.overlap
           /\ hist'.given = hist.given /\ hist'.lost = hist.lost
           /\ hist'.gone = hist.gone
           /\ hist'.failed = TRUE /\ hist'.clientsOnly = FALSE
BY DEF Fails, HistShape

\* So is one that leaves the cache behind.
LEMMA MissesEffect ==
    ASSUME HistShape, Misses
    PROVE  /\ HistShape' /\ hist'.written = hist.written /\ hist'.overlap = hist.overlap
           /\ hist'.given = hist.given /\ hist'.gone = hist.gone
           /\ hist'.lost = TRUE /\ hist'.failed = TRUE /\ hist'.clientsOnly = FALSE
BY DEF Misses, HistShape

\* What a handler starts with suits the operation it is.
LEMMA BeginRecord ==
    ASSUME RecordInv, NEW p \in Procs, Begin(p)
    PROVE  RecordInv'
<1> USE StartLocals DEF Takes, HasLock, Suits, Reading
<1>1. CASE ReadSetting(p)
  BY <1>1, Started DEF ReadSetting
<1>2. ASSUME NEW v \in Modes, Start(p, "update", Locals("set", "play_mode", v)) PROVE RecordInv'
  BY <1>2, Started
<1>3. ASSUME NEW u \in Users, Start(p, "lookup", Locals("add?", "auth_users", u))
      PROVE  RecordInv'
  BY <1>3, Started
<1>4. ASSUME NEW u \in Users, Start(p, "pull", Locals("remove", "auth_users", u))
      PROVE  RecordInv'
  BY <1>4, Started
<1>5. ASSUME NEW u \in Users, Start(p, "lookup", Locals("remove?", "auth_users", u))
      PROVE  RecordInv'
  BY <1>5, Started
<1>6. ASSUME NEW c \in Clients, Start(p, "assign", Locals("client", "assistant", c))
      PROVE  RecordInv'
  BY <1>6, Started
<1>7. CASE AddChat(p)
  BY <1>7, Started DEF AddChat
<1>8. CASE GetAllChats(p)
  BY <1>8, Started DEF GetAllChats
<1>9. CASE ClearAllAssistants(p)
  BY <1>9, Started DEF ClearAllAssistants
<1>10. DOMAIN pref = Keys
  BY DEF RecordInv, Shared, PrefShape
<1>11. ASSUME NEW k \in Keys, Start(p, "status", Locals("get", k, FALSE)) PROVE RecordInv'
  <2> DEFINE l == Locals("get", k, FALSE)
  <2>1. DOMAIN l = LocalFields /\ l.op = "get" /\ l.field = k /\ l.rec = None
    BY DEF Locals, NoLocals, LocalFields
  <2>2. l.val \in BOOLEAN
    BY DEF Locals, NoLocals
  <2>3. Start(p, "status", l)
    BY <1>11
  <2> HIDE DEF l
  <2> QED
    BY <1>10, <2>1, <2>2, <2>3, Started
<1>12. ASSUME NEW k \in Keys, Start(p, "status", Locals("toggle", k, FALSE)) PROVE RecordInv'
  <2> DEFINE l == Locals("toggle", k, FALSE)
  <2>1. DOMAIN l = LocalFields /\ l.op = "toggle" /\ l.field = k /\ l.rec = None
    BY DEF Locals, NoLocals, LocalFields
  <2>2. l.val \in BOOLEAN
    BY DEF Locals, NoLocals
  <2>3. Start(p, "status", l)
    BY <1>12
  <2> HIDE DEF l
  <2> QED
    BY <1>10, <2>1, <2>2, <2>3, Started
<1>13. CASE AddUser(p)
  <2> DEFINE l == Locals("adduser", "autoplay", FALSE)
  <2>1. DOMAIN l = LocalFields /\ l.op = "adduser" /\ l.field = "autoplay" /\ l.rec = None
    BY DEF Locals, NoLocals, LocalFields
  <2>2. l.val \in BOOLEAN
    BY DEF Locals, NoLocals
  <2>3. Start(p, "user", l)
    BY <1>13 DEF AddUser
  <2> HIDE DEF l
  <2> QED
    BY <1>10, <2>1, <2>2, <2>3, Started
<1>14. CASE GetAllUsers(p)
  <2> DEFINE l == Locals("users", "autoplay", FALSE)
  <2>1. DOMAIN l = LocalFields /\ l.op = "users" /\ l.field = "autoplay" /\ l.rec = None
    BY DEF Locals, NoLocals, LocalFields
  <2>2. l.val \in BOOLEAN
    BY DEF Locals, NoLocals
  <2>3. Start(p, "scan", l)
    BY <1>14 DEF GetAllUsers
  <2> HIDE DEF l
  <2> QED
    BY <1>10, <2>1, <2>2, <2>3, Started
<1> QED
  BY <1>1, <1>2, <1>3, <1>4, <1>5, <1>6, <1>7, <1>8, <1>9, <1>10, <1>11, <1>12, <1>13, <1>14
     DEF Begin, SettingsCallback, AddAuthHandler, RemoveAuthHandler, GetClientName,
         GetStatus, Toggle

\* A change of a preference's document or entry.
LEMMA PrefSet ==
    ASSUME Shared, NEW k \in Keys, NEW part \in {"doc", "cached"}, NEW r, Pref(r),
           pref' = [pref EXCEPT ![k][part] = r], UNCHANGED <<doc, cached>>,
           HistShape', hist'.written = hist.written
    PROVE  Shared' /\ Grown
<1>1. /\ DOMAIN pref' = Keys /\ \A j \in Keys \ {k} : pref'[j] = pref[j]
      /\ DOMAIN pref'[k] = {"doc", "cached"} /\ pref'[k][part] = r
      /\ \A x \in {"doc", "cached"} \ {part} : pref'[k][x] = pref[k][x]
  BY DEF Shared, PrefShape
<1>2. PrefShape'
  BY <1>1 DEF Shared, PrefShape
<1>3. /\ pref[k].doc = pref[k]["doc"] /\ pref[k].cached = pref[k]["cached"]
      /\ pref'[k].doc = pref'[k]["doc"] /\ pref'[k].cached = pref'[k]["cached"]
  OBVIOUS
<1>4. Pref(pref'[k].doc) /\ Pref(pref'[k].cached)
  <2>1. CASE part = "doc"
    BY <1>1, <1>3, <2>1 DEF Shared
  <2>2. CASE part = "cached"
    BY <1>1, <1>3, <2>2 DEF Shared
  <2> QED
    BY <2>1, <2>2
<1>5. \A j \in Keys : Pref(pref'[j].doc) /\ Pref(pref'[j].cached)
  BY <1>1, <1>4 DEF Shared
<1>6. Known(doc)' /\ Known(cached)' /\ Rec(doc)' /\ Rec(cached)' /\ Grown
  BY DEF Shared, Known, Rec, Grown
<1>7. \A j \in Keys : (Pref(pref[j].doc) /\ Pref(pref[j].cached))'
  BY <1>5 DEF Pref
<1> QED
  BY <1>2, <1>6, <1>7 DEF Shared

\* A step of a handler.
LEMMA ContinueRecord ==
    ASSUME RecordInv, NEW p \in Procs, Continue(p)
    PROVE  RecordInv'
<1>1. /\ LocalAt(pc[p], loc[p]) /\ DOMAIN loc[p] = LocalFields
      /\ HistShape /\ Shared /\ Rec(loc[p].rec) /\ Known(loc[p].rec)
      /\ Takes(Op(p), pc[p]) /\ Suits(loc[p])
  BY DEF RecordInv, PrivateShape, LocalAt, Sound, Shared, Op
\* It only moves.
<1>2. ASSUME NEW step, NEW l, Lands(p, step, l), UNCHANGED <<doc, cached, lock, pref>>,
             hist' = hist \/ (HistShape' /\ hist'.written = hist.written)
      PROVE  RecordInv'
  <2>1. HistShape' /\ hist'.written = hist.written
    BY <1>1, <1>2 DEF HistShape
  <2> QED
    BY <1>1, <1>2, <2>1, SharedSame, Landed
<1>3. ASSUME NEW step, Then(p, step), step \notin {"merge", "assigned"},
             step # "idle" => Takes(Op(p), step),
             HasLock(pc[p], loc[p]) <=> step # "idle" /\ HasLock(step, loc[p])
      PROVE  Lands(p, step, loc[p])
  BY <1>1, <1>3 DEF Lands, Then, LocalAt, Sound, Op
<1>4. ASSUME NEW step, NEW r, Rec(r), Known(r), step \in Reading, pc[p] \in Reading,
             Goto(p, step, [loc[p] EXCEPT !.rec = r])
      PROVE  Lands(p, step, [loc[p] EXCEPT !.rec = r])
  <2> DEFINE l == [loc[p] EXCEPT !.rec = r]
  <2>1. /\ DOMAIN l = LocalFields /\ l.op = loc[p].op /\ l.field = loc[p].field
        /\ l.val = loc[p].val /\ l.rec = r
    BY <1>1 DEF LocalFields
  <2> HIDE DEF l
  <2>2. LocalAt(step, l)
    BY <1>1, <1>4, <2>1 DEF LocalAt, Sound, Takes, Suits, Reading, Op
  <2>3. HasLock(pc[p], loc[p]) <=> step # "idle" /\ HasLock(step, l)
    BY <1>4, <2>1 DEF HasLock, Reading
  <2> QED
    BY <1>4, <2>1, <2>2, <2>3 DEF Lands, l
<1> USE DEF At, Op, HasLock, Reading, Takes
<1>5. CASE Lookup(p)
  <2>1. CASE cached # None
    BY <1>1, <1>2, <1>4, <1>5, <2>1 DEF Lookup, Shared
  <2>2. CASE cached = None
    BY <1>1, <1>2, <1>3, <1>5, <2>2 DEF Lookup
  <2> QED
    BY <2>1, <2>2
<1>6. CASE Find(p)
  <2>1. CASE Answers /\ Goto(p, IF doc = None THEN "have" ELSE "fill",
                             [loc[p] EXCEPT !.rec = doc])
    <3>1. ASSUME NEW step \in {"have", "fill"}, Goto(p, step, [loc[p] EXCEPT !.rec = doc])
          PROVE  Lands(p, step, [loc[p] EXCEPT !.rec = doc])
      BY <1>1, <1>4, <1>6, <3>1 DEF Find, Shared
    <3>2. CASE Goto(p, "have", [loc[p] EXCEPT !.rec = doc])
      BY <1>2, <1>6, <2>1, <3>1, <3>2 DEF Find, Answers
    <3>3. CASE Goto(p, "fill", [loc[p] EXCEPT !.rec = doc])
      BY <1>2, <1>6, <2>1, <3>1, <3>3 DEF Find, Answers
    <3> QED
      BY <2>1, <3>2, <3>3
  <2>2. CASE Fails /\ Goto(p, "have", [loc[p] EXCEPT !.rec = None])
    <3>1. Rec(None) /\ Known(None)
      BY DEF Rec, Known, Holds
    <3> QED
      BY <1>1, <1>2, <1>4, <1>6, <2>2, <3>1, FailsEffect DEF Find
  <2> QED
    BY <1>6, <2>1, <2>2 DEF Find
<1>7. CASE Fill(p)
  <2>1. HistShape' /\ Grown /\ hist' = hist
    BY <1>1, <1>7 DEF Fill, Grown, HistShape
  <2>2. Shared'
    BY <1>1, <1>7, <2>1, SharedAfter DEF Fill, Rec, Known
  <2> QED
    BY <1>1, <1>3, <1>7, <2>1, <2>2, Landed DEF Fill
<1>8. CASE SettingRead(p)
  BY <1>1, <1>2, <1>3, <1>8 DEF SettingRead, Has, Return
<1>9. CASE ChatKnown(p)
  BY <1>1, <1>2, <1>3, <1>9 DEF ChatKnown, Has, Return
<1>10. ASSUME NEW op \in {"add", "remove"}, NEW step, step \in {"push", "pull"}, Takes(op, step),
              pc[p] = "have", Op(p) \in {"add?", "remove?"},
              Goto(p, step, [loc[p] EXCEPT !.op = op, !.rec = None])
       PROVE  Lands(p, step, [loc[p] EXCEPT !.op = op, !.rec = None])
  <2> DEFINE l == [loc[p] EXCEPT !.op = op, !.rec = None]
  <2>1. /\ DOMAIN l = LocalFields /\ l.op = op /\ l.val = loc[p].val /\ l.rec = None
    BY <1>1 DEF LocalFields
  <2> HIDE DEF l
  <2>2. LocalAt(step, l)
    BY <1>1, <1>10, <2>1 DEF LocalAt, Sound, Suits, Rec, Known, Holds
  <2> QED
    BY <1>10, <2>1, <2>2 DEF Lands, l
<1>11. CASE NotYetAuthorised(p)
  <2>1. CASE loc[p].val \in Auth(loc[p].rec)
    BY <1>1, <1>2, <1>3, <1>11, <2>1 DEF NotYetAuthorised, Has, Return
  <2>2. CASE loc[p].val \notin Auth(loc[p].rec)
    BY <1>1, <1>2, <1>10, <1>11, <2>2 DEF NotYetAuthorised, Has
  <2> QED
    BY <2>1, <2>2
<1>12. CASE StillAuthorised(p)
  <2>1. CASE loc[p].val \notin Auth(loc[p].rec)
    BY <1>1, <1>2, <1>3, <1>12, <2>1 DEF StillAuthorised, Has, Return
  <2>2. CASE loc[p].val \in Auth(loc[p].rec)
    BY <1>1, <1>2, <1>10, <1>12, <2>2 DEF StillAuthorised, Has
  <2> QED
    BY <2>1, <2>2
\* A write whose value is not looked for in the cache.
<1>13. ASSUME NEW d, Rec(d), NEW step, NEW err, Write(p, d, step, err),
              UNCHANGED <<cached, lock, pref>>,
              \A next \in {step, err} :
                 /\ next \notin {"merge", "assigned"} /\ (next # "idle" => Takes(Op(p), next))
                 /\ HasLock(pc[p], loc[p]) <=> next # "idle" /\ HasLock(next, loc[p])
       PROVE  RecordInv'
  <2>1. /\ HistShape' /\ (Applied(d) \/ Unapplied)
        /\ Then(p, step) \/ Then(p, err)
    BY <1>1, <1>13, WriteEffect
  <2>2. Shared' /\ Grown
    BY <1>1, <1>13, <2>1, WriteKeeps DEF Applied
  <2> QED
    BY <1>3, <1>13, <2>1, <2>2, Landed
<1>14. CASE Insert(p)
  <2>1. Rec(IF doc = None THEN NoFields ELSE doc)
    BY <1>1, EmptyLaw DEF Shared, Rec
  <2> QED
    BY <1>1, <1>13, <1>14, <2>1 DEF Insert
\* A write of a scalar: the value is known before it is merged into the entry.
<1>15. ASSUME NEW f \in Scalars, loc[p].val \in ScalarValues, NEW step, NEW err,
              Write(p, With(doc, f, loc[p].val), step, err), UNCHANGED <<cached, lock, pref>>,
              Takes(Op(p), step), Takes(Op(p), err), err \notin {"merge", "assigned", "idle"},
              step # "idle",
              step = "merge" => f = loc[p].field, step = "assigned" => f = "assistant",
              ~ HasLock(pc[p], loc[p]), ~ HasLock(step, loc[p]), ~ HasLock(err, loc[p])
       PROVE  RecordInv'
  <2> DEFINE d == With(doc, f, loc[p].val)
  <2>1. Rec(d) /\ Holds(d, f) /\ d[f] = loc[p].val
    <3>1. f \in Fields /\ f # "auth_users"
      BY <1>15 DEF Fields, Scalars
    <3> QED
      <4>1. IsDoc(With(doc, f, loc[p].val))
        BY <1>1, <1>15, <3>1, WithLaw DEF Shared
      <4>2. Holds(With(doc, f, loc[p].val), f)
        BY <1>1, <1>15, <3>1, WithLaw DEF Shared
      <4>3. With(doc, f, loc[p].val)[f] = loc[p].val
        BY <1>1, <1>15, <3>1, <4>2, WithLaw DEF Shared
      <4> QED
        BY <4>1, <4>2, <4>3 DEF Rec
  <2> HIDE DEF d
  <2>2. /\ HistShape'
        /\ \/ Applied(d) /\ Then(p, step)
           \/ (Applied(d) \/ Unapplied) /\ Then(p, err)
    BY <1>1, <1>15, WriteEffect DEF d
  <2>3. /\ Shared' /\ Grown
        /\ Applied(d) => loc[p].val \in hist'.written[f]
    BY <1>1, <1>15, <2>1, <2>2, WriteKeeps
  <2>4. CASE Applied(d) /\ Then(p, step)
    <3>1. Sound(step, loc[p])
      BY <1>1, <1>15 DEF Sound
    <3> QED
      BY <1>1, <1>15, <2>3, <2>4, <3>1, Moved DEF Then, RecordInv
  <2>5. CASE Then(p, err)
    BY <1>1, <1>3, <1>15, <2>3, <2>5, Landed
  <2> QED
    BY <2>2, <2>4, <2>5
<1>16. CASE UpdateChatField(p)
  <2>1. loc[p].field \in Scalars /\ loc[p].val \in ScalarValues /\ Op(p) \in {"set", "client"}
    BY <1>1, <1>16 DEF UpdateChatField, Suits, Scalars, ScalarValues
  <2> QED
    BY <1>15, <1>16, <2>1 DEF UpdateChatField
<1>17. CASE Merge(p)
  <2>1. loc[p].field \in Scalars /\ loc[p].val \in ScalarValues /\ Op(p) \in {"set", "client"}
    BY <1>1, <1>17 DEF Merge, Suits, Scalars, ScalarValues
  <2>2. loc[p].val \in hist.written[loc[p].field]
    BY <1>1, <1>17 DEF Merge, LocalAt, Sound
  <2>3. HistShape' /\ Grown /\ hist' = hist
    BY <1>1, <1>17 DEF Merge, Grown, HistShape
  <2>4. IsDoc(With(cached, loc[p].field, loc[p].val))
    BY <1>1, <2>1, WithLaw DEF Shared, Fields, Scalars
  <2>5. \A f \in Scalars : Holds(With(cached, loc[p].field, loc[p].val), f) =>
           With(cached, loc[p].field, loc[p].val)[f] \in hist.written[f]
    BY <1>1, <2>1, <2>2, WithLaw DEF Shared, Fields, Scalars, Known
  <2>6. (Rec(cached) /\ Known(cached))'
    BY <1>17, <2>3, <2>4, <2>5 DEF Merge, Rec, Known
  <2>7. Shared'
    BY <1>1, <1>17, <2>3, <2>6, SharedAfter DEF Merge
  <2> QED
    BY <1>3, <1>17, <2>1, <2>3, <2>7, Landed DEF Merge
<1>18. CASE AddAuthUser(p)
  <2>1. loc[p].val \in Users
    BY <1>1, <1>18 DEF AddAuthUser, Suits
  <2>2. Rec(With(doc, "auth_users", Auth(doc) \cup {loc[p].val}))
    BY <1>1, <2>1, AuthLaw, WithLaw DEF Shared, Rec, Fields
  <2> QED
    BY <1>1, <1>13, <1>18, <2>2 DEF AddAuthUser
<1>19. CASE RemoveAuthUser(p)
  <2> DEFINE d == IF doc = None \/ "auth_users" \notin DOMAIN doc THEN doc
                  ELSE With(doc, "auth_users", Auth(doc) \ {loc[p].val})
  <2>1. Rec(d)
    BY <1>1, AuthLaw, WithLaw DEF Shared, Rec, Fields
  <2>2. Write(p, d, "lock", "idle") /\ UNCHANGED <<cached, lock, pref>> /\ pc[p] = "pull"
    BY <1>19 DEF RemoveAuthUser
  <2> HIDE DEF d
  <2> QED
    BY <1>1, <1>13, <2>1, <2>2
<1>20. CASE Acquire(p)
  <2>1. /\ Goto(p, "lookup", loc[p]) /\ lock = None /\ lock' = p
        /\ UNCHANGED <<doc, cached, pref, hist>> /\ Op(p) \in {"add", "remove"}
    BY <1>1, <1>20 DEF Acquire, Then
  <2>2. Shared' /\ Grown
    BY <1>1, <2>1, SharedSame DEF HistShape
  <2>3. Sound("lookup", loc[p])
    BY <1>1, <2>1 DEF Sound
  <2>4. \A q \in Procs \ {p} : lock' = q <=> lock = q
    BY <2>1, ConstantsAssumption
  <2> QED
    BY <1>1, <2>1, <2>2, <2>3, <2>4, Moved
<1>21. CASE CacheAuth(p)
  <2>1. HistShape' /\ Grown /\ hist' = hist
    BY <1>1, <1>21 DEF CacheAuth, Grown, HistShape
  <2>2. loc[p].val \in Users
    BY <1>1, <1>21 DEF CacheAuth, Suits
  <2>3. NewAuth(p) \subseteq Users
    BY <1>1, <2>2, AuthLaw DEF NewAuth
  <2>4. ASSUME loc[p].rec # None
        PROVE  (Rec(cached) /\ Known(cached))'
    <3> DEFINE w == With(loc[p].rec, "auth_users", NewAuth(p))
    <3>1. IsDoc(w) /\ \A f \in Scalars : Holds(w, f) => w[f] \in hist.written[f]
      BY <1>1, <2>3, WithLaw DEF Fields, Scalars, Known
    <3>2. cached' = w
      BY <1>21, <2>4 DEF CacheAuth
    <3> HIDE DEF w
    <3> QED
      BY <2>1, <3>1, <3>2 DEF Rec, Known
  <2>5. Shared'
    BY <1>1, <1>21, <2>1, <2>4, SharedAfter DEF CacheAuth
  <2>6. lock = p /\ \A q \in Procs \ {p} : lock' = q <=> lock = q
    BY <1>1, <1>21, ConstantsAssumption DEF RecordInv, CacheAuth
  <2>7. lock' # p
    BY <1>21, ConstantsAssumption DEF CacheAuth
  <2> QED
    BY <1>21, <2>1, <2>5, <2>6, <2>7, Moved DEF CacheAuth, Return, Then
<1>22. CASE Assign(p)
  <2>1. loc[p].val \in ScalarValues /\ "assistant" \in Scalars
    BY <1>1, <1>22 DEF Assign, Suits, ScalarValues, Scalars
  <2>2. CASE Field(doc, "assistant", Unset) = Unset
    BY <1>1, <1>15, <1>22, <2>1, <2>2 DEF Assign
  <2>3. CASE Field(doc, "assistant", Unset) # Unset /\ Answers /\ Then(p, "drop")
    BY <1>1, <1>2, <1>3, <1>22, <2>3 DEF Assign, Answers
  <2>4. CASE Field(doc, "assistant", Unset) # Unset /\ Fails /\ Then(p, "update")
    BY <1>1, <1>2, <1>3, <1>22, <2>4, FailsEffect DEF Assign
  <2> QED
    BY <1>22, <2>2, <2>3, <2>4 DEF Assign
<1>23. CASE CacheAssigned(p)
  <2>1. loc[p].val \in ScalarValues /\ loc[p].val \in hist.written["assistant"]
    BY <1>1, <1>23 DEF CacheAssigned, Suits, ScalarValues, LocalAt, Sound
  <2>2. HistShape' /\ Grown /\ hist' = hist
    BY <1>1, <1>23 DEF CacheAssigned, Grown, HistShape
  <2>3. (Rec(cached) /\ Known(cached))'
    <3>1. CASE cached = None
      BY <1>23, <3>1 DEF CacheAssigned, Rec, Known, Holds
    <3>2. CASE cached # None
      <4> DEFINE w == With(cached, "assistant", loc[p].val)
      <4>1. IsDoc(w) /\ \A f \in Scalars : Holds(w, f) => w[f] \in hist.written[f]
        BY <1>1, <2>1, WithLaw DEF Shared, Fields, Scalars, Known
      <4>2. cached' = w
        BY <1>23, <3>2 DEF CacheAssigned
      <4> HIDE DEF w
      <4> QED
        BY <2>2, <4>1, <4>2 DEF Rec, Known
    <3> QED
      BY <3>1, <3>2
  <2>4. Shared'
    BY <1>1, <1>23, <2>2, <2>3, SharedAfter DEF CacheAssigned
  <2> QED
    BY <1>1, <1>3, <1>23, <2>2, <2>4, Landed DEF CacheAssigned
<1>24. ASSUME cached' \in {None, NoFields}, hist' = hist, UNCHANGED <<doc, lock, pref>>
       PROVE  Shared' /\ Grown
  <2>1. HistShape' /\ Grown
    BY <1>1, <1>24 DEF Grown, HistShape
  <2>2. (Rec(cached) /\ Known(cached))'
    BY <1>24, EmptyLaw DEF Rec, Known, Holds
  <2> QED
    BY <1>1, <1>24, <2>1, <2>2, SharedAfter
<1>25. CASE DropEntry(p)
  BY <1>1, <1>3, <1>24, <1>25, Landed DEF DropEntry
<1>26. CASE EmptyEntry(p)
  BY <1>1, <1>3, <1>24, <1>26, Landed DEF EmptyEntry, Return
<1>27. CASE Assigned(p)
  <2>1. ASSUME NEW a \in Clients, Goto(p, "given", [loc[p] EXCEPT !.val = a]),
               pc[p] = "have", Op(p) = "client"
        PROVE  Lands(p, "given", [loc[p] EXCEPT !.val = a])
    <3> DEFINE l == [loc[p] EXCEPT !.val = a]
    <3>1. /\ DOMAIN l = LocalFields /\ l.op = "client" /\ l.field = loc[p].field
          /\ l.val = a /\ l.rec = loc[p].rec
      BY <1>1, <2>1 DEF LocalFields
    <3> HIDE DEF l
    <3>2. LocalAt("given", l)
      BY <1>1, <2>1, <3>1 DEF LocalAt, Sound, Suits
    <3> QED
      BY <2>1, <3>1, <3>2 DEF Lands, l
  <2> DEFINE b == Field(loc[p].rec, "assistant", Unset)
  <2>2. CASE b \in Clients
    BY <1>1, <1>2, <1>27, <2>1, <2>2 DEF Assigned, Has
  <2>3. CASE b \notin Clients
    BY <1>1, <1>2, <1>3, <1>27, <2>3 DEF Assigned, Has
  <2> QED
    BY <2>2, <2>3
<1>28. CASE Given(p)
  BY <1>1, <1>2, <1>3, <1>28 DEF Given, Return, HistShape
<1>29. CASE Scan(p)
  <2>1. CASE Fails /\ Then(p, "idle")
    BY <1>1, <1>2, <1>3, <1>29, <2>1, FailsEffect DEF Scan
  <2>2. CASE Answers /\ Op(p) = "chats" /\ Then(p, IF doc = None THEN "idle" ELSE "empty")
    BY <1>1, <1>2, <1>3, <1>29, <2>2 DEF Scan, Answers
  <2>3. CASE Answers /\ Op(p) = "users" /\ Then(p, IF pref["autoplay"].doc = None
                                                  THEN "idle" ELSE "emptyuser")
    BY <1>1, <1>2, <1>3, <1>29, <2>3 DEF Scan, Answers
  <2>4. ASSUME Answers \/ Misses, Op(p) = "clear", NEW b,
               Goto(p, "unset", [loc[p] EXCEPT !.val = b])
        PROVE  RecordInv'
    <3> DEFINE l == [loc[p] EXCEPT !.val = b]
    <3>1. DOMAIN l = LocalFields /\ l.op = "clear" /\ l.rec = loc[p].rec
      BY <1>1, <2>4 DEF LocalFields
    <3>2. Goto(p, "unset", l)
      BY <2>4
    <3> HIDE DEF l
    <3>3. LocalAt("unset", l)
      BY <1>1, <3>1 DEF LocalAt, Sound, Suits
    <3>4. Lands(p, "unset", l) /\ UNCHANGED <<doc, cached, lock, pref>>
      BY <1>1, <1>29, <2>4, <3>1, <3>2, <3>3 DEF Lands, Scan
    <3>5. hist' = hist \/ (HistShape' /\ hist'.written = hist.written)
      BY <1>1, <2>4, MissesEffect DEF Answers
    <3> QED
      BY <1>2, <3>4, <3>5
  <2> QED
    BY <1>29, <2>1, <2>2, <2>3, <2>4 DEF Scan
<1>30. CASE UnsetAssistants(p)
  <2> DEFINE d == IF doc = None THEN doc ELSE [f \in DOMAIN doc \ {"assistant"} |-> doc[f]]
  <2>1. Rec(d)
    BY <1>1, UnsetLaw DEF Shared, Rec
  <2>2. /\ Write(p, d, IF loc[p].val THEN "drop" ELSE "idle", "idle")
        /\ UNCHANGED <<cached, lock, pref>> /\ pc[p] = "unset"
    BY <1>30 DEF UnsetAssistants
  <2> HIDE DEF d
  <2> QED
    BY <1>1, <1>13, <2>1, <2>2
\* A step on a preference that reads or sets a Boolean.
<1>31. ASSUME NEW b \in BOOLEAN, NEW step \in {"keep", "got", "setpref"},
              Op(p) \in {"get", "toggle"}, step = "setpref" => Op(p) = "toggle",
              Goto(p, step, [loc[p] EXCEPT !.val = b])
       PROVE  Lands(p, step, [loc[p] EXCEPT !.val = b])
  <2> DEFINE l == [loc[p] EXCEPT !.val = b]
  <2>1. /\ DOMAIN l = LocalFields /\ l.op = loc[p].op /\ l.field = loc[p].field
        /\ l.val = b /\ l.rec = loc[p].rec
    BY <1>1 DEF LocalFields
  <2> HIDE DEF l
  <2>2. l.field \in Keys /\ l.val \in BOOLEAN
    BY <1>1, <1>31, <2>1 DEF Suits
  <2>3. LocalAt(step, l)
    BY <1>1, <1>31, <2>1, <2>2 DEF LocalAt, Sound, Suits
  <2> QED
    BY <1>31, <2>1, <2>3 DEF Lands, l
<1>32. CASE Status(p)
  <2>1. Op(p) \in {"get", "toggle"} /\ loc[p].field \in Keys
    BY <1>1, <1>32 DEF Status, Suits
  <2> DEFINE e == pref[loc[p].field].cached
             b == Field(pref[loc[p].field].doc, "on", FALSE)
  <2>2. Holds(e, "on") => e.on \in BOOLEAN
    <3>1. Pref(e)
      BY <1>1, <2>1 DEF Shared
    <3> HIDE DEF e
    <3> QED
      BY <3>1, PrefLaw
  <2>3. b \in BOOLEAN
    <3>1. Pref(pref[loc[p].field].doc)
      BY <1>1, <2>1 DEF Shared
    <3> QED
      BY <3>1, PrefLaw DEF Field, Holds
  <2> HIDE DEF b
  <2>4. CASE Holds(e, "on")
    <3>1. Goto(p, "got", [loc[p] EXCEPT !.val = e.on]) /\ UNCHANGED <<faults, hist>>
      BY <1>32, <2>4 DEF Status, Holds, Key
    <3> HIDE DEF e
    <3> QED
      BY <1>2, <1>31, <1>32, <2>1, <2>2, <2>4, <3>1 DEF Status
  <2>5. CASE ~ Holds(e, "on")
    <3>1. \/ Answers /\ Goto(p, "keep", [loc[p] EXCEPT !.val = b])
          \/ Fails /\ Goto(p, "keep", [loc[p] EXCEPT !.val = FALSE])
      BY <1>32, <2>5 DEF Status, Holds, Key, b
    <3> HIDE DEF e
    <3>2. CASE Answers /\ Goto(p, "keep", [loc[p] EXCEPT !.val = b])
      BY <1>2, <1>31, <1>32, <2>1, <2>3, <3>2 DEF Status, Answers
    <3>3. CASE Fails /\ Goto(p, "keep", [loc[p] EXCEPT !.val = FALSE])
      <4>1. Lands(p, "keep", [loc[p] EXCEPT !.val = FALSE])
        BY <1>31, <2>1, <3>3
      <4> QED
        BY <1>1, <1>2, <1>32, <3>3, <4>1, FailsEffect DEF Status
    <3> QED
      BY <3>1, <3>2, <3>3
  <2> QED
    BY <2>4, <2>5
\* The document or the entry of a preference is set.
<1>33. ASSUME NEW k \in Keys, NEW part \in {"doc", "cached"}, NEW r, Pref(r),
              pref' = [pref EXCEPT ![k][part] = r], UNCHANGED <<doc, cached, lock>>,
              hist' = hist \/ Fails, NEW step, Lands(p, step, loc[p])
       PROVE  RecordInv'
  <2>1. HistShape' /\ hist'.written = hist.written
    <3>1. CASE hist' = hist
      BY <1>1, <3>1 DEF HistShape
    <3> QED
      BY <1>1, <1>33, <3>1, FailsEffect
  <2>2. Shared' /\ Grown
    BY <1>1, <1>33, <2>1, PrefSet
  <2> QED
    BY <1>33, <2>2, Landed
<1>34. ASSUME Op(p) \in {"get", "toggle"}
       PROVE  loc[p].field \in Keys /\ Pref([on |-> loc[p].val])
  <2>1. loc[p].field \in Keys /\ loc[p].val \in BOOLEAN
    BY <1>1, <1>34 DEF Suits
  <2> QED
    BY <2>1, OnLaw DEF Pref
<1>35. CASE KeepStatus(p)
  <2>1. Op(p) \in {"get", "toggle"}
    BY <1>1, <1>35 DEF KeepStatus
  <2>2. Lands(p, "got", loc[p])
    BY <1>3, <1>35, <2>1 DEF KeepStatus
  <2> QED
    BY <1>33, <1>34, <1>35, <2>1, <2>2 DEF KeepStatus, SetPref, Key
<1>36. CASE GotStatus(p)
  <2>1. Op(p) \in {"get", "toggle"}
    BY <1>1, <1>36 DEF GotStatus
  <2>2. CASE Return(p)
    BY <1>2, <1>3, <1>36, <2>1, <2>2 DEF GotStatus, Return
  <2>3. ASSUME Op(p) = "toggle", NEW b \in BOOLEAN,
               Goto(p, "setpref", [loc[p] EXCEPT !.val = b])
        PROVE  RecordInv'
    BY <1>2, <1>31, <1>36, <2>1, <2>3 DEF GotStatus
  <2> QED
    BY <1>36, <2>2, <2>3 DEF GotStatus
<1>37. CASE SetStatus(p)
  <2>1. Op(p) = "toggle"
    BY <1>1, <1>37 DEF SetStatus
  <2>2. CASE Answers /\ SetPref(p, "doc", [on |-> loc[p].val]) /\ Then(p, "mergepref")
    <3>1. Lands(p, "mergepref", loc[p])
      BY <1>3, <1>37, <2>1, <2>2 DEF SetStatus
    <3> QED
      BY <1>33, <1>34, <1>37, <2>1, <2>2, <3>1 DEF SetStatus, SetPref, Key, Answers
  <2>3. CASE Fails /\ UNCHANGED pref /\ Return(p)
    BY <1>1, <1>2, <1>3, <1>37, <2>1, <2>3, FailsEffect DEF SetStatus, Return
  <2>4. CASE Fails /\ SetPref(p, "doc", [on |-> loc[p].val]) /\ Return(p)
    <3>1. Lands(p, "idle", loc[p])
      BY <1>3, <1>37, <2>1, <2>4 DEF SetStatus, Return
    <3> QED
      BY <1>33, <1>34, <1>37, <2>1, <2>4, <3>1 DEF SetStatus, SetPref, Key
  <2> QED
    BY <1>37, <2>2, <2>3, <2>4 DEF SetStatus
<1>38. CASE MergeStatus(p)
  <2>1. Op(p) \in {"get", "toggle"}
    BY <1>1, <1>38 DEF MergeStatus
  <2>2. Lands(p, "idle", loc[p])
    BY <1>3, <1>38, <2>1 DEF MergeStatus, Return
  <2> QED
    BY <1>33, <1>34, <1>38, <2>1, <2>2 DEF MergeStatus, SetPref, Key
<1>39. CASE UpsertUser(p)
  <2>1. Op(p) = "adduser"
    BY <1>1, <1>39 DEF UpsertUser
  <2>2. CASE Return(p) /\ UNCHANGED <<pref, faults, hist>>
    BY <1>2, <1>3, <1>39, <2>1, <2>2 DEF UpsertUser, Return
  <2>3. CASE Fails /\ UNCHANGED pref /\ Return(p)
    BY <1>1, <1>2, <1>3, <1>39, <2>1, <2>3, FailsEffect DEF UpsertUser, Return
  <2>4. ASSUME KnowUser, NEW step, Lands(p, step, loc[p]), hist' = hist \/ Fails
        PROVE  RecordInv'
    <3>1. Pref(UserKnown) /\ "autoplay" \in Keys
      BY <1>1 DEF Shared, Keys, Pref, IsOn, UserKnown
    <3>2. pref' = [pref EXCEPT !["autoplay"]["doc"] = UserKnown]
      BY <2>4 DEF KnowUser
    <3> QED
      BY <1>33, <1>39, <2>4, <3>1, <3>2 DEF UpsertUser
  <2>5. CASE Fails /\ KnowUser /\ Return(p)
    <3>1. Lands(p, "idle", loc[p])
      BY <1>3, <1>39, <2>1, <2>5 DEF UpsertUser, Return
    <3> QED
      BY <2>4, <2>5, <3>1
  <2>6. CASE Answers /\ KnowUser /\ Then(p, "emptyuser")
    <3>1. Lands(p, "emptyuser", loc[p])
      BY <1>3, <1>39, <2>1, <2>6 DEF UpsertUser
    <3> QED
      BY <2>4, <2>6, <3>1 DEF Answers
  <2> QED
    BY <1>39, <2>2, <2>3, <2>5, <2>6 DEF UpsertUser
<1>40. CASE EmptyUser(p)
  <2>1. Op(p) \in {"adduser", "users"} /\ loc[p].field = "autoplay"
    BY <1>1, <1>40 DEF EmptyUser, Suits
  <2>2. Lands(p, "idle", loc[p])
    BY <1>3, <1>40, <2>1 DEF EmptyUser, Return
  <2>3. Pref(NoFields) /\ "autoplay" \in Keys
    BY DEF Pref, IsOn, Keys
  <2> QED
    BY <1>33, <1>40, <2>1, <2>2, <2>3 DEF EmptyUser, SetPref, Key
<1> QED
  BY <1>5, <1>6, <1>7, <1>8, <1>9, <1>11, <1>12, <1>14, <1>16, <1>17, <1>18, <1>19, <1>20,
     <1>21, <1>22, <1>23, <1>25, <1>26, <1>27, <1>28, <1>29, <1>30, <1>32, <1>35, <1>36,
     <1>37, <1>38, <1>39, <1>40 DEF Continue

\* An entry grows old.
LEMMA ExpireRecord ==
    ASSUME RecordInv, Expire
    PROVE  RecordInv'
<1>1. HistShape' /\ hist'.written = hist.written /\ Shared
  BY DEF Expire, RecordInv, Shared, HistShape
<1>2. ASSUME cached' = None, UNCHANGED pref
      PROVE  Shared' /\ Grown
  <2>1. (Rec(cached) /\ Known(cached))'
    BY <1>2 DEF Rec, Known, Holds
  <2>2. doc' = doc /\ Grown
    BY <1>1 DEF Expire, Grown
  <2> QED
    BY <1>1, <1>2, <2>1, <2>2, SharedAfter
<1>3. ASSUME NEW k \in DOMAIN pref, pref' = [pref EXCEPT ![k].cached = None], UNCHANGED cached
      PROVE  Shared' /\ Grown
  <2>1. pref' = [pref EXCEPT ![k]["cached"] = None] /\ k \in Keys
    BY <1>1, <1>3 DEF Shared, PrefShape
  <2> QED
    BY <1>1, <1>3, <2>1, PrefSet DEF Expire, Pref
<1>4. Shared' /\ Grown
  <2>1. CASE cached # None /\ cached' = None /\ UNCHANGED pref
    BY <1>2, <2>1
  <2> QED
    BY <1>3, <2>1 DEF Expire
<1> QED
  BY <1>4 DEF Expire, RecordInv, PrivateShape, LocalAt, Sound, Known, Rec, Grown

\* The invariant holds at the start.
LEMMA InitRecord ==
    ASSUME Init
    PROVE  RecordInv
<1>1. PrivateShape /\ HistShape /\ PrefShape
  BY DEF Init, PrivateShape, HistShape, PrefShape, Keys, NoLocals, LocalFields, Scalars
<1>2. Rec(doc)
  <2>1. doc # None => IsDoc(doc)
    <3>1. IsDoc(With(None, "assistant", Stale))
      BY WithLaw DEF Fields, Scalars, ScalarValues, Rec
    <3>2. IsDoc(With(None, "play_mode", Everyone))
      BY WithLaw, ConstantsAssumption DEF Fields, Scalars, ScalarValues, Rec
    <3> QED
      BY <3>1, <3>2 DEF Init
  <2> QED
    BY <2>1 DEF Rec
<1>3. Known(doc)
  BY DEF Init, Known, Holds, Field
<1>4. Rec(cached) /\ Known(cached)
  BY DEF Init, Rec, Known, Holds
<1>5. \A k \in Keys : Pref(pref[k].doc) /\ Pref(pref[k].cached)
  BY DEF Init, Keys, Pref
<1>6. ASSUME NEW p \in Procs
      PROVE  LocalAt(pc[p], loc[p]) /\ (lock = p <=> HasLock(pc[p], loc[p]))
  BY ConstantsAssumption DEF Init, LocalAt, Sound, Takes, Suits, NoLocals, Rec, Known, Holds,
                             HasLock, Reading
<1> QED
  BY <1>1, <1>2, <1>3, <1>4, <1>5, <1>6 DEF RecordInv, Shared

\* The invariant is inductive.
LEMMA RecordKept ==
    ASSUME RecordInv, [Next]_vars
    PROVE  RecordInv'
<1>1. CASE UNCHANGED vars
  BY <1>1 DEF vars, RecordInv, PrivateShape, Shared, HistShape, PrefShape, LocalAt, Sound,
              Known, Rec, Pref
<1> QED
  BY <1>1, BeginRecord, ContinueRecord, ExpireRecord DEF Next

\* Documents and entries have the fields the handlers write, and whoever holds
\* chatCacheMux is inside AddAuthUser or RemoveAuthUser (mongo.go).
THEOREM RecordTypes == Spec => []TypeOK
<1>1. ASSUME RecordInv PROVE TypeOK
  <2>1. ASSUME NEW r, Rec(r) PROVE IsRecord(r)
    BY <2>1, AuthLaw DEF Rec, IsDoc, IsRecord, Fields, ScalarValues, Values
  <2>2. ASSUME NEW r, Pref(r) PROVE IsPref(r)
    <3>1. CASE r = NoFields
      BY <3>1 DEF IsPref, NoFields, Field
    <3>2. ASSUME NEW b \in BOOLEAN, r = [on |-> b] PROVE IsPref(r)
      BY <3>2, OnLaw DEF IsPref
    <3> QED
      BY <2>2, <3>1, <3>2 DEF Pref, IsOn, IsPref
  <2> QED
    BY <1>1, <2>1, <2>2 DEF TypeOK, RecordInv, Shared, PrefShape, LocalAt, Sound, HasLock,
                            Reading, Op
<1> QED
  BY <1>1, InitRecord, RecordKept, PTL DEF Spec

\* Whatever the order of handlers and failures, the cache shows no play mode and no
\* assistant that the database never held.
THEOREM CacheKnown == Spec => []CachedWasWritten
<1>1. ASSUME RecordInv PROVE CachedWasWritten
  BY <1>1 DEF RecordInv, Shared, Known, Holds, CachedWasWritten
<1> QED
  BY <1>1, InitRecord, RecordKept, PTL DEF Spec
-----------------------------------------------------------------------------
(* One assistant for all who ask *)

\* The assistant of the chat; every goroutine asks for it and has not missed it.
Assistant == Field(doc, "assistant", Unset)
AgreedAt(a, step, l) ==
    /\ step \in {"idle", "assign", "assigned", "given", "drop"} \cup Reading
    /\ l.op \in {"none", "client"}
    /\ step \notin {"idle", "assign"} => a \in Clients
    /\ step \in {"assigned", "given"} => l.val = a
    /\ step \in {"fill", "have"} => l.rec # None /\ Field(l.rec, "assistant", Unset) = a

\* What holds while every handler so far asked for the assistant and none failed.
Agreed ==
    /\ hist.given \subseteq {Assistant} \ {Unset}
    /\ Assistant \in Clients \cup {Unset}
    /\ cached # None => Field(cached, "assistant", Unset) = Assistant /\ Assistant \in Clients
    /\ \A p \in Procs : AgreedAt(Assistant, pc[p], loc[p])

\* The same for a chat whose record named an assistant that is not started: the first
\* caller overwrites it, and only callers that do not overlap are looked at.
ReplacedAt(a, step, l) ==
    /\ step \in {"idle", "assign", "drop", "update", "merge", "given"} \cup Reading
    /\ l.op \in {"none", "client"}
    /\ step \in {"fill", "have"} => l.rec # None /\ Field(l.rec, "assistant", Unset) = a
    /\ step = "update" => a = Stale
    /\ step \in {"merge", "given"} => l.val = a
Replaced ==
    /\ \A p, q \in Procs : pc[p] # "idle" /\ pc[q] # "idle" => p = q
    /\ hist.given \subseteq {Assistant} \cap Clients
    /\ Assistant \in Clients \cup {Stale}
    /\ cached # None => \/ Field(cached, "assistant", Unset) = Assistant
                        \/ \E p \in Procs : pc[p] = "merge"
    /\ \A p \in Procs : ReplacedAt(Assistant, pc[p], loc[p])

\* The inductive invariant of AgreedAssistant.
AgreedInv ==
    /\ RecordInv
    /\ hist.clientsOnly /\ ~ hist.gone => Agreed
    /\ hist.clientsOnly /\ hist.gone /\ ~ hist.overlap => Replaced

\* Where a goroutine is after a step, and where the others stay.
LEMMA Went ==
    ASSUME RecordInv, NEW p \in Procs, NEW step, NEW l, Goto(p, step, l)
    PROVE  /\ pc'[p] = step /\ loc'[p] = IF step = "idle" THEN NoLocals ELSE l
           /\ \A q \in Procs \ {p} : pc'[q] = pc[q] /\ loc'[q] = loc[q]
BY DEF Goto, RecordInv, PrivateShape

\* What a step of goroutine p needs to keep the agreement: once a chat has an
\* assistant it stays, and before that nobody is past the assignment.
LEMMA AgreedMoved ==
    ASSUME RecordInv, Agreed, NEW p \in Procs, NEW step, NEW l, Goto(p, step, l),
           step # "idle" => AgreedAt(Assistant', step, l),
           Assistant' \in Clients \cup {Unset},
           hist'.given \subseteq {Assistant'} \ {Unset},
           cached' # None => /\ Field(cached', "assistant", Unset) = Assistant'
                             /\ Assistant' \in Clients,
           Assistant' = Assistant \/ Assistant = Unset
    PROVE  Agreed'
<1>1. ASSUME NEW q \in Procs PROVE AgreedAt(Assistant', pc'[q], loc'[q])
  <2>1. CASE q = p
    BY <2>1, Went DEF AgreedAt, NoLocals
  <2>2. CASE q # p
    <3>1. AgreedAt(Assistant, pc[q], loc[q]) /\ pc'[q] = pc[q] /\ loc'[q] = loc[q]
      BY <2>2, Went DEF Agreed
    <3>2. CASE Assistant' = Assistant
      BY <3>1, <3>2
    <3>3. CASE Assistant = Unset
      BY <3>1, <3>3, ConstantsAssumption DEF AgreedAt, Reading
    <3> QED
      BY <3>2, <3>3
  <2> QED
    BY <2>1, <2>2
<1>2. \A q \in Procs : AgreedAt(Assistant, pc[q], loc[q])'
  BY <1>1 DEF AgreedAt
<1> QED
  BY <1>2 DEF Agreed

\* A step of a handler keeps the agreement.
LEMMA AgreedKept ==
    ASSUME RecordInv, Agreed, NEW p \in Procs, Continue(p), hist'.clientsOnly
    PROVE  Agreed'
<1>1. /\ AgreedAt(Assistant, pc[p], loc[p]) /\ LocalAt(pc[p], loc[p])
      /\ DOMAIN loc[p] = LocalFields /\ HistShape /\ Rec(doc) /\ Rec(cached)
  BY DEF Agreed, RecordInv, PrivateShape, Shared
<1>2. doc' = doc => Assistant' = Assistant
  BY DEF Assistant
<1>3. ~ Fails
  BY <1>1, FailsEffect
<1>4. pc[p] \notin {"idle", "assign"} => Assistant \in Clients /\ Assistant # Unset
  BY <1>1, ConstantsAssumption DEF AgreedAt
\* A step that leaves the record and the answers alone.
<1>5. ASSUME NEW step, NEW l, Goto(p, step, l), UNCHANGED <<doc, cached>>,
             hist'.given = hist.given, step # "idle" => AgreedAt(Assistant, step, l)
      PROVE  Agreed'
  BY <1>2, <1>5, AgreedMoved DEF Agreed
<1> USE DEF At, Op, Reading
<1>6. CASE Lookup(p)
  <2>1. CASE cached # None
    <3>1. AgreedAt(Assistant, "have", [loc[p] EXCEPT !.rec = cached])
      BY <1>1, <2>1 DEF AgreedAt, LocalFields, Agreed
    <3> QED
      BY <1>5, <1>6, <2>1, <3>1 DEF Lookup
  <2>2. CASE cached = None
    BY <1>1, <1>4, <1>5, <1>6, <2>2 DEF Lookup, Then, AgreedAt
  <2> QED
    BY <2>1, <2>2
<1>7. CASE Find(p)
  <2>1. doc # None
    BY <1>4, <1>7 DEF Find, Assistant, Field
  <2>2. Goto(p, "fill", [loc[p] EXCEPT !.rec = doc]) /\ UNCHANGED <<doc, cached, hist>>
    BY <1>3, <1>7, <2>1 DEF Find, Answers
  <2>3. AgreedAt(Assistant, "fill", [loc[p] EXCEPT !.rec = doc])
    BY <1>1, <1>4, <1>7, <2>1 DEF Find, AgreedAt, LocalFields, Assistant
  <2> QED
    BY <1>5, <2>2, <2>3
<1>8. CASE Fill(p)
  <2>1. AgreedAt(Assistant, "have", loc[p])
    BY <1>1, <1>8 DEF Fill, AgreedAt
  <2>2. cached' # None => Field(cached', "assistant", Unset) = Assistant /\ Assistant \in Clients
    BY <1>1, <1>8 DEF Fill, AgreedAt
  <2> QED
    BY <1>2, <1>8, <2>1, <2>2, AgreedMoved DEF Fill, Then, Agreed
<1>9. CASE Assign(p)
  <2>1. loc[p].val \in Clients /\ loc[p].op = "client"
    BY <1>1, <1>9 DEF Assign, LocalAt, Sound, Suits, Takes
  <2>2. CASE /\ Assistant = Unset
             /\ Write(p, With(doc, "assistant", loc[p].val), "assigned", "update")
    <3> DEFINE d == With(doc, "assistant", loc[p].val)
    <3>1. Field(d, "assistant", Unset) = loc[p].val
      BY <1>1, <2>1, WithLaw DEF Fields, Scalars, ScalarValues
    <3> HIDE DEF d
    <3>2. Applied(d) /\ Then(p, "assigned") /\ hist'.given = hist.given
      BY <1>1, <2>2, WriteEffect DEF d
    <3>3. Assistant' = loc[p].val
      BY <3>1, <3>2 DEF Applied, Assistant
    <3>4. hist.given = {} /\ cached = None /\ cached' = cached
      BY <1>9, <2>2, ConstantsAssumption DEF Agreed, Assign
    <3>5. AgreedAt(Assistant', "assigned", loc[p])
      BY <1>1, <2>1, <3>3 DEF AgreedAt
    <3> QED
      BY <2>1, <2>2, <3>2, <3>3, <3>4, <3>5, AgreedMoved DEF Then
  <2>3. CASE Assistant # Unset /\ Answers /\ Then(p, "drop")
    <3>1. AgreedAt(Assistant, "drop", loc[p])
      BY <1>1, <2>3 DEF AgreedAt, Agreed
    <3> QED
      BY <1>5, <1>9, <2>3, <3>1 DEF Assign, Answers, Then, Assistant
  <2> QED
    BY <1>3, <1>9, <2>2, <2>3 DEF Assign, Assistant
<1>10. CASE CacheAssigned(p)
  <2>1. /\ loc[p].val \in Clients /\ loc[p].val = Assistant
        /\ UNCHANGED <<doc, hist>> /\ Goto(p, "given", loc[p])
    BY <1>1, <1>10 DEF CacheAssigned, LocalAt, Sound, Suits, Takes, AgreedAt, Then
  <2>2. cached' # None => Field(cached', "assistant", Unset) = Assistant
    BY <1>1, <1>10, <2>1, WithLaw DEF CacheAssigned, Fields, Scalars, ScalarValues
  <2>3. AgreedAt(Assistant, "given", loc[p])
    BY <1>1, <2>1 DEF AgreedAt
  <2> QED
    BY <1>2, <2>1, <2>2, <2>3, AgreedMoved DEF Agreed
<1>11. CASE DropEntry(p)
  <2>1. cached' = None /\ UNCHANGED <<doc, hist>>
        /\ \E step \in {"idle", "lookup"} : Goto(p, step, loc[p])
    BY <1>11 DEF DropEntry, Then
  <2>2. AgreedAt(Assistant, "lookup", loc[p])
    BY <1>1, <1>11 DEF DropEntry, AgreedAt
  <2> QED
    BY <1>2, <2>1, <2>2, AgreedMoved DEF Agreed
<1>12. CASE Assigned(p)
  <2>1. Field(loc[p].rec, "assistant", Unset) = Assistant /\ Assistant \in Clients
    BY <1>1, <1>4, <1>12 DEF Assigned, Has, AgreedAt
  <2>2. /\ Goto(p, "given", [loc[p] EXCEPT !.val = Assistant])
        /\ UNCHANGED <<doc, cached, hist>>
    BY <1>12, <2>1 DEF Assigned, Has
  <2>3. AgreedAt(Assistant, "given", [loc[p] EXCEPT !.val = Assistant])
    BY <1>1, <2>1 DEF AgreedAt, LocalFields
  <2> QED
    BY <1>5, <2>2, <2>3
<1>13. CASE Given(p)
  <2>1. loc[p].val = Assistant
    BY <1>1, <1>13 DEF Given, AgreedAt
  <2>2. hist'.given = hist.given \cup {Assistant} /\ UNCHANGED <<doc, cached>>
    BY <1>1, <1>13, <2>1 DEF Given, HistShape
  <2>3. hist'.given \subseteq {Assistant} \ {Unset}
    BY <1>4, <1>13, <2>2 DEF Given, Agreed
  <2> QED
    BY <1>2, <1>13, <2>2, <2>3, AgreedMoved DEF Given, Agreed, Return, Then
<1>14. pc[p] \in {"idle", "assign", "assigned", "given", "drop", "lookup", "find", "fill", "have"}
       /\ loc[p].op \in {"none", "client"}
  BY <1>1 DEF AgreedAt
<1> QED
  BY <1>6, <1>7, <1>8, <1>9, <1>10, <1>11, <1>12, <1>13, <1>14
     DEF Continue, SettingRead, ChatKnown, NotYetAuthorised, StillAuthorised, Has, Insert,
         UpdateChatField, Merge, AddAuthUser, RemoveAuthUser, Acquire, CacheAuth, Scan,
         EmptyEntry, UnsetAssistants, Status, KeepStatus, GotStatus, SetStatus, MergeStatus,
         UpsertUser, EmptyUser

\* What a step of the only goroutine under way needs to keep a replaced assistant.
LEMMA ReplacedMoved ==
    ASSUME RecordInv, NEW p \in Procs, \A q \in Procs \ {p} : pc[q] = "idle",
           \A q \in Procs \ {p} : ReplacedAt(Assistant, pc[q], loc[q]),
           NEW step, NEW l, Goto(p, step, l),
           step # "idle" => ReplacedAt(Assistant', step, l),
           Assistant' \in Clients \cup {Stale},
           hist'.given \subseteq {Assistant'} \cap Clients,
           cached' # None /\ step # "merge" => Field(cached', "assistant", Unset) = Assistant'
    PROVE  Replaced'
<1>1. /\ pc'[p] = step /\ loc'[p] = IF step = "idle" THEN NoLocals ELSE l
      /\ \A q \in Procs \ {p} : pc'[q] = "idle" /\ loc'[q] = loc[q]
  BY Went
<1>2. ASSUME NEW q \in Procs PROVE ReplacedAt(Assistant', pc'[q], loc'[q])
  <2>1. CASE q = p
    BY <1>1, <2>1 DEF ReplacedAt, NoLocals
  <2>2. CASE q # p
    BY <1>1, <2>2 DEF ReplacedAt, Reading
  <2> QED
    BY <2>1, <2>2
<1>3. (\A q \in Procs : ReplacedAt(Assistant, pc[q], loc[q]))'
  BY <1>2 DEF ReplacedAt
<1>4. (\A q, r \in Procs : pc[q] # "idle" /\ pc[r] # "idle" => q = r)'
  BY <1>1
<1>5. (cached # None => \/ Field(cached, "assistant", Unset) = Assistant
                       \/ \E q \in Procs : pc[q] = "merge")'
  <2>1. CASE step = "merge"
    BY <1>1, <2>1
  <2>2. CASE step # "merge"
    BY <2>2 DEF Field
  <2> QED
    BY <2>1, <2>2
<1> QED
  BY <1>3, <1>4, <1>5 DEF Replaced

\* A step of a handler that overlaps with none keeps it.
LEMMA ReplacedKept ==
    ASSUME RecordInv, Replaced, NEW p \in Procs, Continue(p), hist'.clientsOnly
    PROVE  Replaced'
<1>1. /\ ReplacedAt(Assistant, pc[p], loc[p]) /\ LocalAt(pc[p], loc[p])
      /\ DOMAIN loc[p] = LocalFields /\ HistShape /\ Rec(doc) /\ Rec(cached)
  BY DEF Replaced, RecordInv, PrivateShape, Shared
<1>2. doc' = doc => Assistant' = Assistant
  BY DEF Assistant
<1>3. ~ Fails
  BY <1>1, FailsEffect
<1>4. Assistant \in Clients \cup {Stale} /\ Assistant # Unset
  BY ConstantsAssumption DEF Replaced
<1>5. ASSUME pc[p] # "idle"
      PROVE  /\ \A q \in Procs \ {p} : pc[q] = "idle"
             /\ \A q \in Procs \ {p} : ReplacedAt(Assistant, pc[q], loc[q])
             /\ cached # None /\ pc[p] # "merge" =>
                   Field(cached, "assistant", Unset) = Assistant
  BY <1>5 DEF Replaced
\* A step that leaves the record and the answers alone.
<1>6. ASSUME NEW step, NEW l, Goto(p, step, l), UNCHANGED <<doc, cached>>,
             hist'.given = hist.given, step # "idle" => ReplacedAt(Assistant, step, l),
             pc[p] \notin {"idle", "merge"}
      PROVE  Replaced'
  BY <1>2, <1>4, <1>5, <1>6, ReplacedMoved DEF Replaced
<1> USE DEF At, Op, Reading
<1>7. CASE Lookup(p)
  <2>1. CASE cached # None
    <3>1. ReplacedAt(Assistant, "have", [loc[p] EXCEPT !.rec = cached])
      BY <1>1, <1>5, <1>7, <2>1 DEF Lookup, ReplacedAt, LocalFields
    <3> QED
      BY <1>6, <1>7, <2>1, <3>1 DEF Lookup
  <2>2. CASE cached = None
    <3>1. ReplacedAt(Assistant, "find", loc[p])
      BY <1>1, <1>7 DEF Lookup, ReplacedAt
    <3> QED
      BY <1>6, <1>7, <2>2, <3>1 DEF Lookup, Then
  <2> QED
    BY <2>1, <2>2
<1>8. CASE Find(p)
  <2>1. doc # None
    BY <1>4 DEF Assistant, Field
  <2>2. Goto(p, "fill", [loc[p] EXCEPT !.rec = doc]) /\ UNCHANGED <<doc, cached, hist>>
    BY <1>3, <1>8, <2>1 DEF Find, Answers
  <2>3. ReplacedAt(Assistant, "fill", [loc[p] EXCEPT !.rec = doc])
    BY <1>1, <1>8, <2>1 DEF Find, ReplacedAt, LocalFields, Assistant
  <2> QED
    BY <1>6, <1>8, <2>2, <2>3 DEF Find
<1>9. CASE Fill(p)
  <2>1. ReplacedAt(Assistant, "have", loc[p])
    BY <1>1, <1>9 DEF Fill, ReplacedAt
  <2>2. Field(cached', "assistant", Unset) = Assistant
    BY <1>1, <1>9 DEF Fill, ReplacedAt
  <2>3. Goto(p, "have", loc[p]) /\ pc[p] = "fill" /\ UNCHANGED <<doc, hist>>
    BY <1>9 DEF Fill, Then
  <2> QED
    BY <1>2, <1>4, <1>5, <2>1, <2>2, <2>3, ReplacedMoved DEF Replaced
<1>10. CASE Assign(p)
  <2>1. /\ pc[p] = "assign" /\ Goto(p, "drop", loc[p]) /\ UNCHANGED <<doc, cached, hist>>
    BY <1>3, <1>4, <1>10 DEF Assign, Answers, Then, Assistant
  <2>2. ReplacedAt(Assistant, "drop", loc[p])
    BY <1>1, <2>1 DEF ReplacedAt
  <2> QED
    BY <1>6, <2>1, <2>2
<1>11. CASE DropEntry(p)
  <2>1. /\ cached' = None /\ UNCHANGED <<doc, hist>> /\ pc[p] = "drop"
        /\ \E step \in {"idle", "lookup"} : Goto(p, step, loc[p])
    BY <1>11 DEF DropEntry, Then
  <2>2. ReplacedAt(Assistant, "lookup", loc[p])
    BY <1>1, <2>1 DEF ReplacedAt
  <2> QED
    BY <1>2, <1>4, <1>5, <2>1, <2>2, ReplacedMoved DEF Replaced
<1>12. CASE Assigned(p)
  <2>1. /\ Field(loc[p].rec, "assistant", Unset) = Assistant
        /\ pc[p] = "have" /\ UNCHANGED <<doc, cached, hist>>
    BY <1>1, <1>12 DEF Assigned, Has, ReplacedAt
  <2>2. CASE Assistant \in Clients
    <3>1. Goto(p, "given", [loc[p] EXCEPT !.val = Assistant])
      BY <1>12, <2>1, <2>2 DEF Assigned
    <3>2. ReplacedAt(Assistant, "given", [loc[p] EXCEPT !.val = Assistant])
      BY <1>1 DEF ReplacedAt, LocalFields
    <3> QED
      BY <1>6, <2>1, <3>1, <3>2
  <2>3. CASE Assistant \notin Clients
    <3>1. Goto(p, "update", loc[p])
      BY <1>12, <2>1, <2>3 DEF Assigned, Then
    <3>2. ReplacedAt(Assistant, "update", loc[p])
      BY <1>1, <1>4, <2>3 DEF ReplacedAt
    <3> QED
      BY <1>6, <2>1, <3>1, <3>2
  <2> QED
    BY <2>2, <2>3
<1>13. CASE UpdateChatField(p)
  <2>1. /\ loc[p].val \in Clients /\ loc[p].field = "assistant" /\ loc[p].op = "client"
        /\ pc[p] = "update" /\ Assistant = Stale
    BY <1>1, <1>13 DEF UpdateChatField, LocalAt, Sound, Suits, Takes, ReplacedAt
  <2> DEFINE d == With(doc, "assistant", loc[p].val)
  <2>2. Field(d, "assistant", Unset) = loc[p].val
    BY <1>1, <2>1, WithLaw DEF Fields, Scalars, ScalarValues
  <2>3. Write(p, d, "merge", "given")
    BY <1>13, <2>1 DEF UpdateChatField
  <2> HIDE DEF d
  <2>4. Applied(d) /\ Then(p, "merge") /\ hist'.given = hist.given
    BY <1>1, <2>3, WriteEffect
  <2>5. Assistant' = loc[p].val
    BY <2>2, <2>4 DEF Applied, Assistant
  <2>6. hist'.given = {}
    BY <2>1, <2>4, ConstantsAssumption DEF Replaced
  <2>7. ReplacedAt(Assistant', "merge", loc[p])
    BY <2>1, <2>5, ConstantsAssumption DEF ReplacedAt
  <2> QED
    BY <1>5, <2>1, <2>4, <2>5, <2>6, <2>7, ReplacedMoved DEF Then
<1>14. CASE Merge(p)
  <2>1. /\ loc[p].val \in Clients /\ loc[p].field = "assistant" /\ loc[p].op = "client"
        /\ pc[p] = "merge" /\ Assistant = loc[p].val
    BY <1>1, <1>14 DEF Merge, LocalAt, Sound, Suits, Takes, ReplacedAt
  <2>2. Field(cached', "assistant", Unset) = Assistant
    BY <1>1, <1>14, <2>1, WithLaw DEF Merge, Fields, Scalars, ScalarValues
  <2>3. Goto(p, "given", loc[p]) /\ UNCHANGED <<doc, hist>>
    BY <1>14, <2>1 DEF Merge, Then
  <2>4. ReplacedAt(Assistant, "given", loc[p])
    BY <2>1 DEF ReplacedAt
  <2> QED
    BY <1>2, <1>4, <1>5, <2>1, <2>2, <2>3, <2>4, ReplacedMoved DEF Replaced
<1>15. CASE Given(p)
  <2>1. loc[p].val = Assistant /\ Assistant \in Clients /\ pc[p] = "given"
    BY <1>1, <1>15 DEF Given, ReplacedAt, LocalAt, Sound, Suits, Takes
  <2>2. hist'.given = hist.given \cup {Assistant} /\ UNCHANGED <<doc, cached>>
    BY <1>1, <1>15, <2>1 DEF Given, HistShape
  <2>3. hist'.given \subseteq {Assistant} \cap Clients
    BY <2>1, <2>2 DEF Replaced
  <2>4. Goto(p, "idle", loc[p])
    BY <1>15 DEF Given, Return, Then
  <2> QED
    BY <1>2, <1>4, <1>5, <2>1, <2>2, <2>3, <2>4, ReplacedMoved
<1>16. pc[p] \in {"idle", "assign", "drop", "update", "merge", "given",
                   "lookup", "find", "fill", "have"}
       /\ loc[p].op \in {"none", "client"}
  BY <1>1 DEF ReplacedAt
<1> QED
  BY <1>7, <1>8, <1>9, <1>10, <1>11, <1>12, <1>13, <1>14, <1>15, <1>16
     DEF Continue, SettingRead, ChatKnown, NotYetAuthorised, StillAuthorised, Has, Insert,
         AddAuthUser, RemoveAuthUser, Acquire, CacheAuth, CacheAssigned, Scan,
         EmptyEntry, UnsetAssistants, Status, KeepStatus, GotStatus, SetStatus, MergeStatus,
         UpsertUser, EmptyUser

\* No step of a handler makes it one of those that ask for the assistant.
LEMMA ClientsBefore ==
    ASSUME RecordInv, NEW p \in Procs, Continue(p), hist'.clientsOnly
    PROVE  hist.clientsOnly /\ hist'.gone = hist.gone /\ hist'.overlap = hist.overlap
<1>1. HistShape /\ ~ Fails /\ ~ Misses
  BY FailsEffect, MissesEffect DEF RecordInv, Shared
<1>2. ASSUME NEW d, NEW step, NEW err, Write(p, d, step, err)
      PROVE  hist.clientsOnly /\ hist'.gone = hist.gone /\ hist'.overlap = hist.overlap
  BY <1>1, <1>2, WriteEffect
<1>3. CASE Insert(p) \/ UpdateChatField(p) \/ AddAuthUser(p)
  BY <1>2, <1>3 DEF Insert, UpdateChatField, AddAuthUser
<1>4. CASE RemoveAuthUser(p) \/ UnsetAssistants(p)
  BY <1>2, <1>4 DEF RemoveAuthUser, UnsetAssistants
<1>5. CASE Assign(p)
  BY <1>1, <1>2, <1>5 DEF Assign, Answers
<1>6. CASE Given(p)
  BY <1>1, <1>6 DEF Given, HistShape
<1>7. CASE hist' = hist
  BY <1>7
<1>8. CASE Find(p) \/ Scan(p)
  BY <1>1, <1>7, <1>8 DEF Find, Scan, Answers
<1>9. CASE Status(p) \/ SetStatus(p) \/ UpsertUser(p)
  BY <1>1, <1>7, <1>9 DEF Status, SetStatus, UpsertUser, Answers
<1> QED
  BY <1>3, <1>4, <1>5, <1>6, <1>7, <1>8, <1>9
     DEF Continue, Lookup, Fill, SettingRead, ChatKnown, NotYetAuthorised, StillAuthorised, Has,
         Merge, Acquire, CacheAuth, CacheAssigned, DropEntry, Assigned, EmptyEntry, KeepStatus,
         GotStatus, MergeStatus, EmptyUser

\* A handler that starts either asks for the assistant or is noted as another one.
LEMMA ClientBegins ==
    ASSUME RecordInv, NEW p \in Procs, Begin(p), hist'.clientsOnly
    PROVE  /\ hist.clientsOnly
           /\ \E c \in Clients : Start(p, "assign", Locals("client", "assistant", c))
<1>1. ASSUME NEW step, NEW op, NEW f, NEW v, Start(p, step, Locals(op, f, v))
      PROVE  op = "client" /\ hist.clientsOnly
  <2>1. HistShape /\ Locals(op, f, v).op = op
    BY StartLocals DEF RecordInv, Shared
  <2>2. hist'.clientsOnly = (hist.clientsOnly /\ op = "client")
    BY <1>1, <2>1 DEF Start, HistShape
  <2> QED
    BY <2>2
<1>2. PICK c \in Clients : Start(p, "assign", Locals("client", "assistant", c))
  <2>1. ~ ReadSetting(p) /\ ~ AddChat(p) /\ ~ GetAllChats(p) /\ ~ ClearAllAssistants(p)
    BY <1>1 DEF ReadSetting, AddChat, GetAllChats, ClearAllAssistants
  <2>2. ~ SettingsCallback(p) /\ ~ AddAuthHandler(p)
    BY <1>1 DEF SettingsCallback, AddAuthHandler
  <2>3. ~ RemoveAuthHandler(p)
    <3>1. ASSUME NEW u \in Users, NEW step,
                 Start(p, step, Locals("remove", "auth_users", u))
          PROVE  FALSE
      BY <1>1, <3>1
    <3>2. ASSUME NEW u \in Users, NEW step,
                 Start(p, step, Locals("remove?", "auth_users", u))
          PROVE  FALSE
      BY <1>1, <3>2
    <3> QED
      BY <3>1, <3>2 DEF RemoveAuthHandler
  <2>4. ASSUME NEW op \in {"get", "toggle", "adduser", "users"}, NEW f, NEW step,
               Start(p, step, Locals(op, f, FALSE))
        PROVE  FALSE
    <3> DEFINE l == Locals(op, f, FALSE)
    <3>1. l.op = op /\ hist'.clientsOnly = (hist.clientsOnly /\ l.op = "client")
      BY <2>4 DEF Start, Locals, NoLocals, RecordInv, Shared, HistShape
    <3> HIDE DEF l
    <3> QED
      BY <3>1
  <2>5. ~ GetStatus(p) /\ ~ Toggle(p) /\ ~ AddUser(p) /\ ~ GetAllUsers(p)
    BY <2>4 DEF GetStatus, Toggle, AddUser, GetAllUsers
  <2> QED
    BY <2>1, <2>2, <2>3, <2>5 DEF Begin, GetClientName
<1> QED
  BY <1>1, <1>2

\* Its start keeps the agreement.
LEMMA AgreedBegins ==
    ASSUME RecordInv, NEW p \in Procs, Begin(p), hist'.clientsOnly,
           hist.clientsOnly /\ ~ hist.gone => Agreed,
           hist.clientsOnly /\ hist.gone /\ ~ hist.overlap => Replaced
    PROVE  /\ ~ hist'.gone => Agreed'
           /\ hist'.gone /\ ~ hist'.overlap => Replaced'
<1>1. PICK c \in Clients : Start(p, "assign", Locals("client", "assistant", c))
  BY ClientBegins
<1>2. /\ Goto(p, "assign", Locals("client", "assistant", c)) /\ UNCHANGED <<doc, cached>>
      /\ hist'.given = hist.given /\ Assistant' = Assistant /\ hist'.gone = hist.gone
      /\ hist'.overlap = Overlaps
  BY <1>1 DEF Start, Assistant, RecordInv, Shared, HistShape
<1>3. AgreedAt(Assistant, "assign", Locals("client", "assistant", c))
  BY StartLocals DEF AgreedAt
<1>4. ReplacedAt(Assistant, "assign", Locals("client", "assistant", c))
  BY StartLocals DEF ReplacedAt, Reading
<1>5. ASSUME ~ hist'.gone PROVE Agreed'
  <2>1. Agreed
    BY <1>2, <1>5, ClientBegins
  <2> QED
    BY <1>2, <1>3, <2>1, AgreedMoved DEF Agreed
<1>6. ASSUME hist'.gone, ~ hist'.overlap PROVE Replaced'
  <2>1. ~ hist.overlap /\ \A q \in Procs : pc[q] = "idle"
    BY <1>2, <1>6 DEF Overlaps, Idle, At
  <2>2. Replaced
    BY <1>2, <1>6, <2>1, ClientBegins
  <2>3. /\ Assistant \in Clients \cup {Stale} /\ hist.given \subseteq {Assistant} \cap Clients
        /\ cached # None => Field(cached, "assistant", Unset) = Assistant
        /\ \A q \in Procs : ReplacedAt(Assistant, pc[q], loc[q])
    BY <2>1, <2>2 DEF Replaced
  <2> QED
    BY <1>2, <1>4, <2>1, <2>3, ReplacedMoved
<1> QED
  BY <1>5, <1>6

\* Callers that ask for the assistant of a chat at the same time, with no other
\* handler and no failure, all get the same one (AssignAssistant in mongo.go); if the
\* record named an assistant that is not started, callers that do not overlap do.
THEOREM OneAssistant == Spec => []AgreedAssistant
<1>1. ASSUME Init PROVE AgreedInv
  <2>1. RecordInv
    BY <1>1, InitRecord
  <2>2. Assistant \in {Stale, Unset}
    <3>1. Field(With(None, "assistant", Stale), "assistant", Unset) = Stale
      BY WithLaw DEF Fields, Scalars, ScalarValues, Rec
    <3>2. Field(None, "assistant", Unset) = Unset
      BY DEF Field
    <3>3. Field(With(None, "play_mode", Everyone), "assistant", Unset) = Unset
      BY <3>2, WithLaw, ConstantsAssumption DEF Fields, Scalars, ScalarValues, Rec
    <3> QED
      BY <1>1, <3>1, <3>2, <3>3 DEF Init, Assistant
  <2>3. ASSUME ~ hist.gone PROVE Agreed
    <3>1. Assistant = Unset
      BY <1>1, <2>2, <2>3 DEF Init, Assistant
    <3> QED
      BY <1>1, <3>1 DEF Init, Agreed, AgreedAt, NoLocals
  <2>4. ASSUME hist.gone PROVE Replaced
    <3>1. Assistant = Stale
      BY <1>1, <2>4 DEF Init, Assistant
    <3> QED
      BY <1>1, <3>1 DEF Init, Replaced, ReplacedAt, NoLocals
  <2> QED
    BY <2>1, <2>3, <2>4 DEF AgreedInv
<1>2. ASSUME AgreedInv, [Next]_vars PROVE AgreedInv'
  <2>1. RecordInv'
    BY <1>2, RecordKept DEF AgreedInv
  <2>2. ASSUME hist'.clientsOnly
        PROVE  /\ ~ hist'.gone => Agreed'
               /\ hist'.gone /\ ~ hist'.overlap => Replaced'
    <3>1. CASE UNCHANGED vars
      BY <1>2, <2>2, <3>1 DEF vars, AgreedInv, Agreed, AgreedAt, Replaced, ReplacedAt, Assistant
    <3>2. CASE Expire
      <4>1. UNCHANGED <<doc, pc, loc, hist>> /\ cached' \in {cached, None}
        BY <3>2 DEF Expire
      <4> QED
        BY <1>2, <2>2, <4>1
           DEF AgreedInv, Agreed, AgreedAt, Replaced, ReplacedAt, Assistant
    <3>3. ASSUME NEW p \in Procs, Begin(p)
          PROVE  /\ ~ hist'.gone => Agreed'
                 /\ hist'.gone /\ ~ hist'.overlap => Replaced'
      BY <1>2, <2>2, <3>3, AgreedBegins DEF AgreedInv
    <3>4. ASSUME NEW p \in Procs, Continue(p)
          PROVE  /\ ~ hist'.gone => Agreed'
                 /\ hist'.gone /\ ~ hist'.overlap => Replaced'
      BY <1>2, <2>2, <3>4, ClientsBefore, AgreedKept, ReplacedKept DEF AgreedInv
    <3> QED
      BY <1>2, <3>1, <3>2, <3>3, <3>4 DEF Next
  <2> QED
    BY <2>1, <2>2 DEF AgreedInv
<1>3. ASSUME AgreedInv PROVE AgreedAssistant
  <2>1. ASSUME hist.clientsOnly, hist.gone => ~ hist.overlap
        PROVE  Cardinality(hist.given) <= 1
    <3>1. hist.given = {} \/ hist.given = {Assistant}
      BY <1>3, <2>1 DEF AgreedInv, Agreed, Replaced
    <3>2. Cardinality(hist.given) = 0 \/ Cardinality(hist.given) = 1
      BY <3>1, FS_EmptySet, FS_Singleton
    <3> QED
      BY <3>2
  <2> QED
    BY <2>1 DEF AgreedAssistant
<1> QED
  BY <1>1, <1>2, <1>3, PTL DEF Spec
-----------------------------------------------------------------------------
(* The cache is current while handlers do not overlap *)

\* The scalars of the entry that a goroutine at a step is about to bring up to date,
\* and the users it is about to take out of it.
Late(step, l) == IF step = "merge" THEN {l.field}
                 ELSE IF step = "assigned" \/ (step = "drop" /\ l.op = "clear")
                      THEN {"assistant"} ELSE {}
Revoked(step, l) ==
    IF l.op = "remove" /\ step \in Reading \cup {"lock"} THEN {l.val} ELSE {}

\* Record r says what document d says, but for the scalars in late and the users in
\* revoked.
Matches(r, d, late, revoked) ==
    r # None => /\ \A f \in Scalars \ late : Holds(r, f) => r[f] = Field(d, f, Unset)
                /\ Auth(r) \subseteq Auth(d) \cup revoked

\* The entry c and the locals l of the only goroutine under way, against the document.
ChatCurrent(d, c, step, l) ==
    /\ Matches(c, d, Late(step, l), Revoked(step, l))
    /\ step \in {"fill", "have"} => Matches(l.rec, d, {}, Revoked(step, l))
    /\ step \in {"find", "fill"} \/ (step = "have" /\ l.rec = None) => c = None
    /\ l.op = "add" /\ step \in Reading \cup {"lock"} => l.val \in Auth(d)
    /\ step = "merge" => Field(d, l.field, Unset) = l.val
    /\ step = "assigned" => Field(d, "assistant", Unset) = l.val
    /\ step = "unset" => (l.val <=> Holds(d, "assistant"))

\* The same for the preferences.
PrefCurrent(e) == Holds(e.cached, "on") => e.cached["on"] = Field(e.doc, "on", FALSE)
PrefsCurrent(prefs, step, l) ==
    /\ \A k \in Keys : ~ (step = "mergepref" /\ k = l.field) => PrefCurrent(prefs[k])
    /\ step \in {"keep", "mergepref"} => l.val = Field(prefs[l.field].doc, "on", FALSE)

\* What holds while handlers have not overlapped.
Current ==
    /\ \A p, q \in Procs : pc[p] # "idle" /\ pc[q] # "idle" => p = q
    /\ ~ hist.lost => /\ AllIdle => Matches(cached, doc, {}, {})
                      /\ \A p \in Procs : pc[p] # "idle" =>
                            ChatCurrent(doc, cached, pc[p], loc[p])
    /\ ~ hist.failed => /\ AllIdle => \A k \in Keys : PrefCurrent(pref[k])
                        /\ \A p \in Procs : pc[p] # "idle" =>
                              PrefsCurrent(pref, pc[p], loc[p])

\* The inductive invariant of CacheCurrent.
CurrentInv == RecordInv /\ (~ hist.overlap => Current)

\* At rest nothing is late.
LEMMA RestLaw ==
    ASSUME NEW d, NEW c, NEW prefs, NEW l
    PROVE  /\ ChatCurrent(d, c, "idle", l) <=> Matches(c, d, {}, {})
           /\ PrefsCurrent(prefs, "idle", l) <=> \A k \in Keys : PrefCurrent(prefs[k])
BY DEF ChatCurrent, PrefsCurrent, Late, Revoked, Reading

\* What a step of the only goroutine under way needs to keep the caches current.
LEMMA CurrentMoved ==
    ASSUME RecordInv, NEW p \in Procs, \A q \in Procs \ {p} : pc[q] = "idle",
           NEW step, NEW l, Goto(p, step, l),
           ~ hist'.lost => ChatCurrent(doc', cached', step, l),
           ~ hist'.failed => PrefsCurrent(pref', step, l)
    PROVE  Current'
<1>1. /\ pc'[p] = step /\ (step # "idle" => loc'[p] = l)
      /\ \A q \in Procs \ {p} : pc'[q] = "idle"
  BY Went
<1>2. (\A q, r \in Procs : pc[q] # "idle" /\ pc[r] # "idle" => q = r)'
  BY <1>1
<1>3. CASE step = "idle"
  <2>1. \A q \in Procs : pc'[q] = "idle"
    BY <1>1, <1>3
  <2>2. ~ hist'.lost => Matches(cached', doc', {}, {})
    BY <1>3, RestLaw
  <2>3. ~ hist'.failed => \A k \in Keys : PrefCurrent(pref'[k])
    BY <1>3, RestLaw
  <2>4. ~ hist'.lost => Matches(cached, doc, {}, {})'
    BY <2>2 DEF Matches
  <2>5. ~ hist'.failed => (\A k \in Keys : PrefCurrent(pref[k]))'
    BY <2>3 DEF PrefCurrent
  <2> QED
    BY <1>2, <2>1, <2>4, <2>5 DEF Current
<1>4. CASE step # "idle"
  <2>1. ~ AllIdle'
    BY <1>1, <1>4 DEF AllIdle, Idle, At
  <2>2. ASSUME NEW q \in Procs, pc'[q] # "idle"
        PROVE  /\ ~ hist'.lost => ChatCurrent(doc', cached', pc'[q], loc'[q])
               /\ ~ hist'.failed => PrefsCurrent(pref', pc'[q], loc'[q])
    BY <1>1, <1>4, <2>2
  <2> QED
    BY <1>2, <2>1, <2>2 DEF Current
<1> QED
  BY <1>3, <1>4
\* A handler's step does not undo what the history notes.
LEMMA NotesStay ==
    ASSUME RecordInv, NEW p \in Procs, Continue(p)
    PROVE  /\ hist'.overlap = hist.overlap
           /\ ~ hist'.lost => ~ hist.lost
           /\ ~ hist'.failed => ~ hist.failed
<1> DEFINE Same == /\ hist'.overlap = hist.overlap
                   /\ ~ hist'.lost => ~ hist.lost
                   /\ ~ hist'.failed => ~ hist.failed
<1>1. HistShape /\ (Fails \/ Misses => Same)
  BY FailsEffect, MissesEffect DEF RecordInv, Shared
<1>2. ASSUME NEW d, NEW step, NEW err, Write(p, d, step, err)
      PROVE  Same
  BY <1>1, <1>2, WriteEffect
<1>3. CASE Insert(p) \/ UpdateChatField(p) \/ AddAuthUser(p)
  BY <1>2, <1>3 DEF Insert, UpdateChatField, AddAuthUser
<1>4. CASE RemoveAuthUser(p) \/ UnsetAssistants(p)
  BY <1>2, <1>4 DEF RemoveAuthUser, UnsetAssistants
<1>5. CASE Assign(p)
  BY <1>1, <1>2, <1>5 DEF Assign, Answers
<1>6. CASE Given(p)
  BY <1>1, <1>6 DEF Given, HistShape
<1>7. CASE hist' = hist
  BY <1>7
<1>8. CASE Find(p) \/ Scan(p)
  BY <1>1, <1>7, <1>8 DEF Find, Scan, Answers
<1>9. CASE Status(p) \/ SetStatus(p) \/ UpsertUser(p)
  BY <1>1, <1>7, <1>9 DEF Status, SetStatus, UpsertUser, Answers
<1> QED
  BY <1>3, <1>4, <1>5, <1>6, <1>7, <1>8, <1>9
     DEF Continue, Lookup, Fill, SettingRead, ChatKnown, NotYetAuthorised, StillAuthorised, Has,
         Merge, Acquire, CacheAuth, CacheAssigned, DropEntry, Assigned, EmptyEntry, KeepStatus,
         GotStatus, MergeStatus, EmptyUser

\* The steps of handlers on the chat's record.
ChatSteps == {"idle", "insert", "update", "merge", "push", "pull", "lock", "assign", "assigned",
              "drop", "given", "scan", "empty", "unset", "emptyuser"} \cup Reading
\* A step on the chat's record of the only goroutine under way.
LEMMA ChatMoved ==
    ASSUME RecordInv, Current, NEW p \in Procs, Continue(p), UNCHANGED pref,
           NEW step, NEW l, Goto(p, step, l), pc[p] \in ChatSteps \ {"idle"}, step \in ChatSteps,
           ~ hist'.lost /\ ChatCurrent(doc, cached, pc[p], loc[p])
              => ChatCurrent(doc', cached', step, l)
    PROVE  Current'
<1>1. /\ \A q \in Procs \ {p} : pc[q] = "idle"
      /\ ~ hist.lost => ChatCurrent(doc, cached, pc[p], loc[p])
      /\ ~ hist.failed => PrefsCurrent(pref, pc[p], loc[p])
  BY DEF Current, ChatSteps
<1>2. PrefsCurrent(pref, pc[p], loc[p]) => PrefsCurrent(pref', step, l)
  BY DEF PrefsCurrent, ChatSteps, Reading
<1> QED
  BY <1>1, <1>2, NotesStay, CurrentMoved

\* The steps of handlers on the preferences.
PrefSteps == {"idle", "scan", "status", "keep", "got", "setpref", "mergepref", "user", "emptyuser"}
\* Likewise a step on the preferences.
LEMMA PrefMoved ==
    ASSUME RecordInv, Current, NEW p \in Procs, Continue(p), UNCHANGED <<doc, cached>>,
           NEW step, NEW l, Goto(p, step, l), pc[p] \in PrefSteps \ {"idle"}, step \in PrefSteps,
           ~ hist'.failed /\ PrefsCurrent(pref, pc[p], loc[p]) => PrefsCurrent(pref', step, l)
    PROVE  Current'
<1>1. /\ \A q \in Procs \ {p} : pc[q] = "idle"
      /\ ~ hist.lost => ChatCurrent(doc, cached, pc[p], loc[p])
      /\ ~ hist.failed => PrefsCurrent(pref, pc[p], loc[p])
  BY DEF Current, PrefSteps
<1>2. ChatCurrent(doc, cached, pc[p], loc[p]) => ChatCurrent(doc', cached', step, l)
  BY DEF ChatCurrent, PrefSteps, Late, Revoked, Reading
<1> QED
  BY <1>1, <1>2, NotesStay, CurrentMoved
\* The document matches itself, and nothing matches everything.
LEMMA MatchesLaw ==
    ASSUME NEW d, NEW late, NEW revoked
    PROVE  Matches(d, d, late, revoked) /\ Matches(None, d, late, revoked)
BY DEF Matches, Holds, Field, Auth

\* A step of a handler on the chat's record keeps the entry current: reads first.
LEMMA ReadsKeep ==
    ASSUME RecordInv, Current, NEW p \in Procs, Continue(p),
           \/ Lookup(p) \/ Find(p) \/ Fill(p) \/ SettingRead(p)
           \/ ChatKnown(p) \/ NotYetAuthorised(p) \/ StillAuthorised(p)
           \/ Acquire(p) \/ Assigned(p) \/ Given(p)
    PROVE  Current'
<1>1. DOMAIN loc[p] = LocalFields /\ Takes(Op(p), pc[p])
  BY DEF RecordInv, PrivateShape, LocalAt, Sound, Op
<1> USE DEF At, Op, ChatSteps, Reading
<1>2. ASSUME NEW r
      PROVE  LET l == [loc[p] EXCEPT !.rec = r]
             IN  l.op = loc[p].op /\ l.field = loc[p].field /\ l.val = loc[p].val /\ l.rec = r
  BY <1>1 DEF LocalFields
\* It only moves.
<1>3. ASSUME NEW step, NEW l, Goto(p, step, l), UNCHANGED <<doc, cached, pref>>,
             pc[p] \in ChatSteps \ {"idle"}, step \in ChatSteps,
             ChatCurrent(doc, cached, pc[p], loc[p]) => ChatCurrent(doc, cached, step, l)
      PROVE  Current'
  BY <1>3, ChatMoved
<1>4. CASE Lookup(p)
  <2>1. CASE cached # None
    <3> DEFINE l == [loc[p] EXCEPT !.rec = cached]
    <3>1. l.op = loc[p].op /\ l.val = loc[p].val /\ l.rec = cached
      BY <1>2
    <3>2. Goto(p, "have", l) /\ pc[p] = "lookup" /\ UNCHANGED <<doc, cached, pref>>
      BY <1>4, <2>1 DEF Lookup
    <3> HIDE DEF l
    <3>3. ChatCurrent(doc, cached, pc[p], loc[p]) => ChatCurrent(doc, cached, "have", l)
      BY <2>1, <3>1, <3>2 DEF ChatCurrent, Late, Revoked
    <3> QED
      BY <1>3, <3>2, <3>3
  <2>2. CASE cached = None
    <3>1. Goto(p, "find", loc[p]) /\ pc[p] = "lookup" /\ UNCHANGED <<doc, cached, pref>>
      BY <1>4, <2>2 DEF Lookup, Then
    <3>2. ChatCurrent(doc, cached, pc[p], loc[p]) => ChatCurrent(doc, cached, "find", loc[p])
      BY <2>2, <3>1, MatchesLaw DEF ChatCurrent
    <3> QED
      BY <1>3, <3>1, <3>2
  <2> QED
    BY <2>1, <2>2
<1>5. CASE Find(p)
  <2>1. ASSUME NEW step \in {"have", "fill"}, NEW r \in {doc, None},
               step = "fill" \/ r = None \/ doc = None,
               Goto(p, step, [loc[p] EXCEPT !.rec = r])
        PROVE  Current'
    <3> DEFINE l == [loc[p] EXCEPT !.rec = r]
    <3>1. l.op = loc[p].op /\ l.val = loc[p].val /\ l.rec = r
      BY <1>2
    <3>2. Goto(p, step, l) /\ pc[p] = "find" /\ UNCHANGED <<doc, cached, pref>>
      BY <1>5, <2>1 DEF Find
    <3> HIDE DEF l
    <3>3. Matches(r, doc, {}, Revoked(step, l)) /\ Matches(None, doc, Late(step, l), Revoked(step, l))
      BY <2>1, MatchesLaw
    <3>4. ChatCurrent(doc, cached, pc[p], loc[p]) => ChatCurrent(doc, cached, step, l)
      BY <2>1, <3>1, <3>2, <3>3 DEF ChatCurrent
    <3> QED
      BY <1>3, <2>1, <3>2, <3>4
  <2>2. CASE Goto(p, IF doc = None THEN "have" ELSE "fill", [loc[p] EXCEPT !.rec = doc])
    BY <2>1, <2>2
  <2>3. CASE Goto(p, "have", [loc[p] EXCEPT !.rec = None])
    BY <2>1, <2>3
  <2> QED
    BY <1>5, <2>2, <2>3 DEF Find
<1>6. CASE Fill(p)
  <2>1. /\ Goto(p, "have", loc[p]) /\ pc[p] = "fill" /\ cached' = loc[p].rec
        /\ UNCHANGED <<doc, pref>>
    BY <1>6 DEF Fill, Then
  <2>2. ChatCurrent(doc, cached, pc[p], loc[p]) => ChatCurrent(doc, cached', "have", loc[p])
    BY <2>1, MatchesLaw DEF ChatCurrent, Late, Revoked
  <2> QED
    BY <2>1, <2>2, ChatMoved
\* A handler that read what it came for ends.
<1>7. ASSUME pc[p] \in {"have", "given"}, Goto(p, "idle", loc[p]), UNCHANGED <<doc, cached, pref>>,
             loc[p].op # "remove"
      PROVE  Current'
  <2>1. ChatCurrent(doc, cached, pc[p], loc[p]) => ChatCurrent(doc, cached, "idle", loc[p])
    BY <1>7 DEF ChatCurrent, Late, Revoked
  <2> QED
    BY <1>3, <1>7, <2>1
<1>8. CASE SettingRead(p)
  BY <1>7, <1>8 DEF SettingRead, Has, Return, Then
<1>9. CASE ChatKnown(p)
  <2>1. CASE Goto(p, "insert", loc[p])
    <3>1. ChatCurrent(doc, cached, pc[p], loc[p]) => ChatCurrent(doc, cached, "insert", loc[p])
      BY <1>9 DEF ChatKnown, Has, ChatCurrent, Late, Revoked
    <3> QED
      BY <1>3, <1>9, <2>1, <3>1 DEF ChatKnown, Has
  <2> QED
    BY <1>7, <1>9, <2>1 DEF ChatKnown, Has, Return, Then
<1>10. ASSUME NEW op \in {"add", "remove"}, NEW step \in {"push", "pull"},
              pc[p] = "have", Op(p) \in {"add?", "remove?"}, UNCHANGED <<doc, cached, pref>>,
              Goto(p, step, [loc[p] EXCEPT !.op = op, !.rec = None])
       PROVE  Current'
  <2> DEFINE l == [loc[p] EXCEPT !.op = op, !.rec = None]
  <2>1. l.op = op /\ Goto(p, step, l)
    BY <1>1, <1>10 DEF LocalFields
  <2> HIDE DEF l
  <2>2. ChatCurrent(doc, cached, pc[p], loc[p]) => ChatCurrent(doc, cached, step, l)
    BY <1>10, <2>1 DEF ChatCurrent, Late, Revoked
  <2> QED
    BY <1>3, <1>10, <2>1, <2>2
<1>11. CASE NotYetAuthorised(p)
  <2>1. CASE Goto(p, "idle", loc[p])
    BY <1>7, <1>11, <2>1 DEF NotYetAuthorised, Has
  <2>2. CASE Goto(p, "push", [loc[p] EXCEPT !.op = "add", !.rec = None])
    BY <1>10, <1>11, <2>2 DEF NotYetAuthorised, Has
  <2> QED
    BY <1>11, <2>1, <2>2 DEF NotYetAuthorised, Return, Then
<1>12. CASE StillAuthorised(p)
  <2>1. CASE Goto(p, "idle", loc[p])
    BY <1>7, <1>12, <2>1 DEF StillAuthorised, Has
  <2>2. CASE Goto(p, "pull", [loc[p] EXCEPT !.op = "remove", !.rec = None])
    BY <1>10, <1>12, <2>2 DEF StillAuthorised, Has
  <2> QED
    BY <1>12, <2>1, <2>2 DEF StillAuthorised, Return, Then
<1>13. CASE Acquire(p)
  <2>1. Goto(p, "lookup", loc[p]) /\ pc[p] = "lock" /\ UNCHANGED <<doc, cached, pref>>
    BY <1>13 DEF Acquire, Then
  <2>2. ChatCurrent(doc, cached, pc[p], loc[p]) => ChatCurrent(doc, cached, "lookup", loc[p])
    BY <2>1 DEF ChatCurrent, Late, Revoked
  <2> QED
    BY <1>3, <2>1, <2>2
<1>14. CASE Assigned(p)
  <2>1. pc[p] = "have" /\ loc[p].op = "client" /\ UNCHANGED <<doc, cached, pref>>
    BY <1>14 DEF Assigned, Has
  <2>2. ASSUME NEW a, Goto(p, "given", [loc[p] EXCEPT !.val = a])
        PROVE  Current'
    <3> DEFINE l == [loc[p] EXCEPT !.val = a]
    <3>1. l.op = "client" /\ Goto(p, "given", l)
      BY <1>1, <2>1, <2>2 DEF LocalFields
    <3> HIDE DEF l
    <3>2. ChatCurrent(doc, cached, pc[p], loc[p]) => ChatCurrent(doc, cached, "given", l)
      BY <2>1, <3>1 DEF ChatCurrent, Late, Revoked
    <3> QED
      BY <1>3, <2>1, <3>1, <3>2
  <2>3. CASE Goto(p, "update", loc[p])
    <3>1. ChatCurrent(doc, cached, pc[p], loc[p]) => ChatCurrent(doc, cached, "update", loc[p])
      BY <2>1 DEF ChatCurrent, Late, Revoked
    <3> QED
      BY <1>3, <2>1, <2>3, <3>1
  <2> QED
    BY <1>14, <2>2, <2>3 DEF Assigned, Then
<1>15. CASE Given(p)
  BY <1>1, <1>7, <1>15 DEF Given, Return, Then, Takes
<1> QED
  BY <1>4, <1>5, <1>6, <1>8, <1>9, <1>11, <1>12, <1>13, <1>14, <1>15
\* Steps that set or drop the entry, and the scans of the documents.
LEMMA EntriesKeep ==
    ASSUME RecordInv, Current, NEW p \in Procs, Continue(p),
           \/ Merge(p) \/ CacheAuth(p) \/ CacheAssigned(p) \/ DropEntry(p) \/ EmptyEntry(p)
           \/ Scan(p)
    PROVE  Current'
<1>1. /\ DOMAIN loc[p] = LocalFields /\ Takes(Op(p), pc[p]) /\ Suits(loc[p])
      /\ Rec(cached) /\ Rec(loc[p].rec)
  BY DEF RecordInv, PrivateShape, LocalAt, Sound, Op, Shared
<1> USE DEF At, Op, ChatSteps, Reading
\* The entry becomes one that matches the document.
<1>2. ASSUME NEW step \in {"idle", "given", "lookup"}, Goto(p, step, loc[p]),
             step # "idle" => loc[p].op \in {"set", "client"}, UNCHANGED <<doc, pref>>,
             pc[p] \in {"merge", "have", "assigned", "drop", "empty"},
             ~ hist'.lost /\ ChatCurrent(doc, cached, pc[p], loc[p]) => Matches(cached', doc, {}, {})
      PROVE  Current'
  <2>1. ~ hist'.lost /\ ChatCurrent(doc, cached, pc[p], loc[p])
          => ChatCurrent(doc, cached', step, loc[p])
    BY <1>2 DEF ChatCurrent, Late, Revoked
  <2> QED
    BY <1>2, <2>1, ChatMoved
<1>3. CASE Merge(p)
  <2> DEFINE w == With(cached, loc[p].field, loc[p].val)
  <2>1. loc[p].op \in {"set", "client"} /\ loc[p].field \in Scalars /\ loc[p].val \in ScalarValues
    BY <1>1, <1>3 DEF Merge, Takes, Suits, Scalars, ScalarValues
  <2>2. /\ \A f \in Scalars : Holds(w, f) => w[f] = IF f = loc[p].field THEN loc[p].val ELSE cached[f]
        /\ \A f \in Scalars : Holds(w, f) => f = loc[p].field \/ Holds(cached, f)
        /\ Auth(w) = Auth(cached)
    BY <1>1, <2>1, WithLaw DEF Fields, Scalars, Auth
  <2> HIDE DEF w
  <2>3. cached = None => Auth(cached) = {}
    BY DEF Auth, Field
  <2>4. ChatCurrent(doc, cached, pc[p], loc[p]) => Matches(w, doc, {}, {})
    <3>1. pc[p] = "merge"
      BY <1>3 DEF Merge
    <3>2. ASSUME ChatCurrent(doc, cached, pc[p], loc[p])
          PROVE  /\ Field(doc, loc[p].field, Unset) = loc[p].val
                 /\ Matches(cached, doc, {loc[p].field}, {})
      BY <2>1, <3>1, <3>2 DEF ChatCurrent, Late, Revoked
    <3> QED
      BY <2>2, <2>3, <3>2 DEF Matches, Holds
  <2>5. cached' = w /\ pc[p] = "merge" /\ UNCHANGED <<doc, pref>>
        /\ \E step \in {"given", "lookup"} : Goto(p, step, loc[p])
    BY <1>3 DEF Merge, Then, w
  <2> QED
    BY <1>2, <2>1, <2>4, <2>5
<1>4. CASE CacheAuth(p)
  <2>1. /\ Goto(p, "idle", loc[p]) /\ pc[p] = "have" /\ loc[p].op \in {"add", "remove"}
        /\ UNCHANGED <<doc, pref>> /\ loc[p].val \in Users
    BY <1>1, <1>4 DEF CacheAuth, Return, Then, Suits
  <2>2. CASE loc[p].rec = None
    <3>1. ChatCurrent(doc, cached, pc[p], loc[p]) => cached = None
      BY <2>1, <2>2 DEF ChatCurrent
    <3>2. cached' = cached
      BY <1>4, <2>2 DEF CacheAuth
    <3> QED
      BY <1>2, <2>1, <3>1, <3>2, MatchesLaw
  <2>3. CASE loc[p].rec # None
    <3> DEFINE w == With(loc[p].rec, "auth_users", NewAuth(p))
    <3>1. NewAuth(p) \subseteq Users
      BY <1>1, <2>1, AuthLaw DEF NewAuth
    <3>2. /\ \A f \in Scalars : Holds(w, f) => Holds(loc[p].rec, f) /\ w[f] = loc[p].rec[f]
          /\ Auth(w) = NewAuth(p)
      BY <1>1, <3>1, WithLaw DEF Fields, Scalars, Auth
    <3>3. cached' = w
      BY <1>4, <2>3 DEF CacheAuth
    <3> HIDE DEF w
    <3>4. ASSUME ChatCurrent(doc, cached, pc[p], loc[p]) PROVE Matches(w, doc, {}, {})
      <4>1. /\ Matches(loc[p].rec, doc, {}, Revoked("have", loc[p]))
            /\ loc[p].op = "add" => loc[p].val \in Auth(doc)
        BY <2>1, <3>4 DEF ChatCurrent
      <4>2. \A f \in Scalars : Holds(w, f) => w[f] = Field(doc, f, Unset)
        BY <2>3, <3>2, <4>1 DEF Matches
      <4>3. Auth(loc[p].rec) \subseteq Auth(doc) \cup Revoked("have", loc[p])
        BY <2>3, <4>1 DEF Matches
      <4>4. NewAuth(p) \subseteq Auth(doc)
        <5> HIDE DEF Op
        <5>1. CASE loc[p].op = "add"
          BY <4>1, <4>3, <5>1 DEF NewAuth, Revoked, Op
        <5>2. CASE loc[p].op = "remove"
          BY <4>3, <5>2 DEF NewAuth, Revoked, Op
        <5> QED
          BY <2>1, <5>1, <5>2
      <4> QED
        BY <3>2, <4>2, <4>4 DEF Matches
    <3> QED
      BY <1>2, <2>1, <3>3, <3>4
  <2> QED
    BY <2>2, <2>3
<1>5. CASE CacheAssigned(p)
  <2>1. /\ Goto(p, "given", loc[p]) /\ pc[p] = "assigned" /\ UNCHANGED <<doc, pref>>
        /\ loc[p].op = "client" /\ loc[p].val \in ScalarValues
    BY <1>1, <1>5 DEF CacheAssigned, Then, Takes, Suits, ScalarValues
  <2>2. CASE cached = None
    BY <1>2, <1>5, <2>1, <2>2, MatchesLaw DEF CacheAssigned
  <2>3. CASE cached # None
    <3> DEFINE w == With(cached, "assistant", loc[p].val)
    <3>1. /\ \A f \in Scalars : Holds(w, f) => w[f] = IF f = "assistant" THEN loc[p].val ELSE cached[f]
          /\ \A f \in Scalars : Holds(w, f) => f = "assistant" \/ Holds(cached, f)
          /\ Auth(w) = Auth(cached)
      BY <1>1, <2>1, WithLaw DEF Fields, Scalars, Auth
    <3>2. cached' = w
      BY <1>5, <2>3 DEF CacheAssigned
    <3> HIDE DEF w
    <3>3. ASSUME ChatCurrent(doc, cached, pc[p], loc[p]) PROVE Matches(w, doc, {}, {})
      <4>1. /\ Field(doc, "assistant", Unset) = loc[p].val
            /\ Matches(cached, doc, {"assistant"}, {})
        BY <2>1, <3>3 DEF ChatCurrent, Late, Revoked
      <4> QED
        BY <2>3, <3>1, <4>1 DEF Matches
    <3> QED
      BY <1>2, <2>1, <3>2, <3>3
  <2> QED
    BY <2>2, <2>3
<1>6. CASE DropEntry(p)
  <2>1. /\ cached' = None /\ pc[p] = "drop" /\ UNCHANGED <<doc, pref>>
        /\ \/ loc[p].op = "client" /\ Goto(p, "lookup", loc[p])
           \/ Goto(p, "idle", loc[p])
    BY <1>6 DEF DropEntry, Then
  <2> QED
    BY <1>2, <2>1, MatchesLaw
<1>7. CASE EmptyEntry(p)
  <2>1. cached' = NoFields /\ pc[p] = "empty" /\ UNCHANGED <<doc, pref>> /\ Goto(p, "idle", loc[p])
    BY <1>7 DEF EmptyEntry, Return, Then
  <2>2. Matches(NoFields, doc, {}, {})
    BY EmptyLaw DEF Matches, Auth
  <2> QED
    BY <1>2, <2>1, <2>2
<1>8. CASE Scan(p)
  <2>1. /\ pc[p] = "scan" /\ UNCHANGED <<doc, cached, pref>>
        /\ loc[p].op \in {"chats", "users", "clear"}
    BY <1>1, <1>8 DEF Scan, Takes
  <2>2. ASSUME NEW step \in {"idle", "empty", "emptyuser"}, Goto(p, step, loc[p])
        PROVE  Current'
    <3>1. ChatCurrent(doc, cached, pc[p], loc[p]) => ChatCurrent(doc, cached, step, loc[p])
      BY <2>1 DEF ChatCurrent, Late, Revoked
    <3> QED
      BY <2>1, <2>2, <3>1, ChatMoved
  <2>3. ASSUME Op(p) = "clear",
               Goto(p, "unset", [loc[p] EXCEPT
                     !.val = "assistant" \in (IF doc = None THEN {} ELSE DOMAIN doc)])
        PROVE  Current'
    <3> DEFINE b == "assistant" \in (IF doc = None THEN {} ELSE DOMAIN doc)
               l == [loc[p] EXCEPT !.val = b]
    <3>1. l.op = "clear" /\ l.val = b
      BY <1>1, <2>3 DEF LocalFields
    <3>2. b <=> Holds(doc, "assistant")
      BY DEF Holds
    <3>3. Goto(p, "unset", l)
      BY <2>3
    <3> HIDE DEF l, b
    <3>4. l.val <=> Holds(doc, "assistant")
      BY <3>1, <3>2
    <3>5. ChatCurrent(doc, cached, pc[p], loc[p]) => ChatCurrent(doc, cached, "unset", l)
      BY <2>1, <3>1, <3>4 DEF ChatCurrent, Late, Revoked
    <3> QED
      BY <2>1, <3>3, <3>5, ChatMoved
  <2>4. CASE Misses /\ Goto(p, "unset", [loc[p] EXCEPT !.val = FALSE])
    <3>1. hist'.lost
      BY <2>4, MissesEffect DEF RecordInv, Shared
    <3> QED
      BY <2>1, <2>4, <3>1, ChatMoved
  <2> QED
    BY <1>8, <2>2, <2>3, <2>4 DEF Scan, Then
<1> QED
  BY <1>3, <1>4, <1>5, <1>6, <1>7, <1>8

\* Steps that write the document.
LEMMA WritesKeep ==
    ASSUME RecordInv, Current, NEW p \in Procs, Continue(p),
           \/ Insert(p) \/ UpdateChatField(p) \/ AddAuthUser(p) \/ RemoveAuthUser(p)
           \/ Assign(p) \/ UnsetAssistants(p)
    PROVE  Current'
<1>1. /\ Takes(Op(p), pc[p]) /\ Suits(loc[p]) /\ HistShape /\ Rec(doc)
  BY DEF RecordInv, LocalAt, Sound, Op, Shared
<1> USE DEF At, Op, ChatSteps, Reading
<1>2. ASSUME NEW d, NEW step, NEW err, Write(p, d, step, err), UNCHANGED <<cached, pref>>,
             pc[p] \in ChatSteps \ {"idle"}, step \in ChatSteps, err \in ChatSteps,
             ChatCurrent(doc, cached, pc[p], loc[p]) =>
                 ChatCurrent(d, cached, step, loc[p]) /\ ChatCurrent(doc, cached, err, loc[p])
      PROVE  Current'
  <2>1. \/ Applied(d) /\ Then(p, step)
        \/ Unapplied /\ Then(p, err)
        \/ hist'.lost = TRUE /\ Then(p, err)
    BY <1>1, <1>2, WriteEffect
  <2> HIDE DEF ChatSteps
  <2>2. CASE Applied(d) /\ Then(p, step)
    BY <1>2, <2>2, ChatMoved DEF Applied, Then
  <2>3. CASE Unapplied /\ Then(p, err)
    BY <1>2, <2>3, ChatMoved DEF Unapplied, Then
  <2>4. CASE hist'.lost = TRUE /\ Then(p, err)
    BY <1>2, <2>4, ChatMoved DEF Then
  <2> QED
    BY <2>1, <2>2, <2>3, <2>4
\* The entry matches a document with the same fields but for the late ones.
<1>3. ASSUME NEW d, NEW late, NEW revoked, Matches(cached, doc, {}, {}),
             \A f \in Scalars \ late : Field(d, f, Unset) = Field(doc, f, Unset),
             Auth(doc) \subseteq Auth(d) \cup revoked
      PROVE  Matches(cached, d, late, revoked)
  BY <1>3 DEF Matches
\* What the goroutine knows before the write, and after one that was not applied.
<1>4. ASSUME pc[p] \in {"insert", "update", "push", "pull", "assign", "unset"},
             ChatCurrent(doc, cached, pc[p], loc[p])
      PROVE  /\ Matches(cached, doc, {}, {})
             /\ ChatCurrent(doc, cached, "idle", loc[p])
             /\ ChatCurrent(doc, cached, "update", loc[p])
             /\ ChatCurrent(doc, cached, "given", loc[p])
             /\ loc[p].op = "set" => ChatCurrent(doc, cached, "lookup", loc[p])
  BY <1>4 DEF ChatCurrent, Late, Revoked
<1>5. CASE Insert(p)
  <2> DEFINE d == IF doc = None THEN NoFields ELSE doc
  <2>1. \A f, x : Field(d, f, x) = Field(doc, f, x)
    BY EmptyLaw DEF Field
  <2>2. Write(p, d, "idle", "idle") /\ pc[p] = "insert" /\ UNCHANGED <<cached, pref>>
    BY <1>5 DEF Insert
  <2> HIDE DEF d
  <2>3. ASSUME ChatCurrent(doc, cached, pc[p], loc[p]) PROVE ChatCurrent(d, cached, "idle", loc[p])
    <3>1. Matches(cached, d, {}, {})
      BY <1>3, <1>4, <2>1, <2>2, <2>3 DEF Auth
    <3> QED
      BY <3>1, RestLaw
  <2> QED
    BY <1>2, <1>4, <2>2, <2>3
<1>6. CASE UpdateChatField(p)
  <2> DEFINE d == With(doc, loc[p].field, loc[p].val)
  <2>1. /\ loc[p].op \in {"set", "client"} /\ loc[p].field \in Scalars
        /\ loc[p].val \in ScalarValues /\ pc[p] = "update"
    BY <1>1, <1>6 DEF UpdateChatField, Takes, Suits, Scalars, ScalarValues
  <2>2. \A f, x : Field(d, f, x) = IF f = loc[p].field THEN loc[p].val ELSE Field(doc, f, x)
    BY <1>1, <2>1, WithLaw DEF Fields, Scalars
  <2>3. /\ Write(p, d, "merge", IF loc[p].op = "client" THEN "given" ELSE "lookup")
        /\ UNCHANGED <<cached, pref>>
    BY <1>6 DEF UpdateChatField
  <2> HIDE DEF d
  <2>4. ASSUME ChatCurrent(doc, cached, pc[p], loc[p]) PROVE ChatCurrent(d, cached, "merge", loc[p])
    <3>1. Matches(cached, d, {loc[p].field}, {})
      BY <1>3, <1>4, <2>1, <2>2, <2>4 DEF Auth, Scalars
    <3> QED
      BY <2>1, <2>2, <3>1 DEF ChatCurrent, Late, Revoked
  <2> QED
    BY <1>2, <1>4, <2>1, <2>3, <2>4
<1>7. CASE AddAuthUser(p)
  <2> DEFINE d == With(doc, "auth_users", Auth(doc) \cup {loc[p].val})
  <2>1. loc[p].op = "add" /\ loc[p].val \in Users /\ pc[p] = "push"
    BY <1>1, <1>7 DEF AddAuthUser, Takes, Suits
  <2>2. /\ \A f \in Scalars : \A x : Field(d, f, x) = Field(doc, f, x)
        /\ Auth(d) = Auth(doc) \cup {loc[p].val}
    BY <1>1, <2>1, AuthLaw, WithLaw DEF Fields, Scalars, Auth
  <2>3. Write(p, d, "lock", "idle") /\ UNCHANGED <<cached, pref>>
    BY <1>7 DEF AddAuthUser
  <2> HIDE DEF d
  <2>4. ASSUME ChatCurrent(doc, cached, pc[p], loc[p]) PROVE ChatCurrent(d, cached, "lock", loc[p])
    <3>1. Matches(cached, d, {}, {})
      BY <1>3, <1>4, <2>1, <2>2, <2>4
    <3> QED
      BY <2>1, <2>2, <3>1 DEF ChatCurrent, Late, Revoked
  <2> QED
    BY <1>2, <1>4, <2>1, <2>3, <2>4
<1>8. CASE RemoveAuthUser(p)
  <2> DEFINE d == IF doc = None \/ "auth_users" \notin DOMAIN doc THEN doc
                  ELSE With(doc, "auth_users", Auth(doc) \ {loc[p].val})
  <2>1. loc[p].op = "remove" /\ loc[p].val \in Users /\ pc[p] = "pull"
    BY <1>1, <1>8 DEF RemoveAuthUser, Takes, Suits
  <2>2. /\ \A f \in Scalars : \A x : Field(d, f, x) = Field(doc, f, x)
        /\ Auth(doc) \subseteq Auth(d) \cup {loc[p].val}
    <3>1. CASE d = doc
      BY <3>1
    <3>2. CASE d = With(doc, "auth_users", Auth(doc) \ {loc[p].val})
      <4> HIDE DEF d
      <4> QED
        BY <1>1, <2>1, <3>2, AuthLaw, WithLaw DEF Fields, Scalars, Auth
    <3> QED
      BY <3>1, <3>2
  <2>3. Write(p, d, "lock", "idle") /\ UNCHANGED <<cached, pref>>
    BY <1>8 DEF RemoveAuthUser
  <2> HIDE DEF d
  <2>4. ASSUME ChatCurrent(doc, cached, pc[p], loc[p]) PROVE ChatCurrent(d, cached, "lock", loc[p])
    <3>1. Matches(cached, d, {}, {loc[p].val})
      BY <1>3, <1>4, <2>1, <2>2, <2>4
    <3> QED
      BY <2>1, <3>1 DEF ChatCurrent, Late, Revoked
  <2> QED
    BY <1>2, <1>4, <2>1, <2>3, <2>4
<1>9. CASE Assign(p)
  <2> DEFINE d == With(doc, "assistant", loc[p].val)
  <2>1. loc[p].op = "client" /\ loc[p].val \in ScalarValues /\ pc[p] = "assign"
    BY <1>1, <1>9 DEF Assign, Takes, Suits, ScalarValues
  <2>2. \A f, x : Field(d, f, x) = IF f = "assistant" THEN loc[p].val ELSE Field(doc, f, x)
    BY <1>1, <2>1, WithLaw DEF Fields, Scalars
  <2>3. UNCHANGED <<cached, pref>>
    BY <1>9 DEF Assign
  <2>4. CASE Write(p, d, "assigned", "update")
    <3> HIDE DEF d
    <3>1. ASSUME ChatCurrent(doc, cached, pc[p], loc[p])
          PROVE  ChatCurrent(d, cached, "assigned", loc[p])
      <4>1. Matches(cached, d, {"assistant"}, {})
        BY <1>3, <1>4, <2>1, <2>2, <3>1 DEF Auth, Scalars
      <4> QED
        BY <2>1, <2>2, <4>1 DEF ChatCurrent, Late, Revoked
    <3> QED
      BY <1>2, <1>4, <2>1, <2>3, <2>4, <3>1
  <2>5. ASSUME NEW step \in {"drop", "update"}, Then(p, step), doc' = doc
        PROVE  Current'
    <3>1. ChatCurrent(doc, cached, pc[p], loc[p]) => ChatCurrent(doc, cached, step, loc[p])
      BY <2>1, <2>5 DEF ChatCurrent, Late, Revoked
    <3> QED
      BY <2>1, <2>3, <2>5, <3>1, ChatMoved DEF Then
  <2> QED
    BY <1>9, <2>4, <2>5 DEF Assign
<1>10. CASE UnsetAssistants(p)
  <2> DEFINE d == IF doc = None THEN doc ELSE [f \in DOMAIN doc \ {"assistant"} |-> doc[f]]
             step == IF loc[p].val THEN "drop" ELSE "idle"
  <2>1. loc[p].op = "clear" /\ pc[p] = "unset"
    BY <1>1, <1>10 DEF UnsetAssistants, Takes
  <2>2. /\ \A f, x : f # "assistant" => Field(d, f, x) = Field(doc, f, x)
        /\ ~ Holds(doc, "assistant") =>
              Field(d, "assistant", Unset) = Field(doc, "assistant", Unset)
    <3>1. CASE doc = None
      BY <3>1
    <3>2. CASE doc # None
      <4>1. IsDoc(doc) /\ d = [f \in DOMAIN doc \ {"assistant"} |-> doc[f]]
        BY <1>1, <3>2 DEF Rec
      <4> HIDE DEF d
      <4>2. \A f, x : Field(d, f, x) = IF f = "assistant" THEN x ELSE Field(doc, f, x)
        BY <4>1, UnsetLaw
      <4> QED
        BY <4>2 DEF Holds, Field
    <3> QED
      BY <3>1, <3>2
  <2>3. Write(p, d, step, "idle") /\ UNCHANGED <<cached, pref>>
    BY <1>10 DEF UnsetAssistants
  <2> HIDE DEF d
  <2>4. ASSUME ChatCurrent(doc, cached, pc[p], loc[p]) PROVE ChatCurrent(d, cached, step, loc[p])
    <3>1. loc[p].val <=> Holds(doc, "assistant")
      BY <2>1, <2>4 DEF ChatCurrent
    <3>2. Auth(doc) = Auth(d)
      BY <2>2 DEF Auth
    <3>3. CASE step = "drop"
      <4>1. Matches(cached, d, {"assistant"}, {})
        BY <1>3, <1>4, <2>1, <2>2, <2>4, <3>2
      <4> QED
        BY <2>1, <3>3, <4>1 DEF ChatCurrent, Late, Revoked
    <3>4. CASE ~ loc[p].val /\ step = "idle"
      <4>1. Matches(cached, d, {}, {})
        BY <1>3, <1>4, <2>1, <2>2, <2>4, <3>1, <3>2, <3>4
      <4> QED
        BY <3>4, <4>1, RestLaw
    <3> QED
      BY <3>3, <3>4
  <2>5. step \in ChatSteps
    OBVIOUS
  <2> HIDE DEF step
  <2> QED
    BY <1>2, <1>4, <2>1, <2>3, <2>4, <2>5
<1> QED
  BY <1>5, <1>6, <1>7, <1>8, <1>9, <1>10
\* Steps on the preferences.
LEMMA PrefsKeep ==
    ASSUME RecordInv, Current, NEW p \in Procs, Continue(p),
           \/ Status(p) \/ KeepStatus(p) \/ GotStatus(p) \/ SetStatus(p) \/ MergeStatus(p)
           \/ UpsertUser(p) \/ EmptyUser(p)
    PROVE  Current'
<1>1. /\ DOMAIN loc[p] = LocalFields /\ Takes(Op(p), pc[p]) /\ Suits(loc[p])
      /\ HistShape /\ PrefShape
  BY DEF RecordInv, PrivateShape, LocalAt, Sound, Op, Shared
<1> USE DEF At, Op, PrefSteps
\* It only moves.
<1>2. ASSUME NEW step, NEW l, Goto(p, step, l), UNCHANGED <<doc, cached, pref>>,
             pc[p] \in PrefSteps \ {"idle"}, step \in PrefSteps,
             ~ hist'.failed /\ PrefsCurrent(pref, pc[p], loc[p]) => PrefsCurrent(pref, step, l)
      PROVE  Current'
  BY <1>2, PrefMoved
\* After a failed call nothing is claimed of the preferences.
<1>3. ASSUME Fails, NEW step, NEW l, Goto(p, step, l), UNCHANGED <<doc, cached>>,
             pc[p] \in PrefSteps \ {"idle"}, step \in PrefSteps
      PROVE  Current'
  <2>1. hist'.failed
    BY <1>1, <1>3, FailsEffect
  <2> QED
    BY <1>3, <2>1, PrefMoved
<1>4. ASSUME NEW step \in {"keep", "got", "setpref"}, NEW b, Goto(p, step, [loc[p] EXCEPT !.val = b]),
             UNCHANGED <<doc, cached, pref>>, pc[p] \in {"status", "got"},
             step = "keep" => b = Field(pref[loc[p].field].doc, "on", FALSE)
      PROVE  Current'
  <2> DEFINE l == [loc[p] EXCEPT !.val = b]
  <2>1. l.field = loc[p].field /\ l.val = b /\ Goto(p, step, l)
    BY <1>1, <1>4 DEF LocalFields
  <2> HIDE DEF l
  <2>2. PrefsCurrent(pref, pc[p], loc[p]) => PrefsCurrent(pref, step, l)
    BY <1>4, <2>1 DEF PrefsCurrent
  <2> QED
    BY <1>2, <1>4, <2>1, <2>2
<1>5. CASE Status(p)
  <2> DEFINE e == pref[loc[p].field].cached
             b == Field(pref[loc[p].field].doc, "on", FALSE)
  <2>1. pc[p] = "status" /\ UNCHANGED <<doc, cached, pref>>
    BY <1>5 DEF Status
  <2>2. \/ Goto(p, "got", [loc[p] EXCEPT !.val = e.on])
        \/ Goto(p, "keep", [loc[p] EXCEPT !.val = b])
        \/ Fails /\ Goto(p, "keep", [loc[p] EXCEPT !.val = FALSE])
    BY <1>5 DEF Status, Key
  <2> HIDE DEF e
  <2>3. CASE Goto(p, "got", [loc[p] EXCEPT !.val = e.on])
    BY <1>4, <2>1, <2>3
  <2>4. CASE Goto(p, "keep", [loc[p] EXCEPT !.val = b])
    BY <1>4, <2>1, <2>4
  <2>5. CASE Fails /\ Goto(p, "keep", [loc[p] EXCEPT !.val = FALSE])
    BY <1>3, <2>1, <2>5
  <2> QED
    BY <2>2, <2>3, <2>4, <2>5
\* A preference is set: what the others need does not change.
<1>6. ASSUME NEW k \in Keys, NEW part \in {"doc", "cached"}, NEW r,
             pref' = [pref EXCEPT ![k][part] = r]
      PROVE  /\ \A j \in Keys \ {k} : pref'[j] = pref[j]
             /\ part = "doc" => pref'[k].doc = r /\ pref'[k].cached = pref[k].cached
             /\ part = "cached" => pref'[k].cached = r /\ pref'[k].doc = pref[k].doc
  <2>1. /\ \A j \in Keys \ {k} : pref'[j] = pref[j]
        /\ pref'[k] = [pref[k] EXCEPT ![part] = r] /\ DOMAIN pref[k] = {"doc", "cached"}
    BY <1>1, <1>6 DEF PrefShape
  <2>2. CASE part = "doc"
    BY <2>1, <2>2
  <2>3. CASE part = "cached"
    BY <2>1, <2>3
  <2> QED
    BY <2>2, <2>3
<1>7. loc[p].op \in {"get", "toggle"} => loc[p].field \in Keys /\ loc[p].val \in BOOLEAN
  BY <1>1 DEF Suits
\* The entry becomes what was read or stored.
<1>8. ASSUME NEW step \in {"got", "idle"}, Goto(p, step, loc[p]), UNCHANGED <<doc, cached>>,
             pc[p] \in {"keep", "mergepref"}, loc[p].op \in {"get", "toggle"},
             SetPref(p, "cached", [on |-> loc[p].val])
      PROVE  Current'
  <2> DEFINE k == loc[p].field
             r == [on |-> loc[p].val]
  <2>1. k \in Keys /\ Holds(r, "on") /\ r["on"] = loc[p].val
    BY <1>7, <1>8, OnLaw
  <2>2. pref' = [pref EXCEPT ![k]["cached"] = r]
    BY <1>8 DEF SetPref, Key
  <2> HIDE DEF r
  <2>3. /\ \A j \in Keys \ {k} : pref'[j] = pref[j]
        /\ pref'[k].cached = r /\ pref'[k].doc = pref[k].doc
    BY <1>6, <2>1, <2>2
  <2>4. PrefsCurrent(pref, pc[p], loc[p]) => PrefsCurrent(pref', step, loc[p])
    BY <1>8, <2>1, <2>3 DEF PrefsCurrent, PrefCurrent
  <2> QED
    BY <1>8, <2>4, PrefMoved
<1>9. CASE KeepStatus(p)
  BY <1>1, <1>8, <1>9 DEF KeepStatus, Then, Takes, Reading
<1>10. CASE MergeStatus(p)
  BY <1>1, <1>8, <1>10 DEF MergeStatus, Return, Then, Takes, Reading
<1>11. CASE GotStatus(p)
  <2>1. pc[p] = "got" /\ UNCHANGED <<doc, cached, pref>>
    BY <1>11 DEF GotStatus
  <2>2. CASE Return(p)
    <3>1. PrefsCurrent(pref, pc[p], loc[p]) => PrefsCurrent(pref, "idle", loc[p])
      BY <2>1 DEF PrefsCurrent
    <3> QED
      BY <1>2, <2>1, <2>2, <3>1 DEF Return, Then
  <2>3. ASSUME NEW b \in BOOLEAN, Goto(p, "setpref", [loc[p] EXCEPT !.val = b])
        PROVE  Current'
    BY <1>4, <2>1, <2>3
  <2> QED
    BY <1>11, <2>2, <2>3 DEF GotStatus
<1>12. CASE SetStatus(p)
  <2>1. pc[p] = "setpref" /\ loc[p].op = "toggle" /\ UNCHANGED <<doc, cached>>
    BY <1>1, <1>12 DEF SetStatus, Takes, Reading
  <2>2. CASE SetPref(p, "doc", [on |-> loc[p].val]) /\ Then(p, "mergepref")
    <3> DEFINE k == loc[p].field
               r == [on |-> loc[p].val]
    <3>1. k \in Keys /\ Field(r, "on", FALSE) = loc[p].val
      BY <1>7, <2>1, OnLaw
    <3>2. pref' = [pref EXCEPT ![k]["doc"] = r]
      BY <2>2 DEF SetPref, Key
    <3> HIDE DEF r
    <3>3. (\A j \in Keys \ {k} : pref'[j] = pref[j]) /\ pref'[k].doc = r
      BY <1>6, <3>1, <3>2
    <3>4. PrefsCurrent(pref, pc[p], loc[p]) => PrefsCurrent(pref', "mergepref", loc[p])
      BY <2>1, <3>1, <3>3 DEF PrefsCurrent
    <3> QED
      BY <2>1, <2>2, <3>4, PrefMoved DEF Then
  <2>3. CASE Fails /\ Return(p)
    BY <1>3, <2>1, <2>3 DEF Return, Then
  <2> QED
    BY <1>12, <2>2, <2>3 DEF SetStatus
<1>13. CASE UpsertUser(p)
  <2>1. pc[p] = "user" /\ UNCHANGED <<doc, cached>>
    BY <1>13 DEF UpsertUser
  <2>2. CASE UNCHANGED <<pref, faults, hist>> /\ Return(p)
    <3>1. PrefsCurrent(pref, pc[p], loc[p]) => PrefsCurrent(pref, "idle", loc[p])
      BY <2>1 DEF PrefsCurrent
    <3> QED
      BY <1>2, <2>1, <2>2, <3>1 DEF Return, Then
  <2>3. CASE Fails /\ Return(p)
    BY <1>3, <2>1, <2>3 DEF Return, Then
  <2>4. CASE pref["autoplay"].cached = None /\ KnowUser /\ Then(p, "emptyuser")
    <3>1. "autoplay" \in Keys /\ pref' = [pref EXCEPT !["autoplay"]["doc"] = UserKnown]
      BY <2>4 DEF Keys, KnowUser
    <3>2. /\ \A j \in Keys \ {"autoplay"} : pref'[j] = pref[j]
          /\ pref'["autoplay"].cached = None
      BY <1>6, <2>4, <3>1
    <3>3. PrefsCurrent(pref, pc[p], loc[p]) => PrefsCurrent(pref', "emptyuser", loc[p])
      BY <2>1, <3>2 DEF PrefsCurrent, PrefCurrent, Holds
    <3> QED
      BY <2>1, <2>4, <3>3, PrefMoved DEF Then
  <2> QED
    BY <1>13, <2>2, <2>3, <2>4 DEF UpsertUser
<1>14. CASE EmptyUser(p)
  <2>1. /\ pc[p] = "emptyuser" /\ UNCHANGED <<doc, cached>> /\ Goto(p, "idle", loc[p])
        /\ loc[p].field = "autoplay"
    BY <1>1, <1>14 DEF EmptyUser, Return, Then, Takes, Suits, Reading
  <2>2. "autoplay" \in Keys /\ pref' = [pref EXCEPT !["autoplay"]["cached"] = NoFields]
    BY <1>14, <2>1 DEF EmptyUser, SetPref, Key, Keys
  <2>3. /\ \A j \in Keys \ {"autoplay"} : pref'[j] = pref[j]
        /\ pref'["autoplay"].cached = NoFields
    BY <1>6, <2>2
  <2>4. PrefsCurrent(pref, pc[p], loc[p]) => PrefsCurrent(pref', "idle", loc[p])
    BY <2>1, <2>3, EmptyLaw DEF PrefsCurrent, PrefCurrent
  <2> QED
    BY <2>1, <2>4, PrefMoved
<1> QED
  BY <1>5, <1>9, <1>10, <1>11, <1>12, <1>13, <1>14

\* A handler starts while nobody else is under way.
LEMMA CurrentBegins ==
    ASSUME RecordInv, NEW p \in Procs, Begin(p), ~ hist'.overlap, ~ hist.overlap => Current
    PROVE  Current'
<1> DEFINE Steps == {"lookup", "update", "pull", "assign", "scan", "status", "user"}
<1>1. ASSUME NEW step \in Steps, NEW l, Start(p, step, l),
             l.op # "add", l.op = "remove" => step = "pull"
      PROVE  Current'
  <2>2. hist'.overlap = Overlaps /\ hist'.lost = hist.lost /\ hist'.failed = hist.failed
    BY <1>1 DEF Start, RecordInv, Shared, HistShape
  <2>3. ~ hist.overlap /\ AllIdle
    BY <2>2 DEF Overlaps, AllIdle
  <2>4. Goto(p, step, l) /\ UNCHANGED <<doc, cached, pref>>
    BY <1>1 DEF Start
  <2>5. Matches(cached, doc, {}, {}) => ChatCurrent(doc, cached, step, l)
    BY <1>1 DEF ChatCurrent, Late, Revoked, Reading
  <2>6. (\A k \in Keys : PrefCurrent(pref[k])) => PrefsCurrent(pref, step, l)
    BY <1>1 DEF PrefsCurrent
  <2>7. /\ \A q \in Procs : pc[q] = "idle"
        /\ ~ hist.lost => Matches(cached, doc, {}, {})
        /\ ~ hist.failed => \A k \in Keys : PrefCurrent(pref[k])
    BY <2>3 DEF Current, AllIdle, Idle, At
  <2> QED
    BY <2>2, <2>4, <2>5, <2>6, <2>7, CurrentMoved
<1> HIDE DEF Steps
<1>2. ASSUME NEW step \in Steps, NEW op, NEW f, NEW v, Start(p, step, Locals(op, f, v)),
             op # "add", op = "remove" => step = "pull"
      PROVE  Current'
  BY <1>1, <1>2, StartLocals
<1>3. ASSUME NEW step \in Steps, NEW op \in {"get", "toggle", "adduser", "users"}, NEW f,
              Start(p, step, Locals(op, f, FALSE))
       PROVE  Current'
  <2> DEFINE l == Locals(op, f, FALSE)
  <2>1. l.op = op /\ Start(p, step, l)
    BY <1>3 DEF Locals, NoLocals
  <2> HIDE DEF l
  <2> QED
    BY <1>1, <1>3, <2>1
<1>4. {"lookup", "update", "pull", "assign", "scan", "status", "user"} \subseteq Steps
  BY DEF Steps
<1>5. CASE ReadSetting(p) \/ SettingsCallback(p)
  BY <1>2, <1>4, <1>5 DEF ReadSetting, SettingsCallback
<1>6. CASE AddAuthHandler(p)
  BY <1>2, <1>4, <1>6 DEF AddAuthHandler
<1>7. CASE RemoveAuthHandler(p)
  <2>1. PICK u \in Users : Start(p, IF u \in Admins THEN "pull" ELSE "lookup",
                                 Locals(IF u \in Admins THEN "remove" ELSE "remove?",
                                        "auth_users", u))
    BY <1>7 DEF RemoveAuthHandler
  <2>2. CASE u \in Admins
    BY <1>2, <1>4, <2>1, <2>2
  <2>3. CASE u \notin Admins
    BY <1>2, <1>4, <2>1, <2>3
  <2> QED
    BY <2>2, <2>3
<1>8. CASE GetClientName(p)
  BY <1>2, <1>4, <1>8 DEF GetClientName
<1>9. CASE AddChat(p) \/ GetAllChats(p) \/ ClearAllAssistants(p)
  BY <1>2, <1>4, <1>9 DEF AddChat, GetAllChats, ClearAllAssistants
<1>10. CASE GetStatus(p) \/ Toggle(p)
  BY <1>4, <1>10, <1>3 DEF GetStatus, Toggle
<1>11. CASE AddUser(p) \/ GetAllUsers(p)
  BY <1>4, <1>11, <1>3 DEF AddUser, GetAllUsers
<1> QED
  BY <1>5, <1>6, <1>7, <1>8, <1>9, <1>10, <1>11 DEF Begin

\* An entry that grows old says nothing wrong.
LEMMA CurrentExpires ==
    ASSUME RecordInv, Current, Expire
    PROVE  Current'
<1>1. UNCHANGED <<doc, pc, loc, hist>> /\ DOMAIN pref = Keys
  BY DEF Expire, RecordInv, Shared, PrefShape
<1>2. ASSUME NEW step, NEW l
      PROVE  ChatCurrent(doc, cached, step, l) => ChatCurrent(doc, None, step, l)
  BY MatchesLaw DEF ChatCurrent
<1>3. cached' = cached \/ cached' = None
  BY DEF Expire
<1>4. ASSUME NEW k \in Keys, pref' = [pref EXCEPT ![k].cached = None]
      PROVE  \A j \in Keys : /\ pref'[j].doc = pref[j].doc
                             /\ pref'[j].cached = pref[j].cached \/ pref'[j].cached = None
  <2>1. /\ \A j \in Keys \ {k} : pref'[j] = pref[j]
        /\ pref'[k] = [pref[k] EXCEPT !["cached"] = None] /\ DOMAIN pref[k] = {"doc", "cached"}
    BY <1>1, <1>4 DEF RecordInv, Shared, PrefShape
  <2> QED
    BY <2>1
<1>5. \A j \in Keys : /\ pref'[j].doc = pref[j].doc
                      /\ pref'[j].cached = pref[j].cached \/ pref'[j].cached = None
  <2>1. CASE pref' = pref
    BY <2>1
  <2>2. ASSUME NEW k \in DOMAIN pref, pref' = [pref EXCEPT ![k].cached = None]
        PROVE  \A j \in Keys : /\ pref'[j].doc = pref[j].doc
                               /\ pref'[j].cached = pref[j].cached \/ pref'[j].cached = None
    BY <1>1, <1>4, <2>2
  <2> QED
    BY <2>1, <2>2 DEF Expire
<1>6. \A j \in Keys : PrefCurrent(pref[j]) => PrefCurrent(pref'[j])
  BY <1>5 DEF PrefCurrent, Holds
<1>7. ASSUME NEW step, NEW l, step \in {"keep", "mergepref"} => l.field \in Keys
      PROVE  PrefsCurrent(pref, step, l) => PrefsCurrent(pref', step, l)
  BY <1>5, <1>6, <1>7 DEF PrefsCurrent
<1>8. \A q \in Procs : pc[q] \in {"keep", "mergepref"} => loc[q].field \in Keys
  BY DEF RecordInv, LocalAt, Sound, Takes, Suits, Reading
<1>9. ~ hist.lost => /\ AllIdle => Matches(cached', doc, {}, {})
                     /\ \A q \in Procs : pc[q] # "idle" => ChatCurrent(doc, cached', pc[q], loc[q])
  BY <1>2, <1>3, MatchesLaw DEF Current
<1>10. ~ hist.failed => /\ AllIdle => \A j \in Keys : PrefCurrent(pref'[j])
                        /\ \A q \in Procs : pc[q] # "idle" => PrefsCurrent(pref', pc[q], loc[q])
  BY <1>6, <1>7, <1>8 DEF Current
<1>11. ~ hist'.lost => /\ AllIdle' => Matches(cached, doc, {}, {})'
                       /\ \A q \in Procs : pc'[q] # "idle" =>
                             ChatCurrent(doc', cached', pc'[q], loc'[q])
  BY <1>1, <1>9 DEF AllIdle, Idle, At, Matches
<1>12. ~ hist'.failed => /\ AllIdle' => (\A j \in Keys : PrefCurrent(pref[j]))'
                         /\ \A q \in Procs : pc'[q] # "idle" =>
                               PrefsCurrent(pref', pc'[q], loc'[q])
  BY <1>1, <1>10 DEF AllIdle, Idle, At, PrefCurrent
<1> QED
  BY <1>1, <1>11, <1>12 DEF Current

\* While handlers did not overlap, the entries say what the documents say once all have
\* returned, unless the answer of a write was lost, /clearassistants cleared chats it
\* could not list, or a call on a preference failed.
THEOREM CacheAgrees == Spec => []CacheCurrent
<1>1. ASSUME Init PROVE CurrentInv
  <2>1. /\ \A q \in Procs : pc[q] = "idle"
        /\ cached = None /\ \A k \in Keys : pref[k].cached = None
    BY <1>1 DEF Init, Keys
  <2>2. Current
    BY <2>1, MatchesLaw DEF Current, PrefCurrent, Holds
  <2> QED
    BY <1>1, <2>2, InitRecord DEF CurrentInv
<1>2. ASSUME CurrentInv, [Next]_vars PROVE CurrentInv'
  <2>1. RecordInv'
    BY <1>2, RecordKept DEF CurrentInv
  <2>2. ASSUME ~ hist'.overlap PROVE Current'
    <3>1. CASE UNCHANGED vars
      <4>1. Current
        BY <1>2, <2>2, <3>1 DEF vars, CurrentInv
      <4> QED
        BY <3>1, <4>1 DEF vars, Current, AllIdle, Idle, At, Matches, PrefCurrent, ChatCurrent,
                          PrefsCurrent
    <3>2. CASE Expire
      BY <1>2, <2>2, <3>2, CurrentExpires DEF Expire, CurrentInv
    <3>3. ASSUME NEW p \in Procs, Begin(p) PROVE Current'
      BY <1>2, <2>2, <3>3, CurrentBegins DEF CurrentInv
    <3>4. ASSUME NEW p \in Procs, Continue(p) PROVE Current'
      <4>1. RecordInv /\ Current
        BY <1>2, <2>2, <3>4, NotesStay DEF CurrentInv
      <4> QED
        BY <3>4, <4>1, ReadsKeep, EntriesKeep, WritesKeep, PrefsKeep DEF Continue
    <3> QED
      BY <1>2, <3>1, <3>2, <3>3, <3>4 DEF Next
  <2> QED
    BY <2>1, <2>2 DEF CurrentInv
<1>3. ASSUME CurrentInv PROVE CacheCurrent
  <2>1. DOMAIN pref = Keys
    BY <1>3 DEF CurrentInv, RecordInv, Shared, PrefShape
  <2>2. ASSUME AllIdle, ~ hist.overlap
        PROVE  /\ ~ hist.lost => Matches(cached, doc, {}, {})
               /\ ~ hist.failed => \A k \in Keys : PrefCurrent(pref[k])
    BY <1>3, <2>2 DEF CurrentInv, Current
  <2> QED
    BY <2>1, <2>2 DEF CacheCurrent, Matches, PrefCurrent, Holds
<1> QED
  BY <1>1, <1>2, <1>3, PTL DEF Spec
=============================================================================
