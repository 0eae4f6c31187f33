--------------------------- MODULE PlaylistProofs ---------------------------
(***************************************************************************)
(* Playlists.  Their number: every handler that passed the check of the    *)
(* limit has a list of its own set aside until it inserts it or gives up,  *)
(* and no handler can hold two.  Their owners: a handler that works on a   *)
(* list is its owner's, and what it removes is the song it was asked to.   *)
(* Their songs: a song is in a list once unless two adds of the list       *)
(* overlapped.                                                             *)
(***************************************************************************)
EXTENDS Playlists, FiniteSetTheorems, TLAPS

-----------------------------------------------------------------------------
(* The number of a user's lists *)

Inserting == {"insert", "insertForSong"}

\* A stored list has an owner and songs, a name not drawn has no list, and a
\* handler at work knows its user.  (What is in the songs does not matter.)
Shaped ==
    /\ unused \subseteq Ids
    /\ lists = [i \in Ids |-> lists[i]]
    /\ \A i \in Ids : lists[i] # None =>
          lists[i] = [owner |-> lists[i].owner, songs |-> lists[i].songs]
    /\ \A i \in unused : lists[i] = None
    /\ pc \in [Procs -> Steps]
    /\ job = [p \in Procs |-> job[p]]
    /\ \A p \in Procs : job[p] = [by |-> job[p].by, list |-> job[p].list,
                                  track |-> job[p].track, number |-> job[p].number]
    /\ \A p \in Procs : pc[p] \in Inserting => job[p].by \in Users

IInv == Shaped /\ ListsBounded

USE PlaylistsAssumption

\* Both sets are finite, and their sizes are numbers.
LEMMA Sizes ==
    ASSUME NEW S, NEW T, S \subseteq Ids, T \subseteq Procs
    PROVE  /\ IsFiniteSet(S) /\ Cardinality(S) \in Nat
           /\ IsFiniteSet(T) /\ Cardinality(T) \in Nat
           /\ Cardinality(Procs) \in Nat /\ Cardinality(T) <= Cardinality(Procs)
BY FS_Subset, FS_CardinalityType

LEMMA Subsets ==
    ASSUME NEW u
    PROVE  /\ Mine(u) \subseteq Ids /\ Mine(u)' \subseteq Ids
           /\ Creating(u) \subseteq Procs /\ Creating(u)' \subseteq Procs
BY DEF Mine, Creating

\* The bound, for one user.
Bound(u) ==
    Cardinality(Mine(u)) + Cardinality(Creating(u)) <= Limit + Cardinality(Procs) - 1

\* Less lists and less handlers on their way.
LEMMA Fewer ==
    ASSUME NEW u, Bound(u), Mine(u)' \subseteq Mine(u), Creating(u)' \subseteq Creating(u)
    PROVE  Bound(u)'
<1>1. /\ Cardinality(Mine(u)') <= Cardinality(Mine(u))
      /\ Cardinality(Creating(u)') <= Cardinality(Creating(u))
  BY Subsets, Sizes, FS_Subset
<1>2. /\ Cardinality(Mine(u)) \in Nat /\ Cardinality(Mine(u)') \in Nat
      /\ Cardinality(Creating(u)) \in Nat /\ Cardinality(Creating(u)') \in Nat
      /\ Cardinality(Procs) \in Nat
  BY Subsets, Sizes
<1> QED BY <1>1, <1>2 DEF Bound

\* A handler that sets out below the limit.
LEMMA SetsOut ==
    ASSUME NEW u, BelowLimit(u), Mine(u)' = Mine(u)
    PROVE  Bound(u)'
<1>1. /\ Cardinality(Mine(u)) \in Nat /\ Cardinality(Creating(u)') \in Nat
      /\ Cardinality(Procs) \in Nat /\ Cardinality(Creating(u)') <= Cardinality(Procs)
  BY Subsets, Sizes
<1> QED BY <1>1 DEF Bound, BelowLimit

\* A handler that arrives with its list.
LEMMA Arrives ==
    ASSUME NEW u, Bound(u), NEW i, Mine(u)' = Mine(u) \cup {i}, i \notin Mine(u),
           NEW p \in Creating(u), Creating(u)' = Creating(u) \ {p}
    PROVE  Bound(u)'
<1>1. /\ Cardinality(Mine(u)') = Cardinality(Mine(u)) + 1
      /\ Cardinality(Creating(u)') = Cardinality(Creating(u)) - 1
  <2>1. IsFiniteSet(Mine(u)) /\ IsFiniteSet(Creating(u))
    BY Subsets, Sizes
  <2>2. Cardinality(Mine(u) \cup {i}) = Cardinality(Mine(u)) + 1
    BY <2>1, FS_AddElement
  <2>3. Cardinality(Creating(u) \ {p}) = Cardinality(Creating(u)) - 1
    BY <2>1, FS_RemoveElement
  <2> QED BY <2>2, <2>3
<1>2. /\ Cardinality(Mine(u)) \in Nat /\ Cardinality(Creating(u)) \in Nat
      /\ Cardinality(Procs) \in Nat
  BY Subsets, Sizes
<1> QED BY <1>1, <1>2 DEF Bound

\* Nobody has a list, and nobody is on the way to make one.
LEMMA InitBounded == Init => IInv
<1> SUFFICES ASSUME Init PROVE IInv
  OBVIOUS
<1>1. Shaped
  BY DEF Init, Shaped, Idle, Steps, Inserting
<1>2. ASSUME NEW u \in Users PROVE Bound(u)
  <2>1. Mine(u) = {} /\ Creating(u) = {}
    BY DEF Init, Mine, Creating
  <2>2. Cardinality(Procs) \in Nat
    BY FS_CardinalityType
  <2> QED BY <2>1, <2>2, FS_EmptySet DEF Bound
<1> QED BY <1>1, <1>2 DEF IInv, ListsBounded, Bound

\* A job that Go may hand on.
IsJob(j) == j = [by |-> j.by, list |-> j.list, track |-> j.track, number |-> j.number]

\* Go keeps the shapes, and moves one handler in or out of the creating ones.
LEMMA GoMoves ==
    ASSUME Shaped, NEW p \in Procs, NEW step \in Steps, NEW j, IsJob(j),
           step \in Inserting => j.by \in Users, Go(p, step, j)
    PROVE  /\ pc' \in [Procs -> Steps] /\ job' = [q \in Procs |-> job'[q]]
           /\ \A q \in Procs : IsJob(job'[q])
           /\ \A q \in Procs : pc'[q] \in Inserting => job'[q].by \in Users
           /\ \A u : Creating(u)' = (Creating(u) \ {p}) \cup
                          (IF step \in Inserting /\ j.by = u THEN {p} ELSE {})
<1>1. pc' = [pc EXCEPT ![p] = step] /\ job' = [job EXCEPT ![p] = j]
  BY DEF Go
<1>2. /\ \A q \in Procs : pc'[q] = IF q = p THEN step ELSE pc[q]
      /\ \A q \in Procs : job'[q] = IF q = p THEN j ELSE job[q]
  BY <1>1 DEF Shaped
<1>3. pc' \in [Procs -> Steps] /\ job' = [q \in Procs |-> job'[q]]
  BY <1>1 DEF Shaped
<1>4. /\ \A q \in Procs : IsJob(job'[q])
      /\ \A q \in Procs : pc'[q] \in Inserting => job'[q].by \in Users
  BY <1>2 DEF Shaped, IsJob
<1>5. ASSUME NEW u
      PROVE  Creating(u)' = (Creating(u) \ {p}) \cup
                 (IF step \in Inserting /\ j.by = u THEN {p} ELSE {})
  BY <1>2 DEF Creating, Inserting
<1> QED BY <1>3, <1>4, <1>5

\* A step of one handler that leaves the collection alone.
LEMMA QuietShapes ==
    ASSUME Shaped, NEW p \in Procs, NEW step \in Steps, NEW j, IsJob(j),
           step \in Inserting => j.by \in Users, Go(p, step, j),
           UNCHANGED <<lists, unused>>
    PROVE  Shaped' /\ \A u : Mine(u)' = Mine(u)
<1>1. Shaped'
  BY GoMoves DEF Shaped, IsJob
<1>2. \A u : Mine(u)' = Mine(u)
  BY DEF Mine
<1> QED BY <1>1, <1>2

\* Such a step to a place that is not an insert.
LEMMA QuietStep ==
    ASSUME IInv, NEW p \in Procs, NEW step \in Steps \ Inserting, NEW j, IsJob(j),
           Go(p, step, j), UNCHANGED <<lists, unused>>
    PROVE  IInv'
<1>1. Shaped' /\ \A u : Mine(u)' = Mine(u)
  BY QuietShapes DEF IInv
<1>2. \A u : Creating(u)' \subseteq Creating(u)
  BY GoMoves DEF IInv
<1>3. \A u \in Users : Bound(u)'
  BY <1>1, <1>2, Fewer DEF IInv, ListsBounded, Bound
<1> QED BY <1>1, <1>3 DEF IInv, ListsBounded, Bound

\* A handler that sets out to insert a list.
LEMMA SetOutStep ==
    ASSUME IInv, NEW p \in Procs, NEW u \in Users, NEW t, BelowLimit(u),
           NEW step \in Inserting, Go(p, step, For(u, None, t, 0)),
           UNCHANGED <<lists, unused>>
    PROVE  IInv'
<1>1. IsJob(For(u, None, t, 0)) /\ For(u, None, t, 0).by = u /\ step \in Steps
  BY DEF IsJob, For, Inserting, Steps
<1>2. Shaped' /\ \A v : Mine(v)' = Mine(v)
  BY <1>1, QuietShapes DEF IInv
<1>3. Bound(u)'
  BY <1>2, SetsOut
<1>4. ASSUME NEW v \in Users, v # u PROVE Bound(v)'
  <2>1. Creating(v)' \subseteq Creating(v)
    BY <1>1, <1>4, GoMoves DEF IInv
  <2> QED BY <1>2, <2>1, Fewer DEF IInv, ListsBounded, Bound
<1> QED BY <1>2, <1>3, <1>4 DEF IInv, ListsBounded, Bound

\* A handler starts.
LEMMA StartStep ==
    ASSUME IInv, NEW p \in Procs, Start(p)
    PROVE  IInv'
<1>1. \A u, i, t, n : IsJob(For(u, i, t, n))
  BY DEF IsJob, For
<1>2. {"delete", "findToAdd", "findToRemove"} \subseteq Steps \ Inserting
  BY DEF Steps, Inserting
<1>3. ASSUME NEW u \in Users, CreatePlaylist(p, u) PROVE IInv'
  BY <1>3, SetOutStep DEF CreatePlaylist, Inserting
<1>4. ASSUME NEW u \in Users, NEW t \in Tracks, PressAdd(p, u, t) PROVE IInv'
  <2>1. CASE Mine(u) = {} /\ Go(p, "insertForSong", For(u, None, t, 0))
    <3>1. BelowLimit(u)
      BY <2>1, FS_EmptySet DEF BelowLimit
    <3> QED BY <1>4, <2>1, <3>1, SetOutStep DEF PressAdd, Inserting
  <2>2. CASE \E i \in Mine(u) : Go(p, "findToAdd", For(u, i, t, 0))
    BY <1>1, <1>2, <1>4, <2>2, QuietStep DEF PressAdd
  <2> QED BY <1>4, <2>1, <2>2 DEF PressAdd
<1>5. ASSUME NEW u \in Users, NEW i \in Ids, DeletePlaylist(p, u, i) PROVE IInv'
  BY <1>1, <1>2, <1>5, QuietStep DEF DeletePlaylist
<1>6. ASSUME NEW u \in Users, NEW i \in Ids, NEW t \in Tracks, AddToPlaylist(p, u, i, t)
      PROVE  IInv'
  BY <1>1, <1>2, <1>6, QuietStep DEF AddToPlaylist
<1>7. ASSUME NEW u \in Users, NEW i \in Ids, NEW n, RemoveFromPlaylist(p, u, i, n)
      PROVE  IInv'
  BY <1>1, <1>2, <1>7, QuietStep DEF RemoveFromPlaylist
<1> QED BY <1>3, <1>4, <1>5, <1>6, <1>7 DEF Start

\* A list with other songs has its owner still.
LEMMA KeepsOwner ==
    ASSUME NEW l, l = [owner |-> l.owner, songs |-> l.songs], NEW x
    PROVE  [l EXCEPT !.songs = x] = [owner |-> l.owner, songs |-> x]
OBVIOUS

\* The new list is that of the user whose place was set aside.
LEMMA InsertStep ==
    ASSUME IInv, NEW p \in Procs, Insert(p)
    PROVE  IInv'
<1>0. PICK u : u = job[p].by
  OBVIOUS
<1>1. PICK i \in unused :
         /\ unused' = unused \ {i}
         /\ lists' = [lists EXCEPT ![i] = [owner |-> u, songs |-> <<>>]]
         /\ IF At(p, "insert") THEN Return(p)
            ELSE Go(p, "findToAdd", [job[p] EXCEPT !.list = i])
  BY <1>0 DEF Insert
<1>2. pc[p] \in Inserting /\ u \in Users /\ i \in Ids /\ lists[i] = None
  BY <1>0, <1>1 DEF Insert, IInv, Shaped, Inserting
<1>3. PICK step, j : step \in Steps \ Inserting /\ IsJob(j) /\ Go(p, step, j)
  <2>1. IsJob(Idle) /\ IsJob([job[p] EXCEPT !.list = i])
    BY DEF IsJob, Idle, IInv, Shaped
  <2>2. {"idle", "findToAdd"} \subseteq Steps \ Inserting
    BY DEF Steps, Inserting
  <2> QED BY <1>1, <2>1, <2>2 DEF Return
<1>4. \A v : Creating(v)' = Creating(v) \ {p}
  BY <1>3, GoMoves DEF IInv
<1>5. \A k \in Ids : lists'[k] = IF k = i THEN [owner |-> u, songs |-> <<>>] ELSE lists[k]
  BY <1>1, <1>2 DEF IInv, Shaped
<1>6. [owner |-> u, songs |-> <<>>] # None
  <2>1. [owner |-> u, songs |-> <<>>] \in [owner : Users, songs : Seq(Tracks)]
    BY <1>2
  <2> QED BY <2>1
<1>7. Shaped'
  <2>1. unused' \subseteq Ids /\ lists' = [k \in Ids |-> lists'[k]]
    BY <1>1 DEF IInv, Shaped
  <2>2. ASSUME NEW k \in Ids, lists'[k] # None
        PROVE  lists'[k] = [owner |-> lists'[k].owner, songs |-> lists'[k].songs]
    BY <1>5, <2>2 DEF IInv, Shaped
  <2>3. \A k \in unused' : lists'[k] = None
    BY <1>1, <1>5 DEF IInv, Shaped
  <2>4. /\ pc' \in [Procs -> Steps] /\ job' = [q \in Procs |-> job'[q]]
        /\ \A q \in Procs : IsJob(job'[q])
        /\ \A q \in Procs : pc'[q] \in Inserting => job'[q].by \in Users
    BY <1>3, GoMoves DEF IInv
  <2> QED BY <2>1, <2>2, <2>3, <2>4 DEF Shaped, IsJob
<1>8. Mine(u)' = Mine(u) \cup {i} /\ i \notin Mine(u)
  BY <1>2, <1>5, <1>6 DEF Mine
<1>9. \A v \in Users \ {u} : Mine(v)' = Mine(v)
  BY <1>2, <1>5, <1>6 DEF Mine
<1>10. p \in Creating(u)
  BY <1>0, <1>2 DEF Creating, Inserting
<1>11. Bound(u)'
  <2>1. Bound(u)
    BY <1>2 DEF IInv, ListsBounded, Bound
  <2>2. Creating(u)' = Creating(u) \ {p}
    BY <1>4
  <2> QED BY <1>8, <1>10, <2>1, <2>2, Arrives
<1>12. ASSUME NEW v \in Users, v # u PROVE Bound(v)'
  BY <1>4, <1>9, <1>12, Fewer DEF IInv, ListsBounded, Bound
<1> QED BY <1>7, <1>11, <1>12 DEF IInv, ListsBounded, Bound

\* A handler returns after it wrote to one list: the list is gone, or has its
\* owner still.
LEMMA WriteStep ==
    ASSUME IInv, NEW p \in Procs, Return(p), unused' = unused, NEW i \in Ids, NEW v,
           lists' = [lists EXCEPT ![i] = v],
           \/ v = None
           \/ lists[i] # None /\ v = [owner |-> lists[i].owner, songs |-> v.songs]
    PROVE  IInv'
<1>1. IsJob(Idle) /\ "idle" \in Steps \ Inserting /\ Go(p, "idle", Idle)
  BY DEF IsJob, Idle, Steps, Inserting, Return
<1>2. \A u : Creating(u)' \subseteq Creating(u)
  BY <1>1, GoMoves DEF IInv
<1>3. \A k \in Ids : lists'[k] = IF k = i THEN v ELSE lists[k]
  BY DEF IInv, Shaped
<1>4. Shaped'
  <2>1. unused' \subseteq Ids /\ lists' = [k \in Ids |-> lists'[k]]
    BY DEF IInv, Shaped
  <2>2. ASSUME NEW k \in Ids, lists'[k] # None
        PROVE  lists'[k] = [owner |-> lists'[k].owner, songs |-> lists'[k].songs]
    BY <1>3, <2>2 DEF IInv, Shaped
  <2>3. \A k \in unused' : lists'[k] = None
    BY <1>3 DEF IInv, Shaped
  <2>4. /\ pc' \in [Procs -> Steps] /\ job' = [q \in Procs |-> job'[q]]
        /\ \A q \in Procs : IsJob(job'[q])
        /\ \A q \in Procs : pc'[q] \in Inserting => job'[q].by \in Users
    BY <1>1, GoMoves DEF IInv
  <2> QED BY <2>1, <2>2, <2>3, <2>4 DEF Shaped, IsJob
<1>5. ASSUME NEW u PROVE Mine(u)' \subseteq Mine(u)
  BY <1>3 DEF Mine
<1>6. \A u \in Users : Bound(u)'
  BY <1>2, <1>5, Fewer DEF IInv, ListsBounded, Bound
<1> QED BY <1>4, <1>6 DEF IInv, ListsBounded, Bound

\* The other calls of a handler.
LEMMA CallStep ==
    ASSUME IInv, NEW p \in Procs, Step(p)
    PROVE  IInv'
<1> DEFINE i == job[p].list
<1>1. IsJob(Idle) /\ IsJob(job[p]) /\ {"idle", "push", "pull"} \subseteq Steps \ Inserting
  BY DEF IsJob, Idle, IInv, Shaped, Steps, Inserting
<1>2. ASSUME Return(p), UNCHANGED <<lists, unused>> PROVE IInv'
  BY <1>1, <1>2, QuietStep DEF Return
<1>3. ASSUME i \notin Ids PROVE \A v : [lists EXCEPT ![i] = v] = lists
  BY <1>3 DEF IInv, Shaped
<1>4. CASE Insert(p)
  BY <1>4, InsertStep
<1>5. CASE Delete(p)
  <2>1. lists' = [lists EXCEPT ![i] = None] /\ unused' = unused /\ Return(p)
    BY <1>5 DEF Delete
  <2>2. CASE i \in Ids
    BY <2>1, <2>2, WriteStep
  <2>3. CASE i \notin Ids
    BY <1>2, <1>3, <2>1, <2>3
  <2> QED BY <2>2, <2>3
<1>6. CASE FindToAdd(p)
  <2>1. UNCHANGED <<lists, unused>> /\ (Return(p) \/ Go(p, "push", job[p]))
    BY <1>6 DEF FindToAdd
  <2> QED BY <1>1, <1>2, <2>1, QuietStep
<1>7. CASE Push(p)
  <2> DEFINE v == [lists[i] EXCEPT !.songs = Append(@, job[p].track)]
  <2>1. /\ lists' = IF lists[i] = None THEN lists ELSE [lists EXCEPT ![i] = v]
        /\ unused' = unused /\ Return(p)
    BY <1>7 DEF Push
  <2>2. CASE lists[i] = None \/ i \notin Ids
    BY <1>2, <1>3, <2>1, <2>2
  <2>3. CASE lists[i] # None /\ i \in Ids
    <3>1. v = [owner |-> lists[i].owner, songs |-> v.songs]
      <4>1. lists[i] = [owner |-> lists[i].owner, songs |-> lists[i].songs]
        BY <2>3 DEF IInv, Shaped
      <4> HIDE DEF i
      <4> QED BY <4>1, KeepsOwner
    <3> QED BY <2>1, <2>3, <3>1, WriteStep
  <2> QED BY <2>2, <2>3
<1>8. CASE FindToRemove(p)
  BY <1>1, <1>8, QuietStep DEF FindToRemove
<1>9. CASE Pull(p)
  <2> DEFINE v == [lists[i] EXCEPT !.songs = Without(@, job[p])]
  <2>1. /\ lists' = IF lists[i] = None THEN lists ELSE [lists EXCEPT ![i] = v]
        /\ unused' = unused /\ Return(p)
    BY <1>9 DEF Pull
  <2>2. CASE lists[i] = None \/ i \notin Ids
    BY <1>2, <1>3, <2>1, <2>2
  <2>3. CASE lists[i] # None /\ i \in Ids
    <3>1. v = [owner |-> lists[i].owner, songs |-> v.songs]
      <4>1. lists[i] = [owner |-> lists[i].owner, songs |-> lists[i].songs]
        BY <2>3 DEF IInv, Shaped
      <4> HIDE DEF i
      <4> QED BY <4>1, KeepsOwner
    <3> QED BY <2>1, <2>3, <3>1, WriteStep
  <2> QED BY <2>2, <2>3
<1>10. CASE GiveUp(p)
  BY <1>2, <1>10 DEF GiveUp
<1> QED BY <1>4, <1>5, <1>6, <1>7, <1>8, <1>9, <1>10 DEF Step

\* Every step of the program keeps the bound.
LEMMA StepBounded == IInv /\ [Next]_vars => IInv'
<1> SUFFICES ASSUME IInv, [Next]_vars PROVE IInv'
  OBVIOUS
<1>1. CASE UNCHANGED vars
  BY <1>1 DEF vars, IInv, Shaped, ListsBounded, Mine, Creating
<1>2. CASE Next
  BY <1>2, StartStep, CallStep DEF Next
<1> QED BY <1>1, <1>2

\* However many handlers run together, a user has at most Limit lists and one
\* more for every other handler.
THEOREM ListsLimit == Spec => []ListsBounded
<1>1. IInv => ListsBounded
  BY DEF IInv
<1> QED BY <1>1, InitBounded, StepBounded, PTL DEF Spec
-----------------------------------------------------------------------------
(* What a removal leaves.  The songs of a list are a sequence, and the songs *)
(* left are numbered by the rank of their positions: ranks are a bijection   *)
(* because there are as many of them as there are positions.                 *)

Rank(S, m) == Cardinality({k \in S : k <= m})

\* A finite set of numbers is counted by the ranks of its members.
LEMMA RanksCount ==
    ASSUME NEW S \in SUBSET Nat, IsFiniteSet(S)
    PROVE  /\ Cardinality(S) \in Nat
           /\ \A m \in S : Rank(S, m) \in 1 .. Cardinality(S)
           /\ \A k, m \in S : Rank(S, k) = Rank(S, m) => k = m
           /\ \A n \in 1 .. Cardinality(S) : \E m \in S : Rank(S, m) = n
<1> DEFINE f == [m \in S |-> Rank(S, m)]
<1>0. \A m \in S : m \in Nat
  OBVIOUS
<1>1. Cardinality(S) \in Nat
  BY FS_CardinalityType
<1>2. ASSUME NEW m \in S
      PROVE  /\ IsFiniteSet({k \in S : k <= m}) /\ Rank(S, m) \in 1 .. Cardinality(S)
             /\ Cardinality({k \in S : k <= m}) = Rank(S, m)
  <2>1. {k \in S : k <= m} \in SUBSET S
    OBVIOUS
  <2>2. /\ IsFiniteSet({k \in S : k <= m})
        /\ Cardinality({k \in S : k <= m}) <= Cardinality(S)
    BY <2>1, FS_Subset
  <2>3. Cardinality({k \in S : k <= m}) \in Nat
    BY <2>2, FS_CardinalityType
  <2>4. Cardinality({k \in S : k <= m}) # 0
    <3>1. m \in {k \in S : k <= m}
      BY <1>0
    <3> QED BY <2>2, <3>1, FS_EmptySet
  <2> QED BY <1>1, <2>2, <2>3, <2>4 DEF Rank
<1>3. ASSUME NEW k \in S, NEW m \in S, k < m PROVE Rank(S, k) # Rank(S, m)
  <2>1. \A j \in S : j <= k => j <= m
    BY <1>0, <1>3
  <2>2. m \in {j \in S : j <= m} /\ m \notin {j \in S : j <= k}
    BY <1>0, <1>3
  <2>3. {j \in S : j <= k} \in SUBSET {j \in S : j <= m}
    BY <2>1
  <2> QED BY <1>2, <2>2, <2>3, FS_Subset DEF Rank
<1>4. \A k, m \in S : Rank(S, k) = Rank(S, m) => k = m
  BY <1>3
<1>5. f \in Injection(S, 1 .. Cardinality(S))
  BY <1>2, <1>4 DEF Injection, IsInjective
<1>6. IsFiniteSet(1 .. Cardinality(S)) /\ Cardinality(1 .. Cardinality(S)) = Cardinality(S)
  BY <1>1, FS_Interval
<1>7. f \in Surjection(S, 1 .. Cardinality(S))
  BY <1>5, <1>6, FS_Injection
<1>8. \A n \in 1 .. Cardinality(S) : \E m \in S : Rank(S, m) = n
  BY <1>7 DEF Surjection
<1> QED BY <1>1, <1>2, <1>4, <1>8

\* No song is in it twice.
Once(songs) == \A m, n \in DOMAIN songs : songs[m] = songs[n] => m = n

\* The songs left are the other songs, each as often as before.
LEMMA OthersLeft ==
    ASSUME NEW songs \in Seq(Tracks), NEW j
    PROVE  /\ Without(songs, j) \in Seq(Tracks)
           /\ Range(Without(songs, j)) = Range(songs) \ {j.track}
           /\ Once(songs) => Once(Without(songs, j))
<1> DEFINE left == {m \in DOMAIN songs : songs[m] # j.track}
           At1(n) == CHOOSE m \in left : Rank(left, m) = n
           w == [n \in 1 .. Cardinality(left) |-> songs[At1(n)]]
<1>1. left \in SUBSET Nat /\ IsFiniteSet(left) /\ left \subseteq DOMAIN songs
  <2>1. Len(songs) \in Nat /\ DOMAIN songs = 1 .. Len(songs)
    OBVIOUS
  <2>2. IsFiniteSet(1 .. Len(songs)) /\ left \in SUBSET (1 .. Len(songs))
    BY <2>1, FS_Interval
  <2> QED BY <2>1, <2>2, FS_Subset
<1>2. Without(songs, j) = w
  BY DEF Without, Rank
<1>3. /\ Cardinality(left) \in Nat
      /\ \A m \in left : Rank(left, m) \in 1 .. Cardinality(left)
      /\ \A k, m \in left : Rank(left, k) = Rank(left, m) => k = m
      /\ \A n \in 1 .. Cardinality(left) : \E m \in left : Rank(left, m) = n
  BY <1>1, RanksCount
<1>4. \A n \in 1 .. Cardinality(left) : At1(n) \in left /\ Rank(left, At1(n)) = n
  BY <1>3
<1>5. \A m \in left : At1(Rank(left, m)) = m
  BY <1>3, <1>4
<1>6. \A m \in left : m \in DOMAIN songs /\ songs[m] \in Tracks /\ songs[m] # j.track
  BY <1>1
<1>7. \A m \in DOMAIN songs : songs[m] # j.track => m \in left
  OBVIOUS
<1>8. w \in Seq(Tracks)
  <2> HIDE DEF left, At1
  <2> QED BY <1>3, <1>4, <1>6
<1>9. DOMAIN w = 1 .. Cardinality(left) /\ \A n \in DOMAIN w : w[n] = songs[At1(n)]
  OBVIOUS
<1>10. Range(w) = Range(songs) \ {j.track}
  <2> HIDE DEF left, At1, w
  <2>1. \A n \in DOMAIN w : w[n] \in Range(songs) \ {j.track}
    BY <1>4, <1>6, <1>9 DEF Range
  <2>2. \A m \in DOMAIN songs : songs[m] # j.track => songs[m] \in Range(w)
    <3>1. ASSUME NEW m \in DOMAIN songs, songs[m] # j.track PROVE songs[m] \in Range(w)
      <4>1. m \in left
        BY <1>7, <3>1
      <4>2. Rank(left, m) \in DOMAIN w /\ w[Rank(left, m)] = songs[m]
        BY <1>3, <1>5, <1>9, <4>1
      <4> QED BY <4>2 DEF Range
    <3> QED BY <3>1
  <2> QED BY <2>1, <2>2 DEF Range
<1>11. Once(songs) => Once(w)
  <2> HIDE DEF left, At1, w
  <2>1. ASSUME Once(songs), NEW k \in DOMAIN w, NEW n \in DOMAIN w, w[k] = w[n]
        PROVE  k = n
    <3>1. songs[At1(k)] = songs[At1(n)] /\ At1(k) \in DOMAIN songs /\ At1(n) \in DOMAIN songs
      BY <1>4, <1>6, <1>9, <2>1
    <3>2. At1(k) = At1(n)
      BY <2>1, <3>1 DEF Once
    <3> QED BY <1>4, <1>9, <3>2
  <2> QED BY <2>1 DEF Once
<1> HIDE DEF w
<1> QED BY <1>2, <1>8, <1>10, <1>11
-----------------------------------------------------------------------------
(* Whose list it is.  A handler that works on a list got its name from a     *)
(* read that showed its user as the owner, or made the list; a name is drawn *)
(* once and the owner of a document never changes.                           *)

Named  == {"delete", "findToAdd", "push", "findToRemove", "pull"}
Chosen == {"insertForSong", "findToAdd", "push", "findToRemove", "pull"}

Owned ==
    \A p \in Procs : pc[p] \in Named /\ lists[job[p].list] # None =>
        job[p].by = lists[job[p].list].owner

OwnInv == TypeOK /\ Owned

\* A playlist with other songs.
LEMMA Resung ==
    ASSUME NEW l \in Playlist, NEW x \in Seq(Tracks)
    PROVE  /\ [l EXCEPT !.songs = x] \in Playlist
           /\ [l EXCEPT !.songs = x].owner = l.owner
           /\ [l EXCEPT !.songs = x].songs = x
BY DEF Playlist

LEMMA Sung ==
    ASSUME NEW l \in Playlist
    PROVE  l.songs \in Seq(Tracks) /\ l.owner \in Users
BY DEF Playlist

\* None is no playlist.
LEMMA NotNone == None \notin Playlist
BY DEF Playlist

\* A handler goes on or ends; no list that has a name changes hands.
LEMMA OwnGo ==
    ASSUME OwnInv, NEW p \in Procs, NEW step \in Steps, NEW j \in Job, Go(p, step, j),
           unused' \subseteq unused, raced' \subseteq Ids,
           lists' \in [Ids -> Playlist \cup {None}],
           \A i \in unused' : lists'[i] = None,
           \A i \in Ids \ unused : lists'[i] # None =>
               lists[i] # None /\ lists'[i].owner = lists[i].owner,
           step # "idle" => j.by \in Users,
           step \in Chosen => j.track \in Tracks,
           step \in Named => /\ j.list \in Ids \ unused'
                             /\ lists'[j.list] # None => j.by = lists'[j.list].owner
    PROVE  OwnInv'
<1>1. /\ \A q \in Procs : pc'[q] = IF q = p THEN step ELSE pc[q]
      /\ \A q \in Procs : job'[q] = IF q = p THEN j ELSE job[q]
      /\ pc' \in [Procs -> Steps] /\ job' \in [Procs -> Job]
  BY DEF OwnInv, TypeOK, Go
<1>2. TypeOK'
  <2>1. ASSUME NEW q \in Procs
        PROVE  /\ pc'[q] # "idle" => job'[q].by \in Users
               /\ pc'[q] \in Named => job'[q].list \in Ids \ unused'
               /\ pc'[q] \in Chosen => job'[q].track \in Tracks
    <3>1. CASE q = p
      BY <1>1, <3>1
    <3>2. CASE q # p
      BY <1>1, <3>2 DEF OwnInv, TypeOK, Named, Chosen, At
    <3> QED BY <3>1, <3>2
  <2>2. unused' \subseteq Ids
    BY DEF OwnInv, TypeOK
  <2> QED BY <1>1, <2>1, <2>2 DEF TypeOK, Named, Chosen, At
<1>3. Owned'
  <2> SUFFICES ASSUME NEW q \in Procs, pc'[q] \in Named, lists'[job'[q].list] # None
               PROVE  job'[q].by = lists'[job'[q].list].owner
    BY DEF Owned
  <2>1. CASE q = p
    BY <1>1, <2>1
  <2>2. CASE q # p
    <3>1. pc[q] \in Named /\ job'[q] = job[q] /\ job[q].list \in Ids \ unused
      BY <1>1, <2>2 DEF OwnInv, TypeOK, Named
    <3> QED BY <3>1 DEF OwnInv, Owned
  <2> QED BY <2>1, <2>2
<1> QED BY <1>2, <1>3 DEF OwnInv

\* It goes on and the collection stays.
LEMMA OwnQuiet ==
    ASSUME OwnInv, NEW p \in Procs, NEW step \in Steps, NEW j \in Job, Go(p, step, j),
           UNCHANGED <<lists, unused>>, raced' \subseteq Ids,
           step # "idle" => j.by \in Users,
           step \in Chosen => j.track \in Tracks,
           step \in Named => /\ j.list \in Ids \ unused
                             /\ lists[j.list] # None => j.by = lists[j.list].owner
    PROVE  OwnInv'
<1>1. /\ lists \in [Ids -> Playlist \cup {None}] /\ unused \subseteq Ids
      /\ \A i \in unused : lists[i] = None
  BY DEF OwnInv, TypeOK
<1> QED BY <1>1, OwnGo

\* It ends and the collection stays.
LEMMA OwnReturn ==
    ASSUME OwnInv, NEW p \in Procs, Return(p), UNCHANGED <<lists, unused>>, raced' \subseteq Ids
    PROVE  OwnInv'
<1>1. Idle \in Job /\ "idle" \in Steps /\ "idle" \notin Named /\ "idle" \notin Chosen
  BY DEF Idle, Job, Steps, Named, Chosen
<1> QED BY <1>1, OwnQuiet DEF Return

\* A job for a user.
LEMMA ForJob ==
    ASSUME NEW u \in Users, NEW i \in Ids \cup {None}, NEW t \in Tracks \cup {None}, NEW n \in Nat
    PROVE  /\ For(u, i, t, n) \in Job /\ For(u, i, t, n).by = u /\ For(u, i, t, n).list = i
           /\ For(u, i, t, n).track = t /\ For(u, i, t, n).number = n
BY DEF For, Job

\* A list of the user's has a name and an owner, and songs.
LEMMA MineIs ==
    ASSUME OwnInv, NEW u, NEW i \in Mine(u)
    PROVE  /\ i \in Ids \ unused /\ lists[i] # None /\ lists[i] \in Playlist
           /\ lists[i].owner = u /\ lists[i].songs \in Seq(Tracks)
<1>1. i \in Ids /\ lists[i] # None /\ lists[i].owner = u
  BY DEF Mine
<1>2. i \notin unused /\ lists[i] \in Playlist
  BY <1>1 DEF OwnInv, TypeOK
<1> QED BY <1>1, <1>2, Sung

\* A handler starts.
LEMMA OwnStart ==
    ASSUME OwnInv, NEW p \in Procs, Start(p)
    PROVE  OwnInv'
<1>1. PICK u \in Users :
        \/ CreatePlaylist(p, u)
        \/ \E t \in Tracks : PressAdd(p, u, t)
        \/ \E i \in Ids : DeletePlaylist(p, u, i)
        \/ \E i \in Ids, t \in Tracks : AddToPlaylist(p, u, i, t)
        \/ \E i \in Ids, n \in 1 .. MaxSongs + Cardinality(Procs) : RemoveFromPlaylist(p, u, i, n)
  BY DEF Start
<1>2. raced \subseteq Ids
  BY DEF OwnInv, TypeOK
<1>3. ASSUME NEW step \in {"insert", "insertForSong"}, NEW t \in Tracks \cup {None},
             step = "insertForSong" => t \in Tracks,
             Go(p, step, For(u, None, t, 0)), UNCHANGED <<lists, unused, raced>>
      PROVE  OwnInv'
  <2>1. step \in Steps /\ step \notin Named /\ (step \in Chosen => step = "insertForSong")
    BY DEF Steps, Named, Chosen
  <2>2. /\ For(u, None, t, 0) \in Job /\ For(u, None, t, 0).by = u
        /\ For(u, None, t, 0).track = t
    BY DEF For, Job
  <2> QED BY <1>2, <1>3, <2>1, <2>2, OwnQuiet
<1>4. ASSUME NEW step \in {"delete", "findToAdd", "findToRemove"}, NEW i \in Mine(u),
             NEW t \in Tracks \cup {None}, NEW n \in Nat, step # "delete" => t \in Tracks,
             Go(p, step, For(u, i, t, n)), UNCHANGED <<lists, unused, raced>>
      PROVE  OwnInv'
  <2>1. step \in Steps /\ (step \in Chosen => step # "delete")
    BY DEF Steps, Chosen
  <2>2. i \in Ids \ unused /\ lists[i].owner = u
    BY MineIs
  <2>3. /\ For(u, i, t, n) \in Job /\ For(u, i, t, n).by = u
        /\ For(u, i, t, n).list = i /\ For(u, i, t, n).track = t
    BY <2>2, ForJob
  <2> QED BY <1>2, <1>4, <2>1, <2>2, <2>3, OwnQuiet
<1>5. CASE CreatePlaylist(p, u)
  BY <1>3, <1>5 DEF CreatePlaylist
<1>6. ASSUME NEW t \in Tracks, PressAdd(p, u, t) PROVE OwnInv'
  <2>1. CASE Go(p, "insertForSong", For(u, None, t, 0))
    BY <1>3, <1>6, <2>1 DEF PressAdd
  <2>2. CASE \E i \in Mine(u) : Go(p, "findToAdd", For(u, i, t, 0))
    BY <1>4, <1>6, <2>2 DEF PressAdd
  <2> QED BY <1>6, <2>1, <2>2 DEF PressAdd
<1>7. ASSUME NEW i \in Ids, DeletePlaylist(p, u, i) PROVE OwnInv'
  BY <1>4, <1>7 DEF DeletePlaylist, Owns
<1>8. ASSUME NEW i \in Ids, NEW t \in Tracks, AddToPlaylist(p, u, i, t) PROVE OwnInv'
  BY <1>4, <1>8 DEF AddToPlaylist, Owns
<1>9. ASSUME NEW i \in Ids, NEW n \in 1 .. MaxSongs + Cardinality(Procs),
             RemoveFromPlaylist(p, u, i, n)
      PROVE  OwnInv'
  <2>1. i \in Mine(u) /\ n \in DOMAIN lists[i].songs
    BY <1>9 DEF RemoveFromPlaylist, Owns
  <2>2. lists[i].songs[n] \in Tracks /\ n \in Nat
    BY <2>1, MineIs
  <2> QED BY <1>4, <1>9, <2>1, <2>2 DEF RemoveFromPlaylist
<1> QED BY <1>1, <1>5, <1>6, <1>7, <1>8, <1>9

\* The list is new: it has the user of its maker and a name that nobody's job
\* has.
LEMMA OwnInsert ==
    ASSUME OwnInv, NEW p \in Procs, Insert(p)
    PROVE  OwnInv'
<1>0. PICK u : u = job[p].by
  OBVIOUS
<1> DEFINE new == [owner |-> u, songs |-> <<>>]
<1>1. PICK i \in unused :
         /\ unused' = unused \ {i}
         /\ lists' = [lists EXCEPT ![i] = new]
         /\ IF At(p, "insert") THEN Return(p)
            ELSE Go(p, "findToAdd", [job[p] EXCEPT !.list = i])
  BY <1>0 DEF Insert
<1>2. /\ u \in Users /\ i \in Ids /\ raced' = raced /\ raced \subseteq Ids
      /\ job[p] \in Job /\ (At(p, "insertForSong") => job[p].track \in Tracks)
      /\ (At(p, "insert") \/ At(p, "insertForSong"))
  BY <1>0, <1>1 DEF Insert, OwnInv, TypeOK, At
<1>3. new \in Playlist /\ new # None
  <2>1. new \in Playlist
    BY <1>2 DEF Playlist
  <2> QED BY <2>1, NotNone
<1>4. \A k \in Ids : lists'[k] = IF k = i THEN new ELSE lists[k]
  BY <1>1, <1>2 DEF OwnInv, TypeOK
<1>5. lists' \in [Ids -> Playlist \cup {None}]
  <2> HIDE DEF new
  <2> QED BY <1>1, <1>3 DEF OwnInv, TypeOK
<1>6. /\ unused' \subseteq unused
      /\ \A k \in unused' : lists'[k] = None
      /\ \A k \in Ids \ unused : lists'[k] # None =>
             lists[k] # None /\ lists'[k].owner = lists[k].owner
  BY <1>1, <1>4 DEF OwnInv, TypeOK
<1>7. CASE At(p, "insert")
  <2>1. Idle \in Job /\ "idle" \in Steps /\ "idle" \notin Named /\ "idle" \notin Chosen
    BY DEF Idle, Job, Steps, Named, Chosen
  <2>2. Go(p, "idle", Idle)
    BY <1>1, <1>7 DEF Return
  <2> QED BY <1>2, <1>5, <1>6, <2>1, <2>2, OwnGo
<1>8. CASE At(p, "insertForSong")
  <2> DEFINE j == [job[p] EXCEPT !.list = i]
  <2>1. /\ j \in Job /\ j.by = u /\ j.list = i /\ j.track = job[p].track
    BY <1>0, <1>2 DEF Job
  <2>2. Go(p, "findToAdd", j) /\ "findToAdd" \in Steps
    BY <1>1, <1>8 DEF At, Steps
  <2>3. lists'[i].owner = u /\ i \in Ids \ unused'
    BY <1>1, <1>2, <1>4
  <2> HIDE DEF j
  <2> QED BY <1>2, <1>5, <1>6, <1>8, <2>1, <2>2, <2>3, OwnGo
<1> QED BY <1>2, <1>7, <1>8

\* What a handler writes to its list before it returns.
LEMMA OwnWrite ==
    ASSUME OwnInv, NEW p \in Procs, Return(p), UNCHANGED <<unused, raced>>, NEW i \in Ids,
           lists' \in [Ids -> Playlist \cup {None}],
           \A k \in Ids \ {i} : lists'[k] = lists[k],
           lists'[i] # None => lists[i] # None /\ lists'[i].owner = lists[i].owner
    PROVE  OwnInv'
<1>1. Idle \in Job /\ "idle" \in Steps /\ "idle" \notin Named /\ "idle" \notin Chosen
  BY DEF Idle, Job, Steps, Named, Chosen
<1>2. raced' \subseteq Ids /\ unused' \subseteq unused
  BY DEF OwnInv, TypeOK
<1>3. \A k \in unused' : lists'[k] = None
  BY DEF OwnInv, TypeOK
<1>4. \A k \in Ids \ unused : lists'[k] # None =>
          lists[k] # None /\ lists'[k].owner = lists[k].owner
  OBVIOUS
<1> QED BY <1>1, <1>2, <1>3, <1>4, OwnGo DEF Return

\* A song is pushed to the end of a list that is there.
LEMMA PushedTo ==
    ASSUME OwnInv, NEW p \in Procs, Push(p)
    PROVE  /\ job[p].list \in Ids \ unused /\ Return(p) /\ UNCHANGED <<unused, raced>>
           /\ lists' \in [Ids -> Playlist \cup {None}]
           /\ \A k \in Ids \ {job[p].list} : lists'[k] = lists[k]
           /\ lists[job[p].list] = None => lists'[job[p].list] = None
           /\ lists[job[p].list] # None =>
                /\ lists'[job[p].list] # None
                /\ lists'[job[p].list].owner = lists[job[p].list].owner
                /\ lists[job[p].list].songs \in Seq(Tracks) /\ job[p].track \in Tracks
                /\ lists'[job[p].list].songs = Append(lists[job[p].list].songs, job[p].track)
<1> DEFINE i == job[p].list
           x == Append(lists[i].songs, job[p].track)
           v == [lists[i] EXCEPT !.songs = x]
<1>1. /\ At(p, "push") /\ Return(p) /\ UNCHANGED <<unused, raced>>
      /\ lists' = IF lists[i] = None THEN lists ELSE [lists EXCEPT ![i] = v]
  BY DEF Push
<1>2. /\ i \in Ids \ unused /\ job[p].track \in Tracks
      /\ lists \in [Ids -> Playlist \cup {None}]
  BY <1>1 DEF OwnInv, TypeOK, At
<1>3. ASSUME lists[i] # None
      PROVE  /\ v \in Playlist /\ v # None /\ v.owner = lists[i].owner /\ v.songs = x
             /\ lists[i].songs \in Seq(Tracks)
  <2>1. lists[i] \in Playlist
    BY <1>2, <1>3
  <2>2. lists[i].songs \in Seq(Tracks) /\ x \in Seq(Tracks)
    BY <1>2, <2>1, Sung
  <2> QED BY <2>1, <2>2, Resung, NotNone
<1> HIDE DEF v, x
<1>4. CASE lists[i] = None
  BY <1>1, <1>2, <1>4
<1>5. CASE lists[i] # None
  <2>1. lists' = [lists EXCEPT ![i] = v]
    BY <1>1, <1>5
  <2>2. lists' \in [Ids -> Playlist \cup {None}]
    BY <1>2, <1>3, <1>5, <2>1
  <2>3. lists'[i] = v /\ \A k \in Ids \ {i} : lists'[k] = lists[k]
    BY <1>2, <2>1
  <2> QED BY <1>1, <1>2, <1>3, <1>5, <2>2, <2>3 DEF x
<1> QED BY <1>4, <1>5

\* All copies of a song are pulled out of a list that is there.
LEMMA PulledFrom ==
    ASSUME OwnInv, NEW p \in Procs, Pull(p)
    PROVE  /\ job[p].list \in Ids \ unused /\ Return(p) /\ UNCHANGED <<unused, raced>>
           /\ lists' \in [Ids -> Playlist \cup {None}]
           /\ \A k \in Ids \ {job[p].list} : lists'[k] = lists[k]
           /\ lists[job[p].list] = None => lists'[job[p].list] = None
           /\ lists[job[p].list] # None =>
                /\ lists'[job[p].list] # None
                /\ lists'[job[p].list].owner = lists[job[p].list].owner
                /\ lists[job[p].list].songs \in Seq(Tracks)
                /\ lists'[job[p].list].songs = Without(lists[job[p].list].songs, job[p])
<1> DEFINE i == job[p].list
           x == Without(lists[i].songs, job[p])
           v == [lists[i] EXCEPT !.songs = x]
<1>1. /\ At(p, "pull") /\ Return(p) /\ UNCHANGED <<unused, raced>>
      /\ lists' = IF lists[i] = None THEN lists ELSE [lists EXCEPT ![i] = v]
  BY DEF Pull
<1>2. /\ i \in Ids \ unused /\ lists \in [Ids -> Playlist \cup {None}]
  BY <1>1 DEF OwnInv, TypeOK, At
<1>3. ASSUME lists[i] # None
      PROVE  /\ v \in Playlist /\ v # None /\ v.owner = lists[i].owner /\ v.songs = x
             /\ lists[i].songs \in Seq(Tracks)
  <2>1. lists[i] \in Playlist
    BY <1>2, <1>3
  <2>2. lists[i].songs \in Seq(Tracks) /\ x \in Seq(Tracks)
    BY <2>1, Sung, OthersLeft
  <2> QED BY <2>1, <2>2, Resung, NotNone
<1> HIDE DEF v, x
<1>4. CASE lists[i] = None
  BY <1>1, <1>2, <1>4
<1>5. CASE lists[i] # None
  <2>1. lists' = [lists EXCEPT ![i] = v]
    BY <1>1, <1>5
  <2>2. lists' \in [Ids -> Playlist \cup {None}]
    BY <1>2, <1>3, <1>5, <2>1
  <2>3. lists'[i] = v /\ \A k \in Ids \ {i} : lists'[k] = lists[k]
    BY <1>2, <2>1
  <2> QED BY <1>1, <1>2, <1>3, <1>5, <2>2, <2>3 DEF x
<1> QED BY <1>4, <1>5

\* A list is deleted.
LEMMA DeletedIs ==
    ASSUME OwnInv, NEW p \in Procs, Delete(p)
    PROVE  /\ job[p].list \in Ids \ unused /\ Return(p) /\ UNCHANGED <<unused, raced>>
           /\ lists' \in [Ids -> Playlist \cup {None}]
           /\ \A k \in Ids \ {job[p].list} : lists'[k] = lists[k]
           /\ lists'[job[p].list] = None
<1>1. /\ At(p, "delete") /\ lists' = [lists EXCEPT ![job[p].list] = None]
      /\ Return(p) /\ UNCHANGED <<unused, raced>>
  BY DEF Delete
<1>2. job[p].list \in Ids \ unused /\ lists \in [Ids -> Playlist \cup {None}]
  BY <1>1 DEF OwnInv, TypeOK, At
<1> QED BY <1>1, <1>2

\* It looks, and goes on with the job it has or ends.
LEMMA OwnLook ==
    ASSUME OwnInv, NEW p \in Procs, FindToAdd(p) \/ FindToRemove(p)
    PROVE  OwnInv'
<1>1. raced' \subseteq Ids /\ UNCHANGED <<lists, unused>>
  BY DEF FindToAdd, FindToRemove, OwnInv, TypeOK, At
<1>2. CASE Return(p)
  BY <1>1, <1>2, OwnReturn
<1>3. ASSUME NEW step \in {"push", "pull"}, Go(p, step, job[p]) PROVE OwnInv'
  <2>1. pc[p] \in {"findToAdd", "findToRemove"} /\ pc[p] \in Named
    BY DEF FindToAdd, FindToRemove, At, Named
  <2>2. /\ job[p] \in Job /\ job[p].by \in Users /\ job[p].track \in Tracks
        /\ job[p].list \in Ids \ unused
    BY <2>1 DEF OwnInv, TypeOK, At
  <2>3. lists[job[p].list] # None => job[p].by = lists[job[p].list].owner
    BY <2>1 DEF OwnInv, Owned
  <2> QED BY <1>1, <1>3, <2>2, <2>3, OwnQuiet DEF Steps
<1> QED BY <1>2, <1>3 DEF FindToAdd, FindToRemove

\* Every step of the program.
LEMMA OwnStep == OwnInv /\ [Next]_vars => OwnInv'
<1> SUFFICES ASSUME OwnInv, [Next]_vars PROVE OwnInv'
  OBVIOUS
<1>1. CASE UNCHANGED vars
  BY <1>1 DEF vars, OwnInv, TypeOK, Owned, At
<1>2. ASSUME NEW p \in Procs, Step(p) PROVE OwnInv'
  <2>1. CASE Insert(p)
    BY <2>1, OwnInsert
  <2>2. CASE Delete(p)
    BY <2>2, DeletedIs, OwnWrite
  <2>3. CASE FindToAdd(p) \/ FindToRemove(p)
    BY <2>3, OwnLook
  <2>4. CASE Push(p)
    BY <2>4, PushedTo, OwnWrite
  <2>5. CASE Pull(p)
    BY <2>5, PulledFrom, OwnWrite
  <2>6. CASE GiveUp(p)
    <3>1. raced' \subseteq Ids
      BY <2>6 DEF GiveUp, OwnInv, TypeOK
    <3> QED BY <2>6, <3>1, OwnReturn DEF GiveUp
  <2> QED BY <1>2, <2>1, <2>2, <2>3, <2>4, <2>5, <2>6 DEF Step
<1> QED BY <1>1, <1>2, OwnStart DEF Next

\* At first there is no list and no handler.
LEMMA OwnInit == Init => OwnInv
<1> SUFFICES ASSUME Init PROVE OwnInv
  OBVIOUS
<1>1. Idle \in Job /\ "idle" \in Steps /\ "idle" \notin Named /\ "idle" \notin Chosen
  BY DEF Idle, Job, Steps, Named, Chosen
<1> QED BY <1>1 DEF Init, OwnInv, TypeOK, Owned, At, Named, Chosen

\* Documents, jobs and steps keep their shape.
THEOREM PlaylistTypes == Spec => []TypeOK
<1>1. OwnInv => TypeOK
  BY DEF OwnInv
<1> QED BY <1>1, OwnInit, OwnStep, PTL DEF Spec

\* Of one handler's step, a list that changes was changed by the call of a
\* handler of its owner, and a list that gets shorter lost all copies of the
\* song of that job.
Lawful(i) ==
    lists[i] # None /\ lists'[i] # lists[i] =>
        \E j \in Asked(i, {"delete", "push", "pull"}) :
            /\ j.by = lists[i].owner
            /\ lists'[i] # None /\ Len(lists'[i].songs) < Len(lists[i].songs) =>
                  \A t \in Tracks : (t \in Range(lists'[i].songs)) <=>
                      (t \in Range(lists[i].songs) /\ t # j.track)

\* It is the job of the handler that writes.
LEMMA LawfulJob ==
    ASSUME OwnInv, NEW p \in Procs, pc[p] \in {"delete", "push", "pull"},
           NEW i \in Ids, i = job[p].list, lists[i] # None,
           lists'[i] # None /\ Len(lists'[i].songs) < Len(lists[i].songs) =>
               Range(lists'[i].songs) = Range(lists[i].songs) \ {job[p].track}
    PROVE  Lawful(i)
<1>1. job[p] \in Asked(i, {"delete", "push", "pull"})
  BY DEF Asked
<1>2. job[p].by = lists[i].owner
  BY DEF OwnInv, Owned, Named
<1>3. lists'[i] # None /\ Len(lists'[i].songs) < Len(lists[i].songs) =>
          \A t \in Tracks : (t \in Range(lists'[i].songs)) <=>
              (t \in Range(lists[i].songs) /\ t # job[p].track)
  OBVIOUS
<1> QED BY <1>1, <1>2, <1>3 DEF Lawful

\* What a step of the program does to a list.
LEMMA LawfulStep ==
    ASSUME OwnInv, [Next]_vars, NEW i \in Ids
    PROVE  Lawful(i)
<1>1. CASE lists'[i] = lists[i]
  BY <1>1 DEF Lawful
<1>2. ASSUME NEW p \in Procs, Step(p), lists'[i] # lists[i], lists[i] # None
      PROVE  Lawful(i)
  <2>1. CASE Insert(p)
    <3>1. PICK k \in unused : \E new : lists' = [lists EXCEPT ![k] = new]
      BY <2>1 DEF Insert
    <3>2. i # k
      BY <1>2, <3>1 DEF OwnInv, TypeOK
    <3> QED BY <1>2, <3>1, <3>2 DEF OwnInv, TypeOK
  <2>2. CASE Delete(p)
    <3>1. i = job[p].list /\ lists'[i] = None
      BY <1>2, <2>2, DeletedIs
    <3>2. pc[p] = "delete"
      BY <2>2 DEF Delete, At
    <3> QED BY <1>2, <3>1, <3>2, LawfulJob
  <2>3. CASE FindToAdd(p) \/ FindToRemove(p) \/ GiveUp(p)
    BY <1>2, <2>3 DEF FindToAdd, FindToRemove, GiveUp
  <2>4. CASE Push(p)
    <3>1. /\ i = job[p].list /\ lists[i].songs \in Seq(Tracks)
          /\ lists'[i].songs = Append(lists[i].songs, job[p].track)
      BY <1>2, <2>4, PushedTo
    <3>2. ~(Len(lists'[i].songs) < Len(lists[i].songs))
      <4>1. \A songs \in Seq(Tracks), t \in Tracks : ~(Len(Append(songs, t)) < Len(songs))
        OBVIOUS
      <4>2. job[p].track \in Tracks
        BY <1>2, <2>4, <3>1, PushedTo
      <4> QED BY <3>1, <4>1, <4>2
    <3>3. pc[p] = "push"
      BY <2>4 DEF Push, At
    <3> QED BY <1>2, <3>1, <3>2, <3>3, LawfulJob
  <2>5. CASE Pull(p)
    <3>1. /\ i = job[p].list /\ lists[i].songs \in Seq(Tracks)
          /\ lists'[i].songs = Without(lists[i].songs, job[p])
      BY <1>2, <2>5, PulledFrom
    <3>2. Range(lists'[i].songs) = Range(lists[i].songs) \ {job[p].track}
      BY <3>1, OthersLeft
    <3>3. pc[p] = "pull"
      BY <2>5 DEF Pull, At
    <3> QED BY <1>2, <3>1, <3>2, <3>3, LawfulJob
  <2> QED BY <1>2, <2>1, <2>2, <2>3, <2>4, <2>5 DEF Step
<1>3. ASSUME NEW p \in Procs, Start(p) PROVE lists' = lists
  BY <1>3 DEF Start, CreatePlaylist, PressAdd, DeletePlaylist, AddToPlaylist,
              RemoveFromPlaylist
<1>4. CASE UNCHANGED vars
  BY <1>1, <1>4 DEF vars
<1>5. CASE lists[i] = None
  BY <1>5 DEF Lawful
<1> QED BY <1>1, <1>2, <1>3, <1>4, <1>5 DEF Next

\* A list changes only by a handler of its owner, and loses a song only as the
\* whole of the copies of the song that handler was asked to remove, whatever
\* other handlers do to the list in between.
THEOREM ListsChangeAsAsked == Spec => ChangesAsAsked
<1>1. OwnInv /\ [Next]_vars => \A i \in Ids : Lawful(i)
  BY LawfulStep
<1>2. (\A i \in Ids : Lawful(i)) <=>
      (\A i \in Ids : lists[i] # None /\ lists'[i] # lists[i] =>
        \E j \in Asked(i, {"delete", "push", "pull"}) :
            /\ j.by = lists[i].owner
            /\ lists'[i] # None /\ Len(lists'[i].songs) < Len(lists[i].songs) =>
                  \A t \in Tracks : (t \in Range(lists'[i].songs)) <=>
                      (t \in Range(lists[i].songs) /\ t # j.track))
  BY DEF Lawful
<1> QED BY <1>1, <1>2, OwnInit, OwnStep, PTL DEF Spec, ChangesAsAsked
-----------------------------------------------------------------------------
(* A song once.  A handler pushes after it looked; nobody else can have put  *)
(* the song there in between, or the list counts as raced.                   *)

\* Two handlers that push to one list have made it a raced one.
Alone ==
    \A p, q \in Procs : p # q /\ At(p, "push") /\ At(q, "push")
                          /\ job[p].list = job[q].list => job[p].list \in raced

\* The song is still not there.
Looked ==
    \A p \in Procs : At(p, "push") /\ job[p].list \notin raced =>
        ~Holds(job[p].list, job[p].track)

OneInv == OwnInv /\ Alone /\ Looked /\ OncePerList

\* The songs of a list that is there and not raced.
LEMMA OnceIs ==
    OncePerList <=> \A i \in Ids \ raced : lists[i] # None => Once(lists[i].songs)
BY DEF OncePerList, Once

\* A handler goes on or ends; no other handler that is about to push finds its
\* song in the list.
LEMMA OneGo ==
    ASSUME OneInv, OwnInv', NEW p \in Procs, NEW step \in Steps, NEW j, Go(p, step, j),
           raced \subseteq raced',
           step = "push" /\ j.list \notin raced' =>
               /\ ~(lists'[j.list] # None /\ j.track \in Range(lists'[j.list].songs))
               /\ \A q \in Procs \ {p} : ~(At(q, "push") /\ job[q].list = j.list),
           \A i \in Ids \ raced' : lists'[i] # None => Once(lists'[i].songs),
           \A q \in Procs \ {p} : At(q, "push") /\ job[q].list \notin raced' =>
               LET i == job[q].list
               IN ~(lists'[i] # None /\ job[q].track \in Range(lists'[i].songs))
    PROVE  OneInv'
<1>1. /\ \A q \in Procs : pc'[q] = IF q = p THEN step ELSE pc[q]
      /\ \A q \in Procs : job'[q] = IF q = p THEN j ELSE job[q]
  BY DEF OneInv, OwnInv, TypeOK, Go
<1>2. Alone'
  <2> SUFFICES ASSUME NEW q \in Procs, NEW r \in Procs, q # r, pc'[q] = "push",
                      pc'[r] = "push", job'[q].list = job'[r].list
               PROVE  job'[q].list \in raced'
    BY DEF Alone, At
  <2>1. CASE q # p /\ r # p
    BY <1>1, <2>1 DEF OneInv, Alone, At
  <2>2. CASE q = p
    BY <1>1, <2>2 DEF At
  <2>3. CASE r = p
    BY <1>1, <2>3 DEF At
  <2> QED BY <2>1, <2>2, <2>3
<1>3. Looked'
  <2> SUFFICES ASSUME NEW q \in Procs, pc'[q] = "push", job'[q].list \notin raced',
                      lists'[job'[q].list] # None
               PROVE  job'[q].track \notin Range(lists'[job'[q].list].songs)
    BY DEF Looked, Holds, At
  <2>1. CASE q = p
    BY <1>1, <2>1
  <2>2. CASE q # p
    BY <1>1, <2>2 DEF At
  <2> QED BY <2>1, <2>2
<1>4. OncePerList'
  BY DEF OncePerList, Once
<1> QED BY <1>2, <1>3, <1>4 DEF OneInv

\* The collection stays.
LEMMA OneQuiet ==
    ASSUME OneInv, OwnInv', NEW p \in Procs, NEW step \in Steps, NEW j, Go(p, step, j),
           UNCHANGED lists, raced \subseteq raced',
           step = "push" /\ j.list \notin raced' =>
               /\ ~Holds(j.list, j.track)
               /\ \A q \in Procs \ {p} : ~(At(q, "push") /\ job[q].list = j.list)
    PROVE  OneInv'
<1>1. \A i \in Ids \ raced' : lists'[i] # None => Once(lists'[i].songs)
  BY OnceIs DEF OneInv
<1>2. \A q \in Procs \ {p} : At(q, "push") /\ job[q].list \notin raced' =>
          LET i == job[q].list
          IN ~(lists'[i] # None /\ job[q].track \in Range(lists'[i].songs))
  BY DEF OneInv, Looked, Holds
<1>3. step = "push" /\ j.list \notin raced' =>
          /\ ~(lists'[j.list] # None /\ j.track \in Range(lists'[j.list].songs))
          /\ \A q \in Procs \ {p} : ~(At(q, "push") /\ job[q].list = j.list)
  BY DEF Holds
<1> QED BY <1>1, <1>2, <1>3, OneGo

\* A handler writes to one list and returns.
LEMMA OneWrite ==
    ASSUME OneInv, OwnInv', NEW p \in Procs, Return(p), UNCHANGED raced, NEW i \in Ids,
           \A k \in Ids \ {i} : lists'[k] = lists[k],
           i \notin raced /\ lists'[i] # None => Once(lists'[i].songs),
           \A q \in Procs \ {p} : At(q, "push") /\ job[q].list = i /\ i \notin raced =>
               ~(lists'[i] # None /\ job[q].track \in Range(lists'[i].songs))
    PROVE  OneInv'
<1>1. "idle" \in Steps /\ Go(p, "idle", Idle)
  BY DEF Steps, Return
<1>2. \A k \in Ids \ raced' : lists'[k] # None => Once(lists'[k].songs)
  BY OnceIs DEF OneInv
<1>3. ASSUME NEW q \in Procs \ {p}, At(q, "push"), job[q].list \notin raced'
      PROVE  ~(lists'[job[q].list] # None
                 /\ job[q].track \in Range(lists'[job[q].list].songs))
  <2>1. job[q].list \in Ids
    BY <1>3 DEF OneInv, OwnInv, TypeOK, At
  <2>2. CASE job[q].list = i
    BY <1>3, <2>2
  <2>3. CASE job[q].list # i
    BY <1>3, <2>1, <2>3 DEF OneInv, Looked, Holds
  <2> QED BY <2>2, <2>3
<1> QED BY <1>1, <1>2, <1>3, OneGo

\* A song is appended to a list that does not hold it.
LEMMA OnceMore ==
    ASSUME NEW songs \in Seq(Tracks), NEW t \in Tracks
    PROVE  /\ Range(Append(songs, t)) = Range(songs) \cup {t}
           /\ Once(songs) /\ t \notin Range(songs) => Once(Append(songs, t))
<1>1. /\ DOMAIN songs = 1 .. Len(songs) /\ DOMAIN Append(songs, t) = 1 .. Len(songs) + 1
      /\ Len(songs) \in Nat /\ Append(songs, t)[Len(songs) + 1] = t
      /\ \A n \in DOMAIN songs : Append(songs, t)[n] = songs[n]
  OBVIOUS
<1> DEFINE more == Append(songs, t)
<1> HIDE DEF more
<1>2. /\ \A n \in DOMAIN more : n \in DOMAIN songs \/ n = Len(songs) + 1
      /\ \A n \in DOMAIN songs : n \in DOMAIN more /\ more[n] = songs[n]
      /\ Len(songs) + 1 \in DOMAIN more /\ more[Len(songs) + 1] = t
  <2>1. \A n \in 1 .. Len(songs) + 1 : n \in 1 .. Len(songs) \/ n = Len(songs) + 1
    BY <1>1
  <2>2. \A n \in 1 .. Len(songs) : n \in 1 .. Len(songs) + 1
    BY <1>1
  <2>3. Len(songs) + 1 \in 1 .. Len(songs) + 1
    BY <1>1
  <2> QED BY <1>1, <2>1, <2>2, <2>3 DEF more
<1>3. Range(more) = Range(songs) \cup {t}
  BY <1>2 DEF Range
<1>4. ASSUME Once(songs), t \notin Range(songs) PROVE Once(more)
  <2>1. \A n \in DOMAIN songs : songs[n] # t
    BY <1>4 DEF Range
  <2> QED BY <1>2, <1>4, <2>1 DEF Once
<1> QED BY <1>3, <1>4 DEF more

\* Every step of the program.
LEMMA OneStep == OneInv /\ [Next]_vars => OneInv'
<1> SUFFICES ASSUME OneInv, [Next]_vars PROVE OneInv'
  OBVIOUS
<1>0. OwnInv' /\ OwnInv
  BY OwnStep DEF OneInv
<1>1. CASE UNCHANGED vars
  BY <1>0, <1>1 DEF vars, OneInv, Alone, Looked, OncePerList, Holds, At
<1>2. ASSUME NEW p \in Procs, Start(p) PROVE OneInv'
  <2>1. UNCHANGED <<lists, raced>> /\ \E step \in Steps \ {"push"} : \E j : Go(p, step, j)
    BY <1>2 DEF Start, CreatePlaylist, PressAdd, DeletePlaylist, AddToPlaylist,
                RemoveFromPlaylist, Steps
  <2> QED BY <1>0, <2>1, OneQuiet
<1>3. ASSUME NEW p \in Procs, Return(p), UNCHANGED lists, raced \subseteq raced'
      PROVE  OneInv'
  BY <1>0, <1>3, OneQuiet DEF Return, Steps
<1>4. ASSUME NEW p \in Procs, Step(p) PROVE OneInv'
  <2> DEFINE i == job[p].list
  <2>1. CASE Insert(p)
    <3>1. PICK k \in unused : \E u : lists' = [lists EXCEPT ![k] = [owner |-> u, songs |-> <<>>]]
      BY <2>1 DEF Insert
    <3>2. /\ \A l \in Ids \ {k} : lists'[l] = lists[l]
          /\ lists'[k].songs = <<>> /\ k \in Ids
      BY <1>0, <3>1 DEF OwnInv, TypeOK
    <3>3. PICK step \in {"idle", "findToAdd"} : \E j : Go(p, step, j)
      BY <2>1 DEF Insert, Return
    <3>4. \A l \in Ids \ raced' : lists'[l] # None => Once(lists'[l].songs)
      <4>1. raced' = raced /\ Once(<<>>)
        BY <2>1 DEF Insert, Once
      <4> QED BY <3>2, <4>1, OnceIs DEF OneInv
    <3>5. ASSUME NEW q \in Procs \ {p}, At(q, "push"), job[q].list \notin raced'
          PROVE  ~(lists'[job[q].list] # None
                     /\ job[q].track \in Range(lists'[job[q].list].songs))
      <4>1. job[q].list \in Ids \ {k} /\ raced' = raced
        BY <1>0, <2>1, <3>1, <3>5 DEF OwnInv, TypeOK, At, Insert
      <4> QED BY <3>2, <3>5, <4>1 DEF OneInv, Looked, Holds
    <3>6. raced' = raced /\ step \in Steps /\ step # "push"
      BY <2>1 DEF Insert, Steps
    <3> QED BY <1>0, <3>3, <3>4, <3>5, <3>6, OneGo
  <2>2. CASE Delete(p)
    <3>1. /\ i \in Ids /\ Return(p) /\ UNCHANGED raced /\ lists'[i] = None
          /\ \A k \in Ids \ {i} : lists'[k] = lists[k]
      BY <1>0, <2>2, DeletedIs
    <3> QED BY <1>0, <3>1, OneWrite
  <2>3. CASE FindToAdd(p)
    <3>1. UNCHANGED lists
      BY <2>3 DEF FindToAdd
    <3>2. CASE Return(p) /\ UNCHANGED raced
      BY <1>3, <3>1, <3>2
    <3>3. CASE /\ ~Holds(i, job[p].track) /\ Go(p, "push", job[p])
               /\ raced' = IF Overlapped(p) THEN raced \cup {i} ELSE raced
      <4>1. i \notin raced' => \A q \in Procs \ {p} : ~(At(q, "push") /\ job[q].list = i)
        BY <3>3 DEF Overlapped
      <4>2. raced \subseteq raced' /\ "push" \in Steps
        BY <3>3 DEF Steps
      <4> QED BY <1>0, <3>1, <3>3, <4>1, <4>2, OneQuiet
    <3>4. CASE Go(p, "push", job[p]) /\ raced' = raced \cup {i}
      <4>1. raced \subseteq raced' /\ "push" \in Steps /\ i \in raced'
        BY <3>4 DEF Steps
      <4> QED BY <1>0, <3>1, <3>4, <4>1, OneQuiet
    <3> QED BY <2>3, <3>2, <3>3, <3>4 DEF FindToAdd
  <2>4. CASE Push(p)
    <3>1. /\ i \in Ids /\ Return(p) /\ UNCHANGED raced
          /\ \A k \in Ids \ {i} : lists'[k] = lists[k]
          /\ lists[i] = None => lists'[i] = None
          /\ lists[i] # None =>
               /\ lists[i].songs \in Seq(Tracks) /\ job[p].track \in Tracks
               /\ lists'[i].songs = Append(lists[i].songs, job[p].track)
      BY <1>0, <2>4, PushedTo
    <3>2. At(p, "push")
      BY <2>4 DEF Push
    <3>3. i \notin raced /\ lists'[i] # None => Once(lists'[i].songs)
      <4>1. ASSUME i \notin raced, lists[i] # None PROVE Once(lists'[i].songs)
        <5>1. job[p].track \notin Range(lists[i].songs)
          BY <3>2, <4>1 DEF OneInv, Looked, Holds
        <5>2. Once(lists[i].songs)
          BY <3>1, <4>1, OnceIs DEF OneInv
        <5> QED BY <3>1, <4>1, <5>1, <5>2, OnceMore
      <4> QED BY <3>1, <4>1
    <3>4. \A q \in Procs \ {p} : ~(At(q, "push") /\ job[q].list = i /\ i \notin raced)
      BY <3>2 DEF OneInv, Alone
    <3> QED BY <1>0, <3>1, <3>3, <3>4, OneWrite
  <2>5. CASE FindToRemove(p)
    BY <1>0, <2>5, OneQuiet DEF FindToRemove, Steps
  <2>6. CASE Pull(p)
    <3>1. /\ i \in Ids /\ Return(p) /\ UNCHANGED raced
          /\ \A k \in Ids \ {i} : lists'[k] = lists[k]
          /\ lists[i] = None => lists'[i] = None
          /\ lists[i] # None =>
               /\ lists[i].songs \in Seq(Tracks)
               /\ lists'[i].songs = Without(lists[i].songs, job[p])
      BY <1>0, <2>6, PulledFrom
    <3>2. lists[i] # None => /\ Range(lists'[i].songs) \subseteq Range(lists[i].songs)
                             /\ Once(lists[i].songs) => Once(lists'[i].songs)
      <4>1. \A songs \in Seq(Tracks) : \A j :
               /\ Range(Without(songs, j)) \subseteq Range(songs)
               /\ Once(songs) => Once(Without(songs, j))
        BY OthersLeft
      <4> QED BY <3>1, <4>1
    <3>3. i \notin raced /\ lists'[i] # None => Once(lists'[i].songs)
      BY <3>1, <3>2, OnceIs DEF OneInv
    <3>4. \A q \in Procs \ {p} : At(q, "push") /\ job[q].list = i /\ i \notin raced =>
              ~(lists'[i] # None /\ job[q].track \in Range(lists'[i].songs))
      BY <3>1, <3>2 DEF OneInv, Looked, Holds
    <3> QED BY <1>0, <3>1, <3>3, <3>4, OneWrite
  <2>7. CASE GiveUp(p)
    BY <1>3, <2>7 DEF GiveUp
  <2> QED BY <1>4, <2>1, <2>2, <2>3, <2>4, <2>5, <2>6, <2>7 DEF Step
<1> QED BY <1>1, <1>2, <1>4 DEF Next

\* At first there is no list and no handler.
LEMMA OneInit == Init => OneInv
BY OwnInit DEF Init, OneInv, Alone, Looked, OncePerList, At

\* A list whose adds did not overlap, and could all look, holds no song twice.
THEOREM SongOnce == Spec => []OncePerList
<1>1. OneInv => OncePerList
  BY DEF OneInv
<1> QED BY <1>1, OneInit, OneStep, PTL DEF Spec
=============================================================================
