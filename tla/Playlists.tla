------------------------------ MODULE Playlists ------------------------------
(***************************************************************************)
(* Users keep playlists in the collection playlistDB (core/db/playlist.go, *)
(* handlers/playlist.go, the + button of handlers/callbacks.go).  Every    *)
(* handler reads the collection, decides, and writes it in a later call:   *)
(* the goroutines of one user's commands interleave between the calls.     *)
(* A call that fails, by an error or by the ten seconds of db.Ctx, ends    *)
(* its handler, except in songExists, which takes it for "no".             *)
(***************************************************************************)
EXTENDS Naturals, Sequences, FiniteSets, Functions

CONSTANTS Users, Tracks,
          Procs,       \* goroutines that run a handler
          Ids,         \* the names CreatePlaylist draws, no name twice
          None,        \* no such document
          Limit,       \* a user is refused a list when he has this many
          MaxSongs     \* bound: no add starts on a list of this length

ASSUME PlaylistsAssumption ==
    /\ IsFiniteSet(Procs) /\ IsFiniteSet(Ids)
    /\ Limit \in Nat \ {0} /\ MaxSongs \in Nat
    /\ None \notin [owner : Users, songs : Seq(Tracks)]

VARIABLES lists,     \* playlistDB: [Ids -> Playlist or None]
          unused,    \* names not drawn yet
          pc,        \* per handler: its next call
          job,       \* per handler: the user, the list and the song it works on
          raced      \* history: lists with overlapping or blind adds

vars == <<lists, unused, pc, job, raced>>

Playlist == [owner : Users, songs : Seq(Tracks)]
Idle     == [by |-> None, list |-> None, track |-> None, number |-> 0]
Job      == [by : Users \cup {None}, list : Ids \cup {None},
             track : Tracks \cup {None}, number : Nat]
Steps    == {"idle", "insert", "insertForSong", "delete",
             "findToAdd", "push", "findToRemove", "pull"}

Init ==
    /\ lists = [i \in Ids |-> None]
    /\ unused = Ids
    /\ pc = [p \in Procs |-> "idle"] /\ job = [p \in Procs |-> Idle]
    /\ raced = {}
-----------------------------------------------------------------------------
At(p, step) == pc[p] = step

Mine(u)  == {i \in Ids : lists[i] # None /\ lists[i].owner = u}
Short(i) == Len(lists[i].songs) < MaxSongs

(* The handler goes on to a step, with a job. *)
Go(p, step, j) == pc' = [pc EXCEPT ![p] = step] /\ job' = [job EXCEPT ![p] = j]

(* It ends: an early return, a failed call, or its answer. *)
Return(p) == Go(p, "idle", Idle)

For(u, i, t, n) == [by |-> u, list |-> i, track |-> t, number |-> n]

(* GetPlaylist finds the list, and its owner sends the command. *)
Owns(u, i) == i \in Mine(u)

\* Mutant: the limit is one too high.
MutantAtLimit(u) == Cardinality(Mine(u)) <= Limit

(* GetUserPlaylists, and room for one more. *)
BelowLimit(u) == Cardinality(Mine(u)) < Limit
-----------------------------------------------------------------------------
(* A handler starts; one that only reads, or is refused, changes nothing. *)

CreatePlaylist(p, u) ==
    /\ At(p, "idle") /\ BelowLimit(u)
    /\ Go(p, "insert", For(u, None, None, 0))
    /\ UNCHANGED <<lists, unused, raced>>

DeletePlaylist(p, u, i) ==
    /\ At(p, "idle") /\ Owns(u, i)
    /\ Go(p, "delete", For(u, i, None, 0))
    /\ UNCHANGED <<lists, unused, raced>>

AddToPlaylist(p, u, i, t) ==
    /\ At(p, "idle") /\ Owns(u, i) /\ Short(i)
    /\ Go(p, "findToAdd", For(u, i, t, 0))
    /\ UNCHANGED <<lists, unused, raced>>

(* By its number in the list that was read, or by its url. *)
RemoveFromPlaylist(p, u, i, n) ==
    /\ At(p, "idle") /\ Owns(u, i) /\ n \in DOMAIN lists[i].songs
    /\ Go(p, "findToRemove", For(u, i, lists[i].songs[n], n))
    /\ UNCHANGED <<lists, unused, raced>>

(* The + button under the track that plays: it goes to one of the user's   *)
(* lists, the first the database answers with, or to a new one.            *)
PressAdd(p, u, t) ==
    /\ At(p, "idle")
    /\ \/ Mine(u) = {} /\ Go(p, "insertForSong", For(u, None, t, 0))
       \/ \E i \in Mine(u) : Short(i) /\ Go(p, "findToAdd", For(u, i, t, 0))
    /\ UNCHANGED <<lists, unused, raced>>
-----------------------------------------------------------------------------
(* The later calls of the handlers *)

Insert(p) ==
    /\ pc[p] \in {"insert", "insertForSong"}
    /\ \E i \in unused :
          /\ unused' = unused \ {i}
          /\ lists' = [lists EXCEPT ![i] = [owner |-> job[p].by, songs |-> <<>>]]
          /\ IF At(p, "insert") THEN Return(p)
             ELSE Go(p, "findToAdd", [job[p] EXCEPT !.list = i])
    /\ UNCHANGED raced

Delete(p) ==
    /\ At(p, "delete") /\ lists' = [lists EXCEPT ![job[p].list] = None]
    /\ Return(p)
    /\ UNCHANGED <<unused, raced>>

\* Mutant: the loop over the songs returns in its first round.
MutantHoldsFirst(i, t) ==
    lists[i] # None /\ lists[i].songs # <<>> /\ t = Head(lists[i].songs)

(* songExists, when the database answers. *)
Holds(i, t) == lists[i] # None /\ t \in Range(lists[i].songs)

Overlapped(p) == \E q \in Procs \ {p} : At(q, "push") /\ job[q].list = job[p].list

(* A list that is gone holds nothing: the add goes on, and changes nothing. *)
FindToAdd(p) ==
    LET i == job[p].list
        push == Go(p, "push", job[p])
    IN /\ At(p, "findToAdd")
       /\ \/ Holds(i, job[p].track) /\ Return(p) /\ UNCHANGED raced
          \/ /\ ~Holds(i, job[p].track) /\ push
             /\ raced' = IF Overlapped(p) THEN raced \cup {i} ELSE raced
          \/ push /\ raced' = raced \cup {i}      \* the read fails
       /\ UNCHANGED <<lists, unused>>

Push(p) ==
    LET i == job[p].list
    IN /\ At(p, "push")
       /\ lists' = IF lists[i] = None THEN lists
                   ELSE [lists EXCEPT ![i].songs = Append(@, job[p].track)]
       /\ Return(p)
       /\ UNCHANGED <<unused, raced>>

FindToRemove(p) ==
    /\ At(p, "findToRemove") /\ Holds(job[p].list, job[p].track)
    /\ Go(p, "pull", job[p])
    /\ UNCHANGED <<lists, unused, raced>>

\* Mutant: the write goes by the number of the song.
MutantWithoutNumber(songs, j) ==
    SubSeq(songs, 1, j.number - 1) \o SubSeq(songs, j.number + 1, Len(songs))

(* $pull by the track's name: every copy, wherever it is by now, goes, and
   the songs that are left close up in their order. *)
Without(songs, j) ==
    LET left    == {m \in DOMAIN songs : songs[m] # j.track}
        Rank(m) == Cardinality({k \in left : k <= m})
    IN [n \in 1 .. Cardinality(left) |-> songs[CHOOSE m \in left : Rank(m) = n]]

Pull(p) ==
    LET i == job[p].list
    IN /\ At(p, "pull")
       /\ lists' = IF lists[i] = None THEN lists
                   ELSE [lists EXCEPT ![i].songs = Without(@, job[p])]
       /\ Return(p)
       /\ UNCHANGED <<unused, raced>>

(* A call that fails, a song GetInfo does not find, a track that has gone. *)
GiveUp(p) == ~At(p, "idle") /\ Return(p) /\ UNCHANGED <<lists, unused, raced>>
-----------------------------------------------------------------------------
Start(p) ==
    \E u \in Users :
        \/ CreatePlaylist(p, u)
        \/ \E t \in Tracks : PressAdd(p, u, t)
        \/ \E i \in Ids :
              \/ DeletePlaylist(p, u, i)
              \/ \E t \in Tracks : AddToPlaylist(p, u, i, t)
              \/ \E n \in 1 .. MaxSongs + Cardinality(Procs) :
                    RemoveFromPlaylist(p, u, i, n)

Step(p) ==
    \/ Insert(p) \/ Delete(p) \/ FindToAdd(p) \/ Push(p)
    \/ FindToRemove(p) \/ Pull(p) \/ GiveUp(p)

Next == \E p \in Procs : Start(p) \/ Step(p)

Spec == Init /\ [][Next]_vars
-----------------------------------------------------------------------------
(* The documents and the jobs have their shape, and a handler that is about
   to work on a list knows which list and which song. *)
TypeOK ==
    /\ lists \in [Ids -> Playlist \cup {None}]
    /\ unused \subseteq Ids /\ \A i \in unused : lists[i] = None
    /\ pc \in [Procs -> Steps] /\ job \in [Procs -> Job]
    /\ raced \subseteq Ids
    /\ \A p \in Procs :
          /\ ~At(p, "idle") => job[p].by \in Users
          /\ pc[p] \in {"delete", "findToAdd", "push", "findToRemove", "pull"}
                => job[p].list \in Ids \ unused
          /\ pc[p] \in {"insertForSong", "findToAdd", "push", "findToRemove", "pull"}
                => job[p].track \in Tracks

(* AddSongToPlaylist looks before it pushes, in two calls: a list holds a
   song twice only after two adds of that list overlapped or one could not
   look (core/db/playlist.go:92-103).  What the handlers do otherwise, in any
   order, with deletes and removals between the two calls, keeps it. *)
OncePerList ==
    \A i \in Ids \ raced :
        lists[i] # None => \A m, n \in DOMAIN lists[i].songs :
            lists[i].songs[m] = lists[i].songs[n] => m = n

(* The limit of ten is tested on a list read before the insert
   (handlers/playlist.go:33-47): handlers that run together can pass it, but
   by no more than their number, whatever they did before. *)
Creating(u) == {p \in Procs : pc[p] \in {"insert", "insertForSong"} /\ job[p].by = u}

ListsBounded ==
    \A u \in Users :
        Cardinality(Mine(u)) + Cardinality(Creating(u)) <= Limit + Cardinality(Procs) - 1

(* A list changes only by a handler of its owner, and loses a song only as
   the whole of the copies of one song a handler of the owner was asked to
   remove: a number stands for the song that had it when the handler read the
   list, though other handlers have moved the songs since
   (handlers/playlist.go:141-195). *)
Asked(i, steps) ==
    {job[p] : p \in {q \in Procs : pc[q] \in steps /\ job[q].list = i}}

ChangesAsAsked ==
    [][\A i \in Ids : lists[i] # None /\ lists'[i] # lists[i] =>
        \E j \in Asked(i, {"delete", "push", "pull"}) :
            /\ j.by = lists[i].owner
            /\ lists'[i] # None /\ Len(lists'[i].songs) < Len(lists[i].songs) =>
                  \A t \in Tracks : (t \in Range(lists'[i].songs)) <=>
                      (t \in Range(lists[i].songs) /\ t # j.track)]_vars
=============================================================================
