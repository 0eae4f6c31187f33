---------------------------- MODULE PlayerProofs ----------------------------
(***************************************************************************)
(* Playback, for any number of goroutines, tracks and failures: its types  *)
(* and its history, then who owns a track, and the order and the length of *)
(* the queue.  First what the operators of ChatCache return and preserve,  *)
(* for every queue, history and budget; the proofs about Player cite these *)
(* lemmas instead of reasoning about sequences again.  Last, the chain of  *)
(* tracks that autoplay chooses.                                           *)
(***************************************************************************)
EXTENDS PlayerProperties, AutoplayLane, SequenceTheorems, FiniteSetTheorems,
        WellFoundedInduction, TLAPS

\* Reading one element of a sequence as a member of its range.
LEMMA RangeMember ==
    ASSUME NEW S, NEW s \in Seq(S), NEW i \in 1 .. Len(s)
    PROVE  s[i] \in ToSet(s) /\ s[i] \in S
BY DEF ToSet

\* The empty chat, which stands for a missing entry, is well formed.
LEMMA EmptyChatType == EmptyChat \in ChatData
BY CacheAssumption DEF EmptyChat, ChatData, NotStarted

\* A well-formed chat has well-formed parts.
LEMMA ChatParts ==
    ASSUME NEW data \in ChatData
    PROVE  /\ data.queue \in Seq(Entries) /\ data.history \in Seq(Ids)
           /\ data.titles \in Seq(Titles) /\ data.left \in NotStarted .. AutoplayLimit - 1
BY DEF ChatData

\* AddSongs puts the new tracks behind the ones that wait.
LEMMA AddSongsSound ==
    ASSUME NEW data \in ChatData, NEW songs \in Seq(Entries)
    PROVE  /\ AddSongs(data, songs) \in ChatData
           /\ AddSongs(data, songs).queue = data.queue \o songs
<1>1. data.queue \o songs \in Seq(Entries)
  BY ChatParts, ConcatProperties
<1> QED BY <1>1 DEF AddSongs, ChatData

\* RemoveCurrentSong drops the head, of an empty queue nothing.
LEMMA RemoveCurrentSongSound ==
    ASSUME NEW data \in ChatData
    PROVE  RemoveCurrentSong(data) \in ChatData
<1>1. CASE IsActive(data)
  <2>1. Tail(data.queue) \in Seq(Entries)
    BY <1>1, ChatParts DEF IsActive
  <2> QED BY <1>1, <2>1 DEF RemoveCurrentSong, ChatData
<1>2. CASE ~ IsActive(data)
  BY <1>2 DEF RemoveCurrentSong
<1> QED BY <1>1, <1>2

\* Removing the element at i leaves the others in their order.
LEMMA RemoveAtSound ==
    ASSUME NEW S, NEW s \in Seq(S), NEW i \in 1 .. Len(s)
    PROVE  /\ RemoveAt(s, i) \in Seq(S)
           /\ Len(RemoveAt(s, i)) = Len(s) - 1
           /\ \A k \in 1 .. Len(s) - 1 : RemoveAt(s, i)[k] = IF k < i THEN s[k] ELSE s[k + 1]
<1> DEFINE front == SubSeq(s, 1, i - 1)
           back == SubSeq(s, i + 1, Len(s))
<1>1. /\ front \in Seq(S) /\ Len(front) = i - 1
      /\ \A k \in 1 .. i - 1 : front[k] = s[k]
  BY SubSeqProperties
<1>2. /\ back \in Seq(S) /\ Len(back) = Len(s) - i
      /\ \A k \in 1 .. Len(s) - i : back[k] = s[k + i]
  <2>1. \A k \in i + 1 .. Len(s) : s[k] \in S
    OBVIOUS
  <2> QED BY <2>1, SubSeqProperties
<1>3. RemoveAt(s, i) = front \o back
  BY DEF RemoveAt
<1> HIDE DEF front, back
<1>4. /\ front \o back \in Seq(S)
      /\ Len(front \o back) = Len(front) + Len(back)
      /\ \A k \in 1 .. Len(front) + Len(back) :
            (front \o back)[k] = IF k <= Len(front) THEN front[k] ELSE back[k - Len(front)]
  BY <1>1, <1>2, ConcatProperties
<1>5. Len(front) + Len(back) = Len(s) - 1
  BY <1>1, <1>2
<1>6. ASSUME NEW k \in 1 .. Len(s) - 1
      PROVE  RemoveAt(s, i)[k] = IF k < i THEN s[k] ELSE s[k + 1]
  <2>1. CASE k < i
    BY <2>1, <1>1, <1>3, <1>4, <1>5
  <2>2. CASE k >= i
    <3>1. k - (i - 1) \in 1 .. Len(s) - i
      BY <2>2
    <3>2. back[k - (i - 1)] = s[k - (i - 1) + i]
      BY <1>2, <3>1
    <3>3. k - (i - 1) + i = k + 1
      OBVIOUS
    <3> QED BY <2>2, <3>2, <3>3, <1>1, <1>3, <1>4, <1>5
  <2> QED BY <2>1, <2>2
<1> QED BY <1>3, <1>4, <1>5, <1>6

\* RemoveTrack keeps the queue a queue.
LEMMA RemoveTrackSound ==
    ASSUME NEW data \in ChatData, NEW index \in Nat
    PROVE  RemoveTrack(data, index) \in ChatData
<1>1. CASE index \in 0 .. Len(data.queue) - 1
  <2>1. RemoveAt(data.queue, index + 1) \in Seq(Entries)
    BY <1>1, ChatParts, RemoveAtSound
  <2> QED BY <1>1, <2>1 DEF RemoveTrack, ChatData
<1>2. CASE index \notin 0 .. Len(data.queue) - 1
  BY <1>2 DEF RemoveTrack
<1> QED BY <1>1, <1>2

\* A window of distinct elements that is not longer than HistoryCap.
Window(s) == IsInjective(s) /\ Len(s) <= HistoryCap

\* Remember adds one element and keeps the window: MarkPlayed's scan for
\* duplicates and its cut to the most recent HistoryCap entries.
LEMMA RememberSound ==
    ASSUME NEW S, NEW s \in Seq(S), Window(s), NEW x \in S
    PROVE  /\ Remember(s, x) \in Seq(S)
           /\ Window(Remember(s, x))
           /\ x \in ToSet(Remember(s, x))
<1> USE CacheAssumption
<1>1. CASE x \in ToSet(s)
  BY <1>1 DEF Remember
<1>2. CASE x \notin ToSet(s) /\ Len(s) < HistoryCap
  <2>1. Remember(s, x) = Append(s, x)
    BY <1>2 DEF Remember
  <2>2. Append(s, x) \in Seq(S) /\ Len(Append(s, x)) = Len(s) + 1
    OBVIOUS
  <2>3. IsInjective(Append(s, x))
    BY <1>2 DEF Window, IsInjective, ToSet
  <2>4. x \in ToSet(Append(s, x))
    BY <2>2, AppendProperties DEF ToSet
  <2> QED BY <1>2, <2>1, <2>2, <2>3, <2>4 DEF Window
<1>3. CASE x \notin ToSet(s) /\ Len(s) >= HistoryCap
  <2> DEFINE recent == SubSeq(s, Len(s) - HistoryCap + 2, Len(s))
  <2>1. Remember(s, x) = Append(recent, x) /\ Len(s) = HistoryCap
    BY <1>3 DEF Remember, Window
  <2>2. /\ recent \in Seq(S) /\ Len(recent) = HistoryCap - 1
        /\ \A k \in 1 .. HistoryCap - 1 : recent[k] = s[k + 1]
    <3>1. \A k \in 2 .. Len(s) : s[k] \in S
      OBVIOUS
    <3> QED BY <2>1, <3>1, SubSeqProperties
  <2> HIDE DEF recent
  <2>3. DOMAIN recent = 1 .. HistoryCap - 1 /\ DOMAIN s = 1 .. HistoryCap
    BY <2>1, <2>2, LenProperties
  <2>4. \A j, k \in 1 .. HistoryCap : s[j] = s[k] => j = k
    BY <2>3 DEF Window, IsInjective
  <2>5. \A k \in 1 .. HistoryCap - 1 : k + 1 \in 1 .. HistoryCap /\ recent[k] = s[k + 1]
    BY <2>2
  <2>6. IsInjective(recent)
    BY <2>3, <2>4, <2>5 DEF IsInjective
  <2>7. x \notin ToSet(recent)
    BY <1>3, <2>3, <2>5 DEF ToSet
  <2>8. IsInjective(Append(recent, x))
    BY <2>2, <2>6, <2>7 DEF IsInjective, ToSet
  <2>9. Append(recent, x) \in Seq(S) /\ Len(Append(recent, x)) = HistoryCap
    BY <2>2
  <2>10. x \in ToSet(Append(recent, x))
    <3>1. Append(recent, x)[HistoryCap] = x
      BY <2>2, AppendProperties
    <3>2. HistoryCap \in DOMAIN Append(recent, x)
      BY <2>9, LenProperties
    <3> QED BY <3>1, <3>2 DEF ToSet
  <2> QED BY <2>1, <2>8, <2>9, <2>10 DEF Window
<1> QED BY <1>1, <1>2, <1>3 DEF Window
-----------------------------------------------------------------------------
\* A well-formed chat whose two histories are windows.
Sound(data) == data \in ChatData /\ Window(data.history) /\ Window(data.titles)

\* The chat a handler creates on first use, and the one a clear leaves behind.
LEMMA EmptyChatSound == Sound(EmptyChat)
<1>1. EmptyChat.history = <<>> /\ EmptyChat.titles = <<>>
  BY DEF EmptyChat
<1>2. Window(<<>>)
  BY CacheAssumption DEF Window, IsInjective
<1> QED BY <1>1, <1>2, EmptyChatType DEF Sound

\* The queue operations do not touch the history, MarkPlayed and
\* MarkTitlePlayed keep it a window: every method keeps the chat sound.
LEMMA AddSongsKeeps ==
    ASSUME NEW data, Sound(data), NEW songs \in Seq(Entries)
    PROVE  Sound(AddSongs(data, songs))
<1>1. AddSongs(data, songs).history = data.history /\ AddSongs(data, songs).titles = data.titles
  BY DEF AddSongs, Sound, ChatData
<1> QED BY <1>1, AddSongsSound DEF Sound

LEMMA RemoveCurrentSongKeeps ==
    ASSUME NEW data, Sound(data)
    PROVE  Sound(RemoveCurrentSong(data))
<1>1. /\ RemoveCurrentSong(data).history = data.history
      /\ RemoveCurrentSong(data).titles = data.titles
  BY DEF RemoveCurrentSong, Sound, ChatData
<1> QED BY <1>1, RemoveCurrentSongSound DEF Sound

LEMMA RemoveTrackKeeps ==
    ASSUME NEW data, Sound(data), NEW index \in Nat
    PROVE  Sound(RemoveTrack(data, index))
<1>1. /\ RemoveTrack(data, index).history = data.history
      /\ RemoveTrack(data, index).titles = data.titles
  BY DEF RemoveTrack, Sound, ChatData
<1> QED BY <1>1, RemoveTrackSound DEF Sound

LEMMA MarkPlayedKeeps ==
    ASSUME NEW data, Sound(data), NEW id \in Ids
    PROVE  Sound(MarkPlayed(data, id)) /\ WasPlayed(MarkPlayed(data, id), id)
<1>1. data.history \in Seq(Ids)
  BY ChatParts DEF Sound
<1>2. /\ Remember(data.history, id) \in Seq(Ids)
      /\ Window(Remember(data.history, id))
      /\ id \in ToSet(Remember(data.history, id))
  BY <1>1, RememberSound DEF Sound
<1>3. /\ MarkPlayed(data, id) \in ChatData
      /\ MarkPlayed(data, id).history = Remember(data.history, id)
      /\ MarkPlayed(data, id).titles = data.titles
  BY <1>2 DEF MarkPlayed, Sound, ChatData
<1> QED BY <1>2, <1>3 DEF Sound, WasPlayed

LEMMA MarkTitlePlayedKeeps ==
    ASSUME NEW data, Sound(data), NEW title \in Titles
    PROVE  Sound(MarkTitlePlayed(data, title)) /\ WasTitlePlayed(MarkTitlePlayed(data, title), title)
<1>1. data.titles \in Seq(Titles)
  BY ChatParts DEF Sound
<1>2. /\ Remember(data.titles, title) \in Seq(Titles)
      /\ Window(Remember(data.titles, title))
      /\ title \in ToSet(Remember(data.titles, title))
  BY <1>1, RememberSound DEF Sound
<1>3. /\ MarkTitlePlayed(data, title) \in ChatData
      /\ MarkTitlePlayed(data, title).titles = Remember(data.titles, title)
      /\ MarkTitlePlayed(data, title).history = data.history
  BY <1>2 DEF MarkTitlePlayed, Sound, ChatData
<1> QED BY <1>2, <1>3 DEF Sound, WasTitlePlayed

LEMMA SetAutoplayRemainingKeeps ==
    ASSUME NEW data, Sound(data), NEW remaining \in NotStarted .. AutoplayLimit - 1
    PROVE  Sound(SetAutoplayRemaining(data, remaining))
<1>1. /\ SetAutoplayRemaining(data, remaining) \in ChatData
      /\ SetAutoplayRemaining(data, remaining).history = data.history
      /\ SetAutoplayRemaining(data, remaining).titles = data.titles
  BY DEF SetAutoplayRemaining, Sound, ChatData
<1> QED BY <1>1 DEF Sound
-----------------------------------------------------------------------------
(* The goroutines *)

\* What the goroutines share besides the chat.
TracksSound ==
    /\ used \subseteq Entries
    /\ loop \in [Entries -> 0 .. 10]
    /\ file \in [Entries -> {"none", "ready", "failed"}]
    /\ onAir \in Entries \cup {None}
    /\ call \in {"none", "unconnected", "connected"}
    /\ onAir # None => call = "connected"

\* What each goroutine has of its own: the step it takes next and its locals.
ThreadsSound ==
    /\ pc \in [Threads -> Labels]
    /\ song \in [Threads -> Entries \cup {None}]
    /\ num \in [Threads -> Nat]
    /\ LocalsSound

IInv == Sound(chat) /\ TracksSound /\ ThreadsSound

\* The queue of a sound chat: its head, its second track and its order.
LEMMA QueueType ==
    ASSUME Sound(chat)
    PROVE  /\ chat.queue \in Seq(Entries)
           /\ IsActive(chat) => GetPlayingTrack(chat) \in Entries
           /\ HasUpcomingTrack(chat) => GetUpcomingTrack(chat) \in Entries
           /\ chat.left \in NotStarted .. AutoplayLimit - 1
<1>1. chat.queue \in Seq(Entries) /\ chat.left \in NotStarted .. AutoplayLimit - 1
  BY ChatParts DEF Sound
<1>2. IsActive(chat) => GetPlayingTrack(chat) \in Entries
  BY <1>1 DEF IsActive, GetPlayingTrack
<1>3. HasUpcomingTrack(chat) => GetUpcomingTrack(chat) \in Entries
  BY <1>1 DEF HasUpcomingTrack, GetUpcomingTrack
<1> QED BY <1>1, <1>2, <1>3

\* A playlist's tracks are entries nobody used before.
LEMMA BatchType ==
    ASSUME TracksSound, NEW batch \in Batches
    PROVE  batch \in Seq(Entries) /\ Head(batch) \in Entries /\ ToSet(batch) \subseteq Entries
<1>1. PICK m \in 0 .. BatchMax : batch \in [1 .. m -> Fresh]
  BY PlayerAssumption DEF Batches, BoundedSeq, SeqOf
<1>2. Fresh \subseteq Entries
  BY DEF Fresh
<1>3. batch \in Seq(Entries)
  BY <1>1, <1>2
<1>4. batch # <<>>
  BY DEF Batches
<1> QED BY <1>3, <1>4 DEF ToSet

\* The chat stays sound: a step either leaves it alone, clears it, or is one
\* method of the cache.
LEMMA ChatStep ==
    ASSUME NEW t \in Threads, IInv, Run(t) \/ Event(t) \/ StreamEnd(t)
    PROVE  Sound(chat)'
<1> USE DEF IInv
<1>1. CASE chat' = chat
  BY <1>1 DEF Sound, Window
<1>2. CASE chat' = ClearChat
  BY <1>2, EmptyChatSound DEF ClearChat
<1>3. CASE Reset(t)
  BY <1>3, SetAutoplayRemainingKeeps, CacheAssumption DEF Reset, ResetAutoplay, NotStarted
<1>4. CASE Add(t)
  <2>1. song[t] \in Entries
    BY <1>4 DEF Add, ThreadsSound, LocalsSound, HoldsTrack
  <2>2. <<song[t]>> \in Seq(Entries)
    BY <2>1
  <2> QED BY <1>4, <2>2, AddSongsKeeps DEF Add
<1>5. CASE Undo(t)
  BY <1>5, RemoveCurrentSongKeeps DEF Undo
<1>6. CASE AddMany(t)
  <2>1. PICK batch \in Batches : chat' = AddSongs(chat, batch)
    BY <1>6 DEF AddMany
  <2> QED BY <2>1, BatchType, AddSongsKeeps
<1>7. CASE Drop(t)
  BY <1>7, RemoveCurrentSongKeeps DEF Drop
<1>8. CASE Finish(t)
  BY <1>8, RemoveCurrentSongKeeps DEF Finish
<1>9. CASE Claim(t)
  <2>1. num[t] \in 1 .. AutoplayLimit
    BY <1>9 DEF Claim, At, ThreadsSound, LocalsSound
  <2>2. num[t] - 1 \in NotStarted .. AutoplayLimit - 1
    BY <2>1, CacheAssumption DEF NotStarted
  <2> QED BY <1>9, <2>2, SetAutoplayRemainingKeeps DEF Claim
<1>10. CASE Enqueue(t)
  <2>1. song[t] \in Entries
    BY <1>10 DEF Enqueue, At, ThreadsSound, LocalsSound, HoldsTrack
  <2>2. <<song[t]>> \in Seq(Entries)
    BY <2>1
  <2> QED BY <1>10, <2>2, AddSongsKeeps DEF Enqueue
<1>11. CASE Mark(t)
  BY <1>11, MarkPlayedKeeps, PlayerAssumption DEF Mark, At, ThreadsSound, LocalsSound, HoldsTrack
<1>12. CASE MarkTitle(t)
  BY <1>12, MarkTitlePlayedKeeps, PlayerAssumption DEF MarkTitle, ThreadsSound, LocalsSound, HoldsTrack
<1>13. CASE RemoveCommand(t)
  BY <1>13, RemoveTrackKeeps DEF RemoveCommand
<1>14. CASE Start(t) \/ Stream(t) \/ Retune(t) \/ Stop(t) \/ ClearEvent(t)
  BY <1>1, <1>2, <1>14 DEF Start, Stream, Retune, Stop, ClearEvent, MediaStarts, MediaFails
<1>15. CASE \/ PlayCommand(t) \/ Search(t) \/ SearchFails(t) \/ Fetch(t) \/ AddNone(t) \/ LoopFirst(t)
            \/ GetLoop(t) \/ SetLoop(t) \/ Replay(t) \/ Upcoming(t) \/ Current(t) \/ Budget(t)
            \/ Query(t) \/ QueryFails(t) \/ Announce(t) \/ Prepare(t) \/ HangUp(t) \/ StopCommand(t)
            \/ SkipCommand(t) \/ RetuneCommand(t) \/ LoopCommand(t) \/ StreamEnd(t)
  BY <1>1, <1>15
     DEF PlayCommand, Search, SearchFails, Fetch, AddNone, LoopFirst, GetLoop, SetLoop, Replay, Upcoming, Current, Budget, Query, QueryFails,
         Announce, Prepare, HangUp, StopCommand, SkipCommand, RetuneCommand, LoopCommand, StreamEnd
<1> QED
  BY <1>3, <1>4, <1>5, <1>6, <1>7, <1>8, <1>9, <1>10, <1>11, <1>12, <1>13, <1>14, <1>15
     DEF Run, Event

\* The tracks' own data keeps its type: loop counts stay within what /loop
\* accepts, although two goroutines may write one count.
LEMMA TracksStep ==
    ASSUME NEW t \in Threads, IInv, Run(t) \/ Event(t) \/ StreamEnd(t)
    PROVE  TracksSound'
<1> USE DEF IInv, TracksSound
<1>0. pc[t] \in HoldsTrack => song[t] \in Entries
  BY DEF ThreadsSound, LocalsSound
<1>1. CASE UNCHANGED <<tracks, onAir, call>>
  BY <1>1 DEF tracks
<1>2. CASE Search(t)
  BY <1>2 DEF Search, Fresh
<1>3. CASE Fetch(t) \/ Prepare(t)
  <2>1. \/ file' = [file EXCEPT ![song[t]] = "ready"]
        \/ file' = [file EXCEPT ![song[t]] = IF @ = "none" THEN "failed" ELSE @]
    BY <1>3 DEF Fetch, Prepare, DownloadFails
  <2>2. UNCHANGED <<used, loop, onAir, call>>
    BY <1>3 DEF Fetch, Prepare
  <2> QED BY <2>1, <2>2
<1>4. CASE Start(t) \/ Stream(t) \/ Retune(t)
  <2>1. song[t] \in Entries /\ UNCHANGED tracks /\ (MediaStarts(t) \/ MediaFails(t))
    BY <1>0, <1>4 DEF Start, Stream, Retune, HoldsTrack
  <2>2. CASE MediaStarts(t)
    BY <2>1, <2>2 DEF MediaStarts, tracks
  <2>3. CASE MediaFails(t)
    BY <2>1, <2>3 DEF MediaFails, PlayFails, tracks
  <2> QED BY <2>1, <2>2, <2>3
<1>5. CASE AddMany(t)
  BY <1>5, BatchType DEF AddMany
<1>6. CASE LoopFirst(t)
  <2>1. loop' = [loop EXCEPT ![song[t]] = 1] /\ 1 \in 0 .. 10
    BY <1>6 DEF LoopFirst
  <2> QED BY <1>6, <2>1 DEF LoopFirst
<1>7. CASE SetLoop(t)
  <2>1. num[t] - 1 \in 0 .. 10
    BY <1>7 DEF SetLoop, At, ThreadsSound, LocalsSound
  <2> QED BY <1>7, <2>1 DEF SetLoop
<1>8. CASE Query(t)
  BY <1>8 DEF Query, Candidates, Fresh
<1>9. CASE HangUp(t) \/ StreamEnd(t) \/ ClearEvent(t)
  BY <1>9 DEF HangUp, StreamEnd, ClearEvent, tracks
<1>10. CASE LoopCommand(t)
  <2>1. PICK n \in 0 .. 10 : loop' = [loop EXCEPT ![GetPlayingTrack(chat)] = n]
    BY <1>10, PlayerAssumption DEF LoopCommand
  <2> QED BY <1>10, <2>1 DEF LoopCommand
<1>11. CASE \/ PlayCommand(t) \/ SearchFails(t) \/ Reset(t) \/ Add(t) \/ Undo(t) \/ AddNone(t)
            \/ GetLoop(t) \/ Replay(t) \/ Upcoming(t) \/ Drop(t) \/ Finish(t) \/ Current(t)
            \/ Budget(t) \/ QueryFails(t) \/ Claim(t) \/ Enqueue(t) \/ Announce(t) \/ Mark(t)
            \/ MarkTitle(t) \/ Stop(t) \/ StopCommand(t) \/ SkipCommand(t) \/ RetuneCommand(t) \/ RemoveCommand(t)
  BY <1>1, <1>11
     DEF PlayCommand, SearchFails, Reset, Add, Undo, AddNone, GetLoop, Replay, Upcoming, Drop, Finish, Current, Budget,
         QueryFails, Claim, Enqueue, Announce, Mark, MarkTitle, Stop, StopCommand, SkipCommand, RetuneCommand, RemoveCommand
<1> QED
  BY <1>2, <1>3, <1>4, <1>5, <1>6, <1>7, <1>8, <1>9, <1>10, <1>11
     DEF Run, Event

\* A goroutine that goes to a step holding what that step uses leaves the
\* locals of all goroutines sound.
LEMMA MoveSound ==
    ASSUME ThreadsSound, NEW t \in Threads, NEW label \in Labels,
           NEW e \in Entries \cup {None}, NEW n \in Nat,
           Goto(t, label), Capture(t, e), num' = [num EXCEPT ![t] = n],
           label \in HoldsTrack => e \in Entries,
           label = "setLoop" => n \in 1 .. 10,
           label \in {"query", "claim"} => n \in 1 .. AutoplayLimit
    PROVE  ThreadsSound'
<1>1. /\ pc' \in [Threads -> Labels]
      /\ song' \in [Threads -> Entries \cup {None}]
      /\ num' \in [Threads -> Nat]
  BY DEF ThreadsSound, Goto, Capture
<1>2. ASSUME NEW u \in Threads
      PROVE  /\ pc'[u] \in HoldsTrack => song'[u] \in Entries
             /\ pc'[u] = "setLoop" => num'[u] \in 1 .. 10
             /\ pc'[u] \in {"query", "claim"} => num'[u] \in 1 .. AutoplayLimit
  <2>1. CASE u = t
    BY <2>1 DEF ThreadsSound, Goto, Capture
  <2>2. CASE u # t
    BY <2>2 DEF ThreadsSound, LocalsSound, Goto, Capture
  <2> QED BY <2>1, <2>2
<1> QED BY <1>1, <1>2 DEF ThreadsSound, LocalsSound

\* The same for a goroutine that keeps one or both of its locals.
LEMMA StayPut ==
    ASSUME ThreadsSound, NEW t \in Threads
    PROVE  /\ UNCHANGED song => Capture(t, song[t])
           /\ UNCHANGED num => num' = [num EXCEPT ![t] = num[t]]
           /\ song[t] \in Entries \cup {None} /\ num[t] \in Nat
           /\ pc[t] \in HoldsTrack => song[t] \in Entries
           /\ pc[t] \in {"query", "claim"} => num[t] \in 1 .. AutoplayLimit
BY DEF ThreadsSound, LocalsSound, Capture

\* A goroutine that returns drops its locals.
LEMMA ReturnSound ==
    ASSUME ThreadsSound, NEW t \in Threads, Return(t)
    PROVE  ThreadsSound'
<1>1. "idle" \in Labels \ (HoldsTrack \cup {"setLoop", "query", "claim"})
  BY DEF Labels, HoldsTrack
<1> QED BY <1>1, MoveSound DEF Return

\* A goroutine that goes to a step which uses no local.
LEMMA FreeSound ==
    ASSUME ThreadsSound, NEW t \in Threads,
           NEW label \in Labels \ (HoldsTrack \cup {"setLoop", "query", "claim"}),
           NEW e \in Entries \cup {None}, NEW n \in Nat,
           Goto(t, label), Capture(t, e), num' = [num EXCEPT ![t] = n]
    PROVE  ThreadsSound'
BY MoveSound

\* Each step leads to one whose locals the goroutine holds.
LEMMA ThreadsStep ==
    ASSUME NEW t \in Threads, IInv, Run(t) \/ Event(t) \/ StreamEnd(t)
    PROVE  ThreadsSound'
<1> USE DEF IInv
<1>1. CASE PlayCommand(t)
  BY <1>1, StayPut, MoveSound DEF PlayCommand, Dispatch, At, locals, Labels, HoldsTrack
<1>2. CASE Search(t)
  <2>1. PICK e \in Entries :
            \/ Return(t)
            \/ Goto(t, "reset") /\ Capture(t, e) /\ UNCHANGED num
    BY <1>2 DEF Search, Fresh
  <2> QED BY <2>1, StayPut, MoveSound, ReturnSound DEF Labels, HoldsTrack
<1>3. CASE SearchFails(t)
  BY <1>3, ReturnSound DEF SearchFails
<1>4. CASE Reset(t)
  BY <1>4, StayPut, MoveSound DEF Reset, At, locals, Labels, HoldsTrack
<1>5. CASE Add(t)
  BY <1>5, StayPut, MoveSound, ReturnSound DEF Add, locals, Labels, HoldsTrack
<1>6. CASE Fetch(t)
  BY <1>6, StayPut, MoveSound DEF Fetch, locals, Labels, HoldsTrack
<1>7. CASE Start(t)
  BY <1>7, StayPut, MoveSound, ReturnSound DEF Start, locals, Labels, HoldsTrack
<1>8. CASE Undo(t)
  BY <1>8, ReturnSound DEF Undo
<1>9. CASE AddMany(t)
  <2>1. PICK batch \in Batches :
            \/ Return(t)
            \/ Goto(t, "loopFirst") /\ Capture(t, Head(batch)) /\ UNCHANGED num
    BY <1>9 DEF AddMany
  <2> QED BY <2>1, BatchType, StayPut, MoveSound, ReturnSound DEF Labels, HoldsTrack
<1>10. CASE AddNone(t)
  BY <1>10, ReturnSound DEF AddNone
<1>11. CASE LoopFirst(t)
  BY <1>11, StayPut, MoveSound DEF LoopFirst, At, locals, Labels, HoldsTrack
<1>12. CASE GetLoop(t)
  <2>1. PICK n \in 0 .. 10 :
            /\ num' = [num EXCEPT ![t] = n]
            /\ Goto(t, IF n > 0 THEN "setLoop" ELSE "upcoming")
            /\ UNCHANGED song
    <3> DEFINE n == IF IsActive(chat) THEN loop[GetPlayingTrack(chat)] ELSE 0
    <3>1. n \in 0 .. 10
      BY QueueType DEF TracksSound
    <3> QED BY <1>12, <3>1 DEF GetLoop
  <2>2. n \in Nat /\ (n > 0 => n \in 1 .. 10)
    OBVIOUS
  <2>3. CASE n > 0
    <3>1. Goto(t, "setLoop") /\ Capture(t, song[t]) /\ num' = [num EXCEPT ![t] = n]
      BY <2>1, <2>3, StayPut
    <3>2. "setLoop" \in Labels \ (HoldsTrack \cup {"query", "claim"})
      BY DEF Labels, HoldsTrack
    <3>3. n \in Nat /\ n \in 1 .. 10 /\ song[t] \in Entries \cup {None}
      BY <2>2, <2>3, StayPut
    <3> QED BY <3>1, <3>2, <3>3, MoveSound
  <2>4. CASE ~ (n > 0)
    <3>1. Goto(t, "upcoming") /\ Capture(t, song[t]) /\ num' = [num EXCEPT ![t] = n]
      BY <2>1, <2>4, StayPut
    <3>2. "upcoming" \in Labels \ (HoldsTrack \cup {"setLoop", "query", "claim"})
      BY DEF Labels, HoldsTrack
    <3>3. n \in Nat /\ song[t] \in Entries \cup {None}
      BY <2>2, StayPut
    <3> QED BY <3>1, <3>2, <3>3, MoveSound
  <2> QED BY <2>3, <2>4
<1>13. CASE SetLoop(t)
  <2>1. Goto(t, "replay") /\ Capture(t, song[t]) /\ num' = [num EXCEPT ![t] = 0]
    BY <1>13, StayPut DEF SetLoop, At
  <2> QED BY <2>1, StayPut, FreeSound DEF Labels, HoldsTrack
<1>14. CASE Replay(t)
  BY <1>14, StayPut, MoveSound, QueueType DEF Replay, locals, Labels, HoldsTrack
<1>15. CASE Upcoming(t)
  BY <1>15, StayPut, MoveSound, QueueType DEF Upcoming, locals, Labels, HoldsTrack
<1>16. CASE Drop(t)
  BY <1>16, StayPut, MoveSound DEF Drop, At, locals, Labels, HoldsTrack
<1>17. CASE Finish(t)
  BY <1>17, StayPut, MoveSound DEF Finish, At, locals, Labels, HoldsTrack
<1>18. CASE Current(t)
  BY <1>18, StayPut, MoveSound, QueueType DEF Current, locals, Labels, HoldsTrack
<1>19. CASE Budget(t)
  <2>1. CASE Goto(t, "finish") /\ Capture(t, None) /\ UNCHANGED num
    BY <2>1, StayPut, MoveSound DEF Labels, HoldsTrack
  <2>2. CASE /\ Goto(t, "query")
             /\ num' = [num EXCEPT ![t] = IF chat.left = NotStarted
                                          THEN AutoplayLimit ELSE chat.left]
             /\ chat.left # 0
             /\ pc[t] = "budget"
             /\ UNCHANGED song
    <3> DEFINE n == IF chat.left = NotStarted THEN AutoplayLimit ELSE chat.left
    <3>1. n \in 1 .. AutoplayLimit
      BY <2>2, QueueType, CacheAssumption DEF NotStarted
    <3>2. song[t] \in Entries
      BY <2>2, StayPut DEF HoldsTrack
    <3>3. Goto(t, "query") /\ Capture(t, song[t]) /\ num' = [num EXCEPT ![t] = n]
      BY <2>2, StayPut
    <3>4. "query" \in Labels /\ "query" # "setLoop" /\ n \in Nat
      BY <3>1 DEF Labels
    <3> HIDE DEF n
    <3> QED BY <3>1, <3>2, <3>3, <3>4, StayPut, MoveSound
  <2> QED BY <1>19, <2>1, <2>2 DEF Budget
<1>20. CASE Query(t)
  <2>1. PICK e \in Entries : Capture(t, e)
    BY <1>20 DEF Query, Candidates, Fresh
  <2>2. pc[t] = "query" /\ Goto(t, "claim") /\ UNCHANGED num
    BY <1>20 DEF Query
  <2> QED BY <2>1, <2>2, StayPut, MoveSound DEF Labels, HoldsTrack
<1>21. CASE QueryFails(t)
  <2>1. Goto(t, "finish") /\ Capture(t, None) /\ num' = [num EXCEPT ![t] = 0]
    BY <1>21 DEF QueryFails, At
  <2> QED BY <2>1, FreeSound DEF Labels, HoldsTrack
<1>22. CASE Claim(t)
  BY <1>22, StayPut, MoveSound DEF Claim, At, locals, Labels, HoldsTrack
<1>23. CASE Enqueue(t)
  BY <1>23, StayPut, MoveSound DEF Enqueue, At, locals, Labels, HoldsTrack
<1>24. CASE Announce(t)
  BY <1>24, StayPut, MoveSound, ReturnSound DEF Announce, locals, Labels, HoldsTrack
<1>25. CASE Prepare(t)
  BY <1>25, StayPut, MoveSound DEF Prepare, locals, Labels, HoldsTrack
<1>26. CASE Stream(t)
  BY <1>26, StayPut, MoveSound, ReturnSound DEF Stream, locals, Labels, HoldsTrack
<1>27. CASE Mark(t)
  BY <1>27, StayPut, MoveSound DEF Mark, At, locals, Labels, HoldsTrack
<1>28. CASE MarkTitle(t)
  BY <1>28, ReturnSound DEF MarkTitle
<1>29. CASE Stop(t)
  BY <1>29, StayPut, MoveSound, ReturnSound DEF Stop, locals, Labels, HoldsTrack
<1>30. CASE HangUp(t)
  BY <1>30, ReturnSound DEF HangUp
<1>31. CASE Retune(t)
  BY <1>31, ReturnSound DEF Retune
<1>32. CASE StopCommand(t)
  BY <1>32, StayPut, MoveSound DEF StopCommand, Dispatch, At, locals, Labels, HoldsTrack
<1>33. CASE SkipCommand(t)
  BY <1>33, StayPut, MoveSound DEF SkipCommand, Dispatch, At, locals, Labels, HoldsTrack
<1>34. CASE RetuneCommand(t)
  BY <1>34, StayPut, MoveSound, QueueType DEF RetuneCommand, Dispatch, At, locals, Labels, HoldsTrack
<1>35. CASE LoopCommand(t)
  BY <1>35, StayPut, MoveSound DEF LoopCommand, Dispatch, At, locals, Labels, HoldsTrack
<1>36. CASE RemoveCommand(t)
  BY <1>36, StayPut, MoveSound DEF RemoveCommand, Dispatch, At, locals, Labels, HoldsTrack
<1>37. CASE ClearEvent(t)
  BY <1>37, StayPut, MoveSound DEF ClearEvent, Dispatch, At, locals, Labels, HoldsTrack
<1>38. CASE StreamEnd(t)
  BY <1>38, StayPut, MoveSound DEF StreamEnd, At, locals, Labels, HoldsTrack
<1> QED
  BY <1>1, <1>2, <1>3, <1>4, <1>5, <1>6, <1>7, <1>8, <1>9, <1>10, <1>11, <1>12,
     <1>13, <1>14, <1>15, <1>16, <1>17, <1>18, <1>19, <1>20, <1>21, <1>22, <1>23, <1>24,
     <1>25, <1>26, <1>27, <1>28, <1>29, <1>30, <1>31, <1>32, <1>33, <1>34, <1>35, <1>36,
     <1>37, <1>38 DEF Run, Event

\* Before the first update arrives the bot is in a sound state.
LEMMA InitSound == Init => IInv
<1> SUFFICES ASSUME Init PROVE IInv
  OBVIOUS
<1>1. Sound(chat)
  BY EmptyChatSound DEF Init
<1>2. TracksSound
  BY DEF Init, TracksSound
<1>3. ThreadsSound
  BY DEF Init, ThreadsSound, LocalsSound, Labels, HoldsTrack
<1> QED BY <1>1, <1>2, <1>3 DEF IInv

\* No step of any goroutine, and no command or event, breaks it.
LEMMA StepSound == IInv /\ [Next]_vars => IInv'
<1> SUFFICES ASSUME IInv, [Next]_vars PROVE IInv'
  OBVIOUS
<1>1. CASE Next
  BY <1>1, ChatStep, TracksStep, ThreadsStep DEF Next, IInv
<1>2. CASE UNCHANGED vars
  BY <1>2 DEF vars, IInv, Sound, Window, TracksSound, ThreadsSound, LocalsSound
<1> QED BY <1>1, <1>2

LEMMA Invariance == Spec => []IInv
BY InitSound, StepSound, PTL DEF Spec

\* Every variable keeps its type: the queue holds tracks, loop counts stay in
\* 0..10 and the autoplay budget in -1..AutoplayLimit-1, however the handlers
\* of play.go, calls.go and the other commands interleave.  The reason is
\* LocalsSound: a step that uses a track or a count finds one, because only
\* the steps that fetch it lead there.
THEOREM TypeCorrect == Spec => []TypeOK
<1>1. IInv => TypeOK
  BY DEF IInv, Sound, TracksSound, ThreadsSound, TypeOK
<1> QED BY <1>1, Invariance, PTL

\* The histories of MarkPlayed and MarkTitlePlayed stay windows of distinct
\* entries no longer than HistoryCap.
THEOREM HistoryCorrect == Spec => []HistorySound
<1>1. IInv => HistorySound
  BY DEF IInv, Sound, Window, HistorySound
<1> QED BY <1>1, Invariance, PTL
-----------------------------------------------------------------------------
(* The queue.  Who owns a track: the queue holds distinct tracks, a track  *)
(* on its way to the queue is in one goroutine's hands only, and so the    *)
(* goroutine that found the queue empty has its track at the head.  Then   *)
(* its order: no step changes the order of the tracks that stay queued, or *)
(* puts a track before one that waits.  Last its length: every goroutine   *)
(* on its way to add has room for one batch set aside, since the moment it *)
(* passed the check of the limit.                                          *)

\* A queue that lost some of its tracks: r is no longer and has no new ones,
\* and the head of q is the head of r if it is still there.
Shrinks(q, r) ==
    /\ IsInjective(r)
    /\ Len(r) <= Len(q)
    /\ ToSet(r) \subseteq ToSet(q)
    /\ Head(q) \in ToSet(r) => Head(r) = Head(q)

\* A queue that is kept.
LEMMA SameShrinks ==
    ASSUME NEW q \in Seq(Entries), IsInjective(q)
    PROVE  Shrinks(q, q)
BY LenProperties DEF Shrinks

\* A queue that is cleared.
LEMMA EmptyShrinks ==
    ASSUME NEW q \in Seq(Entries)
    PROVE  Shrinks(q, <<>>)
BY DEF Shrinks, IsInjective, ToSet

\* A queue whose head is dropped.
LEMMA TailShrinks ==
    ASSUME NEW q \in Seq(Entries), q # <<>>, IsInjective(q)
    PROVE  Shrinks(q, Tail(q))
<1>1. /\ Tail(q) \in Seq(Entries) /\ Len(Tail(q)) = Len(q) - 1
      /\ DOMAIN Tail(q) = 1 .. Len(q) - 1 /\ DOMAIN q = 1 .. Len(q)
      /\ \A i \in 1 .. Len(q) - 1 : Tail(q)[i] = q[i + 1]
      /\ Len(q) \in Nat \ {0} /\ Head(q) = q[1]
  BY HeadTailProperties, LenProperties, EmptySeq
<1>2. \A i, j \in 1 .. Len(q) : q[i] = q[j] => i = j
  BY <1>1 DEF IsInjective
<1> HIDE DEF IsInjective
<1>3. \A i \in 1 .. Len(q) - 1 : i + 1 \in 1 .. Len(q) /\ i + 1 # 1
  BY <1>1
<1>4. IsInjective(Tail(q))
  BY <1>1, <1>2, <1>3 DEF IsInjective
<1>5. ToSet(Tail(q)) \subseteq ToSet(q)
  BY <1>1, <1>3 DEF ToSet
<1>6. Head(q) \notin ToSet(Tail(q))
  BY <1>1, <1>2, <1>3 DEF ToSet
<1> QED BY <1>1, <1>4, <1>5, <1>6 DEF Shrinks

\* A queue that loses a track that waits behind the head.
LEMMA RemoveAtShrinks ==
    ASSUME NEW q \in Seq(Entries), IsInjective(q), NEW i \in 2 .. Len(q)
    PROVE  Shrinks(q, RemoveAt(q, i))
<1> DEFINE r == RemoveAt(q, i)
           old(k) == IF k < i THEN k ELSE k + 1
<1>0. i \in 1 .. Len(q)
  BY LenProperties
<1>1. /\ r \in Seq(Entries) /\ Len(r) = Len(q) - 1
      /\ \A k \in 1 .. Len(q) - 1 : r[k] = IF k < i THEN q[k] ELSE q[k + 1]
  BY <1>0, RemoveAtSound
<1> HIDE DEF r
<1>2. DOMAIN r = 1 .. Len(q) - 1 /\ DOMAIN q = 1 .. Len(q) /\ Len(q) \in Nat
  BY <1>1, LenProperties
<1>3. \A k \in 1 .. Len(q) - 1 : old(k) \in 1 .. Len(q) /\ r[k] = q[old(k)]
  BY <1>1, <1>2
<1>4. \A j, k \in 1 .. Len(q) - 1 : old(j) = old(k) => j = k
  BY <1>2
<1>5. \A j, k \in 1 .. Len(q) : q[j] = q[k] => j = k
  BY <1>2 DEF IsInjective
<1>6. old(1) = 1 /\ 1 \in 1 .. Len(q) - 1
  BY <1>2
<1> HIDE DEF old
<1>7. IsInjective(r)
  BY <1>2, <1>3, <1>4, <1>5 DEF IsInjective
<1>8. ToSet(r) \subseteq ToSet(q)
  BY <1>2, <1>3 DEF ToSet
<1>9. Head(r) = Head(q)
  <2>1. r # <<>> /\ q # <<>>
    BY <1>1, <1>2, <1>6
  <2> QED BY <1>1, <1>3, <1>6, <2>1, HeadTailProperties
<1> QED BY <1>1, <1>2, <1>7, <1>8, <1>9 DEF Shrinks, r

\* New tracks behind the ones that wait.
LEMMA AppendGrows ==
    ASSUME NEW q \in Seq(Entries), NEW b \in Seq(Entries), b # <<>>,
           IsInjective(q), IsInjective(b), ToSet(q) \cap ToSet(b) = {}
    PROVE  /\ IsInjective(q \o b)
           /\ ToSet(q \o b) = ToSet(q) \cup ToSet(b)
           /\ Head(q \o b) = IF q = <<>> THEN Head(b) ELSE Head(q)
           /\ Len(q \o b) = Len(q) + Len(b)
<1>1. /\ q \o b \in Seq(Entries) /\ Len(q \o b) = Len(q) + Len(b)
      /\ \A k \in 1 .. Len(q) + Len(b) :
            (q \o b)[k] = IF k <= Len(q) THEN q[k] ELSE b[k - Len(q)]
  BY ConcatProperties
<1> DEFINE r == q \o b
<1> HIDE DEF r
<1>2. /\ DOMAIN r = 1 .. Len(q) + Len(b) /\ DOMAIN q = 1 .. Len(q) /\ DOMAIN b = 1 .. Len(b)
      /\ Len(q) \in Nat /\ Len(b) \in Nat \ {0}
  BY <1>1, LenProperties, EmptySeq DEF r
<1>3. \A k \in 1 .. Len(q) : k \in 1 .. Len(q) + Len(b) /\ r[k] = q[k] /\ q[k] \in ToSet(q)
  BY <1>1, <1>2 DEF r, ToSet
<1>4. \A k \in 1 .. Len(b) :
         k + Len(q) \in 1 .. Len(q) + Len(b) /\ r[k + Len(q)] = b[k] /\ b[k] \in ToSet(b)
  <2> TAKE k \in 1 .. Len(b)
  <2>1. k + Len(q) \in 1 .. Len(q) + Len(b) /\ ~ (k + Len(q) <= Len(q)) /\ k + Len(q) - Len(q) = k
    BY <1>2
  <2>2. r[k + Len(q)] = b[k]
    BY <1>1, <2>1 DEF r
  <2>3. b[k] \in ToSet(b)
    BY <1>2 DEF ToSet
  <2> QED BY <2>1, <2>2, <2>3
<1>5. \A k \in 1 .. Len(q) + Len(b) :
         k \in 1 .. Len(q) \/ \E i \in 1 .. Len(b) : k = i + Len(q)
  <2> TAKE k \in 1 .. Len(q) + Len(b)
  <2>1. CASE k > Len(q)
    <3>1. k - Len(q) \in 1 .. Len(b) /\ k = (k - Len(q)) + Len(q)
      BY <1>2, <2>1
    <3> QED BY <3>1
  <2> QED BY <1>2, <2>1
<1>6. ToSet(r) = ToSet(q) \cup ToSet(b)
  <2>1. ASSUME NEW k \in 1 .. Len(q) + Len(b) PROVE r[k] \in ToSet(q) \cup ToSet(b)
    BY <1>3, <1>4, <1>5
  <2>2. \A k \in 1 .. Len(q) + Len(b) : r[k] \in ToSet(r)
    BY <1>2 DEF ToSet
  <2>3. (\A k \in 1 .. Len(q) : q[k] \in ToSet(r)) /\ (\A k \in 1 .. Len(b) : b[k] \in ToSet(r))
    BY <1>3, <1>4, <2>2
  <2>4. /\ ToSet(r) = {r[k] : k \in 1 .. Len(q) + Len(b)}
        /\ ToSet(q) = {q[k] : k \in 1 .. Len(q)} /\ ToSet(b) = {b[k] : k \in 1 .. Len(b)}
    BY <1>2 DEF ToSet
  <2> QED BY <2>1, <2>3, <2>4
<1>7. ASSUME NEW j \in 1 .. Len(q) + Len(b), NEW k \in 1 .. Len(q) + Len(b), r[j] = r[k]
      PROVE  j = k
  <2>1. CASE j \in 1 .. Len(q) /\ k \in 1 .. Len(q)
    BY <1>2, <1>3, <1>7, <2>1 DEF IsInjective
  <2>2. CASE j \in 1 .. Len(q) /\ k \notin 1 .. Len(q)
    <3>1. r[j] \in ToSet(q)
      BY <1>3, <2>2
    <3>2. r[k] \in ToSet(b)
      BY <1>4, <1>5, <2>2
    <3> QED BY <1>7, <3>1, <3>2
  <2>3. CASE j \notin 1 .. Len(q) /\ k \in 1 .. Len(q)
    <3>1. r[k] \in ToSet(q)
      BY <1>3, <2>3
    <3>2. r[j] \in ToSet(b)
      BY <1>4, <1>5, <2>3
    <3> QED BY <1>7, <3>1, <3>2
  <2>4. CASE j \notin 1 .. Len(q) /\ k \notin 1 .. Len(q)
    <3>1. PICK m \in 1 .. Len(b), n \in 1 .. Len(b) : j = m + Len(q) /\ k = n + Len(q)
      BY <1>5, <2>4
    <3>2. b[m] = b[n]
      BY <1>4, <1>7, <3>1
    <3> QED BY <1>2, <3>1, <3>2 DEF IsInjective
  <2> QED BY <2>1, <2>2, <2>3, <2>4
<1>8. IsInjective(r)
  BY <1>2, <1>7 DEF IsInjective
<1>9. Head(r) = IF q = <<>> THEN Head(b) ELSE Head(q)
  <2>1. r # <<>> /\ Head(r) = r[1] /\ Head(b) = b[1]
    BY <1>1, <1>2, HeadTailProperties, EmptySeq DEF r
  <2>2. CASE q = <<>>
    BY <1>2, <1>4, <2>1, <2>2, EmptySeq
  <2>3. CASE q # <<>>
    BY <1>2, <1>3, <2>1, <2>3, HeadTailProperties, EmptySeq
  <2> QED BY <2>2, <2>3
<1> QED BY <1>1, <1>6, <1>8, <1>9 DEF r
-----------------------------------------------------------------------------
\* A free goroutine holds no track.
IdleHoldsNone == \A t \in Threads : pc[t] = "idle" => song[t] = None

Own == OwnersDistinct /\ StarterAtHead /\ IdleHoldsNone

\* What a step of t that adds nothing to the queue does with the track t
\* holds: a track on its way is the one it had, or a new one; a track that is
\* started was being started.
Hands(t) ==
    /\ \A u \in Threads \ {t} : pc'[u] = pc[u] /\ song'[u] = song[u]
    /\ used \subseteq used'
    /\ pc'[t] = "idle" => song'[t] = None
    /\ OnItsWay(t)' => \/ OnItsWay(t) /\ song'[t] = song[t]
                       \/ song'[t] \in used' \ used
    /\ pc'[t] \in Starting => pc[t] \in Starting /\ song'[t] = song[t]

\* Such a step keeps the ownership of tracks.
LEMMA ShrinkOwn ==
    ASSUME Own, NEW t \in Threads, Hands(t), Shrinks(chat.queue, chat'.queue)
    PROVE  Own'
<1> DEFINE q == chat.queue
           r == chat'.queue
<1>1. /\ ToSet(q) \subseteq used /\ IsInjective(r)
      /\ ToSet(r) \subseteq ToSet(q)
      /\ Head(q) \in ToSet(r) => Head(r) = Head(q)
  BY DEF Own, OwnersDistinct, Shrinks
<1> HIDE DEF q, r
<1>2. ASSUME NEW u \in Threads, OnItsWay(u)'
      PROVE  \/ OnItsWay(u) /\ song'[u] = song[u] /\ song[u] \in used \ ToSet(q)
             \/ u = t /\ song'[u] \in used' \ used
  <2>1. CASE u = t
    BY <1>2, <2>1 DEF Hands, Own, OwnersDistinct, q
  <2>2. CASE u # t
    BY <1>2, <2>2 DEF Hands, Own, OwnersDistinct, OnItsWay, q
  <2> QED BY <2>1, <2>2
<1>3. ASSUME NEW u \in Threads, pc'[u] \in Starting
      PROVE  pc[u] \in Starting /\ song'[u] = song[u] /\ song[u] \in used
  BY <1>3 DEF Hands, Own, OwnersDistinct
<1>4. \A u \in Threads : OnItsWay(u)' => song'[u] \in used' \ ToSet(r)
  BY <1>1, <1>2 DEF Hands
<1>5. \A u \in Threads : pc'[u] \in Starting => song'[u] \in used'
  BY <1>3 DEF Hands
<1>6. ASSUME NEW u \in Threads, NEW v \in Threads, u # v, OnItsWay(u)',
             OnItsWay(v)' \/ pc'[v] \in Starting
      PROVE  song'[u] # song'[v]
  <2>1. \/ OnItsWay(u) /\ song'[u] = song[u] /\ song[u] \in used
        \/ u = t /\ song'[u] \in used' \ used
    BY <1>2, <1>6
  <2>2. \/ (OnItsWay(v) \/ pc[v] \in Starting) /\ song'[v] = song[v] /\ song[v] \in used
        \/ v = t /\ song'[v] \in used' \ used
    BY <1>2, <1>3, <1>6
  <2> QED BY <1>6, <2>1, <2>2 DEF Own, OwnersDistinct
<1>7. OwnersDistinct'
  <2>1. IsInjective(r) /\ ToSet(r) \subseteq used'
    BY <1>1 DEF Hands
  <2> QED BY <1>4, <1>5, <1>6, <2>1 DEF OwnersDistinct, r
<1>8. StarterAtHead'
  BY <1>1, <1>3 DEF Own, StarterAtHead, q, r
<1>9. IdleHoldsNone'
  BY DEF Own, IdleHoldsNone, Hands
<1> QED BY <1>7, <1>8, <1>9 DEF Own

\* So does a step of t that appends tracks nobody else holds: new ones, or
\* the one t had on its way.  If t starts its track the queue was empty.
LEMMA GrowOwn ==
    ASSUME Own, chat.queue \in Seq(Entries), NEW t \in Threads,
           NEW batch \in Seq(Entries), batch # <<>>, IsInjective(batch),
           chat'.queue = chat.queue \o batch, used' = used \cup ToSet(batch),
           \A u \in Threads \ {t} : pc'[u] = pc[u] /\ song'[u] = song[u],
           \A e \in ToSet(batch) : e \notin used \/ (OnItsWay(t) /\ e = song[t]),
           ~ OnItsWay(t)', pc'[t] = "idle" => song'[t] = None,
           pc'[t] \in Starting => chat.queue = <<>> /\ Head(batch) = song'[t]
    PROVE  Own'
<1> DEFINE q == chat.queue
           r == chat'.queue
<1>1. ToSet(q) \cap ToSet(batch) = {}
  BY DEF Own, OwnersDistinct
<1>2. /\ IsInjective(r) /\ ToSet(r) = ToSet(q) \cup ToSet(batch)
      /\ Head(r) = IF q = <<>> THEN Head(batch) ELSE Head(q)
  BY <1>1, AppendGrows DEF Own, OwnersDistinct
<1>3. ToSet(q) \subseteq used /\ Head(batch) \in ToSet(batch) /\ (q = <<>> => ToSet(q) = {})
  <2>1. Head(batch) = batch[1] /\ 1 \in DOMAIN batch
    BY HeadTailProperties, LenProperties, EmptySeq
  <2> QED BY <2>1 DEF Own, OwnersDistinct, ToSet
<1> HIDE DEF q, r
<1>4. ASSUME NEW u \in Threads, u # t, OnItsWay(u) \/ pc[u] \in Starting
      PROVE  song[u] \in used /\ song[u] \notin ToSet(batch)
  BY <1>4 DEF Own, OwnersDistinct
<1>5. \A u \in Threads : OnItsWay(u)' => u # t /\ OnItsWay(u) /\ song'[u] = song[u]
  BY DEF OnItsWay
<1>6. \A u \in Threads : OnItsWay(u)' => song'[u] \in used' \ ToSet(r)
  BY <1>2, <1>4, <1>5 DEF Own, OwnersDistinct, q
<1>7. ASSUME NEW u \in Threads, pc'[u] \in Starting
      PROVE  \/ u = t /\ q = <<>> /\ song'[u] = Head(batch)
             \/ u # t /\ pc[u] \in Starting /\ song'[u] = song[u]
  BY <1>7 DEF q
<1>8. \A u \in Threads : pc'[u] \in Starting => song'[u] \in used'
  BY <1>3, <1>4, <1>7
<1>9. ASSUME NEW u \in Threads, NEW v \in Threads, u # v, OnItsWay(u)',
             OnItsWay(v)' \/ pc'[v] \in Starting
      PROVE  song'[u] # song'[v]
  <2>1. u # t /\ OnItsWay(u) /\ song'[u] = song[u] /\ song[u] \notin ToSet(batch)
    BY <1>4, <1>5, <1>9
  <2>2. \/ (OnItsWay(v) \/ pc[v] \in Starting) /\ song'[v] = song[v]
        \/ song'[v] \in ToSet(batch)
    BY <1>3, <1>5, <1>7, <1>9
  <2> QED BY <1>9, <2>1, <2>2 DEF Own, OwnersDistinct
<1>10. OwnersDistinct'
  <2>1. IsInjective(r) /\ ToSet(r) \subseteq used'
    BY <1>2, <1>3
  <2> QED BY <1>6, <1>8, <1>9, <2>1 DEF OwnersDistinct, r
<1>11. StarterAtHead'
  <2> SUFFICES ASSUME NEW u \in Threads, pc'[u] \in Starting, song'[u] \in ToSet(r)
               PROVE  song'[u] = Head(r)
    BY DEF StarterAtHead, r
  <2>1. CASE u = t
    BY <1>2, <1>7, <2>1
  <2>2. CASE u # t
    <3>1. pc[u] \in Starting /\ song'[u] = song[u] /\ song[u] \in ToSet(q)
      BY <1>2, <1>4, <1>7, <2>2
    <3>2. song[u] = Head(q) /\ q # <<>>
      BY <1>3, <3>1 DEF Own, StarterAtHead, q
    <3> QED BY <1>2, <3>1, <3>2
  <2> QED BY <2>1, <2>2
<1>12. IdleHoldsNone'
  BY DEF Own, IdleHoldsNone
<1> QED BY <1>10, <1>11, <1>12 DEF Own
-----------------------------------------------------------------------------
Adds(t) == Add(t) \/ AddMany(t) \/ Enqueue(t)

\* Every other step of the program keeps the queue, clears it, drops its head
\* or takes out one track that waits.
LEMMA OthersTakeOut ==
    ASSUME IInv, NEW t \in Threads, Run(t) \/ Event(t) \/ StreamEnd(t), ~ Adds(t)
    PROVE  \/ chat'.queue = chat.queue
           \/ chat'.queue = <<>>
           \/ chat.queue # <<>> /\ chat'.queue = Tail(chat.queue)
           \/ \E i \in 2 .. Len(chat.queue) : chat'.queue = RemoveAt(chat.queue, i)
<1>1. chat.queue \in Seq(Entries) /\ chat \in ChatData
  BY QueueType DEF IInv, Sound
<1>2. CASE Undo(t) \/ Drop(t) \/ Finish(t)
  BY <1>1, <1>2 DEF Undo, Drop, Finish, RemoveCurrentSong, IsActive, ChatData
<1>3. CASE RemoveCommand(t)
  <2>1. PICK trackNum \in 1 .. Len(chat.queue) : chat' = RemoveTrack(chat, trackNum)
    BY <1>3 DEF RemoveCommand
  <2>2. CASE trackNum \in 0 .. Len(chat.queue) - 1
    <3>1. chat'.queue = RemoveAt(chat.queue, trackNum + 1)
      BY <1>1, <2>1, <2>2 DEF RemoveTrack, ChatData
    <3>2. trackNum + 1 \in 2 .. Len(chat.queue)
      BY <2>1, <2>2, <1>1, LenProperties
    <3> QED BY <3>1, <3>2
  <2>3. CASE trackNum \notin 0 .. Len(chat.queue) - 1
    BY <2>1, <2>3 DEF RemoveTrack
  <2> QED BY <2>2, <2>3
<1>4. CASE Reset(t) \/ Claim(t) \/ Mark(t) \/ MarkTitle(t)
  BY <1>1, <1>4
     DEF Reset, Claim, Mark, MarkTitle, ResetAutoplay, SetAutoplayRemaining, MarkPlayed,
         MarkTitlePlayed, ChatData
<1>5. CASE Start(t) \/ Stream(t) \/ Retune(t) \/ Stop(t) \/ ClearEvent(t)
  BY <1>5 DEF Start, Stream, Retune, Stop, ClearEvent, MediaStarts, MediaFails, ClearChat, EmptyChat
<1>6. CASE \/ PlayCommand(t) \/ Search(t) \/ SearchFails(t) \/ Fetch(t) \/ AddNone(t) \/ LoopFirst(t)
           \/ GetLoop(t) \/ SetLoop(t) \/ Replay(t) \/ Upcoming(t) \/ Current(t) \/ Budget(t)
           \/ Query(t) \/ QueryFails(t) \/ Announce(t) \/ Prepare(t) \/ HangUp(t) \/ StopCommand(t)
           \/ SkipCommand(t) \/ RetuneCommand(t) \/ LoopCommand(t) \/ StreamEnd(t)
  BY <1>6
     DEF PlayCommand, Search, SearchFails, Fetch, AddNone, LoopFirst, GetLoop, SetLoop, Replay, Upcoming,
         Current, Budget, Query, QueryFails, Announce, Prepare, HangUp, StopCommand, SkipCommand,
         RetuneCommand, LoopCommand, StreamEnd
<1> QED BY <1>2, <1>3, <1>4, <1>5, <1>6 DEF Adds, Run, Event

\* All four are ways to lose tracks.
LEMMA QueueShrinks ==
    ASSUME IInv, Own, NEW t \in Threads,
           Run(t) \/ Event(t) \/ StreamEnd(t), ~ Adds(t)
    PROVE  Shrinks(chat.queue, chat'.queue)
<1>1. chat.queue \in Seq(Entries) /\ IsInjective(chat.queue)
  BY QueueType DEF IInv, Sound, Own, OwnersDistinct
<1> QED BY <1>1, OthersTakeOut, SameShrinks, EmptyShrinks, TailShrinks, RemoveAtShrinks

\* A goroutine that goes to a step outside the ones that own a track, and
\* drops its track when it becomes free.
LEMMA HandsFree ==
    ASSUME ThreadsSound, NEW t \in Threads, NEW label, Goto(t, label), used \subseteq used',
           label \notin {"reset", "add", "claim", "enqueue"} \cup Starting,
           \/ UNCHANGED song /\ (label = "idle" => song[t] = None)
           \/ \E e : Capture(t, e) /\ label # "idle"
           \/ Capture(t, None)
    PROVE  Hands(t)
BY DEF Hands, ThreadsSound, Goto, Capture, OnItsWay

\* A goroutine that returns, and one that keeps its track on the way to the
\* queue or at the start of playback.
LEMMA HandsReturn ==
    ASSUME ThreadsSound, NEW t \in Threads, Return(t), used \subseteq used'
    PROVE  Hands(t)
BY HandsFree DEF Return, Starting

LEMMA HandsKept ==
    ASSUME ThreadsSound, NEW t \in Threads, NEW label, Goto(t, label), used \subseteq used',
           UNCHANGED song, label # "idle",
           label \in {"reset", "add", "claim", "enqueue"} => song[t] = None \/ OnItsWay(t),
           label \in Starting => pc[t] \in Starting
    PROVE  Hands(t)
BY DEF Hands, ThreadsSound, Goto, OnItsWay

\* Each step that adds nothing to the queue hands tracks on as it should.
LEMMA HandsStep ==
    ASSUME IInv, Own, NEW t \in Threads,
           Run(t) \/ Event(t) \/ StreamEnd(t), ~ Adds(t)
    PROVE  Hands(t)
<1>1. ThreadsSound /\ (pc[t] = "idle" => song[t] = None)
  BY DEF IInv, Own, IdleHoldsNone
<1>2. CASE PlayCommand(t)
  BY <1>1, <1>2, HandsFree, HandsKept DEF PlayCommand, Dispatch, At, tracks, locals, Starting
<1>3. CASE Search(t)
  <2>1. PICK e \in Fresh :
           /\ used' = used \cup {e}
           /\ \/ Return(t)
              \/ Goto(t, "reset") /\ Capture(t, e)
    BY <1>3 DEF Search
  <2>2. CASE Return(t)
    BY <1>1, <2>1, <2>2, HandsReturn
  <2>3. CASE Goto(t, "reset") /\ Capture(t, e)
    <3>1. song'[t] = e /\ pc'[t] = "reset" /\ e \in used' \ used
      BY <1>1, <2>1, <2>3 DEF Goto, Capture, ThreadsSound, Fresh
    <3>2. \A u \in Threads \ {t} : pc'[u] = pc[u] /\ song'[u] = song[u]
      BY <1>1, <2>3 DEF Goto, Capture, ThreadsSound
    <3> QED BY <2>1, <3>1, <3>2 DEF Hands, Starting
  <2> QED BY <2>1, <2>2, <2>3
<1>4. CASE Query(t)
  <2>1. PICK e \in Fresh : used' = used \cup {e} /\ Capture(t, e) /\ Goto(t, "claim")
    BY <1>4 DEF Query, Candidates
  <2>2. song'[t] = e /\ pc'[t] = "claim" /\ e \in used' \ used
    BY <1>1, <2>1 DEF Goto, Capture, ThreadsSound, Fresh
  <2>3. \A u \in Threads \ {t} : pc'[u] = pc[u] /\ song'[u] = song[u]
    BY <1>1, <2>1 DEF Goto, Capture, ThreadsSound
  <2> QED BY <2>1, <2>2, <2>3 DEF Hands, Starting
<1>5. CASE \/ SearchFails(t) \/ Undo(t) \/ AddNone(t) \/ MarkTitle(t) \/ HangUp(t) \/ Retune(t)
  BY <1>1, <1>5, HandsReturn DEF SearchFails, Undo, AddNone, MarkTitle, HangUp, Retune, tracks
<1>6. CASE Reset(t)
  <2>1. pc[t] = "reset" /\ UNCHANGED <<used, song>>
        /\ Goto(t, IF song[t] = None THEN "addMany" ELSE "add")
    BY <1>6 DEF Reset, At, tracks, locals
  <2>2. song[t] # None => OnItsWay(t)
    BY <2>1 DEF OnItsWay
  <2> QED BY <1>1, <2>1, <2>2, HandsFree, HandsKept DEF Starting
<1>7. CASE Fetch(t)
  <2>1. pc[t] = "fetch" /\ UNCHANGED <<used, song>> /\ (Goto(t, "start") \/ Goto(t, "undo"))
    BY <1>7 DEF Fetch, locals
  <2> QED BY <1>1, <2>1, HandsFree, HandsKept DEF Starting
<1>8. CASE Start(t) \/ Stream(t) \/ Announce(t) \/ Stop(t)
  <2>1. /\ UNCHANGED used
        /\ \/ Return(t)
           \/ UNCHANGED song /\ \E label \in {"undo", "mark", "prepare", "hangUp"} : Goto(t, label)
    BY <1>8 DEF Start, Stream, Announce, Stop, tracks, locals
  <2> QED BY <1>1, <2>1, HandsReturn, HandsFree DEF Starting
<1>9. CASE LoopFirst(t) \/ GetLoop(t) \/ SetLoop(t)
  <2>1. /\ UNCHANGED used /\ (UNCHANGED song \/ Capture(t, None))
        /\ \E label \in {"next", "setLoop", "upcoming", "replay"} : Goto(t, label)
    BY <1>9 DEF LoopFirst, GetLoop, SetLoop, At, tracks
  <2> QED BY <1>1, <2>1, HandsFree DEF Starting
<1>10. CASE Replay(t) \/ Upcoming(t) \/ Current(t) \/ Budget(t) \/ Prepare(t) \/ QueryFails(t)
  <2>1. /\ UNCHANGED used /\ (UNCHANGED song \/ \E e : Capture(t, e))
        /\ \E label \in {"announce", "upcoming", "drop", "current", "finish", "budget", "query",
                         "stream", "next"} : Goto(t, label)
    BY <1>10 DEF Replay, Upcoming, Current, Budget, Prepare, QueryFails, At, tracks
  <2> QED BY <1>1, <2>1, HandsFree DEF Starting
<1>11. CASE Drop(t) \/ Finish(t) \/ Mark(t) \/ StopCommand(t) \/ SkipCommand(t) \/ StreamEnd(t)
  <2>1. /\ UNCHANGED <<used, song>>
        /\ \E label \in {"announce", "stop", "markTitle", "next"} : Goto(t, label)
    BY <1>11 DEF Drop, Finish, Mark, StopCommand, SkipCommand, StreamEnd, Dispatch, At, tracks, locals
  <2> QED BY <1>1, <2>1, HandsFree DEF Starting
<1>12. CASE Claim(t)
  <2>1. pc[t] = "claim" /\ UNCHANGED <<used, song>> /\ Goto(t, "enqueue")
    BY <1>12 DEF Claim, At, tracks
  <2>2. song[t] = None \/ OnItsWay(t)
    BY <2>1 DEF OnItsWay
  <2> QED BY <1>1, <2>1, <2>2, HandsKept DEF Starting
<1>13. CASE RetuneCommand(t)
  <2>1. UNCHANGED used /\ Goto(t, "retune") /\ Capture(t, GetPlayingTrack(chat))
    BY <1>13 DEF RetuneCommand, Dispatch, At, tracks
  <2> QED BY <1>1, <2>1, HandsFree DEF Starting
<1>14. CASE LoopCommand(t) \/ RemoveCommand(t) \/ ClearEvent(t)
  <2>1. pc[t] = "idle" /\ Goto(t, "idle") /\ UNCHANGED <<used, song>>
    BY <1>14 DEF LoopCommand, RemoveCommand, ClearEvent, Dispatch, At, tracks, locals
  <2> QED BY <1>1, <2>1, HandsFree DEF Starting
<1> QED
  BY <1>2, <1>3, <1>4, <1>5, <1>6, <1>7, <1>8, <1>9, <1>10, <1>11, <1>12, <1>13, <1>14
     DEF Adds, Run, Event

\* The steps that do add: the one track on its way, or a batch of new ones.
LEMMA AddsStep ==
    ASSUME IInv, Own, NEW t \in Threads, Adds(t)
    PROVE  Own'
<1>1. /\ chat.queue \in Seq(Entries) /\ chat \in ChatData /\ ThreadsSound
      /\ Sound(chat)
  BY QueueType DEF IInv, Sound
<1>2. CASE Add(t) \/ Enqueue(t)
  <2> DEFINE batch == <<song[t]>>
  <2>1. /\ OnItsWay(t) /\ song[t] \in Entries /\ UNCHANGED used
        /\ chat' = AddSongs(chat, batch)
    BY <1>1, <1>2, PlayerAssumption
       DEF Add, Enqueue, At, OnItsWay, ThreadsSound, LocalsSound, HoldsTrack, tracks
  <2>2. /\ batch \in Seq(Entries) /\ batch # <<>> /\ IsInjective(batch)
        /\ ToSet(batch) = {song[t]} /\ Head(batch) = song[t] /\ Len(batch) = 1
    BY <2>1 DEF IsInjective, ToSet
  <2>3. chat'.queue = chat.queue \o batch
    BY <1>1, <2>1 DEF AddSongs, ChatData
  <2>4. song[t] \in used
    BY <2>1 DEF Own, OwnersDistinct
  <2>5. /\ \A u \in Threads \ {t} : pc'[u] = pc[u] /\ song'[u] = song[u]
        /\ \/ pc'[t] = "idle" /\ song'[t] = None
           \/ pc'[t] = "autoNext"
           \/ pc'[t] = "fetch" /\ song'[t] = song[t] /\ ~ (Len(chat'.queue) > 1)
    BY <1>1, <1>2 DEF Add, Enqueue, At, Return, Goto, Capture, ThreadsSound, locals
  <2>6. ~ (Len(chat'.queue) > 1) => chat.queue = <<>>
    <3>1. Len(chat'.queue) = Len(chat.queue) + 1 /\ Len(chat.queue) \in Nat
      BY <1>1, <2>2, <2>3, ConcatProperties, LenProperties
    <3> QED BY <1>1, <3>1, EmptySeq
  <2>7. used' = used \cup ToSet(batch)
    BY <2>1, <2>2, <2>4
  <2> HIDE DEF batch
  <2>8. \A e \in ToSet(batch) : OnItsWay(t) /\ e = song[t]
    BY <2>1, <2>2
  <2>9. ~ OnItsWay(t)' /\ (pc'[t] = "idle" => song'[t] = None)
    BY <2>5 DEF OnItsWay
  <2>10. pc'[t] \in Starting => chat.queue = <<>> /\ Head(batch) = song'[t]
    BY <2>2, <2>5, <2>6 DEF Starting
  <2> QED BY <1>1, <2>2, <2>3, <2>5, <2>7, <2>8, <2>9, <2>10, GrowOwn
<1>3. CASE AddMany(t)
  <2>1. PICK batch \in Batches :
           /\ chat' = AddSongs(chat, batch)
           /\ used' = used \cup ToSet(batch)
           /\ \/ Return(t)
              \/ Goto(t, "loopFirst") /\ Capture(t, Head(batch))
    BY <1>3 DEF AddMany
  <2>2. batch \in Seq(Entries) /\ batch # <<>> /\ IsInjective(batch)
    BY BatchType DEF Batches, IInv
  <2>3. \A e \in ToSet(batch) : e \notin used
    <3>1. PICK m \in 0 .. BatchMax : batch \in [1 .. m -> Fresh]
      BY PlayerAssumption DEF Batches, BoundedSeq, SeqOf
    <3> QED BY <3>1 DEF ToSet, Fresh
  <2>4. chat'.queue = chat.queue \o batch
    BY <1>1, <2>1 DEF AddSongs, ChatData
  <2>5. /\ \A u \in Threads \ {t} : pc'[u] = pc[u] /\ song'[u] = song[u]
        /\ \/ pc'[t] = "idle" /\ song'[t] = None
           \/ pc'[t] = "loopFirst"
    BY <1>1, <2>1 DEF Return, Goto, Capture, ThreadsSound
  <2>6. /\ ~ OnItsWay(t)' /\ pc'[t] \notin Starting
        /\ pc'[t] = "idle" => song'[t] = None
    BY <2>5 DEF OnItsWay, Starting
  <2> QED BY <1>1, <2>1, <2>2, <2>3, <2>4, <2>5, <2>6, GrowOwn
<1> QED BY <1>2, <1>3 DEF Adds

\* At first nobody owns anything, and every step keeps the ownership.
LEMMA OwnInit == Init => Own
BY DEF Init, Own, OwnersDistinct, StarterAtHead, IdleHoldsNone, EmptyChat, IsInjective, ToSet,
       OnItsWay, Starting

LEMMA OwnStep == IInv /\ Own /\ [Next]_vars => Own'
<1> SUFFICES ASSUME IInv, Own, [Next]_vars PROVE Own'
  OBVIOUS
<1>1. CASE Next
  <2>1. PICK t \in Threads : Run(t) \/ Event(t) \/ StreamEnd(t)
    BY <1>1 DEF Next
  <2>2. CASE Adds(t)
    BY <2>2, AddsStep
  <2>3. CASE ~ Adds(t)
    BY <2>1, <2>3, QueueShrinks, HandsStep, ShrinkOwn
  <2> QED BY <2>2, <2>3
<1>2. CASE UNCHANGED vars
  BY <1>2 DEF vars, Own, OwnersDistinct, StarterAtHead, IdleHoldsNone, OnItsWay
<1> QED BY <1>1, <1>2

\* The tracks in the queue are distinct objects; a track on its way to the
\* queue is in no queue and in one goroutine's hands only.
THEOREM OwnersCorrect == Spec => []OwnersDistinct
<1>1. Spec => []Own
  BY OwnInit, OwnStep, Invariance, PTL DEF Spec
<1>2. Own => OwnersDistinct
  BY DEF Own
<1> QED BY <1>1, <1>2, PTL

\* handlePlay may start the track it added to an empty queue without looking
\* again: for as long as the track is queued it is the head, so two handlers
\* never start two queued tracks.
THEOREM StarterCorrect == Spec => []StarterAtHead
<1>1. Spec => []Own
  BY OwnInit, OwnStep, Invariance, PTL DEF Spec
<1>2. Own => StarterAtHead
  BY DEF Own
<1> QED BY <1>1, <1>2, PTL
-----------------------------------------------------------------------------
(* First come, first served *)

\* What FirstComeFirstServed says of the queue before and after a step.
InOrder(q, r) ==
    \A i, j \in DOMAIN r : i < j =>
       \A k \in DOMAIN q : q[k] = r[j] => \E h \in 1 .. k - 1 : q[h] = r[i]

\* The new queue is in order if each of its places has an old one, and the
\* old ones rise.
LEMMA RisingInOrder ==
    ASSUME NEW q \in Seq(Entries), IsInjective(q), NEW r \in Seq(Entries), NEW old,
           \A j \in DOMAIN r : old[j] \in DOMAIN q /\ r[j] = q[old[j]],
           \A i, j \in DOMAIN r : i < j => old[i] < old[j]
    PROVE  InOrder(q, r)
<1> SUFFICES ASSUME NEW i \in DOMAIN r, NEW j \in DOMAIN r, i < j,
                    NEW k \in DOMAIN q, q[k] = r[j]
             PROVE  \E h \in 1 .. k - 1 : q[h] = r[i]
  BY DEF InOrder
<1>1. old[j] = k
  BY DEF IsInjective
<1>2. DOMAIN q = 1 .. Len(q) /\ Len(q) \in Nat
  BY LenProperties
<1>3. old[i] \in 1 .. k - 1 /\ q[old[i]] = r[i]
  BY <1>1, <1>2
<1> QED BY <1>3

\* A queue that is kept.
LEMMA SameInOrder ==
    ASSUME NEW q \in Seq(Entries), IsInjective(q)
    PROVE  InOrder(q, q)
<1> DEFINE old == [j \in DOMAIN q |-> j]
<1>1. /\ \A j \in DOMAIN q : old[j] \in DOMAIN q /\ q[j] = q[old[j]]
      /\ \A i, j \in DOMAIN q : i < j => old[i] < old[j]
  OBVIOUS
<1> HIDE DEF old
<1> QED BY <1>1, RisingInOrder

\* No track is left to be out of order.
LEMMA EmptyInOrder == \A q : InOrder(q, <<>>)
BY DEF InOrder

\* A queue whose head is dropped.
LEMMA TailInOrder ==
    ASSUME NEW q \in Seq(Entries), q # <<>>, IsInjective(q)
    PROVE  InOrder(q, Tail(q))
<1> DEFINE old == [j \in 1 .. Len(q) - 1 |-> j + 1]
<1>1. /\ Tail(q) \in Seq(Entries) /\ DOMAIN Tail(q) = 1 .. Len(q) - 1 /\ DOMAIN q = 1 .. Len(q)
      /\ \A j \in 1 .. Len(q) - 1 : Tail(q)[j] = q[j + 1]
      /\ Len(q) \in Nat \ {0}
  BY HeadTailProperties, LenProperties, EmptySeq
<1>2. /\ \A j \in 1 .. Len(q) - 1 : old[j] \in 1 .. Len(q) /\ Tail(q)[j] = q[old[j]]
      /\ \A i, j \in 1 .. Len(q) - 1 : i < j => old[i] < old[j]
  BY <1>1
<1> HIDE DEF old
<1> QED BY <1>1, <1>2, RisingInOrder

\* A queue that loses a track that waits behind the head.
LEMMA RemoveAtInOrder ==
    ASSUME NEW q \in Seq(Entries), IsInjective(q), NEW n \in 2 .. Len(q)
    PROVE  InOrder(q, RemoveAt(q, n))
<1> DEFINE r == RemoveAt(q, n)
           old == [j \in 1 .. Len(q) - 1 |-> IF j < n THEN j ELSE j + 1]
<1>0. n \in 1 .. Len(q)
  BY LenProperties
<1>1. /\ r \in Seq(Entries) /\ Len(r) = Len(q) - 1
      /\ \A k \in 1 .. Len(q) - 1 : r[k] = IF k < n THEN q[k] ELSE q[k + 1]
  BY <1>0, RemoveAtSound
<1> HIDE DEF r
<1>2. DOMAIN r = 1 .. Len(q) - 1 /\ DOMAIN q = 1 .. Len(q) /\ Len(q) \in Nat
  BY <1>1, LenProperties
<1>3. /\ \A j \in 1 .. Len(q) - 1 : old[j] \in 1 .. Len(q) /\ r[j] = q[old[j]]
      /\ \A i, j \in 1 .. Len(q) - 1 : i < j => old[i] < old[j]
  BY <1>1, <1>2
<1> HIDE DEF old
<1> QED BY <1>1, <1>2, <1>3, RisingInOrder DEF r

\* Tracks that are not queued yet go behind the ones that are.
LEMMA AppendInOrder ==
    ASSUME NEW q \in Seq(Entries), NEW b \in Seq(Entries), IsInjective(q),
           ToSet(q) \cap ToSet(b) = {}
    PROVE  InOrder(q, q \o b)
<1> DEFINE r == q \o b
<1>1. /\ r \in Seq(Entries) /\ Len(r) = Len(q) + Len(b)
      /\ \A k \in 1 .. Len(q) + Len(b) : r[k] = IF k <= Len(q) THEN q[k] ELSE b[k - Len(q)]
  BY ConcatProperties
<1> HIDE DEF r
<1>2. /\ DOMAIN r = 1 .. Len(q) + Len(b) /\ DOMAIN q = 1 .. Len(q) /\ DOMAIN b = 1 .. Len(b)
      /\ Len(q) \in Nat /\ Len(b) \in Nat
  BY <1>1, LenProperties
<1> SUFFICES ASSUME NEW i \in DOMAIN r, NEW j \in DOMAIN r, i < j,
                    NEW k \in DOMAIN q, q[k] = r[j]
             PROVE  \E h \in 1 .. k - 1 : q[h] = r[i]
  BY DEF InOrder, r
<1>3. j <= Len(q)
  <2> SUFFICES ASSUME ~ (j <= Len(q)) PROVE FALSE
    OBVIOUS
  <2>1. j - Len(q) \in 1 .. Len(b)
    BY <1>2
  <2>2. r[j] = b[j - Len(q)] /\ r[j] \in ToSet(b)
    BY <1>1, <1>2, <2>1 DEF ToSet
  <2>3. q[k] \in ToSet(q)
    BY DEF ToSet
  <2> QED BY <2>2, <2>3
<1>4. j \in DOMAIN q /\ r[j] = q[j] /\ i \in DOMAIN q /\ r[i] = q[i]
  BY <1>1, <1>2, <1>3
<1>5. k = j
  BY <1>4 DEF IsInjective
<1>6. i \in 1 .. k - 1
  BY <1>2, <1>4, <1>5
<1> QED BY <1>4, <1>6
-----------------------------------------------------------------------------
\* The steps that add, add behind.
LEMMA AddsInOrder ==
    ASSUME IInv, Own, NEW t \in Threads, Adds(t)
    PROVE  InOrder(chat.queue, chat'.queue)
<1>1. chat.queue \in Seq(Entries) /\ chat \in ChatData /\ ThreadsSound
  BY QueueType DEF IInv, Sound
<1>2. IsInjective(chat.queue) /\ ToSet(chat.queue) \subseteq used
  BY DEF Own, OwnersDistinct
<1>3. CASE Add(t) \/ Enqueue(t)
  <2>1. OnItsWay(t) /\ song[t] \in Entries /\ chat' = AddSongs(chat, <<song[t]>>)
    BY <1>1, <1>3, PlayerAssumption
       DEF Add, Enqueue, At, OnItsWay, ThreadsSound, LocalsSound, HoldsTrack
  <2>2. <<song[t]>> \in Seq(Entries) /\ ToSet(<<song[t]>>) = {song[t]}
    BY <2>1 DEF ToSet
  <2>3. song[t] \notin ToSet(chat.queue)
    BY <2>1 DEF Own, OwnersDistinct
  <2>4. chat'.queue = chat.queue \o <<song[t]>>
    BY <1>1, <2>1 DEF AddSongs, ChatData
  <2> QED BY <1>1, <1>2, <2>2, <2>3, <2>4, AppendInOrder
<1>4. CASE AddMany(t)
  <2>1. PICK batch \in Batches : chat' = AddSongs(chat, batch)
    BY <1>4 DEF AddMany
  <2>2. batch \in Seq(Entries)
    BY BatchType DEF IInv
  <2>3. \A e \in ToSet(batch) : e \notin used
    <3>1. PICK m \in 0 .. BatchMax : batch \in [1 .. m -> Fresh]
      BY PlayerAssumption DEF Batches, BoundedSeq, SeqOf
    <3> QED BY <3>1 DEF ToSet, Fresh
  <2>4. chat'.queue = chat.queue \o batch
    BY <1>1, <2>1 DEF AddSongs, ChatData
  <2> QED BY <1>1, <1>2, <2>2, <2>3, <2>4, AppendInOrder
<1> QED BY <1>3, <1>4 DEF Adds

\* The others take out, and leave the rest where it is.
LEMMA OthersInOrder ==
    ASSUME IInv, Own, NEW t \in Threads,
           Run(t) \/ Event(t) \/ StreamEnd(t), ~ Adds(t)
    PROVE  InOrder(chat.queue, chat'.queue)
<1>1. chat.queue \in Seq(Entries) /\ IsInjective(chat.queue)
  BY QueueType DEF IInv, Sound, Own, OwnersDistinct
<1> QED BY <1>1, OthersTakeOut, SameInOrder, EmptyInOrder, TailInOrder, RemoveAtInOrder

\* For any number of goroutines and whatever fails, the queue is served in
\* the order in which AddSong accepted the tracks.
THEOREM ServedInTurn == Spec => FirstComeFirstServed
<1>1. Spec => [](IInv /\ Own)
  BY OwnInit, OwnStep, Invariance, PTL DEF Spec
<1>2. IInv /\ Own /\ [Next]_vars => [InOrder(chat.queue, chat'.queue)]_vars
  <2> SUFFICES ASSUME IInv, Own, Next PROVE InOrder(chat.queue, chat'.queue)
    OBVIOUS
  <2>1. PICK t \in Threads : Run(t) \/ Event(t) \/ StreamEnd(t)
    BY DEF Next
  <2> QED BY <2>1, AddsInOrder, OthersInOrder
<1> QED BY <1>1, <1>2, PTL DEF Spec, FirstComeFirstServed, InOrder
-----------------------------------------------------------------------------
(* The limit *)

Places == {"search", "reset", "add", "addMany", "current", "budget", "query", "claim", "enqueue"}

\* Less goroutines on their way need less room.
LEMMA Room ==
    ASSUME NEW m \in Nat, NEW n \in Nat, m <= n
    PROVE  m * BatchMax <= n * BatchMax /\ m * BatchMax \in Nat
<1>1. BatchMax \in Nat /\ n - m \in Nat
  BY PlayerAssumption
<1>2. (n - m) * BatchMax >= 0 /\ (n - m) * BatchMax = n * BatchMax - m * BatchMax
  BY <1>1
<1> QED BY <1>1, <1>2

\* The goroutines on their way are finitely many, and no more than there are.
LEMMA Ways ==
    ASSUME NEW S, S \subseteq Threads
    PROVE  /\ IsFiniteSet(S) /\ Cardinality(S) \in Nat
           /\ Cardinality(S) <= Cardinality(Threads)
BY PlayerAssumption, FS_Subset, FS_CardinalityType

\* A step that adds nothing, of a goroutine that was on its way already or is
\* not on its way now.
LEMMA ShrinkBounded ==
    ASSUME QueueBounded, chat.queue \in Seq(Entries), chat'.queue \in Seq(Entries),
           Len(chat'.queue) <= Len(chat.queue), OnItsWayToAdd' \subseteq OnItsWayToAdd
    PROVE  QueueBounded'
<1>1. OnItsWayToAdd \subseteq Threads
  BY DEF OnItsWayToAdd
<1>2. /\ Cardinality(OnItsWayToAdd) \in Nat /\ Cardinality(OnItsWayToAdd') \in Nat
      /\ Cardinality(OnItsWayToAdd') <= Cardinality(OnItsWayToAdd)
      /\ Cardinality(Threads) \in Nat
  BY <1>1, Ways, FS_Subset, FS_CardinalityType, PlayerAssumption
<1>3. /\ Cardinality(OnItsWayToAdd') * BatchMax <= Cardinality(OnItsWayToAdd) * BatchMax
      /\ Cardinality(OnItsWayToAdd) * BatchMax \in Nat
      /\ Cardinality(OnItsWayToAdd') * BatchMax \in Nat
      /\ Cardinality(Threads) * BatchMax \in Nat
  BY <1>2, Room
<1>4. Len(chat.queue) \in Nat /\ Len(chat'.queue) \in Nat
  BY LenProperties
<1>5. QueueMax \in Nat
  BY PlayerAssumption
<1> DEFINE cw == Cardinality(OnItsWayToAdd) * BatchMax
           cv == Cardinality(OnItsWayToAdd') * BatchMax
           ct == Cardinality(Threads) * BatchMax
<1>6. Len(chat.queue) + cw <= QueueMax + ct
  BY DEF QueueBounded
<1>7. cv <= cw /\ cv \in Nat /\ cw \in Nat /\ ct \in Nat
  BY <1>3
<1> HIDE DEF cw, cv, ct
<1>8. Len(chat'.queue) + cv <= QueueMax + ct
  BY <1>4, <1>5, <1>6, <1>7
<1> QED BY <1>8 DEF QueueBounded, cv, ct

\* A goroutine that sets out while the queue is within the limit.
LEMMA SetOutBounded ==
    ASSUME chat'.queue \in Seq(Entries), Len(chat'.queue) <= QueueMax
    PROVE  QueueBounded'
<1>1. OnItsWayToAdd' \subseteq Threads
  BY DEF OnItsWayToAdd
<1>2. /\ Cardinality(OnItsWayToAdd') \in Nat /\ Cardinality(Threads) \in Nat
      /\ Cardinality(OnItsWayToAdd') <= Cardinality(Threads)
  BY <1>1, Ways
<1> DEFINE cv == Cardinality(OnItsWayToAdd') * BatchMax
           ct == Cardinality(Threads) * BatchMax
<1>3. cv <= ct /\ cv \in Nat /\ ct \in Nat
  BY <1>2, Room
<1>4. Len(chat'.queue) \in Nat /\ QueueMax \in Nat
  BY LenProperties, PlayerAssumption
<1> HIDE DEF cv, ct
<1>5. Len(chat'.queue) + cv <= QueueMax + ct
  BY <1>3, <1>4
<1> QED BY <1>5 DEF QueueBounded, cv, ct

\* A goroutine that arrives and adds at most one batch gives up its room.
LEMMA ArriveBounded ==
    ASSUME QueueBounded, chat.queue \in Seq(Entries), NEW t \in OnItsWayToAdd,
           NEW n \in 0 .. BatchMax, Len(chat'.queue) = Len(chat.queue) + n,
           OnItsWayToAdd' = OnItsWayToAdd \ {t}
    PROVE  QueueBounded'
<1>1. OnItsWayToAdd \subseteq Threads
  BY DEF OnItsWayToAdd
<1>2. /\ Cardinality(OnItsWayToAdd') = Cardinality(OnItsWayToAdd) - 1
      /\ Cardinality(OnItsWayToAdd) \in Nat /\ Cardinality(OnItsWayToAdd') \in Nat
      /\ Cardinality(Threads) \in Nat
  BY <1>1, Ways, FS_RemoveElement
<1> DEFINE cw == Cardinality(OnItsWayToAdd) * BatchMax
           cv == Cardinality(OnItsWayToAdd') * BatchMax
           ct == Cardinality(Threads) * BatchMax
<1>3. cv = cw - BatchMax /\ cv \in Nat /\ cw \in Nat /\ ct \in Nat
  <2>1. BatchMax \in Nat
    BY PlayerAssumption
  <2>2. cv \in Nat /\ cw \in Nat /\ ct \in Nat
    BY <1>2, Room
  <2>3. (Cardinality(OnItsWayToAdd) - 1) * BatchMax = cw - BatchMax
    BY <1>2, <2>1
  <2> QED BY <1>2, <2>2, <2>3
<1>4. Len(chat.queue) \in Nat /\ QueueMax \in Nat /\ BatchMax \in Nat
  BY LenProperties, PlayerAssumption
<1>5. Len(chat.queue) + cw <= QueueMax + ct
  BY DEF QueueBounded
<1> HIDE DEF cw, cv, ct
<1>6. Len(chat'.queue) + cv <= QueueMax + ct
  BY <1>3, <1>4, <1>5
<1> QED BY <1>6 DEF QueueBounded, cv, ct
-----------------------------------------------------------------------------
\* The two checks that let a goroutine set out.
SetsOut(t) == PlayCommand(t) \/ (Upcoming(t) /\ pc[t] = "upcoming" /\ ~ HasUpcomingTrack(chat))

\* A goroutine is on its way only if it was before, or has just set out.
LEMMA WayStep ==
    ASSUME IInv, NEW t \in Threads, Run(t) \/ Event(t) \/ StreamEnd(t), ~ SetsOut(t)
    PROVE  OnItsWayToAdd' \subseteq OnItsWayToAdd
<1>1. ThreadsSound
  BY DEF IInv
<1>2. ASSUME NEW label, Goto(t, label), label \in Places => pc[t] \in Places
      PROVE  OnItsWayToAdd' \subseteq OnItsWayToAdd
  BY <1>1, <1>2 DEF Goto, OnItsWayToAdd, Places, ThreadsSound
<1>3. CASE \E label : Goto(t, label) /\ label \notin Places
  BY <1>2, <1>3
<1>4. CASE \/ SearchFails(t) \/ Add(t) \/ Fetch(t) \/ Start(t) \/ Undo(t) \/ AddMany(t) \/ AddNone(t)
           \/ LoopFirst(t) \/ GetLoop(t) \/ SetLoop(t) \/ Replay(t) \/ Drop(t) \/ Finish(t)
           \/ QueryFails(t) \/ Enqueue(t) \/ Announce(t) \/ Prepare(t) \/ Stream(t) \/ Mark(t)
           \/ MarkTitle(t) \/ Stop(t) \/ HangUp(t) \/ Retune(t)
  <2>1. \E label \in {"idle", "fetch", "start", "undo", "loopFirst", "next", "setLoop", "upcoming",
                      "replay", "announce", "stop", "finish", "autoNext", "prepare", "stream",
                      "mark", "markTitle", "hangUp"} : Goto(t, label)
    BY <1>4 DEF SearchFails, Add, Fetch, Start, Undo, AddMany, AddNone, LoopFirst, GetLoop, SetLoop,
         Replay, Drop, Finish, QueryFails, Enqueue, Announce, Prepare, Stream, Mark, MarkTitle,
         Stop, HangUp, Retune, At, Return
  <2> QED BY <1>3, <2>1 DEF Places
<1>5. CASE \/ StopCommand(t) \/ SkipCommand(t) \/ RetuneCommand(t) \/ LoopCommand(t)
           \/ RemoveCommand(t) \/ ClearEvent(t) \/ StreamEnd(t)
  <2>1. \E label \in {"idle", "stop", "next", "retune"} : Goto(t, label)
    BY <1>5 DEF StopCommand, SkipCommand, RetuneCommand, LoopCommand, RemoveCommand, ClearEvent,
         StreamEnd, Dispatch, At
  <2> QED BY <1>3, <2>1 DEF Places
<1>6. CASE Upcoming(t)
  <2>1. \E label \in {"drop", "finish"} : Goto(t, label)
    BY <1>6 DEF Upcoming, SetsOut
  <2> QED BY <1>3, <2>1 DEF Places
<1>7. CASE Search(t) \/ Reset(t) \/ Current(t) \/ Budget(t) \/ Query(t) \/ Claim(t)
  <2>1. /\ pc[t] \in Places
        /\ \E label : Goto(t, label)
    BY <1>7 DEF Search, Reset, Current, Budget, Query, Claim, Return, At, Places
  <2> QED BY <1>2, <2>1
<1>8. CASE PlayCommand(t)
  BY <1>8 DEF SetsOut
<1> QED BY <1>4, <1>5, <1>6, <1>7, <1>8 DEF Run, Event

\* A goroutine that adds was on its way, and adds no more than a batch.
LEMMA ArriveStep ==
    ASSUME IInv, NEW t \in Threads, Adds(t)
    PROVE  /\ t \in OnItsWayToAdd /\ OnItsWayToAdd' = OnItsWayToAdd \ {t}
           /\ \E n \in 0 .. BatchMax : Len(chat'.queue) = Len(chat.queue) + n
<1>1. chat \in ChatData /\ chat.queue \in Seq(Entries) /\ ThreadsSound
  BY QueueType DEF IInv, Sound
<1>2. /\ pc[t] \in {"add", "addMany", "enqueue"}
      /\ \E label \in {"idle", "fetch", "loopFirst", "autoNext"} : Goto(t, label)
  BY DEF Adds, Add, AddMany, Enqueue, At, Return
<1>3. t \in OnItsWayToAdd /\ OnItsWayToAdd' = OnItsWayToAdd \ {t}
  BY <1>1, <1>2 DEF OnItsWayToAdd, Goto, ThreadsSound
<1>4. CASE Add(t) \/ Enqueue(t)
  <2>1. song[t] \in Entries /\ chat' = AddSongs(chat, <<song[t]>>)
    BY <1>1, <1>4 DEF Add, Enqueue, At, ThreadsSound, LocalsSound, HoldsTrack
  <2>2. Len(chat'.queue) = Len(chat.queue) + 1
    BY <1>1, <2>1 DEF AddSongs, ChatData
  <2>3. 1 \in 0 .. BatchMax
    BY PlayerAssumption
  <2> QED BY <1>3, <2>2, <2>3
<1>5. CASE AddMany(t)
  <2>1. PICK batch \in Batches : chat' = AddSongs(chat, batch)
    BY <1>5 DEF AddMany
  <2>2. PICK m \in 0 .. BatchMax : batch \in [1 .. m -> Fresh]
    BY PlayerAssumption DEF Batches, BoundedSeq, SeqOf
  <2>3. batch \in Seq(Entries) /\ m \in Nat
    BY <2>1, BatchType, PlayerAssumption DEF IInv
  <2>4. Len(batch) = m
    BY <2>2, <2>3, LenProperties
  <2>5. Len(chat'.queue) = Len(chat.queue) + m
    <3>1. chat'.queue = chat.queue \o batch
      BY <1>1, <2>1 DEF AddSongs, ChatData
    <3> QED BY <1>1, <2>3, <2>4, <3>1, ConcatProperties
  <2> QED BY <1>3, <2>5
<1> QED BY <1>4, <1>5 DEF Adds

\* The limit of handlePlay can be outgrown, but by no more than one batch for
\* each goroutine that is on its way, however many run.
THEOREM QueueLimit == Spec => []QueueBounded
<1>1. Init => QueueBounded
  <2> SUFFICES ASSUME Init PROVE QueueBounded
    OBVIOUS
  <2>1. OnItsWayToAdd = {} /\ chat.queue = <<>>
    BY DEF Init, OnItsWayToAdd, EmptyChat
  <2>2. Cardinality(OnItsWayToAdd) = 0 /\ Len(chat.queue) = 0
    BY <2>1, FS_EmptySet
  <2>3. Cardinality(Threads) * BatchMax \in Nat /\ QueueMax \in Nat /\ BatchMax \in Nat
    BY Ways, Room, PlayerAssumption
  <2> QED BY <2>2, <2>3 DEF QueueBounded
<1>2. IInv /\ Own /\ IInv' /\ QueueBounded /\ [Next]_vars => QueueBounded'
  <2> SUFFICES ASSUME IInv, Own, IInv', QueueBounded, [Next]_vars PROVE QueueBounded'
    OBVIOUS
  <2>1. chat.queue \in Seq(Entries) /\ chat'.queue \in Seq(Entries)
    BY ChatParts DEF IInv, Sound
  <2>2. CASE Next
    <3>1. PICK t \in Threads : Run(t) \/ Event(t) \/ StreamEnd(t)
      BY <2>2 DEF Next
    <3>2. CASE Adds(t)
      BY <2>1, <3>2, ArriveStep, ArriveBounded
    <3>3. CASE SetsOut(t)
      <4>1. chat' = chat /\ Len(chat.queue) <= QueueMax
        BY <2>1, <3>3, LenProperties, PlayerAssumption
           DEF SetsOut, PlayCommand, Upcoming, HasUpcomingTrack
      <4> QED BY <2>1, <4>1, SetOutBounded
    <3>4. CASE ~ Adds(t) /\ ~ SetsOut(t)
      <4>1. Len(chat'.queue) <= Len(chat.queue)
        BY <3>1, <3>4, QueueShrinks DEF Shrinks
      <4> QED BY <2>1, <3>1, <3>4, <4>1, WayStep, ShrinkBounded
    <3> QED BY <3>2, <3>3, <3>4
  <2>3. CASE UNCHANGED vars
    BY <2>3 DEF vars, QueueBounded, OnItsWayToAdd
  <2> QED BY <2>2, <2>3
<1>3. Spec => []Own
  BY OwnInit, OwnStep, Invariance, PTL DEF Spec
<1> QED BY <1>1, <1>2, <1>3, Invariance, PTL DEF Spec
-----------------------------------------------------------------------------
(* While handlers do not overlap: one goroutine *)

\* The steps before the head of the queue was tried, or its loop was counted.
Untried == {"fetch", "loopFirst", "next", "setLoop", "replay", "announce", "prepare"}

\* The steps that hold the head, and those with no track waiting behind it.
HoldsHead == {"fetch", "start", "loopFirst", "announce", "prepare", "stream", "retune"}
NoneWaits == {"fetch", "start", "undo", "current", "budget", "query", "finish"}

\* What the only goroutine, at a step and holding s, knows of the queue q: its head was
\* tried, or is the track to be tried now, or one that is to be looped.
TurnAt(step, s, q) ==
    /\ step \notin Untried /\ q # <<>> => file[Head(q)] # "none"
    /\ step = "next" /\ q # <<>> => file[Head(q)] # "none" \/ loop[Head(q)] > 0
    /\ step \in HoldsHead => q # <<>> /\ s = Head(q)
    /\ step \in NoneWaits => Len(q) <= 1
    /\ step \in {"budget", "query", "claim", "enqueue"} => q # <<>>
    /\ step = "drop" => Len(q) >= 2 /\ s = q[2]
    /\ step = "hangUp" => q = <<>>

Turns == \A t \in Threads : TurnAt(pc[t], song[t], chat.queue)

\* The steps at which the head of the queue sounds, when the call is connected.
Sounding == {"idle", "search", "reset", "add", "addMany", "mark", "markTitle"}
HeadSounds ==
    \A t \in Threads : pc[t] \in Sounding /\ chat.queue # <<>> /\ ~Unheard => onAir = Head(chat.queue)

\* The queue after each method of the cache.
LEMMA QueueAfter ==
    ASSUME NEW data \in ChatData
    PROVE  /\ \A songs : AddSongs(data, songs).queue = data.queue \o songs
           /\ \A n : SetAutoplayRemaining(data, n).queue = data.queue
           /\ ResetAutoplay(data).queue = data.queue
           /\ \A x : MarkPlayed(data, x).queue = data.queue /\ MarkTitlePlayed(data, x).queue = data.queue
           /\ RemoveCurrentSong(data).queue =
                 IF data.queue = <<>> THEN <<>> ELSE Tail(data.queue)
           /\ \A i \in Nat : RemoveTrack(data, i).queue =
                 IF i \in 0 .. Len(data.queue) - 1 THEN RemoveAt(data.queue, i + 1) ELSE data.queue
           /\ ClearChat.queue = <<>>
<1>1. DOMAIN data = {"queue", "history", "titles", "left"}
  BY DEF ChatData
<1> QED BY <1>1 DEF AddSongs, ResetAutoplay, SetAutoplayRemaining, MarkPlayed, MarkTitlePlayed,
                    RemoveCurrentSong, RemoveTrack, ClearChat, EmptyChat, IsActive

\* The head of a queue that grew, lost its head or a track behind it.
LEMMA HeadAfter ==
    ASSUME NEW q \in Seq(Entries)
    PROVE  /\ q # <<>> => Head(q) \in Entries /\ Head(q) = q[1] /\ Len(q) >= 1
           /\ q = <<>> <=> Len(q) = 0
           /\ \A b \in Seq(Entries) : b # <<>> =>
                 /\ q \o b \in Seq(Entries) /\ q \o b # <<>> /\ Len(q \o b) = Len(q) + Len(b)
                 /\ Head(q \o b) = IF q = <<>> THEN Head(b) ELSE Head(q)
           /\ q # <<>> => Len(Tail(q)) = Len(q) - 1 /\ Tail(q) \in Seq(Entries)
           /\ Len(q) >= 2 => Tail(q) # <<>> /\ Head(Tail(q)) = q[2]
           /\ \A i \in 2 .. Len(q) :
                 RemoveAt(q, i) # <<>> /\ Head(RemoveAt(q, i)) = Head(q)
<1>1. ASSUME NEW b \in Seq(Entries), b # <<>>
      PROVE  /\ q \o b \in Seq(Entries) /\ q \o b # <<>> /\ Len(q \o b) = Len(q) + Len(b)
             /\ Head(q \o b) = IF q = <<>> THEN Head(b) ELSE Head(q)
  BY <1>1
<1>2. ASSUME NEW i \in 2 .. Len(q)
      PROVE  RemoveAt(q, i) # <<>> /\ Head(RemoveAt(q, i)) = Head(q)
  <2> DEFINE r == RemoveAt(q, i)
  <2>1. i \in 1 .. Len(q) /\ Len(q) \in Nat
    BY LenProperties
  <2>2. r \in Seq(Entries) /\ Len(r) = Len(q) - 1 /\ r[1] = q[1]
    <3>1. /\ r \in Seq(Entries) /\ Len(r) = Len(q) - 1
          /\ \A k \in 1 .. Len(q) - 1 : r[k] = IF k < i THEN q[k] ELSE q[k + 1]
      BY <2>1, RemoveAtSound
    <3> HIDE DEF r
    <3>2. 1 \in 1 .. Len(q) - 1 /\ 1 < i
      BY <1>2, <2>1
    <3> QED BY <3>1, <3>2
  <2> HIDE DEF r
  <2>3. Len(r) >= 1 /\ q # <<>>
    BY <1>2, <2>1, <2>2
  <2>4. r # <<>> /\ Head(r) = r[1] /\ Head(q) = q[1]
    BY <2>2, <2>3
  <2> QED BY <2>2, <2>4 DEF r
<1>3. /\ q # <<>> => Head(q) \in Entries /\ Head(q) = q[1] /\ Len(q) >= 1
      /\ q = <<>> <=> Len(q) = 0
      /\ q # <<>> => Len(Tail(q)) = Len(q) - 1 /\ Tail(q) \in Seq(Entries)
  OBVIOUS
<1>4. ASSUME Len(q) >= 2
      PROVE  Tail(q) # <<>> /\ Head(Tail(q)) = q[2]
  <2> DEFINE r == Tail(q)
  <2>1. r \in Seq(Entries) /\ Len(r) = Len(q) - 1 /\ Len(q) \in Nat /\ r[1] = q[2]
    BY <1>3, <1>4
  <2> HIDE DEF r
  <2>2. Len(r) >= 1
    BY <1>4, <2>1
  <2>3. r # <<>> /\ Head(r) = r[1]
    BY <2>1, <2>2
  <2> QED BY <2>1, <2>3 DEF r
<1> QED BY <1>1, <1>2, <1>3, <1>4

\* Where a goroutine is after a step and what it holds.
LEMMA Arrives ==
    ASSUME ThreadsSound, NEW t \in Threads
    PROVE  /\ \A label : Goto(t, label) => pc'[t] = label
           /\ \A label, next : At(t, label, next) => pc[t] = label /\ pc'[t] = next
           /\ \A c, label : Dispatch(t, c, label) => pc[t] = "idle" /\ pc'[t] = label
           /\ \A e : Capture(t, e) => song'[t] = e
           /\ Return(t) => pc'[t] = "idle"
           /\ UNCHANGED song => song'[t] = song[t]
BY DEF ThreadsSound, Goto, At, Dispatch, Capture, Return

\* Each step leaves the only goroutine where it knows as much of the queue.
LEMMA TurnStep ==
    ASSUME IInv, NEW t \in Threads, TurnAt(pc[t], song[t], chat.queue), "send" \notin Faults,
           Run(t) \/ Event(t) \/ StreamEnd(t)
    PROVE  TurnAt(pc[t], song[t], chat.queue)'
<1> DEFINE q == chat.queue
<1>1. /\ chat \in ChatData /\ q \in Seq(Entries) /\ ThreadsSound
      /\ loop \in [Entries -> 0 .. 10] /\ file \in [Entries -> {"none", "ready", "failed"}]
      /\ pc[t] \in HoldsTrack => song[t] \in Entries
      /\ pc[t] = "setLoop" => num[t] \in 1 .. 10
  BY ChatParts DEF IInv, Sound, TracksSound, ThreadsSound, LocalsSound
<1>q. /\ \A songs : AddSongs(chat, songs).queue = q \o songs
      /\ \A n : SetAutoplayRemaining(chat, n).queue = q
      /\ ResetAutoplay(chat).queue = q
      /\ \A x : MarkPlayed(chat, x).queue = q /\ MarkTitlePlayed(chat, x).queue = q
      /\ RemoveCurrentSong(chat).queue = IF q = <<>> THEN <<>> ELSE Tail(q)
      /\ \A i \in Nat : RemoveTrack(chat, i).queue =
            IF i \in 0 .. Len(q) - 1 THEN RemoveAt(q, i + 1) ELSE q
      /\ ClearChat.queue = <<>>
  BY <1>1, QueueAfter
<1>h. /\ q # <<>> => Head(q) \in Entries /\ Head(q) = q[1] /\ Len(q) >= 1
      /\ q # <<>> => Len(Tail(q)) = Len(q) - 1 /\ Tail(q) \in Seq(Entries)
      /\ Len(q) >= 2 => q # <<>> /\ Tail(q) # <<>> /\ Head(Tail(q)) = q[2]
      /\ Len(q) \in Nat
  BY <1>1, HeadAfter
<1>o. ASSUME NEW e \in Entries
      PROVE  /\ <<e>> \in Seq(Entries) /\ <<e>> # <<>> /\ Head(<<e>>) = e /\ Len(<<e>>) = 1
             /\ q \o <<e>> # <<>> /\ Len(q \o <<e>>) = Len(q) + 1
             /\ Head(q \o <<e>>) = IF q = <<>> THEN e ELSE Head(q)
  <2>1. <<e>> \in Seq(Entries) /\ <<e>> # <<>> /\ Head(<<e>>) = e /\ Len(<<e>>) = 1
    BY <1>o
  <2> QED BY <1>1, <1>h, <2>1
<1> USE DEF TurnAt, Untried, HoldsHead, NoneWaits
\* It moves, and leaves the queue and the tracks as they are.
<1>2. ASSUME UNCHANGED <<chat, loop, file>>, TurnAt(pc'[t], song'[t], q)
      PROVE  TurnAt(pc[t], song[t], chat.queue)'
  BY <1>2
\* Everything is cleared.
<1>3. ASSUME chat' = ClearChat, pc'[t] \in {"idle", "undo", "hangUp", "mark"}
      PROVE  TurnAt(pc[t], song[t], chat.queue)'
  <2>1. chat'.queue = <<>>
    BY <1>1, <1>3, <1>q
  <2> QED BY <1>3, <2>1
<1>4. CASE PlayCommand(t) \/ SkipCommand(t) \/ StopCommand(t)
  BY <1>1, <1>4, Arrives DEF PlayCommand, SkipCommand, StopCommand, tracks
<1>5. CASE Search(t) \/ SearchFails(t) \/ AddNone(t)
  BY <1>1, <1>5, Arrives DEF Search, SearchFails, AddNone, tracks
<1>6. CASE Reset(t) \/ Claim(t) \/ Mark(t) \/ MarkTitle(t)
  <2>1. chat'.queue = q /\ UNCHANGED <<loop, file>>
    BY <1>1, <1>6, <1>q DEF Reset, Claim, Mark, MarkTitle, tracks
  <2>2. /\ pc'[t] \in {"addMany", "add", "enqueue", "markTitle", "idle"}
        /\ pc[t] \in {"reset", "claim", "mark", "markTitle"}
        /\ pc'[t] = "enqueue" => pc[t] = "claim"
    BY <1>1, <1>6, Arrives DEF Reset, Claim, Mark, MarkTitle
  <2> QED BY <2>1, <2>2
<1>7. CASE Add(t)
  <2>1. pc[t] = "add" /\ song[t] \in Entries /\ UNCHANGED <<loop, file>>
    BY <1>1, <1>7 DEF Add, HoldsTrack, tracks
  <2>2. chat'.queue = q \o <<song[t]>>
    BY <1>7, <1>q DEF Add
  <2>3. CASE pc'[t] = "idle" /\ Len(chat'.queue) > 1
    BY <1>h, <1>o, <2>1, <2>2, <2>3
  <2>4. CASE pc'[t] = "fetch" /\ song'[t] = song[t] /\ Len(chat'.queue) <= 1
    BY <1>h, <1>o, <2>1, <2>2, <2>4
  <2>5. Len(chat'.queue) \in Nat
    BY <1>h, <1>o, <2>1, <2>2
  <2> QED BY <1>1, <1>7, <2>3, <2>4, <2>5, Arrives DEF Add, locals
<1>8. CASE Fetch(t)
  <2>1. /\ pc[t] = "fetch" /\ song[t] = Head(q) /\ q # <<>> /\ song[t] \in Entries
        /\ pc'[t] \in {"start", "undo"} /\ song'[t] = song[t] /\ chat' = chat
    BY <1>1, <1>8, Arrives DEF Fetch, HoldsTrack, locals
  <2>2. file'[song[t]] # "none"
    BY <1>1, <1>8, <2>1 DEF Fetch, DownloadFails
  <2> QED BY <2>1, <2>2
<1>9. CASE Start(t) \/ Stream(t) \/ Retune(t)
  <2>1. /\ pc[t] \in {"start", "stream", "retune"} /\ UNCHANGED <<loop, file>>
        /\ pc[t] = "start" => pc'[t] \in {"idle", "undo"}
        /\ pc[t] # "start" => pc'[t] \in {"mark", "idle"}
    BY <1>1, <1>9, Arrives DEF Start, Stream, Retune, tracks
  <2>2. chat' = chat \/ chat' = ClearChat
    BY <1>9 DEF Start, Stream, Retune, MediaStarts, MediaFails
  <2>3. CASE chat' = chat
    BY <2>1, <2>3
  <2>4. CASE chat' = ClearChat
    BY <1>3, <2>1, <2>4
  <2> QED BY <2>2, <2>3, <2>4
<1>10. CASE Undo(t) \/ Finish(t)
  <2>1. /\ chat'.queue = IF q = <<>> THEN <<>> ELSE Tail(q)
        /\ pc[t] \in {"undo", "finish"} /\ pc'[t] \in {"idle", "stop"}
    BY <1>1, <1>10, <1>q, Arrives DEF Undo, Finish
  <2>2. chat'.queue = <<>>
    <3>1. Len(q) <= 1
      BY <2>1
    <3> QED BY <1>1, <1>h, <2>1, <3>1, HeadAfter
  <2> QED BY <2>1, <2>2
<1>11. CASE AddMany(t)
  <2>1. PICK batch \in Batches :
           /\ chat' = AddSongs(chat, batch)
           /\ IF IsActive(chat) THEN Return(t)
              ELSE Goto(t, "loopFirst") /\ Capture(t, Head(batch))
    BY <1>11 DEF AddMany
  <2>2. chat'.queue = q \o batch /\ batch \in Seq(Entries) /\ batch # <<>>
    BY <1>1, <2>1, <1>q, BatchType DEF Batches, IInv
  <2>3. UNCHANGED <<loop, file>> /\ pc[t] = "addMany"
    BY <1>11 DEF AddMany
  <2> QED BY <1>1, <2>1, <2>2, <2>3, HeadAfter, Arrives DEF IsActive
<1>12. CASE LoopFirst(t)
  <2>1. /\ pc[t] = "loopFirst" /\ pc'[t] = "next" /\ song[t] \in Entries
        /\ loop' = [loop EXCEPT ![song[t]] = 1] /\ UNCHANGED <<chat, file>>
    BY <1>1, <1>12, Arrives DEF LoopFirst, HoldsTrack
  <2> QED BY <1>1, <2>1
<1>13. CASE GetLoop(t)
  <2>1. /\ pc[t] = "next" /\ UNCHANGED <<chat, loop, file>>
        /\ pc'[t] = IF (IF q # <<>> THEN loop[Head(q)] ELSE 0) > 0 THEN "setLoop" ELSE "upcoming"
    BY <1>1, <1>13, Arrives DEF GetLoop, tracks, IsActive, GetPlayingTrack
  <2> QED BY <1>1, <1>h, <2>1
<1>14. CASE SetLoop(t)
  BY <1>1, <1>14, Arrives DEF SetLoop
<1>15. CASE Replay(t)
  BY <1>1, <1>15, Arrives DEF Replay, tracks, IsActive, GetPlayingTrack
<1>16. CASE Upcoming(t)
  BY <1>1, <1>16, Arrives DEF Upcoming, tracks, HasUpcomingTrack, GetUpcomingTrack
<1>17. CASE Drop(t)
  <2>1. /\ pc[t] = "drop" /\ pc'[t] = "announce" /\ song'[t] = song[t]
        /\ chat'.queue = IF q = <<>> THEN <<>> ELSE Tail(q)
    BY <1>1, <1>17, <1>q, Arrives DEF Drop, locals
  <2> QED BY <1>1, <1>h, <2>1
<1>18. CASE Current(t) \/ Budget(t)
  BY <1>1, <1>18, Arrives DEF Current, Budget, tracks, IsActive
<1>19. CASE Query(t) \/ QueryFails(t)
  BY <1>1, <1>19, Arrives DEF Query, QueryFails, tracks
<1>20. CASE Enqueue(t)
  <2>1. /\ pc[t] = "enqueue" /\ pc'[t] = "autoNext" /\ song[t] \in Entries
        /\ UNCHANGED <<loop, file>>
    BY <1>1, <1>20, Arrives DEF Enqueue, HoldsTrack, tracks
  <2>2. chat'.queue = q \o <<song[t]>>
    BY <1>20, <1>q DEF Enqueue
  <2> QED BY <1>o, <2>1, <2>2
<1>21. CASE Announce(t)
  BY <1>1, <1>21, Arrives DEF Announce, tracks, locals
<1>22. CASE Prepare(t)
  <2>1. /\ pc[t] = "prepare" /\ song[t] = Head(q) /\ q # <<>> /\ song[t] \in Entries
        /\ chat' = chat
        /\ \/ pc'[t] = "stream" /\ song'[t] = song[t]
           \/ pc'[t] = "next"
    BY <1>1, <1>22, Arrives DEF Prepare, HoldsTrack
  <2>2. file'[song[t]] # "none"
    BY <1>1, <1>22, <2>1 DEF Prepare, DownloadFails
  <2> QED BY <2>1, <2>2
<1>23. CASE Stop(t)
  BY <1>1, <1>3, <1>23, Arrives DEF Stop, tracks
<1>24. CASE HangUp(t)
  BY <1>1, <1>24, Arrives DEF HangUp, tracks
<1>25. CASE StreamEnd(t)
  BY <1>1, <1>25, Arrives DEF StreamEnd, tracks
<1>26. CASE RetuneCommand(t)
  BY <1>1, <1>26, Arrives DEF RetuneCommand, tracks, IsActive, GetPlayingTrack
<1>27. CASE LoopCommand(t)
  BY <1>1, <1>27, Arrives DEF LoopCommand
<1>28. CASE RemoveCommand(t)
  <2>1. PICK n \in 1 .. Len(q) : chat' = RemoveTrack(chat, n)
    BY <1>28 DEF RemoveCommand
  <2>2. /\ pc[t] = "idle" /\ pc'[t] = "idle" /\ UNCHANGED <<loop, file>>
    BY <1>1, <1>28, Arrives DEF RemoveCommand, tracks
  <2>3. chat'.queue = IF n \in 0 .. Len(q) - 1 THEN RemoveAt(q, n + 1) ELSE q
    <3>1. n \in Nat
      BY <1>h, <2>1
    <3> QED BY <1>q, <2>1, <3>1
  <2>4. chat'.queue # <<>> => q # <<>> /\ Head(chat'.queue) = Head(q)
    BY <1>1, <2>1, <2>3, HeadAfter, LenProperties
  <2> QED BY <2>2, <2>4
<1>29. CASE ClearEvent(t)
  BY <1>1, <1>3, <1>29, Arrives DEF ClearEvent
<1> QED
  BY <1>4, <1>5, <1>6, <1>7, <1>8, <1>9, <1>10, <1>11, <1>12, <1>13, <1>14, <1>15, <1>16, <1>17,
     <1>18, <1>19, <1>20, <1>21, <1>22, <1>23, <1>24, <1>25, <1>26, <1>27, <1>28, <1>29
     DEF Run, Event

\* The head keeps sounding where it sounds: a step that changes the stream, the head or
\* the queue starts the head, hangs up, or comes before the stream does.
LEMMA SoundStep ==
    ASSUME IInv, NEW t \in Threads, TurnAt(pc[t], song[t], chat.queue),
           "send" \notin Faults, "assistant" \notin Faults,
           pc[t] \in Sounding /\ chat.queue # <<>> /\ ~Unheard => onAir = Head(chat.queue),
           Run(t) \/ Event(t) \/ StreamEnd(t),
           pc'[t] \in Sounding, chat'.queue # <<>>, ~Unheard'
    PROVE  onAir' = Head(chat'.queue)
<1> DEFINE q == chat.queue
<1>1. /\ chat \in ChatData /\ q \in Seq(Entries) /\ ThreadsSound
      /\ pc[t] \in HoldsTrack => song[t] \in Entries
  BY ChatParts DEF IInv, Sound, TracksSound, ThreadsSound, LocalsSound
<1>q. /\ \A songs : AddSongs(chat, songs).queue = q \o songs
      /\ ResetAutoplay(chat).queue = q
      /\ \A x : MarkPlayed(chat, x).queue = q /\ MarkTitlePlayed(chat, x).queue = q
      /\ RemoveCurrentSong(chat).queue = IF q = <<>> THEN <<>> ELSE Tail(q)
      /\ \A i \in Nat : RemoveTrack(chat, i).queue =
            IF i \in 0 .. Len(q) - 1 THEN RemoveAt(q, i + 1) ELSE q
      /\ ClearChat.queue = <<>>
  BY <1>1, QueueAfter
<1>h. /\ q # <<>> => Len(Tail(q)) = Len(q) - 1 /\ Tail(q) \in Seq(Entries) /\ Len(q) >= 1
      /\ Len(q) \in Nat
  BY <1>1, HeadAfter
<1> USE DEF TurnAt, HoldsHead, NoneWaits, Sounding, Unheard
\* The stream and the queue stay.
<1>2. ASSUME pc[t] \in Sounding, chat'.queue = q, UNCHANGED <<onAir, call>>
      PROVE  onAir' = Head(chat'.queue)
  BY <1>2
<1>3. CASE PlayCommand(t) \/ Search(t) \/ SearchFails(t) \/ AddNone(t) \/ LoopCommand(t)
  <2>1. pc[t] \in {"idle", "search", "addMany"} /\ UNCHANGED <<chat, onAir, call>>
    BY <1>1, <1>3, Arrives DEF PlayCommand, Search, SearchFails, AddNone, LoopCommand
  <2> QED BY <1>2, <2>1
<1>4. CASE Reset(t) \/ Mark(t) \/ MarkTitle(t)
  <2>1. chat'.queue = q
    BY <1>4, <1>q DEF Reset, Mark, MarkTitle
  <2>2. pc[t] \in {"reset", "mark", "markTitle"} /\ UNCHANGED <<onAir, call>>
    BY <1>1, <1>4, Arrives DEF Reset, Mark, MarkTitle
  <2> QED BY <1>2, <2>1, <2>2
<1>5. CASE Add(t)
  <2>1. pc[t] = "add" /\ song[t] \in Entries /\ UNCHANGED <<onAir, call>>
    BY <1>1, <1>5 DEF Add, HoldsTrack
  <2>2. /\ chat'.queue = q \o <<song[t]>>
        /\ pc'[t] = "idle" => Len(chat'.queue) > 1
    BY <1>1, <1>5, <1>q, Arrives DEF Add
  <2>3. <<song[t]>> \in Seq(Entries) /\ <<song[t]>> # <<>> /\ Len(<<song[t]>>) = 1
    BY <2>1
  <2>4. /\ Len(q \o <<song[t]>>) = Len(q) + 1
        /\ q # <<>> => Head(q \o <<song[t]>>) = Head(q)
    BY <1>1, <2>3, HeadAfter
  <2>5. pc'[t] = "idle"
    BY <1>1, <1>5, Arrives DEF Add
  <2>6. q # <<>>
    BY <1>1, <1>h, <2>2, <2>4, <2>5, HeadAfter
  <2> QED BY <2>1, <2>2, <2>4, <2>6
<1>6. CASE Start(t) \/ Stream(t) \/ Retune(t)
  <2>1. pc[t] \in {"start", "stream", "retune"}
    BY <1>6 DEF Start, Stream, Retune
  <2>2. \/ onAir' = song[t] /\ chat' = chat
        \/ Unheard'
        \/ chat' = ClearChat
    BY <1>6 DEF Start, Stream, Retune, MediaStarts, MediaFails
  <2> QED BY <1>q, <2>1, <2>2
<1>7. CASE Undo(t)
  <2>1. pc[t] = "undo" /\ chat'.queue = IF q = <<>> THEN <<>> ELSE Tail(q)
    BY <1>7, <1>q DEF Undo
  <2>2. chat'.queue = <<>>
    <3>1. Len(q) <= 1
      BY <2>1
    <3>2. q # <<>> => Tail(q) = <<>>
      BY <1>h, <3>1, HeadAfter
    <3> QED BY <2>1, <3>2
  <2> QED BY <2>2
<1>8. CASE AddMany(t)
  <2>1. PICK batch \in Batches :
           /\ chat' = AddSongs(chat, batch)
           /\ IF IsActive(chat) THEN Return(t)
              ELSE Goto(t, "loopFirst") /\ Capture(t, Head(batch))
    BY <1>8 DEF AddMany
  <2>2. chat'.queue = q \o batch /\ batch \in Seq(Entries) /\ batch # <<>>
    BY <1>1, <2>1, <1>q, BatchType DEF Batches, IInv
  <2>3. pc[t] = "addMany" /\ UNCHANGED <<onAir, call>>
    BY <1>8 DEF AddMany
  <2>4. q # <<>>
    BY <1>1, <2>1, Arrives DEF IsActive
  <2> QED BY <1>1, <2>2, <2>3, <2>4, HeadAfter
<1>9. CASE HangUp(t)
  BY <1>9 DEF HangUp
<1>10. CASE Stop(t)
  BY <1>q, <1>10 DEF Stop
<1>11. CASE RemoveCommand(t)
  <2>1. PICK n \in 1 .. Len(q) : chat' = RemoveTrack(chat, n)
    BY <1>11 DEF RemoveCommand
  <2>2. pc[t] = "idle" /\ UNCHANGED <<onAir, call>>
    BY <1>1, <1>11, Arrives DEF RemoveCommand
  <2>3. chat'.queue = IF n \in 0 .. Len(q) - 1 THEN RemoveAt(q, n + 1) ELSE q
    <3>1. n \in Nat
      BY <1>h, <2>1
    <3> QED BY <1>q, <2>1, <3>1
  <2>4. q # <<>> /\ Head(chat'.queue) = Head(q)
    BY <1>1, <2>1, <2>3, HeadAfter, LenProperties
  <2> QED BY <2>2, <2>4
<1>12. CASE ClearEvent(t)
  BY <1>q, <1>12 DEF ClearEvent
<1>13. CASE \/ Fetch(t) \/ LoopFirst(t) \/ GetLoop(t) \/ SetLoop(t) \/ Replay(t) \/ Upcoming(t)
            \/ Drop(t) \/ Finish(t) \/ Current(t) \/ Budget(t) \/ Query(t) \/ QueryFails(t)
            \/ Claim(t) \/ Enqueue(t) \/ Announce(t) \/ Prepare(t) \/ StopCommand(t)
            \/ SkipCommand(t) \/ RetuneCommand(t) \/ StreamEnd(t)
  <2>1. pc'[t] \notin Sounding
    BY <1>1, <1>13, Arrives
       DEF Fetch, LoopFirst, GetLoop, SetLoop, Replay, Upcoming, Drop, Finish, Current, Budget,
           Query, QueryFails, Claim, Enqueue, Announce, Prepare, StopCommand, SkipCommand,
           RetuneCommand, StreamEnd
  <2> QED BY <2>1
<1> QED
  BY <1>3, <1>4, <1>5, <1>6, <1>7, <1>8, <1>9, <1>10, <1>11, <1>12, <1>13 DEF Run, Event

\* With one goroutine, what it knows of the queue holds in every state.
LEMMA TurnInvariance ==
    ASSUME \A t, u \in Threads : t = u, "send" \notin Faults
    PROVE  Spec => [](IInv /\ Turns)
<1>1. ASSUME Init PROVE Turns
  BY <1>1 DEF Init, EmptyChat, Turns, TurnAt, HoldsHead, NoneWaits
<1>2. ASSUME IInv, Turns, [Next]_vars PROVE Turns'
  <2>1. CASE UNCHANGED vars
    BY <1>2, <2>1 DEF vars, Turns, TurnAt
  <2>2. ASSUME NEW t \in Threads, Run(t) \/ Event(t) \/ StreamEnd(t) PROVE Turns'
    <3>1. TurnAt(pc[t], song[t], chat.queue)'
      BY <1>2, <2>2, TurnStep DEF Turns
    <3> QED BY <3>1 DEF Turns, TurnAt
  <2> QED BY <1>2, <2>1, <2>2 DEF Next
<1> QED BY <1>1, <1>2, Invariance, PTL DEF Spec

\* Between commands, an active chat hears the head of its queue, unless the engine holds
\* a call that was never connected: for any number of tracks, while handlers do not
\* overlap and only downloads, joins and engine calls fail (PlayMedia, playSong and Stop).
THEOREM HeadHeard ==
    ASSUME \A t, u \in Threads : t = u, Threads # {},
           "send" \notin Faults, "assistant" \notin Faults
    PROVE  Spec => []HeadOnAir
<1>1. ASSUME Init PROVE HeadSounds
  BY <1>1 DEF Init, EmptyChat, HeadSounds
<1>2. ASSUME IInv, Turns, HeadSounds, [Next]_vars PROVE HeadSounds'
  <2>1. CASE UNCHANGED vars
    BY <1>2, <2>1 DEF vars, HeadSounds, Unheard
  <2>2. ASSUME NEW t \in Threads, Run(t) \/ Event(t) \/ StreamEnd(t) PROVE HeadSounds'
    <3>1. pc'[t] \in Sounding /\ chat'.queue # <<>> /\ ~Unheard' => onAir' = Head(chat'.queue)
      BY <1>2, <2>2, SoundStep DEF Turns, HeadSounds
    <3> QED BY <3>1 DEF HeadSounds
  <2> QED BY <1>2, <2>1, <2>2 DEF Next
<1>3. ASSUME HeadSounds PROVE HeadOnAir
  BY <1>3 DEF HeadSounds, HeadOnAir, Quiet, IsActive, GetPlayingTrack, Sounding
<1> QED BY <1>1, <1>2, <1>3, TurnInvariance, PTL DEF Spec
-----------------------------------------------------------------------------
(* Jukebox: each step of the only goroutine is one of the line, or none *)

Served == Box!Next \/ UNCHANGED Box!vars

\* Tracks join the end of the line.
LEMMA LineGrows ==
    ASSUME NEW q \in Seq(Entries), NEW b \in Seq(Entries), chat.queue = q,
           chat'.queue = q \o b, UNCHANGED <<file, onAir>>
    PROVE  Served
<1>1. q \o b \in Seq(Entries) /\ Len(q) <= Len(q \o b)
  BY ConcatProperties
<1>2. SubSeq(q, 1, Len(q)) = SubSeq(q \o b, 1, Len(q))
  OBVIOUS
<1> QED BY <1>1, <1>2 DEF Served, Box!Next, Box!Request, Box!IsPrefix

\* The head is tried.
LEMMA HeadTried ==
    ASSUME file \in [Entries -> {"none", "ready", "failed"}], chat.queue # <<>>,
           chat'.queue = chat.queue, onAir' = onAir,
           NEW x, x # "none", Head(chat.queue) \in Entries,
           file' = [file EXCEPT ![Head(chat.queue)] = x]
    PROVE  Served
<1>1. {e \in Entries : file'[e] # "none"} = {e \in Entries : file[e] # "none"} \cup {Head(chat.queue)}
  OBVIOUS
<1> QED BY <1>1 DEF Served, Box!Next, Box!Try

\* The head sounds.
LEMMA HeadPlays ==
    ASSUME chat.queue # <<>>, Head(chat.queue) \in Entries, file[Head(chat.queue)] # "none",
           onAir' = Head(chat.queue), chat'.queue = chat.queue, file' = file
    PROVE  Served
BY DEF Served, Box!Next, Box!Play

\* The head gives way.
LEMMA HeadGoes ==
    ASSUME chat.queue # <<>> => /\ Head(chat.queue) \in Entries
                                /\ file[Head(chat.queue)] # "none",
           chat'.queue = IF chat.queue = <<>> THEN <<>> ELSE Tail(chat.queue),
           UNCHANGED <<file, onAir>>
    PROVE  Served
BY DEF Served, Box!Next, Box!GiveWay, Box!vars

\* A track that waits behind the head is withdrawn.
LEMMA TrackWithdrawn ==
    ASSUME NEW i \in 2 .. Len(chat.queue), chat'.queue = RemoveAt(chat.queue, i),
           UNCHANGED <<file, onAir>>
    PROVE  Served
BY DEF Served, Box!Next, Box!Withdraw, Box!RemoveAt, RemoveAt

\* The line is closed; what sounded, nothing or the head sounds.
LEMMA LineCloses ==
    ASSUME chat' = ClearChat, file' = file,
           \/ onAir' \in {onAir, None}
           \/ /\ chat.queue # <<>> /\ onAir' = Head(chat.queue)
              /\ Head(chat.queue) \in Entries /\ file[Head(chat.queue)] # "none"
    PROVE  Served
<1>1. chat'.queue = <<>>
  BY DEF ClearChat, EmptyChat
<1> QED BY <1>1 DEF Served, Box!Next, Box!Close

\* Nothing sounds any more.
LEMMA LineSilent ==
    ASSUME chat'.queue = chat.queue, file' = file, onAir' = None
    PROVE  Served
BY DEF Served, Box!Next, Box!FallSilent

\* The step concerns the goroutine only.
LEMMA LineKept ==
    ASSUME chat'.queue = chat.queue, UNCHANGED <<file, onAir>>
    PROVE  Served
BY DEF Served, Box!vars

\* PlayMedia starts the head, or fails.
LEMMA MediaServed ==
    ASSUME NEW t \in Threads, chat.queue # <<>>, Head(chat.queue) \in Entries,
           file[Head(chat.queue)] # "none", song[t] = Head(chat.queue),
           MediaStarts(t) \/ MediaFails(t), file' = file
    PROVE  Served
<1>1. CASE MediaStarts(t)
  BY <1>1, HeadPlays, LineKept DEF MediaStarts
<1>2. CASE MediaFails(t)
  <2>1. \/ UNCHANGED <<chat, onAir>>
        \/ chat' = ClearChat /\ (onAir' \in {onAir, None} \/ onAir' = song[t])
    BY <1>2 DEF MediaFails, PlayFails
  <2> QED BY <2>1, LineKept, LineCloses
<1> QED BY <1>1, <1>2

\* Each step of the only goroutine is one of the line, or none.
LEMMA LineStep ==
    ASSUME IInv, NEW t \in Threads, TurnAt(pc[t], song[t], chat.queue),
           Run(t) \/ Event(t) \/ StreamEnd(t)
    PROVE  Served
<1> DEFINE q == chat.queue
<1>1. /\ chat \in ChatData /\ q \in Seq(Entries) /\ ThreadsSound
      /\ file \in [Entries -> {"none", "ready", "failed"}]
      /\ pc[t] \in HoldsTrack => song[t] \in Entries
  BY ChatParts DEF IInv, Sound, TracksSound, ThreadsSound, LocalsSound
<1>q. /\ \A songs : AddSongs(chat, songs).queue = q \o songs
      /\ ResetAutoplay(chat).queue = q /\ \A n : SetAutoplayRemaining(chat, n).queue = q
      /\ \A x : MarkPlayed(chat, x).queue = q /\ MarkTitlePlayed(chat, x).queue = q
      /\ RemoveCurrentSong(chat).queue = IF q = <<>> THEN <<>> ELSE Tail(q)
      /\ \A i \in Nat : RemoveTrack(chat, i).queue =
            IF i \in 0 .. Len(q) - 1 THEN RemoveAt(q, i + 1) ELSE q
  BY <1>1, QueueAfter
<1>h. (q # <<>> => Head(q) \in Entries) /\ Len(q) \in Nat
  BY <1>1, HeadAfter
<1> USE DEF TurnAt, Untried, HoldsHead
<1>2. CASE \/ PlayCommand(t) \/ SkipCommand(t) \/ StopCommand(t) \/ RetuneCommand(t) \/ LoopCommand(t)
           \/ Search(t) \/ SearchFails(t) \/ AddNone(t) \/ LoopFirst(t) \/ GetLoop(t) \/ SetLoop(t)
           \/ Replay(t) \/ Upcoming(t) \/ Current(t) \/ Budget(t) \/ Query(t) \/ QueryFails(t)
           \/ Announce(t)
  <2>1. UNCHANGED <<chat, file, onAir>>
    BY <1>2 DEF PlayCommand, SkipCommand, StopCommand, RetuneCommand, LoopCommand, Search,
                SearchFails, AddNone, LoopFirst, GetLoop, SetLoop, Replay, Upcoming, Current,
                Budget, Query, QueryFails, Announce, tracks
  <2> QED BY <2>1, LineKept
<1>3. CASE Reset(t) \/ Claim(t) \/ Mark(t) \/ MarkTitle(t)
  <2>1. chat'.queue = q
    BY <1>3, <1>q DEF Reset, Claim, Mark, MarkTitle
  <2>2. UNCHANGED <<file, onAir>>
    BY <1>3 DEF Reset, Claim, Mark, MarkTitle, tracks
  <2> QED BY <2>1, <2>2, LineKept
<1>4. CASE Add(t) \/ Enqueue(t)
  <2>1. <<song[t]>> \in Seq(Entries)
    BY <1>1, <1>4 DEF Add, Enqueue, At, HoldsTrack
  <2>2. chat'.queue = q \o <<song[t]>> /\ UNCHANGED <<file, onAir>>
    BY <1>4, <1>q DEF Add, Enqueue, tracks
  <2> QED BY <1>1, <2>1, <2>2, LineGrows
<1>5. CASE AddMany(t)
  <2>1. PICK batch \in Batches : chat' = AddSongs(chat, batch)
    BY <1>5 DEF AddMany
  <2>2. chat'.queue = q \o batch /\ batch \in Seq(Entries)
    BY <2>1, <1>q, BatchType DEF IInv
  <2> QED BY <1>1, <1>5, <2>2, LineGrows DEF AddMany
<1>6. CASE Fetch(t) \/ Prepare(t)
  <2>1. /\ pc[t] \in {"fetch", "prepare"} /\ song[t] = Head(q) /\ q # <<>>
        /\ UNCHANGED <<chat, onAir>>
    BY <1>6 DEF Fetch, Prepare
  <2>2. \/ file' = [file EXCEPT ![Head(q)] = "ready"]
        \/ file' = [file EXCEPT ![Head(q)] = IF file[Head(q)] = "none" THEN "failed" ELSE file[Head(q)]]
    BY <1>6, <2>1 DEF Fetch, Prepare, DownloadFails
  <2> QED BY <1>1, <1>h, <2>1, <2>2, HeadTried
<1>7. CASE Start(t) \/ Stream(t) \/ Retune(t)
  <2>1. /\ pc[t] \in {"start", "stream", "retune"} /\ file' = file
        /\ MediaStarts(t) \/ MediaFails(t)
    BY <1>7 DEF Start, Stream, Retune, tracks
  <2> QED BY <1>h, <2>1, MediaServed
<1>8. CASE Undo(t) \/ Drop(t) \/ Finish(t)
  <2>1. pc[t] \in {"undo", "drop", "finish"} /\ UNCHANGED <<file, onAir>>
    BY <1>8 DEF Undo, Drop, Finish, At, tracks
  <2>2. chat'.queue = IF q = <<>> THEN <<>> ELSE Tail(q)
    BY <1>8, <1>q DEF Undo, Drop, Finish
  <2> QED BY <1>h, <2>1, <2>2, HeadGoes
<1>9. CASE Stop(t) \/ ClearEvent(t)
  BY <1>9, LineCloses, LineKept DEF Stop, ClearEvent, tracks
<1>10. CASE HangUp(t) \/ StreamEnd(t)
  BY <1>10, LineSilent DEF HangUp, StreamEnd, tracks
<1>11. CASE RemoveCommand(t)
  <2>1. PICK n \in 1 .. Len(q) : chat' = RemoveTrack(chat, n)
    BY <1>11 DEF RemoveCommand
  <2>2. UNCHANGED <<file, onAir>>
    BY <1>11 DEF RemoveCommand, tracks
  <2>3. n \in Nat /\ n >= 1
    BY <1>h, <2>1
  <2>4. CASE n \in 0 .. Len(q) - 1
    <3>1. chat'.queue = RemoveAt(q, n + 1)
      BY <1>q, <2>1, <2>3, <2>4
    <3>2. n + 1 \in 2 .. Len(q)
      BY <1>h, <2>3, <2>4
    <3> QED BY <2>2, <3>1, <3>2, TrackWithdrawn
  <2>5. CASE n \notin 0 .. Len(q) - 1
    BY <1>q, <2>1, <2>2, <2>3, <2>5, LineKept
  <2> QED BY <2>4, <2>5
<1> QED
  BY <1>2, <1>3, <1>4, <1>5, <1>6, <1>7, <1>8, <1>9, <1>10, <1>11 DEF Run, Event

\* While handlers do not overlap and the status message of playSong can be sent, playback
\* implements Jukebox, for any number of tracks and whatever else fails: only the head is
\* tried and sounds, and nothing that waits loses its turn.
THEOREM ServedAsJukebox ==
    ASSUME \A t, u \in Threads : t = u, "send" \notin Faults
    PROVE  Spec => ServesInOrder
<1>1. ASSUME Init PROVE Box!Init
  <2>1. chat.queue = <<>> /\ onAir = None /\ {e \in Entries : file[e] # "none"} = {}
    BY <1>1 DEF Init, EmptyChat
  <2> QED BY <2>1 DEF Box!Init
<1>2. ASSUME IInv, Turns, [Next]_vars PROVE [Box!Next]_(Box!vars)
  <2>1. CASE UNCHANGED vars
    BY <2>1 DEF vars, Box!vars
  <2>2. ASSUME NEW t \in Threads, Run(t) \/ Event(t) \/ StreamEnd(t) PROVE Served
    BY <1>2, <2>2, LineStep DEF Turns
  <2> QED BY <1>2, <2>1, <2>2 DEF Next, Served
<1> QED BY <1>1, <1>2, TurnInvariance, PTL DEF Spec, ServesInOrder
-----------------------------------------------------------------------------
(* What autoplay chooses.  Player leaves open which track the searches of    *)
(* tryAutoplay come back with; AutoplayLane says which ones its filters let  *)
(* through.                                                                   *)

\* A set of numbers has a least one.
LEMMA LeastIs ==
    ASSUME NEW S, S \subseteq Nat, S # {}
    PROVE  Min(S) \in S /\ \A m \in S : Min(S) <= m
<1>0. \A y \in Nat, z \in Nat : y < z => <<y, z>> \in OpToRel(<, Nat)
  BY SMT DEF OpToRel
<1>1. PICK R : IsWellFoundedOn(R, Nat) /\ \A y \in Nat, z \in Nat : y < z => <<y, z>> \in R
  BY <1>0, NatLessThanWellFounded, Zenon
<1>2. PICK x \in S : \A y \in S : <<y, x>> \notin R
  <2>1. IsWellFoundedOn(R, Nat)
    BY <1>1
  <2> QED BY <2>1, WFMin, Zenon
<1>3. \A y \in S : x <= y
  <2>1. ASSUME NEW y \in S PROVE y \in Nat /\ x \in Nat /\ ~ (y < x)
    BY <1>1, <1>2, Zenon
  <2> QED BY <2>1
<1> QED BY <1>3 DEF Min

\* The languages autoplay knows.
Langs == ToSet(Hints)

\* What is detected is one of the things found, if any of them is looked for.
LEMMA FirstFound ==
    ASSUME NEW order, DOMAIN order \subseteq Nat, NEW found
    PROVE  IF \E i \in DOMAIN order : order[i] \in found
           THEN \E i \in DOMAIN order : order[i] \in found /\ First(order, found) = order[i]
           ELSE First(order, found) = ""
<1> DEFINE S == {i \in DOMAIN order : order[i] \in found}
<1>1. CASE \E i \in DOMAIN order : order[i] \in found
  <2>1. S \subseteq Nat /\ S # {}
    BY <1>1
  <2>2. Min(S) \in S
    BY <2>1, LeastIs
  <2>3. First(order, found) = order[Min(S)]
    BY <1>1 DEF First
  <2> QED BY <1>1, <2>2, <2>3
<1>2. CASE ~ \E i \in DOMAIN order : order[i] \in found
  BY <1>2 DEF First
<1> QED BY <1>1, <1>2

\* A title is taken for a language it names, if it names one autoplay knows.
LEMMA Detected ==
    ASSUME NEW t
    PROVE  /\ DetectLanguageHint(t) \in {""} \cup (t.named \cap Langs)
           /\ t.named \cap Langs # {} => DetectLanguageHint(t) # ""
           /\ "" \notin Langs
<1>1. DOMAIN Hints = 1 .. 14 /\ \A i \in 1 .. 14 : Hints[i] # ""
  BY DEF Hints
<1>2. Langs = {Hints[i] : i \in DOMAIN Hints}
  BY DEF Langs, ToSet
<1>3. \A l : l \in Langs <=> \E i \in DOMAIN Hints : l = Hints[i]
  BY <1>2
<1>4. DOMAIN Hints \subseteq Nat
  <2>1. 1 .. 14 \subseteq Nat
    OBVIOUS
  <2> QED BY <1>1, <2>1
<1>5. IF \E i \in DOMAIN Hints : Hints[i] \in t.named
      THEN \E i \in DOMAIN Hints : /\ Hints[i] \in t.named
                                   /\ DetectLanguageHint(t) = Hints[i]
      ELSE DetectLanguageHint(t) = ""
  BY <1>4, FirstFound DEF DetectLanguageHint
<1>6. CASE \E i \in DOMAIN Hints : Hints[i] \in t.named
  BY <1>1, <1>3, <1>5, <1>6
<1>7. CASE ~ \E i \in DOMAIN Hints : Hints[i] \in t.named
  <2>1. DetectLanguageHint(t) = ""
    BY <1>5, <1>7
  <2>2. t.named \cap Langs = {}
    BY <1>3, <1>7
  <2> QED BY <1>1, <1>3, <2>1, <2>2
<1> QED BY <1>6, <1>7

\* Of a title that does not name several languages, the one it names.
LEMMA NamesOne ==
    ASSUME NEW t, IsFiniteSet(t.named), ~ Several(t), NEW k \in t.named, NEW l \in t.named
    PROVE  k = l
<1>1. Cardinality(t.named) \in Nat /\ Cardinality(t.named) <= 1
  BY FS_CardinalityType DEF Several
<1>2. SUFFICES ASSUME k # l PROVE FALSE
  OBVIOUS
<1>3. /\ IsFiniteSet({k, l}) /\ Cardinality({k, l}) = 2
  <2>1. {k, l} = {k} \cup {l} /\ l \notin {k}
    BY <1>2
  <2>2. IsFiniteSet({k}) /\ Cardinality({k}) = 1
    BY FS_Singleton
  <2> QED BY <2>1, <2>2, FS_AddElement
<1>4. {k, l} \in SUBSET t.named
  OBVIOUS
<1>5. Cardinality({k, l}) <= Cardinality(t.named)
  BY <1>4, FS_Subset
<1> QED BY <1>1, <1>3, <1>5

\* In a chain without loose ends the hint is the language of the track that
\* plays, one of the chain's; a chain that has come into one of the three
\* northern languages stays in them.
InLane ==
    /\ Lane(track, hint) = hint
    /\ hint \in lanes \/ (hint = "" /\ lanes = {})
    /\ "" \notin lanes
    /\ \A k \in lanes \ North : hint \in North \/ hint = k
    /\ \A k, l \in lanes \ North : k = l

LaneInv == (~ loose => InLane) /\ ScriptKept

\* What the language of the next track can be.
LEMMA NextLane ==
    ASSUME NEW t, IsFiniteSet(t.named), ~ Several(t), hint # "",
           MatchesLanguageHint(hint, t)
    PROVE  Lane(t, hint) = hint \/ Lane(t, hint) \in North
<1> DEFINE d == DetectLanguageHint(t)
<1>1. CASE d = ""
  BY <1>1 DEF Lane
<1>2. CASE d # ""
  <2>1. d \in t.named /\ d \in Langs /\ Lane(t, hint) = d
    BY <1>2, Detected DEF Lane
  <2>2. CASE hint \in t.named
    BY <2>1, <2>2, NamesOne
  <2>3. CASE ~ NamesOther(hint, t)
    BY <2>1, <2>3 DEF NamesOther, Langs
  <2> QED BY <2>2, <2>3 DEF MatchesLanguageHint
<1> QED BY <1>1, <1>2

\* The language is stored.
LEMMA LaneStored ==
    ASSUME NEW t, NEW h
    PROVE  Lane(t, Lane(t, h)) = Lane(t, h)
BY DEF Lane

\* A step of the chain.
LEMMA LaneStep ==
    ASSUME \A v \in Tracks : IsFiniteSet(v.named), LaneInv, [LaneNext]_laneVars
    PROVE  LaneInv'
<1>1. CASE UNCHANGED laneVars
  BY <1>1 DEF laneVars, LaneInv, InLane, ScriptKept
<1>2. ASSUME NEW t \in Tracks, PlayNow(t) PROVE LaneInv'
  <2>1. /\ track' = t /\ hint' = hint /\ lanes' = {Lane(t, hint)} \ {""}
        /\ auto' = FALSE /\ (~ loose' => Lane(t, hint) = hint)
    BY <1>2 DEF PlayNow
  <2> QED BY <2>1 DEF LaneInv, InLane, ScriptKept
<1>3. ASSUME NEW t \in Tracks, PlayQueued(t) PROVE LaneInv'
  <2>1. /\ track' = t /\ hint' = Lane(t, hint)
        /\ lanes' = {Lane(t, hint)} \ {""} /\ auto' = FALSE
    BY <1>3 DEF PlayQueued, SetLastLangHint
  <2>2. Lane(t, hint') = hint'
    BY <2>1, LaneStored
  <2> QED BY <2>1, <2>2 DEF LaneInv, InLane, ScriptKept
<1>4. ASSUME NEW t \in Tracks, Autoplay(t) PROVE LaneInv'
  <2>1. /\ IsLikelyMusicTrack(t, Lane(track, hint))
        /\ track' = t /\ hint' = Lane(t, hint)
        /\ loose' = (loose \/ Several(t))
        /\ lanes' = (lanes \cup {Lane(t, Lane(track, hint))}) \ {""}
    BY <1>4 DEF Autoplay, SetLastLangHint
  <2>2. ASSUME ~ loose'
        PROVE  /\ InLane /\ ~ Several(t) /\ Lane(track, hint) = hint
               /\ lanes' = (lanes \cup {hint'}) \ {""} /\ Lane(t, hint') = hint'
               /\ hint # "" => MatchesLanguageHint(hint, t)
    BY <2>1, <2>2, LaneStored DEF LaneInv, InLane, IsLikelyMusicTrack
  <2>3. ASSUME ~ loose' PROVE InLane'
    <3>1. CASE hint = ""
      <4>1. lanes' = {hint'} \ {""}
        BY <2>2, <2>3, <3>1 DEF InLane
      <4> QED BY <2>1, <2>2, <2>3, <4>1 DEF InLane
    <3>2. CASE hint # ""
      <4>1. hint' = hint \/ hint' \in North
        BY <2>1, <2>2, <2>3, <3>2, NextLane
      <4>2. hint' # ""
        BY <3>2, <4>1 DEF North
      <4>3. lanes' = lanes \cup {hint'}
        BY <2>2, <2>3, <4>2 DEF InLane
      <4>4. CASE hint' = hint
        BY <2>1, <2>2, <2>3, <3>2, <4>3, <4>4 DEF InLane
      <4>5. CASE hint' \in North
        BY <2>1, <2>2, <2>3, <4>2, <4>3, <4>5 DEF InLane
      <4> QED BY <4>1, <4>4, <4>5
    <3> QED BY <3>1, <3>2
  <2>4. ScriptKept'
    <3> SUFFICES ASSUME ~ loose', lanes' # {}, t.named = {}
                 PROVE  DetectScript(t) \in {""} \cup {ScriptOf(l) : l \in lanes'}
      BY <2>1 DEF ScriptKept
    <3>1. hint' = hint
      BY <2>1, Detected DEF Lane
    <3>2. hint # "" /\ hint \in lanes'
      BY <2>2, <3>1 DEF InLane
    <3>3. ~ ForeignScript(hint, t)
      BY <2>2, <3>2 DEF MatchesLanguageHint
    <3> QED BY <3>2, <3>3 DEF ForeignScript
  <2> QED BY <2>3, <2>4 DEF LaneInv
<1>5. CASE Clear
  <2>1. /\ track' = NoTrack /\ hint' = "" /\ lanes' = {} /\ auto' = FALSE
    BY <1>5 DEF Clear
  <2>2. Lane(NoTrack, "") = ""
    <3>1. NoTrack.named = {}
      BY DEF NoTrack
    <3> QED BY <3>1, Detected DEF Lane
  <2> QED BY <2>1, <2>2 DEF LaneInv, InLane, ScriptKept
<1> QED BY <1>1, <1>2, <1>3, <1>4, <1>5 DEF LaneNext

\* Nothing has played.
LEMMA LaneStart == LaneInit => LaneInv
<1>1. Lane(NoTrack, "") = ""
  <2>1. NoTrack.named = {}
    BY DEF NoTrack
  <2> QED BY <2>1, Detected DEF Lane
<1> QED BY <1>1 DEF LaneInit, LaneInv, InLane, ScriptKept

\* A chain without loose ends has one language outside the three.
LEMMA LaneSingle == InLane => Cardinality(lanes \ North) <= 1
<1> SUFFICES ASSUME InLane PROVE Cardinality(lanes \ North) <= 1
  OBVIOUS
<1>1. CASE lanes \ North = {}
  BY <1>1, FS_EmptySet
<1>2. ASSUME NEW k \in lanes \ North PROVE Cardinality(lanes \ North) <= 1
  <2>1. lanes \ North = {k}
    BY <1>2 DEF InLane
  <2> QED BY <2>1, FS_Singleton
<1> QED BY <1>1, <1>2

\* Whatever is searched and played, as long as every title names one language
\* at most and no language was lost at the start, a chain of autoplay stays in
\* one language outside the three.
THEOREM LaneKept == LaneSpec => []OneLane
<1>1. LaneInv => OneLane
  BY LaneSingle DEF LaneInv, OneLane
<1>2. LaneInv /\ [LaneNext]_laneVars => LaneInv'
  BY LaneStep, TracksAssumption
<1> QED BY <1>1, <1>2, LaneStart, PTL DEF LaneSpec

\* In such a chain a track that names no language is in the script of one of
\* the chain's languages, or in none.
THEOREM ScriptsKept == LaneSpec => []ScriptKept
<1>1. LaneInv => ScriptKept
  BY DEF LaneInv
<1>2. LaneInv /\ [LaneNext]_laneVars => LaneInv'
  BY LaneStep, TracksAssumption
<1> QED BY <1>1, <1>2, LaneStart, PTL DEF LaneSpec
=============================================================================
