-------------------------- MODULE PlayerProperties --------------------------
(***************************************************************************)
(* What playback promises.  The first group holds however the goroutines   *)
(* interleave and whatever fails.  The second group holds when handlers do *)
(* not overlap; the README says how an interleaving or a fault breaks each *)
(* of them.                                                                *)
(***************************************************************************)
EXTENDS Player

\* What a goroutine holds at the steps that use it.  PlayNext, playSong and
\* tryAutoplay hand pointers and counts from one step to the next; without
\* this the types are not inductive.
HoldsTrack == {"add", "fetch", "start", "loopFirst", "drop", "budget", "query", "claim",
               "enqueue", "announce", "prepare", "stream", "mark", "markTitle", "retune"}

LocalsSound ==
    \A t \in Threads :
        /\ pc[t] \in HoldsTrack => song[t] \in Entries
        /\ pc[t] = "setLoop" => num[t] \in 1 .. 10
        /\ pc[t] \in {"query", "claim"} => num[t] \in 1 .. AutoplayLimit

\* Every variable has its type.  SetLoopCount and SetAutoplayRemaining take a
\* count read earlier less one, so the ranges need LocalsSound.
TypeOK ==
    /\ chat \in ChatData
    /\ used \subseteq Entries
    /\ loop \in [Entries -> 0 .. 10]
    /\ file \in [Entries -> {"none", "ready", "failed"}]
    /\ onAir \in Entries \cup {None}
    /\ call \in {"none", "unconnected", "connected"}
    /\ onAir # None => call = "connected"
    /\ pc \in [Threads -> Labels]
    /\ song \in [Threads -> Entries \cup {None}]
    /\ num \in [Threads -> Nat]
    /\ LocalsSound
-----------------------------------------------------------------------------
(* However goroutines interleave *)

\* MarkPlayed and MarkTitlePlayed keep a window of distinct entries that
\* never outgrows HistoryCap, whichever goroutines record tracks and clear
\* the chat in between.
HistorySound ==
    /\ IsInjective(chat.history) /\ Len(chat.history) <= HistoryCap
    /\ IsInjective(chat.titles) /\ Len(chat.titles) <= HistoryCap

Starting == {"fetch", "start"}

\* A /play that found the queue empty starts playback itself.  For as long as
\* its track is queued at all the track is at the head: no other goroutine
\* can put a track before it, so two handlers never start two queued tracks.
StarterAtHead ==
    \A t \in Threads :
        pc[t] \in Starting /\ song[t] \in ToSet(chat.queue) => song[t] = Head(chat.queue)

\* Why: the tracks in the queue are distinct objects; a track on its way to
\* the queue is in no queue yet and in one goroutine's hands only.
OnItsWay(t) == pc[t] \in {"reset", "add", "claim", "enqueue"} /\ song[t] # None

OwnersDistinct ==
    /\ IsInjective(chat.queue)
    /\ ToSet(chat.queue) \subseteq used
    /\ \A t \in Threads : OnItsWay(t) => song[t] \in used \ ToSet(chat.queue)
    /\ \A t \in Threads : pc[t] \in Starting => song[t] \in used
    /\ \A t, u \in Threads :
          t # u /\ OnItsWay(t) /\ (OnItsWay(u) \/ pc[u] \in Starting) => song[t] # song[u]

\* handlePlay checks the limit long before AddSong, and PlayNext looks for an
\* upcoming track long before tryAutoplay adds one.  Whoever passed such a
\* check can still add what it finds, so the queue outgrows the limit, but by
\* no more than one batch for each goroutine that is on its way.
OnItsWayToAdd == {t \in Threads : pc[t] \in {"search", "reset", "add", "addMany",
                                   "current", "budget", "query", "claim", "enqueue"}}

QueueBounded ==
    Len(chat.queue) + Cardinality(OnItsWayToAdd) * BatchMax
        <= QueueMax + Cardinality(Threads) * BatchMax

\* First come, first served: tracks that stay keep their order, and new ones
\* go behind them.
FirstComeFirstServed ==
    [][ \A i, j \in DOMAIN chat'.queue : i < j =>
          \A k \in DOMAIN chat.queue :
             chat.queue[k] = chat'.queue[j] =>
                \E h \in 1 .. k - 1 : chat.queue[h] = chat'.queue[i] ]_vars

\* Every goroutine returns: the recursion of PlayNext through downloads that
\* fail uses up loop counts, queued tracks and the autoplay budget.
GoroutinesReturn == \A t \in Threads : (pc[t] # "idle") ~> (pc[t] = "idle")
-----------------------------------------------------------------------------
(* While handlers do not overlap *)

Quiet == \A t \in Threads : pc[t] = "idle"

\* A join that Telegram refused leaves the engine a call that is not connected,
\* and every Play after it, until the next /stop, gives that call a source and
\* reports success: nothing sounds and no stream ends.
Unheard == call = "unconnected"

\* GetPlayingTrack is the track that is playing: between commands, an active
\* chat hears the head of its queue, unless it is Unheard.
HeadOnAir == Quiet /\ IsActive(chat) /\ ~Unheard => onAir = GetPlayingTrack(chat)

\* The queue is served as a Jukebox serves its line.
Box == INSTANCE Jukebox
         WITH Tracks <- Entries, Silence <- None, line <- chat.queue,
              tried <- {e \in Entries : file[e] # "none"}, air <- onAir

ServesInOrder == Box!Init /\ [][Box!Next]_(Box!vars)

\* Every accepted track gets its turn: it leaves the queue in the end, unless
\* users keep the head there with /loop, /seek and /speed for ever, or the chat
\* is Unheard.
KeptByUsers ==
    \/ IsActive(chat) /\ loop[GetPlayingTrack(chat)] > 0
    \/ \E t \in Threads : pc[t] = "retune"

EveryTrackGetsItsTurn ==
    \A e \in Entries :
        (e \in ToSet(chat.queue)) ~>
            (e \notin ToSet(chat.queue) \/ KeptByUsers \/ Unheard)
=============================================================================
