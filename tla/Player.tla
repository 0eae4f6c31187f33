------------------------------- MODULE Player -------------------------------
(***************************************************************************)
(* Playback in one chat: the command handlers of src/src/handlers, the     *)
(* TelegramCalls methods of src/src/vc/calls.go and the stream-end         *)
(* callback, as goroutines that share the chat's queue (module ChatCache). *)
(*                                                                         *)
(* gogram runs every update, and ntgcalls every callback, in a goroutine   *)
(* of its own.  A goroutine is atomic only inside one ChatCacher method;   *)
(* between two of them, and around every Telegram, download, search or     *)
(* call-engine request, others run.  One action per such step; pc[t] names *)
(* the step goroutine t takes next, song[t] and num[t] are its locals.     *)
(* With one thread the handlers are serial; with more they interleave.     *)
(***************************************************************************)
EXTENDS ChatCache

CONSTANTS
    Threads,     \* goroutines that can be at work at the same time
    IdOf,        \* [Entries -> Ids]
    TitleOf,     \* [Entries -> Titles]
    QueueMax,    \* 10: the limit of handlePlay
    LoopChoices, \* the counts users give to /loop, within 0..10
    BatchMax,    \* bound on the tracks of one playlist
    Commands,    \* the commands and events users and Telegram send
    Faults,      \* the requests that may fail
    None         \* no track

AllCommands == {"play", "playlist", "skip", "stop", "loop", "remove", "retune",
                "clear", "botLeft", "autoplay"}
AllFaults == {"send", "download", "assistant", "join", "stream"}

ASSUME PlayerAssumption ==
    /\ IdOf \in [Entries -> Ids]
    /\ TitleOf \in [Entries -> Titles]
    /\ QueueMax \in Nat \ {0}
    /\ LoopChoices \subseteq 0 .. 10
    /\ BatchMax \in Nat \ {0}
    /\ IsFiniteSet(Threads)
    /\ Commands \subseteq AllCommands
    /\ Faults \subseteq AllFaults
    /\ None \notin Entries

VARIABLES
    chat,    \* the chat's data in the cache
    used,    \* the CachedTrack objects created so far
    loop,    \* CachedTrack.Loop
    file,    \* CachedTrack.FilePath: not set yet, set, or the download failed
    onAir,   \* the track the assistant streams into the voice chat
    call,    \* the engine's call of the chat: none, not connected, connected
    pc, song, num

vars == <<chat, used, loop, file, onAir, call, pc, song, num>>

Labels == {"idle",
    "search", "reset", "add", "fetch", "start", "undo", "addMany", "loopFirst",
    "next", "setLoop", "replay", "upcoming", "drop", "current", "budget",
    "query", "claim", "enqueue", "autoNext", "finish",
    "announce", "prepare", "stream", "mark", "markTitle",
    "stop", "hangUp", "retune"}

Init ==
    /\ chat = EmptyChat
    /\ used = {}
    /\ loop = [e \in Entries |-> 0]
    /\ file = [e \in Entries |-> "none"]
    /\ onAir = None /\ call = "none"
    /\ pc = [t \in Threads |-> "idle"]
    /\ song = [t \in Threads |-> None]
    /\ num = [t \in Threads |-> 0]
-----------------------------------------------------------------------------
Fresh == Entries \ used

Goto(t, label) == pc' = [pc EXCEPT ![t] = label]

At(t, label, next) == pc[t] = label /\ Goto(t, next)

Capture(t, e) == song' = [song EXCEPT ![t] = e]

\* The goroutine ends; its locals are dropped.
Return(t) ==
    /\ Goto(t, "idle")
    /\ Capture(t, None)
    /\ num' = [num EXCEPT ![t] = 0]

\* A command or an event is dispatched to the free goroutine t.
Dispatch(t, command, label) == command \in Commands /\ At(t, "idle", label)

\* FilePath is only set by a download that succeeds.
DownloadFails(e) ==
    file' = [file EXCEPT ![e] = IF @ = "none" THEN "failed" ELSE @]

tracks == <<used, loop, file>>
locals == <<song, num>>
-----------------------------------------------------------------------------
(* PlayMedia: streams song[t] on the assistant's call.  On an error nothing *)
(* or the whole chat is cleared.                                            *)

\* Play without a call connects one.  With one it only gives it a new source,
\* which nobody hears when that call was never connected.
MediaStarts(t) ==
    /\ IF call = "unconnected" THEN UNCHANGED <<onAir, call>>
       ELSE onAir' = song[t] /\ call' = "connected"
    /\ UNCHANGED chat

\* call.Play returns an error.  connectCall may have stopped the engine, may
\* have left it a call that is not connected (a refused join), or the call
\* sounds all the same (updateSources); a source that is refused leaves the
\* old stream running or ends it.
PlayFails(t) ==
    IF call = "none"
    THEN \/ call' \in {"none", "unconnected"} /\ onAir' = None
         \/ call' = "connected" /\ onAir' = song[t]
    ELSE UNCHANGED call /\ onAir' \in {onAir, None}

MediaFails(t) ==
    \/ /\ "assistant" \in Faults          \* GetGroupAssistant: no clean-up
       /\ UNCHANGED <<onAir, call, chat>>
    \/ /\ "join" \in Faults               \* joinAssistant
       /\ chat' = ClearChat
       /\ UNCHANGED <<onAir, call>>
    \/ /\ "stream" \in Faults
       /\ chat' = ClearChat
       /\ PlayFails(t)
-----------------------------------------------------------------------------
(* /play and /vplay of one track, and of a Telegram file *)

\* Mutant: nobody looks at the length of the queue.
MutantPlayUnlimited(t) ==
    /\ \/ Dispatch(t, "play", "search")
       \/ Dispatch(t, "playlist", "reset")
    /\ UNCHANGED <<chat, tracks, onAir, call, locals>>

\* The queue-limit check of handlePlay; a refused command changes nothing.
PlayCommand(t) ==
    /\ Len(chat.queue) <= QueueMax
    /\ \/ Dispatch(t, "play", "search")
       \/ Dispatch(t, "playlist", "reset")
    /\ UNCHANGED <<chat, tracks, onAir, call, locals>>

\* The search found a track; GetTrackIfExists turns it down when it is queued.
Search(t) ==
    /\ pc[t] = "search"
    /\ \E e \in Fresh :
         /\ used' = used \cup {e}
         /\ IF \E i \in DOMAIN chat.queue : IdOf[chat.queue[i]] = IdOf[e]
            THEN Return(t)
            ELSE Goto(t, "reset") /\ Capture(t, e) /\ UNCHANGED num
    /\ UNCHANGED <<chat, loop, file, onAir, call>>

SearchFails(t) ==
    /\ pc[t] = "search"
    /\ Return(t)
    /\ UNCHANGED <<chat, tracks, onAir, call>>

Reset(t) ==
    /\ At(t, "reset", IF song[t] = None THEN "addMany" ELSE "add")
    /\ chat' = ResetAutoplay(chat)
    /\ UNCHANGED <<tracks, onAir, call, locals>>

\* qLen > 1: somebody else plays; this track only waits.
Add(t) ==
    /\ pc[t] = "add"
    /\ chat' = AddSongs(chat, <<song[t]>>)
    /\ IF Len(chat'.queue) > 1 THEN Return(t) ELSE Goto(t, "fetch") /\ UNCHANGED locals
    /\ UNCHANGED <<tracks, onAir, call>>

Fetch(t) ==
    /\ pc[t] = "fetch"
    /\ \/ /\ file' = [file EXCEPT ![song[t]] = "ready"]
          /\ Goto(t, "start")
       \/ /\ "download" \in Faults
          /\ DownloadFails(song[t])
          /\ Goto(t, "undo")
    /\ UNCHANGED <<chat, used, loop, onAir, call, locals>>

Start(t) ==
    /\ pc[t] = "start"
    /\ \/ MediaStarts(t) /\ Return(t)
       \/ MediaFails(t) /\ Goto(t, "undo") /\ UNCHANGED locals
    /\ UNCHANGED tracks

\* Mutant: a /play that failed leaves its track in the queue.
MutantUndoForgets(t) ==
    /\ pc[t] = "undo"
    /\ Return(t)
    /\ UNCHANGED <<chat, tracks, onAir, call>>

\* "Cleanup on failure": drops whatever is at the head by now.
Undo(t) ==
    /\ pc[t] = "undo"
    /\ chat' = RemoveCurrentSong(chat)
    /\ Return(t)
    /\ UNCHANGED <<tracks, onAir, call>>
-----------------------------------------------------------------------------
(* /play of a playlist: handleMultipleTracks *)

Batches == {s \in BoundedSeq(Fresh, BatchMax) : s # <<>> /\ IsInjective(s)}

AddMany(t) ==
    /\ pc[t] = "addMany"
    /\ \E batch \in Batches :
         /\ chat' = AddSongs(chat, batch)
         /\ used' = used \cup ToSet(batch)
         /\ IF IsActive(chat) THEN Return(t)
            ELSE Goto(t, "loopFirst") /\ Capture(t, Head(batch)) /\ UNCHANGED num
    /\ UNCHANGED <<loop, file, onAir, call>>

\* No track is short enough: the autoplay chain was reset all the same.
AddNone(t) ==
    /\ pc[t] = "addMany"
    /\ Return(t)
    /\ UNCHANGED <<chat, tracks, onAir, call>>

\* Mutant: the first track is queued again instead of being looped once.
MutantLoopByRequeue(t) ==
    /\ At(t, "loopFirst", "next")
    /\ chat' = AddSongs(chat, <<song[t]>>)
    /\ Capture(t, None)
    /\ UNCHANGED <<tracks, onAir, call, num>>

\* firstTrack.Loop = 1, written outside the cache's lock, so that PlayNext
\* replays the head instead of dropping it.
LoopFirst(t) ==
    /\ At(t, "loopFirst", "next")
    /\ loop' = [loop EXCEPT ![song[t]] = 1]
    /\ Capture(t, None)
    /\ UNCHANGED <<chat, used, file, onAir, call, num>>
-----------------------------------------------------------------------------
(* PlayNext *)

GetLoop(t) ==
    /\ pc[t] = "next"
    /\ LET n == IF IsActive(chat) THEN loop[GetPlayingTrack(chat)] ELSE 0 IN
         /\ num' = [num EXCEPT ![t] = n]
         /\ Goto(t, IF n > 0 THEN "setLoop" ELSE "upcoming")
    /\ UNCHANGED <<chat, tracks, onAir, call, song>>

\* Mutant: the loop count is written back as it was read.
MutantLoopForever(t) ==
    /\ At(t, "setLoop", "replay")
    /\ loop' = IF IsActive(chat)
               THEN [loop EXCEPT ![GetPlayingTrack(chat)] = num[t]]
               ELSE loop
    /\ num' = [num EXCEPT ![t] = 0]
    /\ UNCHANGED <<chat, used, file, onAir, call, song>>

\* SetLoopCount of the track that is at the head now.
SetLoop(t) ==
    /\ At(t, "setLoop", "replay")
    /\ loop' = IF IsActive(chat)
               THEN [loop EXCEPT ![GetPlayingTrack(chat)] = num[t] - 1]
               ELSE loop
    /\ num' = [num EXCEPT ![t] = 0]
    /\ UNCHANGED <<chat, used, file, onAir, call, song>>

Replay(t) ==
    /\ pc[t] = "replay"
    /\ IF IsActive(chat)
       THEN Goto(t, "announce") /\ Capture(t, GetPlayingTrack(chat))
       ELSE Goto(t, "upcoming") /\ UNCHANGED song
    /\ UNCHANGED <<chat, tracks, onAir, call, num>>

\* GetUpcomingTrack, before autoplay ("upcoming") and after it ("autoNext").
Upcoming(t) ==
    /\ pc[t] \in {"upcoming", "autoNext"}
    /\ IF HasUpcomingTrack(chat)
       THEN Goto(t, "drop") /\ Capture(t, GetUpcomingTrack(chat))
       ELSE /\ Goto(t, IF pc[t] = "upcoming" THEN "current" ELSE "finish")
            /\ UNCHANGED song
    /\ UNCHANGED <<chat, tracks, onAir, call, num>>

\* Mutant: the track that was played stays in the queue.
MutantDropForgets(t) == At(t, "drop", "announce") /\ UNCHANGED <<chat, tracks, onAir, call, locals>>

Drop(t) ==
    /\ At(t, "drop", "announce")
    /\ chat' = RemoveCurrentSong(chat)
    /\ UNCHANGED <<tracks, onAir, call, locals>>

\* The queue is finished: drop the last track, then handleNoSong.
Finish(t) ==
    /\ At(t, "finish", "stop")
    /\ chat' = RemoveCurrentSong(chat)
    /\ UNCHANGED <<tracks, onAir, call, locals>>
-----------------------------------------------------------------------------
(* tryAutoplay *)

\* The base track; autoplay is off without one, or when its requester is
\* anonymous (UserID 0).
Current(t) ==
    /\ pc[t] = "current"
    /\ \/ /\ IsActive(chat)
          /\ "autoplay" \in Commands
          /\ Goto(t, "budget")
          /\ Capture(t, GetPlayingTrack(chat))
       \/ Goto(t, "finish") /\ UNCHANGED song
    /\ UNCHANGED <<chat, tracks, onAir, call, num>>

\* What is left of the chain, and the requester's setting in the database.
Budget(t) ==
    /\ pc[t] = "budget"
    /\ \/ /\ chat.left # 0
          /\ num' = [num EXCEPT ![t] = IF chat.left = NotStarted
                                       THEN AutoplayLimit ELSE chat.left]
          /\ Goto(t, "query")
          /\ UNCHANGED song
       \/ /\ Goto(t, "finish")
          /\ Capture(t, None)
          /\ UNCHANGED num
    /\ UNCHANGED <<chat, tracks, onAir, call>>

\* A search result that is not the base track, was not played recently, and
\* neither was another upload of the same song.
Candidates(base) ==
    {e \in Fresh :
        /\ IdOf[e] # IdOf[base]
        /\ ~ WasPlayed(chat, IdOf[e])
        /\ TitleOf[e] # TitleOf[base]
        /\ ~ WasTitlePlayed(chat, TitleOf[e])}

Query(t) ==
    /\ pc[t] = "query"
    /\ \E e \in Candidates(song[t]) :
         /\ used' = used \cup {e}
         /\ Capture(t, e)
    /\ Goto(t, "claim")
    /\ UNCHANGED <<chat, loop, file, onAir, call, num>>

QueryFails(t) ==
    /\ At(t, "query", "finish")
    /\ Capture(t, None)
    /\ num' = [num EXCEPT ![t] = 0]
    /\ UNCHANGED <<chat, tracks, onAir, call>>

\* Mutant: the track found by autoplay is not charged.
MutantClaimFree(t) ==
    /\ At(t, "claim", "enqueue")
    /\ chat' = SetAutoplayRemaining(chat, num[t])
    /\ num' = [num EXCEPT ![t] = 0]
    /\ UNCHANGED <<tracks, onAir, call, song>>

Claim(t) ==
    /\ At(t, "claim", "enqueue")
    /\ chat' = SetAutoplayRemaining(chat, num[t] - 1)
    /\ num' = [num EXCEPT ![t] = 0]
    /\ UNCHANGED <<tracks, onAir, call, song>>

Enqueue(t) ==
    /\ At(t, "enqueue", "autoNext")
    /\ chat' = AddSongs(chat, <<song[t]>>)
    /\ Capture(t, None)
    /\ UNCHANGED <<tracks, onAir, call, num>>
-----------------------------------------------------------------------------
(* playSong *)

Announce(t) ==
    /\ pc[t] = "announce"
    /\ \/ Goto(t, "prepare") /\ UNCHANGED locals
       \/ "send" \in Faults /\ Return(t)
    /\ UNCHANGED <<chat, tracks, onAir, call>>

\* downloadAndPrepareSong; a failure goes on to the next track.
Prepare(t) ==
    /\ pc[t] = "prepare"
    /\ \/ /\ file' = [file EXCEPT ![song[t]] = "ready"]
          /\ Goto(t, "stream")
          /\ UNCHANGED song
       \/ /\ file[song[t]] # "ready"
          /\ "download" \in Faults
          /\ DownloadFails(song[t])
          /\ Goto(t, "next")
          /\ Capture(t, None)
    /\ UNCHANGED <<chat, used, loop, onAir, call, num>>

Stream(t) ==
    /\ pc[t] = "stream"
    /\ \/ MediaStarts(t) /\ Goto(t, "mark") /\ UNCHANGED locals
       \/ MediaFails(t) /\ Return(t)
    /\ UNCHANGED tracks

Mark(t) ==
    /\ At(t, "mark", "markTitle")
    /\ chat' = MarkPlayed(chat, IdOf[song[t]])
    /\ UNCHANGED <<tracks, onAir, call, locals>>

MarkTitle(t) ==
    /\ pc[t] = "markTitle"
    /\ chat' = MarkTitlePlayed(chat, TitleOf[song[t]])
    /\ Return(t)
    /\ UNCHANGED <<tracks, onAir, call>>
-----------------------------------------------------------------------------
(* Stop, and the commands and events that lead to it or to PlayNext *)

Stop(t) ==
    /\ pc[t] = "stop"
    /\ \/ chat' = ClearChat /\ Goto(t, "hangUp") /\ UNCHANGED locals
       \/ "assistant" \in Faults /\ Return(t) /\ UNCHANGED chat
    /\ UNCHANGED <<tracks, onAir, call>>

HangUp(t) ==
    /\ pc[t] = "hangUp"
    /\ onAir' = None /\ call' = "none"
    /\ Return(t)
    /\ UNCHANGED <<chat, tracks>>

StopCommand(t) ==
    /\ \/ Dispatch(t, "stop", "stop") /\ IsActive(chat)
       \/ Dispatch(t, "botLeft", "stop")
    /\ UNCHANGED <<chat, tracks, onAir, call, locals>>

SkipCommand(t) ==
    /\ Dispatch(t, "skip", "next")
    /\ IsActive(chat)
    /\ UNCHANGED <<chat, tracks, onAir, call, locals>>

\* The callback goroutine of the call engine: the file came to its end.
StreamEnd(t) ==
    /\ At(t, "idle", "next")
    /\ onAir # None
    /\ onAir' = None
    /\ UNCHANGED <<chat, tracks, call, locals>>

\* /seek and /speed restart the track that is at the head with new ffmpeg
\* parameters.
RetuneCommand(t) ==
    /\ Dispatch(t, "retune", "retune")
    /\ IsActive(chat)
    /\ Capture(t, GetPlayingTrack(chat))
    /\ UNCHANGED <<chat, tracks, onAir, call, num>>

Retune(t) ==
    /\ pc[t] = "retune"
    /\ MediaStarts(t) \/ MediaFails(t)
    /\ Return(t)
    /\ UNCHANGED tracks
-----------------------------------------------------------------------------
(* Handlers that are one step: a check and one call of the cache, which     *)
(* repeats the check.                                                       *)

LoopCommand(t) ==
    /\ Dispatch(t, "loop", "idle")
    /\ IsActive(chat)
    /\ \E n \in LoopChoices : loop' = [loop EXCEPT ![GetPlayingTrack(chat)] = n]
    /\ UNCHANGED <<chat, used, file, onAir, call, locals>>

RemoveCommand(t) ==
    /\ Dispatch(t, "remove", "idle")
    /\ \E trackNum \in 1 .. Len(chat.queue) : chat' = RemoveTrack(chat, trackNum)
    /\ UNCHANGED <<tracks, onAir, call, locals>>

\* A voice chat started or ended, or the assistant left or was banned.  The end
\* of a voice chat may have stopped the engine (module UbotCall).
ClearEvent(t) ==
    /\ Dispatch(t, "clear", "idle")
    /\ chat' = ClearChat
    /\ \/ UNCHANGED <<onAir, call>>
       \/ onAir' = None /\ call' = "none"
    /\ UNCHANGED <<tracks, locals>>
-----------------------------------------------------------------------------
\* The steps a goroutine takes once it has been started.
Run(t) ==
    \/ Search(t) \/ SearchFails(t) \/ Reset(t) \/ Add(t) \/ Fetch(t) \/ Start(t) \/ Undo(t)
    \/ AddMany(t) \/ AddNone(t) \/ LoopFirst(t)
    \/ GetLoop(t) \/ SetLoop(t) \/ Replay(t) \/ Upcoming(t) \/ Drop(t) \/ Finish(t)
    \/ Current(t) \/ Budget(t) \/ Query(t) \/ QueryFails(t) \/ Claim(t) \/ Enqueue(t)
    \/ Announce(t) \/ Prepare(t) \/ Stream(t) \/ Mark(t) \/ MarkTitle(t)
    \/ Stop(t) \/ HangUp(t) \/ Retune(t)

\* What users and Telegram send.
Event(t) ==
    \/ PlayCommand(t) \/ SkipCommand(t) \/ StopCommand(t) \/ RetuneCommand(t)
    \/ LoopCommand(t) \/ RemoveCommand(t) \/ ClearEvent(t)

Next == \E t \in Threads : Run(t) \/ Event(t) \/ StreamEnd(t)

Spec == Init /\ [][Next]_vars

\* Goroutines are scheduled, and every request they make returns or times
\* out; a file that is streamed comes to its end, and the callback for it has
\* a goroutine of its own, so commands cannot keep it from running.
Fairness == \A t \in Threads : WF_vars(Run(t)) /\ SF_vars(StreamEnd(t))

FairSpec == Spec /\ Fairness
=============================================================================
