------------------------------ MODULE ChatCache ------------------------------
(***************************************************************************)
(* The per-chat cache of src/src/core/cache/chat_cache.go: the music queue *)
(* of one chat, its playback history and its autoplay budget.              *)
(*                                                                         *)
(* Every method of ChatCacher runs under one mutex, so a method is one     *)
(* operator here: it takes the chat's data and returns the new data.  The  *)
(* modules that use the cache decide which calls make up one handler.      *)
(*                                                                         *)
(* The code keeps a map from chat ids to *ChatData and creates the entry   *)
(* on the first write.  A missing entry and an entry with an empty queue,  *)
(* no history and AutoplayLeft = -1 answer every method alike, so both are *)
(* EmptyChat.  Chats do not share data; one chat is modelled.  The         *)
(* language hint only orders autoplay's search queries and is left out.    *)
(***************************************************************************)
EXTENDS Integers, SequencesExt

CONSTANTS
    Entries,        \* the *CachedTrack objects: one per accepted request
    Ids,            \* track ids (never empty here)
    Titles,         \* normalised titles (never empty here)
    HistoryCap,     \* 50 in the code
    AutoplayLimit   \* 4 in the code

ASSUME CacheAssumption ==
    /\ HistoryCap \in Nat \ {0}
    /\ AutoplayLimit \in Nat \ {0}

\* AutoplayLeft of a chat in which no autoplay chain has started.
NotStarted == -1

ChatData == [queue : Seq(Entries), history : Seq(Ids), titles : Seq(Titles),
             left : NotStarted .. AutoplayLimit - 1]

EmptyChat == [queue |-> <<>>, history |-> <<>>, titles |-> <<>>, left |-> NotStarted]
-----------------------------------------------------------------------------
(* Reading *)

IsActive(chat) == chat.queue # <<>>

GetPlayingTrack(chat) == Head(chat.queue)      \* callers check IsActive

HasUpcomingTrack(chat) == Len(chat.queue) >= 2

\* Mutant: the newest request is served next.
MutantUpcomingIsNewest(chat) == chat.queue[Len(chat.queue)]

GetUpcomingTrack(chat) == chat.queue[2]

WasPlayed(chat, id) == id \in ToSet(chat.history)

WasTitlePlayed(chat, title) == title \in ToSet(chat.titles)
-----------------------------------------------------------------------------
(* Writing *)

\* Mutant: a new request goes before the ones that wait.
MutantAddSongsInFront(chat, songs) == [chat EXCEPT !.queue = songs \o @]

\* AddSong is AddSongs of one track.
AddSongs(chat, songs) == [chat EXCEPT !.queue = @ \o songs]

\* Mutant: the head is replaced by the last track, which saves shifting.
MutantRemoveBySwap(chat) ==
    IF Len(chat.queue) > 1
    THEN [chat EXCEPT !.queue = <<Last(@)>> \o SubSeq(@, 2, Len(@) - 1)]
    ELSE [chat EXCEPT !.queue = <<>>]

RemoveCurrentSong(chat) ==
    IF IsActive(chat) THEN [chat EXCEPT !.queue = Tail(@)] ELSE chat

\* The index is 0-based; one outside the queue changes nothing.
RemoveTrack(chat, index) ==
    IF index \in 0 .. Len(chat.queue) - 1
    THEN [chat EXCEPT !.queue = RemoveAt(@, index + 1)]
    ELSE chat

\* The whole entry goes: the history and the autoplay budget with the queue.
ClearChat == EmptyChat

\* Mutant: the cut comes one entry late.
MutantRememberOneMore(seen, x) ==
    IF x \in ToSet(seen) THEN seen
    ELSE IF Len(seen) <= HistoryCap THEN Append(seen, x)
    ELSE Append(Tail(seen), x)

\* Append unless already there, then keep the most recent HistoryCap.
Remember(seen, x) ==
    IF x \in ToSet(seen) THEN seen
    ELSE IF Len(seen) < HistoryCap THEN Append(seen, x)
    ELSE Append(SubSeq(seen, Len(seen) - HistoryCap + 2, Len(seen)), x)

MarkPlayed(chat, id) == [chat EXCEPT !.history = Remember(@, id)]

MarkTitlePlayed(chat, title) == [chat EXCEPT !.titles = Remember(@, title)]

SetAutoplayRemaining(chat, remaining) == [chat EXCEPT !.left = remaining]

ResetAutoplay(chat) == SetAutoplayRemaining(chat, NotStarted)
=============================================================================
