# TLA+ development of the music bot

The program is a Telegram bot, written in Go, that plays music in the voice
chats of groups. A bot account takes commands; assistant (user) accounts join the
voice chats and stream files through a native call engine. This directory models
the parts of it in which goroutines, requests that fail and cached data interact,
checks them with TLC on small instances, and proves every safety property that is
checked with TLAPS as well: for any number of goroutines, tracks, targets, lists, users
and failures, some of them (Section 4 says which) while only one goroutine is at work.

Paths below are relative to `src/src/` unless they start with another directory.

## 1. The system

### Who runs when

gogram dispatches every update (command, button, service message, participant
update) to a goroutine of its own. ntgcalls calls back from its own threads. There
is no lock per chat: what is atomic is one method of the chat cache (one mutex),
one access to a TTL cache, one database request. Everything else interleaves, also
with itself, and a handler may sit in a download for two minutes between two of its
steps.

### Components

| component | state | operations | interacts with |
|---|---|---|---|
| **Chat cache** `core/cache/chat_cache.go` | per chat: queue of `*CachedTrack` (the head is what plays), playback history by id and by title, autoplay budget, language hint | AddSong(s), GetPlayingTrack, GetUpcomingTrack, RemoveCurrentSong, RemoveTrack, ClearChat, Get/SetLoopCount, MarkPlayed, MarkTitlePlayed, autoplay counters | every handler of playback; the track objects are shared by pointer and also written without its lock |
| **Playback** `vc/calls.go`, `handlers/play.go`, `skip.go`, `stop.go`, `loop.go`, `remove.go`, `seek.go`, `speed.go`, `watcher.go` | the stream of the call engine; `FilePath` and `Loop` of tracks; locals of the goroutines | PlayMedia, PlayNext, tryAutoplay, playSong, Stop, SeekStream, ChangeSpeed, the `/play` family, events that clear a chat, stream end | chat cache, downloads, call layer, membership |
| **Voice call layer** `vc/ubot` | per chat: waitConnect channel, pending connections, input group call, sources, presentations | Play, Stop, connectCall, callbacks of the engine, updates of the group call | call engine, Telegram |
| **Call engine binding** `vc/ntgcalls` | inside the native library | create, connect, set sources, stop; callbacks | call layer |
| **Assistants** `vc/calls.go`, `vc/sessions` | clients, assistant of each chat (database) | getClientName, StartClient, StopAllClients | database |
| **Membership** `vc/userbot.go`, `leave_all.go`, `handlers/participant.go` | statusCache, inviteCache (2 h) | joinAssistant, checkUserStats, joinUb, LeaveAll, participant updates | Telegram, assistants, chat cache |
| **Database** `core/db` | chats, users, bot record, songs, playlists in MongoDB; a write-through TTL cache in front | getters and setters of settings, authorised users, lists of ids | every handler |
| **Admin cache and filters** `core/cache/admin_cache.go`, `handlers/filters.go` | admins per chat | GetAdmins, GetUserAdmin, the filters of each command | Telegram, database |
| **Broadcast** `handlers/broadcast.go` | two atomic flags; per broadcast a queue of items and counters | `/broadcast`, `/cancelbroadcast`, a pool of 20 workers | database, Telegram |
| **RTMP streams** `handlers/setrmtp.go` | map chat -> stream; an ffmpeg process each | `/stream`, `/stopstream`, the goroutine that waits for ffmpeg | processes, database |
| **Downloads** `core/dl` | files, the song cache (database) | search, info, download, upload to the logger group | HTTP, file system, database, Telegram |
| **Autoplay selection** `vc/calls.go` | the language hint of a chat | detection of languages and scripts, filters of search results | chat cache, playback |
| **Playlists** `core/db/playlist.go`, `handlers/playlist.go`, `handlers/callbacks.go` | one document per list | create, add, remove, delete, the + button | database |
| **Presentation, tools, start-up** | none of their own | help, statistics, shell, thumbnails, configuration | |

### What makes it hard, and what must hold

- *Playback.* A check and the step it allows are never one critical section:
  the queue limit and AddSong, "is anything upcoming" and RemoveCurrentSong, the
  budget read and the budget written, `/play`'s download and its PlayMedia, ClearChat
  and call.Stop. A handler can be overtaken by `/stop`, by the end of the stream, by
  another `/play`. What must hold: a queue of distinct tracks served in order; the
  head is what sounds; nothing sounds after a stop; every accepted track gets its
  turn; the limit and the budget mean something; no recursion without end.
- *Broadcast.* Workers take and put back items while a cancellation may come; each
  target must get the message once and be counted once, and the pool must drain.
- *RTMP.* A process that ends and users who stop and restart compete for one map
  entry, and `/stream` looks at the map long before it writes there. A live process must
  stay reachable for `/stopstream`.
- *Call layer.* One unbuffered channel per chat joins the caller with the engine's
  callback; a second caller or a second callback breaks the pairing.
  What must hold: each caller of Play gets an answer; the engine is in no voice chat
  that has ended, although an update without a peer finds its chat only through the
  call that is stored; a private call keeps its configuration while it is set up.
- *Database cache.* Reads fill a cache that writes update in a later step, and an
  entry may hold only some of the fields. What must hold: nothing is shown that was
  never stored; handlers that do not overlap leave the cache current; callers agree on
  one assistant.
- *Membership.* The group changes without the bot, failures are cached as facts for
  hours, and updates are handled beside the commands they correct. What must hold:
  the bot does not believe in a membership that ended, and it recovers.
- *Downloads.* Chats that want one song write one file under its final name, each open
  truncates it for the others, and a file that is there counts as complete. What must
  hold: nobody is served half a song when nobody else asked for it, and overlap leaves
  no damage behind.
- *Playlists.* Every handler decides on what it read in an earlier request.
- *Autoplay selection.* The language of a chain of tracks is inferred from titles, many
  of which have none.

The complete list, one entry per line of code where it bites, is under `hazards` in
`PROJECT.json`.

## 2. The modules

    ChatCache  <-- Player  <-- PlayerProperties  <-- MCPlayer
                                   |    \---- Box == INSTANCE Jukebox
                                   |
                              PlayerProofs
                                   |
                              AutoplayLane  <-- MCAutoplayLane

    Broadcast  <-- MCBroadcast,  BroadcastProofs
    Playlists  <-- MCPlaylists,  PlaylistProofs
    UbotCall   <-- MCUbotCall,   UbotCallProofs
    ChatRecord <-- MCChatRecord, ChatRecordProofs
    Membership <-- MCMembership, MembershipProofs
    Download   <-- MCDownload,   DownloadProofs
    RtmpStream <-- RtmpProofs

The modules meet where the code does: `Player` takes the outcomes of joinAssistant
(`Faults` "assistant", "join"; Membership), of call.Play (`MediaStarts`, `PlayFails`;
UbotCall), of a download (Download), the autoplay flag (ChatRecord) and the candidate
autoplay chose (AutoplayLane) as arbitrary choices among those the code tells apart;
the other modules say how these choices come about. Nothing is read back across these
borders, so that a module holds for whatever its callers do.

**ChatCache** - the methods of `ChatCacher` as operators on one chat's record
`[queue, history, titles, left]`. Each method holds one mutex, so one operator is
one atomic access. A chat without an entry and a chat with an empty one answer alike
and are the same value. `Entries` are the `*CachedTrack` objects: one for each
accepted request, so the same song can be in the queue as two entries.

**Player** - playback of one chat (chats share nothing). `Threads` are the goroutines
at work; `pc[t]` names the next step of goroutine `t`, `song[t]` and `num[t]` the
track and the count it holds from earlier steps. One action is one access to the
cache, or one request (search, download, message, engine call) with its outcomes:

| actions | code |
|---|---|
| PlayCommand, Search, SearchFails, Reset, Add, Fetch, Start, Undo | `handlePlay` (limit), handleMedia / handleTextSearch / handleUrl, `handleSingleTrack` |
| AddMany, AddNone, LoopFirst | `handleMultipleTracks` |
| GetLoop, SetLoop, Replay, Upcoming, Drop, Finish | `PlayNext`, handleNoSong |
| Current, Budget, Query, QueryFails, Claim, Enqueue | `tryAutoplay` |
| Announce, Prepare, Stream, Mark, MarkTitle | `playSong`, downloadAndPrepareSong |
| MediaStarts, PlayFails, MediaFails | the outcomes of `PlayMedia` and what it clears |
| Stop, HangUp, StopCommand, SkipCommand | `Stop`, `/stop`, `/skip` and their buttons |
| RetuneCommand, Retune | SeekStream, ChangeSpeed |
| LoopCommand, RemoveCommand, ClearEvent | `/loop`, `/remove`, voice chat started or ended, assistant left or banned |
| StreamEnd | OnStreamEnd in `RegisterHandlers` |

`call` is what the engine holds for the chat: no call, a connected one, or one that
connectCall left `unconnected` when Telegram or the engine refused the join. On such a
call the next Play sets the source, reports success and is heard by nobody; only
Stop ends that.

`Faults` selects which requests may fail: `download`, `send` (the status message),
`assistant` (GetGroupAssistant), `join` (joinAssistant), `stream` (call.Play).
`Commands` selects what users send. Both are parameters so that a run can say under
which faults a property holds; the proofs leave them arbitrary.

**Jukebox** - the abstract specification: a line of tracks served in order; the head
is tried, then played, then gives way. `ServesInOrder` states that `Player`
implements it, with the queue as the line, tracks whose download was attempted as
the tried ones, and the engine's stream as what sounds.

**PlayerProperties** - the properties, in two groups: those that hold however
goroutines interleave, and those that hold while handlers do not overlap.

**AutoplayLane** - one chat's chain of tracks. A track is what the filters of
`tryAutoplay` see of it: the languages and scripts of its title, whether it has a word
no song has, its length. PlayNow is a `/play` on an empty queue, PlayQueued a track of
the queue, Autoplay a track the filters let through; `lanes` and `loose` are history.

**Broadcast** - the handlers, each with a pool of workers over one queue, and the two
shared flags. Flag parsing is reduced to its result (does it parse, which targets are
left).

**RtmpStream** - one chat's entry in `streams`, the processes, and for each process
the goroutine that waits for it. Any number of handlers start and stop: each looks at
the map, starts its process and enters it in three steps. Handlers and waiters take the
entry in one step and kill what they took in a later one. `raced` is history: streams
entered while another `/stream` was between its look and its entry.

**UbotCall** - one chat (a group with a normal or a streamed voice chat, or a user) of
one assistant. `wait` is `waitConnect[chat]`, a channel known by the number of the
connectCall that made it; a report of the engine is a goroutine that first reads the
map (`Callback`) and then meets whoever receives on that channel (`Deliver`). Connect,
Create, CreateSources, Lookup, Fetch, Store, Join, Attach, Mode, Await follow
connectCall and getInputGroupCall line by line for groups; Configure, CreateP2P, Dial,
Answer, Keys for private calls; Undo is the clean-up that stops the engine, `Fail` the
one that does not. CallOpened, CallDiscarded, DiscardedStops, HandleAnswer, AnswerStops
are the handlers of Telegram's updates, CallUnresolved the update that came without a
peer about a call that is not stored, which is dropped (`missed` is history: the voice
chats whose end was told that way), Ring the incoming private call, Reconnect what the
participants update does for a streamed voice chat.

**ChatRecord** - one chat document (play mode, assistant, authorised users; admin mode
and the stream address are fields like the play mode) and the two preferences, each
with its cache entry. `loc` holds what a goroutine read. Lookup, Find, Fill are
`getChat`; UpdateChatField and Merge a setter; AddAuthUser, RemoveAuthUser, Acquire,
CacheAuth the authorised users under `chatCacheMux`; Assign, CacheAssigned, DropEntry
the atomic AssignAssistant; Scan, EmptyEntry GetAllChats; Scan, UnsetAssistants,
DropEntry `/clearassistants`, whose list of chats is short when the cursor fails or a
document does not decode, which it does not look at; Status, KeepStatus, SetStatus,
MergeStatus the preferences, UpsertUser AddUser. A failed write may have been applied.
The chat's record starts empty, with a play mode, or with an assistant that is no longer
started (`hist.gone`).

**Membership** - the assistant and the bot in one group. `status` and `bot` are what
Telegram knows, a bot that was removed and comes back included; `seen`, `invite` and
`admins` are what the caches say. CheckUserStats to PlayCall follow joinAssistant;
GetAdmins, FetchAdmins, StoreAdmins the admin cache; ReceiveUpdate and HandleJoin to
HandleBotAdminChange `handlers/participant.go`, where BotJoins and BotLeaves are
handleJoin and handleLeave for the bot itself. `Reported` is what
getStatusFromParticipant makes of a participant: a ban reads as "left" or, because a
banned participant always has its rights, as "restricted" - never as "kicked", so that
handleBan and handleUnban are not reached and are no actions. LeaveAll is `/leaveall`.
AssistantChanges, BotChanges, LinkRevoked are what others do in the group.

**Download** - the files of one song, as sets of the pieces they hold, and its record in
the song cache. Create, OpenFile, FetchEncrypted, OpenDecrypted and FixOGG open, and so
truncate, the file of their name, also for those who write or read it; WritePiece adds
to it piece by piece; RemoveSong takes the name from its writers (`linked`). A song of
Spotify's is made from two shared copies, so that whoever reads a copy that another
loader has just truncated gets a short one: ffmpeg fails on it or makes a short song
(ShortRead, `spoiled`). The upload to the logger group is a goroutine that reads the file
later.

**Playlists** - the documents of all users, one action per database request of a
handler. `raced` is history: lists with two adds at once, or with one that could not
look.

The operators named `Mutant...` are plausible wrong versions of the definition that
follows them. No specification uses them; each shows that a property depends on the
definition it replaces.

## 3. The runs

Run with `tlc -config <name>.cfg <module>`.

| run | module | what it asks | instance |
|---|---|---|---|
| `player_serial` | MCPlayer | While handlers do not overlap: `ServesInOrder` (refinement of Jukebox), `HeadOnAir`, `EveryTrackGetsItsTurn` | 1 goroutine, 4 requests for 3 tracks (two uploads of one song), all commands, faults download, join, stream |
| `player_interleaved` | MCPlayer | Whatever the order: `TypeOK`, `HistorySound`, `OwnersDistinct`, `StarterAtHead`, `QueueBounded`, `FirstComeFirstServed` | 2 goroutines, 3 requests, 7 commands, faults download, stream |
| `player_returns` | MCPlayer | `GoroutinesReturn`: the recursion of PlayNext ends although downloads fail | 2 goroutines, 2 requests, faults download, send, assistant |
| `autoplay_lane` | MCAutoplayLane | `OneLane`, `ScriptKept`: in which language and script a chain can go on | 8 languages, 5 scripts, titles that name up to two, lengths around every limit |
| `broadcast` | MCBroadcast | `TypeOK`, `Accounted`, `ServedOnce`, `BroadcastEnds` | 2 handlers, 2 workers, 2 targets, 1 retry |
| `rtmp_stream` | RtmpStream | `NoOrphan`, `EntryCleared` | 2 handlers that start and stop, 3 streams |
| `call_layer` | MCUbotCall | `TypeOK`, `WaiterReachable`, `NoGhostCall`, `ConfigHeld`, `PlaysReturn` | 1 caller of Play, 1 reconnecting update, 2 connectCalls, 2 voice chats, 1 private call |
| `chat_record` | MCChatRecord | `TypeOK`, `CachedWasWritten`, `AgreedAssistant`, `CacheCurrent`, `HandlersReturn` | 2 goroutines, 3 handlers (2 once they overlap), 2 assistants and one that is gone, 1 failure |
| `record_emptied` | MCChatRecord | violated: `ModeInForce` | as above |
| `membership` | MCMembership | `TypeOK`, `AbsenceSeen`, `ListFollows`, `AssistantReturns`, `RightsRecognised` | 1 command and 1 update at a time, 1 change from outside, 1 failure |
| `download` | MCDownload | `ServedWhole`, `AtRestWhole`, `LoadsReturn` | 2 loaders, 2 pieces, 4 requests, 2 failures, 1 crash |
| `playlists` | MCPlaylists | `OncePerList`, `ListsBounded`, `ChangesAsAsked` | 2 users, 2 goroutines, 3 lists, 2 songs, limit 1 |

### What each property says of the code

- *Player.* The queue holds distinct objects (`OwnersDistinct`) that are served in the
  order of their requests (`FirstComeFirstServed`, `ServesInOrder`); the `/play` that
  found the queue empty plays the head or nothing of the queue (`StarterAtHead`); the
  limit is exceeded only by what was on its way (`QueueBounded`); the history is a
  window (`HistorySound`); what sounds is the head (`HeadOnAir`), and no head stays for
  ever (`EveryTrackGetsItsTurn`), as long as the engine's call was connected.
- *AutoplayLane.* The comment "keep autoplay in the same language lane" is true in the
  sense of `OneLane`, although most titles name no language.
- *Broadcast.* Success, failure and what is queued or in hands always add up
  (`Accounted`), nobody gets the message twice (`ServedOnce`), the pool drains.
- *RtmpStream.* However handlers and waiters overlap, a live process is in the map or in
  the hands of somebody who is about to enter or kill it - or two `/stream` raced.
- *UbotCall.* A caller waits on the channel the engine will use (`WaiterReachable`),
  and is answered (`PlaysReturn`); the engine is in a voice chat that is over only while
  the update about it is at work (`NoGhostCall`), though the lookup of connectCall can
  store a call that has ended meanwhile.
- *ChatRecord.* Caches never show a value that was not stored; callers that select an
  assistant at once agree, which is what the conditional write of AssignAssistant is for;
  without overlap a field that is cached is current.
- *Membership.* After the updates are handled the assistant's absence and the bot's
  role are known, as far as updates tell of them; while users ask, the assistant
  returns and the bot's rights are recognised whatever the caches say.
- *Download.* Serial loads serve whole songs; overlapping ones may not, but the file
  that stays is whole or gone unless a short copy was taken for a whole one. A load
  comes to its end or hangs in one of the requests that have no deadline.
- *Playlists.* What two-step handlers keep and by how much they miss the limit.

### Why the bounds are enough

- *Goroutines.* Two reach every pairwise race between two handlers, a handler and a
  stream end, or two advances of the queue; the invariants of `player_interleaved` are
  also proved for any number.
- *Tracks.* Three or four requests give a head, an upcoming track, one behind it (so
  that order is visible) and one that autoplay finds; two ids share a title, so that
  autoplay's two histories differ.
- `QueueMax = 1` and `BatchMax = 2` make the limit bite with three tracks;
  `HistoryCap` 1 or 2 makes the window slide; `AutoplayLimit = 2` lets a chain start,
  continue and end. `LoopChoices = {0, 1}`: a higher count repeats the same steps.
- *Entries are used once.* Each request makes a new object, so a run ends when the
  requests are used up; where only bounded requests make the system stop, the
  configuration turns the deadlock check off. `player_serial` does not: with one
  goroutine a command is always possible or a stream is running.
- *RtmpStream.* Two handlers and three streams: two that start at once, and a third that
  is started after one of them ended or was stopped. A stream is an object used once.
- *Broadcast.* Two targets on two workers let an item be put back while the other
  worker leaves; two handlers overlap through the unprotected flags. In the code there
  are 20 workers and 2 retries; neither adds a step of another kind.
- *UbotCall.* Two connectCalls let a late report or update of the first call meet the
  second; two voice chats let a late "discarded" meet a new call. A streamed voice chat
  has one, since its second connectCall is the reconnection; a user has none.
  `MaxRings = 1` is an incoming call beside the outgoing one. A Play beside a Play is
  left out: see below.
- *ChatRecord.* Three handlers in a row (a write, a scan or deletion, a read) or two
  that overlap; `about` says whether they work on the chat or on the preferences, which
  share no state.
- *Membership.* One change from outside (a leave, a restriction, a ban, a promotion, the
  removal of the bot, a new link), one update on its way and one failing request at any
  step; a bot that was removed may come back beyond that bound, and the entries of the
  caches age without one. In the start states the assistant is a member or not, the bot
  an administrator with all rights or a plain member.
- *Download.* Two pieces make a half file; four requests let damage be served after the
  race; the crash comes at any step and keeps or loses the container's files.
- *Playlists.* A limit of one is passed by two handlers at once, as ten is in the code;
  `MaxSongs = 2` is a song with another one behind it.
- *AutoplayLane.* Of the fourteen languages those are kept that the filters treat
  differently: the three of the north, one with a script of its own, two that share
  one, one not in the list of hints. There is no bound on the length of a chain.

### What the runs leave out on purpose

These are conditions under which a property is false of the code, found by running it
without them; they are the meaning of the property and not conveniences.

- `HeadOnAir` holds for serial handlers only: `Stop` clears the chat and hangs up in
  two steps, and a `/play` between them leaves a queued track without sound. It is
  also run without the fault `send`: when the status message cannot be sent,
  `playSong` returns after the old head was dropped, and the new one sits at the head
  of a silent queue. `assistant` is left out for the same reason.
- `HeadOnAir` and `EveryTrackGetsItsTurn` exempt a chat that is `Unheard`: a refused
  PhoneJoinGroupCall or Connect (`vc/ubot/connect_call.go:170`, `:186`) returns without
  stopping the engine's call, PlayMedia only clears the queue, and the next Play
  (`vc/ubot/play.go:16`) changes the source of a call nobody connected, without an error.
  Nothing sounds, no stream ends, and the head stays until somebody uses `/stop`.
- `EveryTrackGetsItsTurn` excuses a head that users keep there with `/loop`, `/seek`
  or `/speed`. A connected call that the engine loses in the middle of a stream is not
  in Player; its effect would be that of `Unheard`.
- `GoroutinesReturn` is about the recursion of PlayNext, playSong and tryAutoplay: it
  takes for granted that each request returns, which `vc/ubot/connect_call.go:202` and
  `dl/spotify.go:83` do not ensure (`PlaysReturn` and `LoadsReturn` are about those).
- `NoOrphan` exempts streams that `raced`: a second `/stream` that looked at the map
  before the first one entered it overwrites the entry, and the first process can no
  longer be stopped. The one that overwrites is not exempt.
- Broadcasts: the code does not ensure that one runs at a time, and nothing here says so.
- `WaiterReachable`, `NoGhostCall` and `PlaysReturn` are run with one caller of Play: a
  second connectCall of the chat replaces the channel and the first caller waits for
  ever. The reconnection of a streamed voice chat is such a second one, and is excluded.
- `NoGhostCall` exempts, in a group that has opened a second voice chat, one whose end
  was told by an update without a peer that found another call stored (`missed`):
  `vc/ubot/handle_updates.go:209` drops it, and the engine stays in a chat that is over.
- `AbsenceSeen` and `ListFollows` look at states in which all updates were handled, one
  at a time and with nothing failed. `AbsenceSeen` exempts a change that reads as a
  restriction, a ban without "left" above all (`hist.restricted`): the default branch of
  the handler records nothing and the assistant counts as a member for two hours; and
  changes the bot is told nothing of (`hist.missed`), as it is no administrator or both
  ends read alike. `ListFollows` exempts a bot that left as an administrator or came in
  as one (`hist.moved`): handleJoin and handleLeave do not touch the list. A removal that
  makes it a member first is not exempt.
- `AgreedAssistant` is about handlers that select an assistant, with nothing failed. When
  the record names one that is gone, it holds for callers that do not overlap:
  getClientName (`vc/calls.go:86`) overwrites that name unconditionally, so that two that
  both read it return a draw each.
- `CacheCurrent` is for handlers that do not overlap. It exempts a record whose write
  failed but may have been applied, or that `/clearassistants` unset without having
  listed it (`hist.lost`), and preferences with a failed call.
- `AssistantReturns` leaves out a banned assistant: an error, or a failed join, records
  it as "left", each attempt renews the record, and it is never unbanned. It and
  `RightsRecognised` speak of groups in which the bot has its rights from some time on.
- `ServedWhole` and `AtRestWhole` are for histories without a crash or a download the
  library or ffmpeg gave up half way (`Unhurt`): both can leave a broken file that is
  then taken for complete and served from then on. `AtRestWhole` also exempts what was
  `spoiled`: an upload that read the file while another goroutine wrote it, which the
  logger group serves from then on; and a loader that read a copy of Spotify's which
  another one had truncated (`dl/spotify.go:100`, `:110`, `:124`, `:190`), from which
  ffmpeg may make a short song without an error.
- `LoadsReturn` leaves a loader in a request that has no deadline: http.Get of the CDN
  (`dl/spotify.go:83`), GetMessageByID, a download from Telegram itself
  (`dl/downloader.go:77`, `:104`). Those may hang for ever, and the song with them.
- `OneLane` and `ScriptKept` exempt chains with a title that names two languages, and a
  chain a `/play` on an empty queue starts in a language that is not the hint: that path
  does not store it (`vc/calls.go:504`), so one nameless track later the lane is lost.
  Titles in Hindi, Bhojpuri and Marathi pass every lane.
- `OncePerList` exempts lists with overlapping adds, or adds whose look failed.

### Simplifications

- UbotCall: the maps of `Context` have no lock; their accesses are taken as atomic, in
  any order. The peer, Telegram and the engine answer in any way the code distinguishes.
- Membership: one supergroup, joined through an invite link, which the bot gets only
  with its full rights; an assistant that is an administrator is a member; the three
  minutes between two `/reload` only make it rarer. The bot's own leaving is `botLeft`
  in Player.
- Download: a logger group is configured; the wait for playback before the upload is a
  delay; the song is one file; os.WriteFile is an open that truncates and writes of
  pieces, after which the copy is read in one step.
- Playlists: names are drawn at random and taken as unique; replies are left out, so
  that "added" after a concurrent deletion (an update that matches nothing is no error)
  has no property. A list that is played enters Player as a playlist.
- AutoplayLane: one track after another; the interleavings are those of Player.

### Fairness

- `WF(Run(t))`, `WF` of the steps of broadcasts, streams, handlers and commands: the Go
  scheduler runs every goroutine, and the requests of these handlers return. Those of
  the database do so after ten seconds at the latest (a context with a deadline). Player
  and UbotCall assume it of all their requests but the engine's connection; see
  `GoroutinesReturn` above.
- In Download a loader is fair only while it is not in a request without a deadline
  (`Hangs`): the database, the token API and its stream, the logger group's file and
  ffmpeg have a timeout or a context with a deadline, the other requests none. Of an
  upload only the record that follows it is fair.
- `WF(Engine)` in UbotCall: the engine decides each connection. Nothing in the code
  bounds that wait (`vc/ubot/connect_call.go:202`, see the hazards); `PlaysReturn` says
  that nothing else can keep a caller.
- `SF(StreamEnd(t))`: a file comes to its end and its callback has a goroutine of its
  own. In the model it needs an idle goroutine of a bounded pool, which commands could
  take again and again; weak fairness would let them keep the callback out, which the
  real program, with a goroutine per event, does not. A track that is `Unheard` has no
  such end: StreamEnd is not enabled for it.
- Membership: `WF(Expire...)`, entries of the TTL caches grow old; `WF` of each
  goroutine's next step or next update; `SF` of Play and Command is part of what the
  properties say: while users keep asking.
- No fairness for other commands, cancellations, changes of the group or ffmpeg's own
  end: nobody has to send them. AutoplayLane and Playlists have safety properties only.

## 4. The proofs

Checked by `tlapm`. Assumptions on the constants are those named in the modules
(`CacheAssumption`, `PlayerAssumption`, `BroadcastAssumption`, `StreamAssumption` of
RtmpStream, `PlaylistsAssumption`, `UbotAssumption`,
`ConstantsAssumption` of ChatRecord, `MembershipAssumption`, `DownloadAssumption`,
`TracksAssumption` of AutoplayLane): they have their types, limits and bounds are
numbers, what stands for "nothing" is none of the things it can be taken for, and where
something is counted the goroutines, workers, targets, names and the languages a title
names are finitely many. Nothing is assumed of how many goroutines, tracks, targets,
streams, users, lists, pieces, connectCalls or voice chats there are, of what users send
or of what fails, except by the hypotheses of these theorems:

- `WaitersReached`, `NoGhosts`, `ConfigsHeld`: one goroutine calls Play (`OneStarter` of
  UbotCallProofs), beside any number of handlers.
- `ServedAsJukebox`: one goroutine, and the status message can be sent.
- `HeadHeard`: the same, and an assistant is found.

Section 3 says why the code needs them; the runs of these properties are under the same
conditions.

Playback (PlayerProofs; the lemmas at its start say of each method of ChatCache what it
keeps, for every queue, history and budget):

| theorem | says | argument |
|---|---|---|
| `TypeCorrect` | `[]TypeOK` | Types alone are not inductive: SetLoopCount writes a count read earlier minus one, SetAutoplayRemaining the budget read before the search minus one, and tracks are handed from step to step. `LocalsSound` says what a goroutine holds at each step that uses it; `IInv` adds the windows of the history. One case per action (`ThreadsStep`), and `MoveSound` for the locals of one goroutine while the others stand still. |
| `HistoryCorrect` | `[]HistorySound` | `Remember` keeps a window of distinct entries within the cap; every other method leaves it alone or clears it. |
| `OwnersCorrect` | `[]OwnersDistinct` | A step either takes tracks out of the queue (`Shrinks`, lemma `QueueShrinks`) and hands on at most the track it had or a new one (`HandsStep`), or appends tracks nobody else holds (`AddsStep`). `ShrinkOwn` and `GrowOwn` show that both keep ownership. |
| `StarterCorrect` | `[]StarterAtHead` | The same invariant: a `/play` starts only if its track found the queue empty, and no step puts a track before another. |
| `ServedInTurn` | `FirstComeFirstServed` | With the ownership of `OwnersCorrect` a step appends tracks the queue has not (`AddsInOrder`), or keeps, clears, or takes one track out of it (`OthersTakeOut`); where each new place has an old one and the old ones rise, the order is kept (`RisingInOrder`). |
| `QueueLimit` | `[]QueueBounded` | The length alone is not inductive. Each goroutine that passed a check has room for one batch set aside (`OnItsWayToAdd`); setting out needs a queue within the limit, arriving gives the room up. |
| `ServedAsJukebox` | `ServesInOrder` | A step simulation under an invariant (`Turns`): at each step it is known whether the head was tried, is the track in hand, or is to be looped, and whether a track waits behind it (`TurnAt`). Each action then maps to one action of Jukebox or to a stutter (`LineStep`); steps that give way find a head that was tried. |
| `HeadHeard` | `[]HeadOnAir` | `Turns` and `HeadSounds`: unless the engine's call was left unconnected, the head is what sounds at the steps between a start of the media and the next decision; one that is connected stays so until a Stop (`LineCloses`). A start that fails clears the queue, so that no active chat is silent (`SoundStep`). |
| `LaneKept`, `ScriptsKept` | `LaneSpec => []OneLane`, `[]ScriptKept` | The two say nothing of the hint, on which the next choice rests. `InLane`: the hint is the language of the track that plays and one of the chain's; where the chain has a language outside the north, the hint is that one or a northern one. `NextLane`: a title that passes the filters for the hint names it, or only northern languages. That a sequence search returns the first thing found (`FirstFound`) rests on the least member of a set of numbers. |

The other parts:

| theorem | says | argument |
|---|---|---|
| `RetriesBounded`, `AllAccounted`, `NobodyServedTwice` (BroadcastProofs) | `[]TypeOK`, `[]Accounted`, `[]ServedOnce` | The three need each other. A worker takes the head of the queue (`TakeStep`), counts its item (`SettleStep`), puts it back one retry older (`RetryStep`) or goes on (`GoOnStep`); each moves one unit between the queue, the hands (`Busy`) and the counters (`Balance`, `BusyCount`). A launch gives each target one place (`LaunchStep`: a surjection between sets of one finite size is injective). `NotLaunched`: before it all counters are zero; `HoldsItem`: who is busy holds an item. |
| `StreamTypes`, `NothingOrphaned` (RtmpProofs) | `[]TypeOK`, `[]NoOrphan` | `EmptyHanded`: whoever takes a stream holds nothing else at that moment, so nothing it holds is lost. A handler that enters its stream over another's has been on its way while that one was entered, which is therefore in `raced`. `NotYetWaited`: a stream is waited for once, after it was entered. |
| `CallTypes` (UbotCallProofs) | `[]TypeOK` | The bounds of the counters are not inductive: `Counted` adds the connectCalls and private calls that goroutines on their way will still make; `Typed` what a goroutine knows of its voice chat at each step, part by part. |
| `WaitersReached`, `NoGhosts`, `ConfigsHeld` (UbotCallProofs) | `[]WaiterReachable`, `[]NoGhostCall`, `[]ConfigHeld` | `CallInv`. `Reachable`: through all of connectCall, not only while it waits, the map holds the channel of the last one made, which is its own. `Ghostless`: a voice chat the engine is in, or is about to be attached to, is on or the news of its end is still to come; a lookup that stored an old call is caught by that news. Only news that meets another stored call is dropped, and two calls take two voice chats; then the chat is `missed`. |
| `RecordTypes`, `CacheKnown` (ChatRecordProofs) | `[]TypeOK`, `[]CachedWasWritten` | `RecordInv`: also what goroutines carry between a read and a fill was stored once (`Known`), and who holds the mutex is inside AddAuthUser or RemoveAuthUser (`HasLock`). `With`, `Field` and `Auth` are described once for every record (`WithLaw`, `EmptyLaw`, `UnsetLaw`, `AuthLaw`). |
| `OneAssistant` (ChatRecordProofs) | `[]AgreedAssistant` | `Agreed`: the stored assistant, the cached one and the one each goroutine read or was given are the same; the conditional write is the only step that sets it, and does so once (`AgreedKept`). With an assistant that is gone, one caller at a time draws and stores a new one, and the next finds it. |
| `CacheAgrees` (ChatRecordProofs) | `[]CacheCurrent` | `Current` says of the one goroutine under way which field of the entry is late (`Late`), which user is still cached though revoked (`Revoked`), whether `/clearassistants` will drop the entry of what it unsets, and that what it carries to the cache is what is stored (`ChatCurrent`, `PrefsCurrent`); one lemma for each handler's steps. |
| `MemberTypes` (MembershipProofs) | `[]TypeOK` | What each goroutine holds at each step (`LocalAt`). |
| `AbsenceKnown` (MembershipProofs) | `[]AbsenceSeen` | The property speaks of states without pending updates; the invariant `Absent` of those with them: the last pending update about the assistant tells where it is (`LastTells`), unless it reads as a restriction, and once none is pending the goroutine at work knows its status (`Knows`). |
| `ListKnown` (MembershipProofs) | `[]ListFollows` | `Listing`: unless a promotion or demotion is pending (`Settles`), a goroutine is about to bring the list up to date (`Mending`), or the bot crossed the border of the group as an administrator, the list is right. |
| `AtRest` (DownloadProofs) | `[]AtRestWhole` | Overlapping writers break `disk["song"] = Song`, so `Mended` speaks of what will be: a file that lacks pieces has a writer that will add all of them (`Completed`), also when the copies it is made from are truncated meanwhile, and the record links to a whole song. |
| `Serving` (DownloadProofs) | `[]ServedWhole` | `Served`: the one goroutine at work writes a file that was not there (`Alone`), and an upload that waits finds it complete (`Waits`). |
| `ListsLimit` (PlaylistProofs) | `[]ListsBounded` | A handler that passed the check has one list set aside (`Creating`); inserting turns it into a list of its owner (`InsertStep`), setting out needs fewer lists than the limit while at most all others are on their way (`SetOutStep`), no other step makes or moves a list (`WriteStep`, `QuietStep`). |
| `PlaylistTypes`, `ListsChangeAsAsked` (PlaylistProofs) | `[]TypeOK`, `ChangesAsAsked` | `Owned`: who works on a list is its owner, since names are drawn once and an owner never changes (`OwnGo`). `OthersLeft`: what a removal leaves are all songs but the one, each as often as before. |
| `SongOnce` (PlaylistProofs) | `[]OncePerList` | `Looked`: a handler about to push to a list that is not raced still has a song that is not there. That needs `Alone`: two handlers that push to one list have made it a raced one. |

`Without` of Playlists is written with the ranks of the positions that stay, not with
SelectSeq, which the library defines by recursion; `RanksCount` shows that ranks number
the members of a finite set one by one.

Only model-checked: every liveness property (`GoroutinesReturn`,
`EveryTrackGetsItsTurn`, `BroadcastEnds`, `EntryCleared`, `PlaysReturn`,
`HandlersReturn`, `AssistantReturns`, `RightsRecognised`, `LoadsReturn`).
Fairness and ENABLED are out of the provers' reach.

## 5. What the violation run shows

`record_emptied` refutes a comment of `core/db/mongo.go:229`, "GetPlayMode retrieves the
play mode for a chat": GetAllChats (line 588), called by every broadcast, and
updateChatField (line 149) on a chat that is not cached leave an entry without the field;
getChat takes it for the chat, and for twenty minutes readers see the default.

Other places where the code does less than a comment or a reply says. The models have
the step in question; no run states the claim, or the property of Section 3 excludes the
case:

1. `/stop` while a `/play` downloads: the queue is cleared and the call is left, then
   the download returns and the handler streams its file: music without a queue, which
   `/stop` now refuses to stop because nothing is active (Player: StopCommand, Start).
2. Two goroutines in PlayNext both read the upcoming track, then both drop the head:
   one track leaves the queue without having been fetched (Upcoming, Drop).
3. A track that `/play` starts itself never enters the history, so autoplay can pick it
   again one track later (Start has no Mark).
4. A `/play` during an autoplay search resets the chain; the search writes the old
   count back (Reset, Query, Claim).
5. `/seek` and `/speed` stream the `FilePath` of the head although its download may not
   have finished (Retune).
6. `/cancelbroadcast` between the start of the command and its reset of the flag is
   answered with "Broadcast cancelled" and has no effect (Cancel, Launch).
7. `/stopstream` then `/stream`: the goroutine waiting for the first process calls
   stopStream for the chat and kills the second (WaiterTakes).
8. A refused PhoneJoinGroupCall leaves the engine with a call that is created and not
   connected; the next Play only gives it a new source, reports success and is silent
   (UbotCall: Join, Play; Player: PlayFails, MediaStarts, `Unheard`).
9. `/leaveall` compares bare with marked identifiers and leaves chats that are playing
   (Membership: LeaveAll).
10. The end of a voice chat, told without a peer while another call is stored, is
    dropped, and the engine stays in it (UbotCall: CallUnresolved).
11. A ban of the assistant reads as a leave or as a restriction; handleBan and
    handleUnban are never reached, and after the latter the assistant counts as a member
    (Membership: Reported, OtherChange).
12. A bot that is removed as an administrator and added again is still listed as one
    until the entry is an hour old (Membership: BotLeaves, BotJoins).
13. Two `/stream` at once: the second entry hides the first process, which runs until it
    ends by itself (RtmpStream: StreamCommand, `raced`).
14. Two chats that ask for one song of Spotify's truncate and delete each other's copies
    (Download: FetchEncrypted, OpenDecrypted, CleanUp).
15. `/clearassistants` with a cursor that fails unsets the assistants of chats whose
    entries it then leaves in the cache (ChatRecord: Scan, UnsetAssistants).
16. Two requests in a chat whose stored assistant is gone draw, store and use one each
    (ChatRecord: Given).

## 6. Plan

Done: ChatCache, Player, Jukebox; Broadcast; RtmpStream; UbotCall; ChatRecord;
Membership; Download; AutoplayLane; Playlists; every safety property of the runs proved
(Section 4). Next, in this order:

1. Proofs: what the liveness properties rest on and can be stated without fairness, such
   as the measure that each round of PlayNext uses up, and that no step of a broadcast
   gives a queued item more retries than it has left.
2. Abstract specifications for the parts that have none: a register for the record and
   its cache while handlers do not overlap, a set of lists for Playlists.
3. Models: the replies of `/remove` and of the playlist commands, presentation and video
   in the call layer, the tables of adminMode and playMode.

## 7. Not modelled

- Texts, keyboards, thumbnails, statistics, help, shell and developer tools: no
  protocol state.
- Pause, resume, mute: each forwards one request to the engine. Screen sharing, video
  sources and the mute state of participants in `vc/ubot`: they only reach the engine,
  and no media description of the bot has a screen.
- The binding in `vc/ntgcalls`: a wrapper that converts arguments and forwards one call;
  the library behind it, Telegram and MongoDB are external: the models have the outcomes
  the code distinguishes.
- Pure conversions (durations, normalisation of searches and titles, the tempo chain of
  `/speed`): functions of one value without state.
- Start-up and shutdown (configuration, StartClient, StopAllClients, session
  converters): they run once, before and after all updates.
- Which user may use which command: a table over the settings of ChatRecord and the
  list of Membership.
- What a search finds: arbitrary among the candidates the code accepts.
- Data races on `Loop` and `FilePath` of a shared `*CachedTrack` are modelled as atomic
  writes in any order, the outcomes a 64-bit build produces for an int; the string
  `FilePath` of one track is written by one download at a time with equal values.
- More than one chat: the caches' maps are per chat, and no operation reads another's.
  Two chats meet in Download, users in Playlists, all chats in Broadcast.
