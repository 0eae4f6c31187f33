------------------------------ MODULE Download ------------------------------
(***************************************************************************)
(* How a song gets on the disk (core/dl): goroutines of several chats ask  *)
(* for one song, which comes from YouTube through a token API, from the    *)
(* logger group a former download was sent to, from Spotify through a      *)
(* decrypted copy, or from Telegram itself.  All of them write under the   *)
(* final name, and take a file that is there for a file that is complete.  *)
(*                                                                         *)
(* A file is the set of the pieces it holds.  An open handle writes on to  *)
(* the file it opened: os.Create of a name that exists truncates that very *)
(* file, os.Remove takes the name from everybody who writes it.            *)
(* os.WriteFile is an os.Create followed by the writing.                   *)
(***************************************************************************)
EXTENDS Naturals, FiniteSets

CONSTANTS Loaders,              \* goroutines that call DownloadSong
          None,                 \* no file
          Pieces,               \* a song has the pieces 1 .. Pieces
          MaxLoads, MaxFaults, MaxCrashes    \* bounds

ASSUME DownloadAssumption ==
    /\ Pieces \in Nat \ {0} /\ {MaxLoads, MaxFaults, MaxCrashes} \subseteq Nat
    /\ \A held \in SUBSET (1 .. Pieces) : None # held

Song      == 1 .. Pieces
Platforms == {"youtube", "spotify", "telegram"}
Contents  == {None} \cup SUBSET Song

VARIABLES platform,    \* where the song comes from
          disk,        \* [Files -> Contents]
          record,      \* its document in songCacheDB: nothing, a path or a link
          pc, left,    \* per loader: its step, the pieces it still writes,
          linked,      \* whether the file it writes still has its name,
          out,         \* and what it handed to the player, {} for an error
          upload,      \* per loader: the goroutine that fills the logger group,
          body,        \* and what it sent
          overlapped, interrupted, spoiled, loads, faults, crashes

vars == <<platform, disk, record, pc, left, linked, out, upload, body,
          overlapped, interrupted, spoiled, loads, faults, crashes>>
history == <<platform, overlapped, spoiled, loads, crashes>>

Files == {"song", "encrypted", "decrypted"}
Steps == {"idle", "record", "message", "stat", "token", "create", "write", "cache",
          "receive", "fill", "fetch", "save", "decrypt", "keep"}

Init ==
    /\ platform \in Platforms
    /\ disk = [f \in Files |-> None]
    /\ record = [kind |-> "none", body |-> {}]
    /\ pc = [l \in Loaders |-> "idle"] /\ left = [l \in Loaders |-> {}]
    /\ linked = [l \in Loaders |-> FALSE] /\ out = [l \in Loaders |-> {}]
    /\ upload = [l \in Loaders |-> "none"] /\ body = [l \in Loaders |-> {}]
    /\ overlapped = FALSE /\ interrupted = FALSE /\ spoiled = FALSE
    /\ loads = 0 /\ faults = 0 /\ crashes = 0
-----------------------------------------------------------------------------
(* Steps every source shares *)

At(l, p) == pc[l] = p
Goto(l, p) == pc' = [pc EXCEPT ![l] = p]

Works == faults' = faults
Fails == faults < MaxFaults /\ faults' = faults + 1

\* The file a loader writes, step by step.
Target(l) == CASE pc[l] = "save" -> "encrypted"
               [] pc[l] = "keep" -> "decrypted"
               [] OTHER -> "song"

\* A loader returns: it closes its file, and the deferred function of
\* processSpotify removes both copies, whoever writes them.
NoWorkFiles(d) == IF platform = "spotify"
                  THEN [d EXCEPT !["encrypted"] = None, !["decrypted"] = None]
                  ELSE d
CleanUp(l) ==
    /\ disk' = NoWorkFiles(disk)
    /\ linked' = [k \in Loaders |-> k # l /\ linked[k] /\ pc[k] \notin {"save", "keep"}]

\* The caller gets the path, and the player opens what the file holds.
Return(l) == Goto(l, "idle") /\ out' = [out EXCEPT ![l] = {disk["song"]}]
Refuse(l) == Goto(l, "idle") /\ out' = out

\* os.Create: an empty file, or the one that is there with nothing left in it.
CreateFile(l, f) ==
    /\ disk' = [disk EXCEPT ![f] = {}]
    /\ linked' = [linked EXCEPT ![l] = TRUE]

\* os.Remove of the final name, whoever writes the file.
RemoveSong ==
    /\ disk' = [disk EXCEPT !["song"] = None]
    /\ linked' = [l \in Loaders |-> FALSE]

ThereIs == disk["song"] # None
NotEmpty == disk["song"] \notin {None, {}}

\* A chat asks for the song.  Only downloads from YouTube look at the record.
DownloadSong(l) ==
    /\ At(l, "idle") /\ upload[l] = "none" /\ loads < MaxLoads
    /\ loads' = loads + 1
    /\ Goto(l, IF platform = "youtube" THEN "record" ELSE "stat")
    /\ out' = [out EXCEPT ![l] = {}]
    /\ overlapped' = (overlapped \/ \E k \in Loaders \ {l} : pc[k] # "idle")
    /\ UNCHANGED <<platform, disk, record, left, linked, upload, body,
                   interrupted, spoiled, faults, crashes>>

\* io.CopyBuffer, the library's download, os.WriteFile and ffmpeg write the
\* next piece.
WritePiece(l) ==
    /\ pc[l] \in {"write", "fill", "save", "keep"} /\ left[l] # {}
    /\ \E p \in left[l] :
          /\ \A q \in left[l] : p <= q
          /\ left' = [left EXCEPT ![l] = @ \ {p}]
          /\ disk' = IF linked[l] THEN [disk EXCEPT ![Target(l)] = @ \cup {p}] ELSE disk
    /\ UNCHANGED <<history, record, pc, linked, out, upload, body, interrupted, faults>>

\* The Telegram library opens the file it fills.
OpenFile(l) ==
    /\ At(l, "receive") /\ Goto(l, "fill") /\ CreateFile(l, "song")
    /\ UNCHANGED <<history, record, left, out, upload, body, interrupted, faults>>

\* It is done, and the path is returned; or it gives up, and may leave what it
\* has written.  After a failed download from the logger group the ordinary
\* way is tried.
Filled(l) ==
    /\ At(l, "fill") /\ left[l] = {}
    /\ Return(l) /\ CleanUp(l)
    /\ UNCHANGED <<history, record, left, upload, body, interrupted, faults>>

FillFails(l) ==
    /\ At(l, "fill") /\ Fails /\ interrupted' = TRUE
    /\ Goto(l, IF platform = "youtube" THEN "stat" ELSE "idle")
    /\ \/ CleanUp(l)
       \/ /\ linked' = [k \in Loaders |-> FALSE]
          /\ disk' = [NoWorkFiles(disk) EXCEPT !["song"] = None]
    /\ left' = [left EXCEPT ![l] = {}]
    /\ UNCHANGED <<history, record, out, upload, body>>
-----------------------------------------------------------------------------
(* YouTube: the song cache, the logger group and the token API *)

\* GetSongCache; an error counts as no record.  A path is good if the file is
\* there and not empty; otherwise the text is taken for a message link, and a
\* path has no message id.
ReadRecord(l) ==
    /\ At(l, "record")
    /\ \/ Fails /\ Goto(l, "stat") /\ UNCHANGED <<out, left>>
       \/ /\ Works /\ record.kind = "link" /\ Goto(l, "message") /\ out' = out
          /\ left' = [left EXCEPT ![l] = record.body]
       \/ /\ Works /\ record.kind # "link" /\ left' = left
          /\ IF record.kind = "path" /\ NotEmpty THEN Return(l)
             ELSE Goto(l, "stat") /\ out' = out
    /\ UNCHANGED <<history, disk, record, linked, upload, body, interrupted>>

\* downloadFromLogger: the message's file has the name of the file that was
\* sent; a file of that name is returned without a look at its size.
AskLogger(l) ==
    /\ At(l, "message")
    /\ \/ Fails /\ Goto(l, "stat") /\ UNCHANGED <<left, out>>
       \/ Works /\ ThereIs /\ Return(l) /\ left' = [left EXCEPT ![l] = {}]
       \/ Works /\ ~ ThereIs /\ Goto(l, "receive") /\ UNCHANGED <<left, out>>
    /\ UNCHANGED <<history, disk, record, linked, upload, body, interrupted>>

\* Mutant: an empty file is another loader's, who is waited for.
MutantAwaitsLoader(l) ==
    /\ At(l, "stat") /\ (platform = "youtube" => disk["song"] # {})
    /\ IF ThereIs THEN Return(l) /\ left' = left
       ELSE /\ Goto(l, CASE platform = "youtube" -> "token"
                         [] platform = "spotify" -> "fetch"
                         [] OTHER -> "receive")
            /\ left' = [left EXCEPT ![l] = Song] /\ out' = out
    /\ UNCHANGED <<history, disk, record, linked, upload, body, interrupted, faults>>

\* The file is looked for: YouTube wants it not to be empty, the others take
\* any file.
LookOnDisk(l) ==
    /\ At(l, "stat")
    /\ IF IF platform = "youtube" THEN NotEmpty ELSE ThereIs
       THEN Return(l) /\ left' = left
       ELSE /\ Goto(l, CASE platform = "youtube" -> "token"
                         [] platform = "spotify" -> "fetch"
                         [] OTHER -> "receive")
            /\ left' = [left EXCEPT ![l] = Song] /\ out' = out
    /\ UNCHANGED <<history, disk, record, linked, upload, body, interrupted, faults>>

\* downloadViaFallbackAPI asks for a token and for the stream.  An error ends
\* it; a stream answered with another status also removes the file.
AskStream(l) ==
    /\ At(l, "token")
    /\ \/ Works /\ Goto(l, "create") /\ UNCHANGED <<disk, linked, out>>
       \/ Fails /\ Refuse(l) /\ UNCHANGED <<disk, linked>>
       \/ Fails /\ Refuse(l) /\ RemoveSong
    /\ UNCHANGED <<history, record, left, upload, body, interrupted>>

Create(l) ==
    /\ At(l, "create") /\ Goto(l, "write") /\ CreateFile(l, "song")
    /\ UNCHANGED <<history, record, left, out, upload, body, interrupted, faults>>

\* Mutant: the file stays.
MutantBreakKeepsFile(l) ==
    /\ At(l, "write") /\ Fails /\ Refuse(l) /\ disk' = disk
    /\ linked' = [linked EXCEPT ![l] = FALSE] /\ left' = [left EXCEPT ![l] = {}]
    /\ UNCHANGED <<history, record, upload, body, interrupted>>

\* A broken stream, or one slower than the client's timeout: the file is
\* removed.
StreamBreaks(l) ==
    /\ At(l, "write") /\ Fails /\ Refuse(l)
    /\ RemoveSong /\ left' = [left EXCEPT ![l] = {}]
    /\ UNCHANGED <<history, record, upload, body, interrupted>>

\* After the last piece the file must be there and not be empty.
Verify(l) ==
    /\ At(l, "write") /\ left[l] = {} /\ out' = out
    /\ IF NotEmpty
       THEN Goto(l, "cache") /\ disk' = disk /\ linked' = [linked EXCEPT ![l] = FALSE]
       ELSE Goto(l, "idle") /\ RemoveSong
    /\ UNCHANGED <<history, record, left, upload, body, interrupted, faults>>

\* The path is recorded, or not; the upload is left to a goroutine.
RecordPath(l) ==
    /\ At(l, "cache") /\ Return(l)
    /\ \/ Works /\ record' = [kind |-> "path", body |-> {}]
       \/ Fails /\ record' = record
    /\ upload' = [upload EXCEPT ![l] = "waiting"]
    /\ UNCHANGED <<history, disk, left, linked, body, interrupted>>

\* sendToLoggerGroup, once playback has started or the caller's time is over:
\* it sends what the file holds by then.
SendToLogger(l) ==
    /\ upload[l] = "waiting"
    /\ \/ /\ Works /\ NotEmpty
          /\ upload' = [upload EXCEPT ![l] = "sent"]
          /\ body' = [body EXCEPT ![l] = disk["song"]]
          /\ spoiled' = (spoiled \/ disk["song"] # Song)
       \/ /\ IF NotEmpty THEN Fails ELSE Works
          /\ upload' = [upload EXCEPT ![l] = "none"] /\ UNCHANGED <<body, spoiled>>
    /\ UNCHANGED <<platform, overlapped, loads, crashes, disk, record, pc, left,
                   linked, out, interrupted>>

RecordLink(l) ==
    /\ upload[l] = "sent"
    /\ \/ Works /\ record' = [kind |-> "link", body |-> body[l]]
       \/ Fails /\ record' = record
    /\ upload' = [upload EXCEPT ![l] = "none"] /\ body' = [body EXCEPT ![l] = {}]
    /\ UNCHANGED <<history, disk, pc, left, linked, out, interrupted>>
-----------------------------------------------------------------------------
(* Spotify: an encrypted and a decrypted copy; a deferred function removes *)
(* both, and every loader uses the same names                              *)

\* http.Get, and the encrypted copy is opened; nothing is fetched without a key.
FetchEncrypted(l) ==
    /\ At(l, "fetch") /\ out' = out
    /\ \/ Works /\ Goto(l, "save") /\ CreateFile(l, "encrypted")
       \/ Fails /\ Goto(l, "idle") /\ CleanUp(l)
    /\ UNCHANGED <<history, record, left, upload, body, interrupted>>

\* os.WriteFile fails.
SaveFails(l) ==
    /\ pc[l] \in {"save", "keep"} /\ Fails /\ Refuse(l) /\ CleanUp(l)
    /\ left' = [left EXCEPT ![l] = {}]
    /\ UNCHANGED <<history, record, upload, body, interrupted>>

\* decryptAudioFile reads the encrypted copy back, whatever is in it by then.
Decrypt(l) ==
    /\ At(l, "save") /\ left[l] = {} /\ out' = out
    /\ IF disk["encrypted"] = None
       THEN Goto(l, "idle") /\ CleanUp(l) /\ UNCHANGED <<left, spoiled>>
       ELSE /\ Goto(l, "decrypt") /\ disk' = disk
            /\ linked' = [linked EXCEPT ![l] = FALSE]
            /\ left' = [left EXCEPT ![l] = disk["encrypted"]]
            /\ spoiled' = (spoiled \/ disk["encrypted"] # Song)
    /\ UNCHANGED <<platform, overlapped, loads, crashes, record, upload, body, interrupted, faults>>

\* The decrypted copy is opened and then written.
OpenDecrypted(l) ==
    /\ At(l, "decrypt") /\ Goto(l, "keep") /\ CreateFile(l, "decrypted")
    /\ UNCHANGED <<history, record, left, out, upload, body, interrupted, faults>>

\* rebuildOGG patches the copy, and its errors are only logged.  fixOGG has
\* ffmpeg read it; ffmpeg refuses an input that is not there or has nothing
\* in it, and does not overwrite an output that is there.
FixOGG(l) ==
    /\ At(l, "keep") /\ left[l] = {} /\ out' = out
    /\ IF ThereIs \/ disk["decrypted"] \in {None, {}}
       THEN Goto(l, "idle") /\ CleanUp(l) /\ UNCHANGED <<left, spoiled>>
       ELSE /\ Goto(l, "fill") /\ CreateFile(l, "song")
            /\ left' = [left EXCEPT ![l] = disk["decrypted"]]
            /\ spoiled' = (spoiled \/ disk["decrypted"] # Song)
    /\ UNCHANGED <<platform, overlapped, loads, crashes, record, upload, body, interrupted, faults>>

\* ffmpeg comes to the end of a copy that another loader has truncated and not
\* yet written again: it copies no more, and exits with 0.
ShortRead(l) ==
    /\ At(l, "fill") /\ platform = "spotify" /\ left[l] # {}
    /\ \E k \in Loaders \ {l} : pc[k] = "keep" /\ left[k] # {}
    /\ left' = [left EXCEPT ![l] = {}] /\ spoiled' = TRUE
    /\ UNCHANGED <<platform, overlapped, loads, crashes, disk, record, pc, linked, out,
                   upload, body, interrupted, faults>>
-----------------------------------------------------------------------------
\* The process is killed and started again: the records stay, and the files
\* too unless the container was replaced.
Crash ==
    /\ crashes < MaxCrashes /\ crashes' = crashes + 1
    /\ \E l \in Loaders : pc[l] # "idle" \/ upload[l] # "none"
    /\ pc' = [l \in Loaders |-> "idle"] /\ left' = [l \in Loaders |-> {}]
    /\ linked' = [l \in Loaders |-> FALSE] /\ out' = [l \in Loaders |-> {}]
    /\ upload' = [l \in Loaders |-> "none"] /\ body' = [l \in Loaders |-> {}]
    /\ disk' \in {disk, [f \in Files |-> None]}
    /\ UNCHANGED <<platform, record, overlapped, interrupted, spoiled, loads, faults>>

Load(l) ==
    \/ ReadRecord(l)  \/ AskLogger(l)      \/ LookOnDisk(l) \/ AskStream(l)
    \/ Create(l)      \/ OpenFile(l)       \/ WritePiece(l) \/ Verify(l)
    \/ Filled(l)      \/ RecordPath(l)     \/ FixOGG(l)     \/ FetchEncrypted(l)
    \/ Decrypt(l)     \/ OpenDecrypted(l)  \/ ShortRead(l)  \/ SaveFails(l)
    \/ StreamBreaks(l) \/ FillFails(l)

Share(l) == SendToLogger(l) \/ RecordLink(l)

Next == \/ \E l \in Loaders : DownloadSong(l) \/ Load(l) \/ Share(l)
        \/ Crash

Spec == Init /\ [][Next]_vars

\* A loader waits for an answer without a deadline: http.Get of the CDN, a
\* message asked of Telegram, a file of Telegram that does not come from the
\* logger group.
Hangs(l) ==
    \/ pc[l] \in {"fetch", "message"}
    \/ platform = "telegram" /\ pc[l] \in {"receive", "fill"}

\* Goroutines run, and what else they wait for has a deadline: the database, the
\* token API and its stream, the file of the logger group, ffmpeg.  An upload
\* has none.
FairSpec == Spec /\ \A l \in Loaders :
                        WF_vars(~ Hangs(l) /\ Load(l)) /\ WF_vars(RecordLink(l))
-----------------------------------------------------------------------------
\* Neither a crash nor a download given up by the library or by ffmpeg left a
\* file nobody removes.
Unhurt == crashes = 0 /\ ~ interrupted

\* While the chats do not ask at the same time, the player is only given a
\* complete song, and only a complete one goes to the logger group, whichever
\* requests fail on the way.
ServedWhole ==
    Unhurt /\ ~ overlapped =>
        /\ \A l \in Loaders : out[l] \subseteq {Song}
        /\ record.kind = "link" => record.body = Song

\* Loaders that overlap truncate and remove each other's files, and one may be
\* given what another has not finished.  But what is left once all of them
\* have returned is a complete song or none, and the damage is not served
\* again; unless somebody took a file at such a moment for whole: an upload,
\* so that the logger group serves it from then on, or a loader that made the
\* song from a copy of Spotify's that another one had truncated.
AtRestWhole ==
    Unhurt /\ ~ spoiled /\ (\A l \in Loaders : pc[l] = "idle")
        => disk["song"] \in {None, Song}

\* Every loader comes to its end, whatever a crash or another loader has left
\* on the disk, or hangs for ever in a request that has no deadline; and so
\* does every upload.
LoadsReturn ==
    \A l \in Loaders :
        /\ []<>(pc[l] = "idle") \/ <>[]Hangs(l)
        /\ []<>(upload[l] = "none") \/ <>[](upload[l] = "waiting")
=============================================================================
