--------------------------- MODULE DownloadProofs ---------------------------
(***************************************************************************)
(* Theorems about Download, for every number of goroutines and pieces and  *)
(* for every bound: what is left on the disk, and what is served.          *)
(***************************************************************************)
EXTENDS Download, TLAPS

\* The range of every variable the two invariants speak of.
Typed ==
    /\ platform \in Platforms
    /\ disk \in [Files -> Contents]
    /\ record \in [kind : {"none", "path", "link"}, body : SUBSET Song]
    /\ pc \in [Loaders -> Steps] /\ left \in [Loaders -> SUBSET Song]
    /\ linked \in [Loaders -> BOOLEAN] /\ out \in [Loaders -> SUBSET Contents]
    /\ upload \in [Loaders -> {"none", "waiting", "sent"}]
    /\ body \in [Loaders -> SUBSET Song]
    /\ {overlapped, interrupted, spoiled} \subseteq BOOLEAN
    /\ crashes \in Nat

Writing(l) == pc[l] \in {"write", "fill"}
Saving(l) == pc[l] \in {"save", "keep"}

\* Only a goroutine that writes has a file of its own, and it is there; and who has looked in vain
\* will write the song from its start.
Handled ==
    /\ \A l \in Loaders : linked[l] => (Writing(l) \/ Saving(l)) /\ disk[Target(l)] # None
    /\ \A l \in Loaders : pc[l] \in {"token", "create", "fetch"} => left[l] = Song

-----------------------------------------------------------------------------
\* Creating and removing the file leave the disk and the handles typed.
LEMMA FileTyped ==
    ASSUME Typed, NEW l \in Loaders,
           (\E f \in Files : CreateFile(l, f)) \/ RemoveSong \/ CleanUp(l)
    PROVE  disk' \in [Files -> Contents] /\ linked' \in [Loaders -> BOOLEAN]
<1>1. {} \in Contents /\ None \in Contents
  BY DEF Contents
<1>2. CASE \E f \in Files : CreateFile(l, f)
  BY <1>1, <1>2 DEF Typed, CreateFile
<1>3. CASE RemoveSong
  BY <1>1, <1>3 DEF Typed, RemoveSong
<1>4. CASE CleanUp(l)
  <2>1. linked' \in [Loaders -> BOOLEAN]
    BY <1>4 DEF CleanUp
  <2>2. disk' \in [Files -> Contents]
    BY <1>1, <1>4 DEF Typed, CleanUp, NoWorkFiles
  <2> QED
    BY <2>1, <2>2
<1> QED
  BY <1>2, <1>3, <1>4

\* A goroutine that returns leaves the others what they write, unless it removes the file.
LEMMA CleanUpHandled ==
    ASSUME Typed, Handled, NEW l \in Loaders, CleanUp(l), pc' = [pc EXCEPT ![l] = "idle"],
           left' = left \/ left' = [left EXCEPT ![l] = {}]
    PROVE  Handled'
<1>1. ASSUME NEW k \in Loaders, linked'[k]
      PROVE  (Writing(k) \/ Saving(k))' /\ (disk[Target(k)] # None)'
  <2>1. k # l /\ linked[k] /\ Writing(k) /\ disk[Target(k)] # None /\ pc'[k] = pc[k]
    BY <1>1 DEF CleanUp, Typed, Handled, Saving
  <2>2. Target(k) = "song" /\ Target(k)' = "song"
    BY <2>1 DEF Writing, Target
  <2>3. disk'["song"] = disk["song"]
    BY DEF CleanUp, NoWorkFiles, Typed, Files
  <2> QED
    BY <2>1, <2>2, <2>3 DEF Writing
<1>2. ASSUME NEW k \in Loaders, pc'[k] \in {"token", "create", "fetch"} PROVE left'[k] = Song
  BY <1>2 DEF Typed, Handled
<1> QED
  BY <1>1, <1>2 DEF Handled

\* A step keeps the variables typed, and the files handled as above.
LEMMA StepTyped ==
    Typed /\ Handled /\ [Next]_vars => Typed' /\ Handled'
<1> SUFFICES ASSUME Typed, Handled, [Next]_vars PROVE Typed' /\ Handled'
  OBVIOUS
<1> USE DownloadAssumption DEF Typed, Handled, Writing, Saving, Song, Files, Contents, Steps, Platforms,
        Goto, At, Works, Fails, Return, Refuse, CreateFile, RemoveSong, Target, ThereIs, NotEmpty, history
<1>1. ASSUME NEW l \in Loaders, DownloadSong(l) PROVE Typed' /\ Handled'
  BY <1>1 DEF DownloadSong
<1>2. ASSUME NEW l \in Loaders, ReadRecord(l) PROVE Typed' /\ Handled'
  BY <1>2 DEF ReadRecord
<1>3. ASSUME NEW l \in Loaders, AskLogger(l) PROVE Typed' /\ Handled'
  BY <1>3 DEF AskLogger
<1>4. ASSUME NEW l \in Loaders, LookOnDisk(l) PROVE Typed' /\ Handled'
  BY <1>4 DEF LookOnDisk
<1>5. ASSUME NEW l \in Loaders, AskStream(l) PROVE Typed' /\ Handled'
  <2>1. CASE RemoveSong /\ Refuse(l)
    BY <1>5, <2>1 DEF AskStream
  <2>2. CASE ~ RemoveSong
    BY <1>5, <2>2 DEF AskStream
  <2> QED
    BY <1>5, <2>1, <2>2 DEF AskStream
<1>6. ASSUME NEW l \in Loaders, Create(l) PROVE Typed' /\ Handled'
  BY <1>6 DEF Create
<1>7. ASSUME NEW l \in Loaders, OpenFile(l) PROVE Typed' /\ Handled'
  BY <1>7, {} \in Contents DEF OpenFile
<1>8. ASSUME NEW l \in Loaders, WritePiece(l) PROVE Typed' /\ Handled'
  BY <1>8 DEF WritePiece
<1>9. ASSUME NEW l \in Loaders, Verify(l) PROVE Typed' /\ Handled'
  <2>1. /\ pc' \in [Loaders -> Steps] /\ linked' \in [Loaders -> BOOLEAN]
        /\ disk' \in [Files -> Contents]
    <3>1. CASE NotEmpty
      BY <1>9, <3>1 DEF Verify
    <3>2. CASE ~ NotEmpty
      BY <1>9, <3>2, FileTyped DEF Verify
    <3> QED
      BY <3>1, <3>2
  <2>2. Typed'
    BY <1>9, <2>1 DEF Verify
  <2>3. Handled'
    BY <1>9, <2>1 DEF Verify
  <2> QED
    BY <2>2, <2>3
<1>10. ASSUME NEW l \in Loaders, Filled(l) PROVE Typed' /\ Handled'
  <2>1. CleanUp(l) /\ pc' = [pc EXCEPT ![l] = "idle"] /\ left' = left
    BY <1>10 DEF Filled
  <2>2. Handled'
    BY <2>1, CleanUpHandled
  <2> HIDE DEF Handled
  <2>3. Typed'
    BY <1>10, <2>1, FileTyped DEF Filled
  <2> QED
    BY <2>2, <2>3
<1>11. ASSUME NEW l \in Loaders, RecordPath(l) PROVE Typed' /\ Handled'
  BY <1>11 DEF RecordPath
<1>12. ASSUME NEW l \in Loaders, Decrypt(l) PROVE Typed' /\ Handled'
  <2>1. CASE CleanUp(l) /\ pc' = [pc EXCEPT ![l] = "idle"] /\ left' = left
    <3>1. Handled'
      BY <2>1, CleanUpHandled
    <3> HIDE DEF Handled
    <3>2. Typed'
      BY <1>12, <2>1, FileTyped DEF Decrypt
    <3> QED
      BY <3>1, <3>2
  <2>2. CASE pc' = [pc EXCEPT ![l] = "decrypt"] /\ disk["encrypted"] # None
    <3>1. disk["encrypted"] \in SUBSET Song
      BY <2>2
    <3>2. Typed'
      <4>1. pc' = [pc EXCEPT ![l] = "decrypt"] /\ pc' \in [Loaders -> Steps]
        BY <2>2
      <4>2. left' \in [Loaders -> SUBSET Song]
        BY <1>12, <4>1, <3>1 DEF Decrypt
      <4>3. spoiled' \in BOOLEAN
        BY <1>12, <4>1 DEF Decrypt
      <4>4. disk' \in [Files -> Contents] /\ linked' \in [Loaders -> BOOLEAN]
        BY <1>12, <2>2 DEF Decrypt
      <4> QED
        BY <1>12, <4>1, <4>2, <4>3, <4>4 DEF Decrypt
    <3>3. Handled'
      BY <1>12, <2>2 DEF Decrypt
    <3> QED
      BY <3>2, <3>3
  <2> QED
    BY <1>12, <2>1, <2>2 DEF Decrypt
<1>13. ASSUME NEW l \in Loaders, FetchEncrypted(l) PROVE Typed' /\ Handled'
  <2>1. CASE CleanUp(l) /\ pc' = [pc EXCEPT ![l] = "idle"] /\ left' = left
    <3>1. Handled'
      BY <2>1, CleanUpHandled
    <3> HIDE DEF Handled
    <3>2. Typed'
      BY <1>13, <2>1, FileTyped DEF FetchEncrypted
    <3> QED
      BY <3>1, <3>2
  <2>2. CASE CreateFile(l, "encrypted") /\ Works /\ pc' = [pc EXCEPT ![l] = "save"]
    BY <1>13, <2>2, {} \in Contents DEF FetchEncrypted
  <2> QED
    BY <1>13, <2>1, <2>2 DEF FetchEncrypted
<1>20. ASSUME NEW l \in Loaders, FixOGG(l) PROVE Typed' /\ Handled'
  <2>1. CASE CleanUp(l) /\ pc' = [pc EXCEPT ![l] = "idle"] /\ left' = left
    <3>1. Handled'
      BY <2>1, CleanUpHandled
    <3> HIDE DEF Handled
    <3>2. Typed'
      BY <1>20, <2>1, FileTyped DEF FixOGG
    <3> QED
      BY <3>1, <3>2
  <2>2. CASE CreateFile(l, "song") /\ pc' = [pc EXCEPT ![l] = "fill"] /\ disk["decrypted"] \notin {None, {}}
    <3>1. disk["decrypted"] \in SUBSET Song
      BY <2>2
    <3>2. Typed'
      <4>1. pc' = [pc EXCEPT ![l] = "fill"] /\ pc' \in [Loaders -> Steps]
        BY <2>2
      <4>2. left' \in [Loaders -> SUBSET Song]
        BY <1>20, <4>1, <3>1 DEF FixOGG
      <4>3. spoiled' \in BOOLEAN
        BY <1>20, <4>1 DEF FixOGG
      <4>4. disk' \in [Files -> Contents] /\ linked' \in [Loaders -> BOOLEAN]
        BY <1>20, <2>2, FileTyped DEF FixOGG
      <4> QED
        BY <1>20, <4>1, <4>2, <4>3, <4>4 DEF FixOGG
    <3>3. Handled'
      BY <1>20, <2>2 DEF FixOGG
    <3> QED
      BY <3>2, <3>3
  <2> QED
    BY <1>20, <2>1, <2>2 DEF FixOGG
<1>21. ASSUME NEW l \in Loaders, SaveFails(l) PROVE Typed' /\ Handled'
  <2>1. CleanUp(l) /\ pc' = [pc EXCEPT ![l] = "idle"] /\ left' = [left EXCEPT ![l] = {}]
    BY <1>21 DEF SaveFails
  <2>2. Handled'
    BY <2>1, CleanUpHandled
  <2> HIDE DEF Handled
  <2>3. Typed'
    BY <1>21, <2>1, FileTyped DEF SaveFails
  <2> QED
    BY <2>2, <2>3
<1>22. ASSUME NEW l \in Loaders, OpenDecrypted(l) PROVE Typed' /\ Handled'
  BY <1>22, {} \in Contents DEF OpenDecrypted
<1>23. ASSUME NEW l \in Loaders, ShortRead(l) PROVE Typed' /\ Handled'
  BY <1>23 DEF ShortRead
<1>14. ASSUME NEW l \in Loaders, SendToLogger(l) PROVE Typed' /\ Handled'
  BY <1>14 DEF SendToLogger
<1>15. ASSUME NEW l \in Loaders, RecordLink(l) PROVE Typed' /\ Handled'
  BY <1>15 DEF RecordLink
<1>16. ASSUME NEW l \in Loaders, StreamBreaks(l) PROVE Typed' /\ Handled'
  BY <1>16 DEF StreamBreaks
<1>17. ASSUME NEW l \in Loaders, FillFails(l) PROVE Typed' /\ Handled'
  <2>1. CASE CleanUp(l)
    <3>1. Typed'
      BY <1>17, <2>1, FileTyped DEF FillFails
    <3>2. ASSUME NEW k \in Loaders, linked'[k]
          PROVE  (Writing(k) \/ Saving(k))' /\ (disk[Target(k)] # None)'
      <4>1. k # l /\ linked[k] /\ Writing(k) /\ disk["song"] # None /\ pc'[k] = pc[k]
        BY <1>17, <2>1, <3>2 DEF CleanUp, FillFails
      <4>2. disk'["song"] = disk["song"]
        BY <2>1 DEF CleanUp, NoWorkFiles
      <4> QED
        BY <4>1, <4>2
    <3>3. ASSUME NEW k \in Loaders, pc'[k] \in {"token", "create", "fetch"} PROVE left'[k] = Song
      BY <1>17, <3>3 DEF FillFails
    <3> QED
      BY <3>1, <3>2, <3>3
  <2>2. CASE /\ linked' = [k \in Loaders |-> FALSE]
             /\ disk' = [NoWorkFiles(disk) EXCEPT !["song"] = None]
    BY <1>17, <2>2 DEF FillFails, NoWorkFiles
  <2> QED
    BY <1>17, <2>1, <2>2 DEF FillFails
<1>18. CASE Crash
  BY <1>18 DEF Crash
<1>19. CASE UNCHANGED vars
  BY <1>19 DEF vars
<1> QED
  BY <1>1, <1>2, <1>3, <1>4, <1>5, <1>6, <1>7, <1>8, <1>9, <1>10, <1>11, <1>12, <1>13, <1>14, <1>15, <1>16, <1>17,
     <1>18, <1>19, <1>20, <1>21, <1>22, <1>23 DEF Next, Load, Share
-----------------------------------------------------------------------------
\* What the logger group was sent, and what is downloaded from it.
Sent(l) == upload[l] = "sent" => body[l] = Song
FromTheStart(l) == pc[l] \in {"message", "receive"} => left[l] = Song
LinkWhole == record.kind = "link" => record.body = Song

\* A file that lacks pieces has one writer at least that will add all of them.
Completed ==
    disk["song"] \in {None, Song} \/
        \E l \in Loaders : linked[l] /\ Writing(l) /\ Song \ disk["song"] \subseteq left[l]

\* The inductive invariant of AtRestWhole.
Mended == /\ LinkWhole /\ Completed
          /\ \A l \in Loaders : Sent(l) /\ FromTheStart(l)
AtRestInv == Typed /\ Handled /\ (Unhurt /\ ~ spoiled => Mended)

\* A step keeps the file on its way to be completed.
LEMMA StepMended ==
    ASSUME Typed, Handled, Mended, Typed', [Next]_vars, Unhurt', ~ spoiled'
    PROVE  Mended'
<1> USE DownloadAssumption DEF Mended, Completed, LinkWhole, Sent, FromTheStart, Writing,
        Goto, At, Works, Fails, Return, Refuse, CreateFile, RemoveSong, Target, ThereIs, NotEmpty, history
<1>0. ASSUME NEW l \in Loaders, left[l] = {} \/ ~ Writing(l), disk'["song"] = disk["song"],
             \A k \in Loaders \ {l} : Writing(k) =>
                linked'[k] = linked[k] /\ left'[k] = left[k] /\ pc'[k] = pc[k]
      PROVE  Completed'
  <2>1. CASE disk["song"] \in {None, Song}
    BY <1>0, <2>1
  <2>2. ASSUME NEW k \in Loaders, linked[k], Writing(k), Song \ disk["song"] \subseteq left[k],
               disk["song"] # None
        PROVE  Completed'
    <3>1. CASE k = l
      <4>1. disk["song"] \in SUBSET Song
        BY <2>2 DEF Typed, Files, Contents
      <4> QED
        BY <1>0, <2>2, <3>1, <4>1
    <3>2. CASE k # l
      BY <1>0, <2>2, <3>2 DEF Typed
    <3> QED
      BY <3>1, <3>2
  <2> QED
    BY <2>1, <2>2 DEF Handled, Saving
<1>1. ASSUME NEW l \in Loaders, DownloadSong(l) PROVE Mended'
  BY <1>1 DEF DownloadSong, Typed, Handled, Files, Contents
<1>2. ASSUME NEW l \in Loaders, ReadRecord(l) PROVE Mended'
  BY <1>2 DEF ReadRecord, Typed, Handled, Files, Contents
<1>3. ASSUME NEW l \in Loaders, AskLogger(l) PROVE Mended'
  <2>1. CASE Fails
    BY <1>3, <2>1 DEF AskLogger, Typed, Handled
  <2>2. CASE Works /\ ThereIs
    <3>2. Completed'
      BY <1>3, <2>2, <1>0 DEF AskLogger, Typed
    <3> HIDE DEF Completed
    <3> QED
      BY <1>3, <2>2, <3>2 DEF AskLogger, Typed
  <2>3. CASE Works /\ ~ ThereIs
    BY <1>3, <2>3 DEF AskLogger, Typed, Handled
  <2> QED
    BY <1>3, <2>1, <2>2, <2>3 DEF AskLogger
<1>4. ASSUME NEW l \in Loaders, LookOnDisk(l) PROVE Mended'
  BY <1>4 DEF LookOnDisk, Typed, Handled, Files, Contents
<1>5. ASSUME NEW l \in Loaders, AskStream(l) PROVE Mended'
  BY <1>5 DEF AskStream, Typed, Handled, Files, Contents
<1>6. ASSUME NEW l \in Loaders, Create(l) PROVE Mended'
  BY <1>6 DEF Create, Typed, Handled, Files, Contents
<1>7. ASSUME NEW l \in Loaders, OpenFile(l) PROVE Mended'
  BY <1>7 DEF OpenFile, Typed, Handled, Files, Contents
<1>8. ASSUME NEW l \in Loaders, WritePiece(l) PROVE Mended'
  BY <1>8 DEF WritePiece, Typed, Handled, Files, Contents
<1>9. ASSUME NEW l \in Loaders, Verify(l) PROVE Mended'
  <2>1. CASE NotEmpty
    BY <1>9, <2>1, <1>0 DEF Verify, Typed, Writing
  <2>2. CASE ~ NotEmpty
    BY <1>9, <2>2 DEF Verify, Typed, Files
  <2> QED
    BY <2>1, <2>2
<1>10. ASSUME NEW l \in Loaders, Filled(l) PROVE Mended'
  <2>1. Completed'
    BY <1>10, <1>0 DEF Filled, CleanUp, NoWorkFiles, Typed, Files
  <2> HIDE DEF Completed
  <2> QED
    BY <1>10, <2>1 DEF Filled, Typed
<1>11. ASSUME NEW l \in Loaders, RecordPath(l) PROVE Mended'
  BY <1>11 DEF RecordPath, Typed, Handled, Files, Contents
<1>12. ASSUME NEW l \in Loaders, Decrypt(l) PROVE Mended'
  <2>1. CASE CleanUp(l) /\ pc' = [pc EXCEPT ![l] = "idle"]
    <3>1. Completed'
      BY <1>12, <2>1, <1>0 DEF Decrypt, CleanUp, NoWorkFiles, Typed, Files
    <3> HIDE DEF Completed
    <3> QED
      BY <1>12, <2>1, <3>1 DEF Decrypt, Typed
  <2>2. CASE pc' = [pc EXCEPT ![l] = "decrypt"]
    <3>1. Completed'
      BY <1>12, <2>2, <1>0 DEF Decrypt, Typed, Files
    <3> HIDE DEF Completed
    <3> QED
      BY <1>12, <2>2, <3>1 DEF Decrypt, Typed
  <2> QED
    BY <1>12, <2>1, <2>2 DEF Decrypt
<1>13. ASSUME NEW l \in Loaders, FetchEncrypted(l) PROVE Mended'
  <2>1. CASE CleanUp(l) /\ pc' = [pc EXCEPT ![l] = "idle"]
    <3>1. Completed'
      BY <1>13, <2>1, <1>0 DEF FetchEncrypted, CleanUp, NoWorkFiles, Typed, Files
    <3> HIDE DEF Completed
    <3> QED
      BY <1>13, <2>1, <3>1 DEF FetchEncrypted, Typed
  <2>2. CASE CreateFile(l, "encrypted") /\ Works /\ pc' = [pc EXCEPT ![l] = "save"]
    <3>1. Completed'
      BY <1>13, <2>2, <1>0 DEF FetchEncrypted, Typed, Files
    <3> HIDE DEF Completed
    <3> QED
      BY <1>13, <2>2, <3>1 DEF FetchEncrypted, Typed
  <2> QED
    BY <1>13, <2>1, <2>2 DEF FetchEncrypted
<1>20. ASSUME NEW l \in Loaders, FixOGG(l) PROVE Mended'
  <2>1. CASE CleanUp(l) /\ pc' = [pc EXCEPT ![l] = "idle"]
    <3>1. Completed'
      BY <1>20, <2>1, <1>0 DEF FixOGG, CleanUp, NoWorkFiles, Typed, Files
    <3> HIDE DEF Completed
    <3> QED
      BY <1>20, <2>1, <3>1 DEF FixOGG, Typed
  <2>2. CASE CreateFile(l, "song") /\ pc' = [pc EXCEPT ![l] = "fill"]
    <3>1. linked'[l] /\ left'[l] = Song /\ pc'[l] = "fill"
      BY <1>20, <2>2 DEF FixOGG, Typed
    <3>2. Completed'
      BY <3>1
    <3> HIDE DEF Completed
    <3> QED
      BY <1>20, <2>2, <3>2 DEF FixOGG, Typed
  <2> QED
    BY <1>20, <2>1, <2>2 DEF FixOGG
<1>21. ASSUME NEW l \in Loaders, SaveFails(l) PROVE Mended'
  <2>1. Completed'
    BY <1>21, <1>0 DEF SaveFails, CleanUp, NoWorkFiles, Typed, Files
  <2> HIDE DEF Completed
  <2> QED
    BY <1>21, <2>1 DEF SaveFails, Typed
<1>22. ASSUME NEW l \in Loaders, OpenDecrypted(l) PROVE Mended'
  <2>1. Completed'
    BY <1>22, <1>0 DEF OpenDecrypted, Typed, Files
  <2> HIDE DEF Completed
  <2> QED
    BY <1>22, <2>1 DEF OpenDecrypted, Typed
<1>23. ASSUME NEW l \in Loaders, ShortRead(l) PROVE FALSE
  BY <1>23 DEF ShortRead
<1>14. ASSUME NEW l \in Loaders, SendToLogger(l) PROVE Mended'
  BY <1>14 DEF SendToLogger, Typed, Handled, Files, Contents
<1>15. ASSUME NEW l \in Loaders, RecordLink(l) PROVE Mended'
  BY <1>15 DEF RecordLink, Typed, Handled, Files, Contents
<1>16. ASSUME NEW l \in Loaders, StreamBreaks(l) PROVE Mended'
  BY <1>16 DEF StreamBreaks, Typed, Handled, Files, Contents
<1>17. ASSUME NEW l \in Loaders, FillFails(l) PROVE FALSE
  BY <1>17 DEF FillFails, Unhurt
<1>18. CASE Crash
  BY <1>18 DEF Crash, Unhurt, Typed
<1>19. CASE UNCHANGED vars
  BY <1>19 DEF vars
<1> QED
  BY <1>1, <1>2, <1>3, <1>4, <1>5, <1>6, <1>7, <1>8, <1>9, <1>10, <1>11, <1>12, <1>13, <1>14, <1>15, <1>16, <1>17,
     <1>18, <1>19, <1>20, <1>21, <1>22, <1>23 DEF Next, Load, Share

\* The initial states are typed.
LEMMA InitTyped ==
    Init => Typed /\ Handled
<1> SUFFICES ASSUME Init PROVE Typed /\ Handled
  OBVIOUS
<1>1. /\ platform \in Platforms /\ disk \in [Files -> Contents]
      /\ {overlapped, interrupted, spoiled} \subseteq BOOLEAN /\ crashes \in Nat
  BY DEF Init, Contents
<1>2. record \in [kind : {"none", "path", "link"}, body : SUBSET Song]
  BY DEF Init
<1>3. pc \in [Loaders -> Steps] /\ upload \in [Loaders -> {"none", "waiting", "sent"}]
  BY DEF Init, Steps
<1>4. left \in [Loaders -> SUBSET Song] /\ body \in [Loaders -> SUBSET Song]
  BY DEF Init
<1>5. linked \in [Loaders -> BOOLEAN] /\ out \in [Loaders -> SUBSET Contents]
  BY DEF Init
<1>6. Handled
  BY DEF Init, Handled, Files
<1> QED
  BY <1>1, <1>2, <1>3, <1>4, <1>5, <1>6 DEF Typed

\* What the histories have noted stays noted.
LEMMA Harm ==
    ASSUME Typed, [Next]_vars
    PROVE  /\ Unhurt' => Unhurt
           /\ spoiled => spoiled'
           /\ overlapped => overlapped'
<1> USE DEF Next, vars, history, Load, Share, Crash, DownloadSong, ReadRecord, AskLogger, LookOnDisk,
         AskStream, Create, OpenFile, WritePiece, Verify, Filled, RecordPath, Decrypt,
         FetchEncrypted, OpenDecrypted, FixOGG, ShortRead, SaveFails, SendToLogger, RecordLink, StreamBreaks, FillFails
<1>1. (crashes' = crashes \/ (crashes' = crashes + 1 /\ crashes \in Nat)) /\ (interrupted => interrupted')
  <2>1. crashes' = crashes \/ (crashes' = crashes + 1 /\ crashes \in Nat)
    BY DEF Typed
  <2>2. interrupted => interrupted'
    OBVIOUS
  <2> QED
    BY <2>1, <2>2
<1>2. spoiled => spoiled'
  OBVIOUS
<1>3. overlapped => overlapped'
  OBVIOUS
<1> QED
  BY <1>1, <1>2, <1>3 DEF Unhurt

\* While nothing was left half done and nobody took a half written file for whole,
\* what is on the disk after all loaders have returned is complete: AtRestWhole,
\* for any number of goroutines that truncate and remove each other's files.
THEOREM AtRest ==
    Spec => []AtRestWhole
<1>1. Init => AtRestInv
  <2>1. Init => Typed /\ Handled
    BY InitTyped
  <2>2. Init => Mended
    BY DEF Init, Mended, Completed, LinkWhole, Sent, FromTheStart, Files
  <2> QED
    BY <2>1, <2>2 DEF AtRestInv
<1>2. AtRestInv /\ [Next]_vars => AtRestInv'
  <2> SUFFICES ASSUME AtRestInv, [Next]_vars PROVE AtRestInv'
    OBVIOUS
  <2>1. Typed' /\ Handled'
    BY StepTyped DEF AtRestInv
  <2> QED
    BY <2>1, Harm, StepMended DEF AtRestInv
<1>3. AtRestInv => AtRestWhole
  BY DEF AtRestInv, AtRestWhole, Writing, Mended, Completed
<1> QED
  BY <1>1, <1>2, <1>3, PTL DEF Spec
-----------------------------------------------------------------------------
\* The one goroutine at work writes a file that was not there, that nobody waits
\* to send, and that lacks nothing but what the goroutine has left.
Alone(l) ==
    /\ \A k \in Loaders \ {l} : pc[k] = "idle"
    /\ pc[l] \in {"token", "create", "fetch", "save", "decrypt", "keep", "receive"} => disk["song"] = None
    /\ Writing(l) \/ Saving(l) => linked[l] /\ Song \ disk[Target(l)] \subseteq left[l]
    /\ pc[l] = "decrypt" => left[l] = Song
    /\ pc[l] = "cache" => disk["song"] = Song

\* A file nobody writes is complete.
Rest == (\A l \in Loaders : ~ Writing(l)) => disk["song"] \in {None, Song}

\* An upload finds the complete file.
Waits(l) == upload[l] = "waiting" =>
                disk["song"] = Song /\ \A k \in Loaders : ~ Writing(k)

\* The inductive invariant of ServedWhole.
Served == /\ LinkWhole /\ Rest
          /\ \A l \in Loaders : /\ out[l] \subseteq {Song} /\ Sent(l) /\ FromTheStart(l)
                                /\ Waits(l) /\ (pc[l] # "idle" => Alone(l))
ServedInv == Typed /\ Handled /\ (Unhurt /\ ~ overlapped => Served)

\* A step of the one goroutine at work, or of an upload, serves complete songs.
LEMMA StepServed ==
    ASSUME Typed, Handled, Served, Typed', [Next]_vars, Unhurt', ~ overlapped'
    PROVE  Served'
<1> USE DownloadAssumption DEF Served, Alone, Rest, Waits, LinkWhole, Sent, FromTheStart, Writing, Saving,
        Goto, At, Works, Fails, Return, Refuse, CreateFile, RemoveSong, Target, ThereIs, NotEmpty, history
<1> DEFINE song == disk["song"]
<1>0. /\ None # Song /\ Song # {}
      /\ \A l \in Loaders : linked[l] /\ left[l] = {} /\ Song \ disk[Target(l)] \subseteq left[l]
                              => disk[Target(l)] = Song
  <2>1. None # Song /\ 1 \in Song
    BY DEF Song
  <2>2. \A l \in Loaders : disk[Target(l)] = None \/ disk[Target(l)] \subseteq Song
    BY DEF Typed, Files, Contents
  <2> QED
    BY <2>1, <2>2 DEF Handled
<1>1. ASSUME NEW l \in Loaders, DownloadSong(l) PROVE Served'
  <2>1. LinkWhole' /\ Rest'
    BY <1>1 DEF DownloadSong, Typed, Handled, Files, Contents
  <2>2. ASSUME NEW k \in Loaders
        PROVE  out'[k] \subseteq {Song} /\ Sent(k)' /\ FromTheStart(k)'
    BY <1>1 DEF DownloadSong, Typed, Handled, Files, Contents
  <2>3. ASSUME NEW k \in Loaders PROVE Waits(k)'
    BY <1>1 DEF DownloadSong, Typed, Handled, Files, Contents
  <2>4. ASSUME NEW k \in Loaders, pc'[k] # "idle" PROVE Alone(k)'
    <3>1. pc[l] = "idle" /\ \A j \in Loaders \ {l} : pc[j] = "idle" /\ pc'[j] = "idle"
      <4>1. pc[l] = "idle" /\ \A j \in Loaders \ {l} : pc[j] = "idle"
        BY <1>1 DEF DownloadSong
      <4>2. \A j \in Loaders \ {l} : pc'[j] = pc[j]
        BY <1>1 DEF DownloadSong, Typed
      <4> QED
        BY <4>1, <4>2
    <3>2. k = l /\ pc'[l] \in {"record", "stat"}
      BY <1>1, <2>4, <3>1 DEF DownloadSong, Typed
    <3> QED
      BY <3>1, <3>2
  <2> QED
    BY <2>1, <2>2, <2>3, <2>4
<1>2. ASSUME NEW l \in Loaders, ReadRecord(l) PROVE Served'
  BY <1>2 DEF ReadRecord, Typed, Handled, Files, Contents
<1>3. ASSUME NEW l \in Loaders, AskLogger(l) PROVE Served'
  BY <1>3 DEF AskLogger, Typed, Handled, Files, Contents
<1>4. ASSUME NEW l \in Loaders, LookOnDisk(l) PROVE Served'
  <2>1. LinkWhole' /\ Rest'
    BY <1>4 DEF LookOnDisk, Typed, Handled, Files, Contents
  <2>2. ASSUME NEW k \in Loaders
        PROVE  out'[k] \subseteq {Song} /\ Sent(k)' /\ FromTheStart(k)'
    BY <1>4 DEF LookOnDisk, Typed, Handled, Files, Contents
  <2>3. ASSUME NEW k \in Loaders PROVE Waits(k)'
    BY <1>4 DEF LookOnDisk, Typed, Handled, Files, Contents
  <2>4. ASSUME NEW k \in Loaders, pc'[k] # "idle" PROVE Alone(k)'
    <3>1. k = l /\ pc[l] = "stat" /\ \A j \in Loaders \ {l} : pc[j] = "idle" /\ pc'[j] = "idle"
      BY <1>4, <2>4 DEF LookOnDisk, Typed
    <3>2. song \in {None, Song} /\ Song # {}
      BY <3>1, <1>0
    <3> QED
      BY <1>4, <2>4, <3>1, <3>2 DEF LookOnDisk, Typed
  <2> QED
    BY <2>1, <2>2, <2>3, <2>4
<1>5. ASSUME NEW l \in Loaders, AskStream(l) PROVE Served'
  BY <1>5 DEF AskStream, Typed, Handled, Files, Contents
<1>6. ASSUME NEW l \in Loaders, Create(l) PROVE Served'
  <2>1. LinkWhole' /\ Rest'
    BY <1>6 DEF Create, Typed, Handled, Files, Contents
  <2>2. ASSUME NEW k \in Loaders
        PROVE  out'[k] \subseteq {Song} /\ Sent(k)' /\ FromTheStart(k)'
    BY <1>6 DEF Create, Typed, Handled, Files, Contents
  <2>3. ASSUME NEW k \in Loaders PROVE Waits(k)'
    <3>1. upload'[k] # "waiting"
      BY <1>0, <1>6 DEF Create, Typed
    <3> QED
      BY <3>1
  <2>4. ASSUME NEW k \in Loaders, pc'[k] # "idle" PROVE Alone(k)'
    BY <1>6, <2>4 DEF Create, Typed, Handled, Files, Contents
  <2> QED
    BY <2>1, <2>2, <2>3, <2>4
<1>7. ASSUME NEW l \in Loaders, OpenFile(l) PROVE Served'
  <2>1. LinkWhole' /\ Rest'
    BY <1>7 DEF OpenFile, Typed, Handled, Files, Contents
  <2>2. ASSUME NEW k \in Loaders
        PROVE  out'[k] \subseteq {Song} /\ Sent(k)' /\ FromTheStart(k)'
    BY <1>7 DEF OpenFile, Typed, Handled, Files, Contents
  <2>3. ASSUME NEW k \in Loaders PROVE Waits(k)'
    <3>1. upload'[k] # "waiting"
      BY <1>0, <1>7 DEF OpenFile, Typed
    <3> QED
      BY <3>1
  <2>4. ASSUME NEW k \in Loaders, pc'[k] # "idle" PROVE Alone(k)'
    BY <1>7, <2>4 DEF OpenFile, Typed, Handled, Files, Contents
  <2> QED
    BY <2>1, <2>2, <2>3, <2>4
<1>8. ASSUME NEW l \in Loaders, WritePiece(l) PROVE Served'
  BY <1>8 DEF WritePiece, Typed, Handled, Files, Contents
<1>9. ASSUME NEW l \in Loaders, Verify(l) PROVE Served'
  <2>0. song = Song /\ Song # {} /\ \A j \in Loaders \ {l} : pc[j] = "idle"
    BY <1>0, <1>9 DEF Verify, Song
  <2>1. LinkWhole' /\ Rest'
    BY <1>0, <2>0, <1>9 DEF Verify, Typed, Handled, Files, Contents
  <2>2. ASSUME NEW k \in Loaders
        PROVE  out'[k] \subseteq {Song} /\ Sent(k)' /\ FromTheStart(k)'
    BY <1>9 DEF Verify, Typed, Handled, Files, Contents
  <2>3. ASSUME NEW k \in Loaders PROVE Waits(k)'
    BY <1>9 DEF Verify, Typed, Handled, Files, Contents
  <2>4. ASSUME NEW k \in Loaders, pc'[k] # "idle" PROVE Alone(k)'
    BY <1>0, <2>0, <1>9, <2>4 DEF Verify, Typed, Handled, Files, Contents
  <2> QED
    BY <2>1, <2>2, <2>3, <2>4
<1>10. ASSUME NEW l \in Loaders, Filled(l) PROVE Served'
  <2>0. song = Song /\ disk'["song"] = Song
    <3>1. Target(l) = "song" /\ linked[l] /\ left[l] = {} /\ Song \ disk["song"] \subseteq left[l]
      BY <1>10 DEF Filled
    <3>2. disk'["song"] = disk["song"]
      BY <1>10 DEF Filled, CleanUp, NoWorkFiles, Typed, Files
    <3> QED
      BY <1>0, <3>1, <3>2
  <2>1. LinkWhole' /\ Rest'
    BY <2>0, <1>10 DEF Filled, Typed, Handled, Files, Contents
  <2>2. ASSUME NEW k \in Loaders
        PROVE  out'[k] \subseteq {Song} /\ Sent(k)' /\ FromTheStart(k)'
    BY <2>0, <1>10 DEF Filled, Typed, Handled, Files, Contents
  <2>3. ASSUME NEW k \in Loaders PROVE Waits(k)'
    BY <1>10 DEF Filled, Typed, Handled, Files, Contents
  <2>4. ASSUME NEW k \in Loaders, pc'[k] # "idle" PROVE Alone(k)'
    BY <1>10, <2>4 DEF Filled, Typed, Handled, Files, Contents
  <2> QED
    BY <2>1, <2>2, <2>3, <2>4
<1>11. ASSUME NEW l \in Loaders, RecordPath(l) PROVE Served'
  BY <1>11 DEF RecordPath, Typed, Handled, Files, Contents
<1>12. ASSUME NEW l \in Loaders, Decrypt(l) PROVE Served'
  <2>1. LinkWhole' /\ Rest'
    BY <1>12 DEF Decrypt, CleanUp, NoWorkFiles, Typed, Handled, Files, Contents
  <2>2. ASSUME NEW k \in Loaders
        PROVE  out'[k] \subseteq {Song} /\ Sent(k)' /\ FromTheStart(k)'
    BY <1>12 DEF Decrypt, Typed, Handled, Files, Contents
  <2>3. ASSUME NEW k \in Loaders PROVE Waits(k)'
    BY <1>0, <1>12 DEF Decrypt, CleanUp, NoWorkFiles, Typed, Files
  <2>4. ASSUME NEW k \in Loaders, pc'[k] # "idle" PROVE Alone(k)'
    BY <1>0, <1>12, <2>4 DEF Decrypt, Typed, Handled, Files, Contents
  <2> QED
    BY <2>1, <2>2, <2>3, <2>4
<1>13. ASSUME NEW l \in Loaders, FetchEncrypted(l) PROVE Served'
  <2>1. LinkWhole' /\ Rest'
    BY <1>13 DEF FetchEncrypted, CleanUp, NoWorkFiles, Typed, Handled, Files, Contents
  <2>2. ASSUME NEW k \in Loaders
        PROVE  out'[k] \subseteq {Song} /\ Sent(k)' /\ FromTheStart(k)'
    BY <1>13 DEF FetchEncrypted, Typed, Handled, Files, Contents
  <2>3. ASSUME NEW k \in Loaders PROVE Waits(k)'
    BY <1>0, <1>13 DEF FetchEncrypted, CleanUp, NoWorkFiles, Typed, Files
  <2>4. ASSUME NEW k \in Loaders, pc'[k] # "idle" PROVE Alone(k)'
    BY <1>0, <1>13, <2>4 DEF FetchEncrypted, Typed, Handled, Files, Contents
  <2> QED
    BY <2>1, <2>2, <2>3, <2>4
<1>20. ASSUME NEW l \in Loaders, FixOGG(l) PROVE Served'
  <2>1. LinkWhole' /\ Rest'
    BY <1>20 DEF FixOGG, CleanUp, NoWorkFiles, Typed, Handled, Files, Contents
  <2>2. ASSUME NEW k \in Loaders
        PROVE  out'[k] \subseteq {Song} /\ Sent(k)' /\ FromTheStart(k)'
    BY <1>20 DEF FixOGG, Typed, Handled, Files, Contents
  <2>3. ASSUME NEW k \in Loaders PROVE Waits(k)'
    BY <1>0, <1>20 DEF FixOGG, CleanUp, NoWorkFiles, Typed, Files
  <2>4. ASSUME NEW k \in Loaders, pc'[k] # "idle" PROVE Alone(k)'
    BY <1>0, <1>20, <2>4 DEF FixOGG, Typed, Handled, Files, Contents
  <2> QED
    BY <2>1, <2>2, <2>3, <2>4
<1>21. ASSUME NEW l \in Loaders, SaveFails(l) PROVE Served'
  <2>1. LinkWhole' /\ Rest'
    BY <1>21 DEF SaveFails, CleanUp, NoWorkFiles, Typed, Handled, Files, Contents
  <2>2. ASSUME NEW k \in Loaders
        PROVE  out'[k] \subseteq {Song} /\ Sent(k)' /\ FromTheStart(k)'
    BY <1>21 DEF SaveFails, Typed, Handled, Files, Contents
  <2>3. ASSUME NEW k \in Loaders PROVE Waits(k)'
    BY <1>0, <1>21 DEF SaveFails, CleanUp, NoWorkFiles, Typed, Files
  <2>4. ASSUME NEW k \in Loaders, pc'[k] # "idle" PROVE Alone(k)'
    BY <1>0, <1>21, <2>4 DEF SaveFails, Typed, Handled, Files, Contents
  <2> QED
    BY <2>1, <2>2, <2>3, <2>4
<1>22. ASSUME NEW l \in Loaders, OpenDecrypted(l) PROVE Served'
  <2>1. LinkWhole' /\ Rest'
    BY <1>22 DEF OpenDecrypted, CleanUp, NoWorkFiles, Typed, Handled, Files, Contents
  <2>2. ASSUME NEW k \in Loaders
        PROVE  out'[k] \subseteq {Song} /\ Sent(k)' /\ FromTheStart(k)'
    BY <1>22 DEF OpenDecrypted, Typed, Handled, Files, Contents
  <2>3. ASSUME NEW k \in Loaders PROVE Waits(k)'
    BY <1>0, <1>22 DEF OpenDecrypted, CleanUp, NoWorkFiles, Typed, Files
  <2>4. ASSUME NEW k \in Loaders, pc'[k] # "idle" PROVE Alone(k)'
    BY <1>0, <1>22, <2>4 DEF OpenDecrypted, Typed, Handled, Files, Contents
  <2> QED
    BY <2>1, <2>2, <2>3, <2>4
<1>23. ASSUME NEW l \in Loaders, ShortRead(l) PROVE FALSE
  BY <1>23 DEF ShortRead
<1>14. ASSUME NEW l \in Loaders, SendToLogger(l) PROVE Served'
  BY <1>14 DEF SendToLogger, Typed, Handled, Files, Contents
<1>15. ASSUME NEW l \in Loaders, RecordLink(l) PROVE Served'
  BY <1>15 DEF RecordLink, Typed, Handled, Files, Contents
<1>16. ASSUME NEW l \in Loaders, StreamBreaks(l) PROVE Served'
  BY <1>16 DEF StreamBreaks, Typed, Handled, Files, Contents
<1>17. ASSUME NEW l \in Loaders, FillFails(l) PROVE FALSE
  BY <1>17 DEF FillFails, Unhurt
<1>18. CASE Crash
  BY <1>18 DEF Crash, Unhurt, Typed
<1>19. CASE UNCHANGED vars
  BY <1>19 DEF vars
<1> QED
  BY <1>1, <1>2, <1>3, <1>4, <1>5, <1>6, <1>7, <1>8, <1>9, <1>10, <1>11, <1>12, <1>13, <1>14, <1>15, <1>16, <1>17,
     <1>18, <1>19, <1>20, <1>21, <1>22, <1>23 DEF Next, Load, Share

\* While the chats do not ask at the same time and nothing was left half done, the
\* player is only given complete songs and the logger group only holds such:
\* ServedWhole, whichever requests fail on the way.
THEOREM Serving ==
    Spec => []ServedWhole
<1>1. Init => ServedInv
  <2>1. Init => Typed /\ Handled
    BY InitTyped
  <2>2. Init => Served
    BY DEF Init, Served, LinkWhole, Rest, Sent, FromTheStart, Waits, Files
  <2> QED
    BY <2>1, <2>2 DEF ServedInv
<1>2. ServedInv /\ [Next]_vars => ServedInv'
  <2> SUFFICES ASSUME ServedInv, [Next]_vars PROVE ServedInv'
    OBVIOUS
  <2>1. Typed' /\ Handled'
    BY StepTyped DEF ServedInv
  <2> QED
    BY <2>1, Harm, StepServed DEF ServedInv
<1>3. ServedInv => ServedWhole
  BY DEF ServedInv, ServedWhole, Served, LinkWhole
<1> QED
  BY <1>1, <1>2, <1>3, PTL DEF Spec
=============================================================================
