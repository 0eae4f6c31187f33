----------------------------- MODULE RtmpStream -----------------------------
(***************************************************************************)
(* Live streams to an RTMP server: src/src/handlers/setrmtp.go.            *)
(*                                                                         *)
(* One chat.  /stream starts an ffmpeg process and enters it in the map    *)
(* streams; two goroutines stay behind, one that feeds the process and one *)
(* that waits for it to exit and then calls stopStream.  stopStream takes  *)
(* whatever entry the map holds for the chat, not the stream it was called *)
(* for.  The lock streamsMu covers one access of the map at a time.        *)
(***************************************************************************)
EXTENDS Integers, FiniteSets

CONSTANTS
    Threads,   \* handlers that can run at once, of /stream or /stopstream
    Streams,   \* the activeStream objects, with their ffmpeg processes
    None

ASSUME StreamAssumption == None \notin Streams

VARIABLES
    entry,     \* streams[chatID], or None
    process,   \* "none" before cmd.Start, then "running", then "exited"
    waiter,    \* the goroutine that waits for the process
    victim,    \* the stream it has taken out of the map to kill
    pc, mine,  \* of each handler: its next step and its stream
    raced      \* history: streams entered while another /stream was on its way

vars == <<entry, process, waiter, victim, pc, mine, raced>>

Init ==
    /\ entry = None
    /\ process = [s \in Streams |-> "none"]
    /\ waiter = [s \in Streams |-> "none"]
    /\ victim = [s \in Streams |-> None]
    /\ pc = [t \in Threads |-> "idle"]
    /\ mine = [t \in Threads |-> None]
    /\ raced = {}
-----------------------------------------------------------------------------
Goto(t, label) == pc' = [pc EXCEPT ![t] = label]

At(t, label, next) == pc[t] = label /\ Goto(t, next)

Kill(s) == process' = [process EXCEPT ![s] = "exited"]

\* /stream with a valid URL and media; refused while streamExists.  The lock is
\* given back before the process is started.
StreamCommand(t) ==
    /\ entry = None
    /\ At(t, "idle", "start")
    /\ UNCHANGED <<entry, process, waiter, victim, mine, raced>>

\* No ffmpeg, no pipe.
StartFails(t) ==
    /\ At(t, "start", "idle")
    /\ UNCHANGED <<entry, process, waiter, victim, mine, raced>>

StartProcess(t) ==
    /\ At(t, "start", "register")
    /\ \E s \in Streams :
         /\ process[s] = "none"
         /\ process' = [process EXCEPT ![s] = "running"]
         /\ mine' = [mine EXCEPT ![t] = s]
    /\ UNCHANGED <<entry, waiter, victim, raced>>

\* Handlers of /stream between streamExists and the entry in the map.
Starting == {t \in Threads : pc[t] \in {"start", "register"}}

\* Overwrites an entry that is there; then the two goroutines start.
Register(t) ==
    /\ At(t, "register", "idle")
    /\ entry' = mine[t]
    /\ waiter' = [waiter EXCEPT ![mine[t]] = "waiting"]
    /\ mine' = [mine EXCEPT ![t] = None]
    /\ raced' = IF Starting = {t} THEN raced ELSE raced \cup {mine[t]}
    /\ UNCHANGED <<process, victim>>

\* /stopstream, after streamExists.
StopCommand(t) ==
    /\ entry # None
    /\ At(t, "idle", "take")
    /\ UNCHANGED <<entry, process, waiter, victim, mine, raced>>

\* stopStream takes the entry out of the map ...
StopTakes(t) ==
    /\ At(t, "take", IF entry = None THEN "idle" ELSE "kill")
    /\ mine' = [mine EXCEPT ![t] = entry]
    /\ entry' = None
    /\ UNCHANGED <<process, waiter, victim, raced>>

\* Mutant: the entry is deleted once its process is killed, whatever it is by then.
MutantDeletesAfterKill(t) ==
    /\ At(t, "kill", "idle")
    /\ Kill(mine[t])
    /\ mine' = [mine EXCEPT ![t] = None]
    /\ entry' = None
    /\ UNCHANGED <<waiter, victim, raced>>

\* ... and kills its process outside the lock.
StopKills(t) ==
    /\ At(t, "kill", "idle")
    /\ Kill(mine[t])
    /\ mine' = [mine EXCEPT ![t] = None]
    /\ UNCHANGED <<entry, waiter, victim, raced>>
-----------------------------------------------------------------------------
\* ffmpeg ends by itself: the input is used up or cannot be read, or the
\* server hangs up.
ProcessExits(s) ==
    /\ process[s] = "running"
    /\ process' = [process EXCEPT ![s] = "exited"]
    /\ UNCHANGED <<entry, waiter, victim, pc, mine, raced>>

\* Mutant: the waiter leaves the map alone.
MutantWaiterForgets(s) ==
    /\ waiter[s] = "waiting" /\ process[s] = "exited"
    /\ waiter' = [waiter EXCEPT ![s] = "done"]
    /\ UNCHANGED <<entry, process, victim, pc, mine, raced>>

\* cmd.Wait returned: stopStream of the chat.
WaiterTakes(s) ==
    /\ waiter[s] = "waiting" /\ process[s] = "exited"
    /\ waiter' = [waiter EXCEPT ![s] = IF entry = None THEN "done" ELSE "kill"]
    /\ victim' = [victim EXCEPT ![s] = entry]
    /\ entry' = None
    /\ UNCHANGED <<process, pc, mine, raced>>

WaiterKills(s) ==
    /\ waiter[s] = "kill"
    /\ waiter' = [waiter EXCEPT ![s] = "done"]
    /\ victim' = [victim EXCEPT ![s] = None]
    /\ Kill(victim[s])
    /\ UNCHANGED <<entry, pc, mine, raced>>
-----------------------------------------------------------------------------
Run(t) == StartFails(t) \/ StartProcess(t) \/ Register(t) \/ StopTakes(t) \/ StopKills(t)

Wait(s) == WaiterTakes(s) \/ WaiterKills(s)

Next ==
    \/ \E t \in Threads : StreamCommand(t) \/ StopCommand(t) \/ Run(t)
    \/ \E s \in Streams : ProcessExits(s) \/ Wait(s)

Spec == Init /\ [][Next]_vars

FairSpec ==
    Spec /\ (\A t \in Threads : WF_vars(Run(t))) /\ (\A s \in Streams : WF_vars(Wait(s)))
-----------------------------------------------------------------------------
(* Properties *)

\* Every variable has its type, and whoever is about to register or to kill a
\* stream has one: stopStream looks at what it found before it uses it.
TypeOK ==
    /\ entry \in Streams \cup {None}
    /\ process \in [Streams -> {"none", "running", "exited"}]
    /\ waiter \in [Streams -> {"none", "waiting", "kill", "done"}]
    /\ victim \in [Streams -> Streams \cup {None}]
    /\ pc \in [Threads -> {"idle", "start", "register", "take", "kill"}]
    /\ mine \in [Threads -> Streams \cup {None}]
    /\ raced \subseteq Streams
    /\ \A t \in Threads : pc[t] \in {"register", "kill"} => mine[t] \in Streams
    /\ \A s \in Streams : waiter[s] = "kill" => victim[s] \in Streams

\* A goroutine is about to register or to kill s.
Held(s) ==
    \/ \E t \in Threads : mine[t] = s
    \/ \E r \in Streams : victim[r] = s

\* A live stream can be stopped: it is the one in the map, or a goroutine is
\* about to enter or to kill it.  Starts, stops, exits and the goroutines left
\* behind overlap in any way.  One stream can be lost: that of a /stream during
\* which a second /stream was between streamExists and its own entry, which
\* then overwrites the first.
NoOrphan ==
    \A s \in Streams : process[s] = "running" => entry = s \/ Held(s) \/ s \in raced

\* The map forgets a stream whose process has ended, so that a new one can be
\* started.
EntryCleared == \A s \in Streams : (entry = s /\ process[s] = "exited") ~> (entry # s)
=============================================================================
