------------------------------ MODULE UbotCall ------------------------------
(***************************************************************************)
(* The voice call layer of one assistant and one chat: src/src/vc/ubot on  *)
(* top of the native engine (src/src/vc/ntgcalls).                         *)
(*                                                                         *)
(* Play joins the caller with the engine's thread through one unbuffered   *)
(* channel, ctx.waitConnect[chatId]: connectCall makes it, drives engine   *)
(* and Telegram, then receives from whatever channel the map holds by      *)
(* then; the engine reports the outcome to a callback, in a goroutine of   *)
(* its own, that sends to whatever channel the map holds by then.  Updates *)
(* of Telegram change the cached group call and stop the engine.  A        *)
(* channel is known here by the number of the connectCall that made it.    *)
(*                                                                         *)
(* ntgcalls, Telegram and the peer of a private call are external.  The    *)
(* maps of Context have no lock of their own; their accesses are taken as  *)
(* atomic.                                                                 *)
(***************************************************************************)
EXTENDS Integers, FiniteSets

CONSTANTS
    Players,     \* goroutines that call Play
    Handlers,    \* goroutines of updates that reconnect a pending call
    MaxConnects, \* bound: connectCalls
    MaxVoice,    \* bound: voice chats the group opens, for each kind of chat
    MaxRings     \* bound: private calls that come in

\* A group with a normal or a streamed voice chat, or a user.
Kinds == {"rtc", "stream", "user"}

ASSUME UbotAssumption ==
    /\ Players \cap Handlers = {} /\ IsFiniteSet(Players \cup Handlers)
    /\ MaxVoice \in [Kinds -> Nat]
    /\ {MaxConnects, MaxRings} \subseteq Nat

VARIABLES
    kind,      \* of the chat
    voice,     \* Telegram: the number of the voice chat that is on, or 0
    opened,    \* voice chats opened so far
    news,      \* updates of the group call on their way
    missed,    \* history: voice chats whose end could not be told to be the chat's
    groupCall, \* inputGroupCalls[chat]: a number, Closed (nil) or Unknown
    engine,    \* the call the engine holds: its state, creator and voice chat
    reports,   \* engine callbacks at work, and the channel each sends on
    wait,      \* waitConnect[chat]: a channel, or 0
    made,      \* connectCalls begun
    pending,   \* pendingConnections[chat] is set
    config,    \* p2pConfigs[chat]: its number, or 0
    rings,     \* private configurations made so far
    answers,   \* updates of the private call at work, and the config each sends to
    pc, target, ch \* of a goroutine: next step, voice chat looked up, channel

telegram == <<voice, opened, news, missed>>
private == <<config, rings, answers>>
locals == <<target, ch>>
vars == <<kind, telegram, groupCall, engine, reports, wait, made, pending, private, pc, locals>>

Callers == Players \cup Handlers
Unknown == -1
Closed == 0
NoCall == [state |-> "none", by |-> 0, of |-> 0]

Init ==
    /\ kind \in Kinds
    /\ voice = 0 /\ opened = 0 /\ news = {} /\ missed = {}
    /\ groupCall = Unknown
    /\ engine = NoCall /\ reports = {}
    /\ wait = 0 /\ made = 0 /\ pending = FALSE
    /\ config = 0 /\ rings = 0 /\ answers = {}
    /\ pc = [t \in Callers |-> "idle"]
    /\ target = [t \in Callers |-> 0]
    /\ ch = [t \in Callers |-> 0]
-----------------------------------------------------------------------------
Goto(t, label) == pc' = [pc EXCEPT ![t] = label]

At(t, label, next) == pc[t] = label /\ Goto(t, next)

\* Another connectCall may begin: those that will are counted.
Room == made + Cardinality({t \in Callers : pc[t] \in {"connect", "download"}}) < MaxConnects

HasCall == engine.state # "none"

InGroup == kind # "user"

\* A report leaves the engine as a goroutine that has looked at nothing yet.
Says(what) == [by |-> engine.by, says |-> what, on |-> 0]

\* binding.Stop: the engine drops the call, and reports Closed if it was
\* connected or about to be.
StopEngine ==
    /\ engine' = NoCall
    /\ reports' = IF engine.state \in {"connecting", "connected"}
                  THEN reports \cup {Says("ended")} ELSE reports

\* connectCall returns an error: its deferred functions empty the maps.
Fail(t) ==
    /\ Goto(t, "idle")
    /\ wait' = 0
    /\ config' = IF InGroup THEN config ELSE 0
    /\ target' = [target EXCEPT ![t] = 0]
-----------------------------------------------------------------------------
(* Telegram: the voice chat of the group *)

VoiceChatStarts ==
    /\ InGroup /\ voice = 0 /\ opened < MaxVoice[kind]
    /\ opened' = opened + 1
    /\ voice' = opened'
    /\ news' = news \cup {[what |-> "open", call |-> opened']}
    /\ UNCHANGED <<kind, missed, groupCall, engine, reports, wait, made, pending, private, pc, locals>>

VoiceChatEnds ==
    /\ voice # 0
    /\ voice' = 0
    /\ news' = news \cup {[what |-> "over", call |-> voice]}
    /\ UNCHANGED <<kind, opened, missed, groupCall, engine, reports, wait, made, pending, private, pc, locals>>

\* UpdateGroupCall without a Peer: it is the chat's whose entry holds that very
\* call, and lost if none does.
CallUnresolved(n) ==
    /\ n.what \in {"open", "over"} /\ groupCall # n.call
    /\ news' = news \ {n}
    /\ missed' = IF n.what = "over" THEN missed \cup {n.call} ELSE missed
    /\ UNCHANGED <<kind, voice, opened, groupCall, engine, reports, wait, made, pending, private, pc, locals>>

\* UpdateGroupCall with a GroupCallObj; the chat is that of its Peer, or was
\* found by the call.
CallOpened(n) ==
    /\ n.what = "open"
    /\ groupCall' = n.call
    /\ news' = news \ {n}
    /\ UNCHANGED <<kind, voice, opened, missed, engine, reports, wait, made, pending, private, pc, locals>>

\* UpdateGroupCall with a GroupCallDiscarded: the entry of the chat is deleted,
\* whichever call it holds by then ...
CallDiscarded(n) ==
    /\ n.what = "over"
    /\ groupCall' = Unknown
    /\ news' = (news \ {n}) \cup {[n EXCEPT !.what = "stop"]}
    /\ UNCHANGED <<kind, voice, opened, missed, engine, reports, wait, made, pending, private, pc, locals>>

\* Mutant: only the entry is deleted.
MutantDiscardedForgets(n) ==
    /\ n.what = "stop"
    /\ news' = news \ {n}
    /\ UNCHANGED <<kind, voice, opened, missed, groupCall, engine, reports, wait, made, pending, private, pc, locals>>

\* ... and the engine is stopped.
DiscardedStops(n) ==
    /\ n.what = "stop"
    /\ StopEngine
    /\ news' = news \ {n}
    /\ UNCHANGED <<kind, voice, opened, missed, groupCall, wait, made, pending, private, pc, locals>>
-----------------------------------------------------------------------------
(* The engine *)

EngineConnects ==
    /\ engine.state = "connecting"
    /\ engine' = [engine EXCEPT !.state = "connected"]
    /\ reports' = reports \cup {Says("connected")}
    /\ UNCHANGED <<kind, telegram, groupCall, wait, made, pending, private, pc, locals>>

\* Failed, Timeout or Closed by the other side: the engine drops the call.
EngineLoses ==
    /\ engine.state \in {"connecting", "connected"}
    /\ StopEngine
    /\ UNCHANGED <<kind, telegram, groupCall, wait, made, pending, private, pc, locals>>

\* OnConnectionChange: nothing to do without a channel, else send on it.
Callback(r) ==
    /\ r.on = 0
    /\ reports' = (reports \ {r}) \cup (IF wait = 0 THEN {} ELSE {[r EXCEPT !.on = wait]})
    /\ UNCHANGED <<kind, telegram, groupCall, engine, wait, made, pending, private, pc, locals>>

\* Mutant: the channel goes with the call.
MutantStopClears ==
    /\ HasCall
    /\ StopEngine
    /\ wait' = 0
    /\ UNCHANGED <<kind, telegram, groupCall, made, pending, private, pc, locals>>

\* Context.Stop, called by the handler of /stop: an error when there is no call.
StopCall ==
    /\ HasCall
    /\ StopEngine
    /\ UNCHANGED <<kind, telegram, groupCall, wait, made, pending, private, pc, locals>>
-----------------------------------------------------------------------------
(* Play and connectCall *)

Play(t) ==
    /\ t \in Players /\ (HasCall \/ Room)
    /\ At(t, "idle", IF HasCall THEN "set" ELSE "connect")
    /\ UNCHANGED <<kind, telegram, groupCall, engine, reports, wait, made, pending, private, locals>>

\* A new source for the call that is there; an error when it is gone.
SetSources(t) ==
    /\ At(t, "set", "idle")
    /\ UNCHANGED <<kind, telegram, groupCall, engine, reports, wait, made, pending, private, locals>>

\* The participants update that lets the assistant speak in a streamed voice
\* chat reconnects the call kept in pendingConnections.
Reconnect(t) ==
    /\ t \in Handlers
    /\ kind = "stream" /\ groupCall > 0 /\ HasCall /\ pending /\ Room
    /\ At(t, "idle", "connect")
    /\ UNCHANGED <<kind, telegram, groupCall, engine, reports, wait, made, pending, private, locals>>

\* A channel for the answer, before anything can be reported.
Connect(t) ==
    /\ At(t, "connect", IF InGroup THEN "create" ELSE "config")
    /\ made' = made + 1
    /\ wait' = made'
    /\ UNCHANGED <<kind, telegram, groupCall, engine, reports, pending, private, locals>>

\* CreateCall; the engine holds one call of a chat and refuses another.
Create(t) ==
    /\ IF HasCall
       THEN At(t, "create", "undo") /\ UNCHANGED engine
       ELSE At(t, "create", "sources") /\ engine' = [NoCall EXCEPT !.state = "created", !.by = made]
    /\ UNCHANGED <<kind, telegram, groupCall, reports, wait, made, pending, private, locals>>

\* SetStreamSources fails without a call, or on a source it cannot use.
CreateSources(t) ==
    /\ \E ok \in {HasCall, FALSE} : At(t, "sources", IF ok THEN "lookup" ELSE "undo")
    /\ UNCHANGED <<kind, telegram, groupCall, engine, reports, wait, made, pending, private, locals>>

\* Mutant: a closed call is returned like an open one.
MutantLookup(t) ==
    /\ pc[t] \in {"lookup", "reread"}
    /\ target' = [target EXCEPT ![t] = groupCall]
    /\ Goto(t, IF groupCall # Unknown THEN "join"
               ELSE IF pc[t] = "lookup" THEN "fetch" ELSE "undo")
    /\ UNCHANGED <<kind, telegram, groupCall, engine, reports, wait, made, pending, private, ch>>

\* getInputGroupCall: the cached call, an error for a closed one, and the full
\* chat when none is cached.  After the fetch the map is read once more.
Lookup(t) ==
    /\ pc[t] \in {"lookup", "reread"}
    /\ target' = [target EXCEPT ![t] = groupCall]
    /\ Goto(t, IF groupCall > 0 THEN "join"
               ELSE IF groupCall = Unknown /\ pc[t] = "lookup" THEN "fetch" ELSE "undo")
    /\ UNCHANGED <<kind, telegram, groupCall, engine, reports, wait, made, pending, private, ch>>

Fetch(t) ==
    /\ \/ At(t, "fetch", "store") /\ target' = [target EXCEPT ![t] = voice]
       \/ At(t, "fetch", "undo") /\ UNCHANGED target
    /\ UNCHANGED <<kind, telegram, groupCall, engine, reports, wait, made, pending, private, ch>>

Store(t) ==
    /\ At(t, "store", "reread")
    /\ groupCall' = target[t]
    /\ UNCHANGED <<kind, telegram, engine, reports, wait, made, pending, private, locals>>

\* The clean-up of the first three errors: binding.Stop, whoever made the call.
Undo(t) ==
    /\ pc[t] = "undo"
    /\ StopEngine
    /\ Fail(t)
    /\ UNCHANGED <<kind, telegram, groupCall, made, pending, rings, answers, ch>>

\* PhoneJoinGroupCall: refused for a call that is over, or for other reasons.
\* This error and those after it leave the engine's call where it is.
Join(t) ==
    /\ \/ /\ target[t] = voice
          /\ At(t, "join", "attach")
          /\ UNCHANGED <<wait, config, target>>
       \/ pc[t] = "join" /\ Fail(t)
    /\ UNCHANGED <<kind, telegram, groupCall, engine, reports, made, pending, rings, answers, ch>>

\* binding.Connect with the parameters of the call that was joined.
Attach(t) ==
    /\ pc[t] = "attach"
    /\ IF engine.state = "created"
       THEN /\ engine' = [engine EXCEPT !.state = "connecting", !.of = target[t]]
            /\ Goto(t, "mode")
            /\ UNCHANGED <<wait, config, target>>
       ELSE Fail(t) /\ UNCHANGED engine
    /\ UNCHANGED <<kind, telegram, groupCall, reports, made, pending, rings, answers, ch>>

\* GetConnectionMode; in a streamed voice chat the call is kept for Reconnect.
Mode(t) ==
    /\ pc[t] = "mode"
    /\ IF HasCall
       THEN /\ pending' = (pending \/ kind = "stream")
            /\ Goto(t, "await")
            /\ UNCHANGED <<wait, config, target>>
       ELSE Fail(t) /\ UNCHANGED pending
    /\ UNCHANGED <<kind, telegram, groupCall, engine, reports, made, rings, answers, ch>>

\* Mutant: the channel is made only now.
MutantAwait(t) ==
    /\ At(t, "await", "waiting")
    /\ wait' = made + 1
    /\ ch' = [ch EXCEPT ![t] = wait']
    /\ UNCHANGED <<kind, telegram, groupCall, engine, reports, made, pending, private, target>>

\* The receive evaluates the map; a nil channel blocks for ever.
Await(t) ==
    /\ At(t, "await", "waiting")
    /\ ch' = [ch EXCEPT ![t] = wait]
    /\ UNCHANGED <<kind, telegram, groupCall, engine, reports, wait, made, pending, private, target>>

\* A callback and the waiter meet on the channel.  In a group Play goes on with
\* joinPresentation, which empties the map again, and updateSources.
Deliver(t, r) ==
    /\ pc[t] = "waiting" /\ r.on # 0 /\ r.on = ch[t]
    /\ reports' = reports \ {r}
    /\ wait' = 0
    /\ config' = IF InGroup THEN config ELSE 0
    /\ Goto(t, IF r.says = "connected" /\ t \in Players /\ InGroup THEN "present" ELSE "idle")
    /\ target' = [target EXCEPT ![t] = 0] /\ ch' = [ch EXCEPT ![t] = 0]
    /\ UNCHANGED <<kind, telegram, groupCall, engine, made, pending, rings, answers>>

\* No screen is ever shared (getMediaDescription), so joinPresentation only asks
\* for the mode and runs its deferred function.
Present(t) ==
    /\ At(t, "present", "idle")
    /\ wait' = 0
    /\ UNCHANGED <<kind, telegram, groupCall, engine, reports, made, pending, private, locals>>
-----------------------------------------------------------------------------
(* Private calls *)

\* PhoneCallRequested while no configuration exists: a new one, and the callback
\* of RegisterHandlers, which downloads what it plays.
Ring(t) ==
    /\ t \in Players /\ kind = "user" /\ config = 0 /\ rings < MaxRings /\ Room
    /\ At(t, "idle", "download")
    /\ rings' = rings + 1 /\ config' = rings'
    /\ UNCHANGED <<kind, telegram, groupCall, engine, reports, wait, made, pending, answers, locals>>

\* Without its file the callback returns; the configuration stays.
Download(t) ==
    /\ \/ At(t, "download", "idle")
       \/ At(t, "download", IF HasCall THEN "set" ELSE "connect")
    /\ UNCHANGED <<kind, telegram, groupCall, engine, reports, wait, made, pending, private, locals>>

\* The configuration of the call that came in, or a new one to call the user:
\* the assistant that plays need not be the one that was called.
Configure(t) ==
    /\ pc[t] = "config"
    /\ IF config # 0
       THEN Goto(t, "p2p") /\ UNCHANGED <<wait, config, target, rings>>
       ELSE \/ Fail(t) /\ UNCHANGED rings
            \/ /\ rings' = rings + 1 /\ config' = rings'
               /\ Goto(t, "p2p")
               /\ UNCHANGED <<wait, target>>
    /\ UNCHANGED <<kind, telegram, groupCall, engine, reports, made, pending, answers, ch>>

\* CreateP2PCall.  No error of a private call stops the engine.
CreateP2P(t) ==
    /\ pc[t] = "p2p"
    /\ IF HasCall
       THEN Fail(t) /\ UNCHANGED engine
       ELSE /\ engine' = [NoCall EXCEPT !.state = "created", !.by = made]
            /\ Goto(t, "dial")
            /\ UNCHANGED <<wait, config, target>>
    /\ UNCHANGED <<kind, telegram, groupCall, reports, made, pending, rings, answers, ch>>

\* SetStreamSources, InitExchange, then PhoneRequestCall or PhoneAcceptCall.
Dial(t) ==
    /\ pc[t] = "dial"
    /\ \/ HasCall /\ Goto(t, "answer") /\ UNCHANGED <<wait, config, target>>
       \/ Fail(t)
    /\ UNCHANGED <<kind, telegram, groupCall, engine, reports, made, pending, rings, answers, ch>>

\* An update of the private call: accepted or ready, or discarded.
PeerAnswers ==
    /\ kind = "user" /\ rings > 0
    /\ \E what \in {"ready", "discarded"} :
         answers' = answers \cup {[says |-> what, to |-> 0]}
    /\ UNCHANGED <<kind, telegram, groupCall, engine, reports, wait, made, pending, config, rings, pc, locals>>

\* Mutant: a discarded call takes its configuration along.
MutantHandleAnswer(a) ==
    /\ a.to = 0 /\ a.says # "stop"
    /\ answers' = (answers \ {a}) \cup
         (IF config # 0 THEN {[a EXCEPT !.to = config]}
          ELSE IF a.says = "discarded" THEN {[a EXCEPT !.says = "stop"]} ELSE {})
    /\ config' = IF a.says = "discarded" THEN 0 ELSE config
    /\ UNCHANGED <<kind, telegram, groupCall, engine, reports, wait, made, pending, rings, pc, locals>>

\* Its handler sends on WaitData of the configuration, if there is one.
HandleAnswer(a) ==
    /\ a.to = 0 /\ a.says # "stop"
    /\ answers' = (answers \ {a}) \cup
         (IF config # 0 THEN {[a EXCEPT !.to = config]}
          ELSE IF a.says = "discarded" THEN {[a EXCEPT !.says = "stop"]} ELSE {})
    /\ UNCHANGED <<kind, telegram, groupCall, engine, reports, wait, made, pending, config, rings, pc, locals>>

\* PhoneCallDiscarded stops the engine, once its send has gone through.
AnswerStops(a) ==
    /\ a.says = "stop"
    /\ StopEngine
    /\ answers' = answers \ {a}
    /\ UNCHANGED <<kind, telegram, groupCall, wait, made, pending, config, rings, pc, locals>>

\* The select of connectCall: an answer, or ten seconds without one.
Answer(t) ==
    /\ pc[t] = "answer"
    /\ \/ \E a \in answers :
            /\ a.to = config
            /\ answers' = (answers \ {a}) \cup
                 (IF a.says = "discarded" THEN {[a EXCEPT !.says = "stop", !.to = 0]} ELSE {})
            /\ IF a.says = "ready" THEN Goto(t, "keys") /\ UNCHANGED <<wait, config, target>> ELSE Fail(t)
       \/ Fail(t) /\ UNCHANGED answers
    /\ UNCHANGED <<kind, telegram, groupCall, engine, reports, made, pending, rings, ch>>

\* ExchangeKeys, PhoneConfirmCall, ConnectP2P.
Keys(t) ==
    /\ pc[t] = "keys"
    /\ \/ /\ engine.state = "created"
          /\ engine' = [engine EXCEPT !.state = "connecting"]
          /\ Goto(t, "await")
          /\ UNCHANGED <<wait, config, target>>
       \/ Fail(t) /\ UNCHANGED engine
    /\ UNCHANGED <<kind, telegram, groupCall, reports, made, pending, rings, answers, ch>>
-----------------------------------------------------------------------------
Group(t) ==
    \/ Create(t) \/ CreateSources(t) \/ Lookup(t) \/ Fetch(t) \/ Store(t)
    \/ Undo(t) \/ Join(t) \/ Attach(t) \/ Mode(t) \/ Present(t)

P2P(t) == Download(t) \/ Configure(t) \/ CreateP2P(t) \/ Dial(t) \/ Answer(t) \/ Keys(t)

Run(t) ==
    \/ SetSources(t) \/ Connect(t) \/ Group(t) \/ P2P(t) \/ Await(t)
    \/ \E r \in reports : Deliver(t, r)

Engine == EngineConnects \/ EngineLoses

Events ==
    \/ \E n \in news : CallUnresolved(n) \/ CallOpened(n) \/ CallDiscarded(n) \/ DiscardedStops(n)
    \/ \E r \in reports : Callback(r)
    \/ \E a \in answers : HandleAnswer(a) \/ AnswerStops(a)

Next ==
    \/ VoiceChatStarts \/ VoiceChatEnds \/ StopCall \/ PeerAnswers
    \/ Engine \/ Events
    \/ \E t \in Callers : Play(t) \/ Ring(t) \/ Reconnect(t) \/ Run(t)

Spec == Init /\ [][Next]_vars

\* The scheduler runs every goroutine and update; the engine decides each
\* connection in the end (nothing in the code bounds that wait).
FairSpec ==
    /\ Spec
    /\ WF_vars(Engine)
    /\ \A by \in 1..MaxConnects, what \in {"connected", "ended"} :
         LET r == [by |-> by, says |-> what, on |-> 0] IN WF_vars(r \in reports /\ Callback(r))
    /\ \A t \in Callers : WF_vars(Run(t))
-----------------------------------------------------------------------------
(* Properties *)

Connecting == {"create", "sources", "lookup", "reread", "fetch", "store", "undo", "join",
               "attach", "mode", "await", "waiting", "config", "p2p", "dial", "answer", "keys"}

\* Every variable has its type, and a call that is being connected in a group
\* knows the voice chat it was joined to.
TypeOK ==
    /\ kind \in Kinds
    /\ opened \in 0..MaxVoice[kind] /\ voice \in 0..opened
    /\ news \subseteq [what : {"open", "over", "stop"}, call : 1..opened]
    /\ missed \subseteq 1..opened /\ groupCall \in Unknown..opened
    /\ engine \in [state : {"none", "created", "connecting", "connected"},
                   by : 0..made, of : 0..opened]
    /\ InGroup /\ engine.state \in {"connecting", "connected"} => engine.of > 0
    /\ made \in 0..MaxConnects /\ wait \in 0..made
    /\ reports \subseteq [by : 1..made, says : {"connected", "ended"}, on : 0..made]
    /\ pending \in BOOLEAN
    /\ rings \in 0..(MaxRings + MaxConnects) /\ config \in 0..rings
    /\ answers \subseteq [says : {"ready", "discarded", "stop"}, to : 0..rings]
    /\ pc \in [Callers -> {"idle", "set", "connect", "present", "download"} \cup Connecting]
    /\ target \in [Callers -> Unknown..opened]
    /\ ch \in [Callers -> 0..made]

\* While Play is not called twice at once: outside of streamed voice chats, whose
\* Reconnect overlaps, a goroutine that waits for its connection waits on the
\* channel the callbacks will use.
WaiterReachable ==
    kind # "stream" => \A t \in Players : pc[t] = "waiting" => wait # 0 /\ ch[t] = wait

\* Under the same condition: the engine is in no voice chat that is over, unless
\* the update that says so is still on its way or at work.  Only a group that
\* has opened more than one voice chat can miss the update: a late one about an
\* earlier voice chat takes the entry by which the later one is found.
NoGhostCall ==
    kind = "rtc" /\ engine.state \in {"connecting", "connected"} =>
        \/ engine.of = voice
        \/ \E n \in news : n.what # "open" /\ n.call = engine.of
        \/ opened > 1 /\ engine.of \in missed

\* connectCall uses p2pConfigs[chat] without looking whether it is still there:
\* neither the updates of the call nor its end may take it away.
ConfigHeld ==
    \A t \in Players : pc[t] \in {"p2p", "dial", "answer", "keys"} => config # 0

\* Outside of streamed voice chats every Play returns, if the engine decides each
\* connection: no report is lost between the caller and the callback.
PlaysReturn == \A t \in Players : (pc[t] # "idle" /\ kind # "stream") ~> (pc[t] = "idle")
=============================================================================
