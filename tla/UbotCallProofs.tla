--------------------------- MODULE UbotCallProofs ---------------------------
(***************************************************************************)
(* Theorems about UbotCall: its types for any number of goroutines and any *)
(* bounds, and the three safety properties for any bounds while one        *)
(* goroutine at a time calls Play.                                         *)
(***************************************************************************)
EXTENDS UbotCall, FiniteSetTheorems, TLAPS

PrivateSteps == {"config", "p2p", "dial", "answer", "keys"}
Joined       == {"join", "attach"}

\* The goroutines at one of the steps of S.
Where(S) == {t \in Callers : pc[t] \in S}
Starting    == {"connect", "download"}
Configuring == {"config"}

\* Room counts right: each connectCall made or yet to come is within the bound,
\* and so are the private calls configured, or yet to be.
Counted ==
    /\ made + Cardinality(Where(Starting)) <= MaxConnects
    /\ Cardinality(Where(Configuring)) <= made
    /\ rings + Cardinality(Where(Configuring)) <= MaxRings + made

\* The types, part by part, with what they need.
TelegramTyped ==
    /\ kind \in Kinds /\ opened \in 0..MaxVoice[kind] /\ voice \in 0..opened
    /\ news \subseteq [what : {"open", "over", "stop"}, call : 1..opened]
    /\ missed \subseteq 1..opened /\ groupCall \in Unknown..opened
EngineTyped ==
    /\ engine \in [state : {"none", "created", "connecting", "connected"},
                   by : 0..made, of : 0..opened]
    /\ InGroup /\ engine.state \in {"connecting", "connected"} => engine.of > 0
    /\ HasCall => engine.by > 0
ReportsTyped ==
    /\ made \in 0..MaxConnects /\ wait \in 0..made /\ pending \in BOOLEAN
    /\ reports \subseteq [by : 1..made, says : {"connected", "ended"}, on : 0..made]
PrivateTyped ==
    /\ rings \in 0..(MaxRings + MaxConnects) /\ config \in 0..rings
    /\ answers \subseteq [says : {"ready", "discarded", "stop"}, to : 0..rings]
CallersTyped ==
    /\ pc \in [Callers -> {"idle", "set", "connect", "present", "download"} \cup Connecting]
    /\ target \in [Callers -> Unknown..opened]
    /\ ch \in [Callers -> 0..made]
    /\ \A t \in Callers : /\ pc[t] \in Connecting => made > 0
                          /\ pc[t] \in Joined => target[t] > 0
                          /\ pc[t] \in PrivateSteps => kind = "user"

Typed == TelegramTyped /\ EngineTyped /\ ReportsTyped /\ PrivateTyped /\ CallersTyped

\* The inductive invariant of TypeOK.
TypeInv == Typed /\ Counted
-----------------------------------------------------------------------------
\* One goroutine moves, and the count of those at the steps of S follows.
LEMMA WhereMoves ==
    ASSUME NEW S, TypeOK, NEW t \in Callers, NEW next, Goto(t, next)
    PROVE  /\ Cardinality(Where(S)) \in Nat /\ Cardinality(Where(S)') \in Nat
           /\ (pc[t] \in S <=> next \in S) => Where(S)' = Where(S)
           /\ pc[t] \notin S /\ next \in S
                => Cardinality(Where(S)') = Cardinality(Where(S)) + 1
           /\ pc[t] \in S /\ next \notin S
                => Cardinality(Where(S)') = Cardinality(Where(S)) - 1
<1>1. IsFiniteSet(Where(S)) /\ IsFiniteSet(Where(S)')
  <2>1. Where(S) \subseteq Callers /\ Where(S)' \subseteq Callers
    BY DEF Where
  <2> QED
    BY <2>1, FS_Subset, UbotAssumption DEF Callers
<1>2. \A u \in Callers : pc'[u] = IF u = t THEN next ELSE pc[u]
  BY DEF Goto, TypeOK
<1>3. ASSUME pc[t] \in S <=> next \in S PROVE Where(S)' = Where(S)
  BY <1>2, <1>3 DEF Where
<1>4. ASSUME pc[t] \notin S, next \in S
      PROVE  Cardinality(Where(S)') = Cardinality(Where(S)) + 1
  <2>1. t \notin Where(S) /\ Where(S)' = Where(S) \cup {t}
    BY <1>2, <1>4 DEF Where
  <2> QED
    BY <2>1, <1>1, FS_AddElement
<1>5. ASSUME pc[t] \in S, next \notin S
      PROVE  Cardinality(Where(S)') = Cardinality(Where(S)) - 1
  <2>1. t \in Where(S) /\ Where(S)' = Where(S) \ {t}
    BY <1>2, <1>5 DEF Where
  <2> QED
    BY <2>1, <1>1, FS_RemoveElement
<1> QED
  BY <1>1, <1>3, <1>4, <1>5, FS_CardinalityType

\* A step keeps the counts: only Play, Reconnect, Connect and the steps of a
\* private call that rings or is configured change them.
LEMMA StepCounted ==
    ASSUME TypeOK, Counted, [Next]_vars
    PROVE  Counted' /\ made' \in 0..MaxConnects /\ rings' \in 0..(MaxRings + MaxConnects)
<1> DEFINE starting == Cardinality(Where(Starting))
           configuring == Cardinality(Where(Configuring))
<1>1. /\ starting \in Nat /\ starting' \in Nat /\ configuring \in Nat /\ configuring' \in Nat
      /\ made \in Nat /\ rings \in Nat /\ MaxConnects \in Nat /\ MaxRings \in Nat
  <2>1. /\ \A S \in {Starting, Configuring} :
              Cardinality(Where(S)) \in Nat /\ Cardinality(Where(S)') \in Nat
    <3> SUFFICES ASSUME NEW S \in {Starting, Configuring}
                 PROVE  Cardinality(Where(S)) \in Nat /\ Cardinality(Where(S)') \in Nat
      OBVIOUS
    <3>1. Where(S) \subseteq Callers /\ Where(S)' \subseteq Callers
      BY DEF Where
    <3> QED
      BY <3>1, FS_Subset, FS_CardinalityType, UbotAssumption DEF Callers
  <2> QED
    BY <2>1, UbotAssumption DEF TypeOK
<1>2. SUFFICES Counted' /\ made' \in Nat /\ rings' \in Nat
  BY <1>1 DEF Counted
<1> HIDE DEF starting, configuring
<1>3. /\ starting = Cardinality(Where(Starting)) /\ starting' = Cardinality(Where(Starting)')
      /\ configuring = Cardinality(Where(Configuring))
      /\ configuring' = Cardinality(Where(Configuring)')
  BY DEF starting, configuring
<1>4. /\ made + starting <= MaxConnects /\ configuring <= made
      /\ rings + configuring <= MaxRings + made
  BY <1>3 DEF Counted
<1>5. ASSUME /\ made' + starting' <= MaxConnects /\ configuring' <= made'
             /\ rings' + configuring' <= MaxRings + made'
             /\ made' \in Nat /\ rings' \in Nat
      PROVE  Counted' /\ made' \in Nat /\ rings' \in Nat
  BY <1>3, <1>5 DEF Counted
\* What a move adds to the two counts.
<1>6. ASSUME NEW t \in Callers, NEW next, Goto(t, next)
      PROVE  /\ (pc[t] \in Starting <=> next \in Starting) => starting' = starting
             /\ pc[t] \notin Starting /\ next \in Starting => starting' = starting + 1
             /\ pc[t] \in Starting /\ next \notin Starting => starting' = starting - 1
             /\ (pc[t] = "config" <=> next = "config") => configuring' = configuring
             /\ pc[t] # "config" /\ next = "config" => configuring' = configuring + 1
             /\ pc[t] = "config" /\ next # "config" => configuring' = configuring - 1
  <2>2. /\ (pc[t] \in Starting <=> next \in Starting) => starting' = starting
        /\ pc[t] \notin Starting /\ next \in Starting => starting' = starting + 1
        /\ pc[t] \in Starting /\ next \notin Starting => starting' = starting - 1
    BY <1>3, <1>6, WhereMoves
  <2>3. /\ (pc[t] \in Configuring <=> next \in Configuring) => configuring' = configuring
        /\ pc[t] \notin Configuring /\ next \in Configuring => configuring' = configuring + 1
        /\ pc[t] \in Configuring /\ next \notin Configuring => configuring' = configuring - 1
    BY <1>3, <1>6, WhereMoves
  <2> QED
    BY <2>2, <2>3 DEF Configuring
<1>7. ASSUME NEW t \in Callers, NEW next, Goto(t, next), UNCHANGED <<made, rings>>,
             pc[t] \notin Starting \cup Configuring, next \notin Starting \cup Configuring
      PROVE  Counted' /\ made' \in Nat /\ rings' \in Nat
  <2>1. starting' = starting /\ configuring' = configuring
    BY <1>6, <1>7 DEF Configuring
  <2> QED
    BY <1>1, <1>4, <1>5, <1>7, <2>1
<1>8. ASSUME UNCHANGED <<pc, made, rings>>
      PROVE  Counted' /\ made' \in Nat /\ rings' \in Nat
  BY <1>1, <1>8 DEF Counted, Where
<1>9. ASSUME Room PROVE made + starting < MaxConnects
  BY <1>3, <1>9 DEF Room, Where, Starting
<1> USE DEF At, Fail, private, Starting, Configuring
<1>10. ASSUME NEW t \in Callers, SetSources(t) PROVE Counted' /\ made' \in Nat /\ rings' \in Nat
  BY <1>10, <1>7 DEF SetSources
<1>11. ASSUME NEW t \in Callers, Create(t) PROVE Counted' /\ made' \in Nat /\ rings' \in Nat
  BY <1>11, <1>7 DEF Create
<1>12. ASSUME NEW t \in Callers, CreateSources(t) PROVE Counted' /\ made' \in Nat /\ rings' \in Nat
  BY <1>12, <1>7 DEF CreateSources
<1>13. ASSUME NEW t \in Callers, Lookup(t) PROVE Counted' /\ made' \in Nat /\ rings' \in Nat
  BY <1>13, <1>7 DEF Lookup
<1>14. ASSUME NEW t \in Callers, Fetch(t) PROVE Counted' /\ made' \in Nat /\ rings' \in Nat
  BY <1>14, <1>7 DEF Fetch
<1>15. ASSUME NEW t \in Callers, Store(t) PROVE Counted' /\ made' \in Nat /\ rings' \in Nat
  BY <1>15, <1>7 DEF Store
<1>16. ASSUME NEW t \in Callers, Undo(t) PROVE Counted' /\ made' \in Nat /\ rings' \in Nat
  BY <1>16, <1>7 DEF Undo
<1>17. ASSUME NEW t \in Callers, Join(t) PROVE Counted' /\ made' \in Nat /\ rings' \in Nat
  BY <1>17, <1>7 DEF Join
<1>18. ASSUME NEW t \in Callers, Attach(t) PROVE Counted' /\ made' \in Nat /\ rings' \in Nat
  BY <1>18, <1>7 DEF Attach
<1>19. ASSUME NEW t \in Callers, Mode(t) PROVE Counted' /\ made' \in Nat /\ rings' \in Nat
  BY <1>19, <1>7 DEF Mode
<1>20. ASSUME NEW t \in Callers, Await(t) PROVE Counted' /\ made' \in Nat /\ rings' \in Nat
  BY <1>20, <1>7 DEF Await
<1>21. ASSUME NEW t \in Callers, Present(t) PROVE Counted' /\ made' \in Nat /\ rings' \in Nat
  BY <1>21, <1>7 DEF Present
<1>22. ASSUME NEW t \in Callers, CreateP2P(t) PROVE Counted' /\ made' \in Nat /\ rings' \in Nat
  BY <1>22, <1>7 DEF CreateP2P
<1>23. ASSUME NEW t \in Callers, Dial(t) PROVE Counted' /\ made' \in Nat /\ rings' \in Nat
  BY <1>23, <1>7 DEF Dial
<1>24. ASSUME NEW t \in Callers, Answer(t) PROVE Counted' /\ made' \in Nat /\ rings' \in Nat
  BY <1>24, <1>7 DEF Answer
<1>25. ASSUME NEW t \in Callers, Keys(t) PROVE Counted' /\ made' \in Nat /\ rings' \in Nat
  BY <1>25, <1>7 DEF Keys
<1>26. ASSUME NEW t \in Callers, NEW r \in reports, Deliver(t, r)
      PROVE  Counted' /\ made' \in Nat /\ rings' \in Nat
  BY <1>26, <1>7 DEF Deliver
<1>27. ASSUME NEW t \in Callers, Play(t) PROVE Counted' /\ made' \in Nat /\ rings' \in Nat
  <2>1. CASE HasCall
    BY <1>7, <1>27, <2>1 DEF Play
  <2>2. CASE ~ HasCall
    <3>1. Goto(t, "connect") /\ pc[t] = "idle" /\ UNCHANGED <<made, rings>>
      BY <1>27, <2>2 DEF Play
    <3>2. starting' = starting + 1 /\ configuring' = configuring
      BY <3>1, <1>6
    <3> QED
      BY <1>1, <1>4, <1>5, <1>9, <1>27, <2>2, <3>1, <3>2 DEF Play
  <2> QED
    BY <2>1, <2>2
<1>28. ASSUME NEW t \in Callers, Reconnect(t) PROVE Counted' /\ made' \in Nat /\ rings' \in Nat
  <2>1. Goto(t, "connect") /\ pc[t] = "idle" /\ made' = made
    BY <1>28 DEF Reconnect
  <2>2. starting' = starting + 1 /\ configuring' = configuring
    BY <2>1, <1>6
  <2> QED
    BY <1>1, <1>4, <1>5, <1>9, <1>28, <2>1, <2>2 DEF Reconnect
<1>29. ASSUME NEW t \in Callers, Ring(t) PROVE Counted' /\ made' \in Nat /\ rings' \in Nat
  <2>1. Goto(t, "download") /\ pc[t] = "idle" /\ made' = made
    BY <1>29 DEF Ring
  <2>2. starting' = starting + 1 /\ configuring' = configuring
    BY <2>1, <1>6
  <2> QED
    BY <1>1, <1>4, <1>5, <1>9, <1>29, <2>1, <2>2 DEF Ring
<1>30. ASSUME NEW t \in Callers, Connect(t) PROVE Counted' /\ made' \in Nat /\ rings' \in Nat
  <2>1. pc[t] = "connect" /\ made' = made + 1 /\ rings' = rings
    BY <1>30 DEF Connect
  <2>2. CASE InGroup
    <3>1. starting' = starting - 1 /\ configuring' = configuring
      BY <1>6, <1>30, <2>1, <2>2 DEF Connect
    <3> QED
      BY <1>1, <1>4, <1>5, <2>1, <3>1
  <2>3. CASE ~ InGroup
    <3>1. starting' = starting - 1 /\ configuring' = configuring + 1
      BY <1>6, <1>30, <2>1, <2>3 DEF Connect
    <3> QED
      BY <1>1, <1>4, <1>5, <2>1, <3>1
  <2> QED
    BY <2>2, <2>3
<1>31. ASSUME NEW t \in Callers, Download(t) PROVE Counted' /\ made' \in Nat /\ rings' \in Nat
  <2>1. pc[t] = "download" /\ made' = made /\ rings' = rings
    BY <1>31 DEF Download
  <2>2. CASE Goto(t, "connect")
    <3>1. starting' = starting /\ configuring' = configuring
      BY <1>6, <2>1, <2>2
    <3> QED
      BY <1>1, <1>4, <1>5, <2>1, <3>1
  <2>3. CASE Goto(t, "idle") \/ Goto(t, "set")
    <3>1. starting' = starting - 1 /\ configuring' = configuring
      BY <1>6, <2>1, <2>3
    <3> QED
      BY <1>1, <1>4, <1>5, <2>1, <3>1
  <2> QED
    BY <1>31, <2>2, <2>3 DEF Download
<1>32. ASSUME NEW t \in Callers, Configure(t) PROVE Counted' /\ made' \in Nat /\ rings' \in Nat
  <2>1. pc[t] = "config" /\ made' = made /\ (Goto(t, "p2p") \/ Goto(t, "idle"))
    BY <1>32 DEF Configure
  <2>2. starting' = starting /\ configuring' = configuring - 1
    BY <1>6, <2>1
  <2>3. CASE rings' = rings
    BY <1>1, <1>4, <1>5, <2>1, <2>2, <2>3
  <2>4. CASE rings' = rings + 1
    BY <1>1, <1>4, <1>5, <2>1, <2>2, <2>4
  <2> QED
    BY <1>32, <2>3, <2>4 DEF Configure
<1>33. CASE \/ VoiceChatStarts \/ VoiceChatEnds \/ StopCall \/ PeerAnswers
          \/ Engine \/ Events \/ UNCHANGED vars
  BY <1>33, <1>8 DEF VoiceChatStarts, VoiceChatEnds, StopCall, PeerAnswers, Engine, EngineConnects,
         EngineLoses, Events, CallUnresolved, CallOpened, CallDiscarded, DiscardedStops, Callback,
         HandleAnswer, AnswerStops, vars
<1> QED
  BY <1>10, <1>11, <1>12, <1>13, <1>14, <1>15, <1>16, <1>17, <1>18, <1>19, <1>20, <1>21, <1>22, <1>23, <1>24, <1>25, <1>26, <1>27, <1>28, <1>29, <1>30, <1>31, <1>32, <1>33 DEF Next, Run, Group, P2P

\* A step keeps the types.
LEMMA StepTyped ==
    ASSUME Typed, Counted, Counted', [Next]_vars,
           made' \in 0..MaxConnects, rings' \in 0..(MaxRings + MaxConnects)
    PROVE  Typed'
<1> USE DEF Typed, TelegramTyped, EngineTyped, ReportsTyped, PrivateTyped,
        CallersTyped, Goto, At, HasCall, InGroup, StopEngine, Says, NoCall, Fail, Room, telegram, private, locals,
        Callers, Unknown, Connecting, Joined, PrivateSteps, Kinds
<1>1. ASSUME NEW t \in Callers, Play(t) PROVE Typed'
  BY <1>1 DEF Play
<1>2. ASSUME NEW t \in Callers, SetSources(t) PROVE Typed'
  BY <1>2 DEF SetSources
<1>3. ASSUME NEW t \in Callers, Reconnect(t) PROVE Typed'
  BY <1>3 DEF Reconnect
<1>4. ASSUME NEW t \in Callers, Connect(t) PROVE Typed'
  <2>1. TelegramTyped'
    BY <1>4 DEF Connect
  <2>2. EngineTyped'
    BY <1>4 DEF Connect
  <2>3. ReportsTyped'
    BY <1>4 DEF Connect
  <2>4. PrivateTyped'
    BY <1>4 DEF Connect
  <2>5. CallersTyped'
    BY <1>4 DEF Connect
  <2> HIDE DEF TelegramTyped, EngineTyped, ReportsTyped, PrivateTyped, CallersTyped
  <2> QED
    BY <2>1, <2>2, <2>3, <2>4, <2>5
<1>5. ASSUME NEW t \in Callers, Create(t) PROVE Typed'
  <2>1. TelegramTyped'
    BY <1>5 DEF Create
  <2>2. EngineTyped'
    <3>1. engine' = engine \/ engine' = [state |-> "created", by |-> made, of |-> 0]
      BY <1>5 DEF Create
    <3> QED
      BY <1>5, <3>1 DEF Create
  <2>3. ReportsTyped'
    BY <1>5 DEF Create
  <2>4. PrivateTyped'
    BY <1>5 DEF Create
  <2>5. CallersTyped'
    BY <1>5 DEF Create
  <2> HIDE DEF TelegramTyped, EngineTyped, ReportsTyped, PrivateTyped, CallersTyped
  <2> QED
    BY <2>1, <2>2, <2>3, <2>4, <2>5
<1>6. ASSUME NEW t \in Callers, CreateSources(t) PROVE Typed'
  BY <1>6 DEF CreateSources
<1>7. ASSUME NEW t \in Callers, Lookup(t) PROVE Typed'
  BY <1>7 DEF Lookup
<1>8. ASSUME NEW t \in Callers, Fetch(t) PROVE Typed'
  BY <1>8 DEF Fetch
<1>9. ASSUME NEW t \in Callers, Store(t) PROVE Typed'
  BY <1>9 DEF Store
<1>10. ASSUME NEW t \in Callers, Undo(t) PROVE Typed'
  BY <1>10 DEF Undo
<1>11. ASSUME NEW t \in Callers, Join(t) PROVE Typed'
  BY <1>11 DEF Join
<1>12. ASSUME NEW t \in Callers, Attach(t) PROVE Typed'
  <2>1. TelegramTyped'
    BY <1>12 DEF Attach
  <2>2. EngineTyped'
    <3>1. CASE engine.state = "created"
      <4>1. engine' = [state |-> "connecting", by |-> engine.by, of |-> target[t]]
        BY <1>12, <3>1 DEF Attach
      <4>2. target[t] \in 0..opened /\ target[t] > 0 /\ made' = made /\ opened' = opened
        BY <1>12 DEF Attach
      <4> QED
        BY <1>12, <3>1, <4>1, <4>2 DEF Attach
    <3>2. CASE engine.state # "created"
      BY <1>12, <3>2 DEF Attach
    <3> QED
      BY <3>1, <3>2
  <2>3. ReportsTyped'
    BY <1>12 DEF Attach
  <2>4. PrivateTyped'
    BY <1>12 DEF Attach
  <2>5. CallersTyped'
    BY <1>12 DEF Attach
  <2> HIDE DEF TelegramTyped, EngineTyped, ReportsTyped, PrivateTyped, CallersTyped
  <2> QED
    BY <2>1, <2>2, <2>3, <2>4, <2>5
<1>13. ASSUME NEW t \in Callers, Mode(t) PROVE Typed'
  <2>1. TelegramTyped'
    BY <1>13 DEF Mode
  <2>2. EngineTyped'
    BY <1>13 DEF Mode
  <2>3. ReportsTyped'
    <3>1. pending' \in BOOLEAN
      <4>1. CASE HasCall
        BY <1>13, <4>1, Zenon DEF Mode
      <4>2. CASE ~ HasCall
        BY <1>13, <4>2 DEF Mode
      <4> QED
        BY <4>1, <4>2
    <3> QED
      BY <1>13, <3>1 DEF Mode
  <2>4. PrivateTyped'
    BY <1>13 DEF Mode
  <2>5. CallersTyped'
    BY <1>13 DEF Mode
  <2> HIDE DEF TelegramTyped, EngineTyped, ReportsTyped, PrivateTyped, CallersTyped
  <2> QED
    BY <2>1, <2>2, <2>3, <2>4, <2>5
<1>14. ASSUME NEW t \in Callers, Await(t) PROVE Typed'
  BY <1>14 DEF Await
<1>15. ASSUME NEW t \in Callers, Present(t) PROVE Typed'
  BY <1>15 DEF Present
<1>16. ASSUME NEW t \in Callers, Ring(t) PROVE Typed'
  <2>1. TelegramTyped'
    BY <1>16 DEF Ring
  <2>2. EngineTyped'
    BY <1>16 DEF Ring
  <2>3. ReportsTyped'
    BY <1>16 DEF Ring
  <2>4. PrivateTyped'
    BY <1>16 DEF Ring
  <2>5. CallersTyped'
    BY <1>16 DEF Ring
  <2> HIDE DEF TelegramTyped, EngineTyped, ReportsTyped, PrivateTyped, CallersTyped
  <2> QED
    BY <2>1, <2>2, <2>3, <2>4, <2>5
<1>17. ASSUME NEW t \in Callers, Download(t) PROVE Typed'
  BY <1>17 DEF Download
<1>18. ASSUME NEW t \in Callers, Configure(t) PROVE Typed'
  <2>1. TelegramTyped'
    BY <1>18 DEF Configure
  <2>2. EngineTyped'
    BY <1>18 DEF Configure
  <2>3. ReportsTyped'
    BY <1>18 DEF Configure
  <2>4. PrivateTyped'
    BY <1>18 DEF Configure
  <2>5. CallersTyped'
    BY <1>18 DEF Configure
  <2> HIDE DEF TelegramTyped, EngineTyped, ReportsTyped, PrivateTyped, CallersTyped
  <2> QED
    BY <2>1, <2>2, <2>3, <2>4, <2>5
<1>19. ASSUME NEW t \in Callers, CreateP2P(t) PROVE Typed'
  <2>1. TelegramTyped'
    BY <1>19 DEF CreateP2P
  <2>2. EngineTyped'
    <3>1. engine' = engine \/ engine' = [state |-> "created", by |-> made, of |-> 0]
      BY <1>19 DEF CreateP2P
    <3> QED
      BY <1>19, <3>1 DEF CreateP2P
  <2>3. ReportsTyped'
    BY <1>19 DEF CreateP2P
  <2>4. PrivateTyped'
    BY <1>19 DEF CreateP2P
  <2>5. CallersTyped'
    BY <1>19 DEF CreateP2P
  <2> HIDE DEF TelegramTyped, EngineTyped, ReportsTyped, PrivateTyped, CallersTyped
  <2> QED
    BY <2>1, <2>2, <2>3, <2>4, <2>5
<1>20. ASSUME NEW t \in Callers, Dial(t) PROVE Typed'
  BY <1>20 DEF Dial
<1>21. ASSUME NEW t \in Callers, Answer(t) PROVE Typed'
  <2>1. TelegramTyped'
    BY <1>21 DEF Answer
  <2>2. EngineTyped'
    BY <1>21 DEF Answer
  <2>3. CASE Fail(t) /\ UNCHANGED answers
    BY <1>21, <2>3 DEF Answer
  <2>4. ASSUME NEW a \in answers, a.to = config, a.says # "ready", Fail(t),
               answers' = (answers \ {a}) \cup
                  (IF a.says = "discarded" THEN {[a EXCEPT !.says = "stop", !.to = 0]} ELSE {})
        PROVE  ReportsTyped' /\ PrivateTyped' /\ CallersTyped'
    <3>1. ReportsTyped' /\ CallersTyped'
      <4>1. pc' = [pc EXCEPT ![t] = "idle"] /\ target' = [target EXCEPT ![t] = 0] /\ wait' = 0
        BY <2>4
      <4>2. UNCHANGED <<kind, telegram, reports, made, pending, ch>>
        BY <1>21 DEF Answer
      <4> QED
        BY <4>1, <4>2
    <3>2. config' \in 0..rings /\ rings' = rings
      <4>1. config' = IF InGroup THEN config ELSE 0
        BY <2>4
      <4>2. rings' = rings
        BY <1>21 DEF Answer
      <4> QED
        BY <4>1, <4>2
    <3>3. [a EXCEPT !.says = "stop", !.to = 0] \in [says : {"ready", "discarded", "stop"}, to : 0..rings]
      <4>1. a \in [says : {"ready", "discarded", "stop"}, to : 0..rings] /\ 0 \in 0..rings
        BY <2>4
      <4> QED
        BY <4>1
    <3>4. PrivateTyped'
      BY <2>4, <3>2, <3>3
    <3> HIDE DEF ReportsTyped, PrivateTyped, CallersTyped
    <3> QED
      BY <3>1, <3>4
  <2>5. ASSUME NEW a \in answers, a.to = config, a.says = "ready",
               Goto(t, "keys"), UNCHANGED <<wait, config, target>>,
               answers' = (answers \ {a}) \cup
                  (IF a.says = "discarded" THEN {[a EXCEPT !.says = "stop", !.to = 0]} ELSE {})
        PROVE  ReportsTyped' /\ PrivateTyped' /\ CallersTyped'
    BY <1>21, <2>5 DEF Answer
  <2>6. ReportsTyped' /\ PrivateTyped' /\ CallersTyped'
    BY <1>21, <2>3, <2>4, <2>5 DEF Answer
  <2> HIDE DEF TelegramTyped, EngineTyped, ReportsTyped, PrivateTyped, CallersTyped
  <2> QED
    BY <2>1, <2>2, <2>6
<1>22. ASSUME NEW t \in Callers, Keys(t) PROVE Typed'
  BY <1>22 DEF Keys
<1>23. ASSUME NEW t \in Callers, NEW r \in reports, Deliver(t, r) PROVE Typed'
  BY <1>23 DEF Deliver
<1>24. ASSUME NEW n \in news, CallOpened(n) PROVE Typed'
  BY <1>24 DEF CallOpened
<1>25. ASSUME NEW n \in news, CallDiscarded(n) PROVE Typed'
  BY <1>25 DEF CallDiscarded
<1>26. ASSUME NEW n \in news, DiscardedStops(n) PROVE Typed'
  BY <1>26 DEF DiscardedStops
<1>27. ASSUME NEW r \in reports, Callback(r) PROVE Typed'
  BY <1>27 DEF Callback
<1>28. ASSUME NEW a \in answers, HandleAnswer(a) PROVE Typed'
  BY <1>28 DEF HandleAnswer
<1>29. ASSUME NEW a \in answers, AnswerStops(a) PROVE Typed'
  BY <1>29 DEF AnswerStops
<1>30. CASE VoiceChatStarts
  <2>1. TelegramTyped'
    BY <1>30, UbotAssumption DEF VoiceChatStarts
  <2>2. EngineTyped'
    BY <1>30, UbotAssumption DEF VoiceChatStarts
  <2>3. ReportsTyped'
    BY <1>30, UbotAssumption DEF VoiceChatStarts
  <2>4. PrivateTyped'
    BY <1>30, UbotAssumption DEF VoiceChatStarts
  <2>5. CallersTyped'
    BY <1>30, UbotAssumption DEF VoiceChatStarts
  <2> HIDE DEF TelegramTyped, EngineTyped, ReportsTyped, PrivateTyped, CallersTyped
  <2> QED
    BY <2>1, <2>2, <2>3, <2>4, <2>5
<1>31. CASE VoiceChatEnds
  BY <1>31 DEF VoiceChatEnds
<1>32. CASE EngineConnects
  BY <1>32 DEF EngineConnects
<1>33. CASE EngineLoses
  BY <1>33 DEF EngineLoses
<1>34. CASE StopCall
  BY <1>34 DEF StopCall
<1>35. CASE PeerAnswers
  BY <1>35 DEF PeerAnswers
<1>36. CASE UNCHANGED vars
  BY <1>36 DEF vars
<1>37. ASSUME NEW n \in news, CallUnresolved(n) PROVE Typed'
  BY <1>37 DEF CallUnresolved
<1> QED
  BY <1>1, <1>2, <1>3, <1>4, <1>5, <1>6, <1>7, <1>8, <1>9, <1>10, <1>11, <1>12, <1>13, <1>14, <1>15, <1>16, <1>17, <1>18, <1>19, <1>20, <1>21, <1>22, <1>23, <1>24, <1>25, <1>26, <1>27, <1>28, <1>29, <1>30, <1>31, <1>32, <1>33, <1>34, <1>35, <1>36, <1>37 DEF Next, Run, Group, P2P, Engine, Events

\* TypeOK is what the parts say.
LEMMA TypedOK ==
    Typed => TypeOK
BY DEF Typed, TelegramTyped, EngineTyped, ReportsTyped, PrivateTyped, CallersTyped, TypeOK

\* The initial states are typed, and the counts are within the bounds.
LEMMA InitTyped ==
    Init => TypeInv
<1> SUFFICES ASSUME Init PROVE TypeInv
  OBVIOUS
<1>1. Typed
  <2>1. MaxVoice[kind] \in Nat /\ MaxConnects \in Nat /\ MaxRings \in Nat
    BY UbotAssumption DEF Init
  <2>2. TelegramTyped
    BY <2>1 DEF Init, TelegramTyped, Unknown
  <2>3. EngineTyped
    BY DEF Init, EngineTyped, NoCall, HasCall
  <2>4. ReportsTyped /\ PrivateTyped
    <3>1. 0 \in 0..MaxConnects /\ 0 \in 0..(MaxRings + MaxConnects)
      BY <2>1
    <3>2. ReportsTyped
      <4>1. made = 0 /\ wait = 0 /\ pending = FALSE /\ reports = {}
        BY DEF Init
      <4>2. wait \in 0..made
        BY <4>1
      <4> QED
        BY <3>1, <4>1, <4>2 DEF ReportsTyped
    <3>3. PrivateTyped
      BY <3>1 DEF Init, PrivateTyped
    <3> QED
      BY <3>2, <3>3
  <2>5. CallersTyped
    BY DEF Init, CallersTyped, Unknown, Connecting, Joined, PrivateSteps
  <2> QED
    BY <2>2, <2>3, <2>4, <2>5 DEF Typed
<1>2. Where(Starting) = {} /\ Where(Configuring) = {}
  BY DEF Init, Where, Starting, Configuring
<1>3. Counted
  BY <1>2, FS_EmptySet, UbotAssumption DEF Counted, Init
<1> QED
  BY <1>1, <1>3 DEF TypeInv

\* A step keeps the invariant.
LEMMA StepTypeInv ==
    TypeInv /\ [Next]_vars => TypeInv'
<1> SUFFICES ASSUME Typed, Counted, [Next]_vars PROVE Typed' /\ Counted'
  BY DEF TypeInv
<1>1. TypeOK
  BY TypedOK
<1>2. Counted' /\ made' \in 0..MaxConnects /\ rings' \in 0..(MaxRings + MaxConnects)
  BY <1>1, StepCounted
<1> QED
  BY <1>2, StepTyped

\* Every variable of the call layer has its type, the counters stay within their
\* bounds, and a call being connected in a group knows its voice chat: TypeOK, for
\* any number of goroutines that call Play, reconnect or ring at once.
THEOREM CallTypes ==
    Spec => []TypeOK
BY InitTyped, StepTypeInv, TypedOK, PTL DEF Spec, TypeInv
-----------------------------------------------------------------------------
\* At most one goroutine calls Play, as when the commands of a chat come one by one.
OneStarter == \A p, q \in Players : p = q

\* The channel of the connectCall at work is in the map.
Reachable ==
    kind # "stream" =>
        /\ \A t \in Handlers : pc[t] = "idle"
        /\ \A t \in Players : /\ pc[t] \in Connecting => wait = made
                              /\ pc[t] = "waiting" => ch[t] = wait

\* Voice chat v is on, or the news of its end is on its way or at work.
OnOrNews(v) == v = voice \/ \E n \in news : n.what # "open" /\ n.call = v

\* The news of its end was missed, after another voice chat had been opened.
Lost(v) == opened > 1 /\ v \in missed

\* Nothing connects the engine to a voice chat whose end was acted on.
Ghostless ==
    kind = "rtc" =>
        /\ engine.state \in {"connecting", "connected"} => OnOrNews(engine.of) \/ Lost(engine.of)
        /\ \A t \in Players : pc[t] = "attach" /\ engine.state = "created"
                              => OnOrNews(target[t]) \/ Lost(target[t])

Connects    == {"connecting", "connected"}
BeforeCall  == {"connect", "create", "sources", "lookup", "fetch", "store", "reread", "undo"} \cup Joined
OnOrOver(v) == v = voice \/ \E n \in news : n.what = "over" /\ n.call = v

\* While a group has opened one voice chat only, whoever joins or has joined it has it in the map
\* until the news of its end is acted on: the one goroutine that calls Play writes the map before
\* it joins.
Entered ==
    kind = "rtc" =>
        /\ \A t \in Players : /\ pc[t] # "download"
                              /\ pc[t] \in BeforeCall => engine.state \notin Connects
        /\ \A n \in news : n.what # "open" => n.call # voice
        /\ opened = 1 /\ OnOrOver(1) =>
              /\ engine.state \in Connects => groupCall = 1
              /\ \A t \in Players : pc[t] \in Joined => groupCall = 1

\* A step keeps the waiting goroutine's channel in the map.
LEMMA StepReachable ==
    ASSUME OneStarter, CallersTyped, CallersTyped', Reachable, [Next]_vars
    PROVE  Reachable'
<1> USE DEF OneStarter, Reachable, CallersTyped,
        Goto, At, HasCall, InGroup, StopEngine, Says, NoCall, Fail, telegram, private, locals,
        Callers, Connecting, PrivateSteps, Joined
<1>1. ASSUME NEW t \in Callers, Play(t) PROVE Reachable'
  BY <1>1, UbotAssumption DEF Play
<1>2. ASSUME NEW t \in Callers, SetSources(t) PROVE Reachable'
  BY <1>2 DEF SetSources
<1>3. ASSUME NEW t \in Callers, Reconnect(t) PROVE Reachable'
  BY <1>3 DEF Reconnect
<1>4. ASSUME NEW t \in Callers, Connect(t) PROVE Reachable'
  BY <1>4 DEF Connect
<1>5. ASSUME NEW t \in Callers, Create(t) PROVE Reachable'
  BY <1>5 DEF Create
<1>6. ASSUME NEW t \in Callers, CreateSources(t) PROVE Reachable'
  BY <1>6 DEF CreateSources
<1>7. ASSUME NEW t \in Callers, Lookup(t) PROVE Reachable'
  BY <1>7 DEF Lookup
<1>8. ASSUME NEW t \in Callers, Fetch(t) PROVE Reachable'
  BY <1>8 DEF Fetch
<1>9. ASSUME NEW t \in Callers, Store(t) PROVE Reachable'
  BY <1>9 DEF Store
<1>10. ASSUME NEW t \in Callers, Undo(t) PROVE Reachable'
  BY <1>10 DEF Undo
<1>11. ASSUME NEW t \in Callers, Join(t) PROVE Reachable'
  BY <1>11 DEF Join
<1>12. ASSUME NEW t \in Callers, Attach(t) PROVE Reachable'
  BY <1>12 DEF Attach
<1>13. ASSUME NEW t \in Callers, Mode(t) PROVE Reachable'
  BY <1>13 DEF Mode
<1>14. ASSUME NEW t \in Callers, Await(t) PROVE Reachable'
  BY <1>14 DEF Await
<1>15. ASSUME NEW t \in Callers, Present(t) PROVE Reachable'
  BY <1>15 DEF Present
<1>16. ASSUME NEW t \in Callers, Ring(t) PROVE Reachable'
  BY <1>16, UbotAssumption DEF Ring
<1>17. ASSUME NEW t \in Callers, Download(t) PROVE Reachable'
  BY <1>17 DEF Download
<1>18. ASSUME NEW t \in Callers, Configure(t) PROVE Reachable'
  BY <1>18 DEF Configure
<1>19. ASSUME NEW t \in Callers, CreateP2P(t) PROVE Reachable'
  BY <1>19 DEF CreateP2P
<1>20. ASSUME NEW t \in Callers, Dial(t) PROVE Reachable'
  BY <1>20 DEF Dial
<1>21. ASSUME NEW t \in Callers, Answer(t) PROVE Reachable'
  <2>1. pc[t] = "answer" /\ (Fail(t) \/ (Goto(t, "keys") /\ wait' = wait))
        /\ UNCHANGED <<kind, made, ch>>
    BY <1>21 DEF Answer
  <2> QED
    BY <2>1
<1>22. ASSUME NEW t \in Callers, Keys(t) PROVE Reachable'
  BY <1>22 DEF Keys
<1>23. ASSUME NEW t \in Callers, NEW r \in reports, Deliver(t, r) PROVE Reachable'
  BY <1>23 DEF Deliver
<1>24. ASSUME NEW n \in news, CallOpened(n) PROVE Reachable'
  BY <1>24 DEF CallOpened
<1>25. ASSUME NEW n \in news, CallDiscarded(n) PROVE Reachable'
  BY <1>25 DEF CallDiscarded
<1>26. ASSUME NEW n \in news, DiscardedStops(n) PROVE Reachable'
  BY <1>26 DEF DiscardedStops
<1>27. ASSUME NEW r \in reports, Callback(r) PROVE Reachable'
  BY <1>27 DEF Callback
<1>28. ASSUME NEW a \in answers, HandleAnswer(a) PROVE Reachable'
  BY <1>28 DEF HandleAnswer
<1>29. ASSUME NEW a \in answers, AnswerStops(a) PROVE Reachable'
  BY <1>29 DEF AnswerStops
<1>30. CASE VoiceChatStarts
  BY <1>30 DEF VoiceChatStarts
<1>31. CASE VoiceChatEnds
  BY <1>31 DEF VoiceChatEnds
<1>32. CASE EngineConnects
  BY <1>32 DEF EngineConnects
<1>33. CASE EngineLoses
  BY <1>33 DEF EngineLoses
<1>34. CASE StopCall
  BY <1>34 DEF StopCall
<1>35. CASE PeerAnswers
  BY <1>35 DEF PeerAnswers
<1>36. CASE UNCHANGED vars
  BY <1>36 DEF vars
<1>37. ASSUME NEW n \in news, CallUnresolved(n) PROVE Reachable'
  BY <1>37 DEF CallUnresolved
<1> QED
  BY <1>1, <1>2, <1>3, <1>4, <1>5, <1>6, <1>7, <1>8, <1>9, <1>10, <1>11, <1>12, <1>13, <1>14, <1>15, <1>16, <1>17, <1>18, <1>19, <1>20, <1>21, <1>22, <1>23, <1>24, <1>25, <1>26, <1>27, <1>28, <1>29, <1>30, <1>31, <1>32, <1>33, <1>34, <1>35, <1>36, <1>37 DEF Next, Run, Group, P2P, Engine, Events

\* A step keeps the one voice chat in the map.
LEMMA StepEntered ==
    ASSUME OneStarter, Typed, Typed', Reachable, Entered, [Next]_vars
    PROVE  Entered'
<1> USE DEF OneStarter, Reachable, Entered, OnOrOver, Connects, BeforeCall, Typed, TelegramTyped, EngineTyped,
        CallersTyped, Goto, At, HasCall, InGroup, StopEngine, Says, NoCall, Fail, telegram, private, locals,
        Callers, Connecting, PrivateSteps, Joined, Unknown
<1>1. ASSUME NEW t \in Callers, Play(t) PROVE Entered'
  BY <1>1 DEF Play
<1>2. ASSUME NEW t \in Callers, SetSources(t) PROVE Entered'
  BY <1>2 DEF SetSources
<1>3. ASSUME NEW t \in Callers, Reconnect(t) PROVE Entered'
  BY <1>3 DEF Reconnect
<1>4. ASSUME NEW t \in Callers, Connect(t) PROVE Entered'
  BY <1>4 DEF Connect
<1>5. ASSUME NEW t \in Callers, Create(t) PROVE Entered'
  <2>1. CASE HasCall
    BY <1>5, <2>1 DEF Create
  <2>2. CASE ~ HasCall
    <3>1. /\ engine'.state = "created" /\ pc' = [pc EXCEPT ![t] = "sources"]
          /\ pc[t] = "create" /\ UNCHANGED <<kind, voice, opened, news, groupCall>>
      BY <1>5, <2>2 DEF Create
    <3> QED
      BY <3>1
  <2> QED
    BY <2>1, <2>2
<1>6. ASSUME NEW t \in Callers, CreateSources(t) PROVE Entered'
  BY <1>6 DEF CreateSources
<1>7. ASSUME NEW t \in Callers, Lookup(t) PROVE Entered'
  BY <1>7 DEF Lookup
<1>8. ASSUME NEW t \in Callers, Fetch(t) PROVE Entered'
  BY <1>8 DEF Fetch
<1>9. ASSUME NEW t \in Callers, Store(t) PROVE Entered'
  BY <1>9 DEF Store
<1>10. ASSUME NEW t \in Callers, Undo(t) PROVE Entered'
  BY <1>10 DEF Undo
<1>11. ASSUME NEW t \in Callers, Join(t) PROVE Entered'
  BY <1>11 DEF Join
<1>12. ASSUME NEW t \in Callers, Attach(t) PROVE Entered'
  BY <1>12 DEF Attach
<1>13. ASSUME NEW t \in Callers, Mode(t) PROVE Entered'
  BY <1>13 DEF Mode
<1>14. ASSUME NEW t \in Callers, Await(t) PROVE Entered'
  BY <1>14 DEF Await
<1>15. ASSUME NEW t \in Callers, Present(t) PROVE Entered'
  BY <1>15 DEF Present
<1>16. ASSUME NEW t \in Callers, Ring(t) PROVE Entered'
  BY <1>16 DEF Ring
<1>17. ASSUME NEW t \in Callers, Download(t) PROVE Entered'
  BY <1>17 DEF Download
<1>18. ASSUME NEW t \in Callers, Configure(t) PROVE Entered'
  BY <1>18 DEF Configure
<1>19. ASSUME NEW t \in Callers, CreateP2P(t) PROVE Entered'
  BY <1>19 DEF CreateP2P
<1>20. ASSUME NEW t \in Callers, Dial(t) PROVE Entered'
  BY <1>20 DEF Dial
<1>21. ASSUME NEW t \in Callers, Answer(t) PROVE Entered'
  BY <1>21 DEF Answer
<1>22. ASSUME NEW t \in Callers, Keys(t) PROVE Entered'
  BY <1>22 DEF Keys
<1>23. ASSUME NEW t \in Callers, NEW r \in reports, Deliver(t, r) PROVE Entered'
  BY <1>23 DEF Deliver
<1>24. ASSUME NEW n \in news, CallOpened(n) PROVE Entered'
  BY <1>24 DEF CallOpened
<1>25. ASSUME NEW n \in news, CallDiscarded(n) PROVE Entered'
  BY <1>25 DEF CallDiscarded
<1>26. ASSUME NEW n \in news, DiscardedStops(n) PROVE Entered'
  BY <1>26 DEF DiscardedStops
<1>27. ASSUME NEW r \in reports, Callback(r) PROVE Entered'
  BY <1>27 DEF Callback
<1>28. ASSUME NEW a \in answers, HandleAnswer(a) PROVE Entered'
  BY <1>28 DEF HandleAnswer
<1>29. ASSUME NEW a \in answers, AnswerStops(a) PROVE Entered'
  BY <1>29 DEF AnswerStops
<1>30. CASE VoiceChatStarts
  BY <1>30 DEF VoiceChatStarts
<1>31. CASE VoiceChatEnds
  BY <1>31 DEF VoiceChatEnds
<1>32. CASE EngineConnects
  BY <1>32 DEF EngineConnects
<1>33. CASE EngineLoses
  BY <1>33 DEF EngineLoses
<1>34. CASE StopCall
  BY <1>34 DEF StopCall
<1>35. CASE PeerAnswers
  BY <1>35 DEF PeerAnswers
<1>36. CASE UNCHANGED vars
  BY <1>36 DEF vars
<1>37. ASSUME NEW n \in news, CallUnresolved(n) PROVE Entered'
  BY <1>37 DEF CallUnresolved
<1> QED
  BY <1>1, <1>2, <1>3, <1>4, <1>5, <1>6, <1>7, <1>8, <1>9, <1>10, <1>11, <1>12, <1>13, <1>14, <1>15, <1>16, <1>17, <1>18, <1>19, <1>20, <1>21, <1>22, <1>23, <1>24, <1>25, <1>26, <1>27, <1>28, <1>29, <1>30, <1>31, <1>32, <1>33, <1>34, <1>35, <1>36, <1>37 DEF Next, Run, Group, P2P, Engine, Events

\* A step connects the engine to no voice chat that is over for good.
LEMMA StepGhostless ==
    ASSUME OneStarter, Typed, Typed', Reachable, Entered, Ghostless, [Next]_vars
    PROVE  Ghostless'
<1> USE DEF OneStarter, Reachable, Ghostless, OnOrNews, Lost, Typed, TelegramTyped, EngineTyped, CallersTyped,
        Goto, At, HasCall, InGroup, StopEngine, Says, NoCall, Fail, telegram, private, locals,
        Callers, Connecting, PrivateSteps, Joined
<1>1. ASSUME NEW t \in Callers, Play(t) PROVE Ghostless'
  BY <1>1 DEF Play
<1>2. ASSUME NEW t \in Callers, SetSources(t) PROVE Ghostless'
  BY <1>2 DEF SetSources
<1>3. ASSUME NEW t \in Callers, Reconnect(t) PROVE Ghostless'
  BY <1>3 DEF Reconnect
<1>4. ASSUME NEW t \in Callers, Connect(t) PROVE Ghostless'
  BY <1>4 DEF Connect
<1>5. ASSUME NEW t \in Callers, Create(t) PROVE Ghostless'
  <2>1. CASE HasCall
    BY <1>5, <2>1 DEF Create
  <2>2. CASE ~ HasCall
    <3>1. engine'.state = "created" /\ pc' = [pc EXCEPT ![t] = "sources"] /\ kind' = kind
      BY <1>5, <2>2 DEF Create
    <3>2. kind = "rtc" => t \in Players
      BY <1>5 DEF Create
    <3> QED
      BY <3>1, <3>2
  <2> QED
    BY <2>1, <2>2
<1>6. ASSUME NEW t \in Callers, CreateSources(t) PROVE Ghostless'
  BY <1>6 DEF CreateSources
<1>7. ASSUME NEW t \in Callers, Lookup(t) PROVE Ghostless'
  BY <1>7 DEF Lookup
<1>8. ASSUME NEW t \in Callers, Fetch(t) PROVE Ghostless'
  BY <1>8 DEF Fetch
<1>9. ASSUME NEW t \in Callers, Store(t) PROVE Ghostless'
  BY <1>9 DEF Store
<1>10. ASSUME NEW t \in Callers, Undo(t) PROVE Ghostless'
  BY <1>10 DEF Undo
<1>11. ASSUME NEW t \in Callers, Join(t) PROVE Ghostless'
  BY <1>11 DEF Join
<1>12. ASSUME NEW t \in Callers, Attach(t) PROVE Ghostless'
  <2>1. CASE engine.state = "created"
    <3>1. /\ engine'.state = "connecting" /\ engine'.of = target[t]
          /\ UNCHANGED <<kind, voice, news>>
      <4>1. engine' = [engine EXCEPT !.state = "connecting", !.of = target[t]]
        BY <1>12, <2>1 DEF Attach
      <4>2. DOMAIN engine = {"state", "by", "of"}
        OBVIOUS
      <4>3. UNCHANGED <<kind, voice, news>>
        BY <1>12 DEF Attach
      <4> QED
        BY <4>1, <4>2, <4>3
    <3>2. kind = "rtc" => t \in Players
      BY <1>12 DEF Attach
    <3> QED
      BY <1>12, <2>1, <3>1, <3>2 DEF Attach
  <2>2. CASE engine.state # "created"
    BY <1>12, <2>2 DEF Attach
  <2> QED
    BY <2>1, <2>2
<1>13. ASSUME NEW t \in Callers, Mode(t) PROVE Ghostless'
  BY <1>13 DEF Mode
<1>14. ASSUME NEW t \in Callers, Await(t) PROVE Ghostless'
  BY <1>14 DEF Await
<1>15. ASSUME NEW t \in Callers, Present(t) PROVE Ghostless'
  BY <1>15 DEF Present
<1>16. ASSUME NEW t \in Callers, Ring(t) PROVE Ghostless'
  BY <1>16 DEF Ring
<1>17. ASSUME NEW t \in Callers, Download(t) PROVE Ghostless'
  BY <1>17 DEF Download
<1>18. ASSUME NEW t \in Callers, Configure(t) PROVE Ghostless'
  BY <1>18 DEF Configure
<1>19. ASSUME NEW t \in Callers, CreateP2P(t) PROVE Ghostless'
  BY <1>19 DEF CreateP2P
<1>20. ASSUME NEW t \in Callers, Dial(t) PROVE Ghostless'
  BY <1>20 DEF Dial
<1>21. ASSUME NEW t \in Callers, Answer(t) PROVE Ghostless'
  BY <1>21 DEF Answer
<1>22. ASSUME NEW t \in Callers, Keys(t) PROVE Ghostless'
  BY <1>22 DEF Keys
<1>23. ASSUME NEW t \in Callers, NEW r \in reports, Deliver(t, r) PROVE Ghostless'
  BY <1>23 DEF Deliver
<1>24. ASSUME NEW n \in news, CallOpened(n) PROVE Ghostless'
  BY <1>24 DEF CallOpened
<1>25. ASSUME NEW n \in news, CallDiscarded(n) PROVE Ghostless'
  <2>1. ASSUME NEW v, OnOrNews(v) PROVE OnOrNews(v)'
    <3>1. [n EXCEPT !.what = "stop"] \in news' /\ news \ {n} \subseteq news' /\ voice' = voice
      BY <1>25 DEF CallDiscarded
    <3>2. [n EXCEPT !.what = "stop"].what = "stop" /\ [n EXCEPT !.what = "stop"].call = n.call
      OBVIOUS
    <3> QED
      BY <2>1, <3>1, <3>2
  <2> HIDE DEF OnOrNews
  <2> QED
    BY <1>25, <2>1 DEF CallDiscarded
<1>26. ASSUME NEW n \in news, DiscardedStops(n) PROVE Ghostless'
  BY <1>26 DEF DiscardedStops
<1>27. ASSUME NEW r \in reports, Callback(r) PROVE Ghostless'
  BY <1>27 DEF Callback
<1>28. ASSUME NEW a \in answers, HandleAnswer(a) PROVE Ghostless'
  BY <1>28 DEF HandleAnswer
<1>29. ASSUME NEW a \in answers, AnswerStops(a) PROVE Ghostless'
  BY <1>29 DEF AnswerStops
<1>30. CASE VoiceChatStarts
  BY <1>30 DEF VoiceChatStarts
<1>31. CASE VoiceChatEnds
  <2>1. ASSUME NEW v, OnOrNews(v) PROVE OnOrNews(v)'
    <3>1. [what |-> "over", call |-> voice] \in news' /\ news \subseteq news'
      BY <1>31 DEF VoiceChatEnds
    <3> QED
      BY <2>1, <3>1
  <2> HIDE DEF OnOrNews
  <2> QED
    BY <1>31, <2>1 DEF VoiceChatEnds
<1>32. CASE EngineConnects
  BY <1>32 DEF EngineConnects
<1>33. CASE EngineLoses
  BY <1>33 DEF EngineLoses
<1>34. CASE StopCall
  BY <1>34 DEF StopCall
<1>35. CASE PeerAnswers
  BY <1>35 DEF PeerAnswers
<1>36. CASE UNCHANGED vars
  BY <1>36 DEF vars
<1>37. ASSUME NEW n \in news, CallUnresolved(n) PROVE Ghostless'
  <2>1. /\ n.what \in {"open", "over"} /\ groupCall # n.call
        /\ news' = news \ {n}
        /\ missed' = IF n.what = "over" THEN missed \cup {n.call} ELSE missed
        /\ UNCHANGED <<kind, voice, opened, engine, target, pc>>
    BY <1>37 DEF CallUnresolved
  <2>2. CASE opened > 1
    <3>1. ASSUME NEW v, OnOrNews(v) \/ Lost(v) PROVE (OnOrNews(v) \/ Lost(v))'
      <4>1. CASE n.what = "over" /\ n.call = v
        BY <2>1, <2>2, <4>1
      <4>2. CASE ~ (n.what = "over" /\ n.call = v)
        BY <2>1, <2>2, <3>1, <4>2
      <4> QED
        BY <4>1, <4>2
    <3> HIDE DEF OnOrNews, Lost
    <3> QED
      BY <2>1, <3>1
  <2>3. CASE ~ (opened > 1)
    <3>1. CASE n.what = "open"
      BY <2>1, <2>3, <3>1
    <3>2. CASE n.what = "over" /\ kind = "rtc"
      <4>1. opened = 1 /\ n.call = 1 /\ OnOrOver(1) /\ groupCall # 1
        BY <2>1, <2>3, <3>2 DEF OnOrOver
      <4>2. engine.state \notin Connects /\ \A t \in Players : pc[t] # "attach"
        BY <3>2, <4>1 DEF Entered
      <4> QED
        BY <2>1, <4>2 DEF Connects
    <3> QED
      BY <2>1, <3>1, <3>2
  <2> QED
    BY <2>2, <2>3
<1> QED
  BY <1>1, <1>2, <1>3, <1>4, <1>5, <1>6, <1>7, <1>8, <1>9, <1>10, <1>11, <1>12, <1>13, <1>14, <1>15, <1>16, <1>17, <1>18, <1>19, <1>20, <1>21, <1>22, <1>23, <1>24, <1>25, <1>26, <1>27, <1>28, <1>29, <1>30, <1>31, <1>32, <1>33, <1>34, <1>35, <1>36, <1>37 DEF Next, Run, Group, P2P, Engine, Events

\* A step takes no configuration away from the private call that uses it.
LEMMA StepConfigHeld ==
    ASSUME OneStarter, Typed, Reachable, ConfigHeld, [Next]_vars
    PROVE  ConfigHeld'
<1> USE DEF OneStarter, Reachable, ConfigHeld, Typed, PrivateTyped, CallersTyped,
        Goto, At, HasCall, InGroup, StopEngine, Says, NoCall, Fail, telegram, private, locals,
        Callers, Connecting, PrivateSteps, Joined
<1>1. ASSUME NEW t \in Callers, Play(t) PROVE ConfigHeld'
  BY <1>1 DEF Play
<1>2. ASSUME NEW t \in Callers, SetSources(t) PROVE ConfigHeld'
  BY <1>2 DEF SetSources
<1>3. ASSUME NEW t \in Callers, Reconnect(t) PROVE ConfigHeld'
  BY <1>3 DEF Reconnect
<1>4. ASSUME NEW t \in Callers, Connect(t) PROVE ConfigHeld'
  BY <1>4 DEF Connect
<1>5. ASSUME NEW t \in Callers, Create(t) PROVE ConfigHeld'
  BY <1>5 DEF Create
<1>6. ASSUME NEW t \in Callers, CreateSources(t) PROVE ConfigHeld'
  BY <1>6 DEF CreateSources
<1>7. ASSUME NEW t \in Callers, Lookup(t) PROVE ConfigHeld'
  BY <1>7 DEF Lookup
<1>8. ASSUME NEW t \in Callers, Fetch(t) PROVE ConfigHeld'
  BY <1>8 DEF Fetch
<1>9. ASSUME NEW t \in Callers, Store(t) PROVE ConfigHeld'
  BY <1>9 DEF Store
<1>10. ASSUME NEW t \in Callers, Undo(t) PROVE ConfigHeld'
  BY <1>10 DEF Undo
<1>11. ASSUME NEW t \in Callers, Join(t) PROVE ConfigHeld'
  BY <1>11 DEF Join
<1>12. ASSUME NEW t \in Callers, Attach(t) PROVE ConfigHeld'
  BY <1>12 DEF Attach
<1>13. ASSUME NEW t \in Callers, Mode(t) PROVE ConfigHeld'
  BY <1>13 DEF Mode
<1>14. ASSUME NEW t \in Callers, Await(t) PROVE ConfigHeld'
  BY <1>14 DEF Await
<1>15. ASSUME NEW t \in Callers, Present(t) PROVE ConfigHeld'
  BY <1>15 DEF Present
<1>16. ASSUME NEW t \in Callers, Ring(t) PROVE ConfigHeld'
  BY <1>16 DEF Ring
<1>17. ASSUME NEW t \in Callers, Download(t) PROVE ConfigHeld'
  BY <1>17 DEF Download
<1>18. ASSUME NEW t \in Callers, Configure(t) PROVE ConfigHeld'
  BY <1>18 DEF Configure
<1>19. ASSUME NEW t \in Callers, CreateP2P(t) PROVE ConfigHeld'
  BY <1>19 DEF CreateP2P
<1>20. ASSUME NEW t \in Callers, Dial(t) PROVE ConfigHeld'
  BY <1>20 DEF Dial
<1>21. ASSUME NEW t \in Callers, Answer(t) PROVE ConfigHeld'
  BY <1>21 DEF Answer
<1>22. ASSUME NEW t \in Callers, Keys(t) PROVE ConfigHeld'
  BY <1>22 DEF Keys
<1>23. ASSUME NEW t \in Callers, NEW r \in reports, Deliver(t, r) PROVE ConfigHeld'
  BY <1>23 DEF Deliver
<1>24. ASSUME NEW n \in news, CallOpened(n) PROVE ConfigHeld'
  BY <1>24 DEF CallOpened
<1>25. ASSUME NEW n \in news, CallDiscarded(n) PROVE ConfigHeld'
  BY <1>25 DEF CallDiscarded
<1>26. ASSUME NEW n \in news, DiscardedStops(n) PROVE ConfigHeld'
  BY <1>26 DEF DiscardedStops
<1>27. ASSUME NEW r \in reports, Callback(r) PROVE ConfigHeld'
  BY <1>27 DEF Callback
<1>28. ASSUME NEW a \in answers, HandleAnswer(a) PROVE ConfigHeld'
  BY <1>28 DEF HandleAnswer
<1>29. ASSUME NEW a \in answers, AnswerStops(a) PROVE ConfigHeld'
  BY <1>29 DEF AnswerStops
<1>30. CASE VoiceChatStarts
  BY <1>30 DEF VoiceChatStarts
<1>31. CASE VoiceChatEnds
  BY <1>31 DEF VoiceChatEnds
<1>32. CASE EngineConnects
  BY <1>32 DEF EngineConnects
<1>33. CASE EngineLoses
  BY <1>33 DEF EngineLoses
<1>34. CASE StopCall
  BY <1>34 DEF StopCall
<1>35. CASE PeerAnswers
  BY <1>35 DEF PeerAnswers
<1>36. CASE UNCHANGED vars
  BY <1>36 DEF vars
<1>37. ASSUME NEW n \in news, CallUnresolved(n) PROVE ConfigHeld'
  BY <1>37 DEF CallUnresolved
<1> QED
  BY <1>1, <1>2, <1>3, <1>4, <1>5, <1>6, <1>7, <1>8, <1>9, <1>10, <1>11, <1>12, <1>13, <1>14, <1>15, <1>16, <1>17, <1>18, <1>19, <1>20, <1>21, <1>22, <1>23, <1>24, <1>25, <1>26, <1>27, <1>28, <1>29, <1>30, <1>31, <1>32, <1>33, <1>34, <1>35, <1>36, <1>37 DEF Next, Run, Group, P2P, Engine, Events

\* The inductive invariant of the three properties.
CallInv == TypeInv /\ Reachable /\ Entered /\ Ghostless /\ ConfigHeld

\* It holds in every state, for one goroutine that calls Play.
LEMMA CallInvHolds ==
    ASSUME OneStarter
    PROVE  Spec => []CallInv
<1>1. Init => CallInv
  <2>1. Init => Reachable /\ Entered /\ Ghostless /\ ConfigHeld
    BY DEF Init, Reachable, Entered, Ghostless, ConfigHeld, Callers, Connecting, NoCall, BeforeCall,
           Connects, Joined
  <2> QED
    BY <2>1, InitTyped DEF CallInv
<1>2. CallInv /\ [Next]_vars => CallInv'
  <2> SUFFICES ASSUME CallInv, [Next]_vars PROVE CallInv'
    OBVIOUS
  <2>1. TypeInv'
    BY StepTypeInv DEF CallInv
  <2>2. Typed /\ Typed' /\ CallersTyped /\ CallersTyped'
    BY <2>1 DEF CallInv, TypeInv, Typed
  <2>3. Reachable'
    BY <2>2, StepReachable DEF CallInv
  <2>4. Ghostless'
    BY <2>2, StepGhostless DEF CallInv
  <2>6. Entered'
    BY <2>2, StepEntered DEF CallInv
  <2>5. ConfigHeld'
    BY <2>2, StepConfigHeld DEF CallInv
  <2> QED
    BY <2>1, <2>3, <2>4, <2>5, <2>6 DEF CallInv
<1> QED
  BY <1>1, <1>2, PTL DEF Spec

\* Outside of streamed voice chats the caller of Play waits on the channel the
\* callbacks will send on: WaiterReachable, for any number of reconnecting handlers,
\* voice chats and connections.
THEOREM WaitersReached ==
    ASSUME OneStarter
    PROVE  Spec => []WaiterReachable
<1>1. CallInv => WaiterReachable
  <2> SUFFICES ASSUME CallInv, kind # "stream", NEW t \in Players, pc[t] = "waiting"
               PROVE  wait # 0 /\ ch[t] = wait
    BY DEF WaiterReachable
  <2>1. wait = made /\ ch[t] = wait /\ made > 0
    BY DEF CallInv, TypeInv, Typed, CallersTyped, Reachable, Connecting, Callers
  <2> QED
    BY <2>1
<1> QED
  BY <1>1, CallInvHolds, PTL

\* The engine is connected to no voice chat that is over, unless the update that
\* says so is still to be handled, or was missed in a group that had opened another
\* voice chat: NoGhostCall.
THEOREM NoGhosts ==
    ASSUME OneStarter
    PROVE  Spec => []NoGhostCall
<1>1. CallInv => NoGhostCall
  BY DEF CallInv, Ghostless, NoGhostCall, OnOrNews, Lost
<1> QED
  BY <1>1, CallInvHolds, PTL

\* A private call never uses a configuration that is gone: ConfigHeld.
THEOREM ConfigsHeld ==
    ASSUME OneStarter
    PROVE  Spec => []ConfigHeld
<1>1. CallInv => ConfigHeld
  BY DEF CallInv
<1> QED
  BY <1>1, CallInvHolds, PTL
=============================================================================
