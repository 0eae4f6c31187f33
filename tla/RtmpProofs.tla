----------------------------- MODULE RtmpProofs -----------------------------
(***************************************************************************)
(* When a live stream can be lost, for any number of handlers and streams: *)
(* whoever takes a stream from the map, the process or the victims holds   *)
(* nothing else at that moment, and a handler on its way to the map finds  *)
(* an entry there only if that was made while it was on its way.           *)
(***************************************************************************)
EXTENDS RtmpStream, TLAPS

\* Who holds a stream is about to use it, and a handler that starts one has
\* found the map empty: an entry that is there by now came in its way.
EmptyHanded ==
    /\ \A t \in Threads : pc[t] \notin {"register", "kill"} => mine[t] = None
    /\ \A s \in Streams : waiter[s] # "kill" => victim[s] = None
    /\ \A t \in Threads : pc[t] \in {"start", "register"} => entry \in raced \cup {None}

\* A goroutine waits only for a stream that was registered, and every handler
\* registers a stream of its own.
NotYetWaited ==
    /\ \A s \in Streams : process[s] = "none" => waiter[s] = "none"
    /\ \A t \in Threads : pc[t] = "register" =>
          waiter[mine[t]] = "none" /\ process[mine[t]] # "none"
    /\ \A t, u \in Threads :
          pc[t] = "register" /\ pc[u] = "register" /\ t # u => mine[t] # mine[u]

IInv == TypeOK /\ EmptyHanded /\ NotYetWaited /\ NoOrphan

USE StreamAssumption

\* Without streams the invariant holds.
LEMMA InitSound == Init => IInv
BY DEF Init, IInv, TypeOK, EmptyHanded, Starting, NotYetWaited, NoOrphan

\* A handler of /stream.
LEMMA StartersStep ==
    ASSUME IInv, NEW t \in Threads,
           StreamCommand(t) \/ StartFails(t) \/ StartProcess(t) \/ Register(t)
    PROVE  IInv'
<1> USE DEF IInv, TypeOK, At, Goto
<1>1. CASE StreamCommand(t)
  BY <1>1 DEF StreamCommand, EmptyHanded, NotYetWaited, NoOrphan, Held
<1>2. CASE StartFails(t)
  <2>1. TypeOK' /\ NotYetWaited'
    BY <1>2 DEF StartFails, NotYetWaited
  <2>2. EmptyHanded' /\ NoOrphan'
    BY <1>2 DEF StartFails, EmptyHanded, NoOrphan, Held
  <2> QED BY <2>1, <2>2
<1>3. CASE StartProcess(t)
  <2>1. PICK s \in Streams : /\ process[s] = "none" /\ process' = [process EXCEPT ![s] = "running"]
                             /\ mine' = [mine EXCEPT ![t] = s]
    BY <1>3 DEF StartProcess
  <2>2. /\ mine[t] = None /\ pc[t] = "start" /\ pc' = [pc EXCEPT ![t] = "register"]
        /\ UNCHANGED <<entry, waiter, victim, raced>>
    BY <1>3 DEF StartProcess, EmptyHanded
  <2>3. TypeOK'
    BY <2>1, <2>2
  <2>4. EmptyHanded'
    BY <2>1, <2>2 DEF EmptyHanded
  <2>5. NotYetWaited'
    <3>1. \A u \in Threads : pc[u] = "register" => mine[u] # s
      BY <2>1 DEF NotYetWaited
    <3>2. \A u \in Threads : pc'[u] = "register" =>
             waiter'[mine'[u]] = "none" /\ process'[mine'[u]] # "none"
      BY <2>1, <2>2 DEF NotYetWaited
    <3>3. \A u, v \in Threads :
             pc'[u] = "register" /\ pc'[v] = "register" /\ u # v => mine'[u] # mine'[v]
      BY <2>1, <2>2, <3>1 DEF NotYetWaited
    <3>4. \A r \in Streams : process'[r] = "none" => waiter'[r] = "none"
      BY <2>1, <2>2 DEF NotYetWaited
    <3> QED BY <3>2, <3>3, <3>4 DEF NotYetWaited
  <2>6. NoOrphan'
    <3>1. SUFFICES ASSUME NEW r \in Streams
                   PROVE  (process[r] = "running" => entry = r \/ Held(r) \/ r \in raced)'
      BY DEF NoOrphan
    <3>2. CASE r = s
      BY <2>1, <2>2, <3>2 DEF Held
    <3>3. CASE r # s
      BY <2>1, <2>2, <3>3, StreamAssumption DEF NoOrphan, Held
    <3> QED BY <3>2, <3>3
  <2> QED BY <2>3, <2>4, <2>5, <2>6
<1>4. CASE Register(t)
  <2>1. /\ entry \in raced \cup {None} /\ mine[t] \in Streams /\ entry' = mine[t]
        /\ mine' = [mine EXCEPT ![t] = None] /\ UNCHANGED <<process, victim>>
        /\ waiter' = [waiter EXCEPT ![mine[t]] = "waiting"]
        /\ pc[t] = "register" /\ pc' = [pc EXCEPT ![t] = "idle"]
    BY <1>4 DEF Register, EmptyHanded
  <2>2. /\ raced \subseteq raced' /\ raced' \subseteq Streams
        /\ \A u \in Threads : pc'[u] \in {"start", "register"} => mine[t] \in raced'
    <3>1. raced' = IF Starting = {t} THEN raced ELSE raced \cup {mine[t]}
      BY <1>4 DEF Register
    <3>2. \A u \in Threads : pc'[u] \in {"start", "register"} => u \in Starting /\ u # t
      BY <2>1 DEF Starting
    <3> QED BY <2>1, <3>1, <3>2
  <2>3. TypeOK'
    <3>1. \A s \in Streams : waiter'[s] = "kill" => waiter[s] = "kill"
      BY <2>1
    <3>2. \A u \in Threads : pc'[u] \in {"register", "kill"} => mine'[u] \in Streams
      BY <2>1
    <3>3. /\ waiter' \in [Streams -> {"none", "waiting", "kill", "done"}]
          /\ mine' \in [Threads -> Streams \cup {None}]
      BY <2>1
    <3>4. \A s \in Streams : waiter'[s] = "kill" => victim'[s] \in Streams
      BY <2>1, <3>1
    <3> QED BY <2>1, <2>2, <3>2, <3>3, <3>4
  <2>4. EmptyHanded'
    <3>1. \A u \in Threads : pc'[u] \notin {"register", "kill"} => mine'[u] = None
      BY <2>1 DEF EmptyHanded
    <3>2. \A s \in Streams : waiter'[s] # "kill" => victim'[s] = None
      <4>1. TAKE s \in Streams
      <4>2. waiter[s] # "kill" => victim[s] = None
        BY DEF EmptyHanded
      <4>3. CASE s = mine[t]
        BY <2>1, <4>2, <4>3 DEF NotYetWaited
      <4>4. CASE s # mine[t]
        BY <2>1, <4>2, <4>4
      <4> QED BY <4>3, <4>4
    <3> QED BY <2>1, <2>2, <3>1, <3>2 DEF EmptyHanded
  <2>5. NotYetWaited'
    <3>1. process[mine[t]] # "none"
      BY <2>1 DEF NotYetWaited
    <3>2. \A u \in Threads : pc'[u] = "register" => pc[u] = "register" /\ u # t /\ mine[u] # mine[t]
      BY <2>1 DEF NotYetWaited
    <3>3. \A u \in Threads : pc'[u] = "register" =>
             waiter'[mine'[u]] = "none" /\ process'[mine'[u]] # "none"
      BY <2>1, <3>2 DEF NotYetWaited
    <3>4. \A u, v \in Threads :
             pc'[u] = "register" /\ pc'[v] = "register" /\ u # v => mine'[u] # mine'[v]
      BY <2>1, <3>2 DEF NotYetWaited
    <3>5. \A s \in Streams : process'[s] = "none" => waiter'[s] = "none"
      BY <2>1, <3>1 DEF NotYetWaited
    <3> QED BY <3>3, <3>4, <3>5 DEF NotYetWaited
  <2>6. NoOrphan'
    <3>1. SUFFICES ASSUME NEW s \in Streams
                   PROVE  (process[s] = "running" => entry = s \/ Held(s) \/ s \in raced)'
      BY DEF NoOrphan
    <3>2. CASE s = mine[t]
      BY <2>1, <3>2
    <3>3. CASE s # mine[t]
      <4>1. s \in raced => s \in raced'
        BY <2>2
      <4>2. Held(s) => Held(s)'
        BY <2>1, <3>3 DEF Held
      <4>3. entry = s => s \in raced
        BY <2>1, StreamAssumption
      <4> QED BY <2>1, <4>1, <4>2, <4>3 DEF NoOrphan
    <3> QED BY <3>2, <3>3
  <2> QED BY <2>3, <2>4, <2>5, <2>6
<1> QED BY <1>1, <1>2, <1>3, <1>4

\* A handler of /stopstream.
LEMMA StoppersStep ==
    ASSUME IInv, NEW t \in Threads, StopCommand(t) \/ StopTakes(t) \/ StopKills(t)
    PROVE  IInv'
<1> USE DEF IInv, TypeOK, At, Goto
<1>1. CASE StopCommand(t)
  BY <1>1 DEF StopCommand, EmptyHanded, NotYetWaited, NoOrphan, Held
<1>2. CASE StopTakes(t)
  <2>1. /\ mine[t] = None /\ mine' = [mine EXCEPT ![t] = entry] /\ entry' = None
        /\ UNCHANGED <<process, waiter, victim, raced>>
        /\ pc' = [pc EXCEPT ![t] = IF entry = None THEN "idle" ELSE "kill"]
    BY <1>2 DEF StopTakes, EmptyHanded
  <2>2. TypeOK' /\ EmptyHanded'
    BY <2>1 DEF EmptyHanded
  <2>4. NotYetWaited'
    <3>1. \A u \in Threads : pc'[u] = "register" => pc[u] = "register" /\ mine'[u] = mine[u]
      BY <1>2, <2>1 DEF StopTakes
    <3> QED BY <2>1, <3>1 DEF NotYetWaited
  <2>3. NoOrphan'
    BY <2>1 DEF NoOrphan, Held
  <2> QED BY <2>2, <2>3, <2>4
<1>3. CASE StopKills(t)
  BY <1>3 DEF StopKills, Kill, EmptyHanded, NotYetWaited, NoOrphan, Held
<1> QED BY <1>1, <1>2, <1>3

\* The processes and the goroutines that wait for them.
LEMMA WaitersStep ==
    ASSUME IInv, NEW s \in Streams, ProcessExits(s) \/ WaiterTakes(s) \/ WaiterKills(s)
    PROVE  IInv'
<1> USE DEF IInv, TypeOK
<1>1. CASE ProcessExits(s)
  BY <1>1 DEF ProcessExits, EmptyHanded, NotYetWaited, NoOrphan, Held
<1>2. CASE WaiterTakes(s)
  <2>1. /\ victim[s] = None /\ victim' = [victim EXCEPT ![s] = entry] /\ entry' = None
        /\ waiter' = [waiter EXCEPT ![s] = IF entry = None THEN "done" ELSE "kill"]
        /\ UNCHANGED <<process, pc, mine, raced>>
    BY <1>2 DEF WaiterTakes, EmptyHanded
  <2>2. TypeOK' /\ EmptyHanded' /\ NotYetWaited'
    BY <1>2, <2>1 DEF WaiterTakes, EmptyHanded, NotYetWaited
  <2>3. NoOrphan'
    BY <2>1 DEF NoOrphan, Held
  <2> QED BY <2>2, <2>3
<1>3. CASE WaiterKills(s)
  BY <1>3 DEF WaiterKills, Kill, EmptyHanded, NotYetWaited, NoOrphan, Held
<1> QED BY <1>1, <1>2, <1>3

\* Every step of the program keeps it.
LEMMA StepSound == IInv /\ [Next]_vars => IInv'
<1> SUFFICES ASSUME IInv, [Next]_vars PROVE IInv'
  OBVIOUS
<1>1. CASE UNCHANGED vars
  BY <1>1 DEF vars, IInv, TypeOK, EmptyHanded, NotYetWaited, NoOrphan, Held
<1>2. CASE Next
  BY <1>2, StartersStep, StoppersStep, WaitersStep DEF Next, Run, Wait
<1> QED BY <1>1, <1>2

\* Every variable has its type, and whoever is to register or to kill a stream
\* has one.
THEOREM StreamTypes == Spec => []TypeOK
<1>1. IInv => TypeOK
  BY DEF IInv
<1> QED BY <1>1, InitSound, StepSound, PTL DEF Spec

\* A live stream is in the map or in the hands of a goroutine that is about to
\* enter or to kill it, however starts, stops and exits overlap; the one
\* exception is a stream entered while another /stream was on its way.
THEOREM NothingOrphaned == Spec => []NoOrphan
<1>1. IInv => NoOrphan
  BY DEF IInv
<1> QED BY <1>1, InitSound, StepSound, PTL DEF Spec
=============================================================================
