-------------------------- MODULE BroadcastProofs --------------------------
(***************************************************************************)
(* Every target of a broadcast is accounted for once and is in one place   *)
(* at a time, for any number of handlers, workers, targets and retries,    *)
(* whenever cancellations come.                                            *)
(***************************************************************************)
EXTENDS Broadcast, FiniteSetTheorems, TLAPS

\* A handler that has not launched its workers has nothing to count.
NotLaunched ==
    \A h \in Handlers : pc[h] \in {"start", "claim", "parse"} =>
        /\ total[h] = 0 /\ success[h] = 0 /\ failed[h] = 0 /\ queue[h] = <<>>
        /\ \A w \in Workers : step[h][w] = "exit"

\* A worker that is to send has an item.
HoldsItem == \A h \in Handlers : \A w \in Busy(h) : item[h][w] \in Items

IInv == TypeOK /\ NotLaunched /\ HoldsItem /\ Accounted /\ ServedOnce

USE BroadcastAssumption

\* A busy worker less for one more that waits or is counted.
LEMMA Balance ==
    ASSUME NEW s \in Nat, NEW f \in Nat, NEW q \in Nat, NEW b \in Nat, NEW t,
           NEW s1 \in Nat, NEW f1 \in Nat, NEW q1 \in Nat, NEW b1 \in Nat,
           s + f + q + b = t, s1 + f1 + q1 = s + f + q + 1, b1 = b - 1
    PROVE  s1 + f1 + q1 + b1 = t
OBVIOUS

\* The workers of a handler are finitely many; one more or one less is busy.
LEMMA BusyCount ==
    ASSUME NEW h \in Handlers, NEW w \in Workers
    PROVE  /\ Cardinality(Busy(h)) \in Nat /\ Cardinality(Busy(h) \ {w}) \in Nat
           /\ w \notin Busy(h) =>
                Cardinality(Busy(h) \cup {w}) = Cardinality(Busy(h)) + 1
           /\ w \in Busy(h) =>
                Cardinality(Busy(h) \ {w}) = Cardinality(Busy(h)) - 1
<1>1. IsFiniteSet(Busy(h))
  <2>1. Busy(h) \in SUBSET Workers
    BY DEF Busy
  <2> QED BY <2>1, FS_Subset
<1> QED BY <1>1, FS_CardinalityType, FS_AddElement, FS_RemoveElement

\* A step of a worker moves nobody else.
LEMMA WorkerMoves ==
    ASSUME TypeOK, NEW h \in Handlers, NEW w \in Workers, NEW label, GotoW(h, w, label)
    PROVE  /\ \A k \in Handlers \ {h} : Busy(k)' = Busy(k) /\ step'[k] = step[k]
           /\ label \in {"look", "send"} => Busy(h)' = Busy(h) \cup {w}
           /\ label \notin {"look", "send"} => Busy(h)' = Busy(h) \ {w}
           /\ \A v \in Workers \ {w} : step'[h][v] = step[h][v]
           /\ step'[h][w] = label
BY DEF TypeOK, GotoW, Busy

\* Workers run only between the launch and the report of their handler.
LEMMA AtWork ==
    ASSUME NotLaunched, NEW h \in Handlers, NEW w \in Workers, step[h][w] # "exit"
    PROVE  pc[h] \notin {"start", "claim", "parse"}
BY DEF NotLaunched

\* Before the first command nothing is queued, held or counted.
LEMMA InitSound == Init => IInv
<1> SUFFICES ASSUME Init PROVE IInv
  OBVIOUS
<1>1. \A h \in Handlers : Busy(h) = {}
  BY DEF Init, Busy
<1>2. TypeOK
  <2>1. <<>> \in Seq(Items)
    OBVIOUS
  <2> QED BY <2>1 DEF Init, TypeOK
<1>3. Accounted
  <2>1. \A h \in Handlers : Cardinality(Busy(h)) = 0
    BY <1>1, FS_EmptySet
  <2> QED BY <2>1 DEF Init, Accounted
<1> QED BY <1>1, <1>2, <1>3 DEF Init, IInv, NotLaunched, HoldsItem, ServedOnce

\* A worker takes the head of the queue.
LEMMA TakeStep ==
    ASSUME IInv, NEW h \in Handlers, NEW w \in Workers, Take(h, w)
    PROVE  IInv'
<1> DEFINE first == Head(queue[h])
<1>1. /\ step[h][w] = "take" /\ queue[h] \in Seq(Items) /\ queue[h] # <<>>
      /\ first \in Items /\ w \notin Busy(h)
  BY DEF Take, IInv, TypeOK, Busy
<1>2. /\ queue' = [queue EXCEPT ![h] = Tail(queue[h])]
      /\ item' = [item EXCEPT ![h][w] = first]
      /\ step' = [step EXCEPT ![h][w] = "look"]
      /\ UNCHANGED <<flags, pc, total, success, failed>>
  BY DEF Take, Hold, GotoW
<1>3. /\ Busy(h)' = Busy(h) \cup {w}
      /\ \A k \in Handlers \ {h} : Busy(k)' = Busy(k)
  BY <1>2, WorkerMoves DEF IInv, GotoW
<1>4. TypeOK'
  BY <1>1, <1>2 DEF IInv, TypeOK, flags
<1>5. NotLaunched'
  BY <1>1, <1>2, AtWork DEF IInv, NotLaunched, TypeOK
<1>6. HoldsItem'
  BY <1>1, <1>2, <1>3 DEF IInv, HoldsItem, TypeOK, Busy
<1>7. Accounted'
  <2>1. Len(queue'[h]) = Len(queue[h]) - 1
    BY <1>1, <1>2 DEF IInv, TypeOK
  <2>2. Cardinality(Busy(h)') = Cardinality(Busy(h)) + 1
    BY <1>1, <1>3, BusyCount
  <2>3. success[h] \in Nat /\ failed[h] \in Nat /\ Len(queue[h]) \in Nat
          /\ Cardinality(Busy(h)) \in Nat
    <3>1. Cardinality(Busy(h)) \in Nat
      BY BusyCount
    <3> QED BY <3>1, <1>1 DEF IInv, TypeOK
  <2>4. ASSUME NEW k \in Handlers
        PROVE  success'[k] + failed'[k] + Len(queue'[k]) + Cardinality(Busy(k)') = total'[k]
    <3>1. CASE k = h
      BY <3>1, <2>1, <2>2, <2>3, <1>2 DEF IInv, Accounted
    <3>2. CASE k # h
      BY <3>2, <1>2, <1>3 DEF IInv, Accounted, TypeOK
    <3> QED BY <3>1, <3>2
  <2> QED BY <2>4 DEF Accounted
<1>8. ServedOnce'
  <2>1. \A i \in DOMAIN queue'[h] : i + 1 \in DOMAIN queue[h] /\ queue'[h][i] = queue[h][i + 1]
                                     /\ i + 1 # 1
    BY <1>1, <1>2 DEF IInv, TypeOK
  <2>2. 1 \in DOMAIN queue[h] /\ first = queue[h][1]
    BY <1>1
  <2>3. item'[h][w] = first /\ \A v \in Workers \ {w} : item'[h][v] = item[h][v]
    BY <1>2 DEF IInv, TypeOK
  <2>4. ASSUME NEW i \in DOMAIN queue'[h], NEW j \in DOMAIN queue'[h], i # j
        PROVE  queue'[h][i].id # queue'[h][j].id
    <3>1. i + 1 # j + 1
      BY <2>4, <1>1, <1>2 DEF IInv, TypeOK
    <3> QED BY <3>1, <2>1 DEF IInv, ServedOnce
  <2>5. \A v, x \in Busy(h)' : v # x => item'[h][v].id # item'[h][x].id
    BY <2>2, <2>3, <1>3 DEF IInv, ServedOnce, Busy
  <2>6. \A v \in Busy(h)', i \in DOMAIN queue'[h] : item'[h][v].id # queue'[h][i].id
    BY <2>1, <2>2, <2>3, <1>3 DEF IInv, ServedOnce, Busy
  <2>7. \A k \in Handlers \ {h} : queue'[k] = queue[k] /\ item'[k] = item[k]
    BY <1>2 DEF IInv, TypeOK
  <2> QED BY <2>4, <2>5, <2>6, <2>7, <1>3 DEF IInv, ServedOnce
<1> QED BY <1>4, <1>5, <1>6, <1>7, <1>8 DEF IInv

\* What leaves the workers, the queue and the counters alone.
LEMMA QuietStep ==
    ASSUME IInv, UNCHANGED work, pc' \in [Handlers -> {"start", "claim", "parse", "send",
                                                    "finish", "refused", "done"}],
           inProgress' \in BOOLEAN, cancelFlag' \in BOOLEAN,
           \A h \in Handlers : pc'[h] \in {"start", "claim", "parse"}
                                   => pc[h] \in {"start", "claim", "parse"}
    PROVE  IInv'
<1>1. \A h \in Handlers : Busy(h)' = Busy(h)
  BY DEF work, Busy
<1> QED BY <1>1 DEF work, IInv, TypeOK, NotLaunched, HoldsItem, Accounted, ServedOnce

\* A worker settles its item: the message is delivered, or the target given up.
LEMMA SettleStep ==
    ASSUME IInv, NEW h \in Handlers, NEW w \in Busy(h),
           step' = [step EXCEPT ![h][w] = "take"],
           item' = [item EXCEPT ![h][w] = NoItem],
           \/ success' = [success EXCEPT ![h] = @ + 1] /\ failed' = failed
           \/ failed' = [failed EXCEPT ![h] = @ + 1] /\ success' = success,
           UNCHANGED <<flags, pc, total, queue>>
    PROVE  IInv'
<1>1. /\ w \in Workers /\ step[h][w] # "exit"
      /\ Busy(h)' = Busy(h) \ {w}
      /\ \A k \in Handlers \ {h} : Busy(k)' = Busy(k)
  <2>1. w \in Workers /\ step[h][w] # "exit"
    BY DEF Busy
  <2>2. GotoW(h, w, "take") /\ "take" \notin {"look", "send"}
    BY DEF GotoW
  <2> QED BY <2>1, <2>2, WorkerMoves DEF IInv
<1>2. TypeOK'
  <2>1. success' \in [Handlers -> Nat] /\ failed' \in [Handlers -> Nat]
    <3>1. success[h] + 1 \in Nat /\ failed[h] + 1 \in Nat
      BY DEF IInv, TypeOK
    <3> QED BY <3>1 DEF IInv, TypeOK
  <2> QED BY <2>1, <1>1 DEF IInv, TypeOK, flags
<1>3. NotLaunched'
  BY <1>1, AtWork DEF IInv, NotLaunched, TypeOK
<1>4. \A v \in Busy(h)' : v \in Busy(h) /\ item'[h][v] = item[h][v]
  BY <1>1 DEF IInv, TypeOK, Busy
<1>5. \A k \in Handlers \ {h} : item'[k] = item[k]
  BY DEF IInv, TypeOK
<1>6. HoldsItem'
  BY <1>1, <1>4, <1>5 DEF IInv, HoldsItem
<1>7. ServedOnce'
  BY <1>1, <1>4, <1>5 DEF IInv, ServedOnce
<1>8. Accounted'
  <2>1. /\ Cardinality(Busy(h)') = Cardinality(Busy(h)) - 1
        /\ Cardinality(Busy(h)) \in Nat /\ Cardinality(Busy(h)') \in Nat
    BY <1>1, BusyCount
  <2>2. success[h] \in Nat /\ failed[h] \in Nat /\ Len(queue[h]) \in Nat
    BY DEF IInv, TypeOK
  <2>3. success'[h] + failed'[h] = success[h] + failed[h] + 1
    BY <2>2 DEF IInv, TypeOK
  <2>4. success'[h] \in Nat /\ failed'[h] \in Nat
    BY <1>2 DEF TypeOK
  <2>5. ASSUME NEW k \in Handlers
        PROVE  success'[k] + failed'[k] + Len(queue'[k]) + Cardinality(Busy(k)') = total'[k]
    <3>1. CASE k = h
      <4>1. success[h] + failed[h] + Len(queue[h]) + Cardinality(Busy(h)) = total[h]
        BY DEF IInv, Accounted
      <4>2. Len(queue'[h]) = Len(queue[h]) /\ total'[h] = total[h]
        OBVIOUS
      <4>3. success'[h] + failed'[h] + Len(queue'[h]) + Cardinality(Busy(h)') = total'[h]
        <5>1. success'[h] + failed'[h] + Len(queue'[h]) = success[h] + failed[h] + Len(queue[h]) + 1
          BY <4>2, <2>2, <2>3, <2>4
        <5>2. Len(queue'[h]) \in Nat
          BY <4>2, <2>2
        <5> QED BY <4>1, <4>2, <5>1, <5>2, <2>1, <2>2, <2>4, Balance
      <4> QED BY <3>1, <4>3
    <3>2. CASE k # h
      BY <3>2, <1>1 DEF IInv, Accounted, TypeOK
    <3> QED BY <3>1, <3>2
  <2> QED BY <2>5 DEF Accounted
<1> QED BY <1>2, <1>3, <1>6, <1>7, <1>8 DEF IInv

\* A worker puts its item back, one retry older.
LEMMA RetryStep ==
    ASSUME IInv, NEW h \in Handlers, NEW w \in Workers, Retry(h, w)
    PROVE  IInv'
<1> DEFINE again == [item[h][w] EXCEPT !.retry = @ + 1]
<1>1. w \in Busy(h) /\ step[h][w] # "exit" /\ item[h][w] \in Items
      /\ queue[h] \in Seq(Items)
  BY DEF Retry, Busy, IInv, HoldsItem, TypeOK
<1>2. /\ queue' = [queue EXCEPT ![h] = Append(queue[h], again)]
      /\ item' = [item EXCEPT ![h][w] = NoItem]
      /\ step' = [step EXCEPT ![h][w] = "take"]
      /\ UNCHANGED <<flags, pc, total, success, failed>>
  BY DEF Retry, Hold, GotoW
<1>3. again \in Items /\ again.id = item[h][w].id
  <2>1. PICK i \in Items : i = item[h][w]
    BY <1>1
  <2>2. again = [id |-> i.id, retry |-> i.retry + 1] /\ i.retry < MaxRetries
    BY <2>1 DEF Items, Retry
  <2>3. i.id \in Targets /\ i.retry + 1 \in 0 .. MaxRetries
    BY <2>2 DEF Items
  <2> QED BY <2>1, <2>2, <2>3 DEF Items
<1>4. /\ Busy(h)' = Busy(h) \ {w}
      /\ \A k \in Handlers \ {h} : Busy(k)' = Busy(k)
  <2>1. GotoW(h, w, "take") /\ "take" \notin {"look", "send"}
    BY <1>2 DEF GotoW
  <2> QED BY <2>1, WorkerMoves DEF IInv
<1>5. TypeOK'
  BY <1>1, <1>2, <1>3 DEF IInv, TypeOK, flags
<1>6. NotLaunched'
  BY <1>1, <1>2, AtWork DEF IInv, NotLaunched, TypeOK
<1>7. \A v \in Busy(h)' : v \in Busy(h) \ {w} /\ item'[h][v] = item[h][v]
  BY <1>2, <1>4 DEF IInv, TypeOK, Busy
<1>8. \A k \in Handlers \ {h} : item'[k] = item[k] /\ queue'[k] = queue[k]
  BY <1>2 DEF IInv, TypeOK
<1>9. HoldsItem'
  BY <1>4, <1>7, <1>8 DEF IInv, HoldsItem
<1>10. Accounted'
  <2>1. Len(queue'[h]) = Len(queue[h]) + 1 /\ Len(queue[h]) \in Nat
    BY <1>1, <1>2, <1>3 DEF IInv, TypeOK
  <2>2. /\ Cardinality(Busy(h)') = Cardinality(Busy(h)) - 1
        /\ Cardinality(Busy(h)) \in Nat /\ Cardinality(Busy(h)') \in Nat
    BY <1>1, <1>4, BusyCount
  <2>3. success[h] \in Nat /\ failed[h] \in Nat
    BY DEF IInv, TypeOK
  <2>4. ASSUME NEW k \in Handlers
        PROVE  success'[k] + failed'[k] + Len(queue'[k]) + Cardinality(Busy(k)') = total'[k]
    <3>1. CASE k = h
      <4>1. success[h] + failed[h] + Len(queue[h]) + Cardinality(Busy(h)) = total[h]
        BY DEF IInv, Accounted
      <4>2. success'[h] + failed'[h] + Len(queue'[h]) + Cardinality(Busy(h)') = total'[h]
        <5>1. /\ success'[h] \in Nat /\ failed'[h] \in Nat /\ Len(queue'[h]) \in Nat
              /\ success'[h] + failed'[h] + Len(queue'[h]) = success[h] + failed[h] + Len(queue[h]) + 1
              /\ total'[h] = total[h]
          <6>1. success'[h] = success[h] /\ failed'[h] = failed[h] /\ total'[h] = total[h]
            BY <1>2
          <6>2. /\ success[h] \in Nat /\ failed[h] \in Nat /\ Len(queue[h]) \in Nat
                /\ Len(queue'[h]) = Len(queue[h]) + 1
            BY <2>1, <2>3
          <6> QED BY <6>1, <6>2
        <5> QED BY <4>1, <5>1, <2>1, <2>2, <2>3, Balance
      <4> QED BY <3>1, <4>2
    <3>2. CASE k # h
      BY <3>2, <1>2, <1>4 DEF IInv, Accounted, TypeOK
    <3> QED BY <3>1, <3>2
  <2> QED BY <2>4 DEF Accounted
<1>11. ServedOnce'
  <2>1. \A i \in DOMAIN queue'[h] :
           \/ i \in DOMAIN queue[h] /\ queue'[h][i] = queue[h][i]
           \/ i = Len(queue[h]) + 1 /\ queue'[h][i].id = item[h][w].id
    BY <1>1, <1>2, <1>3 DEF IInv, TypeOK
  <2>2. \A i, j \in DOMAIN queue'[h] : i # j => queue'[h][i].id # queue'[h][j].id
    BY <1>1, <2>1 DEF IInv, ServedOnce
  <2>3. \A v \in Busy(h)', i \in DOMAIN queue'[h] : item'[h][v].id # queue'[h][i].id
    BY <1>1, <1>7, <2>1 DEF IInv, ServedOnce
  <2> QED BY <2>2, <2>3, <1>4, <1>7, <1>8 DEF IInv, ServedOnce
<1> QED BY <1>5, <1>6, <1>9, <1>10, <1>11 DEF IInv

\* A worker goes on without touching an item.
LEMMA GoOnStep ==
    ASSUME IInv, NEW h \in Handlers, NEW w \in Workers, NEW label,
           \/ step[h][w] = "look" /\ label = "send"
           \/ step[h][w] = "take" /\ label = "exit",
           step' = [step EXCEPT ![h][w] = label],
           UNCHANGED <<flags, pc, total, queue, success, failed, item>>
    PROVE  IInv'
<1>1. \A k \in Handlers : Busy(k)' = Busy(k)
  BY DEF IInv, TypeOK, Busy
<1>2. TypeOK'
  BY DEF IInv, TypeOK, flags
<1>3. NotLaunched'
  BY AtWork DEF IInv, NotLaunched, TypeOK
<1> QED BY <1>1, <1>2, <1>3 DEF IInv, HoldsItem, Accounted, ServedOnce

\* Whatever a worker does, the invariant is kept.
LEMMA WorkersStep ==
    ASSUME IInv, NEW h \in Handlers, NEW w \in Workers, Work(h, w)
    PROVE  IInv'
<1>1. CASE Take(h, w)
  BY <1>1, TakeStep
<1>2. CASE Exit(h, w)
  BY <1>2, GoOnStep DEF Exit, GotoW
<1>3. CASE Look(h, w)
  <2>1. CASE cancelFlag
    BY <1>3, <2>1, SettleStep DEF Look, GotoW, Hold, Count, Busy
  <2>2. CASE ~cancelFlag
    BY <1>3, <2>2, GoOnStep DEF Look, GotoW
  <2> QED BY <2>1, <2>2
<1>4. CASE Deliver(h, w)
  BY <1>4, SettleStep DEF Deliver, GotoW, Hold, Count, Busy
<1>5. CASE Retry(h, w)
  BY <1>5, RetryStep
<1>6. CASE Fail(h, w)
  BY <1>6, SettleStep DEF Fail, GotoW, Hold, Count, Busy
<1> QED BY <1>1, <1>2, <1>3, <1>4, <1>5, <1>6 DEF Work

\* A function on 1 .. n is a sequence of length n.
LEMMA FunctionIsSeq ==
    ASSUME NEW S, NEW n \in Nat, NEW f \in [1 .. n -> S]
    PROVE  f \in Seq(S) /\ Len(f) = n
OBVIOUS

\* The items of a launch: each target once, in some order.
LEMMA LaunchStep ==
    ASSUME IInv, NEW h \in Handlers, NEW ids \in SUBSET Targets, ids # {},
           NEW order \in [1 .. Cardinality(ids) -> ids],
           \A id \in ids : \E i \in DOMAIN order : order[i] = id,
           pc[h] = "parse", pc' = [pc EXCEPT ![h] = "send"],
           cancelFlag' = FALSE,
           total' = [total EXCEPT ![h] = Cardinality(ids)],
           queue' = [queue EXCEPT ![h] = [i \in DOMAIN order |-> [id |-> order[i], retry |-> 0]]],
           step' = [step EXCEPT ![h] = [w \in Workers |-> "take"]],
           UNCHANGED <<inProgress, success, failed, item>>
    PROVE  IInv'
<1> DEFINE n == Cardinality(ids)
           items == [i \in DOMAIN order |-> [id |-> order[i], retry |-> 0]]
<1>1. IsFiniteSet(ids) /\ n \in Nat
  BY FS_Subset, FS_CardinalityType
<1>2. \A i, j \in 1 .. n : i # j => order[i] # order[j]
  <2>1. order \in Surjection(1 .. n, ids)
    BY DEF Surjection
  <2>2. IsFiniteSet(1 .. n) /\ Cardinality(1 .. n) = n
    BY <1>1, FS_Interval
  <2>3. order \in Injection(1 .. n, ids)
    BY <2>1, <2>2, FS_Surjection
  <2> QED BY <2>3 DEF Injection, IsInjective
<1>3. items \in Seq(Items) /\ Len(items) = n /\ DOMAIN items = 1 .. n
  <2>1. items \in [1 .. n -> Items]
    BY DEF Items
  <2>2. DOMAIN items = 1 .. n
    OBVIOUS
  <2> QED BY <2>1, <2>2, <1>1, FunctionIsSeq
<1>4. /\ Busy(h)' = {} /\ Busy(h) = {}
      /\ \A k \in Handlers \ {h} : Busy(k)' = Busy(k)
  BY DEF IInv, TypeOK, NotLaunched, Busy
<1>5. TypeOK'
  BY <1>1, <1>3 DEF IInv, TypeOK
<1>6. NotLaunched'
  BY DEF IInv, NotLaunched, TypeOK
<1>7. HoldsItem'
  BY <1>4 DEF IInv, HoldsItem
<1>8. \A k \in Handlers \ {h} : queue'[k] = queue[k] /\ total'[k] = total[k]
  BY DEF IInv, TypeOK
<1>9. Accounted'
  <2>1. success'[h] = 0 /\ failed'[h] = 0 /\ Len(queue'[h]) = n /\ total'[h] = n
    BY <1>3 DEF IInv, TypeOK, NotLaunched
  <2>2. Cardinality(Busy(h)') = 0
    BY <1>4, FS_EmptySet
  <2>3. success'[h] + failed'[h] + Len(queue'[h]) + Cardinality(Busy(h)') = total'[h]
    BY <1>1, <2>1, <2>2
  <2> QED BY <2>3, <1>4, <1>8 DEF IInv, Accounted
<1>10. ServedOnce'
  <2>1. queue'[h] = items
    BY DEF IInv, TypeOK
  <2>2. \A i, j \in DOMAIN queue'[h] : i # j => queue'[h][i].id # queue'[h][j].id
    BY <2>1, <1>2, <1>3
  <2>3. ASSUME NEW k \in Handlers \ {h}
        PROVE  queue'[k] = queue[k] /\ Busy(k)' = Busy(k) /\ item' = item
    BY <1>4, <1>8
  <2>4. ASSUME NEW k \in Handlers
        PROVE  /\ \A i, j \in DOMAIN queue'[k] : i # j => queue'[k][i].id # queue'[k][j].id
               /\ \A v, w \in Busy(k)' : v # w => item'[k][v].id # item'[k][w].id
               /\ \A w \in Busy(k)', i \in DOMAIN queue'[k] :
                     item'[k][w].id # queue'[k][i].id
    <3>1. CASE k = h
      <4>1. Busy(k)' = {}
        BY <3>1, <1>4
      <4>2. \A i, j \in DOMAIN queue'[k] : i # j => queue'[k][i].id # queue'[k][j].id
        BY <3>1, <2>2
      <4> QED BY <4>1, <4>2
    <3>2. CASE k # h
      BY <3>2, <2>3 DEF IInv, ServedOnce
    <3> QED BY <3>1, <3>2
  <2> QED BY <2>4 DEF ServedOnce
<1> QED BY <1>5, <1>6, <1>7, <1>9, <1>10 DEF IInv

\* A step of the handler itself.
LEMMA HandlersStep ==
    ASSUME IInv, NEW h \in Handlers, Check(h) \/ Handle(h)
    PROVE  IInv'
<1>1. CASE Check(h)
  BY <1>1, QuietStep DEF Check, At, Goto, flags, IInv, TypeOK
<1>2. CASE Claim(h)
  BY <1>2, QuietStep DEF Claim, At, Goto, IInv, TypeOK
<1>3. CASE Reject(h)
  BY <1>3, QuietStep DEF Reject, At, Goto, IInv, TypeOK
<1>4. CASE Launch(h)
  <2>1. PICK ids \in SUBSET Targets :
           IF ids = {}
           THEN Goto(h, "refused") /\ inProgress' = FALSE /\ UNCHANGED work
           ELSE /\ Goto(h, "send")
                /\ total' = [total EXCEPT ![h] = Cardinality(ids)]
                /\ \E order \in [1 .. Cardinality(ids) -> ids] :
                     /\ \A id \in ids : \E i \in DOMAIN order : order[i] = id
                     /\ queue' = [queue EXCEPT ![h] =
                                    [i \in DOMAIN order |-> [id |-> order[i], retry |-> 0]]]
                /\ step' = [step EXCEPT ![h] = [w \in Workers |-> "take"]]
                /\ UNCHANGED <<inProgress, success, failed, item>>
    BY <1>4 DEF Launch
  <2>2. CASE ids = {}
    BY <1>4, <2>1, <2>2, QuietStep DEF Launch, Goto, IInv, TypeOK
  <2>3. CASE ids # {}
    <3>1. PICK order \in [1 .. Cardinality(ids) -> ids] :
             /\ \A id \in ids : \E i \in DOMAIN order : order[i] = id
             /\ queue' = [queue EXCEPT ![h] =
                            [i \in DOMAIN order |-> [id |-> order[i], retry |-> 0]]]
      BY <2>1, <2>3
    <3>2. /\ pc[h] = "parse" /\ pc' = [pc EXCEPT ![h] = "send"]
          /\ cancelFlag' = FALSE
          /\ total' = [total EXCEPT ![h] = Cardinality(ids)]
          /\ step' = [step EXCEPT ![h] = [w \in Workers |-> "take"]]
          /\ UNCHANGED <<inProgress, success, failed, item>>
      BY <1>4, <2>1, <2>3 DEF Launch, Goto
    <3> QED BY <2>3, <3>1, <3>2, LaunchStep
  <2> QED BY <2>2, <2>3
<1>5. CASE Finish(h)
  BY <1>5, QuietStep DEF Finish, At, Goto, IInv, TypeOK
<1>6. CASE Release(h)
  BY <1>6, QuietStep DEF Release, At, Goto, IInv, TypeOK
<1> QED BY <1>1, <1>2, <1>3, <1>4, <1>5, <1>6 DEF Handle

\* Every step of the program keeps the invariant.
LEMMA NextStep == IInv /\ [Next]_vars => IInv'
<1> SUFFICES ASSUME IInv, [Next]_vars PROVE IInv'
  OBVIOUS
<1>1. CASE Cancel
  BY <1>1, QuietStep DEF Cancel, IInv, TypeOK
<1>2. CASE UNCHANGED vars
  BY <1>2, QuietStep DEF vars, work, IInv, TypeOK
<1>3. ASSUME NEW h \in Handlers, Check(h) \/ Handle(h) PROVE IInv'
  BY <1>3, HandlersStep
<1>4. ASSUME NEW h \in Handlers, NEW w \in Workers, Work(h, w) PROVE IInv'
  BY <1>4, WorkersStep
<1> QED BY <1>1, <1>2, <1>3, <1>4 DEF Next

\* So it holds always.
LEMMA Invariance == Spec => []IInv
BY InitSound, NextStep, PTL DEF Spec

\* An item is retried at most MaxRetries times, for any number of workers that
\* put items back beside each other (handlers/broadcast.go:176-190).
THEOREM RetriesBounded == Spec => []TypeOK
<1>1. IInv => TypeOK
  BY DEF IInv
<1> QED BY <1>1, Invariance, PTL

\* Whatever is retried, given up or cancelled, the counters of the report, the
\* queue and the hands of the workers add up to the targets.
THEOREM AllAccounted == Spec => []Accounted
<1>1. IInv => Accounted
  BY DEF IInv
<1> QED BY <1>1, Invariance, PTL

\* A target is in one place of the queue or in one worker's hands, never in two:
\* no message is sent twice by workers that run beside each other.
THEOREM NobodyServedTwice == Spec => []ServedOnce
<1>1. IInv => ServedOnce
  BY DEF IInv
<1> QED BY <1>1, Invariance, PTL
=============================================================================
