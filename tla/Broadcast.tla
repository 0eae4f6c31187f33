------------------------------ MODULE Broadcast ------------------------------
(***************************************************************************)
(* /broadcast and /cancelbroadcast of src/src/handlers/broadcast.go.       *)
(*                                                                         *)
(* Each broadcastHandler h has a queue of targets, served by a pool of     *)
(* worker goroutines; all handlers share two atomic flags.  The flags are  *)
(* read and written in separate steps, and the progress flag is cleared    *)
(* twice on the way out, so handlers can overlap although they check.      *)
(* The ticker and the waits after a flood error only delay a worker.       *)
(***************************************************************************)
EXTENDS Integers, Sequences, FiniteSets, FiniteSetsExt

CONSTANTS
    Handlers,    \* the /broadcast commands
    Workers,     \* 20 for each handler in the code
    Targets,     \* ids of the chats and users in the database
    MaxRetries,  \* 2 in the code
    Nobody       \* no target

ASSUME BroadcastAssumption ==
    /\ IsFiniteSet(Workers) /\ IsFiniteSet(Targets)
    /\ MaxRetries \in Nat
    /\ Nobody \notin Targets

VARIABLES
    inProgress, cancelFlag,  \* broadcastInProgress and broadcastCancelFlag
    pc,         \* the next step of each handler
    total,      \* len(targets), once they are read
    queue,      \* the items not taken yet: target and RetryCount
    success, failed,
    step, item  \* of each worker: its next step and the item it holds

vars == <<inProgress, cancelFlag, pc, total, queue, success, failed, step, item>>

flags == <<inProgress, cancelFlag>>
work == <<total, queue, success, failed, step, item>>

Items == [id : Targets, retry : 0 .. MaxRetries]
NoItem == [id |-> Nobody, retry |-> 0]

Init ==
    /\ inProgress = FALSE
    /\ cancelFlag = FALSE
    /\ pc = [h \in Handlers |-> "start"]
    /\ total = [h \in Handlers |-> 0]
    /\ queue = [h \in Handlers |-> <<>>]
    /\ success = [h \in Handlers |-> 0]
    /\ failed = [h \in Handlers |-> 0]
    /\ step = [h \in Handlers |-> [w \in Workers |-> "exit"]]
    /\ item = [h \in Handlers |-> [w \in Workers |-> NoItem]]
-----------------------------------------------------------------------------
(* The handler *)

Goto(h, label) == pc' = [pc EXCEPT ![h] = label]

At(h, label, next) == pc[h] = label /\ Goto(h, next)

Check(h) ==
    /\ At(h, "start", IF inProgress THEN "refused" ELSE "claim")
    /\ UNCHANGED <<flags, work>>

Claim(h) ==
    /\ At(h, "claim", "parse")
    /\ inProgress' = TRUE
    /\ UNCHANGED <<cancelFlag, work>>

\* No message replied to, or flags that do not parse.
Reject(h) ==
    /\ At(h, "parse", "refused")
    /\ inProgress' = FALSE
    /\ UNCHANGED <<cancelFlag, work>>

\* The cancel flag is reset and the targets are read: the database gives each
\* id once, -limit keeps a prefix.
Launch(h) ==
    /\ pc[h] = "parse"
    /\ cancelFlag' = FALSE
    /\ \E ids \in SUBSET Targets :
         IF ids = {}
         THEN Goto(h, "refused") /\ inProgress' = FALSE /\ UNCHANGED work
         ELSE /\ Goto(h, "send")
              /\ total' = [total EXCEPT ![h] = Cardinality(ids)]
              /\ \E order \in [1 .. Cardinality(ids) -> ids] :
                   /\ \A id \in ids : \E i \in DOMAIN order : order[i] = id
                   /\ queue' = [queue EXCEPT ![h] =
                                  [i \in DOMAIN order |-> [id |-> order[i], retry |-> 0]]]
              /\ step' = [step EXCEPT ![h] = [w \in Workers |-> "take"]]
              /\ UNCHANGED <<inProgress, success, failed, item>>

\* wg.Wait, the report, and the first of the two resets of the flag.
Finish(h) ==
    /\ \A w \in Workers : step[h][w] = "exit"
    /\ At(h, "send", "finish")
    /\ inProgress' = FALSE
    /\ UNCHANGED <<cancelFlag, work>>

\* The deferred reset.
Release(h) ==
    /\ At(h, "finish", "done")
    /\ inProgress' = FALSE
    /\ UNCHANGED <<cancelFlag, work>>
-----------------------------------------------------------------------------
(* The workers of handler h *)

GotoW(h, w, label) == step' = [step EXCEPT ![h][w] = label]

Hold(h, w, i) == item' = [item EXCEPT ![h][w] = i]

Count(counter, h) == [counter EXCEPT ![h] = @ + 1]

\* Mutant: the item is read under the lock and removed by nobody.
MutantTakeKeeps(h, w) ==
    /\ step[h][w] = "take" /\ queue[h] # <<>>
    /\ Hold(h, w, Head(queue[h]))
    /\ GotoW(h, w, "look")
    /\ UNCHANGED <<flags, pc, total, queue, success, failed>>

Take(h, w) ==
    /\ step[h][w] = "take" /\ queue[h] # <<>>
    /\ Hold(h, w, Head(queue[h]))
    /\ queue' = [queue EXCEPT ![h] = Tail(@)]
    /\ GotoW(h, w, "look")
    /\ UNCHANGED <<flags, pc, total, success, failed>>

\* An empty queue ends the worker, even if another one may still put an item
\* back: that one will serve it itself.
Exit(h, w) ==
    /\ step[h][w] = "take" /\ queue[h] = <<>>
    /\ GotoW(h, w, "exit")
    /\ UNCHANGED <<flags, pc, total, queue, success, failed, item>>

\* Mutant: an item dropped by a cancellation is counted nowhere.
MutantLookForgets(h, w) ==
    /\ step[h][w] = "look"
    /\ IF cancelFlag THEN GotoW(h, w, "take") /\ Hold(h, w, NoItem)
                     ELSE GotoW(h, w, "send") /\ UNCHANGED item
    /\ UNCHANGED <<flags, pc, total, queue, success, failed>>

Look(h, w) ==
    /\ step[h][w] = "look"
    /\ IF cancelFlag
       THEN GotoW(h, w, "take") /\ Hold(h, w, NoItem) /\ failed' = Count(failed, h)
       ELSE GotoW(h, w, "send") /\ UNCHANGED <<item, failed>>
    /\ UNCHANGED <<flags, pc, total, queue, success>>

Deliver(h, w) ==
    /\ step[h][w] = "send"
    /\ success' = Count(success, h)
    /\ Hold(h, w, NoItem)
    /\ GotoW(h, w, "take")
    /\ UNCHANGED <<flags, pc, total, queue, failed>>

\* Mutant: the retry count stays where it is.
MutantRetryForever(h, w) ==
    /\ step[h][w] = "send"
    /\ queue' = [queue EXCEPT ![h] = Append(@, item[h][w])]
    /\ Hold(h, w, NoItem)
    /\ GotoW(h, w, "take")
    /\ UNCHANGED <<flags, pc, total, success, failed>>

\* Mutant: one retry too many.
MutantRetryOneMore(h, w) ==
    /\ step[h][w] = "send" /\ item[h][w].retry <= MaxRetries
    /\ queue' = [queue EXCEPT ![h] = Append(@, [item[h][w] EXCEPT !.retry = @ + 1])]
    /\ Hold(h, w, NoItem)
    /\ GotoW(h, w, "take")
    /\ UNCHANGED <<flags, pc, total, success, failed>>

\* A flood error: the item goes to the end of the queue, at most MaxRetries
\* times.
Retry(h, w) ==
    /\ step[h][w] = "send" /\ item[h][w].retry < MaxRetries
    /\ queue' = [queue EXCEPT ![h] = Append(@, [item[h][w] EXCEPT !.retry = @ + 1])]
    /\ Hold(h, w, NoItem)
    /\ GotoW(h, w, "take")
    /\ UNCHANGED <<flags, pc, total, success, failed>>

\* Any other error, or one flood error too many.
Fail(h, w) ==
    /\ step[h][w] = "send"
    /\ failed' = Count(failed, h)
    /\ Hold(h, w, NoItem)
    /\ GotoW(h, w, "take")
    /\ UNCHANGED <<flags, pc, total, queue, success>>
-----------------------------------------------------------------------------
\* /cancelbroadcast, at any time; the reply says "Broadcast cancelled".
Cancel ==
    /\ cancelFlag' = TRUE
    /\ UNCHANGED <<inProgress, pc, work>>

Handle(h) == Claim(h) \/ Reject(h) \/ Launch(h) \/ Finish(h) \/ Release(h)

Work(h, w) ==
    Take(h, w) \/ Exit(h, w) \/ Look(h, w) \/ Deliver(h, w) \/ Retry(h, w) \/ Fail(h, w)

Next ==
    \/ Cancel
    \/ \E h \in Handlers : Check(h) \/ Handle(h) \/ \E w \in Workers : Work(h, w)

Spec == Init /\ [][Next]_vars

\* Goroutines are scheduled; a send returns or times out.
Fairness ==
    \A h \in Handlers :
        WF_vars(Handle(h)) /\ \A w \in Workers : WF_vars(Work(h, w))

FairSpec == Spec /\ Fairness
-----------------------------------------------------------------------------
(* Properties *)

\* Every variable has its type; above all, no item is retried more often than
\* MaxRetries.
TypeOK ==
    /\ inProgress \in BOOLEAN /\ cancelFlag \in BOOLEAN
    /\ pc \in [Handlers -> {"start", "claim", "parse", "send", "finish", "refused", "done"}]
    /\ total \in [Handlers -> Nat]
    /\ queue \in [Handlers -> Seq(Items)]
    /\ success \in [Handlers -> Nat] /\ failed \in [Handlers -> Nat]
    /\ step \in [Handlers -> [Workers -> {"take", "look", "send", "exit"}]]
    /\ item \in [Handlers -> [Workers -> Items \cup {NoItem}]]

\* The workers that hold an item they have taken and not settled.
Busy(h) == {w \in Workers : step[h][w] \in {"look", "send"}}

\* Every target is accounted for exactly once, through retries, failures and
\* cancellation: it waits, is held by a worker, or is counted.
Accounted ==
    \A h \in Handlers :
        success[h] + failed[h] + Len(queue[h]) + Cardinality(Busy(h)) = total[h]

\* No target is served by two workers at once, or again while it waits: the
\* message is not sent to it twice.
ServedOnce ==
    \A h \in Handlers :
        /\ \A i, j \in DOMAIN queue[h] : i # j => queue[h][i].id # queue[h][j].id
        /\ \A v, w \in Busy(h) : v # w => item[h][v].id # item[h][w].id
        /\ \A w \in Busy(h), i \in DOMAIN queue[h] : item[h][w].id # queue[h][i].id

\* Every broadcast comes to its end: retries are bounded, and the workers do
\* not wait for each other.
BroadcastEnds == \A h \in Handlers : (pc[h] = "send") ~> (pc[h] = "done")
=============================================================================
