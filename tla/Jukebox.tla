------------------------------ MODULE Jukebox ------------------------------
(***************************************************************************)
(* What the bot promises one chat, without goroutines, downloads or calls: *)
(* a line of tracks served in order.  Only the track at the head of the    *)
(* line is tried and put on air, and no track that waits behind the head   *)
(* loses its turn: the head gives way only after it has been tried.        *)
(***************************************************************************)
EXTENDS SequencesExt

CONSTANTS Tracks, Silence

VARIABLES
    line,    \* the tracks that wait, the current one at the head
    tried,   \* the tracks the bot has tried to fetch
    air      \* the track that sounds

vars == <<line, tried, air>>

Init == line = <<>> /\ tried = {} /\ air = Silence

TypeOK == line \in Seq(Tracks) /\ tried \subseteq Tracks /\ air \in Tracks \cup {Silence}

Request == line' \in Seq(Tracks) /\ IsPrefix(line, line') /\ UNCHANGED <<tried, air>>

Try == line # <<>> /\ tried' = tried \cup {Head(line)} /\ UNCHANGED <<line, air>>

Play == line # <<>> /\ Head(line) \in tried /\ air' = Head(line) /\ UNCHANGED <<line, tried>>

GiveWay == line # <<>> /\ Head(line) \in tried /\ line' = Tail(line) /\ UNCHANGED <<tried, air>>

Withdraw(i) == i \in 2 .. Len(line) /\ line' = RemoveAt(line, i) /\ UNCHANGED <<tried, air>>

\* The line is closed; a stream that could not be started properly may end the
\* old one, or sound.
Close ==
    /\ line' = <<>>
    /\ air' \in {air, Silence} \cup {e \in tried : line # <<>> /\ e = Head(line)}
    /\ UNCHANGED tried

FallSilent == air' = Silence /\ UNCHANGED <<line, tried>>

Next ==
    \/ Request \/ Try \/ Play \/ GiveWay \/ Close \/ FallSilent
    \/ \E i \in 2 .. Len(line) : Withdraw(i)

Spec == Init /\ [][Next]_vars
=============================================================================
