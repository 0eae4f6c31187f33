----------------------------- MODULE AutoplayLane -----------------------------
(***************************************************************************)
(* Which track autoplay may choose next: a chain of tracks in one chat,    *)
(* the language each of them is taken for, and the filters of tryAutoplay. *)
(* A track is what the filters see of it: the languages its title or       *)
(* channel names, the scripts it is written in, whether it contains a word *)
(* that no song has, and its length in seconds (0 when unknown).           *)
(***************************************************************************)
EXTENDS Integers, Sequences, FiniteSets, FiniteSetsExt, SequencesExt

CONSTANTS Tracks,          \* the tracks searches find and users ask for
          DurationLimit    \* SongDurationLimit, 0 for none

ASSUME TracksAssumption ==
    /\ DurationLimit \in Nat
    /\ \A t \in Tracks : IsFiniteSet(t.named) /\ t.bad \in BOOLEAN /\ t.length \in Nat

VARIABLES track,      \* the track that plays, NoTrack before the first one
          hint,       \* LastLangHint of the chat, "" for none
          lanes,      \* history: the languages since a user chose a track,
          loose,      \* whether one of them was not stored or not the only one,
          auto        \* and whether autoplay chose the track

laneVars == <<track, hint, lanes, loose, auto>>

NoTrack == [named |-> {}, scripts |-> {}, bad |-> FALSE, length |-> -1]

\* The languages in the order detectAutoplayLanguageHint tries them, and the
\* scripts in the order of detectAutoplayScript.
Hints == <<"bhojpuri", "hindi", "punjabi", "tamil", "telugu", "malayalam", "kannada",
           "bengali", "marathi", "gujarati", "urdu", "arabic", "persian", "hebrew">>

ScriptOrder == <<"sinhala", "tamil", "telugu", "malayalam", "kannada", "bengali",
                 "gujarati", "gurmukhi", "devanagari", "hebrew", "arabic">>

First(order, found) ==
    IF \E i \in DOMAIN order : order[i] \in found
    THEN order[Min({i \in DOMAIN order : order[i] \in found})] ELSE ""

DetectLanguageHint(t) == First(Hints, t.named)

DetectScript(t) == First(ScriptOrder, t.scripts)

\* Titles in these are hardly told apart.
North == {"hindi", "bhojpuri", "marathi"}

\* Mutant: a title is not searched for other scripts.
MutantScriptAny(lang, t) == FALSE

\* matchesAutoplayLanguageHint rejects a title that names another language,
\* if it is none of the three in North ...
NamesOther(lang, t) ==
    \E l \in t.named \ {lang} : l = "sinhala" \/ l \in ToSet(Hints) \ North

\* ... or is in a script the language is not written in.
ScriptOf(lang) == CASE lang \in North -> "devanagari"
                    [] lang = "punjabi" -> "gurmukhi"
                    [] lang \in {"urdu", "arabic", "persian"} -> "arabic"
                    [] OTHER -> lang

ForeignScript(lang, t) == DetectScript(t) \notin {"", ScriptOf(lang)}

\* A title that names the language passes whatever else it says.
MatchesLanguageHint(lang, t) ==
    lang \in t.named \/ ~ (NamesOther(lang, t) \/ ForeignScript(lang, t))

MaxDuration == IF DurationLimit \in 1 .. 899 THEN DurationLimit ELSE 900

IsLikelyMusicTrack(t, lang) ==
    /\ ~ t.bad
    /\ t.length > 0 => t.length \in 45 .. MaxDuration
    /\ lang # "" => MatchesLanguageHint(lang, t)

-----------------------------------------------------------------------------
\* The language of the track that plays, or of the last one that had any.
Lane(t, h) == IF DetectLanguageHint(t) # "" THEN DetectLanguageHint(t) ELSE h

LaneInit == /\ track = NoTrack /\ hint = ""
            /\ lanes = {} /\ loose = FALSE /\ auto = FALSE

\* Mutant: the hint is overwritten even if none can be inferred.
MutantOverwriteHint(t) == hint' = DetectLanguageHint(t)

\* Only a language that is inferred replaces the hint.
SetLastLangHint(t) == hint' = Lane(t, hint)

Several(t) == Cardinality(t.named) > 1

\* /play on an empty queue starts the track itself and leaves the hint as it
\* is; a track of the queue is started by playSong, which sets it.
PlayNow(t) ==
    /\ track = NoTrack /\ track' = t /\ hint' = hint
    /\ loose' = (Several(t) \/ Lane(t, hint) # hint)
    /\ lanes' = {Lane(t, hint)} \ {""} /\ auto' = FALSE

PlayQueued(t) ==
    /\ track # NoTrack
    /\ track' = t /\ SetLastLangHint(t) /\ loose' = Several(t)
    /\ lanes' = {Lane(t, hint)} \ {""} /\ auto' = FALSE

\* PlayNext with an empty queue: the track autoplay has found is played.
Autoplay(t) ==
    LET lang == Lane(track, hint) IN
    /\ track # NoTrack /\ IsLikelyMusicTrack(t, lang)
    /\ track' = t /\ loose' = (loose \/ Several(t))
    /\ SetLastLangHint(t)
    /\ lanes' = (lanes \cup {Lane(t, lang)}) \ {""}
    /\ auto' = TRUE

\* Stop, and every other way to clear the chat.
Clear == track # NoTrack /\ track' = NoTrack /\ hint' = ""
         /\ lanes' = {} /\ loose' = FALSE /\ auto' = FALSE

LaneNext == \/ \E t \in Tracks : PlayNow(t) \/ PlayQueued(t) \/ Autoplay(t)
            \/ Clear

LaneSpec == LaneInit /\ [][LaneNext]_laneVars
-----------------------------------------------------------------------------
\* "keep autoplay in the same language lane": as long as no title names two
\* languages, a chain that autoplay continues stays in one language - but for
\* Hindi, Bhojpuri and Marathi, into which every lane may drift and which it
\* cannot leave again.  (A /play on an empty queue does not store its language:
\* the first nameless track after it ends the lane.)
OneLane == ~ loose => Cardinality(lanes \ North) <= 1

\* A nameless track that autoplay adds to such a chain is in the script of one
\* of its languages, or in Latin, however many nameless tracks ago it was named.
ScriptKept ==
    auto /\ ~ loose /\ lanes # {} /\ track.named = {} =>
        DetectScript(track) \in {""} \cup {ScriptOf(l) : l \in lanes}
=============================================================================
