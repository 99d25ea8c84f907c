----------------------------- MODULE SoundPlayer -----------------------------
(***************************************************************************)
(* The driver's sounds.  publish_full_status plays a file if more than ten *)
(* seconds have gone by since the last one: playSound loads it on the ROS  *)
(* thread and SDL_mixer plays it on its own, whose finishedCallback frees  *)
(* the chunk that the global `sound' points to when a channel ends.        *)
(*                                                                         *)
(* The other global, `finished', is only ever set to TRUE (lines 17 and    *)
(* 26), so the test of it never holds a sound back.  What keeps one from   *)
(* starting before the last has ended is the ten seconds of the ROS clock, *)
(* which the files, all of less than two, play by SDL's.  The two clocks   *)
(* are unrelated: the ROS clock may be simulated, or set forward or back.  *)
(***************************************************************************)
CONSTANTS
    Chunks,   \* memory for chunks (a bound for TLC)
    NoSound   \* nullptr

ASSUME NoSoundAssumption == NoSound \notin Chunks

VARIABLES
    mute,       \* mute
    called,     \* publish_full_status has run: dt has a value
    over,       \* by the ROS clock more than ten seconds have passed since dt
    sound,      \* sound
    loading,    \* playSound has loaded it and not yet played it
    allocated,  \* chunks loaded and not freed
    playing,    \* chunks on SDL's channels
    refused,    \* history: chunks that got no channel
    ahead,      \* history: the ten seconds were over before a sound was
    misused     \* history: a chunk was freed twice

soundVars == <<mute, called, over, sound, loading, allocated, playing, refused, ahead, misused>>
memory == <<allocated, playing, refused, misused>>

SoundTypeOK ==
    /\ mute \in BOOLEAN /\ called \in BOOLEAN /\ over \in BOOLEAN /\ loading \in BOOLEAN
    /\ ahead \in BOOLEAN /\ misused \in BOOLEAN
    /\ sound \in Chunks \cup {NoSound}
    /\ allocated \subseteq Chunks /\ playing \subseteq Chunks /\ refused \subseteq Chunks

SoundInit ==
    /\ mute \in BOOLEAN
    /\ called = FALSE /\ over = FALSE
    /\ sound = NoSound /\ loading = FALSE
    /\ allocated = {} /\ playing = {} /\ refused = {}
    /\ ahead = FALSE /\ misused = FALSE

-----------------------------------------------------------------------------
\* The parameter's callback, for a client of the parameter or for a page.
SetMute(b) ==
    /\ mute' = b
    /\ UNCHANGED <<called, over, sound, loading, ahead, memory>>

\* The head of publish_full_status: dt is taken in the first call, and again
\* whenever a sound is due, muted or not.
AlwaysDue == called
Due == called /\ over

NotDue ==
    /\ ~Due
    /\ called' = TRUE
    /\ UNCHANGED <<mute, over, sound, loading, ahead, memory>>

DueMuted ==
    /\ Due /\ mute
    /\ over' = FALSE
    /\ UNCHANGED <<mute, called, sound, loading, ahead, memory>>

LoadFails ==
    /\ Due /\ ~mute
    /\ over' = FALSE
    /\ sound' = NoSound
    /\ UNCHANGED <<mute, called, loading, ahead, memory>>

Load ==
    /\ Due /\ ~mute
    /\ over' = FALSE
    /\ \E c \in Chunks \ allocated :
          sound' = c /\ allocated' = allocated \cup {c}
    /\ loading' = TRUE
    /\ UNCHANGED <<mute, called, playing, refused, ahead, misused>>

\* Mix_PlayChannel, whose -1 nobody looks at: no channel is free, or the audio
\* was never opened.
PlayChannel ==
    /\ loading
    /\ loading' = FALSE
    /\ \/ playing' = playing \cup {sound} /\ UNCHANGED refused
       \/ refused' = refused \cup {sound} /\ UNCHANGED playing
    /\ UNCHANGED <<mute, called, over, sound, allocated, ahead, misused>>

\* SDL's thread: a channel ends and finishedCallback runs.  Mix_FreeChunk halts
\* a channel that still plays the chunk, and calls nobody back for it.
FinishedCallback(c) ==
    /\ playing' = playing \ {c, sound}
    /\ allocated' = allocated \ {sound}
    /\ refused' = refused \ {sound}
    /\ misused' = (misused \/ (sound # NoSound /\ sound \notin allocated))
    /\ UNCHANGED <<mute, called, over, sound, loading, ahead>>

SoundEnds == \E c \in playing : FinishedCallback(c)

\* The ROS clock goes on, or is set.
ClockMoves ==
    /\ called
    /\ over' \in BOOLEAN
    /\ ahead' = (ahead \/ (over' /\ (loading \/ playing # {})))
    /\ UNCHANGED <<mute, called, sound, loading, memory>>

-----------------------------------------------------------------------------
\* Unless the ROS clock ran ten seconds while one sound was loaded and played,
\* every chunk is freed once, and by the end of its own channel: what plays is in
\* memory, and what is in memory plays, is about to, or got no channel (such a
\* chunk is never freed, if another is loaded).
SoundsAreSafe ==
    ~ahead =>
        /\ ~misused
        /\ playing \subseteq allocated
        /\ allocated \subseteq playing \cup refused \cup (IF loading THEN {sound} ELSE {})
=============================================================================
