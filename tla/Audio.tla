-------------------------------- MODULE Audio --------------------------------
(***************************************************************************)
(* The sounds of a round that go on until they are stopped (AudioManager,  *)
(* audio-manager.ts), and the volume they are played at: the settings      *)
(* panel of the page (game-host.component.ts) and what is stored of it     *)
(* (game-settings.service.ts).                                             *)
(*                                                                         *)
(* One volume stands for the four of the settings.  Sounds that end by     *)
(* themselves are left out; of distance it matters whether a shield is     *)
(* heard.                                                                  *)
(***************************************************************************)
EXTENDS Integers, FiniteSets, FiniteSetsExt

CONSTANTS
    Shields,                 \* tanks that may raise one
    Volumes,                 \* at least 1
    MaxSounds, MaxChanges    \* bounds

ASSUME AudioAssumption ==
    /\ IsFiniteSet(Shields) /\ Shields \cap {"none", "ambience", "music"} = {}
    /\ Volumes \subseteq Nat \ {0}

VARIABLES
    match,    \* the snapshot drawn last: its status, and whether the zone is active
    audio,    \* AudioManager
    sounds,   \* Phaser's looping sounds: their volume, or the one their tween leads to
    panel,    \* the settings of the host and what it waits for
    stored    \* the settings kept by the browser, and those sent to the server

audioVars == <<match, audio, sounds, panel, stored>>

\* A sound is known by what it is played for and a number.
NoSound  == <<"none", 0>>
Unheard  == [status |-> "none", zone |-> FALSE]
\* last, the track of the last round, is kept by the session storage.
NewAudio(volume, last) ==
    [open |-> TRUE, volume |-> volume, last |-> last, ambience |-> NoSound, music |-> NoSound,
     key |-> "none", battle |-> "none", previous |-> "none", shields |-> << >>]
NoAudio(last) == [NewAudio(0, last) EXCEPT !.open = FALSE]

\* The host starts from the default settings and asks for the stored ones.
AudioInit ==
    /\ match = Unheard /\ audio = NoAudio("none") /\ sounds = << >>
    /\ \E v, default \in Volumes :
          /\ panel = [volume |-> default, loading |-> TRUE, found |-> v, timer |-> FALSE, changes |-> 0]
          /\ stored = [here |-> v, sent |-> {}]

-----------------------------------------------------------------------------
(* Steps on looping sounds: st has the manager and the sounds. *)

NewSound(ss, owner) ==
    <<owner, Min({n \in 1 .. Cardinality(DOMAIN ss) + 1 : <<owner, n>> \notin DOMAIN ss})>>
Without(ss, ids) == [i \in DOMAIN ss \ ids |-> ss[i]]
Plays(ss, ids, volume) ==
    [i \in ids \cup DOMAIN ss |-> IF i \in ids THEN [fade |-> "none", to |-> volume] ELSE ss[i]]

\* fadeTo, fadeOutAndDestroy and stopManagedSound.
FadeIn(ss, i, volume) == [ss EXCEPT ![i] = [fade |-> "in", to |-> volume]]
FadeOut(ss, i) == IF i = NoSound THEN ss ELSE [ss EXCEPT ![i] = [fade |-> "out", to |-> 0]]
Stop(ss, i)    == Without(ss, {i})

EnsureAmbience(st) ==
    IF st.a.ambience # NoSound THEN st
    ELSE LET i == NewSound(st.ss, "ambience")
         IN  [a |-> [st.a EXCEPT !.ambience = i], ss |-> Plays(st.ss, {i}, st.a.volume)]

TransitionToMusic(st, key) ==
    IF st.a.key = key THEN st
    ELSE LET i == NewSound(st.ss, "music")
         IN  [a  |-> [st.a EXCEPT !.music = i, !.key = key],
              ss |-> FadeOut(FadeIn(Plays(st.ss, {i}, 0), i, st.a.volume), st.a.music)]

StopMusic(st, fade) ==
    [a  |-> [st.a EXCEPT !.music = NoSound, !.key = "none"],
     ss |-> IF fade THEN FadeOut(st.ss, st.a.music) ELSE Stop(st.ss, st.a.music)]
FadeOutAmbience(st) ==
    [a |-> [st.a EXCEPT !.ambience = NoSound], ss |-> FadeOut(st.ss, st.a.ambience)]

\* getBattleTrackKey: once for each round, the other one than the last time.
WithBattleTrack(st) ==
    IF st.a.battle # "none" THEN st
    ELSE LET track == IF st.a.last = "one" THEN "two" ELSE "one"
         IN  [st EXCEPT !.a = [@ EXCEPT !.battle = track, !.last = track]]

\* syncMatchAudio.
MatchSynced(st, m) ==
    LET heard == EnsureAmbience(st)
        drawn == IF m.zone THEN heard ELSE WithBattleTrack(heard)
    IN  [CASE m.status = "waiting" -> StopMusic(heard, FALSE)
           [] m.status = "playing" -> TransitionToMusic(drawn, IF m.zone THEN "zone" ELSE drawn.a.battle)
           [] OTHER -> IF st.a.previous = "playing" THEN StopMusic(FadeOutAmbience(st), TRUE) ELSE st
         EXCEPT !.a.previous = m.status]

ShieldsStopped(st, ts) ==
    [a  |-> [st.a EXCEPT !.shields = Without(@, ts)],
     ss |-> Without(st.ss, {st.a.shields[t] : t \in ts})]
ShieldsHeard(st, ts) ==
    [a  |-> [st.a EXCEPT !.shields = [t \in ts \cup DOMAIN @ |-> IF t \in ts THEN NewSound(st.ss, t) ELSE @[t]]],
     ss |-> Plays(st.ss, {NewSound(st.ss, t) : t \in ts}, st.a.volume)]

\* syncShieldLoops: a viewer who is not in the round hears none.
ShieldsSynced(st, up, near, listening) ==
    IF ~listening THEN ShieldsStopped(st, DOMAIN st.a.shields)
    ELSE LET kept == ShieldsStopped(st, DOMAIN st.a.shields \ up)
         IN  ShieldsHeard(kept, (up \cap near) \ DOMAIN kept.a.shields)

Becomes(st) == audio' = st.a /\ sounds' = st.ss

-----------------------------------------------------------------------------
(* What the scene does with the manager. *)

\* Bound: what is still fading out when a frame is drawn.
HasRoom == Cardinality(DOMAIN sounds) <= MaxSounds

\* A frame that draws the next snapshot.
DrawSounds(m, up, near, listening) ==
    /\ audio.open /\ HasRoom
    /\ \/ m = match
       \/ m.status = "playing" /\ match.status \in {"none", "waiting"} /\ ~m.zone
       \/ m.status = "waiting" /\ match.status = "none" /\ ~m.zone
       \/ m.status = "finished" /\ match.status = "playing" /\ m.zone = match.zone
       \/ m.status = "playing" /\ match.status = "playing" /\ m.zone
    /\ match' = m /\ m.status # "none"
    /\ Becomes(ShieldsSynced(MatchSynced([a |-> audio, ss |-> sounds], m), up, near, listening))
    /\ UNCHANGED <<panel, stored>>

\* stopShieldLoop: its player was disconnected.
StopShieldLoop(t) ==
    /\ t \in DOMAIN audio.shields /\ Becomes(ShieldsStopped([a |-> audio, ss |-> sounds], {t}))
    /\ UNCHANGED <<match, panel, stored>>

\* The constructor, when the scene opens, and destroy with the page and its game.
OpenAudio ==
    /\ ~audio.open /\ audio' = NewAudio(stored.here, audio.last) /\ UNCHANGED <<match, sounds, panel, stored>>
DestroyAudio ==
    /\ audio.open /\ match' = Unheard /\ audio' = NoAudio(audio.last) /\ sounds' = << >>
    /\ panel' = [panel EXCEPT !.timer = FALSE] /\ UNCHANGED stored

\* resetMatchAudio, when a round is joined.
Held == {audio.ambience, audio.music} \cup {audio.shields[t] : t \in DOMAIN audio.shields}
ResetMatchAudio ==
    /\ audio.open /\ match' = Unheard
    /\ audio' = NewAudio(audio.volume, audio.last) /\ sounds' = Without(sounds, Held) /\ UNCHANGED <<panel, stored>>

\* Phaser ends a tween.
TweenEnds(i) ==
    /\ sounds[i].fade # "none"
    /\ sounds' = IF sounds[i].fade = "out" THEN Without(sounds, {i})
                 ELSE [sounds EXCEPT ![i].fade = "none"]
    /\ UNCHANGED <<match, audio, panel, stored>>

-----------------------------------------------------------------------------
(* The settings. *)

\* AudioManager.applySettings: the tweens of what is held are killed.
\* Mutant: a tween goes on to its old volume.
AppliedMutant(v) ==
    [i \in DOMAIN sounds |-> IF i \in Held /\ sounds[i].fade = "none" THEN [fade |-> "none", to |-> v] ELSE sounds[i]]
Applied(v) ==
    [i \in DOMAIN sounds |->
        IF i \in Held THEN [fade |-> "none", to |-> v] ELSE sounds[i]]

ApplySettings(v) ==
    IF audio.open THEN audio' = [audio EXCEPT !.volume = v] /\ sounds' = Applied(v) /\ UNCHANGED match
    ELSE UNCHANGED <<match, audio, sounds>>

\* onVolumeInput.
OnVolumeInput(v) ==
    /\ panel.changes < MaxChanges
    /\ panel' = [panel EXCEPT !.volume = v, !.timer = TRUE, !.changes = @ + 1]
    /\ ApplySettings(v) /\ UNCHANGED stored

\* load: the answer of the server, or what was found here when it was asked.
LoadSettings(v, ok) ==
    /\ panel.loading /\ (ok \/ v = panel.found)
    /\ panel' = [panel EXCEPT !.volume = v, !.loading = FALSE, !.found = v] /\ ApplySettings(v)
    /\ stored' = IF ok THEN [stored EXCEPT !.here = v] ELSE stored

\* saveSettings, when the last change has rested; after a request that fails the
\* settings of that moment are stored here.
SaveSettings ==
    /\ panel.timer /\ panel' = [panel EXCEPT !.timer = FALSE]
    /\ stored' = [here |-> panel.volume, sent |-> stored.sent \cup {panel.volume}]
    /\ UNCHANGED <<match, audio, sounds>>
SaveEnds(v, ok) ==
    /\ v \in stored.sent
    /\ stored' = [here |-> IF ok THEN stored.here ELSE panel.volume, sent |-> stored.sent \ {v}]
    /\ UNCHANGED <<match, audio, sounds, panel>>

Matches == [status : {"waiting", "playing", "finished"}, zone : BOOLEAN]
AudioNext ==
    \/ \E m \in Matches, up, near \in SUBSET Shields, listening \in BOOLEAN :
          DrawSounds(m, up, near, listening)
    \/ \E t \in Shields : StopShieldLoop(t)
    \/ OpenAudio \/ DestroyAudio \/ ResetMatchAudio \/ SaveSettings
    \/ \E i \in DOMAIN sounds : TweenEnds(i)
    \/ \E v \in Volumes : OnVolumeInput(v)
    \/ \E v \in Volumes, ok \in BOOLEAN : LoadSettings(v, ok) \/ SaveEnds(v, ok)

AudioSpec == AudioInit /\ [][AudioNext]_audioVars
-----------------------------------------------------------------------------
(* Property. *)

\* A sound that loops is held by the manager, once, or is fading out, so that no music
\* goes on for ever; and what is held plays at the volume that was set last or is on its
\* way there, whatever tweens a change of music and a change of settings interrupt
\* (audio-manager.ts:144-179, 430-524).
SoundsAreKept ==
    /\ Held \ {NoSound} \subseteq DOMAIN sounds
    /\ \A i \in DOMAIN sounds :
          IF i \in Held THEN sounds[i].fade # "out" /\ sounds[i].to = audio.volume
          ELSE sounds[i].fade = "out"
=============================================================================
