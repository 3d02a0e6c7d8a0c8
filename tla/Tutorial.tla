------------------------------ MODULE Tutorial ------------------------------
(***************************************************************************)
(* The tutorial: its five exercises, told apart frame by frame             *)
(* (tutorial-scene.ts), the page around them (tutorial.component.ts), and  *)
(* what is kept of a user who finishes or skips it (auth.service.ts,       *)
(* users.service.ts).                                                      *)
(*                                                                         *)
(* Of what a player does in a frame it matters which exercise it would     *)
(* pass: distances, the pause between two shots and the drawing are left   *)
(* out.                                                                    *)
(***************************************************************************)
EXTENDS Integers, FiniteSets

CONSTANTS
    Touch,          \* whether there are touch controls
    MaxGames, MaxPosts \* bounds

VARIABLES
    lesson,  \* TutorialScene
    screen,    \* TutorialComponent
    profile, \* AuthService.user().tutorialStatus, and that of the server
    post,    \* requests: what each says, and whether the page still waits for it
    posts, games,
    acts,    \* history: what was done in this game
    earned,  \* history: all of it was done in one game
    unsure     \* history: an answer was lost, or a request was written after it had failed

tutorialVars == <<lesson, screen, profile, post, posts, games, acts, earned, unsure>>

\* To go far and to dash one has to move.
Exercises == {"far", "aim", "fire", "dash", "shield"}
Done      == SUBSET (Exercises \cup {"move"})
NewLesson == [step |-> 0, scheduled |-> FALSE]

TutorialInit ==
    /\ lesson = NewLesson /\ screen = [at |-> "tutorial", step |-> 0, complete |-> FALSE, saving |-> FALSE]
    /\ profile = [here |-> "PENDING", kept |-> "PENDING"] /\ post = {} /\ posts = 0 /\ games = 1
    /\ acts = {} /\ earned = FALSE /\ unsure = FALSE

-----------------------------------------------------------------------------
(* The scene. *)

\* update: a dash, or enough of a way.
AfterMove(step, done) ==
    CASE step = 3 /\ "dash" \in done -> 4
      [] step = 0 /\ "far" \in done  -> 1
      [] OTHER -> step
\* updateAim.
AfterAim(step, done) == IF step = 1 /\ "aim" \in done THEN 2 ELSE step
\* updateShield.
LessonCompleted(l, step, done) == l.scheduled \/ (step = 4 /\ "shield" \in done)
\* handleShooting.
AfterShooting(step, done) == IF step = 2 /\ "fire" \in done THEN 3 ELSE step

\* update. The way of the pointer counts from the last
\* exercise that was passed; that of a finger does not.
TutorialFrame(done) ==
    LET moved == AfterMove(lesson.step, done)
        aimed == AfterAim(moved, done)
        step  == AfterShooting(aimed, done)
    IN  /\ screen.at = "tutorial" /\ ({"far", "dash"} \cap done # {} => "move" \in done)
        /\ ("aim" \in done /\ moved # lesson.step => Touch)
        /\ lesson' = [step |-> step, scheduled |-> LessonCompleted(lesson, aimed, done)]
        /\ screen' = [screen EXCEPT !.step = step]
        /\ acts' = acts \cup (done \cap Exercises) /\ earned' = (earned \/ acts' = Exercises)
        /\ UNCHANGED <<profile, post, posts, games, unsure>>

\* onComplete, two seconds later.
ShowSummary ==
    /\ screen.at = "tutorial" /\ lesson.scheduled /\ ~screen.complete
    /\ screen' = [screen EXCEPT !.complete = TRUE]
    /\ UNCHANGED <<lesson, profile, post, posts, games, acts, earned, unsure>>

-----------------------------------------------------------------------------
(* The page. *)

NewGame ==
    /\ games < MaxGames /\ games' = games + 1 /\ lesson' = NewLesson /\ acts' = {}
    /\ screen' = [at |-> "tutorial", step |-> 0, complete |-> FALSE, saving |-> FALSE]

Repeat ==
    /\ screen.at = "tutorial" /\ screen.complete /\ ~screen.saving /\ NewGame
    /\ UNCHANGED <<profile, post, posts, earned, unsure>>

\* persistAndLeave, of finish and of skip.
PersistAndLeave(status) ==
    /\ screen.at = "tutorial" /\ ~screen.saving /\ screen.complete = (status = "COMPLETED")
    /\ posts < MaxPosts /\ posts' = posts + 1
    /\ screen' = [screen EXCEPT !.saving = TRUE]
    /\ post' = post \cup {[id |-> posts + 1, says |-> status, step |-> "sent", waits |-> TRUE]}
    /\ UNCHANGED <<lesson, profile, games, acts, earned, unsure>>

\* finishTutorial of the server.
FinishTutorial(p) ==
    /\ p \in post /\ p.step = "sent" /\ profile' = [profile EXCEPT !.kept = p.says]
    /\ post' = (post \ {p}) \cup (IF p.waits THEN {[p EXCEPT !.step = "written"]} ELSE {})
    /\ unsure' = (unsure \/ ~p.waits)
    /\ UNCHANGED <<lesson, screen, posts, games, acts, earned>>

\* finishTutorial of the page has its answer, and the lobby is opened.
TutorialSaved(p) ==
    /\ p \in post /\ p.step = "written" /\ p.waits /\ post' = post \ {p}
    /\ profile' = [profile EXCEPT !.here = p.says]
    /\ screen' = IF screen.at = "tutorial" THEN [screen EXCEPT !.saving = FALSE, !.at = "lobby"] ELSE screen
    /\ UNCHANGED <<lesson, posts, games, acts, earned, unsure>>

\* It fails; what was sent may still be written.
Fails(p) ==
    /\ p \in post /\ p.waits
    /\ post' = (post \ {p}) \cup (IF p.step = "sent" THEN {[p EXCEPT !.waits = FALSE]} ELSE {})
    /\ screen' = [screen EXCEPT !.saving = FALSE] /\ unsure' = (unsure \/ p.step = "written")
    /\ UNCHANGED <<lesson, profile, posts, games, acts, earned>>

\* ngOnDestroy; the requests go on. Bound: the tutorial is opened again when none does.
LeavePage ==
    /\ screen.at = "tutorial" /\ screen' = [screen EXCEPT !.at = "lobby", !.saving = FALSE]
    /\ UNCHANGED <<lesson, profile, post, posts, games, acts, earned, unsure>>
OpenPage ==
    /\ screen.at = "lobby" /\ post = {} /\ NewGame /\ UNCHANGED <<profile, post, posts, earned, unsure>>

TutorialNext ==
    \/ \E done \in Done : TutorialFrame(done)
    \/ ShowSummary \/ Repeat \/ LeavePage \/ OpenPage
    \/ \E status \in {"COMPLETED", "SKIPPED"} : PersistAndLeave(status)
    \/ \E p \in post : FinishTutorial(p) \/ TutorialSaved(p) \/ Fails(p)

TutorialSpec == TutorialInit /\ [][TutorialNext]_tutorialVars
-----------------------------------------------------------------------------
(* Property. *)

\* Only one who did all five exercises in one game has completed the tutorial, however
\* much is done in one frame, out of turn or in a game that is repeated; the page shows
\* the exercise of the game that is played; and what the page believes of the user is
\* what is kept, unless an answer was lost (tutorial-scene.ts:129-271,
\* tutorial.component.ts:54-90).
TutorialIsEarned ==
    /\ "COMPLETED" \in {profile.kept, profile.here} => earned
    /\ screen.at = "tutorial" =>
           screen.step = lesson.step /\ (screen.complete => lesson.scheduled /\ acts = Exercises)
    /\ post = {} /\ ~unsure => profile.here = profile.kept
=============================================================================
