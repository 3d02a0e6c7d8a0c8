-------------------------------- MODULE Device --------------------------------
(***************************************************************************)
(* The audio device of a phone behind the sounds of Audio: how it is       *)
(* unlocked by a gesture and restarted when the page comes back, for the   *)
(* device may be silent although it says that it runs (audio-manager.ts).  *)
(***************************************************************************)
EXTENDS Integers, FiniteSets

CONSTANTS Recoveries \* bound: how many are under way at once

VARIABLES
    device,   \* external: the AudioContext, and whether nothing is heard of it
    hidden,   \* document.hidden
    needs,    \* needsForegroundRecovery
    timer,    \* foregroundRecoveryTimer
    recovery, \* what each call of recoverAudioContext waits for
    overlaps  \* history: the page was hidden while a recovery was under way

deviceVars == <<device, hidden, needs, timer, recovery, overlaps>>

\* A browser starts the device suspended.
DeviceInit ==
    /\ device = [state |-> "suspended", silent |-> FALSE] /\ hidden = FALSE /\ needs = FALSE
    /\ timer = FALSE /\ recovery = [r \in Recoveries |-> "none"] /\ overlaps = FALSE

Idle(r)  == recovery[r] = "none"
UnderWay == \E r \in Recoveries : ~Idle(r)

\* External: the system takes the device of a page that is hidden, or silences it.
DeviceTaken ==
    /\ hidden /\ device.state = "running"
    /\ device' \in {[state |-> "interrupted", silent |-> FALSE], [state |-> "running", silent |-> TRUE]}
    /\ UNCHANGED <<hidden, needs, timer, recovery, overlaps>>

\* markAudioBackgrounded.
PageHidden ==
    /\ ~hidden /\ hidden' = TRUE /\ needs' = TRUE /\ timer' = FALSE
    /\ overlaps' = (overlaps \/ UnderWay) /\ UNCHANGED <<device, recovery>>

\* scheduleForegroundRecovery; visibilitychange and pageshow may both call it.
PageShown ==
    /\ hidden' = FALSE /\ timer' = (timer \/ needs)
    /\ UNCHANGED <<device, needs, recovery, overlaps>>

\* recoverAudioContext, up to what it waits for first.
Recover(r, force) ==
    /\ Idle(r)
    /\ IF force /\ device.state = "running"
       THEN recovery' = [recovery EXCEPT ![r] = "suspend"] /\ UNCHANGED needs
       ELSE IF device.state # "running"
       THEN recovery' = [recovery EXCEPT ![r] = "resume"] /\ UNCHANGED needs
       ELSE needs' = FALSE /\ UNCHANGED recovery
TimerFires(r) == timer /\ timer' = FALSE /\ Recover(r, TRUE) /\ UNCHANGED <<device, hidden, overlaps>>
\* unlockAudioFromGesture.
Gesture(r) == ~hidden /\ timer' = FALSE /\ Recover(r, needs) /\ UNCHANGED <<device, hidden, overlaps>>

SuspendEnds(r) ==
    /\ recovery[r] = "suspend" /\ device' = [state |-> "suspended", silent |-> FALSE]
    /\ recovery' = [recovery EXCEPT ![r] = "resume"]
    /\ UNCHANGED <<hidden, needs, timer, overlaps>>
ResumeEnds(r) ==
    /\ recovery[r] = "resume" /\ device' = [state |-> "running", silent |-> FALSE]
    /\ needs' = FALSE /\ recovery' = [recovery EXCEPT ![r] = "none"]
    /\ UNCHANGED <<hidden, timer, overlaps>>

\* The browser refuses outside a gesture: the next one tries again.
Rejected == needs' = TRUE
RecoveryFails(r) ==
    /\ ~Idle(r) /\ Rejected /\ recovery' = [recovery EXCEPT ![r] = "none"]
    /\ UNCHANGED <<device, hidden, timer, overlaps>>

DeviceNext ==
    \/ DeviceTaken \/ PageHidden \/ PageShown
    \/ \E r \in Recoveries : TimerFires(r) \/ Gesture(r) \/ SuspendEnds(r) \/ ResumeEnds(r) \/ RecoveryFails(r)

DeviceSpec == DeviceInit /\ [][DeviceNext]_deviceVars
-----------------------------------------------------------------------------
(* Property. *)

\* A device that is silent although it runs is restarted by the next gesture, unless its
\* recovery is under way or the page was hidden during one: the end of that recovery
\* clears what was noted when the page was hidden, whatever timers, gestures and refusals
\* of the browser come in between (audio-manager.ts:97-109, 193-230).
DeviceRecovers == device.silent => needs \/ UnderWay \/ overlaps
=============================================================================
