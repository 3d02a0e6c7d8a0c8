----------------------------- MODULE Scheduler ------------------------------
(***************************************************************************)
(* When rewards are paid.  A tick runs one batch of the processor; ticks   *)
(* come from an interval, while somebody plays, and from a timer for known *)
(* work, which a file announces to the next process                        *)
(* (reward-processor.scheduler.ts, runtime-activity.service.ts).           *)
(*                                                                         *)
(* What a batch does to a reward is in Rewards; here it is due, claimed,   *)
(* settled, or abandoned: left in PROCESSING, which no batch claims, by a  *)
(* batch that broke off.                                                   *)
(***************************************************************************)
EXTENDS Naturals, Sequences, TLC

CONSTANTS Due,       \* rewards that are registered
          MaxCrashes \* bound

VARIABLES
    reward,    \* the status of each reward in the database
    registered,\* matches that were saved and have not asked for processing yet
    playing,   \* hasRecentMultiplayerActivity
    scheduler, \* the fields of the process; Down while there is none
    signal, writes, \* pending-work.json, and what is still to be done to it
    crashes

schedulerVars == <<reward, registered, playing, scheduler, signal, writes, crashes>>

Down    == [running |-> "down", tracking |-> FALSE, timer |-> FALSE, next |-> FALSE]
Started == [Down EXCEPT !.running = "no"]

SchedulerInit ==
    /\ reward = [r \in Due |-> "none"] /\ registered = {} /\ playing \in BOOLEAN
    /\ scheduler = Started /\ signal = FALSE /\ writes = << >> /\ crashes = 0

Owed(S) == {r \in Due : reward[r] \in S}
Up == scheduler.running # "down"

\* scheduleKnownWork, when there is work at some time or none: the fields after it, and
\* the change of the file, which waits for the earlier ones.
Known(s, due) == [s EXCEPT !.tracking = due, !.timer = due]
Announced(due) == IF writes # << >> /\ writes[Len(writes)] = due THEN writes ELSE Append(writes, due)
Schedules(s, due) == scheduler' = Known(s, due) /\ writes' = Announced(due)

-----------------------------------------------------------------------------
(* A tick. *)

\* A tick that finds another one running is made up for if there is known work.
TickAs(s) ==
    IF s.running # "no" /\ s.tracking THEN Schedules(s, TRUE)
    ELSE /\ scheduler' = [s EXCEPT !.running = IF @ = "no" THEN "batch" ELSE @]
         /\ UNCHANGED writes

IntervalTick ==
    /\ Up /\ playing /\ TickAs(scheduler)
    /\ UNCHANGED <<reward, registered, playing, signal, crashes>>

KnownWorkTimer ==
    /\ scheduler.timer /\ TickAs([scheduler EXCEPT !.timer = FALSE])
    /\ UNCHANGED <<reward, registered, playing, signal, crashes>>

\* processBatch claims what is PENDING, or FAILED and to be retried; it never claims what
\* is in PROCESSING.
BatchClaims ==
    /\ scheduler.running = "batch"
    /\ reward' = [r \in Due |-> IF reward[r] = "due" THEN "claimed" ELSE reward[r]]
    /\ scheduler' = [scheduler EXCEPT !.running = IF Owed({"due"}) # {} THEN "paying"
                                                  ELSE IF scheduler.tracking THEN "asking" ELSE "no"]
    /\ UNCHANGED <<registered, playing, signal, writes, crashes>>

\* Each is settled or due again; nextAutomaticWorkAt is asked then.
BatchPays(again) ==
    /\ scheduler.running = "paying" /\ again \subseteq Owed({"claimed"})
    /\ reward' = [r \in Due |-> IF reward[r] # "claimed" THEN reward[r]
                                ELSE IF r \in again THEN "due" ELSE "settled"]
    /\ scheduler' = [scheduler EXCEPT !.running = "asking"]
    /\ UNCHANGED <<registered, playing, signal, writes, crashes>>

\* The database answers: a reward that a batch has claimed is not known work.
NextWorkRead ==
    /\ scheduler.running = "asking"
    /\ scheduler' = [scheduler EXCEPT !.running = "asked", !.next = Owed({"due"}) # {}]
    /\ UNCHANGED <<reward, registered, playing, signal, writes, crashes>>

NextWorkKnown ==
    /\ scheduler.running = "asked"
    /\ Schedules([scheduler EXCEPT !.running = "no", !.next = FALSE], scheduler.next)
    /\ UNCHANGED <<reward, registered, playing, signal, crashes>>

\* A batch breaks off: it had paid some of what it claimed, put some off, and left the
\* rest in PROCESSING.
BreaksOff ==
    \E left \in [Owed({"claimed"}) -> {"settled", "due", "abandoned"}] : reward' = left @@ reward

\* The flag is taken back when a batch or a query fails.
\* Mutant: it is not.
AfterFailureMutant(s) == s
AfterFailure(s) == [s EXCEPT !.running = "no"]

TickFails ==
    /\ scheduler.running \in {"batch", "paying", "asking"}
    /\ BreaksOff
    /\ IF scheduler.tracking THEN Schedules(AfterFailure(scheduler), TRUE)
       ELSE scheduler' = AfterFailure(scheduler) /\ UNCHANGED writes
    /\ UNCHANGED <<registered, playing, signal, crashes>>

-----------------------------------------------------------------------------
(* Around it. *)

\* persist registers the rewards of a match, and asks for processing when they are.
RegisterReward(r) ==
    /\ Up /\ reward[r] = "none" /\ reward' = [reward EXCEPT ![r] = "due"]
    /\ registered' = registered \cup {r}
    /\ UNCHANGED <<playing, scheduler, signal, writes, crashes>>

RequestProcessing(r) ==
    /\ Up /\ r \in registered /\ registered' = registered \ {r}
    /\ Schedules(scheduler, TRUE)
    /\ UNCHANGED <<reward, playing, signal, crashes>>

\* persistKnownWorkSignal; a change that fails is only logged.
SignalWritten ==
    /\ writes # << >> /\ writes' = Tail(writes) /\ signal' \in {signal, Head(writes)}
    /\ UNCHANGED <<reward, registered, playing, scheduler, crashes>>

\* Two players or more within the last two minutes.
PlayersComeOrGo ==
    /\ playing' = ~playing
    /\ UNCHANGED <<reward, registered, scheduler, signal, writes, crashes>>

ProcessStops ==
    /\ Up /\ crashes < MaxCrashes /\ crashes' = crashes + 1
    /\ scheduler' = Down /\ writes' = << >> /\ registered' = {}
    /\ BreaksOff
    /\ UNCHANGED <<playing, signal>>

\* onModuleInit.
ProcessStarts ==
    /\ ~Up
    /\ IF signal THEN Schedules(Started, TRUE) ELSE scheduler' = Started /\ UNCHANGED writes
    /\ UNCHANGED <<reward, registered, playing, signal, crashes>>

TickGoesOn == BatchClaims \/ NextWorkRead \/ NextWorkKnown \/ \E S \in SUBSET Due : BatchPays(S)

SchedulerNext ==
    \/ IntervalTick \/ KnownWorkTimer \/ TickGoesOn \/ TickFails
    \/ SignalWritten \/ PlayersComeOrGo \/ ProcessStops \/ ProcessStarts
    \/ \E r \in Due : RegisterReward(r) \/ RequestProcessing(r)

\* Timers fire and awaited calls end; a batch is not refused for ever.
SchedulerFairness ==
    /\ WF_schedulerVars(KnownWorkTimer) /\ WF_schedulerVars(TickGoesOn)
    /\ WF_schedulerVars(ProcessStarts) /\ WF_schedulerVars(SignalWritten)
    /\ SF_schedulerVars(IntervalTick)
    /\ SF_schedulerVars(BatchClaims) /\ SF_schedulerVars(BatchPays({}))

SchedulerSpec == SchedulerInit /\ [][SchedulerNext]_schedulerVars /\ SchedulerFairness
-----------------------------------------------------------------------------
(* Properties. *)

\* While people keep playing from time to time, every reward that is due is taken up and
\* settled in the end, whichever ticks collide, batches fail, signals are not written and
\* processes stop.  A batch that breaks off after it took it up may leave it in PROCESSING,
\* and that is where it stays.
WorkIsProcessed ==
    []<>playing => \A r \in Due : reward[r] = "due" ~> reward[r] \in {"settled", "abandoned"}
=============================================================================
