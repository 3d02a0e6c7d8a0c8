------------------------------ MODULE MCSettle ------------------------------
(***************************************************************************)
(* What is owed is settled: the rewards that workers process, and the      *)
(* scheduler that lets them.  They share no variable: a behaviour is one   *)
(* of them, and the fairness of each is asked of its own behaviours only.  *)
(***************************************************************************)
EXTENDS MCRewards, Scheduler

VARIABLE part

settleVars == <<part, vars, schedulerVars>>

SettleInit ==
    /\ part \in {"rewards", "scheduler"}
    /\ Init /\ SchedulerInit /\ (part = "scheduler" \/ playing)

SettleNext ==
    /\ UNCHANGED part
    /\ \/ part = "rewards"   /\ Next          /\ UNCHANGED schedulerVars
       \/ part = "scheduler" /\ SchedulerNext /\ UNCHANGED vars

\* Fairness and SchedulerFairness, each under its part.
Of(p, A) == part = p /\ A

SettleFairness ==
    /\ \A w \in Workers : WF_vars(Of("rewards", Process(w)))
    /\ \A w \in Workers, r \in Rewards :
         SF_vars(Of("rewards", /\ r \in Retryable
                               /\ \E S \in SUBSET Retryable : r \in S /\ ClaimPending(w, S)))
    /\ WF_schedulerVars(Of("scheduler", KnownWorkTimer))
    /\ WF_schedulerVars(Of("scheduler", TickGoesOn))
    /\ WF_schedulerVars(Of("scheduler", ProcessStarts))
    /\ WF_schedulerVars(Of("scheduler", SignalWritten))
    /\ SF_schedulerVars(Of("scheduler", IntervalTick))
    /\ SF_schedulerVars(Of("scheduler", BatchClaims))
    /\ SF_schedulerVars(Of("scheduler", BatchPays({})))

SettleSpec == SettleInit /\ [][SettleNext]_settleVars /\ SettleFairness
=============================================================================
