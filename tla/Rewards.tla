------------------------------- MODULE Rewards -------------------------------
(***************************************************************************)
(* The payment of match rewards: rewards.service.ts evaluates a reward,    *)
(* reward-processor.service.ts and reward-reconciler.service.ts pay it,    *)
(* and rewards.repository.ts keeps the rows and the daily ledger in        *)
(* PostgreSQL.                                                             *)
(*                                                                         *)
(* An action is a statement or transaction of the database, or a call of   *)
(* the Solana gateway: between two of them a handler is suspended.  An     *)
(* evaluation is one call of registerAndEvaluate; one whose process dies   *)
(* just takes no further step.  A worker runs processBatch; what it copied *)
(* of a row when it claimed it is a Claim.                                 *)
(*                                                                         *)
(* The amount of a row is the prize if the row is eligible and 0 if not.   *)
(* A signature is only ever returned for a transfer that was confirmed, so *)
(* a row just has one or has none.  Left out: cancelledAmount, which is    *)
(* never read, the batch size, which is larger than any instance here, and *)
(* the time of the next retry: a row waiting for it is due at any moment.  *)
(***************************************************************************)
EXTENDS Naturals, FiniteSets

CONSTANTS
    Rewards,        \* one per rewarded placement of a match
    Keys, KeyOf,    \* the daily budget (user, wallet, mint, day) of a reward
    Prize, DailyLimit,
    MaxRetries,     \* REWARD_MAX_RETRIES
    Workers,        \* processor instances
    Operated,       \* the statuses an operator retries by hand
    MaxManual,      \* bound: retries by hand
    Faults,         \* what may go wrong, see Fault
    NoClaim

\* crash: a worker restarts.  ack: a write of a worker succeeds and an error is
\* reported.  write, submit: a write (markSubmitted: submit) fails.  transfer: a
\* transfer is made and an error is reported.
Fault  == {"crash", "ack", "write", "submit", "transfer"}
Status == {"none", "PENDING", "PROCESSING", "SUBMITTED", "SENT", "FAILED",
           "MANUAL_REVIEW", "NOT_ELIGIBLE", "DAILY_LIMIT_REACHED", "REWARDS_DISABLED"}
Claim  == [reward: Rewards, signed: BOOLEAN, retries: Nat]

ASSUME RewardsAssumption ==
    /\ IsFiniteSet(Rewards) /\ KeyOf \in [Rewards -> Keys]
    /\ Prize \in [Rewards -> Nat \ {0}] /\ DailyLimit \in Nat
    /\ MaxRetries \in Nat \ {0} /\ MaxManual \in Nat
    /\ Operated \subseteq Status \ {"none"} /\ Faults \subseteq Fault
    /\ NoClaim \notin Claim

VARIABLES
    row,        \* the RewardLog row of each reward
    evaluation, \* how far registerAndEvaluate has come
    reserved,   \* DailyRewardLimit.reservedAmount
    sent,       \* DailyRewardLimit.sentAmount
    work,       \* what each worker is doing
    landed,     \* transfers made on the chain for each reward
    manual      \* retries by hand so far

vars == <<row, evaluation, reserved, sent, work, landed, manual>>

Row  == [status: Status, eligible: BOOLEAN, retryable: BOOLEAN, retries: Nat,
         signed: BOOLEAN]
Work == [phase: {"idle", "reconciling", "paying"}, todo: SUBSET Claim,
         step: {"next", "verify", "submit", "sent", "failed", "review", "retry", "giveUp"},
         cur: Claim \cup {NoClaim}]

Idle == [phase |-> "idle", todo |-> {}, step |-> "next", cur |-> NoClaim]

Init ==
    /\ row = [r \in Rewards |-> [status |-> "none", eligible |-> FALSE,
                retryable |-> FALSE, retries |-> 0, signed |-> FALSE]]
    /\ evaluation = [r \in Rewards |-> "none"]
    /\ reserved = [k \in Keys |-> 0] /\ sent = [k \in Keys |-> 0]
    /\ work = [w \in Workers |-> Idle]
    /\ landed = [r \in Rewards |-> 0] /\ manual = 0

-----------------------------------------------------------------------------
(* The ledger. *)

Fits(r) == reserved[KeyOf[r]] + Prize[r] <= DailyLimit

Reserve(r) == reserved' = [reserved EXCEPT ![KeyOf[r]] = @ + Prize[r]]

\* shouldReleaseDailyReservation.
HoldsReservation(r) ==
    /\ row[r].eligible /\ ~row[r].signed
    /\ \/ row[r].status \in {"PENDING", "PROCESSING"}
       \/ row[r].status = "FAILED" /\ row[r].retryable

\* shouldReserveDailyReservationOnRetry.
LostReservation(r) ==
    /\ row[r].eligible /\ ~row[r].signed
    /\ \/ row[r].status = "MANUAL_REVIEW"
       \/ row[r].status = "FAILED" /\ ~row[r].retryable

\* releaseDailyAmountWithClient, with its GREATEST(.., 0).
Released(r) ==
    [reserved EXCEPT ![KeyOf[r]] = IF @ >= Prize[r] THEN @ - Prize[r] ELSE 0]

\* Mutants: also what is submitted is released; released whatever was held.
ReleaseMutantSigned(r) ==
    reserved' = IF row[r].eligible THEN Released(r) ELSE reserved
ReleaseMutantAlways(r) == reserved' = [reserved EXCEPT ![KeyOf[r]] = @ - Prize[r]]

\* releaseReservedAmountForTerminalReward.
Release(r) ==
    reserved' = IF HoldsReservation(r) THEN Released(r) ELSE reserved

\* recordSentAmountWithClient.
WithSent(r) == [sent EXCEPT ![KeyOf[r]] = @ + Prize[r]]

\* Mutant: a reward that was retried by hand is not counted.
RecordSentMutant(r) ==
    sent' = IF row[r].status = "SUBMITTED" /\ row[r].eligible THEN WithSent(r) ELSE sent

\* recordSentAmountForReward.
RecordSent(r) ==
    sent' = IF row[r].status # "SENT" /\ row[r].eligible THEN WithSent(r) ELSE sent

-----------------------------------------------------------------------------
(* registerAndEvaluate. *)

\* upsertRewardLog; no row of this match and placement exists yet.
Upserted(r, status) == [row EXCEPT ![r].status = status]

\* claimRewardEvaluation: one evaluation takes the row.
ClaimEvaluation(r) ==
    evaluation[r] = "none" /\ evaluation' = [evaluation EXCEPT ![r] = "checking"]

\* completeRewardEvaluation; failures is retryCountIncrement.
Completed(r, status, eligible, retryable, failures) ==
    [row EXCEPT ![r].status = status, ![r].eligible = eligible,
                ![r].retryable = retryable, ![r].retries = @ + failures]

\* upsertRewardLog and claimRewardEvaluation; between them nothing can happen
\* to a row that is not eligible.
Register(r) ==
    /\ ClaimEvaluation(r)
    /\ row' = Upserted(r, "PENDING")
    /\ UNCHANGED <<reserved, sent, work, landed, manual>>

\* registerDisabledMatchRewards.
RegisterDisabled(r) ==
    /\ evaluation[r] = "none"
    /\ evaluation' = [evaluation EXCEPT ![r] = "done"]
    /\ row' = Upserted(r, "REWARDS_DISABLED")
    /\ UNCHANGED <<reserved, sent, work, landed, manual>>

\* tryReserveDailyAmount, once the wallet and its balance were found good.
TryReserve(r) ==
    /\ evaluation[r] = "checking"
    /\ IF Fits(r)
       THEN Reserve(r) /\ evaluation' = [evaluation EXCEPT ![r] = "reserved"]
       ELSE evaluation' = [evaluation EXCEPT ![r] = "over"] /\ UNCHANGED reserved
    /\ UNCHANGED <<row, sent, work, landed, manual>>

\* completeRewardEvaluation of a reward that will not be paid.
Decline(r) ==
    /\ \/ /\ evaluation[r] = "checking"
          /\ \E s \in {"NOT_ELIGIBLE", "REWARDS_DISABLED"} : row' = Completed(r, s, FALSE, FALSE, 0)
       \/ evaluation[r] = "over" /\ row' = Completed(r, "DAILY_LIMIT_REACHED", FALSE, FALSE, 0)
    /\ evaluation' = [evaluation EXCEPT ![r] = "done"]
    /\ UNCHANGED <<reserved, sent, work, landed, manual>>

\* completeRewardEvaluation of a reward to be paid.
Approve(r) ==
    /\ evaluation[r] = "reserved"
    /\ evaluation' = [evaluation EXCEPT ![r] = "done"]
    /\ row' = Completed(r, "PENDING", TRUE, FALSE, 0)
    /\ UNCHANGED <<reserved, sent, work, landed, manual>>

\* The catch block: the gateway failed, or a write did after the balance was
\* known; a reservation that was made stays.
EvaluationFails(r) ==
    /\ \/ evaluation[r] = "checking"
       \/ evaluation[r] \in {"over", "reserved"} /\ "write" \in Faults
    /\ evaluation' = [evaluation EXCEPT ![r] = IF @ = "reserved" THEN "leaked" ELSE "done"]
    /\ \E retryable \in IF evaluation[r] = "checking" THEN BOOLEAN ELSE {TRUE} :
         row' = Completed(r, IF retryable THEN "FAILED" ELSE "MANUAL_REVIEW", FALSE, retryable, 1)
    /\ UNCHANGED <<reserved, sent, work, landed, manual>>

-----------------------------------------------------------------------------
(* processBatch. *)

\* Mutant: transactionSignature is not returned.
ClaimOfMutant(r) == [reward |-> r, signed |-> FALSE, retries |-> row[r].retries]

ClaimOf(r) == [reward |-> r, signed |-> row[r].signed, retries |-> row[r].retries]

\* Mutant: the last retry is not taken up.
RetryableMutant == {r \in Rewards : /\ row[r].status = "FAILED" /\ row[r].eligible
                                    /\ row[r].retryable /\ row[r].retries + 1 < MaxRetries}

Submitted == {r \in Rewards : row[r].status = "SUBMITTED" /\ row[r].signed}
\* Mutant: what another worker is processing is claimed as well.
PendingMutant == {r \in Rewards : row[r].status \in {"PENDING", "PROCESSING"} /\ row[r].eligible}

Pending   == {r \in Rewards : row[r].status = "PENDING" /\ row[r].eligible}
Retryable == {r \in Rewards : /\ row[r].status = "FAILED" /\ row[r].eligible
                              /\ row[r].retryable /\ row[r].retries < MaxRetries}

\* findSubmittedRewards, which locks nothing.
FindSubmitted(w) ==
    /\ work[w].phase = "idle"
    /\ work' = [work EXCEPT ![w] = [Idle EXCEPT !.phase = "reconciling",
                                                !.todo = {ClaimOf(r) : r \in Submitted}]]
    /\ UNCHANGED <<row, evaluation, reserved, sent, landed, manual>>

\* claimPendingRewards; S are the retryable rewards that are due.
ClaimPending(w, S) ==
    /\ work[w].phase = "reconciling" /\ work[w].step = "next" /\ work[w].todo = {}
    /\ LET claimed == Pending \cup S
       IN  /\ row' = [r \in Rewards |-> IF r \in claimed
                        THEN [row[r] EXCEPT !.status = "PROCESSING"] ELSE row[r]]
           /\ work' = [work EXCEPT ![w] =
                IF claimed = {} THEN Idle
                ELSE [Idle EXCEPT !.phase = "paying", !.todo = {ClaimOf(r) : r \in claimed}]]
    /\ UNCHANGED <<evaluation, reserved, sent, landed, manual>>

\* Mutant: one retry too many.
FailureMutant(c, retryable) ==
    IF retryable /\ c.retries + 1 <= MaxRetries THEN "retry" ELSE "giveUp"

\* handleFailure decides from the claim, not from the row.
Failure(c, retryable) == IF retryable /\ c.retries + 1 < MaxRetries THEN "retry" ELSE "giveUp"

Attending(w, c, step) ==
    work' = [work EXCEPT ![w].todo = @ \ {c}, ![w].cur = c, ![w].step = step]

\* sendSplTokenTransfer.
Send(w, c) ==
    /\ work[w].step = "next" /\ c \in work[w].todo /\ ~c.signed
    /\ \/ /\ Attending(w, c, "submit")
          /\ landed' = [landed EXCEPT ![c.reward] = @ + 1]
       \/ /\ \E retryable \in BOOLEAN : Attending(w, c, Failure(c, retryable))
          /\ UNCHANGED landed
       \/ /\ "transfer" \in Faults
          /\ Attending(w, c, Failure(c, TRUE))
          /\ landed' = [landed EXCEPT ![c.reward] = @ + 1]
    /\ UNCHANGED <<row, evaluation, reserved, sent, manual>>

\* verifySplTokenTransfer: confirmed, failed, not found or ambiguous.
Verify(w, c) ==
    /\ \/ work[w].step = "next" /\ c \in work[w].todo /\ c.signed
       \/ work[w].step = "verify" /\ c = work[w].cur
    /\ \E answer \in {"sent", "failed", "review"} : Attending(w, c, answer)
    /\ UNCHANGED <<row, evaluation, reserved, sent, landed, manual>>

MarkSubmitted(r) ==
    /\ row' = [row EXCEPT ![r].status = "SUBMITTED", ![r].signed = TRUE,
                          ![r].retryable = FALSE]
    /\ UNCHANGED <<reserved, sent>>

MarkSent(r) ==
    /\ row' = [row EXCEPT ![r].status = "SENT", ![r].retryable = FALSE]
    /\ RecordSent(r) /\ UNCHANGED reserved

MarkFailed(r, retryable) ==
    /\ row' = [row EXCEPT ![r].status = "FAILED", ![r].retryable = retryable,
                          ![r].retries = IF retryable THEN @ + 1 ELSE @]
    /\ IF retryable THEN UNCHANGED reserved ELSE Release(r)
    /\ UNCHANGED sent

MarkManualReview(r) ==
    /\ row' = [row EXCEPT ![r].status = "MANUAL_REVIEW", ![r].retryable = FALSE]
    /\ Release(r) /\ UNCHANGED sent

Effect(step, r) ==
    \/ step = "submit" /\ MarkSubmitted(r)
    \/ step = "sent"   /\ MarkSent(r)
    \/ step = "failed" /\ MarkFailed(r, FALSE)
    \/ step = "retry"  /\ MarkFailed(r, TRUE)
    \/ step \in {"review", "giveUp"} /\ MarkManualReview(r)

\* The worker after a write: it verifies what it submitted, or goes on.
Continued(wk) ==
    IF wk.step = "submit" THEN [wk EXCEPT !.step = "verify"]
    ELSE IF wk.phase = "paying" /\ wk.todo = {} THEN Idle
    ELSE [wk EXCEPT !.step = "next", !.cur = NoClaim]

\* The worker after a write that reported an error.  The catch block covers a
\* reward it sent itself; any other error ends the batch, whose other rewards
\* stay in PROCESSING.
Broken(wk) ==
    IF wk.step \in {"submit", "sent", "failed", "review"} /\ ~wk.cur.signed
    THEN [wk EXCEPT !.step = Failure(wk.cur, TRUE)] ELSE Idle

Writing(w) == work[w].step \in {"submit", "sent", "failed", "review", "retry", "giveUp"}

Write(w) ==
    /\ Writing(w) /\ Effect(work[w].step, work[w].cur.reward)
    /\ work' = [work EXCEPT ![w] = Continued(@)]
    /\ UNCHANGED <<evaluation, landed, manual>>

WriteUnacknowledged(w) ==
    /\ "ack" \in Faults
    /\ Writing(w) /\ Effect(work[w].step, work[w].cur.reward)
    /\ work' = [work EXCEPT ![w] = Broken(@)]
    /\ UNCHANGED <<evaluation, landed, manual>>

WriteFails(w) ==
    /\ Writing(w) /\ (IF work[w].step = "submit" THEN "submit" ELSE "write") \in Faults
    /\ work' = [work EXCEPT ![w] = Broken(@)]
    /\ UNCHANGED <<row, evaluation, reserved, sent, landed, manual>>

Crash(w) ==
    /\ "crash" \in Faults /\ work[w].phase # "idle"
    /\ work' = [work EXCEPT ![w] = Idle]
    /\ UNCHANGED <<row, evaluation, reserved, sent, landed, manual>>

\* retryManually, an operator's action.
RetryManually(r) ==
    /\ row[r].status \in Operated
    /\ manual < MaxManual /\ manual' = manual + 1
    /\ IF LostReservation(r) /\ ~Fits(r)
       THEN /\ row' = [row EXCEPT ![r].status = "DAILY_LIMIT_REACHED", ![r].retryable = FALSE]
            /\ UNCHANGED reserved
       ELSE /\ row' = [row EXCEPT ![r].status = "PENDING", ![r].retryable = FALSE]
            /\ IF LostReservation(r) THEN Reserve(r) ELSE UNCHANGED reserved
    /\ UNCHANGED <<evaluation, sent, work, landed>>

-----------------------------------------------------------------------------

Evaluate(r) ==
    \/ Register(r) \/ RegisterDisabled(r) \/ TryReserve(r) \/ Decline(r)
    \/ Approve(r) \/ EvaluationFails(r)

Process(w) ==
    \/ FindSubmitted(w)
    \/ \E S \in SUBSET Retryable : ClaimPending(w, S)
    \/ \E c \in work[w].todo : Send(w, c)
    \/ \E c \in work[w].todo \cup {work[w].cur} : Verify(w, c)
    \/ Write(w)

Next ==
    \/ \E r \in Rewards : Evaluate(r) \/ RetryManually(r)
    \/ \E w \in Workers :
         Process(w) \/ WriteUnacknowledged(w) \/ WriteFails(w) \/ Crash(w)

Spec == Init /\ [][Next]_vars

-----------------------------------------------------------------------------

TypeOK ==
    /\ row \in [Rewards -> Row]
    /\ evaluation \in [Rewards -> {"none", "checking", "over", "reserved", "leaked", "done"}]
    /\ reserved \in [Keys -> Nat] /\ sent \in [Keys -> Nat]
    /\ work \in [Workers -> Work]
    /\ \A w \in Workers : work[w].step = "next" <=> work[w].cur = NoClaim
    /\ landed \in [Rewards -> Nat] /\ manual \in Nat

-----------------------------------------------------------------------------
(* Safety. *)

\* The rewards whose prize is part of the reserved amount of their day, those
\* whose evaluation failed after it had reserved included.
Granted == {r \in Rewards :
    \/ evaluation[r] \in {"reserved", "leaked"}
    \/ row[r].eligible /\ (row[r].signed \/ HoldsReservation(r))}

P == INSTANCE Payout WITH granted <- Granted, paid <- landed

\* The whole of evaluation, processing, reconciliation and manual retries keeps
\* the promise of Payout, through crashes and writes whose answer is lost.
Pays == P!Spec

\* The reserved amount of a day is what its unfinished and paid rewards sum up
\* to, whichever of nine transitions reserved or released it.
LedgerBalances == \A k \in Keys : reserved[k] = P!Budget(Granted, k)

\* No reward is transferred twice, whichever workers claim, fail, crash and
\* reconcile it.
PaidAtMostOnce == \A r \in Rewards : landed[r] <= 1

\* A worker about to send a reward holds it alone, and its copy of the row is
\* not stale: nothing was sent since, and nobody has given the reward up.
ClaimsAreExclusive ==
    \A w \in Workers : \A c \in work[w].todo : ~c.signed =>
        /\ row[c.reward].status = "PROCESSING" /\ ~row[c.reward].signed
        /\ landed[c.reward] = 0
        /\ \A v \in Workers \ {w} : \A d \in (work[v].todo \cup {work[v].cur}) \ {NoClaim} :
              d.reward # c.reward

\* A reward left to the automatic retry can be claimed again: it is not one
\* that has no retries left, which nothing would ever take up.
RetriesRemain ==
    \A r \in Rewards :
        row[r].eligible /\ row[r].status = "FAILED" /\ row[r].retryable =>
            row[r].retries < MaxRetries

\* With a single worker the amount sent on a day is the sum of the rewards
\* recorded as sent, however they got there.
SentAddsUp == \A k \in Keys :
    sent[k] = P!Budget({r \in Rewards : row[r].status = "SENT"}, k)

-----------------------------------------------------------------------------
(* Liveness, with one worker and nothing going wrong but the gateway: the     *)
(* scheduler runs batches as long as there is work, and the time of every     *)
(* retry comes.                                                               *)

Fairness ==
    /\ \A w \in Workers : WF_vars(Process(w))
    /\ \A w \in Workers, r \in Rewards :
         SF_vars(r \in Retryable /\ \E S \in SUBSET Retryable : r \in S /\ ClaimPending(w, S))

FairSpec == Spec /\ Fairness

\* A reward that is to be paid is recorded as sent, or ends where only an
\* operator takes it further.
RewardSettles ==
    \A r \in Rewards : row[r].eligible /\ row[r].status = "PENDING" ~>
        \/ row[r].status \in {"SENT", "MANUAL_REVIEW"}
        \/ row[r].status = "FAILED" /\ ~row[r].retryable

-----------------------------------------------------------------------------
(* What the comments say of retries by hand. *)

\* rewards.repository.ts:209, "reserves `amount` against the user's daily budget
\* only if the resulting total stays within `dailyLimit`": the transfers of a
\* day do not exceed it.
DailyLimitHolds == \A k \in Keys :
    P!Budget({r \in Rewards : landed[r] > 0}, k) <= DailyLimit
=============================================================================
