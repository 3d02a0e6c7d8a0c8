---------------------------- MODULE RewardsProofs ----------------------------
(***************************************************************************)
(* What is proved of the payment of rewards, for every number of rewards,  *)
(* workers and budgets, whatever crashes, and whatever writes fail or lose *)
(* their answer: types, then PaidAtMostOnce, ClaimsAreExclusive,           *)
(* RetriesRemain, LedgerBalances and the promise of Payout, and last       *)
(* SentAddsUp.                                                             *)
(*                                                                         *)
(* What breaks them is excluded by name: a transfer that is made and       *)
(* reported as an error, and a markSubmitted that fails (Honest); an       *)
(* operator's retry of what is being processed (Honest) or was refused for *)
(* the limit (Careful).  SentAddsUp is about one worker (Alone).           *)
(***************************************************************************)
EXTENDS Rewards, TLAPS, FiniteSetTheorems

USE RewardsAssumption

-----------------------------------------------------------------------------
(* Types. *)

\* What completeRewardEvaluation writes is a row.
LEMMA CompletedTypes ==
    ASSUME TypeOK, NEW r \in Rewards, NEW s \in Status, NEW eligible \in BOOLEAN,
           NEW retryable \in BOOLEAN, NEW n \in Nat
    PROVE  Completed(r, s, eligible, retryable, n) \in [Rewards -> Row]
<1>1. row[r] \in Row /\ row[r].retries + n \in Nat
  BY DEF TypeOK, Row
<1> QED BY <1>1 DEF TypeOK, Completed, Row

\* What the writes of a worker do to the types.
LEMMA EffectTypes ==
    ASSUME TypeOK, NEW step, NEW r \in Rewards, Effect(step, r)
    PROVE  /\ row' \in [Rewards -> Row] /\ reserved' \in [Keys -> Nat] /\ sent' \in [Keys -> Nat]
<1>1. KeyOf[r] \in Keys /\ Prize[r] \in Nat /\ row[r] \in Row
  BY DEF TypeOK
<1>2. (Release(r) => reserved' \in [Keys -> Nat]) /\ (RecordSent(r) => sent' \in [Keys -> Nat])
  <2>1. Release(r) => reserved' \in [Keys -> Nat]
    BY <1>1 DEF TypeOK, Release, Released
  <2>2. RecordSent(r) => sent' \in [Keys -> Nat]
    BY <1>1 DEF TypeOK, RecordSent, WithSent
  <2> QED BY <2>1, <2>2
<1>3. CASE step = "submit"
  BY <1>1, <1>3 DEF TypeOK, Effect, MarkSubmitted, Row, Status
<1>4. CASE step = "sent"
  BY <1>1, <1>2, <1>4 DEF TypeOK, Effect, MarkSent, Row, Status
<1>5. CASE step = "failed"
  BY <1>1, <1>2, <1>5 DEF TypeOK, Effect, MarkFailed, Row, Status
<1>6. CASE step = "retry"
  BY <1>1, <1>2, <1>6 DEF TypeOK, Effect, MarkFailed, Row, Status
<1>7. CASE step \in {"review", "giveUp"}
  <2>1. MarkManualReview(r)
    BY <1>7 DEF Effect
  <2>2. row' = [row EXCEPT ![r] = [row[r] EXCEPT !.status = "MANUAL_REVIEW", !.retryable = FALSE]]
    BY <1>1, <2>1 DEF TypeOK, Row, MarkManualReview
  <2>3. [row[r] EXCEPT !.status = "MANUAL_REVIEW", !.retryable = FALSE] \in Row
    BY <1>1 DEF Row, Status
  <2>4. row' \in [Rewards -> Row]
    BY <2>2, <2>3 DEF TypeOK
  <2> QED BY <1>2, <2>1, <2>4 DEF TypeOK, MarkManualReview
<1> QED BY <1>3, <1>4, <1>5, <1>6, <1>7 DEF Effect

LEMMA TypesAtInit == Init => TypeOK
BY DEF Init, TypeOK, Row, Work, Idle, Status

LEMMA TypesByEvaluation ==
    ASSUME TypeOK, NEW r \in Rewards, Evaluate(r) \/ RetryManually(r)
    PROVE  TypeOK'
<1>1. KeyOf[r] \in Keys /\ Prize[r] \in Nat /\ row[r] \in Row /\ reserved[KeyOf[r]] \in Nat
  BY DEF TypeOK
<1>2. Reserve(r) => reserved' \in [Keys -> Nat]
  BY <1>1 DEF TypeOK, Reserve
<1>3. CASE Register(r)
  BY <1>1, <1>3 DEF TypeOK, Register, Upserted, ClaimEvaluation, Row, Status
<1>4. CASE RegisterDisabled(r)
  BY <1>1, <1>4 DEF TypeOK, RegisterDisabled, Upserted, Row, Status
<1>5. CASE TryReserve(r)
  BY <1>1, <1>2, <1>5 DEF TypeOK, TryReserve
<1>6. CASE Decline(r)
  <2>1. PICK s \in {"NOT_ELIGIBLE", "REWARDS_DISABLED", "DAILY_LIMIT_REACHED"} :
           row' = Completed(r, s, FALSE, FALSE, 0)
    BY <1>6 DEF Decline
  <2>2. row' \in [Rewards -> Row]
    BY <2>1, CompletedTypes DEF Status
  <2> QED BY <1>6, <2>2 DEF TypeOK, Decline
<1>7. CASE Approve(r)
  <2>1. row' \in [Rewards -> Row]
    BY <1>7, CompletedTypes DEF Approve, Status
  <2> QED BY <1>7, <2>1 DEF TypeOK, Approve
<1>8. CASE EvaluationFails(r)
  BY <1>1, <1>8 DEF TypeOK, EvaluationFails, Completed, Row, Status
<1>9. CASE RetryManually(r)
  <2>1. manual' \in Nat
    BY <1>9 DEF TypeOK, RetryManually
  <2>2. row' \in [Rewards -> Row]
    <3>1. PICK s \in {"DAILY_LIMIT_REACHED", "PENDING"} :
             row' = [row EXCEPT ![r].status = s, ![r].retryable = FALSE]
      BY <1>9 DEF RetryManually
    <3> QED BY <1>1, <3>1 DEF TypeOK, Row, Status
  <2>3. reserved' \in [Keys -> Nat]
    BY <1>2, <1>9 DEF TypeOK, RetryManually
  <2> QED BY <1>9, <2>1, <2>2, <2>3 DEF TypeOK, RetryManually
<1> QED BY <1>3, <1>4, <1>5, <1>6, <1>7, <1>8, <1>9 DEF Evaluate

\* A change of one worker's record to another of the type.
LEMMA WorkTypes ==
    ASSUME TypeOK, NEW w \in Workers, NEW wk \in Work,
           work' = [work EXCEPT ![w] = wk], wk.step = "next" <=> wk.cur = NoClaim
    PROVE  /\ work' \in [Workers -> Work]
           /\ \A v \in Workers : work'[v].step = "next" <=> work'[v].cur = NoClaim
BY DEF TypeOK

\* The records a worker takes on.
LEMMA WorkShapes ==
    ASSUME NEW wk \in Work, wk.step = "next" <=> wk.cur = NoClaim
    PROVE  /\ Idle \in Work
           /\ \A p \in {"reconciling", "paying"}, T \in SUBSET Claim :
                [Idle EXCEPT !.phase = p, !.todo = T] \in Work
           /\ \A c \in Claim, s \in {"submit", "sent", "failed", "review", "retry", "giveUp"} :
                /\ [wk EXCEPT !.todo = @ \ {c}, !.cur = c, !.step = s] \in Work
                /\ [wk EXCEPT !.todo = @ \ {c}, !.cur = c, !.step = s].cur = c
                /\ [wk EXCEPT !.todo = @ \ {c}, !.cur = c, !.step = s].step = s
           /\ wk.step \in {"submit", "sent", "failed", "review", "retry", "giveUp"} =>
                /\ Continued(wk) \in Work /\ Broken(wk) \in Work
                /\ Continued(wk).step = "next" <=> Continued(wk).cur = NoClaim
                /\ Broken(wk).step = "next" <=> Broken(wk).cur = NoClaim
<1>1. Idle \in Work
  BY DEF Work, Idle
<1>2. \A c \in Claim : Failure(c, TRUE) \in {"retry", "giveUp"}
  BY DEF Failure
<1>3. wk.step \in {"submit", "sent", "failed", "review", "retry", "giveUp"} =>
        Continued(wk) \in Work /\ (Continued(wk).step = "next" <=> Continued(wk).cur = NoClaim)
  BY DEF Work, Idle, Continued
<1>4. wk.step \in {"submit", "sent", "failed", "review", "retry", "giveUp"} =>
        Broken(wk) \in Work /\ (Broken(wk).step = "next" <=> Broken(wk).cur = NoClaim)
  BY <1>2 DEF Work, Idle, Broken
<1>5. \A p \in {"reconciling", "paying"}, T \in SUBSET Claim :
        [Idle EXCEPT !.phase = p, !.todo = T] \in Work
  BY DEF Work, Idle
<1>6. \A c \in Claim, s \in {"submit", "sent", "failed", "review", "retry", "giveUp"} :
        /\ [wk EXCEPT !.todo = @ \ {c}, !.cur = c, !.step = s] \in Work
        /\ [wk EXCEPT !.todo = @ \ {c}, !.cur = c, !.step = s].cur = c
        /\ [wk EXCEPT !.todo = @ \ {c}, !.cur = c, !.step = s].step = s
  BY DEF Work
<1> QED BY <1>1, <1>3, <1>4, <1>5, <1>6

LEMMA AttendingTypes ==
    ASSUME TypeOK, NEW w \in Workers, NEW c \in Claim,
           NEW s \in {"submit", "sent", "failed", "review", "retry", "giveUp"}, Attending(w, c, s)
    PROVE  /\ work' \in [Workers -> Work]
           /\ \A v \in Workers : work'[v].step = "next" <=> work'[v].cur = NoClaim
<1> DEFINE wk == [work[w] EXCEPT !.todo = @ \ {c}, !.cur = c, !.step = s]
<1>1. work[w] \in Work /\ (work[w].step = "next" <=> work[w].cur = NoClaim)
  BY DEF TypeOK
<1>2. wk \in Work /\ wk.cur = c /\ wk.step = s
  BY <1>1 DEF Work
<1>3. work' = [work EXCEPT ![w] = wk]
  BY <1>1 DEF Attending, Work, TypeOK
<1>4. wk.step = "next" <=> wk.cur = NoClaim
  BY <1>2
<1> QED BY ONLY TypeOK, w \in Workers, <1>2, <1>3, <1>4, WorkTypes

LEMMA TypesByWork ==
    ASSUME TypeOK, NEW w \in Workers, Process(w) \/ WriteUnacknowledged(w) \/ WriteFails(w) \/ Crash(w)
    PROVE  TypeOK'
<1>1. /\ work[w] \in Work /\ Idle \in Work /\ Idle.step = "next" /\ Idle.cur = NoClaim
      /\ work[w].step = "next" <=> work[w].cur = NoClaim
  BY DEF TypeOK, Work, Idle
<1>2. \A r \in Rewards : row[r] \in Row /\ ClaimOf(r) \in Claim
  BY DEF TypeOK, Row, ClaimOf, Claim
<1>3. CASE FindSubmitted(w)
  <2> DEFINE wk == [Idle EXCEPT !.phase = "reconciling", !.todo = {ClaimOf(r) : r \in Submitted}]
  <2>1. {ClaimOf(r) : r \in Submitted} \in SUBSET Claim
    BY <1>2 DEF Submitted
  <2>2. wk \in Work /\ wk.step = "next" /\ wk.cur = NoClaim
    BY <1>1, <2>1, WorkShapes DEF Idle
  <2>3. work' = [work EXCEPT ![w] = wk]
    BY <1>3 DEF FindSubmitted
  <2>4. /\ work' \in [Workers -> Work]
        /\ \A v \in Workers : work'[v].step = "next" <=> work'[v].cur = NoClaim
    BY <2>2, <2>3, WorkTypes
  <2> QED BY <1>3, <2>4 DEF TypeOK, FindSubmitted
<1>4. ASSUME NEW S \in SUBSET Retryable, ClaimPending(w, S)
      PROVE  TypeOK'
  <2> DEFINE wk == IF Pending \cup S = {} THEN Idle
                   ELSE [Idle EXCEPT !.phase = "paying", !.todo = {ClaimOf(r) : r \in Pending \cup S}]
  <2>1. row' \in [Rewards -> Row]
    BY <1>2, <1>4 DEF ClaimPending, Row, Status
  <2>2. {ClaimOf(r) : r \in Pending \cup S} \in SUBSET Claim
    BY <1>2 DEF Pending, Retryable
  <2>3. wk \in Work /\ wk.step = "next" /\ wk.cur = NoClaim
    BY <1>1, <2>2, WorkShapes DEF Idle
  <2>4. work' = [work EXCEPT ![w] = wk]
    BY <1>4 DEF ClaimPending
  <2>5. /\ work' \in [Workers -> Work]
        /\ \A v \in Workers : work'[v].step = "next" <=> work'[v].cur = NoClaim
    BY <2>3, <2>4, WorkTypes
  <2> QED BY <1>4, <2>1, <2>5 DEF TypeOK, ClaimPending
<1>5. ASSUME NEW c \in work[w].todo, Send(w, c)
      PROVE  TypeOK'
  <2>1. c \in Claim /\ c.reward \in Rewards
    BY <1>1 DEF Work, Claim
  <2>2. \A retryable \in BOOLEAN : Failure(c, retryable) \in {"retry", "giveUp"}
    BY DEF Failure
  <2>3. /\ work' \in [Workers -> Work]
        /\ \A v \in Workers : work'[v].step = "next" <=> work'[v].cur = NoClaim
    BY <1>5, <2>1, <2>2, AttendingTypes, ZenonT(40) DEF Send
  <2>4. landed' \in [Rewards -> Nat]
    <3>1. landed[c.reward] + 1 \in Nat
      BY <2>1 DEF TypeOK
    <3>2. landed' = landed \/ landed' = [landed EXCEPT ![c.reward] = @ + 1]
      BY <1>5 DEF Send
    <3> QED BY <3>1, <3>2 DEF TypeOK
  <2> QED BY <1>5, <2>3, <2>4 DEF TypeOK, Send
<1>6. ASSUME NEW c \in work[w].todo \cup {work[w].cur}, Verify(w, c)
      PROVE  TypeOK'
  <2>1. c \in Claim
    BY <1>1, <1>6 DEF Work, Verify
  <2>2. /\ work' \in [Workers -> Work]
        /\ \A v \in Workers : work'[v].step = "next" <=> work'[v].cur = NoClaim
    BY <1>6, <2>1, AttendingTypes DEF Verify
  <2> QED BY <1>6, <2>2 DEF TypeOK, Verify
<1>7. ASSUME Writing(w) PROVE Continued(work[w]) \in Work /\ Broken(work[w]) \in Work
        /\ (Continued(work[w]).step = "next" <=> Continued(work[w]).cur = NoClaim)
        /\ (Broken(work[w]).step = "next" <=> Broken(work[w]).cur = NoClaim)
        /\ work[w].cur.reward \in Rewards
  <2>1. work[w].step \in {"submit", "sent", "failed", "review", "retry", "giveUp"}
    BY <1>7 DEF Writing
  <2>2. work[w].cur \in Claim
    BY <1>1, <2>1 DEF Work
  <2>3. work[w].cur.reward \in Rewards
    BY <2>2 DEF Claim
  <2> HIDE DEF Continued, Broken
  <2> QED BY <1>1, <2>1, <2>3, WorkShapes
<1>8. ASSUME Writing(w), work' = [work EXCEPT ![w] = Continued(@)] \/ work' = [work EXCEPT ![w] = Broken(@)]
      PROVE  /\ work' \in [Workers -> Work]
             /\ \A v \in Workers : work'[v].step = "next" <=> work'[v].cur = NoClaim
  BY <1>7, <1>8, WorkTypes
<1>9. CASE Write(w) \/ WriteUnacknowledged(w)
  <2>1. /\ work' \in [Workers -> Work]
        /\ \A v \in Workers : work'[v].step = "next" <=> work'[v].cur = NoClaim
    BY <1>8, <1>9 DEF Write, WriteUnacknowledged
  <2>2. /\ row' \in [Rewards -> Row] /\ reserved' \in [Keys -> Nat] /\ sent' \in [Keys -> Nat]
    BY <1>7, <1>9, EffectTypes DEF Write, WriteUnacknowledged
  <2>3. manual' = manual
    BY <1>9 DEF Write, WriteUnacknowledged
  <2> QED BY <1>9, <2>1, <2>2, <2>3 DEF TypeOK, Write, WriteUnacknowledged
<1>10. CASE WriteFails(w)
  BY <1>8, <1>10 DEF TypeOK, WriteFails
<1>11. CASE Crash(w)
  BY <1>1, <1>11 DEF TypeOK, Crash
<1> QED BY <1>3, <1>4, <1>5, <1>6, <1>9, <1>10, <1>11 DEF Process

\* Every record, counter and claim has its type, for any workers and faults.
THEOREM TypesHold == Spec => []TypeOK
<1>1. TypeOK /\ [Next]_vars => TypeOK'
  <2> SUFFICES ASSUME TypeOK, [Next]_vars PROVE TypeOK'
    OBVIOUS
  <2>1. CASE UNCHANGED vars
    BY <2>1 DEF vars, TypeOK
  <2>2. CASE Next
    BY <2>2, TypesByEvaluation, TypesByWork DEF Next
  <2> QED BY <2>1, <2>2
<1> QED BY TypesAtInit, <1>1, PTL DEF Spec

HIDE RewardsAssumption
-----------------------------------------------------------------------------
(* What is paid. *)

Honest == Faults \cap {"submit", "transfer"} = {} /\ "PROCESSING" \notin Operated

-----------------------------------------------------------------------------
(* The inductive invariant. *)

Held(wk) == wk.todo \cup ({wk.cur} \ {NoClaim})

\* What was transferred is signed, or stays in PROCESSING; what is not yet
\* evaluated is not to be paid.
RowSound(r) ==
    /\ landed[r] \in {0, 1}
    /\ landed[r] = 1 => row[r].signed \/ row[r].status = "PROCESSING"
    /\ landed[r] = 1 \/ row[r].signed => row[r].eligible
    /\ row[r].eligible => evaluation[r] = "done"

\* Claims are of rewards to be paid, a claim with a signature of a row with one.
ClaimsSound(wk) == \A c \in Held(wk) :
    row[c.reward].eligible /\ (c.signed => row[c.reward].signed)

\* A reward that is yet to be sent was not sent.
TodoSound(wk) == \A c \in wk.todo : ~c.signed =>
    row[c.reward].status = "PROCESSING" /\ ~row[c.reward].signed /\ landed[c.reward] = 0

\* Until its signature is written, the reward in hand is untouched by others;
\* it was sent only if the signature is about to be written.
CurSound(wk) ==
    wk.cur # NoClaim /\ ~wk.cur.signed /\ ~row[wk.cur.reward].signed =>
        /\ row[wk.cur.reward].status = "PROCESSING"
        /\ wk.step \in {"submit", "retry", "giveUp"}
        /\ wk.step # "submit" => landed[wk.cur.reward] = 0

\* A batch has a reward once.
BatchSound(wk) ==
    /\ \A c, d \in wk.todo : c.reward = d.reward => c = d
    /\ wk.cur # NoClaim => \A c \in wk.todo : c.reward # wk.cur.reward

WorkerSound(wk) == ClaimsSound(wk) /\ TodoSound(wk) /\ CurSound(wk) /\ BatchSound(wk)

\* Two workers have no reward both without a signature.
Apart(wk, wl) == \A c \in Held(wk), d \in Held(wl) :
    ~c.signed /\ ~d.signed => c.reward # d.reward

PaidInv ==
    /\ \A r \in Rewards : RowSound(r)
    /\ \A w \in Workers : WorkerSound(work[w])
    /\ \A w, v \in Workers : w # v => Apart(work[w], work[v])

-----------------------------------------------------------------------------
(* What the steps have in common. *)

LEMMA HeldClaims ==
    ASSUME NEW wk \in Work
    PROVE  /\ \A c \in Held(wk) : c \in Claim /\ c.reward \in Rewards /\ c.signed \in BOOLEAN
           /\ wk.todo \subseteq Held(wk) /\ (wk.cur # NoClaim => wk.cur \in Held(wk))
<1>1. wk.todo \subseteq Claim /\ wk.cur \in Claim \cup {NoClaim}
  BY DEF Work
<1>2. \A c \in Claim : c.reward \in Rewards /\ c.signed \in BOOLEAN
  BY DEF Claim
<1>3. NoClaim \notin Claim
  BY RewardsAssumption
<1> QED BY <1>1, <1>2, <1>3 DEF Held

\* A worker is not disturbed by a step that leaves alone the rows whose
\* signature it has yet to see, and takes no eligibility or signature away.
LEMMA Undisturbed ==
    ASSUME NEW wk \in Work, WorkerSound(wk),
           \A r \in Rewards : /\ row[r].eligible => row'[r].eligible
                              /\ row[r].signed => row'[r].signed,
           \A c \in Held(wk) : ~c.signed /\ ~row[c.reward].signed =>
                /\ row'[c.reward].status = row[c.reward].status
                /\ row'[c.reward].signed = row[c.reward].signed
                /\ landed'[c.reward] = landed[c.reward]
    PROVE  WorkerSound(wk)'
<1>1. ClaimsSound(wk)'
  BY HeldClaims DEF WorkerSound, ClaimsSound
<1>2. TodoSound(wk)'
  BY HeldClaims DEF WorkerSound, TodoSound
<1>3. CurSound(wk)'
  BY HeldClaims DEF WorkerSound, CurSound
<1> QED BY <1>1, <1>2, <1>3 DEF WorkerSound, BatchSound

\* A step of one worker that leaves the rows alone.
LEMMA OneWorker ==
    ASSUME TypeOK, PaidInv, UNCHANGED <<row, evaluation, landed>>,
           NEW w \in Workers, NEW wk, work' = [work EXCEPT ![w] = wk], WorkerSound(wk),
           \A c \in Held(wk) : ~c.signed => c \in Held(work[w])
    PROVE  PaidInv'
<1>1. \A r \in Rewards : RowSound(r)'
  BY DEF PaidInv, RowSound
<1>2. \A v \in Workers : work'[v] = IF v = w THEN wk ELSE work[v]
  BY DEF TypeOK
<1>3. \A v \in Workers : WorkerSound(work'[v])
  BY <1>2 DEF PaidInv
<1>4. ASSUME NEW v \in Workers PROVE WorkerSound(work[v])'
  BY <1>3, <1>4 DEF WorkerSound, ClaimsSound, TodoSound, CurSound, BatchSound
<1>5. ASSUME NEW u \in Workers, NEW v \in Workers, u # v PROVE Apart(work'[u], work'[v])
  BY <1>2, <1>5 DEF PaidInv, Apart
<1>6. \A u, v \in Workers : u # v => Apart(work[u], work[v])'
  BY <1>5 DEF Apart, Held
<1> QED BY <1>1, <1>4, <1>6 DEF PaidInv

\* The invariant from what holds of the rows, the workers and their pairs.
LEMMA Assembled ==
    ASSUME work' \in [Workers -> Work], \A r \in Rewards : RowSound(r)',
           \A w \in Workers, wk \in Work : wk = work'[w] => WorkerSound(wk)',
           \A v, w \in Workers : v # w => Apart(work'[v], work'[w])
    PROVE  PaidInv'
<1>1. \A w \in Workers : WorkerSound(work[w])'
  BY DEF WorkerSound, ClaimsSound, TodoSound, CurSound, BatchSound
<1>2. \A v, w \in Workers : v # w => Apart(work[v], work[w])'
  BY DEF Apart, Held
<1> QED BY <1>1, <1>2 DEF PaidInv

LEMMA PaidAtInit == Init => PaidInv
BY DEF Init, Idle, PaidInv, RowSound, WorkerSound, ClaimsSound, TodoSound, CurSound, BatchSound,
       Apart, Held

-----------------------------------------------------------------------------
(* Evaluation and retries by hand. *)

LEMMA PaidByEvaluation ==
    ASSUME TypeOK, PaidInv, NEW r \in Rewards, Evaluate(r)
    PROVE  PaidInv'
<1>1. row[r] \in Row /\ ~row[r].eligible /\ ~row[r].signed /\ landed[r] = 0
  <2>1. evaluation[r] # "done"
    BY DEF TypeOK, Evaluate, Register, Upserted, ClaimEvaluation, RegisterDisabled, TryReserve,
           Decline, Completed, Approve, EvaluationFails
  <2> QED BY <2>1 DEF TypeOK, PaidInv, RowSound
<1>2. UNCHANGED <<work, landed>>
  BY DEF Evaluate, Register, Upserted, ClaimEvaluation, RegisterDisabled, TryReserve, Decline,
         Completed, Approve, EvaluationFails
<1>3. /\ \A q \in Rewards \ {r} : row'[q] = row[q] /\ evaluation'[q] = evaluation[q]
      /\ ~row'[r].signed /\ (row'[r].eligible => evaluation'[r] = "done")
  <2>1. CASE Register(r) \/ RegisterDisabled(r) \/ TryReserve(r)
    BY <1>1, <2>1 DEF TypeOK, Row, Register, Upserted, ClaimEvaluation, RegisterDisabled, TryReserve
  <2>2. CASE Decline(r)
    BY <1>1, <2>2 DEF TypeOK, Row, Decline, Completed
  <2>3. CASE Approve(r)
    BY <1>1, <2>3 DEF TypeOK, Row, Approve, Completed
  <2>4. CASE EvaluationFails(r)
    BY <1>1, <2>4 DEF TypeOK, Row, EvaluationFails, Completed
  <2> QED BY <2>1, <2>2, <2>3, <2>4 DEF Evaluate
<1>4. \A q \in Rewards : RowSound(q)'
  BY <1>1, <1>2, <1>3 DEF PaidInv, RowSound
<1>5. ASSUME NEW w \in Workers, NEW wk \in Work, wk = work[w] PROVE WorkerSound(wk)'
  <2>1. WorkerSound(wk)
    BY <1>5 DEF PaidInv, WorkerSound, ClaimsSound, TodoSound, CurSound, BatchSound
  <2>2. \A c \in Held(wk) : c.reward \in Rewards \ {r}
    BY <1>1, <2>1, HeldClaims DEF WorkerSound, ClaimsSound
  <2> QED BY <1>1, <1>2, <1>3, <2>1, <2>2, Undisturbed
<1>6. \A v, w \in Workers : v # w => Apart(work'[v], work'[w])
  BY <1>2 DEF PaidInv, Apart
<1> QED BY <1>2, <1>4, <1>5, <1>6, Assembled DEF TypeOK

LEMMA PaidByOperator ==
    ASSUME Honest, TypeOK, PaidInv, NEW r \in Rewards, RetryManually(r)
    PROVE  PaidInv'
<1>1. row[r] \in Row /\ row[r].status # "PROCESSING"
  BY DEF TypeOK, Honest, RetryManually
<1>2. UNCHANGED <<evaluation, work, landed>>
  BY DEF RetryManually
<1>3. /\ \A q \in Rewards \ {r} : row'[q] = row[q]
      /\ row'[r].signed = row[r].signed /\ row'[r].eligible = row[r].eligible
  BY <1>1 DEF TypeOK, Row, RetryManually
<1>4. \A q \in Rewards : RowSound(q)'
  BY <1>1, <1>2, <1>3 DEF PaidInv, RowSound
<1>5. ASSUME NEW w \in Workers, NEW wk \in Work, wk = work[w] PROVE WorkerSound(wk)'
  <2>1. WorkerSound(wk)
    BY <1>5 DEF PaidInv, WorkerSound, ClaimsSound, TodoSound, CurSound, BatchSound
  <2>2. \A c \in Held(wk) : ~c.signed /\ ~row[c.reward].signed => c.reward \in Rewards \ {r}
    BY <1>1, <2>1, HeldClaims DEF WorkerSound, TodoSound, CurSound, Held
  <2> QED BY <1>2, <1>3, <2>1, <2>2, Undisturbed
<1>6. \A v, w \in Workers : v # w => Apart(work'[v], work'[w])
  BY <1>2 DEF PaidInv, Apart
<1> QED BY <1>2, <1>4, <1>5, <1>6, Assembled DEF TypeOK

-----------------------------------------------------------------------------
(* Claiming. *)

LEMMA PaidByFinding ==
    ASSUME TypeOK, PaidInv, NEW w \in Workers, FindSubmitted(w)
    PROVE  PaidInv'
<1> DEFINE wk == [Idle EXCEPT !.phase = "reconciling", !.todo = {ClaimOf(r) : r \in Submitted}]
<1>1. work' = [work EXCEPT ![w] = wk] /\ UNCHANGED <<row, evaluation, landed>>
  BY DEF FindSubmitted
<1>2. wk.todo = {ClaimOf(r) : r \in Submitted} /\ wk.cur = NoClaim
  BY DEF Idle
<1>3. \A c \in Held(wk) : c.signed /\ c.reward \in Submitted /\ c = ClaimOf(c.reward)
  BY <1>2 DEF Held, ClaimOf, Submitted
<1>4. \A r \in Submitted : r \in Rewards /\ row[r].signed /\ row[r].eligible
  BY DEF Submitted, PaidInv, RowSound
<1> HIDE DEF wk
<1>5. WorkerSound(wk)
  BY <1>2, <1>3, <1>4 DEF WorkerSound, ClaimsSound, TodoSound, CurSound, BatchSound, Held
<1> QED BY <1>1, <1>3, <1>5, OneWorker

LEMMA PaidByClaiming ==
    ASSUME TypeOK, TypeOK', PaidInv, NEW w \in Workers, NEW S \in SUBSET Retryable, ClaimPending(w, S)
    PROVE  PaidInv'
<1> DEFINE claimed == Pending \cup S
<1>1. UNCHANGED <<evaluation, landed>> /\ claimed \subseteq Rewards
  BY DEF ClaimPending, Pending, Retryable
<1>2. \A r \in claimed : row[r].status # "PROCESSING" /\ row[r].eligible
  BY DEF Pending, Retryable
<1>3. \A r \in Rewards : /\ r \notin claimed => row'[r] = row[r]
                         /\ r \in claimed => row'[r].status = "PROCESSING"
                         /\ row'[r].signed = row[r].signed /\ row'[r].eligible = row[r].eligible
  BY DEF TypeOK, Row, ClaimPending
<1>4. \A r \in claimed : ~row[r].signed => landed[r] = 0
  BY <1>1, <1>2 DEF PaidInv, RowSound
<1>5. \A r \in Rewards : RowSound(r)'
  BY <1>1, <1>2, <1>3 DEF PaidInv, RowSound
<1>6. /\ \A v \in Workers \ {w} : work'[v] = work[v]
      /\ \A c \in Held(work'[w]) : c.reward \in claimed /\ c = ClaimOf(c.reward)
      /\ work'[w].cur = NoClaim
  <2>1. work'[w] = IF claimed = {} THEN Idle
                   ELSE [Idle EXCEPT !.phase = "paying", !.todo = {ClaimOf(r) : r \in claimed}]
    BY DEF TypeOK, ClaimPending
  <2>2. work'[w].todo = {ClaimOf(r) : r \in claimed} /\ work'[w].cur = NoClaim
    BY <2>1 DEF Idle
  <2>3. \A v \in Workers \ {w} : work'[v] = work[v]
    BY DEF TypeOK, ClaimPending
  <2> HIDE DEF claimed
  <2> QED BY <2>2, <2>3 DEF Held, ClaimOf
<1> HIDE DEF claimed
<1>7. \A v \in Workers : \A c \in Held(work[v]) :
        ~c.signed /\ ~row[c.reward].signed => c.reward \in Rewards \ claimed
  <2> SUFFICES ASSUME NEW v \in Workers, NEW c \in Held(work[v]), ~c.signed, ~row[c.reward].signed
               PROVE  c.reward \in Rewards \ claimed
    OBVIOUS
  <2>1. work[v] \in Work /\ WorkerSound(work[v])
    BY DEF TypeOK, PaidInv
  <2> QED BY <1>2, <2>1, HeldClaims DEF WorkerSound, TodoSound, CurSound, Held
<1>8. ASSUME NEW v \in Workers, NEW wk \in Work, wk = work'[v] PROVE WorkerSound(wk)'
  <2>1. CASE v = w
    <3>1. \A c \in Held(wk) : /\ c.reward \in claimed /\ c = ClaimOf(c.reward)
                              /\ c.reward \in Rewards /\ c.signed = row[c.reward].signed
      BY <1>1, <1>6, <1>8, <2>1 DEF ClaimOf
    <3>2. wk.cur = NoClaim
      BY <1>6, <1>8, <2>1
    <3> QED BY <1>1, <1>2, <1>3, <1>4, <3>1, <3>2
            DEF WorkerSound, ClaimsSound, TodoSound, CurSound, BatchSound, Held
  <2>2. CASE v # w
    <3>1. wk = work[v]
      BY <1>6, <1>8, <2>2
    <3>2. WorkerSound(wk)
      BY <3>1 DEF PaidInv, WorkerSound, ClaimsSound, TodoSound, CurSound, BatchSound
    <3> QED BY <1>1, <1>3, <1>7, <3>1, <3>2, Undisturbed
  <2> QED BY <2>1, <2>2
<1>9. ASSUME NEW v \in Workers, v # w PROVE Apart(work'[w], work'[v]) /\ Apart(work'[v], work'[w])
  <2>1. work'[v] = work[v] /\ work[v] \in Work
    BY <1>6, <1>9 DEF TypeOK
  <2>2. \A c \in Held(work'[w]), d \in Held(work[v]) : ~c.signed /\ ~d.signed => c.reward # d.reward
    BY <1>6, <1>7, <2>1 DEF ClaimOf
  <2> QED BY <2>1, <2>2 DEF Apart
<1>10. \A u, v \in Workers : u # v => Apart(work'[u], work'[v])
  BY <1>6, <1>9 DEF PaidInv
<1> QED BY <1>5, <1>8, <1>10, Assembled DEF TypeOK

-----------------------------------------------------------------------------
(* Sending and verifying. *)

\* What a worker that takes up a reward has in hand and left to do.
LEMMA Attended ==
    ASSUME TypeOK, NEW w \in Workers, NEW c \in Claim, NEW s, Attending(w, c, s)
    PROVE  \E wk : /\ work' = [work EXCEPT ![w] = wk]
                   /\ wk.todo = work[w].todo \ {c} /\ wk.cur = c /\ wk.step = s
<1> DEFINE wk == [work[w] EXCEPT !.todo = @ \ {c}, !.cur = c, !.step = s]
<1>1. work[w] \in Work
  BY DEF TypeOK
<1>2. wk.todo = work[w].todo \ {c} /\ wk.cur = c /\ wk.step = s
  BY <1>1 DEF Work
<1>3. work' = [work EXCEPT ![w] = wk]
  BY <1>1 DEF Attending, Work, TypeOK
<1> QED BY <1>2, <1>3

LEMMA PaidByVerifying ==
    ASSUME TypeOK, PaidInv, NEW w \in Workers, NEW c \in work[w].todo \cup {work[w].cur}, Verify(w, c)
    PROVE  PaidInv'
<1>1. work[w] \in Work /\ WorkerSound(work[w]) /\ (work[w].step = "next" <=> work[w].cur = NoClaim)
  BY DEF TypeOK, PaidInv
<1>2. c \in Claim /\ c \in Held(work[w])
  BY <1>1, HeldClaims DEF Verify, Work, Held
<1>3. PICK s \in {"sent", "failed", "review"} : Attending(w, c, s)
  BY DEF Verify
<1>4. PICK wk : /\ work' = [work EXCEPT ![w] = wk]
                /\ wk.todo = work[w].todo \ {c} /\ wk.cur = c /\ wk.step = s
  BY <1>2, <1>3, Attended
<1>5. c.signed \/ row[c.reward].signed
  BY <1>1 DEF Verify, WorkerSound, CurSound
<1>6. Held(wk) \subseteq Held(work[w])
  BY <1>2, <1>4 DEF Held
<1>7. ClaimsSound(wk) /\ TodoSound(wk) /\ CurSound(wk)
  BY <1>1, <1>4, <1>5, <1>6 DEF WorkerSound, ClaimsSound, TodoSound, CurSound
<1>8. BatchSound(wk)
  BY <1>1, <1>2, <1>4 DEF WorkerSound, BatchSound, Verify
<1>9. UNCHANGED <<row, evaluation, landed>>
  BY DEF Verify
<1> QED BY <1>4, <1>6, <1>7, <1>8, <1>9, OneWorker DEF WorkerSound

LEMMA PaidBySending ==
    ASSUME Honest, TypeOK, TypeOK', PaidInv, NEW w \in Workers, NEW c \in work[w].todo, Send(w, c)
    PROVE  PaidInv'
<1>1. work[w] \in Work /\ WorkerSound(work[w]) /\ work[w].cur = NoClaim
  BY DEF TypeOK, PaidInv, Send
<1>2. /\ c \in Claim /\ c.reward \in Rewards /\ c \in Held(work[w]) /\ ~c.signed
      /\ row[c.reward].status = "PROCESSING" /\ ~row[c.reward].signed
      /\ row[c.reward].eligible /\ landed[c.reward] = 0
  BY <1>1, HeldClaims DEF Send, WorkerSound, TodoSound, ClaimsSound
<1>3. UNCHANGED <<row, evaluation>>
  BY DEF Send
<1>4. PICK s \in {"submit", "retry", "giveUp"} :
        /\ Attending(w, c, s)
        /\ landed'[c.reward] \in {0, 1} /\ (s # "submit" => landed'[c.reward] = 0)
  <2>1. CASE Attending(w, c, "submit") /\ landed' = [landed EXCEPT ![c.reward] = @ + 1]
    <3>1. landed'[c.reward] = 1
      BY <1>2, <2>1 DEF TypeOK
    <3> QED BY <2>1, <3>1
  <2>2. CASE \E retryable \in BOOLEAN : Attending(w, c, Failure(c, retryable)) /\ UNCHANGED landed
    BY <1>2, <2>2 DEF Failure
  <2> QED BY <2>1, <2>2 DEF Send, Honest
<1>5. PICK wl : /\ work' = [work EXCEPT ![w] = wl]
                /\ wl.todo = work[w].todo \ {c} /\ wl.cur = c /\ wl.step = s
  BY <1>2, <1>4, Attended
<1>6. \A q \in Rewards \ {c.reward} : landed'[q] = landed[q]
  BY <1>2 DEF Send, TypeOK
<1>7. \A r \in Rewards : RowSound(r)'
  BY <1>2, <1>3, <1>4, <1>6 DEF PaidInv, RowSound
<1>8. /\ work'[w] = wl /\ Held(wl) \subseteq Held(work[w])
      /\ \A v \in Workers \ {w} : work'[v] = work[v]
  BY <1>2, <1>5 DEF TypeOK, Held
<1>9. ASSUME NEW v \in Workers, NEW wk \in Work, wk = work'[v] PROVE WorkerSound(wk)'
  <2>1. CASE v = w
    <3>1. wk.todo = work[w].todo \ {c} /\ wk.cur = c /\ wk.step = s /\ Held(wk) \subseteq Held(work[w])
      BY <1>5, <1>8, <1>9, <2>1
    <3>2. \A d \in wk.todo : d \in work[w].todo /\ d.reward \in Rewards \ {c.reward}
      BY <1>1, <3>1, HeldClaims DEF WorkerSound, BatchSound
    <3>3. ClaimsSound(wk)'
      BY <1>1, <1>3, <3>1 DEF WorkerSound, ClaimsSound
    <3>4. TodoSound(wk)'
      BY <1>1, <1>3, <1>6, <3>2 DEF WorkerSound, TodoSound
    <3>5. CurSound(wk)'
      BY <1>2, <1>3, <1>4, <3>1 DEF CurSound
    <3>6. BatchSound(wk)
      BY <1>1, <3>1, <3>2 DEF WorkerSound, BatchSound
    <3> QED BY <3>3, <3>4, <3>5, <3>6 DEF WorkerSound, BatchSound
  <2>2. CASE v # w
    <3>1. wk = work[v] /\ Apart(work[v], work[w])
      BY <1>8, <1>9, <2>2 DEF PaidInv
    <3>2. WorkerSound(wk)
      BY <3>1 DEF PaidInv, WorkerSound, ClaimsSound, TodoSound, CurSound, BatchSound
    <3>3. \A d \in Held(wk) : ~d.signed => d.reward \in Rewards \ {c.reward}
      BY <1>2, <3>1, HeldClaims DEF Apart
    <3> QED BY <1>3, <1>6, <3>2, <3>3, Undisturbed
  <2> QED BY <2>1, <2>2
<1>10. \A u, v \in Workers : u # v => Apart(work'[u], work'[v])
  BY <1>8 DEF PaidInv, Apart
<1> QED BY <1>7, <1>9, <1>10, Assembled DEF TypeOK

-----------------------------------------------------------------------------
(* Writing. *)

\* A worker after a write, answered or not, has its reward in hand only to
\* verify or to give up what is signed.
LEMMA WorkerAfterWrite ==
    ASSUME TypeOK, NEW w \in Workers, WorkerSound(work[w]), Writing(w),
           NEW wk \in {Continued(work[w]), Broken(work[w])}
    PROVE  /\ wk.todo = {} \/ wk.todo = work[w].todo
           /\ wk.cur # NoClaim => /\ wk.cur = work[w].cur
                                  /\ work[w].step = "submit" \/ row[wk.cur.reward].signed
<1>1. work[w] \in Work /\ CurSound(work[w]) /\ work[w].cur # NoClaim
  BY DEF TypeOK, WorkerSound, Writing
<1>2. CASE wk = Continued(work[w])
  BY <1>1, <1>2 DEF Continued, Idle, Work
<1>3. CASE wk = Broken(work[w])
  <2>1. CASE work[w].step \in {"submit", "sent", "failed", "review"} /\ ~work[w].cur.signed
    BY <1>1, <1>3, <2>1 DEF Broken, Work, CurSound
  <2>2. CASE ~(work[w].step \in {"submit", "sent", "failed", "review"} /\ ~work[w].cur.signed)
    BY <1>1, <1>3, <2>2 DEF Broken, Idle
  <2> QED BY <2>1, <2>2
<1> QED BY <1>2, <1>3

LEMMA PaidByFailedWrite ==
    ASSUME Honest, TypeOK, PaidInv, NEW w \in Workers, WriteFails(w)
    PROVE  PaidInv'
<1> DEFINE wk == Broken(work[w])
<1>1. WorkerSound(work[w]) /\ Writing(w) /\ work[w].step # "submit" /\ work[w] \in Work
  BY DEF TypeOK, PaidInv, WriteFails, Honest
<1>2. work' = [work EXCEPT ![w] = wk] /\ UNCHANGED <<row, evaluation, landed>>
  BY DEF WriteFails
<1>3. /\ wk.todo = {} \/ wk.todo = work[w].todo
      /\ wk.cur # NoClaim => wk.cur = work[w].cur /\ row[wk.cur.reward].signed
  BY <1>1, WorkerAfterWrite
<1> HIDE DEF wk
<1>4. Held(wk) \subseteq Held(work[w])
  BY <1>3 DEF Held
<1>5. WorkerSound(wk)
  BY <1>1, <1>3, <1>4 DEF WorkerSound, ClaimsSound, TodoSound, CurSound, BatchSound
<1> QED BY <1>2, <1>4, <1>5, OneWorker

LEMMA PaidByCrash ==
    ASSUME TypeOK, PaidInv, NEW w \in Workers, Crash(w)
    PROVE  PaidInv'
<1>1. work' = [work EXCEPT ![w] = Idle] /\ UNCHANGED <<row, evaluation, landed>>
  BY DEF Crash
<1>2. Held(Idle) = {} /\ WorkerSound(Idle)
  BY DEF Idle, Held, WorkerSound, ClaimsSound, TodoSound, CurSound, BatchSound
<1> QED BY <1>1, <1>2, OneWorker

\* What a write does to the row of its reward.
LEMMA EffectOnRow ==
    ASSUME TypeOK, NEW r \in Rewards, NEW step, Effect(step, r)
    PROVE  /\ \A q \in Rewards \ {r} : row'[q] = row[q]
           /\ row'[r].eligible = row[r].eligible
           /\ row'[r].signed = (row[r].signed \/ step = "submit")
<1>1. row[r] \in Row
  BY DEF TypeOK
<1>2. CASE step = "submit" /\ MarkSubmitted(r)
  BY <1>1, <1>2 DEF TypeOK, Row, MarkSubmitted
<1>3. CASE step = "sent" /\ MarkSent(r)
  BY <1>1, <1>3 DEF TypeOK, Row, MarkSent
<1>4. CASE step = "failed" /\ MarkFailed(r, FALSE)
  BY <1>1, <1>4 DEF TypeOK, Row, MarkFailed
<1>5. CASE step = "retry" /\ MarkFailed(r, TRUE)
  BY <1>1, <1>5 DEF TypeOK, Row, MarkFailed
<1>6. CASE step \in {"review", "giveUp"} /\ MarkManualReview(r)
  BY <1>1, <1>6 DEF TypeOK, Row, MarkManualReview
<1> QED BY <1>2, <1>3, <1>4, <1>5, <1>6 DEF Effect

LEMMA PaidByWrite ==
    ASSUME TypeOK, TypeOK', PaidInv, NEW w \in Workers, Write(w) \/ WriteUnacknowledged(w)
    PROVE  PaidInv'
<1> DEFINE c == work[w].cur
           r == work[w].cur.reward
<1>1. /\ work[w] \in Work /\ WorkerSound(work[w]) /\ Writing(w) /\ Effect(work[w].step, r)
      /\ UNCHANGED <<evaluation, landed>>
  BY DEF TypeOK, PaidInv, Write, WriteUnacknowledged
<1>2. c # NoClaim /\ c \in Held(work[w]) /\ c \in Claim /\ r \in Rewards /\ c.signed \in BOOLEAN
  BY <1>1, HeldClaims DEF TypeOK, Writing
<1>3. /\ \A q \in Rewards \ {r} : row'[q] = row[q]
      /\ row'[r].eligible = row[r].eligible
      /\ row'[r].signed = (row[r].signed \/ work[w].step = "submit")
  BY <1>1, <1>2, EffectOnRow
<1>4. row[r].eligible /\ (c.signed => row[r].signed)
  BY <1>1, <1>2 DEF WorkerSound, ClaimsSound
<1>5. row'[r].signed \/ landed[r] = 0
  BY <1>1, <1>2, <1>3, <1>4 DEF WorkerSound, CurSound
<1>6. \A q \in Rewards : RowSound(q)'
  <2> HIDE DEF c, r
  <2>1. landed[r] \in {0, 1} /\ evaluation[r] = "done"
    BY <1>2, <1>4 DEF PaidInv, RowSound
  <2>2. ASSUME NEW q \in Rewards, q = r PROVE RowSound(q)'
    <3>1. /\ landed'[q] = landed[q] /\ evaluation'[q] = "done" /\ row'[q].eligible
          /\ landed[q] \in {0, 1} /\ (row'[q].signed \/ landed[q] = 0)
      BY <1>1, <1>3, <1>4, <1>5, <2>1, <2>2
    <3> QED BY <3>1 DEF RowSound
  <2>3. \A q \in Rewards \ {r} : RowSound(q)'
    BY <1>1, <1>3 DEF PaidInv, RowSound
  <2> QED BY <2>2, <2>3
<1>7. /\ \A v \in Workers \ {w} : work'[v] = work[v]
      /\ work'[w] \in {Continued(work[w]), Broken(work[w])}
  BY DEF TypeOK, Write, WriteUnacknowledged
<1>8. /\ work'[w].todo = {} \/ work'[w].todo = work[w].todo
      /\ work'[w].cur # NoClaim => work'[w].cur = c /\ row'[r].signed
  BY <1>1, <1>2, <1>3, <1>7, WorkerAfterWrite
<1>9. Held(work'[w]) \subseteq Held(work[w])
  BY <1>2, <1>8 DEF Held
<1> HIDE DEF c, r
<1>10. \A d \in work[w].todo : d \in Held(work[w]) /\ d.reward \in Rewards \ {r}
  BY <1>1, <1>2, HeldClaims DEF WorkerSound, BatchSound, c, r
<1>11. ASSUME NEW v \in Workers, NEW wk \in Work, wk = work'[v] PROVE WorkerSound(wk)'
  <2>1. CASE v = w
    <3>1. /\ wk.todo = {} \/ wk.todo = work[w].todo
          /\ wk.cur # NoClaim => wk.cur = c /\ row'[r].signed
          /\ Held(wk) \subseteq Held(work[w])
      BY <1>8, <1>9, <1>11, <2>1
    <3>2. ClaimsSound(wk)'
      BY <1>1, <1>2, <1>3, <3>1, HeldClaims DEF WorkerSound, ClaimsSound
    <3>3. TodoSound(wk)'
      BY <1>1, <1>3, <1>10, <3>1 DEF WorkerSound, TodoSound
    <3>4. CurSound(wk)'
      BY <3>1 DEF CurSound, c, r
    <3>5. BatchSound(wk)
      BY <1>1, <3>1 DEF WorkerSound, BatchSound, c
    <3> QED BY <3>2, <3>3, <3>4, <3>5 DEF WorkerSound, BatchSound
  <2>2. CASE v # w
    <3>1. wk = work[v] /\ Apart(work[v], work[w])
      BY <1>7, <1>11, <2>2 DEF PaidInv
    <3>2. WorkerSound(wk)
      BY <3>1 DEF PaidInv, WorkerSound, ClaimsSound, TodoSound, CurSound, BatchSound
    <3>3. \A d \in Held(wk) : d.reward \in Rewards /\ (~d.signed /\ ~c.signed => d.reward # r)
      BY <1>2, <3>1, HeldClaims DEF Apart, c, r
    <3>4. \A d \in Held(wk) : ~d.signed /\ ~row[d.reward].signed => d.reward # r
      BY <1>4, <3>3
    <3> QED BY <1>1, <1>2, <1>3, <3>2, <3>3, <3>4, Undisturbed
  <2> QED BY <2>1, <2>2
<1>12. \A u, v \in Workers : u # v => Apart(work'[u], work'[v])
  BY <1>7, <1>9 DEF PaidInv, Apart
<1> QED BY <1>6, <1>11, <1>12, Assembled DEF TypeOK

-----------------------------------------------------------------------------
(* The theorems. *)

LEMMA PaidByNext == Honest /\ TypeOK /\ TypeOK' /\ PaidInv /\ [Next]_vars => PaidInv'
<1> SUFFICES ASSUME Honest, TypeOK, TypeOK', PaidInv, [Next]_vars PROVE PaidInv'
  OBVIOUS
<1>1. CASE UNCHANGED vars
  BY <1>1 DEF vars, PaidInv, RowSound, WorkerSound, ClaimsSound, TodoSound, CurSound, BatchSound,
              Apart, Held
<1>2. ASSUME NEW r \in Rewards, Evaluate(r) \/ RetryManually(r) PROVE PaidInv'
  BY <1>2, PaidByEvaluation, PaidByOperator
<1>3. ASSUME NEW w \in Workers, Process(w) PROVE PaidInv'
  BY <1>3, PaidByFinding, PaidByClaiming, PaidBySending, PaidByVerifying, PaidByWrite DEF Process
<1>4. ASSUME NEW w \in Workers, WriteUnacknowledged(w) \/ WriteFails(w) \/ Crash(w) PROVE PaidInv'
  BY <1>4, PaidByWrite, PaidByFailedWrite, PaidByCrash
<1> QED BY <1>1, <1>2, <1>3, <1>4 DEF Next

THEOREM PaidInvariant == ASSUME Honest PROVE Spec => []PaidInv
<1>1. TypeOK /\ TypeOK' /\ PaidInv /\ [Next]_vars => PaidInv'
  BY PaidByNext
<1> QED BY PaidAtInit, TypesHold, <1>1, PTL DEF Spec

\* No reward is transferred twice, for any rewards, workers, retries and crashes,
\* as long as an error of the gateway means that no transfer was made.
THEOREM PaidOnce == ASSUME Honest PROVE Spec => []PaidAtMostOnce
<1>1. PaidInv => PaidAtMostOnce
  BY DEF PaidInv, RowSound, PaidAtMostOnce
<1> QED BY PaidInvariant, <1>1, PTL

\* A worker about to send a reward holds it alone and its copy is not stale.
THEOREM ClaimsStayExclusive == ASSUME Honest PROVE Spec => []ClaimsAreExclusive
<1>1. TypeOK /\ PaidInv => ClaimsAreExclusive
  <2> SUFFICES ASSUME TypeOK, PaidInv, NEW w \in Workers, NEW c \in work[w].todo, ~c.signed
               PROVE  /\ row[c.reward].status = "PROCESSING" /\ ~row[c.reward].signed
                      /\ landed[c.reward] = 0
                      /\ \A v \in Workers \ {w} : \A d \in Held(work[v]) : d.reward # c.reward
    BY DEF ClaimsAreExclusive, Held
  <2>1. /\ row[c.reward].status = "PROCESSING" /\ ~row[c.reward].signed /\ landed[c.reward] = 0
        /\ c \in Held(work[w])
    BY DEF PaidInv, WorkerSound, TodoSound, Held
  <2>2. ASSUME NEW v \in Workers \ {w}, NEW d \in Held(work[v]) PROVE d.reward # c.reward
    <3>1. WorkerSound(work[v]) /\ Apart(work[w], work[v])
      BY DEF PaidInv
    <3>2. d.reward = c.reward => ~d.signed
      BY <2>1, <3>1 DEF WorkerSound, ClaimsSound
    <3> QED BY <2>1, <3>1, <3>2 DEF Apart
  <2> QED BY <2>1, <2>2
<1> QED BY TypesHold, PaidInvariant, <1>1, PTL

-----------------------------------------------------------------------------
(* Retries.  A worker decides from the count in its claim; that this is the *)
(* count of the row is what keeps a failed row claimable.                   *)

CountsFresh(wk) ==
    /\ \A c \in Held(wk) : ~c.signed => c.retries = row[c.reward].retries
    /\ wk.step = "retry" => ~wk.cur.signed /\ wk.cur.retries + 1 < MaxRetries

RetryInv == RetriesRemain /\ \A w \in Workers : CountsFresh(work[w])

\* RetryInv after a step, with the worker's record as a constant.
LEMMA RetriesAssembled ==
    ASSUME RetriesRemain', work' \in [Workers -> Work],
           \A w \in Workers, wk \in Work : wk = work'[w] => CountsFresh(wk)'
    PROVE  RetryInv'
<1>1. \A w \in Workers : CountsFresh(work[w])'
  BY DEF CountsFresh, Held
<1> QED BY <1>1 DEF RetryInv

\* A worker's counts stay fresh while those of its unsigned rewards do.
LEMMA CountsKept ==
    ASSUME NEW wk \in Work, NEW w \in Workers, wk = work[w], RetryInv,
           \A c \in Held(wk) : ~c.signed => row'[c.reward].retries = row[c.reward].retries
    PROVE  CountsFresh(wk)'
<1>1. CountsFresh(wk)
  BY DEF RetryInv, CountsFresh, Held
<1> QED BY <1>1 DEF CountsFresh, Held

LEMMA RetriesByEvaluation ==
    ASSUME Honest, TypeOK, TypeOK', PaidInv, RetryInv, NEW r \in Rewards,
           Evaluate(r) \/ RetryManually(r)
    PROVE  RetryInv'
<1>1. row[r] \in Row /\ work' = work
  BY DEF TypeOK, Evaluate, Register, Upserted, ClaimEvaluation, RegisterDisabled, TryReserve, Decline,
         Completed, Approve, EvaluationFails, RetryManually
<1>2. CASE Evaluate(r)
  <2>1. ~row[r].eligible
    <3>1. evaluation[r] # "done"
      BY <1>2 DEF TypeOK, Evaluate, Register, Upserted, ClaimEvaluation, RegisterDisabled, TryReserve, Decline,
                  Completed, Approve, EvaluationFails
    <3> QED BY <3>1 DEF PaidInv, RowSound
  <2>2. /\ \A q \in Rewards \ {r} : row'[q] = row[q]
        /\ row'[r].eligible => row'[r].status # "FAILED"
    <3>1. CASE Register(r) \/ RegisterDisabled(r) \/ TryReserve(r)
      BY <1>1, <2>1, <3>1 DEF TypeOK, Row, Register, Upserted, ClaimEvaluation, RegisterDisabled, TryReserve
    <3>2. CASE Decline(r)
      BY <1>1, <2>1, <3>2 DEF TypeOK, Row, Decline, Completed
    <3>3. CASE Approve(r)
      BY <1>1, <2>1, <3>3 DEF TypeOK, Row, Approve, Completed
    <3>4. CASE EvaluationFails(r)
      BY <1>1, <2>1, <3>4 DEF TypeOK, Row, EvaluationFails, Completed
    <3> QED BY <1>2, <3>1, <3>2, <3>3, <3>4 DEF Evaluate
  <2>3. RetriesRemain'
    BY <2>2 DEF RetryInv, RetriesRemain
  <2>4. ASSUME NEW w \in Workers, NEW wk \in Work, wk = work[w] PROVE CountsFresh(wk)'
    <3>1. \A c \in Held(wk) : c.reward \in Rewards \ {r}
      BY <2>1, <2>4, HeldClaims DEF PaidInv, WorkerSound, ClaimsSound, Held
    <3> QED BY <2>2, <2>4, <3>1, CountsKept
  <2> QED BY <1>1, <2>3, <2>4, RetriesAssembled DEF TypeOK
<1>3. CASE RetryManually(r)
  <2>1. /\ \A q \in Rewards \ {r} : row'[q] = row[q]
        /\ row'[r].status # "FAILED" /\ row'[r].retries = row[r].retries
    BY <1>1, <1>3 DEF TypeOK, Row, RetryManually
  <2>2. RetriesRemain'
    BY <2>1 DEF RetryInv, RetriesRemain
  <2>3. ASSUME NEW w \in Workers, NEW wk \in Work, wk = work[w] PROVE CountsFresh(wk)'
    <3>1. \A c \in Held(wk) : c.reward \in Rewards
      BY HeldClaims
    <3> QED BY <2>1, <2>3, <3>1, CountsKept
  <2> QED BY <1>1, <2>2, <2>3, RetriesAssembled DEF TypeOK
<1> QED BY <1>2, <1>3

\* Steps of a worker that leave the rows alone.
LEMMA RetriesByOneWorker ==
    ASSUME TypeOK, TypeOK', RetryInv, UNCHANGED row,
           NEW w \in Workers, NEW wk, work' = [work EXCEPT ![w] = wk],
           \A c \in Held(wk) : ~c.signed => c \in Held(work[w]),
           wk.step = "retry" => ~wk.cur.signed /\ wk.cur.retries + 1 < MaxRetries
    PROVE  RetryInv'
<1>1. \A v \in Workers : work'[v] = IF v = w THEN wk ELSE work[v]
  BY DEF TypeOK
<1>2. RetriesRemain'
  BY DEF RetryInv, RetriesRemain
<1>3. ASSUME NEW v \in Workers, NEW wl \in Work, wl = work'[v] PROVE CountsFresh(wl)'
  BY <1>1, <1>3 DEF RetryInv, CountsFresh
<1> QED BY <1>2, <1>3, RetriesAssembled DEF TypeOK

LEMMA RetriesByClaiming ==
    ASSUME TypeOK, TypeOK', PaidInv, RetryInv, NEW w \in Workers, NEW S \in SUBSET Retryable,
           ClaimPending(w, S)
    PROVE  RetryInv'
<1> DEFINE claimed == Pending \cup S
<1>1. claimed \subseteq Rewards
  BY DEF Pending, Retryable
<1>2. \A r \in Rewards : /\ r \notin claimed => row'[r] = row[r]
                         /\ r \in claimed => row'[r].status = "PROCESSING"
                         /\ row'[r].retries = row[r].retries
  BY DEF TypeOK, Row, ClaimPending
<1>3. RetriesRemain'
  BY <1>2 DEF RetryInv, RetriesRemain
<1>4. work'[w] = IF claimed = {} THEN Idle
                 ELSE [Idle EXCEPT !.phase = "paying", !.todo = {ClaimOf(r) : r \in claimed}]
  BY DEF TypeOK, ClaimPending
<1>5. work'[w].todo = {ClaimOf(r) : r \in claimed} /\ work'[w].cur = NoClaim /\ work'[w].step = "next"
  BY <1>4 DEF Idle
<1>6. \A v \in Workers \ {w} : work'[v] = work[v]
  BY DEF TypeOK, ClaimPending
<1> HIDE DEF claimed
<1>7. ASSUME NEW v \in Workers, NEW wk \in Work, wk = work'[v] PROVE CountsFresh(wk)'
  <2>1. CASE v = w
    <3>1. \A c \in Held(wk) : c.reward \in Rewards /\ c.retries = row[c.reward].retries
      BY <1>1, <1>5, <1>7, <2>1 DEF Held, ClaimOf
    <3> QED BY <1>2, <1>5, <1>7, <2>1, <3>1 DEF CountsFresh
  <2>2. CASE v # w
    <3>1. wk = work[v] /\ \A c \in Held(wk) : c.reward \in Rewards
      BY <1>6, <1>7, <2>2, HeldClaims
    <3> QED BY <1>2, <3>1, CountsKept
  <2> QED BY <2>1, <2>2
<1> QED BY <1>3, <1>7, RetriesAssembled DEF TypeOK

LEMMA RetriesByCalls ==
    ASSUME Honest, TypeOK, TypeOK', PaidInv, RetryInv, NEW w \in Workers,
           \/ FindSubmitted(w) \/ Crash(w) \/ WriteFails(w)
           \/ \E c \in work[w].todo : Send(w, c)
           \/ \E c \in work[w].todo \cup {work[w].cur} : Verify(w, c)
    PROVE  RetryInv'
<1>1. work[w] \in Work /\ (work[w].step = "next" <=> work[w].cur = NoClaim)
  BY DEF TypeOK
<1>2. CASE FindSubmitted(w)
  <2> DEFINE wk == [Idle EXCEPT !.phase = "reconciling", !.todo = {ClaimOf(r) : r \in Submitted}]
  <2>1. /\ work' = [work EXCEPT ![w] = wk] /\ UNCHANGED row
        /\ wk.todo = {ClaimOf(r) : r \in Submitted} /\ wk.cur = NoClaim /\ wk.step = "next"
    BY <1>2 DEF FindSubmitted, Idle
  <2> HIDE DEF wk
  <2>2. \A c \in Held(wk) : c.signed
    BY <2>1 DEF Held, ClaimOf, Submitted
  <2> QED BY <2>1, <2>2, RetriesByOneWorker
<1>3. CASE Crash(w)
  <2>1. work' = [work EXCEPT ![w] = Idle] /\ UNCHANGED row
    BY <1>3 DEF Crash
  <2>2. Held(Idle) = {} /\ Idle.step = "next"
    BY DEF Held, Idle
  <2> QED BY <2>1, <2>2, RetriesByOneWorker
<1>4. ASSUME NEW c \in work[w].todo, Send(w, c) PROVE RetryInv'
  <2>1. c \in Claim /\ c \in Held(work[w]) /\ ~c.signed /\ UNCHANGED row
    BY <1>1, <1>4, HeldClaims DEF Send
  <2>2. PICK s \in {"submit", "retry", "giveUp"} :
          Attending(w, c, s) /\ (s = "retry" => c.retries + 1 < MaxRetries)
    BY <1>4 DEF Send, Failure
  <2>3. PICK wk : /\ work' = [work EXCEPT ![w] = wk]
                  /\ wk.todo = work[w].todo \ {c} /\ wk.cur = c /\ wk.step = s
    BY <2>1, <2>2, Attended
  <2>4. Held(wk) \subseteq Held(work[w])
    BY <2>1, <2>3 DEF Held
  <2> QED BY <2>1, <2>2, <2>3, <2>4, RetriesByOneWorker
<1>5. ASSUME NEW c \in work[w].todo \cup {work[w].cur}, Verify(w, c) PROVE RetryInv'
  <2>1. c \in Claim /\ c \in Held(work[w]) /\ UNCHANGED row
    BY <1>1, <1>5, HeldClaims DEF Verify, Work, Held
  <2>2. PICK s \in {"sent", "failed", "review"} : Attending(w, c, s)
    BY <1>5 DEF Verify
  <2>3. PICK wk : /\ work' = [work EXCEPT ![w] = wk]
                  /\ wk.todo = work[w].todo \ {c} /\ wk.cur = c /\ wk.step = s
    BY <2>1, <2>2, Attended
  <2>4. Held(wk) \subseteq Held(work[w]) /\ wk.step # "retry"
    BY <2>1, <2>3 DEF Held
  <2> QED BY <2>1, <2>3, <2>4, RetriesByOneWorker
<1>6. CASE WriteFails(w)
  <2> DEFINE wk == Broken(work[w])
  <2>1. /\ work' = [work EXCEPT ![w] = wk] /\ UNCHANGED row
        /\ Writing(w) /\ WorkerSound(work[w])
    BY <1>6 DEF WriteFails, PaidInv
  <2>2. Held(wk) \subseteq Held(work[w])
    <3>1. /\ wk.todo = {} \/ wk.todo = work[w].todo
          /\ wk.cur # NoClaim => wk.cur = work[w].cur
      BY <2>1, WorkerAfterWrite
    <3> HIDE DEF wk
    <3> QED BY <3>1 DEF Held
  <2>3. wk.step = "retry" => ~wk.cur.signed /\ wk.cur.retries + 1 < MaxRetries
    BY <1>1, <2>1 DEF Broken, Idle, Failure, Work
  <2> HIDE DEF wk
  <2> QED BY <2>1, <2>2, <2>3, RetriesByOneWorker
<1> QED BY <1>2, <1>3, <1>4, <1>5, <1>6

\* Only a write that schedules a retry counts one and leaves the row retryable.
LEMMA EffectOnRetries ==
    ASSUME TypeOK, NEW r \in Rewards, NEW step, Effect(step, r)
    PROVE  IF step = "retry" THEN row'[r].retries = row[r].retries + 1
           ELSE row'[r].retries = row[r].retries /\ ~row'[r].retryable
<1>1. row[r] \in Row
  BY DEF TypeOK
<1>2. CASE step = "submit" /\ MarkSubmitted(r)
  BY <1>1, <1>2 DEF TypeOK, Row, MarkSubmitted
<1>3. CASE step = "sent" /\ MarkSent(r)
  BY <1>1, <1>3 DEF TypeOK, Row, MarkSent
<1>4. CASE step = "failed" /\ MarkFailed(r, FALSE)
  BY <1>1, <1>4 DEF TypeOK, Row, MarkFailed
<1>5. CASE step = "retry" /\ MarkFailed(r, TRUE)
  BY <1>1, <1>5 DEF TypeOK, Row, MarkFailed
<1>6. CASE step \in {"review", "giveUp"} /\ MarkManualReview(r)
  BY <1>1, <1>6 DEF TypeOK, Row, MarkManualReview
<1> QED BY <1>2, <1>3, <1>4, <1>5, <1>6 DEF Effect

LEMMA RetriesByWrite ==
    ASSUME TypeOK, TypeOK', PaidInv, RetryInv, NEW w \in Workers, Write(w) \/ WriteUnacknowledged(w)
    PROVE  RetryInv'
<1> DEFINE c == work[w].cur
           r == work[w].cur.reward
<1>1. /\ work[w] \in Work /\ WorkerSound(work[w]) /\ Writing(w) /\ Effect(work[w].step, r)
      /\ (work[w].step = "retry" => ~c.signed /\ c.retries + 1 < MaxRetries)
  BY DEF TypeOK, PaidInv, RetryInv, CountsFresh, Write, WriteUnacknowledged
<1>2. c # NoClaim /\ c \in Held(work[w]) /\ c \in Claim /\ r \in Rewards /\ row[r] \in Row
  BY <1>1, HeldClaims DEF TypeOK, Writing
<1>3. \A q \in Rewards \ {r} : row'[q] = row[q]
  BY <1>1, <1>2, EffectOnRow
<1>4. /\ work[w].step # "retry" => /\ row'[r].retries = row[r].retries
                                   /\ ~row'[r].retryable
      /\ work[w].step = "retry" => row'[r].retries = c.retries + 1
  <2>1. CASE work[w].step = "retry"
    <3>1. c.retries = row[r].retries
      BY <1>1, <1>2, <2>1 DEF RetryInv, CountsFresh
    <3>2. row'[r].retries = row[r].retries + 1
      BY <1>1, <1>2, <2>1, EffectOnRetries
    <3> QED BY <2>1, <3>1, <3>2
  <2>2. CASE work[w].step # "retry"
    BY <1>1, <1>2, <2>2, EffectOnRetries
  <2> QED BY <2>1, <2>2
<1>5. RetriesRemain'
  <2> HIDE DEF c, r
  <2>1. ASSUME NEW q \in Rewards, q # r, row'[q].eligible, row'[q].status = "FAILED", row'[q].retryable
        PROVE  row'[q].retries < MaxRetries
    BY <1>3, <2>1 DEF RetryInv, RetriesRemain
  <2>2. row'[r].retryable => row'[r].retries < MaxRetries
    BY <1>1, <1>4
  <2> QED BY <2>1, <2>2 DEF RetriesRemain
<1>6. /\ \A v \in Workers \ {w} : work'[v] = work[v]
      /\ work'[w] \in {Continued(work[w]), Broken(work[w])}
  BY DEF TypeOK, Write, WriteUnacknowledged
<1>7. /\ work'[w].todo = {} \/ work'[w].todo = work[w].todo
      /\ work'[w].cur # NoClaim => work'[w].cur = c /\ work[w].step # "retry"
      /\ work'[w].step = "retry" => ~work'[w].cur.signed /\ work'[w].cur.retries + 1 < MaxRetries
  <2>1. CASE work'[w] = Continued(work[w])
    BY <1>1, <2>1 DEF Continued, Idle, Work, Writing
  <2>2. CASE work'[w] = Broken(work[w])
    BY <1>1, <2>2 DEF Broken, Failure, Idle, Work
  <2> QED BY <1>6, <2>1, <2>2
<1> HIDE DEF c, r
<1>8. ASSUME NEW v \in Workers, NEW wk \in Work, wk = work'[v] PROVE CountsFresh(wk)'
  <2>1. CASE v = w
    <3>1. \A d \in Held(wk) : /\ d \in Held(work[w]) /\ d.reward \in Rewards
                              /\ d.reward = r => work[w].step # "retry"
      BY <1>1, <1>2, <1>7, <1>8, <2>1, HeldClaims DEF WorkerSound, BatchSound, Held, c, r
    <3>2. \A d \in Held(wk) : ~d.signed => d.retries = row[d.reward].retries
      BY <3>1 DEF RetryInv, CountsFresh
    <3> QED BY <1>3, <1>4, <1>7, <1>8, <2>1, <3>1, <3>2 DEF CountsFresh
  <2>2. CASE v # w
    <3>1. wk = work[v] /\ Apart(work[v], work[w])
      BY <1>6, <1>8, <2>2 DEF PaidInv
    <3>2. \A d \in Held(wk) : d.reward \in Rewards /\ (~d.signed /\ ~c.signed => d.reward # r)
      BY <1>2, <3>1, HeldClaims DEF Apart, c, r
    <3>3. \A d \in Held(wk) : ~d.signed => row'[d.reward].retries = row[d.reward].retries
      BY <1>1, <1>3, <1>4, <3>2
    <3> QED BY <3>1, <3>3, CountsKept
  <2> QED BY <2>1, <2>2
<1> QED BY <1>5, <1>8, RetriesAssembled DEF TypeOK

\* A failed reward that is to be retried has retries left, so that a claim finds
\* it: the counts of worker and row never drift apart.
THEOREM RetriesStay == ASSUME Honest PROVE Spec => []RetriesRemain
<1>1. Init => RetryInv
  BY DEF Init, Idle, RetryInv, RetriesRemain, CountsFresh, Held
<1>2. TypeOK /\ TypeOK' /\ PaidInv /\ RetryInv /\ [Next]_vars => RetryInv'
  <2> SUFFICES ASSUME TypeOK, TypeOK', PaidInv, RetryInv, [Next]_vars PROVE RetryInv'
    OBVIOUS
  <2>1. CASE UNCHANGED vars
    BY <2>1 DEF vars, RetryInv, RetriesRemain, CountsFresh, Held
  <2>2. ASSUME NEW r \in Rewards, Evaluate(r) \/ RetryManually(r) PROVE RetryInv'
    BY <2>2, RetriesByEvaluation
  <2>3. ASSUME NEW w \in Workers,
               Process(w) \/ WriteUnacknowledged(w) \/ WriteFails(w) \/ Crash(w)
        PROVE  RetryInv'
    BY <2>3, RetriesByClaiming, RetriesByCalls, RetriesByWrite DEF Process
  <2> QED BY <2>1, <2>2, <2>3 DEF Next
<1>3. RetryInv => RetriesRemain
  BY DEF RetryInv
<1> QED BY TypesHold, PaidInvariant, <1>1, <1>2, <1>3, PTL DEF Spec

-----------------------------------------------------------------------------
(* The ledger.  What a set of rewards comes to. *)

LEMMA TotalAdds ==
    ASSUME NEW S \in SUBSET Rewards, NEW r \in Rewards \ S
    PROVE  /\ P!Total(S) \in Nat /\ P!Total({}) = 0
           /\ P!Total(S \cup {r}) = P!Total(S) + Prize[r]
<1>. DEFINE U(q) == {q} \X (1 .. Prize[q])
<1>1. ASSUME NEW q \in Rewards PROVE IsFiniteSet(U(q)) /\ Cardinality(U(q)) = Prize[q]
  <2>1. Prize[q] \in Nat /\ Prize[q] >= 1
    BY RewardsAssumption
  <2>2. IsFiniteSet({q}) /\ Cardinality({q}) = 1
    BY FS_Singleton
  <2>3. IsFiniteSet(1 .. Prize[q]) /\ Cardinality(1 .. Prize[q]) = Prize[q]
    BY <2>1, FS_Interval, SMTT(20)
  <2>4. Cardinality(U(q)) = 1 * Prize[q] /\ IsFiniteSet(U(q))
    <3>. HIDE DEF U
    <3>. DEFINE A == {q} B == 1 .. Prize[q]
    <3>1. U(q) = A \X B
      BY DEF U
    <3>2. IsFiniteSet(A) /\ Cardinality(A) = 1 /\ IsFiniteSet(B) /\ Cardinality(B) = Prize[q]
      BY <2>2, <2>3
    <3>. HIDE DEF A, B
    <3>. QED  BY <3>1, <3>2, FS_Product
  <2>. QED  BY <2>1, <2>4
<1>2. IsFiniteSet(P!Units(S))
  <2>1. IsFiniteSet(S)
    BY RewardsAssumption, FS_Subset
  <2>2. IsFiniteSet({U(q) : q \in S})
    <3>. DEFINE f == [q \in S |-> U(q)]
    <3>1. f \in Surjection(S, {U(q) : q \in S})
      BY DEF Surjection
    <3>. QED  BY <2>1, <3>1, FS_Surjection
  <2>3. \A T \in {U(q) : q \in S} : IsFiniteSet(T)
    BY <1>1
  <2>. QED  BY <2>2, <2>3, FS_UNION DEF P!Units
<1>3. P!Units(S \cup {r}) = P!Units(S) \cup U(r) /\ P!Units({}) = {}
  BY DEF P!Units
<1>4. P!Units(S) \cap U(r) = {}
  BY DEF P!Units
<1>5. IsFiniteSet(U(r)) /\ Cardinality(U(r)) = Prize[r]
  BY <1>1
<1>6. Cardinality(P!Units(S)) \in Nat /\ Cardinality({}) = 0
  BY <1>2, FS_CardinalityType, FS_EmptySet
<1>. HIDE DEF U
<1>7. Cardinality(P!Units(S) \cup U(r)) = Cardinality(P!Units(S)) + Cardinality(U(r)) - Cardinality({})
  BY <1>2, <1>4, <1>5, FS_Union
<1>8. Prize[r] \in Nat
  BY RewardsAssumption
<1>9. \A T : P!Cardinality(T) = Cardinality(T)
  BY DEF P!Cardinality, Cardinality
<1>10. \A T : P!Total(T) = Cardinality(P!Units(T))
  BY <1>9 DEF P!Total
<1>11. Cardinality(P!Units(S) \cup U(r)) = Cardinality(P!Units(S)) + Prize[r]
  BY <1>5, <1>6, <1>7, <1>8
<1>. QED  BY <1>3, <1>6, <1>10, <1>11

LEMMA BudgetAdds ==
    ASSUME NEW G \in SUBSET Rewards, NEW r \in Rewards \ G, NEW k
    PROVE  /\ P!Budget(G, k) \in Nat
           /\ P!Budget(G \cup {r}, k) = IF KeyOf[r] = k THEN P!Budget(G, k) + Prize[r] ELSE P!Budget(G, k)
<1>. DEFINE S == {q \in G : KeyOf[q] = k}
<1>1. S \in SUBSET Rewards /\ r \in Rewards \ S
  OBVIOUS
<1>2. {q \in G \cup {r} : KeyOf[q] = k} = IF KeyOf[r] = k THEN S \cup {r} ELSE S
  OBVIOUS
<1>. HIDE DEF S
<1>3. P!Total(S) \in Nat /\ P!Total(S \cup {r}) = P!Total(S) + Prize[r]
  BY <1>1, TotalAdds
<1>. QED  BY <1>2, <1>3 DEF P!Budget, S

\* What a step may do to the rewards whose prize is reserved and to those paid.
Idling == Granted' = Granted /\ UNCHANGED <<reserved, landed>>
Granting(r) ==
    /\ r \notin Granted /\ landed[r] = 0 /\ Fits(r)
    /\ Granted' = Granted \cup {r} /\ Reserve(r) /\ UNCHANGED landed
Withdrawing(r) ==
    /\ r \in Granted /\ landed[r] = 0
    /\ Granted' = Granted \ {r} /\ reserved' = Released(r) /\ UNCHANGED landed
Paying(r) ==
    /\ r \in Granted /\ landed[r] = 0 /\ landed' = [landed EXCEPT ![r] = 1]
    /\ Granted' = Granted /\ UNCHANGED reserved

LedgerStep == Idling \/ \E r \in Rewards : Granting(r) \/ Withdrawing(r) \/ Paying(r)

Grants(e, rw) ==
    \/ e \in {"reserved", "leaked"}
    \/ /\ rw.eligible
       /\ \/ rw.signed \/ rw.status \in {"PENDING", "PROCESSING"}
          \/ rw.status = "FAILED" /\ rw.retryable

\* A reward that is to be paid and has no signature is on its way, failed, or refused.
Unpaid(r) ==
    row[r].eligible /\ ~row[r].signed =>
        row[r].status \in {"PENDING", "PROCESSING", "FAILED", "MANUAL_REVIEW", "DAILY_LIMIT_REACHED"}

\* What was refused for the limit is not retried by hand: it would go to PENDING
\* without a reservation, as RewardsOverLimit shows.
Careful == Honest /\ "DAILY_LIMIT_REACHED" \notin Operated

LEMMA GrantedRows ==
    /\ \A q \in Rewards : q \in Granted <=> Grants(evaluation[q], row[q])
    /\ \A q \in Rewards : q \in Granted' <=> Grants(evaluation'[q], row'[q])
    /\ Granted \subseteq Rewards /\ Granted' \subseteq Rewards
BY DEF Granted, Grants, HoldsReservation

\* A step that changes one row.
LEMMA GrantedElse ==
    ASSUME NEW r \in Rewards,
           \A q \in Rewards \ {r} : row'[q] = row[q] /\ evaluation'[q] = evaluation[q]
    PROVE  /\ Grants(evaluation[r], row[r]) <=> r \in Granted
           /\ Grants(evaluation'[r], row'[r]) => Granted' = Granted \cup {r}
           /\ ~Grants(evaluation'[r], row'[r]) => Granted' = Granted \ {r}
<1>1. \A q \in Rewards \ {r} : q \in Granted' <=> q \in Granted
  BY GrantedRows
<1>. QED  BY <1>1, GrantedRows

LEMMA LedgerByEvaluation ==
    ASSUME TypeOK, PaidInv, NEW r \in Rewards, Evaluate(r)
    PROVE  LedgerStep
<1>1. row[r] \in Row /\ ~row[r].eligible /\ ~row[r].signed /\ landed[r] = 0
  <2>1. evaluation[r] # "done"
    BY DEF TypeOK, Evaluate, Register, Upserted, ClaimEvaluation, RegisterDisabled, TryReserve,
           Decline, Completed, Approve, EvaluationFails
  <2> QED BY <2>1 DEF TypeOK, PaidInv, RowSound
<1>2. UNCHANGED landed
  BY DEF Evaluate, Register, Upserted, ClaimEvaluation, RegisterDisabled, TryReserve, Decline,
         Completed, Approve, EvaluationFails
<1>3. CASE Register(r) \/ RegisterDisabled(r)
  <2>1. /\ \A q \in Rewards \ {r} : row'[q] = row[q] /\ evaluation'[q] = evaluation[q]
        /\ ~row'[r].eligible /\ evaluation[r] = "none" /\ evaluation'[r] \in {"checking", "done"}
        /\ UNCHANGED reserved
    BY <1>1, <1>3, SMTT(20) DEF TypeOK, Row, Register, Upserted, ClaimEvaluation, RegisterDisabled
  <2>2. ~Grants(evaluation[r], row[r]) /\ ~Grants(evaluation'[r], row'[r])
    BY <1>1, <2>1 DEF Grants
  <2>. QED  BY <1>2, <2>1, <2>2, GrantedElse DEF LedgerStep, Idling
<1>4. CASE TryReserve(r)
  <2>1. /\ \A q \in Rewards \ {r} : row'[q] = row[q] /\ evaluation'[q] = evaluation[q]
        /\ row'[r] = row[r] /\ evaluation[r] = "checking"
    BY <1>4 DEF TypeOK, TryReserve
  <2>2. ~Grants(evaluation[r], row[r])
    BY <1>1, <2>1 DEF Grants
  <2>3. CASE Fits(r)
    <3>1. Reserve(r) /\ evaluation'[r] = "reserved"
      BY <1>4, <2>3 DEF TypeOK, TryReserve
    <3>2. Grants(evaluation'[r], row'[r])
      BY <3>1 DEF Grants
    <3>3. Granting(r)
      BY <1>1, <1>2, <2>1, <2>2, <2>3, <3>1, <3>2, GrantedElse DEF Granting
    <3>. QED  BY <3>3 DEF LedgerStep
  <2>4. CASE ~Fits(r)
    <3>1. UNCHANGED reserved /\ evaluation'[r] = "over"
      BY <1>4, <2>4 DEF TypeOK, TryReserve
    <3>2. ~Grants(evaluation'[r], row'[r])
      BY <1>1, <2>1, <3>1 DEF Grants
    <3>. QED  BY <1>2, <2>1, <2>2, <3>1, <3>2, GrantedElse DEF LedgerStep, Idling
  <2>. QED  BY <2>3, <2>4
<1>5. CASE Decline(r)
  <2>1. /\ \A q \in Rewards \ {r} : row'[q] = row[q] /\ evaluation'[q] = evaluation[q]
        /\ ~row'[r].eligible /\ evaluation[r] \in {"checking", "over"} /\ evaluation'[r] = "done"
        /\ UNCHANGED reserved
    BY <1>1, <1>5 DEF TypeOK, Row, Decline, Completed
  <2>2. ~Grants(evaluation[r], row[r]) /\ ~Grants(evaluation'[r], row'[r])
    BY <1>1, <2>1 DEF Grants
  <2>. QED  BY <1>2, <2>1, <2>2, GrantedElse DEF LedgerStep, Idling
<1>6. CASE Approve(r)
  <2>1. /\ \A q \in Rewards \ {r} : row'[q] = row[q] /\ evaluation'[q] = evaluation[q]
        /\ row'[r].eligible /\ row'[r].status = "PENDING" /\ evaluation[r] = "reserved"
        /\ UNCHANGED reserved
    BY <1>1, <1>6 DEF TypeOK, Row, Approve, Completed
  <2>2. Grants(evaluation[r], row[r]) /\ Grants(evaluation'[r], row'[r])
    BY <2>1 DEF Grants
  <2>. QED  BY <1>2, <2>1, <2>2, GrantedElse DEF LedgerStep, Idling
<1>7. CASE EvaluationFails(r)
  <2>1. /\ \A q \in Rewards \ {r} : row'[q] = row[q] /\ evaluation'[q] = evaluation[q]
        /\ ~row'[r].eligible /\ UNCHANGED reserved
    BY <1>1, <1>7 DEF TypeOK, Row, EvaluationFails, Completed
  <2>2. IF evaluation[r] = "reserved" THEN evaluation'[r] = "leaked"
        ELSE evaluation[r] \in {"checking", "over"} /\ evaluation'[r] = "done"
    BY <1>7 DEF TypeOK, EvaluationFails
  <2>3. Grants(evaluation[r], row[r]) <=> Grants(evaluation'[r], row'[r])
    BY <1>1, <2>1, <2>2 DEF Grants
  <2>. QED  BY <1>2, <2>1, <2>3, GrantedElse DEF LedgerStep, Idling
<1>. QED  BY <1>3, <1>4, <1>5, <1>6, <1>7 DEF Evaluate

LEMMA LedgerByOperator ==
    ASSUME Careful, TypeOK, PaidInv, NEW r \in Rewards, Unpaid(r), RetryManually(r)
    PROVE  LedgerStep
<1>1. /\ row[r] \in Row /\ row[r].status \notin {"PROCESSING", "DAILY_LIMIT_REACHED"}
      /\ RowSound(r)
  BY DEF TypeOK, Careful, Honest, PaidInv, RetryManually
<1>2. UNCHANGED <<evaluation, landed>>
  BY DEF RetryManually
<1>3. CASE LostReservation(r) /\ ~Fits(r)
  <2>1. /\ \A q \in Rewards \ {r} : row'[q] = row[q] /\ evaluation'[q] = evaluation[q]
        /\ row'[r].status = "DAILY_LIMIT_REACHED" /\ row'[r].signed = row[r].signed
        /\ row'[r].eligible = row[r].eligible /\ evaluation'[r] = evaluation[r] /\ UNCHANGED reserved
    BY <1>1, <1>2, <1>3 DEF TypeOK, Row, RetryManually
  <2>2. Grants(evaluation[r], row[r]) <=> Grants(evaluation'[r], row'[r])
    BY <1>3, <2>1 DEF Grants, LostReservation
  <2>. QED  BY <1>2, <2>1, <2>2, GrantedElse DEF LedgerStep, Idling
<1>4. CASE ~(LostReservation(r) /\ ~Fits(r))
  <2>1. /\ \A q \in Rewards \ {r} : row'[q] = row[q] /\ evaluation'[q] = evaluation[q]
        /\ row'[r].status = "PENDING" /\ row'[r].signed = row[r].signed
        /\ row'[r].eligible = row[r].eligible /\ evaluation'[r] = evaluation[r]
        /\ IF LostReservation(r) THEN Reserve(r) ELSE UNCHANGED reserved
    BY <1>1, <1>2, <1>4 DEF TypeOK, Row, RetryManually
  <2>2. CASE LostReservation(r)
    <3>1. Grants(evaluation'[r], row'[r]) /\ landed[r] = 0 /\ evaluation[r] = "done"
      BY <1>1, <2>1, <2>2 DEF Grants, LostReservation, RowSound
    <3>2. ~Grants(evaluation[r], row[r])
      BY <2>2, <3>1 DEF Grants, LostReservation
    <3>3. Granting(r)
      BY <1>2, <1>4, <2>1, <2>2, <3>1, <3>2, GrantedElse DEF Granting
    <3>. QED  BY <3>3 DEF LedgerStep
  <2>3. CASE ~LostReservation(r) /\ row[r].eligible /\ Grants(evaluation[r], row[r])
    <3>1. Grants(evaluation'[r], row'[r])
      BY <2>1, <2>3 DEF Grants
    <3>. QED  BY <1>2, <2>1, <2>3, <3>1, GrantedElse DEF LedgerStep, Idling
  <2>4. CASE ~row[r].eligible
    <3>1. Grants(evaluation[r], row[r]) <=> Grants(evaluation'[r], row'[r])
      BY <2>1, <2>4 DEF Grants
    <3>. QED  BY <1>2, <2>1, <2>4, <3>1, GrantedElse DEF LedgerStep, Idling, LostReservation
  <2>5. ~LostReservation(r) /\ row[r].eligible => Grants(evaluation[r], row[r])
    BY <1>1 DEF Row, Unpaid, LostReservation, Grants
  <2>. QED  BY <2>2, <2>3, <2>4, <2>5
<1>. QED  BY <1>3, <1>4

LEMMA LedgerByClaiming ==
    ASSUME TypeOK, NEW w \in Workers, NEW S \in SUBSET Retryable, ClaimPending(w, S)
    PROVE  LedgerStep
<1>1. UNCHANGED <<evaluation, landed, reserved>>
  BY DEF ClaimPending
<1>2. ASSUME NEW q \in Rewards PROVE Grants(evaluation'[q], row'[q]) <=> Grants(evaluation[q], row[q])
  <2>1. CASE q \in Pending \cup S
    <3>1. row'[q] = [row[q] EXCEPT !.status = "PROCESSING"] /\ row[q] \in Row
      BY <2>1 DEF TypeOK, ClaimPending
    <3>2. row'[q].status = "PROCESSING" /\ row'[q].eligible = row[q].eligible
      BY <3>1 DEF Row
    <3>. QED  BY <1>1, <2>1, <3>2 DEF Pending, Retryable, Grants
  <2>2. CASE q \notin Pending \cup S
    BY <1>1, <2>2 DEF ClaimPending
  <2>. QED  BY <2>1, <2>2
<1>3. Granted' = Granted
  BY <1>2, GrantedRows
<1>. QED  BY <1>1, <1>3 DEF LedgerStep, Idling

LEMMA LedgerBySending ==
    ASSUME Honest, TypeOK, PaidInv, NEW w \in Workers, NEW c \in work[w].todo, Send(w, c)
    PROVE  LedgerStep
<1>1. work[w] \in Work /\ WorkerSound(work[w])
  BY DEF TypeOK, PaidInv
<1>2. c \in Held(work[w]) /\ c.reward \in Rewards /\ ~c.signed
  BY <1>1, HeldClaims DEF Send
<1>3. /\ row[c.reward].eligible /\ row[c.reward].status = "PROCESSING" /\ landed[c.reward] = 0
  BY <1>1, <1>2 DEF WorkerSound, ClaimsSound, TodoSound
<1>4. c.reward \in Granted
  BY <1>2, <1>3, GrantedRows DEF Grants
<1>5. UNCHANGED <<row, evaluation, reserved>>
  BY DEF Send
<1>6. Granted' = Granted
  BY <1>5 DEF Granted, HoldsReservation
<1>7. UNCHANGED landed \/ landed' = [landed EXCEPT ![c.reward] = 1]
  <2>1. UNCHANGED landed \/ landed' = [landed EXCEPT ![c.reward] = landed[c.reward] + 1]
    BY DEF Send
  <2>. QED  BY <1>3, <2>1
<1>. QED  BY <1>2, <1>3, <1>4, <1>5, <1>6, <1>7 DEF LedgerStep, Idling, Paying

\* The reward that is written has its reservation, and keeps it if it was sent.
LEMMA LedgerByWrite ==
    ASSUME TypeOK, TypeOK', PaidInv, NEW w \in Workers, Write(w) \/ WriteUnacknowledged(w)
    PROVE  LedgerStep
<1>. DEFINE c == work[w].cur
            r == work[w].cur.reward
<1>1. /\ work[w] \in Work /\ WorkerSound(work[w]) /\ Writing(w) /\ Effect(work[w].step, r)
      /\ UNCHANGED <<evaluation, landed>>
  BY DEF TypeOK, PaidInv, Write, WriteUnacknowledged
<1>2. c # NoClaim /\ c \in Held(work[w]) /\ c \in Claim /\ r \in Rewards /\ c.signed \in BOOLEAN
  BY <1>1, HeldClaims DEF TypeOK, Writing
<1>3. /\ \A q \in Rewards \ {r} : row'[q] = row[q]
      /\ row'[r].eligible = row[r].eligible
      /\ row'[r].signed = (row[r].signed \/ work[w].step = "submit")
  BY <1>1, <1>2, EffectOnRow
<1>4. row[r].eligible /\ (c.signed => row[r].signed) /\ row[r] \in Row
  BY <1>1, <1>2 DEF TypeOK, WorkerSound, ClaimsSound
<1>5. ~row[r].signed => /\ row[r].status = "PROCESSING" /\ work[w].step \in {"submit", "retry", "giveUp"}
                        /\ work[w].step # "submit" => landed[r] = 0
  BY <1>1, <1>2, <1>4 DEF WorkerSound, CurSound
<1>6. Grants(evaluation[r], row[r]) /\ evaluation[r] = "done"
  BY <1>2, <1>4, <1>5 DEF Row, PaidInv, RowSound, Grants
<1>7. \A q \in Rewards \ {r} : row'[q] = row[q] /\ evaluation'[q] = evaluation[q]
  BY <1>1, <1>3
<1>. HIDE DEF c, r
<1>8. CASE row[r].signed \/ work[w].step = "submit"
  <2>1. Grants(evaluation'[r], row'[r])
    BY <1>3, <1>4, <1>8 DEF Grants
  <2>2. UNCHANGED reserved
    BY <1>1, <1>8 DEF Effect, MarkSubmitted, MarkSent, MarkFailed, MarkManualReview, Release, HoldsReservation
  <2>. QED  BY <1>1, <1>2, <1>6, <1>7, <2>1, <2>2, GrantedElse, SMTT(20) DEF LedgerStep, Idling
<1>9. CASE ~row[r].signed /\ work[w].step = "retry"
  <2>1. MarkFailed(r, TRUE)
    BY <1>1, <1>9 DEF Effect
  <2>2. row'[r].status = "FAILED" /\ row'[r].retryable /\ UNCHANGED reserved
    BY <1>2, <1>4, <2>1 DEF TypeOK, Row, MarkFailed
  <2>3. Grants(evaluation'[r], row'[r])
    BY <1>3, <1>4, <2>2 DEF Grants
  <2>. QED  BY <1>1, <1>2, <1>6, <1>7, <2>2, <2>3, GrantedElse DEF LedgerStep, Idling
<1>10. CASE ~row[r].signed /\ work[w].step = "giveUp"
  <2>1. MarkManualReview(r)
    BY <1>1, <1>10 DEF Effect
  <2>2. row'[r].status = "MANUAL_REVIEW" /\ reserved' = Released(r)
    BY <1>2, <1>4, <1>5, <1>10, <2>1 DEF TypeOK, Row, MarkManualReview, Release, HoldsReservation
  <2>3. ~Grants(evaluation'[r], row'[r])
    BY <1>1, <1>3, <1>6, <1>10, <2>2 DEF Grants
  <2>4. Withdrawing(r)
    BY <1>1, <1>2, <1>5, <1>6, <1>7, <1>10, <2>2, <2>3, GrantedElse DEF Withdrawing
  <2>. QED  BY <1>2, <2>4 DEF LedgerStep
<1>. QED  BY <1>5, <1>8, <1>9, <1>10

LEMMA LedgerByNext ==
    ASSUME Careful, TypeOK, TypeOK', PaidInv, \A r \in Rewards : Unpaid(r), [Next]_vars
    PROVE  LedgerStep
<1>. Honest
  BY DEF Careful
<1>1. CASE UNCHANGED <<row, evaluation, reserved, landed>>
  BY <1>1 DEF LedgerStep, Idling, Granted, HoldsReservation
<1>2. ASSUME NEW r \in Rewards, Evaluate(r) \/ RetryManually(r) PROVE LedgerStep
  BY <1>2, LedgerByEvaluation, LedgerByOperator
<1>3. ASSUME NEW w \in Workers, Process(w) PROVE LedgerStep
  <2>1. CASE FindSubmitted(w) \/ \E c \in work[w].todo \cup {work[w].cur} : Verify(w, c)
    BY <1>1, <2>1 DEF FindSubmitted, Verify
  <2>. QED  BY <1>3, <2>1, LedgerByClaiming, LedgerBySending, LedgerByWrite DEF Process
<1>4. ASSUME NEW w \in Workers, WriteUnacknowledged(w) \/ WriteFails(w) \/ Crash(w) PROVE LedgerStep
  <2>1. CASE WriteFails(w) \/ Crash(w)
    BY <1>1, <2>1 DEF WriteFails, Crash
  <2>. QED  BY <1>4, <2>1, LedgerByWrite
<1>. QED  BY <1>1, <1>2, <1>3, <1>4 DEF Next, vars

LEMMA UnpaidByNext ==
    ASSUME Honest, TypeOK, TypeOK', PaidInv, PaidInv', \A r \in Rewards : Unpaid(r), [Next]_vars
    PROVE  \A r \in Rewards : Unpaid(r)'
<1>1. CASE UNCHANGED row
  BY <1>1 DEF Unpaid
<1>2. ASSUME NEW r \in Rewards, Evaluate(r) PROVE \A q \in Rewards : Unpaid(q)'
  <2>1. row[r] \in Row /\ ~row[r].eligible
    <3>1. evaluation[r] # "done"
      BY <1>2 DEF TypeOK, Evaluate, Register, Upserted, ClaimEvaluation, RegisterDisabled, TryReserve,
             Decline, Completed, Approve, EvaluationFails
    <3>. QED  BY <3>1 DEF TypeOK, PaidInv, RowSound
  <2>2. /\ \A q \in Rewards \ {r} : row'[q] = row[q]
        /\ row'[r].eligible => row'[r].status = "PENDING"
    <3>1. CASE Register(r) \/ RegisterDisabled(r) \/ TryReserve(r)
      BY <2>1, <3>1 DEF TypeOK, Row, Register, Upserted, RegisterDisabled, TryReserve
    <3>2. CASE Decline(r)
      BY <2>1, <3>2 DEF TypeOK, Row, Decline, Completed
    <3>3. CASE Approve(r)
      BY <2>1, <3>3 DEF TypeOK, Row, Approve, Completed
    <3>4. CASE EvaluationFails(r)
      BY <2>1, <3>4 DEF TypeOK, Row, EvaluationFails, Completed
    <3>. QED  BY <1>2, <3>1, <3>2, <3>3, <3>4 DEF Evaluate
  <2>. QED  BY <2>2 DEF Unpaid
<1>3. ASSUME NEW r \in Rewards, RetryManually(r) PROVE \A q \in Rewards : Unpaid(q)'
  <2>1. row[r] \in Row
    BY DEF TypeOK
  <2>2. /\ \A q \in Rewards \ {r} : row'[q] = row[q]
        /\ row'[r].status \in {"PENDING", "DAILY_LIMIT_REACHED"}
    BY <1>3, <2>1 DEF TypeOK, Row, RetryManually
  <2>. QED  BY <2>2 DEF Unpaid
<1>4. ASSUME NEW w \in Workers, NEW S \in SUBSET Retryable, ClaimPending(w, S)
      PROVE  \A q \in Rewards : Unpaid(q)'
  <2>1. \A q \in Rewards : row'[q] = row[q] \/ row'[q].status = "PROCESSING"
    BY <1>4 DEF TypeOK, Row, ClaimPending
  <2>. QED  BY <2>1 DEF Unpaid
<1>5. ASSUME NEW w \in Workers, Write(w) \/ WriteUnacknowledged(w) PROVE \A q \in Rewards : Unpaid(q)'
  <2>. DEFINE r == work[w].cur.reward
  <2>1. /\ work[w] \in Work /\ WorkerSound(work[w]) /\ Writing(w) /\ Effect(work[w].step, r)
        /\ work[w].cur # NoClaim /\ work[w].cur \in Held(work[w])
    BY <1>5, HeldClaims DEF TypeOK, PaidInv, Write, WriteUnacknowledged, Writing
  <2>2. r \in Rewards /\ row[r] \in Row
    BY <2>1, HeldClaims DEF TypeOK
  <2>3. /\ \A q \in Rewards \ {r} : row'[q] = row[q]
        /\ row'[r].signed = (row[r].signed \/ work[w].step = "submit")
    BY <2>1, <2>2, EffectOnRow
  <2>4. ~row[r].signed => work[w].step \in {"submit", "retry", "giveUp"}
    BY <2>1 DEF WorkerSound, ClaimsSound, CurSound
  <2>5. work[w].step \in {"retry", "giveUp"} => row'[r].status \in {"FAILED", "MANUAL_REVIEW"}
    <3>1. ASSUME NEW b \in BOOLEAN, MarkFailed(r, b) PROVE row'[r].status = "FAILED"
      BY <2>2, <3>1 DEF TypeOK, Row, MarkFailed
    <3>2. ASSUME MarkManualReview(r) PROVE row'[r].status = "MANUAL_REVIEW"
      BY <2>2, <3>2 DEF TypeOK, Row, MarkManualReview
    <3>. QED  BY <2>1, <3>1, <3>2 DEF Effect
  <2>. HIDE DEF r
  <2>. QED  BY <2>2, <2>3, <2>4, <2>5 DEF Unpaid
<1>6. ASSUME NEW w \in Workers, FindSubmitted(w) \/ WriteFails(w) \/ Crash(w) PROVE UNCHANGED row
  BY <1>6 DEF FindSubmitted, WriteFails, Crash
<1>7. ASSUME NEW w \in Workers, NEW c, Send(w, c) \/ Verify(w, c) PROVE UNCHANGED row
  BY <1>7 DEF Send, Verify
<1>. QED  BY <1>1, <1>2, <1>3, <1>4, <1>5, <1>6, <1>7 DEF Next, vars, Process

LEMMA BalanceKept ==
    ASSUME TypeOK, LedgerBalances, LedgerStep
    PROVE  LedgerBalances'
<1>. Granted \subseteq Rewards /\ KeyOf \in [Rewards -> Keys] /\ Prize \in [Rewards -> Nat \ {0}]
  BY GrantedRows, RewardsAssumption
<1>1. CASE Idling \/ \E r \in Rewards : Paying(r)
  BY <1>1 DEF LedgerBalances, Idling, Paying
<1>2. ASSUME NEW r \in Rewards, Granting(r) PROVE LedgerBalances'
  <2>1. \A k \in Keys : reserved'[k] = IF KeyOf[r] = k THEN reserved[k] + Prize[r] ELSE reserved[k]
    BY <1>2 DEF TypeOK, Granting, Reserve
  <2>2. \A k \in Keys : P!Budget(Granted \cup {r}, k) =
           IF KeyOf[r] = k THEN P!Budget(Granted, k) + Prize[r] ELSE P!Budget(Granted, k)
    BY <1>2, BudgetAdds DEF Granting
  <2>. QED  BY <1>2, <2>1, <2>2 DEF LedgerBalances, Granting
<1>3. ASSUME NEW r \in Rewards, Withdrawing(r) PROVE LedgerBalances'
  <2>1. Granted' \in SUBSET Rewards /\ r \in Rewards \ Granted' /\ Granted = Granted' \cup {r}
    BY <1>3 DEF Withdrawing
  <2>2. \A k \in Keys :
           /\ P!Budget(Granted', k) \in Nat
           /\ P!Budget(Granted, k) =
                IF KeyOf[r] = k THEN P!Budget(Granted', k) + Prize[r] ELSE P!Budget(Granted', k)
    BY <2>1, BudgetAdds
  <2>3. reserved[KeyOf[r]] >= Prize[r]
    BY <2>2 DEF LedgerBalances
  <2>4. \A k \in Keys : reserved'[k] = IF KeyOf[r] = k THEN reserved[k] - Prize[r] ELSE reserved[k]
    BY <1>3, <2>3 DEF TypeOK, Withdrawing, Released
  <2>5. \A k \in Keys : reserved[k] = P!Budget(Granted, k)
    BY DEF LedgerBalances
  <2>6. \A k \in Keys : reserved'[k] = P!Budget(Granted', k)
    BY <2>2, <2>4, <2>5
  <2>. QED  BY <2>6 DEF LedgerBalances
<1>. QED  BY <1>1, <1>2, <1>3 DEF LedgerStep

LEMMA EmptyBudget == \A k : P!Budget({}, k) = 0
<1>1. \A k : {q \in {} : KeyOf[q] = k} = {}
  OBVIOUS
<1>2. P!Total({}) = 0
  <2>1. P!Units({}) = {} /\ P!Cardinality({}) = Cardinality({})
    BY DEF P!Units, P!Cardinality, Cardinality
  <2>. QED  BY <2>1, FS_EmptySet DEF P!Total
<1>. QED  BY <1>1, <1>2 DEF P!Budget

BalanceInv == LedgerBalances /\ \A r \in Rewards : Unpaid(r)

LEMMA BalanceInvariant == ASSUME Careful PROVE Spec => []BalanceInv
<1>. Honest
  BY DEF Careful
<1>1. Init => BalanceInv
  <2>1. \A k : P!Budget({}, k) = 0
    BY EmptyBudget
  <2>2. Init => Granted = {} /\ (\A r \in Rewards : Unpaid(r)) /\ \A k \in Keys : reserved[k] = 0
    BY DEF Init, Granted, HoldsReservation, Unpaid
  <2>. QED  BY <2>1, <2>2 DEF BalanceInv, LedgerBalances
<1>2. TypeOK /\ TypeOK' /\ PaidInv /\ PaidInv' /\ BalanceInv /\ [Next]_vars => BalanceInv'
  BY LedgerByNext, UnpaidByNext, BalanceKept DEF BalanceInv
<1>. QED  BY <1>1, <1>2, TypesHold, PaidInvariant, PTL DEF Spec

\* The reserved amount of every day is what its unfinished and paid rewards come to, for
\* any rewards, workers, retries and crashes, as long as an error of the gateway means
\* that no transfer was made and no operator retries what was refused for the limit.
THEOREM LedgerHolds == ASSUME Careful PROVE Spec => []LedgerBalances
<1>1. BalanceInv => LedgerBalances
  BY DEF BalanceInv
<1>. QED  BY BalanceInvariant, <1>1, PTL

\* The whole of evaluation, processing, reconciliation and retries keeps the promise of
\* Payout: a reward is paid once, out of a reservation within its budget, which is given
\* up only while nothing was paid.  Every step reserves, releases or pays one reward, or
\* changes nothing that Payout speaks of.
THEOREM PayoutKept == ASSUME Careful PROVE Spec => Pays
<1>. Honest
  BY DEF Careful
<1>1. Init => P!Init
  BY DEF Init, P!Init, Granted, HoldsReservation
<1>2. ASSUME TypeOK, TypeOK', PaidInv, BalanceInv, [Next]_vars PROVE [P!Next]_<<Granted, landed>>
  <2>1. LedgerStep
    BY <1>2, LedgerByNext DEF BalanceInv
  <2>2. ASSUME NEW r \in Rewards, Granting(r) PROVE P!Grant(r)
    <3>1. Granted \subseteq Rewards /\ KeyOf[r] \in Keys /\ r \notin Granted
      BY <2>2, GrantedRows, RewardsAssumption DEF Granting
    <3>2. P!Budget(Granted \cup {r}, KeyOf[r]) = P!Budget(Granted, KeyOf[r]) + Prize[r]
      BY <3>1, BudgetAdds
    <3>3. P!Budget(Granted, KeyOf[r]) = reserved[KeyOf[r]]
      BY <1>2, <3>1 DEF BalanceInv, LedgerBalances
    <3>. QED  BY <2>2, <3>2, <3>3 DEF Granting, Fits, P!Grant
  <2>3. ASSUME NEW r \in Rewards, Withdrawing(r) PROVE P!Withdraw(r)
    BY <2>3 DEF Withdrawing, P!Withdraw
  <2>4. ASSUME NEW r \in Rewards, Paying(r) PROVE P!Pay(r)
    BY <2>4 DEF Paying, P!Pay
  <2>. QED  BY <2>1, <2>2, <2>3, <2>4 DEF LedgerStep, Idling, P!Next
<1>. QED  BY <1>1, <1>2, TypesHold, PaidInvariant, BalanceInvariant, PTL DEF Spec, Pays, P!Spec

-----------------------------------------------------------------------------
(* The amount sent.  One worker, whose writes are answered, has in hand what *)
(* nobody else records, and what was sent is not retried by hand.            *)

Alone == (\A v, w \in Workers : v = w) /\ "ack" \notin Faults /\ "SENT" \notin Operated

SentOnes == {r \in Rewards : row[r].status = "SENT"}

RowPayable(r) ==
    /\ row[r].signed \/ row[r].status = "SENT" => row[r].eligible
    /\ row[r].eligible => evaluation[r] = "done"

\* What a worker has to do was not recorded as sent.
WorkUnsent(wk) ==
    /\ \A c \in Held(wk) : row[c.reward].eligible /\ row[c.reward].status # "SENT"
    /\ BatchSound(wk)

UnsentInv ==
    /\ \A r \in Rewards : RowPayable(r)
    /\ \A w \in Workers : WorkUnsent(work[w])

\* What a step may do to the rewards recorded as sent.
SentStep ==
    \/ SentOnes' = SentOnes /\ UNCHANGED sent
    \/ \E r \in Rewards \ SentOnes : SentOnes' = SentOnes \cup {r} /\ sent' = WithSent(r)

\* A step that leaves the workers alone, and of the rows only touches some not in hand.
LEMMA UnsentRows ==
    ASSUME TypeOK, UnsentInv, UNCHANGED <<work, sent>>,
           \A r \in Rewards : /\ RowPayable(r)' /\ (row[r].eligible => row'[r].eligible)
                              /\ row'[r].status = "SENT" <=> row[r].status = "SENT"
    PROVE  UnsentInv' /\ SentStep
<1>1. SentOnes' = SentOnes
  BY DEF SentOnes
<1>2. ASSUME NEW w \in Workers PROVE WorkUnsent(work[w])'
  <2>1. work[w] \in Work /\ WorkUnsent(work[w])
    BY DEF TypeOK, UnsentInv
  <2>2. \A c \in Held(work[w]) : c.reward \in Rewards
    BY <2>1, HeldClaims
  <2>. QED  BY <2>1, <2>2 DEF WorkUnsent, BatchSound, Held
<1>. QED  BY <1>1, <1>2 DEF UnsentInv, SentStep

\* A step of the worker that leaves the rows alone.
LEMMA UnsentWork ==
    ASSUME Alone, TypeOK, UnsentInv, UNCHANGED <<row, evaluation, sent>>,
           NEW w \in Workers, NEW wk, work' = [work EXCEPT ![w] = wk], WorkUnsent(wk)
    PROVE  UnsentInv' /\ SentStep
<1>1. \A v \in Workers : v = w
  BY DEF Alone
<1>2. \A v \in Workers : work'[v] = wk
  BY <1>1 DEF TypeOK
<1>3. \A r \in Rewards : RowPayable(r)'
  BY DEF UnsentInv, RowPayable
<1>4. WorkUnsent(work[w])'
  BY <1>2 DEF WorkUnsent, BatchSound, Held
<1>5. SentOnes' = SentOnes
  BY DEF SentOnes
<1>. QED  BY <1>1, <1>3, <1>4, <1>5 DEF UnsentInv, SentStep

LEMMA UnsentByEvaluation ==
    ASSUME TypeOK, UnsentInv, NEW r \in Rewards, Evaluate(r)
    PROVE  UnsentInv' /\ SentStep
<1>1. row[r] \in Row /\ ~row[r].eligible /\ ~row[r].signed /\ row[r].status # "SENT"
  <2>1. evaluation[r] # "done"
    BY DEF TypeOK, Evaluate, Register, Upserted, ClaimEvaluation, RegisterDisabled, TryReserve,
           Decline, Completed, Approve, EvaluationFails
  <2>. QED  BY <2>1 DEF TypeOK, UnsentInv, RowPayable
<1>2. UNCHANGED <<work, sent>>
  BY DEF Evaluate, Register, Upserted, ClaimEvaluation, RegisterDisabled, TryReserve, Decline,
         Completed, Approve, EvaluationFails
<1>3. /\ \A q \in Rewards \ {r} : row'[q] = row[q] /\ evaluation'[q] = evaluation[q]
      /\ ~row'[r].signed /\ row'[r].status # "SENT" /\ (row'[r].eligible => evaluation'[r] = "done")
  <2>1. CASE Register(r) \/ RegisterDisabled(r) \/ TryReserve(r)
    BY <1>1, <2>1 DEF TypeOK, Row, Register, Upserted, ClaimEvaluation, RegisterDisabled, TryReserve
  <2>2. CASE Decline(r)
    BY <1>1, <2>2 DEF TypeOK, Row, Decline, Completed
  <2>3. CASE Approve(r)
    BY <1>1, <2>3 DEF TypeOK, Row, Approve, Completed
  <2>4. CASE EvaluationFails(r)
    BY <1>1, <2>4 DEF TypeOK, Row, EvaluationFails, Completed
  <2>. QED  BY <2>1, <2>2, <2>3, <2>4 DEF Evaluate
<1>4. \A q \in Rewards : RowPayable(q)'
  BY <1>1, <1>3 DEF UnsentInv, RowPayable
<1>. QED  BY <1>1, <1>2, <1>3, <1>4, UnsentRows

LEMMA UnsentByOperator ==
    ASSUME Alone, TypeOK, UnsentInv, NEW r \in Rewards, RetryManually(r)
    PROVE  UnsentInv' /\ SentStep
<1>1. row[r] \in Row /\ row[r].status # "SENT"
  BY DEF TypeOK, Alone, RetryManually
<1>2. UNCHANGED <<evaluation, work, sent>>
  BY DEF RetryManually
<1>3. /\ \A q \in Rewards \ {r} : row'[q] = row[q]
      /\ row'[r].signed = row[r].signed /\ row'[r].eligible = row[r].eligible
      /\ row'[r].status # "SENT"
  BY <1>1 DEF TypeOK, Row, RetryManually
<1>4. \A q \in Rewards : RowPayable(q)'
  BY <1>1, <1>2, <1>3 DEF UnsentInv, RowPayable
<1>. QED  BY <1>1, <1>2, <1>3, <1>4, UnsentRows

LEMMA UnsentByFinding ==
    ASSUME Alone, TypeOK, UnsentInv, NEW w \in Workers, FindSubmitted(w)
    PROVE  UnsentInv' /\ SentStep
<1>. DEFINE wk == [Idle EXCEPT !.phase = "reconciling", !.todo = {ClaimOf(r) : r \in Submitted}]
<1>1. work' = [work EXCEPT ![w] = wk] /\ UNCHANGED <<row, evaluation, sent>>
  BY DEF FindSubmitted
<1>2. wk.todo = {ClaimOf(r) : r \in Submitted} /\ wk.cur = NoClaim
  BY DEF Idle
<1>3. \A r \in Submitted : r \in Rewards /\ row[r].eligible /\ row[r].status # "SENT"
  BY DEF Submitted, UnsentInv, RowPayable
<1>4. \A c \in Held(wk) : c.reward \in Submitted /\ c = ClaimOf(c.reward)
  BY <1>2 DEF Held, ClaimOf
<1>. HIDE DEF wk
<1>5. WorkUnsent(wk)
  BY <1>2, <1>3, <1>4 DEF WorkUnsent, BatchSound, Held
<1>. QED  BY <1>1, <1>5, UnsentWork

LEMMA UnsentByClaiming ==
    ASSUME Alone, TypeOK, UnsentInv, NEW w \in Workers, NEW S \in SUBSET Retryable, ClaimPending(w, S)
    PROVE  UnsentInv' /\ SentStep
<1>. DEFINE claimed == Pending \cup S
<1>1. UNCHANGED <<evaluation, sent>> /\ claimed \subseteq Rewards
  BY DEF ClaimPending, Pending, Retryable
<1>2. \A r \in claimed : row[r].status # "SENT" /\ row[r].eligible
  BY DEF Pending, Retryable
<1>3. \A r \in Rewards : /\ r \notin claimed => row'[r] = row[r]
                         /\ r \in claimed => row'[r].status = "PROCESSING"
                         /\ row'[r].signed = row[r].signed /\ row'[r].eligible = row[r].eligible
  BY DEF TypeOK, Row, ClaimPending
<1>4. \A r \in Rewards : RowPayable(r)'
  BY <1>1, <1>2, <1>3 DEF UnsentInv, RowPayable
<1>5. \A c \in Held(work'[w]) : c.reward \in claimed /\ c = ClaimOf(c.reward)
  <2>1. work'[w] = IF claimed = {} THEN Idle
                   ELSE [Idle EXCEPT !.phase = "paying", !.todo = {ClaimOf(r) : r \in claimed}]
    BY DEF TypeOK, ClaimPending
  <2>2. work'[w].todo = {ClaimOf(r) : r \in claimed} /\ work'[w].cur = NoClaim
    BY <2>1 DEF Idle
  <2>. HIDE DEF claimed
  <2>. QED  BY <2>2 DEF Held, ClaimOf
<1>6. work'[w].cur = NoClaim
  BY DEF TypeOK, ClaimPending, Idle
<1>7. SentOnes' = SentOnes
  BY <1>1, <1>2, <1>3 DEF SentOnes
<1>. HIDE DEF claimed
<1>8. WorkUnsent(work[w])'
  <2>1. \A c \in Held(work[w])' : row'[c.reward].eligible /\ row'[c.reward].status # "SENT"
    BY <1>1, <1>2, <1>3, <1>5 DEF Held
  <2>2. BatchSound(work[w])'
    BY <1>5, <1>6 DEF BatchSound, Held
  <2>. QED  BY <2>1, <2>2 DEF WorkUnsent
<1>9. \A v \in Workers : v = w
  BY DEF Alone
<1>. QED  BY <1>1, <1>4, <1>7, <1>8, <1>9 DEF UnsentInv, SentStep

LEMMA UnsentByCalls ==
    ASSUME Alone, TypeOK, UnsentInv, NEW w \in Workers, NEW c \in work[w].todo \cup {work[w].cur},
           Send(w, c) \/ Verify(w, c)
    PROVE  UnsentInv' /\ SentStep
<1>1. work[w] \in Work /\ WorkUnsent(work[w]) /\ (work[w].step = "next" <=> work[w].cur = NoClaim)
  BY DEF TypeOK, UnsentInv
<1>2. c \in Claim /\ c \in Held(work[w])
  BY <1>1, HeldClaims DEF Send, Verify, Work, Held
<1>3. PICK s : Attending(w, c, s)
  BY DEF Send, Verify
<1>4. PICK wk : /\ work' = [work EXCEPT ![w] = wk]
                /\ wk.todo = work[w].todo \ {c} /\ wk.cur = c /\ wk.step = s
  BY <1>2, <1>3, Attended
<1>5. UNCHANGED <<row, evaluation, sent>>
  BY DEF Send, Verify
<1>6. Held(wk) \subseteq Held(work[w])
  BY <1>2, <1>4 DEF Held
<1>7. BatchSound(wk)
  BY <1>1, <1>2, <1>4 DEF WorkUnsent, BatchSound, Held
<1>8. WorkUnsent(wk)
  BY <1>1, <1>6, <1>7 DEF WorkUnsent
<1>. QED  BY <1>4, <1>5, <1>8, UnsentWork

LEMMA UnsentByWrite ==
    ASSUME Alone, TypeOK, TypeOK', UnsentInv, NEW w \in Workers, Write(w)
    PROVE  UnsentInv' /\ SentStep
<1>. DEFINE c == work[w].cur
            r == work[w].cur.reward
            wk == Continued(work[w])
<1>1. /\ work[w] \in Work /\ WorkUnsent(work[w]) /\ Writing(w) /\ Effect(work[w].step, r)
      /\ UNCHANGED evaluation /\ \A v \in Workers : v = w
  BY DEF TypeOK, UnsentInv, Write, Alone
<1>2. c # NoClaim /\ c \in Held(work[w]) /\ r \in Rewards
  BY <1>1, HeldClaims DEF TypeOK, Writing
<1>3. /\ \A q \in Rewards \ {r} : row'[q] = row[q]
      /\ row'[r].eligible = row[r].eligible
      /\ row'[r].signed = (row[r].signed \/ work[w].step = "submit")
  BY <1>1, <1>2, EffectOnRow
<1>4. row[r].eligible /\ row[r].status # "SENT" /\ row[r] \in Row
  BY <1>1, <1>2 DEF TypeOK, WorkUnsent
<1>5. work'[w] = wk
  BY DEF TypeOK, Write
<1>6. /\ wk.todo = {} \/ wk.todo = work[w].todo
      /\ wk.cur \in {c, NoClaim} /\ (work[w].step # "submit" => wk.cur = NoClaim)
  BY <1>1 DEF Continued, Idle, Work
<1>7. IF work[w].step = "sent" THEN row'[r].status = "SENT" /\ sent' = WithSent(r)
      ELSE row'[r].status # "SENT" /\ UNCHANGED sent
  <2>1. CASE work[w].step = "submit" /\ MarkSubmitted(r)
    BY <1>2, <1>4, <2>1 DEF TypeOK, Row, MarkSubmitted
  <2>2. CASE work[w].step = "sent" /\ MarkSent(r)
    BY <1>2, <1>4, <2>2 DEF TypeOK, Row, MarkSent, RecordSent
  <2>3. ASSUME NEW b \in BOOLEAN, MarkFailed(r, b) PROVE row'[r].status # "SENT" /\ UNCHANGED sent
    BY <1>2, <1>4, <2>3 DEF TypeOK, Row, MarkFailed
  <2>4. ASSUME MarkManualReview(r) PROVE row'[r].status # "SENT" /\ UNCHANGED sent
    BY <1>2, <1>4, <2>4 DEF TypeOK, Row, MarkManualReview
  <2>. HIDE DEF r, wk, c
  <2>. QED  BY <1>1, <2>1, <2>2, <2>3, <2>4 DEF Effect
<1>. HIDE DEF c, r, wk
<1>8. \A q \in Rewards : RowPayable(q)'
  <2>1. ASSUME NEW q \in Rewards, q = r PROVE RowPayable(q)'
    <3>1. RowPayable(q) /\ row'[q].eligible /\ row[q].eligible
      BY <1>3, <1>4, <2>1 DEF UnsentInv
    <3>. QED  BY <1>1, <3>1 DEF RowPayable
  <2>2. ASSUME NEW q \in Rewards, q # r PROVE RowPayable(q)'
    BY <1>1, <1>3, <2>2 DEF UnsentInv, RowPayable
  <2>. QED  BY <2>1, <2>2
<1>9. \A d \in work[w].todo : d \in Held(work[w]) /\ d.reward \in Rewards \ {r}
  <2>1. \A d \in work[w].todo : d \in Held(work[w]) /\ d.reward \in Rewards
    BY <1>1, HeldClaims
  <2>2. \A d \in work[w].todo : d.reward # r
    BY <1>1, <1>2 DEF WorkUnsent, BatchSound, c, r
  <2>. QED  BY <2>1, <2>2
<1>10. \A d \in Held(wk) : row'[d.reward].eligible /\ row'[d.reward].status # "SENT"
  <2>1. ASSUME NEW d \in wk.todo PROVE row'[d.reward].eligible /\ row'[d.reward].status # "SENT"
    <3>1. d \in work[w].todo
      BY <1>6, <2>1
    <3>. QED  BY <1>1, <1>3, <1>9, <3>1 DEF WorkUnsent
  <2>2. ASSUME wk.cur # NoClaim PROVE row'[wk.cur.reward].eligible /\ row'[wk.cur.reward].status # "SENT"
    <3>1. wk.cur = c /\ work[w].step = "submit"
      BY <1>6, <2>2
    <3>. QED  BY <1>3, <1>4, <1>7, <3>1 DEF c, r
  <2>. QED  BY <2>1, <2>2 DEF Held
<1>11. BatchSound(wk)
  BY <1>1, <1>6 DEF WorkUnsent, BatchSound, c
<1>12. WorkUnsent(work[w])'
  BY <1>5, <1>10, <1>11 DEF WorkUnsent, BatchSound, Held
<1>13. SentStep
  BY <1>2, <1>3, <1>4, <1>7 DEF SentStep, SentOnes
<1>. QED  BY <1>1, <1>8, <1>12, <1>13 DEF UnsentInv

LEMMA UnsentByFault ==
    ASSUME Alone, TypeOK, UnsentInv, NEW w \in Workers, WriteFails(w) \/ Crash(w)
    PROVE  UnsentInv' /\ SentStep
<1>1. work[w] \in Work /\ WorkUnsent(work[w]) /\ UNCHANGED <<row, evaluation, sent>>
  BY DEF TypeOK, UnsentInv, WriteFails, Crash
<1>2. PICK wk \in {Broken(work[w]), Idle} : work' = [work EXCEPT ![w] = wk]
  BY DEF WriteFails, Crash
<1>3. wk = Idle \/ (wk.todo = work[w].todo /\ wk.cur = work[w].cur)
  BY <1>1, <1>2 DEF Broken, Work
<1>4. WorkUnsent(wk)
  BY <1>1, <1>3 DEF WorkUnsent, BatchSound, Held, Idle
<1>. QED  BY <1>1, <1>2, <1>4, UnsentWork

LEMMA UnsentByNext ==
    ASSUME Alone, TypeOK, TypeOK', UnsentInv, [Next]_vars
    PROVE  UnsentInv' /\ SentStep
<1>1. CASE UNCHANGED vars
  BY <1>1 DEF vars, UnsentInv, RowPayable, WorkUnsent, BatchSound, Held, SentStep, SentOnes
<1>2. ASSUME NEW r \in Rewards, Evaluate(r) \/ RetryManually(r) PROVE UnsentInv' /\ SentStep
  BY <1>2, UnsentByEvaluation, UnsentByOperator
<1>3. ASSUME NEW w \in Workers, Process(w) PROVE UnsentInv' /\ SentStep
  BY <1>3, UnsentByFinding, UnsentByClaiming, UnsentByCalls, UnsentByWrite DEF Process
<1>4. ASSUME NEW w \in Workers, WriteUnacknowledged(w) \/ WriteFails(w) \/ Crash(w)
      PROVE  UnsentInv' /\ SentStep
  <2>1. ~WriteUnacknowledged(w)
    BY DEF Alone, WriteUnacknowledged
  <2>. QED  BY <1>4, <2>1, UnsentByFault
<1>. QED  BY <1>1, <1>2, <1>3, <1>4 DEF Next

\* With a single worker whose writes are answered, the amount sent on a day is the sum of
\* the rewards recorded as sent, whatever it crashes on, however a transfer or a write
\* fails, and whatever an operator retries but what was sent.
THEOREM SentHolds == ASSUME Alone PROVE Spec => []SentAddsUp
<1>1. Init => UnsentInv /\ SentAddsUp
  <2>1. Init => UnsentInv
    BY DEF Init, UnsentInv, RowPayable, WorkUnsent, BatchSound, Held, Idle
  <2>2. \A k : P!Budget({}, k) = 0
    BY EmptyBudget
  <2>3. Init => SentOnes = {} /\ \A k \in Keys : sent[k] = 0
    BY DEF Init, SentOnes
  <2>. QED  BY <2>1, <2>2, <2>3 DEF SentAddsUp, SentOnes
<1>2. ASSUME TypeOK, TypeOK', UnsentInv, SentAddsUp, [Next]_vars PROVE UnsentInv' /\ SentAddsUp'
  <2>1. UnsentInv' /\ SentStep /\ SentOnes \subseteq Rewards
    BY <1>2, UnsentByNext DEF SentOnes
  <2>2. \A k \in Keys : sent[k] = P!Budget(SentOnes, k)
    BY <1>2 DEF SentAddsUp, SentOnes
  <2>3. CASE SentOnes' = SentOnes /\ UNCHANGED sent
    BY <2>1, <2>2, <2>3 DEF SentAddsUp, SentOnes
  <2>4. ASSUME NEW r \in Rewards \ SentOnes, SentOnes' = SentOnes \cup {r}, sent' = WithSent(r)
        PROVE  SentAddsUp'
    <3>1. KeyOf[r] \in Keys /\ sent \in [Keys -> Nat]
      BY <1>2, RewardsAssumption DEF TypeOK
    <3>2. \A k \in Keys : sent'[k] = IF KeyOf[r] = k THEN sent[k] + Prize[r] ELSE sent[k]
      BY <2>4, <3>1 DEF WithSent
    <3>3. \A k \in Keys : P!Budget(SentOnes \cup {r}, k) =
             IF KeyOf[r] = k THEN P!Budget(SentOnes, k) + Prize[r] ELSE P!Budget(SentOnes, k)
      BY <2>1, <2>4, BudgetAdds
    <3>4. \A k \in Keys : sent'[k] = P!Budget(SentOnes', k)
      BY <2>2, <2>4, <3>2, <3>3
    <3>. QED  BY <3>4 DEF SentAddsUp, SentOnes
  <2>. QED  BY <2>1, <2>3, <2>4 DEF SentStep
<1>. QED  BY <1>1, <1>2, TypesHold, PTL DEF Spec
=============================================================================
