------------------------------- MODULE Payout -------------------------------
(***************************************************************************)
(* What backend/src/rewards promises of the rewards of finished matches,   *)
(* whatever workers, failures and operators do in between: a reward is     *)
(* paid only out of a reservation within its daily budget, a reservation   *)
(* is given up only while nothing was paid from it, and no reward is paid  *)
(* twice.                                                                  *)
(***************************************************************************)
EXTENDS Naturals, FiniteSets

CONSTANTS Rewards, KeyOf, Prize, DailyLimit

VARIABLES
    granted,   \* rewards whose prize is reserved
    paid       \* transfers made for each reward

\* A prize of n is n units, and rewards come to as many as they have together.
Units(S) == UNION {{r} \X (1 .. Prize[r]) : r \in S}
Total(S) == Cardinality(Units(S))
Budget(G, k) == Total({r \in G : KeyOf[r] = k})

Init == granted = {} /\ paid = [r \in Rewards |-> 0]

Grant(r) ==
    /\ r \notin granted /\ paid[r] = 0
    /\ granted' = granted \cup {r}
    /\ Budget(granted', KeyOf[r]) <= DailyLimit
    /\ UNCHANGED paid

Withdraw(r) ==
    /\ r \in granted /\ paid[r] = 0
    /\ granted' = granted \ {r} /\ UNCHANGED paid

Pay(r) ==
    /\ r \in granted /\ paid[r] = 0
    /\ paid' = [paid EXCEPT ![r] = 1] /\ UNCHANGED granted

Next == \E r \in Rewards : Grant(r) \/ Withdraw(r) \/ Pay(r)

Spec == Init /\ [][Next]_<<granted, paid>>
=============================================================================
