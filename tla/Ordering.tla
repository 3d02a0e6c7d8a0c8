------------------------------ MODULE Ordering ------------------------------
(***************************************************************************)
(* The elements of a finite set in an order: what orderBy of a query and   *)
(* filter of a list leave.  SelectSeq and SetToSortSeq say the same, of    *)
(* which nothing can be proved.                                            *)
(***************************************************************************)
EXTENDS Naturals, FiniteSets

\* R is the order, as a set of pairs: those of S that come before x.
Before(S, R, x) == {y \in S : <<y, x>> \in R}

InOrderOf(S, R) ==
    [n \in 1..Cardinality(S) |-> CHOOSE x \in S : Cardinality(Before(S, R, x)) = n - 1]

Ascending(S) == InOrderOf(S, {p \in S \X S : p[1] < p[2]})

\* What is left of a list without the entries outside S, in its order.
Kept(s, S) ==
    LET places == Ascending({n \in DOMAIN s : s[n] \in S})
    IN  [n \in DOMAIN places |-> s[places[n]]]
=============================================================================
