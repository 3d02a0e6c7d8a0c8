------------------------------- MODULE Turns -------------------------------
(***************************************************************************)
(* Loops of the game that go through a list and change the state at every  *)
(* entry of it.                                                            *)
(***************************************************************************)
EXTENDS Naturals, Sequences

\* Applied to the entries of s in order; as a recursive function, which TLC evaluates
\* faster than the folds of the libraries.
InTurn(op(_, _), g, s) ==
    LET done[i \in 0..Len(s)] == IF i = 0 THEN g ELSE op(done[i - 1], s[i]) IN done[Len(s)]

Numbered(n) == [i \in 1..n |-> i]
=============================================================================
