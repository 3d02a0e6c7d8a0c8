------------------------------ MODULE MCRooms ------------------------------
(***************************************************************************)
(* Small instances of Rooms for TLC.  A socket is a pair of its user and a *)
(* number, so a user with two of them is one with two tabs.                *)
(***************************************************************************)
EXTENDS Rooms, TLC

CONSTANTS u1, u2, u3, s1, s2, s3, t1

MCOwner  == [s \in Sockets |-> CASE s \in {s1, t1} -> u1 [] s = s2 -> u2 [] OTHER -> u3]
MCNameOf == [r \in PrivateRooms |-> "arena"]

\* Users are interchangeable, each together with the socket it owns.  Only for
\* instances with one socket per user, and never under liveness checking.
MCSymmetry ==
    {p @@ [s \in Sockets |-> CHOOSE t \in Sockets : MCOwner[t] = p[MCOwner[s]]]
        : p \in Permutations(Users)}

\* The two tabs of one user are interchangeable.  Never under liveness checking.
MCTabs == Permutations({s1, t1})
=============================================================================
