---------------------------- MODULE MCDirectChat ----------------------------
(***************************************************************************)
(* DirectChat on a small instance: one user with two sessions, whose sends *)
(* and acknowledgements race, and one with a single session.               *)
(***************************************************************************)
EXTENDS DirectChat, TLC

CONSTANTS ann, bob, a1, a2, b1, x, y, none, noid

MCUserOf == [s \in Sessions |-> IF s = b1 THEN bob ELSE ann]

\* The client ids, and the sessions of one user, are interchangeable.
Symmetries == Permutations({a1, a2}) \cup Permutations(ClientIds)

=============================================================================
