------------------------------ MODULE MCSpaces ------------------------------
(***************************************************************************)
(* Spaces on a small instance: the site admin and two further accounts,    *)
(* one libp2p session and one HTTP request, or two libp2p sessions.        *)
(***************************************************************************)
EXTENDS Spaces, TLC

CONSTANTS root, ann, bob, nobody, s1, s2, h1

\* The two accounts besides the site admin are interchangeable.
Symmetry == Permutations({ann, bob})

=============================================================================
