------------------------------- MODULE MCBlobs -------------------------------
(***************************************************************************)
(* Blobs on a small instance: two contents, two uploads and two messages   *)
(* at a time, so that uploads of one content collide and transactions wait *)
(* for each other's rows.                                                  *)
(***************************************************************************)
EXTENDS Blobs, TLC

Symmetry == Permutations(Contents) \cup Permutations(Uploads) \cup Permutations(Senders)

=============================================================================
