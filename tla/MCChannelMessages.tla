------------------------- MODULE MCChannelMessages --------------------------
(***************************************************************************)
(* ChannelMessages on a small instance: two sessions of one user that may  *)
(* send the same client_msg_id, the cleanup loop next to an administrator  *)
(* who changes the expiry time, and one reader.                            *)
(***************************************************************************)
EXTENDS ChannelMessages

CONSTANTS ann, a1, a2, x, y, reader, admin, loop, none, noid

MCUserOf == [s \in Sessions |-> ann]

=============================================================================
