----------------------------- MODULE MCDelivery -----------------------------
(***************************************************************************)
(* Delivery on a small instance: a device, a WebSocket with a buffer of    *)
(* one event, and a sender of each kind.                                   *)
(***************************************************************************)
EXTENDS Delivery

=============================================================================
