----------------------------- MODULE MCDelivery -----------------------------
(***************************************************************************)
(* Delivery on a small instance: one request and one message that cannot   *)
(* be parsed, one retry, three connections.                                *)
(***************************************************************************)
EXTENDS Delivery

CONSTANTS m1, bad

MCMessage   == {m1, bad}
MCMalformed == {bad}
=============================================================================
