-------------------------- MODULE MCHandoffDelivery --------------------------
(* HandoffDelivery on two hand-offs of one session and one restart.        *)
EXTENDS HandoffDelivery
=============================================================================
