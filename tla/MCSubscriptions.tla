--------------------------- MODULE MCSubscriptions ---------------------------
(* An instance of Subscriptions for TLC: two subscriptions of one user.     *)
EXTENDS Subscriptions

CONSTANTS s1, s2
=============================================================================
