-------------------------- MODULE MCEventsDelivery --------------------------
(* EventsDelivery for TLC: feeds are interchangeable. *)
EXTENDS EventsDelivery, TLC

Symmetry == Permutations(Feeds)
=============================================================================
