----------------------------- MODULE MCCounters -----------------------------
(* Counters for TLC: two users, a room and a private chat. *)
EXTENDS Counters

CONSTANTS u1, u2, c1

Says(who, all, visibleOnlyTo) ==
  [mentions |-> who, allMention |-> all, visibleOnlyTo |-> visibleOnlyTo]

MCContents == {Says({u2}, FALSE, {}), Says({u2}, TRUE, {u2})}
MCMutable == {<<u2, c1>>}
MCOutsiders == {<<u1, c1>>}
=============================================================================
