---------------------------- MODULE MessageStream ----------------------------
(***************************************************************************)
(* What a remote stream promises its reader, whatever the network does:    *)
(* the reader gets the messages in the order they were sent, each once and *)
(* none skipped, and nothing after the stream was closed.  It may be cut   *)
(* short at any point.                                                     *)
(***************************************************************************)
EXTENDS Naturals, Sequences

VARIABLES
    sent,    \* how many messages were sent: they are numbered from 0
    got,     \* the messages the reader was given
    closed   \* the reader was told, or decided, that there is no more

Init == sent = 0 /\ got = <<>> /\ closed = FALSE

Send == sent' = sent + 1 /\ UNCHANGED <<got, closed>>

Deliver ==
    /\ ~closed
    /\ \E n \in Len(got)+1..sent : got' = [i \in 1..n |-> i - 1]
    /\ UNCHANGED <<sent, closed>>

Close == closed' = TRUE /\ UNCHANGED <<sent, got>>

Next == Send \/ Deliver \/ Close

Spec == Init /\ [][Next]_<<sent, got, closed>>
==============================================================================
