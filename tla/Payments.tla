------------------------------ MODULE Payments ------------------------------
(***************************************************************************)
(* The state machine of one Payment entity, as the four handlers of        *)
(* PaymentsRepository drive it.  A handler is handed the state the payment *)
(* should move to and either moves it (and routes the event to the         *)
(* payment's subject in the same transaction), ignores the call, or throws *)
(* and thereby aborts the transaction it runs in.                          *)
(***************************************************************************)

PaymentStates == {"pending", "failing", "action_required", "success", "canceled"}

Completed == {"success", "canceled"}

\* Payment.pending, the index the payment scheduler polls: a payment waiting
\* for its user's action is not in it.
Schedulable == {"pending", "failing"}

\* Mutant of Handles: a payment that waits for its user is not completed.
Handles_Schedulable(to) == IF to = "failing" THEN {"pending"} ELSE Schedulable

\* The states from which the handler for `to` moves the payment to `to`.
Handles(to) ==
  CASE to = "success"         -> PaymentStates \ Completed
    [] to = "canceled"        -> PaymentStates \ Completed
    [] to = "failing"         -> {"pending"}
    [] to = "action_required" -> {"pending", "failing"}

\* 'Payment already canceled!': the one call a handler refuses with an error.
Refused(state, to) == state = "canceled" /\ to = "success"

=============================================================================
