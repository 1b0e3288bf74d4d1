--------------------------- MODULE PaymentMediator ---------------------------
(***************************************************************************)
(* The life of one payment between FoundationDB and Stripe.                *)
(*                                                                         *)
(* The payment scheduler enqueues attempts; queue workers execute them in  *)
(* one long transaction each, that calls Stripe from inside; the reader of *)
(* Stripe's events and cancellations look the payment                      *)
(* intent up at Stripe on their own.  Stripe's answers and the             *)
(* transaction's fate are independent: a charge may go through while the   *)
(* transaction that made it is retried from its start, or is lost with its *)
(* process.                                                                *)
(*                                                                         *)
(* Stripe is modelled from how the code uses it: creating an intent is     *)
(* idempotent (key 'payment-' + pid), succeeded and canceled are final.    *)
(*                                                                         *)
(* The parts every specification has are named PMInit, PMNext and so on,   *)
(* so that a module can speak of payments and of Subscriptions together.   *)
(***************************************************************************)
EXTENDS Integers, Payments

CONSTANTS Workers,     \* workers of 'payment-executor-task'
          MaxAttempts, \* bound on PaymentScheduling.attempt
          MaxDeaths    \* bound on the deaths of workers

ASSUME PaymentMediatorAssumption == MaxAttempts \in Nat \ {0} /\ MaxDeaths \in Nat

VARIABLES
  payment, \* Payment.state
  piid,    \* Payment.piid is set
  intent,  \* PaymentIntent.state, "none" when it is not registered
  sch,     \* PaymentScheduling; its record is created with attempt 1
  tasks,   \* attempts in the queue
  stripe,  \* the payment intent at Stripe
  event,   \* Stripe's event of the intent's completion, on its way to us
  pc, task, snap, view, ok, \* a worker's step, its attempt, what its
           \*   transaction read, what it is about to write, and its result
  upc,     \* the steps of those who look the intent up
  deaths   \* how often a worker died, or its handler threw

db == <<payment, piid, intent>>
workerVars == <<pc, task, snap, view, ok>>
pmVars == <<payment, piid, intent, sch, tasks, stripe, event, pc, task,
            snap, view, ok, upc, deaths>>

Updaters == {"reader", "canceler"}
Final == {"succeeded", "canceled"}

\* What a transaction on the payment sees.
Records == [payment : PaymentStates, piid : BOOLEAN,
            intent : {"none", "pending", "success", "canceled"}]
Current == [payment |-> payment, piid |-> piid, intent |-> intent]
Schedules == [attempt : 1 .. MaxAttempts, inProgress : BOOLEAN]
NoTask == 0
Nothing == [payment |-> "pending", piid |-> FALSE, intent |-> "none"]
Unscheduled == [attempt |-> 1, inProgress |-> FALSE]

PMTypeOK ==
  /\ Current \in Records
  /\ sch \in Schedules
  /\ tasks \subseteq 1 .. MaxAttempts
  /\ stripe \in {"none", "open"} \union Final
  /\ event \in {"none", "queued", "read"}
  /\ pc \in [Workers -> {"idle", "begin", "create", "update", "card", "commit", "done"}]
  /\ task \in [Workers -> {NoTask} \union 1 .. MaxAttempts]
  /\ snap \in [Workers -> [db : Records, sch : Schedules]]
  /\ view \in [Workers -> Records]
  /\ ok \in [Workers -> BOOLEAN]
  /\ upc \in [Updaters -> {"idle", "preflight", "check", "retrieve", "apply", "cancel"}]
  /\ deaths \in 0 .. MaxDeaths

PMInit ==
  /\ payment = "pending" /\ piid = FALSE /\ intent = "none"
  /\ sch = Unscheduled
  /\ tasks = {}
  /\ stripe = "none"
  /\ event = "none"
  /\ pc = [w \in Workers |-> "idle"]
  /\ task = [w \in Workers |-> NoTask]
  /\ snap = [w \in Workers |-> [db |-> Nothing, sch |-> Unscheduled]]
  /\ view = [w \in Workers |-> Nothing]
  /\ ok = [w \in Workers |-> FALSE]
  /\ upc = [u \in Updaters |-> "idle"]
  /\ deaths = 0

-----------------------------------------------------------------------------
(* PaymentIntentsRepository: an intent that is unknown or completed ignores *)
(* every event; otherwise the event moves it and, through RoutingRepository,*)
(* its payment, in one transaction; a refused event aborts it (LedgersAgree *)
(* shows that none is).                                                    *)

\* Mutant of paymentIntent: only the payment moves.
paymentIntent_PaymentOnly(r, to) ==
  IF r.intent # "pending" THEN r
  ELSE [r EXCEPT !.payment = IF @ \in Handles(to) THEN to ELSE @]

paymentIntent(r, to) ==
  IF r.intent # "pending" \/ Refused(r.payment, to) THEN r
  ELSE [r EXCEPT !.intent = IF to \in Completed THEN to ELSE @,
                 !.payment = IF @ \in Handles(to) THEN to ELSE @]

Outcome == IF stripe = "succeeded" THEN "success" ELSE "canceled"

Write(r) ==
  /\ payment' = r.payment
  /\ piid' = r.piid
  /\ intent' = r.intent

-----------------------------------------------------------------------------
(* startPaymentScheduler: the singleton.                                   *)

\* The pass works from a list of Payment.pending that was read before, so the
\* payment may have left that index.  The pause of an hour that follows two
\* failures is left to fairness.
Enqueue ==
  /\ ~sch.inProgress
  /\ sch.attempt < MaxAttempts
  /\ sch' = [attempt |-> sch.attempt + 1, inProgress |-> TRUE]
  /\ tasks' = tasks \union {sch.attempt + 1}
  /\ UNCHANGED <<db, stripe, event, workerVars, upc, deaths>>

-----------------------------------------------------------------------------
(* A worker executes an attempt: tryExecutePayment, in the transaction of  *)
(* the queue's handler.                                                    *)

\* The queue delivers a task until it is completed, and to a second worker if
\* the first one loses its lease.
Take(w, a) ==
  /\ pc[w] = "idle"
  /\ a \in tasks
  /\ pc' = [pc EXCEPT ![w] = "begin"]
  /\ task' = [task EXCEPT ![w] = a]
  /\ UNCHANGED <<db, sch, tasks, stripe, event, snap, view, ok, upc, deaths>>

Goto(w, l) == pc' = [pc EXCEPT ![w] = l]

\* The transaction, if any, is over and its reads and writes are forgotten.
Forget(w) ==
  /\ snap' = [snap EXCEPT ![w] = [db |-> Nothing, sch |-> Unscheduled]]
  /\ view' = [view EXCEPT ![w] = Nothing]
  /\ ok' = [ok EXCEPT ![w] = FALSE]

Rest(w) == Goto(w, "idle") /\ task' = [task EXCEPT ![w] = NoTask] /\ Forget(w)

\* A completed payment makes tryExecutePayment return nothing, which the
\* handler takes for a failed attempt.
Begin(w) ==
  /\ pc[w] = "begin"
  /\ snap' = [snap EXCEPT ![w] = [db |-> Current, sch |-> sch]]
  /\ view' = [view EXCEPT ![w] = Current]
  /\ ok' = [ok EXCEPT ![w] = FALSE]
  /\ Goto(w, IF payment \in Completed THEN "commit"
             ELSE IF piid THEN "update" ELSE "create")
  /\ UNCHANGED <<db, sch, tasks, stripe, event, task, upc, deaths>>

\* createPaymentIntent.  The intent and piid are registered by this
\* transaction, whatever becomes of it; at Stripe the intent exists from now on.
CreateIntent(w) ==
  /\ pc[w] = "create"
  /\ stripe' = IF stripe = "none" THEN "open" ELSE stripe
  /\ view' = [view EXCEPT ![w] = [@ EXCEPT !.piid = TRUE, !.intent = "pending"]]
  /\ Goto(w, "update")
  /\ UNCHANGED <<db, sch, tasks, event, task, snap, ok, upc, deaths>>

\* The transaction is about to be commited with the intent's event `to`.
Conclude(w, to, result) ==
  /\ view' = [view EXCEPT ![w] = paymentIntent(@, to)]
  /\ ok' = [ok EXCEPT ![w] = result]
  /\ Goto(w, "commit")

Lookup(w) ==
  /\ pc[w] = "update"
  /\ IF stripe \in Final
     THEN Conclude(w, Outcome, TRUE)
     ELSE Goto(w, "card") /\ UNCHANGED <<view, ok>>
  /\ UNCHANGED <<db, sch, tasks, stripe, event, task, snap, upc, deaths>>

\* No card, or a card that asks for authentication: the user must act.
NeedAction(w) ==
  /\ pc[w] = "card"
  /\ Conclude(w, "action_required", TRUE)
  /\ UNCHANGED <<db, sch, tasks, stripe, event, task, snap, upc, deaths>>

Decline(w) ==
  /\ pc[w] = "card"
  /\ stripe = "open"
  /\ Conclude(w, "failing", FALSE)
  /\ UNCHANGED <<db, sch, tasks, stripe, event, task, snap, upc, deaths>>

CompletesAtStripe(outcome) ==
  /\ stripe = "open"
  /\ stripe' = outcome
  /\ event' = "queued"

Charge(w) ==
  /\ pc[w] = "card"
  /\ CompletesAtStripe("succeeded")
  /\ Conclude(w, "success", TRUE)
  /\ UNCHANGED <<db, sch, tasks, task, snap, upc, deaths>>

\* Stripe refuses to confirm an intent that is completed already: the handler
\* throws, its transaction is dropped and the queue delivers the task again.
ConfirmThrows(w) ==
  /\ pc[w] = "card"
  /\ stripe \in Final
  /\ Rest(w)
  /\ UNCHANGED <<db, sch, tasks, stripe, event, upc, deaths>>

\* Mutant of Isolated: whatever has changed, the transaction is commited.
Isolated_Never(w) == TRUE

\* Nothing the transaction has read was changed since.
Isolated(w) == snap[w] = [db |-> Current, sch |-> sch]

\* Mutant of Attempted: a failed attempt stays in progress.
Attempted_IfOk(w) ==
  IF sch.attempt = task[w] /\ ok[w] THEN [sch EXCEPT !.inProgress = FALSE] ELSE sch

\* The schedule is freed for the next attempt, unless this one is an old one.
Attempted(w) ==
  IF sch.attempt = task[w] THEN [sch EXCEPT !.inProgress = FALSE] ELSE sch

\* inTx retries a transaction that conflicts, from its start.
Commit(w) ==
  /\ pc[w] = "commit"
  /\ IF Isolated(w)
     THEN Write(view[w]) /\ sch' = Attempted(w) /\ Goto(w, "done")
     ELSE UNCHANGED <<db, sch>> /\ Goto(w, "begin")
  /\ Forget(w)
  /\ UNCHANGED <<tasks, stripe, event, task, upc, deaths>>

\* The queue completes the task in a transaction of its own.
Complete(w) ==
  /\ pc[w] = "done"
  /\ tasks' = tasks \ {task[w]}
  /\ Rest(w)
  /\ UNCHANGED <<db, sch, stripe, event, upc, deaths>>

\* Stripe took longer than a transaction may last, and is called again.
TooOld(w) ==
  /\ pc[w] = "commit"
  /\ Goto(w, "begin")
  /\ Forget(w)
  /\ UNCHANGED <<db, sch, tasks, stripe, event, task, upc, deaths>>

\* The process dies, or an answer of Stripe does not arrive and the handler
\* throws (Stripe may have done what it was asked).
Abandon(w) ==
  /\ pc[w] # "idle"
  /\ deaths < MaxDeaths
  /\ deaths' = deaths + 1
  /\ Rest(w)
  /\ UNCHANGED <<db, sch, tasks, stripe, event, upc>>

Execute(w) ==
  \/ \E a \in tasks : Take(w, a)
  \/ Begin(w) \/ CreateIntent(w) \/ Lookup(w)
  \/ NeedAction(w) \/ Decline(w) \/ Charge(w) \/ ConfirmThrows(w)
  \/ Commit(w) \/ Complete(w)

-----------------------------------------------------------------------------
(* updatePaymentIntent, outside of any transaction: for Stripe's event and  *)
(* as a step of a cancellation.  (The client of a user who has paid calls   *)
(* it too, and can only come before the event.)                            *)

Step(u, l) == upc' = [upc EXCEPT ![u] = l]

\* Mutant of Otherwise: the loop of a cancellation forgets to cancel.
Otherwise_UpdatesAgain(u) == IF u = "canceler" THEN "check" ELSE "idle"

\* Where u goes on when updatePaymentIntent has not completed the intent.
Otherwise(u) == IF u = "canceler" THEN "cancel" ELSE "idle"

\* The reader is done with its event once its update returns.
Consume(u) == event' = IF u = "reader" THEN "read" ELSE event

StartUpdate(u) ==
  /\ upc[u] = "idle"
  /\ u = "reader" /\ event = "queued"
  /\ Step(u, "check")
  /\ UNCHANGED <<db, sch, tasks, stripe, event, workerVars, deaths>>

\* Only a known and pending intent is looked up: an event of an intent that is
\* not registered yet is forgotten.
Check(u) ==
  /\ upc[u] = "check"
  /\ IF intent = "pending"
     THEN Step(u, "retrieve") /\ UNCHANGED event
     ELSE Step(u, Otherwise(u)) /\ Consume(u)
  /\ UNCHANGED <<db, sch, tasks, stripe, workerVars, deaths>>

Retrieve(u) ==
  /\ upc[u] = "retrieve"
  /\ IF stripe \in Final
     THEN Step(u, "apply") /\ UNCHANGED event
     ELSE Step(u, Otherwise(u)) /\ Consume(u)
  /\ UNCHANGED <<db, sch, tasks, stripe, workerVars, deaths>>

Apply(u) ==
  /\ upc[u] = "apply"
  /\ Write(paymentIntent(Current, Outcome))
  /\ Step(u, "idle")
  /\ Consume(u)
  /\ UNCHANGED <<sch, tasks, stripe, workerVars, deaths>>

\* The reader dies and reads its event again, or a cancellation goes no further.
UpdaterDies(u) ==
  /\ upc[u] # "idle"
  /\ Step(u, "idle")
  /\ UNCHANGED <<db, sch, tasks, stripe, event, workerVars, deaths>>

\* A user whose action is required authenticates with Stripe.
UserPays ==
  /\ payment = "action_required"
  /\ CompletesAtStripe("succeeded")
  /\ UNCHANGED <<db, sch, tasks, workerVars, upc, deaths>>

-----------------------------------------------------------------------------
(* tryCancelPayment.                                                       *)

\* A payment with an intent has to be canceled at Stripe.
AtStripe == piid

StartCancel ==
  /\ upc["canceler"] = "idle"
  /\ IF AtStripe
     THEN Step("canceler", "preflight") /\ UNCHANGED payment
     ELSE /\ payment \in Handles("canceled")
          /\ payment' = "canceled"
          /\ UNCHANGED upc
  /\ UNCHANGED <<piid, intent, sch, tasks, stripe, event, workerVars, deaths>>

Preflight ==
  /\ upc["canceler"] = "preflight"
  /\ Step("canceler", IF intent \in Completed THEN "idle" ELSE "check")
  /\ UNCHANGED <<db, sch, tasks, stripe, event, workerVars, deaths>>

\* Stripe refuses to cancel a completed intent; backoff tries the loop again.
CancelAtStripe ==
  /\ upc["canceler"] = "cancel"
  /\ IF stripe = "open" THEN CompletesAtStripe("canceled")
     ELSE UNCHANGED <<stripe, event>>
  /\ Step("canceler", "check")
  /\ UNCHANGED <<db, sch, tasks, workerVars, deaths>>

-----------------------------------------------------------------------------
Update(u) == StartUpdate(u) \/ Check(u) \/ Retrieve(u) \/ Apply(u)

Cancel == Preflight \/ CancelAtStripe

PMNext ==
  \/ Enqueue
  \/ \E w \in Workers : Execute(w) \/ TooOld(w) \/ Abandon(w)
  \/ \E u \in Updaters : Update(u) \/ UpdaterDies(u)
  \/ UserPays
  \/ StartCancel \/ Cancel

PMSpec == PMInit /\ [][PMNext]_pmVars

\* A cancellation that has begun goes on.  Of everybody else nothing is assumed.
PMFairness == WF_pmVars(Cancel) /\ WF_pmVars(Update("canceler"))

PMFairSpec == PMSpec /\ PMFairness

-----------------------------------------------------------------------------
(* Properties.                                                             *)

\* The payment, its intent and Stripe agree: there is an intent exactly when
\* the payment has its id; the two are completed together and alike, so that a
\* success never meets a canceled payment ("Shouldn't be possible"); and
\* neither is completed before Stripe is.
LedgersAgree ==
  /\ piid <=> intent # "none"
  /\ piid => (intent \in Completed <=> payment \in Completed)
  /\ intent \in Completed => intent = payment /\ Outcome = intent /\ stripe \in Final
  /\ payment = "success" => intent = "success"

\* A payment in progress has a task in the queue that will end the progress:
\* otherwise the scheduler would pass it over for ever.
InProgressHasTask == sch.inProgress => sch.attempt \in tasks

\* A worker that is about to look the intent up at Stripe, or to record a charge.
InHand(w) ==
  \/ pc[w] \in {"begin", "create", "update"}
  \/ pc[w] = "commit" /\ view[w].intent = "success"

\* A charge that is not recorded yet is not forgotten: its event is still to be
\* read, and will find the intent, or a worker has it in hand.  So a charge whose
\* event was read before the intent was registered, or whose transaction was rolled
\* back, is recorded, unless the worker dies or the payment was canceled before it
\* had an intent.  In both cases money stays taken for a payment that says otherwise.
ChargeInHand ==
  stripe = "succeeded" /\ payment \notin Completed /\ deaths = 0 =>
    \/ intent = "pending" /\ event = "queued"
    \/ \E w \in Workers : InHand(w)

\* A completed payment stays as it is, whichever of the worker's transaction,
\* the event and the cancellation comes last.
CompletedForGood ==
  [][(payment \in Completed) => payment' = payment /\ intent' = intent]_pmVars

\* A cancellation that has begun ends with a completed payment, charged or canceled,
\* if its process lives: no interleaving with attempts and events keeps its loop
\* going round an open payment.
CancelEnds ==
  upc["canceler"] # "idle" ~> payment \in Completed \/ upc["canceler"] = "idle"

=============================================================================
