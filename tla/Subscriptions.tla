---------------------------- MODULE Subscriptions ----------------------------
(***************************************************************************)
(* Paid chats: the subscriptions of one user to one premium chat.          *)
(*                                                                         *)
(* SubscriptionsRepository keeps, per subscription, a billing state and a  *)
(* row of billing periods; a period is paid from the wallet or by a        *)
(* Payment; PremiumChatMediator turns billing events into access (the      *)
(* user's pass) and into income of the chat's owner.  The singleton        *)
(* subscription scheduler, the canceler, the user, and payment events that *)
(* come in whenever the bank decides, all drive it concurrently.  Every    *)
(* handler is one FoundationDB transaction, so one action.                 *)
(*                                                                         *)
(* Time is counted in days.  age[s] is now - period.start for the current  *)
(* period of s: the only use the code makes of the two.  It is negative    *)
(* while the next period, created a day early, has not begun, and is not   *)
(* counted past MaxAge, where no condition changes any more.               *)
(***************************************************************************)
EXTENDS Integers, FiniteSets, FiniteSetsExt, Payments

CONSTANTS Sid,        \* subscriptions the user may create, in this chat
          MaxPeriods, \* bound on the billing periods of one subscription
          Interval,   \* length of a billing period
          Lead,       \* how early the next period is created (DAY)
          Grace,      \* grace period
          RetryLimit, \* how long an unpaid period is retried
          Price,      \* amount of the subscription
          MinCharge,  \* the smallest amount a card is charged
          MaxDeposit  \* bound on what the user ever puts in the wallet

NoSid == "no subscription"

ASSUME SubscriptionsAssumption ==
  /\ IsFiniteSet(Sid) /\ NoSid \notin Sid
  /\ MaxPeriods \in Nat \ {0}
  /\ {Interval, Lead, Grace, RetryLimit, Price, MinCharge} \subseteq Nat \ {0}
  /\ MaxDeposit \in Nat
  /\ Lead <= Interval
  /\ Grace < RetryLimit /\ Interval < RetryLimit
  /\ MinCharge <= Price

VARIABLES
  state,     \* WalletSubscription.state, or "none"
  index,     \* WalletSubscriptionScheduling.currentPeriodIndex
  period,    \* WalletSubscriptionPeriod: state, needCancel, scheduledCancel
  age,       \* now - start of the current period
  payments,  \* state of the period's Payment, "none" when it has no pid
  tx,        \* the period's WalletTransaction: status and the wallet's share
  balance,   \* available balance of the user's wallet
  deposited, \* history: what the user has put in the wallet
  income,    \* the owner's income transactions of the period, by status
  pass,      \* PremiumChatUserPass: isActive, sid
  canceling, \* payments somebody is canceling at the payment provider
  reading    \* subscriptions whose user, refused a cancellation because the
             \*   subscription is retrying, is about to read the payment

vars == <<state, index, period, age, payments, tx, balance, deposited, income,
          pass, canceling, reading>>

MaxAge == RetryLimit + 1
Periods == 1 .. MaxPeriods
Serving == {"started", "grace_period", "canceled"}
Live == {"started", "grace_period", "retrying", "canceled"}

NoPeriod == [state |-> "none", needCancel |-> FALSE, scheduledCancel |-> FALSE]
NoTx == [status |-> "none", wallet |-> 0]
NoIncome == [pending |-> 0, success |-> 0]

TypeOK ==
  /\ state \in [Sid -> Live \union {"none", "expired"}]
  /\ index \in [Sid -> 0 .. MaxPeriods]
  /\ period \in [Sid -> [Periods ->
       [state : {"none", "pending", "failing", "success", "canceled"},
        needCancel : BOOLEAN, scheduledCancel : BOOLEAN]]]
  /\ age \in [Sid -> -Lead .. MaxAge]
  /\ payments \in [Sid -> [Periods -> PaymentStates \union {"none"}]]
  /\ tx \in [Sid -> [Periods -> [status : {"none", "pending", "success", "canceled"},
                                 wallet : 0 .. Price]]]
  /\ balance \in 0 .. MaxDeposit
  /\ deposited \in 0 .. MaxDeposit
  /\ income \in [Sid -> [Periods -> [pending : 0 .. 1, success : 0 .. 1]]]
  /\ pass \in [active : BOOLEAN, sid : Sid \union {NoSid}]
  /\ canceling \subseteq Sid \X Periods
  /\ reading \subseteq Sid

Init ==
  /\ state = [s \in Sid |-> "none"]
  /\ index = [s \in Sid |-> 0]
  /\ period = [s \in Sid |-> [i \in Periods |-> NoPeriod]]
  /\ age = [s \in Sid |-> 0]
  /\ payments = [s \in Sid |-> [i \in Periods |-> "none"]]
  /\ tx = [s \in Sid |-> [i \in Periods |-> NoTx]]
  /\ balance = 0
  /\ deposited = 0
  /\ income = [s \in Sid |-> [i \in Periods |-> NoIncome]]
  /\ pass = [active |-> FALSE, sid |-> NoSid]
  /\ canceling = {}
  /\ reading = {}

-----------------------------------------------------------------------------
(* The wallet.                                                             *)

\* Mutant of incomeSuccess: settles what was announced and nothing else.
incomeSuccess_PendingOnly(in) == {in, [pending |-> 0, success |-> in.success + in.pending]}

\* How a price is split between the wallet and the card: the card is never
\* charged less than MinCharge.
paymentAmounts(available, amount) ==
  IF available >= amount THEN [wallet |-> amount, charge |-> 0]
  ELSE IF available # 0 /\ amount - available < MinCharge
       THEN [wallet |-> amount - MinCharge, charge |-> MinCharge]
       ELSE [wallet |-> available, charge |-> amount - available]

\* incomeSuccess: settle the pending income of the transaction, or create it.
\* Nobody awaits the callbacks that settle: they are part of the transaction, or
\* come after its commit or fail unseen, and leave the income pending for good.
incomeSuccess(in) ==
  IF in.pending = 0 THEN {[in EXCEPT !.success = @ + 1]}
  ELSE {in, [pending |-> 0, success |-> in.success + in.pending]}

incomePending(in, n) == [in EXCEPT !.pending = @ + n]

Deposit(amount) ==
  /\ deposited + amount <= MaxDeposit
  /\ balance' = balance + amount
  /\ deposited' = deposited + amount
  /\ UNCHANGED <<state, index, period, age, payments, tx, income, pass,
                 canceling, reading>>

-----------------------------------------------------------------------------
(* Creating subscriptions and periods.                                     *)

\* createPeriod, and after it the announcement of `announced` pending incomes
\* of the owner: a period the wallet covers is paid, and earned, by then.
createPeriod(s, i, announced) ==
  LET amounts == paymentAmounts(balance, Price)
      paid == amounts.charge = 0
  IN /\ balance' = balance - amounts.wallet
     /\ tx' = [tx EXCEPT ![s][i] =
          [status |-> IF paid THEN "success" ELSE "pending", wallet |-> amounts.wallet]]
     /\ payments' = [payments EXCEPT ![s][i] = IF paid THEN "none" ELSE "pending"]
     /\ period' = [period EXCEPT ![s][i] =
          [NoPeriod EXCEPT !.state = IF paid THEN "success" ELSE "pending"]]
     /\ \E in \in IF paid THEN incomeSuccess(income[s][i]) ELSE {income[s][i]} :
          income' = [income EXCEPT ![s][i] = incomePending(in, announced)]

\* Mutant of MaySubscribe: a user without access may subscribe.
MaySubscribe_NoAccess == ~pass.active

\* A user with no access and no other live subscription may subscribe.
MaySubscribe ==
  /\ ~pass.active
  /\ pass.sid # NoSid => state[pass.sid] \notin {"grace_period", "retrying", "started"}

\* The owner's income is announced (onSubscriptionStarted) after the first period
\* is created and, when the wallet covers it, already paid.
CreateSubscription(s) ==
  /\ state[s] = "none"
  /\ MaySubscribe
  /\ state' = [state EXCEPT ![s] = "started"]
  /\ index' = [index EXCEPT ![s] = 1]
  /\ age' = [age EXCEPT ![s] = 0]
  /\ createPeriod(s, 1, 1)
  /\ pass' = [active |-> TRUE, sid |-> s]
  /\ UNCHANGED <<deposited, canceling, reading>>

-----------------------------------------------------------------------------
(* The scheduler, doScheduling: one alternative per branch that changes    *)
(* state.                                                                  *)

Revoke == pass' = [pass EXCEPT !.active = FALSE]
Grant(s) == pass' = [active |-> TRUE, sid |-> s]

ExpireCanceled(s) ==
  /\ state[s] = "canceled"
  /\ age[s] > Interval
  /\ state' = [state EXCEPT ![s] = "expired"]
  /\ Revoke
  /\ UNCHANGED <<index, period, age, payments, tx, balance, deposited, income,
                 canceling, reading>>

PauseAfterGrace(s) ==
  /\ state[s] = "grace_period"
  /\ age[s] > Grace
  /\ state' = [state EXCEPT ![s] = "retrying"]
  /\ Revoke
  /\ UNCHANGED <<index, period, age, payments, tx, balance, deposited, income,
                 canceling, reading>>

GiveUpRetrying(s) ==
  /\ state[s] = "retrying"
  /\ age[s] > RetryLimit
  /\ ~period[s][index[s]].needCancel
  /\ period' = [period EXCEPT ![s][index[s]].needCancel = TRUE]
  /\ UNCHANGED <<state, index, age, payments, tx, balance, deposited, income,
                 pass, canceling, reading>>

ExpireUnpaidFirst(s) ==
  /\ state[s] = "started"
  /\ index[s] = 1
  /\ period[s][1].state # "success"
  /\ age[s] > Interval
  /\ state' = [state EXCEPT ![s] = "expired"]
  /\ Revoke
  /\ UNCHANGED <<index, period, age, payments, tx, balance, deposited, income,
                 canceling, reading>>

DueForNext(s) ==
  /\ state[s] = "started"
  /\ index[s] = 1 => period[s][1].state = "success"
  /\ age[s] > Interval - Lead

\* A period that is not paid makes scheduleNextPeriod throw, which aborts the
\* transaction.
MayExtend(s) == period[s][index[s]].state = "success"

ScheduleNext(s) ==
  /\ DueForNext(s)
  /\ index[s] < MaxPeriods
  /\ MayExtend(s)
  /\ index' = [index EXCEPT ![s] = @ + 1]
  /\ age' = [age EXCEPT ![s] = @ - Interval]
  /\ createPeriod(s, index[s] + 1, 0)
  /\ UNCHANGED <<state, deposited, pass, canceling, reading>>

DoScheduling(s) ==
  \/ ExpireCanceled(s)
  \/ PauseAfterGrace(s)
  \/ GiveUpRetrying(s)
  \/ ExpireUnpaidFirst(s)
  \/ ScheduleNext(s)

-----------------------------------------------------------------------------
(* Canceling.                                                              *)

\* Mutant of ToCancel: the check of the payment is inverted.
ToCancel_Inverted(s, i) == IF payments[s][i] = "none" THEN {<<s, i>>} ELSE {}

ToCancel(s, i) == IF payments[s][i] = "none" THEN {} ELSE {<<s, i>>}

\* subscription-canceler: hand the payment of a given-up period to the
\* 'subscription-cancel-task' queue, once.
ScheduleCancel(s, i) ==
  /\ period[s][i].needCancel
  /\ ~period[s][i].scheduledCancel
  /\ period' = [period EXCEPT ![s][i].scheduledCancel = TRUE]
  /\ canceling' = canceling \union ToCancel(s, i)
  /\ UNCHANGED <<state, index, age, payments, tx, balance, deposited, income,
                 pass, reading>>

PaymentFirst == {"retrying"}

\* cancelSubscription, one round of its loop: a subscription that serves its
\* user is canceled at once, a retrying one has its payment canceled first.
tryCancelSubscription(s) ==
  /\ state[s] \in Live \ {"canceled"}
  /\ \/ /\ state[s] \notin PaymentFirst
        /\ state' = [state EXCEPT ![s] = "canceled"]
        /\ UNCHANGED reading
     \/ /\ state[s] \in PaymentFirst
        /\ reading' = reading \union {s}
        /\ UNCHANGED state
  /\ UNCHANGED <<index, period, age, payments, tx, balance, deposited, income,
                 pass, canceling>>

\* The round's second transaction reads which payment to cancel, whatever has
\* become of the subscription since the first one.
ReadPaymentToCancel(s) ==
  /\ s \in reading
  /\ reading' = reading \ {s}
  /\ canceling' = canceling \union ToCancel(s, index[s])
  /\ UNCHANGED <<state, index, period, age, payments, tx, balance, deposited,
                 income, pass>>

-----------------------------------------------------------------------------
(* Payment events: PaymentsRepository's handlers, routed to the wallet and *)
(* to SubscriptionsRepository in the same transaction.                     *)

\* What all three of its handlers, or the wallet's, answer with an error.
EventRefused(s, i) ==
  \/ tx[s][i].status # "pending"
  \/ index[s] # i
  \/ period[s][i].state \in {"success", "canceled"}

\* 'Internal state error': a renewal that was failing while the subscription
\* never left its started state.
StartedYetFailing(s, i) ==
  state[s] = "started" /\ i # 1 /\ period[s][i].state = "failing"

subscriptionPaymentCommit(s, i) ==
  /\ tx' = [tx EXCEPT ![s][i].status = "success"]
  /\ UNCHANGED balance

\* Mutant of subscriptionPaymentCancel: the wallet's share is not returned.
subscriptionPaymentCancel_NoRefund(s, i) ==
  /\ tx' = [tx EXCEPT ![s][i].status = "canceled"]
  /\ UNCHANGED balance

subscriptionPaymentCancel(s, i) ==
  /\ tx' = [tx EXCEPT ![s][i].status = "canceled"]
  /\ balance' = balance + tx[s][i].wallet

\* Mutant of Recovers: a subscription in grace stays there.
Recovers_Retrying(s, i) == period[s][i].state = "failing" /\ state[s] = "retrying"

\* A second attempt that succeeds puts the subscription back in order.
Recovers(s, i) ==
  period[s][i].state = "failing" /\ state[s] \in {"grace_period", "retrying"}

\* The money has arrived.  A subscription that expired meanwhile takes no
\* notice: neither the period nor the owner's income sees the payment.
handlePaymentSuccess(s, i) ==
  /\ payments[s][i] \in Handles("success")
  /\ ~EventRefused(s, i) /\ ~StartedYetFailing(s, i)
  /\ payments' = [payments EXCEPT ![s][i] = "success"]
  /\ subscriptionPaymentCommit(s, i)
  /\ IF state[s] = "expired"
     THEN UNCHANGED <<state, period, age, income, pass>>
     ELSE /\ period' = [period EXCEPT ![s][i].state = "success"]
          /\ age' = IF state[s] = "retrying" THEN [age EXCEPT ![s] = 0] ELSE age
          /\ \E in \in incomeSuccess(income[s][i]) :
               income' = [income EXCEPT ![s][i] = in]
          /\ IF Recovers(s, i)
             THEN /\ state' = [state EXCEPT ![s] = "started"]
                  /\ Grant(s)
             ELSE UNCHANGED <<state, pass>>
  /\ UNCHANGED <<index, deposited, canceling, reading>>

\* Mutant of StateAfterFailing: a renewal that fails leaves no trace.
StateAfterFailing_Ignored(s, i) == state[s]

\* Neither the first period nor a canceled subscription has a grace period.
StateAfterFailing(s, i) ==
  IF i # 1 /\ state[s] = "started" THEN "grace_period" ELSE state[s]

\* The card was declined (to = "failing") or the user has to act (to =
\* "action_required"): both reach the subscription as a failing payment.
handlePaymentFailing(s, i, to) ==
  /\ payments[s][i] \in Handles(to)
  /\ ~EventRefused(s, i)
  /\ payments' = [payments EXCEPT ![s][i] = to]
  /\ IF state[s] # "expired" /\ period[s][i].state = "pending"
     THEN /\ period' = [period EXCEPT ![s][i].state = "failing"]
          /\ state' = [state EXCEPT ![s] = StateAfterFailing(s, i)]
     ELSE UNCHANGED <<period, state>>
  /\ UNCHANGED <<index, age, tx, balance, deposited, income, pass, canceling,
                 reading>>

\* Only what somebody is canceling gets canceled; the wallet's share returns.
handlePaymentCanceled(s, i) ==
  /\ <<s, i>> \in canceling
  /\ payments[s][i] \in Handles("canceled")
  /\ ~EventRefused(s, i)
  /\ payments' = [payments EXCEPT ![s][i] = "canceled"]
  /\ subscriptionPaymentCancel(s, i)
  /\ period' = IF state[s] = "expired" THEN period
               ELSE [period EXCEPT ![s][i].state = "canceled"]
  /\ IF state[s] = "retrying"
     THEN /\ state' = [state EXCEPT ![s] = "expired"]
          /\ Revoke
     ELSE UNCHANGED <<state, pass>>
  /\ UNCHANGED <<index, age, deposited, income, canceling, reading>>

\* tryCancelPayment returns once the payment is completed, either way.
CancelReturns(s, i) ==
  /\ <<s, i>> \in canceling
  /\ payments[s][i] \in Completed
  /\ canceling' = canceling \ {<<s, i>>}
  /\ UNCHANGED <<state, index, period, age, payments, tx, balance, deposited,
                 income, pass, reading>>

-----------------------------------------------------------------------------
\* A day passes.  A user's cancel request does not last a day between its two
\* transactions.
Tick ==
  /\ reading = {}
  /\ \E s \in Sid : state[s] \in Live /\ age[s] < MaxAge
  /\ age' = [s \in Sid |-> IF state[s] \in Live /\ age[s] < MaxAge
                           THEN age[s] + 1 ELSE age[s]]
  /\ UNCHANGED <<state, index, period, payments, tx, balance, deposited, income,
                 pass, canceling, reading>>

PaymentEvent(s, i) ==
  \/ handlePaymentSuccess(s, i)
  \/ handlePaymentCanceled(s, i)
  \/ \E to \in {"failing", "action_required"} : handlePaymentFailing(s, i, to)

Next ==
  \/ \E amount \in 1 .. MaxDeposit : Deposit(amount)
  \/ \E s \in Sid : \/ CreateSubscription(s)
                    \/ DoScheduling(s)
                    \/ tryCancelSubscription(s)
                    \/ ReadPaymentToCancel(s)
  \/ \E s \in Sid, i \in Periods : \/ ScheduleCancel(s, i)
                                   \/ PaymentEvent(s, i)
                                   \/ CancelReturns(s, i)
  \/ Tick

Spec == Init /\ [][Next]_vars

-----------------------------------------------------------------------------
(* Properties.                                                             *)

Paid(s, i) == period[s][i].state = "success"

\* No handler of a payment event ever throws: the checks of the subscription
\* and wallet repositories on period index, period state and transaction state
\* ('Invalid payment', 'Period is already in canceled state', 'Internal state
\* error', 'Transaction is in completed state') never abort a payment event
\* whatever the order of scheduling, cancellations and payments.  What does
\* throw is the scheduler ('Unable to extend subscription when previous period
\* is not in success state', which aborts its pass over all subscriptions), and
\* only over a renewal whose payment has seen no outcome at all for almost a
\* whole billing period.
OnlyUntriedRenewalsThrow ==
  /\ \A s \in Sid, i \in Periods :
       payments[s][i] \in PaymentStates \ Completed
         => ~EventRefused(s, i) /\ ~StartedYetFailing(s, i)
  /\ \A s \in Sid :
       DueForNext(s) /\ ~Paid(s, index[s])
         => index[s] > 1 /\ payments[s][index[s]] = "pending"

\* The user has access to the chat exactly while a subscription serves him, it
\* is the one the pass names, and he never has two live subscriptions to one
\* chat that would bill him twice for the same days.
PassFollowsSubscription ==
  /\ pass.active <=> \E s \in Sid : pass.sid = s /\ state[s] \in Serving
  /\ \A s, r \in Sid : state[s] \in Live /\ state[r] \in Live => s = r

\* The owner earns a period at most once, and only if it is paid.  A renewal that
\* is paid is earned; a first period is, or its income is still announced because
\* the settlement nobody awaits was lost.  And money taken from the user for a
\* period that stays unpaid was taken after the subscription expired.
EarnedOncePaid ==
  \A s \in Sid, i \in Periods :
    /\ income[s][i].success # 0 => income[s][i].success = 1 /\ Paid(s, i)
    /\ Paid(s, i) => income[s][i].success = 1 \/ (i = 1 /\ income[s][i].pending = 1)
    /\ tx[s][i].status = "success" /\ ~Paid(s, i) => state[s] = "expired"

\* No cent is lost between wallet, transactions and refunds, and the wallet is
\* never overdrawn (TypeOK).
WalletConserved ==
  /\ TypeOK
  /\ LET held(si) == LET t == tx[si[1]][si[2]]
                     IN IF t.status \in {"pending", "success"} THEN t.wallet ELSE 0
     IN balance + MapThenSumSet(held, Sid \X Periods) = deposited

\* A user who has paid for the current period keeps his access until the
\* period is over.
AccessKeptWhilePaid ==
  [][ \A s \in Sid : state[s] \in Serving /\ state'[s] \notin Serving
        => ~Paid(s, index[s]) \/ (state[s] = "canceled" /\ age[s] > Interval) ]_vars

\* A paused subscription has always a way on: its payment is undecided, and once
\* the canceler has handed that over, which it does only once, it is being canceled
\* until it is decided.  No order of giving up, of the user's cancellations and of
\* payment events pauses a subscription for good.
PausedHasWayOn ==
  \A s \in Sid :
    state[s] = "retrying" =>
      /\ payments[s][index[s]] \in PaymentStates \ Completed
      /\ period[s][index[s]].scheduledCancel => <<s, index[s]>> \in canceling

=============================================================================
