---------------------------- MODULE Payments_proofs ----------------------------
(***************************************************************************)
(* Proofs about paid chats (Subscriptions) and about the single payment    *)
(* they are charged with (PaymentMediator): two specifications of one      *)
(* module, that share the states of a payment.                             *)
(*                                                                         *)
(* A subscription's records are proved to agree entry by entry: what a     *)
(* period's state, its payment and its transaction say of each other       *)
(* depends on whether the period is past, current or still to come, and on *)
(* the state of the subscription (Entry).  The wallet's equation is a sum  *)
(* over all transactions, so it comes with the few facts about sums it     *)
(* needs.                                                                  *)
(*                                                                         *)
(* A worker's transaction on a payment spans many steps of the others, so  *)
(* the invariant of PaymentMediator speaks of what it has read (snap) and  *)
(* of what it is about to write (view) as well as of the records: each is  *)
(* a ledger that agrees with Stripe, and a transaction that has read a     *)
(* completed payment writes it back unchanged.                             *)
(***************************************************************************)
EXTENDS Subscriptions, PaymentMediator, FiniteSetTheorems, WellFoundedInduction, TLAPS

-----------------------------------------------------------------------------
(* The invariant of the subscriptions.                                     *)

\* The owner's income of period i in state p: earned once and only if the period is
\* paid, and still announced if it is paid and not earned.
Earned(i, p, in) ==
  /\ in.success \in {0, 1} /\ (in.success = 1 => p = "success")
  /\ p = "success" => in.success = 1 \/ in.pending = 1
  /\ in.pending # 0 => i = 1

\* The entries of period i of a subscription in state S whose current period is
\* k: what the period's state p, its payment y and its transaction t say of each
\* other and of the owner's income, and whether somebody seeks to cancel y.
Entry(S, k, i, p, y, t, in, sought) ==
  /\ i > k => p = "none" /\ y = "none" /\ t = "none" /\ in = NoIncome /\ ~sought
  /\ i < k => p = "success"
  /\ i <= k => p # "none" /\ t # "none"
  /\ i <= k /\ y = "none" => p = "success" /\ t = "success"
  /\ y \in Completed => t = y
  /\ y \in PaymentStates \ Completed => t = "pending"
  /\ p = "success" => y \in {"none", "success"}
  /\ S # "expired" =>
       /\ y # "canceled" /\ (y = "success" => p = "success")
       /\ p = "pending" => y = "pending"
       /\ p = "failing" => y \in {"failing", "action_required"}
  /\ p = "canceled" => y = "canceled"
  /\ i = k => /\ S \in {"grace_period", "retrying"} => p = "failing"
              /\ S = "started" => p # "failing" \/ i = 1
  /\ Earned(i, p, in)
  /\ sought => y \in Completed \/ (S = "retrying" /\ i = k)

EntryAt(s, i) ==
  Entry(state[s], index[s], i, period[s][i].state, payments[s][i], tx[s][i].status,
        income[s][i], period[s][i].needCancel \/ <<s, i>> \in canceling)

\* A user who was refused a cancellation may find the payment completed, and then
\* the same day.
Row(s) ==
  /\ state[s] = "none" <=> index[s] = 0
  /\ state[s] \in {"grace_period", "retrying"} => index[s] # 1
  /\ \A i \in Periods : EntryAt(s, i)
  /\ s \in reading /\ state[s] # "retrying" =>
       /\ index[s] # 0 /\ payments[s][index[s]] \in Completed
       /\ state[s] = "started" => age[s] = 0

PassInv ==
  /\ pass.active <=> \E s \in Sid : pass.sid = s /\ state[s] \in Serving
  /\ \A s \in Sid : state[s] \in Live => pass.sid = s

PeriodRecord == [state : {"none", "pending", "failing", "success", "canceled"},
                 needCancel : BOOLEAN, scheduledCancel : BOOLEAN]
TxRecord == [status : {"none", "pending", "success", "canceled"}, wallet : 0 .. Price]
IncomeRecord == [pending : 0 .. 1, success : 0 .. 1]

\* TypeOK, but for the upper bound of the balance, which is a matter of the sums.
Typed ==
  /\ state \in [Sid -> Live \union {"none", "expired"}]
  /\ index \in [Sid -> 0 .. MaxPeriods]
  /\ period \in [Sid -> [Periods -> PeriodRecord]]
  /\ age \in [Sid -> -Lead .. MaxAge]
  /\ payments \in [Sid -> [Periods -> PaymentStates \union {"none"}]]
  /\ tx \in [Sid -> [Periods -> TxRecord]]
  /\ balance \in Nat
  /\ deposited \in 0 .. MaxDeposit
  /\ income \in [Sid -> [Periods -> IncomeRecord]]
  /\ pass \in [active : BOOLEAN, sid : Sid \union {NoSid}]
  /\ canceling \subseteq Sid \X Periods
  /\ reading \subseteq Sid

IInv == Typed /\ PassInv /\ \A s \in Sid : Row(s)

LEMMA Constants ==
  ASSUME SubscriptionsAssumption
  PROVE  /\ MaxPeriods \in Nat \ {0} /\ 1 \in Periods /\ Periods \subseteq Nat \ {0}
         /\ Interval \in Nat /\ Lead \in Nat /\ MaxAge \in Nat /\ MaxDeposit \in Nat
         /\ RetryLimit \in Nat /\ MaxAge = RetryLimit + 1 /\ Interval < RetryLimit
         /\ Price \in Nat /\ MinCharge \in Nat /\ MinCharge <= Price /\ 1 <= MinCharge
         /\ Lead <= Interval /\ NoSid \notin Sid
BY DEF SubscriptionsAssumption, Periods, MaxAge

LEMMA InitInv == ASSUME SubscriptionsAssumption, Init PROVE IInv
<1>1. Typed
  BY Constants DEF Init, Typed, Periods, PeriodRecord, TxRecord, IncomeRecord, NoPeriod,
         NoTx, NoIncome
<1>2. \A s \in Sid : Row(s)
  <2> TAKE s \in Sid
  <2>1. \A i \in Periods : EntryAt(s, i)
    BY Constants DEF Init, EntryAt, Entry, Earned, NoPeriod, NoTx, NoIncome, Completed, PaymentStates
  <2> QED BY <2>1 DEF Init, Row
<1>3. PassInv
  BY DEF Init, PassInv, Serving, Live
<1> QED BY <1>1, <1>2, <1>3 DEF IInv

\* What a step leaves alone stays in order.
SameRow(s) ==
  /\ state'[s] = state[s] /\ index'[s] = index[s] /\ period'[s] = period[s]
  /\ payments'[s] = payments[s] /\ tx'[s] = tx[s] /\ income'[s] = income[s]
  /\ age'[s] = age[s] \/ s \notin reading
  /\ s \in reading' => s \in reading
  /\ \A i \in Periods : <<s, i>> \in canceling' => <<s, i>> \in canceling

LEMMA RowKept ==
  ASSUME NEW s \in Sid, Row(s), SameRow(s)
  PROVE  Row(s)'
<1>1. \A i \in Periods : EntryAt(s, i)'
  BY DEF Row, SameRow, EntryAt, Entry
<1> QED BY <1>1 DEF Row, SameRow

\* Steps that change only the state of s, and the pass.
LEMMA StateMoves ==
  ASSUME IInv, NEW s \in Sid, NEW to \in Live \union {"expired"},
         state' = [state EXCEPT ![s] = to],
         UNCHANGED <<index, period, age, payments, tx, balance, deposited, income,
                     canceling, reading>>,
         pass' \in [active : BOOLEAN, sid : Sid \union {NoSid}],
         state[s] \in Serving, to \in {"canceled", "retrying", "expired"},
         to = "retrying" => state[s] = "grace_period",
         pass' = IF to \in Serving THEN pass ELSE [pass EXCEPT !.active = FALSE]
  PROVE  IInv'
<1>1. state'[s] = to /\ \A r \in Sid \ {s} : state'[r] = state[r]
  BY DEF IInv, Typed
<1>2. Typed'
  BY DEF IInv, Typed
<1>3. Row(s)'
  <2>1. Row(s) /\ index[s] \in Nat
    BY DEF IInv, Typed
  <2>2. \A i \in Periods : EntryAt(s, i)'
    BY <1>1, <2>1 DEF Row, EntryAt, Entry, Serving
  <2> QED BY <1>1, <2>1, <2>2 DEF Row, Serving
<1>4. \A r \in Sid \ {s} : Row(r)'
  BY <1>1, RowKept DEF IInv, SameRow
<1>5. PassInv'
  <2>1. pass.active /\ pass.sid = s
    BY DEF IInv, PassInv, Serving, Live
  <2>2. pass'.sid = s /\ (pass'.active <=> to \in Serving)
    BY <2>1 DEF IInv, Typed
  <2>3. \A r \in Sid : state'[r] \in Live => r = s
    BY <1>1, <2>1 DEF IInv, PassInv
  <2> QED BY <1>1, <2>2, <2>3 DEF PassInv, Serving, Live
<1> QED BY <1>2, <1>3, <1>4, <1>5 DEF IInv

\* The wallet's share of a price.
LEMMA Amounts ==
  ASSUME SubscriptionsAssumption, NEW available \in Nat
  PROVE  LET amounts == paymentAmounts(available, Price)
         IN  /\ amounts.wallet \in 0 .. Price /\ amounts.wallet <= available
             /\ amounts.charge \in Nat
<1>1. Price \in Nat /\ MinCharge \in Nat /\ MinCharge <= Price
  BY Constants
<1>2. CASE available >= Price
  BY <1>1, <1>2 DEF paymentAmounts
<1>3. CASE ~(available >= Price) /\ available # 0 /\ Price - available < MinCharge
  BY <1>1, <1>3 DEF paymentAmounts
<1>4. CASE ~(available >= Price) /\ ~(available # 0 /\ Price - available < MinCharge)
  BY <1>1, <1>4 DEF paymentAmounts
<1> QED BY <1>2, <1>3, <1>4

\* The period i that createPeriod adds, the owner having been announced n incomes.
Created(s, i, n) ==
  \E paid \in BOOLEAN :
    /\ period'[s][i].state = IF paid THEN "success" ELSE "pending"
    /\ period'[s][i].needCancel = FALSE
    /\ payments'[s][i] = IF paid THEN "none" ELSE "pending"
    /\ tx'[s][i].status = IF paid THEN "success" ELSE "pending"
    /\ income'[s][i] = [pending |-> n, success |-> IF paid THEN 1 ELSE 0]

\* Of all entries of the subscriptions only those of period i of s change.
OnlyAt(s, i) ==
  /\ \A r \in Sid \ {s} : /\ period'[r] = period[r] /\ payments'[r] = payments[r]
                          /\ tx'[r] = tx[r] /\ income'[r] = income[r]
  /\ \A j \in Periods \ {i} : /\ period'[s][j] = period[s][j] /\ payments'[s][j] = payments[s][j]
                              /\ tx'[s][j] = tx[s][j] /\ income'[s][j] = income[s][j]

LEMMA CreatePeriod ==
  ASSUME SubscriptionsAssumption, Typed, NEW s \in Sid, NEW i \in Periods, NEW n \in 0 .. 1,
         income[s][i] = NoIncome, createPeriod(s, i, n)
  PROVE  /\ Created(s, i, n) /\ OnlyAt(s, i)
         /\ period' \in [Sid -> [Periods -> PeriodRecord]]
         /\ payments' \in [Sid -> [Periods -> PaymentStates \union {"none"}]]
         /\ tx' \in [Sid -> [Periods -> TxRecord]]
         /\ income' \in [Sid -> [Periods -> IncomeRecord]]
         /\ balance' \in Nat /\ balance' = balance - tx'[s][i].wallet
<1> DEFINE amounts == paymentAmounts(balance, Price)
           paid == amounts.charge = 0
           t == [status |-> IF paid THEN "success" ELSE "pending", wallet |-> amounts.wallet]
           y == IF paid THEN "none" ELSE "pending"
           p == [NoPeriod EXCEPT !.state = IF paid THEN "success" ELSE "pending"]
           e == [pending |-> n, success |-> IF paid THEN 1 ELSE 0]
<1>1. amounts.wallet \in 0 .. Price /\ amounts.wallet <= balance /\ Price \in Nat
  BY Amounts, Constants DEF Typed
<1>2. /\ balance' = balance - amounts.wallet
      /\ tx' = [tx EXCEPT ![s][i] = t]
      /\ payments' = [payments EXCEPT ![s][i] = y]
      /\ period' = [period EXCEPT ![s][i] = p]
      /\ \E in \in IF paid THEN incomeSuccess(NoIncome) ELSE {NoIncome} :
           income' = [income EXCEPT ![s][i] = incomePending(in, n)]
  BY DEF createPeriod, Typed
<1>3. t \in TxRecord /\ t.status = (IF paid THEN "success" ELSE "pending") /\ t.wallet = amounts.wallet
  BY <1>1 DEF TxRecord
<1>4. p \in PeriodRecord /\ p.state = (IF paid THEN "success" ELSE "pending") /\ p.needCancel = FALSE
  BY DEF NoPeriod, PeriodRecord
<1>5. income' = [income EXCEPT ![s][i] = e]
  <2>1. \A in \in IF paid THEN incomeSuccess(NoIncome) ELSE {NoIncome} : incomePending(in, n) = e
    <3>1. incomeSuccess(NoIncome) = {[pending |-> 0, success |-> 1]}
      BY DEF incomeSuccess, NoIncome
    <3>2. /\ incomePending([pending |-> 0, success |-> 1], n) = [pending |-> n, success |-> 1]
          /\ incomePending(NoIncome, n) = [pending |-> n, success |-> 0]
      BY DEF incomePending, NoIncome
    <3> HIDE DEF paid
    <3> QED BY <3>1, <3>2
  <2> HIDE DEF paid, e
  <2> QED BY <1>2, <2>1
<1>6. e \in IncomeRecord
  BY DEF IncomeRecord
<1>7. y \in PaymentStates \union {"none"}
  BY DEF PaymentStates
<1>8. paid \in BOOLEAN
  OBVIOUS
<1> HIDE DEF t, p, e, paid, amounts
<1>9. /\ period' \in [Sid -> [Periods -> PeriodRecord]]
      /\ payments' \in [Sid -> [Periods -> PaymentStates \union {"none"}]]
      /\ tx' \in [Sid -> [Periods -> TxRecord]]
      /\ income' \in [Sid -> [Periods -> IncomeRecord]]
      /\ balance' \in Nat
  BY <1>1, <1>2, <1>3, <1>4, <1>5, <1>6, <1>7 DEF Typed
<1>10. /\ period'[s][i] = p /\ payments'[s][i] = y /\ tx'[s][i] = t /\ income'[s][i] = e
       /\ OnlyAt(s, i)
  BY <1>2, <1>5 DEF OnlyAt, Typed
<1>11. Created(s, i, n)
  BY <1>3, <1>4, <1>8, <1>10 DEF Created, e, y
<1> QED BY <1>2, <1>3, <1>9, <1>10, <1>11

\* A new period of s: the first one, or the next of a subscription in order.
LEMMA NewPeriodRow ==
  ASSUME SubscriptionsAssumption, IInv, NEW s \in Sid, NEW n,
         NEW i \in Periods, n # 0 => i = 1, i = index[s] + 1, index' = [index EXCEPT ![s] = i],
         index[s] # 0 => state[s] = "started" /\ period[s][index[s]].state = "success",
         Created(s, i, n), OnlyAt(s, i), state'[s] = "started",
         s \notin reading,
         UNCHANGED <<canceling, reading>>
  PROVE  Row(s)'
<1>1. Row(s) /\ index'[s] = i /\ index[s] \in Nat /\ i \in Nat
  BY Constants DEF IInv, Typed
<1>2. ASSUME NEW j \in Periods PROVE EntryAt(s, j)'
  <2>1. EntryAt(s, j) /\ j \in Nat /\ j # 0
    BY <1>1, Constants DEF Row
  <2>2. CASE j = i
    BY <1>1, <2>1, <2>2 DEF Created, EntryAt, Entry, Earned, Completed, PaymentStates
  <2>3. CASE j # i
    <3>1. /\ period'[s][j] = period[s][j] /\ payments'[s][j] = payments[s][j]
          /\ tx'[s][j] = tx[s][j] /\ income'[s][j] = income[s][j]
      BY <2>3 DEF OnlyAt
    <3>2. CASE j > i
      BY <1>1, <2>1, <3>1, <3>2 DEF EntryAt, Entry, Completed, PaymentStates
    <3>3. CASE j < index[s] \/ j = index[s]
      <4>1. state[s] = "started" /\ period[s][j].state = "success" /\ index[s] # i /\ j < i
        BY <1>1, <2>1, <3>3 DEF EntryAt, Entry
      <4>2. index'[s] = i /\ state'[s] = state[s]
        BY <1>1, <4>1
      <4> QED BY <1>1, <2>1, <3>1, <4>1, <4>2 DEF EntryAt, Entry
    <3> QED BY <1>1, <2>1, <2>3, <3>2, <3>3
  <2> QED BY <2>2, <2>3
<1> QED BY <1>1, <1>2 DEF Row

LEMMA CreateInv ==
  ASSUME SubscriptionsAssumption, IInv, NEW s \in Sid, CreateSubscription(s)
  PROVE  IInv'
<1>1. /\ state[s] = "none" /\ index[s] = 0 /\ s \notin reading
      /\ state' = [state EXCEPT ![s] = "started"] /\ index' = [index EXCEPT ![s] = 1]
      /\ age' = [age EXCEPT ![s] = 0] /\ createPeriod(s, 1, 1)
      /\ pass' = [active |-> TRUE, sid |-> s] /\ UNCHANGED <<deposited, canceling, reading>>
  BY DEF CreateSubscription, IInv, Row
<1>2. 1 \in Periods /\ MaxPeriods \in Nat \ {0} /\ Lead \in Nat /\ MaxAge \in Nat /\ NoSid \notin Sid
  BY Constants
<1>3. income[s][1] = NoIncome
  <2>1. EntryAt(s, 1)
    BY <1>2 DEF IInv, Row
  <2> QED BY <1>1, <2>1 DEF EntryAt, Entry
<1>4. /\ Created(s, 1, 1) /\ OnlyAt(s, 1)
      /\ period' \in [Sid -> [Periods -> PeriodRecord]]
      /\ payments' \in [Sid -> [Periods -> PaymentStates \union {"none"}]]
      /\ tx' \in [Sid -> [Periods -> TxRecord]]
      /\ income' \in [Sid -> [Periods -> IncomeRecord]]
      /\ balance' \in Nat
  BY <1>1, <1>2, <1>3, CreatePeriod DEF IInv
<1>5. Typed'
  <2>1. state' \in [Sid -> Live \union {"none", "expired"}]
    BY <1>1 DEF IInv, Typed, Live
  <2>2. index' \in [Sid -> 0 .. MaxPeriods] /\ age' \in [Sid -> -Lead .. MaxAge]
    BY <1>1, <1>2 DEF IInv, Typed
  <2>3. pass' \in [active : BOOLEAN, sid : Sid \union {NoSid}]
    BY <1>1
  <2> QED BY <1>1, <1>4, <2>1, <2>2, <2>3 DEF IInv, Typed
<1>6. Row(s)'
  <2>1. state'[s] = "started" /\ 1 = index[s] + 1
    BY <1>1 DEF IInv, Typed
  <2> QED BY <1>1, <1>2, <1>4, <2>1, NewPeriodRow
<1>7. \A r \in Sid \ {s} : SameRow(r)
  BY <1>1, <1>4 DEF IInv, Typed, OnlyAt, SameRow
<1>8. PassInv'
  <2>1. \A r \in Sid : state[r] \notin Live
    BY <1>2 DEF CreateSubscription, MaySubscribe, IInv, PassInv, Serving, Live
  <2>2. \A r \in Sid \ {s} : state'[r] \notin Live
    BY <1>7, <2>1 DEF SameRow
  <2>3. state'[s] = "started" /\ pass'.sid = s /\ pass'.active
    BY <1>1 DEF IInv, Typed
  <2> QED BY <2>2, <2>3 DEF PassInv, Serving, Live
<1> QED BY <1>5, <1>6, <1>7, <1>8, RowKept DEF IInv

LEMMA SchedulingInv ==
  ASSUME SubscriptionsAssumption, IInv, NEW s \in Sid, DoScheduling(s)
  PROVE  IInv'
<1>0. Row(s) /\ pass \in [active : BOOLEAN, sid : Sid \union {NoSid}] /\ index[s] \in Nat
  BY DEF IInv, Typed
<1>1. CASE ExpireCanceled(s)
  <2>1. pass' = [pass EXCEPT !.active = FALSE]
        /\ pass' \in [active : BOOLEAN, sid : Sid \union {NoSid}]
    BY <1>0, <1>1 DEF ExpireCanceled, Revoke
  <2> QED BY <1>1, <2>1, StateMoves DEF ExpireCanceled, Serving, Live
<1>2. CASE PauseAfterGrace(s)
  <2>1. pass' = [pass EXCEPT !.active = FALSE]
        /\ pass' \in [active : BOOLEAN, sid : Sid \union {NoSid}]
    BY <1>0, <1>2 DEF PauseAfterGrace, Revoke
  <2> QED BY <1>2, <2>1, StateMoves DEF PauseAfterGrace, Serving, Live
<1>3. CASE ExpireUnpaidFirst(s)
  <2>1. pass' = [pass EXCEPT !.active = FALSE]
        /\ pass' \in [active : BOOLEAN, sid : Sid \union {NoSid}]
    BY <1>0, <1>3 DEF ExpireUnpaidFirst, Revoke
  <2> QED BY <1>3, <2>1, StateMoves DEF ExpireUnpaidFirst, Serving, Live
<1>4. CASE GiveUpRetrying(s)
  <2> DEFINE k == index[s]
  <2>1. /\ k \in Periods /\ state[s] = "retrying"
        /\ period' = [period EXCEPT ![s][k].needCancel = TRUE]
        /\ UNCHANGED <<state, index, age, payments, tx, balance, deposited, income,
                       pass, canceling, reading>>
    BY <1>0, <1>4 DEF GiveUpRetrying, Row, IInv, Typed, Periods
  <2> HIDE DEF k
  <2>2. /\ period'[s][k].state = period[s][k].state
        /\ \A j \in Periods \ {k} : period'[s][j] = period[s][j]
        /\ \A r \in Sid \ {s} : period'[r] = period[r]
        /\ period' \in [Sid -> [Periods -> PeriodRecord]]
    <3> DEFINE q == period[s][k]
               p == [q EXCEPT !.needCancel = TRUE]
    <3>1. period \in [Sid -> [Periods -> PeriodRecord]] /\ q \in PeriodRecord
      BY <2>1 DEF IInv, Typed
    <3>2. p \in PeriodRecord /\ p.state = q.state
      <4> HIDE DEF q
      <4> QED BY <3>1 DEF PeriodRecord
    <3>3. period' = [period EXCEPT ![s][k] = p]
      BY <2>1
    <3> HIDE DEF p
    <3>4. k \in Periods
      BY <2>1
    <3>5. /\ period'[s][k] = p /\ \A j \in Periods \ {k} : period'[s][j] = period[s][j]
          /\ \A r \in Sid \ {s} : period'[r] = period[r]
      BY <3>1, <3>3, <3>4
    <3>6. period' \in [Sid -> [Periods -> PeriodRecord]]
      BY <3>1, <3>2, <3>3, <3>4
    <3> QED BY <3>2, <3>5, <3>6
  <2>3. Typed'
    BY <2>1, <2>2 DEF IInv, Typed
  <2>4. ASSUME NEW i \in Periods PROVE EntryAt(s, i)'
    <3>1. EntryAt(s, i)
      BY <1>0 DEF Row
    <3>2. CASE i = k
      BY <2>1, <2>2, <3>1, <3>2 DEF EntryAt, Entry, k
    <3>3. CASE i # k
      BY <2>1, <2>2, <3>1, <3>3 DEF EntryAt
    <3> QED BY <3>2, <3>3
  <2>5. Row(s)'
    BY <1>0, <2>1, <2>4 DEF Row
  <2>6. \A r \in Sid \ {s} : Row(r)'
    BY <2>1, <2>2, RowKept DEF IInv, SameRow
  <2>7. PassInv'
    BY <2>1 DEF IInv, PassInv
  <2> QED BY <2>3, <2>5, <2>6, <2>7 DEF IInv
<1>5. CASE ScheduleNext(s)
  <2> DEFINE i == index[s] + 1
  <2>1. /\ DueForNext(s) /\ index[s] < MaxPeriods /\ period[s][index[s]].state = "success"
        /\ index' = [index EXCEPT ![s] = i] /\ age' = [age EXCEPT ![s] = @ - Interval]
        /\ createPeriod(s, i, 0) /\ UNCHANGED <<state, deposited, pass, canceling, reading>>
    BY <1>5 DEF ScheduleNext, MayExtend
  <2>2. state[s] = "started" /\ age[s] > Interval - Lead /\ age[s] \in -Lead .. MaxAge
    BY <2>1 DEF DueForNext, IInv, Typed
  <2>3. /\ MaxPeriods \in Nat /\ Lead \in Nat /\ Interval \in Nat /\ Lead <= Interval /\ MaxAge \in Nat
    BY Constants
  <2>4. i \in Periods /\ i \in Nat
    BY <1>0, <2>1, <2>3 DEF Periods
  <2>5. s \notin reading
    BY <1>0, <2>2, <2>3 DEF Row
  <2>6. income[s][i] = NoIncome
    <3>1. EntryAt(s, i) /\ i > index[s]
      BY <1>0, <2>4 DEF Row
    <3> QED BY <3>1 DEF EntryAt, Entry
  <2> HIDE DEF i
  <2>7. /\ Created(s, i, 0) /\ OnlyAt(s, i)
        /\ period' \in [Sid -> [Periods -> PeriodRecord]]
        /\ payments' \in [Sid -> [Periods -> PaymentStates \union {"none"}]]
        /\ tx' \in [Sid -> [Periods -> TxRecord]]
        /\ income' \in [Sid -> [Periods -> IncomeRecord]]
        /\ balance' \in Nat
    BY <2>1, <2>4, <2>6, CreatePeriod DEF IInv
  <2>8. Typed'
    <3>1. index' \in [Sid -> 0 .. MaxPeriods]
      BY <2>1, <2>4 DEF IInv, Typed, Periods
    <3>2. age[s] - Interval \in -Lead .. MaxAge
      BY <2>2, <2>3
    <3>3. age' \in [Sid -> -Lead .. MaxAge]
      BY <2>1, <3>2 DEF IInv, Typed
    <3> QED BY <2>1, <2>7, <3>1, <3>3 DEF IInv, Typed
  <2>9. Row(s)'
    BY <2>1, <2>2, <2>4, <2>5, <2>7, NewPeriodRow DEF i
  <2>10. \A r \in Sid \ {s} : SameRow(r)
    BY <2>1, <2>7 DEF IInv, Typed, OnlyAt, SameRow
  <2>11. PassInv'
    BY <2>1 DEF IInv, PassInv
  <2> QED BY <2>8, <2>9, <2>10, <2>11, RowKept DEF IInv
<1> QED BY <1>1, <1>2, <1>3, <1>4, <1>5 DEF DoScheduling

\* The steps that seek to cancel a payment.
LEMMA CancelingInv ==
  ASSUME SubscriptionsAssumption, IInv, NEW s \in Sid,
         \/ \E i \in Periods : ScheduleCancel(s, i) \/ CancelReturns(s, i)
         \/ tryCancelSubscription(s) \/ ReadPaymentToCancel(s)
  PROVE  IInv'
<1>0. Row(s) /\ index[s] \in Nat
  BY DEF IInv, Typed
<1>1. ASSUME NEW i \in Periods, ScheduleCancel(s, i) PROVE IInv'
  <2>1. /\ period[s][i].needCancel
        /\ period' = [period EXCEPT ![s][i].scheduledCancel = TRUE]
        /\ canceling' \subseteq canceling \union {<<s, i>>}
        /\ UNCHANGED <<state, index, age, payments, tx, balance, deposited, income,
                       pass, reading>>
    BY <1>1 DEF ScheduleCancel, ToCancel
  <2>2. /\ \A r \in Sid, j \in Periods : /\ period'[r][j].state = period[r][j].state
                                         /\ period'[r][j].needCancel = period[r][j].needCancel
        /\ \A r \in Sid \ {s} : period'[r] = period[r]
        /\ period' \in [Sid -> [Periods -> PeriodRecord]]
    <3> DEFINE q == period[s][i]
               p == [q EXCEPT !.scheduledCancel = TRUE]
    <3>1. period \in [Sid -> [Periods -> PeriodRecord]] /\ q \in PeriodRecord
      BY DEF IInv, Typed
    <3>2. p \in PeriodRecord /\ p.state = q.state /\ p.needCancel = q.needCancel
      <4> HIDE DEF q
      <4> QED BY <3>1 DEF PeriodRecord
    <3>3. period' = [period EXCEPT ![s][i] = p]
      BY <2>1
    <3> HIDE DEF p
    <3> QED BY <3>1, <3>2, <3>3
  <2>3. Typed'
    BY <2>1, <2>2 DEF IInv, Typed
  <2>4. \A j \in Periods : EntryAt(s, j)'
    BY <1>0, <2>1, <2>2 DEF Row, EntryAt, Entry
  <2>5. Row(s)'
    BY <1>0, <2>1, <2>4 DEF Row
  <2>6. \A r \in Sid \ {s} : SameRow(r)
    BY <2>1, <2>2 DEF SameRow
  <2>7. PassInv'
    BY <2>1 DEF IInv, PassInv
  <2> QED BY <2>3, <2>5, <2>6, <2>7, RowKept DEF IInv
<1>2. ASSUME NEW i \in Periods, CancelReturns(s, i) PROVE IInv'
  <2>1. /\ canceling' \subseteq canceling
        /\ UNCHANGED <<state, index, period, age, payments, tx, balance, deposited,
                       income, pass, reading>>
    BY <1>2 DEF CancelReturns
  <2>2. \A r \in Sid : SameRow(r)
    BY <2>1 DEF SameRow
  <2> QED BY <2>1, <2>2, RowKept DEF IInv, Typed, PassInv
<1>3. CASE tryCancelSubscription(s)
  <2>1. CASE state[s] \notin PaymentFirst
    <3>1. /\ state[s] \in Serving /\ state' = [state EXCEPT ![s] = "canceled"]
          /\ UNCHANGED <<index, period, age, payments, tx, balance, deposited, income,
                         pass, canceling, reading>>
      BY <1>3, <2>1 DEF tryCancelSubscription, PaymentFirst, Live, Serving
    <3>2. pass' \in [active : BOOLEAN, sid : Sid \union {NoSid}]
      BY <3>1 DEF IInv, Typed
    <3> QED BY <3>1, <3>2, StateMoves DEF Serving, Live
  <2>2. CASE state[s] = "retrying"
    <3>1. /\ reading' = reading \union {s}
          /\ UNCHANGED <<state, index, period, age, payments, tx, balance, deposited, income,
                         pass, canceling>>
      BY <1>3, <2>2 DEF tryCancelSubscription, PaymentFirst
    <3>2. Row(s)'
      BY <1>0, <2>2, <3>1 DEF Row, EntryAt
    <3>3. \A r \in Sid \ {s} : SameRow(r)
      BY <3>1 DEF SameRow
    <3> QED BY <3>1, <3>2, <3>3, RowKept DEF IInv, Typed, PassInv
  <2> QED BY <2>1, <2>2 DEF PaymentFirst
<1>4. CASE ReadPaymentToCancel(s)
  <2>1. /\ s \in reading /\ reading' = reading \ {s}
        /\ canceling' \subseteq canceling \union {<<s, index[s]>>}
        /\ payments[s][index[s]] = "none" => canceling' = canceling
        /\ UNCHANGED <<state, index, period, age, payments, tx, balance, deposited,
                       income, pass>>
    BY <1>4 DEF ReadPaymentToCancel, ToCancel
  <2>2. index[s] # 0
    BY <1>0, <2>1 DEF Row
  <2>3. index[s] \in Periods
    BY <1>0, <2>2 DEF IInv, Typed, Periods
  <2>4. Typed'
    BY <2>1, <2>3 DEF IInv, Typed
  <2>5. \A j \in Periods : EntryAt(s, j)'
    BY <1>0, <2>1 DEF Row, EntryAt, Entry
  <2>6. Row(s)'
    BY <1>0, <2>1, <2>5 DEF Row
  <2>7. \A r \in Sid \ {s} : SameRow(r)
    BY <2>1 DEF SameRow
  <2>8. PassInv'
    BY <2>1 DEF IInv, PassInv
  <2> QED BY <2>4, <2>6, <2>7, <2>8, RowKept DEF IInv
<1> QED BY <1>1, <1>2, <1>3, <1>4

LEMMA HandlesWhat ==
  /\ Handles("success") = PaymentStates \ Completed
  /\ Handles("canceled") = PaymentStates \ Completed
  /\ Handles("failing") \subseteq PaymentStates \ Completed
  /\ Handles("action_required") \subseteq PaymentStates \ Completed
BY DEF Handles, PaymentStates, Completed

\* A payment that is not completed is that of the current period, which waits for
\* it; so no event of it is refused.
LEMMA OpenPayment ==
  ASSUME SubscriptionsAssumption, IInv, NEW s \in Sid, NEW i \in Periods,
         payments[s][i] \in PaymentStates \ Completed
  PROVE  /\ index[s] = i /\ tx[s][i].status = "pending"
         /\ period[s][i].state \in {"pending", "failing"}
         /\ ~(state[s] = "started" /\ i # 1 /\ period[s][i].state = "failing")
         /\ state[s] = "retrying" \/ s \notin reading
<1>1. EntryAt(s, i) /\ Row(s) /\ index[s] \in Nat /\ i \in Nat /\ period[s][i] \in PeriodRecord
  BY Constants DEF IInv, Row, Typed
<1>2. ~(i > index[s]) /\ tx[s][i].status = "pending" /\ period[s][i].state # "success"
  BY <1>1 DEF EntryAt, Entry, PaymentStates, Completed
<1>3. ~(i < index[s])
  BY <1>1, <1>2 DEF EntryAt, Entry
<1>4. i = index[s]
  BY <1>1, <1>2, <1>3
<1>5. period[s][i].state \in {"pending", "failing"}
  BY <1>1, <1>2, <1>4 DEF EntryAt, Entry, PeriodRecord, Completed
<1>6. ~(state[s] = "started" /\ i # 1 /\ period[s][i].state = "failing")
  BY <1>1, <1>4 DEF EntryAt, Entry
<1>7. state[s] = "retrying" \/ s \notin reading
  BY <1>1, <1>4 DEF Row
<1> QED BY <1>2, <1>4, <1>5, <1>6, <1>7

\* The other periods of a subscription whose current one changes.
LEMMA OtherEntries ==
  ASSUME NEW s \in Sid, Row(s), index'[s] = index[s], OnlyAt(s, index[s]), canceling' = canceling,
         state[s] = "expired" => state'[s] = "expired"
  PROVE  \A j \in Periods \ {index[s]} : EntryAt(s, j)'
BY DEF Row, OnlyAt, EntryAt, Entry

\* What a payment event writes of period i of s.
Writes(s, i, S, y, p, t, e, a) ==
  /\ S \in Live \union {"expired"} /\ state' = [state EXCEPT ![s] = S]
  /\ y \in PaymentStates /\ payments' = [payments EXCEPT ![s][i] = y]
  /\ p \in PeriodRecord /\ period' = [period EXCEPT ![s][i] = p]
  /\ t \in TxRecord /\ tx' = [tx EXCEPT ![s][i] = t]
  /\ e \in IncomeRecord /\ income' = [income EXCEPT ![s][i] = e]
  /\ a \in -Lead .. MaxAge /\ age' = [age EXCEPT ![s] = a]
  /\ balance' \in Nat /\ pass' \in [active : BOOLEAN, sid : Sid \union {NoSid}]
  /\ UNCHANGED <<index, deposited, canceling, reading>>

LEMMA EventInv ==
  ASSUME SubscriptionsAssumption, IInv, NEW s \in Sid, NEW i \in Periods, i = index[s],
         NEW S, NEW y, NEW p, NEW t, NEW e, NEW a, Writes(s, i, S, y, p, t, e, a),
         state[s] = "expired" => S = "expired",
         S \in {"grace_period", "retrying"} => i # 1,
         Entry(S, i, i, p.state, y, t.status, e, p.needCancel \/ <<s, i>> \in canceling),
         s \in reading /\ S # "retrying" => y \in Completed /\ (S = "started" => a = 0),
         state[s] # "none",
         pass'.sid = pass.sid /\ (S \in Live => pass.sid = s),
         IF S \in Serving THEN pass'.active
         ELSE pass'.active <=> pass.active /\ state[s] \notin Live
  PROVE  IInv'
<1>w. /\ S \in Live \union {"expired"} /\ y \in PaymentStates
      /\ UNCHANGED <<index, deposited, canceling, reading>>
  BY DEF Writes
<1>1. /\ state'[s] = S /\ payments'[s][i] = y /\ period'[s][i] = p /\ tx'[s][i] = t
      /\ income'[s][i] = e /\ age'[s] = a
      /\ OnlyAt(s, i)
      /\ \A r \in Sid \ {s} : state'[r] = state[r] /\ age'[r] = age[r]
  BY DEF IInv, Typed, OnlyAt, Writes
<1>2. Typed'
  <2>1. state' \in [Sid -> Live \union {"none", "expired"}] /\ age' \in [Sid -> -Lead .. MaxAge]
    BY DEF IInv, Typed, Writes
  <2>2. /\ payments' \in [Sid -> [Periods -> PaymentStates \union {"none"}]]
        /\ period' \in [Sid -> [Periods -> PeriodRecord]]
    BY DEF IInv, Typed, Writes
  <2>3. tx' \in [Sid -> [Periods -> TxRecord]] /\ income' \in [Sid -> [Periods -> IncomeRecord]]
    BY DEF IInv, Typed, Writes
  <2> QED BY <2>1, <2>2, <2>3 DEF IInv, Typed, Writes
<1>3. Row(s)'
  <2>1. Row(s)
    BY DEF IInv
  <2>2. \A j \in Periods \ {i} : EntryAt(s, j)'
    BY <1>w, <1>1, <2>1, OtherEntries
  <2>3. EntryAt(s, i)'
    BY <1>w, <1>1 DEF EntryAt
  <2>4. i # 0 /\ index'[s] = i
    BY <1>w, Constants
  <2>5. S # "none"
    BY <1>w DEF Live
  <2> QED BY <1>w, <1>1, <2>1, <2>2, <2>3, <2>4, <2>5 DEF Row
<1>4. \A r \in Sid \ {s} : SameRow(r)
  BY <1>w, <1>1 DEF OnlyAt, SameRow
<1>5. PassInv'
  <2>1. \A r \in Sid \ {s} : state'[r] = state[r]
    BY <1>1
  <2>2. \A r \in Sid : state'[r] \in Live => pass'.sid = r
    BY <1>1, <2>1 DEF IInv, PassInv
  <2>3. CASE S \in Serving
    BY <1>1, <2>1, <2>2, <2>3 DEF PassInv, Serving, Live
  <2>4. CASE S \notin Serving
    <3>1. pass.active <=> \E r \in Sid : pass.sid = r /\ state[r] \in Serving
      BY DEF IInv, PassInv
    <3>2. state[s] \in Serving => state[s] \in Live /\ pass.sid = s
      BY DEF IInv, PassInv, Serving, Live
    <3>3. \A r \in Sid : state[r] \in Live => pass.sid = r
      BY DEF IInv, PassInv
    <3>4. pass'.active <=> \E r \in Sid \ {s} : pass.sid = r /\ state[r] \in Serving
      <4>1. CASE state[s] \in Live
        <5>1. pass.sid = s
          BY <3>3, <4>1
        <5> QED BY <2>4, <4>1, <5>1
      <4>2. CASE state[s] \notin Live
        BY <2>4, <3>1, <3>2, <4>2
      <4> QED BY <4>1, <4>2
    <3> QED BY <1>1, <2>1, <2>2, <2>4, <3>4 DEF PassInv
  <2> QED BY <2>3, <2>4
<1> QED BY <1>2, <1>3, <1>4, <1>5, RowKept DEF IInv

LEMMA SuccessInv ==
  ASSUME SubscriptionsAssumption, IInv, NEW s \in Sid, NEW i \in Periods,
         handlePaymentSuccess(s, i)
  PROVE  IInv'
<1> DEFINE S == IF state[s] # "expired" /\ Recovers(s, i) THEN "started" ELSE state[s]
           p == IF state[s] = "expired" THEN period[s][i]
                ELSE [period[s][i] EXCEPT !.state = "success"]
           t == [tx[s][i] EXCEPT !.status = "success"]
           a == IF state[s] = "retrying" THEN 0 ELSE age[s]
<1>1. /\ payments[s][i] \in PaymentStates \ Completed
      /\ index[s] = i /\ tx[s][i].status = "pending"
      /\ period[s][i].state \in {"pending", "failing"}
      /\ state[s] = "retrying" \/ s \notin reading
  BY HandlesWhat, OpenPayment DEF handlePaymentSuccess
<1>2. /\ state \in [Sid -> Live \union {"none", "expired"}] /\ age \in [Sid -> -Lead .. MaxAge]
      /\ period \in [Sid -> [Periods -> PeriodRecord]] /\ period[s][i] \in PeriodRecord
      /\ tx \in [Sid -> [Periods -> TxRecord]] /\ tx[s][i] \in TxRecord
      /\ income \in [Sid -> [Periods -> IncomeRecord]] /\ income[s][i] \in IncomeRecord
      /\ pass \in [active : BOOLEAN, sid : Sid \union {NoSid}]
  BY DEF IInv, Typed
<1>3. EntryAt(s, i) /\ Row(s) /\ i \in Nat \ {0}
  BY Constants DEF IInv, Row
<1>4. state[s] \in Live \union {"expired"}
  BY <1>1, <1>2, <1>3 DEF Row
<1>5. /\ payments' = [payments EXCEPT ![s][i] = "success"] /\ tx' = [tx EXCEPT ![s][i] = t]
      /\ balance' = balance /\ UNCHANGED <<index, deposited, canceling, reading>>
  BY DEF handlePaymentSuccess, subscriptionPaymentCommit
<1>6. period' = [period EXCEPT ![s][i] = p]
  BY <1>2 DEF handlePaymentSuccess
<1>7. PICK e \in IF state[s] = "expired" THEN {income[s][i]} ELSE incomeSuccess(income[s][i]) :
        income' = [income EXCEPT ![s][i] = e]
  <2>1. CASE state[s] = "expired"
    <3>1. income' = income
      BY <2>1 DEF handlePaymentSuccess
    <3>2. income = [income EXCEPT ![s][i] = income[s][i]]
      BY <1>2
    <3> QED BY <2>1, <3>1, <3>2
  <2>2. CASE state[s] # "expired"
    <3>1. \E in \in incomeSuccess(income[s][i]) : income' = [income EXCEPT ![s][i] = in]
      BY <2>2 DEF handlePaymentSuccess
    <3> QED BY <2>2, <3>1
  <2> QED BY <2>1, <2>2
<1>8. age' = [age EXCEPT ![s] = a] /\ state' = [state EXCEPT ![s] = S]
  BY <1>2 DEF handlePaymentSuccess
<1>9. t \in TxRecord /\ t.status = "success"
  BY <1>2 DEF TxRecord
<1>10. /\ p \in PeriodRecord
       /\ p.state = IF state[s] = "expired" THEN period[s][i].state ELSE "success"
  BY <1>2 DEF PeriodRecord
<1>11. /\ e \in IncomeRecord
       /\ Earned(i, p.state, e)
  <2> DEFINE in == income[s][i]
  <2>1. in \in IncomeRecord /\ in.success = 0 /\ Earned(i, period[s][i].state, in)
    BY <1>1, <1>2, <1>3 DEF EntryAt, Entry, Earned
  <2>2. CASE state[s] = "expired"
    BY <1>7, <1>10, <2>1, <2>2
  <2>3. CASE state[s] # "expired"
    <3>1. e \in incomeSuccess(in) /\ p.state = "success"
      BY <1>7, <1>10, <2>3
    <3> HIDE DEF in, p
    <3>2. CASE in.pending = 0
      <4>1. e = [in EXCEPT !.success = @ + 1]
        BY <3>1, <3>2 DEF incomeSuccess
      <4> QED BY <2>1, <3>1, <3>2, <4>1 DEF IncomeRecord, Earned
    <3>3. CASE in.pending # 0
      <4>1. in.pending = 1 /\ i = 1
        BY <2>1, <3>3 DEF IncomeRecord, Earned
      <4>2. e \in {in, [pending |-> 0, success |-> in.success + in.pending]}
        BY <3>1, <3>3 DEF incomeSuccess
      <4> QED BY <2>1, <3>1, <4>1, <4>2 DEF IncomeRecord, Earned
    <3> QED BY <3>2, <3>3
  <2> QED BY <2>2, <2>3
<1>12. a \in -Lead .. MaxAge
  BY <1>2, Constants
<1>13. S \notin {"grace_period", "retrying"}
  <2>1. state[s] \in {"grace_period", "retrying"} => period[s][i].state = "failing"
    BY <1>1, <1>3 DEF EntryAt, Entry
  <2> QED BY <2>1 DEF Recovers
<1>14. pass' = IF S = state[s] THEN pass ELSE [active |-> TRUE, sid |-> s]
  BY DEF handlePaymentSuccess, Grant, Recovers
<1>15. S = state[s] \/ (S = "started" /\ state[s] \in Live)
  BY DEF Recovers, Live
<1>16. /\ pass' \in [active : BOOLEAN, sid : Sid \union {NoSid}] /\ pass'.sid = pass.sid
       /\ S \in Live => pass.sid = s
       /\ IF S \in Serving THEN pass'.active
          ELSE pass'.active <=> pass.active /\ state[s] \notin Live
  <2>1. /\ state[s] \in Live => pass.sid = s
        /\ state[s] \in Serving => pass.active
        /\ state[s] \notin Live => S = state[s]
    BY <1>15 DEF IInv, PassInv, Serving, Live
  <2>2. CASE S = state[s]
    <3>1. S \in Serving \/ S \notin Live
      BY <1>13 DEF Serving, Live
    <3> QED BY <1>2, <1>14, <2>1, <2>2, <3>1 DEF Serving, Live
  <2>3. CASE S # state[s]
    BY <1>2, <1>14, <1>15, <2>1, <2>3 DEF Serving, Live
  <2> QED BY <2>2, <2>3
<1>17. Entry(S, i, i, p.state, "success", t.status, e, p.needCancel \/ <<s, i>> \in canceling)
  BY <1>1, <1>3, <1>9, <1>10, <1>11, <1>13, <1>15 DEF Entry, Completed, PaymentStates, Live
<1>18. s \in reading /\ S # "retrying" => (S = "started" => a = 0)
  BY <1>1
<1>19. S \in Live \union {"expired"} /\ (state[s] = "expired" => S = "expired") /\ state[s] # "none"
  BY <1>4, <1>15 DEF Live
<1>20. balance' \in Nat /\ "success" \in PaymentStates /\ "success" \in Completed
  BY <1>5 DEF IInv, Typed, PaymentStates, Completed
<1> HIDE DEF S, p, t, a
<1>21. Writes(s, i, S, "success", p, t, e, a)
  BY <1>5, <1>6, <1>7, <1>8, <1>9, <1>10, <1>11, <1>12, <1>16, <1>19, <1>20 DEF Writes
<1> QED BY <1>1, <1>13, <1>16, <1>17, <1>18, <1>19, <1>20, <1>21, EventInv

LEMMA FailingInv ==
  ASSUME SubscriptionsAssumption, IInv, NEW s \in Sid, NEW i \in Periods,
         NEW to \in {"failing", "action_required"}, handlePaymentFailing(s, i, to)
  PROVE  IInv'
<1> DEFINE noticed == state[s] # "expired" /\ period[s][i].state = "pending"
           S == IF noticed THEN StateAfterFailing(s, i) ELSE state[s]
           p == IF noticed THEN [period[s][i] EXCEPT !.state = "failing"] ELSE period[s][i]
           t == tx[s][i]
           e == income[s][i]
           a == age[s]
<1>1. /\ payments[s][i] \in PaymentStates \ Completed
      /\ index[s] = i /\ tx[s][i].status = "pending"
      /\ period[s][i].state \in {"pending", "failing"}
      /\ state[s] = "retrying" \/ s \notin reading
  BY HandlesWhat, OpenPayment DEF handlePaymentFailing
<1>2. /\ state \in [Sid -> Live \union {"none", "expired"}] /\ age \in [Sid -> -Lead .. MaxAge]
      /\ period \in [Sid -> [Periods -> PeriodRecord]] /\ period[s][i] \in PeriodRecord
      /\ tx \in [Sid -> [Periods -> TxRecord]] /\ tx[s][i] \in TxRecord
      /\ income \in [Sid -> [Periods -> IncomeRecord]] /\ income[s][i] \in IncomeRecord
      /\ pass \in [active : BOOLEAN, sid : Sid \union {NoSid}]
  BY DEF IInv, Typed
<1>3. EntryAt(s, i) /\ Row(s) /\ i \in Nat \ {0}
  BY Constants DEF IInv, Row
<1>4. state[s] \in Live \union {"expired"}
  BY <1>1, <1>2, <1>3 DEF Row
<1>5. /\ payments' = [payments EXCEPT ![s][i] = to]
      /\ UNCHANGED <<index, age, tx, balance, deposited, income, pass, canceling, reading>>
  BY DEF handlePaymentFailing
<1>6. period' = [period EXCEPT ![s][i] = p] /\ state' = [state EXCEPT ![s] = S]
  BY <1>2 DEF handlePaymentFailing
<1>7. /\ tx' = [tx EXCEPT ![s][i] = t] /\ t \in TxRecord
      /\ income' = [income EXCEPT ![s][i] = e] /\ e \in IncomeRecord
      /\ age' = [age EXCEPT ![s] = a] /\ a \in -Lead .. MaxAge
  BY <1>2, <1>5
<1>8. p \in PeriodRecord /\ p.needCancel = period[s][i].needCancel
      /\ p.state = (IF noticed THEN "failing" ELSE period[s][i].state)
  <2> DEFINE q == period[s][i]
  <2> HIDE DEF q
  <2>1. q \in PeriodRecord
    BY <1>2 DEF q
  <2>2. LET r == [q EXCEPT !.state = "failing"]
        IN  r \in PeriodRecord /\ r.needCancel = q.needCancel /\ r.state = "failing"
    BY <2>1 DEF PeriodRecord
  <2> QED BY <1>2, <2>2 DEF q
<1>9. /\ S = state[s] \/ (S = "grace_period" /\ state[s] = "started" /\ noticed /\ i # 1)
      /\ S = "started" => ~noticed \/ i = 1
  BY DEF StateAfterFailing
<1>10. Entry(S, i, i, p.state, to, t.status, e,
             p.needCancel \/ <<s, i>> \in canceling)
  <2>1. state[s] \in {"grace_period", "retrying"} => period[s][i].state = "failing"
    BY <1>1, <1>3 DEF EntryAt, Entry
  <2>2. state[s] = "started" /\ i # 1 => period[s][i].state = "pending"
    BY <1>1, <1>3 DEF EntryAt, Entry
  <2>3. to \notin Completed /\ to # "none" /\ to \in PaymentStates
    BY DEF Completed, PaymentStates
  <2>4. S # "expired" => p.state = "failing"
    BY <1>1, <1>8, <1>9
  <2>5. S \in {"grace_period", "retrying"} => p.state = "failing"
    BY <1>8, <1>9, <2>1
  <2>6. S = "started" => p.state # "failing" \/ i = 1
    BY <1>8, <1>9, <2>2
  <2>7. p.needCancel \/ <<s, i>> \in canceling => S = "retrying"
    <3>1. period[s][i].needCancel \/ <<s, i>> \in canceling => state[s] = "retrying"
      BY <1>1, <1>3 DEF EntryAt, Entry
    <3> QED BY <1>8, <1>9, <3>1
  <2>8. Earned(i, p.state, income[s][i]) /\ p.state \in {"pending", "failing"}
    BY <1>1, <1>3, <1>8 DEF EntryAt, Entry, Earned
  <2> HIDE DEF S, p
  <2> QED BY <1>1, <1>3, <2>3, <2>4, <2>5, <2>6, <2>7, <2>8 DEF Entry
<1>11. pass' \in [active : BOOLEAN, sid : Sid \union {NoSid}] /\ pass'.sid = pass.sid
  BY <1>2, <1>5
<1>12. /\ S \in Live => pass.sid = s
       /\ IF S \in Serving THEN pass'.active
          ELSE pass'.active <=> pass.active /\ state[s] \notin Live
  <2>1. /\ state[s] \in Live => pass.sid = s
        /\ state[s] \in Serving => pass.active
        /\ pass.active => \E r \in Sid : pass.sid = r /\ state[r] \in Serving
    BY DEF IInv, PassInv, Serving, Live
  <2>2. S \in Live <=> state[s] \in Live
    BY <1>9 DEF Live
  <2>3. S \in Serving <=> state[s] \in Serving
    BY <1>9 DEF Serving
  <2>4. state[s] \in Live \ Serving => ~pass.active
    BY <2>1
  <2> HIDE DEF S
  <2> QED BY <1>5, <2>1, <2>2, <2>3, <2>4
<1>13. /\ S \in Live \union {"expired"} /\ (state[s] = "expired" => S = "expired")
       /\ state[s] # "none"
  BY <1>4, <1>9 DEF Live
<1>14. S \in {"grace_period", "retrying"} => i # 1
  <2>1. state[s] \in {"grace_period", "retrying"} => i # 1
    BY <1>1, <1>3 DEF Row
  <2> QED BY <1>9, <2>1
<1>15. balance' \in Nat /\ to \in PaymentStates
  BY <1>5 DEF IInv, Typed, PaymentStates
<1>16. ~(s \in reading /\ S # "retrying")
  BY <1>1, <1>9
<1>17. UNCHANGED <<index, deposited, canceling, reading>>
  BY <1>5
<1> HIDE DEF S, p, t, e, a
<1>18. Writes(s, i, S, to, p, t, e, a)
  BY <1>5, <1>6, <1>7, <1>8, <1>11, <1>13, <1>15, <1>17 DEF Writes
<1> QED BY <1>1, <1>10, <1>11, <1>12, <1>13, <1>14, <1>16, <1>18, EventInv

LEMMA CanceledInv ==
  ASSUME SubscriptionsAssumption, IInv, NEW s \in Sid, NEW i \in Periods,
         handlePaymentCanceled(s, i)
  PROVE  IInv' /\ state[s] = "retrying"
<1> DEFINE p == [period[s][i] EXCEPT !.state = "canceled"]
           t == [tx[s][i] EXCEPT !.status = "canceled"]
           e == income[s][i]
           a == age[s]
<1>1. /\ payments[s][i] \in PaymentStates \ Completed
      /\ index[s] = i /\ tx[s][i].status = "pending"
      /\ period[s][i].state \in {"pending", "failing"}
  BY HandlesWhat, OpenPayment DEF handlePaymentCanceled
<1>2. /\ state \in [Sid -> Live \union {"none", "expired"}] /\ age \in [Sid -> -Lead .. MaxAge]
      /\ period \in [Sid -> [Periods -> PeriodRecord]] /\ period[s][i] \in PeriodRecord
      /\ tx \in [Sid -> [Periods -> TxRecord]] /\ tx[s][i] \in TxRecord
      /\ income \in [Sid -> [Periods -> IncomeRecord]] /\ income[s][i] \in IncomeRecord
      /\ pass \in [active : BOOLEAN, sid : Sid \union {NoSid}]
  BY DEF IInv, Typed
<1>3. EntryAt(s, i) /\ Row(s) /\ i \in Nat \ {0}
  BY Constants DEF IInv, Row
<1>4. state[s] = "retrying"
  BY <1>1, <1>3 DEF handlePaymentCanceled, EntryAt, Entry
<1>5. /\ payments' = [payments EXCEPT ![s][i] = "canceled"]
      /\ tx' = [tx EXCEPT ![s][i] = t] /\ balance' = balance + tx[s][i].wallet
      /\ period' = [period EXCEPT ![s][i] = p] /\ state' = [state EXCEPT ![s] = "expired"]
      /\ pass' = [pass EXCEPT !.active = FALSE]
      /\ UNCHANGED <<index, age, deposited, income, canceling, reading>>
  BY <1>4 DEF handlePaymentCanceled, subscriptionPaymentCancel, Revoke
<1>6. /\ income' = [income EXCEPT ![s][i] = e] /\ e \in IncomeRecord
      /\ age' = [age EXCEPT ![s] = a] /\ a \in -Lead .. MaxAge
  BY <1>2, <1>5
<1>7. t \in TxRecord /\ t.status = "canceled" /\ balance' \in Nat
  <2>1. t \in TxRecord /\ t.status = "canceled"
    <3> DEFINE x == tx[s][i]
    <3> HIDE DEF x
    <3>1. x \in TxRecord
      BY <1>2 DEF x
    <3>2. LET r == [x EXCEPT !.status = "canceled"]
          IN  r \in TxRecord /\ r.status = "canceled"
      BY <3>1 DEF TxRecord
    <3> QED BY <3>2 DEF x
  <2>2. tx[s][i].wallet \in Nat /\ balance \in Nat
    BY <1>2, Constants DEF TxRecord, IInv, Typed
  <2> QED BY <1>5, <2>1, <2>2
<1>8. p \in PeriodRecord /\ p.state = "canceled"
  <2> DEFINE q == period[s][i]
  <2> HIDE DEF q
  <2>1. q \in PeriodRecord
    BY <1>2 DEF q
  <2>2. LET r == [q EXCEPT !.state = "canceled"]
        IN  r \in PeriodRecord /\ r.state = "canceled"
    BY <2>1 DEF PeriodRecord
  <2> QED BY <2>2 DEF q
<1>9. Entry("expired", i, i, p.state, "canceled", t.status, e,
            p.needCancel \/ <<s, i>> \in canceling)
  <2>1. Earned(i, p.state, income[s][i])
    BY <1>1, <1>3, <1>8 DEF EntryAt, Entry, Earned
  <2> HIDE DEF p, t
  <2> QED BY <1>3, <1>7, <1>8, <2>1 DEF Entry, Completed, PaymentStates
<1>10. /\ pass' \in [active : BOOLEAN, sid : Sid \union {NoSid}] /\ pass'.sid = pass.sid
       /\ ~pass'.active
  BY <1>2, <1>5
<1>11. /\ "canceled" \in PaymentStates /\ "canceled" \in Completed
       /\ "expired" \notin Live /\ "expired" \notin Serving /\ state[s] \in Live
  BY <1>4 DEF PaymentStates, Completed, Live, Serving
<1>12. UNCHANGED <<index, deposited, canceling, reading>>
  BY <1>5
<1> HIDE DEF p, t, e, a
<1>13. Writes(s, i, "expired", "canceled", p, t, e, a)
  BY <1>5, <1>6, <1>7, <1>8, <1>10, <1>11, <1>12 DEF Writes
<1>14. IInv'
  BY <1>1, <1>4, <1>9, <1>10, <1>11, <1>13, EventInv
<1> QED BY <1>4, <1>14

LEMMA TickInv ==
  ASSUME SubscriptionsAssumption, IInv, Tick
  PROVE  IInv'
<1>1. /\ reading = {}
      /\ age' = [s \in Sid |-> IF state[s] \in Live /\ age[s] < MaxAge
                               THEN age[s] + 1 ELSE age[s]]
      /\ UNCHANGED <<state, index, period, payments, tx, balance, deposited, income,
                     pass, canceling, reading>>
  BY DEF Tick
<1>2. age' \in [Sid -> -Lead .. MaxAge]
  BY <1>1, Constants DEF IInv, Typed
<1>3. \A r \in Sid : SameRow(r)
  BY <1>1 DEF SameRow
<1> QED BY <1>1, <1>2, <1>3, RowKept DEF IInv, Typed, PassInv

LEMMA DepositInv ==
  ASSUME SubscriptionsAssumption, IInv, NEW amount \in 1 .. MaxDeposit, Deposit(amount)
  PROVE  IInv'
<1>1. /\ deposited' = deposited + amount /\ deposited + amount <= MaxDeposit
      /\ balance' = balance + amount
      /\ UNCHANGED <<state, index, period, age, payments, tx, income, pass, canceling, reading>>
  BY DEF Deposit
<1>2. balance' \in Nat /\ deposited' \in 0 .. MaxDeposit
  BY <1>1, Constants DEF IInv, Typed
<1>3. \A r \in Sid : SameRow(r)
  BY <1>1 DEF SameRow
<1> QED BY <1>1, <1>2, <1>3, RowKept DEF IInv, Typed, PassInv

LEMMA NextInv ==
  ASSUME SubscriptionsAssumption, IInv, [Next]_vars
  PROVE  IInv'
<1>1. ASSUME NEW amount \in 1 .. MaxDeposit, Deposit(amount) PROVE IInv'
  BY <1>1, DepositInv
<1>2. ASSUME NEW s \in Sid, CreateSubscription(s) PROVE IInv'
  BY <1>2, CreateInv
<1>3. ASSUME NEW s \in Sid, DoScheduling(s) PROVE IInv'
  BY <1>3, SchedulingInv
<1>4. ASSUME NEW s \in Sid, NEW i \in Periods,
             ScheduleCancel(s, i) \/ CancelReturns(s, i)
      PROVE  IInv'
  BY <1>4, CancelingInv
<1>5. ASSUME NEW s \in Sid, tryCancelSubscription(s) \/ ReadPaymentToCancel(s) PROVE IInv'
  BY <1>5, CancelingInv
<1>6. ASSUME NEW s \in Sid, NEW i \in Periods, PaymentEvent(s, i) PROVE IInv'
  <2>1. CASE handlePaymentSuccess(s, i)
    BY <2>1, SuccessInv
  <2>2. CASE handlePaymentCanceled(s, i)
    BY <2>2, CanceledInv
  <2>3. ASSUME NEW to \in {"failing", "action_required"}, handlePaymentFailing(s, i, to)
        PROVE  IInv'
    BY <2>3, FailingInv
  <2> QED BY <1>6, <2>1, <2>2, <2>3 DEF PaymentEvent
<1>7. CASE Tick
  BY <1>7, TickInv
<1>8. CASE UNCHANGED vars
  <2>1. \A r \in Sid : SameRow(r)
    BY <1>8 DEF vars, SameRow
  <2> QED BY <1>8, <2>1, RowKept DEF vars, IInv, Typed, PassInv
<1> QED BY <1>1, <1>2, <1>3, <1>4, <1>5, <1>6, <1>7, <1>8 DEF Next

LEMMA InvMeans ==
  ASSUME SubscriptionsAssumption, IInv
  PROVE  PassFollowsSubscription /\ EarnedOncePaid /\ OnlyUntriedRenewalsThrow
<1>1. PassFollowsSubscription
  BY DEF IInv, PassInv, PassFollowsSubscription
<1>2. EarnedOncePaid
  <2> SUFFICES ASSUME NEW s \in Sid, NEW i \in Periods
               PROVE  /\ income[s][i].success # 0 => income[s][i].success = 1 /\ Paid(s, i)
                      /\ Paid(s, i) => \/ income[s][i].success = 1
                                       \/ i = 1 /\ income[s][i].pending = 1
                      /\ tx[s][i].status = "success" /\ ~Paid(s, i) => state[s] = "expired"
    BY DEF EarnedOncePaid
  <2>1. EntryAt(s, i) /\ payments[s][i] \in PaymentStates \union {"none"}
        /\ index[s] \in Nat /\ i \in Nat
    BY Constants DEF IInv, Row, Typed
  <2> QED BY <2>1 DEF EntryAt, Entry, Earned, Paid, PaymentStates, Completed
<1>3. OnlyUntriedRenewalsThrow
  <2>1. ASSUME NEW s \in Sid, NEW i \in Periods, payments[s][i] \in PaymentStates \ Completed
        PROVE  ~EventRefused(s, i) /\ ~StartedYetFailing(s, i)
    BY <2>1, OpenPayment DEF EventRefused, StartedYetFailing
  <2>2. ASSUME NEW s \in Sid, DueForNext(s), ~Paid(s, index[s])
        PROVE  index[s] > 1 /\ payments[s][index[s]] = "pending"
    <3>1. Row(s) /\ state[s] = "started" /\ index[s] \in 0 .. MaxPeriods /\ index[s] # 1
      BY <2>2 DEF IInv, Typed, DueForNext, Paid
    <3>2. index[s] \in Periods /\ index[s] > 1
      BY <3>1, Constants DEF Row, Periods
    <3>3. EntryAt(s, index[s]) /\ period[s][index[s]] \in PeriodRecord
      BY <3>1, <3>2 DEF Row, IInv, Typed
    <3> QED BY <2>2, <3>1, <3>2, <3>3 DEF EntryAt, Entry, PeriodRecord, Paid
  <2> QED BY <2>1, <2>2 DEF OnlyUntriedRenewalsThrow
<1> QED BY <1>1, <1>2, <1>3

\* A payment handed to the cancel queue stays there until it is completed.
Handover ==
  \A s \in Sid, i \in Periods :
    period[s][i].scheduledCancel =>
      period[s][i].needCancel /\ (<<s, i>> \in canceling \/ payments[s][i] \in Completed)

\* No step, by itself, loses what is handed over.
LEMMA HandoverKept ==
  ASSUME Handover,
         \A s \in Sid, i \in Periods :
           /\ period'[s][i].scheduledCancel => period[s][i].scheduledCancel
           /\ period[s][i].needCancel => period'[s][i].needCancel
           /\ payments[s][i] \in Completed => payments'[s][i] = payments[s][i]
           /\ <<s, i>> \in canceling => <<s, i>> \in canceling' \/ payments[s][i] \in Completed
  PROVE  Handover'
BY DEF Handover

LEMMA NextHandover ==
  ASSUME SubscriptionsAssumption, IInv, Handover, [Next]_vars
  PROVE  Handover'
<1>0. /\ period \in [Sid -> [Periods -> PeriodRecord]]
      /\ payments \in [Sid -> [Periods -> PaymentStates \union {"none"}]]
  BY DEF IInv, Typed
<1>1. CASE UNCHANGED <<period, payments>> /\ canceling \subseteq canceling'
  BY <1>1, HandoverKept
<1>2. ASSUME NEW s \in Sid, NEW i \in Periods, NEW n, createPeriod(s, i, n),
             payments[s][i] = "none", canceling' = canceling
      PROVE  Handover'
  <2> DEFINE paid == paymentAmounts(balance, Price).charge = 0
  <2>1. /\ payments' = [payments EXCEPT ![s][i] = IF paid THEN "none" ELSE "pending"]
        /\ period' = [period EXCEPT ![s][i] =
              [NoPeriod EXCEPT !.state = IF paid THEN "success" ELSE "pending"]]
    BY <1>2 DEF createPeriod
  <2>2. /\ ~period'[s][i].scheduledCancel
        /\ \A r \in Sid, j \in Periods : <<r, j>> # <<s, i>> =>
             period'[r][j] = period[r][j] /\ payments'[r][j] = payments[r][j]
    BY <1>0, <2>1 DEF NoPeriod
  <2> QED BY <1>2, <2>2 DEF Handover
<1>3. ASSUME NEW s \in Sid, CreateSubscription(s) PROVE Handover'
  <2>1. createPeriod(s, 1, 1) /\ index[s] = 0 /\ canceling' = canceling
    BY <1>3 DEF CreateSubscription, IInv, Row
  <2>2. payments[s][1] = "none"
    <3>1. EntryAt(s, 1)
      BY Constants DEF IInv, Row
    <3> QED BY <2>1, <3>1 DEF EntryAt, Entry
  <2> QED BY <1>2, <2>1, <2>2, Constants
<1>4. ASSUME NEW s \in Sid, ScheduleNext(s) PROVE Handover'
  <2> DEFINE i == index[s] + 1
  <2>1. createPeriod(s, i, 0) /\ canceling' = canceling /\ index[s] < MaxPeriods
    BY <1>4 DEF ScheduleNext
  <2>2. index[s] \in Nat /\ i \in Periods /\ i > index[s]
    BY <2>1, Constants DEF IInv, Typed, Periods
  <2>3. payments[s][i] = "none"
    <3>1. EntryAt(s, i)
      BY <2>2 DEF IInv, Row
    <3> QED BY <2>2, <3>1 DEF EntryAt, Entry
  <2> HIDE DEF i
  <2> QED BY <1>2, <2>1, <2>2, <2>3
<1>5. ASSUME NEW s \in Sid, GiveUpRetrying(s) PROVE Handover'
  <2>1. /\ period' = [period EXCEPT ![s][index[s]].needCancel = TRUE]
        /\ payments' = payments /\ canceling' = canceling
    BY <1>5 DEF GiveUpRetrying
  <2>2. \A r \in Sid, j \in Periods :
          /\ period'[r][j].scheduledCancel = period[r][j].scheduledCancel
          /\ period[r][j].needCancel => period'[r][j].needCancel
    BY <1>0, <2>1 DEF PeriodRecord
  <2> QED BY <2>1, <2>2, HandoverKept
<1>6. ASSUME NEW s \in Sid, NEW i \in Periods, ScheduleCancel(s, i) PROVE Handover'
  <2>1. /\ period[s][i].needCancel /\ payments' = payments
        /\ period' = [period EXCEPT ![s][i].scheduledCancel = TRUE]
        /\ canceling' = canceling \union ToCancel(s, i)
    BY <1>6 DEF ScheduleCancel
  <2>2. \A r \in Sid, j \in Periods :
          /\ period'[r][j].needCancel = period[r][j].needCancel
          /\ <<r, j>> # <<s, i>> => period'[r][j].scheduledCancel = period[r][j].scheduledCancel
    <3> DEFINE q == [period[s][i] EXCEPT !.scheduledCancel = TRUE]
    <3>1. q.needCancel = period[s][i].needCancel
      BY <1>0 DEF PeriodRecord
    <3>2. period' = [period EXCEPT ![s][i] = q]
      BY <2>1
    <3> HIDE DEF q
    <3> QED BY <1>0, <3>1, <3>2
  <2>3. payments[s][i] # "none"
    <3>1. EntryAt(s, i) /\ period[s][i].needCancel
      BY <2>1 DEF IInv, Row
    <3>2. payments[s][i] \in Completed \/ (state[s] = "retrying" /\ i = index[s])
      BY <3>1 DEF EntryAt, Entry
    <3>3. state[s] = "retrying" /\ i = index[s] => period[s][i].state = "failing"
      BY <3>1 DEF EntryAt, Entry
    <3> QED BY <3>1, <3>2, <3>3, Constants DEF EntryAt, Entry, Completed
  <2>4. <<s, i>> \in canceling'
    BY <2>1, <2>3 DEF ToCancel
  <2> QED BY <2>1, <2>2, <2>4 DEF Handover
<1>7. ASSUME NEW s \in Sid, NEW i \in Periods, CancelReturns(s, i) PROVE Handover'
  <2>1. /\ payments[s][i] \in Completed /\ canceling' = canceling \ {<<s, i>>}
        /\ UNCHANGED <<period, payments>>
    BY <1>7 DEF CancelReturns
  <2> QED BY <2>1, HandoverKept
<1>8. ASSUME NEW s \in Sid, NEW i \in Periods, PaymentEvent(s, i) PROVE Handover'
  <2>1. PICK to \in PaymentStates : /\ payments[s][i] \notin Completed
                                   /\ payments' = [payments EXCEPT ![s][i] = to]
                                   /\ canceling' = canceling
    BY <1>8, HandlesWhat DEF PaymentEvent, handlePaymentSuccess, handlePaymentCanceled,
                             handlePaymentFailing, PaymentStates
  <2>2. \/ period' = period
        \/ \E p \in {"success", "failing", "canceled"} :
             period' = [period EXCEPT ![s][i].state = p]
    BY <1>8 DEF PaymentEvent, handlePaymentSuccess, handlePaymentCanceled, handlePaymentFailing
  <2>3. \A r \in Sid, j \in Periods :
          /\ period'[r][j].scheduledCancel = period[r][j].scheduledCancel
          /\ period'[r][j].needCancel = period[r][j].needCancel
    <3>1. CASE period' = period
      BY <3>1
    <3>2. ASSUME NEW p \in {"success", "failing", "canceled"},
                 period' = [period EXCEPT ![s][i].state = p]
          PROVE  \A r \in Sid, j \in Periods :
                   /\ period'[r][j].scheduledCancel = period[r][j].scheduledCancel
                   /\ period'[r][j].needCancel = period[r][j].needCancel
      <4> DEFINE q == [period[s][i] EXCEPT !.state = p]
      <4>1. /\ q.scheduledCancel = period[s][i].scheduledCancel
            /\ q.needCancel = period[s][i].needCancel
        BY <1>0 DEF PeriodRecord
      <4>2. period' = [period EXCEPT ![s][i] = q]
        BY <3>2
      <4> HIDE DEF q
      <4> QED BY <1>0, <4>1, <4>2
    <3> QED BY <2>2, <3>1, <3>2
  <2>4. \A r \in Sid, j \in Periods :
          payments[r][j] \in Completed => payments'[r][j] = payments[r][j]
    BY <1>0, <2>1
  <2> QED BY <2>1, <2>3, <2>4, HandoverKept
<1>9. ASSUME NEW s \in Sid, DoScheduling(s) PROVE Handover'
  BY <1>1, <1>4, <1>5, <1>9 DEF DoScheduling, ExpireCanceled, PauseAfterGrace, ExpireUnpaidFirst
<1>10. ASSUME NEW s \in Sid, tryCancelSubscription(s) \/ ReadPaymentToCancel(s) PROVE Handover'
  BY <1>1, <1>10 DEF tryCancelSubscription, ReadPaymentToCancel
<1>11. CASE Tick \/ UNCHANGED vars \/ \E amount \in 1 .. MaxDeposit : Deposit(amount)
  BY <1>1, <1>11 DEF Tick, vars, Deposit
<1> QED BY <1>3, <1>6, <1>7, <1>8, <1>9, <1>10, <1>11 DEF Next

\* What is handed over for a paused subscription is not completed.
LEMMA WayOn == ASSUME SubscriptionsAssumption, IInv, Handover PROVE PausedHasWayOn
<1> SUFFICES ASSUME NEW s \in Sid, state[s] = "retrying"
             PROVE  /\ payments[s][index[s]] \in PaymentStates \ Completed
                    /\ period[s][index[s]].scheduledCancel => <<s, index[s]>> \in canceling
  BY DEF PausedHasWayOn
<1>1. index[s] \in Periods /\ Row(s)
  BY Constants DEF IInv, Typed, Row, Periods
<1>2. EntryAt(s, index[s])
  BY <1>1 DEF Row
<1>3. payments[s][index[s]] \in {"failing", "action_required"}
  BY <1>2 DEF EntryAt, Entry
<1> QED BY <1>1, <1>3 DEF Handover, PaymentStates, Completed

\* The one way to lose access.
LEMMA AccessStep ==
  ASSUME SubscriptionsAssumption, IInv, [Next]_vars, NEW s \in Sid,
         state[s] \in Serving, state'[s] \notin Serving
  PROVE  ~Paid(s, index[s]) \/ (state[s] = "canceled" /\ age[s] > Interval)
<1>0. Row(s) /\ state \in [Sid -> Live \union {"none", "expired"}] /\ index[s] \in Nat
  BY DEF IInv, Typed
<1>1. state' # state
  OBVIOUS
<1>2. ASSUME NEW r \in Sid, CreateSubscription(r) PROVE FALSE
  BY <1>0, <1>2 DEF CreateSubscription, Serving
<1>3. ASSUME NEW r \in Sid, DoScheduling(r)
      PROVE  ~Paid(s, index[s]) \/ (state[s] = "canceled" /\ age[s] > Interval)
  <2>1. CASE ExpireCanceled(r)
    BY <1>0, <2>1 DEF ExpireCanceled
  <2>2. CASE PauseAfterGrace(r)
    <3>1. state[s] = "grace_period"
      BY <1>0, <2>2 DEF PauseAfterGrace
    <3>2. index[s] \in Periods
      BY <1>0, <3>1 DEF Row, IInv, Typed, Periods
    <3>3. EntryAt(s, index[s])
      BY <1>0, <3>2 DEF Row
    <3> QED BY <3>1, <3>3 DEF EntryAt, Entry, Paid
  <2>3. CASE ExpireUnpaidFirst(r)
    BY <1>0, <2>3 DEF ExpireUnpaidFirst, Paid
  <2> QED BY <1>1, <1>3, <2>1, <2>2, <2>3 DEF DoScheduling, GiveUpRetrying, ScheduleNext
<1>4. ASSUME NEW r \in Sid, tryCancelSubscription(r) PROVE FALSE
  BY <1>0, <1>4 DEF tryCancelSubscription, Serving
<1>5. ASSUME NEW r \in Sid, NEW i \in Periods, PaymentEvent(r, i) PROVE FALSE
  <2>1. CASE handlePaymentSuccess(r, i)
    BY <1>0, <2>1 DEF handlePaymentSuccess, Serving
  <2>2. CASE handlePaymentCanceled(r, i)
    BY <1>0, <2>2, CanceledInv DEF handlePaymentCanceled, Serving
  <2>3. ASSUME NEW to \in {"failing", "action_required"}, handlePaymentFailing(r, i, to)
        PROVE  FALSE
    BY <1>0, <2>3 DEF handlePaymentFailing, StateAfterFailing, Serving
  <2> QED BY <1>5, <2>1, <2>2, <2>3 DEF PaymentEvent
<1> QED BY <1>1, <1>2, <1>3, <1>4, <1>5
        DEF Next, Deposit, ReadPaymentToCancel, ScheduleCancel, CancelReturns, Tick, vars
-----------------------------------------------------------------------------
(* Sums over a finite set.  FiniteSetsExt sums by recursion on the set; the *)
(* facts below follow from the well-foundedness of its subsets: a set of    *)
(* counterexamples would have a smallest member.                            *)

Total(f, U) == MapThenSumSet(LAMBDA x : f[x], U)

Pick(s) == CHOOSE x \in s : TRUE

\* g solves the recursion for the sums of f over the subsets of U.
Solves(g, f, U) ==
  g = [s \in SUBSET U |-> IF s = {} THEN 0 ELSE f[Pick(s)] + g[s \ {Pick(s)}]]

LEMMA TotalChosen == ASSUME NEW f, NEW U PROVE Total(f, U) = (CHOOSE g : Solves(g, f, U))[U]
BY DEF Total, MapThenSumSet, MapThenFoldSet, Solves, Pick

LEMMA PickIn == ASSUME NEW s, s # {} PROVE Pick(s) \in s
BY DEF Pick

\* A set of subsets of a finite set has a smallest member.
LEMMA Smallest ==
  ASSUME NEW U, IsFiniteSet(U), NEW T \in SUBSET SUBSET U, T # {}
  PROVE  \E s \in T : \A r \in SUBSET s : r # s => r \notin T
<1>1. IsWellFoundedOn(StrictSubsetOrdering(U), SUBSET U)
  BY FS_StrictSubsetOrderingWellFounded, FS_FiniteSubsetsOfFinite
<1>2. PICK s \in T : \A r \in T : <<r, s>> \notin StrictSubsetOrdering(U)
  BY <1>1, WFMin
<1> QED BY <1>2 DEF StrictSubsetOrdering

LEMMA SolutionsAgree ==
  ASSUME NEW U, IsFiniteSet(U), NEW f, NEW V \in SUBSET U, NEW W \in SUBSET U,
         NEW g, Solves(g, f, V), NEW h, Solves(h, f, W)
  PROVE  \A s \in SUBSET (V \cap W) : g[s] = h[s]
<1> DEFINE T == {s \in SUBSET (V \cap W) : g[s] # h[s]}
<1>1. SUFFICES ASSUME T # {} PROVE FALSE
  OBVIOUS
<1>2. PICK s \in T : \A r \in SUBSET s : r # s => r \notin T
  <2>1. T \in SUBSET SUBSET U
    OBVIOUS
  <2> HIDE DEF T
  <2> QED BY <1>1, <2>1, Smallest
<1>3. /\ g[s] = IF s = {} THEN 0 ELSE f[Pick(s)] + g[s \ {Pick(s)}]
      /\ h[s] = IF s = {} THEN 0 ELSE f[Pick(s)] + h[s \ {Pick(s)}]
  BY DEF Solves
<1>4. s # {}
  BY <1>3
<1>5. g[s \ {Pick(s)}] = h[s \ {Pick(s)}]
  BY <1>2, <1>4, PickIn
<1> QED BY <1>3, <1>4, <1>5

LEMMA SolutionExists ==
  ASSUME NEW U, IsFiniteSet(U), NEW f
  PROVE  \A V \in SUBSET U : \E g : Solves(g, f, V)
<1> DEFINE T == {V \in SUBSET U : ~ \E g : Solves(g, f, V)}
<1>1. SUFFICES ASSUME T # {} PROVE FALSE
  OBVIOUS
<1>2. PICK V \in T : \A r \in SUBSET V : r # V => r \notin T
  <2>1. T \in SUBSET SUBSET U
    OBVIOUS
  <2> HIDE DEF T
  <2> QED BY <1>1, <2>1, Smallest
<1> DEFINE of(r) == CHOOSE g : Solves(g, f, r)
           G == [s \in SUBSET V |->
                   IF s = {} THEN 0 ELSE f[Pick(s)] + of(s \ {Pick(s)})[s \ {Pick(s)}]]
<1>3. \A r \in SUBSET V : r # V => Solves(of(r), f, r)
  BY <1>2
<1> HIDE DEF of
<1>4. \A r \in SUBSET V : r # V => G[r] = of(r)[r]
  <2> SUFFICES ASSUME NEW r \in SUBSET V, r # V PROVE G[r] = of(r)[r]
    OBVIOUS
  <2> DEFINE q == r \ {Pick(r)}
  <2>1. of(r)[r] = IF r = {} THEN 0 ELSE f[Pick(r)] + of(r)[q]
    BY <1>3 DEF Solves
  <2>2. Solves(of(r), f, r) /\ Solves(of(q), f, q)
    BY <1>3
  <2>3. of(r)[q] = of(q)[q]
    BY <2>2, SolutionsAgree
  <2> QED BY <2>1, <2>3
<1>5. \A s \in SUBSET V : s # {} => G[s \ {Pick(s)}] = of(s \ {Pick(s)})[s \ {Pick(s)}]
  BY <1>4, PickIn
<1>6. Solves(G, f, V)
  <2> DEFINE H == [s \in SUBSET V |-> IF s = {} THEN 0 ELSE f[Pick(s)] + G[s \ {Pick(s)}]]
  <2>1. \A s \in SUBSET V : G[s] = H[s]
    BY <1>5
  <2>2. G = H
    BY <2>1
  <2> QED BY <2>2 DEF Solves
<1> QED BY <1>6

\* The sum, one summand at a time: first the one the recursion picks.
LEMMA TotalPicks ==
  ASSUME NEW U, IsFiniteSet(U), NEW f
  PROVE  Total(f, U) = IF U = {} THEN 0 ELSE f[Pick(U)] + Total(f, U \ {Pick(U)})
<1> DEFINE g == CHOOSE h : Solves(h, f, U)
           r == U \ {Pick(U)}
           k == CHOOSE h : Solves(h, f, r)
<1>1. Solves(g, f, U) /\ Solves(k, f, r)
  BY SolutionExists
<1>2. Total(f, U) = g[U] /\ Total(f, r) = k[r]
  BY TotalChosen
<1> HIDE DEF g, k
<1>3. g[r] = k[r]
  BY <1>1, SolutionsAgree
<1>4. g[U] = IF U = {} THEN 0 ELSE f[Pick(U)] + g[r]
  BY <1>1 DEF Solves
<1> QED BY <1>2, <1>3, <1>4

LEMMA TotalInt ==
  ASSUME NEW U, IsFiniteSet(U), NEW f, \A x \in U : f[x] \in Int
  PROVE  Total(f, U) \in Int
<1> DEFINE T == {s \in SUBSET U : Total(f, s) \notin Int}
<1>1. SUFFICES ASSUME T # {} PROVE FALSE
  OBVIOUS
<1>2. PICK s \in T : \A r \in SUBSET s : r # s => r \notin T
  <2>1. T \in SUBSET SUBSET U
    OBVIOUS
  <2> HIDE DEF T
  <2> QED BY <1>1, <2>1, Smallest
<1>3. Total(f, s) = IF s = {} THEN 0 ELSE f[Pick(s)] + Total(f, s \ {Pick(s)})
  BY FS_Subset, TotalPicks
<1>4. s # {}
  BY <1>3
<1>5. Total(f, s \ {Pick(s)}) \in Int /\ Pick(s) \in U
  BY <1>2, <1>4, PickIn
<1> QED BY <1>3, <1>4, <1>5

LEMMA TotalNat ==
  ASSUME NEW U, IsFiniteSet(U), NEW f, \A x \in U : f[x] \in Nat
  PROVE  Total(f, U) \in Nat
<1> DEFINE T == {s \in SUBSET U : Total(f, s) \notin Nat}
<1>1. SUFFICES ASSUME T # {} PROVE FALSE
  OBVIOUS
<1>2. PICK s \in T : \A r \in SUBSET s : r # s => r \notin T
  <2>1. T \in SUBSET SUBSET U
    OBVIOUS
  <2> HIDE DEF T
  <2> QED BY <1>1, <2>1, Smallest
<1>3. Total(f, s) = IF s = {} THEN 0 ELSE f[Pick(s)] + Total(f, s \ {Pick(s)})
  BY FS_Subset, TotalPicks
<1>4. s # {}
  BY <1>3
<1>5. Total(f, s \ {Pick(s)}) \in Nat /\ Pick(s) \in U
  BY <1>2, <1>4, PickIn
<1> QED BY <1>3, <1>4, <1>5

\* Any summand can be taken out.
LEMMA TotalWithout ==
  ASSUME NEW U, IsFiniteSet(U), NEW f, \A x \in U : f[x] \in Int, NEW x \in U
  PROVE  Total(f, U) = f[x] + Total(f, U \ {x})
<1> DEFINE T == {s \in SUBSET U : \E y \in s : Total(f, s) # f[y] + Total(f, s \ {y})}
<1>1. SUFFICES ASSUME T # {} PROVE FALSE
  OBVIOUS
<1>2. PICK s \in T : \A r \in SUBSET s : r # s => r \notin T
  <2>1. T \in SUBSET SUBSET U
    OBVIOUS
  <2> HIDE DEF T
  <2> QED BY <1>1, <2>1, Smallest
<1>3. PICK y \in s : Total(f, s) # f[y] + Total(f, s \ {y})
  OBVIOUS
<1> DEFINE p == Pick(s)
           r == (s \ {p}) \ {y}
<1>4. p \in s /\ Total(f, s) = f[p] + Total(f, s \ {p})
  BY FS_Subset, TotalPicks, PickIn
<1>5. p # y
  BY <1>3, <1>4
<1>6. Total(f, s \ {p}) = f[y] + Total(f, r)
  BY <1>2, <1>4, <1>5
<1>7. Total(f, s \ {y}) = f[p] + Total(f, r)
  <2>1. s \ {y} \notin T /\ p \in s \ {y} /\ (s \ {y}) \ {p} = r
    BY <1>2, <1>4, <1>5
  <2> QED BY <2>1
<1>8. f[p] \in Int /\ f[y] \in Int /\ Total(f, r) \in Int
  BY <1>4, FS_Subset, TotalInt
<1> HIDE DEF p, r
<1> QED BY <1>3, <1>4, <1>6, <1>7, <1>8

\* The sum depends on the summands alone.
LEMMA TotalSame ==
  ASSUME NEW U, IsFiniteSet(U), NEW f, NEW h, \A x \in U : f[x] = h[x]
  PROVE  Total(f, U) = Total(h, U)
<1> DEFINE T == {s \in SUBSET U : Total(f, s) # Total(h, s)}
<1>1. SUFFICES ASSUME T # {} PROVE FALSE
  OBVIOUS
<1>2. PICK s \in T : \A r \in SUBSET s : r # s => r \notin T
  <2>1. T \in SUBSET SUBSET U
    OBVIOUS
  <2> HIDE DEF T
  <2> QED BY <1>1, <2>1, Smallest
<1>3. /\ Total(f, s) = IF s = {} THEN 0 ELSE f[Pick(s)] + Total(f, s \ {Pick(s)})
      /\ Total(h, s) = IF s = {} THEN 0 ELSE h[Pick(s)] + Total(h, s \ {Pick(s)})
  BY FS_Subset, TotalPicks
<1>4. s # {}
  BY <1>3
<1>5. Total(f, s \ {Pick(s)}) = Total(h, s \ {Pick(s)}) /\ Pick(s) \in U
  BY <1>2, <1>4, PickIn
<1> QED BY <1>3, <1>4, <1>5

\* A summand that changes moves the sum by as much.
LEMMA TotalMoves ==
  ASSUME NEW U, IsFiniteSet(U), NEW x \in U, NEW f, NEW h,
         \A y \in U : f[y] \in Int /\ h[y] \in Int,
         \A y \in U \ {x} : h[y] = f[y]
  PROVE  Total(h, U) = Total(f, U) - f[x] + h[x]
<1>1. /\ Total(f, U) = f[x] + Total(f, U \ {x})
      /\ Total(h, U) = h[x] + Total(h, U \ {x})
  BY TotalWithout
<1>2. IsFiniteSet(U \ {x})
  BY FS_Subset
<1>3. Total(f, U \ {x}) \in Int /\ Total(f, U \ {x}) = Total(h, U \ {x})
  BY <1>2, TotalInt, TotalSame
<1>4. f[x] \in Int /\ h[x] \in Int
  OBVIOUS
<1> QED BY <1>1, <1>3, <1>4

LEMMA TotalZero ==
  ASSUME NEW U, IsFiniteSet(U), NEW f, \A x \in U : f[x] = 0
  PROVE  Total(f, U) = 0
<1> DEFINE T == {s \in SUBSET U : Total(f, s) # 0}
<1>1. SUFFICES ASSUME T # {} PROVE FALSE
  OBVIOUS
<1>2. PICK s \in T : \A r \in SUBSET s : r # s => r \notin T
  <2>1. T \in SUBSET SUBSET U
    OBVIOUS
  <2> HIDE DEF T
  <2> QED BY <1>1, <2>1, Smallest
<1>3. Total(f, s) = IF s = {} THEN 0 ELSE f[Pick(s)] + Total(f, s \ {Pick(s)})
  BY FS_Subset, TotalPicks
<1>4. s # {}
  BY <1>3
<1>5. Total(f, s \ {Pick(s)}) = 0 /\ Pick(s) \in U
  BY <1>2, <1>4, PickIn
<1> QED BY <1>3, <1>4, <1>5

-----------------------------------------------------------------------------
(* The wallet.                                                             *)

\* What a transaction keeps of the wallet, and the wallet's equation.
Share(t) == IF t.status \in {"pending", "success"} THEN t.wallet ELSE 0
Held == [si \in Sid \X Periods |-> Share(tx[si[1]][si[2]])]
Conserved == deposited = balance + Total(Held, Sid \X Periods)

LEMMA HeldFinite == ASSUME SubscriptionsAssumption PROVE IsFiniteSet(Sid \X Periods)
<1>1. IsFiniteSet(Periods)
  BY Constants, FS_Interval DEF Periods
<1> QED BY <1>1, FS_Product DEF SubscriptionsAssumption

LEMMA HeldTyped ==
  ASSUME SubscriptionsAssumption, tx \in [Sid -> [Periods -> TxRecord]]
  PROVE  \A si \in Sid \X Periods : Held[si] \in Nat
<1> SUFFICES ASSUME NEW s \in Sid, NEW i \in Periods PROVE Held[<<s, i>>] \in Nat
  OBVIOUS
<1>1. tx[s][i].wallet \in Nat
  BY Constants DEF TxRecord
<1> QED BY <1>1 DEF Held, Share

\* WalletConserved sums with an operator, Conserved with a function.
LEMMA ConservedMeans ==
  ASSUME SubscriptionsAssumption, TypeOK, Conserved
  PROVE  WalletConserved
<1> DEFINE D == Sid \X Periods
           held(si) == LET t == tx[si[1]][si[2]]
                       IN IF t.status \in {"pending", "success"} THEN t.wallet ELSE 0
           F(g) == [s \in SUBSET D |-> IF s = {} THEN 0 ELSE held(Pick(s)) + g[s \ {Pick(s)}]]
           iter == CHOOSE g : g = F(g)
           k == CHOOSE g : Solves(g, Held, D)
<1>1. MapThenSumSet(held, D) = iter[D]
  BY DEF MapThenSumSet, MapThenFoldSet, Pick
<1>2. \A s \in SUBSET D : s # {} => Held[Pick(s)] = held(Pick(s))
  BY PickIn DEF Held, Share
<1>3. Solves(k, Held, D) /\ Total(Held, D) = k[D]
  BY HeldFinite, SolutionExists, TotalChosen
<1> HIDE DEF k, held, D
<1>4. k = F(k)
  BY <1>2, <1>3 DEF Solves
<1>5. iter = F(iter)
  BY <1>4
<1> HIDE DEF iter
<1>6. Solves(iter, Held, D)
  BY <1>2, <1>5 DEF Solves
<1>7. iter[D] = k[D]
  BY <1>3, <1>6, HeldFinite, SolutionsAgree DEF D
<1>8. balance + MapThenSumSet(held, D) = deposited
  BY <1>1, <1>3, <1>7 DEF Conserved, D
<1> QED BY <1>8 DEF WalletConserved, held, D

\* A step that writes one transaction.
LEMMA HeldMoves ==
  ASSUME SubscriptionsAssumption, NEW s \in Sid, NEW i \in Periods, NEW t \in TxRecord,
         tx \in [Sid -> [Periods -> TxRecord]], tx' = [tx EXCEPT ![s][i] = t],
         Conserved, balance \in Nat, deposited \in Nat, balance' \in Nat, deposited' = deposited,
         balance' = balance + Share(tx[s][i]) - Share(t)
  PROVE  Conserved'
<1> DEFINE D == Sid \X Periods
           si == <<s, i>>
           h == Held'
<1>1. tx' \in [Sid -> [Periods -> TxRecord]]
  OBVIOUS
<1>2. \A r \in D : Held[r] \in Int /\ h[r] \in Int
  <2>1. \A r \in D : Held[r] \in Nat
    BY HeldTyped
  <2>2. \A r \in D : h[r] \in Nat
    <3> SUFFICES ASSUME NEW u \in Sid, NEW j \in Periods PROVE h[<<u, j>>] \in Nat
      OBVIOUS
    <3>1. tx'[u][j].wallet \in Nat
      BY <1>1, Constants DEF TxRecord
    <3> QED BY <3>1 DEF Held, Share
  <2> QED BY <2>1, <2>2
<1>3. \A r \in D \ {si} : h[r] = Held[r]
  <2> SUFFICES ASSUME NEW u \in Sid, NEW j \in Periods, <<u, j>> # si
               PROVE  h[<<u, j>>] = Held[<<u, j>>]
    OBVIOUS
  <2>1. tx'[u][j] = tx[u][j]
    OBVIOUS
  <2> QED BY <2>1 DEF Held
<1>4. Held[si] = Share(tx[s][i]) /\ h[si] = Share(t) /\ si \in D
  <2>1. tx'[s][i] = t
    OBVIOUS
  <2> QED BY <2>1 DEF Held
<1>5. IsFiniteSet(D)
  BY HeldFinite
<1> HIDE DEF D, si, h
<1>6. Total(h, D) = Total(Held, D) - Held[si] + h[si]
  BY ONLY <1>2, <1>3, <1>4, <1>5, TotalMoves
<1>7. Total(Held, D) \in Int /\ Held[si] \in Int /\ h[si] \in Int
  BY <1>2, <1>4, <1>5, TotalInt
<1>8. deposited = balance + Total(Held, D)
  BY DEF Conserved, D
<1>9. deposited' = balance' + Total(h, D)
  <2> DEFINE total == Total(Held, D)
             new == Share(t)
             old == Share(tx[s][i])
  <2>1. total \in Int /\ old \in Int /\ new \in Int
    BY <1>4, <1>7
  <2>2. Total(h, D) = total - old + new
    BY <1>4, <1>6
  <2> HIDE DEF total, new, old
  <2>3. deposited = balance + total /\ balance' = balance + old - new
    BY <1>8 DEF total, new, old
  <2> QED BY <2>1, <2>2, <2>3
<1> QED BY <1>9 DEF Conserved, D, h

\* A step that writes none.
LEMMA HeldKept ==
  ASSUME SubscriptionsAssumption, tx \in [Sid -> [Periods -> TxRecord]], tx' = tx, Conserved,
         balance \in Nat, deposited \in Nat, NEW n \in Nat,
         balance' = balance + n, deposited' = deposited + n
  PROVE  Conserved'
<1>1. Held' = Held
  BY DEF Held
<1>2. Total(Held, Sid \X Periods) \in Int
  BY HeldFinite, HeldTyped, TotalInt
<1>3. balance + Total(Held, Sid \X Periods) = deposited
  BY DEF Conserved
<1>4. balance' + Total(Held, Sid \X Periods) = deposited'
  BY <1>2, <1>3
<1> QED BY <1>1, <1>4 DEF Conserved

\* A new period takes its share out of the wallet.
LEMMA CreateConserves ==
  ASSUME SubscriptionsAssumption, Typed, Conserved, NEW s \in Sid, NEW i \in Periods, NEW n,
         createPeriod(s, i, n), deposited' = deposited, tx[s][i].status = "none"
  PROVE  Conserved'
<1> DEFINE amounts == paymentAmounts(balance, Price)
           t == [status |-> IF amounts.charge = 0 THEN "success" ELSE "pending",
                 wallet |-> amounts.wallet]
<1>1. amounts.wallet \in 0 .. Price /\ amounts.wallet <= balance
  BY Amounts DEF Typed
<1>2. tx' = [tx EXCEPT ![s][i] = t] /\ balance' = balance - amounts.wallet
  BY DEF createPeriod
<1>3. t.wallet = amounts.wallet /\ t.status \in {"success", "pending"}
  OBVIOUS
<1>4. t \in TxRecord
  BY <1>1 DEF TxRecord
<1>5. Share(tx[s][i]) = 0 /\ Share(t) = amounts.wallet
  BY <1>3 DEF Share
<1>6. balance \in Nat /\ deposited \in Nat /\ tx \in [Sid -> [Periods -> TxRecord]]
      /\ Price \in Nat
  BY Constants DEF Typed
<1> HIDE DEF t, amounts
<1>7. balance' \in Nat /\ balance' = balance + Share(tx[s][i]) - Share(t)
  BY <1>1, <1>2, <1>5, <1>6
<1> QED BY <1>2, <1>4, <1>6, <1>7, HeldMoves

LEMMA InitConserved == ASSUME SubscriptionsAssumption, Init PROVE Conserved
<1>1. \A si \in Sid \X Periods : Held[si] = 0
  BY DEF Held, Share, Init, NoTx
<1>2. Total(Held, Sid \X Periods) = 0
  BY <1>1, HeldFinite, TotalZero
<1> QED BY <1>2 DEF Conserved, Init

LEMMA NextConserved ==
  ASSUME SubscriptionsAssumption, IInv, Conserved, [Next]_vars
  PROVE  Conserved'
<1>0. /\ Typed /\ balance \in Nat /\ deposited \in Nat
      /\ tx \in [Sid -> [Periods -> TxRecord]] /\ Price \in Nat
  BY Constants DEF IInv, Typed
<1>1. ASSUME NEW amount \in 1 .. MaxDeposit, Deposit(amount) PROVE Conserved'
  <2>1. tx' = tx /\ balance' = balance + amount /\ deposited' = deposited + amount
        /\ amount \in Nat
    BY <1>1 DEF Deposit
  <2> QED BY <1>0, <2>1, HeldKept
<1>2. ASSUME UNCHANGED <<tx, balance, deposited>> PROVE Conserved'
  <2>1. balance' = balance + 0 /\ deposited' = deposited + 0
    BY <1>0, <1>2
  <2> QED BY <1>0, <1>2, <2>1, HeldKept
<1>3. ASSUME NEW s \in Sid, CreateSubscription(s) PROVE Conserved'
  <2>1. createPeriod(s, 1, 1) /\ deposited' = deposited /\ state[s] = "none"
    BY <1>3 DEF CreateSubscription
  <2>2. tx[s][1].status = "none"
    <3>1. index[s] = 0 /\ EntryAt(s, 1)
      BY <2>1, Constants DEF IInv, Row
    <3> QED BY <3>1 DEF EntryAt, Entry
  <2> QED BY <1>0, <2>1, <2>2, Constants, CreateConserves
<1>4. ASSUME NEW s \in Sid, ScheduleNext(s) PROVE Conserved'
  <2>1. /\ createPeriod(s, index[s] + 1, 0) /\ deposited' = deposited
        /\ index[s] < MaxPeriods
    BY <1>4 DEF ScheduleNext
  <2>2. index[s] \in Nat /\ index[s] + 1 \in Periods
    <3>1. index[s] \in 0 .. MaxPeriods /\ MaxPeriods \in Nat
      BY Constants DEF IInv, Typed
    <3> QED BY ONLY <2>1, <3>1 DEF Periods
  <2>3. tx[s][index[s] + 1].status = "none"
    <3>1. EntryAt(s, index[s] + 1)
      BY <2>2 DEF IInv, Row
    <3> QED BY <2>2, <3>1 DEF EntryAt, Entry
  <2> QED BY <1>0, <2>1, <2>2, <2>3, CreateConserves
<1>5. ASSUME NEW s \in Sid, NEW i \in Periods, handlePaymentSuccess(s, i) PROVE Conserved'
  <2> DEFINE x == tx[s][i]
             t == [x EXCEPT !.status = "success"]
  <2>1. x.status = "pending" /\ x \in TxRecord
    BY <1>0, <1>5, HandlesWhat, OpenPayment DEF handlePaymentSuccess
  <2>2. tx' = [tx EXCEPT ![s][i] = t] /\ balance' = balance /\ deposited' = deposited
    BY <1>5 DEF handlePaymentSuccess, subscriptionPaymentCommit
  <2> HIDE DEF x
  <2>3. t \in TxRecord /\ Share(t) = Share(x)
    BY <2>1 DEF TxRecord, Share
  <2>4. Share(t) \in Int /\ Share(tx[s][i]) = Share(x)
    BY <1>0, <2>1, <2>3 DEF TxRecord, Share, x
  <2> HIDE DEF t
  <2>5. balance' = balance + Share(tx[s][i]) - Share(t)
    BY <1>0, <2>2, <2>3, <2>4
  <2> QED BY <1>0, <2>2, <2>3, <2>5, HeldMoves
<1>6. ASSUME NEW s \in Sid, NEW i \in Periods, handlePaymentCanceled(s, i) PROVE Conserved'
  <2> DEFINE x == tx[s][i]
             t == [x EXCEPT !.status = "canceled"]
  <2>1. x.status = "pending" /\ x \in TxRecord
    BY <1>0, <1>6, HandlesWhat, OpenPayment DEF handlePaymentCanceled
  <2>2. tx' = [tx EXCEPT ![s][i] = t] /\ balance' = balance + x.wallet /\ deposited' = deposited
    BY <1>6 DEF handlePaymentCanceled, subscriptionPaymentCancel
  <2>3. Share(tx[s][i]) = x.wallet
    BY <2>1 DEF Share
  <2> HIDE DEF x
  <2>4. t \in TxRecord /\ Share(t) = 0 /\ x.wallet \in Nat
    BY <1>0, <2>1 DEF TxRecord, Share
  <2> HIDE DEF t
  <2>5. balance' \in Nat /\ balance' = balance + Share(tx[s][i]) - Share(t)
    BY <1>0, <2>2, <2>3, <2>4
  <2> QED BY <1>0, <2>2, <2>4, <2>5, HeldMoves
<1>7. ASSUME NEW s \in Sid, DoScheduling(s) PROVE Conserved'
  BY <1>2, <1>4, <1>7 DEF DoScheduling, ExpireCanceled, PauseAfterGrace, GiveUpRetrying,
                          ExpireUnpaidFirst
<1>8. ASSUME NEW s \in Sid, NEW i \in Periods, PaymentEvent(s, i) PROVE Conserved'
  BY <1>2, <1>5, <1>6, <1>8 DEF PaymentEvent, handlePaymentFailing
<1>9. CASE Tick \/ UNCHANGED vars
  BY <1>2, <1>9 DEF Tick, vars
<1>10. ASSUME NEW s \in Sid, tryCancelSubscription(s) \/ ReadPaymentToCancel(s) PROVE Conserved'
  BY <1>2, <1>10 DEF tryCancelSubscription, ReadPaymentToCancel
<1>11. ASSUME NEW s \in Sid, NEW i \in Periods, ScheduleCancel(s, i) \/ CancelReturns(s, i)
       PROVE  Conserved'
  BY <1>2, <1>11 DEF ScheduleCancel, CancelReturns
<1> QED BY <1>1, <1>3, <1>7, <1>8, <1>9, <1>10, <1>11 DEF Next

\* The balance has the bound its type claims, because nothing else was put in.
LEMMA ConservedTyped ==
  ASSUME SubscriptionsAssumption, IInv, Conserved
  PROVE  TypeOK /\ WalletConserved
<1>1. /\ Typed /\ balance \in Nat /\ deposited \in 0 .. MaxDeposit /\ MaxDeposit \in Nat
      /\ tx \in [Sid -> [Periods -> TxRecord]]
  BY Constants DEF IInv, Typed
<1>2. Total(Held, Sid \X Periods) \in Nat
  BY <1>1, HeldFinite, HeldTyped, TotalNat
<1>3. balance + Total(Held, Sid \X Periods) = deposited
  BY DEF Conserved
<1>4. balance \in 0 .. MaxDeposit
  BY <1>1, <1>2, <1>3
<1>5. TypeOK
  BY <1>1, <1>4 DEF Typed, TypeOK, PeriodRecord, TxRecord, IncomeRecord
<1> QED BY <1>5, ConservedMeans

-----------------------------------------------------------------------------
(* The theorems.                                                           *)

\* IInv, the wallet's equation and the handover of payments to cancel hold in every
\* state the subscriptions reach.
THEOREM SubscriptionsInvariance == Spec => [](IInv /\ Conserved /\ Handover)
<1>1. Init => IInv /\ Conserved /\ Handover
  <2>1. Init => Handover
    BY DEF Init, NoPeriod, Handover
  <2> QED BY <2>1, SubscriptionsAssumption, InitInv, InitConserved
<1>2. (IInv /\ Conserved /\ Handover) /\ [Next]_vars => (IInv /\ Conserved /\ Handover)'
  BY SubscriptionsAssumption, NextInv, NextConserved, NextHandover
<1> QED BY <1>1, <1>2, PTL DEF Spec

\* The pass gives access exactly while a subscription serves its user, and no two
\* live subscriptions bill him for the same chat (CreateSubscription, the
\* scheduler's transitions and the payment events of PremiumChatMediator).
THEOREM PassAlwaysFollows == Spec => []PassFollowsSubscription
<1>1. IInv /\ Conserved => PassFollowsSubscription
  BY SubscriptionsAssumption, InvMeans
<1> QED BY <1>1, SubscriptionsInvariance, PTL

\* The owner earns no period twice and none that is not paid, whatever the order of
\* the announcement, the payment's events and the scheduler, and whether or not the
\* callbacks of incomeSuccess, which nobody awaits, come in time; what is paid and not
\* earned because they did not is a first period, whose income is still pending.
THEOREM AlwaysEarnedAsPaid == Spec => []EarnedOncePaid
<1>1. IInv /\ Conserved => EarnedOncePaid
  BY SubscriptionsAssumption, InvMeans
<1> QED BY <1>1, SubscriptionsInvariance, PTL

\* No payment event is ever refused, and the scheduler throws only over a renewal
\* whose payment nobody has tried.
THEOREM NothingElseThrows == Spec => []OnlyUntriedRenewalsThrow
<1>1. IInv /\ Conserved => OnlyUntriedRenewalsThrow
  BY SubscriptionsAssumption, InvMeans
<1> QED BY <1>1, SubscriptionsInvariance, PTL

\* Balance and the transactions' shares always add up to what was deposited, and
\* the wallet is never overdrawn.
THEOREM WalletAlwaysConserved == Spec => []WalletConserved
<1>1. IInv /\ Conserved => WalletConserved
  BY SubscriptionsAssumption, ConservedTyped
<1> QED BY <1>1, SubscriptionsInvariance, PTL

\* The payment of a paused subscription is undecided, and is being canceled once it
\* was handed over: giving up, canceling and payment events never leave a paused
\* subscription without a way to be restarted or to end.
THEOREM PausedAlwaysHasWayOn == Spec => []PausedHasWayOn
<1>1. IInv /\ Handover => PausedHasWayOn
  BY SubscriptionsAssumption, WayOn
<1> QED BY <1>1, SubscriptionsInvariance, PTL

\* Nobody who has paid for the current period loses his access before it ends.
THEOREM AccessAlwaysKept == Spec => AccessKeptWhilePaid
<1>1. IInv /\ Conserved /\ [Next]_vars =>
        [ \A s \in Sid : state[s] \in Serving /\ state'[s] \notin Serving
            => ~Paid(s, index[s]) \/ (state[s] = "canceled" /\ age[s] > Interval) ]_vars
  BY SubscriptionsAssumption, AccessStep
<1> QED BY <1>1, SubscriptionsInvariance, PTL DEF Spec, AccessKeptWhilePaid

-----------------------------------------------------------------------------
(* What the records say of each other and of the intent at Stripe.         *)

OutcomeOf(s) == IF s = "succeeded" THEN "success" ELSE "canceled"

\* A payment and its intent as one transaction sees them agree with Stripe.
Agrees(r, s) ==
  /\ r.piid <=> r.intent # "none"
  /\ r.piid => (r.intent \in Completed <=> r.payment \in Completed)
  /\ r.intent \in Completed => r.intent = r.payment /\ OutcomeOf(s) = r.intent /\ s \in Final
  /\ r.payment = "success" => r.intent = "success"
  /\ r.payment = "action_required" => r.piid

\* A transaction that is looking its intent up, or charging it.
Open(r) == r.piid /\ r.intent = "pending" /\ r.payment \notin Completed

\* An event of the intent keeps the records typed.
LEMMA EventTyped ==
  ASSUME NEW r \in Records, NEW to \in {"success", "canceled", "failing", "action_required"}
  PROVE  paymentIntent(r, to) \in Records
BY DEF Records, paymentIntent, Refused, Completed, Handles, PaymentStates

\* The event of an intent Stripe has completed keeps the agreement, and leaves
\* a completed payment alone.
LEMMA CompletionAgrees ==
  ASSUME NEW r \in Records, NEW s \in Final, Agrees(r, s)
  PROVE  /\ Agrees(paymentIntent(r, OutcomeOf(s)), s)
         /\ r.payment \in Completed => paymentIntent(r, OutcomeOf(s)) = r
BY DEF Records, paymentIntent, Refused, Completed, Handles, PaymentStates, Agrees, OutcomeOf,
       Final

\* So does a failed attempt.
LEMMA FailureAgrees ==
  ASSUME NEW r \in Records, NEW s, NEW to \in {"failing", "action_required"},
         Agrees(r, s)
  PROVE  Agrees(paymentIntent(r, to), s)
BY DEF Records, paymentIntent, Refused, Completed, Handles, PaymentStates, Agrees

\* Stripe completing the intent breaks no agreement made before.
LEMMA AgreesStable ==
  ASSUME NEW r, NEW s, NEW t, Agrees(r, s), s \notin Final
  PROVE  Agrees(r, t)
BY DEF Agrees

\* An intent opened by the transaction agrees whatever Stripe says.
LEMMA OpenedAgrees ==
  ASSUME NEW r \in Records, NEW s, Agrees(r, s), r.payment \notin Completed
  PROVE  LET o == [r EXCEPT !.piid = TRUE, !.intent = "pending"]
         IN o \in Records /\ Agrees(o, s) /\ Open(o)
BY DEF Records, Agrees, Open, Completed

-----------------------------------------------------------------------------
(* Types.                                                                  *)

LEMMA Blank ==
  ASSUME PaymentMediatorAssumption
  PROVE  Nothing \in Records /\ Unscheduled \in Schedules
BY DEF PaymentMediatorAssumption, Nothing, Records, Unscheduled, Schedules, PaymentStates

LEMMA PMInitType == ASSUME PaymentMediatorAssumption, PMInit PROVE PMTypeOK
<1>1. Current \in Records
  BY DEF PMInit, Current, Records, PaymentStates
<1>2. sch \in Schedules /\ snap \in [Workers -> [db : Records, sch : Schedules]]
      /\ view \in [Workers -> Records]
  BY Blank DEF PMInit
<1>3. deaths \in 0 .. MaxDeaths
  BY DEF PMInit, PaymentMediatorAssumption
<1>4. upc \in [Updaters -> {"idle", "preflight", "check", "retrieve", "apply", "cancel"}]
  BY DEF PMInit
<1> QED BY <1>1, <1>2, <1>3, <1>4 DEF PMInit, PMTypeOK, NoTask

LEMMA PMNextType == ASSUME PaymentMediatorAssumption, PMTypeOK, [PMNext]_pmVars PROVE PMTypeOK'
<1> USE DEF Goto, Step
<1>0. MaxAttempts \in Nat /\ MaxDeaths \in Nat /\ NoTask = 0 /\ Updaters = {"reader", "canceler"}
  BY DEF PaymentMediatorAssumption, NoTask, Updaters
<1>a. Nothing \in Records /\ Unscheduled \in Schedules
  BY Blank
<1>b. ASSUME UNCHANGED db PROVE (Current \in Records)'
  BY <1>b DEF PMTypeOK, db, Current
<1>1. CASE Enqueue
  <2>1. sch.attempt \in 1 .. MaxAttempts
    BY DEF PMTypeOK, Schedules
  <2>2. sch.attempt + 1 \in 1 .. MaxAttempts
    BY <1>0, <1>1, <2>1 DEF Enqueue
  <2>3. sch' \in Schedules
    BY <1>1, <2>2 DEF Enqueue, Schedules
  <2>4. tasks' \subseteq 1 .. MaxAttempts
    BY <1>1, <2>2 DEF Enqueue, PMTypeOK
  <2> QED BY <1>1, <1>b, <2>3, <2>4 DEF PMTypeOK, Enqueue, workerVars
<1>2. ASSUME NEW w \in Workers, Execute(w) PROVE PMTypeOK'
  <2>0. view[w] \in Records /\ Current \in Records /\ sch \in Schedules
    BY DEF PMTypeOK
  <2>1. ASSUME NEW a \in tasks, Take(w, a) PROVE PMTypeOK'
    BY <2>1, <1>b DEF PMTypeOK, Take
  <2>2. CASE Begin(w)
    BY <2>2, <1>b DEF PMTypeOK, Begin
  <2>3. CASE CreateIntent(w)
    <3>1. [view[w] EXCEPT !.piid = TRUE, !.intent = "pending"] \in Records
      BY <2>0 DEF Records
    <3> QED BY <2>3, <1>b, <3>1 DEF PMTypeOK, CreateIntent
  <2>4. CASE Lookup(w)
    <3>1. Outcome \in {"success", "canceled"}
      BY DEF Outcome
    <3>2. paymentIntent(view[w], Outcome) \in Records
      BY <2>0, <3>1, EventTyped
    <3> HIDE DEF Outcome
    <3> QED BY <2>4, <1>b, <3>2 DEF PMTypeOK, Lookup, Conclude
  <2>5. CASE NeedAction(w)
    BY <2>5, <1>b, <2>0, EventTyped DEF PMTypeOK, NeedAction, Conclude
  <2>6. CASE Decline(w)
    BY <2>6, <1>b, <2>0, EventTyped DEF PMTypeOK, Decline, Conclude
  <2>7. CASE Charge(w)
    BY <2>7, <1>b, <2>0, EventTyped DEF PMTypeOK, Charge, Conclude, CompletesAtStripe, Final
  <2>8. CASE ConfirmThrows(w)
    BY <2>8, <1>a, <1>b DEF PMTypeOK, ConfirmThrows, Rest, Forget
  <2>9. CASE Commit(w)
    <3>1. sch' \in Schedules
      BY <2>0, <2>9 DEF Commit, Attempted, Schedules
    <3>2. (Current \in Records)'
      <4>1. CASE Isolated(w)
        <5>1. Current' = [payment |-> view[w].payment, piid |-> view[w].piid,
                          intent |-> view[w].intent]
          BY <2>9, <4>1 DEF Commit, Write, Current
        <5> QED BY <2>0, <5>1 DEF Records
      <4> QED BY <2>9, <4>1, <1>b DEF Commit
    <3> QED BY <2>9, <1>a, <3>1, <3>2 DEF PMTypeOK, Commit, Forget
  <2>10. CASE Complete(w)
    BY <2>10, <1>a, <1>b DEF PMTypeOK, Complete, Rest, Forget
  <2> QED BY <1>2, <2>1, <2>2, <2>3, <2>4, <2>5, <2>6, <2>7, <2>8, <2>9, <2>10 DEF Execute
<1>3. ASSUME NEW w \in Workers, TooOld(w) PROVE PMTypeOK'
  BY <1>0, <1>3, <1>a, <1>b DEF PMTypeOK, TooOld, Forget
<1>4. ASSUME NEW w \in Workers, Abandon(w) PROVE PMTypeOK'
  BY <1>0, <1>4, <1>a, <1>b DEF PMTypeOK, Abandon, Rest, Forget
<1>5. ASSUME NEW u \in Updaters, Update(u) PROVE PMTypeOK'
  <2>1. CASE StartUpdate(u)
    BY <2>1, <1>b DEF PMTypeOK, StartUpdate, workerVars
  <2>2. CASE Check(u)
    BY <2>2, <1>b DEF PMTypeOK, Check, Otherwise, Consume, workerVars
  <2>3. CASE Retrieve(u)
    BY <2>3, <1>b DEF PMTypeOK, Retrieve, Otherwise, Consume, workerVars
  <2>4. CASE Apply(u)
    <3>1. Outcome \in {"success", "canceled"} /\ Current \in Records
      BY DEF Outcome, PMTypeOK
    <3> DEFINE p == paymentIntent(Current, Outcome)
    <3>2. p \in Records
      BY <3>1, EventTyped
    <3>3. Current' = [payment |-> p.payment, piid |-> p.piid, intent |-> p.intent]
      BY <2>4 DEF Apply, Write, Current
    <3> HIDE DEF p
    <3>4. (Current \in Records)'
      BY <3>2, <3>3 DEF Records
    <3> QED BY <2>4, <3>4 DEF PMTypeOK, Apply, Consume, workerVars
  <2> QED BY <1>5, <2>1, <2>2, <2>3, <2>4 DEF Update
<1>6. ASSUME NEW u \in Updaters, UpdaterDies(u) PROVE PMTypeOK'
  BY <1>0, <1>6, <1>b DEF PMTypeOK, UpdaterDies, workerVars
<1>7. CASE UserPays
  BY <1>7, <1>b DEF PMTypeOK, UserPays, CompletesAtStripe, Final, workerVars
<1>8. CASE StartCancel
  <2>1. (Current \in Records)'
    BY <1>8 DEF PMTypeOK, StartCancel, Current, Records, PaymentStates
  <2> QED BY <1>8, <2>1 DEF PMTypeOK, StartCancel, workerVars
<1>9. CASE Cancel
  <2>1. CASE Preflight
    BY <2>1, <1>b DEF PMTypeOK, Preflight, workerVars
  <2>2. CASE CancelAtStripe
    BY <2>2, <1>b DEF PMTypeOK, CancelAtStripe, CompletesAtStripe, Final, workerVars
  <2> QED BY <1>9, <2>1, <2>2 DEF Cancel
<1>10. CASE UNCHANGED pmVars
  BY <1>10, <1>b DEF PMTypeOK, pmVars, db
<1> QED BY <1>1, <1>2, <1>3, <1>4, <1>5, <1>6, <1>7, <1>8, <1>9, <1>10 DEF PMNext

-----------------------------------------------------------------------------
(* The inductive invariant.                                                *)

\* What w's transaction has read and is about to write.  It registers an intent
\* only for a payment it has read as not completed, and looks at Stripe only
\* with an open intent in hand.
Transaction(w) ==
  /\ Agrees(snap[w].db, stripe) /\ Agrees(view[w], stripe)
  /\ pc[w] = "create" => snap[w].db = view[w]
  /\ pc[w] \in {"update", "card"} => Open(view[w])
  /\ pc[w] \in {"create", "update", "card"} => snap[w].db.payment \notin Completed
  /\ pc[w] = "commit" => IF snap[w].db.payment \in Completed THEN view[w] = snap[w].db
                          ELSE view[w].piid

Ledgers ==
  /\ Agrees(Current, stripe)
  /\ \A w \in Workers : Transaction(w)
  /\ \A u \in Updaters : upc[u] = "apply" => stripe \in Final

\* Attempts are numbered in order, and whoever has commited an attempt has
\* ended its progress.
Queue ==
  /\ tasks \subseteq 1 .. sch.attempt
  /\ \A w \in Workers : task[w] \in 0 .. sch.attempt
  /\ \A w \in Workers : pc[w] = "done" /\ sch.inProgress => sch.attempt # task[w]
  /\ InProgressHasTask

LedgersInv == PMTypeOK /\ Ledgers /\ Queue

\* Stripe moves only until it has completed the intent.
LEMMA AgreesAcross ==
  ASSUME NEW r, Agrees(r, stripe), stripe' = stripe \/ stripe \notin Final
  PROVE  Agrees(r, stripe')
BY DEF Agrees

LEMMA TransactionKept ==
  ASSUME NEW w \in Workers, Transaction(w),
         pc'[w] = pc[w], snap'[w] = snap[w], view'[w] = view[w],
         stripe' = stripe \/ stripe \notin Final
  PROVE  Transaction(w)'
<1>1. Agrees(snap[w].db, stripe') /\ Agrees(view[w], stripe')
  BY AgreesAcross DEF Transaction
<1> QED BY <1>1 DEF Transaction

\* A worker without a transaction.
LEMMA TransactionForgotten ==
  ASSUME NEW w \in Workers, PMTypeOK, Forget(w), pc'[w] \in {"idle", "begin", "done"}
  PROVE  Transaction(w)'
<1>1. snap'[w].db = Nothing /\ view'[w] = Nothing
  BY DEF PMTypeOK, Forget
<1>2. Agrees(Nothing, stripe')
  BY DEF Agrees, Nothing, Completed
<1> QED BY <1>1, <1>2 DEF Transaction

LEMMA Concluded ==
  ASSUME NEW w \in Workers, PMTypeOK, Transaction(w), pc[w] \in {"update", "card"},
         snap' = snap, NEW to, Conclude(w, to, TRUE) \/ Conclude(w, to, FALSE),
         stripe' = stripe \/ stripe \notin Final,
         \/ to \in {"failing", "action_required"}
         \/ to = OutcomeOf(stripe') /\ stripe' \in Final
  PROVE  Transaction(w)'
<1>1. view[w] \in Records /\ Agrees(view[w], stripe') /\ Agrees(snap[w].db, stripe')
  BY AgreesAcross DEF PMTypeOK, Transaction
<1>2. Agrees(paymentIntent(view[w], to), stripe')
  BY <1>1, CompletionAgrees, FailureAgrees
<1>3. view'[w] = paymentIntent(view[w], to) /\ pc'[w] = "commit"
  BY DEF Conclude, Goto, PMTypeOK
<1>4. snap[w].db.payment \notin Completed /\ view[w].piid
  BY DEF Transaction, Open
<1>5. paymentIntent(view[w], to).piid
  BY <1>1, <1>4 DEF paymentIntent, Records
<1> QED BY <1>1, <1>2, <1>3, <1>4, <1>5 DEF Transaction

LEMMA PMInitInv == ASSUME PaymentMediatorAssumption, PMInit PROVE LedgersInv
<1>1. PMTypeOK
  BY PMInitType
<1>2. Agrees(Nothing, stripe) /\ Current = Nothing
  BY DEF PMInit, Agrees, Nothing, Current, Completed
<1>3. Ledgers
  BY <1>2 DEF PMInit, Ledgers, Transaction, Updaters
<1>4. Queue
  BY DEF PMInit, Queue, InProgressHasTask, Unscheduled, NoTask
<1> QED BY <1>1, <1>3, <1>4 DEF LedgersInv

\* The first half of the inductive step: what is written agrees with Stripe,
\* and a completed payment is written back as it was.
LEMMA NextLedgers ==
  ASSUME PaymentMediatorAssumption, LedgersInv, [PMNext]_pmVars
  PROVE  Ledgers' /\ (payment \in Completed => payment' = payment /\ intent' = intent)
<1> USE DEF Goto, Step
<1> DEFINE Kept == payment \in Completed => payment' = payment /\ intent' = intent
<1>0. PMTypeOK /\ Ledgers /\ Current \in Records
  BY DEF LedgersInv, PMTypeOK
<1>1. ASSUME UNCHANGED db, stripe' = stripe \/ stripe \notin Final
      PROVE  Kept /\ Agrees(Current, stripe)'
  BY <1>0, <1>1, AgreesAcross DEF Ledgers, db, Current
<1>2. ASSUME UNCHANGED <<pc, snap, view>>, stripe' = stripe \/ stripe \notin Final
      PROVE  \A w \in Workers : Transaction(w)'
  BY <1>0, <1>2, TransactionKept DEF Ledgers
<1>3. ASSUME UNCHANGED upc, stripe' = stripe \/ stripe' \in Final
      PROVE  \A u \in Updaters : upc'[u] = "apply" => stripe' \in Final
  BY <1>0, <1>3 DEF Ledgers
<1>4. CASE Enqueue
  BY <1>4, <1>1, <1>2, <1>3 DEF Enqueue, workerVars, Ledgers
<1>5. ASSUME NEW w \in Workers, Execute(w) \/ TooOld(w) \/ Abandon(w) PROVE Ledgers' /\ Kept
  <2>0. Transaction(w) /\ view[w] \in Records
    BY <1>0 DEF Ledgers, PMTypeOK
  <2>1. \* The others' transactions.
        ASSUME stripe' = stripe \/ stripe \notin Final,
               \A v \in Workers \ {w} : pc'[v] = pc[v] /\ snap'[v] = snap[v] /\ view'[v] = view[v],
               Transaction(w)'
        PROVE  \A v \in Workers : Transaction(v)'
    BY <1>0, <2>1, TransactionKept DEF Ledgers
  <2>2. ASSUME NEW a \in tasks, Take(w, a) PROVE Ledgers' /\ Kept
    <3>1. Transaction(w)'
      BY <1>0, <2>0, <2>2 DEF Take, Transaction, PMTypeOK
    <3> QED BY <1>0, <2>2, <3>1, <2>1, <1>1, <1>3 DEF Take, Ledgers, PMTypeOK
  <2>3. CASE Begin(w)
    <3>1. snap'[w].db = Current /\ view'[w] = Current
      BY <1>0, <2>3 DEF Begin, PMTypeOK
    <3>2. pc'[w] = IF payment \in Completed THEN "commit" ELSE IF piid THEN "update" ELSE "create"
      BY <1>0, <2>3 DEF Begin, PMTypeOK
    <3>3. Agrees(Current, stripe) /\ stripe' = stripe
      BY <1>0, <2>3 DEF Begin, Ledgers
    <3>4. pc'[w] = "update" => Open(Current)
      BY <1>0, <3>2, <3>3 DEF Open, Agrees, Current, Records, Completed
    <3>5. Transaction(w)'
      BY <3>1, <3>2, <3>3, <3>4 DEF Transaction, Current
    <3> QED BY <1>0, <2>3, <3>5, <2>1, <1>1, <1>3 DEF Begin, Ledgers, PMTypeOK
  <2>4. CASE CreateIntent(w)
    <3> DEFINE o == [view[w] EXCEPT !.piid = TRUE, !.intent = "pending"]
    <3>1. stripe' = stripe \/ stripe \notin Final
      BY <2>4 DEF CreateIntent, Final
    <3>2. Agrees(snap[w].db, stripe') /\ Agrees(view[w], stripe')
      BY <2>0, <3>1, AgreesAcross DEF Transaction
    <3>3. snap[w].db.payment \notin Completed /\ view[w].payment \notin Completed
      BY <2>0, <2>4 DEF CreateIntent, Transaction
    <3>4. Agrees(o, stripe') /\ Open(o)
      BY <2>0, <3>2, <3>3, OpenedAgrees
    <3>5. view'[w] = o /\ pc'[w] = "update" /\ snap' = snap
      BY <1>0, <2>4 DEF CreateIntent, PMTypeOK
    <3> HIDE DEF o
    <3>6. Transaction(w)'
      BY <3>2, <3>3, <3>4, <3>5 DEF Transaction
    <3>7. \A v \in Workers \ {w} : pc'[v] = pc[v] /\ snap'[v] = snap[v] /\ view'[v] = view[v]
      BY <1>0, <2>4 DEF CreateIntent, PMTypeOK
    <3>8. \A u \in Updaters : upc'[u] = "apply" => stripe' \in Final
      BY <1>0, <2>4 DEF CreateIntent, Ledgers, Final
    <3> QED BY <2>4, <3>1, <3>6, <3>7, <3>8, <2>1, <1>1 DEF CreateIntent, Ledgers
  <2>5. CASE Lookup(w)
    <3>1. Transaction(w)'
      <4>1. CASE stripe \in Final
        BY <1>0, <2>0, <2>5, <4>1, Concluded DEF Lookup, Outcome, OutcomeOf
      <4>2. CASE stripe \notin Final
        BY <1>0, <2>0, <2>5, <4>2 DEF Lookup, Transaction, PMTypeOK
      <4> QED BY <4>1, <4>2
    <3> QED BY <1>0, <2>5, <3>1, <2>1, <1>1, <1>3 DEF Lookup, Conclude, Ledgers, PMTypeOK
  <2>6. CASE NeedAction(w)
    <3>1. Transaction(w)'
      BY <1>0, <2>0, <2>6, Concluded DEF NeedAction
    <3> QED BY <1>0, <2>6, <3>1, <2>1, <1>1, <1>3 DEF NeedAction, Conclude, Ledgers, PMTypeOK
  <2>7. CASE Decline(w)
    <3>1. Transaction(w)'
      BY <1>0, <2>0, <2>7, Concluded DEF Decline
    <3> QED BY <1>0, <2>7, <3>1, <2>1, <1>1, <1>3 DEF Decline, Conclude, Ledgers, PMTypeOK
  <2>8. CASE Charge(w)
    <3>1. stripe \notin Final /\ stripe' = "succeeded"
      BY <2>8 DEF Charge, CompletesAtStripe, Final
    <3>2. Transaction(w)'
      BY <1>0, <2>0, <2>8, <3>1, Concluded DEF Charge, OutcomeOf, Final
    <3>3. \A v \in Workers \ {w} : pc'[v] = pc[v] /\ snap'[v] = snap[v] /\ view'[v] = view[v]
      BY <1>0, <2>8 DEF Charge, Conclude, PMTypeOK
    <3> QED BY <2>8, <3>1, <3>2, <3>3, <2>1, <1>1, <1>3 DEF Charge, Ledgers, Final
  <2>9. CASE ConfirmThrows(w)
    <3>1. Transaction(w)'
      BY <1>0, <2>9, TransactionForgotten DEF ConfirmThrows, Rest, PMTypeOK
    <3> QED BY <1>0, <2>9, <3>1, <2>1, <1>1, <1>3 DEF ConfirmThrows, Rest, Forget, Ledgers,
                   PMTypeOK
  <2>10. CASE Commit(w)
    <3>1. Transaction(w)'
      BY <1>0, <2>10, TransactionForgotten DEF Commit, PMTypeOK
    <3>2. \A v \in Workers \ {w} : pc'[v] = pc[v] /\ snap'[v] = snap[v] /\ view'[v] = view[v]
      BY <1>0, <2>10 DEF Commit, Forget, PMTypeOK
    <3>3. Kept /\ Agrees(Current, stripe)'
      <4>1. CASE Isolated(w)
        <5>1. Current' = [payment |-> view[w].payment, piid |-> view[w].piid,
                          intent |-> view[w].intent] /\ stripe' = stripe
          BY <2>10, <4>1 DEF Commit, Write, Current
        <5>2. Agrees(Current', stripe')
          BY <2>0, <5>1 DEF Transaction, Agrees
        <5>3. snap[w].db = Current
          BY <4>1 DEF Isolated
        <5>4. payment \in Completed => view[w] = Current
          BY <2>0, <2>10, <5>3 DEF Commit, Transaction, Current
        <5>5. Kept
          BY <2>10, <4>1, <5>4 DEF Commit, Write, Current
        <5> QED BY <5>2, <5>5
      <4> QED BY <2>10, <4>1, <1>1 DEF Commit
    <3> QED BY <2>10, <3>1, <3>2, <3>3, <2>1, <1>3 DEF Commit, Ledgers
  <2>11. CASE Complete(w)
    <3>1. Transaction(w)'
      BY <1>0, <2>11, TransactionForgotten DEF Complete, Rest, PMTypeOK
    <3> QED BY <1>0, <2>11, <3>1, <2>1, <1>1, <1>3 DEF Complete, Rest, Forget, Ledgers, PMTypeOK
  <2>12. CASE TooOld(w)
    <3>1. Transaction(w)'
      BY <1>0, <2>12, TransactionForgotten DEF TooOld, PMTypeOK
    <3> QED BY <1>0, <2>12, <3>1, <2>1, <1>1, <1>3 DEF TooOld, Forget, Ledgers, PMTypeOK
  <2>13. CASE Abandon(w)
    <3>1. Transaction(w)'
      BY <1>0, <2>13, TransactionForgotten DEF Abandon, Rest, PMTypeOK
    <3> QED BY <1>0, <2>13, <3>1, <2>1, <1>1, <1>3 DEF Abandon, Rest, Forget, Ledgers, PMTypeOK
  <2> QED BY <1>5, <2>2, <2>3, <2>4, <2>5, <2>6, <2>7, <2>8, <2>9, <2>10, <2>11, <2>12,
                 <2>13 DEF Execute
<1>6. ASSUME NEW u \in Updaters, Update(u) PROVE Ledgers' /\ Kept
  <2>1. CASE StartUpdate(u) \/ Check(u) \/ Retrieve(u)
    <3>1. \A v \in Updaters : upc'[v] = "apply" => stripe' \in Final
      BY <1>0, <2>1 DEF StartUpdate, Check, Retrieve, Otherwise, Ledgers, PMTypeOK
    <3> QED BY <2>1, <3>1, <1>1, <1>2 DEF StartUpdate, Check, Retrieve, workerVars, Ledgers
  <2>2. CASE Apply(u)
    <3> DEFINE p == paymentIntent(Current, OutcomeOf(stripe))
    <3>1. stripe \in Final /\ stripe' = stripe
      BY <1>0, <2>2 DEF Apply, Ledgers
    <3>2. Agrees(p, stripe) /\ (payment \in Completed => p = Current)
      BY <1>0, <3>1, CompletionAgrees DEF Ledgers, Current
    <3>3. payment' = p.payment /\ piid' = p.piid /\ intent' = p.intent
      BY <2>2 DEF Apply, Write, Outcome, OutcomeOf
    <3> HIDE DEF p
    <3>4. Agrees(Current, stripe)' /\ Kept
      BY <3>1, <3>2, <3>3 DEF Agrees, Current
    <3>5. \A v \in Updaters : upc'[v] = "apply" => stripe' \in Final
      BY <3>1
    <3> QED BY <2>2, <3>1, <3>4, <3>5, <1>2 DEF Apply, workerVars, Ledgers
  <2> QED BY <1>6, <2>1, <2>2 DEF Update
<1>7. ASSUME NEW u \in Updaters, UpdaterDies(u) PROVE Ledgers' /\ Kept
  <2>1. \A v \in Updaters : upc'[v] = "apply" => stripe' \in Final
    BY <1>0, <1>7 DEF UpdaterDies, Ledgers, PMTypeOK
  <2> QED BY <1>7, <2>1, <1>1, <1>2 DEF UpdaterDies, workerVars, Ledgers
<1>8. CASE UserPays
  BY <1>8, <1>1, <1>2, <1>3 DEF UserPays, CompletesAtStripe, Final, workerVars, Ledgers
<1>9. CASE StartCancel
  <2>1. Kept /\ Agrees(Current, stripe)'
    BY <1>0, <1>9 DEF StartCancel, AtStripe, Handles, PaymentStates, Completed, Ledgers,
           Agrees, Current, Records
  <2>2. \A u \in Updaters : upc'[u] = "apply" => stripe' \in Final
    BY <1>0, <1>9 DEF StartCancel, Ledgers, PMTypeOK
  <2> QED BY <1>9, <2>1, <2>2, <1>2 DEF StartCancel, workerVars, Ledgers
<1>10. CASE Cancel
  <2>1. stripe' = stripe \/ (stripe \notin Final /\ stripe' \in Final)
    BY <1>10 DEF Cancel, Preflight, CancelAtStripe, CompletesAtStripe, Final
  <2>2. \A u \in Updaters : upc'[u] = "apply" => stripe' \in Final
    BY <1>0, <1>10, <2>1 DEF Cancel, Preflight, CancelAtStripe, Ledgers, PMTypeOK
  <2> QED BY <1>10, <2>1, <2>2, <1>1, <1>2 DEF Cancel, Preflight, CancelAtStripe, workerVars,
                 Ledgers
<1>11. CASE UNCHANGED pmVars
  BY <1>11, <1>1, <1>2, <1>3 DEF pmVars, db, Ledgers
<1> QED BY <1>4, <1>5, <1>6, <1>7, <1>8, <1>9, <1>10, <1>11 DEF PMNext

\* The second half: a task is never lost to the schedule.
LEMMA NextQueue == ASSUME PaymentMediatorAssumption, LedgersInv, [PMNext]_pmVars PROVE Queue'
<1> USE DEF Goto
<1>0. PMTypeOK /\ Queue /\ sch.attempt \in 1 .. MaxAttempts /\ MaxAttempts \in Nat
  BY DEF LedgersInv, PMTypeOK, Schedules, PaymentMediatorAssumption
<1>a. \* A worker at rest has no task.
      ASSUME NEW w \in Workers, Rest(w), sch' = sch, tasks' \subseteq tasks
      PROVE  /\ tasks' \subseteq 1 .. sch'.attempt
             /\ \A v \in Workers : task'[v] \in 0 .. sch'.attempt
             /\ \A v \in Workers : pc'[v] = "done" /\ sch'.inProgress => sch'.attempt # task'[v]
  <2>1. pc' = [pc EXCEPT ![w] = "idle"] /\ task' = [task EXCEPT ![w] = 0]
    BY <1>a DEF Rest, NoTask
  <2>2. 0 \in 0 .. sch.attempt
    BY <1>0
  <2>3. \A v \in Workers : v = w \/ (pc'[v] = pc[v] /\ task'[v] = task[v])
    BY <1>0, <2>1 DEF PMTypeOK
  <2>4. pc'[w] = "idle" /\ task'[w] = 0
    BY <1>0, <2>1 DEF PMTypeOK
  <2> QED BY <1>0, <1>a, <2>2, <2>3, <2>4 DEF Queue
<1>1. CASE Enqueue
  <2>1. sch'.attempt = sch.attempt + 1 /\ tasks' = tasks \union {sch.attempt + 1}
        /\ UNCHANGED <<pc, task>>
    BY <1>1 DEF Enqueue, workerVars
  <2>2. tasks' \subseteq 1 .. sch'.attempt
    <3>1. 1 .. sch.attempt \subseteq 1 .. sch.attempt + 1 /\ sch.attempt + 1 \in 1 .. sch.attempt + 1
      BY <1>0
    <3>2. tasks \subseteq 1 .. sch.attempt
      BY <1>0 DEF Queue
    <3> QED BY <2>1, <3>1, <3>2
  <2>3. \A v \in Workers : task'[v] \in 0 .. sch'.attempt /\ sch'.attempt # task'[v]
    <3> TAKE v \in Workers
    <3>1. task[v] \in 0 .. sch.attempt
      BY <1>0 DEF Queue
    <3>2. task[v] \in 0 .. sch.attempt + 1 /\ sch.attempt + 1 # task[v]
      BY <1>0, <3>1
    <3> QED BY <2>1, <3>2
  <2> QED BY <2>1, <2>2, <2>3 DEF Queue, InProgressHasTask
<1>2. ASSUME NEW w \in Workers, Execute(w) PROVE Queue'
  <2>1. ASSUME NEW a \in tasks, Take(w, a) PROVE Queue'
    <3>1. a \in 0 .. sch.attempt
      BY <1>0 DEF Queue
    <3> QED BY <1>0, <2>1, <3>1 DEF Take, Queue, InProgressHasTask, PMTypeOK
  <2>2. CASE Begin(w) \/ CreateIntent(w) \/ Lookup(w) \/ NeedAction(w) \/ Decline(w) \/ Charge(w)
    <3>1. UNCHANGED <<sch, tasks, task>> /\ \A v \in Workers : pc'[v] = "done" => pc[v] = "done"
      BY <1>0, <2>2 DEF Begin, CreateIntent, Lookup, NeedAction, Decline, Charge, Conclude,
             PMTypeOK
    <3> QED BY <1>0, <3>1 DEF Queue, InProgressHasTask
  <2>3. CASE ConfirmThrows(w)
    <3>1. UNCHANGED <<tasks, sch>> /\ Rest(w)
      BY <2>3 DEF ConfirmThrows
    <3> QED BY <1>0, <3>1, <1>a DEF Queue, InProgressHasTask
  <2>4. CASE Commit(w)
    <3>1. sch'.attempt = sch.attempt /\ (sch'.inProgress => sch.inProgress)
      BY <1>0, <2>4 DEF Commit, Attempted, PMTypeOK, Schedules
    <3>2. pc'[w] = "done" /\ sch'.inProgress => sch'.attempt # task[w]
      BY <1>0, <2>4 DEF Commit, Attempted, PMTypeOK, Schedules
    <3>3. UNCHANGED <<tasks, task>> /\ \A v \in Workers \ {w} : pc'[v] = pc[v]
      BY <1>0, <2>4 DEF Commit, PMTypeOK
    <3> QED BY <1>0, <3>1, <3>2, <3>3 DEF Queue, InProgressHasTask
  <2>5. CASE Complete(w)
    <3>1. sch.inProgress => sch.attempt # task[w]
      BY <1>0, <2>5 DEF Complete, Queue
    <3>2. tasks' \subseteq tasks /\ UNCHANGED sch /\ Rest(w) /\ InProgressHasTask'
      BY <1>0, <2>5, <3>1 DEF Complete, Queue, InProgressHasTask
    <3> QED BY <3>2, <1>a DEF Queue
  <2> QED BY <1>2, <2>1, <2>2, <2>3, <2>4, <2>5 DEF Execute
<1>3. ASSUME NEW w \in Workers, TooOld(w) \/ Abandon(w) PROVE Queue'
  <2>1. CASE TooOld(w)
    BY <1>0, <2>1 DEF TooOld, Queue, InProgressHasTask, PMTypeOK
  <2>2. CASE Abandon(w)
    <3>1. UNCHANGED <<tasks, sch>> /\ Rest(w)
      BY <2>2 DEF Abandon
    <3> QED BY <1>0, <3>1, <1>a DEF Queue, InProgressHasTask
  <2> QED BY <1>3, <2>1, <2>2
<1>4. CASE UNCHANGED <<sch, tasks, pc, task>>
  BY <1>0, <1>4 DEF Queue, InProgressHasTask
<1>5. ASSUME NEW u \in Updaters, Update(u) \/ UpdaterDies(u)
      PROVE  UNCHANGED <<sch, tasks, pc, task>>
  BY <1>5 DEF Update, StartUpdate, Check, Retrieve, Apply, UpdaterDies, workerVars
<1>6. UserPays \/ StartCancel \/ Cancel \/ UNCHANGED pmVars
      => UNCHANGED <<sch, tasks, pc, task>>
  BY DEF UserPays, StartCancel, Cancel, Preflight, CancelAtStripe, workerVars, pmVars
<1> QED BY <1>1, <1>2, <1>3, <1>4, <1>5, <1>6 DEF PMNext

LEMMA PMNextInv ==
  ASSUME PaymentMediatorAssumption, LedgersInv, [PMNext]_pmVars
  PROVE  LedgersInv' /\ (payment \in Completed => payment' = payment /\ intent' = intent)
<1>1. PMTypeOK'
  BY PMNextType DEF LedgersInv
<1>2. Ledgers' /\ (payment \in Completed => payment' = payment /\ intent' = intent)
  BY NextLedgers
<1>3. Queue'
  BY NextQueue
<1> QED BY <1>1, <1>2, <1>3 DEF LedgersInv

\* What remains: an unrecorded charge passes from hand to hand, and its event is
\* consumed only by the step that records it.
LEMMA NextInHand ==
  ASSUME PaymentMediatorAssumption, LedgersInv, ChargeInHand, [PMNext]_pmVars
  PROVE  ChargeInHand'
<1> USE DEF Goto, Step
<1> DEFINE Announced == intent = "pending" /\ event = "queued"
           InHands == \E w \in Workers : InHand(w)
<1>0. PMTypeOK /\ Ledgers /\ Current \in Records /\ deaths \in Nat /\ MaxDeaths \in Nat
  BY DEF LedgersInv, PMTypeOK, PaymentMediatorAssumption
<1> SUFFICES ASSUME stripe' = "succeeded", payment' \notin Completed, deaths' = 0
             PROVE  Announced' \/ InHands'
  BY DEF ChargeInHand
<1>1. payment \notin Completed /\ LedgersInv'
  BY PMNextInv
<1>2. (piid => intent = "pending") /\ (~piid => intent = "none")
  BY <1>0, <1>1 DEF Ledgers, Agrees, Current, Records, Completed
<1>3. \* The steps that leave the charge with those who have it.
      ASSUME stripe = stripe', deaths = deaths',
             Announced => Announced', \A w \in Workers : InHand(w) => InHand(w)'
      PROVE  Announced' \/ InHands'
  BY <1>1, <1>3 DEF ChargeInHand
<1>4. ASSUME NEW w \in Workers, Execute(w) PROVE Announced' \/ InHands'
  <2>0. Transaction(w) /\ view[w] \in Records
    BY <1>0, <1>4 DEF Ledgers, PMTypeOK
  <2>1. \* The others' hands.
        ASSUME \A v \in Workers \ {w} : pc'[v] = pc[v] /\ view'[v] = view[v],
               InHand(w) => InHand(w)'
        PROVE  \A v \in Workers : InHand(v) => InHand(v)'
    BY <2>1 DEF InHand
  <2>2. CASE (\E a \in tasks : Take(w, a)) \/ ConfirmThrows(w) \/ Complete(w)
    <3>1. pc[w] \in {"idle", "card", "done"} /\ UNCHANGED <<db, event, stripe, deaths>>
          /\ \A v \in Workers \ {w} : pc'[v] = pc[v] /\ view'[v] = view[v]
      BY <1>0, <2>2 DEF Take, ConfirmThrows, Complete, Rest, Forget, PMTypeOK
    <3> QED BY <3>1, <2>1, <1>3 DEF InHand, db
  <2>3. CASE Begin(w)
    <3>1. pc'[w] \in {"create", "update"}
      BY <1>0, <1>1, <2>3 DEF Begin, PMTypeOK
    <3> QED BY <3>1 DEF InHand
  <2>4. CASE CreateIntent(w)
    <3>1. pc'[w] = "update"
      BY <1>0, <2>4 DEF CreateIntent, PMTypeOK
    <3> QED BY <3>1 DEF InHand
  <2>5. ASSUME Conclude(w, "success", TRUE), pc[w] \in {"update", "card"} PROVE InHands'
    <3>1. view[w].intent = "pending" /\ view[w].payment \notin Completed
      BY <2>0, <2>5 DEF Transaction, Open
    <3>2. paymentIntent(view[w], "success").intent = "success"
      BY <2>0, <3>1 DEF paymentIntent, Refused, Handles, Completed, Records, PaymentStates
    <3>3. pc'[w] = "commit" /\ view'[w].intent = "success"
      BY <1>0, <2>5, <3>2 DEF Conclude, PMTypeOK
    <3> QED BY <3>3 DEF InHand
  <2>6. CASE Lookup(w)
    BY <2>5, <2>6 DEF Lookup, Final, Outcome
  <2>7. CASE Charge(w)
    BY <2>5, <2>7 DEF Charge
  <2>8. CASE NeedAction(w) \/ Decline(w)
    <3>1. pc[w] = "card" /\ UNCHANGED <<db, event, stripe, deaths>>
          /\ \A v \in Workers \ {w} : pc'[v] = pc[v] /\ view'[v] = view[v]
      BY <1>0, <2>8 DEF NeedAction, Decline, Conclude, PMTypeOK
    <3> QED BY <3>1, <2>1, <1>3 DEF InHand, db
  <2>9. CASE Commit(w)
    <3>1. CASE ~Isolated(w)
      <4>1. pc'[w] = "begin"
        BY <1>0, <2>9, <3>1 DEF Commit, PMTypeOK
      <4> QED BY <4>1 DEF InHand
    <3>2. CASE Isolated(w)
      <4>1. payment' = view[w].payment /\ piid' = view[w].piid /\ intent' = view[w].intent
            /\ UNCHANGED <<event, stripe, deaths>> /\ pc[w] = "commit"
        BY <2>9, <3>2 DEF Commit, Write
      <4>2. snap[w].db.payment \notin Completed
        BY <1>1, <3>2 DEF Isolated, Current
      <4>3. piid' /\ intent' \notin Completed
        BY <2>0, <4>1, <4>2 DEF Transaction, Agrees
      <4>4. intent' = "pending" /\ ~InHand(w)
        BY <2>0, <4>1, <4>3 DEF Transaction, Agrees, Records, Completed, InHand
      <4>5. \A v \in Workers \ {w} : pc'[v] = pc[v] /\ view'[v] = view[v]
        BY <1>0, <2>9 DEF Commit, Forget, PMTypeOK
      <4> QED BY <4>1, <4>4, <4>5, <2>1, <1>3
    <3> QED BY <3>1, <3>2
  <2> QED BY <1>4, <2>2, <2>3, <2>4, <2>6, <2>7, <2>8, <2>9 DEF Execute
<1>5. ASSUME NEW w \in Workers, TooOld(w) PROVE Announced' \/ InHands'
  <2>1. pc'[w] = "begin"
    BY <1>0, <1>5 DEF TooOld, PMTypeOK
  <2> QED BY <2>1 DEF InHand
<1>6. ASSUME NEW w \in Workers, Abandon(w) PROVE FALSE
  <2>1. deaths' = deaths + 1
    BY <1>6 DEF Abandon
  <2> QED BY <1>0, <2>1
<1>7. ASSUME UNCHANGED <<pc, view, stripe, deaths>>, Announced => Announced'
      PROVE  Announced' \/ InHands'
  BY <1>3, <1>7 DEF InHand
<1>8. ASSUME NEW u \in Updaters, Update(u) PROVE Announced' \/ InHands'
  <2>0. UNCHANGED <<pc, view, stripe, deaths>>
    BY <1>8 DEF Update, StartUpdate, Check, Retrieve, Apply, workerVars
  <2>1. CASE StartUpdate(u) \/ Check(u)
    BY <2>0, <2>1, <1>7 DEF StartUpdate, Check, db
  <2>2. CASE Retrieve(u)
    BY <2>0, <2>2, <1>7 DEF Retrieve, Final, db
  <2>3. CASE Apply(u)
    <3>1. intent # "pending"
      <4> SUFFICES ASSUME intent = "pending" PROVE FALSE
        OBVIOUS
      <4>1. paymentIntent(Current, "success").payment = "success"
        BY <1>0, <1>1 DEF paymentIntent, Refused, Handles, Completed, Records, PaymentStates,
               Current
      <4>2. payment' = "success"
        BY <2>0, <2>3, <4>1 DEF Apply, Write, Outcome
      <4> QED BY <4>2 DEF Completed
    <3> QED BY <2>0, <3>1, <1>7
  <2> QED BY <1>8, <2>1, <2>2, <2>3 DEF Update
<1>9. CASE UserPays
  <2>1. piid /\ intent' = intent /\ event' = "queued"
    BY <1>0, <1>9 DEF UserPays, CompletesAtStripe, Ledgers, Agrees, Current, db
  <2> QED BY <2>1, <1>2
<1>10. CASE StartCancel
  <2>1. UNCHANGED <<pc, view, stripe, deaths, intent, event>>
    BY <1>10 DEF StartCancel, workerVars
  <2> QED BY <2>1, <1>7
<1>11. CASE Cancel
  <2>1. UNCHANGED <<pc, view, stripe, deaths, intent, event>>
    BY <1>11 DEF Cancel, Preflight, CancelAtStripe, CompletesAtStripe, workerVars, db
  <2> QED BY <2>1, <1>7
<1>12. CASE Enqueue \/ (\E u \in Updaters : UpdaterDies(u)) \/ UNCHANGED pmVars
  <2>1. UNCHANGED <<pc, view, stripe, deaths, intent, event>>
    BY <1>12 DEF Enqueue, UpdaterDies, workerVars, db, pmVars
  <2> QED BY <2>1, <1>7
<1> QED BY <1>4, <1>5, <1>6, <1>8, <1>9, <1>10, <1>11, <1>12 DEF PMNext

\* The agreement of the records with Stripe covers LedgersAgree.
LEMMA AgreesIsLedgersAgree == Agrees(Current, stripe) => LedgersAgree
BY DEF Agrees, Current, LedgersAgree, Outcome, OutcomeOf

-----------------------------------------------------------------------------
(* The theorems, for any number of workers, attempts and deaths.           *)

THEOREM PMInvariance == PMSpec => [](LedgersInv /\ ChargeInHand)
<1>1. PMInit => LedgersInv /\ ChargeInHand
  BY PaymentMediatorAssumption, PMInitInv DEF PMInit, ChargeInHand
<1>2. LedgersInv /\ ChargeInHand /\ [PMNext]_pmVars => LedgersInv' /\ ChargeInHand'
  BY PaymentMediatorAssumption, PMNextInv, NextInHand
<1> QED BY <1>1, <1>2, PTL DEF PMSpec

\* The types of the payment's records, of its queue and of every transaction.
THEOREM PMTypeCorrect == PMSpec => []PMTypeOK
<1>1. LedgersInv => PMTypeOK
  BY DEF LedgersInv
<1> QED BY <1>1, PMInvariance, PTL

\* The payment, its intent and Stripe agree, however the attempts, the event
\* and the cancellation interleave and whatever faults there are.
THEOREM LedgersAlwaysAgree == PMSpec => []LedgersAgree
<1>1. LedgersInv => LedgersAgree
  BY AgreesIsLedgersAgree DEF LedgersInv, Ledgers
<1> QED BY <1>1, PMInvariance, PTL

\* A charge that is not recorded is still in a worker's hands or announced by an event
\* that will find its intent, as long as no worker has died.
THEOREM ChargeAlwaysInHand == PMSpec => []ChargeInHand
<1> QED BY PMInvariance, PTL

\* A payment in progress has its task.
THEOREM InProgressAlwaysHasTask == PMSpec => []InProgressHasTask
<1>1. LedgersInv => InProgressHasTask
  BY DEF LedgersInv, Queue
<1> QED BY <1>1, PMInvariance, PTL

\* No step takes a payment, or its intent, out of a completed state.
THEOREM CompletedStays == PMSpec => CompletedForGood
<1>1. LedgersInv /\ [PMNext]_pmVars => [(payment \in Completed) => payment' = payment /\ intent' = intent]_pmVars
  BY PaymentMediatorAssumption, PMNextInv
<1> QED BY <1>1, PMInvariance, PTL DEF PMSpec, CompletedForGood
===============================================================================
