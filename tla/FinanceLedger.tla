----------------------------- MODULE FinanceLedger -----------------------------
(***************************************************************************)
(* Tuition plans, financial accounts, discounts and payments of one        *)
(* academic year, under concurrent requests.                               *)
(*                                                                         *)
(* Sources: finance/services.py, finance/views.py, finance/utils.py, the   *)
(* constraints of finance/models.py, and the requests of students/ that    *)
(* create an account or move it to another plan.                           *)
(*                                                                         *)
(* A request is a database transaction under READ COMMITTED: it locks rows *)
(* one after the other (SELECT ... FOR UPDATE), reads, and commits.        *)
(* Amounts are cents, percentages hundredths of a percent.                 *)
(***************************************************************************)
EXTENDS Integers, FiniteSets, FiniteSetsExt

CONSTANTS
    Enrollments,
    Grades,          \* grade levels; a plan is named by its grade
    None,            \* no enrollment row, no account
    Requests,        \* transactions that may run at the same time
    Nobody,          \* holder of a free row lock
    Operations,      \* the kinds of request a run lets in
    DiscountIds, PaymentIds,
    Prices,          \* base_tuition_usd values asked for
    Percentages, FixedAmounts,   \* discounts asked for
    PaymentAmounts,  \* equivalent_usd of the payments asked for
    Notified,        \* enrollments whose student has an active guardian
    FirstGrade,      \* [Enrollments -> Grades \cup {None}], at the start
    FirstPrice       \* [Grades -> Prices \cup {0}], at the start

AllOperations == {"discount", "payment", "price", "plan", "enroll", "correct", "patch"}

ASSUME LedgerAssumption ==
    /\ IsFiniteSet(Enrollments) /\ IsFiniteSet(DiscountIds) /\ IsFiniteSet(PaymentIds)
    /\ None \notin Enrollments /\ None \notin Grades /\ Nobody \notin Requests
    /\ Operations \subseteq AllOperations
    /\ Prices \subseteq Nat \ {0}
    /\ Percentages \subseteq 1..10000 /\ FixedAmounts \subseteq Nat
    /\ PaymentAmounts \subseteq Nat
    /\ Notified \subseteq Enrollments
    /\ FirstGrade \in [Enrollments -> Grades \cup {None}]
    /\ FirstPrice \in [Grades -> Prices \cup {0}]

VARIABLES
    grade,       \* grade of the enrollment's section, None before the enrollment
    price,       \* base_tuition_usd of a grade's plan, 0 before the plan exists
    plan,        \* the plan (grade) of the enrollment's account, None without one
    discounts,   \* the account's discounts that are not cancelled
    payments,    \* the account's payments that are not cancelled
    everPaid,    \* accounts with a payment row, cancelled ones included
    lock,        \* the request that holds a row FOR UPDATE
    pc, op, todo \* what a request is doing, and the rows it still has to lock

ledger == <<grade, price, plan, discounts, payments, everPaid>>
process == <<pc, op, todo>>
vars == <<ledger, lock, process>>

\* An enrollment's row stands for its student's row too: they are locked
\* together.  YearRow is the academic year.
AccountRow(e) == <<"account", e>>
EnrollmentRow(e) == <<"enrollment", e>>
PlanRow(g) == <<"plan", g>>
YearRow == <<"year", None>>
Rows == ({"account", "enrollment"} \X Enrollments) \cup ({"plan"} \X Grades) \cup {YearRow}

Discount == [id : DiscountIds, kind : {"percentage"}, value : Percentages]
            \cup [id : DiscountIds, kind : {"fixed"}, value : FixedAmounts]
Payment == [id : PaymentIds, usd : PaymentAmounts]

Operation ==
    [kind : AllOperations \cup {"none"},
     of   : Enrollments \cup {None},      \* the enrollment or account
     to   : Grades \cup {None},           \* the plan or grade
     new  : Discount \cup Payment \cup {None},
     base : Nat,                          \* the new price
     seen : SUBSET Enrollments]           \* rows found by its query

NoOperation == [kind |-> "none", of |-> None, to |-> None, new |-> None, base |-> 0, seen |-> {}]

\* An account belongs to an enrollment and to a plan that exists.
TypeOK ==
    /\ grade \in [Enrollments -> Grades \cup {None}]
    /\ price \in [Grades -> Prices \cup {0}]
    /\ plan \in [Enrollments -> Grades \cup {None}]
    /\ discounts \in [Enrollments -> SUBSET Discount]
    /\ payments \in [Enrollments -> SUBSET Payment]
    /\ everPaid \in SUBSET Enrollments
    /\ lock \in [Rows -> Requests \cup {Nobody}]
    /\ pc \in [Requests -> {"idle", "first", "second", "checked"}]
    /\ op \in [Requests -> Operation]
    /\ todo \in [Requests -> SUBSET Rows]
    /\ \A e \in Enrollments : plan[e] # None => grade[e] # None /\ price[plan[e]] > 0

\* Enrollments of a grade that has a plan start with their account.
Init ==
    /\ grade = FirstGrade
    /\ price = FirstPrice
    /\ plan = [e \in Enrollments |->
                 IF grade[e] # None /\ price[grade[e]] > 0 THEN grade[e] ELSE None]
    /\ discounts = [e \in Enrollments |-> {}]
    /\ payments = [e \in Enrollments |-> {}]
    /\ everPaid = {}
    /\ lock = [x \in Rows |-> Nobody]
    /\ pc = [r \in Requests |-> "idle"]
    /\ op = [r \in Requests |-> NoOperation]
    /\ todo = [r \in Requests |-> {}]
-----------------------------------------------------------------------------
(* Totals (finance/services.py, finance/utils.py)                          *)

\* quantize_usd: ROUND_HALF_UP of n / d, for n >= 0.
RoundHalfUp(n, d) == (2 * n + d) \div (2 * d)

DiscountUsd(d, base) ==
    IF d.kind = "percentage" THEN RoundHalfUp(base * d.value, 10000) ELSE d.value

DiscountsUsd(S, base) == MapThenSumSet(LAMBDA d : DiscountUsd(d, base), S)
PaymentsUsd(S) == MapThenSumSet(LAMBDA p : p.usd, S)

TotalDiscounts(e, base) == DiscountsUsd(discounts[e], base)
TotalPaid(e) == PaymentsUsd(payments[e])
Remaining(e, base) == base - TotalDiscounts(e, base) - TotalPaid(e)
-----------------------------------------------------------------------------
(* Row locks                                                               *)

Locked(x) == lock[x] # Nobody

Release(r) == [x \in Rows |-> IF lock[x] = r THEN Nobody ELSE lock[x]]

Finish(r) ==
    /\ pc' = [pc EXCEPT ![r] = "idle"]
    /\ op' = [op EXCEPT ![r] = NoOperation]
    /\ todo' = [todo EXCEPT ![r] = {}]
    /\ lock' = Release(r)

Begin(r, o, rows, stage) ==
    /\ o.kind \in Operations
    /\ pc[r] = "idle"
    /\ pc' = [pc EXCEPT ![r] = stage]
    /\ op' = [op EXCEPT ![r] = o]
    /\ todo' = [todo EXCEPT ![r] = rows]
    /\ UNCHANGED <<ledger, lock>>

\* The rows a request may lock next.  A join locks the row of its first table,
\* then those it is joined with; a price change then goes on to the next account.
NextRows(r) ==
    LET open == {e \in Enrollments : EnrollmentRow(e) \in todo[r] /\ AccountRow(e) \notin todo[r]}
        accounts == {x \in todo[r] : x[1] = "account"}
        enrollments == {EnrollmentRow(e) : e \in open}
    IN IF enrollments # {} THEN enrollments
       ELSE IF accounts # {} THEN accounts ELSE todo[r]

\* Requests that inserted a row for the academic year: their foreign keys hold
\* the year's row FOR KEY SHARE until they commit.
Sharers(x) == IF x = YearRow THEN {q \in Requests : op[q].kind \in {"plan", "enroll"}} ELSE {}

\* Mutant: a request whose account left the plan looks for it again.
AcquireLockRetrying(r) ==
    \E x \in NextRows(r) :
        /\ lock[x] \in {Nobody, r} /\ Sharers(x) = {}
        /\ LET left == x[1] = "account" /\ op[r].kind \in {"discount", "payment", "price"}
                         /\ plan[x[2]] # op[r].to
           IN IF left
              THEN UNCHANGED <<process, lock>>
              ELSE /\ lock' = [lock EXCEPT ![x] = r]
                   /\ todo' = [todo EXCEPT ![r] = @ \ {x}]
                   /\ UNCHANGED <<pc, op>>
        /\ UNCHANGED ledger

\* After a wait the row is read again.  An account that left the plan no
\* longer joins with it: get() finds nothing and the request fails, while the
\* scan of a price change goes on without it.
AcquireLock(r) ==
    \E x \in NextRows(r) :
        /\ lock[x] \in {Nobody, r} /\ Sharers(x) = {}
        /\ LET left == x[1] = "account" /\ op[r].kind \in {"discount", "payment", "price"}
                         /\ plan[x[2]] # op[r].to
           IN IF left /\ op[r].kind # "price"
              THEN Finish(r)
              ELSE /\ lock' = [lock EXCEPT ![x] = r]
                   /\ todo' = [todo EXCEPT ![r] =
                                 @ \ (IF left THEN {x, EnrollmentRow(x[2])} ELSE {x})]
                   /\ UNCHANGED <<pc, op>>
        /\ UNCHANGED ledger

\* The rows a request's last statements touch, by a foreign key or an update:
\* they wait while another request holds one of them.  The notification of a
\* payment refers to the student.
CommitRows(r) ==
    IF pc[r] # "checked" THEN {}
    ELSE CASE op[r].kind = "correct" ->
                 IF plan[op[r].of] \in {None, op[r].to} THEN {} ELSE {PlanRow(op[r].to)}
           [] op[r].kind = "enroll" -> {PlanRow(op[r].to) : e \in op[r].seen}
           [] op[r].kind = "plan" -> {EnrollmentRow(e) : e \in {f \in op[r].seen : plan[f] = None}}
           [] op[r].kind = "payment" -> {EnrollmentRow(e) : e \in Notified \cap {op[r].of}}
           [] op[r].kind = "patch" -> {EnrollmentRow(op[r].of)}
           [] OTHER -> {}

Blockers(r) ==
    ({lock[x] : x \in NextRows(r) \cup CommitRows(r)} \cup UNION {Sharers(x) : x \in NextRows(r)})
        \ {r, Nobody}

\* A set of requests each of which waits for another one of the set.
WaitInCircle(S) == S # {} /\ \A q \in S : Blockers(q) \cap S # {}

\* PostgreSQL aborts a request of a circle of waiting requests.
Victim(r) ==
    \E S \in SUBSET Requests :
        r \in S /\ WaitInCircle(S) /\ ~\E T \in SUBSET S : T # S /\ WaitInCircle(T)

DeadlockAbort(r) ==
    /\ Victim(r)
    /\ Finish(r)
    /\ UNCHANGED ledger
-----------------------------------------------------------------------------
(* create_student_discount, record_payment and their cancellation          *)

\* Primary keys are random and never meet.
Fresh(id) ==
    /\ \A e \in Enrollments : \A x \in discounts[e] \cup payments[e] : x.id # id
    /\ \A r \in Requests : op[r].new # None => op[r].new.id # id

StartDiscount(r) ==
    \E e \in Enrollments, d \in Discount :
        /\ plan[e] # None
        /\ Fresh(d.id)
        /\ Begin(r, [NoOperation EXCEPT !.kind = "discount", !.of = e, !.to = plan[e], !.new = d],
                 {AccountRow(e), PlanRow(plan[e])}, "first")

\* Mutant: record_payment reads the account without select_for_update.
StartPaymentUnlocked(r) ==
    \E e \in Enrollments, p \in Payment :
        /\ plan[e] # None
        /\ Fresh(p.id)
        /\ Begin(r, [NoOperation EXCEPT !.kind = "payment", !.of = e, !.to = plan[e], !.new = p],
                 {}, "first")

StartPayment(r) ==
    \E e \in Enrollments, p \in Payment :
        /\ plan[e] # None
        /\ Fresh(p.id)
        /\ Begin(r, [NoOperation EXCEPT !.kind = "payment", !.of = e, !.to = plan[e], !.new = p],
                 {AccountRow(e), PlanRow(plan[e])}, "first")

\* The equivalent must be positive by the constraint on the row, which a SYP
\* amount that rounds to nothing breaks.
DiscountAllowed(o) ==
    LET base == price[o.to]
    IN /\ o.new.kind = "fixed" => o.new.value > 0
       /\ TotalDiscounts(o.of, base) + DiscountUsd(o.new, base) <= base
       /\ TotalPaid(o.of) <= base - TotalDiscounts(o.of, base) - DiscountUsd(o.new, base)

PaymentAllowed(o) ==
    /\ Remaining(o.of, price[o.to]) > 0
    /\ o.new.usd <= Remaining(o.of, price[o.to])
    /\ o.new.usd > 0

CancelDiscount ==
    \E e \in Enrollments : \E d \in discounts[e] :
        /\ ~Locked(AccountRow(e))
        /\ discounts' = [discounts EXCEPT ![e] = @ \ {d}]
        /\ UNCHANGED <<grade, price, plan, payments, everPaid, lock, process>>

CancelPayment ==
    \E e \in Enrollments : \E p \in payments[e] :
        /\ ~Locked(AccountRow(e))
        /\ payments' = [payments EXCEPT ![e] = @ \ {p}]
        /\ UNCHANGED <<grade, price, plan, discounts, everPaid, lock, process>>
-----------------------------------------------------------------------------
(* update_tuition_plan_price                                               *)

StartPriceChange(r) ==
    \E g \in Grades, base \in Prices :
        /\ price[g] > 0
        /\ Begin(r, [NoOperation EXCEPT !.kind = "price", !.to = g, !.base = base],
                 {PlanRow(g)}, "first")

\* With the plan locked, its accounts are found and locked with the rows
\* they are joined with.
FindAccounts(r) ==
    /\ pc[r] = "first" /\ op[r].kind = "price" /\ todo[r] = {}
    /\ LET found == {e \in Enrollments : plan[e] = op[r].to}
       IN todo' = [todo EXCEPT ![r] = {"account", "enrollment"} \X found]
    /\ pc' = [pc EXCEPT ![r] = "second"]
    /\ UNCHANGED <<ledger, lock, op>>

\* Mutant: the discounts are not compared with the new price.
PriceAllowedPaidOnly(o) ==
    \A e \in Enrollments : plan[e] = o.to => TotalPaid(e) <= o.base

PriceAllowed(o) ==
    \A e \in Enrollments :
        plan[e] = o.to =>
            /\ TotalDiscounts(e, o.base) <= o.base
            /\ TotalPaid(e) <= o.base - TotalDiscounts(e, o.base)
-----------------------------------------------------------------------------
(* correct_enrollment_placement, as far as it concerns money               *)

StartCorrection(r) ==
    \E e \in Enrollments, g \in Grades :
        /\ grade[e] # None
        /\ Begin(r, [NoOperation EXCEPT !.kind = "correct", !.of = e, !.to = g],
                 {EnrollmentRow(e), YearRow}, "first")

\* Mutant: the account is read without a lock.
FindAccountUnlocked(r) ==
    /\ pc[r] = "first" /\ op[r].kind = "correct" /\ todo[r] = {}
    /\ IF grade[op[r].of] = op[r].to
       THEN Finish(r)
       ELSE pc' = [pc EXCEPT ![r] = "second"] /\ UNCHANGED <<op, todo, lock>>
    /\ UNCHANGED ledger

\* A section of another grade: the account is locked as well.
FindAccount(r) ==
    /\ pc[r] = "first" /\ op[r].kind = "correct" /\ todo[r] = {}
    /\ IF grade[op[r].of] = op[r].to
       THEN Finish(r)
       ELSE /\ pc' = [pc EXCEPT ![r] = "second"]
            /\ todo' = [todo EXCEPT ![r] =
                          IF plan[op[r].of] = None THEN {} ELSE {AccountRow(op[r].of)}]
            /\ UNCHANGED <<op, lock>>
    /\ UNCHANGED ledger

\* Mutant: the target grade may have no plan.
CorrectionAllowedNoPlan(o) == plan[o.of] # None => o.of \notin everPaid

CorrectionAllowed(o) ==
    plan[o.of] # None => o.of \notin everPaid /\ price[o.to] > 0
-----------------------------------------------------------------------------
(* The decision of a request that has its locks, and its effect            *)

Allowed(o) ==
    CASE o.kind = "discount" -> DiscountAllowed(o)
      [] o.kind = "payment" -> PaymentAllowed(o)
      [] o.kind = "price" -> PriceAllowed(o)
      [] o.kind = "correct" -> CorrectionAllowed(o)
      [] OTHER -> TRUE

LastStage(o) == IF o.kind \in {"price", "correct"} THEN "second" ELSE "first"

Check(r) ==
    /\ op[r].kind \in {"discount", "payment", "price", "correct"}
    /\ pc[r] = LastStage(op[r]) /\ todo[r] = {}
    /\ IF Allowed(op[r])
       THEN pc' = [pc EXCEPT ![r] = "checked"] /\ UNCHANGED <<op, todo, lock>>
       ELSE Finish(r)
    /\ UNCHANGED ledger

CommitDiscount(r) ==
    /\ pc[r] = "checked" /\ op[r].kind = "discount"
    /\ discounts' = [discounts EXCEPT ![op[r].of] = @ \cup {op[r].new}]
    /\ Finish(r)
    /\ UNCHANGED <<grade, price, plan, payments, everPaid>>

CommitPayment(r) ==
    /\ pc[r] = "checked" /\ op[r].kind = "payment"
    /\ \A x \in CommitRows(r) : ~Locked(x)
    /\ payments' = [payments EXCEPT ![op[r].of] = @ \cup {op[r].new}]
    /\ everPaid' = everPaid \cup {op[r].of}
    /\ Finish(r)
    /\ UNCHANGED <<grade, price, plan, discounts>>

CommitPrice(r) ==
    /\ pc[r] = "checked" /\ op[r].kind = "price"
    /\ price' = [price EXCEPT ![op[r].to] = op[r].base]
    /\ Finish(r)
    /\ UNCHANGED <<grade, plan, discounts, payments, everPaid>>

\* The foreign key to the new plan waits while that plan is locked.
CommitCorrection(r) ==
    /\ pc[r] = "checked" /\ op[r].kind = "correct"
    /\ LET o == op[r]
       IN /\ \A x \in CommitRows(r) : ~Locked(x)
          /\ grade' = [grade EXCEPT ![o.of] = o.to]
          /\ plan' = [plan EXCEPT ![o.of] = IF @ = None THEN None ELSE o.to]
    /\ Finish(r)
    /\ UNCHANGED <<price, discounts, payments, everPaid>>
-----------------------------------------------------------------------------
(* Creating plans, enrollments and the accounts between them               *)

\* perform_create of a plan: the row is inserted, not yet visible, and the
\* enrollments of the grade are read.
StartPlan(r) ==
    \E g \in Grades, base \in Prices :
        /\ ~Locked(YearRow)
        /\ Begin(r, [NoOperation EXCEPT !.kind = "plan", !.to = g, !.base = base,
                                        !.seen = {e \in Enrollments : grade[e] = g}],
                 {}, "checked")

\* An account is made for every enrollment that was found.  The plan is
\* refused when the grade has one or an account belongs to another plan.
CommitPlan(r) ==
    /\ pc[r] = "checked" /\ op[r].kind = "plan"
    /\ LET o == op[r]
           open == {e \in o.seen : plan[e] = None}
       IN IF price[o.to] > 0 \/ \E e \in o.seen : plan[e] \notin {None, o.to}
          THEN UNCHANGED ledger
          ELSE /\ \A x \in CommitRows(r) : ~Locked(x)
               /\ price' = [price EXCEPT ![o.to] = o.base]
               /\ plan' = [e \in Enrollments |-> IF e \in open THEN o.to ELSE plan[e]]
               /\ UNCHANGED <<grade, discounts, payments, everPaid>>
    /\ Finish(r)

\* perform_create of an enrollment: the row is inserted, not yet visible, and
\* the plan of its grade is looked up ("seen" is empty when there is none).
StartEnrollment(r) ==
    \E e \in Enrollments, g \in Grades :
        /\ grade[e] = None /\ ~Locked(YearRow)
        /\ Begin(r, [NoOperation EXCEPT !.kind = "enroll", !.of = e, !.to = g,
                                        !.seen = IF price[g] > 0 THEN {e} ELSE {}],
                 {}, "checked")

\* A student is enrolled once a year, by a unique constraint.
CommitEnrollment(r) ==
    /\ pc[r] = "checked" /\ op[r].kind = "enroll"
    /\ LET o == op[r]
       IN IF grade[o.of] # None
          THEN UNCHANGED ledger
          ELSE /\ \A x \in CommitRows(r) : ~Locked(x)
               /\ grade' = [grade EXCEPT ![o.of] = o.to]
               /\ plan' = [plan EXCEPT ![o.of] = IF o.seen = {} THEN None ELSE o.to]
               /\ UNCHANGED <<price, discounts, payments, everPaid>>
    /\ Finish(r)

\* PATCH of an enrollment: the row is read, and every column written back.
StartPatch(r) ==
    \E e \in Enrollments :
        /\ grade[e] # None
        /\ Begin(r, [NoOperation EXCEPT !.kind = "patch", !.of = e, !.to = grade[e]],
                 {}, "checked")

CommitPatch(r) ==
    /\ pc[r] = "checked" /\ op[r].kind = "patch"
    /\ \A x \in CommitRows(r) : ~Locked(x)
    /\ grade' = [grade EXCEPT ![op[r].of] = op[r].to]
    /\ Finish(r)
    /\ UNCHANGED <<price, plan, discounts, payments, everPaid>>
-----------------------------------------------------------------------------
Start(r) ==
    \/ StartDiscount(r) \/ StartPayment(r) \/ StartPriceChange(r) \/ StartCorrection(r)
    \/ StartPlan(r) \/ StartEnrollment(r) \/ StartPatch(r)

Commit(r) ==
    \/ CommitDiscount(r) \/ CommitPayment(r) \/ CommitPrice(r) \/ CommitCorrection(r)
    \/ CommitPlan(r) \/ CommitEnrollment(r) \/ CommitPatch(r)

Proceed(r) ==
    \/ AcquireLock(r) \/ FindAccounts(r) \/ FindAccount(r) \/ Check(r) \/ Commit(r)
    \/ DeadlockAbort(r)

Next ==
    \/ \E r \in Requests : Start(r) \/ Proceed(r)
    \/ CancelDiscount \/ CancelPayment

Spec == Init /\ [][Next]_vars

\* PostgreSQL grants a row lock in the order of its waiters and breaks
\* deadlocks; a request that can go on does.
FairSpec == Spec /\ \A r \in Requests : SF_vars(Proceed(r))
-----------------------------------------------------------------------------
(* Properties                                                              *)

\* Nobody has paid more than the tuition after discounts, whatever payments,
\* discounts, price changes and corrections ran at the same time.
NeverOverpaid ==
    \A e \in Enrollments : payments[e] # {} => Remaining(e, price[plan[e]]) >= 0

\* However its requests interleave, the ledger changes as if they ran one at
\* a time: it implements FinanceBook.
Book == INSTANCE FinanceBook WITH
    Usd <- DiscountUsd, Total <- DiscountsUsd, Paid <- PaymentsUsd

ImplementsBook == Book!Spec

\* What a request checked is still true when it commits: no other request
\* changes the rows its decision depends on.
VerdictsHold ==
    \A r \in Requests : pc[r] = "checked" => Allowed(op[r])

Overdiscounted(e) ==
    plan[e] # None /\ TotalDiscounts(e, price[plan[e]]) > price[plan[e]]

\* Discounts never exceed the tuition ("the total of the discounts cannot
\* exceed the tuition", finance/services.py, create_student_discount).
DiscountsWithinPrice == \A e \in Enrollments : ~Overdiscounted(e)

\* An account follows its enrollment to the plan of the new grade.
AccountFollowsGrade ==
    \A e \in Enrollments : plan[e] # None => plan[e] = grade[e]

\* Discounts, price changes and their races never push the discounts of an
\* account over its price; only moving the account to another plan can.
OnlyMovesOverdiscount ==
    [][\A e \in Enrollments :
          Overdiscounted(e)' /\ ~Overdiscounted(e) => plan'[e] # plan[e]]_vars

\* Once a payment was stored for an account, cancelled or not, the account
\* stays with its plan.
PaymentsPinThePlan ==
    [][\A e \in Enrollments : e \in everPaid => plan'[e] = plan[e]]_vars

\* Every request is answered, with success, a refusal or an error: none waits
\* for ever, although a price change locks the plan first and a payment the
\* account first.
RequestsEnd == \A r \in Requests : pc[r] # "idle" ~> pc[r] = "idle"
=============================================================================
