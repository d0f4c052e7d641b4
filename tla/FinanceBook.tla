------------------------------ MODULE FinanceBook ------------------------------
(***************************************************************************)
(* What the finance endpoints promise, as if requests ran one at a time:   *)
(* every discount, payment, price and move is decided on the ledger it     *)
(* changes.  FinanceLedger, with its row locks and interleavings,          *)
(* implements it.                                                          *)
(***************************************************************************)
EXTENDS Integers

CONSTANTS
    Enrollments, Grades, None, Discount, Payment, Prices,
    Usd(_, _),     \* a discount's amount at a price
    Total(_, _),   \* the amount of a set of discounts at a price
    Paid(_)        \* the amount of a set of payments

VARIABLES price, plan, discounts, payments, everPaid

vars == <<price, plan, discounts, payments, everPaid>>

Fits(e, base) == Total(discounts[e], base) <= base /\ Paid(payments[e]) <= base - Total(discounts[e], base)

AddDiscount(e) ==
    /\ plan[e] # None
    /\ \E d \in Discount :
         LET base == price[plan[e]]
             total == Total(discounts[e], base)
         IN /\ total + Usd(d, base) <= base
            /\ Paid(payments[e]) <= base - total - Usd(d, base)
            /\ discounts' = [discounts EXCEPT ![e] = @ \cup {d}]
    /\ UNCHANGED <<price, plan, payments, everPaid>>

AddPayment(e) ==
    /\ plan[e] # None
    /\ \E p \in Payment :
         LET base == price[plan[e]]
         IN /\ 0 < p.usd
            /\ p.usd <= base - Total(discounts[e], base) - Paid(payments[e])
            /\ payments' = [payments EXCEPT ![e] = @ \cup {p}]
    /\ everPaid' = everPaid \cup {e}
    /\ UNCHANGED <<price, plan, discounts>>

Cancel(e) ==
    /\ \/ discounts' \in {[discounts EXCEPT ![e] = @ \ {d}] : d \in discounts[e]} /\ payments' = payments
       \/ payments' \in {[payments EXCEPT ![e] = @ \ {p}] : p \in payments[e]} /\ discounts' = discounts
    /\ UNCHANGED <<price, plan, everPaid>>

\* Refused unless every account of the plan fits the new price.
ChangePrice(g) ==
    /\ price[g] > 0
    /\ \E base \in Prices :
         /\ \A e \in Enrollments : plan[e] = g => Fits(e, base)
         /\ price' = [price EXCEPT ![g] = base]
    /\ UNCHANGED <<plan, discounts, payments, everPaid>>

CreatePlan(g) ==
    /\ price[g] = 0
    /\ \E base \in Prices : price' = [price EXCEPT ![g] = base]
    /\ \E S \in SUBSET {e \in Enrollments : plan[e] = None} :
         plan' = [e \in Enrollments |-> IF e \in S THEN g ELSE plan[e]]
    /\ UNCHANGED <<discounts, payments, everPaid>>

OpenAccount(e, g) ==
    /\ plan[e] = None /\ price[g] > 0
    /\ plan' = [plan EXCEPT ![e] = g]
    /\ UNCHANGED <<price, discounts, payments, everPaid>>

\* Only an account without any payment row moves, and its discounts stay.
MoveAccount(e, g) ==
    /\ plan[e] # None /\ e \notin everPaid /\ price[g] > 0
    /\ plan' = [plan EXCEPT ![e] = g]
    /\ UNCHANGED <<price, discounts, payments, everPaid>>

Next ==
    \/ \E e \in Enrollments : AddDiscount(e) \/ AddPayment(e) \/ Cancel(e)
    \/ \E g \in Grades : ChangePrice(g) \/ CreatePlan(g)
    \/ \E e \in Enrollments, g \in Grades : OpenAccount(e, g) \/ MoveAccount(e, g)

\* Nothing is owed, paid or discounted at the start.
Init ==
    /\ price \in [Grades -> Prices \cup {0}]
    /\ plan \in [Enrollments -> Grades \cup {None}]
    /\ discounts = [e \in Enrollments |-> {}]
    /\ payments = [e \in Enrollments |-> {}]
    /\ everPaid = {}

Spec == Init /\ [][Next]_vars
=============================================================================
