-------------------------- MODULE FinanceLedgerProofs --------------------------
(***************************************************************************)
(* Proofs about FinanceLedger: the row locks keep every decision true      *)
(* until it commits, the ledger implements FinanceBook, and so nobody      *)
(* overpays.                                                               *)
(***************************************************************************)
EXTENDS FinanceLedger, Sums, TLAPS

Types ==
    /\ grade \in [Enrollments -> Grades \cup {None}]
    /\ price \in [Grades -> Prices \cup {0}]
    /\ plan \in [Enrollments -> Grades \cup {None}]
    /\ discounts \in [Enrollments -> SUBSET Discount]
    /\ payments \in [Enrollments -> SUBSET Payment]
    /\ everPaid \in SUBSET Enrollments
    /\ lock \in [Rows -> Requests \cup {Nobody}]
    /\ pc \in [Requests -> {"idle", "first", "second", "checked"}]
    /\ op \in [Requests -> Operation]
    /\ todo \in [Requests -> SUBSET Rows]

\* The foreign keys of an account, and of a payment to its account.
KeysOK ==
    /\ \A e \in Enrollments : plan[e] # None => grade[e] # None /\ price[plan[e]] > 0
    /\ \A e \in everPaid : plan[e] # None

\* What a request is, by its kind.
ShapeOK(r) ==
    LET o == op[r]
    IN /\ pc[r] = "idle" => o.kind = "none"
       /\ o.kind = "none" => pc[r] = "idle"
       /\ pc[r] = "checked" => todo[r] = {}
       /\ o.kind = "discount" => /\ o.of \in Enrollments /\ o.to \in Grades /\ o.new \in Discount
                                 /\ pc[r] # "second"
       /\ o.kind = "payment" => /\ o.of \in Enrollments /\ o.to \in Grades /\ o.new \in Payment
                                /\ pc[r] # "second"
       /\ o.kind = "price" => o.to \in Grades /\ o.base \in Prices /\ price[o.to] > 0
       /\ o.kind = "correct" => o.of \in Enrollments /\ o.to \in Grades /\ grade[o.of] # None
       /\ o.kind = "plan" => /\ o.to \in Grades /\ o.base \in Prices /\ pc[r] = "checked"
                             /\ \A e \in o.seen : grade[e] # None
       /\ o.kind = "enroll" => /\ o.of \in Enrollments /\ o.to \in Grades /\ pc[r] = "checked"
                               /\ o.seen \in {{}, {o.of}}
                               /\ o.seen # {} => price[o.to] > 0
       /\ o.kind = "patch" => /\ o.of \in Enrollments /\ o.to \in Grades /\ pc[r] = "checked"
                              /\ grade[o.of] # None

Has(r, x) == x \in todo[r] \/ lock[x] = r

\* The locks a request has, or is still waiting for.
LocksOK(r) ==
    LET o == op[r]
    IN /\ o.kind \in {"discount", "payment"} =>
             /\ Has(r, PlanRow(o.to)) /\ Has(r, AccountRow(o.of))
             /\ AccountRow(o.of) \notin todo[r] => plan[o.of] = o.to
       /\ o.kind = "price" /\ pc[r] = "first" => Has(r, PlanRow(o.to))
       /\ o.kind = "price" /\ pc[r] # "first" =>
             /\ lock[PlanRow(o.to)] = r
             /\ \A e \in Enrollments : plan[e] = o.to => Has(r, AccountRow(e))
       /\ o.kind = "correct" /\ pc[r] = "first" => Has(r, EnrollmentRow(o.of))
       /\ o.kind = "correct" /\ pc[r] # "first" =>
             /\ lock[EnrollmentRow(o.of)] = r
             /\ plan[o.of] # None => Has(r, AccountRow(o.of))

Verdict(r) == pc[r] = "checked" => Allowed(op[r])

RequestOK(r) == ShapeOK(r) /\ LocksOK(r) /\ Verdict(r)

LedgerInv == Types /\ KeysOK /\ \A r \in Requests : RequestOK(r)

-----------------------------------------------------------------------------
(* What a step of request r may do to the rows other requests depend on.   *)

Courteous(r) ==
    /\ \A e \in Enrollments :
          /\ grade[e] # None => grade'[e] # None
          /\ plan'[e] # plan[e] =>
                /\ plan[e] = None \/ lock[AccountRow(e)] = r
                /\ grade[e] = None \/ lock[EnrollmentRow(e)] \in {r, Nobody}
                /\ plan'[e] \in Grades
                /\ lock[PlanRow(plan'[e])] = Nobody \/ price[plan'[e]] = 0
          /\ discounts'[e] # discounts[e] => lock[AccountRow(e)] \in {r, Nobody}
          /\ payments'[e] # payments[e] => lock[AccountRow(e)] \in {r, Nobody}
          /\ e \in everPaid' /\ e \notin everPaid => lock[AccountRow(e)] = r /\ plan[e] # None
    /\ \A g \in Grades :
          /\ price[g] > 0 => price'[g] > 0
          /\ price'[g] # price[g] => price[g] = 0 \/ lock[PlanRow(g)] = r

Untouched(q) ==
    /\ pc'[q] = pc[q] /\ op'[q] = op[q] /\ todo'[q] = todo[q]
    /\ \A x \in Rows : lock[x] = q => lock'[x] = q

LEMMA PricesPositive == Prices \subseteq Nat \ {0}
PROOF BY LedgerAssumption

LEMMA PaymentsNatural == PaymentAmounts \subseteq Nat
PROOF BY LedgerAssumption

LEMMA PriceFacts ==
    ASSUME NEW base \in Prices
    PROVE  base \in Nat /\ base > 0
PROOF
<1>1. base \in Nat /\ base # 0
  BY PricesPositive
<1> QED BY <1>1

LEMMA RowFacts ==
    /\ \A e \in Enrollments : AccountRow(e) \in Rows /\ EnrollmentRow(e) \in Rows
    /\ \A g \in Grades : PlanRow(g) \in Rows
    /\ YearRow \in Rows
    /\ \A e, f \in Enrollments, g \in Grades :
          /\ AccountRow(e) # EnrollmentRow(f) /\ AccountRow(e) # PlanRow(g)
          /\ EnrollmentRow(e) # PlanRow(g)
          /\ AccountRow(e) # YearRow /\ EnrollmentRow(e) # YearRow /\ PlanRow(g) # YearRow
          /\ AccountRow(e)[1] = "account" /\ AccountRow(e)[2] = e
          /\ EnrollmentRow(e)[1] = "enrollment" /\ PlanRow(g)[1] = "plan" /\ YearRow[1] = "year"
          /\ AccountRow(e) = AccountRow(f) <=> e = f
          /\ EnrollmentRow(e) = EnrollmentRow(f) <=> e = f
    /\ \A x \in Rows : x[1] = "account" => x[2] \in Enrollments /\ x = AccountRow(x[2])
PROOF BY DEF AccountRow, EnrollmentRow, PlanRow, YearRow, Rows

\* A courteous step leaves every other request as it should be.
LEMMA Bystander ==
    ASSUME LedgerInv, NEW r \in Requests \cup {Nobody}, Courteous(r),
           NEW q \in Requests, q # r, Untouched(q)
    PROVE  RequestOK(q)'
PROOF
<1> PICK o \in Operation : o = op[q]
  BY DEF LedgerInv, Types
<1>0. /\ op[q] = o /\ op'[q] = o /\ pc'[q] = pc[q] /\ todo'[q] = todo[q]
      /\ ShapeOK(q) /\ LocksOK(q) /\ Verdict(q) /\ KeysOK /\ Nobody \notin Requests
  BY LedgerAssumption DEF LedgerInv, RequestOK, Untouched
<1>1. ShapeOK(q)'
  BY <1>0 DEF ShapeOK, Courteous, Operation
<1>2. \A x \in Rows : Has(q, x) => Has(q, x)'
  BY <1>0 DEF Has, Untouched
<1>3. \A e \in Enrollments : lock[AccountRow(e)] = q /\ plan[e] # None =>
            plan'[e] = plan[e]
  BY <1>0 DEF Courteous
<1>4. \A e \in Enrollments : lock[AccountRow(e)] = q =>
            /\ discounts'[e] = discounts[e] /\ payments'[e] = payments[e]
            /\ e \in everPaid' => e \in everPaid
  BY <1>0 DEF Courteous
<1>5. \A g \in Grades : lock[PlanRow(g)] = q /\ price[g] > 0 =>
            /\ price'[g] = price[g]
            /\ \A e \in Enrollments : plan'[e] = g => plan[e] = g
  BY <1>0 DEF Courteous
<1>6. \A e \in Enrollments : lock[EnrollmentRow(e)] = q /\ grade[e] # None /\ plan[e] = None =>
            plan'[e] = None
  BY <1>0 DEF Courteous
<1>7. LocksOK(q)'
  <2>1. CASE o.kind \in {"discount", "payment"}
    <3>1. /\ o.of \in Enrollments /\ o.to \in Grades
          /\ Has(q, PlanRow(o.to)) /\ Has(q, AccountRow(o.of))
          /\ AccountRow(o.of) \notin todo[q] => plan[o.of] = o.to
      BY <1>0, <2>1 DEF ShapeOK, LocksOK
    <3>2. AccountRow(o.of) \notin todo[q] => plan'[o.of] = o.to
      BY <3>1, <1>3, LedgerAssumption DEF Has
    <3> QED BY <3>1, <3>2, <1>0, <1>2, <2>1, RowFacts DEF LocksOK
  <2>2. CASE o.kind = "price"
    <3>1. o.to \in Grades /\ price[o.to] > 0
      BY <1>0, <2>2 DEF ShapeOK
    <3>2. CASE pc[q] = "first"
      BY <3>1, <3>2, <1>0, <1>2, <2>2, RowFacts DEF LocksOK
    <3>3. CASE pc[q] # "first"
      <4>1. /\ lock[PlanRow(o.to)] = q
            /\ \A e \in Enrollments : plan[e] = o.to => Has(q, AccountRow(e))
        BY <3>3, <1>0, <2>2 DEF LocksOK
      <4>2. lock'[PlanRow(o.to)] = q
        BY <4>1, <3>1, RowFacts DEF Untouched
      <4>3. \A e \in Enrollments : plan'[e] = o.to => Has(q, AccountRow(e))'
        BY <4>1, <3>1, <1>5, <1>2, RowFacts
      <4> QED BY <4>2, <4>3, <3>3, <1>0, <2>2 DEF LocksOK
    <3> QED BY <3>2, <3>3
  <2>3. CASE o.kind = "correct"
    <3>1. o.of \in Enrollments /\ grade[o.of] # None
      BY <1>0, <2>3 DEF ShapeOK
    <3>2. CASE pc[q] = "first"
      BY <3>1, <3>2, <1>0, <1>2, <2>3, RowFacts DEF LocksOK
    <3>3. CASE pc[q] # "first"
      <4>1. lock[EnrollmentRow(o.of)] = q /\ (plan[o.of] # None => Has(q, AccountRow(o.of)))
        BY <3>3, <1>0, <2>3 DEF LocksOK
      <4>2. lock'[EnrollmentRow(o.of)] = q
        BY <4>1, <3>1, RowFacts DEF Untouched
      <4>3. plan'[o.of] # None => Has(q, AccountRow(o.of))'
        BY <4>1, <3>1, <1>6, <1>2, RowFacts
      <4> QED BY <4>2, <4>3, <3>3, <1>0, <2>3 DEF LocksOK
    <3> QED BY <3>2, <3>3
  <2> QED BY <2>1, <2>2, <2>3, <1>0 DEF LocksOK
<1>8. Verdict(q)'
  <2> SUFFICES ASSUME pc[q] = "checked" PROVE Allowed(o)'
    BY <1>0 DEF Verdict
  <2>0. Allowed(o) /\ todo[q] = {}
    BY <1>0 DEF Verdict, ShapeOK
  <2>1. CASE o.kind \in {"discount", "payment"}
    <3>1. /\ o.of \in Enrollments /\ o.to \in Grades
          /\ lock[PlanRow(o.to)] = q /\ lock[AccountRow(o.of)] = q /\ plan[o.of] = o.to
      BY <1>0, <2>0, <2>1 DEF ShapeOK, LocksOK, Has
    <3>2. price[o.to] > 0
      BY <3>1, <1>0, LedgerAssumption DEF KeysOK
    <3>3. /\ price'[o.to] = price[o.to]
          /\ discounts'[o.of] = discounts[o.of] /\ payments'[o.of] = payments[o.of]
      BY <3>1, <3>2, <1>4, <1>5
    <3> QED BY <3>3, <2>0, <2>1 DEF Allowed, DiscountAllowed, PaymentAllowed, Remaining,
                                    TotalDiscounts, TotalPaid
  <2>2. CASE o.kind = "price"
    <3>1. /\ o.to \in Grades /\ price[o.to] > 0 /\ lock[PlanRow(o.to)] = q
          /\ \A e \in Enrollments : plan[e] = o.to => lock[AccountRow(e)] = q
      BY <1>0, <2>0, <2>2 DEF ShapeOK, LocksOK, Has
    <3>2. PriceAllowed(o)
      BY <2>0, <2>2 DEF Allowed
    <3>3. PriceAllowed(o)'
      BY <3>1, <3>2, <1>4, <1>5 DEF PriceAllowed, TotalDiscounts, TotalPaid
    <3> QED BY <3>3, <2>2 DEF Allowed
  <2>3. CASE o.kind = "correct"
    <3>1. /\ o.of \in Enrollments /\ o.to \in Grades /\ grade[o.of] # None
          /\ lock[EnrollmentRow(o.of)] = q
          /\ plan[o.of] # None => lock[AccountRow(o.of)] = q
      BY <1>0, <2>0, <2>3 DEF ShapeOK, LocksOK, Has
    <3>2. CorrectionAllowed(o)
      BY <2>0, <2>3 DEF Allowed
    <3>3. price[o.to] > 0 => price'[o.to] > 0
      BY <3>1 DEF Courteous
    <3>4. CorrectionAllowed(o)'
      BY <3>1, <3>2, <3>3, <1>4, <1>6 DEF CorrectionAllowed
    <3> QED BY <3>4, <2>3 DEF Allowed
  <2>4. CASE o.kind \notin {"discount", "payment", "price", "correct"}
    BY <2>4 DEF Allowed
  <2> QED BY <2>1, <2>2, <2>3, <2>4
<1> QED BY <1>1, <1>7, <1>8 DEF RequestOK
-----------------------------------------------------------------------------
(* What each step establishes.                                             *)

Good(r) ==
    /\ Types' /\ KeysOK' /\ Courteous(r)
    /\ \A q \in Requests : q # r => Untouched(q)
    /\ r \in Requests => RequestOK(r)'

LEMMA GoodPreserves ==
    ASSUME LedgerInv, NEW r \in Requests \cup {Nobody}, Good(r)
    PROVE  LedgerInv'
PROOF
<1>1. \A q \in Requests : RequestOK(q)'
  <2> TAKE q \in Requests
  <2>1. CASE q = r
    BY <2>1 DEF Good
  <2>2. CASE q # r
    <3>1. Courteous(r) /\ Untouched(q)
      BY <2>2 DEF Good
    <3> QED BY <3>1, <2>2, Bystander
  <2> QED BY <2>1, <2>2
<1> QED BY <1>1 DEF LedgerInv, Good

\* A decision depends on the ledger alone.
LEMMA SameLedger ==
    ASSUME NEW o \in Operation, UNCHANGED ledger
    PROVE  /\ Allowed(o)' <=> Allowed(o)
           /\ KeysOK => KeysOK'
PROOF
<1> USE DEF ledger
<1>1. DiscountAllowed(o)' <=> DiscountAllowed(o)
  BY DEF DiscountAllowed, TotalDiscounts, TotalPaid
<1>2. PaymentAllowed(o)' <=> PaymentAllowed(o)
  BY DEF PaymentAllowed, Remaining, TotalDiscounts, TotalPaid
<1>3. PriceAllowed(o)' <=> PriceAllowed(o)
  BY DEF PriceAllowed, TotalDiscounts, TotalPaid
<1>4. CorrectionAllowed(o)' <=> CorrectionAllowed(o)
  BY DEF CorrectionAllowed
<1> QED BY <1>1, <1>2, <1>3, <1>4 DEF Allowed, KeysOK

LEMMA NoOperationFacts ==
    /\ NoOperation \in Operation /\ NoOperation.kind = "none"
PROOF BY DEF NoOperation, Operation

\* The end of a request frees its locks and touches no other request.
LEMMA FinishFacts ==
    ASSUME LedgerInv, NEW r \in Requests, Finish(r)
    PROVE  /\ pc' \in [Requests -> {"idle", "first", "second", "checked"}]
           /\ op' \in [Requests -> Operation] /\ todo' \in [Requests -> SUBSET Rows]
           /\ lock' \in [Rows -> Requests \cup {Nobody}]
           /\ \A q \in Requests : q # r => Untouched(q)
           /\ RequestOK(r)'
PROOF
<1>1. /\ pc' = [pc EXCEPT ![r] = "idle"] /\ op' = [op EXCEPT ![r] = NoOperation]
      /\ todo' = [todo EXCEPT ![r] = {}]
      /\ lock' = [x \in Rows |-> IF lock[x] = r THEN Nobody ELSE lock[x]]
  BY DEF Finish, Release
<1>2. Types
  BY DEF LedgerInv
<1>3. /\ pc' \in [Requests -> {"idle", "first", "second", "checked"}]
      /\ op' \in [Requests -> Operation] /\ todo' \in [Requests -> SUBSET Rows]
      /\ lock' \in [Rows -> Requests \cup {Nobody}]
  BY <1>1, <1>2, NoOperationFacts DEF Types
<1>4. \A q \in Requests : q # r => Untouched(q)
  BY <1>1, <1>2 DEF Types, Untouched
<1>5. pc'[r] = "idle" /\ op'[r].kind = "none"
  BY <1>1, <1>2, NoOperationFacts DEF Types
<1>6. RequestOK(r)'
  BY <1>5 DEF RequestOK, ShapeOK, LocksOK, Verdict
<1> QED BY <1>3, <1>4, <1>6

\* A request that ends without changing the ledger.
LEMMA Refusal ==
    ASSUME LedgerInv, NEW r \in Requests, Finish(r), UNCHANGED ledger
    PROVE  Good(r)
PROOF
<1>1. Types'
  BY FinishFacts DEF LedgerInv, Types, ledger
<1>2. KeysOK'
  BY DEF LedgerInv, KeysOK, ledger
<1>3. Courteous(r)
  BY DEF Courteous, ledger
<1> QED BY <1>1, <1>2, <1>3, FinishFacts DEF Good

LEMMA BeginFacts ==
    ASSUME LedgerInv, NEW r \in Requests, NEW o \in Operation, NEW rows \in SUBSET Rows,
           NEW stage \in {"first", "second", "checked"}, Begin(r, o, rows, stage)
    PROVE  /\ Types' /\ KeysOK' /\ Courteous(r)
           /\ \A q \in Requests : q # r => Untouched(q)
           /\ op'[r] = o /\ pc'[r] = stage /\ todo'[r] = rows
           /\ UNCHANGED ledger
PROOF
<1>1. /\ pc' = [pc EXCEPT ![r] = stage] /\ op' = [op EXCEPT ![r] = o]
      /\ todo' = [todo EXCEPT ![r] = rows] /\ UNCHANGED <<ledger, lock>>
  BY DEF Begin
<1>2. Types /\ KeysOK
  BY DEF LedgerInv
<1>3. Types'
  BY <1>1, <1>2 DEF Types, ledger
<1>4. KeysOK'
  BY <1>1, <1>2 DEF KeysOK, ledger
<1>5. Courteous(r)
  BY <1>1 DEF Courteous, ledger
<1>6. \A q \in Requests : q # r => Untouched(q)
  BY <1>1, <1>2 DEF Untouched, Types
<1> QED BY <1>1, <1>2, <1>3, <1>4, <1>5, <1>6 DEF Types
-----------------------------------------------------------------------------
(* The first statement of each request.                                    *)

LEMMA StartGood ==
    ASSUME LedgerInv, NEW r \in Requests, Start(r)
    PROVE  Good(r)
PROOF
<1>0. Types /\ KeysOK
  BY DEF LedgerInv
<1>1. CASE StartDiscount(r)
  <2>1. PICK e \in Enrollments, d \in Discount :
          /\ plan[e] # None
          /\ Begin(r, [NoOperation EXCEPT !.kind = "discount", !.of = e, !.to = plan[e], !.new = d],
                   {AccountRow(e), PlanRow(plan[e])}, "first")
    BY <1>1 DEF StartDiscount
  <2>2. PICK g \in Grades : g = plan[e]
    BY <1>0, <2>1 DEF Types
  <2> DEFINE o == [NoOperation EXCEPT !.kind = "discount", !.of = e, !.to = g, !.new = d]
  <2>3. /\ o \in Operation /\ o.kind = "discount" /\ o.of = e /\ o.to = g /\ o.new = d
    BY DEF NoOperation, Operation, AllOperations
  <2>4. Begin(r, o, {AccountRow(e), PlanRow(g)}, "first")
    BY <2>1, <2>2
  <2> HIDE DEF o
  <2>5. {AccountRow(e), PlanRow(g)} \in SUBSET Rows
    BY RowFacts
  <2>6. /\ Types' /\ KeysOK' /\ Courteous(r) /\ \A q \in Requests : q # r => Untouched(q)
        /\ op'[r] = o /\ pc'[r] = "first" /\ todo'[r] = {AccountRow(e), PlanRow(g)}
    BY <2>3, <2>4, <2>5, BeginFacts
  <2>7. RequestOK(r)'
    BY <2>3, <2>6 DEF RequestOK, ShapeOK, LocksOK, Verdict, Has
  <2> QED BY <2>6, <2>7 DEF Good
<1>2. CASE StartPayment(r)
  <2>1. PICK e \in Enrollments, p \in Payment :
          /\ plan[e] # None
          /\ Begin(r, [NoOperation EXCEPT !.kind = "payment", !.of = e, !.to = plan[e], !.new = p],
                   {AccountRow(e), PlanRow(plan[e])}, "first")
    BY <1>2 DEF StartPayment
  <2>2. PICK g \in Grades : g = plan[e]
    BY <1>0, <2>1 DEF Types
  <2> DEFINE o == [NoOperation EXCEPT !.kind = "payment", !.of = e, !.to = g, !.new = p]
  <2>3. /\ o \in Operation /\ o.kind = "payment" /\ o.of = e /\ o.to = g /\ o.new = p
    BY DEF NoOperation, Operation, AllOperations
  <2>4. Begin(r, o, {AccountRow(e), PlanRow(g)}, "first")
    BY <2>1, <2>2
  <2> HIDE DEF o
  <2>5. {AccountRow(e), PlanRow(g)} \in SUBSET Rows
    BY RowFacts
  <2>6. /\ Types' /\ KeysOK' /\ Courteous(r) /\ \A q \in Requests : q # r => Untouched(q)
        /\ op'[r] = o /\ pc'[r] = "first" /\ todo'[r] = {AccountRow(e), PlanRow(g)}
    BY <2>3, <2>4, <2>5, BeginFacts
  <2>7. RequestOK(r)'
    BY <2>3, <2>6 DEF RequestOK, ShapeOK, LocksOK, Verdict, Has
  <2> QED BY <2>6, <2>7 DEF Good
<1>3. CASE StartPriceChange(r)
  <2>1. PICK g \in Grades, base \in Prices :
          /\ price[g] > 0
          /\ Begin(r, [NoOperation EXCEPT !.kind = "price", !.to = g, !.base = base],
                   {PlanRow(g)}, "first")
    BY <1>3 DEF StartPriceChange
  <2> DEFINE o == [NoOperation EXCEPT !.kind = "price", !.to = g, !.base = base]
  <2>3. /\ o \in Operation /\ o.kind = "price" /\ o.to = g /\ o.base = base
    <3>1. base \in Nat
      BY LedgerAssumption
    <3> QED BY <3>1 DEF NoOperation, Operation, AllOperations
  <2>4. Begin(r, o, {PlanRow(g)}, "first")
    BY <2>1
  <2> HIDE DEF o
  <2>5. {PlanRow(g)} \in SUBSET Rows
    BY RowFacts
  <2>6. /\ Types' /\ KeysOK' /\ Courteous(r) /\ \A q \in Requests : q # r => Untouched(q)
        /\ op'[r] = o /\ pc'[r] = "first" /\ todo'[r] = {PlanRow(g)} /\ price'[g] > 0
    BY <2>1, <2>3, <2>4, <2>5, BeginFacts DEF ledger
  <2>7. RequestOK(r)'
    BY <2>3, <2>6 DEF RequestOK, ShapeOK, LocksOK, Verdict, Has
  <2> QED BY <2>6, <2>7 DEF Good
<1>4. CASE StartCorrection(r)
  <2>1. PICK e \in Enrollments, g \in Grades :
          /\ grade[e] # None
          /\ Begin(r, [NoOperation EXCEPT !.kind = "correct", !.of = e, !.to = g],
                   {EnrollmentRow(e), YearRow}, "first")
    BY <1>4 DEF StartCorrection
  <2> DEFINE o == [NoOperation EXCEPT !.kind = "correct", !.of = e, !.to = g]
  <2>3. /\ o \in Operation /\ o.kind = "correct" /\ o.of = e /\ o.to = g
    BY DEF NoOperation, Operation, AllOperations
  <2>4. Begin(r, o, {EnrollmentRow(e), YearRow}, "first")
    BY <2>1
  <2> HIDE DEF o
  <2>5. {EnrollmentRow(e), YearRow} \in SUBSET Rows
    BY RowFacts
  <2>6. /\ Types' /\ KeysOK' /\ Courteous(r) /\ \A q \in Requests : q # r => Untouched(q)
        /\ op'[r] = o /\ pc'[r] = "first" /\ todo'[r] = {EnrollmentRow(e), YearRow}
        /\ grade'[e] # None
    BY <2>1, <2>3, <2>4, <2>5, BeginFacts DEF ledger
  <2>7. RequestOK(r)'
    BY <2>3, <2>6 DEF RequestOK, ShapeOK, LocksOK, Verdict, Has
  <2> QED BY <2>6, <2>7 DEF Good
<1>5. CASE StartPlan(r)
  <2>1. PICK g \in Grades, base \in Prices :
          Begin(r, [NoOperation EXCEPT !.kind = "plan", !.to = g, !.base = base,
                                       !.seen = {e \in Enrollments : grade[e] = g}],
                {}, "checked")
    BY <1>5 DEF StartPlan
  <2>2. PICK S \in SUBSET Enrollments : S = {e \in Enrollments : grade[e] = g}
    OBVIOUS
  <2> DEFINE o == [NoOperation EXCEPT !.kind = "plan", !.to = g, !.base = base, !.seen = S]
  <2>3. /\ o \in Operation /\ o.kind = "plan" /\ o.to = g /\ o.base = base /\ o.seen = S
    <3>1. base \in Nat
      BY LedgerAssumption
    <3> QED BY <3>1 DEF NoOperation, Operation, AllOperations
  <2>4. Begin(r, o, {}, "checked")
    BY <2>1, <2>2
  <2> HIDE DEF o
  <2>6. /\ Types' /\ KeysOK' /\ Courteous(r) /\ \A q \in Requests : q # r => Untouched(q)
        /\ op'[r] = o /\ pc'[r] = "checked" /\ todo'[r] = {} /\ grade' = grade
    BY <2>3, <2>4, BeginFacts DEF ledger
  <2>7. \A e \in S : grade'[e] # None
    BY <2>2, <2>6, LedgerAssumption
  <2>8. RequestOK(r)'
    BY <2>3, <2>6, <2>7 DEF RequestOK, ShapeOK, LocksOK, Verdict, Has, Allowed
  <2> QED BY <2>6, <2>8 DEF Good
<1>6. CASE StartEnrollment(r)
  <2>1. PICK e \in Enrollments, g \in Grades :
          Begin(r, [NoOperation EXCEPT !.kind = "enroll", !.of = e, !.to = g,
                                       !.seen = IF price[g] > 0 THEN {e} ELSE {}],
                {}, "checked")
    BY <1>6 DEF StartEnrollment
  <2>2. PICK S \in {{}, {e}} : S = IF price[g] > 0 THEN {e} ELSE {}
    OBVIOUS
  <2> DEFINE o == [NoOperation EXCEPT !.kind = "enroll", !.of = e, !.to = g, !.seen = S]
  <2>3. /\ o \in Operation /\ o.kind = "enroll" /\ o.of = e /\ o.to = g /\ o.seen = S
    BY DEF NoOperation, Operation, AllOperations
  <2>4. Begin(r, o, {}, "checked")
    BY <2>1, <2>2
  <2> HIDE DEF o
  <2>6. /\ Types' /\ KeysOK' /\ Courteous(r) /\ \A q \in Requests : q # r => Untouched(q)
        /\ op'[r] = o /\ pc'[r] = "checked" /\ todo'[r] = {} /\ price' = price
    BY <2>3, <2>4, BeginFacts DEF ledger
  <2>7. S # {} => price'[g] > 0
    BY <2>2, <2>6
  <2>8. RequestOK(r)'
    BY <2>2, <2>3, <2>6, <2>7 DEF RequestOK, ShapeOK, LocksOK, Verdict, Has, Allowed
  <2> QED BY <2>6, <2>8 DEF Good
<1>7. CASE StartPatch(r)
  <2>1. PICK e \in Enrollments :
          /\ grade[e] # None
          /\ Begin(r, [NoOperation EXCEPT !.kind = "patch", !.of = e, !.to = grade[e]],
                   {}, "checked")
    BY <1>7 DEF StartPatch
  <2>2. PICK g \in Grades : g = grade[e]
    BY <1>0, <2>1 DEF Types
  <2> DEFINE o == [NoOperation EXCEPT !.kind = "patch", !.of = e, !.to = g]
  <2>3. /\ o \in Operation /\ o.kind = "patch" /\ o.of = e /\ o.to = g
    BY DEF NoOperation, Operation, AllOperations
  <2>4. Begin(r, o, {}, "checked")
    BY <2>1, <2>2
  <2> HIDE DEF o
  <2>6. /\ Types' /\ KeysOK' /\ Courteous(r) /\ \A q \in Requests : q # r => Untouched(q)
        /\ op'[r] = o /\ pc'[r] = "checked" /\ todo'[r] = {} /\ grade'[e] # None
    BY <2>1, <2>3, <2>4, BeginFacts DEF ledger
  <2>7. RequestOK(r)'
    BY <2>3, <2>6 DEF RequestOK, ShapeOK, LocksOK, Verdict, Has, Allowed
  <2> QED BY <2>6, <2>7 DEF Good
<1> QED BY <1>1, <1>2, <1>3, <1>4, <1>5, <1>6, <1>7 DEF Start
-----------------------------------------------------------------------------
(* Locking and looking for rows.                                           *)

LEMMA NextRowsFacts ==
    ASSUME NEW r \in Requests
    PROVE  NextRows(r) \in SUBSET todo[r]
PROOF BY DEF NextRows

LEMMA AcquireLockGood ==
    ASSUME LedgerInv, NEW r \in Requests, AcquireLock(r)
    PROVE  Good(r)
PROOF
<1> PICK o \in Operation : o = op[r]
  BY DEF LedgerInv, Types
<1>0. Types /\ KeysOK /\ ShapeOK(r) /\ LocksOK(r) /\ Nobody \notin Requests
  BY LedgerAssumption DEF LedgerInv, RequestOK
<1>1. CASE Finish(r)
  BY <1>1, Refusal DEF AcquireLock
<1>2. CASE ~Finish(r)
  <2> DEFINE left(x) == /\ x[1] = "account" /\ o.kind \in {"discount", "payment", "price"}
                        /\ plan[x[2]] # o.to
  <2>1. PICK x \in todo[r] :
          /\ lock[x] \in {Nobody, r}
          /\ left(x) => o.kind = "price"
          /\ lock' = [lock EXCEPT ![x] = r]
          /\ todo' = [todo EXCEPT ![r] =
                        todo[r] \ (IF left(x) THEN {x, EnrollmentRow(x[2])} ELSE {x})]
          /\ UNCHANGED <<pc, op>> /\ UNCHANGED ledger
    BY <1>0, <1>2, NextRowsFacts DEF AcquireLock, Types
  <2>2. x \in Rows /\ todo[r] \subseteq Rows
    BY <1>0 DEF Types
  <2>3. /\ lock'[x] = r /\ \A y \in Rows : y # x => lock'[y] = lock[y]
        /\ op'[r] = o /\ pc'[r] = pc[r]
        /\ todo'[r] = todo[r] \ (IF left(x) THEN {x, EnrollmentRow(x[2])} ELSE {x})
    BY <1>0, <2>1, <2>2 DEF Types
  <2>4. Types'
    BY <1>0, <2>1, <2>2 DEF Types, ledger
  <2>5. KeysOK'
    BY <1>0, <2>1 DEF KeysOK, ledger
  <2>6. Courteous(r)
    BY <2>1 DEF Courteous, ledger
  <2>7. \A q \in Requests : q # r => Untouched(q)
    BY <1>0, <2>1, <2>2, <2>3 DEF Untouched, Types
  <2>8. pc[r] # "checked"
    BY <1>0, <2>1 DEF ShapeOK
  <2>9. ShapeOK(r)'
    BY <1>0, <2>1, <2>3, <2>8 DEF ShapeOK, ledger
  <2>10. \A y \in Rows : /\ lock[y] = r => lock'[y] = r
                         /\ Has(r, y) /\ ~left(x) => Has(r, y)'
    BY <2>3 DEF Has
  <2>11. LocksOK(r)'
    <3>1. CASE o.kind \in {"discount", "payment"}
      <4>1. /\ o.of \in Enrollments /\ o.to \in Grades /\ ~left(x)
            /\ Has(r, PlanRow(o.to)) /\ Has(r, AccountRow(o.of))
            /\ AccountRow(o.of) \notin todo[r] => plan[o.of] = o.to
        BY <1>0, <2>1, <3>1 DEF ShapeOK, LocksOK
      <4>2. Has(r, PlanRow(o.to))' /\ Has(r, AccountRow(o.of))'
        BY <4>1, <2>10, RowFacts
      <4>3. AccountRow(o.of) \notin todo'[r] => plan'[o.of] = o.to
        <5>1. CASE x = AccountRow(o.of)
          <6>1. x[1] = "account" /\ x[2] = o.of
            BY <5>1, <4>1, RowFacts
          <6> QED BY <6>1, <4>1, <3>1, <2>1 DEF ledger
        <5>2. CASE x # AccountRow(o.of)
          BY <5>2, <4>1, <2>1, <2>3 DEF ledger
        <5> QED BY <5>1, <5>2
      <4> QED BY <4>2, <4>3, <2>3, <3>1 DEF LocksOK
    <3>2. CASE o.kind = "price"
      <4>1. o.to \in Grades /\ PlanRow(o.to) \in Rows
        BY <1>0, <3>2, RowFacts DEF ShapeOK
      <4>2. Has(r, PlanRow(o.to)) => Has(r, PlanRow(o.to))'
        <5>1. left(x) => PlanRow(o.to) # EnrollmentRow(x[2])
          BY <4>1, <2>2, RowFacts
        <5> QED BY <4>1, <5>1, <2>3 DEF Has
      <4>3. ASSUME NEW e \in Enrollments, plan'[e] = o.to, Has(r, AccountRow(e))
            PROVE  Has(r, AccountRow(e))'
        <5>1. plan[e] = o.to /\ AccountRow(e) \in Rows
          BY <4>3, <2>1, RowFacts DEF ledger
        <5>2. AccountRow(e) # EnrollmentRow(x[2])
          BY DEF AccountRow, EnrollmentRow
        <5> QED BY <4>3, <5>1, <5>2, <2>3 DEF Has
      <4>4. CASE pc[r] = "first"
        BY <4>4, <4>2, <3>2, <1>0, <2>3 DEF LocksOK
      <4>5. CASE pc[r] # "first"
        <5>1. lock[PlanRow(o.to)] = r /\ \A e \in Enrollments : plan[e] = o.to => Has(r, AccountRow(e))
          BY <4>5, <3>2, <1>0 DEF LocksOK
        <5>2. lock'[PlanRow(o.to)] = r
          BY <5>1, <4>1, <2>10
        <5>3. \A e \in Enrollments : plan'[e] = o.to => Has(r, AccountRow(e))'
          BY <5>1, <4>3, <2>1 DEF ledger
        <5> QED BY <5>2, <5>3, <4>5, <3>2, <2>3 DEF LocksOK
      <4> QED BY <4>4, <4>5
    <3>3. CASE o.kind = "correct"
      <4>1. o.of \in Enrollments /\ ~left(x)
        BY <1>0, <3>3 DEF ShapeOK
      <4>2. CASE pc[r] = "first"
        <5>1. Has(r, EnrollmentRow(o.of))'
          BY <4>1, <4>2, <3>3, <1>0, <2>10, RowFacts DEF LocksOK
        <5> QED BY <5>1, <4>2, <3>3, <2>3 DEF LocksOK
      <4>3. CASE pc[r] # "first"
        <5>1. lock'[EnrollmentRow(o.of)] = r
          BY <4>1, <4>3, <3>3, <1>0, <2>10, RowFacts DEF LocksOK
        <5>2. plan'[o.of] # None => Has(r, AccountRow(o.of))'
          BY <4>1, <4>3, <3>3, <1>0, <2>1, <2>10, RowFacts DEF LocksOK, ledger
        <5> QED BY <5>1, <5>2, <4>3, <3>3, <2>3 DEF LocksOK
      <4> QED BY <4>2, <4>3
    <3> QED BY <3>1, <3>2, <3>3, <2>3 DEF LocksOK
  <2>12. Verdict(r)'
    BY <2>3, <2>8 DEF Verdict
  <2> QED BY <2>4, <2>5, <2>6, <2>7, <2>9, <2>11, <2>12 DEF Good, RequestOK
<1> QED BY <1>1, <1>2

LEMMA FindAccountsGood ==
    ASSUME LedgerInv, NEW r \in Requests, FindAccounts(r)
    PROVE  Good(r)
PROOF
<1> PICK o \in Operation : o = op[r]
  BY DEF LedgerInv, Types
<1>0. Types /\ KeysOK /\ ShapeOK(r) /\ LocksOK(r)
  BY DEF LedgerInv, RequestOK
<1> DEFINE found == {e \in Enrollments : plan[e] = o.to}
<1>1. /\ pc[r] = "first" /\ o.kind = "price" /\ todo[r] = {}
      /\ todo' = [todo EXCEPT ![r] = {"account", "enrollment"} \X found]
      /\ pc' = [pc EXCEPT ![r] = "second"]
      /\ UNCHANGED ledger /\ lock' = lock /\ op' = op
  BY DEF FindAccounts
<1>2. {"account", "enrollment"} \X found \in SUBSET Rows
  BY DEF Rows
<1>3. /\ todo'[r] = {"account", "enrollment"} \X found /\ pc'[r] = "second" /\ op'[r] = o
  BY <1>0, <1>1 DEF Types
<1>4. Types'
  BY <1>0, <1>1, <1>2 DEF Types, ledger
<1>5. KeysOK'
  BY <1>0, <1>1 DEF KeysOK, ledger
<1>6. Courteous(r) /\ \A q \in Requests : q # r => Untouched(q)
  BY <1>0, <1>1 DEF Courteous, Untouched, Types, ledger
<1>7. ShapeOK(r)'
  BY <1>0, <1>1, <1>3 DEF ShapeOK, ledger
<1>8. lock'[PlanRow(o.to)] = r
  BY <1>0, <1>1 DEF LocksOK, Has
<1>9. \A e \in Enrollments : plan'[e] = o.to => Has(r, AccountRow(e))'
  BY <1>1, <1>3 DEF Has, AccountRow, ledger
<1>10. LocksOK(r)' /\ Verdict(r)'
  BY <1>1, <1>3, <1>8, <1>9 DEF LocksOK, Verdict
<1> QED BY <1>4, <1>5, <1>6, <1>7, <1>10 DEF Good, RequestOK

LEMMA FindAccountGood ==
    ASSUME LedgerInv, NEW r \in Requests, FindAccount(r)
    PROVE  Good(r)
PROOF
<1> PICK o \in Operation : o = op[r]
  BY DEF LedgerInv, Types
<1>0. Types /\ KeysOK /\ ShapeOK(r) /\ LocksOK(r)
  BY DEF LedgerInv, RequestOK
<1>1. CASE Finish(r)
  BY <1>1, Refusal DEF FindAccount
<1>2. CASE ~Finish(r)
  <2> DEFINE rows == IF plan[o.of] = None THEN {} ELSE {AccountRow(o.of)}
  <2>1. /\ pc[r] = "first" /\ o.kind = "correct" /\ todo[r] = {}
        /\ todo' = [todo EXCEPT ![r] = rows]
        /\ pc' = [pc EXCEPT ![r] = "second"]
        /\ UNCHANGED ledger /\ lock' = lock /\ op' = op
    BY <1>2 DEF FindAccount
  <2>2. o.of \in Enrollments /\ rows \in SUBSET Rows
    BY <1>0, <2>1, RowFacts DEF ShapeOK
  <2>3. todo'[r] = rows /\ pc'[r] = "second" /\ op'[r] = o
    BY <1>0, <2>1 DEF Types
  <2>4. Types'
    BY <1>0, <2>1, <2>2 DEF Types, ledger
  <2>5. KeysOK'
    BY <1>0, <2>1 DEF KeysOK, ledger
  <2>6. Courteous(r) /\ \A q \in Requests : q # r => Untouched(q)
    BY <1>0, <2>1 DEF Courteous, Untouched, Types, ledger
  <2>7. ShapeOK(r)'
    BY <1>0, <2>1, <2>3 DEF ShapeOK, ledger
  <2>8. lock'[EnrollmentRow(o.of)] = r
    BY <1>0, <2>1 DEF LocksOK, Has
  <2>9. plan'[o.of] # None => Has(r, AccountRow(o.of))'
    BY <2>1, <2>3 DEF Has, ledger
  <2>10. LocksOK(r)' /\ Verdict(r)'
    BY <2>1, <2>3, <2>8, <2>9 DEF LocksOK, Verdict
  <2> QED BY <2>4, <2>5, <2>6, <2>7, <2>10 DEF Good, RequestOK
<1> QED BY <1>1, <1>2

LEMMA CheckGood ==
    ASSUME LedgerInv, NEW r \in Requests, Check(r)
    PROVE  Good(r)
PROOF
<1> PICK o \in Operation : o = op[r]
  BY DEF LedgerInv, Types
<1>0. Types /\ KeysOK /\ ShapeOK(r) /\ LocksOK(r)
  BY DEF LedgerInv, RequestOK
<1>1. CASE ~Allowed(o)
  BY <1>1, Refusal DEF Check
<1>2. CASE Allowed(o)
  <2>1. /\ o.kind \in {"discount", "payment", "price", "correct"}
        /\ pc[r] = LastStage(o) /\ todo[r] = {}
        /\ pc' = [pc EXCEPT ![r] = "checked"]
        /\ UNCHANGED ledger /\ lock' = lock /\ op' = op /\ todo' = todo
    BY <1>2 DEF Check
  <2>2. pc'[r] = "checked" /\ op'[r] = o /\ todo'[r] = {}
    BY <1>0, <2>1 DEF Types
  <2>3. Types'
    BY <1>0, <2>1 DEF Types, ledger
  <2>4. KeysOK'
    BY <1>0, <2>1 DEF KeysOK, ledger
  <2>5. Courteous(r) /\ \A q \in Requests : q # r => Untouched(q)
    BY <1>0, <2>1 DEF Courteous, Untouched, Types, ledger
  <2>6. ShapeOK(r)'
    BY <1>0, <2>1, <2>2 DEF ShapeOK, ledger
  <2>7. LocksOK(r)'
    BY <1>0, <2>1, <2>2 DEF LocksOK, Has, LastStage, ledger
  <2>8. Verdict(r)'
    <3>1. Allowed(o)'
      BY <1>2, <2>1, SameLedger
    <3> QED BY <3>1, <2>2 DEF Verdict
  <2> QED BY <2>3, <2>4, <2>5, <2>6, <2>7, <2>8 DEF Good, RequestOK
<1> QED BY <1>1, <1>2
-----------------------------------------------------------------------------
(* The commits.                                                            *)

\* What a checked request holds and knows when it commits.
LEMMA Checked ==
    ASSUME LedgerInv, NEW r \in Requests, pc[r] = "checked", NEW o \in Operation, o = op[r]
    PROVE  /\ o.kind \in {"discount", "payment"} =>
                /\ o.of \in Enrollments /\ o.to \in Grades
                /\ plan[o.of] = o.to /\ price[o.to] > 0 /\ plan[o.of] # None
                /\ lock[AccountRow(o.of)] = r
           /\ o.kind = "discount" => o.new \in Discount /\ DiscountAllowed(o)
           /\ o.kind = "payment" => o.new \in Payment /\ PaymentAllowed(o)
           /\ o.kind = "price" =>
                /\ o.to \in Grades /\ o.base \in Prices /\ price[o.to] > 0
                /\ lock[PlanRow(o.to)] = r /\ PriceAllowed(o)
           /\ o.kind = "correct" =>
                /\ o.of \in Enrollments /\ o.to \in Grades /\ grade[o.of] # None
                /\ lock[EnrollmentRow(o.of)] = r
                /\ plan[o.of] # None => lock[AccountRow(o.of)] = r
                /\ CorrectionAllowed(o)
PROOF
<1>0. ShapeOK(r) /\ LocksOK(r) /\ KeysOK /\ todo[r] = {} /\ Allowed(o)
  BY DEF LedgerInv, RequestOK, Verdict, ShapeOK
<1>1. o.kind \in {"discount", "payment"} =>
        /\ o.of \in Enrollments /\ o.to \in Grades
        /\ plan[o.of] = o.to /\ lock[AccountRow(o.of)] = r
  BY <1>0 DEF ShapeOK, LocksOK, Has
<1>2. o.kind \in {"discount", "payment"} => plan[o.of] # None /\ price[o.to] > 0
  BY <1>0, <1>1, LedgerAssumption DEF KeysOK
<1>3. /\ o.kind = "discount" => o.new \in Discount
      /\ o.kind = "payment" => o.new \in Payment
      /\ o.kind = "price" => o.to \in Grades /\ o.base \in Prices /\ price[o.to] > 0
      /\ o.kind = "correct" => o.of \in Enrollments /\ o.to \in Grades /\ grade[o.of] # None
  BY <1>0 DEF ShapeOK
<1>4. /\ o.kind = "price" => lock[PlanRow(o.to)] = r
      /\ o.kind = "correct" => /\ lock[EnrollmentRow(o.of)] = r
                               /\ plan[o.of] # None => lock[AccountRow(o.of)] = r
  BY <1>0 DEF LocksOK, Has
<1>5. /\ o.kind = "discount" => DiscountAllowed(o)
      /\ o.kind = "payment" => PaymentAllowed(o)
      /\ o.kind = "price" => PriceAllowed(o)
      /\ o.kind = "correct" => CorrectionAllowed(o)
  BY <1>0 DEF Allowed
<1> QED BY <1>1, <1>2, <1>3, <1>4, <1>5

LEMMA CommitGood ==
    ASSUME LedgerInv, NEW r \in Requests, Commit(r)
    PROVE  Good(r)
PROOF
<1> PICK o \in Operation : o = op[r]
  BY DEF LedgerInv, Types
<1>0. Types /\ KeysOK /\ ShapeOK(r) /\ None \notin Grades
  BY LedgerAssumption DEF LedgerInv, RequestOK
<1>1. pc[r] = "checked" /\ Finish(r)
  BY DEF Commit, CommitDiscount, CommitPayment, CommitPrice, CommitCorrection, CommitPlan,
         CommitEnrollment, CommitPatch
<1>2. /\ pc' \in [Requests -> {"idle", "first", "second", "checked"}]
      /\ op' \in [Requests -> Operation] /\ todo' \in [Requests -> SUBSET Rows]
      /\ lock' \in [Rows -> Requests \cup {Nobody}]
      /\ \A q \in Requests : q # r => Untouched(q)
      /\ RequestOK(r)'
  BY <1>1, FinishFacts
<1> SUFFICES Types' /\ KeysOK' /\ Courteous(r)
  BY <1>2 DEF Good
<1>3. CASE CommitDiscount(r)
  <2>1. /\ o.kind = "discount" /\ UNCHANGED <<grade, price, plan, payments, everPaid>>
        /\ discounts' = [discounts EXCEPT ![o.of] = discounts[o.of] \cup {o.new}]
    BY <1>3 DEF CommitDiscount
  <2>2. o.of \in Enrollments /\ o.new \in Discount /\ lock[AccountRow(o.of)] = r
    BY <1>1, <2>1, Checked
  <2>3. Types'
    BY <1>0, <1>2, <2>1, <2>2 DEF Types
  <2>4. KeysOK'
    BY <1>0, <2>1 DEF KeysOK
  <2>5. \A e \in Enrollments : discounts'[e] # discounts[e] => e = o.of
    BY <1>0, <2>1 DEF Types
  <2> QED BY <2>1, <2>2, <2>3, <2>4, <2>5 DEF Courteous
<1>4. CASE CommitPayment(r)
  <2>1. /\ o.kind = "payment" /\ UNCHANGED <<grade, price, plan, discounts>>
        /\ payments' = [payments EXCEPT ![o.of] = payments[o.of] \cup {o.new}]
        /\ everPaid' = everPaid \cup {o.of}
    BY <1>4 DEF CommitPayment
  <2>2. /\ o.of \in Enrollments /\ o.new \in Payment /\ lock[AccountRow(o.of)] = r
        /\ plan[o.of] # None
    BY <1>1, <2>1, Checked
  <2>3. Types'
    BY <1>0, <1>2, <2>1, <2>2 DEF Types
  <2>4. KeysOK'
    BY <1>0, <2>1, <2>2 DEF KeysOK
  <2>5. \A e \in Enrollments : payments'[e] # payments[e] => e = o.of
    BY <1>0, <2>1 DEF Types
  <2> QED BY <2>1, <2>2, <2>3, <2>4, <2>5 DEF Courteous
<1>5. CASE CommitPrice(r)
  <2>1. /\ o.kind = "price" /\ UNCHANGED <<grade, plan, discounts, payments, everPaid>>
        /\ price' = [price EXCEPT ![o.to] = o.base]
    BY <1>5 DEF CommitPrice
  <2>2. o.to \in Grades /\ o.base \in Prices /\ lock[PlanRow(o.to)] = r
    BY <1>1, <2>1, Checked
  <2>3. o.base \in Nat /\ o.base > 0
    BY <2>2, PriceFacts
  <2>4. Types'
    BY <1>0, <1>2, <2>1, <2>2 DEF Types
  <2>5. \A g \in Grades : price'[g] = IF g = o.to THEN o.base ELSE price[g]
    BY <1>0, <2>1 DEF Types
  <2>6. \A e \in Enrollments : plan[e] # None => plan[e] \in Grades
    BY <1>0 DEF Types
  <2>7. KeysOK'
    BY <1>0, <2>1, <2>3, <2>5, <2>6 DEF KeysOK
  <2> QED BY <2>1, <2>2, <2>3, <2>4, <2>5, <2>7 DEF Courteous
<1>6. CASE CommitCorrection(r)
  <2>1. /\ o.kind = "correct" /\ UNCHANGED <<price, discounts, payments, everPaid>>
        /\ \A x \in CommitRows(r) : ~Locked(x)
        /\ grade' = [grade EXCEPT ![o.of] = o.to]
        /\ plan' = [plan EXCEPT ![o.of] = IF plan[o.of] = None THEN None ELSE o.to]
    BY <1>0, <1>6 DEF CommitCorrection, Types
  <2>2. /\ o.of \in Enrollments /\ o.to \in Grades /\ grade[o.of] # None
        /\ lock[EnrollmentRow(o.of)] = r
        /\ plan[o.of] # None => lock[AccountRow(o.of)] = r /\ price[o.to] > 0
    BY <1>1, <2>1, Checked DEF CorrectionAllowed
  <2>3. plan[o.of] \notin {None, o.to} => lock[PlanRow(o.to)] = Nobody
    BY <1>1, <2>1 DEF CommitRows, Locked
  <2>4. Types'
    BY <1>0, <1>2, <2>1, <2>2 DEF Types
  <2>5. \A e \in Enrollments :
          /\ grade'[e] = IF e = o.of THEN o.to ELSE grade[e]
          /\ plan'[e] = IF e = o.of /\ plan[e] # None THEN o.to ELSE plan[e]
    BY <1>0, <2>1, <2>2 DEF Types
  <2>6. KeysOK'
    BY <1>0, <2>1, <2>2, <2>5 DEF KeysOK, Types
  <2>7. Courteous(r)
    BY <1>0, <2>1, <2>2, <2>3, <2>5 DEF Courteous
  <2> QED BY <2>4, <2>6, <2>7
<1>7. CASE CommitPlan(r)
  <2> DEFINE open == {e \in o.seen : plan[e] = None}
  <2>1. CASE UNCHANGED ledger
    BY <2>1, <1>1, Refusal DEF Good
  <2>2. CASE ~UNCHANGED ledger
    <3>1. /\ o.kind = "plan" /\ UNCHANGED <<grade, discounts, payments, everPaid>>
          /\ ~(price[o.to] > 0)
          /\ \A x \in CommitRows(r) : ~Locked(x)
          /\ price' = [price EXCEPT ![o.to] = o.base]
          /\ plan' = [e \in Enrollments |-> IF e \in open THEN o.to ELSE plan[e]]
      BY <1>7, <2>2 DEF CommitPlan
    <3>2. /\ o.to \in Grades /\ o.base \in Prices /\ o.seen \in SUBSET Enrollments
          /\ \A e \in o.seen : grade[e] # None
      BY <1>0, <3>1 DEF ShapeOK, Operation
    <3>3. o.base \in Nat /\ o.base > 0 /\ price[o.to] = 0
      <4>1. price[o.to] \in Prices \cup {0}
        BY <1>0, <3>2 DEF Types
      <4> QED BY <4>1, <3>1, <3>2, PriceFacts
    <3>4. \A e \in open : lock[EnrollmentRow(e)] = Nobody
      BY <1>1, <3>1 DEF CommitRows, Locked
    <3>5. Types'
      BY <1>0, <1>2, <3>1, <3>2 DEF Types
    <3>6. /\ \A g \in Grades : price'[g] = IF g = o.to THEN o.base ELSE price[g]
          /\ \A e \in Enrollments : plan'[e] = IF e \in open THEN o.to ELSE plan[e]
      BY <1>0, <3>1 DEF Types
    <3>7. \A e \in Enrollments : plan[e] # None => plan[e] \in Grades
      BY <1>0 DEF Types
    <3>8. KeysOK'
      BY <1>0, <3>1, <3>2, <3>3, <3>6, <3>7 DEF KeysOK, Types
    <3>9. Courteous(r)
      BY <1>0, <3>1, <3>2, <3>3, <3>4, <3>6 DEF Courteous
    <3> QED BY <3>5, <3>8, <3>9
  <2> QED BY <2>1, <2>2
<1>8. CASE CommitEnrollment(r)
  <2>1. CASE UNCHANGED ledger
    BY <2>1, <1>1, Refusal DEF Good
  <2>2. CASE ~UNCHANGED ledger
    <3>1. /\ o.kind = "enroll" /\ UNCHANGED <<price, discounts, payments, everPaid>>
          /\ grade[o.of] = None
          /\ \A x \in CommitRows(r) : ~Locked(x)
          /\ grade' = [grade EXCEPT ![o.of] = o.to]
          /\ plan' = [plan EXCEPT ![o.of] = IF o.seen = {} THEN None ELSE o.to]
      BY <1>8, <2>2 DEF CommitEnrollment
    <3>2. /\ o.of \in Enrollments /\ o.to \in Grades /\ o.seen \in {{}, {o.of}}
          /\ o.seen # {} => price[o.to] > 0
      BY <1>0, <3>1 DEF ShapeOK
    <3>3. plan[o.of] = None
      BY <1>0, <3>1, <3>2 DEF KeysOK
    <3>4. o.seen # {} => lock[PlanRow(o.to)] = Nobody
      BY <1>1, <3>1, <3>2 DEF CommitRows, Locked
    <3>5. Types'
      BY <1>0, <1>2, <3>1, <3>2 DEF Types
    <3>6. \A e \in Enrollments :
            /\ grade'[e] = IF e = o.of THEN o.to ELSE grade[e]
            /\ plan'[e] = IF e = o.of /\ o.seen # {} THEN o.to ELSE plan[e]
      BY <1>0, <3>1, <3>2, <3>3 DEF Types
    <3>7. KeysOK'
      BY <1>0, <3>1, <3>2, <3>3, <3>6 DEF KeysOK, Types
    <3>8. Courteous(r)
      BY <1>0, <3>1, <3>2, <3>3, <3>4, <3>6 DEF Courteous
    <3> QED BY <3>5, <3>7, <3>8
  <2> QED BY <2>1, <2>2
<1>9. CASE CommitPatch(r)
  <2>1. /\ o.kind = "patch" /\ UNCHANGED <<price, plan, discounts, payments, everPaid>>
        /\ grade' = [grade EXCEPT ![o.of] = o.to]
    BY <1>9 DEF CommitPatch
  <2>2. o.of \in Enrollments /\ o.to \in Grades
    BY <1>0, <2>1 DEF ShapeOK
  <2>3. Types'
    BY <1>0, <1>2, <2>1, <2>2 DEF Types
  <2>4. \A e \in Enrollments : grade'[e] = IF e = o.of THEN o.to ELSE grade[e]
    BY <1>0, <2>1 DEF Types
  <2>5. KeysOK' /\ Courteous(r)
    BY <1>0, <2>1, <2>2, <2>4 DEF KeysOK, Courteous, Types
  <2> QED BY <2>3, <2>5
<1> QED BY <1>3, <1>4, <1>5, <1>6, <1>7, <1>8, <1>9 DEF Commit
-----------------------------------------------------------------------------
(* The inductive invariant.                                                *)

LEMMA CancelGood ==
    ASSUME LedgerInv, CancelDiscount \/ CancelPayment
    PROVE  Good(Nobody)
PROOF
<1>0. Types /\ KeysOK /\ Nobody \notin Requests
  BY LedgerAssumption DEF LedgerInv
<1>1. CASE CancelDiscount
  <2>1. PICK e \in Enrollments : \E d \in discounts[e] :
          /\ ~Locked(AccountRow(e))
          /\ discounts' = [discounts EXCEPT ![e] = discounts[e] \ {d}]
          /\ UNCHANGED <<grade, price, plan, payments, everPaid, lock, pc, op, todo>>
    BY <1>1 DEF CancelDiscount, process
  <2>2. Types'
    BY <1>0, <2>1 DEF Types
  <2>3. \A f \in Enrollments : discounts'[f] # discounts[f] => f = e
    BY <1>0, <2>1 DEF Types
  <2>4. lock[AccountRow(e)] = Nobody
    BY <2>1 DEF Locked
  <2>5. KeysOK' /\ Courteous(Nobody)
    BY <1>0, <2>1, <2>3, <2>4 DEF KeysOK, Courteous
  <2>6. \A q \in Requests : Untouched(q)
    BY <2>1 DEF Untouched
  <2> QED BY <1>0, <2>2, <2>5, <2>6 DEF Good
<1>2. CASE CancelPayment
  <2>1. PICK e \in Enrollments : \E p \in payments[e] :
          /\ ~Locked(AccountRow(e))
          /\ payments' = [payments EXCEPT ![e] = payments[e] \ {p}]
          /\ UNCHANGED <<grade, price, plan, discounts, everPaid, lock, pc, op, todo>>
    BY <1>2 DEF CancelPayment, process
  <2>2. Types'
    BY <1>0, <2>1 DEF Types
  <2>3. \A f \in Enrollments : payments'[f] # payments[f] => f = e
    BY <1>0, <2>1 DEF Types
  <2>4. lock[AccountRow(e)] = Nobody
    BY <2>1 DEF Locked
  <2>5. KeysOK' /\ Courteous(Nobody)
    BY <1>0, <2>1, <2>3, <2>4 DEF KeysOK, Courteous
  <2>6. \A q \in Requests : Untouched(q)
    BY <2>1 DEF Untouched
  <2> QED BY <1>0, <2>2, <2>5, <2>6 DEF Good
<1> QED BY <1>1, <1>2

LEMMA InitEstablishes == Init => LedgerInv
PROOF
<1> SUFFICES ASSUME Init PROVE LedgerInv
  OBVIOUS
<1>0. /\ FirstGrade \in [Enrollments -> Grades \cup {None}]
      /\ FirstPrice \in [Grades -> Prices \cup {0}] /\ None \notin Grades
  BY LedgerAssumption
<1>1. /\ grade \in [Enrollments -> Grades \cup {None}] /\ price \in [Grades -> Prices \cup {0}]
      /\ plan = [e \in Enrollments |->
                   IF grade[e] # None /\ price[grade[e]] > 0 THEN grade[e] ELSE None]
      /\ discounts = [e \in Enrollments |-> {}] /\ payments = [e \in Enrollments |-> {}]
      /\ everPaid = {} /\ lock = [x \in Rows |-> Nobody] /\ pc = [r \in Requests |-> "idle"]
      /\ op = [r \in Requests |-> NoOperation] /\ todo = [r \in Requests |-> {}]
  BY <1>0 DEF Init
<1>2. Types
  BY <1>1, NoOperationFacts DEF Types
<1>3. KeysOK
  BY <1>1 DEF KeysOK
<1>4. ASSUME NEW r \in Requests PROVE RequestOK(r)
  <2>1. pc[r] = "idle" /\ op[r].kind = "none"
    BY <1>1, NoOperationFacts
  <2> QED BY <2>1 DEF RequestOK, ShapeOK, LocksOK, Verdict
<1> QED BY <1>2, <1>3, <1>4 DEF LedgerInv

LEMMA NextPreserves == LedgerInv /\ [Next]_vars => LedgerInv'
PROOF
<1> SUFFICES ASSUME LedgerInv, [Next]_vars PROVE LedgerInv'
  OBVIOUS
<1>1. ASSUME NEW r \in Requests, Start(r) PROVE LedgerInv'
  BY <1>1, StartGood, GoodPreserves
<1>2. ASSUME NEW r \in Requests, Proceed(r) PROVE LedgerInv'
  <2>1. CASE DeadlockAbort(r)
    BY <2>1, Refusal, GoodPreserves DEF DeadlockAbort
  <2> QED BY <1>2, <2>1, AcquireLockGood, FindAccountsGood, FindAccountGood, CheckGood,
             CommitGood, GoodPreserves DEF Proceed
<1>3. CASE CancelDiscount \/ CancelPayment
  BY <1>3, CancelGood, GoodPreserves
<1>4. CASE UNCHANGED vars
  <2>1. /\ UNCHANGED <<grade, price, plan, discounts, payments, everPaid>>
        /\ UNCHANGED <<lock, pc, op, todo>> /\ UNCHANGED ledger
    BY <1>4 DEF vars, ledger, process
  <2>2. Types' /\ KeysOK'
    BY <2>1 DEF LedgerInv, Types, KeysOK
  <2>3. Nobody \in Requests \cup {Nobody} /\ Nobody \notin Requests
    BY LedgerAssumption
  <2>4. Courteous(Nobody) /\ \A q \in Requests : Untouched(q)
    BY <2>1 DEF Courteous, Untouched
  <2>5. Good(Nobody)
    BY <2>2, <2>3, <2>4 DEF Good
  <2> QED BY <2>5, GoodPreserves
<1> QED BY <1>1, <1>2, <1>3, <1>4 DEF Next

LEMMA Invariance == Spec => []LedgerInv
PROOF
<1>1. Init => LedgerInv
  BY InitEstablishes
<1>2. LedgerInv /\ [Next]_vars => LedgerInv'
  BY NextPreserves
<1> QED BY <1>1, <1>2, PTL DEF Spec

\* The state has its types, and an account belongs to an enrollment and to a
\* plan that exists: the foreign keys of finance/models.py.
THEOREM TypeCorrect == Spec => []TypeOK
PROOF
<1>1. LedgerInv => TypeOK
  BY DEF LedgerInv, Types, KeysOK, TypeOK
<1> QED BY <1>1, Invariance, PTL

\* What a request checked with its rows locked is still true when it commits,
\* whatever the other requests do (finance/services.py, students/services.py).
THEOREM VerdictsStayTrue == Spec => []VerdictsHold
PROOF
<1>1. LedgerInv => VerdictsHold
  BY DEF LedgerInv, RequestOK, Verdict, VerdictsHold
<1> QED BY <1>1, Invariance, PTL
-----------------------------------------------------------------------------
(* Implementing FinanceBook.                                               *)

LEMMA BookCommit ==
    ASSUME LedgerInv, NEW r \in Requests, Commit(r)
    PROVE  Book!Next \/ UNCHANGED Book!vars
PROOF
<1> PICK o \in Operation : o = op[r]
  BY DEF LedgerInv, Types
<1>0. Types /\ KeysOK /\ ShapeOK(r) /\ None \notin Grades
  BY LedgerAssumption DEF LedgerInv, RequestOK
<1>1. pc[r] = "checked"
  BY DEF Commit, CommitDiscount, CommitPayment, CommitPrice, CommitCorrection, CommitPlan,
         CommitEnrollment, CommitPatch
<1>3. CASE CommitDiscount(r)
  <2>1. /\ o.kind = "discount" /\ UNCHANGED <<price, plan, payments, everPaid>>
        /\ discounts' = [discounts EXCEPT ![o.of] = discounts[o.of] \cup {o.new}]
    BY <1>3 DEF CommitDiscount
  <2>2. /\ o.of \in Enrollments /\ o.new \in Discount
        /\ plan[o.of] # None /\ plan[o.of] = o.to /\ DiscountAllowed(o)
    BY <1>1, <2>1, Checked
  <2>3. Book!AddDiscount(o.of)
    BY <2>1, <2>2 DEF Book!AddDiscount, DiscountAllowed, TotalDiscounts, TotalPaid
  <2> QED BY <2>2, <2>3 DEF Book!Next
<1>4. CASE CommitPayment(r)
  <2>1. /\ o.kind = "payment" /\ UNCHANGED <<price, plan, discounts>>
        /\ payments' = [payments EXCEPT ![o.of] = payments[o.of] \cup {o.new}]
        /\ everPaid' = everPaid \cup {o.of}
    BY <1>4 DEF CommitPayment
  <2>2. /\ o.of \in Enrollments /\ o.new \in Payment
        /\ plan[o.of] # None /\ plan[o.of] = o.to /\ PaymentAllowed(o)
    BY <1>1, <2>1, Checked
  <2>3. o.new.usd \in Nat
    <3>1. o.new.usd \in PaymentAmounts
      BY <2>2 DEF Payment
    <3> QED BY <3>1, PaymentsNatural
  <2>4. Book!AddPayment(o.of)
    BY <2>1, <2>2, <2>3 DEF Book!AddPayment, PaymentAllowed, Remaining, TotalDiscounts, TotalPaid
  <2> QED BY <2>2, <2>4 DEF Book!Next
<1>5. CASE CommitPrice(r)
  <2>1. /\ o.kind = "price" /\ UNCHANGED <<plan, discounts, payments, everPaid>>
        /\ price' = [price EXCEPT ![o.to] = o.base]
    BY <1>5 DEF CommitPrice
  <2>2. o.to \in Grades /\ o.base \in Prices /\ price[o.to] > 0 /\ PriceAllowed(o)
    BY <1>1, <2>1, Checked
  <2>3. Book!ChangePrice(o.to)
    BY <2>1, <2>2 DEF Book!ChangePrice, Book!Fits, PriceAllowed, TotalDiscounts, TotalPaid
  <2> QED BY <2>2, <2>3 DEF Book!Next
<1>6. CASE CommitCorrection(r)
  <2>1. /\ o.kind = "correct" /\ UNCHANGED <<price, discounts, payments, everPaid>>
        /\ plan' = [plan EXCEPT ![o.of] = IF plan[o.of] = None THEN None ELSE o.to]
    BY <1>0, <1>6 DEF CommitCorrection, Types
  <2>2. o.of \in Enrollments /\ o.to \in Grades /\ CorrectionAllowed(o)
    BY <1>1, <2>1, Checked
  <2>3. CASE plan[o.of] = None
    <3>1. plan' = plan
      BY <1>0, <2>1, <2>3 DEF Types
    <3> QED BY <2>1, <3>1 DEF Book!vars
  <2>4. CASE plan[o.of] # None
    <3>1. Book!MoveAccount(o.of, o.to)
      BY <2>1, <2>2, <2>4 DEF Book!MoveAccount, CorrectionAllowed
    <3> QED BY <2>2, <3>1 DEF Book!Next
  <2> QED BY <2>3, <2>4
<1>7. CASE CommitPlan(r)
  <2> DEFINE open == {e \in o.seen : plan[e] = None}
  <2>1. CASE UNCHANGED ledger
    BY <2>1 DEF ledger, Book!vars
  <2>2. CASE ~UNCHANGED ledger
    <3>1. /\ o.kind = "plan" /\ UNCHANGED <<discounts, payments, everPaid>>
          /\ ~(price[o.to] > 0)
          /\ price' = [price EXCEPT ![o.to] = o.base]
          /\ plan' = [e \in Enrollments |-> IF e \in open THEN o.to ELSE plan[e]]
      BY <1>7, <2>2 DEF CommitPlan
    <3>2. o.to \in Grades /\ o.base \in Prices /\ o.seen \in SUBSET Enrollments
      BY <1>0, <3>1 DEF ShapeOK, Operation
    <3>3. price[o.to] = 0
      <4>1. price[o.to] \in Prices \cup {0}
        BY <1>0, <3>2 DEF Types
      <4> QED BY <4>1, <3>1, PriceFacts
    <3>4. open \in SUBSET {e \in Enrollments : plan[e] = None}
      BY <3>2
    <3>5. Book!CreatePlan(o.to)
      BY <3>1, <3>2, <3>3, <3>4 DEF Book!CreatePlan
    <3> QED BY <3>2, <3>5 DEF Book!Next
  <2> QED BY <2>1, <2>2
<1>8. CASE CommitEnrollment(r)
  <2>1. CASE UNCHANGED ledger
    BY <2>1 DEF ledger, Book!vars
  <2>2. CASE ~UNCHANGED ledger
    <3>1. /\ o.kind = "enroll" /\ UNCHANGED <<price, discounts, payments, everPaid>>
          /\ grade[o.of] = None
          /\ plan' = [plan EXCEPT ![o.of] = IF o.seen = {} THEN None ELSE o.to]
      BY <1>8, <2>2 DEF CommitEnrollment
    <3>2. /\ o.of \in Enrollments /\ o.to \in Grades
          /\ o.seen # {} => price[o.to] > 0
      BY <1>0, <3>1 DEF ShapeOK
    <3>3. plan[o.of] = None
      BY <1>0, <3>1, <3>2 DEF KeysOK
    <3>4. CASE o.seen = {}
      <4>1. plan' = plan
        BY <1>0, <3>1, <3>3, <3>4 DEF Types
      <4> QED BY <3>1, <4>1 DEF Book!vars
    <3>5. CASE o.seen # {}
      <4>1. Book!OpenAccount(o.of, o.to)
        BY <3>1, <3>2, <3>3, <3>5 DEF Book!OpenAccount
      <4> QED BY <3>2, <4>1 DEF Book!Next
    <3> QED BY <3>4, <3>5
  <2> QED BY <2>1, <2>2
<1>9. CASE CommitPatch(r)
  BY <1>9 DEF CommitPatch, Book!vars
<1> QED BY <1>3, <1>4, <1>5, <1>6, <1>7, <1>8, <1>9 DEF Commit

LEMMA BookStep == LedgerInv /\ [Next]_vars => [Book!Next]_(Book!vars)
PROOF
<1> SUFFICES ASSUME LedgerInv, [Next]_vars PROVE Book!Next \/ UNCHANGED Book!vars
  OBVIOUS
<1>1. CASE UNCHANGED ledger
  BY <1>1 DEF ledger, Book!vars
<1>2. ASSUME NEW r \in Requests, Start(r) PROVE UNCHANGED ledger
  BY <1>2 DEF Start, StartDiscount, StartPayment, StartPriceChange, StartCorrection, StartPlan,
              StartEnrollment, StartPatch, Begin
<1>3. ASSUME NEW r \in Requests, Proceed(r) PROVE Commit(r) \/ UNCHANGED ledger
  BY <1>3 DEF Proceed, AcquireLock, FindAccounts, FindAccount, Check, DeadlockAbort
<1>4. CASE CancelDiscount
  <2>1. PICK e \in Enrollments : \E d \in discounts[e] :
          /\ discounts' = [discounts EXCEPT ![e] = discounts[e] \ {d}]
          /\ UNCHANGED <<price, plan, payments, everPaid>>
    BY <1>4 DEF CancelDiscount
  <2>2. Book!Cancel(e)
    BY <2>1 DEF Book!Cancel
  <2> QED BY <2>2 DEF Book!Next
<1>5. CASE CancelPayment
  <2>1. PICK e \in Enrollments : \E p \in payments[e] :
          /\ payments' = [payments EXCEPT ![e] = payments[e] \ {p}]
          /\ UNCHANGED <<price, plan, discounts, everPaid>>
    BY <1>5 DEF CancelPayment
  <2>2. Book!Cancel(e)
    BY <2>1 DEF Book!Cancel
  <2> QED BY <2>2 DEF Book!Next
<1>6. CASE UNCHANGED vars
  BY <1>6, <1>1 DEF vars
<1> QED BY <1>1, <1>2, <1>3, <1>4, <1>5, <1>6, BookCommit DEF Next

\* Whatever the interleaving, the ledger changes as if its requests had run
\* one at a time, each deciding on the ledger it changes.
THEOREM LedgerImplementsBook == Spec => ImplementsBook
PROOF
<1>1. Init => Book!Init
  BY LedgerAssumption DEF Init, Book!Init
<1>2. LedgerInv /\ [Next]_vars => [Book!Next]_(Book!vars)
  BY BookStep
<1> QED BY <1>1, <1>2, Invariance, PTL DEF Spec, ImplementsBook, Book!Spec

\* Once a payment was stored for an account, cancelled or not, no request
\* moves the account to another plan (correct_enrollment_placement and the
\* creation of plans and enrollments).
THEOREM PlanIsPinned == Spec => PaymentsPinThePlan
PROOF
<1>1. LedgerInv /\ [Next]_vars =>
        [\A e \in Enrollments : e \in everPaid => plan'[e] = plan[e]]_vars
  <2> SUFFICES ASSUME LedgerInv, [Next]_vars, NEW e \in Enrollments, e \in everPaid
               PROVE  plan'[e] = plan[e]
    OBVIOUS
  <2>1. plan[e] # None /\ plan \in [Enrollments -> Grades \cup {None}]
    BY DEF LedgerInv, KeysOK, Types
  <2>2. Book!Next \/ UNCHANGED Book!vars
    BY BookStep
  <2>3. ASSUME NEW g \in Grades, Book!CreatePlan(g) PROVE plan'[e] = plan[e]
    BY <2>1, <2>3 DEF Book!CreatePlan
  <2>4. ASSUME NEW f \in Enrollments, NEW g \in Grades, Book!OpenAccount(f, g) \/ Book!MoveAccount(f, g)
        PROVE  plan'[e] = plan[e]
    BY <2>1, <2>4 DEF Book!OpenAccount, Book!MoveAccount
  <2>5. ASSUME NEW f \in Enrollments, Book!AddDiscount(f) \/ Book!AddPayment(f) \/ Book!Cancel(f)
        PROVE  plan'[e] = plan[e]
    BY <2>5 DEF Book!AddDiscount, Book!AddPayment, Book!Cancel
  <2>6. ASSUME NEW g \in Grades, Book!ChangePrice(g) PROVE plan'[e] = plan[e]
    BY <2>6 DEF Book!ChangePrice
  <2>7. CASE UNCHANGED Book!vars
    BY <2>7 DEF Book!vars
  <2> QED BY <2>2, <2>3, <2>4, <2>5, <2>6, <2>7 DEF Book!Next
<1> QED BY <1>1, Invariance, PTL DEF Spec, PaymentsPinThePlan
-----------------------------------------------------------------------------
(* Totals of money, and what is left to pay.                               *)

LEMMA DiscountInputs ==
    /\ \A n \in Percentages : n \in Nat
    /\ \A n \in FixedAmounts : n \in Nat
PROOF
<1>1. ASSUME NEW n \in Percentages PROVE n \in Nat
  <2>1. n \in 1..10000
    BY LedgerAssumption
  <2>2. PICK m \in 1..10000 : m = n
    BY <2>1
  <2> QED BY <2>2
<1>2. ASSUME NEW n \in FixedAmounts PROVE n \in Nat
  BY LedgerAssumption
<1> QED BY <1>1, <1>2

LEMMA DiscountNatural ==
    ASSUME NEW d \in Discount, NEW base \in Nat
    PROVE  DiscountUsd(d, base) \in Nat
PROOF
<1>1. CASE d.kind = "percentage"
  <2>1. d.value \in Nat
    <3>1. d.value \in Percentages
      BY <1>1 DEF Discount
    <3> QED BY <3>1, DiscountInputs
  <2>2. PICK n \in Nat : n = base * d.value
    BY <2>1
  <2>3. (2 * n + 10000) \div (2 * 10000) \in Nat
    BY <2>2
  <2> QED BY <1>1, <2>2, <2>3 DEF DiscountUsd, RoundHalfUp
<1>2. CASE d.kind # "percentage"
  <2>1. d.value \in FixedAmounts
    BY <1>2 DEF Discount
  <2>2. d.value \in Nat
    BY <2>1, DiscountInputs
  <2> QED BY <1>2, <2>2 DEF DiscountUsd
<1> QED BY <1>1, <1>2

\* The total of discounts is a natural number, and counts each of them once.
LEMMA DiscountsAddUp ==
    ASSUME NEW S \in SUBSET Discount, IsFiniteSet(S), NEW base \in Nat
    PROVE  /\ DiscountsUsd(S, base) \in Nat
           /\ \A d \in S : DiscountsUsd(S, base)
                            = DiscountUsd(d, base) + DiscountsUsd(S \ {d}, base)
PROOF
<1> DEFINE w == [d \in S |-> DiscountUsd(d, base)]
           tot == [T \in SUBSET S |-> DiscountsUsd(T, base)]
<1>1. w \in [S -> Nat]
  BY DiscountNatural
<1>2. TotalsOf(tot, w, S)
  <2> SUFFICES ASSUME NEW T \in SUBSET S
               PROVE  \E h : DiscountsUsd(T, base) = h[T] /\ IsSum(h, w, T)
    BY DEF TotalsOf
  <2> DEFINE E(h) == [s \in SUBSET T |->
               IF s = {} THEN 0 ELSE DiscountUsd(CHOOSE x \in s : TRUE, base)
                                     + h[s \ {CHOOSE x \in s : TRUE}]]
  <2>1. \A h : IsSum(h, w, T) <=> h = E(h)
    BY DEF IsSum, Next1
  <2>2. DiscountsUsd(T, base) = (CHOOSE h : h = E(h))[T]
    BY DEF DiscountsUsd, MapThenSumSet, MapThenFoldSet
  <2>3. PICK g : IsSum(g, w, T)
    BY SumExists, FS_Subset
  <2> HIDE DEF E, w
  <2>4. PICK h : h = CHOOSE k : k = E(k)
    OBVIOUS
  <2>5. h = E(h)
    BY <2>1, <2>3, <2>4
  <2> QED
    BY <2>1, <2>2, <2>4, <2>5
<1>3. \A d \in S : w[d] = DiscountUsd(d, base)
  OBVIOUS
<1>4. \A T \in SUBSET S : tot[T] = DiscountsUsd(T, base)
  OBVIOUS
<1> HIDE DEF w, tot
<1>5. \A T \in SUBSET S : tot[T] \in Nat /\ \A x \in T : tot[T] = w[x] + tot[T \ {x}]
  <2>1. PICK v \in [S -> Nat] : v = w
    BY <1>1
  <2>2. PICK t : t = tot
    OBVIOUS
  <2>3. TotalsOf(t, v, S)
    BY <1>2, <2>1, <2>2
  <2>4. \A T \in SUBSET S : t[T] \in Nat /\ \A x \in T : t[T] = v[x] + t[T \ {x}]
    BY <2>3, TotalsAddUp, SMTT(30)
  <2> QED BY <2>1, <2>2, <2>4
<1>6. tot[S] \in Nat /\ \A d \in S : tot[S] = w[d] + tot[S \ {d}]
  <2>1. S \in SUBSET S
    OBVIOUS
  <2> QED BY <1>5, <2>1
<1> QED BY <1>3, <1>4, <1>6

LEMMA PaymentNatural == ASSUME NEW p \in Payment PROVE p.usd \in Nat
PROOF
<1>1. p.usd \in PaymentAmounts
  BY DEF Payment
<1> QED BY <1>1, PaymentsNatural

\* The total of payments is a natural number, and counts each of them once.
LEMMA PaymentsAddUp ==
    ASSUME NEW S \in SUBSET Payment, IsFiniteSet(S)
    PROVE  /\ PaymentsUsd(S) \in Nat
           /\ \A p \in S : PaymentsUsd(S) = p.usd + PaymentsUsd(S \ {p})
PROOF
<1> DEFINE w == [p \in S |-> p.usd]
           tot == [T \in SUBSET S |-> PaymentsUsd(T)]
<1>1. w \in [S -> Nat]
  BY PaymentNatural
<1>2. TotalsOf(tot, w, S)
  <2> SUFFICES ASSUME NEW T \in SUBSET S
               PROVE  \E h : PaymentsUsd(T) = h[T] /\ IsSum(h, w, T)
    BY DEF TotalsOf
  <2> DEFINE E(h) == [s \in SUBSET T |->
               IF s = {} THEN 0 ELSE (CHOOSE x \in s : TRUE).usd
                                     + h[s \ {CHOOSE x \in s : TRUE}]]
  <2>1. \A h : IsSum(h, w, T) <=> h = E(h)
    BY DEF IsSum, Next1
  <2>2. PaymentsUsd(T) = (CHOOSE h : h = E(h))[T]
    BY DEF PaymentsUsd, MapThenSumSet, MapThenFoldSet
  <2>3. PICK g : IsSum(g, w, T)
    BY SumExists, FS_Subset
  <2> HIDE DEF E, w
  <2>4. PICK h : h = CHOOSE k : k = E(k)
    OBVIOUS
  <2>5. h = E(h)
    BY <2>1, <2>3, <2>4
  <2> QED
    BY <2>1, <2>2, <2>4, <2>5
<1>3. \A p \in S : w[p] = p.usd
  OBVIOUS
<1>4. \A T \in SUBSET S : tot[T] = PaymentsUsd(T)
  OBVIOUS
<1> HIDE DEF w, tot
<1>5. \A T \in SUBSET S : tot[T] \in Nat /\ \A x \in T : tot[T] = w[x] + tot[T \ {x}]
  <2>1. PICK v \in [S -> Nat] : v = w
    BY <1>1
  <2>2. PICK t : t = tot
    OBVIOUS
  <2>3. TotalsOf(t, v, S)
    BY <1>2, <2>1, <2>2
  <2>4. \A T \in SUBSET S : t[T] \in Nat /\ \A x \in T : t[T] = v[x] + t[T \ {x}]
    BY <2>3, TotalsAddUp, SMTT(30)
  <2> QED BY <2>1, <2>2, <2>4
<1>6. tot[S] \in Nat /\ \A p \in S : tot[S] = w[p] + tot[S \ {p}]
  <2>1. S \in SUBSET S
    OBVIOUS
  <2> QED BY <1>5, <2>1
<1> QED BY <1>3, <1>4, <1>6

LEMMA DiscountsChange ==
    ASSUME NEW S \in SUBSET Discount, IsFiniteSet(S), NEW base \in Nat, NEW d \in Discount
    PROVE  /\ IsFiniteSet(S \cup {d}) /\ IsFiniteSet(S \ {d})
           /\ DiscountsUsd(S \cup {d}, base) <= DiscountsUsd(S, base) + DiscountUsd(d, base)
           /\ DiscountsUsd(S \ {d}, base) <= DiscountsUsd(S, base)
           /\ DiscountsUsd(S, base) \in Nat /\ DiscountsUsd(S \cup {d}, base) \in Nat
           /\ DiscountsUsd(S \ {d}, base) \in Nat /\ DiscountUsd(d, base) \in Nat
PROOF
<1>1. PICK A \in SUBSET Discount : A = S \cup {d}
  OBVIOUS
<1>2. PICK R \in SUBSET Discount : R = S \ {d}
  OBVIOUS
<1>3. IsFiniteSet(A) /\ IsFiniteSet(R)
  BY <1>1, <1>2, FS_AddElement, FS_RemoveElement
<1>4. /\ DiscountsUsd(S, base) \in Nat /\ DiscountsUsd(A, base) \in Nat
      /\ DiscountsUsd(R, base) \in Nat /\ DiscountUsd(d, base) \in Nat
  BY <1>3, DiscountsAddUp, DiscountNatural
<1>5. DiscountsUsd(A, base) = DiscountUsd(d, base) + DiscountsUsd(R, base)
  <2>1. d \in A /\ A \ {d} = R
    BY <1>1, <1>2
  <2>2. \A x \in A : DiscountsUsd(A, base) = DiscountUsd(x, base) + DiscountsUsd(A \ {x}, base)
    BY <1>3, DiscountsAddUp
  <2> QED BY <2>1, <2>2
<1>6. S = R \/ S = A
  BY <1>1, <1>2
<1> QED BY <1>1, <1>2, <1>3, <1>4, <1>5, <1>6

LEMMA PaymentsChange ==
    ASSUME NEW S \in SUBSET Payment, IsFiniteSet(S), NEW p \in Payment
    PROVE  /\ IsFiniteSet(S \cup {p}) /\ IsFiniteSet(S \ {p})
           /\ PaymentsUsd(S \cup {p}) <= PaymentsUsd(S) + p.usd
           /\ PaymentsUsd(S \ {p}) <= PaymentsUsd(S)
           /\ PaymentsUsd(S) \in Nat /\ PaymentsUsd(S \cup {p}) \in Nat
           /\ PaymentsUsd(S \ {p}) \in Nat /\ p.usd \in Nat
PROOF
<1>1. PICK A \in SUBSET Payment : A = S \cup {p}
  OBVIOUS
<1>2. PICK R \in SUBSET Payment : R = S \ {p}
  OBVIOUS
<1>3. IsFiniteSet(A) /\ IsFiniteSet(R)
  BY <1>1, <1>2, FS_AddElement, FS_RemoveElement
<1>4. /\ PaymentsUsd(S) \in Nat /\ PaymentsUsd(A) \in Nat
      /\ PaymentsUsd(R) \in Nat /\ p.usd \in Nat
  BY <1>3, PaymentsAddUp, PaymentNatural
<1>5. PaymentsUsd(A) = p.usd + PaymentsUsd(R)
  <2>1. p \in A /\ A \ {p} = R
    BY <1>1, <1>2
  <2>2. \A x \in A : PaymentsUsd(A) = x.usd + PaymentsUsd(A \ {x})
    BY <1>3, PaymentsAddUp
  <2> QED BY <2>1, <2>2
<1>6. S = R \/ S = A
  BY <1>1, <1>2
<1> QED BY <1>1, <1>2, <1>3, <1>4, <1>5, <1>6
-----------------------------------------------------------------------------
\* An account owes what is left to pay, and has been paid only while it kept
\* its plan.
MoneyOK(e) ==
    /\ IsFiniteSet(discounts[e]) /\ IsFiniteSet(payments[e])
    /\ payments[e] # {} => e \in everPaid /\ Remaining(e, price[plan[e]]) >= 0

MoneyInv == \A e \in Enrollments : MoneyOK(e)

\* A step that changes nothing of an account, or nothing but its plan while
\* it was never paid, leaves its money as it should be.
LEMMA OtherAccounts ==
    ASSUME NEW e \in Enrollments, MoneyOK(e),
           discounts'[e] = discounts[e], payments'[e] = payments[e],
           e \in everPaid => /\ e \in everPaid' /\ plan'[e] = plan[e]
                             /\ price'[plan[e]] = price[plan[e]]
    PROVE  MoneyOK(e)'
PROOF
<1>1. CASE payments[e] = {}
  BY <1>1 DEF MoneyOK
<1>2. CASE payments[e] # {}
  BY <1>2 DEF MoneyOK, Remaining, TotalDiscounts, TotalPaid
<1> QED BY <1>1, <1>2

\* What is known of an account and its plan.
LEMMA AccountFacts ==
    ASSUME Types, KeysOK, NEW e \in Enrollments, plan[e] # None
    PROVE  /\ plan[e] \in Grades /\ price[plan[e]] \in Nat /\ price[plan[e]] > 0
           /\ discounts[e] \in SUBSET Discount /\ payments[e] \in SUBSET Payment
PROOF
<1>1. /\ plan[e] \in Grades /\ price[plan[e]] \in Prices \cup {0} /\ price[plan[e]] > 0
      /\ discounts[e] \in SUBSET Discount /\ payments[e] \in SUBSET Payment
  BY DEF Types, KeysOK
<1> QED BY <1>1, PriceFacts

LEMMA MoneyStep ==
    ASSUME Types, KeysOK, KeysOK', MoneyInv, Book!Next \/ UNCHANGED Book!vars
    PROVE  MoneyInv'
PROOF
<1> SUFFICES ASSUME NEW e \in Enrollments PROVE MoneyOK(e)'
  BY DEF MoneyInv
<1>0. MoneyOK(e) /\ IsFiniteSet(discounts[e]) /\ IsFiniteSet(payments[e])
  BY DEF MoneyInv, MoneyOK
<1>1. e \in everPaid => plan[e] # None
  BY DEF KeysOK
<1>2. ASSUME NEW f \in Enrollments, Book!AddDiscount(f) PROVE MoneyOK(e)'
  <2>1. PICK d \in Discount :
          /\ DiscountsUsd(discounts[f], price[plan[f]]) + DiscountUsd(d, price[plan[f]]) <= price[plan[f]]
          /\ PaymentsUsd(payments[f]) <= price[plan[f]] - DiscountsUsd(discounts[f], price[plan[f]])
                                          - DiscountUsd(d, price[plan[f]])
          /\ discounts' = [discounts EXCEPT ![f] = discounts[f] \cup {d}]
          /\ plan[f] # None /\ UNCHANGED <<price, plan, payments, everPaid>>
    BY <1>2 DEF Book!AddDiscount
  <2>2. CASE e # f
    <3>1. discounts'[e] = discounts[e]
      BY <2>1, <2>2 DEF Types
    <3> QED BY <1>0, <2>1, <3>1, OtherAccounts
  <2>3. CASE e = f
    <3>1. PICK base \in Nat : base = price[plan[e]]
      BY <2>1, <2>3, AccountFacts
    <3>2. PICK S \in SUBSET Discount : S = discounts[e]
      BY <2>1, <2>3, AccountFacts
    <3>3. discounts'[e] = S \cup {d}
      BY <2>1, <2>3, <3>2 DEF Types
    <3>4. /\ IsFiniteSet(S \cup {d})
          /\ DiscountsUsd(S \cup {d}, base) <= DiscountsUsd(S, base) + DiscountUsd(d, base)
          /\ DiscountsUsd(S, base) \in Nat /\ DiscountsUsd(S \cup {d}, base) \in Nat
          /\ DiscountUsd(d, base) \in Nat
      BY <1>0, <3>2, DiscountsChange
    <3>5. payments[e] \in SUBSET Payment /\ PaymentsUsd(payments[e]) \in Nat
      BY <1>0, <2>1, <2>3, AccountFacts, PaymentsAddUp
    <3>6. PaymentsUsd(payments[e]) <= base - DiscountsUsd(S, base) - DiscountUsd(d, base)
      BY <2>1, <2>3, <3>1, <3>2
    <3>7. base - DiscountsUsd(S \cup {d}, base) - PaymentsUsd(payments[e]) >= 0
      BY <3>4, <3>5, <3>6
    <3>8. Remaining(e, price[plan[e]])' >= 0
      BY <2>1, <3>1, <3>3, <3>7 DEF Remaining, TotalDiscounts, TotalPaid
    <3> QED BY <1>0, <2>1, <3>3, <3>4, <3>8 DEF MoneyOK
  <2> QED BY <2>2, <2>3
<1>3. ASSUME NEW f \in Enrollments, Book!AddPayment(f) PROVE MoneyOK(e)'
  <2>1. PICK p \in Payment :
          /\ p.usd <= price[plan[f]] - DiscountsUsd(discounts[f], price[plan[f]])
                       - PaymentsUsd(payments[f])
          /\ payments' = [payments EXCEPT ![f] = payments[f] \cup {p}]
          /\ everPaid' = everPaid \cup {f}
          /\ plan[f] # None /\ UNCHANGED <<price, plan, discounts>>
    BY <1>3 DEF Book!AddPayment
  <2>2. CASE e # f
    <3>1. payments'[e] = payments[e]
      BY <2>1, <2>2 DEF Types
    <3> QED BY <1>0, <2>1, <3>1, OtherAccounts
  <2>3. CASE e = f
    <3>1. PICK base \in Nat : base = price[plan[e]]
      BY <2>1, <2>3, AccountFacts
    <3>2. PICK S \in SUBSET Payment : S = payments[e]
      BY <2>1, <2>3, AccountFacts
    <3>3. payments'[e] = S \cup {p} /\ e \in everPaid'
      BY <2>1, <2>3, <3>2 DEF Types
    <3>4. /\ IsFiniteSet(S \cup {p}) /\ PaymentsUsd(S \cup {p}) <= PaymentsUsd(S) + p.usd
          /\ PaymentsUsd(S) \in Nat /\ PaymentsUsd(S \cup {p}) \in Nat /\ p.usd \in Nat
      BY <1>0, <3>2, PaymentsChange
    <3>5. discounts[e] \in SUBSET Discount /\ DiscountsUsd(discounts[e], base) \in Nat
      BY <1>0, <2>1, <2>3, AccountFacts, DiscountsAddUp
    <3>6. p.usd <= base - DiscountsUsd(discounts[e], base) - PaymentsUsd(S)
      BY <2>1, <2>3, <3>1, <3>2
    <3>7. base - DiscountsUsd(discounts[e], base) - PaymentsUsd(S \cup {p}) >= 0
      BY <3>4, <3>5, <3>6
    <3>8. Remaining(e, price[plan[e]])' >= 0
      BY <2>1, <3>1, <3>3, <3>7 DEF Remaining, TotalDiscounts, TotalPaid
    <3> QED BY <1>0, <2>1, <3>3, <3>4, <3>8 DEF MoneyOK
  <2> QED BY <2>2, <2>3
<1>4. ASSUME NEW f \in Enrollments, Book!Cancel(f) PROVE MoneyOK(e)'
  <2>0. UNCHANGED <<price, plan, everPaid>>
    BY <1>4 DEF Book!Cancel
  <2>1. CASE \E d \in discounts[f] :
               discounts' = [discounts EXCEPT ![f] = discounts[f] \ {d}] /\ payments' = payments
    <3>1. PICK d \in discounts[f] :
            discounts' = [discounts EXCEPT ![f] = discounts[f] \ {d}] /\ payments' = payments
      BY <2>1
    <3>2. CASE e # f
      <4>1. discounts'[e] = discounts[e]
        BY <3>1, <3>2 DEF Types
      <4> QED BY <1>0, <2>0, <3>1, <4>1, OtherAccounts
    <3>3. CASE e = f
      <4>1. discounts'[e] = discounts[e] \ {d} /\ d \in Discount /\ discounts[e] \in SUBSET Discount
        BY <3>1, <3>3 DEF Types
      <4>2. IsFiniteSet(discounts'[e])
        BY <1>0, <4>1, FS_RemoveElement
      <4>3. CASE payments[e] = {}
        BY <1>0, <2>0, <3>1, <4>2, <4>3 DEF MoneyOK
      <4>4. CASE payments[e] # {}
        <5>1. e \in everPaid /\ plan[e] # None
          BY <1>0, <1>1, <4>4 DEF MoneyOK
        <5>2. PICK base \in Nat : base = price[plan[e]]
          BY <5>1, AccountFacts
        <5>3. /\ DiscountsUsd(discounts'[e], base) <= DiscountsUsd(discounts[e], base)
              /\ DiscountsUsd(discounts[e], base) \in Nat /\ DiscountsUsd(discounts'[e], base) \in Nat
          BY <1>0, <4>1, DiscountsChange
        <5>4. PaymentsUsd(payments[e]) \in Nat
          BY <1>0, <5>1, AccountFacts, PaymentsAddUp
        <5>5. base - DiscountsUsd(discounts[e], base) - PaymentsUsd(payments[e]) >= 0
          BY <1>0, <4>4, <5>2 DEF MoneyOK, Remaining, TotalDiscounts, TotalPaid
        <5>6. base - DiscountsUsd(discounts'[e], base) - PaymentsUsd(payments[e]) >= 0
          BY <5>3, <5>4, <5>5
        <5>7. Remaining(e, price[plan[e]])' >= 0
          BY <2>0, <3>1, <5>2, <5>6 DEF Remaining, TotalDiscounts, TotalPaid
        <5> QED BY <1>0, <2>0, <3>1, <4>2, <5>1, <5>7 DEF MoneyOK
      <4> QED BY <4>3, <4>4
    <3> QED BY <3>2, <3>3
  <2>2. CASE \E p \in payments[f] :
               payments' = [payments EXCEPT ![f] = payments[f] \ {p}] /\ discounts' = discounts
    <3>1. PICK p \in payments[f] :
            payments' = [payments EXCEPT ![f] = payments[f] \ {p}] /\ discounts' = discounts
      BY <2>2
    <3>2. CASE e # f
      <4>1. payments'[e] = payments[e]
        BY <3>1, <3>2 DEF Types
      <4> QED BY <1>0, <2>0, <3>1, <4>1, OtherAccounts
    <3>3. CASE e = f
      <4>1. /\ payments'[e] = payments[e] \ {p} /\ p \in Payment /\ payments[e] \in SUBSET Payment
            /\ payments[e] # {}
        BY <3>1, <3>3 DEF Types
      <4>2. e \in everPaid /\ plan[e] # None
        BY <1>0, <1>1, <4>1 DEF MoneyOK
      <4>3. PICK base \in Nat : base = price[plan[e]]
        BY <4>2, AccountFacts
      <4>4. /\ IsFiniteSet(payments'[e]) /\ PaymentsUsd(payments'[e]) <= PaymentsUsd(payments[e])
            /\ PaymentsUsd(payments[e]) \in Nat /\ PaymentsUsd(payments'[e]) \in Nat
        BY <1>0, <4>1, PaymentsChange
      <4>5. DiscountsUsd(discounts[e], base) \in Nat
        BY <1>0, <4>2, AccountFacts, DiscountsAddUp
      <4>6. base - DiscountsUsd(discounts[e], base) - PaymentsUsd(payments[e]) >= 0
        BY <1>0, <4>1, <4>3 DEF MoneyOK, Remaining, TotalDiscounts, TotalPaid
      <4>7. base - DiscountsUsd(discounts[e], base) - PaymentsUsd(payments'[e]) >= 0
        BY <4>4, <4>5, <4>6
      <4>8. Remaining(e, price[plan[e]])' >= 0
        BY <2>0, <3>1, <4>3, <4>7 DEF Remaining, TotalDiscounts, TotalPaid
      <4> QED BY <1>0, <2>0, <3>1, <4>2, <4>4, <4>8 DEF MoneyOK
    <3> QED BY <3>2, <3>3
  <2> QED BY <1>4, <2>1, <2>2 DEF Book!Cancel
<1>5. ASSUME NEW g \in Grades, Book!ChangePrice(g) PROVE MoneyOK(e)'
  <2>1. PICK new \in Prices :
          /\ \A f \in Enrollments : plan[f] = g => Book!Fits(f, new)
          /\ price' = [price EXCEPT ![g] = new]
          /\ UNCHANGED <<plan, discounts, payments, everPaid>>
    BY <1>5 DEF Book!ChangePrice
  <2>2. CASE plan[e] # g
    <3>1. price'[plan[e]] = price[plan[e]]
      BY <2>1, <2>2 DEF Types
    <3> QED BY <1>0, <2>1, <3>1, OtherAccounts
  <2>3. CASE plan[e] = g
    <3>1. new \in Nat /\ g \in Grades /\ None \notin Grades
      BY PriceFacts, LedgerAssumption
    <3>2. /\ discounts[e] \in SUBSET Discount /\ payments[e] \in SUBSET Payment
          /\ price'[plan[e]] = new
      BY <2>1, <2>3 DEF Types
    <3>3. DiscountsUsd(discounts[e], new) \in Nat /\ PaymentsUsd(payments[e]) \in Nat
      BY <1>0, <3>1, <3>2, DiscountsAddUp, PaymentsAddUp
    <3>4. PaymentsUsd(payments[e]) <= new - DiscountsUsd(discounts[e], new)
      BY <2>1, <2>3 DEF Book!Fits
    <3>5. new - DiscountsUsd(discounts[e], new) - PaymentsUsd(payments[e]) >= 0
      BY <3>1, <3>3, <3>4
    <3>6. Remaining(e, price[plan[e]])' >= 0
      BY <2>1, <3>2, <3>5 DEF Remaining, TotalDiscounts, TotalPaid
    <3> QED BY <1>0, <2>1, <3>6 DEF MoneyOK
  <2> QED BY <2>2, <2>3
<1>6. ASSUME NEW g \in Grades, Book!CreatePlan(g) PROVE MoneyOK(e)'
  <2>1. /\ price[g] = 0 /\ UNCHANGED <<discounts, payments, everPaid>>
        /\ \E base \in Prices : price' = [price EXCEPT ![g] = base]
        /\ \E S \in SUBSET {f \in Enrollments : plan[f] = None} :
              plan' = [f \in Enrollments |-> IF f \in S THEN g ELSE plan[f]]
    BY <1>6 DEF Book!CreatePlan
  <2>2. plan[e] # None => plan'[e] = plan[e] /\ price'[plan[e]] = price[plan[e]]
    <3> SUFFICES ASSUME plan[e] # None PROVE plan'[e] = plan[e] /\ price'[plan[e]] = price[plan[e]]
      OBVIOUS
    <3>1. plan[e] # g
      BY <2>1, AccountFacts
    <3>2. plan'[e] = plan[e]
      BY <2>1
    <3> QED BY <2>1, <3>1, <3>2 DEF Types
  <2> QED BY <1>0, <1>1, <2>1, <2>2, OtherAccounts
<1>7. ASSUME NEW f \in Enrollments, NEW g \in Grades, Book!OpenAccount(f, g) \/ Book!MoveAccount(f, g)
      PROVE  MoneyOK(e)'
  <2>1. /\ plan' = [plan EXCEPT ![f] = g] /\ UNCHANGED <<price, discounts, payments, everPaid>>
        /\ plan[f] = None \/ f \notin everPaid
    BY <1>7 DEF Book!OpenAccount, Book!MoveAccount
  <2>2. e \in everPaid => plan'[e] = plan[e]
    BY <1>1, <2>1 DEF Types
  <2> QED BY <1>0, <2>1, <2>2, OtherAccounts
<1>8. CASE UNCHANGED Book!vars
  BY <1>0, <1>8, OtherAccounts DEF Book!vars
<1> QED BY <1>2, <1>3, <1>4, <1>5, <1>6, <1>7, <1>8 DEF Book!Next

LEMMA MoneyInvariance == Spec => [](LedgerInv /\ MoneyInv)
PROOF
<1>1. Init => MoneyInv
  <2> SUFFICES ASSUME Init, NEW e \in Enrollments PROVE MoneyOK(e)
    BY DEF MoneyInv
  <2>1. discounts[e] = {} /\ payments[e] = {}
    BY DEF Init
  <2> QED BY <2>1, FS_EmptySet DEF MoneyOK
<1>2. LedgerInv /\ MoneyInv /\ [Next]_vars => MoneyInv'
  <2> SUFFICES ASSUME LedgerInv, MoneyInv, [Next]_vars PROVE MoneyInv'
    OBVIOUS
  <2>1. Book!Next \/ UNCHANGED Book!vars
    BY BookStep
  <2>2. KeysOK'
    BY NextPreserves DEF LedgerInv
  <2> QED BY <2>1, <2>2, MoneyStep DEF LedgerInv
<1> QED BY <1>1, <1>2, Invariance, PTL DEF Spec

\* Nobody has paid more than the tuition after discounts, whatever payments,
\* discounts, cancellations, price changes and corrections run at the same
\* time (finance/services.py, record_payment and update_tuition_plan_price).
THEOREM NobodyOverpays == Spec => []NeverOverpaid
PROOF
<1>1. MoneyInv => NeverOverpaid
  BY DEF MoneyInv, MoneyOK, NeverOverpaid
<1> QED BY <1>1, MoneyInvariance, PTL

\* Only moving an account to another plan pushes its discounts over the price
\* (correct_enrollment_placement); no discount, price change or race does.
THEOREM OnlyMovesExceed == Spec => OnlyMovesOverdiscount
PROOF
<1>1. LedgerInv /\ MoneyInv /\ [Next]_vars =>
        [\A e \in Enrollments :
            Overdiscounted(e)' /\ ~Overdiscounted(e) => plan'[e] # plan[e]]_vars
  <2> SUFFICES ASSUME LedgerInv, MoneyInv, [Next]_vars, NEW e \in Enrollments,
                      Overdiscounted(e)', ~Overdiscounted(e), plan'[e] = plan[e]
               PROVE  FALSE
    OBVIOUS
  <2>0. Types /\ KeysOK /\ plan[e] # None /\ IsFiniteSet(discounts[e])
    BY DEF LedgerInv, MoneyInv, MoneyOK, Overdiscounted
  <2>1. /\ plan[e] \in Grades /\ price[plan[e]] > 0 /\ discounts[e] \in SUBSET Discount
        /\ price[plan[e]] \in Nat
    BY <2>0, AccountFacts
  <2>2. PICK base \in Nat : base = price[plan[e]]
    BY <2>1
  <2>3. PICK S \in SUBSET Discount : S = discounts[e] /\ IsFiniteSet(S)
    BY <2>0, <2>1
  <2>4. ~(DiscountsUsd(S, base) > base)
    BY <2>0, <2>2, <2>3 DEF Overdiscounted, TotalDiscounts
  <2>5. DiscountsUsd(discounts'[e], price'[plan[e]]) > price'[plan[e]]
    BY DEF Overdiscounted, TotalDiscounts
  <2>6. ~(discounts'[e] = S /\ price'[plan[e]] = base)
    BY <2>4, <2>5
  <2>7. ASSUME NEW f \in Enrollments, Book!AddDiscount(f) PROVE FALSE
    <3>1. PICK d \in Discount :
            /\ DiscountsUsd(discounts[f], price[plan[f]]) + DiscountUsd(d, price[plan[f]]) <= price[plan[f]]
            /\ discounts' = [discounts EXCEPT ![f] = discounts[f] \cup {d}]
            /\ price' = price
      BY <2>7 DEF Book!AddDiscount
    <3>2. e = f
      BY <2>0, <2>2, <2>3, <2>6, <3>1 DEF Types
    <3>3. discounts'[e] = S \cup {d}
      BY <2>0, <2>3, <3>1, <3>2 DEF Types
    <3>4. /\ DiscountsUsd(S \cup {d}, base) <= DiscountsUsd(S, base) + DiscountUsd(d, base)
          /\ DiscountsUsd(S, base) \in Nat /\ DiscountsUsd(S \cup {d}, base) \in Nat
          /\ DiscountUsd(d, base) \in Nat
      BY <2>3, DiscountsChange
    <3>5. DiscountsUsd(S, base) + DiscountUsd(d, base) <= base
      BY <2>2, <2>3, <3>1, <3>2
    <3>6. DiscountsUsd(S \cup {d}, base) > base
      BY <2>2, <2>5, <3>1, <3>3
    <3> QED BY <3>4, <3>5, <3>6
  <2>8. ASSUME NEW f \in Enrollments, Book!Cancel(f) PROVE FALSE
    <3>1. PICK d \in discounts[f] :
            discounts' = [discounts EXCEPT ![f] = discounts[f] \ {d}] /\ price' = price
      BY <2>2, <2>3, <2>6, <2>8 DEF Book!Cancel
    <3>2. e = f
      BY <2>0, <2>2, <2>3, <2>6, <3>1 DEF Types
    <3>3. discounts'[e] = S \ {d} /\ d \in Discount
      BY <2>0, <2>3, <3>1, <3>2 DEF Types
    <3>4. /\ DiscountsUsd(S \ {d}, base) <= DiscountsUsd(S, base)
          /\ DiscountsUsd(S, base) \in Nat /\ DiscountsUsd(S \ {d}, base) \in Nat
      BY <2>3, <3>3, DiscountsChange
    <3>5. DiscountsUsd(S \ {d}, base) > base
      BY <2>2, <2>5, <3>1, <3>3
    <3> QED BY <2>4, <3>4, <3>5
  <2>9. ASSUME NEW g \in Grades, Book!ChangePrice(g) PROVE FALSE
    <3>1. PICK new \in Prices :
            /\ \A f \in Enrollments : plan[f] = g => Book!Fits(f, new)
            /\ price' = [price EXCEPT ![g] = new] /\ discounts' = discounts
      BY <2>9 DEF Book!ChangePrice
    <3>2. plan[e] = g
      BY <2>0, <2>1, <2>2, <2>3, <2>6, <3>1 DEF Types
    <3>3. price'[plan[e]] = new /\ new \in Nat
      BY <2>0, <3>1, <3>2, PriceFacts DEF Types
    <3>4. DiscountsUsd(S, new) <= new /\ DiscountsUsd(S, new) \in Nat
      BY <2>3, <3>1, <3>2, <3>3, DiscountsAddUp DEF Book!Fits
    <3>5. DiscountsUsd(S, new) > new
      BY <2>3, <2>5, <3>1, <3>3
    <3> QED BY <3>3, <3>4, <3>5
  <2>10. ASSUME NEW g \in Grades, Book!CreatePlan(g) PROVE FALSE
    <3>1. /\ price[g] = 0 /\ discounts' = discounts
          /\ \E new \in Prices : price' = [price EXCEPT ![g] = new]
      BY <2>10 DEF Book!CreatePlan
    <3>2. plan[e] # g
      BY <2>1, <3>1
    <3> QED BY <2>0, <2>1, <2>2, <2>3, <2>6, <3>1, <3>2 DEF Types
  <2>11. ASSUME \/ \E f \in Enrollments : Book!AddPayment(f)
                \/ \E f \in Enrollments, g \in Grades : Book!OpenAccount(f, g) \/ Book!MoveAccount(f, g)
                \/ UNCHANGED Book!vars
         PROVE  FALSE
    <3>1. discounts' = discounts /\ price' = price
      BY <2>11 DEF Book!AddPayment, Book!OpenAccount, Book!MoveAccount, Book!vars
    <3> QED BY <2>2, <2>3, <2>6, <3>1
  <2>12. Book!Next \/ UNCHANGED Book!vars
    BY BookStep
  <2> QED BY <2>7, <2>8, <2>9, <2>10, <2>11, <2>12 DEF Book!Next
<1> QED BY <1>1, MoneyInvariance, PTL DEF Spec, OnlyMovesOverdiscount
=============================================================================
