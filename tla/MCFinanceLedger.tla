--------------------------- MODULE MCFinanceLedger ---------------------------
(* Small instances of FinanceLedger for TLC.                               *)
EXTENDS FinanceLedger, TLC

CONSTANTS e1, e2, g1, g2

\* All enrolled in the first grade; nobody enrolled yet.
AllInFirst == [e \in Enrollments |-> g1]
OneInFirst == [e \in Enrollments |-> IF e = e1 THEN g1 ELSE None]

\* Both plans exist, of different prices; no plan exists yet.
TwoPlans == [g \in Grades |-> IF g = g1 THEN 5 ELSE 3]
NoPlans == [g \in Grades |-> 0]

Interchangeable == Permutations(Requests) \cup Permutations(DiscountIds) \cup Permutations(PaymentIds)
=============================================================================
