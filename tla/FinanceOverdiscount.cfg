SPECIFICATION Spec
CONSTANTS
  e1 = e1
  e2 = e2
  g1 = g1
  g2 = g2
  Grades = {g1, g2}
  None = None
  Requests = {r1, r2}
  Nobody = Nobody
  Enrollments = {e1}
  Operations = {"discount", "correct"}
  DiscountIds = {d1, d2}
  PaymentIds = {p1, p2}
  Prices = {3, 5}
  Percentages = {5000}
  FixedAmounts = {2, 4}
  PaymentAmounts = {2}
  Notified = {e1}
  FirstGrade <- AllInFirst
  FirstPrice <- TwoPlans
SYMMETRY Interchangeable
INVARIANT DiscountsWithinPrice
