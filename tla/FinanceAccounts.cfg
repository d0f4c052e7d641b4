SPECIFICATION FairSpec
CONSTANTS
  e1 = e1
  e2 = e2
  g1 = g1
  g2 = g2
  Grades = {g1, g2}
  None = None
  Requests = {r1, r2}
  Nobody = Nobody
  Enrollments = {e1, e2}
  Operations = {"plan", "enroll", "price", "correct", "payment"}
  DiscountIds = {d1}
  PaymentIds = {p1}
  Prices = {3}
  Percentages = {5000}
  FixedAmounts = {2}
  PaymentAmounts = {2}
  Notified = {e1}
  FirstGrade <- OneInFirst
  FirstPrice <- NoPlans
INVARIANT TypeOK
PROPERTY RequestsEnd
