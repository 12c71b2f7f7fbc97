SPECIFICATION Spec
CONSTANTS
  t1 = t1
  t2 = t2
  t3 = t3
  j1 = j1
  m1 = m1
  m2 = m2
  o1 = o1
  o2 = o2
  None = None
  Tasks = {t1, t2, t3}
  Jobs = {j1}
  Machines = {m1, m2}
  Operators = {o1, o2}
  Offers <- SomeDay
  Minute = 2
  DayLength = 8
  BusinessStart = 1
  LunchStart = 4
  LunchEnd = 5
  BusinessEnd = 6
SYMMETRY Alike
INVARIANTS PublishedNoDoubleBooking ConflictCheckExact BoundsCover
           PublishedInWorkingTime
PROPERTIES ImplementsPublishedPlan
