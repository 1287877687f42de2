\* One device, three days of two months, late answers and scrolling.
SPECIFICATION Spec
CONSTANTS
  Clients = {c1}
  Masters = {m1}
  Times = {t1, t2}
  LastDay = 3
  MonthOf <- TwoAndOne
  Ids = {i1}
  MaxQueries = 2
  NoValue = NoValue
SYMMETRY BookingSymmetry
INVARIANTS
  TypeOK
  ListedIsBooked
  HeardTimesClosed
  OwnTimesClosed
