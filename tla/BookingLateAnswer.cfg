\* One device: the table of another day offers a time it has booked itself.
SPECIFICATION Spec
CONSTANTS
  Clients = {c1}
  Masters = {m1}
  Times = {t1}
  LastDay = 2
  MonthOf <- SameMonth
  Ids = {i1, i2}
  MaxQueries = 2
  NoValue = NoValue
INVARIANTS
  NoDoubleBooking
