\* The app dies before the acknowledgement.
SPECIFICATION Spec
CONSTANTS
  Clients = {c1}
  Masters = {m1}
  Times = {t1}
  LastDay = 1
  MonthOf <- OneDay
  Ids = {i1}
  MaxQueries = 1
  NoValue = NoValue
INVARIANTS
  BookedIsListed
