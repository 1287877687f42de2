\* Cancelling ends the app before the deletion is safe.
SPECIFICATION FairSpec
CONSTANTS
  Clients = {c1}
  Masters = {m1}
  Times = {t1}
  LastDay = 1
  MonthOf <- OneDay
  Ids = {i1}
  MaxQueries = 1
  NoValue = NoValue
PROPERTIES
  CancelFreesTime
