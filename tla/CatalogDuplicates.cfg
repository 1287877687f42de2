\* Two syncs that overlap write the same discount twice.
SPECIFICATION Spec
CONSTANTS
  Collections = {"disconts"}
  Docs = {d1}
  MaxVersion = 1
  MaxSyncs = 2
  MaxCopies = 2
INVARIANTS
  OneRowPerDocument
