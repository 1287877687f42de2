\* Each of the four collections, with two documents.
SPECIFICATION FairSpec
CONSTANTS
  Collections = {"disconts", "categoryService", "masters", "services"}
  Docs = {d1, d2}
  MaxVersion = 2
  MaxSyncs = 2
  MaxCopies = 2
INVARIANTS
  TypeOK
  NeverAhead
PROPERTIES
  LiveRowsKept
  MirrorSpec
  EventuallyMirrored
