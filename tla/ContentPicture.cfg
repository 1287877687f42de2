\* A master is changed without a new name.
SPECIFICATION Spec
CONSTANTS
  Kinds = {"master"}
  Names = {n1}
  Ids = {i1}
  MaxUploads = 1
  MaxRemovals = 1
  NoId = NoId
  NoName = NoName
INVARIANTS
  PictureKept
