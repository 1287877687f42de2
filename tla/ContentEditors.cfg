\* The editors of discounts, masters and services, one kind at a time.
SPECIFICATION Spec
CONSTANTS
  Kinds = {"discont", "master", "service"}
  Names = {n1, n2}
  Ids = {i1, i2, i3}
  MaxUploads = 2
  MaxRemovals = 2
  NoId = NoId
  NoName = NoName
SYMMETRY EditorSymmetry
INVARIANTS
  TypeOK
  
  
  
