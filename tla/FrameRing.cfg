CONSTANTS
  MaxFrame = 4
  MaxRestyle = 1
  MayUncap = TRUE
SPECIFICATION Spec
INVARIANTS IndexPermutation NoTornPicture
PROPERTIES PresentIsFresh ShownInOrder  ImplementsLatestFrame
CHECK_DEADLOCK FALSE
