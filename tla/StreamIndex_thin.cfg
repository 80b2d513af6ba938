SPECIFICATION Spec
CONSTANTS
  MaxBlock = 4
  Sizes = {1, 4}
  MaxEntries = 4
  MinDist = 4
  FewEntries = 0
  Starts <- BothStarts
  MaxTotal = 10
INVARIANTS IndexSound SeekCost LoadsBack
