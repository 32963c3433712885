SPECIFICATION Spec
CONSTANTS
  s1 = s1
  s2 = s2
  whole = whole
  part = part
  Pages <- EachGraph
  Labels = {s1, s2}
  Controllers = {}
  Ranges = {part}
  Full = whole
  MaxCopies = 1
SYMMETRY Symmetry
INVARIANTS TypeOK TimesShiftedOnce LegendTellsPlot ZoomIsSelection OpenIsDrawn
