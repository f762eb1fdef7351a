SPECIFICATION Spec
CONSTANTS
  c1 = c1
  c2 = c2
  c3 = c3
  left = left
  right = right
  Calls <- ThreeCalls
  Targets <- AllOrOne
  Sizes = {"given", "default"}
  MaxEdge = "default"
  MaxAhead = 3
  MaxLayouts = 1
CHECK_DEADLOCK FALSE
SYMMETRY Symmetry
INVARIANT TypeOK
INVARIANT DragInOneImage
INVARIANT PixelsOfTheImageSeen
PROPERTY AsIfAlone
