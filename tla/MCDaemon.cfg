SPECIFICATION Spec
CONSTANTS
  r1 = r1
  r2 = r2
  Reqs <- TwoReqs
  Callers <- MCCallers
  Allow <- MCAllow
  Calls <- AllCalls
  MaxStarts = 2
  MaxPanics = 1
CHECK_DEADLOCK FALSE
SYMMETRY Symmetry2
INVARIANT EffectsAuthorised
INVARIANT OneTrueLine
INVARIANT DenialsUnderstood
PROPERTY TraitKept
INVARIANT InputInOrder
PROPERTY NoLateInput
