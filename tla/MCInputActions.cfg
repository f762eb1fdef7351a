SPECIFICATION Spec
CONSTANTS
  Desktop <- MCDesktop
  Points <- MCPoints
  Buttons <- MCButtons
  Modifiers <- MCModifiers
  ModifierOf <- MCModifierOf
  KeyOf <- MCKeyOf
  Unsupported <- MCUnsupported
  Chords <- MCChords
  Steps = 12
  MaxScroll = 3
  Scrolls <- MCScrolls
  MaxFaults = 2
  MaxActions = 3
CHECK_DEADLOCK FALSE
INVARIANT TypeOK
INVARIANT ValidatedFirst
INVARIANT DragReleases
INVARIANT KeyWithItsModifiers
INVARIANT NoKeyStaysDown
PROPERTY OkMeansAll
