SPECIFICATION Spec
CONSTANTS
  Part = 2
  Reach = 6
  Monitors <- TwoMonitors
  Layouts <- Desktops
  Spots <- Ends
  Setups <- AllSetups
  MaxChanges = 2
CHECK_DEADLOCK FALSE
INVARIANT PixelOnItsDisplay
INVARIANT AcceptedByInput
INVARIANT ThereAndBack
INVARIANT FitsAndStays
INVARIANT ShowsWhatItSays
INVARIANT LandsOnWhatItShows
