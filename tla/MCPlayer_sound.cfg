SPECIFICATION Spec
CONSTANTS
  Teachings = {psalms, romans}
  Nothing = Nothing
  MaxPlace = 1
  MaxAsked = 1
  MaxEvents = 2
INVARIANTS TypeOK SoundIsWanted PlaceSurvives
PROPERTIES PressIsHonoured
CHECK_DEADLOCK FALSE
