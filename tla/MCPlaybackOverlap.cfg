SPECIFICATION Spec
CONSTANTS
  MaxStarts = 2
  Overlaps = TRUE
  Races = FALSE
  Loudest = 3
  Choices <- MCChoices
INVARIANT
  SoleUser
