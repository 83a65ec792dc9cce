SPECIFICATION Spec
CONSTANTS
  MaxStarts = 2
  Overlaps = FALSE
  Races = FALSE
  Loudest = 3
  Choices <- MCChoices
INVARIANTS
  TypeOK
  MicrophoneHasHandle
  PauseIsKept
  PlaysWhatWasChosen
  VolumeGivenBack
  NothingKept
PROPERTIES
  SessionsGivenBack
  MicrophoneCloses
