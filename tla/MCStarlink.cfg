SPECIFICATION Spec
CONSTANTS
  CacheTTL = 3
  SameWindow = 1
  Minute = 2
  Hour = 4
  RawRetention = 4
  RawMax = 2
  MinuteRetention = 4
  MergeWindow = 4
  MaxEvents = 2
  ProviderTTL = 4
  DishStates <- MCDishStates
  None = None
  Unreadable = Unreadable
  MaxTime = 5
  MaxReboots = 1
  MaxFaults = 1
INVARIANTS
  ChartsInOrder
  HourlyIsExact
  WeekSurvives
  EventsAreMerged
  FreshAfterReboot
CHECK_DEADLOCK FALSE
