CONSTANTS
  None = None
  Hours <- MCHours
  Calendar <- MCCalendar
  Zones = {22, 23}
  Quiet <- MCQuiet
  Horizon = 16
  MaxTaken = 1
  Prices = {60, 90, 100}
  Months = {2, 5, 9, 20}
  Messages = 6
  Inventory <- MCInventory
  MAX_ROWS = 2
  Files <- MCFiles
SPECIFICATION Spec
INVARIANT TimesHold
INVARIANT NothingDropped
PROPERTY ScoreNeverFalls
CHECK_DEADLOCK FALSE
