SPECIFICATION Spec
CONSTANTS
  Opening <- MCOpening
  Paychecks = {3}
  RentAmount = 3
  Amounts = {1, 2}
  Losses = {1}
  Buffer = 1
  Round = 2
  Count = 7
  MaxDeclines = 1
  MaxSkips = 1
INVARIANTS OnlyUnfittedEventsOverdraw CardNotOverpaid
CHECK_DEADLOCK FALSE
