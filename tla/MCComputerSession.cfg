CONSTANTS
  a1 = a1
  lifetime = lifetime
  noAction = noAction
  Actions = {a1}
  NoAction = noAction
  Lifetime = lifetime
  MaxFence = 2
  MaxGeneration = 2
  MaxEvents = 1
SPECIFICATION SessionSpec
INVARIANTS SessionTypeOK OutcomesAreAccounted PauseIsShared
PROPERTIES InputIsFenced StopIsProved RequestsAreAnswered
CHECK_DEADLOCK FALSE
