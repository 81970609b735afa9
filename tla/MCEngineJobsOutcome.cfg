SPECIFICATION MCSpec
CONSTANTS
  j1 = j1
  j2 = j2
  lane = lane
  d1 = d1
  d2 = d2
  hook = hook
  Jobs = {j1, j2, d1, d2}
  Lanes = {lane, hook}
  LanesOf <- MCLanesOf
  SessionJobs = {j2}
  Effects = {1, 2}
  None = None
  MaxQueue = 2
  MaxFence = 3
  MaxFaults = 1
  MaxCrashes = 1
  Deliveries = {d1, d2}
  Tests = {d2}
  Subscriptions = {hook}
  SubscriptionOf <- MCSubscriptionOf
  MaxAttempts = 2
PROPERTIES
  OneTerminalOutcome
CHECK_DEADLOCK FALSE
