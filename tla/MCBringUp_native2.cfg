SPECIFICATION Spec
CONSTANTS
  MaxAttempts = 10
  Threshold = 2
  MaxRetries = 1
  MaxPending = 3
PROPERTIES TimeoutsRecover
