SPECIFICATION Spec
CONSTANT Settings <- MCSettings
CHECK_DEADLOCK FALSE
INVARIANT ServingIsHealthy
