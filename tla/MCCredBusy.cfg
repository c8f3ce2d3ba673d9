CONSTANTS
  Gateways = {g}
  Doctors = {d}
  Readers = {r}
  Setups = {p}
  Cleaners = {x}
  Rotates = TRUE
  MaxTokens = 2
  MaxFaults = 0
  Nothing = Nothing
SPECIFICATION Spec
INVARIANT BusyIsHarmless
CHECK_DEADLOCK FALSE
