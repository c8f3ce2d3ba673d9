CONSTANTS
  Gateways = {g}
  Doctors = {d}
  Readers = {}
  Setups = {p}
  Cleaners = {x}
  Rotates = TRUE
  MaxTokens = 2
  MaxFaults = 1
  Nothing = Nothing
SPECIFICATION FairSpec
INVARIANTS TypeOK GrantIsKept
PROPERTIES NewerStays GatewayIsServed
CHECK_DEADLOCK FALSE
