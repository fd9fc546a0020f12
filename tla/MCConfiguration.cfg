\* Two numbers, one disturbance of the folder, every kind of host, two launches.
SPECIFICATION Spec
CONSTANTS
  MaxNumber = 1
  MaxDisturbances = 1
  Contents <- SomeContents
  Hosts <- SomeHosts
  MaxAttempts = 2
INVARIANTS
  TypeOK
  LimitsFollowConfiguration
  LimitsWithinBounds
  
