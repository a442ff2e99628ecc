CONSTANTS
  NotANumber = NotANumber
  NoFile = NoFile
  NoConfiguration = NoConfiguration
  Configurations <- MCConfigurations
  Typed <- MCTyped
  Quanta = {5}
  Speeds = {1}
  MaxMishaps = 1
SPECIFICATION Spec
INVARIANTS
  RoundTrip
