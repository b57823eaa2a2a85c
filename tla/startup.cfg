SPECIFICATION StartupSpec
CONSTANTS
  i1 = i1  i2 = i2  r1 = r1
  Instances = {i1, i2}
  Requests = {r1}
INVARIANTS StartupTypeOK ReadyIsTrue RacesLeaveAWinner
PROPERTIES SchemaCompletes StopsEnd
