SPECIFICATION PSpec
CONSTANTS
  u1 = u1  f1 = f1  d1 = d1  pg1 = pg1  n1 = n1  r1 = r1
  v1 = v1  NULL = NULL
  Users = {u1}
  FolderIds = {f1}
  DocIds = {}
  PageIds = {}
  Names = {n1}
  Files = {}
  Images = {}
  Blanks = {}
  Requests = {}
  ClientTimes <- MCClientTimes
  Epoch = 2
  MaxClock = 5
  TicksPerSec = 2
  Devices = {v1}
  DeviceUser <- MCDeviceUser
INVARIANT TombstonesPropagate
