SPECIFICATION HSpec
CONSTANTS
  u1 = u1  f1 = f1  d1 = d1  pg1 = pg1  n1 = n1  n2 = n2
  file1 = file1  r1 = r1  r2 = r2  NULL = NULL
  Users = {u1}
  FolderIds = {f1}
  DocIds = {d1}
  PageIds = {}
  Names = {n1}
  Files = {file1}
  Images = {}
  Blanks = {}
  Requests = {r1, r2}
  ClientTimes = {}
  Epoch = 2
  MaxClock = 3
PROPERTY DocumentsResolve
