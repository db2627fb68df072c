SPECIFICATION Spec
CONSTANTS
  s1 = s1  s2 = s2  A = A  B = B
  Images = {A, B}
  Servers = {s1, s2}
  ServerList <- TwoServers
  ImgSize = 4
  Capacity = 14
  PublishAnytime = TRUE
  MaxPublish = 1
  MaxAssign = 1
  MaxChange = 2
  MaxFault = 2
INVARIANTS TypeOK BackupBeforeRemoval DataRestoredIfNoFault OneImageOnDisk
