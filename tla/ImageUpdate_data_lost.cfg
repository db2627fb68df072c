SPECIFICATION Spec
CONSTANTS
  s1 = s1  s2 = s2  A = A  B = B
  Images = {A}
  Servers = {s1}
  ServerList <- OneServer
  ImgSize = 4
  Capacity = 14
  PublishAnytime = FALSE
  MaxPublish = 1
  MaxAssign = 1
  MaxChange = 1
  MaxFault = 1
INVARIANT DataRestored
