\* Three kernels of one stream in the window.
CONSTANTS
  m = m
  s = s
  t = t
  u = u
  Memcpy = m
  Streams = {s, t, u}
  Jobs <- SameStream
  Names = {"a", "b"}
  Programs <- NoPrograms
  ChannelSize = 2
  JobLimit = 1
  MaxCommands = 1
  Users <- NoUsers
SPECIFICATION Spec
INVARIANTS
  OnlyFinishedFreed
CHECK_DEADLOCK FALSE
