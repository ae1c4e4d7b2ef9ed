\* Windows of three and of two, with and without limits; the tracer with
\* ranges, with profiler calls and with a graph; the job launcher with two jobs
\* at once, five commands, one crash.
CONSTANTS
  m = m
  s = s
  t = t
  u = u
  Memcpy = m
  Streams = {s, t, u}
  Jobs <- SomeJobs
  Names = {"a", "b"}
  Programs <- SomePrograms
  ChannelSize = 2
  JobLimit = 2
  MaxCommands = 5
  Users <- SomeUsers
SPECIFICATION FairSpec
INVARIANTS
  WindowInv
  TracerInv
  LauncherInv
PROPERTIES
  WindowEnds
  
  
  AllRun
CHECK_DEADLOCK FALSE
