----------------------------- MODULE MCFrontEnd ------------------------------
(***************************************************************************)
(* The tracer, the simulator loop that replays what it wrote, and the job  *)
(* launcher that starts simulations, for TLC. They are programs of their   *)
(* own that share no state: a behaviour traces one of the programs, or     *)
(* simulates one of the jobs, or follows one of the users of the launcher, *)
(* while the others have nothing to do.                                    *)
(***************************************************************************)
EXTENDS KernelWindow, TracerChannel, ProcMan

CONSTANTS m, s, t, u  \* a memcpy and three streams

Job(commands, size, slots, limits) ==
  [commands |-> commands, size |-> size, slots |-> slots, limits |-> limits]

NoJob      == Job(<<>>, 1, 1, FALSE)
Concurrent == <<m, s, t, s, m, u, t, s>>
OneByOne   == <<m, s, s, m, t, s, m, t, t, u, s>>

\* A window of three with and without limits, one of two, and one where a
\* kernel is dropped while another one of its stream has finished.
SomeJobs == {NoJob, Job(Concurrent, 3, 2, TRUE), Job(Concurrent, 3, 3, FALSE),
             Job(OneByOne, 2, 2, FALSE), Job(<<s, t, t, t, t>>, 3, 2, FALSE)}

\* Three kernels of one stream in the window; a copy behind the last kernel.
SameStream == {Job(<<s, s, s>>, 3, 3, FALSE)}
CopyAtEnd  == {Job(<<s, m>>, 1, 1, FALSE)}
NoJobs     == {}

-----------------------------------------------------------------------------
Select(start, end, names) == [start |-> start, end |-> end, names |-> names]

Traced(ranges, fromStart, terminate, kinds, n, records) ==
  [ranges |-> ranges, fromStart |-> fromStart, terminate |-> terminate,
   kinds |-> kinds, calls |-> n, records |-> records]

All       == {Select(0, 0, Names)}
NoProgram == Traced(All, TRUE, FALSE, {}, 0, 0)

\* The ranges "2 4-5" ended behind the last, regions marked by profiler calls,
\* and a graph of one kernel that is launched once.
SomePrograms ==
  {NoProgram,
   Traced({Select(2, 2, Names), Select(4, 5, Names)}, TRUE, TRUE, {"launch"}, 6, 3),
   Traced(All, FALSE, FALSE, {"launch", "profiler"}, 5, 3),
   Traced(All, TRUE, FALSE, {"graph"}, 2, 8)}

\* "1-3@a"; a graph that is captured and launched, and other kernels.
Filtered   == {Traced({Select(1, 3, {"a"})}, TRUE, FALSE, {"launch"}, 3, 1)}
Graphs     == {Traced(All, TRUE, FALSE, {"launch", "graph"}, 4, 2)}
NoPrograms == {NoProgram}

-----------------------------------------------------------------------------
User(waits, n, kills) == [waits |-> waits, commands |-> n, crashes |-> kills]
NoUser == User("all", 0, 0)

\* One who waits until no manager is left, and one who only waits until the
\* file of the last -S is taken, so that managers work side by side and one
\* of them may be killed.
SomeUsers == {NoUser, User("all", 5, 0), User("taken", 4, 1)}

\* One who waits for every manager, one who waits for the commands only.
Careful == {User("all", 4, 0)}
Hasty   == {User("command", 4, 0)}
NoUsers == {NoUser}

\* The simulator when it has come to its end without a job.
WindowRests ==
  /\ job = NoJob /\ at = "end" /\ index = 0 /\ window = {} /\ launched = {} /\ busy = {}
  /\ running = {} /\ finished = <<>> /\ memory = FALSE /\ limit = FALSE
  /\ freed = {} /\ ran = {}

Init ==
  /\ TracerInit /\ ProcInit
  /\ \/ WindowInit /\ job # NoJob /\ program = NoProgram /\ user = NoUser
     \/ WindowRests /\ (program = NoProgram) # (user = NoUser)

vars == <<windowVars, tracerVars, procVars>>

Next == \/ WindowNext /\ UNCHANGED <<tracerVars, procVars>>
        \/ TracerNext /\ UNCHANGED <<windowVars, procVars>>
        \/ ProcNext   /\ UNCHANGED <<windowVars, tracerVars>>

Spec     == Init /\ [][Next]_vars
FairSpec == Spec /\ WindowFairness /\ TracerFairness /\ ProcFairness
=============================================================================
