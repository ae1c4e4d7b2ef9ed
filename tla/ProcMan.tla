------------------------------- MODULE ProcMan --------------------------------
(***************************************************************************)
(* The job launcher procman.py: the commands a user gives it and the       *)
(* managers they spawn are processes that meet in pickle files, which are  *)
(* truncated, then written, and read and removed without a lock.           *)
(*                                                                         *)
(* A job is known by the number of the command that submitted it and a     *)
(* manager by the number of the -S that spawned it; each has a file. The   *)
(* numbers the code gives to jobs, the completed jobs it keeps for         *)
(* printing and the options -c, -k, -j are left out; two -S never overlap. *)
(***************************************************************************)
EXTENDS Integers, Sequences, SequencesExt, FiniteSets, FiniteSetsExt

CONSTANTS
  JobLimit,    \* jobLimit
  MaxCommands, \* bound: commands of the user
  Users        \* the users, one of which works with procman:
               \*   waits    when the next command is given, see MayIssue
               \*   commands bound: commands given
               \*   crashes  bound: managers killed from outside

ASSUME ProcManAssumption ==
  /\ JobLimit \in Nat \ {0} /\ MaxCommands \in Nat
  /\ \A u \in Users : /\ u.waits \in {"none", "command", "taken", "all"}
                      /\ u.commands \in 0 .. MaxCommands /\ u.crashes \in Nat

CommandIds == 1 .. MaxCommands
Main == 0   \* procManStateFile
Tmp  == -1  \* procManStateFile.tmp; procManStateFile.tmp.pid of a manager is its number
Paths == CommandIds \cup {Main, Tmp}

VARIABLES
  user,     \* the user of this run
  folder,     \* the state folder: what each path holds
  command,  \* the user's commands: kind, pc and queuedJobs in memory
  manager,  \* the managers: pc, queuedJobs, activeJobs, files to read, othersCores
  processes,  \* processes of jobs that run
  starts,   \* history: how often each job was started
  crashes   \* history: managers killed

procVars == <<user, folder, command, manager, processes, starts, crashes>>

Absent == [is |-> "absent", queued |-> <<>>, active |-> {}]
Torn   == [is |-> "torn", queued |-> <<>>, active |-> {}]
Whole(queued, active) == [is |-> "whole", queued |-> queued, active |-> active]

At(f, pc) == [f EXCEPT !.pc = pc]

ProcInit ==
  /\ user \in Users
  /\ folder = [p \in Paths |-> Absent]
  /\ command = [c \in CommandIds |-> [kind |-> "none", pc |-> "new", queued |-> <<>>]]
  /\ manager = [m \in CommandIds |-> [pc |-> "none", queued |-> <<>>, active |-> {},
                                    reads |-> {}, others |-> 0]]
  /\ processes = {} /\ starts = [j \in CommandIds |-> 0] /\ crashes = 0

-----------------------------------------------------------------------------
(* The user                                                                *)
Working(c) == command[c].pc \notin {"new", "end", "failed"}
Alive(m)   == manager[m].pc \notin {"none", "end", "dead"}
Starting(m) == manager[m].pc \in {"load", "remove"}

\* "none": at any time, as selfTest() does; "command": when the last command
\* has returned; "taken": when its manager has read its file, too; "all":
\* when no manager is left.
MayIssue(kind) ==
  CASE user.waits = "none" -> kind = "start" =>
                              \A c \in CommandIds : Working(c) => command[c].kind # "start"
    [] user.waits = "command" -> \A c \in CommandIds : ~Working(c)
    [] user.waits = "taken" -> \A c \in CommandIds : ~Working(c) /\ ~Starting(c)
    [] OTHER -> \A c \in CommandIds : ~Working(c) /\ ~Alive(c)

Issue(c) ==
  /\ c <= user.commands
  /\ command[c].pc = "new" /\ \A d \in 1 .. c - 1 : command[d].pc # "new"
  /\ \E kind \in {"submit", "start"} :
       /\ MayIssue(kind)
       /\ command' = [command EXCEPT ![c].kind = kind, ![c].pc = "load"]
  /\ UNCHANGED <<user, folder, manager, processes, starts, crashes>>

\* Unpickling an empty or half written file raises an error that ends the process.
SubmitLoad(c) ==
  /\ command[c].kind = "submit" /\ command[c].pc = "load"
  /\ command' = [command EXCEPT ![c] =
       IF folder[Main].is = "torn" THEN At(@, "failed")
       ELSE [@ EXCEPT !.pc = "open", !.queued = Append(folder[Main].queued, c)]]
  /\ UNCHANGED <<user, folder, manager, processes, starts, crashes>>

StartLoad(c) ==
  /\ command[c].kind = "start" /\ command[c].pc = "load"
  /\ command' = [command EXCEPT ![c] =
       IF folder[Main].is # "whole" THEN At(@, "failed")
       ELSE [@ EXCEPT !.pc = "copy", !.queued = folder[Main].queued]]
  /\ UNCHANGED <<user, folder, manager, processes, starts, crashes>>

\* shutil.copy: truncate, write, copy the mode
CopyOpen(c) ==
  /\ command[c].pc = "copy"
  /\ folder' = [folder EXCEPT ![Tmp] = Torn]
  /\ command' = [command EXCEPT ![c].pc = "fill"]
  /\ UNCHANGED <<user, manager, processes, starts, crashes>>

\* What is written to a file that was removed is gone with it.
CopyWrite(c) ==
  /\ command[c].pc = "fill"
  /\ folder' = [folder EXCEPT ![Tmp] = IF @.is = "absent" THEN @ ELSE folder[Main]]
  /\ command' = [command EXCEPT ![c].pc = "mode"]
  /\ UNCHANGED <<user, manager, processes, starts, crashes>>

CopyMode(c) ==
  /\ command[c].pc = "mode"
  /\ command' = [command EXCEPT ![c].pc = IF folder[Tmp].is = "absent" THEN "failed" ELSE "spawn"]
  /\ UNCHANGED <<user, folder, manager, processes, starts, crashes>>

\* The queue is not cleared.
Cleared_Bug(queued) == queued

\* clear
Cleared(queued) == <<>>

Spawn(c) ==
  /\ command[c].pc = "spawn"
  /\ manager' = [manager EXCEPT ![c].pc = "load"]
  /\ command' = [command EXCEPT ![c].pc = "open", ![c].queued = Cleared(@)]
  /\ UNCHANGED <<user, folder, processes, starts, crashes>>

\* saveState: open truncates the file, the object is written when it is closed.
SaveOpen(c) ==
  /\ command[c].pc = "open"
  /\ folder' = [folder EXCEPT ![Main] = Torn]
  /\ command' = [command EXCEPT ![c].pc = "write"]
  /\ UNCHANGED <<user, manager, processes, starts, crashes>>

SaveWrite(c) ==
  /\ command[c].pc = "write"
  /\ folder' = [folder EXCEPT ![Main] = Whole(command[c].queued, {})]
  /\ command' = [command EXCEPT ![c].pc = "end"]
  /\ UNCHANGED <<user, manager, processes, starts, crashes>>

Command(c) ==
  \/ SubmitLoad(c) \/ StartLoad(c)
  \/ CopyOpen(c) \/ CopyWrite(c) \/ CopyMode(c) \/ Spawn(c)
  \/ SaveOpen(c) \/ SaveWrite(c)

-----------------------------------------------------------------------------
(* A manager                                                               *)
\* main, without an option: the file is read,
Load(m) ==
  /\ manager[m].pc = "load"
  /\ manager' = [manager EXCEPT ![m] =
       IF folder[Tmp].is # "whole" THEN At(@, "dead")
       ELSE [@ EXCEPT !.pc = "remove", !.queued = folder[Tmp].queued]]
  /\ UNCHANGED <<user, folder, command, processes, starts, crashes>>

Took == folder[Tmp].is # "absent"

\* then removed, which only one manager can do.
TakeFile(m) ==
  /\ manager[m].pc = "remove"
  /\ manager' = [manager EXCEPT ![m].pc = IF ~Took THEN "dead"
                                          ELSE IF manager[m].queued = <<>> THEN "end"
                                          ELSE "tick"]
  /\ folder' = [folder EXCEPT ![Tmp] = Absent]
  /\ UNCHANGED <<user, command, processes, starts, crashes>>

Complete(m) == manager[m].queued = <<>> /\ manager[m].active = {}

\* The files found when the manager was started.
Others_Bug(m) == {p \in Paths \ {m} : folder[p].is # "absent"} \cup {Tmp}

\* getCPUCountFromOtherProcMans: the glob
Others(m) == {p \in Paths \ {m} : folder[p].is # "absent"}

\* tick: jobs that ended leave, then the other files are listed,
Reap(m) ==
  /\ manager[m].pc = "tick" /\ ~Complete(m)
  /\ manager' = [manager EXCEPT ![m].pc = "count", ![m].active = @ \cap processes,
                                ![m].reads = Others(m), ![m].others = 0]
  /\ UNCHANGED <<user, folder, command, processes, starts, crashes>>

\* read one after the other,
Count(m) ==
  /\ manager[m].pc = "count"
  /\ \E p \in manager[m].reads :
       manager' = [manager EXCEPT ![m] =
         IF folder[p].is # "whole" THEN At(@, "dead")
         ELSE [@ EXCEPT !.reads = manager[m].reads \ {p},
                        !.others = manager[m].others + Cardinality(folder[p].active)]]
  /\ UNCHANGED <<user, folder, command, processes, starts, crashes>>

Free(m) == JobLimit - Cardinality(manager[m].active) - manager[m].others

Launched(m) == Max({0, Min({Free(m), Len(manager[m].queued)})})

\* A job is popped by the test of the loop, too.
StillQueued_Bug(m) == IF Launched(m) < Len(manager[m].queued)
               THEN SubSeq(manager[m].queued, Launched(m) + 2, Len(manager[m].queued)) ELSE <<>>

StillQueued(m) == SubSeq(manager[m].queued, Launched(m) + 1, Len(manager[m].queued))

\* and jobs are started while there are cores.
LaunchJobs(m) ==
  /\ manager[m].pc = "count" /\ manager[m].reads = {}
  /\ LET new == ToSet(SubSeq(manager[m].queued, 1, Launched(m))) IN
     /\ manager' = [manager EXCEPT ![m].pc = "open", ![m].queued = StillQueued(m), ![m].active = @ \cup new]
     /\ processes' = processes \cup new
     /\ starts' = [j \in CommandIds |-> IF j \in new THEN starts[j] + 1 ELSE starts[j]]
  /\ UNCHANGED <<user, folder, command, crashes>>

ManagerOpen(m) ==
  /\ manager[m].pc = "open"
  /\ folder' = [folder EXCEPT ![m] = Torn]
  /\ manager' = [manager EXCEPT ![m].pc = "write"]
  /\ UNCHANGED <<user, command, processes, starts, crashes>>

ManagerWrite(m) ==
  /\ manager[m].pc = "write"
  /\ folder' = [folder EXCEPT ![m] = Whole(manager[m].queued, manager[m].active)]
  /\ manager' = [manager EXCEPT ![m].pc = "tick"]
  /\ UNCHANGED <<user, command, processes, starts, crashes>>

Finish(m) ==
  /\ manager[m].pc = "tick" /\ Complete(m)
  /\ folder' = [folder EXCEPT ![m] = Absent]
  /\ manager' = [manager EXCEPT ![m].pc = "end"]
  /\ UNCHANGED <<user, command, processes, starts, crashes>>

Manager(m) ==
  \/ Load(m) \/ TakeFile(m) \/ Reap(m) \/ Count(m) \/ LaunchJobs(m)
  \/ ManagerOpen(m) \/ ManagerWrite(m) \/ Finish(m)

-----------------------------------------------------------------------------
(* The system: a job ends by itself, a manager may be killed               *)
JobEnds(j) ==
  /\ j \in processes
  /\ processes' = processes \ {j}
  /\ UNCHANGED <<user, folder, command, manager, starts, crashes>>

Crash(m) ==
  /\ crashes < user.crashes /\ Alive(m)
  /\ manager' = [manager EXCEPT ![m].pc = "dead"]
  /\ crashes' = crashes + 1
  /\ UNCHANGED <<user, folder, command, processes, starts>>

ProcNext ==
  \/ \E c \in CommandIds : Issue(c) \/ Command(c)
  \/ \E m \in CommandIds : Manager(m) \/ Crash(m)
  \/ \E j \in CommandIds : JobEnds(j)

ProcSpec == ProcInit /\ [][ProcNext]_procVars

\* Every process gets the processor, and jobs end. The user may stop.
ProcFairness == \A c \in CommandIds :
  WF_procVars(Command(c)) /\ WF_procVars(Manager(c)) /\ WF_procVars(JobEnds(c))

FairProc == ProcSpec /\ ProcFairness

-----------------------------------------------------------------------------
(* Properties                                                              *)
Contents == [is : {"absent", "torn", "whole"},
             queued : Seq(CommandIds),
             active : SUBSET CommandIds]

\* The type invariant: only a manager's file names active jobs, and no manager
\* counts a file of its own.
ProcTypeOK ==
  /\ folder \in [Paths -> Contents]
  /\ folder[Main].active = {} /\ folder[Tmp].active = {}
  /\ processes \subseteq CommandIds /\ crashes \in 0 .. user.crashes
  /\ \A m \in CommandIds : /\ manager[m].active \subseteq CommandIds
                           /\ manager[m].reads \subseteq Paths \ {m}
                           /\ manager[m].others \in 0 .. MaxCommands

Submitted(j) == command[j].kind = "submit" /\ command[j].pc = "end"
Started(j) == starts[j] > 0

\* Where a job that has not started can still be started from: a file whose
\* owner will read it, or the memory of a live process.
Kept(j) ==
  \/ j \in ToSet(folder[Main].queued)
  \/ \E c \in CommandIds : Working(c) /\ j \in ToSet(command[c].queued)
  \/ j \in ToSet(folder[Tmp].queued) /\ \E m \in CommandIds : manager[m].pc = "load"
  \/ \E m \in CommandIds : Alive(m) /\ j \in ToSet(manager[m].queued)

\* As long as none is killed, the only way to lose a job is the death of a
\* manager that has taken it.
LostOnlyWithManager ==
  crashes = 0 => \A j \in CommandIds : Submitted(j) =>
    \/ Started(j) \/ Kept(j)
    \/ \E m \in CommandIds : manager[m].pc = "dead" /\ j \in ToSet(manager[m].queued)

\* No job is started twice, by one manager or by two (clear empties the queue
\* that was handed over, os.remove lets one manager have it).
StartedOnce == \A j \in CommandIds : starts[j] <= 1

\* A user who waits for every manager, none of which is killed.
Patient == user.waits = "all" /\ user.crashes = 0

\* The jobs of all managers together stay within the limit.
WithinLimit == Patient => Cardinality(processes) <= JobLimit

\* No manager dies of what it finds in the state folder.
ManagersSurvive == crashes = 0 => \A m \in CommandIds : manager[m].pc # "dead"

\* No manager dies of it while no command works, so when nothing but managers
\* touches the folder.
ManagersCoexist ==
  [][(Patient /\ \A c \in CommandIds : ~Working(c)) =>
       \A m \in CommandIds : Alive(m) => manager'[m].pc # "dead"]_procVars

\* Every job handed to a manager is run to its end, unless a manager dies.
AllRun == \A j \in CommandIds :
  (\E m \in CommandIds : manager[m].pc = "tick" /\ j \in ToSet(manager[m].queued))
    ~> ((Started(j) /\ j \notin processes) \/ \E d \in CommandIds : manager[d].pc = "dead")
\* Whatever commands, managers and kills interleave on the state folder, no
\* job runs twice, none is lost but with its manager, and the limit holds.
LauncherInv == ProcTypeOK /\ LostOnlyWithManager /\ StartedOnce /\ WithinLimit
=============================================================================
