-------------------------- MODULE FrontEnd_proofs -------------------------
(***************************************************************************)
(* Proofs about the programs around the simulator: the job launcher of     *)
(* ProcMan, the tracer of TracerChannel, and the loop of KernelWindow that *)
(* replays what the tracer wrote. They share no state, and each part below *)
(* is on its own: an inductive invariant, one lemma for each action, and   *)
(* the theorem.                                                            *)
(*                                                                         *)
(* The user of the launcher waits, with the next command, until the last   *)
(* command has returned and the manager it spawned has taken its file.     *)
(* Then the state folder is handed from one process to the next, and the   *)
(* invariant says what each of them finds there. A user who does not wait  *)
(* so loses and repeats jobs, and nothing is claimed about him.            *)
(***************************************************************************)
EXTENDS ProcMan, TracerChannel, KernelWindow, SequenceLemmas

Waiting == \A u \in Users : u.waits \in {"taken", "all"}

-----------------------------------------------------------------------------
(* The inductive invariant of ProcMan                                      *)
CommandPcs == {"new", "load", "copy", "fill", "mode", "spawn", "open", "write", "end", "failed"}
ManagerPcs == {"none", "load", "remove", "tick", "count", "open", "write", "end", "dead"}

CommandStates == [kind : {"none", "submit", "start"}, pc : CommandPcs, queued : Seq(CommandIds)]
Managers == [pc : ManagerPcs, queued : Seq(CommandIds), active : SUBSET CommandIds,
             reads : SUBSET Paths, others : Nat]

LauncherTypes ==
  /\ user \in Users
  /\ folder \in [Paths -> Contents]
  /\ command \in [CommandIds -> CommandStates]
  /\ manager \in [CommandIds -> Managers]
  /\ processes \subseteq CommandIds
  /\ starts \in [CommandIds -> Nat]
  /\ crashes \in 0 .. user.crashes

Handing(c) == command[c].pc \in {"copy", "fill", "mode", "spawn"}
Queue(m)   == ToSet(manager[m].queued)
Filed(p)    == ToSet(folder[p].queued)

\* One command works at a time; what its memory and the two files of the
\* folder that commands use hold at each of its steps.
CommandInv ==
  /\ \A c, d \in CommandIds : Working(c) /\ Working(d) => c = d
  /\ \A c \in CommandIds :
       /\ command[c].pc = "new" <=> command[c].kind = "none"
       /\ command[c].pc \in {"new", "load"} => command[c].queued = <<>>
       /\ Handing(c) => /\ command[c].kind = "start"
                        /\ folder[Main].is = "whole"
                        /\ command[c].queued = folder[Main].queued
       /\ command[c].pc = "fill" => folder[Tmp].is = "torn"
       /\ command[c].pc \in {"mode", "spawn"} => folder[Tmp] = folder[Main]
       /\ command[c].pc = "open" /\ command[c].kind = "submit"
            => command[c].queued = Append(folder[Main].queued, c)
       /\ command[c].pc \in {"open", "write"} /\ command[c].kind = "start"
            => command[c].queued = <<>>
       /\ command[c].pc = "write" =>
            /\ folder[Main].is = "torn"
            /\ command[c].kind = "submit" => c \in ToSet(command[c].queued)
  /\ folder[Main].is = "torn" => \E c \in CommandIds : command[c].pc = "write"

\* A file that is absent or torn holds nothing, and only managers' files name
\* active jobs.
FolderInv ==
  /\ \A p \in Paths : folder[p].is # "whole" => folder[p].queued = <<>> /\ folder[p].active = {}
  /\ folder[Main].active = {} /\ folder[Tmp].active = {}

\* A manager belongs to the command that spawned it; until it has taken the
\* file, the file is there and no other command works.
ManagerInv ==
  /\ \A m \in CommandIds :
       /\ manager[m].pc # "none" => /\ command[m].kind = "start"
                                    /\ command[m].pc \in {"open", "write", "end"}
       /\ Starting(m) => folder[Tmp].is = "whole"
       /\ Starting(m) /\ command[m].pc # "open" => folder[Main].queued = <<>>
       /\ manager[m].pc = "remove" => manager[m].queued = folder[Tmp].queued
       /\ manager[m].pc \in {"none", "load", "end"} => manager[m].queued = <<>>
       /\ manager[m].pc \in {"none", "load", "remove", "end"} => manager[m].active = {}
       /\ manager[m].pc \in {"none", "load", "remove"} => folder[m].is = "absent"
       /\ manager[m].pc \in {"tick", "count"} => manager[m].active \subseteq folder[m].active
       /\ manager[m].reads \subseteq Paths \ {m}
  /\ \A m, c \in CommandIds : Starting(m) /\ Working(c) => c = m
  /\ \A m, n \in CommandIds : Starting(m) /\ Starting(n) => m = n

\* Jobs that no manager was given and that were never started.
Fresh(jobs) == \A j \in jobs : starts[j] = 0 /\ \A m \in CommandIds : j \notin Queue(m)

\* Every queue names submitted jobs, each once. What can still be handed over
\* is fresh, what managers hold is unstarted, and no two hold the same job.
FilesSound ==
  \A p \in {Main, Tmp} : /\ IsInjective(folder[p].queued)
                         /\ \A j \in Filed(p) : Submitted(j)

MemorySound ==
  \A c \in CommandIds : Working(c) =>
    /\ IsInjective(command[c].queued)
    /\ \A j \in ToSet(command[c].queued) : j = c \/ Submitted(j)
    /\ Fresh(ToSet(command[c].queued))

HandoverFresh ==
  /\ (\A c \in CommandIds : ~(command[c].kind = "start" /\ command[c].pc = "open"))
       => Fresh(Filed(Main))
  /\ \A m \in CommandIds : manager[m].pc = "load" => Fresh(Filed(Tmp))

HeldSound ==
  /\ \A m \in CommandIds : /\ IsInjective(manager[m].queued)
                           /\ \A j \in Queue(m) : starts[j] = 0 /\ Submitted(j)
  /\ \A m, n \in CommandIds : m # n => Queue(m) \cap Queue(n) = {}

QueueInv == FilesSound /\ MemorySound /\ HandoverFresh /\ HeldSound

\* The jobs a manager has or had at work, as it or its file says: they were
\* started once, by this manager only.
Shown(m) == manager[m].active \cup folder[m].active

StartsInv ==
  /\ \A j \in CommandIds : starts[j] <= 1 /\ (starts[j] > 0 => Submitted(j))
  /\ \A m \in CommandIds : \A j \in Shown(m) : Started(j)
  /\ \A m, n \in CommandIds : m # n => Shown(m) \cap Shown(n) = {}

\* What a manager has counted are different jobs, none of them in the files it
\* still has to read.
Counted(m) ==
  \E G \in SUBSET CommandIds :
    /\ manager[m].others <= Cardinality(G)
    /\ \A j \in G : Started(j)
    /\ \A p \in manager[m].reads \cap CommandIds : G \cap Shown(p) = {}

CountInv == \A m \in CommandIds : /\ manager[m].others <= MaxCommands
                                  /\ manager[m].pc = "count" => Counted(m)

\* Started, or where only a manager can lose it.
Safe(j) ==
  \/ Started(j)
  \/ \E m \in CommandIds : (manager[m].pc = "load" /\ j \in Filed(Tmp)) \/ j \in Queue(m)

KeptInv ==
  crashes = 0 =>
    /\ \A j \in CommandIds : Submitted(j) =>
         \/ j \in Filed(Main)
         \/ \E c \in CommandIds : Working(c) /\ j \in ToSet(command[c].queued)
         \/ Safe(j)
    /\ \A c \in CommandIds : command[c].kind = "start" /\ command[c].pc = "open" =>
         \A j \in Filed(Main) : Safe(j)

\* The jobs of a manager that may run: a dead one left them in its file.
Current(m) == IF Alive(m) THEN manager[m].active ELSE folder[m].active

\* For the patient user: one manager at a time, which counts what all others
\* left behind.
OneManager ==
  /\ \A m, n \in CommandIds : Alive(m) /\ Alive(n) => m = n
  /\ \A m, c \in CommandIds : Alive(m) /\ Working(c) => c = m

FilesSettled ==
  \A m \in CommandIds :
    /\ Alive(m) /\ ~Starting(m) => folder[Tmp].is = "absent"
    /\ folder[m].is = "torn" => manager[m].pc = "write"
    /\ manager[m].pc = "count" => \A p \in manager[m].reads : folder[p].is # "absent"

Behind(m) ==
  {j \in CommandIds : \E p \in (CommandIds \ {m}) \ manager[m].reads : j \in folder[p].active}

OthersCounted ==
  \A m \in CommandIds : manager[m].pc = "count" =>
    Cardinality(Behind(m)) <= manager[m].others

WithinInv ==
  /\ \A j \in processes : \E m \in CommandIds : j \in Current(m)
  /\ Cardinality(processes) <= JobLimit

PatientInv == Patient => OneManager /\ FilesSettled /\ OthersCounted /\ WithinInv

LInv == /\ LauncherTypes /\ CommandInv /\ FolderInv /\ ManagerInv
        /\ QueueInv /\ StartsInv /\ CountInv /\ KeptInv /\ PatientInv

-----------------------------------------------------------------------------
(* Constants                                                               *)
LEMMA PathFacts ==
  /\ IsFiniteSet(CommandIds) /\ Cardinality(CommandIds) = MaxCommands
  /\ MaxCommands \in Nat /\ JobLimit \in Nat \ {0}
  /\ CommandIds \subseteq Nat \ {0} /\ CommandIds \subseteq Paths
  /\ Main \in Paths /\ Tmp \in Paths /\ Main # Tmp
  /\ Main \notin CommandIds /\ Tmp \notin CommandIds
  /\ \A p \in Paths : p \in CommandIds \/ p = Main \/ p = Tmp
  <1>1. MaxCommands \in Nat /\ JobLimit \in Nat \ {0}
    BY ProcManAssumption
  <1>2. IsFiniteSet(1 .. MaxCommands) /\ Cardinality(1 .. MaxCommands) = MaxCommands
    BY <1>1, FS_Interval
  <1>3. QED
    BY <1>1, <1>2 DEF CommandIds, Paths, Main, Tmp

\* The contents a file can have are those the operators build.
LEMMA ContentsFacts ==
  /\ Absent \in Contents /\ Torn \in Contents
  /\ \A q \in Seq(CommandIds), a \in SUBSET CommandIds : Whole(q, a) \in Contents
  /\ \A f \in Contents : /\ f.is \in {"absent", "torn", "whole"}
                         /\ f.queued \in Seq(CommandIds) /\ f.active \in SUBSET CommandIds
  BY EmptySeq DEF Absent, Torn, Whole, Contents

\* The first jobs of a queue, as many as there are cores for.
LEMMA LaunchedFacts ==
  ASSUME LauncherTypes, NEW m \in CommandIds,
         IsInjective(manager[m].queued), manager[m].active \subseteq CommandIds
  PROVE  LET n   == Launched(m)
             q   == manager[m].queued
             new == ToSet(SubSeq(q, 1, n))
         IN /\ n \in 0 .. Len(q) /\ Free(m) \in Int
            /\ n = 0 \/ n <= Free(m)
            /\ new \subseteq ToSet(q) /\ new \subseteq CommandIds
            /\ IsFiniteSet(new) /\ Cardinality(new) = n
            /\ StillQueued(m) \in Seq(CommandIds) /\ IsInjective(StillQueued(m))
            /\ ToSet(StillQueued(m)) = ToSet(q) \ new
  <1> DEFINE q == manager[m].queued
             a == Free(m)
             n == Launched(m)
             new == ToSet(SubSeq(q, 1, n))
  <1>1. q \in Seq(CommandIds) /\ manager[m].others \in Nat
    BY DEF LauncherTypes, Managers
  <1>2. IsFiniteSet(manager[m].active) /\ Cardinality(manager[m].active) \in Nat
    BY PathFacts, FS_Subset, FS_CardinalityType
  <1>3. a \in Int
    BY <1>1, <1>2, PathFacts DEF Free
  <1>4. Len(q) \in Nat
    BY <1>1, LenProperties
  <1>5. n \in 0 .. Len(q) /\ (n = 0 \/ n <= a)
    <2>1. Min({a, Len(q)}) = IF a <= Len(q) THEN a ELSE Len(q)
      BY <1>3, <1>4, MinOfTwo
    <2>2. Min({a, Len(q)}) \in Int
      BY <2>1, <1>3, <1>4
    <2>3. n = IF 0 >= Min({a, Len(q)}) THEN 0 ELSE Min({a, Len(q)})
      <3> DEFINE k == Min({a, Len(q)})
      <3>1. n = Max({0, k})
        BY DEF Launched
      <3>2. k \in Int
        BY <2>2
      <3> HIDE DEF k, n
      <3>3. Max({0, k}) = IF 0 >= k THEN 0 ELSE k
        BY <3>2, MaxOfTwo
      <3>4. QED
        BY <3>1, <3>3 DEF k
    <2> HIDE DEF a, n, q
    <2>4. QED
      BY <2>1, <2>3, <1>3, <1>4
  <1>6. /\ SubSeq(q, 1, n) \in Seq(CommandIds) /\ SubSeq(q, n + 1, Len(q)) \in Seq(CommandIds)
        /\ IsInjective(SubSeq(q, 1, n)) /\ IsInjective(SubSeq(q, n + 1, Len(q)))
        /\ new \subseteq ToSet(q)
        /\ ToSet(SubSeq(q, n + 1, Len(q))) = ToSet(q) \ new
    <2> HIDE DEF n, q
    <2> IsInjective(q)
      BY DEF q
    <2>1. QED
      BY <1>1, <1>5, CutElements
  <1>7. Len(SubSeq(q, 1, n)) = n
    <2> HIDE DEF n, q
    <2>1. QED
      BY <1>1, <1>5, FrontOfSeq
  <1>8. IsFiniteSet(new) /\ Cardinality(new) = n /\ new \subseteq CommandIds
    <2> HIDE DEF n, q
    <2>1. QED
      BY <1>6, <1>7, InjectiveCount, ElementsOfSeq
  <1>9. StillQueued(m) = SubSeq(q, n + 1, Len(q))
    BY DEF StillQueued
  <1> HIDE DEF n, q, a
  <1>10. QED
    BY <1>3, <1>5, <1>6, <1>8, <1>9 DEF q, n, a
-----------------------------------------------------------------------------
(* What each action does to the records it changes                         *)
\* Only this command changes.
CommandBecomes(c, kind, step, queued) ==
  /\ command' \in [CommandIds -> CommandStates]
  /\ command'[c].kind = kind /\ command'[c].pc = step /\ command'[c].queued = queued
  /\ \A d \in CommandIds \ {c} : command'[d] = command[d]

ManagerBecomes(m, step, queued, active, reads, others) ==
  /\ manager' \in [CommandIds -> Managers]
  /\ manager'[m].pc = step /\ manager'[m].queued = queued /\ manager'[m].active = active
  /\ manager'[m].reads = reads /\ manager'[m].others = others
  /\ \A n \in CommandIds \ {m} : manager'[n] = manager[n]

FileBecomes(p, contents) ==
  /\ folder' \in [Paths -> Contents]
  /\ folder'[p] = contents
  /\ \A o \in Paths \ {p} : folder'[o] = folder[o]

LEMMA CommandChange ==
  ASSUME LauncherTypes, NEW c \in CommandIds, NEW r \in CommandStates,
         command' = [command EXCEPT ![c] = r]
  PROVE  CommandBecomes(c, r.kind, r.pc, r.queued)
  BY DEF LauncherTypes, CommandBecomes

LEMMA ManagerChange ==
  ASSUME LauncherTypes, NEW m \in CommandIds, NEW r \in Managers,
         manager' = [manager EXCEPT ![m] = r]
  PROVE  ManagerBecomes(m, r.pc, r.queued, r.active, r.reads, r.others)
  BY DEF LauncherTypes, ManagerBecomes

LEMMA FileChange ==
  ASSUME LauncherTypes, NEW p \in Paths, NEW f \in Contents,
         folder' = [folder EXCEPT ![p] = f]
  PROVE  FileBecomes(p, f)
  BY DEF LauncherTypes, FileBecomes

LEMMA RecordFields ==
  /\ \A r \in CommandStates : /\ r.kind \in {"none", "submit", "start"} /\ r.pc \in CommandPcs
                         /\ r.queued \in Seq(CommandIds)
  /\ \A r \in Managers : /\ r.pc \in ManagerPcs /\ r.queued \in Seq(CommandIds)
                         /\ r.active \subseteq CommandIds /\ r.reads \subseteq Paths
                         /\ r.others \in Nat
  BY DEF CommandStates, Managers
LEMMA IssueEffect ==
  ASSUME LauncherTypes, NEW c \in CommandIds, Issue(c)
  PROVE  /\ command[c].pc = "new"
         /\ \E kind \in {"submit", "start"} :
              MayIssue(kind) /\ CommandBecomes(c, kind, "load", command[c].queued)
         /\ UNCHANGED <<user, folder, manager, processes, starts, crashes>>
  <1>1. PICK kind \in {"submit", "start"} :
          MayIssue(kind) /\ command' = [command EXCEPT ![c].kind = kind, ![c].pc = "load"]
    BY DEF Issue
  <1> DEFINE r == [command[c] EXCEPT !.kind = kind, !.pc = "load"]
  <1>2. command' = [command EXCEPT ![c] = r]
    BY <1>1
  <1>3. r \in CommandStates /\ r.kind = kind /\ r.pc = "load" /\ r.queued = command[c].queued
    BY DEF LauncherTypes, CommandPcs, CommandStates
  <1> HIDE DEF r
  <1>4. CommandBecomes(c, kind, "load", command[c].queued)
    BY <1>2, <1>3, CommandChange
  <1>5. QED
    BY <1>1, <1>4 DEF Issue

LEMMA SubmitLoadEffect ==
  ASSUME LauncherTypes, NEW c \in CommandIds, SubmitLoad(c)
  PROVE  /\ command[c].kind = "submit" /\ command[c].pc = "load"
         /\ IF folder[Main].is = "torn"
              THEN CommandBecomes(c, "submit", "failed", command[c].queued)
              ELSE CommandBecomes(c, "submit", "open", Append(folder[Main].queued, c))
         /\ UNCHANGED <<user, folder, manager, processes, starts, crashes>>
  <1>1. command[c].kind = "submit" /\ command[c].pc = "load"
    BY DEF SubmitLoad
  <1>2. folder[Main].queued \in Seq(CommandIds)
    BY PathFacts, ContentsFacts DEF LauncherTypes
  <1>3. CASE folder[Main].is = "torn"
    <2> DEFINE r == [command[c] EXCEPT !.pc = "failed"]
    <2>1. command' = [command EXCEPT ![c] = r]
      BY <1>3 DEF SubmitLoad, At
    <2>2. r \in CommandStates /\ r.kind = "submit" /\ r.pc = "failed" /\ r.queued = command[c].queued
      BY <1>1 DEF LauncherTypes, CommandPcs, CommandStates
    <2> HIDE DEF r
    <2>3. CommandBecomes(c, "submit", "failed", command[c].queued)
      BY <2>1, <2>2, CommandChange
    <2>4. QED
      BY <1>1, <1>3, <2>3 DEF SubmitLoad
  <1>4. CASE folder[Main].is # "torn"
    <2> DEFINE q == Append(folder[Main].queued, c)
               r == [command[c] EXCEPT !.pc = "open", !.queued = q]
    <2>1. command' = [command EXCEPT ![c] = r]
      BY <1>4 DEF SubmitLoad
    <2>2. q \in Seq(CommandIds)
      BY <1>2, AppendElements
    <2> HIDE DEF q
    <2>3. r \in CommandStates /\ r.kind = "submit" /\ r.pc = "open" /\ r.queued = q
      BY <1>1, <2>2 DEF LauncherTypes, CommandPcs, CommandStates
    <2> HIDE DEF r
    <2>4. CommandBecomes(c, "submit", "open", q)
      BY <2>1, <2>3, CommandChange
    <2>5. QED
      BY <1>1, <1>4, <2>4 DEF SubmitLoad, q
  <1>5. QED
    BY <1>3, <1>4

LEMMA StartLoadEffect ==
  ASSUME LauncherTypes, NEW c \in CommandIds, StartLoad(c)
  PROVE  /\ command[c].kind = "start" /\ command[c].pc = "load"
         /\ IF folder[Main].is # "whole"
              THEN CommandBecomes(c, "start", "failed", command[c].queued)
              ELSE CommandBecomes(c, "start", "copy", folder[Main].queued)
         /\ UNCHANGED <<user, folder, manager, processes, starts, crashes>>
  <1>1. command[c].kind = "start" /\ command[c].pc = "load"
    BY DEF StartLoad
  <1> DEFINE q == folder[Main].queued
  <1>2. q \in Seq(CommandIds)
    BY PathFacts, ContentsFacts DEF LauncherTypes
  <1>3. CASE folder[Main].is # "whole"
    <2> DEFINE r == [command[c] EXCEPT !.pc = "failed"]
    <2>1. command' = [command EXCEPT ![c] = r]
      BY <1>3 DEF StartLoad, At
    <2>2. r \in CommandStates /\ r.kind = "start" /\ r.pc = "failed" /\ r.queued = command[c].queued
      BY <1>1 DEF LauncherTypes, CommandPcs, CommandStates
    <2> HIDE DEF r
    <2>3. CommandBecomes(c, "start", "failed", command[c].queued)
      BY <2>1, <2>2, CommandChange
    <2>4. QED
      BY <1>1, <1>3, <2>3 DEF StartLoad
  <1>4. CASE folder[Main].is = "whole"
    <2> DEFINE r == [command[c] EXCEPT !.pc = "copy", !.queued = q]
    <2>1. command' = [command EXCEPT ![c] = r]
      BY <1>4 DEF StartLoad
    <2> HIDE DEF q
    <2>2. r \in CommandStates /\ r.kind = "start" /\ r.pc = "copy" /\ r.queued = q
      BY <1>1, <1>2 DEF LauncherTypes, CommandPcs, CommandStates
    <2> HIDE DEF r
    <2>3. CommandBecomes(c, "start", "copy", q)
      BY <2>1, <2>2, CommandChange
    <2>4. QED
      BY <1>1, <1>4, <2>3 DEF StartLoad, q
  <1>5. QED
    BY <1>3, <1>4
\* The updates of a manager's record in the actions.
LEMMA ManagerMoves ==
  ASSUME LauncherTypes, NEW m \in CommandIds, NEW p \in ManagerPcs,
         manager' = [manager EXCEPT ![m].pc = p]
  PROVE  ManagerBecomes(m, p, manager[m].queued, manager[m].active, manager[m].reads,
                        manager[m].others)
  <1> DEFINE r == [manager[m] EXCEPT !.pc = p]
  <1>1. manager[m] \in Managers /\ manager' = [manager EXCEPT ![m] = r]
    BY DEF LauncherTypes
  <1>2. /\ r \in Managers /\ r.pc = p /\ r.queued = manager[m].queued
        /\ r.active = manager[m].active /\ r.reads = manager[m].reads
        /\ r.others = manager[m].others
    BY <1>1 DEF Managers
  <1> HIDE DEF r
  <1>3. QED
    BY <1>1, <1>2, ManagerChange

LEMMA ManagerTakes ==
  ASSUME LauncherTypes, NEW m \in CommandIds, NEW p \in ManagerPcs,
         NEW q \in Seq(CommandIds), NEW a \in SUBSET CommandIds,
         manager' = [manager EXCEPT ![m].pc = p, ![m].queued = q, ![m].active = a]
  PROVE  ManagerBecomes(m, p, q, a, manager[m].reads, manager[m].others)
  <1> DEFINE r == [manager[m] EXCEPT !.pc = p, !.queued = q, !.active = a]
  <1>1. manager[m] \in Managers /\ manager' = [manager EXCEPT ![m] = r]
    BY DEF LauncherTypes
  <1>2. /\ r \in Managers /\ r.pc = p /\ r.queued = q
        /\ r.active = a /\ r.reads = manager[m].reads
        /\ r.others = manager[m].others
    BY <1>1 DEF Managers
  <1> HIDE DEF r
  <1>3. QED
    BY <1>1, <1>2, ManagerChange

LEMMA ManagerReaps ==
  ASSUME LauncherTypes, NEW m \in CommandIds, NEW p \in ManagerPcs,
         NEW a \in SUBSET CommandIds, NEW d \in SUBSET Paths, NEW o \in Nat,
         manager' = [manager EXCEPT ![m].pc = p, ![m].active = a, ![m].reads = d,
                                    ![m].others = o]
  PROVE  ManagerBecomes(m, p, manager[m].queued, a, d, o)
  <1> DEFINE r == [manager[m] EXCEPT !.pc = p, !.active = a, !.reads = d, !.others = o]
  <1>1. manager[m] \in Managers /\ manager' = [manager EXCEPT ![m] = r]
    BY DEF LauncherTypes
  <1>2. /\ r \in Managers /\ r.pc = p /\ r.queued = manager[m].queued
        /\ r.active = a /\ r.reads = d /\ r.others = o
    BY <1>1 DEF Managers
  <1> HIDE DEF r
  <1>3. QED
    BY <1>1, <1>2, ManagerChange

LEMMA CopyOpenEffect ==
  ASSUME LauncherTypes, NEW c \in CommandIds, CopyOpen(c)
  PROVE  /\ command[c].pc = "copy"
         /\ CommandBecomes(c, command[c].kind, "fill", command[c].queued)
         /\ FileBecomes(Tmp, Torn)
         /\ UNCHANGED <<user, manager, processes, starts, crashes>>
  <1> DEFINE r == [command[c] EXCEPT !.pc = "fill"]
  <1>1. command' = [command EXCEPT ![c] = r]
    BY DEF CopyOpen
  <1>2. /\ r \in CommandStates /\ r.kind = command[c].kind /\ r.pc = "fill"
        /\ r.queued = command[c].queued
    BY DEF LauncherTypes, CommandPcs, CommandStates
  <1> HIDE DEF r
  <1>3. CommandBecomes(c, command[c].kind, "fill", command[c].queued)
    BY <1>1, <1>2, CommandChange
  <1>4. Torn \in Contents
    BY PathFacts, ContentsFacts, RecordFields DEF LauncherTypes
  <1>5. FileBecomes(Tmp, Torn)
    BY <1>4, PathFacts, FileChange DEF CopyOpen
  <1>9. QED
    BY <1>3, <1>5 DEF CopyOpen

LEMMA CopyWriteEffect ==
  ASSUME LauncherTypes, NEW c \in CommandIds, CopyWrite(c)
  PROVE  /\ command[c].pc = "fill"
         /\ CommandBecomes(c, command[c].kind, "mode", command[c].queued)
         /\ FileBecomes(Tmp, (IF folder[Tmp].is = "absent" THEN folder[Tmp] ELSE folder[Main]))
         /\ UNCHANGED <<user, manager, processes, starts, crashes>>
  <1> DEFINE r == [command[c] EXCEPT !.pc = "mode"]
  <1>1. command' = [command EXCEPT ![c] = r]
    BY DEF CopyWrite
  <1>2. /\ r \in CommandStates /\ r.kind = command[c].kind /\ r.pc = "mode"
        /\ r.queued = command[c].queued
    BY DEF LauncherTypes, CommandPcs, CommandStates
  <1> HIDE DEF r
  <1>3. CommandBecomes(c, command[c].kind, "mode", command[c].queued)
    BY <1>1, <1>2, CommandChange
  <1>4. (IF folder[Tmp].is = "absent" THEN folder[Tmp] ELSE folder[Main]) \in Contents
    BY PathFacts, ContentsFacts, RecordFields DEF LauncherTypes
  <1>5. FileBecomes(Tmp, (IF folder[Tmp].is = "absent" THEN folder[Tmp] ELSE folder[Main]))
    BY <1>4, PathFacts, FileChange DEF CopyWrite
  <1>9. QED
    BY <1>3, <1>5 DEF CopyWrite

LEMMA CopyModeEffect ==
  ASSUME LauncherTypes, NEW c \in CommandIds, CopyMode(c)
  PROVE  /\ command[c].pc = "mode"
         /\ CommandBecomes(c, command[c].kind, IF folder[Tmp].is = "absent" THEN "failed" ELSE "spawn", command[c].queued)
         /\ UNCHANGED <<user, folder, manager, processes, starts, crashes>>
  <1> DEFINE r == [command[c] EXCEPT !.pc = IF folder[Tmp].is = "absent" THEN "failed" ELSE "spawn"]
  <1>1. command' = [command EXCEPT ![c] = r]
    BY DEF CopyMode
  <1>2. /\ r \in CommandStates /\ r.kind = command[c].kind /\ r.pc = IF folder[Tmp].is = "absent" THEN "failed" ELSE "spawn"
        /\ r.queued = command[c].queued
    BY DEF LauncherTypes, CommandPcs, CommandStates
  <1> HIDE DEF r
  <1>3. CommandBecomes(c, command[c].kind, IF folder[Tmp].is = "absent" THEN "failed" ELSE "spawn", command[c].queued)
    BY <1>1, <1>2, CommandChange
  <1>9. QED
    BY <1>3 DEF CopyMode

LEMMA SpawnEffect ==
  ASSUME LauncherTypes, NEW c \in CommandIds, Spawn(c)
  PROVE  /\ command[c].pc = "spawn"
         /\ CommandBecomes(c, command[c].kind, "open", <<>>)
         /\ ManagerBecomes(c, "load", manager[c].queued, manager[c].active,
                           manager[c].reads, manager[c].others)
         /\ UNCHANGED <<user, folder, processes, starts, crashes>>
  <1> DEFINE r == [command[c] EXCEPT !.pc = "open", !.queued = <<>>]
  <1>1. command' = [command EXCEPT ![c] = r]
    BY DEF Spawn, Cleared
  <1>2. /\ r \in CommandStates /\ r.kind = command[c].kind /\ r.pc = "open"
        /\ r.queued = <<>>
    BY EmptySeq DEF LauncherTypes, CommandPcs, CommandStates
  <1> HIDE DEF r
  <1>3. CommandBecomes(c, command[c].kind, "open", <<>>)
    BY <1>1, <1>2, CommandChange
  <1>4. manager' = [manager EXCEPT ![c].pc = "load"] /\ "load" \in ManagerPcs
    BY DEF Spawn, ManagerPcs
  <1>6. ManagerBecomes(c, "load", manager[c].queued, manager[c].active, manager[c].reads,
                       manager[c].others)
    BY <1>4, ManagerMoves
  <1>9. QED
    BY <1>3, <1>6 DEF Spawn

LEMMA SaveOpenEffect ==
  ASSUME LauncherTypes, NEW c \in CommandIds, SaveOpen(c)
  PROVE  /\ command[c].pc = "open"
         /\ CommandBecomes(c, command[c].kind, "write", command[c].queued)
         /\ FileBecomes(Main, Torn)
         /\ UNCHANGED <<user, manager, processes, starts, crashes>>
  <1> DEFINE r == [command[c] EXCEPT !.pc = "write"]
  <1>1. command' = [command EXCEPT ![c] = r]
    BY DEF SaveOpen
  <1>2. /\ r \in CommandStates /\ r.kind = command[c].kind /\ r.pc = "write"
        /\ r.queued = command[c].queued
    BY DEF LauncherTypes, CommandPcs, CommandStates
  <1> HIDE DEF r
  <1>3. CommandBecomes(c, command[c].kind, "write", command[c].queued)
    BY <1>1, <1>2, CommandChange
  <1>4. Torn \in Contents
    BY PathFacts, ContentsFacts, RecordFields DEF LauncherTypes
  <1>5. FileBecomes(Main, Torn)
    BY <1>4, PathFacts, FileChange DEF SaveOpen
  <1>9. QED
    BY <1>3, <1>5 DEF SaveOpen

LEMMA SaveWriteEffect ==
  ASSUME LauncherTypes, NEW c \in CommandIds, SaveWrite(c)
  PROVE  /\ command[c].pc = "write"
         /\ CommandBecomes(c, command[c].kind, "end", command[c].queued)
         /\ FileBecomes(Main, Whole(command[c].queued, {}))
         /\ UNCHANGED <<user, manager, processes, starts, crashes>>
  <1> DEFINE r == [command[c] EXCEPT !.pc = "end"]
  <1>1. command' = [command EXCEPT ![c] = r]
    BY DEF SaveWrite
  <1>2. /\ r \in CommandStates /\ r.kind = command[c].kind /\ r.pc = "end"
        /\ r.queued = command[c].queued
    BY DEF LauncherTypes, CommandPcs, CommandStates
  <1> HIDE DEF r
  <1>3. CommandBecomes(c, command[c].kind, "end", command[c].queued)
    BY <1>1, <1>2, CommandChange
  <1>4. Whole(command[c].queued, {}) \in Contents
    BY PathFacts, ContentsFacts, RecordFields DEF LauncherTypes
  <1>5. FileBecomes(Main, Whole(command[c].queued, {}))
    BY <1>4, PathFacts, FileChange DEF SaveWrite
  <1>9. QED
    BY <1>3, <1>5 DEF SaveWrite

LEMMA TakeFileEffect ==
  ASSUME LauncherTypes, NEW m \in CommandIds, TakeFile(m)
  PROVE  /\ manager[m].pc = "remove"
         /\ ManagerBecomes(m, IF ~Took THEN "dead" ELSE IF manager[m].queued = <<>> THEN "end" ELSE "tick",
                           manager[m].queued, manager[m].active,
                           manager[m].reads, manager[m].others)
         /\ FileBecomes(Tmp, Absent)
         /\ UNCHANGED <<user, command, processes, starts, crashes>>
  <1> DEFINE p == IF ~Took THEN "dead" ELSE IF manager[m].queued = <<>> THEN "end" ELSE "tick"
  <1>1. manager' = [manager EXCEPT ![m].pc = p] /\ p \in ManagerPcs
    BY DEF TakeFile, ManagerPcs
  <1> HIDE DEF p
  <1>3. ManagerBecomes(m, p, manager[m].queued, manager[m].active,
                     manager[m].reads, manager[m].others)
    BY <1>1, ManagerMoves
  <1>4. Absent \in Contents
    BY PathFacts, ContentsFacts, RecordFields DEF LauncherTypes
  <1>5. FileBecomes(Tmp, Absent)
    BY <1>4, PathFacts, FileChange DEF TakeFile
  <1>9. QED
    BY <1>3, <1>5 DEF TakeFile, p

LEMMA ReapEffect ==
  ASSUME LauncherTypes, NEW m \in CommandIds, Reap(m)
  PROVE  /\ manager[m].pc = "tick" /\ ~Complete(m)
         /\ ManagerBecomes(m, "count", manager[m].queued, manager[m].active \cap processes,
                           Others(m), 0)
         /\ UNCHANGED <<user, folder, command, processes, starts, crashes>>
  <1>1. manager[m].active \cap processes \in SUBSET CommandIds /\ Others(m) \in SUBSET Paths
    BY RecordFields DEF LauncherTypes, Others
  <1>2. manager' = [manager EXCEPT ![m].pc = "count", ![m].active = manager[m].active \cap processes,
                                   ![m].reads = Others(m), ![m].others = 0]
    BY DEF Reap
  <1>3. ManagerBecomes(m, "count", manager[m].queued, manager[m].active \cap processes,
                     Others(m), 0)
    BY <1>1, <1>2, ManagerReaps DEF ManagerPcs
  <1>9. QED
    BY <1>3 DEF Reap

LEMMA ManagerOpenEffect ==
  ASSUME LauncherTypes, NEW m \in CommandIds, ManagerOpen(m)
  PROVE  /\ manager[m].pc = "open"
         /\ ManagerBecomes(m, "write", manager[m].queued, manager[m].active,
                           manager[m].reads, manager[m].others)
         /\ FileBecomes(m, Torn)
         /\ UNCHANGED <<user, command, processes, starts, crashes>>
  <1>1. manager' = [manager EXCEPT ![m].pc = "write"] /\ "write" \in ManagerPcs
    BY DEF ManagerOpen, ManagerPcs
  <1>3. ManagerBecomes(m, "write", manager[m].queued, manager[m].active,
                     manager[m].reads, manager[m].others)
    BY <1>1, ManagerMoves
  <1>4. Torn \in Contents
    BY PathFacts, ContentsFacts, RecordFields DEF LauncherTypes
  <1>5. FileBecomes(m, Torn)
    BY <1>4, PathFacts, FileChange DEF ManagerOpen
  <1>9. QED
    BY <1>3, <1>5 DEF ManagerOpen

LEMMA ManagerWriteEffect ==
  ASSUME LauncherTypes, NEW m \in CommandIds, ManagerWrite(m)
  PROVE  /\ manager[m].pc = "write"
         /\ ManagerBecomes(m, "tick", manager[m].queued, manager[m].active,
                           manager[m].reads, manager[m].others)
         /\ FileBecomes(m, Whole(manager[m].queued, manager[m].active))
         /\ UNCHANGED <<user, command, processes, starts, crashes>>
  <1>1. manager' = [manager EXCEPT ![m].pc = "tick"] /\ "tick" \in ManagerPcs
    BY DEF ManagerWrite, ManagerPcs
  <1>3. ManagerBecomes(m, "tick", manager[m].queued, manager[m].active,
                     manager[m].reads, manager[m].others)
    BY <1>1, ManagerMoves
  <1>4. Whole(manager[m].queued, manager[m].active) \in Contents
    BY PathFacts, ContentsFacts, RecordFields DEF LauncherTypes
  <1>5. FileBecomes(m, Whole(manager[m].queued, manager[m].active))
    BY <1>4, PathFacts, FileChange DEF ManagerWrite
  <1>9. QED
    BY <1>3, <1>5 DEF ManagerWrite

LEMMA FinishEffect ==
  ASSUME LauncherTypes, NEW m \in CommandIds, Finish(m)
  PROVE  /\ manager[m].pc = "tick" /\ Complete(m)
         /\ ManagerBecomes(m, "end", manager[m].queued, manager[m].active,
                           manager[m].reads, manager[m].others)
         /\ FileBecomes(m, Absent)
         /\ UNCHANGED <<user, command, processes, starts, crashes>>
  <1>1. manager' = [manager EXCEPT ![m].pc = "end"] /\ "end" \in ManagerPcs
    BY DEF Finish, ManagerPcs
  <1>3. ManagerBecomes(m, "end", manager[m].queued, manager[m].active,
                     manager[m].reads, manager[m].others)
    BY <1>1, ManagerMoves
  <1>4. Absent \in Contents
    BY PathFacts, ContentsFacts, RecordFields DEF LauncherTypes
  <1>5. FileBecomes(m, Absent)
    BY <1>4, PathFacts, FileChange DEF Finish
  <1>9. QED
    BY <1>3, <1>5 DEF Finish

LEMMA CrashEffect ==
  ASSUME LauncherTypes, NEW m \in CommandIds, Crash(m)
  PROVE  /\ crashes < user.crashes /\ Alive(m)
         /\ ManagerBecomes(m, "dead", manager[m].queued, manager[m].active,
                           manager[m].reads, manager[m].others)
         /\ crashes' = crashes + 1
         /\ UNCHANGED <<user, folder, command, processes, starts>>
  <1>1. manager' = [manager EXCEPT ![m].pc = "dead"] /\ "dead" \in ManagerPcs
    BY DEF Crash, ManagerPcs
  <1>3. ManagerBecomes(m, "dead", manager[m].queued, manager[m].active,
                     manager[m].reads, manager[m].others)
    BY <1>1, ManagerMoves
  <1>9. QED
    BY <1>3 DEF Crash

LEMMA LoadEffect ==
  ASSUME LauncherTypes, NEW m \in CommandIds, Load(m)
  PROVE  /\ manager[m].pc = "load"
         /\ IF folder[Tmp].is # "whole"
              THEN ManagerBecomes(m, "dead", manager[m].queued, manager[m].active,
                                  manager[m].reads, manager[m].others)
              ELSE ManagerBecomes(m, "remove", folder[Tmp].queued, manager[m].active,
                                  manager[m].reads, manager[m].others)
         /\ UNCHANGED <<user, folder, command, processes, starts, crashes>>
  <1>1. CASE folder[Tmp].is # "whole"
    <2>1. manager' = [manager EXCEPT ![m].pc = "dead"]
      BY <1>1 DEF Load, At
    <2>2. QED
      BY <1>1, <2>1, ManagerMoves DEF Load, ManagerPcs
  <1>2. CASE folder[Tmp].is = "whole"
    <2> DEFINE q == folder[Tmp].queued
               a == manager[m].active
    <2>1. q \in Seq(CommandIds)
      BY PathFacts, ContentsFacts DEF LauncherTypes
    <2>2. a \in SUBSET CommandIds
      BY RecordFields DEF LauncherTypes
    <2>3. manager[m] \in Managers
      BY DEF LauncherTypes
    <2>4. manager' = [manager EXCEPT ![m] = [@ EXCEPT !.pc = "remove", !.queued = q]]
      BY <1>2 DEF Load
    <2>5. [manager[m] EXCEPT !.pc = "remove", !.queued = q]
            = [manager[m] EXCEPT !.pc = "remove", !.queued = q, !.active = a]
      BY <2>3 DEF Managers
    <2>6. manager' = [manager EXCEPT ![m].pc = "remove", ![m].queued = q, ![m].active = a]
      BY <2>4, <2>5 DEF LauncherTypes
    <2> HIDE DEF q, a
    <2>7. "remove" \in ManagerPcs
      BY DEF ManagerPcs
    <2>8. ManagerBecomes(m, "remove", q, a, manager[m].reads, manager[m].others)
      BY <2>1, <2>2, <2>6, <2>7, ManagerTakes
    <2>9. QED
      BY <1>2, <2>8 DEF Load, q, a
  <1>3. QED
    BY <1>1, <1>2

LEMMA CountEffect ==
  ASSUME LauncherTypes, NEW m \in CommandIds, Count(m)
  PROVE  /\ manager[m].pc = "count"
         /\ \E p \in manager[m].reads :
              IF folder[p].is # "whole"
                THEN ManagerBecomes(m, "dead", manager[m].queued, manager[m].active,
                                    manager[m].reads, manager[m].others)
                ELSE ManagerBecomes(m, "count", manager[m].queued, manager[m].active,
                                    manager[m].reads \ {p},
                                    manager[m].others + Cardinality(folder[p].active))
         /\ UNCHANGED <<user, folder, command, processes, starts, crashes>>
  <1>1. PICK p \in manager[m].reads :
          manager' = [manager EXCEPT ![m] =
            IF folder[p].is # "whole" THEN At(@, "dead")
            ELSE [@ EXCEPT !.reads = manager[m].reads \ {p},
                           !.others = manager[m].others + Cardinality(folder[p].active)]]
    BY DEF Count
  <1>2. manager[m] \in Managers /\ manager[m].reads \subseteq Paths /\ manager[m].pc = "count"
    BY RecordFields DEF LauncherTypes, Count
  <1>3. CASE folder[p].is # "whole"
    <2>1. manager' = [manager EXCEPT ![m].pc = "dead"]
      BY <1>1, <1>3 DEF At
    <2>2. ManagerBecomes(m, "dead", manager[m].queued, manager[m].active,
                         manager[m].reads, manager[m].others)
      BY <2>1, ManagerMoves DEF ManagerPcs
    <2>3. QED
      BY <1>2, <1>3, <2>2 DEF Count
  <1>4. CASE folder[p].is = "whole"
    <2> DEFINE a == manager[m].active
               d == manager[m].reads \ {p}
               o == manager[m].others + Cardinality(folder[p].active)
    <2>1. folder[p].active \subseteq CommandIds
      BY <1>2, ContentsFacts DEF LauncherTypes
    <2>2. Cardinality(folder[p].active) \in Nat
      BY <2>1, PathFacts, FS_Subset, FS_CardinalityType
    <2>3. a \in SUBSET CommandIds /\ d \in SUBSET Paths /\ o \in Nat
      BY <1>2, <2>2, RecordFields
    <2>4. manager' = [manager EXCEPT ![m] = [@ EXCEPT !.reads = d, !.others = o]]
      BY <1>1, <1>4
    <2> HIDE DEF d, o
    <2>5. [manager[m] EXCEPT !.reads = d, !.others = o]
            = [manager[m] EXCEPT !.pc = "count", !.active = a, !.reads = d, !.others = o]
      BY <1>2 DEF Managers
    <2>6. manager' = [manager EXCEPT ![m].pc = "count", ![m].active = a, ![m].reads = d,
                                     ![m].others = o]
      BY <2>4, <2>5 DEF LauncherTypes
    <2> HIDE DEF a
    <2>7. "count" \in ManagerPcs
      BY DEF ManagerPcs
    <2>8. ManagerBecomes(m, "count", manager[m].queued, a, d, o)
      BY <2>3, <2>6, <2>7, ManagerReaps
    <2>9. QED
      BY <1>2, <1>4, <2>8 DEF Count, a, d, o
  <1>5. QED
    BY <1>3, <1>4

LEMMA LaunchEffect ==
  ASSUME LauncherTypes, NEW m \in CommandIds, LaunchJobs(m), IsInjective(manager[m].queued)
  PROVE  LET n   == Launched(m)
             q   == manager[m].queued
             new == ToSet(SubSeq(q, 1, n))
         IN /\ manager[m].pc = "count" /\ manager[m].reads = {}
            /\ new \subseteq ToSet(q) /\ new \subseteq CommandIds
            /\ IsFiniteSet(new) /\ Cardinality(new) = n /\ n \in Nat
            /\ n = 0 \/ n <= Free(m)
            /\ IsInjective(StillQueued(m))
            /\ ToSet(StillQueued(m)) = ToSet(q) \ new
            /\ ManagerBecomes(m, "open", StillQueued(m), manager[m].active \cup new,
                              manager[m].reads, manager[m].others)
            /\ processes' = processes \cup new
            /\ \A j \in CommandIds : starts'[j] = IF j \in new THEN starts[j] + 1 ELSE starts[j]
            /\ starts' \in [CommandIds -> Nat]
            /\ UNCHANGED <<user, folder, command, crashes>>
  <1> DEFINE n == Launched(m)
             q == manager[m].queued
             new == ToSet(SubSeq(q, 1, n))
             a == manager[m].active \cup new
  <1>1. manager[m].active \subseteq CommandIds
    BY RecordFields DEF LauncherTypes
  <1>2. /\ n \in 0 .. Len(q) /\ (n = 0 \/ n <= Free(m))
        /\ new \subseteq ToSet(q) /\ new \subseteq CommandIds
        /\ IsFiniteSet(new) /\ Cardinality(new) = n
        /\ StillQueued(m) \in Seq(CommandIds) /\ IsInjective(StillQueued(m))
        /\ ToSet(StillQueued(m)) = ToSet(q) \ new
    BY <1>1, LaunchedFacts
  <1>3. /\ manager[m].pc = "count" /\ manager[m].reads = {}
        /\ manager' = [manager EXCEPT ![m].pc = "open", ![m].queued = StillQueued(m),
                                      ![m].active = a]
        /\ processes' = processes \cup new
        /\ starts' = [j \in CommandIds |-> IF j \in new THEN starts[j] + 1 ELSE starts[j]]
        /\ UNCHANGED <<user, folder, command, crashes>>
    BY DEF LaunchJobs
  <1>4. a \in SUBSET CommandIds /\ "open" \in ManagerPcs
    BY <1>1, <1>2 DEF ManagerPcs
  <1> HIDE DEF new, a
  <1>5. starts' \in [CommandIds -> Nat]
    BY <1>3 DEF LauncherTypes
  <1> HIDE DEF n, q
  <1>6. ManagerBecomes(m, "open", StillQueued(m), a, manager[m].reads, manager[m].others)
    BY <1>2, <1>3, <1>4, ManagerTakes
  <1>7. n \in Nat
    BY <1>2 DEF q
  <1>8. QED
    BY <1>2, <1>3, <1>5, <1>6, <1>7 DEF new, n, q, a
-----------------------------------------------------------------------------
(* What an action leaves as it is, it keeps                                *)
LEMMA EmptyQueue == IsInjective(<<>>) /\ ToSet(<<>>) = {}
  BY EmptySeq DEF IsInjective, ToSet

\* The actions that touch neither commands nor their files.
LEMMA QueueFrame ==
  ASSUME LInv, UNCHANGED <<command, starts>>,
         folder'[Main] = folder[Main], folder'[Tmp] = folder[Tmp],
         \A m \in CommandIds : /\ manager'[m].queued = manager[m].queued
                               /\ manager'[m].pc = "load" => manager[m].pc = "load"
  PROVE  FilesSound' /\ MemorySound' /\ HandoverFresh' /\ HeldSound'
  <1>1. /\ Filed(Main)' = Filed(Main) /\ Filed(Tmp)' = Filed(Tmp)
        /\ \A m \in CommandIds : Queue(m)' = Queue(m)
        /\ \A j : Submitted(j)' <=> Submitted(j)
    BY DEF Filed, Queue, Submitted
  <1>2. \A c \in CommandIds : Working(c)' <=> Working(c)
    BY DEF Working
  <1>3. FilesSound'
    BY <1>1 DEF LInv, QueueInv, FilesSound
  <1>4. MemorySound'
    BY <1>1, <1>2 DEF LInv, QueueInv, MemorySound, Fresh
  <1>5. HandoverFresh'
    BY <1>1 DEF LInv, QueueInv, HandoverFresh, Fresh
  <1>6. HeldSound'
    BY <1>1 DEF LInv, QueueInv, HeldSound
  <1>7. QED
    BY <1>3, <1>4, <1>5, <1>6

LEMMA KeptFrame ==
  ASSUME LInv, UNCHANGED <<command, starts>>,
         folder'[Main] = folder[Main], folder'[Tmp] = folder[Tmp],
         crashes' = 0 => crashes = 0,
         \A m \in CommandIds :
           /\ manager'[m].queued = manager[m].queued
           /\ manager[m].pc = "load" => manager'[m].pc = "load" \/ crashes' # 0
  PROVE  KeptInv'
  <1> SUFFICES ASSUME crashes' = 0 PROVE KeptInv'
    BY DEF KeptInv
  <1>1. /\ Filed(Main)' = Filed(Main) /\ Filed(Tmp)' = Filed(Tmp)
        /\ \A m \in CommandIds : Queue(m)' = Queue(m)
        /\ \A j : Submitted(j)' <=> Submitted(j)
        /\ \A j : Started(j)' <=> Started(j)
    BY DEF Filed, Queue, Submitted, Started
  <1>2. \A c \in CommandIds : Working(c)' <=> Working(c)
    BY DEF Working
  <1>3. \A j : Safe(j) => Safe(j)'
    BY <1>1 DEF Safe
  <1>4. QED
    BY <1>1, <1>2, <1>3 DEF LInv, KeptInv

\* All actions that count nothing and launch nothing.
LEMMA CountFrame ==
  ASSUME LInv, starts' = starts,
         \A m \in CommandIds : /\ manager'[m].others = manager[m].others
                               /\ manager'[m].reads = manager[m].reads
                               /\ manager'[m].pc = "count" => manager[m].pc = "count"
                               /\ manager'[m].active \subseteq manager[m].active
                               /\ \/ folder'[m].active \subseteq folder[m].active
                                  \/ folder'[m].active \subseteq manager[m].active
  PROVE  CountInv' /\ \A m \in CommandIds : Shown(m)' \subseteq Shown(m)
  <1>1. \A m \in CommandIds : Shown(m)' \subseteq Shown(m)
    BY DEF Shown
  <1>2. \A j : Started(j)' <=> Started(j)
    BY DEF Started
  <1>3. ASSUME NEW m \in CommandIds, manager'[m].pc = "count" PROVE Counted(m)'
    <2>1. Counted(m)
      BY <1>3 DEF LInv, CountInv
    <2>2. PICK G \in SUBSET CommandIds :
            /\ manager[m].others <= Cardinality(G)
            /\ \A j \in G : Started(j)
            /\ \A p \in manager[m].reads \cap CommandIds : G \cap Shown(p) = {}
      BY <2>1 DEF Counted
    <2>3. /\ manager'[m].others <= Cardinality(G)
          /\ \A j \in G : Started(j)'
          /\ \A p \in manager'[m].reads \cap CommandIds : G \cap Shown(p)' = {}
      BY <1>1, <1>2, <2>2
    <2>4. QED
      BY <2>3 DEF Counted
  <1>4. QED
    BY <1>1, <1>3 DEF LInv, CountInv

LEMMA StartsFrame ==
  ASSUME LInv, starts' = starts, \A m \in CommandIds : Shown(m)' \subseteq Shown(m),
         \A j \in CommandIds : Submitted(j) => Submitted(j)'
  PROVE  StartsInv'
  <1>1. \A j : Started(j)' <=> Started(j)
    BY DEF Started
  <1>2. QED
    BY <1>1 DEF LInv, StartsInv

\* The commands, for the patient user.
LEMMA PatientFrame ==
  ASSUME LInv, UNCHANGED <<user, manager, processes>>,
         \A m \in CommandIds : folder'[m] = folder[m],
         \A p \in Paths : folder[p].is # "absent" => folder'[p].is # "absent",
         Patient => \/ folder'[Tmp] = folder[Tmp]
                    \/ \A m \in CommandIds : ~Alive(m),
         Patient => \/ \A c \in CommandIds : Working(c)' => Working(c)
                    \/ \A m \in CommandIds : ~Alive(m)
  PROVE  PatientInv'
  <1> SUFFICES ASSUME Patient PROVE PatientInv'
    BY DEF PatientInv, Patient
  <1>1. \A m \in CommandIds : /\ Alive(m)' <=> Alive(m)
                              /\ Starting(m)' <=> Starting(m)
                              /\ Current(m)' = Current(m)
                              /\ manager[m].reads \subseteq Paths
    BY RecordFields DEF Alive, Starting, Current, LInv, LauncherTypes
  <1>2. OneManager'
    BY <1>1 DEF LInv, PatientInv, OneManager
  <1>3. FilesSettled'
    BY <1>1 DEF LInv, PatientInv, FilesSettled
  <1>4. ASSUME NEW m \in CommandIds
        PROVE  Behind(m)' = Behind(m)
    BY DEF Behind
  <1>5. OthersCounted'
    BY <1>4 DEF LInv, PatientInv, OthersCounted
  <1>6. WithinInv'
    BY <1>1 DEF LInv, PatientInv, WithinInv
  <1>7. QED
    BY <1>2, <1>3, <1>5, <1>6 DEF PatientInv
-----------------------------------------------------------------------------
(* The steps of the commands                                               *)
LEMMA SubmittedStays ==
  ASSUME NEW c \in CommandIds, NEW k, NEW p, NEW q, CommandBecomes(c, k, p, q),
         command[c].pc # "end"
  PROVE  /\ \A j \in CommandIds : Submitted(j) => Submitted(j)'
         /\ p # "end" => \A j \in CommandIds : Submitted(j)' => Submitted(j)
  BY DEF CommandBecomes, Submitted

LEMMA QueueTypes ==
  ASSUME LauncherTypes
  PROVE  /\ \A p \in Paths : folder[p].queued \in Seq(CommandIds) /\ Filed(p) \subseteq CommandIds
         /\ \A m \in CommandIds : /\ manager[m].queued \in Seq(CommandIds)
                                  /\ Queue(m) \subseteq CommandIds
         /\ \A c \in CommandIds : /\ command[c].queued \in Seq(CommandIds)
                                  /\ ToSet(command[c].queued) \subseteq CommandIds
  <1>1. /\ \A p \in Paths : folder[p].queued \in Seq(CommandIds)
        /\ \A m \in CommandIds : manager[m].queued \in Seq(CommandIds)
        /\ \A c \in CommandIds : command[c].queued \in Seq(CommandIds)
    BY ContentsFacts, RecordFields DEF LauncherTypes
  <1>2. QED
    BY <1>1, ElementsOfSeq DEF Filed, Queue

LEMMA IssueStep ==
  ASSUME LInv, user.waits \in {"taken", "all"}, NEW c \in CommandIds, Issue(c)
  PROVE  LInv'
  <1>1. /\ command[c].pc = "new"
        /\ UNCHANGED <<user, folder, manager, processes, starts, crashes>>
    BY IssueEffect DEF LInv
  <1>2. PICK kind \in {"submit", "start"} :
          MayIssue(kind) /\ CommandBecomes(c, kind, "load", command[c].queued)
    BY IssueEffect DEF LInv
  <1>3. \A d \in CommandIds : ~Working(d) /\ ~Starting(d)
    <2>1. user.waits = "taken" => \A d \in CommandIds : ~Working(d) /\ ~Starting(d)
      BY <1>2 DEF MayIssue
    <2>2. user.waits = "all" => \A d \in CommandIds : ~Working(d) /\ ~Alive(d)
      BY <1>2 DEF MayIssue
    <2>3. \A d \in CommandIds : Starting(d) => Alive(d)
      BY DEF Starting, Alive
    <2>4. QED
      BY <2>1, <2>2, <2>3
  <1>4. /\ \A j \in CommandIds : Submitted(j)' <=> Submitted(j)
        /\ Filed(Main)' = Filed(Main) /\ Filed(Tmp)' = Filed(Tmp)
        /\ \A m \in CommandIds : Queue(m)' = Queue(m)
        /\ command[c].queued = <<>> /\ command[c].kind = "none"
    BY <1>1, <1>2, SubmittedStays DEF Filed, Queue, LInv, CommandInv
  <1>5. LauncherTypes'
    BY <1>1, <1>2 DEF LInv, LauncherTypes, CommandBecomes
  <1>6. CommandInv'
    <2>1. \A d, e \in CommandIds : Working(d)' /\ Working(e)' => d = e
      BY <1>2, <1>3 DEF Working, CommandBecomes
    <2>2. ASSUME NEW d \in CommandIds
          PROVE  /\ command'[d].pc = "new" <=> command'[d].kind = "none"
                 /\ command'[d].pc \in {"new", "load"} => command'[d].queued = <<>>
                 /\ Handing(d)' => Handing(d) /\ d # c
                 /\ d # c => command'[d] = command[d]
      BY <1>2, <1>4 DEF LInv, CommandInv, CommandBecomes, Handing
    <2>3. folder[Main].is = "torn" => \E d \in CommandIds : command'[d].pc = "write"
      BY <1>1, <1>2 DEF LInv, CommandInv, CommandBecomes
    <2>4. QED
      BY <1>1, <1>2, <2>1, <2>2, <2>3 DEF LInv, CommandInv, CommandBecomes
  <1>7. FolderInv'
    BY <1>1, PathFacts DEF LInv, FolderInv
  <1>8. ManagerInv'
    <2>1. \A m \in CommandIds : manager[m].pc = "none" \/ m # c
      BY <1>4 DEF LInv, ManagerInv
    <2>2. \A m \in CommandIds : ~Starting(m)'
      BY <1>1, <1>3 DEF Starting
    <2>3. ASSUME NEW m \in CommandIds, manager'[m].pc # "none"
          PROVE  command'[m].kind = "start" /\ command'[m].pc \in {"open", "write", "end"}
      BY <1>1, <1>2, <2>1, <2>3 DEF LInv, ManagerInv, CommandBecomes
    <2>4. QED
      BY <1>1, <2>2, <2>3 DEF LInv, ManagerInv
  <1>9. FilesSound'
    BY <1>1, <1>4, QueueTypes, PathFacts DEF LInv, QueueInv, FilesSound
  <1>10. MemorySound'
    BY <1>1, <1>2, <1>3, <1>4, EmptyQueue
       DEF LInv, QueueInv, MemorySound, CommandBecomes, Working, Fresh
  <1>11. HandoverFresh'
    BY <1>1, <1>2, <1>4 DEF LInv, QueueInv, HandoverFresh, Fresh, CommandBecomes
  <1>12. HeldSound'
    BY <1>1, <1>4, QueueTypes DEF LInv, QueueInv, HeldSound
  <1>13. StartsInv' /\ CountInv'
    BY <1>1, <1>4, CountFrame, StartsFrame
  <1>14. KeptInv'
    <2>1. \A j : Safe(j)' <=> Safe(j)
      BY <1>1 DEF Safe, Started, Filed, Queue
    <2>2. \A d \in CommandIds : Working(d) => Working(d)' /\ command'[d] = command[d]
      BY <1>3
    <2>3. QED
      BY <1>1, <1>2, <1>4, <2>1, <2>2 DEF LInv, KeptInv, CommandBecomes
  <1>15. PatientInv'
    <2>1. Patient => \A m \in CommandIds : ~Alive(m)
      BY <1>2 DEF Patient, MayIssue
    <2>2. QED
      BY <1>1, <2>1, PatientFrame
  <1>20. QED
    BY <1>5, <1>6, <1>7, <1>8, <1>9, <1>10, <1>11, <1>12, <1>13, <1>14, <1>15
       DEF LInv, QueueInv
LEMMA SubmitLoadStep ==
  ASSUME LInv, NEW c \in CommandIds, SubmitLoad(c)
  PROVE  LInv'
  <1>1. /\ command[c].kind = "submit" /\ command[c].pc = "load"
        /\ IF folder[Main].is = "torn"
             THEN CommandBecomes(c, "submit", "failed", command[c].queued)
             ELSE CommandBecomes(c, "submit", "open", Append(folder[Main].queued, c))
        /\ UNCHANGED <<user, folder, manager, processes, starts, crashes>>
    BY SubmitLoadEffect DEF LInv
  \* The only command that works does not write.
  <1>2. folder[Main].is # "torn"
    BY <1>1 DEF LInv, CommandInv, Working
  <1>3. CommandBecomes(c, "submit", "open", Append(folder[Main].queued, c))
    BY <1>1, <1>2
  <1>4. /\ \A j \in CommandIds : Submitted(j)' <=> Submitted(j)
        /\ Filed(Main)' = Filed(Main) /\ Filed(Tmp)' = Filed(Tmp)
        /\ \A m \in CommandIds : Queue(m)' = Queue(m)
        /\ \A d \in CommandIds : Working(d) => d = c
        /\ \A d \in CommandIds : Working(d)' <=> Working(d)
    BY <1>1, <1>3, SubmittedStays
       DEF Filed, Queue, LInv, CommandInv, Working, CommandBecomes
  <1>0. PICK q : q = Append(folder[Main].queued, c)
    OBVIOUS
  <1>5. /\ IsInjective(q) /\ ToSet(q) = Filed(Main) \cup {c}
        /\ \A j \in Filed(Main) : Submitted(j)
        /\ ~Submitted(c)
    <2>1. folder[Main].queued \in Seq(CommandIds) /\ IsInjective(folder[Main].queued)
      BY PathFacts, QueueTypes DEF LInv, QueueInv, FilesSound
    <2>2. \A j \in Filed(Main) : Submitted(j)
      BY DEF LInv, QueueInv, FilesSound
    <2>3. ~Submitted(c)
      BY <1>1 DEF Submitted
    <2>4. c \notin ToSet(folder[Main].queued)
      BY <2>2, <2>3 DEF Filed
    <2>5. QED
      BY <2>1, <2>2, <2>3, <2>4, <1>0, AppendElements DEF Filed
  <1>6. LauncherTypes'
    BY <1>1, <1>3 DEF LInv, LauncherTypes, CommandBecomes
  <1>7. CommandInv'
    BY <1>1, <1>3, PathFacts, SMTT(30) DEF LInv, CommandInv, Working, Handing, CommandBecomes
  <1>8. FolderInv'
    BY <1>1, PathFacts DEF LInv, FolderInv
  <1>9. ManagerInv'
    BY <1>1, <1>3, PathFacts, SMTT(30) DEF LInv, ManagerInv, Starting, Working, CommandBecomes
  <1>10. FilesSound'
    BY <1>1, <1>4, QueueTypes, PathFacts DEF LInv, QueueInv, FilesSound
  <1>11. MemorySound'
    <2>1. \A d \in CommandIds : ~(command[d].kind = "start" /\ command[d].pc = "open")
      BY <1>1, <1>4 DEF Working
    <2>2. Fresh(Filed(Main))
      BY <2>1 DEF LInv, QueueInv, HandoverFresh
    <2>3. starts[c] = 0 /\ \A m \in CommandIds : c \notin Queue(m)
      BY <1>5 DEF LInv, LauncherTypes, StartsInv, QueueInv, HeldSound
    <2>4. Fresh(ToSet(q))'
      BY <1>1, <1>4, <1>5, <2>2, <2>3 DEF Fresh
    <2>5. command'[c].queued = q
      BY <1>0, <1>3 DEF CommandBecomes
    <2>6. \A j \in ToSet(q) : j = c \/ Submitted(j)'
      BY <1>4, <1>5, QueueTypes, PathFacts DEF LInv
    <2>7. QED
      BY <1>4, <1>5, <2>4, <2>5, <2>6 DEF MemorySound, Fresh
  <1>12. HandoverFresh'
    BY <1>1, <1>3, <1>4 DEF LInv, QueueInv, HandoverFresh, Fresh, CommandBecomes
  <1>13. HeldSound'
    BY <1>1, <1>4, QueueTypes DEF LInv, QueueInv, HeldSound
  <1>14. StartsInv' /\ CountInv'
    BY <1>1, <1>4, CountFrame, StartsFrame
  <1>15. KeptInv'
    <2>1. \A j : Safe(j)' <=> Safe(j)
      BY <1>1 DEF Safe, Started, Filed, Queue
    <2>2. command[c].queued = <<>>
      BY <1>1 DEF LInv, CommandInv
    <2>3. \A d \in CommandIds : Working(d) => ToSet(command[d].queued) = {}
      BY <1>4, <2>2, EmptyQueue
    <2>4. \A d \in CommandIds : command'[d].kind = "start" /\ command'[d].pc = "open"
            => command[d].kind = "start" /\ command[d].pc = "open"
      BY <1>3 DEF CommandBecomes
    <2>5. QED
      BY <1>1, <1>4, <2>1, <2>3, <2>4 DEF LInv, KeptInv
  <1>16. PatientInv'
    BY <1>1, <1>4, PatientFrame
  <1>20. QED
    BY <1>6, <1>7, <1>8, <1>9, <1>10, <1>11, <1>12, <1>13, <1>14, <1>15, <1>16
       DEF LInv, QueueInv

LEMMA StartLoadStep ==
  ASSUME LInv, NEW c \in CommandIds, StartLoad(c)
  PROVE  LInv'
  <1>1. /\ command[c].kind = "start" /\ command[c].pc = "load"
        /\ IF folder[Main].is # "whole"
             THEN CommandBecomes(c, "start", "failed", command[c].queued)
             ELSE CommandBecomes(c, "start", "copy", folder[Main].queued)
        /\ UNCHANGED <<user, folder, manager, processes, starts, crashes>>
    BY StartLoadEffect DEF LInv
  <1>2. PICK p, q : /\ CommandBecomes(c, "start", p, q)
                    /\ \/ p = "failed" /\ q = command[c].queued /\ folder[Main].is # "whole"
                       \/ p = "copy" /\ q = folder[Main].queued /\ folder[Main].is = "whole"
    BY <1>1
  <1>3. command[c].queued = <<>>
    BY <1>1 DEF LInv, CommandInv
  <1>4. /\ \A j \in CommandIds : Submitted(j)' <=> Submitted(j)
        /\ Filed(Main)' = Filed(Main) /\ Filed(Tmp)' = Filed(Tmp)
        /\ \A m \in CommandIds : Queue(m)' = Queue(m)
        /\ \A d \in CommandIds : Working(d) => d = c
        /\ \A d \in CommandIds : Working(d)' => Working(d)
    BY <1>1, <1>2, SubmittedStays
       DEF Filed, Queue, LInv, CommandInv, Working, CommandBecomes
  <1>5. LauncherTypes'
    BY <1>1, <1>2 DEF LInv, LauncherTypes, CommandBecomes
  <1>6. CommandInv'
    BY <1>1, <1>2, PathFacts, SMTT(30) DEF LInv, CommandInv, Working, Handing, CommandBecomes
  <1>7. FolderInv'
    BY <1>1, PathFacts DEF LInv, FolderInv
  <1>8. ManagerInv'
    BY <1>1, <1>2, PathFacts, SMTT(30) DEF LInv, ManagerInv, Starting, Working, CommandBecomes
  <1>9. FilesSound'
    BY <1>1, <1>4, QueueTypes, PathFacts DEF LInv, QueueInv, FilesSound
  <1>10. MemorySound'
    <2>1. \A d \in CommandIds : ~(command[d].kind = "start" /\ command[d].pc = "open")
      BY <1>1, <1>4 DEF Working
    <2>2. Fresh(Filed(Main)) /\ \A j \in Filed(Main) : Submitted(j)
      BY <2>1 DEF LInv, QueueInv, HandoverFresh, FilesSound
    <2>3. IsInjective(folder[Main].queued)
      BY DEF LInv, QueueInv, FilesSound
    <2>4. /\ IsInjective(q) /\ \A j \in ToSet(q) : j = c \/ Submitted(j)
          /\ Fresh(ToSet(q))
      BY <1>2, <1>3, <2>2, <2>3, EmptyQueue DEF Fresh, Filed
    <2>5. Fresh(ToSet(q))'
      BY <1>1, <1>4, <2>4 DEF Fresh
    <2>6. command'[c].queued = q /\ q \in Seq(CommandIds)
      BY <1>2, <1>3, QueueTypes, EmptySeq, PathFacts DEF CommandBecomes, LInv
    <2>7. \A j \in ToSet(q) : j = c \/ Submitted(j)'
      BY <1>4, <2>4, <2>6, ElementsOfSeq
    <2>8. QED
      BY <1>4, <2>4, <2>5, <2>6, <2>7 DEF MemorySound, Fresh
  <1>11. HandoverFresh'
    BY <1>1, <1>2, <1>4 DEF LInv, QueueInv, HandoverFresh, Fresh, CommandBecomes
  <1>12. HeldSound'
    BY <1>1, <1>4, QueueTypes DEF LInv, QueueInv, HeldSound
  <1>13. StartsInv' /\ CountInv'
    BY <1>1, <1>4, CountFrame, StartsFrame
  <1>14. KeptInv'
    <2>1. \A j : Safe(j)' <=> Safe(j)
      BY <1>1 DEF Safe, Started, Filed, Queue
    <2>2. \A d \in CommandIds : Working(d) => ToSet(command[d].queued) = {}
      BY <1>3, <1>4, EmptyQueue
    <2>3. \A d \in CommandIds : command'[d].kind = "start" /\ command'[d].pc = "open"
            => command[d].kind = "start" /\ command[d].pc = "open"
      BY <1>2 DEF CommandBecomes
    <2>4. QED
      BY <1>1, <1>4, <2>1, <2>2, <2>3 DEF LInv, KeptInv
  <1>15. PatientInv'
    BY <1>1, <1>4, PatientFrame
  <1>20. QED
    BY <1>5, <1>6, <1>7, <1>8, <1>9, <1>10, <1>11, <1>12, <1>13, <1>14, <1>15
       DEF LInv, QueueInv
\* While a queue is handed over, nobody else is at the files.
LEMMA HandingFacts ==
  ASSUME LInv, NEW c \in CommandIds, Handing(c)
  PROVE  /\ Working(c) /\ \A d \in CommandIds : Working(d) => d = c
         /\ command[c].kind = "start" /\ command[c].pc # "end"
         /\ manager[c].pc = "none" /\ \A m \in CommandIds : ~Starting(m)
         /\ Patient => \A m \in CommandIds : ~Alive(m)
         /\ ToSet(command[c].queued) = Filed(Main) /\ folder[Main].is = "whole"
         /\ Fresh(Filed(Main))
  <1>1. Working(c) /\ \A d \in CommandIds : Working(d) => d = c
    BY DEF LInv, CommandInv, Working, Handing
  <1>2. /\ command[c].kind = "start" /\ folder[Main].is = "whole"
        /\ command[c].queued = folder[Main].queued
    BY DEF LInv, CommandInv
  <1>3. manager[c].pc = "none"
    BY DEF LInv, ManagerInv, Handing
  <1>4. \A m \in CommandIds : ~Starting(m)
    BY <1>1, <1>3 DEF LInv, ManagerInv, Starting
  <1>5. Patient => \A m \in CommandIds : ~Alive(m)
    BY <1>1, <1>3 DEF LInv, PatientInv, OneManager, Alive
  <1>6. \A d \in CommandIds : ~(command[d].kind = "start" /\ command[d].pc = "open")
    BY <1>1 DEF Working, Handing
  <1>7. Fresh(Filed(Main))
    BY <1>6 DEF LInv, QueueInv, HandoverFresh
  <1>8. QED
    BY <1>1, <1>2, <1>3, <1>4, <1>5, <1>7 DEF Filed, Handing

LEMMA HandingFrame ==
  ASSUME LInv, NEW c \in CommandIds, Handing(c), NEW p \in {"fill", "mode", "spawn"},
         CommandBecomes(c, command[c].kind, p, command[c].queued),
         folder'[Main] = folder[Main], \A m \in CommandIds : folder'[m] = folder[m],
         folder'[Tmp] \in {folder[Tmp], folder[Main], Torn},
         folder[Tmp].is # "absent" => folder'[Tmp].is # "absent",
         UNCHANGED <<user, manager, processes, starts, crashes>>
  PROVE  FolderInv' /\ ManagerInv' /\ QueueInv' /\ StartsInv' /\ CountInv' /\ KeptInv' /\ PatientInv'
  <1>1. /\ Working(c) /\ \A d \in CommandIds : Working(d) => d = c
        /\ command[c].kind = "start" /\ command[c].pc # "end"
        /\ manager[c].pc = "none" /\ \A m \in CommandIds : ~Starting(m)
        /\ Patient => \A m \in CommandIds : ~Alive(m)
        /\ ToSet(command[c].queued) = Filed(Main) /\ folder[Main].is = "whole"
        /\ Fresh(Filed(Main))
    BY HandingFacts
  <1>2. /\ \A j \in CommandIds : Submitted(j)' <=> Submitted(j)
        /\ Filed(Main)' = Filed(Main)
        /\ \A m \in CommandIds : Queue(m)' = Queue(m)
        /\ \A d \in CommandIds : Working(d)' <=> Working(d)
        /\ \A m \in CommandIds : Starting(m)' <=> Starting(m)
        /\ \A d \in CommandIds : command'[d].kind = command[d].kind
                                 /\ command'[d].queued = command[d].queued
        /\ command'[c].pc = p
    BY <1>1, SubmittedStays DEF Filed, Queue, Working, Starting, CommandBecomes
  <1>3. FolderInv'
    BY PathFacts DEF LInv, FolderInv, Torn
  <1>4. ManagerInv'
    <2>1. ASSUME NEW m \in CommandIds
          PROVE  /\ manager'[m] = manager[m] /\ ~Starting(m)' /\ ~Starting(m)
                 /\ folder'[m] = folder[m] /\ manager[m].pc # "remove"
                 /\ manager[m].pc # "none" => command'[m] = command[m]
      BY <1>1, <1>2 DEF CommandBecomes, Starting
    <2>2. QED
      BY <2>1 DEF LInv, ManagerInv
  <1>5. FilesSound'
    <2>1. /\ IsInjective(folder[Main].queued) /\ IsInjective(folder[Tmp].queued)
          /\ \A j \in Filed(Main) \cup Filed(Tmp) : Submitted(j)
      BY DEF LInv, QueueInv, FilesSound
    <2>2. IsInjective(folder'[Tmp].queued) /\ Filed(Tmp)' \in {Filed(Tmp), Filed(Main), {}}
      BY <2>1, EmptyQueue DEF Filed, Torn
    <2>3. \A j \in Filed(Main) \cup Filed(Tmp) : Submitted(j)'
      BY <1>2, <2>1, QueueTypes, PathFacts DEF LInv
    <2>4. QED
      BY <1>2, <2>1, <2>2, <2>3 DEF FilesSound
  <1>6. MemorySound'
    BY <1>2, QueueTypes DEF LInv, QueueInv, MemorySound, Fresh
  <1>7. HandoverFresh'
    <2>1. Fresh(Filed(Main))'
      BY <1>1, <1>2 DEF Fresh
    <2>2. \A m \in CommandIds : manager'[m].pc # "load"
      BY <1>1 DEF Starting
    <2>3. QED
      BY <2>1, <2>2 DEF HandoverFresh
  <1>8. HeldSound'
    BY <1>2, QueueTypes DEF LInv, QueueInv, HeldSound
  <1>9. StartsInv' /\ CountInv'
    BY <1>2, CountFrame, StartsFrame
  <1>10. KeptInv'
    <2>1. \A j : Safe(j)' <=> Safe(j)
      BY <1>1 DEF Safe, Started, Filed, Queue, Starting
    <2>2. \A d \in CommandIds : ~(command'[d].kind = "start" /\ command'[d].pc = "open")
      BY <1>1, <1>2 DEF Working, CommandBecomes
    <2>3. QED
      BY <1>2, <2>1, <2>2 DEF LInv, KeptInv
  <1>11. PatientInv'
    BY <1>1, <1>2, PathFacts, PatientFrame
  <1>12. QED
    BY <1>3, <1>4, <1>5, <1>6, <1>7, <1>8, <1>9, <1>10, <1>11 DEF QueueInv

LEMMA CopyOpenStep ==
  ASSUME LInv, NEW c \in CommandIds, CopyOpen(c)
  PROVE  LInv'
  <1>1. /\ command[c].pc = "copy"
        /\ CommandBecomes(c, command[c].kind, "fill", command[c].queued)
        /\ FileBecomes(Tmp, Torn)
        /\ UNCHANGED <<user, manager, processes, starts, crashes>>
    BY CopyOpenEffect DEF LInv
  <1>2. LauncherTypes'
    BY <1>1 DEF LInv, LauncherTypes, CommandBecomes, FileBecomes
  <1>3. CommandInv'
    BY <1>1, PathFacts, SMTT(30) DEF LInv, CommandInv, Working, Handing, CommandBecomes, FileBecomes, Torn
  <1>4. /\ Handing(c) /\ folder'[Main] = folder[Main] /\ folder'[Tmp] = Torn
        /\ \A m \in CommandIds : folder'[m] = folder[m]
    BY <1>1, PathFacts DEF Handing, FileBecomes
  <1>5. folder'[Tmp].is # "absent"
    BY <1>4 DEF Torn
  <1>6. QED
    BY <1>1, <1>2, <1>3, <1>4, <1>5, HandingFrame DEF LInv

LEMMA CopyWriteStep ==
  ASSUME LInv, NEW c \in CommandIds, CopyWrite(c)
  PROVE  LInv'
  <1>1. /\ command[c].pc = "fill"
        /\ CommandBecomes(c, command[c].kind, "mode", command[c].queued)
        /\ FileBecomes(Tmp, (IF folder[Tmp].is = "absent" THEN folder[Tmp] ELSE folder[Main]))
        /\ UNCHANGED <<user, manager, processes, starts, crashes>>
    BY CopyWriteEffect DEF LInv
  \* Nobody has removed the file.
  <1>2. Handing(c) /\ folder[Tmp].is = "torn" /\ folder[Main].is = "whole"
    BY <1>1 DEF LInv, CommandInv, Handing
  <1>3. FileBecomes(Tmp, folder[Main])
    BY <1>1, <1>2
  <1>4. LauncherTypes'
    BY <1>1, <1>3 DEF LInv, LauncherTypes, CommandBecomes, FileBecomes
  <1>5. /\ folder'[Main] = folder[Main] /\ folder'[Tmp] = folder[Main]
        /\ \A m \in CommandIds : folder'[m] = folder[m]
    BY <1>3, PathFacts DEF FileBecomes
  <1>6. CommandInv'
    BY <1>1, <1>2, <1>5 DEF LInv, CommandInv, Working, Handing, CommandBecomes
  <1>7. folder'[Tmp].is # "absent"
    BY <1>2, <1>5
  <1>8. QED
    BY <1>1, <1>2, <1>4, <1>5, <1>6, <1>7, HandingFrame DEF LInv

LEMMA CopyModeStep ==
  ASSUME LInv, NEW c \in CommandIds, CopyMode(c)
  PROVE  LInv'
  <1>1. /\ command[c].pc = "mode"
        /\ CommandBecomes(c, command[c].kind, IF folder[Tmp].is = "absent" THEN "failed" ELSE "spawn",
                          command[c].queued)
        /\ UNCHANGED <<user, folder, manager, processes, starts, crashes>>
    BY CopyModeEffect DEF LInv
  <1>2. Handing(c) /\ folder[Tmp].is = "whole"
    BY <1>1 DEF LInv, CommandInv, Handing
  <1>3. CommandBecomes(c, command[c].kind, "spawn", command[c].queued)
    BY <1>1, <1>2
  <1>4. LauncherTypes'
    BY <1>1, <1>3 DEF LInv, LauncherTypes, CommandBecomes
  <1>5. CommandInv'
    BY <1>1, <1>2, <1>3 DEF LInv, CommandInv, Working, Handing, CommandBecomes
  <1>6. QED
    BY <1>1, <1>2, <1>3, <1>4, <1>5, HandingFrame DEF LInv
LEMMA SpawnStep ==
  ASSUME LInv, NEW c \in CommandIds, Spawn(c)
  PROVE  LInv'
  <1>1. /\ command[c].pc = "spawn"
        /\ CommandBecomes(c, command[c].kind, "open", <<>>)
        /\ ManagerBecomes(c, "load", manager[c].queued, manager[c].active,
                          manager[c].reads, manager[c].others)
        /\ UNCHANGED <<user, folder, processes, starts, crashes>>
    BY SpawnEffect DEF LInv
  <1>2. /\ Handing(c) /\ folder[Tmp] = folder[Main] /\ folder[Main].is = "whole"
    BY <1>1 DEF LInv, CommandInv, Handing
  <1>3. /\ Working(c) /\ \A d \in CommandIds : Working(d) => d = c
        /\ command[c].kind = "start" /\ command[c].pc # "end"
        /\ manager[c].pc = "none" /\ \A m \in CommandIds : ~Starting(m)
        /\ Patient => \A m \in CommandIds : ~Alive(m)
        /\ ToSet(command[c].queued) = Filed(Main)
        /\ Fresh(Filed(Main))
    BY <1>2, HandingFacts
  <1>4. /\ \A j \in CommandIds : Submitted(j)' <=> Submitted(j)
        /\ Filed(Main)' = Filed(Main) /\ Filed(Tmp)' = Filed(Tmp) /\ Filed(Tmp) = Filed(Main)
        /\ \A m \in CommandIds : Queue(m)' = Queue(m)
        /\ \A d \in CommandIds : Working(d)' <=> d = c
        /\ \A m \in CommandIds : Starting(m)' <=> m = c
        /\ command'[c].pc = "open" /\ command'[c].kind = "start" /\ command'[c].queued = <<>>
    BY <1>1, <1>2, <1>3, SubmittedStays
       DEF Filed, Queue, Working, Starting, CommandBecomes, ManagerBecomes
  <1>5. /\ manager[c].queued = <<>> /\ manager[c].active = {} /\ folder[c].is = "absent"
        /\ folder[c].active = {} /\ manager[c].reads \subseteq Paths \ {c}
    BY <1>3, PathFacts DEF LInv, ManagerInv, FolderInv
  <1>6. LauncherTypes'
    BY <1>1 DEF LInv, LauncherTypes, CommandBecomes, ManagerBecomes
  <1>7. CommandInv'
    <2>1. ASSUME NEW d \in CommandIds, d # c
          PROVE  command'[d] = command[d] /\ ~Working(d) /\ ~Working(d)'
      BY <1>1, <1>3, <1>4, <2>1 DEF CommandBecomes
    <2>2. QED
      BY <1>1, <1>2, <1>4, <2>1 DEF LInv, CommandInv, Working, Handing
  <1>8. FolderInv'
    BY <1>1 DEF LInv, FolderInv
  <1>9. ManagerInv'
    <2>1. ASSUME NEW m \in CommandIds, m # c
          PROVE  manager'[m] = manager[m] /\ command'[m] = command[m]
      BY <1>1, <2>1 DEF CommandBecomes, ManagerBecomes
    <2>2. /\ manager'[c].pc = "load" /\ manager'[c].queued = <<>> /\ manager'[c].active = {}
          /\ manager'[c].reads \subseteq Paths \ {c}
      BY <1>1, <1>5 DEF ManagerBecomes
    <2>3. QED
      BY <1>1, <1>2, <1>3, <1>4, <1>5, <2>1, <2>2 DEF LInv, ManagerInv
  <1>10. FilesSound'
    BY <1>1, <1>4, QueueTypes, PathFacts DEF LInv, QueueInv, FilesSound
  <1>11. MemorySound'
    BY <1>4, EmptyQueue DEF MemorySound, Fresh
  <1>12. HandoverFresh'
    <2>1. Fresh(Filed(Tmp))'
      BY <1>1, <1>3, <1>4 DEF Fresh
    <2>2. QED
      BY <1>4, <2>1 DEF HandoverFresh
  <1>13. HeldSound'
    <2>1. \A m \in CommandIds : manager'[m].queued = manager[m].queued
      BY <1>1 DEF ManagerBecomes
    <2>2. QED
      BY <1>1, <1>4, <2>1, QueueTypes DEF LInv, QueueInv, HeldSound
  <1>14. StartsInv' /\ CountInv'
    <2>1. \A m \in CommandIds : /\ manager'[m].others = manager[m].others
                                /\ manager'[m].reads = manager[m].reads
                                /\ manager'[m].pc = "count" => manager[m].pc = "count"
                                /\ manager'[m].active = manager[m].active
      BY <1>1 DEF ManagerBecomes
    <2>2. QED
      BY <1>1, <1>4, <2>1, CountFrame, StartsFrame
  <1>15. KeptInv'
    <2>1. manager'[c].pc = "load" /\ \A m \in CommandIds : manager[m].pc # "load"
      BY <1>1, <1>3 DEF ManagerBecomes, Starting
    <2>2. \A j : Safe(j) => Safe(j)'
      BY <1>1, <1>4, <2>1 DEF Safe, Started
    <2>3. \A j \in Filed(Main) : Safe(j)'
      BY <1>4, <2>1 DEF Safe
    <2>4. QED
      BY <1>1, <1>3, <1>4, <2>2, <2>3 DEF LInv, KeptInv
  <1>16. PatientInv'
    <2> SUFFICES ASSUME Patient PROVE PatientInv'
      BY <1>1 DEF PatientInv, Patient
    <2>1. /\ \A m \in CommandIds : ~Alive(m)
          /\ OneManager /\ FilesSettled /\ OthersCounted /\ WithinInv
      BY <1>3 DEF LInv, PatientInv
    <2>2. /\ \A m \in CommandIds : m # c => manager'[m] = manager[m]
          /\ manager'[c].pc = "load" /\ manager'[c].active = {}
      BY <1>1, <1>5 DEF ManagerBecomes
    <2>3. \A m \in CommandIds : /\ Alive(m)' <=> m = c
                                /\ manager'[m].pc # "count"
                                /\ manager[m].pc # "write"
      BY <2>1, <2>2 DEF Alive
    <2>4. OneManager'
      BY <1>4, <2>3 DEF OneManager
    <2>5. FilesSettled'
      BY <1>1, <1>4, <2>1, <2>3 DEF FilesSettled
    <2>6. OthersCounted'
      BY <2>3 DEF OthersCounted
    <2>7. \A m \in CommandIds : Current(m)' = Current(m)
      BY <1>1, <1>5, <2>1, <2>2, <2>3 DEF Current
    <2>8. WithinInv'
      BY <1>1, <2>1, <2>7 DEF WithinInv
    <2>9. QED
      BY <2>4, <2>5, <2>6, <2>8 DEF PatientInv
  <1>20. QED
    BY <1>6, <1>7, <1>8, <1>9, <1>10, <1>11, <1>12, <1>13, <1>14, <1>15, <1>16
       DEF LInv, QueueInv

LEMMA SaveOpenStep ==
  ASSUME LInv, NEW c \in CommandIds, SaveOpen(c)
  PROVE  LInv'
  <1>1. /\ command[c].pc = "open"
        /\ CommandBecomes(c, command[c].kind, "write", command[c].queued)
        /\ FileBecomes(Main, Torn)
        /\ UNCHANGED <<user, manager, processes, starts, crashes>>
    BY SaveOpenEffect DEF LInv
  <1>2. /\ folder'[Main] = Torn /\ folder'[Tmp] = folder[Tmp]
        /\ \A m \in CommandIds : folder'[m] = folder[m]
        /\ \A d \in CommandIds \ {c} : command'[d] = command[d]
        /\ command'[c].pc = "write" /\ command'[c].kind = command[c].kind
        /\ command'[c].queued = command[c].queued
    BY <1>1, PathFacts DEF FileBecomes, CommandBecomes
  <1>3. /\ \A j \in CommandIds : Submitted(j)' <=> Submitted(j)
        /\ Filed(Main)' = {} /\ Filed(Tmp)' = Filed(Tmp)
        /\ \A m \in CommandIds : Queue(m)' = Queue(m)
        /\ Working(c)
        /\ \A d \in CommandIds : Working(d) => d = c
        /\ \A d \in CommandIds : Working(d)' <=> d = c
        /\ \A d \in CommandIds : command'[d].queued = command[d].queued
        /\ command[c].kind \in {"submit", "start"}
    <2>1. \A j \in CommandIds : Submitted(j)' <=> Submitted(j)
      BY <1>1, SubmittedStays
    <2>2. /\ Filed(Main)' = {} /\ Filed(Tmp)' = Filed(Tmp)
          /\ \A m \in CommandIds : Queue(m)' = Queue(m)
      BY <1>1, <1>2, EmptyQueue DEF Filed, Queue, Torn
    <2>3. Working(c) /\ \A d \in CommandIds : Working(d) => d = c
      BY <1>1 DEF LInv, CommandInv, Working
    <2>4. \A d \in CommandIds : Working(d)' <=> d = c
      BY <1>2, <2>3 DEF Working
    <2>5. command[c].kind \in {"submit", "start"}
      BY <1>1, RecordFields DEF LInv, LauncherTypes, CommandInv
    <2>6. \A d \in CommandIds : command'[d].queued = command[d].queued
      BY <1>2
    <2>7. QED
      BY <2>1, <2>2, <2>3, <2>4, <2>5, <2>6
  <1>4. /\ command[c].kind = "submit" => ToSet(command[c].queued) = Filed(Main) \cup {c}
        /\ command[c].kind = "start" => command[c].queued = <<>>
    <2>1. command[c].kind = "submit" => command[c].queued = Append(folder[Main].queued, c)
      BY <1>1 DEF LInv, CommandInv
    <2>2. folder[Main].queued \in Seq(CommandIds)
      BY QueueTypes, PathFacts DEF LInv
    <2>3. ToSet(Append(folder[Main].queued, c)) = Filed(Main) \cup {c}
      BY <2>2, AppendElements DEF Filed
    <2>4. command[c].kind = "start" => command[c].queued = <<>>
      BY <1>1 DEF LInv, CommandInv
    <2>5. QED
      BY <2>1, <2>3, <2>4
  <1>5. LauncherTypes'
    BY <1>1 DEF LInv, LauncherTypes, CommandBecomes, FileBecomes
  <1>6. CommandInv'
    <2>1. \A d \in CommandIds : d # c => ~Working(d)
      BY <1>3
    <2>2. command'[c].kind = "submit" => c \in ToSet(command'[c].queued)
      BY <1>2, <1>4
    <2>3. folder'[Main].is = "torn"
      BY <1>2 DEF Torn
    <2>4. QED
      BY <1>1, <1>2, <1>3, <1>4, <2>1, <2>2, <2>3 DEF LInv, CommandInv, Working, Handing
  <1>7. FolderInv'
    BY <1>1, PathFacts DEF LInv, FolderInv, FileBecomes, Torn
  <1>8. ManagerInv'
    <2>1. \A m \in CommandIds : Starting(m)' <=> Starting(m)
      BY <1>1 DEF Starting
    <2>2. folder'[Main].queued = <<>>
      BY <1>2 DEF Torn
    <2>3. \A m \in CommandIds : manager[m].pc # "none" =>
            command'[m].kind = "start" /\ command'[m].pc \in {"open", "write", "end"}
      BY <1>2 DEF LInv, ManagerInv
    <2>4. QED
      BY <1>1, <1>2, <1>3, <2>1, <2>2, <2>3 DEF LInv, ManagerInv
  <1>9. FilesSound'
    <2>1. IsInjective(folder'[Main].queued) /\ IsInjective(folder'[Tmp].queued)
      BY <1>2, EmptyQueue DEF Torn, LInv, QueueInv, FilesSound
    <2>2. QED
      BY <1>3, <2>1, QueueTypes, PathFacts DEF LInv, QueueInv, FilesSound
  <1>10. MemorySound'
    <2>1. /\ IsInjective(command[c].queued) /\ ToSet(command[c].queued) \subseteq CommandIds
          /\ \A j \in ToSet(command[c].queued) : j = c \/ Submitted(j)
          /\ Fresh(ToSet(command[c].queued))
      BY <1>3, QueueTypes DEF LInv, QueueInv, MemorySound
    <2>2. \A j \in ToSet(command[c].queued) : j = c \/ Submitted(j)'
      BY <1>3, <2>1
    <2>3. Fresh(ToSet(command[c].queued))'
      BY <1>1, <1>3, <2>1 DEF Fresh
    <2>4. QED
      BY <1>3, <2>1, <2>2, <2>3 DEF MemorySound
  <1>11. HandoverFresh'
    BY <1>1, <1>3 DEF LInv, QueueInv, HandoverFresh, Fresh
  <1>12. HeldSound'
    BY <1>1, <1>3, QueueTypes DEF LInv, QueueInv, HeldSound
  <1>13. StartsInv' /\ CountInv'
    BY <1>1, <1>2, <1>3, CountFrame, StartsFrame
  <1>14. KeptInv'
    <2>1. \A j : Safe(j)' <=> Safe(j)
      BY <1>1, <1>3 DEF Safe, Started
    <2>2. ASSUME crashes = 0, NEW j \in Filed(Main)
          PROVE  j \in ToSet(command[c].queued) \/ Safe(j)
      BY <1>1, <1>3, <1>4, <2>2 DEF LInv, KeptInv
    <2>3. \A d \in CommandIds : ~(command'[d].kind = "start" /\ command'[d].pc = "open")
      BY <1>2, <1>3 DEF Working
    <2>4. QED
      BY <1>1, <1>3, <2>1, <2>2, <2>3 DEF LInv, KeptInv
  <1>15. PatientInv'
    <2>1. folder'[Main].is # "absent"
      BY <1>2 DEF Torn
    <2>2. QED
      BY <1>1, <1>2, <1>3, <2>1, PathFacts, PatientFrame
  <1>20. QED
    BY <1>5, <1>6, <1>7, <1>8, <1>9, <1>10, <1>11, <1>12, <1>13, <1>14, <1>15
       DEF LInv, QueueInv

LEMMA SaveWriteStep ==
  ASSUME LInv, NEW c \in CommandIds, SaveWrite(c)
  PROVE  LInv'
  <1>1. /\ command[c].pc = "write"
        /\ CommandBecomes(c, command[c].kind, "end", command[c].queued)
        /\ FileBecomes(Main, Whole(command[c].queued, {}))
        /\ UNCHANGED <<user, manager, processes, starts, crashes>>
    BY SaveWriteEffect DEF LInv
  <1>2. /\ folder'[Main] = Whole(command[c].queued, {}) /\ folder'[Tmp] = folder[Tmp]
        /\ \A m \in CommandIds : folder'[m] = folder[m]
        /\ \A d \in CommandIds \ {c} : command'[d] = command[d]
        /\ command'[c].pc = "end" /\ command'[c].kind = command[c].kind
        /\ command'[c].queued = command[c].queued
    BY <1>1, PathFacts DEF FileBecomes, CommandBecomes
  <1>3. /\ \A j \in CommandIds : Submitted(j)' <=> Submitted(j) \/ (j = c /\ command[c].kind = "submit")
        /\ Filed(Main) = {} /\ Filed(Main)' = ToSet(command[c].queued)
        /\ Filed(Tmp)' = Filed(Tmp)
        /\ \A m \in CommandIds : Queue(m)' = Queue(m)
        /\ Working(c)
        /\ \A d \in CommandIds : Working(d) => d = c
        /\ \A d \in CommandIds : ~Working(d)'
        /\ command[c].kind \in {"submit", "start"}
    <2>1. Working(c) /\ \A d \in CommandIds : Working(d) => d = c
      BY <1>1 DEF LInv, CommandInv, Working
    <2>2. folder[Main].is = "torn"
      BY <1>1 DEF LInv, CommandInv
    <2>3. folder[Main].queued = <<>>
      BY <2>2, PathFacts DEF LInv, FolderInv
    <2>4. command[c].kind \in {"submit", "start"}
      BY <1>1, RecordFields DEF LInv, LauncherTypes, CommandInv
    <2>5. QED
      BY <1>1, <1>2, <2>1, <2>3, <2>4, EmptyQueue DEF Filed, Queue, Working, Submitted, Whole
  <1>4. /\ command[c].kind = "submit" => c \in ToSet(command[c].queued)
        /\ command[c].kind = "start" => command[c].queued = <<>>
    BY <1>1 DEF LInv, CommandInv
  <1>5. LauncherTypes'
    BY <1>1 DEF LInv, LauncherTypes, CommandBecomes, FileBecomes
  <1>6. CommandInv'
    <2>1. \A d \in CommandIds : d # c => ~Working(d)
      BY <1>3
    <2>2. folder'[Main].is = "whole"
      BY <1>2 DEF Whole
    <2>3. QED
      BY <1>1, <1>2, <1>3, <1>4, <2>1, <2>2 DEF LInv, CommandInv, Working, Handing
  <1>7. FolderInv'
    BY <1>1, PathFacts DEF LInv, FolderInv, FileBecomes, Whole
  <1>8. ManagerInv'
    <2>1. \A m \in CommandIds : Starting(m)' <=> Starting(m)
      BY <1>1 DEF Starting
    <2>2. ASSUME NEW m \in CommandIds, Starting(m) PROVE folder'[Main].queued = <<>>
      <3>1. m = c /\ manager[m].pc # "none"
        BY <1>3, <2>2 DEF LInv, ManagerInv, Starting
      <3>2. command[c].kind = "start"
        BY <3>1 DEF LInv, ManagerInv
      <3>3. QED
        BY <1>2, <1>4, <3>2 DEF Whole
    <2>3. \A m \in CommandIds : manager[m].pc # "none" =>
            command'[m].kind = "start" /\ command'[m].pc \in {"open", "write", "end"}
      BY <1>2 DEF LInv, ManagerInv
    <2>4. QED
      BY <1>1, <1>2, <1>3, <2>1, <2>2, <2>3 DEF LInv, ManagerInv
  <1>9. FilesSound'
    <2>1. IsInjective(command[c].queued) /\ \A j \in ToSet(command[c].queued) : j = c \/ Submitted(j)
      BY <1>3 DEF LInv, QueueInv, MemorySound
    <2>2. \A j \in ToSet(command[c].queued) : Submitted(j)'
      BY <1>3, <1>4, <2>1, QueueTypes, EmptyQueue DEF LInv
    <2>3. folder'[Main].queued = command[c].queued
      BY <1>2 DEF Whole
    <2>4. QED
      BY <1>2, <1>3, <2>1, <2>2, <2>3, QueueTypes, PathFacts DEF LInv, QueueInv, FilesSound
  <1>10. MemorySound'
    BY <1>3 DEF MemorySound
  <1>11. HandoverFresh'
    BY <1>1, <1>3 DEF LInv, QueueInv, HandoverFresh, MemorySound, Fresh
  <1>12. HeldSound'
    BY <1>1, <1>3, QueueTypes DEF LInv, QueueInv, HeldSound
  <1>13. StartsInv' /\ CountInv'
    BY <1>1, <1>2, <1>3, CountFrame, StartsFrame
  <1>14. KeptInv'
    <2>1. \A j : Safe(j)' <=> Safe(j)
      BY <1>1, <1>3 DEF Safe, Started
    <2>2. \A d \in CommandIds : ~(command'[d].kind = "start" /\ command'[d].pc = "open")
      BY <1>3 DEF Working
    <2>3. QED
      BY <1>1, <1>3, <1>4, <2>1, <2>2 DEF LInv, KeptInv
  <1>15. PatientInv'
    <2>1. folder'[Main].is # "absent"
      BY <1>2 DEF Whole
    <2>2. QED
      BY <1>1, <1>2, <1>3, <2>1, PathFacts, PatientFrame
  <1>20. QED
    BY <1>5, <1>6, <1>7, <1>8, <1>9, <1>10, <1>11, <1>12, <1>13, <1>14, <1>15
       DEF LInv, QueueInv
-----------------------------------------------------------------------------
(* The steps of the managers                                               *)
\* Until a manager has taken the file, no other command or manager is at it.
LEMMA StartingFacts ==
  ASSUME LInv, NEW m \in CommandIds, Starting(m)
  PROVE  /\ manager[m].pc # "none" /\ Alive(m) /\ folder[Tmp].is = "whole"
         /\ \A n \in CommandIds : Starting(n) => n = m
         /\ \A c \in CommandIds : Working(c) => c = m
         /\ \A c \in CommandIds : ~Handing(c)
         /\ command[m].kind = "start" /\ command[m].pc \in {"open", "write", "end"}
         /\ command[m].pc # "open" => Filed(Main) = {}
         /\ manager[m].active = {} /\ folder[m].is = "absent" /\ folder[m].active = {}
  <1>1. /\ manager[m].pc # "none" /\ Alive(m) /\ folder[Tmp].is = "whole"
        /\ \A n \in CommandIds : Starting(n) => n = m
        /\ \A c \in CommandIds : Working(c) => c = m
        /\ command[m].pc # "open" => folder[Main].queued = <<>>
        /\ manager[m].active = {} /\ folder[m].is = "absent"
    BY DEF LInv, ManagerInv, Starting, Alive
  <1>2. command[m].kind = "start" /\ command[m].pc \in {"open", "write", "end"}
    BY <1>1 DEF LInv, ManagerInv
  <1>3. \A c \in CommandIds : ~Handing(c)
    BY <1>1, <1>2 DEF Handing, Working
  <1>4. folder[m].active = {}
    BY <1>1, PathFacts DEF LInv, FolderInv
  <1>5. QED
    BY <1>1, <1>2, <1>3, <1>4, EmptyQueue DEF Filed

LEMMA LoadStep ==
  ASSUME LInv, NEW m \in CommandIds, Load(m)
  PROVE  LInv'
  <1>1. /\ manager[m].pc = "load"
        /\ IF folder[Tmp].is # "whole"
             THEN ManagerBecomes(m, "dead", manager[m].queued, manager[m].active,
                                 manager[m].reads, manager[m].others)
             ELSE ManagerBecomes(m, "remove", folder[Tmp].queued, manager[m].active,
                                 manager[m].reads, manager[m].others)
        /\ UNCHANGED <<user, folder, command, processes, starts, crashes>>
    BY LoadEffect DEF LInv
  <1>2. /\ Starting(m) /\ Alive(m) /\ folder[Tmp].is = "whole"
        /\ \A n \in CommandIds : Starting(n) => n = m
        /\ \A c \in CommandIds : Working(c) => c = m
        /\ command[m].kind = "start" /\ command[m].pc \in {"open", "write", "end"}
        /\ command[m].pc # "open" => Filed(Main) = {}
    BY <1>1, StartingFacts DEF Starting
  <1>3. /\ manager' \in [CommandIds -> Managers]
        /\ manager'[m].pc = "remove" /\ manager'[m].queued = folder[Tmp].queued
        /\ manager'[m].active = manager[m].active
        /\ manager'[m].reads = manager[m].reads /\ manager'[m].others = manager[m].others
        /\ \A n \in CommandIds \ {m} : manager'[n] = manager[n]
    BY <1>1, <1>2 DEF ManagerBecomes
  <1>4. /\ \A j : Submitted(j)' <=> Submitted(j)
        /\ Filed(Main)' = Filed(Main) /\ Filed(Tmp)' = Filed(Tmp)
        /\ Queue(m) = {} /\ Queue(m)' = Filed(Tmp)
        /\ \A n \in CommandIds : n # m => Queue(n)' = Queue(n)
        /\ \A c \in CommandIds : Working(c)' <=> Working(c)
        /\ \A n \in CommandIds : Starting(n)' <=> Starting(n)
        /\ \A n \in CommandIds : Alive(n)' <=> Alive(n)
        /\ \A n \in CommandIds : manager'[n].pc # "load"
    <2>1. manager[m].queued = <<>>
      BY <1>1 DEF LInv, ManagerInv
    <2>2. /\ Queue(m) = {} /\ Queue(m)' = Filed(Tmp)
          /\ \A n \in CommandIds : n # m => Queue(n)' = Queue(n)
      BY <1>3, <2>1, EmptyQueue DEF Queue, Filed
    <2>3. /\ \A n \in CommandIds : Starting(n)' <=> Starting(n)
          /\ \A n \in CommandIds : Alive(n)' <=> Alive(n)
          /\ \A n \in CommandIds : manager'[n].pc # "load"
      BY <1>1, <1>2, <1>3 DEF Starting, Alive
    <2>4. QED
      BY <1>1, <2>2, <2>3 DEF Submitted, Filed, Working
  <1>5. LauncherTypes'
    BY <1>1, <1>3 DEF LInv, LauncherTypes
  <1>6. CommandInv'
    BY <1>1 DEF LInv, CommandInv, Working, Handing
  <1>7. FolderInv'
    BY <1>1 DEF LInv, FolderInv
  <1>8. ManagerInv'
    BY <1>1, <1>2, <1>3, <1>4 DEF LInv, ManagerInv
  <1>9. FilesSound'
    BY <1>1, <1>4 DEF LInv, QueueInv, FilesSound
  <1>10. Fresh(Filed(Tmp)) /\ IsInjective(folder[Tmp].queued) /\ \A j \in Filed(Tmp) : Submitted(j)
    BY <1>1 DEF LInv, QueueInv, FilesSound, HandoverFresh
  <1>11. MemorySound'
    <2>1. \A c \in CommandIds : Working(c) => command[c].queued = <<>>
      BY <1>2 DEF LInv, CommandInv, Working
    <2>2. QED
      BY <1>1, <1>4, <2>1, EmptyQueue DEF MemorySound, Fresh
  <1>12. HandoverFresh'
    BY <1>1, <1>2, <1>4 DEF HandoverFresh, Fresh
  <1>13. HeldSound'
    BY <1>1, <1>3, <1>4, <1>10 DEF LInv, QueueInv, HeldSound, Fresh
  <1>14. StartsInv' /\ CountInv'
    <2>1. \A n \in CommandIds : /\ manager'[n].others = manager[n].others
                                /\ manager'[n].reads = manager[n].reads
                                /\ manager'[n].pc = "count" => manager[n].pc = "count"
                                /\ manager'[n].active = manager[n].active
      BY <1>3
    <2>2. QED
      BY <1>1, <1>4, <2>1, CountFrame, StartsFrame
  <1>15. KeptInv'
    <2>1. \A j : Safe(j) => Safe(j)'
      BY <1>1, <1>2, <1>4 DEF Safe, Started, Starting
    <2>2. QED
      BY <1>1, <1>4, <2>1 DEF LInv, KeptInv
  <1>16. PatientInv'
    <2> SUFFICES ASSUME Patient PROVE PatientInv'
      BY <1>1 DEF PatientInv, Patient
    <2>1. OneManager /\ FilesSettled /\ OthersCounted /\ WithinInv
      BY <1>1 DEF LInv, PatientInv
    <2>2. \A n \in CommandIds : /\ Current(n)' = Current(n) /\ ~(manager'[n].pc = "count")
                                /\ manager[n].pc = "write" <=> manager'[n].pc = "write"
      BY <1>1, <1>2, <1>3, <1>4, <2>1 DEF Current, OneManager, Alive
    <2>3. QED
      BY <1>1, <1>4, <2>1, <2>2
         DEF PatientInv, OneManager, FilesSettled, OthersCounted, WithinInv
  <1>20. QED
    BY <1>5, <1>6, <1>7, <1>8, <1>9, <1>11, <1>12, <1>13, <1>14, <1>15, <1>16
       DEF LInv, QueueInv

LEMMA TakeFileStep ==
  ASSUME LInv, NEW m \in CommandIds, TakeFile(m)
  PROVE  LInv'
  <1> DEFINE p == IF manager[m].queued = <<>> THEN "end" ELSE "tick"
  <1>1. /\ manager[m].pc = "remove"
        /\ ManagerBecomes(m, IF ~Took THEN "dead" ELSE p,
                          manager[m].queued, manager[m].active,
                          manager[m].reads, manager[m].others)
        /\ FileBecomes(Tmp, Absent)
        /\ UNCHANGED <<user, command, processes, starts, crashes>>
    BY TakeFileEffect DEF LInv
  <1>2. /\ Starting(m) /\ Alive(m) /\ folder[Tmp].is = "whole"
        /\ \A n \in CommandIds : Starting(n) => n = m
        /\ \A c \in CommandIds : Working(c) => c = m
        /\ \A c \in CommandIds : ~Handing(c)
        /\ manager[m].active = {} /\ folder[m].is = "absent" /\ folder[m].active = {}
    BY <1>1, StartingFacts DEF Starting
  <1>3. /\ manager' \in [CommandIds -> Managers]
        /\ manager'[m].pc = p /\ manager'[m].queued = manager[m].queued
        /\ manager'[m].active = manager[m].active
        /\ manager'[m].reads = manager[m].reads /\ manager'[m].others = manager[m].others
        /\ \A n \in CommandIds \ {m} : manager'[n] = manager[n]
        /\ folder' \in [Paths -> Contents] /\ folder'[Tmp] = Absent
        /\ \A o \in Paths \ {Tmp} : folder'[o] = folder[o]
    BY <1>1, <1>2 DEF ManagerBecomes, FileBecomes, Took
  <1>4. /\ \A j : Submitted(j)' <=> Submitted(j)
        /\ Filed(Main)' = Filed(Main) /\ Filed(Tmp)' = {}
        /\ \A n \in CommandIds : Queue(n)' = Queue(n)
        /\ \A c \in CommandIds : Working(c)' <=> Working(c)
        /\ \A n \in CommandIds : ~Starting(n)'
        /\ \A n \in CommandIds : manager[n].pc # "load"
        /\ \A n \in CommandIds : manager'[n].queued = manager[n].queued
        /\ \A n \in CommandIds : Alive(n)' => Alive(n)
    <2>1. /\ \A n \in CommandIds : ~Starting(n)'
          /\ \A n \in CommandIds : manager[n].pc # "load"
          /\ \A n \in CommandIds : Alive(n)' => Alive(n)
      BY <1>1, <1>2, <1>3 DEF Starting, Alive
    <2>2. Filed(Main)' = Filed(Main) /\ Filed(Tmp)' = {}
      BY <1>3, PathFacts, EmptyQueue DEF Filed, Absent
    <2>3. \A n \in CommandIds : manager'[n].queued = manager[n].queued
      BY <1>3
    <2>4. QED
      BY <1>1, <2>1, <2>2, <2>3 DEF Submitted, Working, Queue
  <1>5. LauncherTypes'
    BY <1>1, <1>3 DEF LInv, LauncherTypes
  <1>6. CommandInv'
    <2>1. \A c \in CommandIds : command[c].pc \notin {"copy", "fill", "mode", "spawn"}
      BY <1>2 DEF Handing
    <2>2. folder'[Main] = folder[Main]
      BY <1>3, PathFacts
    <2>3. QED
      BY <1>1, <2>1, <2>2 DEF LInv, CommandInv, Working, Handing
  <1>7. FolderInv'
    BY <1>3, PathFacts DEF LInv, FolderInv, Absent
  <1>8. ManagerInv'
    <2>1. ASSUME NEW n \in CommandIds, n # m
          PROVE  /\ manager'[n] = manager[n] /\ folder'[n] = folder[n]
                 /\ ~Starting(n) /\ manager[n].pc # "remove"
      BY <1>2, <1>3, <2>1, PathFacts DEF Starting
    <2>2. /\ manager'[m].pc \in {"end", "tick"} /\ manager'[m].active = {}
          /\ manager'[m].pc = "end" => manager'[m].queued = <<>>
          /\ manager[m].pc # "none" /\ manager'[m].reads = manager[m].reads
      BY <1>1, <1>2, <1>3
    <2> HIDE DEF p
    <2>3. QED
      BY <1>1, <1>4, <2>1, <2>2 DEF LInv, ManagerInv
  <1>9. FilesSound'
    BY <1>3, <1>4, PathFacts, EmptyQueue DEF LInv, QueueInv, FilesSound, Absent
  <1>10. MemorySound'
    BY <1>1, <1>4 DEF LInv, QueueInv, MemorySound, Fresh
  <1>11. HandoverFresh'
    BY <1>1, <1>4 DEF LInv, QueueInv, HandoverFresh, Fresh
  <1>12. HeldSound'
    BY <1>1, <1>4 DEF LInv, QueueInv, HeldSound
  <1>13. StartsInv' /\ CountInv'
    <2>1. \A n \in CommandIds : /\ manager'[n].others = manager[n].others
                                /\ manager'[n].reads = manager[n].reads
                                /\ manager'[n].pc = "count" => manager[n].pc = "count"
                                /\ manager'[n].active = manager[n].active
                                /\ folder'[n] = folder[n]
      BY <1>3, PathFacts
    <2>2. QED
      BY <1>1, <1>4, <2>1, CountFrame, StartsFrame
  <1>14. KeptInv'
    <2>1. \A j : Safe(j) => Safe(j)'
      BY <1>1, <1>4 DEF Safe, Started
    <2>2. QED
      BY <1>1, <1>4, <2>1 DEF LInv, KeptInv
  <1>15. PatientInv'
    <2> SUFFICES ASSUME Patient PROVE PatientInv'
      BY <1>1 DEF PatientInv, Patient
    <2>1. OneManager /\ FilesSettled /\ OthersCounted /\ WithinInv
      BY <1>1 DEF LInv, PatientInv
    <2>2. \A n \in CommandIds : /\ folder'[n] = folder[n]
                                /\ ~(manager'[n].pc = "count")
                                /\ manager[n].pc = "write" <=> manager'[n].pc = "write"
      BY <1>1, <1>2, <1>3, <2>1, PathFacts DEF OneManager, Alive
    <2>3. \A n \in CommandIds : Current(n)' = Current(n)
      BY <1>2, <1>3, <2>2, ZenonT(60) DEF Current, Alive
    <2>4. folder'[Tmp].is = "absent"
      BY <1>3 DEF Absent
    <2>5. QED
      BY <1>1, <1>4, <2>1, <2>2, <2>3, <2>4
         DEF PatientInv, OneManager, FilesSettled, OthersCounted, WithinInv
  <1>20. QED
    BY <1>5, <1>6, <1>7, <1>8, <1>9, <1>10, <1>11, <1>12, <1>13, <1>14, <1>15
       DEF LInv, QueueInv
\* What holds whenever a manager changes without the files of the commands.
LEMMA ManagerFrame ==
  ASSUME LInv, NEW m \in CommandIds, ~Starting(m), manager[m].pc # "none",
         manager' \in [CommandIds -> Managers],
         \A n \in CommandIds \ {m} : manager'[n] = manager[n],
         manager'[m].pc \notin {"none", "load", "remove"},
         manager'[m].reads \subseteq Paths \ {m},
         manager'[m].pc = "end" => manager'[m].queued = <<>> /\ manager'[m].active = {},
         manager'[m].pc \in {"tick", "count"} => manager'[m].active \subseteq folder'[m].active,
         folder' \in [Paths -> Contents],
         \A p \in Paths \ {m} : folder'[p] = folder[p],
         folder'[m].is # "whole" => folder'[m].queued = <<>> /\ folder'[m].active = {},
         UNCHANGED command
  PROVE  /\ CommandInv' /\ FolderInv' /\ ManagerInv'
         /\ folder'[Main] = folder[Main] /\ folder'[Tmp] = folder[Tmp]
         /\ \A n \in CommandIds : Starting(n)' <=> Starting(n)
         /\ \A n \in CommandIds : manager'[n].pc = "load" <=> manager[n].pc = "load"
  <1>1. /\ folder'[Main] = folder[Main] /\ folder'[Tmp] = folder[Tmp]
        /\ \A n \in CommandIds \ {m} : folder'[n] = folder[n]
    BY PathFacts
  <1>2. CommandInv'
    BY <1>1 DEF LInv, CommandInv, Working, Handing
  <1>3. FolderInv'
    BY <1>1 DEF LInv, FolderInv
  <1>4. /\ \A n \in CommandIds : Starting(n)' <=> Starting(n)
        /\ \A n \in CommandIds : manager'[n].pc = "load" <=> manager[n].pc = "load"
        /\ \A c \in CommandIds : Working(c)' <=> Working(c)
    BY DEF Starting, Working
  <1>5. ManagerInv'
    BY <1>1, <1>4 DEF LInv, ManagerInv
  <1>6. QED
    BY <1>1, <1>2, <1>3, <1>4, <1>5

LEMMA ReapStep ==
  ASSUME LInv, NEW m \in CommandIds, Reap(m)
  PROVE  LInv'
  <1>1. /\ manager[m].pc = "tick" /\ ~Complete(m)
        /\ ManagerBecomes(m, "count", manager[m].queued, manager[m].active \cap processes,
                          Others(m), 0)
        /\ UNCHANGED <<user, folder, command, processes, starts, crashes>>
    BY ReapEffect DEF LInv
  <1>2. /\ manager' \in [CommandIds -> Managers]
        /\ manager'[m].pc = "count" /\ manager'[m].queued = manager[m].queued
        /\ manager'[m].active = manager[m].active \cap processes
        /\ manager'[m].reads = Others(m) /\ manager'[m].others = 0
        /\ \A n \in CommandIds \ {m} : manager'[n] = manager[n]
        /\ \A n \in CommandIds : manager'[n].queued = manager[n].queued
    BY <1>1 DEF ManagerBecomes
  <1>3. Others(m) \subseteq Paths \ {m} /\ \A p \in Others(m) : folder[p].is # "absent"
    BY DEF Others
  <1>4. manager[m].active \subseteq folder[m].active
    BY <1>1 DEF LInv, ManagerInv
  <1>5. LauncherTypes'
    BY <1>1, <1>2 DEF LInv, LauncherTypes
  <1>6. folder \in [Paths -> Contents] /\
        (folder[m].is # "whole" => folder[m].queued = <<>> /\ folder[m].active = {})
    BY PathFacts DEF LInv, LauncherTypes, FolderInv
  <1>7. /\ CommandInv' /\ FolderInv' /\ ManagerInv'
        /\ \A n \in CommandIds : Starting(n)' <=> Starting(n)
        /\ \A n \in CommandIds : manager'[n].pc = "load" <=> manager[n].pc = "load"
    BY <1>1, <1>2, <1>3, <1>4, <1>6, ManagerFrame DEF Starting
  <1>8. FilesSound' /\ MemorySound' /\ HandoverFresh' /\ HeldSound'
    BY <1>1, <1>2, <1>7, QueueFrame
  <1>9. KeptInv'
    BY <1>1, <1>2, <1>7, KeptFrame
  <1>10. \A n \in CommandIds : Shown(n)' \subseteq Shown(n)
    BY <1>1, <1>2 DEF Shown
  <1>11. StartsInv'
    BY <1>1, <1>10, StartsFrame DEF Submitted
  <1>12. CountInv'
    <2>1. \A j : Started(j)' <=> Started(j)
      BY <1>1 DEF Started
    <2>2. Counted(m)'
      <3>1. {} \in SUBSET CommandIds /\ manager'[m].others <= Cardinality({})
        BY <1>2, FS_EmptySet
      <3>2. QED
        BY <3>1 DEF Counted
    <2>3. ASSUME NEW n \in CommandIds, n # m, manager'[n].pc = "count" PROVE Counted(n)'
      <3>1. manager'[n] = manager[n] /\ Counted(n)
        BY <1>2, <2>3 DEF LInv, CountInv
      <3>2. PICK G \in SUBSET CommandIds :
              /\ manager[n].others <= Cardinality(G)
              /\ \A j \in G : Started(j)
              /\ \A p \in manager[n].reads \cap CommandIds : G \cap Shown(p) = {}
        BY <3>1 DEF Counted
      <3>3. /\ manager'[n].others <= Cardinality(G)
            /\ \A j \in G : Started(j)'
            /\ \A p \in manager'[n].reads \cap CommandIds : G \cap Shown(p)' = {}
        BY <1>10, <2>1, <3>1, <3>2
      <3>4. QED
        BY <3>3 DEF Counted
    <2>4. \A n \in CommandIds : manager'[n].others <= MaxCommands
      BY <1>2, PathFacts DEF LInv, CountInv
    <2>5. QED
      BY <2>2, <2>3, <2>4 DEF CountInv
  <1>13. PatientInv'
    <2> SUFFICES ASSUME Patient PROVE PatientInv'
      BY <1>1 DEF PatientInv, Patient
    <2>1. OneManager /\ FilesSettled /\ OthersCounted /\ WithinInv
      BY <1>1 DEF LInv, PatientInv
    <2>2. /\ \A n \in CommandIds : Alive(n)' <=> Alive(n)
          /\ Alive(m) /\ \A n \in CommandIds : Alive(n) => n = m
          /\ \A n \in CommandIds : manager'[n].pc = "count" => n = m
          /\ \A n \in CommandIds : manager'[n].pc = "write" <=> manager[n].pc = "write"
      BY <1>1, <1>2, <2>1 DEF Alive, OneManager
    <2>3. OneManager'
      BY <1>1, <2>1, <2>2 DEF OneManager, Working
    <2>4. FilesSettled'
      BY <1>1, <1>2, <1>3, <1>7, <2>1, <2>2 DEF FilesSettled
    <2>5. Behind(m)' = {}
      <3>1. \A p \in (CommandIds \ {m}) \ Others(m) : folder[p].active = {}
        BY PathFacts DEF LInv, FolderInv, Others
      <3>2. QED
        BY <1>1, <1>2, <3>1 DEF Behind
    <2>6. OthersCounted'
      <3>1. Cardinality(Behind(m)') = 0
        BY <2>5, FS_EmptySet
      <3>2. Cardinality(Behind(m)') <= manager'[m].others
        BY <1>2, <3>1
      <3>3. QED
        BY <2>2, <3>2 DEF OthersCounted
    <2>7. \A j \in processes : \A n \in CommandIds : j \in Current(n) => j \in Current(n)'
      BY <1>1, <1>2, <2>2 DEF Current
    <2>8. WithinInv'
      BY <1>1, <2>1, <2>7 DEF WithinInv
    <2>9. QED
      BY <2>3, <2>4, <2>6, <2>8 DEF PatientInv
  <1>20. QED
    BY <1>5, <1>7, <1>8, <1>9, <1>11, <1>12, <1>13 DEF LInv, QueueInv

LEMMA CountStep ==
  ASSUME LInv, NEW m \in CommandIds, Count(m)
  PROVE  LInv'
  <1>1. /\ manager[m].pc = "count"
        /\ UNCHANGED <<user, folder, command, processes, starts, crashes>>
    BY CountEffect DEF LInv
  <1>2. PICK p \in manager[m].reads :
          IF folder[p].is # "whole"
            THEN ManagerBecomes(m, "dead", manager[m].queued, manager[m].active,
                                manager[m].reads, manager[m].others)
            ELSE ManagerBecomes(m, "count", manager[m].queued, manager[m].active,
                                manager[m].reads \ {p},
                                manager[m].others + Cardinality(folder[p].active))
    BY CountEffect DEF LInv
  <1>3. /\ manager' \in [CommandIds -> Managers]
        /\ manager'[m].pc \in {"dead", "count"} /\ manager'[m].queued = manager[m].queued
        /\ manager'[m].active = manager[m].active
        /\ manager'[m].reads \subseteq manager[m].reads
        /\ \A n \in CommandIds \ {m} : manager'[n] = manager[n]
        /\ \A n \in CommandIds : manager'[n].queued = manager[n].queued
    BY <1>2 DEF ManagerBecomes
  <1>4. /\ manager[m].active \subseteq folder[m].active
        /\ manager[m].reads \subseteq Paths \ {m}
        /\ p \in Paths \ {m}
    BY <1>1 DEF LInv, ManagerInv
  <1>5. LauncherTypes'
    BY <1>1, <1>3 DEF LInv, LauncherTypes
  <1>6. folder \in [Paths -> Contents] /\
        (folder[m].is # "whole" => folder[m].queued = <<>> /\ folder[m].active = {})
    BY PathFacts DEF LInv, LauncherTypes, FolderInv
  <1>7. /\ CommandInv' /\ FolderInv' /\ ManagerInv'
        /\ \A n \in CommandIds : Starting(n)' <=> Starting(n)
        /\ \A n \in CommandIds : manager'[n].pc = "load" <=> manager[n].pc = "load"
    BY <1>1, <1>3, <1>4, <1>6, ManagerFrame DEF Starting
  <1>8. FilesSound' /\ MemorySound' /\ HandoverFresh' /\ HeldSound'
    BY <1>1, <1>3, <1>7, QueueFrame
  <1>9. KeptInv'
    BY <1>1, <1>3, <1>7, KeptFrame
  <1>10. \A n \in CommandIds : Shown(n)' = Shown(n)
    BY <1>1, <1>3 DEF Shown
  <1>11. StartsInv'
    BY <1>1, <1>10, StartsFrame DEF Submitted
  <1>12. folder[p].active \subseteq CommandIds /\ IsFiniteSet(folder[p].active)
    BY <1>4, <1>6, ContentsFacts, PathFacts, FS_Subset
  <1>13. CountInv'
    <2>1. \A j : Started(j)' <=> Started(j)
      BY <1>1 DEF Started
    <2>2. ASSUME manager'[m].pc = "count"
          PROVE  Counted(m)' /\ manager'[m].others <= MaxCommands
      <3>1. /\ manager'[m].reads = manager[m].reads \ {p}
            /\ manager'[m].others = manager[m].others + Cardinality(folder[p].active)
        BY <1>2, <2>2 DEF ManagerBecomes
      <3>2. Counted(m) /\ manager[m].others \in Nat
        BY <1>1, RecordFields DEF LInv, CountInv, LauncherTypes
      <3>3. PICK G \in SUBSET CommandIds :
              /\ manager[m].others <= Cardinality(G)
              /\ \A j \in G : Started(j)
              /\ \A q \in manager[m].reads \cap CommandIds : G \cap Shown(q) = {}
        BY <3>2 DEF Counted
      <3> DEFINE a == folder[p].active
                 H == G \cup a
      <3>4. G \cap a = {} /\ \A j \in a : Started(j)
        <4>1. CASE p \in CommandIds
          BY <3>3, <4>1 DEF Shown, LInv, StartsInv
        <4>2. CASE p \notin CommandIds
          BY <1>4, <4>2, PathFacts DEF LInv, FolderInv
        <4>3. QED
          BY <4>1, <4>2
      <3>5. \A q \in (manager[m].reads \ {p}) \cap CommandIds : H \cap Shown(q) = {}
        <4>1. ASSUME NEW q \in (manager[m].reads \ {p}) \cap CommandIds
              PROVE  a \cap Shown(q) = {}
          <5>1. CASE p \in CommandIds
            BY <4>1, <5>1 DEF Shown, LInv, StartsInv
          <5>2. CASE p \notin CommandIds
            BY <1>4, <5>2, PathFacts DEF LInv, FolderInv
          <5>3. QED
            BY <5>1, <5>2
        <4>2. QED
          BY <3>3, <4>1
      <3>6. IsFiniteSet(G) /\ IsFiniteSet(a) /\ H \in SUBSET CommandIds
        BY <1>12, PathFacts, FS_Subset
      <3>7. /\ IsFiniteSet(H) /\ Cardinality(G) \in Nat /\ Cardinality(a) \in Nat
            /\ Cardinality(H) = Cardinality(G) + Cardinality(a)
        BY <3>4, <3>6, CountUnion
      <3>8. Cardinality(H) <= MaxCommands
        BY <3>6, PathFacts, FS_Subset
      <3> HIDE DEF H, a
      <3>9. manager'[m].others <= Cardinality(H) /\ manager'[m].others <= MaxCommands
        BY <3>1, <3>2, <3>3, <3>7, <3>8, PathFacts DEF a
      <3>10. \A j \in H : Started(j)'
        BY <2>1, <3>3, <3>4 DEF H
      <3>11. \A q \in manager'[m].reads \cap CommandIds : H \cap Shown(q)' = {}
        BY <1>10, <3>1, <3>5
      <3>12. Counted(m)'
        BY <3>6, <3>9, <3>10, <3>11 DEF Counted
      <3>13. QED
        BY <3>9, <3>12
    <2>3. manager'[m].pc = "dead" => manager'[m].others = manager[m].others
      BY <1>2 DEF ManagerBecomes
    <2>4. ASSUME NEW n \in CommandIds, n # m, manager'[n].pc = "count" PROVE Counted(n)'
      <3>1. manager'[n] = manager[n] /\ Counted(n)
        BY <1>3, <2>4 DEF LInv, CountInv
      <3>2. QED
        BY <1>10, <2>1, <3>1 DEF Counted
    <2>5. QED
      BY <1>3, <2>2, <2>3, <2>4 DEF LInv, CountInv
  <1>14. PatientInv'
    <2> SUFFICES ASSUME Patient PROVE PatientInv'
      BY <1>1 DEF PatientInv, Patient
    <2>1. OneManager /\ FilesSettled /\ OthersCounted /\ WithinInv
      BY <1>1 DEF LInv, PatientInv
    <2>2. /\ \A n \in CommandIds : Alive(n)' => Alive(n)
          /\ Alive(m) /\ \A n \in CommandIds : Alive(n) => n = m
          /\ \A n \in CommandIds : manager'[n].pc = "count" => n = m
          /\ \A n \in CommandIds : manager'[n].pc = "write" <=> manager[n].pc = "write"
      BY <1>1, <1>3, <2>1 DEF Alive, OneManager
    <2>3. OneManager'
      BY <1>1, <2>1, <2>2 DEF OneManager, Working
    <2>4. FilesSettled'
      BY <1>1, <1>3, <1>7, <2>1, <2>2 DEF FilesSettled
    <2>5. ASSUME manager'[m].pc = "count"
          PROVE  Cardinality(Behind(m)') <= manager'[m].others
      <3>1. /\ manager'[m].reads = manager[m].reads \ {p}
            /\ manager'[m].others = manager[m].others + Cardinality(folder[p].active)
        BY <1>2, <2>5 DEF ManagerBecomes
      <3>2. Cardinality(Behind(m)) <= manager[m].others /\ manager[m].others \in Nat
        BY <1>1, <2>1, RecordFields DEF OthersCounted, LInv, LauncherTypes
      <3>3. Behind(m)' \subseteq Behind(m) \cup folder[p].active
        BY <1>1, <3>1 DEF Behind
      <3>4. IsFiniteSet(Behind(m))
        BY PathFacts, FS_Subset DEF Behind
      <3>5. /\ Cardinality(Behind(m)') <= Cardinality(Behind(m) \cup folder[p].active)
            /\ Cardinality(Behind(m)') \in Nat
            /\ Cardinality(Behind(m) \cup folder[p].active) \in Nat
        BY <1>12, <3>3, <3>4, FS_Union, FS_Subset, FS_CardinalityType
      <3>6. /\ Cardinality(Behind(m) \cup folder[p].active)
                 = Cardinality(Behind(m)) + Cardinality(folder[p].active)
                     - Cardinality(Behind(m) \cap folder[p].active)
            /\ Cardinality(Behind(m)) \in Nat /\ Cardinality(folder[p].active) \in Nat
            /\ Cardinality(Behind(m) \cap folder[p].active) \in Nat
        BY <1>12, <3>4, FS_Union, FS_Intersection, FS_CardinalityType
      <3>7. QED
        BY <3>1, <3>2, <3>5, <3>6
    <2>6. OthersCounted'
      BY <2>2, <2>5 DEF OthersCounted
    <2>7. \A j \in processes : \A n \in CommandIds : j \in Current(n) => j \in Current(n)'
      BY <1>1, <1>3, <1>4, <2>2 DEF Current, Alive
    <2>8. WithinInv'
      BY <1>1, <2>1, <2>7 DEF WithinInv
    <2>9. QED
      BY <2>3, <2>4, <2>6, <2>8 DEF PatientInv
  <1>20. QED
    BY <1>5, <1>7, <1>8, <1>9, <1>11, <1>13, <1>14 DEF LInv, QueueInv

\* A manager opens, writes or removes its own file.
LEMMA OwnFileStep ==
  ASSUME LInv, NEW m \in CommandIds, NEW p \in {"write", "tick", "end"}, NEW f \in Contents,
         manager[m].pc \in {"open", "write", "tick"},
         ManagerBecomes(m, p, manager[m].queued, manager[m].active,
                        manager[m].reads, manager[m].others),
         FileBecomes(m, f),
         f.is = "torn" => p = "write",
         p = "end" => Complete(m),
         p = "tick" => f = Whole(manager[m].queued, manager[m].active),
         p # "tick" => f \in {Absent, Torn},
         UNCHANGED <<user, command, processes, starts, crashes>>
  PROVE  LInv'
  <1>1. /\ manager' \in [CommandIds -> Managers]
        /\ manager'[m].pc = p /\ manager'[m].queued = manager[m].queued
        /\ manager'[m].active = manager[m].active
        /\ manager'[m].reads = manager[m].reads /\ manager'[m].others = manager[m].others
        /\ \A n \in CommandIds \ {m} : manager'[n] = manager[n]
        /\ \A n \in CommandIds : manager'[n].queued = manager[n].queued
    BY DEF ManagerBecomes
  <1>2. /\ folder' \in [Paths -> Contents] /\ folder'[m] = f
        /\ \A o \in Paths \ {m} : folder'[o] = folder[o]
        /\ \A n \in CommandIds \ {m} : folder'[n] = folder[n]
    BY PathFacts DEF FileBecomes
  <1>3. /\ ~Starting(m) /\ Alive(m) /\ manager[m].pc # "none" /\ manager[m].pc # "count"
        /\ p \notin {"none", "load", "remove", "count"}
        /\ p # "end" => Alive(m)'
    BY <1>1 DEF Starting, Alive
  <1>4. /\ f.is # "whole" => f.queued = <<>> /\ f.active = {}
        /\ p = "tick" => manager[m].active \subseteq f.active
        /\ f.active \subseteq manager[m].active
    BY DEF Absent, Torn, Whole
  <1>5. p = "end" => manager[m].queued = <<>> /\ manager[m].active = {} /\ f.active = {}
    BY <1>4 DEF Complete
  <1>6. manager[m].reads \subseteq Paths \ {m}
    BY DEF LInv, ManagerInv
  <1>7. LauncherTypes'
    BY <1>1, <1>2 DEF LInv, LauncherTypes
  <1>8. /\ CommandInv' /\ FolderInv' /\ ManagerInv'
        /\ folder'[Main] = folder[Main] /\ folder'[Tmp] = folder[Tmp]
        /\ \A n \in CommandIds : Starting(n)' <=> Starting(n)
        /\ \A n \in CommandIds : manager'[n].pc = "load" <=> manager[n].pc = "load"
    BY <1>1, <1>2, <1>3, <1>4, <1>5, <1>6, ManagerFrame
  <1>9. FilesSound' /\ MemorySound' /\ HandoverFresh' /\ HeldSound'
    BY <1>1, <1>8, QueueFrame
  <1>10. KeptInv'
    BY <1>1, <1>8, KeptFrame
  <1>11. CountInv' /\ StartsInv'
    <2>1. \A n \in CommandIds : /\ manager'[n].others = manager[n].others
                                /\ manager'[n].reads = manager[n].reads
                                /\ manager'[n].pc = "count" => manager[n].pc = "count"
                                /\ manager'[n].active \subseteq manager[n].active
                                /\ \/ folder'[n].active \subseteq folder[n].active
                                   \/ folder'[n].active \subseteq manager[n].active
      BY <1>1, <1>2, <1>3, <1>4
    <2>2. CountInv' /\ \A n \in CommandIds : Shown(n)' \subseteq Shown(n)
      BY <2>1, CountFrame
    <2>3. QED
      BY <2>2, StartsFrame DEF Submitted
  <1>12. PatientInv'
    <2> SUFFICES ASSUME Patient PROVE PatientInv'
      BY DEF PatientInv, Patient
    <2>1. OneManager /\ FilesSettled /\ WithinInv
      BY DEF LInv, PatientInv
    <2>2. /\ \A n \in CommandIds : Alive(n)' => Alive(n)
          /\ \A n \in CommandIds : Alive(n) => n = m
          /\ \A n \in CommandIds : manager'[n].pc # "count"
      BY <1>1, <1>3, <2>1 DEF Alive, OneManager
    <2>3. OneManager'
      BY <2>1, <2>2 DEF OneManager, Working
    <2>4. FilesSettled'
      <3>1. \A n \in CommandIds : Alive(n)' /\ ~Starting(n)' => folder'[Tmp].is = "absent"
        BY <1>8, <2>1, <2>2 DEF FilesSettled
      <3>2. \A n \in CommandIds : folder'[n].is = "torn" => manager'[n].pc = "write"
        BY <1>1, <1>2, <2>1 DEF FilesSettled
      <3>3. QED
        BY <2>2, <3>1, <3>2 DEF FilesSettled
    <2>5. OthersCounted'
      BY <2>2 DEF OthersCounted
    <2>6. \A j \in processes : \A n \in CommandIds : j \in Current(n) => j \in Current(n)'
      <3>1. \A n \in CommandIds \ {m} : Current(n)' = Current(n)
        BY <1>1, <1>2 DEF Current, Alive
      <3>2. Current(m) \subseteq Current(m)'
        BY <1>1, <1>2, <1>3, <1>5 DEF Current
      <3>3. QED
        BY <3>1, <3>2
    <2>7. WithinInv'
      BY <2>1, <2>6 DEF WithinInv
    <2>8. QED
      BY <2>3, <2>4, <2>5, <2>7 DEF PatientInv
  <1>20. QED
    BY <1>7, <1>8, <1>9, <1>10, <1>11, <1>12 DEF LInv, QueueInv

LEMMA ManagerOpenStep ==
  ASSUME LInv, NEW m \in CommandIds, ManagerOpen(m)
  PROVE  LInv'
  <1>1. /\ Torn \in Contents /\ Torn.is = "torn"
    BY ContentsFacts DEF Torn
  <1>2. QED
    BY <1>1, ManagerOpenEffect, OwnFileStep DEF LInv

LEMMA ManagerWriteStep ==
  ASSUME LInv, NEW m \in CommandIds, ManagerWrite(m)
  PROVE  LInv'
  <1> DEFINE f == Whole(manager[m].queued, manager[m].active)
  <1>1. f \in Contents
    BY ContentsFacts, RecordFields DEF LInv, LauncherTypes
  <1>2. f.is # "torn"
    BY DEF Whole
  <1>3. /\ manager[m].pc = "write"
        /\ ManagerBecomes(m, "tick", manager[m].queued, manager[m].active,
                          manager[m].reads, manager[m].others)
        /\ FileBecomes(m, f)
        /\ UNCHANGED <<user, command, processes, starts, crashes>>
    BY ManagerWriteEffect DEF LInv
  <1>4. f = Whole(manager[m].queued, manager[m].active)
    OBVIOUS
  <1> HIDE DEF f
  <1>5. QED
    BY <1>1, <1>2, <1>3, <1>4, OwnFileStep

LEMMA FinishStep ==
  ASSUME LInv, NEW m \in CommandIds, Finish(m)
  PROVE  LInv'
  <1>1. /\ Absent \in Contents /\ Absent.is # "torn"
    BY ContentsFacts DEF Absent
  <1>2. QED
    BY <1>1, FinishEffect, OwnFileStep DEF LInv

LEMMA CrashStep ==
  ASSUME LInv, NEW m \in CommandIds, Crash(m)
  PROVE  LInv'
  <1>1. /\ crashes < user.crashes /\ Alive(m) /\ crashes' = crashes + 1
        /\ ManagerBecomes(m, "dead", manager[m].queued, manager[m].active,
                          manager[m].reads, manager[m].others)
        /\ UNCHANGED <<user, folder, command, processes, starts>>
    BY CrashEffect DEF LInv
  <1>2. /\ manager' \in [CommandIds -> Managers]
        /\ manager'[m].pc = "dead" /\ manager[m].pc # "none"
        /\ \A n \in CommandIds \ {m} : manager'[n] = manager[n]
        /\ \A n \in CommandIds : /\ manager'[n].queued = manager[n].queued
                                 /\ manager'[n].active = manager[n].active
                                 /\ manager'[n].reads = manager[n].reads
                                 /\ manager'[n].others = manager[n].others
                                 /\ manager'[n].pc = manager[n].pc \/ manager'[n].pc = "dead"
    BY <1>1 DEF ManagerBecomes, Alive
  <1>3. crashes \in 0 .. user.crashes /\ user.crashes \in Nat
    BY ProcManAssumption DEF LInv, LauncherTypes
  <1>4. crashes' \in 0 .. user.crashes /\ crashes' # 0
    BY <1>1, <1>3
  <1>5. LauncherTypes'
    BY <1>1, <1>2, <1>4 DEF LInv, LauncherTypes
  <1>6. CommandInv' /\ FolderInv'
    BY <1>1 DEF LInv, CommandInv, FolderInv, Working, Handing
  <1>7. ManagerInv'
    <2>1. \A n \in CommandIds : Starting(n)' => Starting(n) /\ manager'[n] = manager[n]
      BY <1>2 DEF Starting
    <2>2. \A c \in CommandIds : Working(c)' <=> Working(c)
      BY <1>1 DEF Working
    <2>3. QED
      BY <1>1, <1>2, <2>1, <2>2 DEF LInv, ManagerInv
  <1>8. FilesSound' /\ MemorySound' /\ HandoverFresh' /\ HeldSound'
    <2>1. \A n \in CommandIds : manager'[n].pc = "load" => manager[n].pc = "load"
      BY <1>2
    <2>2. QED
      BY <1>1, <1>2, <2>1, QueueFrame
  <1>9. KeptInv'
    BY <1>4 DEF KeptInv
  <1>10. CountInv' /\ StartsInv'
    <2>1. \A n \in CommandIds : /\ manager'[n].others = manager[n].others
                                /\ manager'[n].reads = manager[n].reads
                                /\ manager'[n].pc = "count" => manager[n].pc = "count"
                                /\ manager'[n].active \subseteq manager[n].active
                                /\ folder'[n].active \subseteq folder[n].active
      BY <1>1, <1>2
    <2>2. CountInv' /\ \A n \in CommandIds : Shown(n)' \subseteq Shown(n)
      BY <1>1, <2>1, CountFrame
    <2>3. QED
      BY <1>1, <2>2, StartsFrame DEF Submitted
  <1>11. PatientInv'
    BY <1>1, <1>3 DEF PatientInv, Patient
  <1>20. QED
    BY <1>5, <1>6, <1>7, <1>8, <1>9, <1>10, <1>11 DEF LInv, QueueInv

LEMMA JobEndsStep ==
  ASSUME LInv, NEW j \in CommandIds, JobEnds(j)
  PROVE  LInv'
  <1>1. /\ processes' = processes \ {j}
        /\ UNCHANGED <<user, folder, command, manager, starts, crashes>>
    BY DEF JobEnds
  <1>2. LauncherTypes'
    BY <1>1 DEF LInv, LauncherTypes
  <1>3. CommandInv' /\ FolderInv'
    BY <1>1 DEF LInv, CommandInv, FolderInv, Working, Handing
  <1>4. ManagerInv'
    BY <1>1 DEF LInv, ManagerInv, Starting, Working
  <1>5. FilesSound' /\ MemorySound' /\ HandoverFresh' /\ HeldSound'
    BY <1>1, QueueFrame
  <1>6. KeptInv'
    BY <1>1, KeptFrame
  <1>7. CountInv' /\ StartsInv'
    <2>1. CountInv' /\ \A n \in CommandIds : Shown(n)' \subseteq Shown(n)
      BY <1>1, CountFrame
    <2>2. QED
      BY <1>1, <2>1, StartsFrame DEF Submitted
  <1>8. PatientInv'
    <2> SUFFICES ASSUME Patient PROVE PatientInv'
      BY <1>1 DEF PatientInv, Patient
    <2>1. OneManager /\ FilesSettled /\ OthersCounted /\ WithinInv
      BY DEF LInv, PatientInv
    <2>2. OneManager' /\ FilesSettled' /\ OthersCounted'
      BY <1>1, <2>1 DEF OneManager, FilesSettled, OthersCounted, Alive, Working, Starting, Behind
    <2>3. \A n \in CommandIds : Current(n)' = Current(n)
      BY <1>1 DEF Current, Alive
    <2>4. /\ processes' \subseteq processes /\ IsFiniteSet(processes)
          /\ Cardinality(processes') <= Cardinality(processes)
          /\ Cardinality(processes') \in Nat /\ Cardinality(processes) \in Nat
      BY <1>1, PathFacts, FS_Subset, FS_CardinalityType DEF LInv, LauncherTypes
    <2>5. WithinInv'
      BY <2>1, <2>3, <2>4, PathFacts DEF WithinInv
    <2>6. QED
      BY <2>2, <2>5 DEF PatientInv
  <1>20. QED
    BY <1>2, <1>3, <1>4, <1>5, <1>6, <1>7, <1>8 DEF LInv, QueueInv

LEMMA LaunchJobsStep ==
  ASSUME LInv, NEW m \in CommandIds, LaunchJobs(m)
  PROVE  LInv'
  <1> DEFINE n == Launched(m)
             new == ToSet(SubSeq(manager[m].queued, 1, n))
  <1>1. /\ IsInjective(manager[m].queued)
        /\ \A j \in Queue(m) : starts[j] = 0 /\ Submitted(j)
        /\ Queue(m) \subseteq CommandIds
    BY QueueTypes DEF LInv, QueueInv, HeldSound
  <1>2. /\ manager[m].pc = "count" /\ manager[m].reads = {}
        /\ new \subseteq Queue(m) /\ new \subseteq CommandIds
        /\ IsFiniteSet(new) /\ Cardinality(new) = n /\ n \in Nat
        /\ n = 0 \/ n <= Free(m)
        /\ IsInjective(StillQueued(m))
        /\ ToSet(StillQueued(m)) = Queue(m) \ new
        /\ ManagerBecomes(m, "open", StillQueued(m), manager[m].active \cup new,
                          manager[m].reads, manager[m].others)
        /\ processes' = processes \cup new
        /\ \A j \in CommandIds : starts'[j] = IF j \in new THEN starts[j] + 1 ELSE starts[j]
        /\ starts' \in [CommandIds -> Nat]
        /\ UNCHANGED <<user, folder, command, crashes>>
    BY <1>1, LaunchEffect DEF LInv, Queue
  <1> HIDE DEF new, n
  <1>3. /\ manager' \in [CommandIds -> Managers]
        /\ manager'[m].pc = "open" /\ manager'[m].active = manager[m].active \cup new
        /\ manager'[m].reads = {} /\ manager'[m].others = manager[m].others
        /\ \A k \in CommandIds \ {m} : manager'[k] = manager[k]
        /\ IsInjective(manager'[m].queued) /\ Queue(m)' = Queue(m) \ new
        /\ \A k \in CommandIds \ {m} : Queue(k)' = Queue(k)
    BY <1>2 DEF ManagerBecomes, Queue
  <1>4. /\ starts \in [CommandIds -> Nat]
        /\ \A j \in new : starts[j] = 0 /\ starts'[j] = 1
        /\ \A j \in CommandIds \ new : starts'[j] = starts[j]
        /\ \A j \in CommandIds : Started(j) => Started(j)'
        /\ \A j \in new : Started(j)' /\ ~Started(j)
    BY <1>1, <1>2 DEF LInv, LauncherTypes, Started
  <1>5. /\ \A j : Submitted(j)' <=> Submitted(j)
        /\ \A c \in CommandIds : Working(c)' <=> Working(c)
        /\ Filed(Main)' = Filed(Main) /\ Filed(Tmp)' = Filed(Tmp)
    BY <1>2 DEF Submitted, Working, Filed
  <1>6. LauncherTypes'
    BY <1>2, <1>3 DEF LInv, LauncherTypes
  <1>7. /\ folder \in [Paths -> Contents]
        /\ folder[m].is # "whole" => folder[m].queued = <<>> /\ folder[m].active = {}
    BY PathFacts DEF LInv, LauncherTypes, FolderInv
  <1>8. /\ CommandInv' /\ FolderInv' /\ ManagerInv'
        /\ \A k \in CommandIds : Starting(k)' <=> Starting(k)
        /\ \A k \in CommandIds : manager'[k].pc = "load" <=> manager[k].pc = "load"
    BY <1>2, <1>3, <1>7, ManagerFrame DEF Starting
  <1>9. \A k \in CommandIds : Queue(k)' \subseteq Queue(k)
    BY <1>3
  <1>10. ASSUME NEW jobs \in SUBSET CommandIds, Fresh(jobs)
         PROVE  \A j \in jobs : starts'[j] = 0 /\ \A k \in CommandIds : j \notin Queue(k)'
    BY <1>2, <1>4, <1>9, <1>10 DEF Fresh
  <1>11. FilesSound'
    BY <1>2, <1>5 DEF LInv, QueueInv, FilesSound
  <1>12. MemorySound'
    <2> SUFFICES ASSUME NEW c \in CommandIds, Working(c)
                 PROVE  /\ IsInjective(command[c].queued)
                        /\ \A j \in ToSet(command[c].queued) : j = c \/ Submitted(j)
                        /\ \A j \in ToSet(command[c].queued) :
                             starts'[j] = 0 /\ \A k \in CommandIds : j \notin Queue(k)'
      BY <1>2, <1>5 DEF MemorySound, Fresh
    <2>1. /\ IsInjective(command[c].queued)
          /\ \A j \in ToSet(command[c].queued) : j = c \/ Submitted(j)
          /\ Fresh(ToSet(command[c].queued))
      BY DEF LInv, QueueInv, MemorySound
    <2>2. ToSet(command[c].queued) \in SUBSET CommandIds
      BY QueueTypes DEF LInv
    <2>3. QED
      BY <1>10, <2>1, <2>2
  <1>13. HandoverFresh'
    <2>1. Filed(Main) \in SUBSET CommandIds /\ Filed(Tmp) \in SUBSET CommandIds
      BY QueueTypes, PathFacts DEF LInv
    <2>2. (\A c \in CommandIds : ~(command[c].kind = "start" /\ command[c].pc = "open"))
            => Fresh(Filed(Main))'
      <3>1. ASSUME \A c \in CommandIds : ~(command[c].kind = "start" /\ command[c].pc = "open")
            PROVE  Fresh(Filed(Main))'
        <4>1. Fresh(Filed(Main))
          BY <3>1 DEF LInv, QueueInv, HandoverFresh
        <4>2. QED
          BY <1>5, <1>10, <2>1, <4>1 DEF Fresh
      <3>2. QED
        BY <3>1
    <2>3. ASSUME NEW k \in CommandIds, manager'[k].pc = "load" PROVE Fresh(Filed(Tmp))'
      <3>1. Fresh(Filed(Tmp))
        BY <1>8, <2>3 DEF LInv, QueueInv, HandoverFresh
      <3>2. QED
        BY <1>5, <1>10, <2>1, <3>1 DEF Fresh
    <2>4. QED
      BY <1>2, <2>2, <2>3 DEF HandoverFresh
  <1>14. HeldSound'
    <2>1. ASSUME NEW k \in CommandIds
          PROVE  /\ IsInjective(manager'[k].queued)
                 /\ \A j \in Queue(k)' : starts'[j] = 0 /\ Submitted(j)'
      <3>1. CASE k = m
        BY <1>1, <1>3, <1>4, <1>5, <3>1
      <3>2. CASE k # m
        <4>1. Queue(k) \cap new = {} /\ Queue(k) \subseteq CommandIds
          BY <1>2, <3>2, QueueTypes DEF LInv, QueueInv, HeldSound
        <4>2. /\ IsInjective(manager[k].queued)
              /\ \A j \in Queue(k) : starts[j] = 0 /\ Submitted(j)
          BY DEF LInv, QueueInv, HeldSound
        <4>3. QED
          BY <1>3, <1>4, <1>5, <3>2, <4>1, <4>2
      <3>3. QED
        BY <3>1, <3>2
    <2>2. \A k, l \in CommandIds : k # l => Queue(k)' \cap Queue(l)' = {}
      BY <1>9 DEF LInv, QueueInv, HeldSound
    <2>3. QED
      BY <2>1, <2>2 DEF HeldSound
  <1>15. /\ Shown(m)' = Shown(m) \cup new
         /\ \A k \in CommandIds \ {m} : Shown(k)' = Shown(k)
    BY <1>2, <1>3 DEF Shown
  <1>16. \A k \in CommandIds : new \cap Shown(k) = {}
    BY <1>4 DEF LInv, StartsInv
  <1>17. StartsInv'
    <2>1. ASSUME NEW j \in CommandIds
          PROVE  starts'[j] <= 1 /\ (starts'[j] > 0 => Submitted(j)')
      <3>1. CASE j \in new
        BY <1>1, <1>2, <1>4, <1>5, <3>1
      <3>2. CASE j \notin new
        BY <1>4, <1>5, <3>2 DEF LInv, StartsInv
      <3>3. QED
        BY <3>1, <3>2
    <2>2. ASSUME NEW k \in CommandIds PROVE \A j \in Shown(k)' : Started(j)'
      <3>1. \A j \in Shown(k) : Started(j) /\ j \in CommandIds
        BY RecordFields, ContentsFacts, PathFacts DEF LInv, StartsInv, Shown, LauncherTypes
      <3>2. QED
        BY <1>4, <1>15, <3>1
    <2>3. \A k, l \in CommandIds : k # l => Shown(k)' \cap Shown(l)' = {}
      BY <1>15, <1>16 DEF LInv, StartsInv
    <2>4. QED
      BY <2>1, <2>2, <2>3 DEF StartsInv
  <1>18. CountInv'
    <2>1. ASSUME NEW k \in CommandIds, manager'[k].pc = "count" PROVE Counted(k)'
      <3>1. k # m /\ manager'[k] = manager[k] /\ Counted(k)
        BY <1>3, <2>1 DEF LInv, CountInv
      <3>2. PICK G \in SUBSET CommandIds :
              /\ manager[k].others <= Cardinality(G)
              /\ \A j \in G : Started(j)
              /\ \A p \in manager[k].reads \cap CommandIds : G \cap Shown(p) = {}
        BY <3>1 DEF Counted
      <3>3. G \cap new = {} /\ \A j \in G : Started(j)'
        BY <1>4, <3>2
      <3>4. \A p \in manager[k].reads \cap CommandIds : G \cap Shown(p)' = {}
        BY <1>15, <3>2, <3>3
      <3>5. QED
        BY <3>1, <3>2, <3>3, <3>4 DEF Counted
    <2>2. \A k \in CommandIds : manager'[k].others <= MaxCommands
      BY <1>3 DEF LInv, CountInv
    <2>3. QED
      BY <2>1, <2>2 DEF CountInv
  <1>19. KeptInv'
    <2> SUFFICES ASSUME crashes = 0 PROVE KeptInv'
      BY <1>2 DEF KeptInv
    <2>1. ASSUME NEW j \in CommandIds, Safe(j) PROVE Safe(j)'
      <3>1. CASE Started(j)
        BY <1>4, <3>1 DEF Safe
      <3>2. CASE j \in new
        BY <1>4, <3>2 DEF Safe
      <3>3. CASE ~Started(j) /\ j \notin new
        <4>1. PICK k \in CommandIds : (manager[k].pc = "load" /\ j \in Filed(Tmp)) \/ j \in Queue(k)
          BY <2>1, <3>3 DEF Safe
        <4>2. (manager'[k].pc = "load" /\ j \in Filed(Tmp)') \/ j \in Queue(k)'
          BY <1>3, <1>5, <1>8, <3>3, <4>1
        <4>3. QED
          BY <4>2 DEF Safe
      <3>4. QED
        BY <3>1, <3>2, <3>3
    <2>2. Filed(Main) \subseteq CommandIds
      BY QueueTypes, PathFacts DEF LInv
    <2>3. QED
      BY <1>2, <1>5, <2>1, <2>2 DEF LInv, KeptInv
  <1>20. PatientInv'
    <2> SUFFICES ASSUME Patient PROVE PatientInv'
      BY <1>2 DEF PatientInv, Patient
    <2>1. OneManager /\ FilesSettled /\ OthersCounted /\ WithinInv
      BY DEF LInv, PatientInv
    <2>2. /\ Alive(m) /\ ~Starting(m) /\ Alive(m)'
          /\ \A k \in CommandIds : Alive(k)' <=> Alive(k)
          /\ \A k \in CommandIds : Alive(k) => k = m
          /\ \A k \in CommandIds : manager'[k].pc # "count"
          /\ \A k \in CommandIds : manager'[k].pc = "write" <=> manager[k].pc = "write"
      BY <1>2, <1>3, <2>1 DEF Alive, Starting, OneManager
    <2>3. OneManager'
      BY <1>5, <2>1, <2>2 DEF OneManager
    <2>4. FilesSettled'
      BY <1>2, <1>8, <2>1, <2>2 DEF FilesSettled
    <2>5. OthersCounted'
      BY <2>2 DEF OthersCounted
    <2>6. /\ \A k \in CommandIds : k # m => Current(k)' = Current(k)
          /\ Current(m)' = Current(m) \cup new /\ Current(m) = manager[m].active
      BY <1>2, <1>3, <2>2 DEF Current
    <2>7. processes \subseteq manager[m].active \cup Behind(m)
      <3>1. ASSUME NEW j \in processes, j \notin manager[m].active PROVE j \in Behind(m)
        <4>1. PICK k \in CommandIds : j \in Current(k)
          BY <2>1 DEF WithinInv
        <4>2. k # m /\ j \in folder[k].active /\ j \in CommandIds
          BY <2>2, <2>6, <3>1, <4>1 DEF Current, LInv, LauncherTypes
        <4>3. QED
          BY <1>2, <4>1, <4>2 DEF Behind
      <3>2. QED
        BY <3>1
    <2>8. Cardinality(processes \cup new) <= JobLimit
      <3> DEFINE a == manager[m].active
                 b == Behind(m)
      <3>1. a \subseteq CommandIds /\ b \subseteq CommandIds /\ processes \subseteq CommandIds
        BY RecordFields DEF LInv, LauncherTypes, Behind
      <3>2. IsFiniteSet(a) /\ IsFiniteSet(b) /\ IsFiniteSet(processes)
        BY <3>1, PathFacts, FS_Subset
      <3>3. Cardinality(b) <= manager[m].others /\ manager[m].others \in Nat
        BY <1>2, <2>1, RecordFields DEF OthersCounted, LInv, LauncherTypes
      <3>4. Free(m) = JobLimit - Cardinality(a) - manager[m].others
        BY DEF Free
      <3>5. processes \subseteq a \cup b
        BY <2>7
      <3>6. Cardinality(processes) <= JobLimit
        BY <2>1 DEF WithinInv
      <3> HIDE DEF a, b
      <3>7. CASE n = 0
        <4>1. processes \cup new = processes
          BY <1>2, <3>7, FS_EmptySet
        <4>2. QED
          BY <3>6, <4>1
      <3>8. CASE n # 0
        <4>1. IsFiniteSet(a \cup b) /\ IsFiniteSet((a \cup b) \cup new)
          BY <1>2, <3>2, FS_Union
        <4>2. Cardinality(processes \cup new) <= Cardinality((a \cup b) \cup new)
          <5>1. processes \cup new \subseteq (a \cup b) \cup new
            BY <3>5
          <5>2. QED
            BY <4>1, <5>1, FS_Subset
        <4>3. Cardinality(a \cup b) <= Cardinality(a) + Cardinality(b)
          <5>1. Cardinality(a \cup b) = Cardinality(a) + Cardinality(b) - Cardinality(a \cap b)
            BY <3>2, FS_Union
          <5>2. Cardinality(a \cap b) \in Nat /\ Cardinality(a) \in Nat /\ Cardinality(b) \in Nat
            BY <3>2, FS_Intersection, FS_CardinalityType
          <5>3. QED
            BY <5>1, <5>2
        <4>4. Cardinality((a \cup b) \cup new) <= Cardinality(a \cup b) + n
          <5>1. Cardinality((a \cup b) \cup new)
                  = Cardinality(a \cup b) + Cardinality(new) - Cardinality((a \cup b) \cap new)
            BY <1>2, <4>1, FS_Union
          <5>2. Cardinality((a \cup b) \cap new) \in Nat /\ Cardinality(a \cup b) \in Nat
            BY <1>2, <4>1, FS_Intersection, FS_CardinalityType
          <5>3. QED
            BY <1>2, <5>1, <5>2
        <4>5. /\ Cardinality(a) \in Nat /\ Cardinality(b) \in Nat
              /\ Cardinality(a \cup b) \in Nat /\ Cardinality((a \cup b) \cup new) \in Nat
              /\ Cardinality(processes \cup new) \in Nat
          BY <1>2, <3>2, <4>1, FS_CardinalityType, FS_Union
        <4>6. n <= JobLimit - Cardinality(a) - manager[m].others
          BY <1>2, <3>4, <3>8
        <4>7. QED
          BY <1>2, <3>3, <4>2, <4>3, <4>4, <4>5, <4>6, PathFacts
      <3>9. QED
        BY <3>7, <3>8
    <2>9. WithinInv'
      <3>1. ASSUME NEW j \in processes \cup new PROVE \E k \in CommandIds : j \in Current(k)'
        <4>1. CASE j \in new
          BY <2>6, <4>1
        <4>2. CASE j \in processes
          <5>1. PICK k \in CommandIds : j \in Current(k)
            BY <2>1, <4>2 DEF WithinInv
          <5>2. QED
            BY <2>6, <5>1
        <4>3. QED
          BY <4>1, <4>2
      <3>2. QED
        BY <1>2, <2>8, <3>1 DEF WithinInv
    <2>10. QED
      BY <2>3, <2>4, <2>5, <2>9 DEF PatientInv
  <1>21. QED
    BY <1>6, <1>8, <1>11, <1>12, <1>13, <1>14, <1>17, <1>18, <1>19, <1>20 DEF LInv, QueueInv

-----------------------------------------------------------------------------
(* The theorems about the launcher                                         *)
LEMMA LauncherInit ==
  ASSUME ProcInit
  PROVE  LInv
  <1>1. /\ user \in Users /\ user.crashes \in Nat
        /\ \A p \in Paths : folder[p] = Absent
        /\ \A c \in CommandIds : /\ command[c].kind = "none" /\ command[c].pc = "new"
                                 /\ command[c].queued = <<>>
        /\ \A m \in CommandIds : /\ manager[m].pc = "none" /\ manager[m].queued = <<>>
                                 /\ manager[m].active = {} /\ manager[m].reads = {}
                                 /\ manager[m].others = 0
        /\ \A j \in CommandIds : starts[j] = 0
        /\ processes = {} /\ crashes = 0
    BY ProcManAssumption DEF ProcInit
  <1>2. \A p \in Paths : folder[p].is = "absent" /\ folder[p].queued = <<>> /\ folder[p].active = {}
    BY <1>1 DEF Absent
  <1>3. LauncherTypes
    <2>1. folder \in [Paths -> Contents]
      BY ContentsFacts DEF ProcInit
    <2>2. command \in [CommandIds -> CommandStates]
      BY EmptySeq DEF ProcInit, CommandStates, CommandPcs
    <2>3. manager \in [CommandIds -> Managers]
      BY EmptySeq DEF ProcInit, Managers, ManagerPcs
    <2>4. starts \in [CommandIds -> Nat]
      BY DEF ProcInit
    <2>5. QED
      BY <1>1, <2>1, <2>2, <2>3, <2>4 DEF LauncherTypes
  <1>4. \A c \in CommandIds : ~Working(c) /\ ~Handing(c) /\ ~Alive(c) /\ ~Starting(c) /\ ~Submitted(c)
    BY <1>1 DEF Working, Handing, Alive, Starting, Submitted
  <1>5. CommandInv
    BY <1>1, <1>2, <1>4, PathFacts DEF CommandInv
  <1>6. FolderInv
    BY <1>2, PathFacts DEF FolderInv
  <1>7. ManagerInv
    BY <1>1, <1>2, <1>4, PathFacts DEF ManagerInv
  <1>8. /\ \A p \in Paths : Filed(p) = {}
        /\ \A m \in CommandIds : Queue(m) = {} /\ Shown(m) = {}
    BY <1>1, <1>2, PathFacts, EmptyQueue DEF Filed, Queue, Shown
  <1>9. QueueInv
    <2>1. FilesSound /\ MemorySound
      BY <1>2, <1>4, <1>8, PathFacts, EmptyQueue DEF FilesSound, MemorySound
    <2>2. HandoverFresh
      BY <1>8, PathFacts DEF HandoverFresh, Fresh
    <2>3. HeldSound
      BY <1>1, <1>8, EmptyQueue DEF HeldSound
    <2>4. QED
      BY <2>1, <2>2, <2>3 DEF QueueInv
  <1>10. StartsInv /\ CountInv
    BY <1>1, <1>8, PathFacts DEF StartsInv, CountInv
  <1>11. KeptInv
    BY <1>1, <1>4 DEF KeptInv
  <1>12. PatientInv
    <2>1. Cardinality(processes) <= JobLimit
      BY <1>1, PathFacts, FS_EmptySet
    <2>2. OneManager
      BY <1>4 DEF OneManager
    <2>3. FilesSettled
      BY <1>1, <1>2, <1>4, PathFacts DEF FilesSettled
    <2>4. OthersCounted
      BY <1>1 DEF OthersCounted
    <2>5. WithinInv
      BY <1>1, <2>1 DEF WithinInv
    <2>6. QED
      BY <2>2, <2>3, <2>4, <2>5 DEF PatientInv
  <1>13. QED
    BY <1>3, <1>5, <1>6, <1>7, <1>9, <1>10, <1>11, <1>12 DEF LInv

LEMMA LauncherStep ==
  ASSUME LInv, Waiting, [ProcNext]_procVars
  PROVE  LInv'
  <1>1. user.waits \in {"taken", "all"}
    BY DEF Waiting, LInv, LauncherTypes
  <1>2. ASSUME NEW c \in CommandIds, Issue(c) PROVE LInv'
    BY <1>1, <1>2, IssueStep
  <1>3. ASSUME NEW c \in CommandIds, Command(c) PROVE LInv'
    BY <1>3, SubmitLoadStep, StartLoadStep, CopyOpenStep, CopyWriteStep, CopyModeStep,
       SpawnStep, SaveOpenStep, SaveWriteStep DEF Command
  <1>4. ASSUME NEW m \in CommandIds, Manager(m) PROVE LInv'
    BY <1>4, LoadStep, TakeFileStep, ReapStep, CountStep, LaunchJobsStep,
       ManagerOpenStep, ManagerWriteStep, FinishStep DEF Manager
  <1>5. ASSUME NEW m \in CommandIds, Crash(m) PROVE LInv'
    BY <1>5, CrashStep
  <1>6. ASSUME NEW j \in CommandIds, JobEnds(j) PROVE LInv'
    BY <1>6, JobEndsStep
  <1>7. CASE UNCHANGED procVars
    <2>1. UNCHANGED <<user, folder, command, manager, processes, starts, crashes>>
      BY <1>7 DEF procVars
    <2>2. /\ LauncherTypes' /\ CommandInv' /\ FolderInv' /\ ManagerInv'
      BY <2>1 DEF LInv, LauncherTypes, CommandInv, FolderInv, ManagerInv,
                  Working, Handing, Starting
    <2>3. FilesSound' /\ MemorySound' /\ HandoverFresh' /\ HeldSound'
      BY <2>1, QueueFrame
    <2>4. KeptInv'
      BY <2>1, KeptFrame
    <2>5. CountInv' /\ \A n \in CommandIds : Shown(n)' \subseteq Shown(n)
      BY <2>1, CountFrame
    <2>6. StartsInv'
      BY <2>1, <2>5, StartsFrame DEF Submitted
    <2>7. PatientInv'
      BY <2>1, PatientFrame DEF Working
    <2>8. QED
      BY <2>2, <2>3, <2>4, <2>5, <2>6, <2>7 DEF LInv, QueueInv
  <1>8. QED
    BY <1>2, <1>3, <1>4, <1>5, <1>6, <1>7 DEF ProcNext

\* What the invariant says of the jobs, in the words of ProcMan.
LEMMA LauncherFacts ==
  ASSUME LInv
  PROVE  LauncherInv
  <1>1. ProcTypeOK
    <2>1. \A m \in CommandIds : /\ manager[m].active \subseteq CommandIds
                                /\ manager[m].reads \subseteq Paths \ {m}
                                /\ manager[m].others \in 0 .. MaxCommands
      <3> SUFFICES ASSUME NEW m \in CommandIds
                   PROVE  /\ manager[m].active \subseteq CommandIds
                          /\ manager[m].reads \subseteq Paths \ {m}
                          /\ manager[m].others \in 0 .. MaxCommands
        OBVIOUS
      <3>1. manager[m].active \subseteq CommandIds /\ manager[m].others \in Nat
        BY RecordFields DEF LInv, LauncherTypes
      <3>2. manager[m].reads \subseteq Paths \ {m} /\ manager[m].others <= MaxCommands
        BY DEF LInv, ManagerInv, CountInv
      <3>3. QED
        BY <3>1, <3>2, PathFacts
    <2>2. QED
      BY <2>1 DEF LInv, LauncherTypes, FolderInv, ProcTypeOK
  <1>2. LostOnlyWithManager
    <2> SUFFICES ASSUME crashes = 0, NEW j \in CommandIds, Submitted(j)
                 PROVE  \/ Started(j) \/ Kept(j)
                        \/ \E m \in CommandIds : manager[m].pc = "dead" /\ j \in ToSet(manager[m].queued)
      BY DEF LostOnlyWithManager
    <2>1. CASE j \in Filed(Main)
      BY <2>1 DEF Filed, Kept
    <2>2. CASE \E c \in CommandIds : Working(c) /\ j \in ToSet(command[c].queued)
      BY <2>2 DEF Kept
    <2>3. CASE Started(j)
      BY <2>3
    <2>4. CASE \E m \in CommandIds : manager[m].pc = "load" /\ j \in Filed(Tmp)
      BY <2>4 DEF Filed, Kept
    <2>5. CASE \E m \in CommandIds : j \in Queue(m)
      <3>1. PICK m \in CommandIds : j \in Queue(m)
        BY <2>5
      <3>2. manager[m].pc \notin {"none", "end"}
        BY <3>1, EmptyQueue DEF LInv, ManagerInv, Queue
      <3>3. QED
        BY <3>1, <3>2 DEF Kept, Alive, Queue
    <2>6. QED
      BY <2>1, <2>2, <2>3, <2>4, <2>5 DEF LInv, KeptInv, Safe
  <1>3. StartedOnce
    BY DEF LInv, StartsInv, StartedOnce
  <1>4. WithinLimit
    BY DEF LInv, PatientInv, WithinInv, WithinLimit
  <1>5. QED
    BY <1>1, <1>2, <1>3, <1>4 DEF LauncherInv

\* With a user who gives the next command only when the last has returned and
\* its manager has read its file, whatever the managers, their jobs and kills
\* do in between: no job is started twice, none is lost but in a manager that
\* died, and the patient user's jobs stay within the limit.
THEOREM LauncherInvariant ==
  ASSUME Waiting
  PROVE  ProcSpec => []LauncherInv
  <1>1. ProcInit => LInv
    BY LauncherInit
  <1>2. LInv /\ [ProcNext]_procVars => LInv'
    BY LauncherStep
  <1>3. LInv => LauncherInv
    BY LauncherFacts
  <1>4. QED
    BY <1>1, <1>2, <1>3, PTL DEF ProcSpec

\* A manager that finds a file of the folder empty or half written would die:
\* when only managers work on the folder, it never does.
LEMMA ManagersDoNotDie ==
  ASSUME LInv, [ProcNext]_procVars, Patient, \A c \in CommandIds : ~Working(c),
         NEW m \in CommandIds, Alive(m)
  PROVE  manager'[m].pc # "dead"
  <1>1. /\ OneManager /\ FilesSettled /\ LauncherTypes
        /\ manager[m].pc # "dead" /\ user.crashes = 0 /\ crashes = 0
    BY DEF LInv, PatientInv, Patient, Alive, LauncherTypes
  <1>2. manager' = manager \/ manager'[m] = manager[m] => manager'[m].pc # "dead"
    BY <1>1
  <1>3. ASSUME NEW n \in CommandIds, Load(n) PROVE manager'[m].pc # "dead"
    <2>1. folder[Tmp].is = "whole" /\ manager[n].pc = "load"
      BY <1>3, StartingFacts DEF Load, Starting
    <2>2. ManagerBecomes(n, "remove", folder[Tmp].queued, manager[n].active,
                         manager[n].reads, manager[n].others)
      BY <1>1, <1>3, <2>1, LoadEffect
    <2>3. QED
      BY <1>1, <2>2 DEF ManagerBecomes
  <1>4. ASSUME NEW n \in CommandIds, TakeFile(n) PROVE manager'[m].pc # "dead"
    <2>1. Took
      BY <1>4, StartingFacts DEF TakeFile, Starting, Took
    <2>2. manager' = [manager EXCEPT ![n].pc = IF manager[n].queued = <<>> THEN "end" ELSE "tick"]
      BY <1>4, <2>1 DEF TakeFile
    <2>3. QED
      BY <1>1, <2>2 DEF LauncherTypes
  <1>5. ASSUME NEW n \in CommandIds, Count(n) PROVE manager'[m].pc # "dead"
    <2>1. manager[n].pc = "count" /\ Alive(n) /\ n = m /\ ~Starting(n)
      BY <1>1, <1>5 DEF Count, Alive, Starting, OneManager
    <2>2. PICK p \in manager[n].reads :
            IF folder[p].is # "whole"
              THEN ManagerBecomes(n, "dead", manager[n].queued, manager[n].active,
                                  manager[n].reads, manager[n].others)
              ELSE ManagerBecomes(n, "count", manager[n].queued, manager[n].active,
                                  manager[n].reads \ {p},
                                  manager[n].others + Cardinality(folder[p].active))
      BY <1>1, <1>5, CountEffect
    <2>3. p \in Paths \ {m}
      BY <2>1, <2>2 DEF LInv, ManagerInv
    <2>4. folder[p].is \in {"torn", "whole"}
      BY <1>1, <2>1, <2>3, ContentsFacts DEF FilesSettled, LauncherTypes
    <2>5. folder[p].is # "torn"
      <3>1. CASE p = Main
        BY <3>1 DEF LInv, CommandInv, Working
      <3>2. CASE p = Tmp
        BY <1>1, <2>1, <2>4, <3>2 DEF FilesSettled
      <3>3. CASE p \in CommandIds
        BY <1>1, <2>3, <3>3 DEF FilesSettled, OneManager, Alive
      <3>4. QED
        BY <2>3, <3>1, <3>2, <3>3, PathFacts
    <2>6. QED
      BY <1>1, <2>1, <2>2, <2>4, <2>5 DEF ManagerBecomes
  <1>6. ASSUME NEW n \in CommandIds, Reap(n) PROVE manager'[m].pc # "dead"
    BY <1>1, <1>6, ReapEffect DEF ManagerBecomes
  <1>7. ASSUME NEW n \in CommandIds, LaunchJobs(n) PROVE manager'[m].pc # "dead"
    <2>1. IsInjective(manager[n].queued)
      BY DEF LInv, QueueInv, HeldSound
    <2>2. QED
      BY <1>1, <1>7, <2>1, LaunchEffect DEF ManagerBecomes
  <1>8. ASSUME NEW n \in CommandIds, ManagerOpen(n) \/ ManagerWrite(n) \/ Finish(n)
        PROVE  manager'[m].pc # "dead"
    BY <1>1, <1>8, ManagerOpenEffect, ManagerWriteEffect, FinishEffect DEF ManagerBecomes
  <1>9. ASSUME NEW n \in CommandIds, Crash(n) PROVE manager'[m].pc # "dead"
    BY <1>1, <1>9 DEF Crash
  <1>10. ASSUME NEW c \in CommandIds, Issue(c) \/ Command(c) PROVE manager'[m].pc # "dead"
    <2>1. CASE Issue(c)
      BY <1>1, <2>1 DEF Issue
    <2>2. CASE Command(c)
      BY <2>2 DEF Command, SubmitLoad, StartLoad, CopyOpen, CopyWrite, CopyMode, Spawn,
                  SaveOpen, SaveWrite, Working
    <2>3. QED
      BY <1>10, <2>1, <2>2
  <1>11. ASSUME NEW j \in CommandIds, JobEnds(j) PROVE manager'[m].pc # "dead"
    BY <1>1, <1>11 DEF JobEnds
  <1>12. CASE UNCHANGED procVars
    BY <1>1, <1>12 DEF procVars
  <1>13. QED
    BY <1>3, <1>4, <1>5, <1>6, <1>7, <1>8, <1>9, <1>10, <1>11, <1>12 DEF ProcNext, Manager

\* As long as no command of the patient user works, no manager dies: what a
\* manager reads of the folder is whole.
THEOREM ManagersLive ==
  ASSUME Waiting
  PROVE  ProcSpec => ManagersCoexist
  <1>1. ProcInit => LInv
    BY LauncherInit
  <1>2. LInv /\ [ProcNext]_procVars => LInv'
    BY LauncherStep
  <1>3. LInv /\ [ProcNext]_procVars =>
          [(Patient /\ \A c \in CommandIds : ~Working(c)) =>
             \A m \in CommandIds : Alive(m) => manager'[m].pc # "dead"]_procVars
    BY ManagersDoNotDie
  <1>4. QED
    BY <1>1, <1>2, <1>3, PTL DEF ProcSpec, ManagersCoexist

-----------------------------------------------------------------------------
(***************************************************************************)
(* The tracer. The programs it is proved for capture no graph beside their *)
(* launches, select by number where the region follows the ranges, and mix *)
(* no open range with the option to end behind the last: of the others the *)
(* code promises less (the runs tracer_graph and tracer_names).            *)
(***************************************************************************)
Traceable ==
  \A p \in Programs :
    /\ ~({"launch", "graph"} \subseteq p.kinds)
    /\ p.fromStart => \A r \in p.ranges : r.names = Names
    /\ p.terminate => (\A r \in p.ranges : r.end = 0) \/ (\A r \in p.ranges : r.end # 0)

Records == (Ids \X Nat) \cup {Marker}
Items(I) == [id : I, left : Nat]

CountersOK ==
  /\ calls \in Nat /\ calls <= program.calls
  /\ kernelid \in Nat \ {0} /\ kernelid <= calls + 1
  /\ current.id \in Nat /\ current.id <= program.calls
  /\ file \in Nat /\ file <= program.calls /\ reported \in Nat

StatesOK ==
  /\ pc \in {"idle", "kernel", "flush", "wait", "exit"}
  /\ region \in BOOLEAN /\ stop \in BOOLEAN /\ receiving \in BOOLEAN

QueuesOK ==
  /\ channel \in Seq(Records) /\ Len(channel) <= ChannelSize /\ buffer \in Seq(Records)
  /\ work \in Seq(Items(Ids)) /\ graph \in Seq(Ids)

FilesOK ==
  /\ trace \in [Ids -> Seq(Records)] /\ executed \in [Ids -> Seq(Records)]
  /\ stats \in [Ids -> Nat] /\ closed \subseteq Ids

TracerTypes == program \in Programs /\ CountersOK /\ StatesOK /\ QueuesOK /\ FilesOK

Moving == buffer \o channel

\* The i-th record of a kernel.
Nth(k, i) == <<k, i>>

\* The records of kernel k that are on their way follow those in its file, and
\* as many markers follow them as there are.
Ordered(k, written, moving, pushed, markers) ==
  /\ Len(written) + Len(moving) = Len(pushed) + markers
  /\ \A i \in 1 .. Len(pushed) : pushed[i] = Nth(k, i)
  /\ \A i \in 1 .. Len(written) : written[i] = Nth(k, i)
  /\ \A i \in 1 .. Len(moving) :
       /\ Len(written) + i <= Len(pushed) => moving[i] = Nth(k, Len(written) + i)
       /\ Len(written) + i > Len(pushed) => moving[i] = Marker

InOrder(k, markers) == Ordered(k, trace[k], Moving, executed[k], markers)

InLaunch == pc \in {"kernel", "flush", "wait"}

\* Kernels launched one after the other.
LaunchInv ==
  /\ graph = <<>>
  /\ \A k \in Ids : k >= kernelid => trace[k] = <<>> /\ executed[k] = <<>>
  /\ \A k \in closed : /\ k < kernelid /\ trace[k] = executed[k]
                       /\ stats[k] = Len(executed[k])
  /\ ~InLaunch => Moving = <<>> /\ ~receiving /\ reported = 0 /\ work = <<>>
  /\ InLaunch =>
       /\ current.id = kernelid - 1 /\ current.id \in Ids \ closed
       /\ current.name \in Names
       /\ reported = Len(executed[current.id])
       /\ IF stop THEN executed[current.id] = <<>> /\ work = <<>> ELSE file = current.id
       /\ pc # "kernel" => work = <<>>
       /\ ~receiving => pc = "wait" /\ Moving = <<>>
       /\ Len(work) <= 1 /\ \A i \in 1 .. Len(work) : work[i].id = current.id
       /\ InOrder(current.id, IF pc = "wait" /\ receiving THEN 1 ELSE 0)

\* Graphs, and calls that launch nothing.
GraphInv ==
  /\ pc # "wait" /\ closed = {}
  /\ InLaunch => current.id = 0 /\ graph # <<>>
  /\ graph = <<>> => Moving = <<>> /\ work = <<>>

\* The region and the ranges, where no profiler calls count.
RegionInv ==
  program.fromStart /\ "graph" \notin program.kinds =>
    /\ pc = "idle" /\ region => \A name \in Names : ShouldTrace(kernelid, name)
    /\ InLaunch => (~stop <=> ShouldTrace(current.id, current.name))

TracerIInv ==
  /\ TracerTypes
  /\ "graph" \notin program.kinds => LaunchInv
  /\ "graph" \in program.kinds => GraphInv
  /\ RegionInv
  /\ pc = "exit" => LimitReached

-----------------------------------------------------------------------------
(* What is on the way                                                      *)
LEMMA MovingFacts ==
  ASSUME NEW b \in Seq(Records), NEW c \in Seq(Records)
  PROVE  /\ b \o c \in Seq(Records) /\ Len(b \o c) \in Nat
         /\ Len(b) \in Nat /\ Len(c) \in Nat
         /\ Len(b \o c) = Len(b) + Len(c)
         /\ \A i \in 1 .. Len(b) + Len(c) :
              (b \o c)[i] = IF i <= Len(b) THEN b[i] ELSE c[i - Len(b)]
         /\ b \o c = <<>> <=> b = <<>> /\ c = <<>>
  <1>1. /\ b \o c \in Seq(Records) /\ Len(b) \in Nat /\ Len(c) \in Nat
        /\ Len(b \o c) = Len(b) + Len(c)
        /\ \A i \in 1 .. Len(b) + Len(c) :
              (b \o c)[i] = IF i <= Len(b) THEN b[i] ELSE c[i - Len(b)]
    BY ConcatProperties, LenProperties
  <1>2. b \o c = <<>> <=> b = <<>> /\ c = <<>>
    BY <1>1, EmptySeq
  <1>3. QED
    BY <1>1, <1>2

LEMMA MovingAppend ==
  ASSUME NEW b \in Seq(Records), NEW c \in Seq(Records), NEW e \in Records
  PROVE  /\ Len(b \o Append(c, e)) = Len(b \o c) + 1
         /\ \A i \in 1 .. Len(b \o c) + 1 :
              (b \o Append(c, e))[i] = IF i <= Len(b \o c) THEN (b \o c)[i] ELSE e
  <1>1. /\ Append(c, e) \in Seq(Records) /\ Len(Append(c, e)) = Len(c) + 1
        /\ \A i \in 1 .. Len(c) : Append(c, e)[i] = c[i]
        /\ Append(c, e)[Len(c) + 1] = e
    BY AppendProperties
  <1>2. /\ Len(b) \in Nat /\ Len(c) \in Nat /\ Len(b \o c) = Len(b) + Len(c)
        /\ \A i \in 1 .. Len(b) + Len(c) :
              (b \o c)[i] = IF i <= Len(b) THEN b[i] ELSE c[i - Len(b)]
    BY MovingFacts
  <1>3. /\ Len(b \o Append(c, e)) = Len(b) + (Len(c) + 1)
        /\ \A i \in 1 .. Len(b) + (Len(c) + 1) :
             (b \o Append(c, e))[i] = IF i <= Len(b) THEN b[i] ELSE Append(c, e)[i - Len(b)]
    <2> DEFINE d == Append(c, e)
    <2>1. d \in Seq(Records) /\ Len(d) = Len(c) + 1
      BY <1>1
    <2> HIDE DEF d
    <2>2. /\ Len(b \o d) = Len(b) + Len(d)
          /\ \A i \in 1 .. Len(b) + Len(d) :
               (b \o d)[i] = IF i <= Len(b) THEN b[i] ELSE d[i - Len(b)]
      BY <2>1, MovingFacts
    <2>3. QED
      BY <2>1, <2>2 DEF d
  <1>4. ASSUME NEW i \in 1 .. Len(b) + Len(c) + 1
        PROVE  (b \o Append(c, e))[i] = IF i <= Len(b \o c) THEN (b \o c)[i] ELSE e
    <2>1. CASE i <= Len(b)
      BY <1>2, <1>3, <2>1
    <2>2. CASE i > Len(b) /\ i <= Len(b) + Len(c)
      BY <1>1, <1>2, <1>3, <2>2
    <2>3. CASE i = Len(b) + Len(c) + 1
      <3>1. i - Len(b) = Len(c) + 1 /\ ~(i <= Len(b)) /\ i \in 1 .. Len(b) + (Len(c) + 1)
        BY <1>2, <2>3
      <3>2. (b \o Append(c, e))[i] = Append(c, e)[Len(c) + 1]
        BY <1>3, <3>1
      <3>3. QED
        BY <1>1, <1>2, <2>3, <3>2
    <2>4. QED
      BY <1>2, <2>1, <2>2, <2>3
  <1>5. QED
    BY <1>2, <1>3, <1>4

\* The receiving thread takes a part of the channel.
LEMMA MovingTaken ==
  ASSUME NEW c \in Seq(Records), NEW n \in 1 .. Len(c)
  PROVE  LET taken == SubSeq(c, 1, n)
             rest  == SubSeq(c, n + 1, Len(c))
         IN /\ taken \in Seq(Records) /\ rest \in Seq(Records)
            /\ Len(rest) <= Len(c) /\ taken # <<>>
            /\ Len(taken \o rest) = Len(<<>> \o c)
            /\ \A i \in 1 .. Len(<<>> \o c) : (taken \o rest)[i] = (<<>> \o c)[i]
  <1> DEFINE taken == SubSeq(c, 1, n)
             rest  == SubSeq(c, n + 1, Len(c))
  <1>1. n \in 0 .. Len(c) /\ Len(c) \in Nat /\ n \in Nat /\ n <= Len(c) /\ n >= 1
    BY LenProperties
  <1>2. /\ taken \in Seq(Records) /\ Len(taken) = n
        /\ \A i \in 1 .. n : taken[i] = c[i]
    BY <1>1, FrontOfSeq
  <1>3. /\ rest \in Seq(Records) /\ Len(rest) = Len(c) - n
        /\ \A i \in 1 .. Len(c) - n : rest[i] = c[n + i]
    BY <1>1, RestOfSeq
  <1> HIDE DEF taken, rest
  <1>4. /\ Len(taken \o rest) = Len(taken) + Len(rest)
        /\ \A i \in 1 .. Len(taken) + Len(rest) :
             (taken \o rest)[i] = IF i <= Len(taken) THEN taken[i] ELSE rest[i - Len(taken)]
    BY <1>2, <1>3, MovingFacts
  <1>5. <<>> \o c = c
    BY ConcatEmptySeq
  <1>6. ASSUME NEW i \in 1 .. Len(c) PROVE (taken \o rest)[i] = c[i]
    <2>1. CASE i <= n
      BY <1>1, <1>2, <1>3, <1>4, <2>1
    <2>2. CASE i > n
      <3>1. i - n \in 1 .. Len(c) - n /\ n + (i - n) = i
        BY <1>1, <2>2
      <3>2. (taken \o rest)[i] = rest[i - n]
        BY <1>1, <1>2, <1>3, <1>4, <2>2
      <3>3. QED
        BY <1>3, <3>1, <3>2
    <2>3. i <= n \/ i > n
      BY <1>1
    <2>4. QED
      BY <2>1, <2>2, <2>3
  <1>7. /\ taken # <<>> /\ Len(taken) + Len(rest) = Len(c) /\ Len(rest) <= Len(c)
    BY <1>1, <1>2, <1>3, EmptySeq
  <1>8. QED
    BY <1>2, <1>3, <1>4, <1>5, <1>6, <1>7 DEF taken, rest

\* It takes the first record of its buffer.
LEMMA MovingTail ==
  ASSUME NEW b \in Seq(Records), NEW c \in Seq(Records), b # <<>>
  PROVE  /\ Tail(b) \in Seq(Records) /\ Head(b) \in Records
         /\ Len(b \o c) \in Nat \ {0} /\ Len(Tail(b) \o c) = Len(b \o c) - 1
         /\ Head(b) = (b \o c)[1]
         /\ \A i \in 1 .. Len(b \o c) - 1 : (Tail(b) \o c)[i] = (b \o c)[i + 1]
         /\ Len(b \o c) = 1 => Tail(b) = <<>> /\ c = <<>>
  <1>1. /\ Len(b) \in Nat \ {0} /\ Len(c) \in Nat /\ Head(b) = b[1] /\ b[1] \in Records
        /\ Tail(b) \in Seq(Records) /\ Len(Tail(b)) = Len(b) - 1
        /\ \A i \in 1 .. Len(b) - 1 : Tail(b)[i] = b[i + 1]
    BY HeadTailProperties, LenProperties, EmptySeq, ElementOfSeq
  <1>2. /\ Len(b \o c) = Len(b) + Len(c)
        /\ \A i \in 1 .. Len(b) + Len(c) :
              (b \o c)[i] = IF i <= Len(b) THEN b[i] ELSE c[i - Len(b)]
    BY MovingFacts
  <1>3. /\ Len(Tail(b) \o c) = Len(b) - 1 + Len(c)
        /\ \A i \in 1 .. Len(b) - 1 + Len(c) :
              (Tail(b) \o c)[i] = IF i <= Len(b) - 1 THEN Tail(b)[i] ELSE c[i - (Len(b) - 1)]
    BY <1>1, MovingFacts
  <1>4. ASSUME NEW i \in 1 .. Len(b) + Len(c) - 1
        PROVE  (Tail(b) \o c)[i] = (b \o c)[i + 1]
    <2>1. i \in 1 .. Len(b) - 1 + Len(c) /\ i + 1 \in 1 .. Len(b) + Len(c)
      BY <1>1
    <2>2. CASE i <= Len(b) - 1
      <3>1. i \in 1 .. Len(b) - 1 /\ i + 1 <= Len(b)
        BY <1>1, <2>2
      <3>2. QED
        BY <1>1, <1>2, <1>3, <2>1, <2>2, <3>1
    <2>3. CASE ~(i <= Len(b) - 1)
      <3>1. i - (Len(b) - 1) = i + 1 - Len(b) /\ ~(i + 1 <= Len(b))
        BY <1>1, <2>3
      <3>2. QED
        BY <1>2, <1>3, <2>1, <2>3, <3>1
    <2>4. QED
      BY <2>2, <2>3
  <1>5. Len(b \o c) = 1 => Tail(b) = <<>> /\ c = <<>>
    BY <1>1, <1>2, EmptySeq
  <1>6. QED
    BY <1>1, <1>2, <1>3, <1>4, <1>5

LEMMA OrderedGrows ==
  ASSUME NEW k, NEW t, NEW m, NEW n, NEW x, NEW y, NEW e, Ordered(k, t, m, x, 0),
         Len(t) \in Nat, Len(m) \in Nat, Len(x) \in Nat,
         Len(n) = Len(m) + 1, \A i \in 1 .. Len(m) + 1 : n[i] = IF i <= Len(m) THEN m[i] ELSE e
  PROVE  /\ e = Marker => Ordered(k, t, n, x, 1)
         /\ /\ e = Nth(k, Len(x) + 1) /\ Len(y) = Len(x) + 1 /\ y[Len(x) + 1] = e
            /\ \A i \in 1 .. Len(x) : y[i] = x[i]
            => Ordered(k, t, n, y, 0)
  <1> DEFINE lt == Len(t)
             lm == Len(m)
             lx == Len(x)
  <1>1. /\ lt \in Nat /\ lm \in Nat /\ lx \in Nat /\ lt + lm = lx
        /\ \A i \in 1 .. lx : x[i] = Nth(k, i)
        /\ \A i \in 1 .. lt : t[i] = Nth(k, i)
        /\ \A i \in 1 .. lm : lt + i <= lx => m[i] = Nth(k, lt + i)
        /\ Len(n) = lm + 1 /\ \A i \in 1 .. lm + 1 : n[i] = IF i <= lm THEN m[i] ELSE e
    BY DEF Ordered
  <1> HIDE DEF lt, lm, lx
  <1>2. ASSUME NEW i \in 1 .. lm + 1
        PROVE  IF lt + i <= lx THEN n[i] = Nth(k, lt + i) ELSE n[i] = e /\ lt + i = lx + 1
    BY <1>1
  <1>3. ASSUME e = Marker PROVE Ordered(k, t, n, x, 1)
    <2>1. lt + Len(n) = lx + 1
      BY <1>1
    <2>2. \A i \in 1 .. Len(n) : /\ lt + i <= lx => n[i] = Nth(k, lt + i)
                                 /\ lt + i > lx => n[i] = Marker
      BY <1>1, <1>2, <1>3
    <2>3. QED
      BY <1>1, <2>1, <2>2 DEF Ordered, lt, lx
  <1>4. ASSUME e = Nth(k, lx + 1), Len(y) = lx + 1, y[lx + 1] = e,
               \A i \in 1 .. lx : y[i] = x[i]
        PROVE  Ordered(k, t, n, y, 0)
    <2>1. lt + Len(n) = Len(y) + 0
      BY <1>1, <1>4
    <2>2. \A i \in 1 .. Len(n) : /\ lt + i <= Len(y) => n[i] = Nth(k, lt + i)
                                 /\ lt + i > Len(y) => n[i] = Marker
      BY <1>1, <1>2, <1>4
    <2>3. \A i \in 1 .. Len(y) : y[i] = Nth(k, i)
      BY <1>1, <1>4
    <2>4. QED
      BY <1>1, <2>1, <2>2, <2>3 DEF Ordered, lt
  <1>5. QED
    BY <1>3, <1>4 DEF lx

LEMMA OrderedPush ==
  ASSUME NEW k, NEW t \in Seq(Records), NEW b \in Seq(Records), NEW c \in Seq(Records),
         NEW x \in Seq(Records), NEW e \in Records, Ordered(k, t, b \o c, x, 0)
  PROVE  /\ e = Nth(k, Len(x) + 1) => Ordered(k, t, b \o Append(c, e), Append(x, e), 0)
         /\ e = Marker => Ordered(k, t, b \o Append(c, e), x, 1)
  <1> DEFINE m == b \o c
             n == b \o Append(c, e)
             y == Append(x, e)
  <1>1. Len(t) \in Nat /\ Len(m) \in Nat /\ Len(x) \in Nat
    BY MovingFacts, LenProperties
  <1>2. /\ Len(n) = Len(m) + 1
        /\ \A i \in 1 .. Len(m) + 1 : n[i] = IF i <= Len(m) THEN m[i] ELSE e
    BY MovingAppend
  <1>3. /\ Len(y) = Len(x) + 1 /\ (\A i \in 1 .. Len(x) : y[i] = x[i]) /\ y[Len(x) + 1] = e
    BY AppendProperties
  <1> HIDE DEF m, n, y
  <1>4. Ordered(k, t, m, x, 0)
    BY DEF m
  <1>5. /\ e = Marker => Ordered(k, t, n, x, 1)
        /\ e = Nth(k, Len(x) + 1) => Ordered(k, t, n, y, 0)
    BY <1>1, <1>2, <1>3, <1>4, OrderedGrows, ZenonT(60)
  <1>6. QED
    BY <1>5 DEF n, y

\* Equal in length and place by place is all that counts.
LEMMA OrderedSame ==
  ASSUME NEW k, NEW t, NEW m, NEW n, NEW x, NEW markers,
         Len(n) = Len(m), \A i \in 1 .. Len(m) : n[i] = m[i], Ordered(k, t, m, x, markers)
  PROVE  Ordered(k, t, n, x, markers)
  BY DEF Ordered

\* A sequence without its first element, and one with another element.
Shifted(m, n) ==
  Len(m) \in Nat \ {0} /\ Len(n) = Len(m) - 1 /\ \A i \in 1 .. Len(n) : n[i] = m[i + 1]

Longer(t, u, e) ==
  Len(t) \in Nat /\ Len(u) = Len(t) + 1 /\ u[Len(u)] = e /\ \A i \in 1 .. Len(t) : u[i] = t[i]

LEMMA OrderedShrinks ==
  ASSUME NEW k, NEW t, NEW m, NEW n, NEW x, NEW u, NEW markers \in {0, 1},
         Ordered(k, t, m, x, markers), Len(x) \in Nat, Shifted(m, n), Longer(t, u, m[1]),
         Nth(k, Len(t) + 1) # Marker
  PROVE  /\ m[1] # Marker => Len(x) > 0 /\ Ordered(k, u, n, x, markers)
         /\ m[1] = Marker => markers = 1 /\ Len(m) = 1 /\ Len(t) = Len(x)
  <1> DEFINE lt == Len(t)
             lm == Len(m)
             lx == Len(x)
  <1>1. /\ lt \in Nat /\ lm \in Nat \ {0} /\ lx \in Nat /\ lt + lm = lx + markers
        /\ Len(n) = lm - 1 /\ Len(u) = lt + 1
    BY DEF Ordered, Shifted, Longer
  <1> HIDE DEF lt, lm, lx
  <1>2. ASSUME NEW i \in 1 .. lm
        PROVE  IF lt + i <= lx THEN m[i] = Nth(k, lt + i) ELSE m[i] = Marker
    BY <1>1 DEF Ordered, lt, lm, lx
  <1>3. IF lt + 1 <= lx THEN m[1] = Nth(k, lt + 1) ELSE m[1] = Marker
    BY <1>1, <1>2
  <1>4. ASSUME m[1] # Marker PROVE lx > 0 /\ Ordered(k, u, n, x, markers)
    <2>1. lt + 1 <= lx /\ m[1] = Nth(k, lt + 1)
      BY <1>3, <1>4
    <2>2. ASSUME NEW i \in 1 .. lt + 1 PROVE u[i] = Nth(k, i)
      <3>1. CASE i \in 1 .. lt
        BY <3>1 DEF Longer, Ordered, lt
      <3>2. CASE i = lt + 1
        BY <2>1, <3>2 DEF Longer, lt
      <3>3. QED
        BY <1>1, <3>1, <3>2
    <2>3. ASSUME NEW i \in 1 .. lm - 1
          PROVE  /\ lt + 1 + i <= lx => n[i] = Nth(k, lt + 1 + i)
                 /\ lt + 1 + i > lx => n[i] = Marker
      <3>1. i + 1 \in 1 .. lm /\ lt + (i + 1) = lt + 1 + i
        BY <1>1
      <3>2. n[i] = m[i + 1]
        BY <1>1 DEF Shifted
      <3>3. IF lt + (i + 1) <= lx THEN m[i + 1] = Nth(k, lt + (i + 1)) ELSE m[i + 1] = Marker
        BY <1>2, <3>1
      <3>4. QED
        BY <1>1, <3>1, <3>2, <3>3
    <2>4. lt + 1 + (lm - 1) = lx + markers /\ lx > 0
      BY <1>1, <2>1
    <2>5. \A i \in 1 .. lx : x[i] = Nth(k, i)
      BY DEF Ordered, lx
    <2>6. Ordered(k, u, n, x, markers)
      BY <1>1, <2>2, <2>3, <2>4, <2>5 DEF Ordered, lx
    <2>7. QED
      BY <2>4, <2>6
  <1>5. ASSUME m[1] = Marker PROVE markers = 1 /\ lm = 1 /\ lt = lx
    <2>1. ~(lt + 1 <= lx)
      BY <1>3, <1>5 DEF lt
    <2>2. QED
      BY <1>1, <2>1
  <1>6. QED
    BY <1>4, <1>5 DEF lx, lm, lt

\* The first record on its way is the next of the kernel, or the last marker.
LEMMA OrderedHead ==
  ASSUME NEW k, NEW t \in Seq(Records), NEW b \in Seq(Records), NEW c \in Seq(Records),
         NEW x \in Seq(Records), NEW markers \in {0, 1}, b # <<>>, Ordered(k, t, b \o c, x, markers),
         Nth(k, Len(t) + 1) # Marker
  PROVE  /\ Head(b) # Marker =>
              /\ Append(t, Head(b)) \in Seq(Records) /\ x # <<>>
              /\ Ordered(k, Append(t, Head(b)), Tail(b) \o c, x, markers)
         /\ Head(b) = Marker => /\ markers = 1 /\ Tail(b) = <<>> /\ c = <<>>
                                /\ Ordered(k, t, <<>> \o c, x, 0)
  <1> DEFINE m == b \o c
             n == Tail(b) \o c
             u == Append(t, Head(b))
  <1>1. /\ Len(t) \in Nat /\ Len(x) \in Nat /\ Head(b) \in Records /\ Head(b) = m[1]
        /\ (Len(m) = 1 => Tail(b) = <<>> /\ c = <<>>)
        /\ (x = <<>> => Len(x) = 0)
    BY LenProperties, EmptySeq, MovingTail
  <1>2. Shifted(m, n)
    <2>1. /\ Len(m) \in Nat \ {0} /\ Len(n) = Len(m) - 1
          /\ \A i \in 1 .. Len(m) - 1 : n[i] = m[i + 1]
      BY MovingTail
    <2> HIDE DEF m, n
    <2>2. QED
      BY <2>1 DEF Shifted
  <1>3. u \in Seq(Records) /\ Longer(t, u, m[1])
    <2>1. /\ u \in Seq(Records) /\ Len(u) = Len(t) + 1
          /\ (\A i \in 1 .. Len(t) : u[i] = t[i]) /\ u[Len(t) + 1] = Head(b)
      BY <1>1, AppendProperties
    <2> HIDE DEF m, u
    <2>2. QED
      BY <1>1, <2>1 DEF Longer
  <1> HIDE DEF m, n, u
  <1>4. Ordered(k, t, m, x, markers)
    BY DEF m
  <1>5. /\ m[1] # Marker => Len(x) > 0 /\ Ordered(k, u, n, x, markers)
        /\ m[1] = Marker => markers = 1 /\ Len(m) = 1 /\ Len(t) = Len(x)
    BY <1>1, <1>2, <1>3, <1>4, OrderedShrinks
  <1>6. ASSUME Head(b) = Marker PROVE Ordered(k, t, <<>> \o c, x, 0)
    <2>1. Len(m) = 1 /\ c = <<>> /\ Len(t) = Len(x) /\ Len(t) \in Nat
      BY <1>1, <1>5, <1>6
    <2>2. <<>> \o c = <<>> /\ Len(<<>>) = 0
      BY <2>1, ConcatEmptySeq, EmptySeq
    <2>3. /\ \A i \in 1 .. Len(x) : x[i] = Nth(k, i)
          /\ \A i \in 1 .. Len(t) : t[i] = Nth(k, i)
      BY <1>4 DEF Ordered
    <2>4. QED
      BY <2>1, <2>2, <2>3 DEF Ordered
  <1>7. QED
    BY <1>1, <1>3, <1>5, <1>6 DEF u, n

LEMMA OneElement ==
  ASSUME NEW S, NEW x \in S
  PROVE  <<x>> \in Seq(S) /\ Len(<<x>>) = 1 /\ <<x>>[1] = x
  OBVIOUS

LEMMA TracerFacts ==
  ASSUME TracerTypes
  PROVE  /\ program.calls \in Nat /\ program.records \in Nat /\ Ids = 1 .. program.calls
         /\ ChannelSize \in Nat \ {0}
         /\ Marker \in Records /\ Ids \subseteq Nat
         /\ \A id \in Ids, i \in Nat : Nth(id, i) \in Records /\ Nth(id, i) # Marker
         /\ kernelid \in Nat /\ calls \in Nat /\ kernelid <= calls + 1 /\ calls <= program.calls
         /\ kernelid >= 1
  <1>1. program \in Programs
    BY DEF TracerTypes
  <1>2. program.calls \in Nat /\ program.records \in Nat /\ ChannelSize \in Nat \ {0}
    BY <1>1, TracerAssumption
  <1>3. \A k \in Ids, i \in Nat : <<k, i>> # <<0, 0>>
    BY <1>2 DEF Ids
  <1>4. /\ Marker \in Records /\ Ids \subseteq Nat /\ Ids = 1 .. program.calls
        /\ \A id \in Ids, i \in Nat : Nth(id, i) \in Records /\ Nth(id, i) # Marker
    BY <1>2, <1>3 DEF Ids, Records, Marker, Nth
  <1>5. /\ kernelid \in Nat /\ calls \in Nat /\ kernelid <= calls + 1 /\ calls <= program.calls
        /\ kernelid >= 1
    BY <1>2 DEF TracerTypes, CountersOK
  <1>6. QED
    BY <1>2, <1>4, <1>5

LEMMA SameProgram ==
  ASSUME program' = program
  PROVE  Ids' = Ids /\ Records' = Records
  BY DEF Ids, Records

\* An action that moves no record.
LEMMA NothingMoves ==
  ASSUME UNCHANGED <<channel, buffer, trace, executed>>
  PROVE  /\ Moving' = Moving
         /\ \A k, m : InOrder(k, m)' <=> InOrder(k, m)
  BY DEF Moving, InOrder, Ordered

LEMMA LimitStep ==
  ASSUME TracerIInv, Limit
  PROVE  TracerIInv'
  <1>0. /\ TracerTypes /\ program.calls \in Nat /\ program.records \in Nat
        /\ kernelid \in Nat /\ calls \in Nat /\ kernelid <= calls + 1 /\ calls <= program.calls
        /\ kernelid >= 1 /\ Ids = 1 .. program.calls
        /\ Marker \in Records /\ \A id \in Ids, i \in Nat : Nth(id, i) \in Records /\ Nth(id, i) # Marker
    BY TracerFacts DEF TracerIInv
  <1>1. /\ UNCHANGED <<program, kernelid, current, stop, receiving, file, channel, buffer, work,
                       graph, trace, reported, stats, closed, executed>>
        /\ pc = "idle" /\ pc' = "exit" /\ calls < program.calls /\ calls' = calls + 1
        /\ LimitReached /\ region' \in BOOLEAN
    BY DEF Limit, Call, device, results, Entered, TracerIInv, TracerTypes, StatesOK, ShouldTrace
  <1>2. TracerTypes'
    <2>1. CountersOK'
      BY <1>0, <1>1 DEF TracerTypes, CountersOK
    <2>2. StatesOK'
      BY <1>0, <1>1 DEF TracerTypes, StatesOK
    <2>3. QueuesOK'
      BY <1>0, <1>1, SameProgram DEF TracerTypes, QueuesOK
    <2>4. FilesOK'
      BY <1>0, <1>1, SameProgram DEF TracerTypes, FilesOK
    <2>5. QED
      BY <1>0, <1>1, <2>1, <2>2, <2>3, <2>4 DEF TracerTypes
  <1>3. Moving' = Moving /\ ~InLaunch /\ ~InLaunch'
    BY <1>1, NothingMoves DEF InLaunch
  <1>4. LaunchInv => LaunchInv'
    BY <1>1, <1>3 DEF LaunchInv, Ids
  <1>5. GraphInv => GraphInv'
    BY <1>1, <1>3 DEF GraphInv
  <1>6. RegionInv' /\ LimitReached'
    BY <1>1, <1>3 DEF RegionInv, LimitReached
  <1>7. QED
    BY <1>1, <1>2, <1>4, <1>5, <1>6 DEF TracerIInv

LEMMA ProfilerStep ==
  ASSUME TracerIInv, Profiler
  PROVE  TracerIInv'
  <1>0. /\ TracerTypes /\ program.calls \in Nat /\ program.records \in Nat
        /\ kernelid \in Nat /\ calls \in Nat /\ kernelid <= calls + 1 /\ calls <= program.calls
        /\ kernelid >= 1 /\ Ids = 1 .. program.calls
        /\ Marker \in Records /\ \A id \in Ids, i \in Nat : Nth(id, i) \in Records /\ Nth(id, i) # Marker
    BY TracerFacts DEF TracerIInv
  <1>1. /\ UNCHANGED <<program, pc, kernelid, current, stop, receiving, file, channel, buffer,
                       work, graph, trace, reported, stats, closed, executed>>
        /\ pc = "idle" /\ calls < program.calls /\ calls' = calls + 1
        /\ region' \in BOOLEAN /\ (program.fromStart => region' = region)
    BY DEF Profiler, Call, device, results, TracerIInv, TracerTypes, StatesOK
  <1>2. TracerTypes'
    <2>1. CountersOK'
      BY <1>0, <1>1 DEF TracerTypes, CountersOK
    <2>2. StatesOK'
      BY <1>0, <1>1 DEF TracerTypes, StatesOK
    <2>3. QueuesOK'
      BY <1>0, <1>1, SameProgram DEF TracerTypes, QueuesOK
    <2>4. FilesOK'
      BY <1>0, <1>1, SameProgram DEF TracerTypes, FilesOK
    <2>5. QED
      BY <1>0, <1>1, <2>1, <2>2, <2>3, <2>4 DEF TracerTypes
  <1>3. Moving' = Moving /\ ~InLaunch /\ ~InLaunch'
    BY <1>1, NothingMoves DEF InLaunch
  <1>4. LaunchInv => LaunchInv'
    BY <1>1, <1>3 DEF LaunchInv, Ids
  <1>5. GraphInv => GraphInv'
    BY <1>1, <1>3 DEF GraphInv
  <1>6. RegionInv'
    BY <1>1, <1>3 DEF TracerIInv, RegionInv, ShouldTrace
  <1>7. QED
    BY <1>1, <1>2, <1>4, <1>5, <1>6 DEF TracerIInv

\* The region follows the ranges.
LEMMA EnteredExact ==
  ASSUME TracerIInv, Traceable, pc = "idle", program.fromStart, "graph" \notin program.kinds,
         NEW name \in Names
  PROVE  Entered(name) <=> ShouldTrace(kernelid, name)
  BY DEF TracerIInv, RegionInv, Entered

LEMMA LaunchStep ==
  ASSUME TracerIInv, Traceable, Launch
  PROVE  TracerIInv'
  <1>0. /\ TracerTypes /\ program.calls \in Nat /\ program.records \in Nat
        /\ kernelid \in Nat /\ calls \in Nat /\ kernelid <= calls + 1 /\ calls <= program.calls
        /\ kernelid >= 1 /\ Ids = 1 .. program.calls
        /\ Marker \in Records /\ \A id \in Ids, i \in Nat : Nth(id, i) \in Records /\ Nth(id, i) # Marker
    BY TracerFacts DEF TracerIInv
  <1>1. PICK name \in Names, n \in 0 .. program.records :
          /\ Call("launch") /\ Enter(name) /\ pc' = "kernel"
          /\ work' = IF Entered(name) THEN <<[id |-> kernelid, left |-> n]>> ELSE <<>>
          /\ UNCHANGED <<program, channel, buffer, graph, results, executed>>
    BY DEF Launch
  <1>2. /\ UNCHANGED <<program, channel, buffer, graph, trace, reported, stats, closed, executed>>
        /\ pc = "idle" /\ pc' = "kernel" /\ calls < program.calls /\ calls' = calls + 1
        /\ "graph" \notin program.kinds
        /\ region' = Entered(name) /\ stop' = ~Entered(name) /\ Entered(name) \in BOOLEAN
        /\ file' = IF Entered(name) THEN kernelid ELSE file
        /\ kernelid' = kernelid + 1 /\ receiving' = TRUE
        /\ current' = [id |-> kernelid, name |-> name]
        /\ n \in Nat
    <2>1. Entered(name) \in BOOLEAN
      BY <1>0 DEF Entered, TracerTypes, StatesOK, ShouldTrace
    <2>2. "graph" \notin program.kinds
      BY <1>0, <1>1 DEF Call, Traceable, TracerTypes
    <2>3. QED
      BY <1>0, <1>1, <2>1, <2>2 DEF Call, Enter, Receives, results
  <1>3. kernelid \in Ids /\ kernelid \in 0 .. program.calls /\ Ids' = Ids
    BY <1>0, <1>2, SameProgram
  <1>4. work' \in Seq(Items(Ids)) /\ Len(work') <= 1
        /\ (\A i \in 1 .. Len(work') : work'[i].id = kernelid)
        /\ (stop' => work' = <<>>)
    <2>1. CASE Entered(name)
      <3> DEFINE item == [id |-> kernelid, left |-> n]
      <3>1. /\ work' = <<item>> /\ item \in Items(Ids) /\ item.id = kernelid
            /\ ~stop'
        BY <1>1, <1>2, <1>3, <2>1 DEF Items
      <3> HIDE DEF item
      <3>2. work' \in Seq(Items(Ids)) /\ Len(work') = 1 /\ work'[1] = item
        BY <3>1, OneElement
      <3>3. QED
        BY <3>1, <3>2
    <2>2. CASE ~Entered(name)
      BY <1>1, <2>2, EmptySeq
    <2>3. QED
      BY <2>1, <2>2
  <1>5. TracerTypes'
    <2>1. CountersOK'
      BY <1>0, <1>2, <1>3, <1>4 DEF TracerTypes, CountersOK
    <2>2. StatesOK'
      BY <1>0, <1>2, <1>3, <1>4 DEF TracerTypes, StatesOK
    <2>3. QueuesOK'
      BY <1>0, <1>2, <1>3, <1>4, SameProgram DEF TracerTypes, QueuesOK
    <2>4. FilesOK'
      BY <1>0, <1>2, <1>3, <1>4, SameProgram DEF TracerTypes, FilesOK
    <2>5. QED
      BY <1>0, <1>2, <1>3, <1>4, <2>1, <2>2, <2>3, <2>4 DEF TracerTypes
  <1>6. LaunchInv'
    <2>1. /\ Moving = <<>> /\ reported = 0 /\ graph = <<>>
          /\ trace[kernelid] = <<>> /\ executed[kernelid] = <<>>
          /\ \A k \in closed : /\ k < kernelid /\ trace[k] = executed[k]
                               /\ stats[k] = Len(executed[k])
          /\ \A k \in Ids : k >= kernelid => trace[k] = <<>> /\ executed[k] = <<>>
      BY <1>0, <1>2, <1>3 DEF TracerIInv, LaunchInv, InLaunch
    <2>4. kernelid' - 1 = kernelid /\ kernelid \notin closed
      BY <1>0, <1>2, <2>1
    <2>5. /\ current'.id = kernelid /\ current'.name = name
          /\ Len(executed'[current'.id]) = 0 /\ InLaunch' /\ ~(pc' = "wait") /\ pc' = "kernel"
          /\ executed'[current'.id] = <<>> /\ ~stop' => file' = current'.id
      BY <1>2, <2>1 DEF InLaunch
    <2>6. /\ \A k \in Ids' : k >= kernelid' => trace'[k] = <<>> /\ executed'[k] = <<>>
          /\ \A k \in closed' : /\ k < kernelid' /\ trace'[k] = executed'[k]
                                /\ stats'[k] = Len(executed'[k])
      <3>1. closed \subseteq Ids /\ Ids \subseteq Nat
        BY <1>0 DEF TracerTypes, FilesOK
      <3>2. (\A k \in Ids : k >= kernelid + 1 => k >= kernelid)
            /\ (\A k \in closed : k < kernelid => k < kernelid + 1)
        BY <1>0, <3>1
      <3>3. QED
        BY <1>2, <1>3, <2>1, <3>1, <3>2
    <2>7. InOrder(current.id, IF pc = "wait" /\ receiving THEN 1 ELSE 0)'
      BY <1>2, <2>1, EmptySeq DEF InOrder, Ordered, Moving
    <2>8. QED
      BY <1>2, <1>3, <1>4, <2>1, <2>4, <2>5, <2>6, <2>7 DEF LaunchInv
  <1>7. RegionInv'
    BY <1>2, EnteredExact DEF RegionInv, InLaunch, ShouldTrace
  <1>8. QED
    BY <1>2, <1>5, <1>6, <1>7 DEF TracerIInv

LEMMA CaptureStep ==
  ASSUME TracerIInv, Traceable, Capture
  PROVE  TracerIInv'
  <1>0. /\ TracerTypes /\ program.calls \in Nat /\ program.records \in Nat
        /\ kernelid \in Nat /\ calls \in Nat /\ kernelid <= calls + 1 /\ calls <= program.calls
        /\ kernelid >= 1 /\ Ids = 1 .. program.calls
        /\ Marker \in Records /\ \A id \in Ids, i \in Nat : Nth(id, i) \in Records /\ Nth(id, i) # Marker
    BY TracerFacts DEF TracerIInv
  <1>1. PICK name \in Names :
          /\ Call("graph") /\ Enter(name)
          /\ graph' = IF Entered(name) THEN Append(graph, kernelid) ELSE graph
          /\ UNCHANGED <<program, pc, channel, buffer, work, results, executed>>
    BY DEF Capture
  <1>2. /\ UNCHANGED <<program, pc, channel, buffer, work, trace, reported, stats, closed, executed>>
        /\ pc = "idle" /\ calls < program.calls /\ calls' = calls + 1
        /\ "graph" \in program.kinds
        /\ region' = Entered(name) /\ stop' = ~Entered(name) /\ Entered(name) \in BOOLEAN
        /\ file' = IF Entered(name) THEN kernelid ELSE file
        /\ kernelid' = kernelid + 1 /\ receiving' = TRUE
        /\ current' = [id |-> kernelid, name |-> name]
    <2>1. Entered(name) \in BOOLEAN
      BY <1>0 DEF Entered, TracerTypes, StatesOK, ShouldTrace
    <2>2. QED
      BY <1>1, <2>1 DEF Call, Enter, Receives, results
  <1>3. kernelid \in Ids /\ kernelid \in 0 .. program.calls /\ Ids' = Ids
    BY <1>0, <1>2, SameProgram
  <1>4. graph' \in Seq(Ids) /\ (graph' = <<>> => graph = <<>>)
    BY <1>1, <1>3, AppendElements DEF TracerIInv, TracerTypes, QueuesOK
  <1>5. TracerTypes'
    <2>1. CountersOK'
      BY <1>0, <1>2, <1>3, <1>4 DEF TracerTypes, CountersOK
    <2>2. StatesOK'
      BY <1>0, <1>2, <1>3, <1>4 DEF TracerTypes, StatesOK
    <2>3. QueuesOK'
      BY <1>0, <1>2, <1>3, <1>4, SameProgram DEF TracerTypes, QueuesOK
    <2>4. FilesOK'
      BY <1>0, <1>2, <1>3, <1>4, SameProgram DEF TracerTypes, FilesOK
    <2>5. QED
      BY <1>0, <1>2, <1>3, <1>4, <2>1, <2>2, <2>3, <2>4 DEF TracerTypes
  <1>6. GraphInv'
    BY <1>2, <1>4 DEF TracerIInv, GraphInv, InLaunch, Moving
  <1>7. QED
    BY <1>2, <1>5, <1>6 DEF TracerIInv, RegionInv

LEMMA GraphLaunchStep ==
  ASSUME TracerIInv, GraphLaunch
  PROVE  TracerIInv'
  <1>0. /\ TracerTypes /\ program.calls \in Nat /\ program.records \in Nat
        /\ kernelid \in Nat /\ calls \in Nat /\ kernelid <= calls + 1 /\ calls <= program.calls
        /\ kernelid >= 1 /\ Ids = 1 .. program.calls
        /\ Marker \in Records /\ \A id \in Ids, i \in Nat : Nth(id, i) \in Records /\ Nth(id, i) # Marker
    BY TracerFacts DEF TracerIInv
  <1>1. PICK n \in 1 .. program.records :
          /\ Call("graph") /\ graph # <<>>
          /\ work' = [i \in DOMAIN graph |-> [id |-> graph[i], left |-> n]]
          /\ pc' = "kernel" /\ current' = [id |-> 0, name |-> ""]
          /\ UNCHANGED <<program, kernelid, region, stop, receiving, file, channel, buffer, graph,
                         results, executed>>
    BY DEF GraphLaunch
  <1>2. /\ UNCHANGED <<program, kernelid, region, stop, receiving, file, channel, buffer, graph,
                       trace, reported, stats, closed, executed>>
        /\ pc = "idle" /\ calls < program.calls /\ calls' = calls + 1
        /\ "graph" \in program.kinds /\ n \in Nat
    <2>1. n \in Nat
      BY <1>0
    <2>2. QED
      BY <1>1, <2>1 DEF Call, results
  <1>3. work' \in Seq(Items(Ids))
    <2>1. Len(graph) \in Nat /\ DOMAIN graph = 1 .. Len(graph)
          /\ \A i \in 1 .. Len(graph) : graph[i] \in Ids
      BY LenProperties, ElementOfSeq DEF TracerIInv, TracerTypes, QueuesOK
    <2>2. work' \in [1 .. Len(graph) -> Items(Ids)]
      BY <1>1, <1>2, <2>1 DEF Items
    <2>3. QED
      BY <2>1, <2>2, FunctionSeq
  <1>4. TracerTypes'
    <2> current'.id = 0
      BY <1>1
    <2>1. CountersOK'
      BY <1>0, <1>2 DEF TracerTypes, CountersOK
    <2>2. StatesOK'
      BY <1>0, <1>1, <1>2, <1>3 DEF TracerTypes, StatesOK
    <2>3. QueuesOK'
      BY <1>0, <1>1, <1>2, <1>3, SameProgram DEF TracerTypes, QueuesOK
    <2>4. FilesOK'
      BY <1>0, <1>1, <1>2, <1>3, SameProgram DEF TracerTypes, FilesOK
    <2>5. QED
      BY <1>0, <1>1, <1>2, <1>3, <2>1, <2>2, <2>3, <2>4 DEF TracerTypes
  <1>5. GraphInv'
    BY <1>1, <1>2 DEF TracerIInv, GraphInv, InLaunch, Moving
  <1>6. QED
    BY <1>1, <1>2, <1>4, <1>5 DEF TracerIInv, RegionInv

-----------------------------------------------------------------------------
(* Records on their way                                                    *)
\* One record less of the kernel that runs.
LessWork(w) == [w EXCEPT ![1].left = @ - 1]

LEMMA WorkDone ==
  ASSUME NEW I, NEW w \in Seq(Items(I)), w # <<>>, Head(w).left > 0
  PROVE  /\ LessWork(w) \in Seq(Items(I)) /\ Len(LessWork(w)) = Len(w)
         /\ LessWork(w) # <<>>
         /\ \A i \in 1 .. Len(w) : LessWork(w)[i].id = w[i].id
         /\ w[1].id \in I /\ Head(w) = w[1] /\ Len(w) \in Nat \ {0}
  <1> DEFINE W == Items(I)
             v == LessWork(w)
  <1>1. /\ w \in [1 .. Len(w) -> W] /\ Len(w) \in Nat \ {0} /\ DOMAIN w = 1 .. Len(w)
        /\ Head(w) = w[1] /\ 1 \in 1 .. Len(w)
    <2> HIDE DEF W
    <2>1. w \in Seq(W)
      BY DEF W
    <2>2. /\ w \in [1 .. Len(w) -> W] /\ Len(w) \in Nat \ {0} /\ DOMAIN w = 1 .. Len(w)
      BY <2>1, LenProperties, EmptySeq
    <2>3. Head(w) = w[1]
      BY <2>1, ElementsOfSeq
    <2>4. QED
      BY <2>2, <2>3
  <1>2. w[1].id \in I /\ w[1].left \in Nat /\ w[1].left > 0 /\ w[1] \in W
    BY <1>1 DEF Items
  <1>3. w[1].left - 1 \in Nat
    BY <1>2
  <1>4. v = [w EXCEPT ![1] = [w[1] EXCEPT !.left = w[1].left - 1]]
    BY DEF LessWork
  <1> HIDE DEF v
  <1>5. [w[1] EXCEPT !.left = w[1].left - 1] \in W /\ [w[1] EXCEPT !.left = w[1].left - 1].id = w[1].id
    BY <1>2, <1>3 DEF Items
  <1>6. v \in [1 .. Len(w) -> W] /\ \A i \in 1 .. Len(w) : v[i].id = w[i].id
    <2> DEFINE x == [w[1] EXCEPT !.left = w[1].left - 1]
    <2>1. x \in W /\ x.id = w[1].id /\ v = [w EXCEPT ![1] = x]
      BY <1>4, <1>5
    <2> HIDE DEF x, W
    <2>2. QED
      BY <1>1, <2>1
  <1>7. v \in Seq(W) /\ Len(v) = Len(w)
    <2> HIDE DEF W
    <2>1. QED
      BY <1>1, <1>6, FunctionSeq
  <1>8. v # <<>>
    BY <1>1, <1>7, EmptySeq
  <1>9. QED
    BY <1>1, <1>2, <1>6, <1>7, <1>8 DEF v

LEMMA PushEffect ==
  ASSUME TracerIInv, Push
  PROVE  LET k == work[1].id IN
         /\ UNCHANGED <<program, pc, calls, kernelid, current, region, stop, receiving, file,
                        buffer, graph, trace, stats, closed>>
         /\ pc = "kernel" /\ work # <<>> /\ Len(work) \in Nat \ {0} /\ k \in Ids
         /\ work' \in Seq(Items(Ids)) /\ Len(work') = Len(work)
         /\ \A i \in 1 .. Len(work) : work'[i].id = work[i].id
         /\ work' # <<>>
         /\ channel' = Append(channel, Nth(k, Len(executed[k]) + 1))
         /\ channel' \in Seq(Records) /\ Len(channel') <= ChannelSize
         /\ executed' = [executed EXCEPT ![k] = Append(@, Nth(k, Len(@) + 1))]
         /\ executed' \in [Ids -> Seq(Records)]
         /\ reported' = reported + 1
  <1> DEFINE k == work[1].id
             W == Items(Ids)
  <1>0. /\ TracerTypes /\ program.calls \in Nat /\ program.records \in Nat
        /\ kernelid \in Nat /\ calls \in Nat /\ kernelid <= calls + 1 /\ calls <= program.calls
        /\ kernelid >= 1 /\ Ids = 1 .. program.calls
        /\ Marker \in Records /\ \A id \in Ids, i \in Nat : Nth(id, i) \in Records /\ Nth(id, i) # Marker
    BY TracerFacts DEF TracerIInv
  <1>1. /\ work \in Seq(W) /\ channel \in Seq(Records) /\ executed \in [Ids -> Seq(Records)]
    BY <1>0 DEF TracerTypes, QueuesOK, FilesOK
  <1>2. /\ pc = "kernel" /\ work # <<>> /\ Head(work).left > 0 /\ Len(channel) < ChannelSize
        /\ channel' = Append(channel, Nth(Head(work).id, Len(executed[Head(work).id]) + 1))
        /\ executed' = [executed EXCEPT ![Head(work).id] = Append(@, Nth(Head(work).id, Len(@) + 1))]
        /\ work' = [work EXCEPT ![1].left = @ - 1]
        /\ reported' = reported + 1
        /\ UNCHANGED <<program, pc, calls, kernelid, current, region, stop, receiving, file,
                       buffer, graph, trace, stats, closed>>
    BY DEF Push, Room, host, Nth
  <1>3. /\ work' \in Seq(W) /\ Len(work') = Len(work) /\ work' # <<>>
        /\ (\A i \in 1 .. Len(work) : work'[i].id = work[i].id)
        /\ k \in Ids /\ Head(work) = work[1] /\ Len(work) \in Nat \ {0}
    <2>1. work \in Seq(W) /\ work # <<>> /\ Head(work).left > 0
      BY <1>1, <1>2
    <2>2. work' = LessWork(work)
      BY <1>2 DEF LessWork
    <2>3. /\ LessWork(work) \in Seq(W) /\ Len(LessWork(work)) = Len(work)
          /\ LessWork(work) # <<>>
          /\ (\A i \in 1 .. Len(work) : LessWork(work)[i].id = work[i].id)
          /\ work[1].id \in Ids /\ Head(work) = work[1] /\ Len(work) \in Nat \ {0}
      BY <2>1, WorkDone
    <2>4. QED
      BY <2>2, <2>3
  <1>7. executed[k] \in Seq(Records) /\ Len(executed[k]) \in Nat
        /\ Nth(k, Len(executed[k]) + 1) \in Records
    <2>1. executed[k] \in Seq(Records)
      BY <1>1, <1>3
    <2>2. Len(executed[k]) \in Nat
      BY <2>1, LenProperties
    <2>3. QED
      BY <1>0, <1>3, <2>1, <2>2
  <1>8. channel' \in Seq(Records) /\ Len(channel') = Len(channel) + 1
    BY <1>1, <1>2, <1>3, <1>7, AppendElements
  <1>9. executed' \in [Ids -> Seq(Records)]
    <2>1. Append(executed[k], Nth(k, Len(executed[k]) + 1)) \in Seq(Records)
      BY <1>7, AppendElements
    <2>2. QED
      BY <1>1, <1>2, <1>3, <2>1
  <1>10. Len(channel') <= ChannelSize
    BY <1>1, <1>2, <1>8, LenProperties, TracerAssumption
  <1>11. QED
    BY <1>2, <1>3, <1>8, <1>9, <1>10

LEMMA PushStep ==
  ASSUME TracerIInv, Push
  PROVE  TracerIInv'
  <1>0. /\ TracerTypes /\ program.calls \in Nat /\ program.records \in Nat
        /\ kernelid \in Nat /\ calls \in Nat /\ kernelid <= calls + 1 /\ calls <= program.calls
        /\ kernelid >= 1 /\ Ids = 1 .. program.calls
        /\ Marker \in Records /\ \A id \in Ids, i \in Nat : Nth(id, i) \in Records /\ Nth(id, i) # Marker
    BY TracerFacts DEF TracerIInv
  <1> DEFINE k == work[1].id
  <1>1. /\ UNCHANGED <<program, pc, calls, kernelid, current, region, stop, receiving, file,
                        buffer, graph, trace, stats, closed>>
        /\ pc = "kernel" /\ work # <<>> /\ Len(work) \in Nat \ {0} /\ k \in Ids
        /\ work' \in Seq(Items(Ids)) /\ Len(work') = Len(work)
        /\ (\A i \in 1 .. Len(work) : work'[i].id = work[i].id)
        /\ work' # <<>>
        /\ channel' = Append(channel, Nth(k, Len(executed[k]) + 1))
        /\ channel' \in Seq(Records) /\ Len(channel') <= ChannelSize
        /\ executed' = [executed EXCEPT ![k] = Append(@, Nth(k, Len(@) + 1))]
        /\ executed' \in [Ids -> Seq(Records)]
        /\ reported' = reported + 1
    BY PushEffect
  <1> HIDE DEF k
  <1>2. TracerTypes'
    <2>1. CountersOK'
      BY <1>0, <1>1 DEF TracerTypes, CountersOK
    <2>2. StatesOK'
      BY <1>0, <1>1 DEF TracerTypes, StatesOK
    <2>3. QueuesOK'
      BY <1>0, <1>1, SameProgram DEF TracerTypes, QueuesOK
    <2>4. FilesOK'
      BY <1>0, <1>1, SameProgram DEF TracerTypes, FilesOK
    <2>5. QED
      BY <1>0, <1>1, <2>1, <2>2, <2>3, <2>4 DEF TracerTypes
  <1>3. InLaunch /\ InLaunch'
    BY <1>1 DEF InLaunch
  <1>4. ASSUME LaunchInv PROVE LaunchInv'
    <2> DEFINE e == Nth(k, Len(executed[k]) + 1)
    <2>1. /\ graph = <<>> /\ current.id = kernelid - 1 /\ current.id \in Ids \ closed
          /\ current.name \in Names
          /\ reported = Len(executed[current.id]) /\ receiving /\ ~stop /\ file = current.id
          /\ Len(work) = 1 /\ k = current.id /\ InOrder(k, 0)
          /\ \A n \in Ids : n >= kernelid => trace[n] = <<>> /\ executed[n] = <<>>
          /\ \A n \in closed : /\ n < kernelid /\ trace[n] = executed[n]
                               /\ stats[n] = Len(executed[n])
      <3>1. Len(work) = 1 /\ work[1].id = current.id
        BY <1>1, <1>3, <1>4 DEF LaunchInv
      <3>2. k = current.id
        BY <3>1 DEF k
      <3>3. QED
        BY <1>1, <1>3, <1>4, <3>1, <3>2 DEF LaunchInv
    <2>2. /\ executed[k] \in Seq(Records) /\ trace[k] \in Seq(Records)
          /\ buffer \in Seq(Records) /\ channel \in Seq(Records)
      BY <1>0, <1>1 DEF TracerTypes, QueuesOK, FilesOK
    <2>3. e \in Records /\ Len(executed[k]) \in Nat
      BY <1>0, <1>1, <2>2, LenProperties
    <2>4. executed'[k] = Append(executed[k], e) /\ \A n \in Ids : n # k => executed'[n] = executed[n]
      BY <1>0, <1>1 DEF TracerTypes, FilesOK
    <2>5. Ordered(k, trace[k], buffer \o Append(channel, e), Append(executed[k], e), 0)
      <3>1. Ordered(k, trace[k], buffer \o channel, executed[k], 0) /\ e = Nth(k, Len(executed[k]) + 1)
        BY <2>1 DEF InOrder, Moving
      <3> HIDE DEF e
      <3>2. QED
        BY <2>2, <2>3, <3>1, OrderedPush
    <2>6. Len(executed'[k]) = Len(executed[k]) + 1
      BY <2>2, <2>3, <2>4, AppendElements
    <2>9. InOrder(k, 0)'
      <3>1. trace' = trace /\ k' = k /\ Moving' = buffer \o Append(channel, e)
        <4>1. work'[1].id = work[1].id
          BY <1>1
        <4>2. QED
          BY <1>1, <4>1 DEF k, Moving
      <3>2. QED
        BY <2>4, <2>5, <3>1 DEF InOrder
    <2> HIDE DEF e
    <2>10. k' = k /\ k \in Ids /\ Ids' = Ids /\ k < kernelid
      <3>1. work'[1].id = work[1].id
        BY <1>1
      <3>2. QED
        BY <1>0, <1>1, <2>1, <3>1, SameProgram DEF k
    <2>11. InOrder(current.id, IF pc = "wait" /\ receiving THEN 1 ELSE 0)'
      BY <1>1, <2>1, <2>9, <2>10
    <2>12. /\ \A n \in Ids' : n >= kernelid' => trace'[n] = <<>> /\ executed'[n] = <<>>
           /\ \A n \in closed' : /\ n < kernelid' /\ trace'[n] = executed'[n]
                                 /\ stats'[n] = Len(executed'[n])
      <3>1. /\ k \notin closed /\ closed \subseteq Ids /\ kernelid' = kernelid
            /\ trace' = trace /\ stats' = stats /\ closed' = closed
        BY <1>0, <1>1, <2>1 DEF TracerTypes, FilesOK
      <3>2. \A n \in Ids : n >= kernelid => n # k
        BY <1>0, <2>10
      <3>3. QED
        BY <2>1, <2>4, <2>10, <3>1, <3>2
    <2>13. /\ reported' = Len(executed'[current'.id]) /\ current' = current
           /\ Len(work') <= 1 /\ \A i \in 1 .. Len(work') : work'[i].id = current'.id
      <3>1. current' = current /\ reported' = reported + 1 /\ Len(work') = 1
            /\ work'[1].id = current.id
        BY <1>1, <2>1 DEF k
      <3>2. reported' = Len(executed'[current'.id])
        BY <2>1, <2>6, <3>1
      <3>3. QED
        BY <3>1, <3>2
    <2>14. /\ pc' = pc /\ pc = "kernel" /\ graph' = graph /\ kernelid' = kernelid /\ stop' = stop
           /\ file' = file /\ receiving' = receiving /\ closed' = closed
      BY <1>1
    <2>15. QED
      BY <1>3, <2>1, <2>10, <2>11, <2>12, <2>13, <2>14 DEF LaunchInv
  <1>5. ASSUME GraphInv PROVE GraphInv'
    BY <1>1, <1>3, <1>5 DEF GraphInv
  <1>6. RegionInv'
    BY <1>1, <1>3 DEF TracerIInv, RegionInv, ShouldTrace
  <1>7. QED
    BY <1>1, <1>2, <1>4, <1>5, <1>6 DEF TracerIInv

LEMMA KernelEndsStep ==
  ASSUME TracerIInv, KernelEnds
  PROVE  TracerIInv'
  <1>0. /\ TracerTypes /\ program.calls \in Nat /\ program.records \in Nat
        /\ kernelid \in Nat /\ calls \in Nat /\ kernelid <= calls + 1 /\ calls <= program.calls
        /\ kernelid >= 1 /\ Ids = 1 .. program.calls
        /\ Marker \in Records /\ \A id \in Ids, i \in Nat : Nth(id, i) \in Records /\ Nth(id, i) # Marker
    BY TracerFacts DEF TracerIInv
  <1>1. /\ UNCHANGED <<program, calls, kernelid, current, region, stop, receiving, file, channel,
                       buffer, graph, trace, reported, stats, closed, executed>>
        /\ pc = "kernel"
        /\ \/ work = <<>> /\ pc' = "flush" /\ work' = work
           \/ work # <<>> /\ pc' = pc /\ work' = Tail(work)
    BY DEF KernelEnds, results
  <1>2. /\ work' \in Seq(Items(Ids)) /\ (work = <<>> => work' = <<>>)
        /\ (Len(work) <= 1 => Len(work') = 0 /\ work' = <<>>)
    <2>1. work \in Seq(Items(Ids)) /\ Len(work) \in Nat
      BY <1>0, LenProperties DEF TracerTypes, QueuesOK
    <2>2. CASE work = <<>>
      BY <1>1, <2>1, <2>2, EmptySeq
    <2>3. CASE work # <<>>
      <3>1. Tail(work) \in Seq(Items(Ids)) /\ Len(Tail(work)) = Len(work) - 1 /\ Len(work) # 0
        BY <2>1, <2>3, HeadTailProperties, EmptySeq
      <3>2. Len(work) <= 1 => Len(Tail(work)) = 0
        BY <2>1, <3>1
      <3>3. QED
        BY <1>1, <2>3, <3>1, <3>2, EmptySeq
    <2>4. QED
      BY <2>2, <2>3
  <1>3. TracerTypes'
    <2>1. CountersOK'
      BY <1>0, <1>1, <1>2 DEF TracerTypes, CountersOK
    <2>2. StatesOK'
      BY <1>0, <1>1, <1>2 DEF TracerTypes, StatesOK
    <2>3. QueuesOK'
      BY <1>0, <1>1, <1>2, SameProgram DEF TracerTypes, QueuesOK
    <2>4. FilesOK'
      BY <1>0, <1>1, <1>2, SameProgram DEF TracerTypes, FilesOK
    <2>5. QED
      BY <1>0, <1>1, <1>2, <2>1, <2>2, <2>3, <2>4 DEF TracerTypes
  <1>4. Moving' = Moving /\ InLaunch /\ InLaunch' /\ pc # "wait" /\ pc' # "wait"
        /\ (pc' # "kernel" => work' = <<>>)
        /\ \A k, m : InOrder(k, m)' <=> InOrder(k, m)
    BY <1>1, NothingMoves DEF InLaunch
  <1>5. ASSUME LaunchInv PROVE LaunchInv'
    <2>1. Len(work') = 0 /\ work' = <<>>
      BY <1>2, <1>4, <1>5 DEF LaunchInv
    <2>2. InOrder(current.id, IF pc = "wait" /\ receiving THEN 1 ELSE 0)'
      BY <1>1, <1>4, <1>5 DEF LaunchInv
    <2>3. QED
      BY <1>1, <1>4, <1>5, <2>1, <2>2, SameProgram DEF LaunchInv
  <1>6. GraphInv => GraphInv'
    BY <1>1, <1>2, <1>4 DEF GraphInv
  <1>7. RegionInv'
    BY <1>1, <1>4 DEF TracerIInv, RegionInv, ShouldTrace
  <1>8. QED
    BY <1>1, <1>3, <1>5, <1>6, <1>7 DEF TracerIInv

LEMMA FlushStep ==
  ASSUME TracerIInv, Flush
  PROVE  TracerIInv'
  <1>0. /\ TracerTypes /\ program.calls \in Nat /\ program.records \in Nat
        /\ kernelid \in Nat /\ calls \in Nat /\ kernelid <= calls + 1 /\ calls <= program.calls
        /\ kernelid >= 1 /\ Ids = 1 .. program.calls
        /\ Marker \in Records /\ \A id \in Ids, i \in Nat : Nth(id, i) \in Records /\ Nth(id, i) # Marker
    BY TracerFacts DEF TracerIInv
  <1>1. /\ UNCHANGED <<program, calls, kernelid, current, region, stop, receiving, file, buffer,
                       work, graph, trace, reported, stats, closed, executed>>
        /\ pc = "flush" /\ Len(channel) < ChannelSize /\ channel' = Append(channel, Marker)
        /\ pc' = IF current.id = 0 THEN "idle" ELSE "wait"
    BY DEF Flush, Room, device, results
  <1>2. channel' \in Seq(Records) /\ Len(channel') <= ChannelSize
    <2>1. channel \in Seq(Records) /\ Len(channel) \in Nat /\ ChannelSize \in Nat
      BY <1>0, LenProperties, TracerAssumption DEF TracerTypes, QueuesOK
    <2>2. channel' \in Seq(Records) /\ Len(channel') = Len(channel) + 1
      BY <1>0, <1>1, <2>1, AppendElements
    <2>3. QED
      BY <1>1, <2>1, <2>2
  <1>3. TracerTypes'
    <2>1. CountersOK'
      BY <1>0, <1>1, <1>2 DEF TracerTypes, CountersOK
    <2>2. StatesOK'
      BY <1>0, <1>1, <1>2 DEF TracerTypes, StatesOK
    <2>3. QueuesOK'
      BY <1>0, <1>1, <1>2, SameProgram DEF TracerTypes, QueuesOK
    <2>4. FilesOK'
      BY <1>0, <1>1, <1>2, SameProgram DEF TracerTypes, FilesOK
    <2>5. QED
      BY <1>0, <1>1, <1>2, <2>1, <2>2, <2>3, <2>4 DEF TracerTypes
  <1>4. ASSUME LaunchInv PROVE LaunchInv' /\ pc' = "wait"
    <2> DEFINE k == current.id
    <2>1. /\ k \in Ids /\ InOrder(k, 0) /\ receiving /\ work = <<>>
      BY <1>1, <1>4 DEF LaunchInv, InLaunch
    <2>2. /\ executed[k] \in Seq(Records) /\ trace[k] \in Seq(Records)
          /\ buffer \in Seq(Records) /\ channel \in Seq(Records)
      BY <1>0, <2>1 DEF TracerTypes, QueuesOK, FilesOK
    <2>3. pc' = "wait" /\ InLaunch /\ InLaunch'
      BY <1>0, <1>1, <2>1 DEF InLaunch
    <2>4. Ordered(k, trace[k], buffer \o Append(channel, Marker), executed[k], 1)
      <3>1. Ordered(k, trace[k], buffer \o channel, executed[k], 0)
        BY <2>1 DEF InOrder, Moving
      <3> HIDE DEF k
      <3>2. QED
        BY <1>0, <2>2, <3>1, OrderedPush
    <2>5. InOrder(k, 1)'
      <3>1. trace' = trace /\ executed' = executed /\ k' = k
            /\ Moving' = buffer \o Append(channel, Marker)
        BY <1>1 DEF Moving
      <3>2. QED
        BY <2>4, <3>1 DEF InOrder
    <2>6. InOrder(current.id, IF pc = "wait" /\ receiving THEN 1 ELSE 0)'
      BY <1>1, <2>1, <2>3, <2>5
    <2>7. QED
      BY <1>1, <1>4, <2>1, <2>3, <2>6, SameProgram DEF LaunchInv
  <1>5. ASSUME GraphInv PROVE GraphInv'
    BY <1>1, <1>5 DEF GraphInv, InLaunch
  <1>6. RegionInv'
    BY <1>1, <1>4 DEF TracerIInv, RegionInv, ShouldTrace, InLaunch
  <1>7. QED
    BY <1>1, <1>3, <1>4, <1>5, <1>6 DEF TracerIInv

\* Nothing is on its way: the file holds all the kernel pushed.
LEMMA AllWritten ==
  ASSUME NEW k, NEW t \in Seq(Records), NEW x \in Seq(Records), Ordered(k, t, <<>>, x, 0)
  PROVE  t = x
  <1>1. Len(t) \in Nat /\ Len(x) \in Nat /\ Len(t) + 0 = Len(x) + 0
        /\ (\A i \in 1 .. Len(t) : t[i] = Nth(k, i))
        /\ (\A i \in 1 .. Len(x) : x[i] = Nth(k, i))
    BY LenProperties, EmptySeq DEF Ordered
  <1>2. Len(t) = Len(x) /\ \A i \in 1 .. Len(t) : t[i] = x[i]
    BY <1>1
  <1>3. QED
    BY <1>2, SeqEqual

LEMMA LeaveStep ==
  ASSUME TracerIInv, Traceable, Leave
  PROVE  TracerIInv'
  <1>0. /\ TracerTypes /\ program.calls \in Nat /\ program.records \in Nat
        /\ kernelid \in Nat /\ calls \in Nat /\ kernelid <= calls + 1 /\ calls <= program.calls
        /\ kernelid >= 1 /\ Ids = 1 .. program.calls
        /\ Marker \in Records /\ \A id \in Ids, i \in Nat : Nth(id, i) \in Records /\ Nth(id, i) # Marker
    BY TracerFacts DEF TracerIInv
  <1>1. /\ UNCHANGED <<program, calls, kernelid, current, stop, receiving, file, channel, buffer,
                       work, graph, trace, executed>>
        /\ pc = "wait" /\ ~receiving /\ pc' = "idle"
        /\ stats' = [stats EXCEPT ![current.id] = reported] /\ reported' = 0
        /\ closed' = IF stop THEN closed ELSE closed \cup {current.id}
        /\ region' = Left(current.name) /\ Left(current.name) \in BOOLEAN
    BY <1>0 DEF Leave, Received, Rebased, device, Left, TracerTypes, StatesOK, ShouldTrace
  <1>2. "graph" \notin program.kinds /\ LaunchInv
    BY <1>1 DEF TracerIInv, GraphInv
  <1> DEFINE k == current.id
  <1>3. /\ k \in Ids \ closed /\ current.name \in Names /\ k = kernelid - 1
        /\ reported = Len(executed[k]) /\ reported \in Nat /\ InOrder(k, 0) /\ Moving = <<>>
        /\ work = <<>> /\ graph = <<>> /\ k < kernelid
    BY <1>0, <1>1, <1>2 DEF LaunchInv, InLaunch, TracerTypes, CountersOK
  <1>4. trace[k] = executed[k]
    <2>1. /\ executed[k] \in Seq(Records) /\ trace[k] \in Seq(Records)
          /\ Ordered(k, trace[k], <<>>, executed[k], 0)
      BY <1>0, <1>3 DEF TracerTypes, FilesOK, InOrder
    <2> HIDE DEF k
    <2>2. QED
      BY <2>1, AllWritten
  <1>5. /\ stats' \in [Ids -> Nat] /\ stats'[k] = Len(executed[k])
        /\ (\A n \in Ids : n # k => stats'[n] = stats[n])
        /\ closed' \subseteq closed \cup {k} /\ closed \subseteq Ids
    <2> HIDE DEF k
    <2>1. stats \in [Ids -> Nat] /\ closed \subseteq Ids
      BY <1>0 DEF TracerTypes, FilesOK
    <2>2. QED
      BY <1>1, <1>3, <2>1 DEF k
  <1> HIDE DEF k
  <1>6. TracerTypes'
    <2>1. CountersOK'
      BY <1>0, <1>1, <1>3, <1>5 DEF TracerTypes, CountersOK
    <2>2. StatesOK'
      BY <1>0, <1>1, <1>3, <1>5 DEF TracerTypes, StatesOK
    <2>3. QueuesOK'
      BY <1>0, <1>1, <1>3, <1>5, SameProgram DEF TracerTypes, QueuesOK
    <2>4. FilesOK'
      BY <1>0, <1>1, <1>3, <1>5, SameProgram, ZenonT(60) DEF TracerTypes, FilesOK
    <2>5. QED
      BY <1>0, <1>1, <1>3, <1>5, <2>1, <2>2, <2>3, <2>4 DEF TracerTypes
  <1>7. ~InLaunch' /\ Moving' = Moving
    BY <1>1 DEF InLaunch, Moving
  <1>8. LaunchInv'
    <2>1. \A n \in closed' : /\ n < kernelid' /\ trace'[n] = executed'[n]
                            /\ stats'[n] = Len(executed'[n])
      <3>1. \A n \in closed : n # k /\ n \in Ids /\ n < kernelid /\ trace[n] = executed[n]
                             /\ stats[n] = Len(executed[n])
        BY <1>2, <1>3, <1>5 DEF LaunchInv
      <3>2. QED
        BY <1>1, <1>3, <1>4, <1>5, <3>1
    <2>2. QED
      BY <1>1, <1>2, <1>3, <1>7, <2>1, SameProgram DEF LaunchInv
  <1>9. RegionInv'
    <2>1. ASSUME program.fromStart, region', NEW name \in Names PROVE ShouldTrace(kernelid, name)
      <3>1. PICK r \in program.ranges : /\ r.start <= kernelid /\ (r.end = 0 \/ kernelid <= r.end)
                                        /\ current.name \in r.names
        BY <1>1, <2>1 DEF Left, ShouldTrace
      <3>2. r.names = Names
        BY <1>0, <2>1 DEF Traceable, TracerTypes
      <3>3. QED
        BY <3>1, <3>2 DEF ShouldTrace
    <2>2. QED
      BY <1>1, <1>7, <2>1 DEF RegionInv, ShouldTrace
  <1>10. QED
    BY <1>1, <1>2, <1>6, <1>8, <1>9 DEF TracerIInv

LEMMA ReceiveStep ==
  ASSUME TracerIInv, Receive
  PROVE  TracerIInv'
  <1>0. /\ TracerTypes /\ program.calls \in Nat /\ program.records \in Nat
        /\ kernelid \in Nat /\ calls \in Nat /\ kernelid <= calls + 1 /\ calls <= program.calls
        /\ kernelid >= 1 /\ Ids = 1 .. program.calls
        /\ Marker \in Records /\ \A id \in Ids, i \in Nat : Nth(id, i) \in Records /\ Nth(id, i) # Marker
    BY TracerFacts DEF TracerIInv
  <1>1. PICK n \in 1 .. Len(channel) : /\ buffer' = SubSeq(channel, 1, n)
                                     /\ channel' = SubSeq(channel, n + 1, Len(channel))
    BY DEF Receive
  <1>2. /\ UNCHANGED <<program, pc, calls, kernelid, current, region, stop, receiving, file, work,
                       graph, trace, reported, stats, closed, executed>>
        /\ receiving /\ buffer = <<>> /\ channel # <<>>
    BY DEF Receive, host, device, results
  <1>3. channel \in Seq(Records) /\ buffer \in Seq(Records) /\ Len(channel) <= ChannelSize
    BY <1>0 DEF TracerTypes, QueuesOK
  <1>4. /\ buffer' \in Seq(Records) /\ channel' \in Seq(Records)
        /\ Len(channel') <= Len(channel)
        /\ Len(Moving') = Len(Moving) /\ \A i \in 1 .. Len(Moving) : Moving'[i] = Moving[i]
    <2> DEFINE taken == SubSeq(channel, 1, n)
               rest  == SubSeq(channel, n + 1, Len(channel))
    <2>1. /\ taken \in Seq(Records) /\ rest \in Seq(Records) /\ Len(rest) <= Len(channel)
          /\ Len(taken \o rest) = Len(<<>> \o channel)
          /\ \A i \in 1 .. Len(<<>> \o channel) : (taken \o rest)[i] = (<<>> \o channel)[i]
      BY <1>3, MovingTaken
    <2>2. buffer' = taken /\ channel' = rest /\ Moving' = taken \o rest /\ Moving = <<>> \o channel
      BY <1>1, <1>2 DEF Moving
    <2> HIDE DEF taken, rest
    <2>3. QED
      BY <2>1, <2>2
  <1>5. Len(channel') <= ChannelSize
    BY <1>0, <1>3, <1>4, LenProperties, TracerAssumption
  <1>6. TracerTypes'
    <2>1. CountersOK'
      BY <1>0, <1>2, <1>4, <1>5 DEF TracerTypes, CountersOK
    <2>2. StatesOK'
      BY <1>0, <1>2, <1>4, <1>5 DEF TracerTypes, StatesOK
    <2>3. QueuesOK'
      BY <1>0, <1>2, <1>4, <1>5, SameProgram DEF TracerTypes, QueuesOK
    <2>4. FilesOK'
      BY <1>0, <1>2, <1>4, <1>5, SameProgram DEF TracerTypes, FilesOK
    <2>5. QED
      BY <1>0, <1>2, <1>4, <1>5, <2>1, <2>2, <2>3, <2>4 DEF TracerTypes
  <1>7. Moving # <<>>
    BY <1>2, <1>3, MovingFacts DEF Moving
  <1>8. \A k, m : InOrder(k, m) => InOrder(k, m)'
    <2> SUFFICES ASSUME NEW k, NEW m, InOrder(k, m)
                 PROVE  InOrder(k, m)'
      OBVIOUS
    <2>1. Ordered(k, trace[k], Moving, executed[k], m)
      BY DEF InOrder
    <2>2. Ordered(k, trace[k], Moving', executed[k], m)
      BY <1>4, <2>1, OrderedSame
    <2>3. QED
      BY <1>2, <2>2 DEF InOrder
  <1>9. ASSUME LaunchInv PROVE LaunchInv'
    <2>1. InLaunch /\ InLaunch'
      BY <1>2, <1>7, <1>9 DEF LaunchInv, InLaunch
    <2>2. InOrder(current.id, IF pc = "wait" /\ receiving THEN 1 ELSE 0)'
      BY <1>2, <1>8, <1>9, <2>1 DEF LaunchInv
    <2>3. QED
      BY <1>2, <1>9, <2>1, <2>2, SameProgram DEF LaunchInv
  <1>10. ASSUME GraphInv PROVE GraphInv'
    BY <1>2, <1>7, <1>10 DEF GraphInv, InLaunch
  <1>11. RegionInv'
    BY <1>2 DEF TracerIInv, RegionInv, ShouldTrace, InLaunch
  <1>12. LimitReached => LimitReached'
    BY <1>2 DEF LimitReached
  <1>13. QED
    BY <1>2, <1>6, <1>9, <1>10, <1>11, <1>12 DEF TracerIInv

LEMMA ProcessTypes ==
  ASSUME TracerIInv, Process
  PROVE  /\ UNCHANGED <<program, pc, calls, kernelid, current, region, stop, file, channel, work,
                        graph, reported, stats, closed, executed>>
         /\ buffer # <<>> /\ Moving # <<>> /\ TracerTypes'
         /\ \/ /\ Head(buffer) = Marker /\ receiving' = FALSE /\ buffer' = <<>> /\ trace' = trace
            \/ /\ Head(buffer) # Marker /\ receiving' = receiving /\ buffer' = Tail(buffer)
               /\ trace' = [trace EXCEPT ![file] = Append(@, Head(buffer))]
  <1>0. /\ TracerTypes /\ program.calls \in Nat /\ program.records \in Nat
        /\ kernelid \in Nat /\ calls \in Nat /\ kernelid <= calls + 1 /\ calls <= program.calls
        /\ kernelid >= 1 /\ Ids = 1 .. program.calls
        /\ Marker \in Records /\ \A id \in Ids, i \in Nat : Nth(id, i) \in Records /\ Nth(id, i) # Marker
    BY TracerFacts DEF TracerIInv
  <1>1. /\ UNCHANGED <<program, pc, calls, kernelid, current, region, stop, file, channel, work,
                        graph, reported, stats, closed, executed>>
        /\ buffer # <<>>
        /\ \/ /\ Head(buffer) = Marker /\ receiving' = FALSE /\ buffer' = <<>> /\ trace' = trace
           \/ /\ Head(buffer) # Marker /\ receiving' = receiving /\ buffer' = Tail(buffer)
              /\ trace' = [trace EXCEPT ![file] = Append(@, Head(buffer))]
    BY DEF Process, Remaining, host, device
  <1>2. channel \in Seq(Records) /\ buffer \in Seq(Records) /\ trace \in [Ids -> Seq(Records)]
    BY <1>0 DEF TracerTypes, QueuesOK, FilesOK
  <1>3. Tail(buffer) \in Seq(Records) /\ Head(buffer) \in Records /\ <<>> \in Seq(Records)
    BY <1>1, <1>2, MovingTail, EmptySeq
  <1>4. buffer' \in Seq(Records) /\ trace' \in [Ids -> Seq(Records)] /\ receiving' \in BOOLEAN
    <2>1. file \in Ids => Append(trace[file], Head(buffer)) \in Seq(Records)
      BY <1>2, <1>3, AppendElements
    <2>2. [trace EXCEPT ![file] = Append(@, Head(buffer))] \in [Ids -> Seq(Records)]
      BY <1>2, <2>1
    <2>3. receiving \in BOOLEAN
      BY <1>0 DEF TracerTypes, StatesOK
    <2>4. QED
      BY <1>1, <1>2, <1>3, <2>2, <2>3
  <1>5. TracerTypes'
    <2>1. CountersOK'
      BY <1>0, <1>1, <1>4 DEF TracerTypes, CountersOK
    <2>2. StatesOK'
      BY <1>0, <1>1, <1>4 DEF TracerTypes, StatesOK
    <2>3. QueuesOK'
      BY <1>0, <1>1, <1>4, SameProgram DEF TracerTypes, QueuesOK
    <2>4. FilesOK'
      BY <1>0, <1>1, <1>4, SameProgram DEF TracerTypes, FilesOK
    <2>5. QED
      BY <1>0, <1>1, <1>4, <2>1, <2>2, <2>3, <2>4 DEF TracerTypes
  <1>6. Moving # <<>>
    BY <1>1, <1>2, MovingFacts DEF Moving
  <1>7. QED
    BY <1>1, <1>5, <1>6

LEMMA ProcessStep ==
  ASSUME TracerIInv, Process
  PROVE  TracerIInv'
  <1>0. /\ TracerTypes /\ program.calls \in Nat /\ program.records \in Nat
        /\ kernelid \in Nat /\ calls \in Nat /\ kernelid <= calls + 1 /\ calls <= program.calls
        /\ kernelid >= 1 /\ Ids = 1 .. program.calls
        /\ Marker \in Records /\ \A id \in Ids, i \in Nat : Nth(id, i) \in Records /\ Nth(id, i) # Marker
    BY TracerFacts DEF TracerIInv
  <1>1. /\ UNCHANGED <<program, pc, calls, kernelid, current, region, stop, file, channel, work,
                        graph, reported, stats, closed, executed>>
        /\ buffer # <<>> /\ Moving # <<>> /\ TracerTypes'
        /\ \/ /\ Head(buffer) = Marker /\ receiving' = FALSE /\ buffer' = <<>> /\ trace' = trace
           \/ /\ Head(buffer) # Marker /\ receiving' = receiving /\ buffer' = Tail(buffer)
              /\ trace' = [trace EXCEPT ![file] = Append(@, Head(buffer))]
    BY ProcessTypes
  <1>2. /\ channel \in Seq(Records) /\ buffer \in Seq(Records)
        /\ trace \in [Ids -> Seq(Records)] /\ executed \in [Ids -> Seq(Records)]
        /\ closed \subseteq Ids
    BY <1>0 DEF TracerTypes, QueuesOK, FilesOK
  <1>3. ASSUME LaunchInv PROVE LaunchInv'
    <2> DEFINE k == current.id
               markers == IF pc = "wait" /\ receiving THEN 1 ELSE 0
    <2>1. /\ InLaunch /\ InLaunch' /\ k \in Ids \ closed /\ k = kernelid - 1 /\ receiving
          /\ InOrder(k, markers) /\ (stop => executed[k] = <<>>) /\ (~stop => file = k)
      BY <1>1, <1>3 DEF LaunchInv, InLaunch
    <2>2. /\ Len(trace[k]) \in Nat /\ trace[k] \in Seq(Records) /\ executed[k] \in Seq(Records)
          /\ markers \in {0, 1} /\ Nth(k, Len(trace[k]) + 1) # Marker
          /\ Ordered(k, trace[k], buffer \o channel, executed[k], markers)
      <3>1. trace[k] \in Seq(Records) /\ executed[k] \in Seq(Records) /\ Len(trace[k]) \in Nat
        BY <1>2, <2>1, LenProperties
      <3>2. QED
        BY <1>0, <2>1, <3>1 DEF InOrder, Moving
    <2>3. /\ Head(buffer) # Marker =>
               /\ executed[k] # <<>>
               /\ Ordered(k, Append(trace[k], Head(buffer)), Tail(buffer) \o channel, executed[k],
                          markers)
          /\ Head(buffer) = Marker => /\ markers = 1 /\ channel = <<>>
                                      /\ Ordered(k, trace[k], <<>> \o channel, executed[k], 0)
      <3> HIDE DEF k, markers
      <3>1. QED
        BY <1>1, <1>2, <2>2, OrderedHead
    <2>4. CASE Head(buffer) = Marker
      <3>1. /\ pc = "wait" /\ receiving' = FALSE /\ buffer' = <<>> /\ trace' = trace
            /\ channel = <<>> /\ Ordered(k, trace[k], <<>> \o channel, executed[k], 0)
        <4>1. markers = 1 => pc = "wait"
          OBVIOUS
        <4> HIDE DEF k, markers
        <4>2. QED
          BY <1>1, <2>3, <2>4, <4>1
      <3>2. Moving' = <<>> \o channel /\ Moving' = <<>> /\ k' = k
        BY <1>1, <3>1, ConcatEmptySeq DEF Moving
      <3>3. InOrder(current.id, IF pc = "wait" /\ receiving THEN 1 ELSE 0)'
        BY <1>1, <3>1, <3>2 DEF InOrder
      <3>4. QED
        BY <1>1, <1>3, <2>1, <3>1, <3>2, <3>3, SameProgram DEF LaunchInv
    <2>5. CASE Head(buffer) # Marker
      <3>1. /\ receiving' = receiving /\ file = k /\ ~stop
            /\ Moving' = Tail(buffer) \o channel /\ k' = k
            /\ trace' = [trace EXCEPT ![k] = Append(@, Head(buffer))]
        BY <1>1, <2>1, <2>3, <2>5 DEF Moving
      <3>2. /\ trace'[k] = Append(trace[k], Head(buffer))
            /\ \A n \in Ids : n # k => trace'[n] = trace[n]
        BY <1>2, <2>1, <3>1
      <3>3. InOrder(current.id, IF pc = "wait" /\ receiving THEN 1 ELSE 0)'
        BY <1>1, <2>3, <2>5, <3>1, <3>2 DEF InOrder
      <3>4. /\ \A n \in Ids' : n >= kernelid' => trace'[n] = <<>> /\ executed'[n] = <<>>
            /\ \A n \in closed' : /\ n < kernelid' /\ trace'[n] = executed'[n]
                                  /\ stats'[n] = Len(executed'[n])
        <4>1. /\ \A n \in Ids : n >= kernelid => /\ n # k /\ trace[n] = <<>>
                                               /\ executed[n] = <<>>
              /\ \A n \in closed : /\ n # k /\ n \in Ids /\ n < kernelid /\ trace[n] = executed[n]
                                   /\ stats[n] = Len(executed[n])
          BY <1>0, <1>2, <1>3, <2>1 DEF LaunchInv
        <4>2. QED
          BY <1>1, <3>2, <4>1, SameProgram
      <3>5. receiving' /\ ~stop /\ file = current.id
        BY <2>1, <3>1
      <3>6. QED
        BY <1>1, <1>3, <2>1, <3>3, <3>4, <3>5, SameProgram DEF LaunchInv
    <2>6. QED
      BY <2>4, <2>5
  <1>4. ASSUME GraphInv PROVE GraphInv'
    BY <1>1, <1>4 DEF GraphInv, InLaunch
  <1>5. RegionInv'
    BY <1>1 DEF TracerIInv, RegionInv, ShouldTrace, InLaunch
  <1>6. LimitReached => LimitReached'
    BY <1>1 DEF LimitReached
  <1>7. QED
    BY <1>1, <1>3, <1>4, <1>5, <1>6 DEF TracerIInv

-----------------------------------------------------------------------------
LEMMA TracerStarts ==
  ASSUME TracerInit
  PROVE  TracerIInv
  <1>1. /\ program \in Programs /\ program.calls \in Nat
        /\ pc = "idle" /\ calls = 0 /\ kernelid = 1 /\ current.id = 0
        /\ region = FALSE /\ stop = FALSE /\ receiving = FALSE /\ file = 0
        /\ channel = <<>> /\ buffer = <<>> /\ work = <<>> /\ graph = <<>>
        /\ trace = [i \in Ids |-> <<>>] /\ reported = 0 /\ stats = [i \in Ids |-> 0]
        /\ closed = {} /\ executed = [i \in Ids |-> <<>>]
    BY TracerAssumption DEF TracerInit
  <1>2. /\ <<>> \in Seq(Records) /\ Len(channel) = 0 /\ <<>> \in Seq(Items(Ids))
        /\ <<>> \in Seq(Ids)
    BY <1>1, EmptySeq
  <1>3. TracerTypes
    <2>1. CountersOK
      BY <1>1 DEF CountersOK
    <2>2. StatesOK
      BY <1>1 DEF StatesOK
    <2>3. QueuesOK
      BY <1>1, <1>2, TracerAssumption DEF QueuesOK
    <2>4. FilesOK
      BY <1>1, <1>2 DEF FilesOK
    <2>5. QED
      BY <1>1, <2>1, <2>2, <2>3, <2>4 DEF TracerTypes
  <1>4. Moving = <<>> /\ ~InLaunch
    <2>1. <<>> \o <<>> = <<>>
      BY <1>2, MovingFacts
    <2>2. QED
      BY <1>1, <2>1 DEF Moving, InLaunch
  <1>5. LaunchInv /\ GraphInv /\ RegionInv
    BY <1>1, <1>4 DEF LaunchInv, GraphInv, RegionInv
  <1>6. QED
    BY <1>1, <1>3, <1>5 DEF TracerIInv

LEMMA TracerStep ==
  ASSUME TracerIInv, Traceable, [TracerNext]_tracerVars
  PROVE  TracerIInv'
  <1>1. CASE UNCHANGED tracerVars
    <2>1. UNCHANGED <<program, pc, calls, kernelid, current, region, stop, receiving, file,
                      channel, buffer, work, graph, trace, reported, stats, closed, executed>>
      BY <1>1 DEF tracerVars, host, device, results
    <2>2. TracerTypes'
      BY <2>1, SameProgram
         DEF TracerIInv, TracerTypes, CountersOK, StatesOK, QueuesOK, FilesOK
    <2>3. LaunchInv => LaunchInv'
      BY <2>1, SameProgram, NothingMoves DEF LaunchInv, InLaunch
    <2>4. QED
      BY <2>1, <2>2, <2>3, NothingMoves
         DEF TracerIInv, GraphInv, RegionInv, InLaunch, LimitReached, ShouldTrace
  <1>2. QED
    BY <1>1, LimitStep, LaunchStep, CaptureStep, GraphLaunchStep, ProfilerStep, PushStep,
       KernelEndsStep, FlushStep, LeaveStep, ReceiveStep, ProcessStep DEF TracerNext

LEMMA TracerHolds ==
  ASSUME TracerIInv, Traceable
  PROVE  TracerInv
  <1>0. /\ TracerTypes /\ program.calls \in Nat /\ program.records \in Nat
        /\ kernelid \in Nat /\ calls \in Nat /\ kernelid <= calls + 1 /\ calls <= program.calls
        /\ kernelid >= 1 /\ Ids = 1 .. program.calls
        /\ Marker \in Records /\ \A id \in Ids, i \in Nat : Nth(id, i) \in Records /\ Nth(id, i) # Marker
    BY TracerFacts DEF TracerIInv
  <1>1. TracerTypeOK
    <2>1. /\ channel \in Seq(Records) /\ buffer \in Seq(Records)
          /\ Len(channel) <= ChannelSize /\ closed \subseteq Ids
      BY <1>0 DEF TracerTypes, QueuesOK, FilesOK
    <2>2. ToSet(channel) \subseteq Records /\ ToSet(buffer) \subseteq Records
      BY <2>1, LenProperties, ElementOfSeq DEF ToSet
    <2>3. kernelid \in 1 .. (program.calls + 1) /\ calls \in 0 .. program.calls
          /\ file \in 0 .. program.calls /\ reported \in Nat
      BY <1>0 DEF TracerTypes, CountersOK
    <2>4. pc \in {"idle", "kernel", "flush", "wait", "exit"}
          /\ {region, stop, receiving} \subseteq BOOLEAN
      BY <1>0 DEF TracerTypes, StatesOK
    <2>5. QED
      BY <2>1, <2>2, <2>3, <2>4 DEF TracerTypeOK, Records
  <1>2. FilesExact /\ StatsExact
    BY DEF TracerIInv, LaunchInv, GraphInv, FilesExact, StatsExact
  <1>3. QuietBetweenCalls
    <2>1. pc = "idle" /\ graph = <<>> => Moving = <<>> /\ (receiving => "graph" \in program.kinds)
      BY DEF TracerIInv, LaunchInv, GraphInv, InLaunch
    <2>2. Moving = <<>> => channel = <<>> /\ buffer = <<>>
      BY <1>0, MovingFacts DEF Moving, TracerTypes, QueuesOK
    <2>3. QED
      BY <2>1, <2>2 DEF QuietBetweenCalls
  <1>4. SelectedExactly
    BY DEF TracerIInv, RegionInv, GraphInv, InLaunch, SelectedExactly
  <1>5. ExitAfterLast
    <2> SUFFICES ASSUME pc = "exit", NEW id \in kernelid .. (program.calls + 1),
                        NEW r \in program.ranges
                 PROVE  ~(r.end = 0 \/ id <= r.end)
      BY DEF ExitAfterLast, ShouldTrace
    <2>1. LimitReached /\ program \in Programs
      BY <1>0 DEF TracerIInv, TracerTypes
    <2>2. r.end # 0 /\ r.end \in Nat /\ kernelid > r.end
      BY <2>1, TracerAssumption DEF LimitReached, Traceable
    <2>3. QED
      BY <1>0, <2>2
  <1>6. QED
    BY <1>1, <1>2, <1>3, <1>4, <1>5 DEF TracerInv

\* The records of a kernel reach its file, its statistics and no other's, for
\* every set of such programs and every size of the channel
\* (tracer_tool.cu: the launch callbacks, the flush and recv_thread_fun).
THEOREM TracerInvariant ==
  ASSUME Traceable
  PROVE  TracerSpec => []TracerInv
  <1>1. TracerInit => TracerIInv
    BY TracerStarts
  <1>2. TracerIInv /\ [TracerNext]_tracerVars => TracerIInv'
    BY TracerStep
  <1>3. TracerIInv => TracerInv
    BY TracerHolds
  <1>4. QED
    BY <1>1, <1>2, <1>3, PTL DEF TracerSpec

-----------------------------------------------------------------------------
(***************************************************************************)
(* The kernel window. The window and the deleted kernels share out what    *)
(* was read, the running and the finished ones what was launched; and as   *)
(* long as none was dropped, the busy streams are those of the launched    *)
(* kernels in the window, one of each.                                     *)
(***************************************************************************)
WindowTypes ==
  /\ job \in Jobs
  /\ at \in {"loop", "simulate", "end", "assert"}
  /\ index \in Nat /\ index <= Len(Commands)
  /\ window \subseteq Kernel /\ freed \subseteq Kernel /\ busy \subseteq Streams
  /\ running \subseteq Kernel /\ ran \subseteq Kernel
  /\ finished \in Seq(ran) /\ memory \in BOOLEAN /\ limit \in BOOLEAN

SharesInv ==
  /\ window \cup freed = {k \in Kernel : k <= index} /\ window \cap freed = {}
  /\ launched = running \cup ran /\ running \cap ran = {}
  /\ launched \subseteq window \cup freed
  /\ Cardinality(window) <= job.size
  /\ limit => at \in {"end", "assert"}
  /\ ~limit => freed \cap running = {}

AtWork == launched \cap window

StreamInv ==
  /\ \A z \in busy : \E k \in AtWork : Stream(k) = z
  /\ NoneDropped /\ ~limit =>
       \A k \in AtWork : /\ Stream(k) \in busy
                         /\ \A j \in AtWork : Stream(j) = Stream(k) => j = k
  /\ StreamSerial

\* In a window of two the first kernel is at work when the second is.
TwoInv ==
  job.size <= 2 =>
    /\ limit \/ NoneDropped
    /\ at \in {"loop", "simulate"} => \A j, k \in window : j < k => j \in launched
    /\ at = "simulate" =>
         \A k \in window : (\A j \in window : k <= j) => k \in launched

LastInv ==
  Len(Commands) \in Kernel => at # "assert" /\ (at = "simulate" => window # {})

WindowIInv == WindowTypes /\ SharesInv /\ StreamInv /\ TwoInv /\ LastInv

-----------------------------------------------------------------------------
LEMMA WindowFacts ==
  ASSUME job \in Jobs
  PROVE  /\ Len(Commands) \in Nat /\ Kernel \subseteq 1 .. Len(Commands) /\ Kernel \subseteq Nat
         /\ job.size \in Nat \ {0} /\ job.slots \in Nat \ {0} /\ job.limits \in BOOLEAN
         /\ \A k \in Kernel : Stream(k) \in Streams /\ k \in Nat \ {0}
         /\ \A T \in SUBSET Kernel : IsFiniteSet(T) /\ Cardinality(T) \in Nat
  <1>1. /\ Commands \in Seq(Streams \cup {Memcpy}) /\ job.size \in Nat \ {0}
        /\ job.slots \in Nat \ {0} /\ job.limits \in BOOLEAN
    BY WindowAssumption DEF Commands
  <1>2. /\ Len(Commands) \in Nat /\ DOMAIN Commands = 1 .. Len(Commands)
        /\ \A i \in 1 .. Len(Commands) : Commands[i] \in Streams \cup {Memcpy}
    BY <1>1, LenProperties, ElementOfSeq
  <1>3. Kernel \subseteq 1 .. Len(Commands) /\ \A k \in Kernel : Stream(k) \in Streams
    BY <1>2 DEF Kernel, Stream
  <1>4. \A T \in SUBSET Kernel : IsFiniteSet(T) /\ Cardinality(T) \in Nat
    <2> SUFFICES ASSUME NEW T \in SUBSET Kernel
                 PROVE  IsFiniteSet(T) /\ Cardinality(T) \in Nat
      OBVIOUS
    <2>1. IsFiniteSet(1 .. Len(Commands))
      BY <1>2, FS_Interval
    <2>2. IsFiniteSet(T)
      BY <1>3, <2>1, FS_Subset
    <2>3. QED
      BY <2>2, FS_CardinalityType
  <1>5. QED
    BY <1>1, <1>2, <1>3, <1>4

\* Where reading stops the window has not grown beyond its size.
LEMMA StopFacts ==
  ASSUME WindowTypes, Cardinality(window) <= job.size
  PROVE  /\ Stop \in index .. Len(Commands)
         /\ Stop = Len(Commands) \/ Full(Stop)
         /\ \A j \in index .. (Stop - 1) : ~Full(j)
         /\ Held(Stop) \subseteq Kernel /\ Cardinality(Held(Stop)) <= job.size
  <1> DEFINE N == Len(Commands)
             S == {i \in index .. N : i = N \/ Full(i)}
  <1>1. /\ N \in Nat /\ index \in Nat /\ index <= N /\ job.size \in Nat
        /\ \A T \in SUBSET Kernel : IsFiniteSet(T) /\ Cardinality(T) \in Nat
        /\ Kernel \subseteq Nat /\ window \subseteq Kernel
    BY WindowFacts DEF WindowTypes
  <1>2. S \subseteq Nat /\ S # {}
    BY <1>1
  <1>3. PICK x \in S : \A y \in S : x <= y
    BY <1>2, LeastElement
  <1>4. /\ x \in index .. N /\ (x = N \/ Full(x))
        /\ \A j \in index .. (x - 1) : ~Full(j)
    BY <1>1, <1>3
  <1>5. /\ Stop \in index .. N /\ (Stop = N \/ Full(Stop))
        /\ \A j \in index .. (Stop - 1) : ~Full(j)
    BY <1>4 DEF Stop
  <1>6. \A i : Held(i) \subseteq Kernel
    BY <1>1 DEF Held
  <1>7. CASE Stop = index
    <2>1. \A k \in Kernel : ~(index < k /\ k <= index)
      BY <1>1
    <2>2. Held(Stop) = window
      BY <1>7, <2>1 DEF Held
    <2>3. QED
      BY <1>5, <1>6, <2>2
  <1>8. CASE Stop # index
    <2> DEFINE i == Stop - 1
    <2>1. i \in index .. (Stop - 1) /\ i \in Nat /\ Stop = i + 1
      BY <1>1, <1>5, <1>8
    <2>2. ~Full(i)
      BY <1>5, <2>1
    <2> HIDE DEF i
    <2>3. Held(Stop) \subseteq Held(i) \cup {Stop}
      <3>1. \A k \in Kernel : k <= Stop => k <= i \/ k = Stop
        BY <1>1, <2>1
      <3>2. QED
        BY <3>1 DEF Held
    <2>4. /\ IsFiniteSet(Held(i)) /\ Cardinality(Held(i)) \in Nat
          /\ Cardinality(Held(Stop)) \in Nat
      BY <1>1, <1>6
    <2>5. /\ IsFiniteSet(Held(i) \cup {Stop})
          /\ Cardinality(Held(i) \cup {Stop}) <= Cardinality(Held(i)) + 1
          /\ Cardinality(Held(i) \cup {Stop}) \in Nat
      <3> HIDE DEF Held
      <3>1. /\ IsFiniteSet(Held(i) \cup {Stop})
            /\ Cardinality(Held(i) \cup {Stop}) =
                 IF Stop \in Held(i) THEN Cardinality(Held(i)) ELSE Cardinality(Held(i)) + 1
        BY <2>4, FS_AddElement
      <3>2. QED
        BY <2>4, <3>1
    <2>6. Cardinality(Held(Stop)) <= Cardinality(Held(i) \cup {Stop})
      BY <2>3, <2>5, FS_Subset
    <2>7. Cardinality(Held(i)) < job.size
      BY <1>1, <2>2, <2>4 DEF Full
    <2>8. QED
      BY <1>1, <1>5, <1>6, <2>4, <2>5, <2>6, <2>7
  <1>9. QED
    BY <1>7, <1>8

\* Three kernels do not fit into a window of two.
LEMMA FirstOfTwo ==
  ASSUME NEW T, IsFiniteSet(T), Cardinality(T) <= 2, T \subseteq Nat,
         NEW j \in T, NEW k \in T, j < k, NEW i \in T
  PROVE  j <= i
  <1>1. SUFFICES ASSUME i < j PROVE FALSE
    BY DEF Nat
  <1>2. i # j /\ j # k /\ i # k
    BY <1>1
  <1> DEFINE one == {i}
             two == one \cup {j}
             all == two \cup {k}
  <1>3. j \notin one /\ k \notin two /\ all \subseteq T
    BY <1>2
  <1>4. IsFiniteSet(one) /\ Cardinality(one) = 1
    BY FS_Singleton
  <1> HIDE DEF one
  <1>5. IsFiniteSet(two) /\ Cardinality(two) = 1 + 1
    BY <1>3, <1>4, FS_AddElement
  <1> HIDE DEF two
  <1>6. IsFiniteSet(all) /\ Cardinality(all) = 1 + 1 + 1
    BY <1>3, <1>5, FS_AddElement
  <1> HIDE DEF all
  <1>7. Cardinality(all) <= Cardinality(T) /\ Cardinality(T) \in Nat
    BY <1>3, FS_Subset, FS_CardinalityType
  <1>8. QED
    BY <1>6, <1>7

\* With two kernels or one, the first is the only one at an odd position.
LEMMA OddIsFirst ==
  ASSUME IsFiniteSet(window), Cardinality(window) <= 2, window \subseteq Nat,
         NEW k \in window, Position(k) % 2 = 1, NEW j \in window
  PROVE  k <= j
  <1> DEFINE P == {i \in window : i <= k}
  <1>1. /\ IsFiniteSet(P) /\ Cardinality(P) \in Nat /\ Cardinality(P) <= Cardinality(window)
        /\ Cardinality(window) \in Nat
    BY FS_Subset, FS_CardinalityType
  <1>2. Cardinality(P) \in 0 .. 2 /\ Cardinality(P) % 2 = 1
    BY <1>1 DEF Position
  <1>3. Cardinality(P) = 1
    <2> HIDE DEF P
    <2>1. 0 % 2 = 0 /\ 2 % 2 = 0
      OBVIOUS
    <2>2. Cardinality(P) \in {0, 1, 2}
      BY <1>2
    <2>3. QED
      BY <1>2, <2>1, <2>2
  <1>4. PICK x : P = {x}
    BY <1>1, <1>3, FS_Singleton
  <1>5. k \in P
    OBVIOUS
  <1>6. j \in P => j = k
    BY <1>4, <1>5
  <1>7. QED
    BY <1>6

-----------------------------------------------------------------------------
(* What one pass launches                                                  *)
LEMMA LaunchFacts ==
  ASSUME WindowIInv, at = "loop", NEW held, held = Held(Stop)
  PROVE  /\ held \subseteq Kernel /\ window \subseteq held /\ held \cap freed = {}
         /\ held \cup freed = {k \in Kernel : k <= Stop}
         /\ Launching(held) \subseteq held \ launched
         /\ \A k \in Launching(held) : /\ Launchable(k, held)
         /\ launched \cap held = AtWork
         /\ ~limit /\ running \subseteq window
  <1>1. /\ WindowTypes /\ SharesInv /\ ~limit /\ index \in Nat
        /\ Kernel \subseteq Nat /\ Len(Commands) \in Nat
    BY WindowFacts DEF WindowIInv, WindowTypes, SharesInv
  <1>2. Stop \in index .. Len(Commands) /\ held \subseteq Kernel
    BY <1>1, StopFacts DEF SharesInv
  <1>3. held = window \cup {k \in Kernel : index < k /\ k <= Stop}
    BY DEF Held
  <1>4. held \cup freed = {k \in Kernel : k <= Stop}
    <2>1. \A k \in Kernel : k <= Stop <=> k <= index \/ (index < k /\ k <= Stop)
      BY <1>1, <1>2
    <2>2. window \cup freed = {k \in Kernel : k <= index}
      BY <1>1 DEF SharesInv
    <2>3. QED
      BY <1>3, <2>1, <2>2
  <1>5. \A k \in window \cup freed : ~(index < k) /\ k \in Kernel
    <2>1. \A k \in window \cup freed : k \in Kernel /\ k <= index
      BY <1>1 DEF SharesInv
    <2>2. \A k \in Kernel : k <= index => ~(index < k)
      BY <1>1
    <2>3. QED
      BY <2>1, <2>2
  <1>6. held \cap freed = {} /\ launched \cap held = AtWork
    BY <1>1, <1>3, <1>5 DEF SharesInv, AtWork
  <1>7. running \subseteq window
    BY <1>1 DEF SharesInv
  <1>8. /\ Launching(held) \subseteq held \ launched
        /\ \A k \in Launching(held) : Launchable(k, held)
    BY DEF Launching, Launchable
  <1>9. QED
    BY <1>1, <1>2, <1>3, <1>4, <1>6, <1>7, <1>8

\* In a window of two the first kernel is launched, if it was not.
LEMMA FirstIsLaunched ==
  ASSUME WindowIInv, at = "loop", job.size <= 2, NEW held, held = Held(Stop),
         NEW k \in held, \A j \in held : k <= j
  PROVE  k \in launched \cup Launching(held)
  <1>1. /\ held \subseteq Kernel /\ window \subseteq held /\ launched \cap held = AtWork
        /\ ~limit /\ running \subseteq window /\ held \cap freed = {}
    BY LaunchFacts
  <1>2. /\ held = window \cup {j \in Kernel : index < j /\ j <= Stop}
        /\ \A j \in window : j <= index
        /\ index \in Nat /\ Kernel \subseteq Nat /\ job.slots \in Nat \ {0}
        /\ running \subseteq launched
    BY WindowFacts DEF WindowIInv, WindowTypes, SharesInv, Held
  <1>3. SUFFICES ASSUME k \notin launched PROVE k \in Launching(held)
    OBVIOUS
  <1>4. AtWork = {}
    <2> SUFFICES ASSUME NEW x \in AtWork PROVE FALSE
      OBVIOUS
    <2>1. x \in held /\ x \in window /\ x \in launched /\ x # k /\ k \in Nat /\ x \in Nat
      BY <1>1, <1>2, <1>3 DEF AtWork
    <2>2. k < x
      BY <2>1
    <2>3. k \in window
      BY <1>2, <2>1, <2>2
    <2>4. k \in launched
      BY <2>1, <2>2, <2>3 DEF WindowIInv, TwoInv
    <2>5. QED
      BY <1>3, <2>4
  <1>5. busy = {} /\ running = {}
    BY <1>1, <1>2, <1>4 DEF WindowIInv, StreamInv, AtWork
  <1>6. \A j \in held : ~(j < k)
    BY <1>1, <1>2
  <1>7. Launchable(k, held)
    BY <1>3, <1>5, <1>6 DEF Launchable
  <1>8. running \cup {j \in held : Launchable(j, held) /\ j < k} = {}
    BY <1>5, <1>6
  <1>9. Cardinality(running \cup {j \in held : Launchable(j, held) /\ j < k}) < job.slots
    BY <1>2, <1>8, FS_EmptySet
  <1>10. QED
    BY <1>7, <1>9 DEF Launching

LEMMA PassStep ==
  ASSUME WindowIInv, ParseAndLaunch
  PROVE  WindowIInv'
  <1> DEFINE held  == Held(Stop)
             start == Launching(held)
  <1>1. /\ at = "loop" /\ at' = "simulate" /\ index' = Stop /\ window' = held
        /\ (index < Len(Commands) \/ window # {})
        /\ launched' = launched \cup start /\ running' = running \cup start
        /\ busy' = busy \cup {Stream(k) : k \in start}
        /\ UNCHANGED <<job, finished, memory, limit, freed, ran>>
    BY DEF ParseAndLaunch
  <1>2. /\ WindowTypes /\ SharesInv /\ Kernel \subseteq Nat /\ Len(Commands) \in Nat
        /\ index \in Nat /\ job.size \in Nat \ {0} /\ index <= Len(Commands)
        /\ \A k \in Kernel : Stream(k) \in Streams
        /\ \A T \in SUBSET Kernel : IsFiniteSet(T) /\ Cardinality(T) \in Nat
    BY WindowFacts DEF WindowIInv, WindowTypes
  <1>3. /\ Stop \in index .. Len(Commands) /\ (Stop = Len(Commands) \/ Full(Stop))
        /\ held \subseteq Kernel /\ Cardinality(held) <= job.size
    BY <1>2, StopFacts DEF SharesInv
  <1>4. /\ window \subseteq held /\ held \cap freed = {}
        /\ held \cup freed = {k \in Kernel : k <= Stop}
        /\ start \subseteq held \ launched
        /\ \A k \in start : Launchable(k, held)
        /\ launched \cap held = AtWork /\ ~limit /\ running \subseteq window
    BY <1>1, LaunchFacts
  <1>5. Commands' = Commands /\ Kernel' = Kernel /\ \A k : Stream(k)' = Stream(k)
    BY <1>1 DEF Commands, Kernel, Stream
  <1>6. \A k \in start : /\ k \in held \ launched /\ Stream(k) \notin busy
                         /\ \A j \in held \ launched : j < k => Stream(j) # Stream(k)
    BY <1>4 DEF Launchable
  <1> HIDE DEF held, start
  <1>7. WindowTypes'
    BY <1>1, <1>2, <1>3, <1>4, <1>5 DEF WindowTypes
  <1>8. SharesInv'
    BY <1>1, <1>2, <1>3, <1>4, <1>5 DEF SharesInv
  <1>9. AtWork' = AtWork \cup start /\ AtWork \cap start = {}
    BY <1>1, <1>4 DEF AtWork
  <1>10. StreamInv'
    <2>1. \A z \in busy' : \E k \in AtWork' : Stream(k)' = z
      BY <1>1, <1>5, <1>9 DEF WindowIInv, StreamInv
    <2>2. ASSUME NoneDropped
          PROVE  \A k \in AtWork' : /\ Stream(k)' \in busy'
                                    /\ \A j \in AtWork' : Stream(j)' = Stream(k)' => j = k
      <3>1. \A k \in AtWork : /\ Stream(k) \in busy
                              /\ \A j \in AtWork : Stream(j) = Stream(k) => j = k
        BY <1>4, <2>2 DEF WindowIInv, StreamInv
      <3>2. \A k \in start, j \in AtWork : Stream(j) # Stream(k)
        BY <1>6, <3>1
      <3>3. \A k, j \in start : Stream(j) = Stream(k) => j = k
        <4>1. \A k, j \in start : j < k \/ k < j \/ j = k
          BY <1>2, <1>3, <1>4
        <4>2. QED
          BY <1>6, <4>1
      <3>4. QED
        BY <1>1, <1>5, <1>9, <3>1, <3>2, <3>3
    <2>3. StreamSerial'
      <3> SUFFICES ASSUME NoneDropped, NEW k \in launched \cup start, NEW j \in Kernel,
                          j < k, Stream(j) = Stream(k)
                   PROVE  j \in ran
        BY <1>1, <1>5 DEF StreamSerial, NoneDropped
      <3>1. CASE k \in launched
        BY <3>1 DEF WindowIInv, StreamInv, StreamSerial
      <3>2. CASE k \in start
        <4>1. k <= Stop /\ j \in Nat /\ k \in Nat
          BY <1>2, <1>3, <1>4, <3>2
        <4>2. j \in held \cup freed
          <5>1. j <= Stop
            BY <1>2, <1>3, <4>1
          <5>2. QED
            BY <1>4, <5>1
        <4>3. j \notin held
          <5>1. j \in held => j \in AtWork
            BY <1>4, <1>6, <3>2
          <5>2. j \in AtWork => Stream(j) \in busy
            BY <1>4 DEF WindowIInv, StreamInv
          <5>3. QED
            BY <1>6, <3>2, <5>1, <5>2
        <4>4. QED
          BY <4>2, <4>3 DEF NoneDropped
      <3>3. QED
        BY <3>1, <3>2
    <2>4. QED
      BY <1>1, <2>1, <2>2, <2>3 DEF StreamInv, NoneDropped
  <1>11. TwoInv'
    <2> SUFFICES ASSUME job.size <= 2
                 PROVE  /\ NoneDropped
                        /\ \A j, k \in held : j < k => j \in launched \cup start
                        /\ \A k \in held : (\A j \in held : k <= j) => k \in launched \cup start
      BY <1>1 DEF TwoInv, NoneDropped
    <2>1. NoneDropped
      BY <1>4 DEF WindowIInv, TwoInv
    <2>2. \A k \in held : (\A j \in held : k <= j) => k \in launched \cup start
      BY <1>1, FirstIsLaunched DEF held, start
    <2>3. ASSUME NEW j \in held, NEW k \in held, j < k PROVE \A i \in held : j <= i
      <3>1. IsFiniteSet(held) /\ Cardinality(held) <= 2 /\ held \subseteq Nat
        BY <1>2, <1>3
      <3>2. QED
        BY <2>3, <3>1, FirstOfTwo
    <2>4. QED
      BY <2>1, <2>2, <2>3
  <1>12. LastInv'
    <2> SUFFICES ASSUME Len(Commands) \in Kernel PROVE held # {}
      BY <1>1, <1>5 DEF LastInv
    <2>1. CASE window # {}
      BY <1>4, <2>1
    <2>2. CASE window = {} /\ Full(Stop)
      <3>1. Cardinality(held) >= job.size
        BY <2>2 DEF Full, held
      <3>2. held # {}
        BY <1>2, <3>1, FS_EmptySet
      <3>3. QED
        BY <3>2
    <2>3. CASE window = {} /\ Stop = Len(Commands)
      <3>1. index < Stop /\ Stop \in Kernel /\ Stop <= Stop
        BY <1>1, <1>2, <2>3
      <3>2. QED
        BY <3>1 DEF held, Held
    <2>4. QED
      BY <1>3, <2>1, <2>2, <2>3
  <1>13. QED
    BY <1>7, <1>8, <1>10, <1>11, <1>12 DEF WindowIInv

-----------------------------------------------------------------------------
(* Cycles of the GPU and what is cleaned up behind them                    *)
\* The kernels of D finish; nothing is cleaned up, or a finished kernel is,
\* or what stands at the odd positions of a window no kernel of which runs.
LEMMA CleanupStep ==
  ASSUME WindowIInv, at = "simulate", NEW D, D \subseteq running, NEW act \in BOOLEAN, NEW uid,
         job' = job, running' = running \ D, ran' = ran \cup D,
         finished' \in Seq(ran'), memory' \in BOOLEAN, limit' \in BOOLEAN,
         act => ~limit', ~act /\ ~limit' => running' = {},
         \/ act /\ UNCHANGED <<at, front, freed>>
         \/ (act => uid \in ran') /\ Cleanup(uid, act, limit')
  PROVE  WindowIInv'
  <1>1. /\ WindowTypes /\ SharesInv /\ StreamInv /\ TwoInv /\ LastInv /\ ~limit
        /\ Kernel \subseteq Nat /\ job.size \in Nat \ {0}
        /\ \A T \in SUBSET Kernel : IsFiniteSet(T) /\ Cardinality(T) \in Nat
    BY WindowFacts DEF WindowIInv, WindowTypes, SharesInv
  <1>2. /\ window \subseteq Kernel /\ running \subseteq Kernel /\ ran \subseteq Kernel
        /\ freed \subseteq Kernel /\ window \cup freed = {k \in Kernel : k <= index}
        /\ window \cap freed = {}
        /\ launched = running \cup ran /\ running \cap ran = {}
        /\ launched \subseteq window \cup freed /\ freed \cap running = {}
        /\ Cardinality(window) <= job.size
    BY <1>1 DEF WindowTypes, SharesInv
  <1>3. Commands' = Commands /\ Kernel' = Kernel /\ \A k : Stream(k)' = Stream(k)
    BY DEF Commands, Kernel, Stream
  \* What all outcomes have in common.
  <1>4. PICK gone \in SUBSET window :
          /\ window' = window \ gone /\ freed' = freed \cup gone
          /\ busy' = busy \ {Stream(k) : k \in gone}
          /\ UNCHANGED <<index, launched>>
          /\ \/ gone = {} /\ at' = "simulate"
             \/ gone = {} /\ window = {} /\ at' = "assert"
             \/ at' = IF limit' THEN "end" ELSE "loop"
          /\ gone \subseteq ran' \/ limit' \/ (running' = {} /\ \A k \in gone : Position(k) % 2 = 1)
          /\ at' = "simulate" => ~limit'
    <2>1. CASE act /\ UNCHANGED <<at, front, freed>>
      <3>1. UNCHANGED <<at, index, window, launched, busy, freed>> /\ ~limit'
        BY <2>1 DEF front
      <3> WITNESS {} \in SUBSET window
      <3>2. QED
        BY <3>1
    <2>2. CASE (act => uid \in ran') /\ Cleanup(uid, act, limit') /\ window = {}
      <3>1. UNCHANGED <<index, window, launched, busy, freed>> /\ at' = "assert"
        BY <2>2 DEF Cleanup, front
      <3> WITNESS {} \in SUBSET window
      <3>2. QED
        BY <2>2, <3>1
    <2>3. CASE (act => uid \in ran') /\ Cleanup(uid, act, limit') /\ window # {}
      <3> DEFINE gone == Removed(uid, act, limit')
      <3>1. gone \in SUBSET window
        BY DEF Removed
      <3>2. gone \subseteq ran' \/ limit' \/ (running' = {} /\ \A k \in gone : Position(k) % 2 = 1)
        BY <2>3 DEF Removed
      <3>3. /\ window' = window \ gone /\ freed' = freed \cup gone
            /\ busy' = busy \ {Stream(k) : k \in gone}
            /\ UNCHANGED <<index, launched>> /\ at' = IF limit' THEN "end" ELSE "loop"
        BY <2>3 DEF Cleanup, Released
      <3> HIDE DEF gone
      <3> WITNESS gone \in SUBSET window
      <3>4. QED
        BY <3>1, <3>2, <3>3
    <2>4. QED
      BY <2>1, <2>2, <2>3
  <1>5. /\ at' \in {"loop", "simulate", "end", "assert"}
        /\ limit' => at' \in {"end", "assert"}
        /\ at' = "simulate" => gone = {}
        /\ at' = "assert" => window = {}
    BY <1>4
  <1>6. running' \cap ran' = {} /\ launched' = running' \cup ran' /\ ran \subseteq ran'
    BY <1>2, <1>4
  <1>7. WindowTypes'
    BY <1>1, <1>2, <1>3, <1>4, <1>5 DEF WindowTypes
  <1>8. ~limit' => gone \cap running' = {}
    BY <1>4, <1>6
  <1>9. SharesInv'
    <2>1. Cardinality(window') <= job.size
      <3>1. IsFiniteSet(window) /\ Cardinality(window) \in Nat /\ Cardinality(window') \in Nat
        BY <1>1, <1>2, <1>4
      <3>2. Cardinality(window') <= Cardinality(window)
        BY <1>4, <3>1, FS_Subset
      <3>3. QED
        BY <1>1, <1>2, <3>1, <3>2
    <2>2. window' \cup freed' = {k \in Kernel' : k <= index'} /\ window' \cap freed' = {}
          /\ window' \cup freed' = window \cup freed
      BY <1>2, <1>3, <1>4
    <2>3. ~limit' => freed' \cap running' = {}
      BY <1>2, <1>4, <1>8
    <2>4. QED
      BY <1>2, <1>4, <1>5, <1>6, <2>1, <2>2, <2>3 DEF SharesInv
  \* What is dropped now was not dropped before.
  <1>10. NoneDropped' => NoneDropped /\ gone \subseteq ran'
    BY <1>2, <1>4 DEF NoneDropped
  <1>11. AtWork' = AtWork \ gone
    BY <1>4 DEF AtWork
  <1>12. StreamInv'
    <2>1. ASSUME NEW z \in busy' PROVE \E k \in AtWork' : Stream(k)' = z
      <3>1. PICK k \in AtWork : Stream(k) = z
        BY <1>1, <1>4 DEF StreamInv
      <3>2. k \notin gone
        BY <1>4, <3>1
      <3>3. QED
        BY <1>3, <1>11, <3>1, <3>2
    <2>2. ASSUME NoneDropped', ~limit', NEW k \in AtWork'
          PROVE  /\ Stream(k)' \in busy'
                 /\ \A j \in AtWork' : Stream(j)' = Stream(k)' => j = k
      <3>1. /\ k \in AtWork /\ k \notin gone /\ Stream(k) \in busy
            /\ \A j \in AtWork : Stream(j) = Stream(k) => j = k
        BY <1>1, <1>10, <1>11, <2>2 DEF StreamInv
      <3>2. gone \subseteq AtWork
        BY <1>4, <1>6, <1>10, <2>2 DEF AtWork
      <3>3. Stream(k) \notin {Stream(j) : j \in gone}
        BY <3>1, <3>2
      <3>4. QED
        BY <1>3, <1>4, <1>11, <3>1, <3>3
    <2>3. StreamSerial'
      BY <1>1, <1>3, <1>4, <1>6, <1>10 DEF StreamInv, StreamSerial
    <2>4. QED
      BY <2>1, <2>2, <2>3 DEF StreamInv
  <1>13. TwoInv'
    <2> SUFFICES ASSUME job.size <= 2
                 PROVE  /\ limit' \/ NoneDropped'
                        /\ at' \in {"loop", "simulate"} =>
                             \A j, k \in window' : j < k => j \in launched'
                        /\ at' = "simulate" =>
                             \A k \in window' : (\A j \in window' : k <= j) => k \in launched'
      BY DEF TwoInv
    <2>1. /\ NoneDropped /\ (\A j, k \in window : j < k => j \in launched)
          /\ \A k \in window : (\A j \in window : k <= j) => k \in launched
      BY <1>1 DEF TwoInv
    <2>2. CASE gone \subseteq ran'
      BY <1>4, <1>5, <1>6, <2>1, <2>2 DEF NoneDropped
    <2>3. CASE limit'
      BY <1>5, <2>3
    <2>4. CASE running' = {} /\ \A k \in gone : Position(k) % 2 = 1
      <3>1. IsFiniteSet(window) /\ Cardinality(window) <= 2 /\ window \subseteq Nat
        <4>1. IsFiniteSet(window) /\ Cardinality(window) \in Nat
          BY <1>1, <1>2
        <4>2. QED
          BY <1>1, <1>2, <4>1
      <3>2. \A k \in gone : k \in launched
        <4>1. \A k \in gone : k \in window /\ \A j \in window : k <= j
          BY <1>4, <2>4, <3>1, OddIsFirst
        <4>2. QED
          BY <2>1, <4>1
      <3>3. gone \subseteq ran'
        BY <1>4, <1>6, <2>4, <3>2
      <3>4. QED
        BY <2>2, <3>3
    <2>5. QED
      BY <1>4, <2>2, <2>3, <2>4
  <1>14. LastInv'
    BY <1>1, <1>3, <1>4, <1>5 DEF LastInv
  <1>15. QED
    BY <1>7, <1>9, <1>12, <1>13, <1>14 DEF WindowIInv

LEMMA InactiveStep ==
  ASSUME WindowIInv, Inactive
  PROVE  WindowIInv'
  <1>1. /\ at = "simulate" /\ ~Active(running, memory, limit) /\ Cleanup(0, FALSE, limit)
        /\ UNCHANGED <<job, running, finished, memory, limit, ran>>
    BY DEF Inactive, gpu
  <1>2. ~limit /\ WindowTypes
    BY <1>1 DEF WindowIInv, SharesInv
  <1>3. running = {}
    BY <1>1, <1>2 DEF Active
  <1>4. /\ {} \subseteq running /\ running' = running \ {} /\ ran' = ran \cup {}
        /\ finished' \in Seq(ran') /\ memory' \in BOOLEAN /\ limit' \in BOOLEAN
        /\ Cleanup(0, FALSE, limit')
    BY <1>1, <1>2 DEF WindowTypes
  <1>5. QED
    BY <1>1, <1>3, <1>4, CleanupStep

LEMMA CycleStep ==
  ASSUME WindowIInv, Cycle
  PROVE  WindowIInv'
  <1>0. PICK F \in SUBSET running :
          \E done \in SetToSeqs(F), mem, lim \in BOOLEAN : GpuCycle(done, mem, lim)
    BY DEF Cycle
  <1>1. PICK done \in SetToSeqs(F), mem \in BOOLEAN, lim \in BOOLEAN : GpuCycle(done, mem, lim)
    BY <1>0
  <1> DEFINE D   == ToSet(done)
             run == running \ D
             all == finished \o done
             act == Active(run, mem, lim)
             uid == IF all = <<>> THEN 0 ELSE Head(all)
  <1>2. WindowTypes /\ running \subseteq Kernel /\ IsFiniteSet(F) /\ Cardinality(F) \in Nat
    BY WindowFacts DEF WindowIInv, WindowTypes
  <1>3. done \in Seq(running) /\ D \subseteq running
    <2>1. done \in [1 .. Cardinality(F) -> F]
      BY DEF SetToSeqs
    <2>2. done \in [1 .. Cardinality(F) -> running]
      BY <2>1
    <2>3. done \in Seq(running)
      BY <1>2, <2>2, FunctionSeq
    <2>4. QED
      BY <2>3, ElementsOfSeq
  <1>4. /\ at = "simulate" /\ running' = run /\ memory' = mem /\ limit' = lim
        /\ finished' = IF all = <<>> THEN <<>> ELSE Tail(all)
        /\ ran' = ran \cup D /\ job' = job
        /\ IF act /\ uid = 0 THEN UNCHANGED <<at, front, freed>> ELSE Cleanup(uid, act, lim)
    BY <1>1 DEF GpuCycle
  <1>5. all \in Seq(ran')
    <2>1. finished \in Seq(ran) /\ done \in Seq(D)
      BY <1>2, <1>3, SeqOfElements DEF WindowTypes
    <2>2. finished \in Seq(ran') /\ done \in Seq(ran')
      BY <1>4, <2>1, SeqOfMore
    <2>3. QED
      BY <2>2, ConcatElements
  <1>6. finished' \in Seq(ran') /\ (uid # 0 => uid \in ran')
    <2> HIDE DEF all
    <2>1. all # <<>> => Tail(all) \in Seq(ran') /\ Head(all) \in ran'
      BY <1>5, HeadTailProperties, ElementsOfSeq
    <2>2. <<>> \in Seq(ran')
      OBVIOUS
    <2>3. QED
      BY <1>4, <2>1, <2>2
  <1>7. /\ act \in BOOLEAN /\ (act => ~lim) /\ (~act /\ ~lim => run = {})
    BY DEF Active
  <1> HIDE DEF D, run, all, act, uid
  <1>8. \/ act /\ UNCHANGED <<at, front, freed>>
        \/ (act => uid \in ran') /\ Cleanup(uid, act, limit')
    BY <1>4, <1>6
  <1>9. /\ D \subseteq running /\ running' = running \ D /\ ran' = ran \cup D
        /\ memory' \in BOOLEAN /\ limit' \in BOOLEAN /\ (act => ~limit')
        /\ (~act /\ ~limit' => running' = {})
    BY <1>3, <1>4, <1>7 DEF run
  <1>10. QED
    BY <1>4, <1>6, <1>7, <1>8, <1>9, CleanupStep

-----------------------------------------------------------------------------
LEMMA WindowStarts ==
  ASSUME WindowInit
  PROVE  WindowIInv
  <1>1. /\ job \in Jobs /\ at = "loop" /\ index = 0 /\ window = {} /\ launched = {} /\ busy = {}
        /\ running = {} /\ finished = <<>> /\ memory = FALSE /\ limit = FALSE
        /\ freed = {} /\ ran = {}
    BY DEF WindowInit
  <1>2. /\ Len(Commands) \in Nat /\ Kernel \subseteq 1 .. Len(Commands) /\ job.size \in Nat \ {0}
    BY <1>1, WindowFacts
  <1>3. {k \in Kernel : k <= index} = {}
    <2>1. \A k \in Kernel : ~(k <= index)
      BY <1>1, <1>2
    <2>2. QED
      BY <2>1
  <1>4. WindowTypes
    <2>1. index \in Nat /\ index <= Len(Commands)
      BY <1>1, <1>2
    <2>2. finished \in Seq(ran)
      BY <1>1
    <2>3. QED
      BY <1>1, <2>1, <2>2 DEF WindowTypes
  <1>5. SharesInv
    <2>1. Cardinality(window) <= job.size
      BY <1>1, <1>2, FS_EmptySet
    <2>2. QED
      BY <1>1, <1>3, <2>1 DEF SharesInv
  <1>6. StreamInv /\ TwoInv /\ LastInv
    BY <1>1 DEF StreamInv, AtWork, StreamSerial, TwoInv, NoneDropped, LastInv
  <1>7. QED
    BY <1>4, <1>5, <1>6 DEF WindowIInv

LEMMA WindowStep ==
  ASSUME WindowIInv, [WindowNext]_windowVars
  PROVE  WindowIInv'
  <1>1. CASE UNCHANGED windowVars
    <2>1. UNCHANGED <<job, at, index, window, launched, busy, running, finished, memory, limit,
                      freed, ran>>
      BY <1>1 DEF windowVars, front, gpu
    <2>2. Commands' = Commands /\ Kernel' = Kernel /\ \A k : Stream(k)' = Stream(k)
      BY <2>1 DEF Commands, Kernel, Stream
    <2>3. WindowTypes' /\ SharesInv'
      BY <2>1, <2>2 DEF WindowIInv, WindowTypes, SharesInv
    <2>4. StreamInv' /\ TwoInv' /\ LastInv'
      BY <2>1, <2>2
         DEF WindowIInv, StreamInv, AtWork, StreamSerial, TwoInv, NoneDropped, LastInv
    <2>5. QED
      BY <2>3, <2>4 DEF WindowIInv
  <1>2. CASE LoopEnds
    <2>1. /\ UNCHANGED <<job, index, window, launched, busy, running, finished, memory, limit,
                         freed, ran>>
          /\ at' = "end" /\ at = "loop"
      BY <1>2 DEF LoopEnds, front, gpu
    <2>2. Commands' = Commands /\ Kernel' = Kernel /\ \A k : Stream(k)' = Stream(k)
      BY <2>1 DEF Commands, Kernel, Stream
    <2>3. WindowTypes' /\ SharesInv'
      BY <2>1, <2>2 DEF WindowIInv, WindowTypes, SharesInv
    <2>4. StreamInv' /\ TwoInv' /\ LastInv'
      BY <2>1, <2>2
         DEF WindowIInv, StreamInv, AtWork, StreamSerial, TwoInv, NoneDropped, LastInv
    <2>5. QED
      BY <2>3, <2>4 DEF WindowIInv
  <1>3. QED
    BY <1>1, <1>2, PassStep, InactiveStep, CycleStep DEF WindowNext

LEMMA WindowHolds ==
  ASSUME WindowIInv
  PROVE  WindowInv
  <1>1. /\ WindowTypes /\ SharesInv /\ StreamInv /\ TwoInv /\ LastInv
        /\ Len(Commands) \in Nat
    BY WindowFacts DEF WindowIInv, WindowTypes
  <1>2. WindowTypeOK
    <2>1. index \in 0 .. Len(Commands) /\ {memory, limit} \subseteq BOOLEAN
      BY <1>1 DEF WindowTypes
    <2>2. finished \in Seq(Kernel)
      BY <1>1, SeqOfMore DEF WindowTypes
    <2>3. QED
      BY <1>1, <2>1, <2>2 DEF WindowTypeOK, WindowTypes, SharesInv
  <1>3. StreamSerial /\ NoKernelFreedRunning /\ WindowExact
    BY <1>1 DEF StreamInv, SharesInv, NoKernelFreedRunning, WindowExact
  <1>4. RunningStreamBusy
    <2>1. ~limit => running \subseteq AtWork
      BY <1>1 DEF SharesInv, AtWork
    <2>2. QED
      BY <1>1, <2>1 DEF StreamInv, RunningStreamBusy
  <1>5. FinishedFreedOfTwo /\ CleanupFindsLastKernel
    BY <1>1
       DEF TwoInv, LastInv, FinishedFreedOfTwo, OnlyFinishedFreed, CleanupFindsLastKernel,
           CleanupFindsKernel
  <1>6. QED
    BY <1>2, <1>3, <1>4, <1>5 DEF WindowInv

\* The loop launches, frees and releases by lists it fills in different
\* cycles; for every trace, window and number of slots they keep streams serial
\* and freed kernels at rest (accel-sim.cc: simulation_loop and cleanup).
THEOREM WindowInvariant == WindowSpec => []WindowInv
  <1>1. WindowInit => WindowIInv
    BY WindowStarts
  <1>2. WindowIInv /\ [WindowNext]_windowVars => WindowIInv'
    BY WindowStep
  <1>3. WindowIInv => WindowInv
    BY WindowHolds
  <1>4. QED
    BY <1>1, <1>2, <1>3, PTL DEF WindowSpec
=============================================================================
