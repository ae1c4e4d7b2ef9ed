---------------------------- MODULE KernelWindow -----------------------------
(***************************************************************************)
(* The trace-driven front end (accel_sim_framework): commands are read     *)
(* into a window of kernels, a kernel is launched when its stream is free, *)
(* the GPU is clocked until a kernel finishes or nothing is active, and    *)
(* the window is cleaned up.                                               *)
(*                                                                         *)
(* The GPU model is outside: its cycle finishes any of the running         *)
(* kernels, the memory system may stay busy without them, and the cycle    *)
(* limit may be hit. A kernel is known by the position of its command. The *)
(* window is a set of kernels: the list of the code holds them in the      *)
(* order of their commands, as they are pushed and erased only. So is the  *)
(* list of busy streams, where a stream is pushed when it is not there.    *)
(***************************************************************************)
EXTENDS Integers, Sequences, SequencesExt, FiniteSets

CONSTANTS
  Jobs,    \* the traces with their options, one of which is simulated:
           \*   commands  the command list: Memcpy, or the stream of a kernel
           \*   size      window_size
           \*   slots     kernels the GPU runs at once
           \*   limits    whether a cycle, instruction or CTA limit may be hit
  Streams, \* the streams of their kernels
  Memcpy   \* a cpu_gpu_mem_copy

ASSUME WindowAssumption ==
  \A j \in Jobs : /\ j.commands \in Seq(Streams \cup {Memcpy})
                  /\ {j.size, j.slots} \subseteq Nat \ {0} /\ j.limits \in BOOLEAN

VARIABLE job  \* the trace of this run

Commands == job.commands

Kernel    == {i \in DOMAIN Commands : Commands[i] # Memcpy}
Stream(k) == Commands[k]

VARIABLES
  at,       \* "loop", "simulate", "end", or "assert" when assert(k) fails
  index,    \* commandlist_index
  window,   \* kernels_info, in the order of the commands
  launched, \* kernels with was_launched()
  busy,     \* busy_streams
  running,  \* GPU: kernels with work left
  finished, \* GPU: m_finished_kernel, uids not asked for yet
  memory,   \* GPU: requests in flight although no kernel runs
  limit,    \* GPU: cycle_insn_cta_max_hit()
  freed,    \* history: kernels that were deleted
  ran       \* history: kernels that finished

front == <<index, window, launched, busy>>
gpu   == <<running, finished, memory, limit>>
windowVars == <<job, at, front, gpu, freed, ran>>

WindowInit ==
  /\ job \in Jobs
  /\ at = "loop" /\ index = 0 /\ window = {} /\ launched = {} /\ busy = {}
  /\ running = {} /\ finished = <<>> /\ memory = FALSE /\ limit = FALSE
  /\ freed = {} /\ ran = {}

Active(run, mem, lim) == ~lim /\ (run # {} \/ mem)

-----------------------------------------------------------------------------
(* One pass of the loop up to simulate()                                   *)
\* The window when the commands up to i have been read.
Held(i) == window \cup {k \in Kernel : index < k /\ k <= i}

Full(i) == Cardinality(Held(i)) >= job.size

\* Reading stops where the window is full first, or the list ends.
Stop == CHOOSE i \in index .. Len(Commands) :
          /\ i = Len(Commands) \/ Full(i)
          /\ \A j \in index .. (i - 1) : ~Full(j)

\* The stream of a kernel that runs already is not looked at.
Launchable_Bug(k, held) == k \in held \ launched

\* The loop meets the kernels in order: the first of a free stream takes it.
Launchable(k, held) ==
  /\ k \in held \ launched /\ Stream(k) \notin busy
  /\ \A j \in held \ launched : j < k => Stream(j) # Stream(k)

\* It goes on launching while can_start_kernel() lets it.
Launching(held) ==
  {k \in held : /\ Launchable(k, held)
                /\ Cardinality(running \cup {j \in held : Launchable(j, held) /\ j < k})
                     < job.slots}

ParseAndLaunch ==
  /\ at = "loop" /\ (index < Len(Commands) \/ window # {})
  /\ LET start == Launching(Held(Stop))
     IN /\ launched' = launched \cup start /\ running' = running \cup start
        /\ busy' = busy \cup {Stream(k) : k \in start}
  /\ index' = Stop /\ window' = Held(Stop) /\ at' = "simulate"
  /\ UNCHANGED <<job, finished, memory, limit, freed, ran>>

LoopEnds ==
  /\ at = "loop" /\ index = Len(Commands) /\ window = {}
  /\ at' = "end" /\ UNCHANGED <<job, front, gpu, freed, ran>>

-----------------------------------------------------------------------------
(* cleanup(), with the GPU as simulate() left it                           *)
Position(k) == Cardinality({j \in window : j <= k})

\* The kernels that are erased: when everything qualifies, the index moves on
\* past the one that takes the place of the erased one.
Removed(uid, active, lim) ==
  IF lim \/ ~active THEN {k \in window : Position(k) % 2 = 1} ELSE window \cap {uid}

\* The stream of the kernel stays busy.
Released_Bug(gone) == busy

Released(gone) == busy \ {Stream(k) : k \in gone}

Cleanup(uid, active, lim) ==
  LET gone == Removed(uid, active, lim)
  IN IF window = {}
       THEN at' = "assert" /\ UNCHANGED <<front, freed>>
       ELSE /\ window' = window \ gone /\ busy' = Released(gone) /\ freed' = freed \cup gone
            /\ at' = IF lim THEN "end" ELSE "loop"
            /\ UNCHANGED <<index, launched>>

\* Nothing is active when simulate() starts.
Inactive ==
  /\ at = "simulate" /\ ~Active(running, memory, limit)
  /\ Cleanup(0, FALSE, limit) /\ UNCHANGED <<job, gpu, ran>>

\* A cycle of the GPU in which the kernels of the sequence done finish.
GpuCycle(done, mem, lim) ==
  LET run == running \ ToSet(done)
      all == finished \o done
      act == Active(run, mem, lim)
      uid == IF all = <<>> THEN 0 ELSE Head(all)
  IN /\ at = "simulate" /\ Active(running, memory, limit)
     /\ running' = run /\ memory' = mem /\ limit' = lim
     /\ finished' = IF all = <<>> THEN <<>> ELSE Tail(all)
     /\ ran' = ran \cup ToSet(done) /\ UNCHANGED job
     /\ IF act /\ uid = 0 THEN UNCHANGED <<at, front, freed>>
                          ELSE Cleanup(uid, act, lim)

\* Memory traffic comes from running kernels, and drains after them.
Cycle ==
  \E F \in SUBSET running : \E done \in SetToSeqs(F), mem, lim \in BOOLEAN :
    /\ mem => memory \/ running # {}
    /\ lim => job.limits
    /\ GpuCycle(done, mem, lim)

WindowNext == ParseAndLaunch \/ LoopEnds \/ Inactive \/ Cycle

WindowSpec == WindowInit /\ [][WindowNext]_windowVars

\* The simulator keeps running, and the GPU makes progress: a cycle in which a
\* kernel finishes, or the memory drains when none runs, comes in the end
\* (deadlock_check ends the program otherwise).
Progress ==
  \E F \in SUBSET running : \E done \in SetToSeqs(F), mem \in BOOLEAN :
    /\ IF running # {} THEN F # {} ELSE ~mem
    /\ GpuCycle(done, mem, FALSE)

WindowFairness ==
  WF_windowVars(ParseAndLaunch \/ LoopEnds \/ Inactive) /\ WF_windowVars(Progress)

FairWindow == WindowSpec /\ WindowFairness

-----------------------------------------------------------------------------
WindowTypeOK ==
  /\ at \in {"loop", "simulate", "end", "assert"}
  /\ index \in 0 .. Len(Commands) /\ window \subseteq Kernel
  /\ launched \subseteq Kernel /\ busy \subseteq Streams
  /\ running \subseteq launched /\ finished \in Seq(Kernel)
  /\ {memory, limit} \subseteq BOOLEAN /\ ran \subseteq launched
  /\ freed \subseteq Kernel

\* No kernel was deleted before it had finished.
NoneDropped == freed \subseteq ran

\* Kernels of a stream run one after the other, in the order of the commands,
\* whatever order the streams finish in, as long as none was dropped.
StreamSerial ==
  NoneDropped =>
    \A k \in launched, j \in Kernel : j < k /\ Stream(j) = Stream(k) => j \in ran

\* The GPU never works on a kernel that was deleted, short of a limit.
NoKernelFreedRunning == freed \cap running = {} \/ limit

\* A stream with a kernel at work is not offered to another one: a uid that
\* comes late does not release it. Dropping a kernel does.
RunningStreamBusy ==
  NoneDropped /\ ~limit => \A k \in running : Stream(k) \in busy

\* The window holds the kernels that were read and not deleted, never more
\* than its size.
WindowExact ==
  /\ Cardinality(window) <= job.size
  /\ window \cup freed = {k \in Kernel : k <= index} /\ window \cap freed = {}

\* Every kernel that leaves the window has been launched and has finished.
\* (accel-sim.cc:71: "cleanup finished kernel")
OnlyFinishedFreed == limit \/ NoneDropped

\* The same where it is true: in a window of one or two.
FinishedFreedOfTwo == job.size <= 2 => OnlyFinishedFreed

\* assert(k) of cleanup(): there is a kernel to clean up.
CleanupFindsKernel == at # "assert"

\* The same where it is true: when the command list ends with a kernel.
CleanupFindsLastKernel == Len(Commands) \in Kernel => CleanupFindsKernel

\* In a window of one or two and without limits the simulation comes to its
\* end with every kernel of the trace run.
EveryKernelRuns == job.size <= 2 /\ ~job.limits => <>(at = "end" /\ ran = Kernel)

\* The simulation comes to its end in any case.
LoopTerminates == <>(at \in {"end", "assert"})
\* The loop launches, frees and releases by lists it fills in different
\* cycles; together they keep streams serial and freed kernels at rest.
WindowInv == WindowTypeOK /\ StreamSerial /\ NoKernelFreedRunning /\ RunningStreamBusy
               /\ WindowExact /\ FinishedFreedOfTwo /\ CleanupFindsLastKernel

\* The loop ends, with every kernel run where it can promise that.
WindowEnds == LoopTerminates /\ EveryKernelRuns
=============================================================================
