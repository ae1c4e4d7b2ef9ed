---------------------------- MODULE TracerChannel -----------------------------
(***************************************************************************)
(* The NVBit tracer (tracer_tool.cu): the callbacks around a kernel launch *)
(* decide whether the kernel is traced and open its file, the kernel       *)
(* pushes records into the channel, the receiving thread writes them to    *)
(* the file that is open, and the callback after the launch waits for it.  *)
(*                                                                         *)
(* One context, and a program that makes its calls one after the other:    *)
(* launches, profiler calls, the capture of kernels into a graph           *)
(* and launches of that graph. The channel is a queue that blocks the      *)
(* kernel when it is full (NVBit). A kernel is known by its id.            *)
(***************************************************************************)
EXTENDS Integers, Sequences, SequencesExt, FiniteSets

CONSTANTS
  Names,       \* names of the kernels of the programs
  Programs,    \* the programs with the options they are traced with:
               \*   ranges     g_kernel_ranges: start, end (0: none) and names
               \*   fromStart  active_from_start
               \*   terminate  terminate_after_limit_number_of_kernels_reached
               \*   kinds      kinds of calls the program makes
               \*   calls      bound: calls of the program
               \*   records    bound: records of one run of a kernel
  ChannelSize  \* CHANNEL_SIZE, in records

ASSUME TracerAssumption ==
  /\ ChannelSize \in Nat \ {0}
  /\ \A p \in Programs :
       /\ {p.fromStart, p.terminate} \subseteq BOOLEAN
       /\ {p.calls, p.records} \subseteq Nat
       /\ p.kinds \subseteq {"launch", "profiler", "graph"}
       /\ \A r \in p.ranges : {r.start, r.end} \subseteq Nat /\ r.names \subseteq Names

VARIABLES
  program,   \* the program of this run
  pc,        \* where the program is: "idle", "kernel", "flush", "wait", "exit"
  calls,     \* calls made
  kernelid,  \* ctx_kernelid: the id of the next kernel
  current,   \* the kernel being launched: id and name
  region,    \* active_region
  stop,      \* stop_report
  receiving, \* recv_thread_receiving
  file,      \* ctx_resultsFile: the id of its kernel
  channel,   \* records and markers on their way
  buffer,    \* recv_buffer, what is left of it
  work,      \* what the GPU has to run: the ids of kernels with their records
  graph,     \* the captured kernels, those that are instrumented
  trace,     \* the files written: records by id
  reported,  \* reported_dynamic_instr_counter - old_total_reported_insts
  stats,     \* total_reported_insts in the rows of stats.csv, by id
  closed,    \* history: ids of the files that are complete
  executed   \* history: the records each kernel pushed in its launch

host    == <<pc, calls, kernelid, current, region, stop>>
device  == <<work, graph>>
results == <<trace, reported, stats, closed>>
tracerVars == <<program, host, receiving, file, channel, buffer, device, results, executed>>

Marker == <<0, 0>> \* the record of flush_channel, cta_id_x = -1

Ids == 1 .. program.calls

-----------------------------------------------------------------------------
(* Which kernels are traced                                                *)
ShouldTrace(id, name) ==
  \E r \in program.ranges : /\ r.start <= id /\ (r.end = 0 \/ id <= r.end)
                    /\ name \in r.names

\* The region stays active from one kernel to the next.
Entered(name) == region \/ (program.fromStart /\ ShouldTrace(kernelid, name))

Left(name) == region /\ (~program.fromStart \/ ShouldTrace(kernelid, name))

-----------------------------------------------------------------------------
TracerInit ==
  /\ program \in Programs
  /\ pc = "idle" /\ calls = 0 /\ kernelid = 1 /\ current = [id |-> 0, name |-> ""]
  /\ region = FALSE /\ stop = FALSE /\ receiving = FALSE /\ file = 0
  /\ channel = <<>> /\ buffer = <<>> /\ work = <<>> /\ graph = <<>>
  /\ trace = [i \in Ids |-> <<>>] /\ reported = 0 /\ stats = [i \in Ids |-> 0]
  /\ closed = {} /\ executed = [i \in Ids |-> <<>>]

Call(kind) ==
  pc = "idle" /\ kind \in program.kinds /\ calls < program.calls /\ calls' = calls + 1

\* The receiving thread is started for traced kernels only.
Receives_Bug(name) == receiving \/ Entered(name)

Receives(name) == TRUE

\* enter_kernel_launch: the file is opened, and the receiving thread started.
Enter(name) ==
  /\ region' = Entered(name) /\ stop' = ~Entered(name)
  /\ file' = IF Entered(name) THEN kernelid ELSE file
  /\ kernelid' = kernelid + 1 /\ receiving' = Receives(name)
  /\ current' = [id |-> kernelid, name |-> name]

\* The id is above g_max_kernel_id, the last of the ends; open ranges have none.
LimitReached ==
  /\ program.terminate /\ \E r \in program.ranges : r.end # 0
  /\ \A r \in program.ranges : kernelid > r.end

\* The callback ends the program.
Limit ==
  \E name \in Names :
    /\ (Call("launch") \/ Call("graph")) /\ LimitReached
    /\ pc' = "exit" /\ region' = Entered(name)
    /\ UNCHANGED <<program, kernelid, current, stop, receiving, file, channel, buffer, device,
                   results, executed>>

\* Not traced, a kernel runs without instrumentation.
Launch ==
  \E name \in Names, n \in 0 .. program.records :
    /\ Call("launch") /\ ~LimitReached
    /\ Enter(name) /\ pc' = "kernel"
    /\ work' = IF Entered(name) THEN <<[id |-> kernelid, left |-> n]>> ELSE <<>>
    /\ UNCHANGED <<program, channel, buffer, graph, results, executed>>

\* A launch into a stream that is captured, or a node added to a graph: the
\* callbacks are those of a launch without the wait, and nothing runs.
Capture ==
  \E name \in Names :
    /\ Call("graph") /\ ~LimitReached
    /\ Enter(name)
    /\ graph' = IF Entered(name) THEN Append(graph, kernelid) ELSE graph
    /\ UNCHANGED <<program, pc, channel, buffer, work, results, executed>>

GraphLaunch ==
  \E n \in 1 .. program.records :
    /\ Call("graph") /\ graph # <<>>
    /\ work' = [i \in DOMAIN graph |-> [id |-> graph[i], left |-> n]]
    /\ pc' = "kernel" /\ current' = [id |-> 0, name |-> ""]
    /\ UNCHANGED <<program, kernelid, region, stop, receiving, file, channel, buffer, graph,
                   results, executed>>

\* cuProfilerStart and cuProfilerStop.
Profiler ==
  /\ Call("profiler")
  /\ \E on \in BOOLEAN : region' = IF program.fromStart THEN region ELSE on
  /\ UNCHANGED <<program, pc, kernelid, current, stop, receiving, file, channel, buffer,
                 device, results, executed>>

-----------------------------------------------------------------------------
(* The GPU: instrument_inst and flush_channel                              *)
Room == Len(channel) < ChannelSize

Push ==
  /\ pc = "kernel" /\ work # <<>> /\ Head(work).left > 0 /\ Room
  /\ LET k == Head(work).id IN
       /\ channel' = Append(channel, <<k, Len(executed[k]) + 1>>)
       /\ executed' = [executed EXCEPT ![k] = Append(@, <<k, Len(@) + 1>>)]
  /\ work' = [work EXCEPT ![1].left = @ - 1]
  /\ reported' = reported + 1
  /\ UNCHANGED <<program, host, receiving, file, buffer, graph, trace, stats, closed>>

KernelEnds ==
  /\ pc = "kernel"
  /\ IF work = <<>> THEN pc' = "flush" /\ UNCHANGED work
     ELSE Head(work).left = 0 /\ work' = Tail(work) /\ UNCHANGED pc
  /\ UNCHANGED <<program, calls, kernelid, current, region, stop, receiving, file, channel,
                 buffer, graph, results, executed>>

\* The marker of the end. After a graph the program goes on at once.
Flush ==
  /\ pc = "flush" /\ Room
  /\ channel' = Append(channel, Marker)
  /\ pc' = IF current.id = 0 THEN "idle" ELSE "wait"
  /\ UNCHANGED <<program, calls, kernelid, current, region, stop, receiving, file, buffer,
                 device, results, executed>>

\* The callback does not wait.
Received_Bug == TRUE

Received == ~receiving

\* reported_dynamic_instr_counter - old_total_reported_insts, after the row.
Rebased == 0

\* leave_kernel_launch: wait for the receiving thread, then close the file.
Leave ==
  /\ pc = "wait" /\ Received
  /\ stats' = [stats EXCEPT ![current.id] = reported] /\ reported' = Rebased
  /\ closed' = IF stop THEN closed ELSE closed \cup {current.id}
  /\ region' = Left(current.name)
  /\ pc' = "idle"
  /\ UNCHANGED <<program, calls, kernelid, current, stop, receiving, file, channel, buffer,
                 device, trace, executed>>

-----------------------------------------------------------------------------
(* The receiving thread                                                    *)
Receive ==
  /\ receiving /\ buffer = <<>> /\ channel # <<>>
  /\ \E n \in 1 .. Len(channel) :
       /\ buffer' = SubSeq(channel, 1, n)
       /\ channel' = SubSeq(channel, n + 1, Len(channel))
  /\ UNCHANGED <<program, host, receiving, file, device, results, executed>>

\* What is left of the buffer behind its first record.
Remaining == Tail(buffer)

\* One record; the marker ends the kernel and the buffer.
Process ==
  /\ buffer # <<>>
  /\ IF Head(buffer) = Marker
       THEN receiving' = FALSE /\ buffer' = <<>> /\ UNCHANGED trace
       ELSE /\ buffer' = Remaining /\ UNCHANGED receiving
            /\ trace' = [trace EXCEPT ![file] = Append(@, Head(buffer))]
  /\ UNCHANGED <<program, host, file, channel, device, reported, stats, closed, executed>>

-----------------------------------------------------------------------------
TracerNext == \/ Limit \/ Launch \/ Capture \/ GraphLaunch \/ Profiler
              \/ Push \/ KernelEnds \/ Flush \/ Leave
              \/ Receive \/ Process

TracerSpec == TracerInit /\ [][TracerNext]_tracerVars

\* Kernels and callbacks go on when they can, and the receiving thread polls;
\* the program may stop calling.
TracerFairness ==
  WF_tracerVars(Push \/ KernelEnds \/ Flush \/ Leave) /\ WF_tracerVars(Receive \/ Process)

FairTracer == TracerSpec /\ TracerFairness

-----------------------------------------------------------------------------
TracerTypeOK ==
  /\ pc \in {"idle", "kernel", "flush", "wait", "exit"}
  /\ kernelid \in 1 .. (program.calls + 1) /\ calls \in 0 .. program.calls
  /\ {region, stop, receiving} \subseteq BOOLEAN
  /\ ToSet(channel) \cup ToSet(buffer) \subseteq (Ids \X Nat) \cup {Marker}
  /\ Len(channel) <= ChannelSize /\ file \in 0 .. program.calls
  /\ closed \subseteq Ids /\ reported \in Nat

\* A complete file holds the records of its kernel, all of them and no other.
FilesExact == \A k \in closed : trace[k] = executed[k]

\* Between two calls nothing is on the way: no record of a kernel waits for
\* the file of another. A launch of a graph does not wait (tracer_tool.cu:799),
\* and a capture starts the receiving thread for it.
QuietBetweenCalls ==
  pc = "idle" /\ graph = <<>> =>
    channel = <<>> /\ buffer = <<>> /\ (receiving => "graph" \in program.kinds)

\* The row of a traced kernel counts its instructions.
StatsExact == \A k \in closed : stats[k] = Len(executed[k])

\* A kernel is traced exactly when a range selects it, where no profiler
\* calls do.
SelectedExactly ==
  program.fromStart /\ pc = "kernel" /\ current.id # 0 =>
    (~stop <=> ShouldTrace(current.id, current.name))

\* The tracer ends the program only when no later kernel is selected.
ExitAfterLast ==
  pc = "exit" => \A id \in kernelid .. (program.calls + 1), name \in Names :
                   ~ShouldTrace(id, name)

\* The files come out complete in the end.
FilesComplete == <>[](trace = executed)

\* Every call returns.
CallsReturn == (pc # "idle") ~> (pc \in {"idle", "exit"})
\* The records of a kernel reach its file, its statistics and no other's,
\* although calls, flush and receiving thread interleave.
TracerInv == TracerTypeOK /\ FilesExact /\ QuietBetweenCalls /\ StatsExact
               /\ SelectedExactly /\ ExitAfterLast

\* The traced program is never held for ever, and its files are complete.
TracerEnds == FilesComplete /\ CallsReturn
=============================================================================
